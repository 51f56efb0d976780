---------------------------- MODULE MCServerList ----------------------------
(***************************************************************************)
(* Small instances of ServerList for TLC: addresses 0 (unresolved), 1 and  *)
(* 2, ports 0..3 where 3 stands for 65535, a hash of two buckets.          *)
(***************************************************************************)
EXTENDS ServerList

A(a, l, h) == [ip |-> a, lo |-> l, hi |-> h, type |-> "q"]

\* A range up to the largest port and a duplicate; one host not found between
\* two that are; an empty range and port 0; a host not found alone.
MCCmdLines == {
  <<A(1, 2, 3), A(1, 3, 3)>>,
  <<A(1, 1, 1), A(0, 2, 2), A(2, 1, 1)>>,
  <<A(2, 3, 1), A(1, 0, 1), A(2, 1, 1)>>,
  <<A(0, 1, 1), A(1, 1, 1)>> }

\* -allowserverdups only with -sort l: two servers of one address either way.
MCOptions == [noserverdups : {TRUE}, sort : {"none", "keys"}]
               \cup [noserverdups : {FALSE}, sort : {"listed"}]

DefaultOptions == [noserverdups : {TRUE}, sort : {"none"}]

MCDiscovered == {<<1, 1, "q">>, <<1, 2, "q">>, <<2, 2, "q">>}

\* The second host does not resolve and is given with two ports.
UnresolvedCmdLines == {<<A(1, 1, 1), A(0, 1, 2)>>}

=============================================================================

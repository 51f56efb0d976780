------------------------------ MODULE Registry ------------------------------
(***************************************************************************)
(* What the server list promises: servers are remembered in the order they *)
(* are added, each once; any of them can be dropped, which leaves the      *)
(* order of the others as it was; the ones with an address are indexed by  *)
(* it while, and only while, they are remembered.                          *)
(***************************************************************************)
EXTENDS Naturals, Sequences

CONSTANT Servers

VARIABLES
  registry,    \* the servers, oldest first
  index        \* the servers that can be found by address

Members == {registry[i] : i \in DOMAIN registry}

Init == registry = <<>> /\ index = {}

Add(s) ==
  /\ s \notin Members
  /\ registry' = Append(registry, s)
  /\ index' \in {index, index \cup {s}}

Drop(i) ==
  /\ registry' = SubSeq(registry, 1, i - 1) \o SubSeq(registry, i + 1, Len(registry))
  /\ index' = index \ {registry[i]}

Next == (\E s \in Servers : Add(s)) \/ (\E i \in DOMAIN registry : Drop(i))

Spec == Init /\ [][Next]_<<registry, index>>

=============================================================================

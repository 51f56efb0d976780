---------------------------- MODULE MCHostCache ----------------------------
EXTENDS HostCache

\* Three names of one address, one of another, and one nobody knows.
MCHosts == {"a", "b", "c", "d", "e"}
MCAddresses == {1, 2}
Address == [h \in MCHosts |-> CASE h \in {"a", "b", "c"} -> 1 [] h = "d" -> 2 [] h = "e" -> 0]
Resolver(names, unlisted) == [address |-> Address, names |-> names, unlisted |-> unlisted]
MCResolvers ==
  { Resolver(<<<<"a">>, <<"d">>>>, {}),
    Resolver(<<<<"c", "b">>, <<"d">>>>, {1, 2}) }
MCFiles ==
  { <<>>,
    <<[ip |-> 2, names |-> <<"d">>], [ip |-> 1, names |-> <<>>]>>,
    <<[ip |-> 1, names |-> <<"b", "a">>]>> }
=============================================================================

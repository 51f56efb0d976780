----------------------------- MODULE MCSorting -----------------------------
EXTENDS Sorting

MCIntMax == 3

\* Servers that tie in one key and not in another, that were sent nothing, and that
\* say they have any number of players.
AServer(ping, requests, players, ip) ==
  [game |-> 0, host |-> 3 - ip, ip |-> ip, port |-> ip, ping |-> ping, requests |-> requests,
   players |-> players]
MCServers == {AServer(1, 1, 0, 1), AServer(1, 2, 3, 2), AServer(2, 0, -4, 3), AServer(0, 0, 2, 1)}

APlayer(ping, frags, name) ==
  [ping |-> ping, frags |-> frags, score |-> -frags, team |-> 0, teamName |-> 0, name |-> name,
   number |-> frags, isTeam |-> FALSE]
MCPlayers == {APlayer(3, 0, 1), APlayer(-4, 1, 2), APlayer(1, 0, 2)}
ATeam == [APlayer(0, 0, 1) EXCEPT !.isTeam = TRUE]

MCItems == MCServers \cup MCPlayers \cup {ATeam}

SeqsOf(S, n) == UNION {[1 .. m -> S] : m \in 0 .. n}
Job(job, keys, list, players) ==
  [job |-> job, keys |-> keys, list |-> list, numPlayers |-> players, spectators |-> 0]
MCInputs ==
  {Job("servers", keys, list, 0) : keys \in {<<"p", "i">>, <<"n">>, <<"g", "p">>, <<"h">>},
                                   list \in SeqsOf(MCServers, 4)}
    \cup {Job("players", keys, teams \o list, Len(list)) :
            keys \in {<<"P">>, <<"F", "N">>, <<"l", "S">>}, teams \in {<<>>, <<ATeam>>},
            list \in SeqsOf(MCPlayers, 3)}
    \cup {Job("players", <<"F">>, list, players) : list \in SeqsOf(MCPlayers, 3), players \in {0, 2}}
=============================================================================

------------------------------ MODULE QServer ------------------------------
(***************************************************************************)
(* One struct qserver as the packet handlers see it: the send functions    *)
(* with their retry counters, and the part of cleanup_qserver and          *)
(* process_func_ret that decides its fate.                                 *)
(*                                                                         *)
(* The functions are operators from a query to a query, so that a handler  *)
(* reads as the calls it makes.  Scheduler.tla has the same functions as   *)
(* actions on all servers at once, with handlers reduced to their effects. *)
(***************************************************************************)
EXTENDS Packets, TypeTable

CONSTANTS NRetries  \* n_retries

ASSUME QServerAssumption == NRetries \in Nat \ {0}

\* NO_PLAYER_INFO: more than any number of players.
NoPlayerInfo == 99

\* What the handlers keep in master_query_tag, challenge, n_servers and the
\* counters of saved_data, and the type, which a handler may change.
NewStatus(type) ==
  [type |-> type, format |-> 0, wide |-> FALSE, challenge |-> 0, haveChallenge |-> FALSE, sentInfo |-> FALSE,
   haveInfo |-> FALSE, havePlayer |-> FALSE, haveRules |-> FALSE, step |-> 0, left |-> 0, mask |-> {}]

\* init_qserver.  elapsed and elapsed2 count the retry intervals since
\* packet_time1 and packet_time2; found is master_pkt, what a master has listed.
NewServer(type, want) ==
  [name |-> "none", open |-> TRUE, retry1 |-> NRetries, retry2 |-> NRetries, retries |-> 0,
   elapsed |-> 0, elapsed2 |-> NRetries + 2,
   rule |-> "rules" \in want, missing |-> FALSE,
   nextPlayer |-> IF "players" \in want /\ HasPacket(type, "player") THEN 0 ELSE NoPlayerInfo,
   numPlayers |-> 0, players |-> <<>>, found |-> <<>>, hasFound |-> FALSE,
   saved |-> <<>>, want |-> want, status |-> NewStatus(type)]

\* -R, -P
RulesWanted(s) == "rules" \in s.want
PlayersWanted(s) == "players" \in s.want

\* qserver_send_initial: a failed send costs a retry too.
SendInitial(s) ==
  IF s.retry1 = NRetries THEN [s EXCEPT !.elapsed = 0, !.retry1 = @ - 1]
  ELSE [s EXCEPT !.retries = @ + 1, !.retry1 = @ - 1]

\* qserver_send
QServerSend(s) == [s EXCEPT !.elapsed = 0, !.retry1 = NRetries - 1]

\* register_send, reached by send_packet only when the send succeeded.
RegisterSend(s) ==
  [s EXCEPT !.elapsed = 0, !.retry1 = @ - 1,
            !.retries = IF s.retry1 = NRetries THEN @ ELSE @ + 1]

\* cleanup_qserver: what becomes of the server's name, and whether it closes.
MustCloseOne(s, force) ==
  \/ force \/ s.name = "none" \/ HasFlag(s.status.type, "SINGLE_QUERY")
  \/ ~s.rule /\ s.nextPlayer >= s.numPlayers
\* Mutant: to be closed by force is to have timed out.
CleanupTimesOut(s, force) ==
  IF ~MustCloseOne(s, force) THEN s
  ELSE [s EXCEPT !.name = IF @ = "none" \/ force THEN "TIMEOUT" ELSE @, !.open = FALSE,
                 !.saved = <<>>]

CleanupOne(s, force) ==
  IF ~MustCloseOne(s, force) THEN s
  ELSE [s EXCEPT !.name = IF @ # "none" THEN @
                          ELSE IF IsMaster(s.status.type) /\ s.hasFound THEN "MASTER"
                          ELSE "TIMEOUT",
                 !.open = FALSE, !.saved = <<>>]

Errors == {"SYS_ERROR", "MEM_ERROR", "PKT_ERROR", "ORD_ERROR", "REQ_ERROR"}

\* process_func_ret, for a result [s, ret, out].
Fate(result) ==
  CASE result.ret = "INPROGRESS" -> result.s
    [] result.ret = "DONE_AUTO"  -> CleanupOne(result.s, FALSE)
    [] result.ret \in Errors \cup {"DONE_FORCE"} -> CleanupOne(result.s, TRUE)

\* What a handler or query function leaves: the server, the value returned
\* and the requests that went out.
Ends(s, ret) == [s |-> s, ret |-> ret, out |-> <<>>]
Asks(s, ret, request) == [s |-> s, ret |-> ret, out |-> <<request>>]

\* A request: what it asks for, the challenge it carries, and which of the details
\* it wants in the same answer.
Request(kind, challenge) == [kind |-> kind, challenge |-> challenge, details |-> {}]
RequestWith(kind, details) == [kind |-> kind, challenge |-> 0, details |-> details]
NoChallenge == 0
AnyChallenge == -1

\* The handler returns ret, whatever the query function it called returned.
Returns(result, ret) == [result EXCEPT !.ret = ret]

\* The second query function is called with what the first left behind.
After(first, second) == [second EXCEPT !.out = first.out \o @]

\* send_packet with the request.
SendPacket(s, ok, request) ==
  IF ok THEN Asks(RegisterSend(s), "INPROGRESS", request) ELSE Ends(s, "SYS_ERROR")

\* qserver_send_initial and qserver_send with the request.
SendsInitial(s, ok, request) ==
  IF ok THEN Asks(SendInitial(s), "INPROGRESS", request) ELSE Ends(SendInitial(s), "SYS_ERROR")
Sends(s, ok, request) ==
  IF ok THEN Asks(QServerSend(s), "INPROGRESS", request) ELSE Ends(QServerSend(s), "SYS_ERROR")

\* What sends of their own in qstat.c and doom3.c do after send succeeded.
Counted1(s) ==
  [s EXCEPT !.elapsed = IF s.retry1 = NRetries THEN 0 ELSE @,
            !.retries = IF s.retry1 # NRetries /\ s.name = "none" THEN @ + 1 ELSE @,
            !.retry1 = @ - 1]

\* send_rule_request_packet for a type without rule_query_func.  A Quake server
\* is asked for the rule after the one in next_rule; a type without rule_packet is
\* sent a datagram with nothing in it.
RuleQuery(s, ok) ==
  IF ~ok THEN Ends(s, "SYS_ERROR")
  ELSE IF HasPacket(s.status.type, "rule")
  THEN Asks(Counted1(s), "DONE_AUTO", Request("rules", s.status.step))
  ELSE Ends(Counted1(s), "DONE_AUTO")

\* send_player_request_packet.  Quake servers are asked for one player.
PlayerAsked(s) == IF ServerType[s.status.type].handler = "q" THEN s.nextPlayer ELSE NoChallenge
PlayerQuery(s, ok) ==
  IF ~HasPacket(s.status.type, "player") THEN Ends(s, "INPROGRESS")
  ELSE IF ~ok THEN Ends(s, "SYS_ERROR")
  ELSE Asks([s EXCEPT !.elapsed2 = IF s.retry2 = NRetries THEN 0 ELSE @,
                      !.retries = IF s.retry2 = NRetries THEN @ ELSE @ + 1,
                      !.retry2 = @ - 1],
            "DONE_AUTO", Request("players", PlayerAsked(s)))

\* add_player refuses a number that is on the list already.
AddPlayer(s, number) ==
  IF \E k \in DOMAIN s.players : s.players[k] = number THEN s
  ELSE [s EXCEPT !.players = Append(@, number)]

\* What the bytes of a combined response say: fragments of the same reply, in
\* order, are that reply.
Reassembled(data) ==
  IF \A p \in DOMAIN data : /\ data[p].part = p /\ data[p].parts = Len(data)
                            /\ data[p].message = data[1].message
  THEN data[1].message ELSE [kind |-> "garbled"]

\* send_packets for one server: has the wait before the next retry passed, for
\* the server and its rules, and for its players?
Due(s) == s.elapsed >= NRetries - s.retry1 + 1
WaitsOne(s) == s.retry1 # NRetries /\ ~Due(s)
WaitsTwo(s) == s.retry2 # NRetries /\ s.elapsed2 < NRetries - s.retry2 + 1
=============================================================================

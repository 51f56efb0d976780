----------------------------- MODULE Scheduler -----------------------------
(***************************************************************************)
(* The query engine of qstat.c: do_work's loop over bind_sockets, poll,    *)
(* recvfrom, the packet handlers and send_packets, with cleanup_qserver    *)
(* and add_servers_from_masters beneath them, over the server list of      *)
(* ServerList.tla.                                                         *)
(*                                                                         *)
(* qstat is one thread.  What interleaves is the call stack: a handler may *)
(* close a server, the close of the last master adds servers and calls     *)
(* bind_sockets, and that may be running already one call further up, with *)
(* a pointer to a server in hand.  `stack' is that call stack; each frame  *)
(* holds the locals of one running function.  The network, the clock and   *)
(* the kernel choose which sockets are ready, what a reply says, which     *)
(* system call fails and when a retry interval is over.                    *)
(***************************************************************************)
EXTENDS ServerList, Integers

CONSTANTS
  MaxSimultaneous,  \* max_simultaneous
  NRetries,         \* n_retries
  TcpTypes,         \* types with TF_TCP_CONNECT
  SingleTypes,      \* types with TF_SINGLE_QUERY
  MasterTypes,      \* types with a `master' field
  MultiMasters,     \* of those, the ones with TF_MASTER_MULTI_RESPONSE
  Q1Types, Q3Types, \* types served by deal_with_q_packet, and -q3s
  BroadcastIps,     \* addresses given with a leading '+'
  MaxPlayers,       \* bound on num_players
  MaxReport,        \* bound on the addresses in one master packet
  Scenarios         \* what is run: command line, sorting, -R, -P, what may
                    \* fail, and a bound on the replies and EMFILE failures

\* What a scenario lets go wrong: "emfile" (no descriptor left), "connect"
\* (bind or connect fails), "send" (send fails), "refused" (recvfrom reports a
\* refused connection), "timeout" (-timeout is set and may strike); "sync" is
\* -syncconnect.
FaultKinds == {"emfile", "connect", "send", "refused", "timeout", "sync"}

ASSUME SchedulerAssumption ==
  /\ MaxSimultaneous \in Nat \ {0} /\ NRetries \in Nat \ {0}
  /\ TcpTypes \subseteq Types /\ SingleTypes \subseteq Types /\ Q1Types \subseteq Types
  /\ Q3Types \subseteq Types /\ MultiMasters \subseteq MasterTypes /\ MasterTypes \subseteq Types
  /\ BroadcastIps \subseteq Ips
  /\ MaxPlayers \in Nat /\ MaxReport \in Nat
  /\ Scenarios \subseteq [cmdline : CmdLines, sort : {"none", "listed", "keys"},
                          rules : BOOLEAN, players : BOOLEAN,
                          faults : SUBSET FaultKinds, budget : Nat]

VARIABLES
  setup,               \* the scenario of this run
  q,                   \* the query state of each struct qserver
  connmap,             \* connmap: descriptor -> server
  connected,           \* connected
  waiting,             \* waiting_for_masters
  returned, timedOut,  \* num_servers_returned, num_servers_timed_out
  main, stack,         \* where do_work is; the calls it is in
  polled, buffer,      \* descriptors left to read; buffered packets
  bindRetry,           \* bind_retry
  due1, due2,          \* servers whose wait since packet_time1/2 is over
  recent,              \* is t_lastsend less than sendinterval ago?
  budget,              \* what the network and kernel may still do
  asked, closed        \* history: status queries sent; servers closed

counters == <<connected, waiting, returned, timedOut>>
clock    == <<due1, due2, recent>>
input    == <<polled, buffer, bindRetry>>
history  == <<asked, closed>>
state    == <<q, connmap, counters, history>>
all      == <<vars, setup, state, main, stack, input, clock, budget>>

NoName == "none"

GetRules   == setup.rules    \* get_server_rules
GetPlayers == setup.players  \* get_player_info
Fault(kind) == kind \in setup.faults

\* init_qserver: the query state of a new struct.
NewQuery(a) ==
  [name |-> IF a = 0 THEN "HOSTNOTFOUND" ELSE NoName, fd |-> 0, state |-> "init",
   retry1 |-> IF a \in BroadcastIps THEN 1 ELSE NRetries,
   retry2 |-> IF a \in BroadcastIps THEN 1 ELSE NRetries,
   rules |-> GetRules, players |-> 0, heard |-> FALSE, report |-> 0]

InitScheduler ==
  /\ InitList
  /\ setup \in Scenarios
  /\ cmdline = setup.cmdline /\ options.sort = setup.sort
  /\ q = [s \in Ids |-> NewQuery(0)]
  /\ connmap = [f \in Ids |-> 0]
  /\ connected = 0 /\ waiting = 0 /\ returned = 0 /\ timedOut = 0
  /\ main = "start" /\ stack = <<>>
  /\ polled = {} /\ buffer = <<>> /\ bindRetry = 0
  /\ due1 = {} /\ due2 = {} /\ recent = FALSE
  /\ budget = setup.budget
  /\ asked = [s \in Ids |-> 0] /\ closed = {}

Is(s, types) == type[s] \in types
Broadcast(s) == ip[s] \in BroadcastIps
Open == {s \in live : q[s].fd # 0}

\* The kernel hands out the lowest free descriptor.
FreeFd == CHOOSE f \in Ids : /\ \A s \in Open : q[s].fd # f
                             /\ \A g \in 1 .. f - 1 : \E s \in Open : q[s].fd = g

-----------------------------------------------------------------------------
\* The call stack.

Top == Head(stack)
In(pc) == phase = "work" /\ stack # <<>> /\ Top.pc = pc
Go(frame) == stack' = <<frame>> \o Tail(stack)
Call(frame, after) == stack' = <<frame, after>> \o Tail(stack)
Return == stack' = Tail(stack)

BindCall == [pc |-> "bind"]
SendCall == [pc |-> "send", i |-> 0]
Cleanup(s, force) == [pc |-> "cleanup", s |-> s, force |-> force]

\* Steps of do_work itself.
At(pc) == phase = "work" /\ stack = <<>> /\ main = pc

\* The steps on the list that only move a bind cursor.
\* Mutant: the next server is remembered.
MoveLastBindPast(s) ==
  /\ lastBind' = IF s = 0 THEN 0 ELSE next[s]
  /\ UNCHANGED <<options, phase, cmdline, adding, live, count, fields, list, hash, firstBind,
                 numServers, numTotal, finish>>

MoveLastBind(s) ==
  /\ lastBind' = s
  /\ UNCHANGED <<options, phase, cmdline, adding, live, count, fields, list, hash, firstBind,
                 numServers, numTotal, finish>>

MoveFirstBind(s) ==
  /\ firstBind' = s
  /\ UNCHANGED <<options, phase, cmdline, adding, live, count, fields, list, hash, lastBind,
                 numServers, numTotal, finish>>

-----------------------------------------------------------------------------
\* Sending.

Sends == IF Fault("send") THEN BOOLEAN ELSE {TRUE}

\* Mutant: the first query costs no retry.
StatusQueryFree(s, r, sent) ==
  /\ q' = [q EXCEPT ![s] = IF sent /\ r.retry1 # NRetries THEN [r EXCEPT !.retry1 = @ - 1] ELSE r]
  /\ asked' = IF sent THEN [asked EXCEPT ![s] = @ + 1] ELSE asked
  /\ due1' = due1 \ {s} /\ recent' = TRUE /\ UNCHANGED due2

\* The status query: send_packet and register_send, or what
\* send_qwserver_request_packet does in their place.  A send that fails changes
\* nothing, and process_func_ret closes the server.
StatusQuery(s, r, sent) ==
  /\ q' = [q EXCEPT ![s] = IF sent THEN [r EXCEPT !.retry1 = @ - 1] ELSE r]
  /\ asked' = IF sent THEN [asked EXCEPT ![s] = @ + 1] ELSE asked
  /\ due1' = due1 \ {s} /\ recent' = TRUE /\ UNCHANGED due2

\* send_rule_request_packet (and a master's next page) and
\* send_player_request_packet on an open socket: a failed send costs no retry.
Request1Free(r, sent) == r \* Mutant: no retry is used up.
Request1(r, sent) == IF sent THEN [r EXCEPT !.retry1 = @ - 1] ELSE r
Request2(r, sent) == IF sent THEN [r EXCEPT !.retry2 = @ - 1] ELSE r

-----------------------------------------------------------------------------
\* bind_sockets.

Throttled == connected # 0 /\ recent

\* The entry: nothing within sendinterval of the last send; otherwise on from
\* last_server_bind, or from the first server while masters are awaited.
BindSockets ==
  /\ In("bind")
  /\ LET resume == IF lastBind = 0 THEN servers ELSE lastBind
         from == IF Throttled THEN 0 ELSE IF waiting = 0 THEN resume ELSE servers
     IN  /\ Go([pc |-> "walk", s |-> from, nxt |-> 0, first |-> from, last |-> 0,
                inprogress |-> 0, retries |-> 0])
         /\ MoveLastBind(IF waiting = 0 /\ ~Throttled THEN resume ELSE lastBind)
  /\ UNCHANGED <<setup, state, main, input, clock, budget>>

\* Mutant: one too many.
WalkingMore == In("walk") /\ Top.s # 0 /\ connected <= MaxSimultaneous

Walking == In("walk") /\ Top.s # 0 /\ connected < MaxSimultaneous

\* Mutant: game servers are not held back.
WantedEarly(s) == q[s].name = NoName /\ q[s].fd = 0

Wanted(s) == q[s].name = NoName /\ q[s].fd = 0 /\ (waiting = 0 \/ Is(s, MasterTypes))

WalkOn == [Top EXCEPT !.s = next[Top.s]]

SkipServer ==
  /\ Walking /\ Top.s \in live /\ ~Wanted(Top.s)
  /\ Go(WalkOn)
  /\ UNCHANGED <<vars, setup, state, main, input, clock, budget>>

\* bind_qserver2's results: 0 bound, -3 connecting, -2 no descriptor, -1 failed.
BindResults(s) ==
  {0} \cup (IF Is(s, TcpTypes) /\ ~Fault("sync") THEN {-3} ELSE {})
      \cup (IF Fault("emfile") /\ budget > 0 THEN {-2} ELSE {})
      \cup (IF Fault("connect") THEN {-1} ELSE {})

\* Bound: the status query goes out, or fails and the server is closed first.
BindDone(s) ==
  \E sent \in Sends :
    /\ StatusQuery(s, [q[s] EXCEPT !.fd = FreeFd, !.state = "connected"], sent)
    /\ connmap' = [connmap EXCEPT ![FreeFd] = s]
    /\ LET after == [Top EXCEPT !.pc = "bound"]
       IN  IF sent THEN Go(after) ELSE Call(Cleanup(s, TRUE), after)
    /\ UNCHANGED <<counters, closed, budget>>

\* Mutant: only finished connections are counted.
BindPendingUncounted(s) ==
  /\ q' = [q EXCEPT ![s].fd = FreeFd, ![s].state = "connecting"]
  /\ due1' = due1 \ {s}
  /\ Go([WalkOn EXCEPT !.inprogress = @ + 1])
  /\ UNCHANGED <<connmap, counters, due2, recent, history, budget>>

\* Connecting: counted as connected from here on.
BindPending(s) ==
  /\ q' = [q EXCEPT ![s].fd = FreeFd, ![s].state = "connecting"]
  /\ connected' = connected + 1
  /\ due1' = due1 \ {s}
  /\ Go([WalkOn EXCEPT !.inprogress = @ + 1])
  /\ UNCHANGED <<connmap, waiting, returned, timedOut, due2, recent, history, budget>>

\* No descriptor: at the third time bind_sockets gives up with -2.
BindNoDescriptor ==
  /\ budget' = budget - 1
  /\ IF Top.retries = 2
     THEN Go([Top EXCEPT !.pc = "result", !.last = Top.s])
     ELSE Go([WalkOn EXCEPT !.retries = @ + 1])
  /\ UNCHANGED <<state, clock>>

\* Mutant: the next server is looked up after the cleanup.
BindFailedStays(s) ==
  /\ q' = [q EXCEPT ![s].name = "SYSERROR"]
  /\ Call(Cleanup(s, TRUE), Top)
  /\ UNCHANGED <<connmap, counters, clock, history, budget>>

\* Failed: the socket is closed again.  With -syncconnect a refused TCP
\* connection comes from connected_qserver, which takes one off `connected'.
BindFailed(s) ==
  /\ q' = [q EXCEPT ![s].name = "SYSERROR"]
  /\ connected' = IF Is(s, TcpTypes) /\ Fault("sync") THEN connected - 1 ELSE connected
  /\ Call(Cleanup(s, TRUE), WalkOn)
  /\ UNCHANGED <<connmap, waiting, returned, timedOut, clock, history, budget>>

BindServer ==
  /\ Walking /\ Top.s \in live /\ Wanted(Top.s)
  /\ \E rc \in BindResults(Top.s) :
       \/ rc = 0 /\ BindDone(Top.s)
       \/ rc = -3 /\ BindPending(Top.s)
       \/ rc = -2 /\ BindNoDescriptor
       \/ rc = -1 /\ BindFailed(Top.s)
  /\ UNCHANGED <<vars, setup, main, input>>

\* After a status query the server counts, is remembered and the loop is left.
Bound ==
  /\ In("bound")
  /\ connected' = connected + 1
  /\ MoveLastBind(IF waiting = 0 THEN Top.s ELSE lastBind)
  /\ Go([Top EXCEPT !.pc = "pass", !.last = Top.s, !.s = Top.s])
  /\ UNCHANGED <<setup, q, connmap, waiting, returned, timedOut, history, main, input, clock,
                 budget>>

EndWalk ==
  /\ In("walk") /\ ~Walking
  /\ Go([Top EXCEPT !.pc = "pass", !.last = Top.s])
  /\ UNCHANGED <<vars, setup, state, main, input, clock, budget>>

\* The loop that waits for all connections: pass after pass from first_server to
\* last_server until none is in progress.
EndPass ==
  /\ In("pass") /\ Top.s = Top.last
  /\ IF Top.inprogress > 0
     THEN Go([Top EXCEPT !.s = Top.first, !.inprogress = 0])
     ELSE Go([Top EXCEPT !.pc = "result"])
  /\ UNCHANGED <<vars, setup, state, main, input, clock, budget>>

Passing == In("pass") /\ Top.s # Top.last /\ Top.s \in live

PassServer ==
  /\ Passing /\ q[Top.s].state # "connecting"
  /\ Go(WalkOn)
  /\ UNCHANGED <<vars, setup, state, main, input, clock, budget>>

\* connected_qserver, polling: connected, and the status query goes out.
ConnectDone(s) ==
  \E sent \in Sends :
    /\ StatusQuery(s, [q[s] EXCEPT !.state = "connected"], sent)
    /\ connmap' = [connmap EXCEPT ![q[s].fd] = s]
    /\ LET after == [Top EXCEPT !.pc = "joined", !.nxt = next[s]]
       IN  IF sent THEN Go(after) ELSE Call(Cleanup(s, TRUE), after)
    /\ UNCHANGED <<counters, closed, budget>>

\* Still connecting, and still in time.
ConnectWaits(s) ==
  /\ s \notin due1
  /\ Go([WalkOn EXCEPT !.inprogress = @ + 1])
  /\ UNCHANGED <<state, clock, budget>>

\* Out of time, or refused.
ConnectFails(s) ==
  /\ \E name \in {"TIMEOUT", "SYSERROR"} :
       /\ IF name = "TIMEOUT" THEN s \in due1 ELSE Fault("connect")
       /\ q' = [q EXCEPT ![s].name = name, ![s].state = "failed", ![s].fd = 0]
  /\ connected' = connected - 1
  /\ Call(Cleanup(s, TRUE), WalkOn)
  /\ UNCHANGED <<connmap, waiting, returned, timedOut, clock, history, budget>>

ConnectServer ==
  /\ Passing /\ q[Top.s].state = "connecting"
  /\ ConnectDone(Top.s) \/ ConnectWaits(Top.s) \/ ConnectFails(Top.s)
  /\ UNCHANGED <<vars, setup, main, input>>

Joined ==
  /\ In("joined")
  /\ MoveLastBind(IF waiting = 0 THEN Top.s ELSE lastBind)
  /\ Go([Top EXCEPT !.pc = "pass", !.s = Top.nxt])
  /\ UNCHANGED <<setup, state, main, input, clock, budget>>

\* Mutant: descriptors that ran out are no reason to come back.
LaterEnded == Top.last # 0

\* "Retry later, more to process".
Later == Top.last # 0 \/ (connected = 0 /\ Top.retries > 0)

\* The result of bind_sockets; only do_work looks at it.
BindReturns ==
  /\ In("result")
  /\ bindRetry' = IF Len(stack) > 1 THEN bindRetry ELSE IF Later THEN -2 ELSE 0
  /\ Return
  /\ UNCHANGED <<vars, setup, state, main, polled, buffer, clock, budget>>

BindLoop == BindSockets \/ SkipServer \/ BindServer \/ Bound \/ EndWalk \/ EndPass
              \/ PassServer \/ ConnectServer \/ Joined \/ BindReturns

-----------------------------------------------------------------------------
\* cleanup_qserver and add_servers_from_masters.

\* A server without a name is closed in any case, and named.
ClosedName(s) ==
  IF q[s].name # NoName THEN q[s].name
  ELSE IF Is(s, MasterTypes) /\ q[s].heard THEN "MASTER" ELSE "TIMEOUT"

MustClose(s, force) ==
  \/ force \/ q[s].name = NoName \/ Is(s, SingleTypes)
  \/ ~q[s].rules /\ q[s].players = 0

\* Mutants: a server that is down is not counted; the reports are used after the
\* master is displayed.
ReturnedUp(name) == name \notin {"TIMEOUT", "DOWN"}
AddAfterDisplay(add, show) == Call(show, add)

Returned(name) == name # "TIMEOUT"
MastersLeft(s) == IF Is(s, MasterTypes) THEN waiting - 1 ELSE waiting
AddThenDisplay(add, show) == Call(add, show)

CleanupKeeps ==
  /\ In("cleanup") /\ Top.s \in live /\ ~MustClose(Top.s, Top.force)
  /\ Return
  /\ UNCHANGED <<vars, setup, state, main, input, clock, budget>>

\* The socket is closed, the server counted; the last master's end has the
\* reported servers added before the server itself is displayed.
CleanupCloses ==
  /\ In("cleanup") /\ Top.s \in live /\ MustClose(Top.s, Top.force)
  /\ LET s == Top.s
         show == [pc |-> "display", s |-> s]
     IN  /\ q' = [q EXCEPT ![s].name = ClosedName(s), ![s].fd = 0]
         /\ connmap' = IF q[s].fd = 0 THEN connmap ELSE [connmap EXCEPT ![q[s].fd] = 0]
         /\ connected' = IF q[s].fd = 0 THEN connected ELSE connected - 1
         /\ returned' = IF Returned(ClosedName(s)) THEN returned + 1 ELSE returned
         /\ timedOut' = IF q[s].name = NoName /\ ClosedName(s) = "TIMEOUT"
                        THEN timedOut + 1 ELSE timedOut
         /\ waiting' = MastersLeft(s)
         /\ closed' = closed \cup {s}
         /\ IF Is(s, MasterTypes) /\ waiting = 1
            THEN AddThenDisplay([pc |-> "masters", s |-> servers], show)
            ELSE Go(show)
  /\ UNCHANGED <<vars, setup, asked, main, input, clock, budget>>

\* display_server, and with it free_server, unless the output is sorted.
DisplayClosed ==
  /\ In("display") /\ Top.s \in live
  /\ IF Sort = "none" THEN CloseServer(Top.s) ELSE UNCHANGED vars
  /\ Return
  /\ UNCHANGED <<setup, state, main, input, clock, budget>>

\* add_servers_from_masters: one address of one master's packet, or the next
\* server, or at the end of the list bind_sockets.
AddReported ==
  /\ In("masters") /\ Top.s # 0
  /\ Is(Top.s, MasterTypes) /\ q[Top.s].heard /\ q[Top.s].report > 0
  /\ \E d \in Discovered :
       IF d[1] = 0 \/ FindServerByAddress(d[1], d[2]) # 0
       THEN q' = [q EXCEPT ![Top.s].report = @ - 1] /\ UNCHANGED vars
       ELSE /\ AddByAddr(d[1], d[2], d[3])
            /\ q' = [q EXCEPT ![Top.s].report = @ - 1, ![count + 1] = NewQuery(d[1])]
  /\ UNCHANGED <<setup, connmap, counters, history, main, stack, input, clock, budget>>

NextMaster ==
  /\ In("masters") /\ Top.s # 0
  /\ Is(Top.s, MasterTypes) /\ q[Top.s].heard => q[Top.s].report = 0
  /\ q' = [q EXCEPT ![Top.s].heard = FALSE]
  /\ Go(WalkOn)
  /\ UNCHANGED <<vars, setup, connmap, counters, history, main, input, clock, budget>>

MastersAdded ==
  /\ In("masters") /\ Top.s = 0
  /\ Go(BindCall)
  /\ UNCHANGED <<vars, setup, state, main, input, clock, budget>>

CleanupServer == CleanupKeeps \/ CleanupCloses \/ DisplayClosed
                   \/ AddReported \/ NextMaster \/ MastersAdded

-----------------------------------------------------------------------------
\* send_packets: one turn per descriptor.

NextFd(i) == LET m == {f \in Ids : f > i /\ connmap[f] # 0}
             IN  IF m = {} THEN 0 ELSE CHOOSE f \in m : \A g \in m : f <= g

SendServer == connmap[NextFd(Top.i)]

Sending == In("send") /\ NextFd(Top.i) # 0 /\ (Top.i = 0 => ~Throttled)
SendOn == [Top EXCEPT !.i = NextFd(Top.i)]

EndSend ==
  /\ In("send") /\ ~Sending
  /\ Return
  /\ UNCHANGED <<vars, setup, state, main, input, clock, budget>>

\* A retry was made, and the wait for its answer is not over.
Waits1(s) == q[s].retry1 # NRetries /\ s \notin due1
Waits2(s) == q[s].retry2 # NRetries /\ s \notin due2

Skips(s) == (q[s].name = NoName \/ q[s].rules) /\ Waits1(s)

\* Mutant: one packet too early.
GivesUpEarly(s) == q[s].name = NoName /\ ~Waits1(s) /\ q[s].retry1 < 2

\* A server that has not answered, nor has it retries left.
GivesUp(s) == q[s].name = NoName /\ ~Waits1(s) /\ q[s].retry1 < 1

Requery(s) == q[s].name = NoName /\ ~Waits1(s) /\ q[s].retry1 >= 1
                /\ s \in due1 /\ ~Is(s, TcpTypes)

\* Mutant: the test for the last retry misses it.
DropsPlayerLate(s) == q[s].retry2 < 0

\* No more retries for a player.
DropsPlayer(s) == q[s].retry2 = 0

SendWaits ==
  /\ Sending /\ Skips(SendServer)
  /\ Go(SendOn)
  /\ UNCHANGED <<vars, setup, state, main, input, clock, budget>>

SendGivesUp ==
  /\ Sending /\ GivesUp(SendServer)
  /\ Call(Cleanup(SendServer, TRUE), SendOn)
  /\ UNCHANGED <<vars, setup, state, main, input, clock, budget>>

SendAgain ==
  /\ Sending /\ Requery(SendServer)
  /\ \E sent \in Sends :
       /\ StatusQuery(SendServer, q[SendServer], sent)
       /\ IF sent THEN Go(SendOn) ELSE Call(Cleanup(SendServer, TRUE), SendOn)
  /\ UNCHANGED <<vars, setup, connmap, counters, closed, main, input, budget>>

\* No more retries for the rules: what is missing stays missing.
RulesGivenUp ==
  /\ Sending
  /\ LET s == SendServer
     IN  /\ ~Skips(s) /\ ~GivesUp(s) /\ ~Requery(s) /\ q[s].rules /\ q[s].retry1 < 1
         /\ q' = [q EXCEPT ![s].rules = FALSE]
         /\ Call(Cleanup(s, FALSE), SendOn)
  /\ UNCHANGED <<vars, setup, connmap, counters, history, main, input, clock, budget>>

\* The rest of the turn: the next rule and the next player are asked for; a
\* player is given up when retry2 is used up; with nothing to send, the server
\* only uses up its retries and is closed at the end of the last interval.
AskDetails ==
  /\ Sending
  /\ LET s == SendServer
     IN  /\ ~Skips(s) /\ ~GivesUp(s) /\ ~Requery(s) /\ ~(q[s].rules /\ q[s].retry1 < 1)
         /\ \E sent1 \in Sends, sent2 \in Sends :
              LET ruled  == IF q[s].rules THEN Request1(q[s], sent1) ELSE q[s]
                  drops  == DropsPlayer(s)
                  left   == IF drops THEN q[s].players - 1 ELSE q[s].players
                  fresh  == IF drops THEN [ruled EXCEPT !.retry2 = NRetries] ELSE ruled
                  asks   == q[s].players > 0 /\ ~Waits2(s)
                  idle   == ~q[s].rules /\ q[s].players = 0
              IN  /\ q' = [q EXCEPT ![s] =
                             CASE asks /\ left = 0 -> [ruled EXCEPT !.players = 0]
                               [] asks /\ left > 0 ->
                                    Request2([fresh EXCEPT !.players = left], sent2)
                               [] idle /\ q[s].retry1 >= 1 -> [q[s] EXCEPT !.retry1 = @ - 1]
                               [] OTHER -> ruled]
                  /\ due1' = IF q'[s].retry1 # q[s].retry1 THEN due1 \ {s} ELSE due1
                  /\ due2' = IF asks THEN due2 \ {s} ELSE due2
                  /\ recent' = (recent \/ q[s].rules \/ (asks /\ left > 0))
                  /\ IF (asks /\ left = 0) \/ (idle /\ q[s].retry1 < 1 /\ s \in due1)
                     THEN Call(Cleanup(s, TRUE), SendOn)
                     ELSE Go(SendOn)
  /\ UNCHANGED <<vars, setup, connmap, counters, history, main, input, budget>>

SendPackets == EndSend \/ SendWaits \/ SendGivesUp \/ SendAgain \/ RulesGivenUp \/ AskDetails

-----------------------------------------------------------------------------
\* The handlers of received packets, by the type's packet_func.

\* process_func_ret: the cleanup a handler's result calls for.
ProcessFuncRet(ret, s) ==
  CASE ret = "INPROGRESS" -> <<>>
    [] ret = "DONE_AUTO" -> <<Cleanup(s, FALSE)>>
    [] OTHER -> <<Cleanup(s, TRUE)>>

Result(s, r, ret) == q' = [q EXCEPT ![s] = r] /\ stack' = ProcessFuncRet(ret, s)

Named(r) == [r EXCEPT !.name = "some"]

\* A type with one reply, deal_with_qw_packet's or that of a TCP protocol: it
\* names the server; an odd packet does not, and ends the query as well.
AnswerSingle(s) ==
  /\ ~Is(s, Q1Types \cup Q3Types \cup MasterTypes)
  /\ \/ Result(s, Named(q[s]), "DONE_AUTO")
     \/ Result(s, q[s], "DONE_AUTO")
     \/ Result(s, q[s], "PKT_ERROR")
  /\ UNCHANGED <<connmap, due1, due2, recent>>

\* A server made from a broadcast reply has no socket yet: send_rule_request_packet
\* binds one, which nobody counts in `connected'.
Bind(s, r) == IF r.fd = 0 THEN [r EXCEPT !.fd = FreeFd, !.state = "connected"] ELSE r

\* deal_with_qw_packet for -q3s: infoResponse names the server and asks for the
\* rules, statusResponse has them.
AnswerQ3(s) ==
  /\ Is(s, Q3Types)
  /\ \/ /\ GetRules \/ GetPlayers
        /\ LET r == Bind(s, [Named(q[s]) EXCEPT !.rules = TRUE, !.retry1 = NRetries - 1])
           IN  /\ Result(s, r, "INPROGRESS")
               /\ connmap' = [connmap EXCEPT ![r.fd] = s]
        /\ due1' = due1 \ {s} /\ UNCHANGED <<due2, recent>>
     \/ /\ ~(GetRules \/ GetPlayers)
        /\ Result(s, Named(q[s]), "DONE_AUTO")
        /\ UNCHANGED <<connmap, due1, due2, recent>>
     \/ /\ Result(s, [Named(q[s]) EXCEPT !.rules = FALSE, !.retry1 = 0], "DONE_AUTO")
        /\ due1' = due1 \ {s} /\ UNCHANGED <<connmap, due2, recent>>
     \/ /\ \E ret \in {"INPROGRESS", "DONE_AUTO", "PKT_ERROR"} : Result(s, q[s], ret)
        /\ UNCHANGED <<connmap, due1, due2, recent>>

\* deal_with_q_packet: server_info_packet, player_info_packet, rule_info_packet
\* and packets that are ignored, of a wrong length or cut short.  A server sends
\* rules only once it was asked for them, after its name is known.
AnswerQ1(s) ==
  /\ Is(s, Q1Types)
  /\ \E sent1 \in Sends, sent2 \in Sends :
       LET r == q[s]
           Rule(x) == IF GetRules THEN Request1(Bind(s, x), sent1) ELSE x
           Player(x) == IF GetPlayers THEN Request2(Bind(s, x), sent2) ELSE x
       IN  \/ \E n \in 0 .. MaxPlayers :
                /\ r.name = NoName
                /\ Result(s, Player(Rule([Named(r) EXCEPT
                     !.players = IF GetPlayers THEN n ELSE 0, !.retry1 = NRetries])), "INPROGRESS")
           \/ /\ r.players > 0
              /\ LET x == [r EXCEPT !.players = @ - 1, !.retry2 = NRetries]
                 IN  Result(s, IF x.players > 0 THEN Request2(x, sent2) ELSE x, "INPROGRESS")
           \/ /\ r.rules /\ r.name # NoName
              /\ \/ Result(s, [r EXCEPT !.rules = FALSE], "INPROGRESS")
                 \/ Result(s, Request1([r EXCEPT !.retry1 = NRetries], sent1), "INPROGRESS")
           \/ Result(s, r, "INPROGRESS")
           \/ Result(s, r, "PKT_ERROR")
           \/ Result(s, Named(r), "PKT_ERROR")
  /\ connmap' = IF q'[s].fd = 0 THEN connmap ELSE [connmap EXCEPT ![q'[s].fd] = s]
  /\ due1' = IF q'[s].retry1 # q[s].retry1 THEN due1 \ {s} ELSE due1
  /\ due2' = IF q'[s].retry2 # q[s].retry2 THEN due2 \ {s} ELSE due2
  /\ UNCHANGED recent

\* deal_with_qwmaster_packet: a refusal, or an answer cut short; a packet of a
\* master that sends several, "EOF" in the last; the last page, with bind_sockets
\* called from the handler (such a type is TF_SINGLE_QUERY, and closed); or a page
\* that is answered with the request for the next one (HL_MASTER, TF_MASTER_STEAM).
AnswerMaster(s) ==
  /\ Is(s, MasterTypes)
  /\ \/ Result(s, [q[s] EXCEPT !.name = "SERVERERROR"], "PKT_ERROR")
     \/ Is(s, MultiMasters) /\ Result(s, q[s], "DONE_AUTO")
     \/ \E n \in 0 .. MaxReport :
          LET reported == IF q[s].report + n > MaxReport THEN MaxReport ELSE q[s].report + n
              r == [q[s] EXCEPT !.heard = TRUE, !.report = reported]
          IN  IF Is(s, MultiMasters)
              THEN \E ret \in {"INPROGRESS", "DONE_FORCE"} : Result(s, [r EXCEPT !.retry1 = 0], ret)
              ELSE \/ /\ q' = [q EXCEPT ![s] = [r EXCEPT !.name = "MASTER"]]
                      /\ stack' = <<BindCall, Cleanup(s, TRUE)>>
                   \/ \E sent \in Sends :
                        Result(s, Request1([r EXCEPT !.retry1 = @ + 1], sent), "INPROGRESS")
  /\ due1' = due1 \ {s}
  /\ UNCHANGED <<connmap, due2, recent>>

-----------------------------------------------------------------------------
\* do_work.

\* Fresh structs get their query state, and masters are awaited.
LoadServers ==
  /\ Load \/ StartWork
  /\ LET new == live' \ live
     IN  /\ q' = [s \in Ids |-> IF s \in new THEN NewQuery(ip'[s]) ELSE q[s]]
         /\ waiting' = waiting + Cardinality({s \in new : ip'[s] # 0 /\ type'[s] \in MasterTypes})
  /\ UNCHANGED <<setup, connmap, connected, returned, timedOut, history, main, stack, input,
                 clock, budget>>

StartLoop ==
  /\ At("start")
  /\ stack' = <<BindCall>> /\ main' = "first"
  /\ UNCHANGED <<vars, setup, state, input, clock, budget>>

\* send_packets, before the loop and in every turn of it.
CallSend(then) ==
  /\ stack' = <<SendCall>> /\ main' = then
  /\ UNCHANGED <<vars, setup, state, input, clock, budget>>

FirstSend == At("first") /\ CallSend("loop")

\* Nothing is connected but something is left to bind: wait, and bind again.
RetryBind ==
  /\ At("loop") /\ connected = 0 /\ bindRetry = -2
  /\ stack' = <<BindCall>>
  /\ UNCHANGED <<vars, setup, state, main, input, clock, budget>>

\* The first server with a socket at or after s.
FirstOpen(s) ==
  LET f[t \in Ptrs] == IF t = 0 THEN 0 ELSE IF q[t].fd # 0 THEN t ELSE f[next[t]]
  IN  f[s]

\* set_file_descriptors and get_next_timeout, which moves first_server_bind.
Poll ==
  /\ At("loop") /\ connected # 0
  /\ LET from == IF firstBind = 0 THEN servers ELSE firstBind
         s == FirstOpen(from)
     IN  MoveFirstBind(IF s = 0 \/ (numServers > connected /\ connected < MaxSimultaneous)
                       THEN from ELSE s)
  /\ main' = "recv" /\ bindRetry' = 0
  /\ polled' = {f \in Ids : connmap[f] # 0}
  /\ UNCHANGED <<setup, state, stack, buffer, clock, budget>>

\* The next readable descriptor: a packet is buffered, or the connection was
\* refused and the server is down.
Receive ==
  /\ At("recv") /\ budget > 0
  /\ \E f \in polled :
       /\ connmap[f] # 0
       /\ polled' = {g \in polled : g > f}
       /\ \/ /\ buffer' = Append(buffer, connmap[f])
             /\ UNCHANGED <<q, stack>>
          \/ /\ Fault("refused")
             /\ q' = [q EXCEPT ![connmap[f]].name = "DOWN"]
             /\ stack' = <<Cleanup(connmap[f], TRUE)>>
             /\ UNCHANGED buffer
  /\ budget' = budget - 1
  /\ UNCHANGED <<vars, setup, connmap, counters, history, main, bindRetry, clock>>

EndReceive ==
  /\ At("recv")
  /\ main' = "handle" /\ polled' = {}
  /\ UNCHANGED <<vars, setup, state, stack, buffer, bindRetry, clock, budget>>

\* The next buffered packet.
Handle ==
  /\ At("handle") /\ buffer # <<>>
  /\ LET s == Head(buffer)
     IN  /\ s \in live /\ ~Broadcast(s)
         /\ AnswerSingle(s) \/ AnswerQ3(s) \/ AnswerQ1(s) \/ AnswerMaster(s)
  /\ buffer' = Tail(buffer)
  /\ UNCHANGED <<vars, setup, counters, history, main, polled, bindRetry, budget>>

\* A reply to a broadcast is a packet of the server that sent it: a new server,
\* or the one known by that address.
HandleBroadcast ==
  /\ At("handle") /\ buffer # <<>>
  /\ LET b == Head(buffer)
     IN  /\ b \in live /\ Broadcast(b)
         /\ \E d \in Discovered :
              /\ d[1] # 0 /\ d[3] = type[b]
              /\ LET found == FindServerByAddress(d[1], d[2])
                     s == IF found = 0 THEN count + 1 ELSE found
                 IN  /\ buffer' = <<s>> \o Tail(buffer)
                     /\ IF found # 0 THEN UNCHANGED <<vars, q, clock>>
                        ELSE /\ AddByAddr(d[1], d[2], d[3])
                             /\ q' = [q EXCEPT ![s] = NewQuery(d[1])]
                             /\ due1' = IF b \in due1 THEN due1 \cup {s} ELSE due1
                             /\ due2' = IF b \in due2 THEN due2 \cup {s} ELSE due2
                             /\ UNCHANGED recent
  /\ UNCHANGED <<setup, connmap, counters, history, main, stack, polled, bindRetry, budget>>

EndHandle ==
  /\ At("handle") /\ buffer = <<>>
  /\ CallSend("rebind")

Rebind ==
  /\ At("rebind")
  /\ stack' = IF connected < MaxSimultaneous THEN <<BindCall>> ELSE <<>>
  /\ main' = "loop"
  /\ UNCHANGED <<vars, setup, state, input, clock, budget>>

\* do_work returns: its loop ends, or -timeout strikes after a batch of packets
\* or as a reported server is about to be added.
WorkOver == At("loop") /\ connected = 0 /\ bindRetry # -2

TimeoutStrikes ==
  /\ Fault("timeout")
  /\ \/ At("handle") /\ buffer = <<>>
     \/ In("masters")

EndWork ==
  /\ WorkOver \/ TimeoutStrikes
  /\ phase = "work" /\ StartFinish
  /\ UNCHANGED <<setup, state, main, stack, input, clock, budget>>

FinishOutput ==
  /\ Finish \/ Done
  /\ UNCHANGED <<setup, state, main, stack, input, clock, budget>>

DoWork == StartLoop \/ FirstSend \/ RetryBind \/ Poll \/ EndReceive \/ Handle \/ HandleBroadcast
            \/ EndHandle \/ Rebind \/ EndWork

-----------------------------------------------------------------------------
\* The clock: it is looked at while do_work polls and while bind_sockets waits
\* for connections.
TimePasses == (At("recv") /\ buffer = <<>>) \/ In("pass")

Expire1(s) ==
  /\ TimePasses /\ s \in Open \ due1
  /\ due1' = due1 \cup {s}
  /\ UNCHANGED <<vars, setup, state, main, stack, input, due2, recent, budget>>

Expire2(s) ==
  /\ TimePasses /\ s \in Open \ due2 /\ q[s].players > 0
  /\ due2' = due2 \cup {s}
  /\ UNCHANGED <<vars, setup, state, main, stack, input, due1, recent, budget>>

SendIntervalEnds ==
  /\ TimePasses /\ recent
  /\ recent' = FALSE
  /\ UNCHANGED <<vars, setup, state, main, stack, input, due1, due2, budget>>

Clock == SendIntervalEnds \/ \E s \in Ids : Expire1(s) \/ Expire2(s)

Program == LoadServers \/ DoWork \/ BindLoop \/ CleanupServer \/ SendPackets \/ FinishOutput

NextScheduler == Program \/ Receive \/ Clock

\* The thread runs, and time goes on wherever the program waits for it: every
\* poll and every pass over pending connections takes time.
SchedulerSpec ==
  /\ InitScheduler /\ [][NextScheduler]_all
  /\ WF_all(Program)
  /\ SF_all(Clock)

-----------------------------------------------------------------------------
(***************************************************************************)
(* Properties.                                                             *)
(***************************************************************************)

\* Retry counters never go below 0, whatever resets and whatever decrements
\* them; do_work is back at its loop only with an empty call stack.
SchedulerTypeOK ==
  /\ setup \in Scenarios
  /\ \A s \in Ids :
       /\ q[s].name \in {NoName, "some", "HOSTNOTFOUND", "SYSERROR", "TIMEOUT", "DOWN", "MASTER",
                         "SERVERERROR"}
       /\ q[s].fd \in Ptrs /\ q[s].state \in {"init", "connecting", "connected", "failed"}
       /\ q[s].retry1 \in 0 .. NRetries /\ q[s].retry2 \in 0 .. NRetries
       /\ q[s].rules \in BOOLEAN /\ q[s].players \in 0 .. MaxPlayers
       /\ q[s].heard \in BOOLEAN /\ q[s].report \in 0 .. MaxReport
  /\ connmap \in [Ids -> Ptrs]
  /\ connected \in -1 .. MaxServers /\ waiting \in 0 .. MaxServers
  /\ returned \in Nat /\ timedOut \in Nat
  /\ main \in {"start", "first", "loop", "recv", "handle", "rebind"}
  /\ polled \subseteq Ids /\ buffer \in Seq(Ids) /\ bindRetry \in {0, -2}
  /\ due1 \subseteq Ids /\ due2 \subseteq Ids /\ recent \in BOOLEAN
  /\ budget \in Nat
  /\ asked \in [Ids -> Nat] /\ closed \subseteq Ids

\* Between the calls do_work makes, `connected' is the number of open sockets,
\* and connmap has exactly the sockets that are connected, each at its own
\* descriptor.
SocketsCounted ==
  phase = "work" =>
    /\ stack = <<>> => connected = Cardinality(Open)
    /\ \A f \in Ids : connmap[f] # 0 => connmap[f] \in Open /\ q[connmap[f]].fd = f
    /\ \A s \in Open : q[s].state = "connected" => connmap[q[s].fd] = s
    /\ \A s, t \in Open : q[s].fd = q[t].fd => s = t

\* -maxsimultaneous.
SocketLimit == Cardinality(Open) <= MaxSimultaneous

Pointers(frame) ==
  CASE frame.pc \in {"walk", "pass"} ->
         {frame.s} \cup (IF frame.inprogress > 0 THEN {frame.first, frame.last} ELSE {})
    [] frame.pc = "joined" -> {frame.nxt, frame.first, frame.last}
    [] frame.pc \in {"cleanup", "display", "masters"} -> {frame.s}
    [] OTHER -> {}

\* No function up the call stack is left with a pointer to a server that was
\* freed in a call it made, nor do_work with one in its buffer of packets.
PointersLive ==
  phase = "work" =>
    /\ \A i \in DOMAIN stack : Pointers(stack[i]) \subseteq live \cup {0}
    /\ \A i \in DOMAIN buffer : buffer[i] \in live

\* Until every master that was found is closed, only masters are queried:
\* waiting_for_masters reaches 0 with the last of them, and not before.
MastersFirst ==
  (\E s \in Open : ~Is(s, MasterTypes)) =>
    {s \in 1 .. count : ip[s] # 0 /\ Is(s, MasterTypes)} \subseteq closed

\* A server is closed, and counted, once: as returned or as timed out, except
\* that connected_qserver's timeouts are counted as neither, and that a server
\* found by a broadcast is counted again for every duplicate of its reply.
CountedOnce ==
  (\A s \in 1 .. count : ~Broadcast(s)) =>
  returned + timedOut
    = Cardinality({s \in closed : ~(q[s].name = "TIMEOUT" /\ q[s].state = "failed")})

\* -retry: a server is never asked more often than that.
RetriesBounded == \A s \in 1 .. count : asked[s] <= NRetries

\* send_packets gives a server up as not answering only when it was asked as often
\* as -retry says, if no send failed.
GivesUpLast ==
  [][\A s \in closed' \ closed :
       timedOut' # timedOut /\ main = "rebind" /\ ~Fault("send")
       /\ ~Is(s, TcpTypes) /\ ~Broadcast(s) => asked[s] = NRetries]_all

\* When do_work's loop ends by itself, every server that was found is closed: none
\* is left open, or was never asked.
NobodyForgotten ==
  [][WorkOver /\ phase' = "finish" =>
       \A s \in live : ip[s] = 0 \/ (s \in closed /\ q[s].fd = 0)]_all

\* What a master reported has been used by the time the master is freed, unless
\* -timeout ended the work.
ReportsUsed == phase = "work" => \A s \in (1 .. count) \ live : ~q[s].heard

\* do_work ends, whatever is not answered, refused or lost, if sends do not fail
\* for ever.
WorkEnds == (phase = "work" /\ ~Fault("send")) ~> phase # "work"

\* Every step of the engine is a step of the list, or leaves it alone: what
\* ServerList.tla says of any order of its steps holds of this one.
ListSafety == InitList /\ [][NextList]_vars

=============================================================================

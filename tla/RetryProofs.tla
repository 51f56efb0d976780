---------------------------- MODULE RetryProofs -----------------------------
(***************************************************************************)
(* Tries and names: what each step of the engine makes of a server's       *)
(* retries and of its name.  That -retry bounds the queries a server gets, *)
(* that it is given up only after as many, that every server that is       *)
(* closed is counted once, and that a master's report is used.             *)
(***************************************************************************)
EXTENDS CountProofs

-----------------------------------------------------------------------------
\* Tries.

\* Every query of such a server is answered or costs a try.
Exact(s) == ~Fault("send") /\ ~Is(s, TcpTypes) /\ ~Broadcast(s)

\* A server without a name was asked n times and has the rest of its tries left.
\* Only a master that was heard of may have fewer: pages are not counted.
Tried(s, x, n) ==
  /\ x.retry1 \in 0 .. NRetries /\ x.retry2 \in 0 .. NRetries /\ n \in 0 .. NRetries
  /\ x.heard => Is(s, MasterTypes)
  /\ x.name = NoName =>
       /\ n + x.retry1 <= NRetries /\ x.players = 0 /\ x.retry2 >= 1
       /\ x.fd = 0 \/ x.state = "connecting" => n = 0 /\ x.retry1 >= 1
       /\ Exact(s) /\ ~x.heard => n + x.retry1 = NRetries /\ (x.fd # 0 => n >= 1)

TriesInv == \A s \in Ids : Tried(s, q[s], asked[s])

\* What a step makes of the servers there are.
TriesStep == \A s \in 1 .. count : Tried(s, q'[s], asked'[s])

LEMMA TriesAlone ==
  ASSUME EngineInv, TriesInv, NEW s \in Ids, NEW r, NEW n,
         q' = [q EXCEPT ![s] = r], asked' = [asked EXCEPT ![s] = n] \/ (asked' = asked /\ n = asked[s]),
         Tried(s, r, n)
  PROVE  TriesStep
<1>1. q \in [Ids -> QueryStates] /\ asked \in [Ids -> Nat] /\ 1 .. count \subseteq Ids
  BY Basics DEF EngineTypes
<1>2. ASSUME NEW t \in 1 .. count
      PROVE  Tried(t, q'[t], asked'[t])
  <2>1. CASE t = s
    <3>1. q'[t] = r /\ asked'[t] = n
      BY <1>1, <2>1
    <3> QED
      BY <2>1, <3>1
  <2>2. CASE t # s
    <3>1. q'[t] = q[t] /\ asked'[t] = asked[t] /\ t \in Ids
      BY <1>1, <2>2
    <3> QED
      BY <3>1 DEF TriesInv
  <2> QED
    BY <2>1, <2>2
<1> QED
  BY <1>2 DEF TriesStep

LEMMA TriesAside ==
  ASSUME EngineInv, TriesInv, UNCHANGED <<q, asked>>
  PROVE  TriesStep
<1>1. 1 .. count \subseteq Ids
  BY Basics
<1> QED
  BY <1>1 DEF TriesInv, TriesStep

\* A status query that is sent costs a try.
LEMMA QueryTried ==
  ASSUME Orderly, EngineInv, TriesInv, NEW s \in Ids, NEW r \in QueryStates, NEW sent \in Sends,
         StatusQuery(s, r, sent), Tried(s, q[s], asked[s]),
         r.name = NoName, q[s].name = NoName, r.retry1 = q[s].retry1, r.retry2 = q[s].retry2,
         r.players = q[s].players, r.heard = q[s].heard, r.retry1 >= 1, r.fd # 0, r.state = "connected"
  PROVE  TriesStep
<1>1. PICK x : x = IF sent THEN [r EXCEPT !.retry1 = @ - 1] ELSE r
  OBVIOUS
<1>2. PICK n : n = IF sent THEN asked[s] + 1 ELSE asked[s]
  OBVIOUS
<1>3. /\ x.name = r.name /\ x.fd = r.fd /\ x.state = r.state /\ x.retry2 = r.retry2
      /\ x.players = r.players /\ x.heard = r.heard
      /\ x.retry1 = IF sent THEN r.retry1 - 1 ELSE r.retry1
  BY <1>1 DEF QueryStates
<1>4. NRetries \in Nat /\ asked[s] \in Nat /\ asked \in [Ids -> Nat]
  BY Basics DEF EngineTypes
<1>5. ~sent => ~Exact(s)
  BY DEF Sends, Exact
<1>6. Tried(s, x, n)
  BY <1>2, <1>3, <1>4, <1>5 DEF Tried
<1>7. q' = [q EXCEPT ![s] = x]
  BY <1>1 DEF StatusQuery
<1>8. asked' = [asked EXCEPT ![s] = n] \/ (asked' = asked /\ n = asked[s])
  BY <1>2, <1>4 DEF StatusQuery
<1> QED
  BY <1>6, <1>7, <1>8, TriesAlone

LEMMA BindServerTries ==
  ASSUME Orderly, EngineInv, TriesInv, BindServer
  PROVE  TriesStep
<1>1. PICK s : s = Top.s
  OBVIOUS
<1>2. /\ s \in Ids /\ s \in live /\ q \in [Ids -> QueryStates] /\ q[s] \in QueryStates
      /\ q[s].name = NoName /\ q[s].fd = 0 /\ NRetries \in Nat
  BY <1>1, Basics DEF BindServer, Walking, Wanted, EngineTypes
<1>3. Tried(s, q[s], asked[s]) /\ FreeFd \in Ids /\ FreeFd # 0
  BY <1>2, FreeFdFound, Basics DEF TriesInv
<1>4. PICK rc \in BindResults(s) :
       \/ rc = 0 /\ BindDone(s)
       \/ rc = -3 /\ BindPending(s)
       \/ rc = -2 /\ BindNoDescriptor
       \/ rc = -1 /\ BindFailed(s)
  BY <1>1 DEF BindServer
<1>5. CASE BindDone(s)
  <2>1. PICK r : r = [q[s] EXCEPT !.fd = FreeFd, !.state = "connected"]
    OBVIOUS
  <2>2. PICK sent \in Sends : StatusQuery(s, r, sent)
    BY <1>5, <2>1 DEF BindDone
  <2>3. /\ r.name = NoName /\ r.retry1 = q[s].retry1 /\ r.retry2 = q[s].retry2
        /\ r.players = q[s].players /\ r.heard = q[s].heard /\ r.fd # 0 /\ r.state = "connected"
    BY <1>2, <1>3, <2>1 DEF QueryStates
  <2>4. r \in QueryStates
    BY <1>2, <1>3, <2>1, Basics DEF QueryStates, States
  <2>5. r.retry1 >= 1
    BY <1>2, <1>3, <2>3 DEF Tried
  <2> QED
    BY <1>2, <1>3, <2>2, <2>3, <2>4, <2>5, QueryTried
<1>6. CASE rc = -3 /\ BindPending(s)
  <2>1. PICK r : r = [q[s] EXCEPT !.fd = FreeFd, !.state = "connecting"]
    OBVIOUS
  <2>2. /\ q' = [q EXCEPT ![s] = r] /\ asked' = asked
        /\ r.name = NoName /\ r.retry1 = q[s].retry1 /\ r.retry2 = q[s].retry2
        /\ r.players = q[s].players /\ r.heard = q[s].heard /\ r.fd # 0 /\ r.state = "connecting"
    BY <1>2, <1>3, <1>6, <2>1 DEF BindPending, history, QueryStates
  <2>3. ~Exact(s)
    BY <1>6 DEF BindResults, Exact
  <2>4. Tried(s, r, asked[s])
    BY <1>2, <1>3, <2>2, <2>3 DEF Tried
  <2> QED
    BY <1>2, <2>2, <2>4, TriesAlone
<1>7. CASE BindNoDescriptor
  BY <1>7, TriesAside DEF BindNoDescriptor, state, history
<1>8. CASE BindFailed(s)
  <2>1. PICK r : r = [q[s] EXCEPT !.name = "SYSERROR"]
    OBVIOUS
  <2>2. /\ q' = [q EXCEPT ![s] = r] /\ asked' = asked
        /\ r.name = "SYSERROR" /\ r.retry1 = q[s].retry1 /\ r.retry2 = q[s].retry2 /\ r.heard = q[s].heard
    BY <1>2, <1>8, <2>1 DEF BindFailed, history, QueryStates
  <2>3. Tried(s, r, asked[s])
    BY <1>3, <2>2 DEF Tried, NoName
  <2> QED
    BY <1>2, <2>2, <2>3, TriesAlone
<1> QED
  BY <1>4, <1>5, <1>6, <1>7, <1>8

LEMMA ConnectServerTries ==
  ASSUME Orderly, EngineInv, TriesInv, ConnectServer
  PROVE  TriesStep
<1>1. PICK s : s = Top.s
  OBVIOUS
<1>2. /\ s \in Ids /\ s \in live /\ q \in [Ids -> QueryStates] /\ q[s] \in QueryStates
      /\ q[s].state = "connecting" /\ NRetries \in Nat /\ Working /\ s \in 1 .. count
  BY <1>1, Basics DEF ConnectServer, Passing, In, Working, EngineTypes
<1>3. Tried(s, q[s], asked[s]) /\ q[s].name = NoName /\ q[s].fd # 0
  BY <1>2, OrderlySetup DEF TriesInv, EngineInv, Sockets
<1>4. CASE ConnectDone(s)
  <2>1. PICK r : r = [q[s] EXCEPT !.state = "connected"]
    OBVIOUS
  <2>2. PICK sent \in Sends : StatusQuery(s, r, sent)
    BY <1>4, <2>1 DEF ConnectDone
  <2>3. /\ r.name = NoName /\ r.retry1 = q[s].retry1 /\ r.retry2 = q[s].retry2
        /\ r.players = q[s].players /\ r.heard = q[s].heard /\ r.fd # 0 /\ r.state = "connected"
    BY <1>2, <1>3, <2>1 DEF QueryStates
  <2>4. r \in QueryStates
    BY <1>2, <1>3, <2>1, Basics DEF QueryStates, States
  <2>5. r.retry1 >= 1
    BY <1>2, <1>3, <2>3 DEF Tried
  <2> QED
    BY <1>2, <1>3, <2>2, <2>3, <2>4, <2>5, QueryTried
<1>5. CASE ConnectWaits(s)
  BY <1>5, TriesAside DEF ConnectWaits, state, history
<1>6. CASE ConnectFails(s)
  <2>1. PICK name \in {"TIMEOUT", "SYSERROR"} : q' = [q EXCEPT ![s].name = name, ![s].state = "failed", ![s].fd = 0]
    BY <1>6 DEF ConnectFails
  <2>2. PICK r : r = [q[s] EXCEPT !.name = name, !.state = "failed", !.fd = 0]
    OBVIOUS
  <2>3. /\ q' = [q EXCEPT ![s] = r] /\ asked' = asked
        /\ r.name = name /\ r.retry1 = q[s].retry1 /\ r.retry2 = q[s].retry2 /\ r.heard = q[s].heard
    BY <1>2, <1>6, <2>1, <2>2 DEF ConnectFails, history, QueryStates
  <2>4. Tried(s, r, asked[s])
    BY <1>3, <2>1, <2>3 DEF Tried, NoName
  <2> QED
    BY <1>2, <2>3, <2>4, TriesAlone
<1> QED
  BY <1>1, <1>4, <1>5, <1>6 DEF ConnectServer

\* A function of add_servers_from_masters runs when every master is closed.
MastersDone == \A d \in Depths : Frame(d).pc = "masters" => waiting = 0

LEMMA CleanupServerTries ==
  ASSUME Orderly, EngineInv, MasterInv, TriesInv, CleanupServer, MastersDone
  PROVE  TriesStep
<1>1. PICK s : s = Top.s
  OBVIOUS
<1>2. /\ q \in [Ids -> QueryStates] /\ NRetries \in Nat /\ Working /\ stack # <<>> /\ EngineTypes
      /\ asked' = asked /\ \A t \in 1 .. count : t \in Ids
  BY Basics DEF CleanupServer, CleanupKeeps, CleanupCloses, DisplayClosed, AddReported, NextMaster,
     MastersAdded, In, Working, EngineTypes, state, history
<1>3. CASE CleanupKeeps \/ DisplayClosed \/ MastersAdded
  BY <1>3, TriesAside DEF CleanupKeeps, DisplayClosed, MastersAdded, state, history
<1>4. CASE CleanupCloses
  <2>1. s \in Ids /\ q' = [q EXCEPT ![s].name = ClosedName(s), ![s].fd = 0]
    BY <1>1, <1>4, Basics DEF CleanupCloses
  <2>2. PICK r : r = [q[s] EXCEPT !.name = ClosedName(s), !.fd = 0]
    OBVIOUS
  <2>3. /\ q' = [q EXCEPT ![s] = r] /\ r.name = ClosedName(s) /\ q[s] \in QueryStates
        /\ r.retry1 = q[s].retry1 /\ r.retry2 = q[s].retry2 /\ r.heard = q[s].heard
    BY <1>2, <2>1, <2>2 DEF QueryStates
  <2>4. Tried(s, q[s], asked[s]) /\ ClosedName(s) # NoName
    BY <2>1 DEF TriesInv, ClosedName, NoName
  <2>5. Tried(s, r, asked[s])
    BY <2>3, <2>4 DEF Tried
  <2> QED
    BY <1>2, <2>1, <2>3, <2>5, TriesAlone
<1>5. CASE AddReported
  <2>1. s \in Ids /\ s # 0
    <3>1. Top \in MasterFrames
      BY <1>2, <1>5, TopFrame, FrameKinds DEF AddReported, In
    <3> QED
      BY <1>1, <1>5, <3>1 DEF AddReported, MasterFrames, Ptrs, Ids
  <2>2. PICK d \in Discovered :
          \/ q' = [q EXCEPT ![s].report = @ - 1]
          \/ q' = [q EXCEPT ![s].report = @ - 1, ![count + 1] = NewQuery(d[1])]
    BY <1>1, <1>5 DEF AddReported
  <2>3. ASSUME NEW t \in 1 .. count
        PROVE  Tried(t, q'[t], asked'[t])
    <3>1. t \in Ids /\ t # count + 1 /\ q[t] \in QueryStates
      BY <1>2, Basics
    <3>2. PICK r : r = [q[s] EXCEPT !.report = @ - 1]
      OBVIOUS
    <3>3. q'[t] = IF t = s THEN r ELSE q[t]
      BY <1>2, <2>1, <2>2, <3>1, <3>2
    <3>4. t = s => /\ r.name = q[t].name /\ r.fd = q[t].fd /\ r.state = q[t].state
                   /\ r.players = q[t].players /\ r.heard = q[t].heard
                   /\ r.retry1 = q[t].retry1 /\ r.retry2 = q[t].retry2
      BY <3>1, <3>2 DEF QueryStates
    <3>5. Tried(t, q[t], asked[t])
      BY <3>1 DEF TriesInv
    <3> QED
      BY <1>2, <3>3, <3>4, <3>5 DEF Tried
  <2> QED
    BY <2>3 DEF TriesStep
<1>6. CASE NextMaster
  <2>1. s \in Ids /\ s # 0
    <3>1. Top \in MasterFrames
      BY <1>2, <1>6, TopFrame, FrameKinds DEF NextMaster, In
    <3> QED
      BY <1>1, <1>6, <3>1 DEF NextMaster, MasterFrames, Ptrs, Ids
  <2>2. PICK r : r = [q[s] EXCEPT !.heard = FALSE]
    OBVIOUS
  <2>3. /\ q' = [q EXCEPT ![s] = r] /\ q[s] \in QueryStates /\ q[s] \in QueryStates
        /\ r.name = q[s].name /\ r.fd = q[s].fd /\ r.state = q[s].state
        /\ r.players = q[s].players /\ ~r.heard
        /\ r.retry1 = q[s].retry1 /\ r.retry2 = q[s].retry2
    BY <1>1, <1>2, <1>6, <2>1, <2>2 DEF NextMaster, QueryStates
  <2>4. Tried(s, q[s], asked[s])
    BY <2>1 DEF TriesInv
  <2>5. q[s].heard => q[s].name # NoName
    <3>1. SUFFICES ASSUME q[s].heard
                   PROVE  q[s].name # NoName
      OBVIOUS
    <3>2. waiting = 0
      <4>1. Frame(Depth) = Top /\ Depth \in Depths
        BY <1>2, GoodTop, OrderlySetup
      <4> QED
        BY <1>6, <4>1 DEF MastersDone, NextMaster, In
    <3>3. MastersOpen = {}
      BY <3>2, MastersFinite DEF MasterInv, WaitingInv
    <3>4. Is(s, MasterTypes)
      BY <2>4, <3>1 DEF Tried
    <3>5. CASE s \in 1 .. count /\ ip[s] # 0
      <4>1. s \in closed
        BY <3>3, <3>4, <3>5 DEF MastersOpen, Masters
      <4> QED
        BY <1>2, <4>1, OrderlySetup DEF EngineInv, Sockets
    <3>6. CASE s \in 1 .. count /\ ip[s] = 0
      BY <3>6 DEF EngineInv, Origins, Origin
    <3>7. CASE s \notin 1 .. count
      <4>1. s > count
        BY <2>1, <3>7, Basics DEF Ids
      <4>2. q[s] = NewQuery(0)
        BY <2>1, <4>1 DEF EngineInv, Fresh
      <4> QED
        BY <3>1, <4>2 DEF NewQuery
    <3> QED
      BY <3>5, <3>6, <3>7
  <2>6. Tried(s, r, asked[s])
    <3>1. CASE q[s].heard
      BY <2>3, <2>4, <2>5, <3>1 DEF Tried
    <3>2. CASE ~q[s].heard
      BY <2>3, <2>4, <3>2 DEF Tried
    <3> QED
      BY <3>1, <3>2
  <2> QED
    BY <1>2, <2>1, <2>3, <2>6, TriesAlone
<1> QED
  BY <1>3, <1>4, <1>5, <1>6 DEF CleanupServer

\* What a server has left while it is asked for rules and players.
LEMMA AskDetailsTries ==
  ASSUME Orderly, EngineInv, TriesInv, AskDetails
  PROVE  TriesStep
<1> DEFINE s == SendServer
<1>0. ~Skips(s) /\ ~GivesUp(s) /\ ~Requery(s) /\ ~(q[s].rules /\ q[s].retry1 < 1)
  BY DEF AskDetails
<1>5. PICK sent1 \in Sends, sent2 \in Sends :
       LET ruled  == IF q[s].rules THEN Request1(q[s], sent1) ELSE q[s]
           drops  == DropsPlayer(s)
           left   == IF drops THEN q[s].players - 1 ELSE q[s].players
           fresh  == IF drops THEN [ruled EXCEPT !.retry2 = NRetries] ELSE ruled
           asks   == q[s].players > 0 /\ ~Waits2(s)
           idle   == ~q[s].rules /\ q[s].players = 0
       IN  q' = [q EXCEPT ![s] =
                  CASE asks /\ left = 0 -> [ruled EXCEPT !.players = 0]
                    [] asks /\ left > 0 ->
                         Request2([fresh EXCEPT !.players = left], sent2)
                    [] idle /\ q[s].retry1 >= 1 -> [q[s] EXCEPT !.retry1 = @ - 1]
                    [] OTHER -> ruled]
  BY DEF AskDetails
<1> HIDE DEF s
<1>2. PICK x : x = q[s]
  OBVIOUS
<1>3. /\ s \in Ids /\ x \in QueryStates /\ x.fd # 0 /\ x.state = "connected" /\ asked' = asked
      /\ q \in [Ids -> QueryStates] /\ NRetries \in Nat \ {0} /\ MaxPlayers \in Nat
  <2>1. SafeFrees /\ Plain /\ Sending /\ asked' = asked
    BY OrderlySetup DEF AskDetails, history
  <2>2. s \in Ids /\ x \in QueryStates /\ x.fd = NextFd(Top.i) /\ x.state = "connected"
    BY <1>2, <2>1, SendServerLive DEF s
  <2>3. NextFd(Top.i) \in Ids
    BY <2>1, SendServerFacts
  <2>4. NextFd(Top.i) # 0
    BY <2>3, Basics
  <2> QED
    BY <2>1, <2>2, <2>4, Basics DEF EngineTypes
<1>4. Tried(s, x, asked[s])
  BY <1>2, <1>3 DEF TriesInv
<1>6. PICK ruled : ruled = IF x.rules THEN Request1(x, sent1) ELSE x
  OBVIOUS
<1>7. PICK left : left = IF DropsPlayer(s) THEN x.players - 1 ELSE x.players
  OBVIOUS
<1>8. PICK fresh : fresh = IF DropsPlayer(s) THEN [ruled EXCEPT !.retry2 = NRetries] ELSE ruled
  OBVIOUS
<1> DEFINE asks == x.players > 0 /\ ~Waits2(s)
<1>10. PICK r : r = CASE asks /\ left = 0 -> [ruled EXCEPT !.players = 0]
                      [] asks /\ left > 0 -> Request2([fresh EXCEPT !.players = left], sent2)
                      [] (~x.rules /\ x.players = 0) /\ x.retry1 >= 1 -> [x EXCEPT !.retry1 = @ - 1]
                      [] OTHER -> ruled
  OBVIOUS
<1>11. q' = [q EXCEPT ![s] = r]
  BY <1>2, <1>5, <1>6, <1>7, <1>8, <1>10
<1>12. /\ ~(x.rules /\ x.retry1 < 1)
       /\ x.name = NoName => x.retry1 >= 1 /\ (x.retry1 = NRetries \/ s \in due1)
                             /\ ~(s \in due1 /\ ~Is(s, TcpTypes))
  <2>1. ~(x.rules /\ x.retry1 < 1)
    BY <1>0, <1>2
  <2>2. x.retry1 \in Int
    BY <1>3 DEF QueryStates
  <2> QED
    BY <1>0, <1>2, <2>1, <2>2 DEF Skips, GivesUp, Requery, Waits1
<1>13. /\ ruled.name = x.name /\ ruled.fd = x.fd /\ ruled.state = x.state /\ ruled.heard = x.heard
       /\ ruled.players = x.players /\ ruled.retry2 = x.retry2
       /\ ruled \in QueryStates
       /\ ruled.retry1 = x.retry1 \/ (x.rules /\ ruled.retry1 = x.retry1 - 1)
  <2>1. Request1(x, sent1) \in QueryStates
    BY <1>3, QueryRequests
  <2>2. CASE x.rules /\ sent1
    <3>1. ruled = [x EXCEPT !.retry1 = @ - 1]
      BY <1>6, <2>2 DEF Request1
    <3>2. ruled \in QueryStates
      BY <1>6, <2>1, <2>2
    <3> QED
      BY <1>3, <2>2, <3>1, <3>2 DEF QueryStates
  <2>3. CASE ~(x.rules /\ sent1)
    <3>1. ruled = x
      BY <1>6, <2>3 DEF Request1
    <3> QED
      BY <1>3, <3>1
  <2> QED
    BY <2>2, <2>3
<1>14. x.retry1 \in Int /\ x.retry2 \in 0 .. NRetries /\ x.retry1 \in 0 .. NRetries /\ x.players \in Nat
  BY <1>3, <1>4 DEF Tried, QueryStates
<1>15. ruled.retry1 \in 0 .. NRetries
  BY <1>3, <1>12, <1>13, <1>14
<1>16. CASE x.name # NoName
  <2>1. r.name = x.name /\ r.heard = x.heard /\ r.retry1 \in 0 .. NRetries /\ r.retry2 \in 0 .. NRetries
    <3>1. CASE asks /\ left = 0
      <4>1. r = [ruled EXCEPT !.players = 0]
        BY <1>10, <3>1
      <4> QED
        BY <1>13, <1>14, <1>15, <4>1 DEF QueryStates
    <3>2. CASE asks /\ left > 0
      <4>1. PICK y : y = [fresh EXCEPT !.players = left]
        OBVIOUS
      <4>2. r = Request2(y, sent2)
        <5>1. left # 0
          BY <3>2
        <5> QED
          BY <1>10, <3>2, <4>1, <5>1
      <4>3. /\ y.name = x.name /\ y.heard = x.heard /\ y.retry1 = ruled.retry1 /\ y.retry2 \in 1 .. NRetries
        <5>1. CASE DropsPlayer(s)
          <6>1. y = [ruled EXCEPT !.retry2 = NRetries, !.players = left]
            BY <1>8, <4>1, <5>1
          <6> QED
            BY <1>3, <1>13, <6>1 DEF QueryStates
        <5>2. CASE ~DropsPlayer(s)
          <6>1. y = [ruled EXCEPT !.players = left]
            BY <1>8, <4>1, <5>2
          <6>2. x.retry2 # 0
            BY <1>2, <5>2 DEF DropsPlayer
          <6>3. x.retry2 \in 1 .. NRetries
            BY <1>3, <1>14, <6>2
          <6> QED
            BY <1>13, <6>1, <6>3 DEF QueryStates
        <5> QED
          BY <5>1, <5>2
      <4>4. y \in [{"name", "fd", "state", "retry1", "retry2", "rules", "players", "heard", "report"} -> {y[f] : f \in {"name", "fd", "state", "retry1", "retry2", "rules", "players", "heard", "report"}}]
        <5>1. DOMAIN ruled = {"name", "fd", "state", "retry1", "retry2", "rules", "players", "heard", "report"}
          BY <1>13 DEF QueryStates
        <5> QED
          BY <1>8, <4>1, <5>1
      <4>5. CASE sent2
        <5>1. r = [y EXCEPT !.retry2 = @ - 1]
          BY <4>2, <4>5 DEF Request2
        <5>2. r.name = y.name /\ r.heard = y.heard /\ r.retry1 = y.retry1 /\ r.retry2 = y.retry2 - 1
          BY <4>4, <5>1
        <5> QED
          BY <1>3, <1>15, <4>3, <5>2
      <4>6. CASE ~sent2
        BY <1>3, <1>15, <4>2, <4>3, <4>6 DEF Request2
      <4> QED
        BY <4>5, <4>6
    <3>3. CASE ~(asks /\ left = 0) /\ ~(asks /\ left > 0)
      <4>1. (r = [x EXCEPT !.retry1 = @ - 1] /\ x.retry1 >= 1) \/ r = ruled
        BY <1>10, <3>3
      <4>2. CASE r = [x EXCEPT !.retry1 = @ - 1] /\ x.retry1 >= 1
        <5>1. r.name = x.name /\ r.heard = x.heard /\ r.retry1 = x.retry1 - 1 /\ r.retry2 = x.retry2
          BY <1>3, <4>2 DEF QueryStates
        <5> QED
          BY <1>3, <1>14, <4>2, <5>1
      <4> QED
        BY <1>13, <1>14, <1>15, <4>1, <4>2
    <3> QED
      BY <3>1, <3>2, <3>3
  <2>2. Tried(s, r, asked[s])
    BY <1>4, <1>16, <2>1 DEF Tried
  <2> QED
    BY <1>3, <1>11, <2>2, TriesAlone
<1>17. CASE x.name = NoName
  <2>1. x.players = 0 /\ ~asks
    BY <1>4, <1>17 DEF Tried
  <2>2. ~Exact(s) \/ x.heard
    <3>1. SUFFICES ASSUME Exact(s), ~x.heard
                   PROVE  FALSE
      OBVIOUS
    <3>2. x.retry1 = NRetries
      BY <1>12, <1>17, <3>1 DEF Exact
    <3>3. asked[s] + x.retry1 = NRetries /\ asked[s] >= 1 /\ asked[s] \in Nat
      BY <1>3, <1>4, <1>17, <3>1 DEF Tried
    <3> QED
      BY <1>3, <3>2, <3>3
  <2>3. r = [x EXCEPT !.retry1 = @ - 1] \/ r = ruled
    BY <1>10, <2>1
  <2>4. /\ r.name = x.name /\ r.fd = x.fd /\ r.state = x.state /\ r.heard = x.heard
        /\ r.players = x.players /\ r.retry2 = x.retry2
        /\ r.retry1 = x.retry1 \/ r.retry1 = x.retry1 - 1
    <3>1. CASE r = [x EXCEPT !.retry1 = @ - 1]
      BY <1>3, <3>1 DEF QueryStates
    <3> QED
      BY <1>13, <2>3, <3>1
  <2>5. Tried(s, r, asked[s])
    <3>1. x.retry1 >= 1
      BY <1>12, <1>17
    <3> QED
      BY <1>3, <1>4, <1>14, <1>17, <2>2, <2>4, <3>1 DEF Tried
  <2> QED
    BY <1>3, <1>11, <2>5, TriesAlone
<1> QED
  BY <1>16, <1>17

LEMMA SendPacketsTries ==
  ASSUME Orderly, EngineInv, TriesInv, SendPackets
  PROVE  TriesStep
<1>1. CASE EndSend \/ SendWaits \/ SendGivesUp
  BY <1>1, TriesAside DEF EndSend, SendWaits, SendGivesUp, state, history
<1>2. PICK s : s = SendServer
  OBVIOUS
<1>3. Sending => /\ s \in Ids /\ q[s] \in QueryStates /\ q[s].fd # 0 /\ q[s].state = "connected"
                 /\ Tried(s, q[s], asked[s])
  <2>1. SUFFICES ASSUME Sending
                 PROVE  /\ s \in Ids /\ q[s] \in QueryStates /\ q[s].fd # 0 /\ q[s].state = "connected"
                        /\ Tried(s, q[s], asked[s])
    OBVIOUS
  <2>2. SafeFrees /\ Plain
    BY OrderlySetup
  <2>3. s \in Ids /\ q[s] \in QueryStates /\ q[s].fd = NextFd(Top.i) /\ q[s].state = "connected"
    BY <1>2, <2>1, <2>2, SendServerLive
  <2>4. NextFd(Top.i) # 0
    BY <2>1, SendServerFacts, Basics
  <2> QED
    BY <2>3, <2>4 DEF TriesInv
<1>4. CASE SendAgain
  <2>1. Sending /\ Requery(s) /\ \E sent \in Sends : StatusQuery(s, q[s], sent)
    BY <1>2, <1>4 DEF SendAgain
  <2>2. PICK sent \in Sends : StatusQuery(s, q[s], sent)
    BY <2>1
  <2>3. q[s].name = NoName /\ q[s].retry1 >= 1
    BY <2>1 DEF Requery
  <2> QED
    BY <1>3, <2>1, <2>2, <2>3, QueryTried
<1>5. CASE RulesGivenUp
  <2>1. Sending /\ asked' = asked /\ q' = [q EXCEPT ![s].rules = FALSE]
    BY <1>2, <1>5 DEF RulesGivenUp, history
  <2>2. PICK r : r = [q[s] EXCEPT !.rules = FALSE]
    OBVIOUS
  <2>3. /\ q' = [q EXCEPT ![s] = r] /\ r.name = q[s].name /\ r.fd = q[s].fd /\ r.state = q[s].state
        /\ r.retry1 = q[s].retry1 /\ r.retry2 = q[s].retry2 /\ r.players = q[s].players
        /\ r.heard = q[s].heard
    BY <1>3, <2>1, <2>2 DEF QueryStates
  <2>4. Tried(s, r, asked[s])
    BY <1>3, <2>1, <2>3 DEF Tried
  <2> QED
    BY <1>3, <2>1, <2>3, <2>4, TriesAlone
<1> QED
  BY <1>1, <1>4, <1>5, AskDetailsTries DEF SendPackets

\* What an answer may make of the server it is from: the counters stay in range.
Spared(s, r) ==
  /\ r \in QueryStates /\ r.retry1 \in 0 .. NRetries /\ r.retry2 \in 0 .. NRetries
  /\ r.heard => Is(s, MasterTypes)
  /\ r.fd = 0 => q[s].fd = 0

LEMMA SparedUpdates ==
  ASSUME NEW s, NEW r, Spared(s, r), NRetries \in Nat \ {0}, MaxPlayers \in Nat, NEW sent
  PROVE  /\ r.retry1 >= 1 => Spared(s, Request1(r, sent))
         /\ r.retry2 >= 1 => Spared(s, Request2(r, sent))
         /\ Spared(s, Named(r)) /\ Named(r).name # NoName
         /\ Request1(r, sent).name = r.name /\ Request1(r, sent).retry2 = r.retry2
         /\ Request2(r, sent).name = r.name
         /\ Named(r).retry1 = r.retry1 /\ Named(r).retry2 = r.retry2
<1>1. r \in QueryStates /\ r.retry1 \in Int /\ r.retry2 \in Int
  BY DEF Spared, QueryStates
<1>2. Request1(r, sent) \in QueryStates /\ Request2(r, sent) \in QueryStates /\ Named(r) \in QueryStates
  BY <1>1, QueryRequests
<1>3. /\ Request1(r, sent).heard = r.heard /\ Request1(r, sent).retry2 = r.retry2
      /\ Request1(r, sent).name = r.name /\ Request1(r, sent).fd = r.fd
      /\ Request1(r, sent).retry1 = r.retry1 \/ Request1(r, sent).retry1 = r.retry1 - 1
  BY <1>1 DEF Request1, QueryStates
<1>4. /\ Request2(r, sent).heard = r.heard /\ Request2(r, sent).retry1 = r.retry1
      /\ Request2(r, sent).name = r.name /\ Request2(r, sent).fd = r.fd
      /\ Request2(r, sent).retry2 = r.retry2 \/ Request2(r, sent).retry2 = r.retry2 - 1
  BY <1>1 DEF Request2, QueryStates
<1>5. /\ Named(r).heard = r.heard /\ Named(r).retry1 = r.retry1 /\ Named(r).retry2 = r.retry2
      /\ Named(r).fd = r.fd /\ Named(r).name # NoName
  BY <1>1 DEF Named, QueryStates, NoName
<1>6. r.retry1 >= 1 => Spared(s, Request1(r, sent))
  BY <1>1, <1>2, <1>3 DEF Spared
<1>7. r.retry2 >= 1 => Spared(s, Request2(r, sent))
  BY <1>1, <1>2, <1>4 DEF Spared
<1>8. Spared(s, Named(r))
  BY <1>1, <1>2, <1>5 DEF Spared
<1> QED
  BY <1>3, <1>4, <1>5, <1>6, <1>7, <1>8

LEMMA SparedBinds ==
  ASSUME EngineInv, NEW s \in live, NEW r, Spared(s, r)
  PROVE  /\ Spared(s, Bind(s, r)) /\ Bind(s, r).name = r.name
         /\ Bind(s, r).retry1 = r.retry1 /\ Bind(s, r).retry2 = r.retry2
<1>1. CASE r.fd = 0
  <2>1. FreeFd \in Ids /\ FreeFd # 0 /\ FreeFd \in Ptrs
    BY <1>1, FreeFdFound, Basics DEF Spared
  <2>2. PICK x : x = [r EXCEPT !.fd = FreeFd, !.state = "connected"]
    OBVIOUS
  <2>3. Bind(s, r) = x
    BY <1>1, <2>2 DEF Bind
  <2>4. /\ x \in QueryStates /\ x.fd = FreeFd /\ x.name = r.name /\ x.retry1 = r.retry1
        /\ x.retry2 = r.retry2 /\ x.heard = r.heard
    BY <2>1, <2>2 DEF Spared, QueryStates, States
  <2> QED
    BY <2>1, <2>3, <2>4 DEF Spared
<1>2. CASE r.fd # 0
  BY <1>2 DEF Bind
<1> QED
  BY <1>1, <1>2

\* y is r but for the tries, and for what is left to ask for.
Resets(y, r) ==
  /\ y \in QueryStates /\ y.name = r.name /\ y.heard = r.heard /\ y.fd = r.fd
  /\ y.retry1 = r.retry1 \/ y.retry1 \in 0 .. NRetries
  /\ y.retry2 = r.retry2 \/ y.retry2 \in 0 .. NRetries

LEMMA SparedResets ==
  ASSUME NEW s, NEW r, Spared(s, r), NEW y, Resets(y, r)
  PROVE  Spared(s, y) /\ y.name = r.name
  BY DEF Resets, Spared

\* An answer that names the server, or leaves it as it was.
LEMMA AnswerTries ==
  ASSUME EngineInv, TriesInv, NEW s \in live, NEW r, q' = [q EXCEPT ![s] = r], asked' = asked,
         r = q[s] \/ (Spared(s, r) /\ r.name # NoName)
  PROVE  TriesStep
<1>1. s \in Ids /\ Tried(s, q[s], asked[s])
  BY Basics DEF TriesInv
<1>2. Tried(s, r, asked[s])
  BY <1>1 DEF Tried, Spared
<1> QED
  BY <1>1, <1>2, TriesAlone

LEMMA AnswerSparing ==
  ASSUME EngineInv, TriesInv, NEW s \in live
  PROVE  /\ Spared(s, q[s]) /\ Spared(s, Named(q[s])) /\ Named(q[s]).name # NoName
         /\ NRetries \in Nat \ {0} /\ MaxPlayers \in Nat
         /\ q[s].name = NoName => q[s].players = 0 /\ q[s].retry2 >= 1
         /\ Named(q[s]).retry2 = q[s].retry2
<1>1. s \in Ids /\ Tried(s, q[s], asked[s]) /\ q[s] \in QueryStates /\ NRetries \in Nat \ {0} /\ MaxPlayers \in Nat
  BY Basics DEF TriesInv, EngineTypes
<1>2. Spared(s, q[s])
  BY <1>1 DEF Tried, Spared
<1> QED
  BY <1>1, <1>2, SparedUpdates DEF Tried

LEMMA AnswerQ3Tries ==
  ASSUME EngineInv, TriesInv, NEW s \in live, AnswerQ3(s), asked' = asked
  PROVE  TriesStep
<1>1. PICK x : x = Named(q[s])
  OBVIOUS
<1>2. Spared(s, x) /\ x.name # NoName /\ NRetries \in Nat \ {0} /\ MaxPlayers \in Nat /\ x \in QueryStates
  BY <1>1, AnswerSparing DEF Spared
<1>3. CASE LET r == Bind(s, [Named(q[s]) EXCEPT !.rules = TRUE, !.retry1 = NRetries - 1])
           IN  Result(s, r, "INPROGRESS")
  <2>1. PICK y : y = [x EXCEPT !.rules = TRUE, !.retry1 = NRetries - 1]
    OBVIOUS
  <2>2. Spared(s, y) /\ y.name # NoName
    <3>1. PICK k : k = NRetries - 1
      OBVIOUS
    <3>2. k \in 0 .. NRetries /\ k \in Int /\ y = [x EXCEPT !.rules = TRUE, !.retry1 = k]
      BY <1>2, <2>1, <3>1
    <3>3. Resets(y, x)
      BY <1>2, <3>2 DEF Resets, QueryStates
    <3> QED
      BY <1>2, <3>3, SparedResets
  <2>3. Spared(s, Bind(s, y)) /\ Bind(s, y).name # NoName
    BY <2>2, SparedBinds
  <2>4. q' = [q EXCEPT ![s] = Bind(s, y)]
    BY <1>1, <1>3, <2>1 DEF Result
  <2> QED
    BY <2>3, <2>4, AnswerTries
<1>4. CASE Result(s, Named(q[s]), "DONE_AUTO")
  BY <1>1, <1>2, <1>4, AnswerTries DEF Result
<1>5. CASE Result(s, [Named(q[s]) EXCEPT !.rules = FALSE, !.retry1 = 0], "DONE_AUTO")
  <2>1. PICK y : y = [x EXCEPT !.rules = FALSE, !.retry1 = 0]
    OBVIOUS
  <2>2. Spared(s, y) /\ y.name # NoName
    <3>1. PICK k : k = 0
      OBVIOUS
    <3>2. k \in 0 .. NRetries /\ k \in Int /\ y = [x EXCEPT !.rules = FALSE, !.retry1 = k]
      BY <1>2, <2>1, <3>1
    <3>3. Resets(y, x)
      BY <1>2, <3>2 DEF Resets, QueryStates
    <3> QED
      BY <1>2, <3>3, SparedResets
  <2>3. q' = [q EXCEPT ![s] = y]
    BY <1>1, <1>5, <2>1 DEF Result
  <2> QED
    BY <2>2, <2>3, AnswerTries
<1>6. CASE \E ret \in {"INPROGRESS", "DONE_AUTO", "PKT_ERROR"} : Result(s, q[s], ret)
  BY <1>6, AnswerTries DEF Result
<1> QED
  BY <1>3, <1>4, <1>5, <1>6 DEF AnswerQ3

LEMMA AnswerQ1Tries ==
  ASSUME EngineInv, TriesInv, NEW s \in live, AnswerQ1(s), asked' = asked
  PROVE  TriesStep
<1>1. PICK sent1 \in Sends, sent2 \in Sends :
       LET r == q[s]
           Rule(x) == IF GetRules THEN Request1(Bind(s, x), sent1) ELSE x
           Player(x) == IF GetPlayers THEN Request2(Bind(s, x), sent2) ELSE x
       IN  \/ \E n \in 0 .. MaxPlayers :
                /\ r.name = NoName
                /\ Result(s, Player(Rule([Named(r) EXCEPT
                     !.players = IF GetPlayers THEN n ELSE 0, !.retry1 = NRetries])), "INPROGRESS")
           \/ /\ r.players > 0
              /\ LET x == [r EXCEPT !.players = @ - 1, !.retry2 = NRetries]
                 IN  Result(s, IF x.players > 0 THEN Request2(x, sent2) ELSE x, "INPROGRESS")
           \/ /\ r.rules /\ r.name # NoName
              /\ \/ Result(s, [r EXCEPT !.rules = FALSE], "INPROGRESS")
                 \/ Result(s, Request1([r EXCEPT !.retry1 = NRetries], sent1), "INPROGRESS")
           \/ Result(s, r, "INPROGRESS")
           \/ Result(s, r, "PKT_ERROR")
           \/ Result(s, Named(r), "PKT_ERROR")
  BY DEF AnswerQ1
<1> DEFINE Rule(x) == IF GetRules THEN Request1(Bind(s, x), sent1) ELSE x
           Player(x) == IF GetPlayers THEN Request2(Bind(s, x), sent2) ELSE x
<1>2. /\ Spared(s, q[s]) /\ Spared(s, Named(q[s])) /\ Named(q[s]).name # NoName
      /\ NRetries \in Nat \ {0} /\ MaxPlayers \in Nat
      /\ q[s].name = NoName => q[s].players = 0 /\ q[s].retry2 >= 1
      /\ Named(q[s]).retry2 = q[s].retry2
  BY AnswerSparing
<1>3. PICK v : v = q[s]
  OBVIOUS
<1>4. Spared(s, v) /\ v \in QueryStates
  BY <1>2, <1>3 DEF Spared
<1>5. ASSUME NEW n \in 0 .. MaxPlayers, v.name = NoName,
             Result(s, Player(Rule([Named(v) EXCEPT
                     !.players = IF GetPlayers THEN n ELSE 0, !.retry1 = NRetries])), "INPROGRESS")
      PROVE  TriesStep
  <2>1. PICK m : m = IF GetPlayers THEN n ELSE 0
    OBVIOUS
  <2>2. PICK x : x = Named(v)
    OBVIOUS
  <2>3. PICK y : y = [x EXCEPT !.players = m, !.retry1 = NRetries]
    OBVIOUS
  <2>4. x \in QueryStates /\ x.retry2 >= 1 /\ x.name # NoName /\ Spared(s, x)
    BY <1>2, <1>3, <1>5, <2>2 DEF Spared
  <2>5. Spared(s, y) /\ y.name # NoName /\ y.retry1 = NRetries /\ y.retry2 >= 1
    <3>1. m \in 0 .. MaxPlayers /\ NRetries \in 0 .. NRetries /\ NRetries \in Int
      BY <1>2, <2>1
    <3>2. Resets(y, x) /\ y.retry1 = NRetries /\ y.retry2 = x.retry2
      BY <2>3, <2>4, <3>1 DEF Resets, QueryStates
    <3> QED
      BY <2>4, <3>2, SparedResets
  <2>6. Spared(s, Rule(y)) /\ Rule(y).name # NoName /\ Rule(y).retry2 >= 1
    <3>1. Spared(s, Bind(s, y)) /\ Bind(s, y).name # NoName /\ Bind(s, y).retry1 >= 1 /\ Bind(s, y).retry2 >= 1
      BY <1>2, <2>5, SparedBinds
    <3> QED
      BY <1>2, <2>5, <3>1, SparedUpdates
  <2>7. PICK z : z = Rule(y)
    OBVIOUS
  <2>8. Spared(s, Player(z)) /\ Player(z).name # NoName
    <3> HIDE DEF Rule
    <3> QED
      BY <1>2, <2>6, <2>7, SparedBinds, SparedUpdates
  <2>9. q' = [q EXCEPT ![s] = Player(z)]
    BY <1>5, <2>1, <2>2, <2>3, <2>7 DEF Result
  <2> QED
    BY <2>8, <2>9, AnswerTries
<1>6. CASE /\ v.players > 0
           /\ LET x == [v EXCEPT !.players = @ - 1, !.retry2 = NRetries]
              IN  Result(s, IF x.players > 0 THEN Request2(x, sent2) ELSE x, "INPROGRESS")
  <2>1. PICK x : x = [v EXCEPT !.players = @ - 1, !.retry2 = NRetries]
    OBVIOUS
  <2>2. v.name # NoName
    BY <1>2, <1>3, <1>6
  <2>3. v.players - 1 \in 0 .. MaxPlayers
    <3>1. v.players \in 0 .. MaxPlayers /\ v.players > 0
      BY <1>4, <1>6 DEF QueryStates
    <3> QED
      BY <1>2, <3>1
  <2>4. Spared(s, x) /\ x.name # NoName /\ x.retry2 >= 1
    <3>1. NRetries \in 0 .. NRetries /\ NRetries \in Int /\ NRetries >= 1
      BY <1>2
    <3>2. Resets(x, v) /\ x.retry2 = NRetries
      BY <1>4, <2>1, <2>3, <3>1 DEF Resets, QueryStates
    <3> QED
      BY <1>4, <2>2, <3>1, <3>2, SparedResets
  <2>5. PICK y : y = IF x.players > 0 THEN Request2(x, sent2) ELSE x
    OBVIOUS
  <2>6. Spared(s, y) /\ y.name # NoName
    BY <1>2, <2>4, <2>5, SparedUpdates
  <2>7. q' = [q EXCEPT ![s] = y]
    BY <1>6, <2>1, <2>5 DEF Result
  <2> QED
    BY <2>6, <2>7, AnswerTries
<1>7. CASE v.name # NoName /\ Result(s, [v EXCEPT !.rules = FALSE], "INPROGRESS")
  <2>1. PICK x : x = [v EXCEPT !.rules = FALSE]
    OBVIOUS
  <2>2. Spared(s, x) /\ x.name # NoName
    BY <1>4, <1>7, <2>1 DEF Spared, QueryStates
  <2> QED
    BY <1>7, <2>1, <2>2, AnswerTries DEF Result
<1>8. CASE v.name # NoName /\ Result(s, Request1([v EXCEPT !.retry1 = NRetries], sent1), "INPROGRESS")
  <2>1. PICK x : x = [v EXCEPT !.retry1 = NRetries]
    OBVIOUS
  <2>2. Spared(s, x) /\ x.name # NoName /\ x.retry1 >= 1
    BY <1>2, <1>4, <1>8, <2>1 DEF Spared, QueryStates
  <2>3. Spared(s, Request1(x, sent1)) /\ Request1(x, sent1).name # NoName
    BY <1>2, <2>2, SparedUpdates
  <2> QED
    BY <1>8, <2>1, <2>3, AnswerTries DEF Result
<1>9. CASE Result(s, v, "INPROGRESS") \/ Result(s, v, "PKT_ERROR") \/ Result(s, Named(v), "PKT_ERROR")
  BY <1>2, <1>3, <1>9, AnswerTries DEF Result
<1> HIDE DEF Rule, Player
<1> QED
  BY <1>1, <1>3, <1>5, <1>6, <1>7, <1>8, <1>9 DEF Rule, Player

LEMMA AnswerMasterTries ==
  ASSUME Orderly, EngineInv, TriesInv, Handle, NEW s, s = Head(buffer), AnswerMaster(s), asked' = asked
  PROVE  TriesStep
<1>1. /\ Working /\ buffer # <<>> /\ s \in live /\ s \in Ids /\ s \in 1 .. count
      /\ 1 \in DOMAIN buffer /\ s = buffer[1] /\ q[s] \in QueryStates /\ NRetries \in Nat \ {0}
      /\ MaxReport \in Nat /\ Is(s, MasterTypes)
  <2>1. Working /\ buffer # <<>> /\ s \in live /\ Is(s, MasterTypes)
    BY DEF Handle, At, Working, AnswerMaster
  <2>2. buffer \in Seq(Ids) /\ q \in [Ids -> QueryStates]
    BY Basics DEF EngineTypes
  <2>3. 1 \in DOMAIN buffer /\ s = buffer[1]
    BY <2>1, <2>2
  <2> QED
    BY <2>1, <2>2, <2>3, Basics
<1>2. Plain /\ SafeFrees /\ ~Broadcasts(setup) /\ ~Fault("send")
  <2>1. HasMasters(setup)
    BY <1>1 DEF EngineInv, Origins, Origin
  <2>2. CmdTypes(setup) \cap MasterTypes # {}
    BY <2>1 DEF HasMasters
  <2>3. Plain /\ SafeFrees /\ ~Fault("send")
    BY <2>1, OrderlySetup
  <2> QED
    BY <2>2, <2>3 DEF Plain, BroadcastsOneReply
<1>3. q[s].fd # 0 /\ q[s].state = "connected"
  BY <1>1, <1>2 DEF EngineInv, BufferedOnce
<1>4. PICK x : x = q[s]
  OBVIOUS
<1>5. Tried(s, x, asked[s])
  BY <1>1, <1>4 DEF TriesInv
<1>6. ASSUME NEW r, q' = [q EXCEPT ![s] = r], r.fd = x.fd, r.state = x.state, r.heard, r.name = x.name,
             r.retry1 = x.retry1 \/ r.retry1 = 0, r.retry2 = x.retry2, r.players = x.players
      PROVE  TriesStep
  <2>1. Tried(s, r, asked[s])
    BY <1>1, <1>3, <1>4, <1>5, <1>6 DEF Tried
  <2> QED
    BY <1>1, <1>6, <2>1, TriesAlone
<1>7. CASE Result(s, [q[s] EXCEPT !.name = "SERVERERROR"], "PKT_ERROR")
  <2>1. PICK r : r = [x EXCEPT !.name = "SERVERERROR"]
    OBVIOUS
  <2>2. r.name # NoName /\ r.retry1 = x.retry1 /\ r.retry2 = x.retry2 /\ r.heard = x.heard
    BY <1>1, <1>4, <2>1 DEF QueryStates, NoName
  <2>3. Tried(s, r, asked[s])
    BY <1>5, <2>2 DEF Tried
  <2> QED
    BY <1>1, <1>4, <1>7, <2>1, <2>3, TriesAlone DEF Result
<1>8. CASE Result(s, q[s], "DONE_AUTO")
  BY <1>1, <1>8, AnswerTries DEF Result
<1>9. ASSUME NEW n \in 0 .. MaxReport,
          LET reported == IF q[s].report + n > MaxReport THEN MaxReport ELSE q[s].report + n
              r == [q[s] EXCEPT !.heard = TRUE, !.report = reported]
          IN  IF Is(s, MultiMasters)
              THEN \E ret \in {"INPROGRESS", "DONE_FORCE"} : Result(s, [r EXCEPT !.retry1 = 0], ret)
              ELSE \/ /\ q' = [q EXCEPT ![s] = [r EXCEPT !.name = "MASTER"]]
                      /\ stack' = <<BindCall, Cleanup(s, TRUE)>>
                   \/ \E sent \in Sends :
                        Result(s, Request1([r EXCEPT !.retry1 = @ + 1], sent), "INPROGRESS")
      PROVE  TriesStep
  <2>1. PICK m : m = IF q[s].report + n > MaxReport THEN MaxReport ELSE q[s].report + n
    OBVIOUS
  <2>2. PICK y : y = [x EXCEPT !.heard = TRUE, !.report = m]
    OBVIOUS
  <2>3. \/ q' = [q EXCEPT ![s] = [y EXCEPT !.retry1 = 0]]
        \/ q' = [q EXCEPT ![s] = [y EXCEPT !.name = "MASTER"]]
        \/ \E sent \in Sends : q' = [q EXCEPT ![s] = Request1([y EXCEPT !.retry1 = @ + 1], sent)]
    BY <1>4, <1>9, <2>1, <2>2 DEF Result
  <2>4. m \in 0 .. MaxReport
    <3>1. q[s].report \in 0 .. MaxReport
      BY <1>1 DEF QueryStates
    <3> QED
      BY <1>1, <2>1, <3>1
  <2>5. /\ y \in QueryStates /\ y.fd = x.fd /\ y.state = x.state /\ y.heard /\ y.name = x.name
        /\ y.retry1 = x.retry1 /\ y.retry2 = x.retry2 /\ y.players = x.players
    BY <1>1, <1>4, <2>2, <2>4 DEF QueryStates
  <2>6. CASE q' = [q EXCEPT ![s] = [y EXCEPT !.retry1 = 0]]
    <3>1. PICK r : r = [y EXCEPT !.retry1 = 0]
      OBVIOUS
    <3>2. /\ r.fd = x.fd /\ r.state = x.state /\ r.heard /\ r.name = x.name
          /\ r.retry1 = 0 /\ r.retry2 = x.retry2 /\ r.players = x.players
      BY <2>5, <3>1 DEF QueryStates
    <3> QED
      BY <1>6, <2>6, <3>1, <3>2
  <2>7. CASE q' = [q EXCEPT ![s] = [y EXCEPT !.name = "MASTER"]]
    <3>1. PICK r : r = [y EXCEPT !.name = "MASTER"]
      OBVIOUS
    <3>2. r.name # NoName /\ r.retry1 = x.retry1 /\ r.retry2 = x.retry2 /\ r.heard
      BY <2>5, <3>1 DEF QueryStates, NoName
    <3>3. Tried(s, r, asked[s])
      BY <1>1, <1>5, <3>2 DEF Tried
    <3> QED
      BY <1>1, <2>7, <3>1, <3>3, TriesAlone
  <2>8. CASE \E sent \in Sends : q' = [q EXCEPT ![s] = Request1([y EXCEPT !.retry1 = @ + 1], sent)]
    <3>1. PICK z : z = [y EXCEPT !.retry1 = @ + 1]
      OBVIOUS
    <3>2. PICK r : r = [z EXCEPT !.retry1 = @ - 1]
      OBVIOUS
    <3>3. q' = [q EXCEPT ![s] = r]
      BY <1>2, <2>8, <3>1, <3>2 DEF Sends, Request1
    <3>4. x.retry1 \in Int /\ x.retry1 + 1 \in Int
      BY <1>1, <1>4 DEF QueryStates
    <3>5. /\ z \in QueryStates /\ z.fd = x.fd /\ z.state = x.state /\ z.heard /\ z.name = x.name
          /\ z.retry1 = x.retry1 + 1 /\ z.retry2 = x.retry2 /\ z.players = x.players
      <4>1. z = [y EXCEPT !.retry1 = x.retry1 + 1]
        BY <2>5, <3>1
      <4> QED
        BY <2>5, <3>4, <4>1 DEF QueryStates
    <3>6. /\ r.fd = x.fd /\ r.state = x.state /\ r.heard /\ r.name = x.name
          /\ r.retry1 = (x.retry1 + 1) - 1 /\ r.retry2 = x.retry2 /\ r.players = x.players
      BY <3>2, <3>5 DEF QueryStates
    <3>7. r.retry1 = x.retry1
      BY <3>4, <3>6
    <3> QED
      BY <1>6, <3>3, <3>6, <3>7
  <2> QED
    BY <2>3, <2>6, <2>7, <2>8
<1> QED
  BY <1>7, <1>8, <1>9 DEF AnswerMaster

LEMMA HandleTries ==
  ASSUME Orderly, EngineInv, TriesInv, Handle
  PROVE  TriesStep
<1>1. PICK s : s = Head(buffer)
  OBVIOUS
<1>2. s \in live /\ asked' = asked /\ (AnswerSingle(s) \/ AnswerQ3(s) \/ AnswerQ1(s) \/ AnswerMaster(s))
  BY <1>1 DEF Handle, history
<1>3. CASE AnswerSingle(s)
  <2>1. Spared(s, Named(q[s])) /\ Named(q[s]).name # NoName
    BY <1>2, AnswerSparing
  <2> QED
    BY <1>2, <1>3, <2>1, AnswerTries DEF AnswerSingle, Result
<1> QED
  BY <1>1, <1>2, <1>3, AnswerQ3Tries, AnswerQ1Tries, AnswerMasterTries

LEMMA ReceiveTries ==
  ASSUME Orderly, EngineInv, TriesInv, Receive
  PROVE  TriesStep
<1>1. PICK f \in polled :
       /\ connmap[f] # 0
       /\ \/ UNCHANGED q
          \/ q' = [q EXCEPT ![connmap[f]].name = "DOWN"]
  BY DEF Receive
<1>2. Working /\ SafeFrees /\ asked' = asked
  BY OrderlySetup DEF Receive, history, At, Working
<1>3. PICK s : s = connmap[f]
  OBVIOUS
<1>4. s \in live /\ s \in Ids /\ q[s] \in QueryStates /\ q \in [Ids -> QueryStates]
  <2>1. f \in Ids
    BY <1>1, Basics DEF EngineTypes
  <2> QED
    BY <1>1, <1>2, <1>3, <2>1, LivePointers, Basics DEF EngineTypes
<1>5. CASE UNCHANGED q
  BY <1>2, <1>5, TriesAside
<1>6. CASE q' = [q EXCEPT ![s].name = "DOWN"]
  <2>1. PICK r : r = [q[s] EXCEPT !.name = "DOWN"]
    OBVIOUS
  <2>2. /\ q' = [q EXCEPT ![s] = r] /\ r.name # NoName /\ r.retry1 = q[s].retry1
        /\ r.retry2 = q[s].retry2 /\ r.heard = q[s].heard
    BY <1>4, <1>6, <2>1 DEF QueryStates, NoName
  <2>3. Tried(s, q[s], asked[s])
    BY <1>4 DEF TriesInv
  <2>4. Tried(s, r, asked[s])
    BY <2>2, <2>3 DEF Tried
  <2> QED
    BY <1>2, <1>4, <2>2, <2>4, TriesAlone
<1> QED
  BY <1>1, <1>3, <1>5, <1>6

LEMMA HandleBroadcastTries ==
  ASSUME Orderly, EngineInv, TriesInv, HandleBroadcast
  PROVE  TriesStep
<1>1. /\ asked' = asked /\ count \in Nat /\ 1 .. count \subseteq Ids /\ q \in [Ids -> QueryStates]
  <2>1. asked' = asked
    BY DEF HandleBroadcast, history
  <2>2. q \in [Ids -> QueryStates]
    BY Basics DEF EngineTypes
  <2> QED
    BY <2>1, <2>2, Basics
<1>2. SafeFrees
  BY OrderlySetup
<1>3. \A t \in 1 .. count : q'[t] = q[t]
  BY <1>2, BroadcastFinds
<1>4. \A t \in 1 .. count : Tried(t, q[t], asked[t])
  BY <1>1 DEF TriesInv
<1> QED
  BY <1>1, <1>3, <1>4 DEF TriesStep

\* No step of the work asks a server more often than it has tries for.
LEMMA TriesSteps ==
  ASSUME Orderly, EngineInv, MasterInv, TriesInv, MastersDone, Working, [NextScheduler]_all, ~EndWork
  PROVE  TriesStep
<1>1. ~LoadServers /\ ~FinishOutput
  <2>1. ~adding.on /\ phase = "work"
    BY DEF EngineInv, Origins, FromCmdLine, Working
  <2>2. ~LoadServers
    BY <2>1, LoadEffect DEF LoadServers, EngineInv
  <2> QED
    BY <2>1, <2>2, FinishEffect DEF FinishOutput
<1>2. CASE StartLoop \/ FirstSend \/ RetryBind \/ EndReceive \/ EndHandle \/ Rebind
  BY <1>2, TriesAside
     DEF StartLoop, FirstSend, RetryBind, EndReceive, EndHandle, Rebind, CallSend, state, history
<1>3. CASE Poll
  BY <1>3, TriesAside DEF Poll, state, history
<1>4. CASE Clock
  BY <1>4, TriesAside DEF Clock, SendIntervalEnds, Expire1, Expire2, state, history
<1>5. CASE UNCHANGED all
  BY <1>5, TriesAside DEF all, state, history
<1>6. CASE BindLoop
  <2>1. CASE BindSockets \/ Bound \/ Joined
    BY <2>1, TriesAside DEF BindSockets, Bound, Joined, state, history
  <2>2. CASE SkipServer \/ EndWalk \/ EndPass \/ PassServer \/ BindReturns
    BY <2>2, TriesAside DEF SkipServer, EndWalk, EndPass, PassServer, BindReturns, state, history
  <2> QED
    BY <1>6, <2>1, <2>2, BindServerTries, ConnectServerTries DEF BindLoop
<1> QED
  BY <1>1, <1>2, <1>3, <1>4, <1>5, <1>6, CleanupServerTries, SendPacketsTries, HandleTries,
     HandleBroadcastTries, ReceiveTries
     DEF NextScheduler, Program, DoWork

\* A struct that was just handed out has all its tries.
LEMMA NewTries ==
  ASSUME NRetries \in Nat \ {0}
  PROVE  \A a : LET x == NewQuery(a) IN
           /\ x.retry1 \in 0 .. NRetries /\ x.retry2 \in 0 .. NRetries /\ ~x.heard /\ x.fd = 0
           /\ x.players = 0 /\ x.retry1 >= 1 /\ x.retry2 >= 1 /\ (a = 0 => x.name # NoName)
           /\ (a \notin BroadcastIps => x.retry1 = NRetries)
  BY DEF NewQuery, NoName

LEMMA TriesKept ==
  ASSUME Orderly, EngineInv, MasterInv, TriesInv, MastersDone, Working, [NextScheduler]_all, ~EndWork
  PROVE  TriesInv'
<1>1. /\ SafeFrees /\ Keeps /\ WorkStep /\ TriesStep /\ count \in Nat /\ NRetries \in Nat \ {0}
      /\ live \subseteq 1 .. count /\ setup' = setup /\ \A s \in Ids : s \in Nat \ {0}
  BY OrderlySetup, WorkKinds, TriesSteps, Basics DEF Keeps, Ids
<1>2. Fresh' /\ EngineTypes'
  BY <1>1, FreshKept, NextTypes
<1>3. ASSUME NEW s \in Ids
      PROVE  Tried(s, q[s], asked[s])'
  <2>1. CASE s \in 1 .. count
    <3>1. ip'[s] = ip[s] /\ type'[s] = type[s] /\ Tried(s, q'[s], asked'[s])
      BY <1>1, <2>1, WorkEffects DEF TriesStep
    <3> QED
      BY <1>1, <3>1 DEF Tried, Exact, Is, Broadcast, Fault
  <2>2. CASE s > count'
    <3>1. \A a : LET x == NewQuery(a)' IN
           /\ x.retry1 \in 0 .. NRetries /\ x.retry2 \in 0 .. NRetries /\ ~x.heard
           /\ (a = 0 => x.name # NoName)
      BY <1>1 DEF NewQuery, NoName
    <3>2. q'[s] = NewQuery(0)' /\ asked'[s] = 0
      BY <1>2, <1>3, <2>2 DEF Fresh
    <3>3. PICK x : x = NewQuery(0)'
      OBVIOUS
    <3>4. /\ q'[s] = x /\ asked'[s] = 0 /\ x.retry1 \in 0 .. NRetries /\ x.retry2 \in 0 .. NRetries
          /\ ~x.heard /\ x.name # NoName
      BY <3>1, <3>2, <3>3
    <3> QED
      BY <1>1, <3>4 DEF Tried
  <2>3. CASE s \notin 1 .. count /\ ~(s > count')
    <3>1. \/ count' = count
          \/ \E d \in Discovered : FindsServer(d)
      BY <1>1, WorkEffects
    <3>2. PICK d \in Discovered : FindsServer(d)
      BY <1>1, <1>3, <2>3, <3>1
    <3>3. /\ count' = count + 1 /\ count + 1 \in Ids /\ ip' = [ip EXCEPT ![count + 1] = d[1]]
          /\ q'[count + 1] = NewQuery(d[1]) /\ d[1] \notin BroadcastIps
      BY <1>1, <3>2, FoundServer, Provisos DEF GamesReported
    <3>4. s = count + 1
      BY <1>1, <1>3, <2>3, <3>3
    <3>5. s \notin live /\ s > count
      BY <1>1, <3>4
    <3>6. asked'[s] = 0
      BY <1>1, <1>3, <3>5 DEF Keeps, AsksLive, EngineInv, Fresh
    <3>7. PICK x : x = NewQuery(d[1])
      OBVIOUS
    <3>8. /\ x.retry1 \in 0 .. NRetries /\ x.retry2 \in 0 .. NRetries /\ ~x.heard /\ x.fd = 0
          /\ x.players = 0 /\ x.retry1 >= 1 /\ x.retry2 >= 1 /\ x.retry1 = NRetries
      BY <1>1, <3>3, <3>7, NewTries
    <3>9. q'[s] = x
      BY <3>3, <3>4, <3>7
    <3> QED
      BY <1>1, <3>6, <3>8, <3>9 DEF Tried
  <2> QED
    BY <2>1, <2>2, <2>3
<1> QED
  BY <1>3 DEF TriesInv

\* A struct of the command line was not asked yet.
LEMMA TriesFresh ==
  ASSUME NRetries \in Nat \ {0}, NEW s, q[s] = NewQuery(ip[s]), asked[s] = 0
  PROVE  Tried(s, q[s], asked[s])
<1>1. PICK x, a : x = NewQuery(a) /\ a = ip[s]
  OBVIOUS
<1>2. /\ x.retry1 \in 0 .. NRetries /\ x.retry2 \in 0 .. NRetries /\ ~x.heard /\ x.fd = 0
      /\ x.players = 0 /\ x.retry1 >= 1 /\ x.retry2 >= 1
      /\ (a \notin BroadcastIps => x.retry1 = NRetries)
  BY <1>1, NewTries
<1>3. q[s] = x /\ asked[s] = 0
  BY <1>1
<1> QED
  BY <1>1, <1>2, <1>3 DEF Tried, Exact, Broadcast

LEMMA TriesOutside ==
  ASSUME Orderly, EngineInv, TriesInv, [NextScheduler]_all, ~Working \/ EndWork
  PROVE  TriesInv'
<1>1. NRetries \in Nat \ {0}
  BY Basics
<1>2. CASE LoadServers
  <2>1. phase = "args" /\ SafeFrees /\ setup' = setup
    BY <1>2, LoadCmdLine, OrderlySetup
  <2>2. \A s \in Ids : q'[s] = NewQuery(ip'[s]) /\ asked'[s] = 0
    <3>1. \A s \in Ids : q[s] = NewQuery(ip[s]) /\ asked[s] = 0
      BY <2>1 DEF EngineInv, NotStarted
    <3>2. /\ q' = [s \in Ids |-> IF s \in live' \ live THEN NewQuery(ip'[s]) ELSE q[s]]
          /\ asked' = asked
      BY <1>2 DEF LoadServers, history
    <3>3. \A s \in Ids : s \in live' \ live \/ ip'[s] = ip[s]
      <4>1. ip \in [Ids -> Ips]
        BY Basics DEF TypeOK
      <4>2. CASE SameServers
        BY <4>2 DEF SameServers
      <4>3. ASSUME NEW a, NEW t, AddsServer(a, t)
            PROVE  \A s \in Ids : s \in live' \ live \/ ip'[s] = ip[s]
        <5>1. count + 1 \notin live
          BY Basics
        <5> QED
          BY <4>1, <4>3, <5>1 DEF AddsServer
      <4> QED
        BY <1>2, <4>2, <4>3, LoadCmdLine
    <3> QED
      BY <3>1, <3>2, <3>3
  <2>3. ASSUME NEW s \in Ids
        PROVE  Tried(s, q[s], asked[s])'
    <3>1. PICK x, a : x = NewQuery(a) /\ a = ip'[s]
      OBVIOUS
    <3>2. /\ x.retry1 \in 0 .. NRetries /\ x.retry2 \in 0 .. NRetries /\ ~x.heard /\ x.fd = 0
          /\ x.players = 0 /\ x.retry1 >= 1 /\ x.retry2 >= 1
          /\ (a \notin BroadcastIps => x.retry1 = NRetries)
      BY <1>1, <3>1, NewTries
    <3>3. q'[s] = x /\ asked'[s] = 0
      BY <2>2, <2>3, <3>1
    <3> QED
      BY <1>1, <3>1, <3>2, <3>3 DEF Tried, Exact, Broadcast
  <2> QED
    BY <2>3 DEF TriesInv
<1>3. CASE EndWork \/ FinishOutput \/ UNCHANGED all
  <2>1. UNCHANGED <<q, asked, setup, ip, type>>
    <3>1. CASE EndWork
      BY <3>1 DEF EndWork, StartFinish, state, history, fields
    <3>2. CASE FinishOutput
      BY <3>2, FinishEffect DEF FinishOutput, state, history
    <3>3. CASE UNCHANGED all
      BY <3>3 DEF all, vars, state, history, fields
    <3> QED
      BY <1>3, <3>1, <3>2, <3>3
  <2> QED
    BY <2>1 DEF TriesInv, Tried, Exact, Is, Broadcast, Fault
<1> QED
  BY <1>2, <1>3, OutsideSteps

-----------------------------------------------------------------------------
\* The masters are all closed while what they reported is added.
LEMMA MastersDoneKept ==
  ASSUME Orderly, EngineInv, MasterInv, MastersDone, [NextScheduler]_all
  PROVE  MastersDone'
<1>1. CASE Working /\ ~EndWork
  <2>1. SafeFrees /\ WorkStep /\ WaitingInv' /\ Masters' = Masters
    BY <1>1, OrderlySetup, WorkKinds, AwaitedKept, MastersKept
  <2>2. waiting = 0 => waiting' = 0
    <3>1. SUFFICES ASSUME waiting = 0
                   PROVE  waiting' = 0
      OBVIOUS
    <3>2. MastersOpen = {}
      BY <3>1, MastersFinite DEF MasterInv, WaitingInv
    <3>3. closed \subseteq closed'
      BY <2>1, WorkEffects
    <3>4. MastersOpen' = {}
      BY <2>1, <3>2, <3>3 DEF MastersOpen
    <3> QED
      BY <2>1, <3>4, FS_EmptySet DEF WaitingInv
  <2>3. ASSUME NEW d \in Depths', NEW f, f = FrameOf(stack', d), f.pc = "masters"
        PROVE  waiting' = 0
    <3>1. Stays(d, f) \/ Turns(d, f) \/ Starts(d, f) \/ StartsUnder(d, f)
      BY <1>1, <2>1, <2>3, Shapes
    <3>2. CASE Stays(d, f)
      BY <2>2, <2>3, <3>2 DEF Stays, MastersDone
    <3>3. CASE Turns(d, f)
      <4>1. stack # <<>> /\ Top.pc = "masters"
        BY <2>3, <3>3 DEF Turns, Follows
      <4>2. Depth \in Depths /\ Frame(Depth) = Top
        BY <1>1, <2>1, <4>1, GoodTop
      <4> QED
        BY <2>2, <4>1, <4>2 DEF MastersDone
    <3>4. CASE Starts(d, f)
      BY <2>3, <3>4 DEF Starts
    <3>5. CASE StartsUnder(d, f)
      BY <2>3, <3>5 DEF StartsUnder
    <3> QED
      BY <3>1, <3>2, <3>3, <3>4, <3>5
  <2> QED
    BY <2>3 DEF MastersDone, Frame
<1>2. CASE ~Working \/ EndWork
  <2>1. CASE LoadServers
    <3>1. stack = <<>>
      BY <2>1, LoadCmdLine DEF EngineInv, NotStarted
    <3> QED
      BY <2>1, <3>1 DEF LoadServers, MastersDone, Depths, Depth
  <2>2. CASE EndWork \/ FinishOutput \/ UNCHANGED all
    <3>1. stack' = stack /\ waiting' = waiting
      BY <2>2 DEF EndWork, FinishOutput, state, counters, all
    <3> QED
      BY <3>1 DEF MastersDone, Depths, Depth, Frame
  <2> QED
    BY <1>2, <2>1, <2>2, OutsideSteps
<1> QED
  BY <1>1, <1>2

LEMMA InitTries ==
  ASSUME Orderly, InitScheduler
  PROVE  TriesInv /\ MastersDone
<1>1. EngineInv /\ phase = "args"
  BY InitEngine DEF Orderly, InitScheduler, InitList
<1>2. NRetries \in Nat \ {0} /\ stack = <<>> /\ \A s \in Ids : q[s] = NewQuery(ip[s]) /\ asked[s] = 0
  BY <1>1, Basics DEF EngineInv, NotStarted
<1>3. TriesInv
  BY <1>2, TriesFresh DEF TriesInv
<1>4. MastersDone
  BY <1>2 DEF MastersDone, Depths, Depth
<1> QED
  BY <1>3, <1>4

\* What is true whatever the servers answer, wherever do_work is.
THEOREM TriesInvariant ==
  ASSUME Orderly
  PROVE  SchedulerSpec => [](EngineInv /\ CountInv /\ MasterInv /\ TriesInv)
<1> DEFINE Inv == EngineInv /\ MasterInv /\ MastersDone /\ TriesInv
<1>1. InitScheduler => Inv
  BY InitEngine, InitMaster, InitTries DEF Orderly
<1>2. Inv /\ [NextScheduler]_all => Inv'
  BY EngineNext, MasterNext, MastersDoneKept, TriesKept, TriesOutside DEF Orderly
<1> QED
  BY <1>1, <1>2, CountInvariant, PTL DEF SchedulerSpec

\* -retry: however replies, timeouts, failed sends and the reset counters of a
\* handler come together, a server gets no more status queries than that.
THEOREM AskedWithinRetries ==
  ASSUME Orderly
  PROVE  SchedulerSpec => []RetriesBounded
<1>1. ASSUME EngineInv, TriesInv
      PROVE  RetriesBounded
  <2>1. 1 .. count \subseteq Ids
    BY <1>1, Basics
  <2> QED
    BY <1>1, <2>1, Basics DEF RetriesBounded, TriesInv, Tried
<1>2. EngineInv /\ TriesInv => RetriesBounded
  BY <1>1
<1> QED
  BY <1>2, TriesInvariant, PTL

-----------------------------------------------------------------------------
\* Types.

Counters == connected \in -1 .. MaxServers

LEMMA CountersWork ==
  ASSUME EngineInv, CountInv
  PROVE  Working => Counters
<1>1. Open \subseteq 1 .. count /\ count \in Nat /\ count <= MaxServers /\ MaxServers \in Nat /\ connected \in Int
  BY Basics DEF Open, EngineTypes
<1>2. IsFiniteSet(1 .. count) /\ Cardinality(1 .. count) = count
  BY <1>1, FS_Interval
<1>3. Cardinality(Open) <= count /\ Cardinality(Open) \in Nat
  BY <1>1, <1>2, FS_Subset, OpenFinite
<1> QED
  BY <1>1, <1>3 DEF CountInv, Counters

LEMMA CountersOutside ==
  ASSUME Orderly, EngineInv, [NextScheduler]_all, Counters, (Working => Counters)'
  PROVE  Counters'
<1>1. CASE Working'
  BY <1>1
<1>2. CASE ~Working'
  <2>1. ~Working \/ EndWork
    BY <1>2, OrderlySetup, WorkKinds DEF Keeps, Working
  <2>2. LoadServers \/ EndWork \/ FinishOutput \/ UNCHANGED all
    BY <2>1, OutsideSteps
  <2>3. connected' = connected
    BY <2>2 DEF LoadServers, EndWork, FinishOutput, state, counters, all
  <2> QED
    BY <2>3 DEF Counters
<1> QED
  BY <1>1, <1>2

\* The retry counters never go below 0 nor above -retry, whichever of the resets
\* and decrements of send_packets and of the handlers meet; connected and
\* waiting_for_masters never count more than there are servers.
THEOREM EngineTyped ==
  ASSUME Orderly
  PROVE  SchedulerSpec => []SchedulerTypeOK
<1>1. ASSUME EngineInv, TriesInv, MasterInv, Counters
      PROVE  SchedulerTypeOK
  <2>1. /\ EngineTypes /\ 1 .. count \subseteq Ids /\ count \in 0 .. MaxServers /\ MaxServers \in Nat
        /\ MaxPlayers \in Nat /\ MaxReport \in Nat
    BY <1>1, Basics
  <2>2. waiting \in 0 .. MaxServers
    <3>1. MastersOpen \subseteq 1 .. count /\ Cardinality(MastersOpen) \in Nat
      BY <1>1, MastersFinite DEF MastersOpen, Masters
    <3>2. IsFiniteSet(1 .. count) /\ Cardinality(1 .. count) = count
      BY <2>1, FS_Interval
    <3>3. Cardinality(MastersOpen) <= count
      BY <3>1, <3>2, FS_Subset
    <3>4. waiting = Cardinality(MastersOpen)
      BY <1>1 DEF MasterInv, WaitingInv
    <3> QED
      BY <2>1, <3>1, <3>3, <3>4
  <2>3. ASSUME NEW s \in Ids
        PROVE  /\ q[s].name \in {NoName, "some", "HOSTNOTFOUND", "SYSERROR", "TIMEOUT", "DOWN", "MASTER",
                         "SERVERERROR"}
               /\ q[s].fd \in Ptrs /\ q[s].state \in {"init", "connecting", "connected", "failed"}
               /\ q[s].retry1 \in 0 .. NRetries /\ q[s].retry2 \in 0 .. NRetries
               /\ q[s].rules \in BOOLEAN /\ q[s].players \in 0 .. MaxPlayers
               /\ q[s].heard \in BOOLEAN /\ q[s].report \in 0 .. MaxReport
    <3>1. q[s] \in QueryStates
      BY <2>1 DEF EngineTypes
    <3>2. q[s].retry1 \in 0 .. NRetries /\ q[s].retry2 \in 0 .. NRetries
      BY <1>1 DEF TriesInv, Tried
    <3> QED
      BY <3>1, <3>2 DEF QueryStates, Names, States
  <2>4. /\ setup \in Scenarios /\ connmap \in [Ids -> Ptrs]
        /\ returned \in Nat /\ timedOut \in Nat
        /\ main \in {"start", "first", "loop", "recv", "handle", "rebind"}
        /\ polled \subseteq Ids /\ buffer \in Seq(Ids) /\ bindRetry \in {0, -2}
        /\ due1 \subseteq Ids /\ due2 \subseteq Ids /\ recent \in BOOLEAN
        /\ budget \in Nat /\ asked \in [Ids -> Nat]
    BY <2>1 DEF EngineTypes
  <2>5. closed \subseteq Ids
    BY <2>1 DEF EngineTypes
  <2>6. connected \in -1 .. MaxServers
    BY <1>1 DEF Counters
  <2> QED
    BY <2>2, <2>3, <2>4, <2>5, <2>6 DEF SchedulerTypeOK
<1>2. EngineInv /\ CountInv => (Working => Counters)
  BY CountersWork
<1>3. InitScheduler => Counters
  <2>1. MaxServers \in Nat
    BY ServerListAssumption
  <2> QED
    BY <2>1 DEF InitScheduler, Counters
<1>4. EngineInv /\ Counters /\ (Working => Counters)' /\ [NextScheduler]_all => Counters'
  BY CountersOutside
<1>5. EngineInv /\ TriesInv /\ MasterInv /\ Counters => SchedulerTypeOK
  BY <1>1
<1> QED
  BY <1>2, <1>3, <1>4, <1>5, TriesInvariant, PTL DEF SchedulerSpec

-----------------------------------------------------------------------------
\* Names.

\* connected_qserver's timeout is a name of its own kind: the state says "failed".
\* Only a server that is being closed is named "TIMEOUT" otherwise.
NamesInv == \A s \in 1 .. count :
  /\ q[s].state = "failed" => q[s].name # NoName /\ q[s].fd = 0
  /\ q[s].name = "TIMEOUT" /\ s \notin closed => q[s].state = "failed"

\* The other servers that were closed are counted, once each.
CountedServers == {s \in closed : ~(q[s].name = "TIMEOUT" /\ q[s].state = "failed")}
ClosedInv      == returned + timedOut = Cardinality(CountedServers)

\* What a step makes of a name: it is kept, or given to a server that is not closed.
Renamed(s, x, r) ==
  \/ r.name = x.name
  \/ s \notin closed /\ (r.name \notin {NoName, "TIMEOUT"} \/ r.state = "failed")

NameStep == \A s \in 1 .. count : Renamed(s, q[s], q'[s]) \/ (CleanupCloses /\ s = Top.s)

LEMMA RenamedAlone ==
  ASSUME EngineInv, NEW s \in Ids, NEW r, q' = [q EXCEPT ![s] = r], Renamed(s, q[s], r)
  PROVE  NameStep
<1>1. q \in [Ids -> QueryStates] /\ 1 .. count \subseteq Ids
  BY Basics DEF EngineTypes
<1>2. \A t \in Ids : q'[t] = IF t = s THEN r ELSE q[t]
  BY <1>1
<1>3. \A t \in Ids : Renamed(t, q[t], q[t])
  BY DEF Renamed
<1> QED
  BY <1>1, <1>2, <1>3 DEF NameStep

LEMMA RenamedNone ==
  ASSUME q' = q
  PROVE  NameStep
  BY DEF NameStep, Renamed

LEMMA QueryNames ==
  ASSUME EngineInv, NEW s \in Ids, NEW r \in QueryStates, NEW sent, StatusQuery(s, r, sent), r.name = q[s].name
  PROVE  NameStep
<1>1. PICK x : x = IF sent THEN [r EXCEPT !.retry1 = @ - 1] ELSE r
  OBVIOUS
<1>2. x.name = r.name
  BY <1>1 DEF QueryStates
<1>3. q' = [q EXCEPT ![s] = x]
  BY <1>1 DEF StatusQuery
<1> QED
  BY <1>2, <1>3, RenamedAlone DEF Renamed

LEMMA BindServerNames ==
  ASSUME Orderly, EngineInv, BindServer
  PROVE  NameStep
<1>1. PICK s : s = Top.s
  OBVIOUS
<1>2. /\ s \in Ids /\ s \in live /\ q[s] \in QueryStates /\ q[s].name = NoName /\ q[s].fd = 0
      /\ FreeFd \in Ptrs /\ Working
  <2>1. s \in live /\ q[s].name = NoName /\ q[s].fd = 0 /\ Working
    BY <1>1 DEF BindServer, Walking, Wanted, In, Working
  <2>2. q[s] \in QueryStates
    BY <2>1, Basics DEF EngineTypes
  <2> QED
    BY <2>1, <2>2, Basics, FreeFdFound
<1>3. s \notin closed
  BY <1>2, OrderlySetup DEF EngineInv, Sockets
<1>4. CASE BindDone(s)
  <2>1. PICK r : r = [q[s] EXCEPT !.fd = FreeFd, !.state = "connected"]
    OBVIOUS
  <2>2. r \in QueryStates /\ r.name = q[s].name
    BY <1>2, <2>1 DEF QueryStates, States
  <2>3. \E sent \in Sends : StatusQuery(s, r, sent)
    BY <1>4, <2>1 DEF BindDone
  <2> QED
    BY <1>2, <2>2, <2>3, QueryNames
<1>5. CASE BindPending(s)
  <2>1. PICK r : r = [q[s] EXCEPT !.fd = FreeFd, !.state = "connecting"]
    OBVIOUS
  <2>2. r.name = q[s].name /\ q' = [q EXCEPT ![s] = r]
    BY <1>2, <1>5, <2>1 DEF BindPending, QueryStates
  <2> QED
    BY <1>2, <2>2, RenamedAlone DEF Renamed
<1>6. CASE BindNoDescriptor
  BY <1>6, RenamedNone DEF BindNoDescriptor, state
<1>7. CASE BindFailed(s)
  <2>1. PICK r : r = [q[s] EXCEPT !.name = "SYSERROR"]
    OBVIOUS
  <2>2. r.name = "SYSERROR" /\ q' = [q EXCEPT ![s] = r]
    BY <1>2, <1>7, <2>1 DEF BindFailed, QueryStates
  <2> QED
    BY <1>2, <1>3, <2>2, RenamedAlone DEF Renamed, NoName
<1> QED
  BY <1>1, <1>4, <1>5, <1>6, <1>7 DEF BindServer

LEMMA ConnectServerNames ==
  ASSUME Orderly, EngineInv, ConnectServer
  PROVE  NameStep
<1>1. PICK s : s = Top.s
  OBVIOUS
<1>2. s \in Ids /\ s \in live /\ q[s] \in QueryStates /\ q[s].state = "connecting" /\ Working /\ s \in 1 .. count
  <2>1. s \in live /\ q[s].state = "connecting" /\ Working
    BY <1>1 DEF ConnectServer, Passing, In, Working
  <2>2. q[s] \in QueryStates
    BY <2>1, Basics DEF EngineTypes
  <2> QED
    BY <2>1, <2>2, Basics
<1>3. s \notin closed
  BY <1>2, OrderlySetup DEF EngineInv, Sockets
<1>4. CASE ConnectDone(s)
  <2>1. PICK r : r = [q[s] EXCEPT !.state = "connected"]
    OBVIOUS
  <2>2. r \in QueryStates /\ r.name = q[s].name
    BY <1>2, <2>1 DEF QueryStates, States
  <2>3. \E sent \in Sends : StatusQuery(s, r, sent)
    BY <1>4, <2>1 DEF ConnectDone
  <2> QED
    BY <1>2, <2>2, <2>3, QueryNames
<1>5. CASE ConnectWaits(s)
  BY <1>5, RenamedNone DEF ConnectWaits, state
<1>6. CASE ConnectFails(s)
  <2>1. PICK name \in {"TIMEOUT", "SYSERROR"} : q' = [q EXCEPT ![s].name = name, ![s].state = "failed", ![s].fd = 0]
    BY <1>6 DEF ConnectFails
  <2>2. PICK r : r = [q[s] EXCEPT !.name = name, !.state = "failed", !.fd = 0]
    OBVIOUS
  <2>3. q' = [q EXCEPT ![s] = r] /\ r.state = "failed"
    BY <1>2, <2>1, <2>2 DEF QueryStates
  <2> QED
    BY <1>2, <1>3, <2>3, RenamedAlone DEF Renamed
<1> QED
  BY <1>1, <1>4, <1>5, <1>6 DEF ConnectServer

LEMMA CleanupServerNames ==
  ASSUME Orderly, EngineInv, CleanupServer
  PROVE  NameStep
<1>1. PICK s : s = Top.s
  OBVIOUS
<1>2. /\ q \in [Ids -> QueryStates] /\ stack # <<>> /\ EngineTypes
      /\ count \in Nat /\ \A t \in 1 .. count : t \in Ids
  BY Basics DEF CleanupServer, CleanupKeeps, CleanupCloses, DisplayClosed, AddReported, NextMaster,
     MastersAdded, In, EngineTypes
<1>3. CASE CleanupKeeps \/ DisplayClosed \/ MastersAdded
  BY <1>3, RenamedNone DEF CleanupKeeps, DisplayClosed, MastersAdded, state
<1>4. CASE CleanupCloses
  <2>1. s \in Ids /\ q' = [q EXCEPT ![s].name = ClosedName(s), ![s].fd = 0]
    BY <1>1, <1>4, Basics DEF CleanupCloses
  <2>2. \A t \in Ids : t # s => q'[t] = q[t]
    BY <1>2, <2>1
  <2> QED
    BY <1>1, <1>2, <1>4, <2>2 DEF NameStep, Renamed
<1>5. CASE AddReported
  <2>1. s \in Ids /\ s # 0
    <3>1. Top \in MasterFrames
      BY <1>2, <1>5, TopFrame, FrameKinds DEF AddReported, In
    <3> QED
      BY <1>1, <1>5, <3>1 DEF AddReported, MasterFrames, Ptrs, Ids
  <2>2. PICK d \in Discovered :
          \/ q' = [q EXCEPT ![s].report = @ - 1]
          \/ q' = [q EXCEPT ![s].report = @ - 1, ![count + 1] = NewQuery(d[1])]
    BY <1>1, <1>5 DEF AddReported
  <2>3. ASSUME NEW t \in 1 .. count
        PROVE  q'[t].name = q[t].name
    <3>1. t \in Ids /\ t # count + 1 /\ q[t] \in QueryStates
      BY <1>2
    <3>2. PICK r : r = [q[s] EXCEPT !.report = @ - 1]
      OBVIOUS
    <3>3. q'[t] = IF t = s THEN r ELSE q[t]
      BY <1>2, <2>1, <2>2, <3>1, <3>2
    <3>4. t = s => r.name = q[t].name
      BY <3>1, <3>2 DEF QueryStates
    <3> QED
      BY <3>3, <3>4
  <2> QED
    BY <2>3 DEF NameStep, Renamed
<1>6. CASE NextMaster
  <2>1. s \in Ids /\ s # 0
    <3>1. Top \in MasterFrames
      BY <1>2, <1>6, TopFrame, FrameKinds DEF NextMaster, In
    <3> QED
      BY <1>1, <1>6, <3>1 DEF NextMaster, MasterFrames, Ptrs, Ids
  <2>2. PICK r : r = [q[s] EXCEPT !.heard = FALSE]
    OBVIOUS
  <2>3. q[s] \in QueryStates
    BY <1>2, <2>1
  <2>4. q' = [q EXCEPT ![s] = r] /\ r.name = q[s].name
    BY <1>1, <1>6, <2>2, <2>3 DEF NextMaster, QueryStates
  <2> QED
    BY <2>1, <2>4, RenamedAlone DEF Renamed
<1> QED
  BY <1>3, <1>4, <1>5, <1>6 DEF CleanupServer

LEMMA SendPacketsNames ==
  ASSUME Orderly, EngineInv, SendPackets
  PROVE  NameStep
<1>1. PICK s : s = SendServer /\ SendsTo(s)
  BY SendDoes, OrderlySetup
<1>2. CASE q' = q
  BY <1>2, RenamedNone
<1>3. CASE \E r : Alters(s, r) /\ r.name = q[s].name
  <2>1. s \in Ids
    BY <1>3, Basics DEF Alters
  <2> QED
    BY <1>3, <2>1, RenamedAlone DEF Alters, Renamed
<1> QED
  BY <1>1, <1>2, <1>3 DEF SendsTo

LEMMA HandleNames ==
  ASSUME Orderly, EngineInv, Handle, ~Broadcasts(setup)
  PROVE  NameStep
<1>1. PICK s : s = Head(buffer)
  OBVIOUS
<1>2. s \in live /\ s \in Ids /\ Answered(s) /\ buffer # <<>> /\ At("handle")
  BY <1>1, HandleDoes, Basics
<1>3. PICK r : q' = [q EXCEPT ![s] = r] /\ Renames(q[s], r)
  BY <1>2 DEF Answered, AnsweredWith
<1>4. Working /\ Plain
  BY <1>2, OrderlySetup DEF At, Working
<1>5. 1 \in DOMAIN buffer /\ s = buffer[1]
  <2>1. buffer \in Seq(Ids)
    BY Basics DEF EngineTypes
  <2> QED
    BY <1>1, <1>2, <2>1
<1>6. q[s].fd # 0
  BY <1>4, <1>5 DEF EngineInv, BufferedOnce
<1>7. s \notin closed
  BY <1>4, <1>6 DEF EngineInv, Sockets
<1> QED
  BY <1>2, <1>3, <1>7, RenamedAlone DEF Renames, Renamed

LEMMA ReceiveNames ==
  ASSUME Orderly, EngineInv, Receive
  PROVE  NameStep
<1>1. PICK f \in polled :
       /\ connmap[f] # 0
       /\ \/ UNCHANGED q
          \/ q' = [q EXCEPT ![connmap[f]].name = "DOWN"]
  BY DEF Receive
<1>2. Working /\ Plain
  BY OrderlySetup DEF Receive, At, Working
<1>3. PICK s : s = connmap[f]
  OBVIOUS
<1>4. f \in Ids /\ f # 0
  BY <1>1, Basics DEF EngineTypes
<1>5. s \in live /\ q[s].fd = f
  BY <1>1, <1>2, <1>3, <1>4 DEF EngineInv, Sockets
<1>6. s \in Ids /\ s \notin closed
  BY <1>2, <1>4, <1>5, Basics DEF EngineInv, Sockets
<1>7. q[s] \in QueryStates
  BY <1>6, Basics DEF EngineTypes
<1>8. CASE UNCHANGED q
  BY <1>8, RenamedNone
<1>9. CASE q' = [q EXCEPT ![s].name = "DOWN"]
  <2>1. PICK r : r = [q[s] EXCEPT !.name = "DOWN"]
    OBVIOUS
  <2>2. q' = [q EXCEPT ![s] = r] /\ r.name = "DOWN"
    BY <1>7, <1>9, <2>1 DEF QueryStates
  <2> QED
    BY <1>6, <2>2, RenamedAlone DEF Renamed, NoName
<1> QED
  BY <1>1, <1>3, <1>8, <1>9

LEMMA NameSteps ==
  ASSUME Orderly, EngineInv, Working, [NextScheduler]_all, ~EndWork, ~Broadcasts(setup)
  PROVE  NameStep
<1>1. ~LoadServers /\ ~FinishOutput
  <2>1. ~adding.on /\ phase = "work"
    BY DEF EngineInv, Origins, FromCmdLine, Working
  <2>2. ~LoadServers
    BY <2>1, LoadEffect DEF LoadServers, EngineInv
  <2> QED
    BY <2>1, <2>2, FinishEffect DEF FinishOutput
<1>2. CASE StartLoop \/ FirstSend \/ RetryBind \/ EndReceive \/ EndHandle \/ Rebind
  BY <1>2, RenamedNone
     DEF StartLoop, FirstSend, RetryBind, EndReceive, EndHandle, Rebind, CallSend, state
<1>3. CASE Poll
  BY <1>3, RenamedNone DEF Poll, state
<1>4. CASE Clock
  BY <1>4, RenamedNone DEF Clock, SendIntervalEnds, Expire1, Expire2, state
<1>5. CASE UNCHANGED all
  BY <1>5, RenamedNone DEF all, state
<1>6. CASE BindLoop
  <2>1. CASE BindSockets \/ Bound \/ Joined
    BY <2>1, RenamedNone DEF BindSockets, Bound, Joined, state
  <2>2. CASE SkipServer \/ EndWalk \/ EndPass \/ PassServer \/ BindReturns
    BY <2>2, RenamedNone DEF SkipServer, EndWalk, EndPass, PassServer, BindReturns, state
  <2> QED
    BY <1>6, <2>1, <2>2, BindServerNames, ConnectServerNames DEF BindLoop
<1>7. CASE HandleBroadcast
  <2>1. SafeFrees
    BY OrderlySetup
  <2>2. Head(buffer) \in live /\ Broadcast(Head(buffer))
    BY <1>7, <2>1, BroadcastFinds
  <2>3. Broadcasts(setup)
    <3>1. Head(buffer) \in 1 .. count
      BY <2>2, Basics
    <3> QED
      BY <2>2, <3>1 DEF EngineInv, Origins, Origin
  <2> QED
    BY <2>3
<1> QED
  BY <1>1, <1>2, <1>3, <1>4, <1>5, <1>6, <1>7, CleanupServerNames, SendPacketsNames, HandleNames,
     ReceiveNames
     DEF NextScheduler, Program, DoWork

\* What a step makes of a socket: kept or closed, opened for a server without a
\* name, or given up.
StateStep == \A s \in 1 .. count :
  \/ q'[s].state = q[s].state /\ q'[s].fd \in {q[s].fd, 0}
  \/ q'[s].state # "failed" /\ (q[s].name = NoName \/ q[s].state = "connecting")
  \/ q'[s].state = "failed" /\ q'[s].fd = 0 /\ q'[s].name # NoName /\ q[s].state = "connecting"

LEMMA StateSteps ==
  ASSUME EngineInv, Plain, WorkStep
  PROVE  StateStep
<1>1. /\ q \in [Ids -> QueryStates] /\ live \subseteq Ids /\ live \subseteq 1 .. count
      /\ 1 .. count \subseteq Ids /\ count \in Nat
  <2>1. q \in [Ids -> QueryStates]
    BY Basics DEF EngineTypes
  <2> QED
    BY <2>1, Basics
<1>2. CASE q' = q
  BY <1>2 DEF StateStep
<1>3. ASSUME NEW s, NEW r, Alters(s, r),
             \/ r.state = q[s].state /\ r.fd \in {q[s].fd, 0}
             \/ r.state # "failed" /\ (q[s].name = NoName \/ q[s].state = "connecting")
             \/ r.state = "failed" /\ r.fd = 0 /\ r.name # NoName /\ q[s].state = "connecting"
      PROVE  StateStep
  <2>1. \A t \in 1 .. count : q'[t] = IF t = s THEN r ELSE q[t]
    BY <1>1, <1>3 DEF Alters
  <2> QED
    BY <1>3, <2>1 DEF StateStep
<1>4. CASE Quiet
  BY <1>2, <1>3, <1>4 DEF Quiet, SameSocket
<1>5. ASSUME NEW s \in live, Maps(s) \/ Opens(s) \/ Pends(s) \/ Joins(s) \/ Drops(s) \/ Closes(s) \/ Frees(s)
      PROVE  StateStep
  <2>1. CASE Opens(s) \/ Pends(s) \/ Joins(s)
    <3>1. PICK r : Alters(s, r) /\ r.state # "failed" /\ (q[s].name = NoName \/ q[s].state = "connecting")
      BY <2>1 DEF Opens, Pends, Joins
    <3> QED
      BY <1>3, <3>1
  <2>2. CASE Drops(s)
    BY <1>3, <2>2 DEF Drops
  <2>3. CASE Closes(s)
    BY <1>3, <2>3 DEF Closes
  <2>4. CASE Frees(s)
    BY <1>2, <2>4 DEF Frees
  <2> QED
    BY <1>5, <2>1, <2>2, <2>3, <2>4 DEF Maps
<1>6. ASSUME NEW d \in Discovered, FindsServer(d)
      PROVE  StateStep
  <2>1. \A t \in 1 .. count : t \in Ids /\ t # count + 1
    BY <1>1
  <2>2. \A t \in Ids : t # count + 1 =>
          q'[t] = q[t] \/ (t \in live /\ q'[t].name = q[t].name /\ q'[t].fd = q[t].fd /\ q'[t].state = q[t].state)
    BY <1>6, FoundServer
  <2>3. \A t \in 1 .. count : q'[t].state = q[t].state /\ q'[t].fd = q[t].fd
    BY <2>1, <2>2
  <2> QED
    BY <2>3 DEF StateStep
<1> QED
  BY <1>4, <1>5, <1>6 DEF WorkStep

LEMMA NamesKept ==
  ASSUME Orderly, EngineInv, NamesInv, Working, [NextScheduler]_all, ~EndWork, ~Broadcasts(setup)
  PROVE  NamesInv'
<1>1. /\ SafeFrees /\ Plain /\ Keeps /\ WorkStep /\ NameStep /\ Sockets /\ count \in Nat
  BY OrderlySetup, WorkKinds, NameSteps, Basics DEF EngineInv
<1>2. StateStep /\ closed \subseteq closed'
  BY <1>1, StateSteps, WorkEffects
<1>3. ASSUME NEW s \in 1 .. count
      PROVE  /\ q'[s].state = "failed" => q'[s].name # NoName /\ q'[s].fd = 0
             /\ q'[s].name = "TIMEOUT" /\ s \notin closed' => q'[s].state = "failed"
  <2>1. /\ q[s].state = "failed" => q[s].name # NoName /\ q[s].fd = 0
        /\ q[s].name = "TIMEOUT" /\ s \notin closed => q[s].state = "failed"
        /\ q[s].name # NoName => q'[s].name # NoName
        /\ q[s].state = "connecting" => q[s].name = NoName
        /\ "connecting" # "failed" /\ "TIMEOUT" # NoName
    BY <1>1, <1>3, WorkEffects DEF NamesInv, Sockets, NoName
  <2>2. \/ q'[s].state = q[s].state /\ q'[s].fd \in {q[s].fd, 0}
        \/ q'[s].state # "failed" /\ (q[s].name = NoName \/ q[s].state = "connecting")
        \/ q'[s].state = "failed" /\ q'[s].fd = 0 /\ q'[s].name # NoName /\ q[s].state = "connecting"
    BY <1>2, <1>3 DEF StateStep
  <2>3. \/ q'[s].name = q[s].name
        \/ q'[s].name \notin {NoName, "TIMEOUT"}
        \/ q'[s].state = "failed"
        \/ s \in closed'
    BY <1>1, <1>3 DEF NameStep, Renamed, CleanupCloses
  <2> QED
    BY <1>2, <2>1, <2>2, <2>3
<1>4. ASSUME NEW s \in 1 .. count', s \notin 1 .. count
      PROVE  q'[s].state # "failed" /\ q'[s].name # "TIMEOUT"
  <2>1. PICK d \in Discovered : FindsServer(d)
    BY <1>1, <1>4, WorkEffects
  <2>2. count' = count + 1 /\ q'[count + 1] = NewQuery(d[1])
    BY <2>1, FoundServer
  <2>3. s = count + 1
    BY <1>1, <1>4, <2>2
  <2> QED
    BY <2>2, <2>3 DEF NewQuery, NoName
<1>5. \A s \in 1 .. count' :
        /\ q'[s].state = "failed" => q'[s].name # NoName /\ q'[s].fd = 0
        /\ q'[s].name = "TIMEOUT" /\ s \notin closed' => q'[s].state = "failed"
  BY <1>3, <1>4
<1> QED
  BY <1>5 DEF NamesInv

LEMMA ClosedFinite ==
  ASSUME EngineInv
  PROVE  IsFiniteSet(CountedServers) /\ Cardinality(CountedServers) \in Nat
<1>1. CountedServers \subseteq 1 .. count /\ count \in Nat
  <2>1. closed \subseteq 1 .. count
    BY Basics DEF EngineTypes
  <2>2. CountedServers \subseteq closed
    BY DEF CountedServers
  <2>3. count \in Nat
    BY Basics
  <2> QED
    BY <2>1, <2>2, <2>3
<1>2. IsFiniteSet(1 .. count)
  BY <1>1, FS_Interval
<1> QED
  BY <1>1, <1>2, FS_Subset, FS_CardinalityType

LEMMA ClosedCounted ==
  ASSUME Orderly, EngineInv, MasterInv, NamesInv, ClosedInv, Working, [NextScheduler]_all, ~EndWork,
         ~Broadcasts(setup)
  PROVE  ClosedInv'
<1>1. /\ SafeFrees /\ Plain /\ WorkStep /\ NameStep /\ Sockets /\ count \in Nat /\ CountStep /\ CleanupsOnce
      /\ live \subseteq 1 .. count
  BY OrderlySetup, WorkKinds, NameSteps, CountSteps, Basics DEF EngineInv, MasterInv
<1>2. StateStep /\ closed \subseteq 1 .. count /\ returned \in Nat /\ timedOut \in Nat
  BY <1>1, StateSteps, Basics DEF EngineTypes
<1>3. ASSUME NEW s \in closed, ~(CleanupCloses /\ s = Top.s)
      PROVE  q'[s].name = q[s].name /\ q'[s].state = q[s].state
  <2>1. s \in 1 .. count /\ q[s].name # NoName /\ q[s].state # "connecting"
    BY <1>1, <1>2, <1>3 DEF Sockets
  <2>2. q'[s].name = q[s].name
    BY <1>1, <1>3, <2>1 DEF NameStep, Renamed
  <2> QED
    BY <1>2, <2>1, <2>2 DEF StateStep
<1>4. CASE ~CleanupCloses
  <2>1. closed' = closed /\ returned' = returned /\ timedOut' = timedOut
    <3>1. CASE LoadServers \/ FinishOutput
      <4>1. ~adding.on /\ phase = "work"
        BY DEF EngineInv, Origins, FromCmdLine, Working
      <4> QED
        BY <3>1, <4>1, LoadEffect, FinishEffect DEF LoadServers, FinishOutput, EngineInv
    <3>2. CASE CleanupServer
      BY <1>4, <3>2 DEF CleanupServer, CleanupKeeps, DisplayClosed, AddReported, NextMaster, MastersAdded,
         state, counters, history
    <3>3. CASE BindLoop
      BY <3>3 DEF BindLoop, BindSockets, SkipServer, BindServer, Bound, EndWalk, EndPass, PassServer,
         ConnectServer, Joined, BindReturns, BindDone, BindPending, BindNoDescriptor, BindFailed,
         ConnectDone, ConnectWaits, ConnectFails, state, counters, history
    <3>4. CASE SendPackets
      BY <3>4 DEF SendPackets, EndSend, SendWaits, SendGivesUp, SendAgain, RulesGivenUp, AskDetails,
         state, counters, history
    <3>5. CASE DoWork \/ Receive
      BY <3>5 DEF DoWork, StartLoop, FirstSend, RetryBind, Poll, EndReceive, Handle, HandleBroadcast,
         EndHandle, Rebind, EndWork, CallSend, Receive, state, counters, history
    <3>6. CASE Clock \/ UNCHANGED all
      BY <3>6 DEF Clock, SendIntervalEnds, Expire1, Expire2, all, state, counters, history
    <3> QED
      BY <3>1, <3>2, <3>3, <3>4, <3>5, <3>6 DEF NextScheduler, Program
  <2>2. CountedServers' = CountedServers
    BY <1>3, <1>4, <2>1 DEF CountedServers
  <2> QED
    BY <2>1, <2>2 DEF ClosedInv
<1>5. CASE CleanupCloses
  <2>1. PICK s : s = Top.s
    OBVIOUS
  <2>2. /\ stack # <<>> /\ Top.pc = "cleanup" /\ s \in live
        /\ q' = [q EXCEPT ![s].name = ClosedName(s), ![s].fd = 0]
        /\ returned' = IF Returned(ClosedName(s)) THEN returned + 1 ELSE returned
        /\ timedOut' = IF q[s].name = NoName /\ ClosedName(s) = "TIMEOUT" THEN timedOut + 1 ELSE timedOut
        /\ closed' = closed \cup {s}
    BY <1>5, <2>1 DEF CleanupCloses, In
  <2>3. s \notin closed
    <3>1. Depth \in Depths /\ Frame(Depth) = Top
      BY <1>1, <2>2, GoodTop
    <3> QED
      BY <1>1, <2>1, <2>2, <3>1 DEF CleanupsOnce
  <2>4. s \in Ids /\ s \in 1 .. count /\ q[s] \in QueryStates /\ q \in [Ids -> QueryStates]
    <3>1. q \in [Ids -> QueryStates]
      BY Basics DEF EngineTypes
    <3> QED
      BY <2>2, <3>1, Basics
  <2>5. q'[s].name = ClosedName(s) /\ q'[s].state = q[s].state
    <3>1. PICK r, n : n = ClosedName(s) /\ r = [q[s] EXCEPT !.name = n, !.fd = 0]
      OBVIOUS
    <3>2. q'[s] = r
      BY <2>2, <2>4, <3>1
    <3>3. r.name = n /\ r.state = q[s].state
      BY <2>4, <3>1 DEF QueryStates
    <3> QED
      BY <3>1, <3>2, <3>3
  <2>6. \A t \in closed : q'[t].name = q[t].name /\ q'[t].state = q[t].state
    BY <1>3, <2>1, <2>3
  <2>7. /\ q[s].state = "failed" => q[s].name # NoName
        /\ q[s].name = "TIMEOUT" => q[s].state = "failed"
        /\ q[s].name # NoName => ClosedName(s) = q[s].name
    BY <2>3, <2>4 DEF NamesInv, ClosedName
  <2>8. /\ s \notin CountedServers
        /\ IsFiniteSet(CountedServers) /\ Cardinality(CountedServers) \in Nat
        /\ Cardinality(CountedServers \cup {s}) = Cardinality(CountedServers) + 1
    <3>1. s \notin CountedServers
      BY <2>3 DEF CountedServers
    <3> QED
      BY <3>1, ClosedFinite, FS_AddElement
  <2>9. CASE ClosedName(s) = "TIMEOUT" /\ q[s].state = "failed"
    <3>1. CountedServers' = CountedServers
      BY <2>2, <2>3, <2>5, <2>6, <2>9 DEF CountedServers
    <3>2. returned' = returned /\ timedOut' = timedOut
      BY <2>2, <2>7, <2>9 DEF Returned
    <3> QED
      BY <3>1, <3>2 DEF ClosedInv
  <2>10. CASE ~(ClosedName(s) = "TIMEOUT" /\ q[s].state = "failed")
    <3>1. CountedServers' = CountedServers \cup {s}
      BY <2>2, <2>3, <2>5, <2>6, <2>10 DEF CountedServers
    <3>2. returned' + timedOut' = returned + timedOut + 1
      BY <1>2, <2>2, <2>7, <2>10 DEF Returned, NoName
    <3> QED
      BY <1>2, <2>8, <3>1, <3>2 DEF ClosedInv
  <2> QED
    BY <2>9, <2>10
<1> QED
  BY <1>4, <1>5

\* Outside of do_work's loop nothing is closed or named.
LEMMA NamesOutside ==
  ASSUME Orderly, EngineInv, NamesInv, ClosedInv, [NextScheduler]_all, ~Working \/ EndWork
  PROVE  NamesInv' /\ ClosedInv'
<1>1. CASE LoadServers
  <2>1. phase = "args" /\ closed' = closed /\ returned' = returned /\ timedOut' = timedOut
    BY <1>1, LoadCmdLine DEF LoadServers, history
  <2>2. NotStarted'
    BY <1>1, LoadKept DEF Orderly
  <2>3. closed = {} /\ closed' = {}
    BY <2>1 DEF EngineInv, NotStarted
  <2>4. \A s \in Ids : q[s] = NewQuery(ip[s])
    BY <2>1 DEF EngineInv, NotStarted
  <2>5. \A s \in Ids : q'[s] = q[s] \/ q'[s] = NewQuery(ip'[s])
    BY <1>1 DEF LoadServers
  <2>6. \A s \in Ids : q'[s].state = "init" /\ q'[s].name # "TIMEOUT"
    <3>1. \A a : NewQuery(a).state = "init" /\ NewQuery(a).name # "TIMEOUT"
      BY DEF NewQuery, NoName
    <3> QED
      BY <2>4, <2>5, <3>1
  <2>7. 1 .. count' \subseteq Ids
    <3>1. EngineInv'
      BY EngineNext DEF Orderly
    <3>2. TypeOK'
      BY <3>1 DEF EngineInv, ListInv
    <3>3. count' \in Ptrs
      BY <3>2 DEF TypeOK
    <3> QED
      BY <3>3, ServerListAssumption DEF Ids, Ptrs
  <2>8. NamesInv'
    BY <2>6, <2>7 DEF NamesInv
  <2>9. CountedServers = {} /\ CountedServers' = {}
    BY <2>3 DEF CountedServers
  <2> QED
    BY <2>1, <2>8, <2>9 DEF ClosedInv
<1>2. CASE EndWork \/ FinishOutput \/ UNCHANGED all
  <2>1. UNCHANGED <<q, closed, returned, timedOut, count>>
    <3>1. CASE EndWork
      BY <3>1 DEF EndWork, StartFinish, state, history, counters, fields
    <3>2. CASE FinishOutput
      BY <3>2, FinishEffect DEF FinishOutput, state, history, counters
    <3>3. CASE UNCHANGED all
      BY <3>3 DEF all, vars, state, history, counters
    <3> QED
      BY <1>2, <3>1, <3>2, <3>3
  <2>2. CountedServers' = CountedServers
    BY <2>1 DEF CountedServers
  <2> QED
    BY <2>1, <2>2 DEF NamesInv, ClosedInv
<1> QED
  BY <1>1, <1>2, OutsideSteps

LEMMA InitNames ==
  ASSUME Orderly, InitScheduler
  PROVE  NamesInv /\ ClosedInv
<1>1. count = 0 /\ returned = 0 /\ timedOut = 0 /\ closed = {}
  BY DEF InitScheduler, InitList
<1>2. CountedServers = {}
  BY <1>1 DEF CountedServers
<1> QED
  BY <1>1, <1>2, FS_EmptySet DEF NamesInv, ClosedInv

SetupKept == setup' = setup

LEMMA SetupSteps ==
  ASSUME Orderly, EngineInv, [NextScheduler]_all
  PROVE  SetupKept
<1>1. CASE Working /\ ~EndWork
  BY <1>1, OrderlySetup, WorkKinds DEF Keeps, SetupKept
<1>2. CASE ~Working \/ EndWork
  BY <1>2, OutsideSteps DEF LoadServers, EndWork, FinishOutput, all, SetupKept
<1> QED
  BY <1>1, <1>2

CountedInv == ~Broadcasts(setup) => NamesInv /\ ClosedInv

LEMMA CountedNext ==
  ASSUME Orderly, EngineInv, MasterInv, CountedInv, [NextScheduler]_all
  PROVE  CountedInv'
<1>1. setup' = setup
  BY SetupSteps DEF SetupKept
<1>2. SUFFICES ASSUME ~Broadcasts(setup)
               PROVE  NamesInv' /\ ClosedInv'
  BY <1>1 DEF CountedInv, Broadcasts
<1>3. NamesInv /\ ClosedInv
  BY <1>2 DEF CountedInv
<1> QED
  BY <1>2, <1>3, NamesKept, ClosedCounted, NamesOutside

\* Where no broadcast is asked for, a server that is closed is counted as returned
\* or as timed out, exactly once, however handlers, send_packets, bind_sockets and
\* the masters' cleanup come to close it.
THEOREM ClosedAreCounted ==
  ASSUME Orderly
  PROVE  SchedulerSpec => [](~Broadcasts(setup) => CountedOnce)
<1>1. InitScheduler => CountedInv
  BY InitNames DEF CountedInv
<1>2. EngineInv /\ MasterInv /\ CountedInv /\ [NextScheduler]_all => CountedInv'
  BY CountedNext
<1>3. CountedInv => (~Broadcasts(setup) => CountedOnce)
  BY DEF CountedInv, ClosedInv, CountedServers, CountedOnce
<1> QED
  BY <1>1, <1>2, <1>3, TriesInvariant, PTL DEF SchedulerSpec

-----------------------------------------------------------------------------
\* Giving up.

\* A server that send_packets is closing without an answer has no tries left.
Spent(s, x) == x.name = NoName /\ Exact(s) => x.retry1 < 1

SpentInv ==
  main = "rebind" => \A d \in Depths : Frame(d).pc = "cleanup" => Spent(Frame(d).s, q[Frame(d).s])

\* In a call, servers are added for a master only.
LEMMA GrowsForMasters ==
  ASSUME EngineInv, Working, stack # <<>>, [NextScheduler]_all, count' # count
  PROVE  stack' = stack /\ Top.pc = "masters"
<1>1. ~LoadServers /\ ~FinishOutput
  <2>1. ~adding.on /\ phase = "work"
    BY DEF EngineInv, Origins, FromCmdLine, Working
  <2>2. ~LoadServers
    BY <2>1, LoadEffect DEF LoadServers, EngineInv
  <2> QED
    BY <2>1, <2>2, FinishEffect DEF FinishOutput
<1>2. ~BindLoop
  BY DEF BindLoop, BindSockets, SkipServer, BindServer, Bound, EndWalk, EndPass, PassServer, ConnectServer,
         Joined, BindReturns, MoveLastBind, vars
<1>3. ~SendPackets /\ ~Receive /\ ~Clock /\ all' # all
  BY DEF SendPackets, EndSend, SendWaits, SendGivesUp, SendAgain, RulesGivenUp, AskDetails, Receive, Clock,
         SendIntervalEnds, Expire1, Expire2, vars, all
<1>4. ~DoWork
  BY DEF DoWork, StartLoop, FirstSend, RetryBind, Poll, EndReceive, Handle, HandleBroadcast, EndHandle, Rebind,
         EndWork, StartFinish, At, WorkOver, TimeoutStrikes, CallSend, fields, vars
<1>5. CASE CleanupServer
  <2>1. ~DisplayClosed
    BY CloseEffect DEF DisplayClosed, vars
  <2> QED
    BY <1>5, <2>1 DEF CleanupServer, CleanupKeeps, CleanupCloses, AddReported, NextMaster, MastersAdded, In, vars
<1> QED
  BY <1>1, <1>2, <1>3, <1>4, <1>5 DEF NextScheduler, Program

LEMMA SpentKept ==
  ASSUME Orderly, EngineInv, TriesInv, SpentInv, Working, [NextScheduler]_all, ~EndWork
  PROVE  SpentInv'
<1>1. /\ SafeFrees /\ Plain /\ Keeps /\ WorkStep /\ 1 .. count \subseteq Ids /\ live \subseteq 1 .. count
      /\ Depth \in Nat /\ Depth' \in Nat
  BY OrderlySetup, WorkKinds, Basics, Shapes
<1>2. SUFFICES ASSUME main' = "rebind"
               PROVE  \A d \in Depths' : (Frame(d).pc = "cleanup" => Spent(Frame(d).s, q[Frame(d).s]))'
  BY DEF SpentInv
<1>3. ASSUME NEW s \in 1 .. count
      PROVE  /\ q[s].name # NoName => q'[s].name # NoName
             /\ Exact(s)' <=> Exact(s)
  <2>1. (q[s].name # NoName => q'[s].name # NoName) /\ ip'[s] = ip[s] /\ type'[s] = type[s] /\ setup' = setup
    BY <1>1, <1>3, WorkEffects DEF Keeps
  <2> QED
    BY <2>1 DEF Exact, Is, Broadcast, Fault
<1>4. ASSUME NEW d \in Depths', NEW f, f = FrameOf(stack', d), f.pc = "cleanup"
      PROVE  q'[f.s].name = NoName /\ Exact(f.s)' => q'[f.s].retry1 < 1
  <2>1. Stays(d, f) \/ Turns(d, f) \/ Starts(d, f) \/ StartsUnder(d, f)
    BY <1>1, <1>4, Shapes
  <2>2. CASE Stays(d, f)
    <3>1. d \in Depths /\ f = Frame(d) /\ (d < Depth \/ stack' = stack) /\ stack # <<>>
      BY <2>2 DEF Stays
    <3>2. Closing(f) /\ f.s \in live /\ f.s \in 1 .. count
      BY <1>1, <1>4, <3>1, GoodFrames DEF GoodFrame, FrameKnown, Closing
    <3>3. CASE d < Depth
      <4>1. q[f.s].name # NoName
        BY <1>1, <3>1, <3>2, <3>3 DEF EngineInv, Settled
      <4> QED
        BY <1>3, <3>2, <4>1
    <3>4. CASE stack' = stack /\ ~(d < Depth)
      <4>1. d = Depth
        BY <1>1, <3>1, <3>4 DEF Depths
      <4>2. f = Top
        BY <1>1, <3>1, <4>1, GoodTop
      <4>3. main' = main /\ q' = q
        <5>1. ~Return /\ \A x : ~(Go(x) /\ x # Top) /\ \A y : ~Call(x, y)
          <6>1. PICK st : st = stack
            OBVIOUS
          <6>2. st \in Seq(Frames) /\ st # <<>>
            BY <3>1, <6>1, Basics DEF EngineTypes
          <6>3. st # Tail(st) /\ \A x : (st = <<x>> \o Tail(st) => x = Head(st)) /\ \A y : st # <<x, y>> \o Tail(st)
            BY <6>2
          <6> QED
            BY <3>4, <6>1, <6>3 DEF Return, Go, Call, Top
        <5>2. StackStep
          BY <1>1, StackSteps
        <5>3. main' = main /\ (q' = q \/ Follows(f))
          BY <3>1, <3>2, <3>4, <4>2, <5>1, <5>2 DEF StackStep, CallsCleanup, CallsMasters, Begins
        <5> QED
          BY <1>4, <3>2, <5>3 DEF Follows
      <4>4. Spent(f.s, q[f.s])
        BY <1>2, <1>4, <3>1, <4>3 DEF SpentInv
      <4> QED
        BY <1>3, <3>2, <4>3, <4>4 DEF Spent
    <3> QED
      BY <3>1, <3>3, <3>4
  <2>3. CASE Turns(d, f)
    BY <1>4, <2>3 DEF Turns, Follows, Closing
  <2>4. CASE Starts(d, f)
    <3>1. stack # <<>> /\ Ripe(f.s) /\ Begun(f.s)
      BY <1>2, <1>4, <2>4 DEF Starts
    <3>2. CASE f.s \in 1 .. count
      <4>1. SUFFICES ASSUME q'[f.s].name = NoName, Exact(f.s)'
                     PROVE  q'[f.s].retry1 < 1
        OBVIOUS
      <4>2. Exact(f.s) /\ q[f.s].name = NoName /\ f.s \in Ids
        BY <1>1, <1>3, <3>2, <4>1
      <4>3. q[f.s].players = 0
        BY <4>2 DEF TriesInv, Tried
      <4> QED
        BY <1>1, <3>1, <4>1, <4>2, <4>3 DEF Ripe, Exact
    <3>3. f.s \in 1 .. count
      <4>1. f.s \in live'
        BY <3>1 DEF Begun
      <4>2. CASE live' \subseteq live
        BY <1>1, <4>1, <4>2
      <4>3. CASE \E e \in Discovered : FindsServer(e)
        <5>1. count' # count
          BY <1>1, <4>3, FoundServer, Basics
        <5>2. stack' = stack /\ Top.pc = "masters"
          BY <3>1, <5>1, GrowsForMasters
        <5>3. d = Depth /\ f = Frame(d)
          BY <1>4, <2>4, <5>2 DEF Starts, Depth, Frame
        <5>4. f = Top
          BY <1>1, <3>1, <5>3, GoodTop
        <5> QED
          BY <1>4, <5>2, <5>4
      <4> QED
        BY <1>1, <4>2, <4>3, WorkEffects
    <3> QED
      BY <3>2, <3>3
  <2>5. CASE StartsUnder(d, f)
    BY <1>2, <2>5 DEF StartsUnder
  <2> QED
    BY <2>1, <2>2, <2>3, <2>4, <2>5
<1>5. ASSUME NEW d \in Depths'
      PROVE  (Frame(d).pc = "cleanup" => Spent(Frame(d).s, q[Frame(d).s]))'
  <2>1. PICK f : f = FrameOf(stack', d)
    OBVIOUS
  <2>2. (Frame(d).pc = "cleanup" => Spent(Frame(d).s, q[Frame(d).s]))'
          <=> (f.pc = "cleanup" => (q'[f.s].name = NoName /\ Exact(f.s)' => q'[f.s].retry1 < 1))
    BY <2>1 DEF Frame, Spent
  <2> QED
    BY <1>4, <1>5, <2>1, <2>2
<1> QED
  BY <1>5

LEMMA SpentOutside ==
  ASSUME Orderly, EngineInv, SpentInv, [NextScheduler]_all, ~Working \/ EndWork
  PROVE  SpentInv'
<1>1. CASE LoadServers
  <2>1. stack' = <<>>
    BY <1>1, LoadCmdLine DEF EngineInv, NotStarted, LoadServers
  <2> QED
    BY <2>1 DEF SpentInv, Depths, Depth
<1>2. CASE EndWork \/ FinishOutput \/ UNCHANGED all
  <2>1. UNCHANGED <<q, main, stack, setup, ip, type>>
    <3>1. CASE EndWork
      BY <3>1 DEF EndWork, StartFinish, state, fields
    <3>2. CASE FinishOutput
      BY <3>2, FinishEffect DEF FinishOutput, state
    <3>3. CASE UNCHANGED all
      BY <3>3 DEF all, vars, state, fields
    <3> QED
      BY <1>2, <3>1, <3>2, <3>3
  <2>2. Depths' = Depths /\ \A d : FrameOf(stack', d) = Frame(d)
    BY <2>1 DEF Depths, Depth, Frame
  <2> QED
    BY <2>1, <2>2 DEF SpentInv, Spent, Exact, Fault, Is, Broadcast, Frame
<1> QED
  BY <1>1, <1>2, OutsideSteps

LEMMA SpentNext ==
  ASSUME Orderly, EngineInv, TriesInv, SpentInv, [NextScheduler]_all
  PROVE  SpentInv'
  BY SpentKept, SpentOutside

\* A server is closed by cleanup_qserver and by nothing else.
LEMMA ClosedByCleanup ==
  ASSUME [NextScheduler]_all
  PROVE  CleanupCloses \/ closed' = closed
<1>1. LoadServers \/ FinishOutput => closed' = closed
  BY DEF LoadServers, FinishOutput, state, history
<1>2. CleanupServer => CleanupCloses \/ closed' = closed
  BY DEF CleanupServer, CleanupKeeps, DisplayClosed, AddReported, NextMaster, MastersAdded, state, history
<1>3. BindLoop => closed' = closed
  BY DEF BindLoop, BindSockets, SkipServer, BindServer, Bound, EndWalk, EndPass, PassServer, ConnectServer,
         Joined, BindReturns, BindDone, BindPending, BindNoDescriptor, BindFailed, ConnectDone, ConnectWaits,
         ConnectFails, state, history
<1>4. SendPackets => closed' = closed
  BY DEF SendPackets, EndSend, SendWaits, SendGivesUp, SendAgain, RulesGivenUp, AskDetails, state, history
<1>5. DoWork \/ Receive => closed' = closed
  BY DEF DoWork, StartLoop, FirstSend, RetryBind, Poll, EndReceive, Handle, HandleBroadcast, EndHandle, Rebind,
         EndWork, CallSend, Receive, state, history
<1>6. Clock \/ UNCHANGED all => closed' = closed
  BY DEF Clock, SendIntervalEnds, Expire1, Expire2, all, state, history
<1> QED
  BY <1>1, <1>2, <1>3, <1>4, <1>5, <1>6 DEF NextScheduler, Program

GivesUpStep ==
  \A s \in closed' \ closed :
    timedOut' # timedOut /\ main = "rebind" /\ ~Fault("send")
    /\ ~Is(s, TcpTypes) /\ ~Broadcast(s) => asked[s] = NRetries

LEMMA GivesUpSteps ==
  ASSUME Orderly, EngineInv, TriesInv, SpentInv, [NextScheduler]_all
  PROVE  GivesUpStep
<1>1. SUFFICES ASSUME NEW s \in closed' \ closed, timedOut' # timedOut, main = "rebind", Exact(s)
               PROVE  asked[s] = NRetries
  BY DEF GivesUpStep, Exact
<1>2. CleanupCloses
  BY ClosedByCleanup
<1>3. /\ s = Top.s /\ Top.pc = "cleanup" /\ stack # <<>> /\ s \in live /\ Working
      /\ q[s].name = NoName /\ ClosedName(s) = "TIMEOUT"
  <2>1. PICK t : t = Top.s
    OBVIOUS
  <2>2. /\ phase = "work" /\ Top.pc = "cleanup" /\ stack # <<>> /\ t \in live /\ closed' = closed \cup {t}
        /\ timedOut' = IF q[t].name = NoName /\ ClosedName(t) = "TIMEOUT" THEN timedOut + 1 ELSE timedOut
    BY <1>2, <2>1 DEF CleanupCloses, In
  <2>3. s = t
    BY <1>1, <2>2
  <2>4. q[t].name = NoName /\ ClosedName(t) = "TIMEOUT"
    BY <1>1, <2>2
  <2> QED
    BY <2>1, <2>2, <2>3, <2>4 DEF Working
<1>4. /\ s \in Ids /\ NRetries \in Nat /\ Tried(s, q[s], asked[s])
  BY <1>3, Basics DEF TriesInv
<1>5. Depth \in Depths /\ Frame(Depth) = Top
  BY <1>3, OrderlySetup, GoodTop
<1>6. q[s].retry1 < 1
  BY <1>1, <1>3, <1>5 DEF SpentInv, Spent
<1>7. ~q[s].heard
  BY <1>3, <1>4 DEF ClosedName, Tried
<1> QED
  BY <1>1, <1>3, <1>4, <1>6, <1>7 DEF Tried

\* send_packets gives a server up as not answering only after as many queries as
\* -retry says: no reset of its retries, nor a close beneath another call, comes
\* between.
THEOREM GivenUpLast ==
  ASSUME Orderly
  PROVE  SchedulerSpec => GivesUpLast
<1>1. InitScheduler => SpentInv
  BY DEF InitScheduler, SpentInv
<1>2. EngineInv /\ TriesInv /\ SpentInv /\ [NextScheduler]_all => SpentInv'
  BY SpentNext
<1>3. EngineInv /\ TriesInv /\ SpentInv /\ [NextScheduler]_all => [GivesUpStep]_all
  BY GivesUpSteps
<1> QED
  BY <1>1, <1>2, <1>3, TriesInvariant, PTL DEF SchedulerSpec, GivesUpLast, GivesUpStep

-----------------------------------------------------------------------------
\* Reports.

OneMaster == \A s, t \in Masters : s = t

\* The report of a freed server was used.  With one master, a server that waits to
\* be displayed with its report is still ahead in add_servers_from_masters' walk.
ReportsInv == Working =>
  /\ Sort # "none" \/ OneMaster => \A s \in (1 .. count) \ live : ~q[s].heard
  /\ OneMaster => \A d \in Depths : Frame(d).pc = "display" /\ q[Frame(d).s].heard =>
       Top.pc = "masters" /\ Top.s # 0 /\ Top.s <= Frame(d).s

\* What a call does to one server leaves the closed ones alone, but for their reports.
LEMMA ClosedAside ==
  ASSUME EngineInv, NEW s \in closed, NEW t \in Ids, t # s, NEW r, q' = [q EXCEPT ![t] = r]
  PROVE  q'[s] = q[s]
<1>1. s \in Ids /\ q \in [Ids -> QueryStates]
  BY Basics DEF EngineTypes
<1> QED
  BY <1>1

LEMMA ClosedKnown ==
  ASSUME EngineInv, NEW s \in closed
  PROVE  s \in Ids /\ s \in 1 .. count /\ q \in [Ids -> QueryStates]
  BY Basics DEF EngineTypes

LEMMA ClosedUnasked ==
  ASSUME EngineInv, NEW s \in closed, NEW t \in Ids, t # s, NEW r, NEW sent, StatusQuery(t, r, sent)
  PROVE  q'[s] = q[s]
<1>1. PICK x : x = IF sent THEN [r EXCEPT !.retry1 = @ - 1] ELSE r
  OBVIOUS
<1>2. q' = [q EXCEPT ![t] = x]
  BY <1>1 DEF StatusQuery
<1> QED
  BY <1>2, ClosedAside

LEMMA BindServerReports ==
  ASSUME Orderly, EngineInv, BindServer, NEW s \in closed
  PROVE  q'[s] = q[s]
<1>1. PICK t : t = Top.s
  OBVIOUS
<1>2. t \in Ids /\ t # s
  <2>1. t \in live /\ q[t].name = NoName /\ Working
    BY <1>1 DEF BindServer, Walking, Wanted, In, Working
  <2>2. t \notin closed
    BY <2>1, OrderlySetup DEF EngineInv, Sockets
  <2> QED
    BY <2>1, <2>2, Basics
<1>3. CASE BindDone(t)
  BY <1>2, <1>3, ClosedUnasked DEF BindDone
<1>4. CASE BindPending(t)
  <2>1. q' = [q EXCEPT ![t].fd = FreeFd, ![t].state = "connecting"]
    BY <1>4 DEF BindPending
  <2> QED
    BY <1>2, <2>1, ClosedKnown
<1>5. CASE BindNoDescriptor
  BY <1>5 DEF BindNoDescriptor, state
<1>6. CASE BindFailed(t)
  BY <1>2, <1>6, ClosedAside DEF BindFailed
<1> QED
  BY <1>1, <1>3, <1>4, <1>5, <1>6 DEF BindServer

LEMMA ConnectServerReports ==
  ASSUME Orderly, EngineInv, ConnectServer, NEW s \in closed
  PROVE  q'[s] = q[s]
<1>1. PICK t : t = Top.s
  OBVIOUS
<1>2. t \in Ids /\ t # s
  <2>1. t \in live /\ q[t].state = "connecting" /\ Working
    BY <1>1 DEF ConnectServer, Passing, In, Working
  <2>2. t \in 1 .. count
    BY <2>1, Basics
  <2>3. t \notin closed
    BY <2>1, <2>2, OrderlySetup DEF EngineInv, Sockets
  <2> QED
    BY <2>1, <2>3, Basics
<1>3. CASE ConnectDone(t)
  BY <1>2, <1>3, ClosedUnasked DEF ConnectDone
<1>4. CASE ConnectWaits(t)
  BY <1>4 DEF ConnectWaits, state
<1>5. CASE ConnectFails(t)
  <2>1. PICK name : q' = [q EXCEPT ![t].name = name, ![t].state = "failed", ![t].fd = 0]
    BY <1>5 DEF ConnectFails
  <2> QED
    BY <1>2, <2>1, ClosedKnown
<1> QED
  BY <1>1, <1>3, <1>4, <1>5 DEF ConnectServer

LEMMA SendPacketsReports ==
  ASSUME Orderly, EngineInv, SendPackets, NEW s \in closed
  PROVE  q'[s] = q[s]
<1>1. PICK t : t = SendServer /\ SendsTo(t)
  BY SendDoes, OrderlySetup
<1>2. CASE q' = q
  BY <1>2
<1>3. CASE q' # q
  <2>1. Sending /\ Working
    BY <1>3 DEF SendPackets, EndSend, SendWaits, SendGivesUp, SendAgain, RulesGivenUp, AskDetails, In, Working,
       Sending, state
  <2>2. t \in Ids /\ t \in live /\ q[t].fd = NextFd(Top.i) /\ NextFd(Top.i) # 0
    BY <1>1, <2>1, SendServerLive, SendServerFacts, OrderlySetup, Basics
  <2>3. t \notin closed
    BY <2>1, <2>2, OrderlySetup DEF EngineInv, Sockets
  <2>4. PICK r : q' = [q EXCEPT ![t] = r]
    BY <1>1, <1>3 DEF SendsTo, Alters
  <2> QED
    BY <2>2, <2>3, <2>4, ClosedAside
<1> QED
  BY <1>2, <1>3

LEMMA AddReportedReports ==
  ASSUME Orderly, EngineInv, AddReported, NEW s \in closed
  PROVE  q'[s].heard = q[s].heard
<1>1. PICK t : t = Top.s
  OBVIOUS
<1>2. /\ q \in [Ids -> QueryStates] /\ stack # <<>> /\ s \in Ids /\ count \in Nat /\ s # count + 1 /\ EngineTypes
  <2>1. q \in [Ids -> QueryStates] /\ s \in 1 .. count
    BY Basics DEF EngineTypes
  <2> QED
    BY <2>1, Basics DEF AddReported, In
<1>3. t \in Ids
  <2>1. Top \in MasterFrames
    BY <1>2, TopFrame, FrameKinds DEF AddReported, In
  <2> QED
    BY <1>1, <2>1 DEF AddReported, MasterFrames, Ptrs, Ids
<1>4. PICK d \in Discovered :
        \/ q' = [q EXCEPT ![t].report = @ - 1]
        \/ q' = [q EXCEPT ![t].report = @ - 1, ![count + 1] = NewQuery(d[1])]
  BY <1>1 DEF AddReported
<1>5. PICK r : r = [q[t] EXCEPT !.report = @ - 1]
  OBVIOUS
<1>6. q'[s] = IF s = t THEN r ELSE q[s]
  BY <1>2, <1>3, <1>4, <1>5
<1>7. r.heard = q[t].heard
  BY <1>2, <1>3, <1>5 DEF QueryStates
<1> QED
  BY <1>6, <1>7

LEMMA NextMasterReports ==
  ASSUME EngineInv, NextMaster, NEW s \in closed
  PROVE  IF s = Top.s THEN ~q'[s].heard ELSE q'[s] = q[s]
<1>1. PICK t : t = Top.s
  OBVIOUS
<1>2. q \in [Ids -> QueryStates] /\ stack # <<>> /\ s \in Ids /\ EngineTypes
  BY Basics DEF EngineTypes, NextMaster, In
<1>3. t \in Ids
  <2>1. Top \in MasterFrames
    BY <1>2, TopFrame, FrameKinds DEF NextMaster, In
  <2> QED
    BY <1>1, <2>1 DEF NextMaster, MasterFrames, Ptrs, Ids
<1>4. PICK r : r = [q[t] EXCEPT !.heard = FALSE]
  OBVIOUS
<1>5. q' = [q EXCEPT ![t] = r] /\ ~r.heard
  BY <1>1, <1>2, <1>3, <1>4 DEF NextMaster, QueryStates
<1> QED
  BY <1>1, <1>2, <1>3, <1>5

\* A server waits to be displayed because cleanup_qserver just closed it, or still.
LEMMA DisplaysFrom ==
  ASSUME Orderly, EngineInv, Working, [NextScheduler]_all, ~EndWork, ~CleanupCloses,
         NEW d \in Depths', NEW f, f = FrameOf(stack', d), f.pc = "display"
  PROVE  Stays(d, f)
<1>1. SafeFrees /\ Depth \in Nat /\ Depth' \in Nat /\ EngineTypes
  BY OrderlySetup, Shapes, Basics
<1>2. Stays(d, f) \/ Turns(d, f)
  <2>1. Stays(d, f) \/ Turns(d, f) \/ Starts(d, f) \/ StartsUnder(d, f)
    BY <1>1, Shapes
  <2> QED
    BY <2>1 DEF Starts, StartsUnder
<1>3. SUFFICES ASSUME Turns(d, f)
               PROVE  Stays(d, f)
  BY <1>2
<1>4. stack # <<>> /\ d = Depth /\ Closing(Top)
  BY <1>3 DEF Turns, Follows, Closing
<1>5. Top.pc \in {"cleanup", "display"}
  BY <1>4 DEF Closing
<1>6. Return \/ stack' = stack
  <2>1. ~LoadServers /\ ~FinishOutput
    <3>1. ~adding.on /\ phase = "work"
      BY DEF EngineInv, Origins, FromCmdLine, Working
    <3>2. ~LoadServers
      BY <3>1, LoadEffect DEF LoadServers, EngineInv
    <3> QED
      BY <3>1, <3>2, FinishEffect DEF FinishOutput
  <2>2. ~BindLoop
    BY <1>5 DEF BindLoop, BindSockets, SkipServer, BindServer, Bound, EndWalk, EndPass, PassServer,
       ConnectServer, Joined, BindReturns, In, Walking, Passing
  <2>3. ~SendPackets
    BY <1>5 DEF SendPackets, EndSend, SendWaits, SendGivesUp, SendAgain, RulesGivenUp, AskDetails, In, Sending
  <2>4. ~Receive /\ ~DoWork
    BY <1>4 DEF Receive, DoWork, StartLoop, FirstSend, RetryBind, Poll, EndReceive, Handle, HandleBroadcast,
       EndHandle, Rebind, At
  <2>5. CASE Clock \/ UNCHANGED all
    BY <2>5 DEF Clock, SendIntervalEnds, Expire1, Expire2, all
  <2>6. CASE CleanupServer
    BY <1>5, <2>6 DEF CleanupServer, CleanupKeeps, DisplayClosed, AddReported, NextMaster, MastersAdded, In
  <2> QED
    BY <2>1, <2>2, <2>3, <2>4, <2>5, <2>6 DEF NextScheduler, Program
<1>7. CASE Return
  <2>1. Depth' = Depth - 1
    <3>1. PICK st, st2 : st = stack /\ st2 = stack'
      OBVIOUS
    <3>2. st \in Seq(Frames) /\ st # <<>> /\ st2 = Tail(st)
      BY <1>1, <1>4, <1>7, <3>1 DEF EngineTypes, Return
    <3>3. Len(st2) = Len(st) - 1
      BY <3>2
    <3> QED
      BY <3>1, <3>3 DEF Depth
  <2> QED
    BY <1>1, <1>3, <2>1 DEF Turns
<1>8. CASE stack' = stack
  <2>1. Depths' = Depths /\ f = Frame(d)
    BY <1>8 DEF Depths, Depth, Frame
  <2> QED
    BY <1>4, <1>8, <2>1 DEF Stays
<1> QED
  BY <1>6, <1>7, <1>8

\* No report is added to a server that is closed.
LEMMA ClosedReports ==
  ASSUME Orderly, EngineInv, Working, [NextScheduler]_all, ~EndWork, ~CleanupCloses, stack # <<>>,
         NEW s \in closed, q'[s].heard
  PROVE  q[s].heard /\ (NextMaster => s # Top.s)
<1>1. ~LoadServers /\ ~FinishOutput
  <2>1. ~adding.on /\ phase = "work"
    BY DEF EngineInv, Origins, FromCmdLine, Working
  <2>2. ~LoadServers
    BY <2>1, LoadEffect DEF LoadServers, EngineInv
  <2> QED
    BY <2>1, <2>2, FinishEffect DEF FinishOutput
<1>2. ~Receive /\ ~DoWork
  BY DEF Receive, DoWork, StartLoop, FirstSend, RetryBind, Poll, EndReceive, Handle, HandleBroadcast,
     EndHandle, Rebind, At
<1>3. NextMaster => s # Top.s
  BY NextMasterReports
<1>4. CASE Clock \/ UNCHANGED all
  BY <1>3, <1>4 DEF Clock, SendIntervalEnds, Expire1, Expire2, all, state
<1>5. CASE BindLoop
  <2>1. CASE BindSockets \/ SkipServer \/ Bound \/ EndWalk \/ EndPass \/ PassServer \/ Joined \/ BindReturns
    BY <1>3, <2>1 DEF BindSockets, SkipServer, Bound, EndWalk, EndPass, PassServer, Joined, BindReturns, state
  <2> QED
    BY <1>3, <1>5, <2>1, BindServerReports, ConnectServerReports DEF BindLoop
<1>6. CASE CleanupServer
  <2>1. CASE CleanupKeeps \/ DisplayClosed \/ MastersAdded
    BY <1>3, <2>1 DEF CleanupKeeps, DisplayClosed, MastersAdded, state
  <2> QED
    BY <1>3, <1>6, <2>1, AddReportedReports, NextMasterReports DEF CleanupServer
<1>7. CASE SendPackets
  BY <1>3, <1>7, SendPacketsReports
<1> QED
  BY <1>1, <1>2, <1>4, <1>5, <1>6, <1>7 DEF NextScheduler, Program

\* The freed servers of the next state: no step touches them, and what is freed was
\* displayed.
LEMMA FreedKept ==
  ASSUME Orderly, EngineInv, ReportsInv, Working, [NextScheduler]_all, ~EndWork,
         Sort # "none" \/ OneMaster
  PROVE  \A s \in (1 .. count') \ live' : ~q'[s].heard
<1>1. /\ SafeFrees /\ WorkStep /\ count \in Nat /\ live \subseteq Ids /\ live \subseteq 1 .. count
      /\ 1 .. count \subseteq Ids
  BY OrderlySetup, WorkKinds, Basics
<1>2. q \in [Ids -> QueryStates]
  BY Basics DEF EngineTypes
<1>3. \A s \in (1 .. count) \ live : ~q[s].heard
  BY DEF ReportsInv
<1>4. CASE \E s \in live : Frees(s)
  <2>1. PICK s \in live : Frees(s)
    BY <1>4
  <2>2. count' = count /\ q' = q /\ live' = live \ {s} /\ Sort = "none"
    BY <2>1 DEF Frees
  <2>3. ~q[s].heard
    <3>1. SUFFICES ASSUME q[s].heard
                   PROVE  FALSE
      OBVIOUS
    <3>2. DisplayClosed
      <4>1. ~(live \subseteq live')
        BY <2>2
      <4>2. stack # <<>>
        <5>1. SUFFICES ASSUME stack = <<>>
                       PROVE  live \subseteq live'
          BY <4>1
        <5>2. Rests \/ Poll \/ Receive \/ EndReceive \/ Handle \/ HandleBroadcast
          BY <5>1, LoopSteps
        <5>3. CASE HandleBroadcast
          BY <1>1, <5>3, BroadcastFinds
        <5> QED
          BY <5>2, <5>3 DEF Rests, Poll, MoveFirstBind, Receive, EndReceive, Handle, vars
      <4> QED
        BY <4>1, <4>2, InputKept
    <3>3. CloseServer(Top.s) /\ stack # <<>> /\ Top.pc = "display"
      BY <2>2, <3>2 DEF DisplayClosed, In
    <3>4. live' = live \ {Top.s}
      BY <3>3, CloseEffect
    <3>5. s = Top.s
      BY <2>1, <2>2, <3>4
    <3>6. Depth \in Depths /\ Frame(Depth) = Top
      BY <1>1, <3>3, GoodTop
    <3>7. Frame(Depth).pc = "display" /\ q[Frame(Depth).s].heard
      BY <3>1, <3>3, <3>5, <3>6
    <3>8. Top.pc = "masters"
      BY <2>2, <3>6, <3>7 DEF ReportsInv
    <3> QED
      BY <3>3, <3>8
  <2> QED
    BY <1>3, <2>2, <2>3
<1>5. CASE \E d \in Discovered : FindsServer(d)
  <2>1. PICK d \in Discovered : FindsServer(d)
    BY <1>5
  <2>2. count' = count + 1 /\ live' = live \cup {count + 1}
    BY <2>1, FoundServer
  <2>3. ASSUME NEW s \in (1 .. count') \ live'
        PROVE  ~q'[s].heard
    <3>1. s \in (1 .. count) \ live /\ s \in Ids /\ s # count + 1
      BY <1>1, <2>2, <2>3
    <3>2. q'[s] = q[s]
      <4>1. CASE q' = [q EXCEPT ![count + 1] = NewQuery(d[1])]
        BY <1>2, <3>1, <4>1
      <4>2. ASSUME NEW t \in live, q' = [q EXCEPT ![t].report = @ - 1, ![count + 1] = NewQuery(d[1])]
            PROVE  q'[s] = q[s]
        BY <1>2, <3>1, <4>2
      <4> QED
        BY <2>1, <4>1, <4>2 DEF FindsServer
    <3> QED
      BY <1>3, <3>1, <3>2
  <2> QED
    BY <2>3
<1>6. CASE UNCHANGED <<count, live>> /\ (q' = q \/ \E s, r : Alters(s, r))
  <2>1. \A s \in (1 .. count) \ live : q'[s] = q[s]
    <3>1. ASSUME NEW t, NEW r, Alters(t, r), NEW s \in (1 .. count) \ live
          PROVE  q'[s] = q[s]
      BY <1>1, <1>2, <3>1 DEF Alters
    <3> QED
      BY <1>6, <3>1
  <2> QED
    BY <1>3, <1>6, <2>1
<1> QED
  BY <1>1, <1>4, <1>5, <1>6 DEF WorkStep, Quiet, Maps, Opens, Pends, Joins, Drops, Closes, SameServers

\* Displayed first: the last master closed is the one master there is, and
\* add_servers_from_masters starts before it, or at it.
LEMMA ClosesReports ==
  ASSUME Orderly, EngineInv, MasterInv, TriesInv, ReportsInv, Working, CleanupCloses, OneMaster,
         NEW d \in Depths', NEW f, f = FrameOf(stack', d), f.pc = "display", q'[f.s].heard
  PROVE  stack' # <<>> /\ Head(stack').pc = "masters" /\ Head(stack').s # 0 /\ Head(stack').s <= f.s
<1>1. PICK s : s = Top.s
  OBVIOUS
<1>2. /\ SafeFrees /\ Plain /\ stack # <<>> /\ Top.pc = "cleanup" /\ s \in live /\ Depth \in Nat \ {0}
      /\ Depth \in Depths /\ Frame(Depth) = Top /\ ListWellFormed /\ EngineTypes
      /\ s \in Ids /\ s \in 1 .. count /\ live \subseteq Nat
  <2>1. SafeFrees /\ Plain /\ stack # <<>> /\ Top.pc = "cleanup" /\ s \in live
    BY <1>1, OrderlySetup DEF CleanupCloses, In
  <2>2. Depth \in Nat \ {0} /\ Depth \in Depths /\ Frame(Depth) = Top
    BY <2>1, GoodTop
  <2>3. live \subseteq Nat /\ s \in Ids /\ s \in 1 .. count
    BY <2>1, Basics DEF Ids
  <2> QED
    BY <2>1, <2>2, <2>3, Basics
<1>3. PICK show, add : /\ show = [pc |-> "display", s |-> s] /\ add = [pc |-> "masters", s |-> servers]
  OBVIOUS
<1>4. /\ q' = [q EXCEPT ![s].name = ClosedName(s), ![s].fd = 0]
      /\ IF Is(s, MasterTypes) /\ waiting = 1 THEN Call(add, show) ELSE Go(show)
  BY <1>1, <1>3 DEF CleanupCloses, AddThenDisplay
<1>5. PICK st, st2, n : st = stack /\ st2 = stack' /\ n = Depth
  OBVIOUS
<1>6. st \in Seq(Frames) /\ st # <<>> /\ n = Len(st) /\ n \in Nat \ {0}
  BY <1>2, <1>5 DEF EngineTypes, Depth
<1>7. /\ \A e \in 1 .. n - 1 : FrameOf(st2, e) = FrameOf(st, e)
      /\ FrameOf(st2, n) = show
      /\ Is(s, MasterTypes) /\ waiting = 1 =>
           st2 # <<>> /\ Head(st2) = add /\ Len(st2) = n + 1 /\ FrameOf(st2, n + 1) = add
      /\ ~(Is(s, MasterTypes) /\ waiting = 1) => Len(st2) = n
  <2>1. CASE Is(s, MasterTypes) /\ waiting = 1
    <3>1. st2 = <<add, show>> \o Tail(st)
      BY <1>4, <1>5, <2>1 DEF Call
    <3> QED
      BY <1>6, <2>1, <3>1 DEF FrameOf
  <2>2. CASE ~(Is(s, MasterTypes) /\ waiting = 1)
    <3>1. st2 = <<show>> \o Tail(st)
      BY <1>4, <1>5, <2>2 DEF Go
    <3> QED
      BY <1>6, <2>2, <3>1 DEF FrameOf
  <2> QED
    BY <2>1, <2>2
<1>8. d \in 1 .. Len(st2) /\ f = FrameOf(st2, d)
  BY <1>5 DEF Depths, Depth
<1>9. d \in 1 .. n
  <2>1. f # add
    BY <1>3
  <2> QED
    BY <1>6, <1>7, <1>8, <2>1
<1>10. CASE d # n
  <2>1. d \in Depths /\ f = Frame(d)
    BY <1>5, <1>6, <1>7, <1>8, <1>9, <1>10 DEF Depths, Depth, Frame
  <2>2. f.s \in 1 .. count /\ f.s \in Ids /\ f.s \in closed
    <3>1. FrameKnown(f) /\ Closing(f)
      BY <1>2, <2>1, GoodFrames DEF GoodFrame, Closing
    <3>2. f.s \in live /\ f.s \in closed
      BY <3>1 DEF FrameKnown
    <3> QED
      BY <3>2, Basics
  <2>3. q[f.s].heard
    <3>1. q \in [Ids -> QueryStates]
      BY <1>2 DEF EngineTypes
    <3>2. CASE f.s = s
      <4>1. PICK r : r = [q[s] EXCEPT !.name = ClosedName(s), !.fd = 0]
        OBVIOUS
      <4>2. q'[s] = r
        BY <1>2, <1>4, <3>1, <4>1
      <4>3. r.heard = q[s].heard
        BY <1>2, <3>1, <4>1 DEF QueryStates
      <4> QED
        BY <3>2, <4>2, <4>3
    <3>3. CASE f.s # s
      <4>1. q'[f.s] = q[f.s]
        BY <1>2, <1>4, <2>2, <3>1, <3>3
      <4> QED
        BY <4>1
    <3> QED
      BY <3>2, <3>3
  <2>4. Top.pc = "masters"
    BY <2>1, <2>3 DEF ReportsInv
  <2> QED
    BY <1>2, <2>4
<1>11. CASE d = n
  <2>1. f = show /\ f.s = s
    BY <1>3, <1>7, <1>8, <1>11
  <2>2. q[s].heard
    <3>1. q \in [Ids -> QueryStates]
      BY <1>2 DEF EngineTypes
    <3>2. PICK r : r = [q[s] EXCEPT !.name = ClosedName(s), !.fd = 0]
      OBVIOUS
    <3>3. q'[s] = r
      BY <1>2, <1>4, <3>1, <3>2
    <3>4. r.heard = q[s].heard
      BY <1>2, <3>1, <3>2 DEF QueryStates
    <3> QED
      BY <2>1, <3>3, <3>4
  <2>3. Is(s, MasterTypes)
    BY <1>2, <2>2 DEF TriesInv, Tried
  <2>4. ip[s] # 0 /\ s \notin closed
    <3>1. HasMasters(setup)
      BY <1>2, <2>3 DEF EngineInv, Origins, Origin
    <3>2. ~Broadcasts(setup)
      BY <1>2, <3>1 DEF Plain, BroadcastsOneReply, HasMasters
    <3>3. s \notin closed
      BY <1>1, <1>2, <3>2 DEF MasterInv, CleanupsOnce
    <3>4. ip[s] # 0
      <4>1. FrameKnown(Top) /\ Closing(Top)
        BY <1>2, GoodTop DEF GoodFrame, Closing
      <4> QED
        BY <1>1, <4>1 DEF FrameKnown
    <3> QED
      BY <3>3, <3>4
  <2>5. MastersOpen = {s}
    <3>1. s \in Masters
      BY <1>2, <2>3, <2>4 DEF Masters
    <3>2. \A t \in Masters : t = s
      BY <3>1 DEF OneMaster
    <3> QED
      BY <2>4, <3>1, <3>2 DEF MastersOpen
  <2>6. waiting = 1
    <3>1. Cardinality({s}) = 1
      BY FS_Singleton
    <3> QED
      BY <2>5, <3>1 DEF MasterInv, WaitingInv
  <2>7. servers # 0 /\ servers <= s
    <3>1. After(0, servers)
      BY <1>2 DEF ListWellFormed
    <3>2. s # 0 /\ ~(s <= 0) /\ s \in live
      BY <1>2
    <3> QED
      BY <1>2, <3>1, <3>2 DEF After
  <2>8. st2 # <<>> /\ Head(st2) = add
    BY <1>7, <2>3, <2>6
  <2> QED
    BY <1>3, <1>5, <2>1, <2>7, <2>8
<1> QED
  BY <1>10, <1>11

\* While it walks, add_servers_from_masters does not pass a server with a report.
LEMMA WalksReports ==
  ASSUME Orderly, EngineInv, Working, [NextScheduler]_all, ~EndWork, stack # <<>>,
         Top.pc = "masters", Top.s # 0, NEW s \in live, Top.s <= s, NextMaster => s # Top.s
  PROVE  stack' # <<>> /\ Head(stack').pc = "masters" /\ Head(stack').s # 0 /\ Head(stack').s <= s
<1>1. PICK t : t = Top.s
  OBVIOUS
<1>2. t \in live /\ ListWellFormed /\ live \subseteq Nat /\ Top \in Frames /\ Top \in MasterFrames
  <2>1. SafeFrees /\ Held(Top) \subseteq live \cup {0}
    BY OrderlySetup, LivePointers
  <2>2. t \in live
    BY <1>1, <2>1 DEF Held
  <2>3. Top \in Frames /\ Top \in MasterFrames
    BY TopFrame, FrameKinds, Basics
  <2> QED
    BY <2>2, <2>3, Basics DEF Ids
<1>3. CASE stack' = stack
  BY <1>3 DEF Top
<1>4. CASE NextMaster
  <2>1. After(t, next[t]) /\ t < s
    BY <1>1, <1>2, <1>4 DEF ListWellFormed
  <2>2. next[t] # 0 /\ next[t] <= s
    BY <1>2, <2>1 DEF After
  <2>3. PICK g : g = [Top EXCEPT !.s = next[t]]
    OBVIOUS
  <2>4. g.pc = "masters" /\ g.s = next[t]
    BY <1>2, <2>3 DEF MasterFrames
  <2>5. stack' = <<g>> \o Tail(stack) /\ stack \in Seq(Frames)
    BY <1>1, <1>4, <2>3, Basics DEF NextMaster, Go, WalkOn, EngineTypes
  <2>6. stack' # <<>> /\ Head(stack') = g
    BY <2>5
  <2> QED
    BY <2>2, <2>4, <2>6
<1>5. CASE ~NextMaster
  <2>1. ~LoadServers /\ ~FinishOutput
    <3>1. ~adding.on /\ phase = "work"
      BY DEF EngineInv, Origins, FromCmdLine, Working
    <3>2. ~LoadServers
      BY <3>1, LoadEffect DEF LoadServers, EngineInv
    <3> QED
      BY <3>1, <3>2, FinishEffect DEF FinishOutput
  <2>2. ~BindLoop
    BY DEF BindLoop, BindSockets, SkipServer, BindServer, Bound, EndWalk, EndPass, PassServer,
       ConnectServer, Joined, BindReturns, In, Walking, Passing
  <2>3. ~SendPackets
    BY DEF SendPackets, EndSend, SendWaits, SendGivesUp, SendAgain, RulesGivenUp, AskDetails, In, Sending
  <2>4. ~Receive /\ ~DoWork
    BY DEF Receive, DoWork, StartLoop, FirstSend, RetryBind, Poll, EndReceive, Handle, HandleBroadcast,
       EndHandle, Rebind, At
  <2>5. CASE Clock \/ UNCHANGED all
    BY <1>3, <2>5 DEF Clock, SendIntervalEnds, Expire1, Expire2, all
  <2>6. CASE CleanupServer
    BY <1>3, <1>5, <2>6 DEF CleanupServer, CleanupKeeps, CleanupCloses, DisplayClosed, AddReported, MastersAdded, In
  <2> QED
    BY <2>1, <2>2, <2>3, <2>4, <2>5, <2>6 DEF NextScheduler, Program
<1> QED
  BY <1>4, <1>5

LEMMA ReportsKept ==
  ASSUME Orderly, EngineInv, MasterInv, TriesInv, ReportsInv, Working, [NextScheduler]_all, ~EndWork
  PROVE  ReportsInv'
<1>1. /\ SafeFrees /\ Masters' = Masters /\ Keeps
  BY OrderlySetup, MastersKept, WorkKinds
<1>2. (OneMaster' <=> OneMaster) /\ Sort' = Sort
  BY <1>1 DEF OneMaster, Keeps, Sort
<1>3. Sort # "none" \/ OneMaster => \A s \in (1 .. count') \ live' : ~q'[s].heard
  BY FreedKept
<1>4. ASSUME OneMaster, NEW d \in Depths', NEW f, f = FrameOf(stack', d), f.pc = "display", q'[f.s].heard
      PROVE  stack' # <<>> /\ Head(stack').pc = "masters" /\ Head(stack').s # 0 /\ Head(stack').s <= f.s
  <2>1. CASE CleanupCloses
    BY <1>4, <2>1, ClosesReports
  <2>2. CASE ~CleanupCloses
    <3>1. Stays(d, f)
      BY <1>4, <2>2, DisplaysFrom
    <3>2. stack # <<>> /\ d \in Depths /\ f = Frame(d)
      BY <3>1 DEF Stays
    <3>3. f.s \in live /\ f.s \in closed
      <4>1. FrameKnown(f) /\ Closing(f)
        BY <1>1, <1>4, <3>2, GoodFrames DEF GoodFrame, Closing
      <4> QED
        BY <1>4, <4>1 DEF FrameKnown
    <3>4. q[f.s].heard /\ (NextMaster => f.s # Top.s)
      BY <1>4, <2>2, <3>2, <3>3, ClosedReports
    <3>5. Top.pc = "masters" /\ Top.s # 0 /\ Top.s <= f.s
      BY <1>4, <3>2, <3>4 DEF ReportsInv
    <3> QED
      BY <3>2, <3>3, <3>4, <3>5, WalksReports
  <2> QED
    BY <2>1, <2>2
<1>5. ASSUME OneMaster, NEW d \in Depths', FrameOf(stack', d).pc = "display", q'[FrameOf(stack', d).s].heard
      PROVE  Head(stack').pc = "masters" /\ Head(stack').s # 0 /\ Head(stack').s <= FrameOf(stack', d).s
  BY <1>4, <1>5
<1> QED
  BY <1>2, <1>3, <1>5 DEF ReportsInv, Frame, Top

LEMMA ReportsOutside ==
  ASSUME Orderly, EngineInv, ReportsInv, [NextScheduler]_all, ~Working \/ EndWork
  PROVE  ReportsInv'
<1>1. SUFFICES ASSUME Working'
               PROVE  ReportsInv'
  BY DEF ReportsInv
<1>2. LoadServers
  <2>1. ~EndWork
    BY <1>1 DEF EndWork, StartFinish, Working
  <2>2. ~FinishOutput
    BY <1>1, FinishEffect DEF FinishOutput, Working
  <2>3. ~UNCHANGED all
    BY <1>1, <2>1 DEF all, vars, Working
  <2> QED
    BY <2>1, <2>2, <2>3, OutsideSteps
<1>3. phase = "args" /\ stack' = stack
  BY <1>2, LoadCmdLine DEF Orderly, LoadServers
<1>4. stack = <<>> /\ \A s \in Ids : q[s] = NewQuery(ip[s])
  BY <1>3 DEF EngineInv, NotStarted
<1>5. Depths' = {}
  BY <1>3, <1>4 DEF Depths, Depth
<1>6. \A s \in Ids : ~q'[s].heard
  <2>1. \A s \in Ids : q'[s] = q[s] \/ q'[s] = NewQuery(ip'[s])
    BY <1>2 DEF LoadServers
  <2>2. \A a : ~NewQuery(a).heard
    BY DEF NewQuery
  <2> QED
    BY <1>4, <2>1, <2>2
<1>7. 1 .. count' \subseteq Ids
  <2>1. EngineInv'
    BY EngineNext DEF Orderly
  <2>2. TypeOK'
    BY <2>1 DEF EngineInv, ListInv
  <2>3. count' \in Ptrs
    BY <2>2 DEF TypeOK
  <2> QED
    BY <2>3, ServerListAssumption DEF Ids, Ptrs
<1> QED
  BY <1>5, <1>6, <1>7 DEF ReportsInv

\* Sorted, or with a single master, what a master reported has been added before the
\* master is freed, through the nested calls of cleanup_qserver,
\* add_servers_from_masters and display_server.
THEOREM ReportsAreUsed ==
  ASSUME Orderly
  PROVE  SchedulerSpec => [](Sort # "none" \/ OneMaster => ReportsUsed)
<1>1. InitScheduler => ReportsInv
  BY DEF InitScheduler, InitList, ReportsInv, Working
<1>2. EngineInv /\ MasterInv /\ TriesInv /\ ReportsInv /\ [NextScheduler]_all => ReportsInv'
  BY ReportsKept, ReportsOutside
<1>3. ReportsInv => (Sort # "none" \/ OneMaster => ReportsUsed)
  BY DEF ReportsInv, ReportsUsed, Working
<1> QED
  BY <1>1, <1>2, <1>3, TriesInvariant, PTL DEF SchedulerSpec

=============================================================================

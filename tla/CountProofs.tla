---------------------------- MODULE CountProofs -----------------------------
(***************************************************************************)
(* What the engine counts: its open sockets, the masters it waits for, the *)
(* servers it closes.  Where `connected' and waiting_for_masters are exact,*)
(* -maxsimultaneous is kept and masters are asked before game servers.     *)
(***************************************************************************)
EXTENDS EngineSafety

-----------------------------------------------------------------------------
\* Provisos.

\* `connected' is exact unless a connection is refused under -syncconnect, where it is
\* decremented and was never incremented (qstat.c:4532), or a server found by a
\* broadcast gets a socket of its own (5543).  Where a send may fail beneath the
\* cleanup of a master, the server is closed before it is counted, and the walk beneath sees one
\* socket too few.
CountsSockets(sc) ==
  /\ BroadcastsOneReply(sc) /\ ~({"sync", "connect"} \subseteq sc.faults)
  /\ "send" \in sc.faults => ~HasMasters(sc)

Orderly == SafeFrees /\ \A sc \in Scenarios : CountsSockets(sc)

LEMMA OrderlySetup ==
  ASSUME Orderly, EngineInv
  PROVE  /\ SafeFrees /\ Plain /\ ~(Fault("sync") /\ Fault("connect"))
         /\ Fault("send") => ~HasMasters(setup)
<1>1. setup \in Scenarios
  BY DEF EngineInv, EngineTypes
<1> QED
  BY <1>1 DEF Orderly, CountsSockets, Plain, Fault

-----------------------------------------------------------------------------
\* The server that was asked and is not counted yet.

Unbound == \A d \in Depths : Frame(d).pc # "bound"
Beneath == \A d \in 1 .. Depth - 1 : Frame(d).pc # "bound"

LEMMA BoundFrames ==
  ASSUME EngineTypes, stack # <<>>
  PROVE  /\ Unbound <=> Beneath /\ Top.pc # "bound"
         /\ \A f \in Frames : Go(f) => (Unbound' <=> Beneath /\ f.pc # "bound")
         /\ \A f \in Frames, g \in Frames :
              Call(f, g) => (Unbound' <=> Beneath /\ f.pc # "bound" /\ g.pc # "bound")
         /\ Return => (Unbound' <=> Beneath)
         /\ stack' = stack => (Unbound' <=> Unbound)
<1>1. PICK st, st2 : st = stack /\ st2 = stack'
  OBVIOUS
<1>2. st \in Seq(Frames) /\ st # <<>> /\ Len(st) \in Nat \ {0} /\ Depth = Len(st)
  BY <1>1 DEF EngineTypes, Depth
<1>3. /\ Unbound <=> \A d \in 1 .. Len(st) : FrameOf(st, d).pc # "bound"
      /\ Unbound' <=> \A d \in 1 .. Len(st2) : FrameOf(st2, d).pc # "bound"
      /\ Beneath <=> \A d \in 1 .. Len(st) - 1 : FrameOf(st, d).pc # "bound"
  BY <1>1 DEF Unbound, Beneath, Depths, Depth, Frame
<1>4. FrameOf(st, Len(st)) = Top
  BY <1>1, TopFrame DEF Frame, Depth
<1>5. Unbound <=> Beneath /\ Top.pc # "bound"
  BY <1>2, <1>3, <1>4
<1>6. ASSUME NEW f \in Frames, Go(f)
      PROVE  Unbound' <=> Beneath /\ f.pc # "bound"
  <2>1. st2 = <<f>> \o Tail(st)
    BY <1>1, <1>6 DEF Go
  <2>2. /\ Len(st2) = Len(st) /\ FrameOf(st2, Len(st)) = f
        /\ \A d \in 1 .. Len(st) - 1 : FrameOf(st2, d) = FrameOf(st, d)
    BY <1>2, <1>6, <2>1 DEF FrameOf
  <2> QED
    BY <1>2, <1>3, <2>2
<1>7. ASSUME NEW f \in Frames, NEW g \in Frames, Call(f, g)
      PROVE  Unbound' <=> Beneath /\ f.pc # "bound" /\ g.pc # "bound"
  <2>1. st2 = <<f, g>> \o Tail(st)
    BY <1>1, <1>7 DEF Call
  <2>2. /\ Len(st2) = Len(st) + 1 /\ FrameOf(st2, Len(st) + 1) = f /\ FrameOf(st2, Len(st)) = g
        /\ \A d \in 1 .. Len(st) - 1 : FrameOf(st2, d) = FrameOf(st, d)
    BY <1>2, <1>7, <2>1 DEF FrameOf
  <2> QED
    BY <1>2, <1>3, <2>2
<1>8. ASSUME Return
      PROVE  Unbound' <=> Beneath
  <2>1. st2 = Tail(st)
    BY <1>1, <1>8 DEF Return
  <2>2. /\ Len(st2) = Len(st) - 1 /\ \A d \in 1 .. Len(st) - 1 : FrameOf(st2, d) = FrameOf(st, d)
    BY <1>2, <2>1 DEF FrameOf
  <2> QED
    BY <1>2, <1>3, <2>2
<1>9. stack' = stack => (Unbound' <=> Unbound)
  BY <1>1, <1>3
<1> QED
  BY <1>5, <1>6, <1>7, <1>8, <1>9

\* While a walk runs, there is none beneath it.
LEMMA BoundAlone ==
  ASSUME Orderly, EngineInv, Working, stack # <<>>, InBind(Top)
  PROVE  Beneath
<1>1. SafeFrees /\ Depth \in Nat \ {0} /\ Frame(Depth) = Top /\ Depth \in Depths /\ Placed(Depth)
  BY OrderlySetup, GoodTop
<1>2. SUFFICES ASSUME NEW d \in 1 .. Depth - 1, Frame(d).pc = "bound"
               PROVE  FALSE
  BY DEF Beneath
<1>3. d \in Depths /\ d < Depth
  BY <1>1, <1>2 DEF Depths
<1>4. Placed(d)
  BY <1>3 DEF EngineInv, StackKnown
<1>5. Fault("send")
  BY <1>2, <1>3, <1>4 DEF Placed
<1>6. ~HasMasters(setup)
  BY <1>5, OrderlySetup
<1>7. Depth = 1
  BY <1>1, <1>6 DEF Placed
<1> QED
  BY <1>2, <1>7

-----------------------------------------------------------------------------
\* The open sockets.

LEMMA OpenAltered ==
  ASSUME q \in [Ids -> QueryStates], live \subseteq Ids, live' = live,
         NEW s \in live, NEW r, q' = [q EXCEPT ![s] = r]
  PROVE  /\ r.fd = q[s].fd => Open' = Open
         /\ q[s].fd = 0 /\ r.fd # 0 => s \notin Open /\ Open' = Open \cup {s}
         /\ r.fd = 0 => Open' = Open \ {s}
         /\ q'[s] = r
<1>1. q'[s] = r /\ \A t \in live : t # s => q'[t] = q[t]
  OBVIOUS
<1> QED
  BY <1>1 DEF Open

\* What a step does to the sockets and the counters.
Untouched == Open' = Open /\ (Unbound' <=> Unbound) /\ UNCHANGED <<counters, closed>>

Opened(s) ==
  /\ s \in live \ Open /\ Open' = Open \cup {s} /\ Unbound
  /\ connected < MaxSimultaneous /\ (waiting = 0 \/ Is(s, MasterTypes))
  /\ \/ Unbound' /\ connected' = connected + 1
     \/ ~Unbound' /\ connected' = connected
  /\ UNCHANGED <<waiting, returned, timedOut, closed>>

Counted ==
  /\ Open' = Open /\ ~Unbound /\ Unbound' /\ connected' = connected + 1
  /\ UNCHANGED <<waiting, returned, timedOut, closed>>

Dropped(s) ==
  /\ s \in Open /\ Open' = Open \ {s} /\ (Unbound' <=> Unbound) /\ connected' = connected - 1
  /\ UNCHANGED <<waiting, returned, timedOut, closed>>

Ended(s) ==
  /\ stack # <<>> /\ Top.pc = "cleanup" /\ s = Top.s /\ s \in live
  /\ Open' = Open \ {s} /\ (Unbound' <=> Unbound)
  /\ connected' = IF s \in Open THEN connected - 1 ELSE connected
  /\ waiting' = MastersLeft(s) /\ closed' = closed \cup {s}
  /\ returned' = IF Returned(ClosedName(s)) THEN returned + 1 ELSE returned
  /\ timedOut' = IF q[s].name = NoName /\ ClosedName(s) = "TIMEOUT" THEN timedOut + 1 ELSE timedOut
  /\ Depth' >= Depth /\ \A d \in Depths' : d >= Depth => FrameOf(stack', d).pc # "cleanup"

CountStep == Untouched \/ Counted \/ \E s \in live : Opened(s) \/ Dropped(s) \/ Ended(s)

\* bind_sockets.
LEMMA BindServerCount ==
  ASSUME Orderly, EngineInv, BindServer
  PROVE  CountStep
<1> DEFINE s == Top.s
<1>1. /\ Working /\ stack # <<>> /\ Top.pc = "walk" /\ s \in live /\ s \in Ids /\ q[s] \in QueryStates
      /\ q[s].fd = 0 /\ q[s].name = NoName /\ connected < MaxSimultaneous
      /\ (waiting = 0 \/ Is(s, MasterTypes)) /\ UNCHANGED <<vars, setup, main, input>> /\ live' = live
      /\ q \in [Ids -> QueryStates] /\ live \subseteq Ids
  BY Basics DEF BindServer, Walking, Wanted, In, Working, EngineTypes, vars
<1>2. SafeFrees /\ ~(Fault("sync") /\ Fault("connect")) /\ EngineTypes /\ FreeFd \in Ids /\ 0 \notin Ids
  BY <1>1, OrderlySetup, Basics, FreeFdFound
<1>3. Beneath /\ Unbound
  BY <1>1, <1>2, BoundAlone, BoundFrames DEF InBind, WalkPcs
<1>4. /\ Top \in WalkFrames /\ WalkOn \in Frames /\ WalkOn.pc = "walk"
      /\ [WalkOn EXCEPT !.inprogress = @ + 1] \in Frames
      /\ Top.retries # 2 => [WalkOn EXCEPT !.retries = @ + 1] \in Frames
      /\ WalkOn \in WalkFrames
  BY <1>1, WalkOnType DEF WalkPcs
<1>5. PICK rc \in BindResults(s) :
       \/ rc = 0 /\ BindDone(s)
       \/ rc = -3 /\ BindPending(s)
       \/ rc = -2 /\ BindNoDescriptor
       \/ rc = -1 /\ BindFailed(s)
  BY DEF BindServer
<1>6. Cleanup(s, TRUE) \in Frames /\ Cleanup(s, TRUE).pc = "cleanup"
  BY <1>1, FrameSets DEF Cleanup
<1>7. CASE BindDone(s)
  <2>1. PICK x : x = [q[s] EXCEPT !.fd = FreeFd, !.state = "connected"]
    OBVIOUS
  <2>2. x.fd = FreeFd /\ x.fd # 0
    BY <1>1, <1>2, <2>1 DEF QueryStates
  <2>3. PICK after : after = [Top EXCEPT !.pc = "bound"]
    OBVIOUS
  <2>4. after \in Frames /\ after.pc = "bound"
    BY <1>4, <2>3 DEF Frames, WalkFrames, WalkPcs
  <2>5. PICK sent \in Sends : /\ StatusQuery(s, x, sent)
                              /\ IF sent THEN Go(after) ELSE Call(Cleanup(s, TRUE), after)
                              /\ UNCHANGED <<counters, closed, budget>>
    BY <1>7, <2>1, <2>3 DEF BindDone
  <2>6. ~Unbound'
    BY <1>1, <1>2, <1>6, <2>4, <2>5, BoundFrames
  <2>7. PICK r : q' = [q EXCEPT ![s] = r] /\ r.fd # 0
    <3>1. [x EXCEPT !.retry1 = @ - 1].fd = x.fd
      BY <1>1, <2>1 DEF QueryStates
    <3> QED
      BY <2>2, <2>5, <3>1 DEF StatusQuery
  <2>8. s \notin Open /\ Open' = Open \cup {s}
    BY <1>1, <2>7, OpenAltered
  <2>9. Opened(s)
    BY <1>1, <1>3, <2>5, <2>6, <2>8 DEF Opened, counters
  <2> QED
    BY <1>1, <2>9 DEF CountStep
<1>8. CASE BindPending(s)
  <2>1. PICK r : r = [q[s] EXCEPT !.fd = FreeFd, !.state = "connecting"]
    OBVIOUS
  <2>2. r.fd # 0 /\ q' = [q EXCEPT ![s] = r]
    BY <1>1, <1>2, <1>8, <2>1 DEF BindPending, QueryStates
  <2>3. s \notin Open /\ Open' = Open \cup {s}
    BY <1>1, <2>2, OpenAltered
  <2>4. [WalkOn EXCEPT !.inprogress = @ + 1].pc = "walk"
    BY <1>4 DEF WalkFrames
  <2>5. Go([WalkOn EXCEPT !.inprogress = @ + 1])
    BY <1>8 DEF BindPending
  <2>6. Unbound'
    BY <1>1, <1>2, <1>3, <1>4, <2>4, <2>5, BoundFrames
  <2>7. connected' = connected + 1 /\ UNCHANGED <<waiting, returned, timedOut, closed>>
    BY <1>8 DEF BindPending, history
  <2>8. Opened(s)
    BY <1>1, <1>3, <2>3, <2>6, <2>7 DEF Opened
  <2> QED
    BY <1>1, <2>8 DEF CountStep
<1>9. CASE BindNoDescriptor
  <2>1. UNCHANGED state
    BY <1>9 DEF BindNoDescriptor
  <2>2. PICK f \in Frames : Go(f) /\ f.pc # "bound"
    <3>1. [Top EXCEPT !.pc = "result", !.last = Top.s] \in Frames
      BY <1>1, <1>4, FrameUpdates, FrameSets, Basics DEF WalkPcs
    <3>2. /\ [Top EXCEPT !.pc = "result", !.last = Top.s].pc = "result"
          /\ [WalkOn EXCEPT !.retries = @ + 1].pc = "walk"
      BY <1>4 DEF WalkFrames
    <3> QED
      BY <1>4, <1>9, <3>1, <3>2 DEF BindNoDescriptor
  <2>3. Unbound'
    BY <1>1, <1>2, <1>3, <2>2, BoundFrames
  <2>4. Untouched
    BY <1>1, <1>3, <2>1, <2>3 DEF Untouched, Open, state, history
  <2> QED
    BY <2>4 DEF CountStep
<1>10. CASE rc = -1 /\ BindFailed(s)
  <2>1. Fault("connect") /\ ~Fault("sync")
    BY <1>2, <1>10 DEF BindResults
  <2>2. PICK r : r = [q[s] EXCEPT !.name = "SYSERROR"]
    OBVIOUS
  <2>3. q' = [q EXCEPT ![s] = r] /\ r.fd = q[s].fd
    BY <1>1, <1>10, <2>2 DEF BindFailed, QueryStates
  <2>4. Open' = Open
    BY <1>1, <2>3, OpenAltered
  <2>5. Call(Cleanup(s, TRUE), WalkOn) /\ UNCHANGED <<counters, closed>>
    BY <1>10, <2>1 DEF BindFailed, counters, history
  <2>6. Unbound'
    BY <1>1, <1>2, <1>3, <1>4, <1>6, <2>5, BoundFrames
  <2>7. Untouched
    BY <1>3, <2>4, <2>5, <2>6 DEF Untouched
  <2> QED
    BY <2>7 DEF CountStep
<1> QED
  BY <1>5, <1>7, <1>8, <1>9, <1>10

LEMMA SocketsAside ==
  ASSUME q' = q, live' = live
  PROVE  Open' = Open
  BY DEF Open

LEMMA ConnectServerCount ==
  ASSUME Orderly, EngineInv, ConnectServer
  PROVE  CountStep
<1> DEFINE s == Top.s
<1>1. /\ Working /\ stack # <<>> /\ Top.pc = "pass" /\ s \in live /\ s \in Ids /\ q[s] \in QueryStates
      /\ q[s].state = "connecting" /\ UNCHANGED <<vars, setup, main, input>> /\ live' = live
      /\ q \in [Ids -> QueryStates] /\ live \subseteq Ids /\ s \in 1 .. count
  BY Basics DEF ConnectServer, Passing, In, Working, EngineTypes, vars
<1>2. SafeFrees /\ Plain /\ EngineTypes /\ Sockets
  BY <1>1, OrderlySetup DEF EngineInv
<1>3. Beneath /\ Unbound
  BY <1>1, <1>2, BoundAlone, BoundFrames DEF InBind, WalkPcs
<1>4. /\ Top \in WalkFrames /\ WalkOn \in Frames /\ WalkOn.pc = "pass" /\ WalkOn \in WalkFrames
      /\ [WalkOn EXCEPT !.inprogress = @ + 1] \in Frames
  BY <1>1, WalkOnType DEF WalkPcs
<1>5. Cleanup(s, TRUE) \in Frames /\ Cleanup(s, TRUE).pc = "cleanup"
  BY <1>1, FrameSets DEF Cleanup
<1>6. CASE ConnectDone(s)
  <2>1. PICK x : x = [q[s] EXCEPT !.state = "connected"]
    OBVIOUS
  <2>2. x.fd = q[s].fd
    BY <1>1, <2>1 DEF QueryStates
  <2>3. PICK after : after = [Top EXCEPT !.pc = "joined", !.nxt = next[s]]
    OBVIOUS
  <2>4. after \in Frames /\ after.pc = "joined"
    <3>1. next[s] \in Ptrs
      BY <1>1, Basics DEF TypeOK
    <3> QED
      BY <1>4, <2>3, <3>1 DEF Frames, WalkFrames, WalkPcs
  <2>5. PICK sent \in Sends : /\ StatusQuery(s, x, sent)
                              /\ IF sent THEN Go(after) ELSE Call(Cleanup(s, TRUE), after)
                              /\ UNCHANGED <<counters, closed, budget>>
    BY <1>6, <2>1, <2>3 DEF ConnectDone
  <2>6. Unbound'
    BY <1>1, <1>2, <1>3, <1>5, <2>4, <2>5, BoundFrames
  <2>7. PICK r : q' = [q EXCEPT ![s] = r] /\ r.fd = q[s].fd
    <3>1. [x EXCEPT !.retry1 = @ - 1].fd = x.fd
      BY <1>1, <2>1 DEF QueryStates
    <3> QED
      BY <2>2, <2>5, <3>1 DEF StatusQuery
  <2>8. Open' = Open
    BY <1>1, <2>7, OpenAltered
  <2>9. Untouched
    BY <1>3, <2>5, <2>6, <2>8 DEF Untouched
  <2> QED
    BY <2>9 DEF CountStep
<1>7. CASE ConnectWaits(s)
  <2>1. Go([WalkOn EXCEPT !.inprogress = @ + 1]) /\ UNCHANGED state
    BY <1>7 DEF ConnectWaits
  <2>2. [WalkOn EXCEPT !.inprogress = @ + 1].pc = "pass"
    BY <1>4 DEF WalkFrames
  <2>3. Unbound'
    BY <1>1, <1>2, <1>3, <1>4, <2>1, <2>2, BoundFrames
  <2>4. Open' = Open
    BY <1>1, <2>1, SocketsAside DEF state
  <2>5. Untouched
    BY <1>3, <2>1, <2>3, <2>4 DEF Untouched, state, history
  <2> QED
    BY <2>5 DEF CountStep
<1>8. CASE ConnectFails(s)
  <2>1. PICK name : q' = [q EXCEPT ![s].name = name, ![s].state = "failed", ![s].fd = 0]
    BY <1>8 DEF ConnectFails
  <2>2. PICK r : q' = [q EXCEPT ![s] = r] /\ r.fd = 0
    <3>1. PICK r : r = [q[s] EXCEPT !.name = name, !.state = "failed", !.fd = 0]
      OBVIOUS
    <3>2. r.fd = 0 /\ q' = [q EXCEPT ![s] = r]
      BY <1>1, <2>1, <3>1 DEF QueryStates
    <3> QED
      BY <3>2
  <2>3. Open' = Open \ {s}
    BY <1>1, <2>2, OpenAltered
  <2>4. s \in Open
    BY <1>1, <1>2 DEF Sockets, Open
  <2>5. /\ Call(Cleanup(s, TRUE), WalkOn) /\ connected' = connected - 1
        /\ UNCHANGED <<waiting, returned, timedOut, closed>>
    BY <1>8 DEF ConnectFails, history
  <2>6. Unbound'
    BY <1>1, <1>2, <1>3, <1>4, <1>5, <2>5, BoundFrames
  <2>7. Dropped(s)
    BY <1>3, <2>3, <2>4, <2>5, <2>6 DEF Dropped
  <2> QED
    BY <1>1, <2>7 DEF CountStep
<1> QED
  BY <1>6, <1>7, <1>8 DEF ConnectServer

LEMMA BindLoopCount ==
  ASSUME Orderly, EngineInv, BindLoop
  PROVE  CountStep
<1>1. /\ SafeFrees /\ EngineTypes /\ Working /\ stack # <<>> /\ InBind(Top)
  BY OrderlySetup DEF EngineInv, BindLoop, BindSockets, SkipServer, BindServer, Bound, EndWalk,
     EndPass, PassServer, ConnectServer, Joined, BindReturns, Walking, Passing, In, Working, InBind, WalkPcs
<1>2. Beneath
  BY <1>1, BoundAlone
<1>3. ASSUME UNCHANGED <<q, live, counters, closed>>, Top.pc # "bound",
             NEW f \in Frames, Go(f), f.pc # "bound"
      PROVE  CountStep
  <2>1. Unbound /\ Unbound'
    BY <1>1, <1>2, <1>3, BoundFrames
  <2>2. Open' = Open
    BY <1>3, SocketsAside
  <2> QED
    BY <1>3, <2>1, <2>2 DEF CountStep, Untouched
<1>4. CASE BindSockets
  <2>1. PICK f : /\ Go(f)
                 /\ \E p \in Ptrs : f = [pc |-> "walk", s |-> p, nxt |-> 0, first |-> p, last |-> 0,
                                         inprogress |-> 0, retries |-> 0]
    <3>1. servers \in Ptrs /\ lastBind \in Ptrs /\ 0 \in Ptrs
      BY Basics DEF TypeOK
    <3> QED
      BY <1>4, <3>1 DEF BindSockets
  <2>2. f \in Frames /\ f.pc = "walk"
    BY <2>1, Basics DEF Frames, WalkFrames, WalkPcs
  <2>3. UNCHANGED <<q, live, counters, closed>> /\ Top.pc = "bind"
    BY <1>4 DEF BindSockets, MoveLastBind, state, history, In
  <2> QED
    BY <1>3, <2>1, <2>2, <2>3
<1>5. CASE SkipServer \/ PassServer
  <2>1. UNCHANGED <<q, live, counters, closed>> /\ Go(WalkOn) /\ Top.pc \in {"walk", "pass"} /\ Top.s \in live
    BY <1>5 DEF SkipServer, PassServer, Walking, Passing, In, vars, state, history
  <2>2. WalkOn \in Frames /\ WalkOn.pc = Top.pc
    BY <1>1, <2>1, WalkOnType, Basics DEF WalkPcs
  <2> QED
    BY <1>3, <2>1, <2>2
<1>6. CASE EndWalk \/ EndPass \/ Joined
  <2>1. UNCHANGED <<q, live, counters, closed>> /\ Top.pc \in {"walk", "pass", "joined"}
    BY <1>6 DEF EndWalk, EndPass, Joined, In, MoveLastBind, vars, state, history
  <2>2. Top \in WalkFrames
    BY <1>1, <2>1, TopFrame, FrameKinds DEF WalkPcs
  <2>3. PICK x : x = Top
    OBVIOUS
  <2>4. /\ [x EXCEPT !.pc = "pass", !.last = x.s] \in WalkFrames
        /\ [x EXCEPT !.s = x.first, !.inprogress = 0] \in WalkFrames
        /\ [x EXCEPT !.pc = "result"] \in WalkFrames
        /\ [x EXCEPT !.pc = "pass", !.s = x.nxt] \in WalkFrames
        /\ [x EXCEPT !.pc = "pass", !.last = x.s].pc = "pass"
        /\ [x EXCEPT !.s = x.first, !.inprogress = 0].pc = x.pc
        /\ [x EXCEPT !.pc = "result"].pc = "result"
        /\ [x EXCEPT !.pc = "pass", !.s = x.nxt].pc = "pass"
    BY <2>2, <2>3 DEF WalkFrames, WalkPcs
  <2>5. PICK f \in Frames : Go(f) /\ f.pc # "bound"
    BY <1>6, <2>1, <2>3, <2>4, FrameSets DEF EndWalk, EndPass, Joined
  <2> QED
    BY <1>3, <2>1, <2>5
<1>7. CASE BindReturns
  <2>1. UNCHANGED <<q, live, counters, closed>> /\ Top.pc = "result" /\ Return
    BY <1>7 DEF BindReturns, In, vars, state, history
  <2>2. Unbound /\ Unbound'
    BY <1>1, <1>2, <2>1, BoundFrames
  <2>3. Open' = Open
    BY <2>1, SocketsAside
  <2> QED
    BY <2>1, <2>2, <2>3 DEF CountStep, Untouched
<1>8. CASE Bound
  <2>1. PICK x : x = Top
    OBVIOUS
  <2>2. PICK f : f = [x EXCEPT !.pc = "pass", !.last = x.s, !.s = x.s]
    OBVIOUS
  <2>3. /\ Go(f) /\ x.pc = "bound" /\ connected' = connected + 1
        /\ UNCHANGED <<q, live, waiting, returned, timedOut, closed>>
    BY <1>8, <2>1, <2>2 DEF Bound, In, MoveLastBind, history
  <2>4. f \in Frames /\ f.pc = "pass"
    <3>1. x \in WalkFrames
      BY <1>1, <2>1, <2>3, TopFrame, FrameKinds DEF WalkPcs
    <3>2. f \in WalkFrames /\ f.pc = "pass"
      BY <2>2, <3>1 DEF WalkFrames, WalkPcs
    <3> QED
      BY <3>2, FrameSets
  <2>5. ~Unbound /\ Unbound'
    BY <1>1, <1>2, <2>1, <2>3, <2>4, BoundFrames
  <2>6. Open' = Open
    BY <2>3, SocketsAside
  <2> QED
    BY <2>3, <2>5, <2>6 DEF CountStep, Counted
<1> QED
  BY <1>4, <1>5, <1>6, <1>7, <1>8, BindServerCount, ConnectServerCount DEF BindLoop

\* cleanup_qserver and add_servers_from_masters.
LEMMA CleanupClosesCount ==
  ASSUME Orderly, EngineInv, CleanupCloses
  PROVE  Ended(Top.s)
<1>1. PICK s, x, f : s = Top.s /\ x = q[s] /\ f = [pc |-> "display", s |-> s]
  OBVIOUS
<1>2. /\ Working /\ stack # <<>> /\ Top.pc = "cleanup" /\ s \in live /\ s \in Ids /\ x \in QueryStates
      /\ live' = live /\ q \in [Ids -> QueryStates] /\ live \subseteq Ids
  BY <1>1, Basics DEF CleanupCloses, In, Working, EngineTypes, vars
<1>3. EngineTypes
  BY Basics
<1>4. /\ q' = [q EXCEPT ![s].name = ClosedName(s), ![s].fd = 0]
      /\ connected' = IF q[s].fd = 0 THEN connected ELSE connected - 1
      /\ returned' = IF Returned(ClosedName(s)) THEN returned + 1 ELSE returned
      /\ timedOut' = IF q[s].name = NoName /\ ClosedName(s) = "TIMEOUT" THEN timedOut + 1 ELSE timedOut
      /\ waiting' = MastersLeft(s) /\ closed' = closed \cup {s}
      /\ Go(f) \/ Call([pc |-> "masters", s |-> servers], f)
  BY <1>1 DEF CleanupCloses, AddThenDisplay
<1>5. Open' = Open \ {s}
  <2>1. PICK name : name = ClosedName(s)
    OBVIOUS
  <2>2. PICK r : r = [x EXCEPT !.name = name, !.fd = 0]
    OBVIOUS
  <2>3. r.fd = 0 /\ q' = [q EXCEPT ![s] = r]
    BY <1>1, <1>2, <1>4, <2>1, <2>2 DEF QueryStates
  <2> QED
    BY <1>2, <2>3, OpenAltered
<1>6. s \in Open <=> q[s].fd # 0
  BY <1>2 DEF Open
<1>7. Unbound' <=> Unbound
  <2>1. f \in Frames /\ f.pc = "display"
    BY <1>1, <1>2, FrameSets
  <2>2. PICK g : g = [pc |-> "masters", s |-> servers]
    OBVIOUS
  <2>3. servers \in Ptrs
    BY Basics DEF TypeOK
  <2>4. g \in Frames /\ g.pc = "masters"
    BY <2>2, <2>3, FrameSets
  <2> QED
    BY <1>2, <1>3, <1>4, <2>1, <2>2, <2>4, BoundFrames
<1>8. Depth' >= Depth /\ \A d \in Depths' : d >= Depth => FrameOf(stack', d).pc # "cleanup"
  <2>1. PICK st, st2, g : st = stack /\ st2 = stack' /\ g = [pc |-> "masters", s |-> servers]
    OBVIOUS
  <2>2. st \in Seq(Frames) /\ st # <<>>
    BY <1>2, <1>3, <2>1 DEF EngineTypes
  <2>3. st2 = <<f>> \o Tail(st) \/ st2 = <<g, f>> \o Tail(st)
    BY <1>4, <2>1 DEF Go, Call
  <2>4. f.pc = "display" /\ g.pc = "masters"
    BY <1>1, <2>1
  <2>5. Len(st2) >= Len(st) /\ \A d \in 1 .. Len(st2) : d >= Len(st) => FrameOf(st2, d) \in {f, g}
    BY <2>2, <2>3 DEF FrameOf
  <2> QED
    BY <2>1, <2>4, <2>5 DEF Depths, Depth
<1> QED
  BY <1>1, <1>2, <1>4, <1>5, <1>6, <1>7, <1>8 DEF Ended

LEMMA ReportedCount ==
  ASSUME EngineInv, NEW d \in Discovered, FindsServer(d)
  PROVE  Open' = Open
<1>1. /\ count' = count + 1 /\ count + 1 \in Ids /\ live' = live \cup {count + 1}
      /\ q'[count + 1] = NewQuery(d[1])
      /\ \A t \in Ids : t # count + 1 => q'[t] = q[t] \/ q'[t].fd = q[t].fd
  BY FoundServer
<1>2. q'[count + 1].fd = 0
  BY <1>1 DEF NewQuery
<1>3. live \subseteq Ids /\ count + 1 \notin live
  BY Basics
<1> QED
  BY <1>1, <1>2, <1>3 DEF Open

LEMMA CleanupServerCount ==
  ASSUME Orderly, EngineInv, CleanupServer
  PROVE  CountStep
<1>1. /\ Working /\ stack # <<>> /\ EngineTypes /\ q \in [Ids -> QueryStates] /\ live \subseteq Ids
      /\ count + 1 \notin live /\ closed \subseteq 1 .. count
  <2>1. Working /\ stack # <<>>
    BY DEF CleanupServer, CleanupKeeps, CleanupCloses, DisplayClosed, AddReported, NextMaster,
       MastersAdded, In, Working
  <2>2. EngineTypes /\ live \subseteq Ids /\ count + 1 \notin live
    BY Basics
  <2> QED
    BY <2>1, <2>2 DEF EngineTypes
<1>2. CASE CleanupCloses
  <2>1. Ended(Top.s) /\ Top.s \in live
    BY <1>2, CleanupClosesCount DEF CleanupCloses
  <2> QED
    BY <2>1 DEF CountStep
<1>3. CASE CleanupKeeps
  <2>1. UNCHANGED <<q, live, counters, closed>> /\ Top.pc = "cleanup" /\ Return
    BY <1>3 DEF CleanupKeeps, In, vars, state, history
  <2> QED
    BY <1>1, <2>1, BoundFrames, SocketsAside DEF CountStep, Untouched
<1>4. CASE DisplayClosed
  <2>1. UNCHANGED <<q, counters, closed>> /\ Top.pc = "display" /\ Return /\ Top.s \in live
    BY <1>4 DEF DisplayClosed, In, state, history
  <2>2. q[Top.s].fd = 0
    BY <1>1, <2>1, OrderlySetup, GoodTop DEF GoodFrame, FrameKnown, EngineInv, Sockets
  <2>3. live' = live \/ live' = live \ {Top.s}
    BY <1>4, CloseEffect DEF DisplayClosed, vars
  <2>4. Open' = Open
    BY <2>1, <2>2, <2>3 DEF Open
  <2> QED
    BY <1>1, <2>1, <2>4, BoundFrames DEF CountStep, Untouched
<1>5. CASE AddReported
  <2>1. UNCHANGED <<stack, counters, closed>> /\ Top.s \in Ids
    <3>1. Top.s # 0 /\ Top.pc = "masters" /\ Top \in Frames
      BY <1>1, <1>5, TopFrame DEF AddReported, In
    <3>2. Top.s \in Ids
      BY <3>1, FrameKinds DEF MasterFrames, Ids, Ptrs
    <3> QED
      BY <1>5, <3>2 DEF AddReported, history
  <2>2. PICK d \in Discovered :
          IF d[1] = 0 \/ FindServerByAddress(d[1], d[2]) # 0
          THEN q' = [q EXCEPT ![Top.s].report = @ - 1] /\ UNCHANGED vars
          ELSE /\ AddByAddr(d[1], d[2], d[3])
               /\ q' = [q EXCEPT ![Top.s].report = @ - 1, ![count + 1] = NewQuery(d[1])]
    BY <1>5 DEF AddReported
  <2>3. Open' = Open
    <3>1. PICK s : s = Top.s
      OBVIOUS
    <3>2. CASE q' = [q EXCEPT ![s].report = @ - 1] /\ UNCHANGED vars
      <4>1. PICK r : r = [q[s] EXCEPT !.report = @ - 1]
        OBVIOUS
      <4>2. q' = [q EXCEPT ![s] = r] /\ r.fd = q[s].fd
        BY <1>1, <2>1, <3>1, <3>2, <4>1 DEF QueryStates
      <4>3. \A t \in live : q'[t].fd = q[t].fd
        BY <1>1, <2>1, <3>1, <4>2
      <4> QED
        BY <3>2, <4>3 DEF Open, vars
    <3>3. CASE /\ AddByAddr(d[1], d[2], d[3])
               /\ q' = [q EXCEPT ![s].report = @ - 1, ![count + 1] = NewQuery(d[1])]
      <4>1. AddsServer(d[1], d[3])
        BY <3>3, AddEffect
      <4>2. live' = live \cup {count + 1} /\ count + 1 \in Ids
        BY <4>1 DEF AddsServer
      <4>3. PICK r, n : r = [q[s] EXCEPT !.report = @ - 1] /\ n = NewQuery(d[1])
        OBVIOUS
      <4>4. r.fd = q[s].fd /\ n.fd = 0
        BY <1>1, <2>1, <3>1, <4>3 DEF QueryStates, NewQuery
      <4>5. q'[count + 1].fd = 0 /\ \A t \in live : q'[t].fd = q[t].fd
        BY <1>1, <2>1, <3>1, <3>3, <4>2, <4>3, <4>4
      <4> QED
        BY <1>1, <4>2, <4>5 DEF Open
    <3> QED
      BY <2>2, <3>1, <3>2, <3>3
  <2> QED
    BY <1>1, <2>1, <2>3, BoundFrames DEF CountStep, Untouched
<1>6. CASE NextMaster
  <2>1. UNCHANGED <<live, counters, closed>> /\ Top.pc = "masters" /\ Top.s \in Ids
    <3>1. Top.s # 0 /\ Top.pc = "masters" /\ Top \in Frames
      BY <1>1, <1>6, TopFrame DEF NextMaster, In
    <3>2. Top.s \in Ids
      BY <3>1, FrameKinds DEF MasterFrames, Ids, Ptrs
    <3> QED
      BY <1>6, <3>1, <3>2 DEF NextMaster, history, vars
  <2>2. Open' = Open
    <3>1. PICK s : s = Top.s
      OBVIOUS
    <3>2. PICK r : r = [q[s] EXCEPT !.heard = FALSE]
      OBVIOUS
    <3>3. q' = [q EXCEPT ![s] = r] /\ r.fd = q[s].fd
      BY <1>1, <1>6, <2>1, <3>1, <3>2 DEF QueryStates, NextMaster
    <3>4. \A t \in live : q'[t].fd = q[t].fd
      BY <1>1, <2>1, <3>1, <3>3
    <3> QED
      BY <2>1, <3>4 DEF Open
  <2>3. PICK f : f = WalkOn
    OBVIOUS
  <2>4. f \in Frames /\ f.pc = "masters" /\ Go(f)
    <3>1. Top \in MasterFrames
      BY <1>1, <2>1, TopFrame, FrameKinds
    <3>2. next[Top.s] \in Ptrs
      BY <2>1, Basics DEF TypeOK
    <3>3. f \in MasterFrames /\ f.pc = "masters"
      BY <2>3, <3>1, <3>2 DEF WalkOn, MasterFrames
    <3> QED
      BY <1>6, <2>3, <3>3 DEF NextMaster, Frames
  <2> QED
    BY <1>1, <2>1, <2>2, <2>4, BoundFrames DEF CountStep, Untouched
<1>7. CASE MastersAdded
  <2>1. UNCHANGED <<q, live, counters, closed>> /\ Top.pc = "masters" /\ Go(BindCall)
    BY <1>7 DEF MastersAdded, In, vars, state, history
  <2>2. BindCall \in Frames /\ BindCall.pc = "bind"
    BY FrameSets DEF BindCall
  <2> QED
    BY <1>1, <2>1, <2>2, BoundFrames, SocketsAside DEF CountStep, Untouched
<1> QED
  BY <1>2, <1>3, <1>4, <1>5, <1>6, <1>7 DEF CleanupServer

\* send_packets.
LEMMA SendPacketsCount ==
  ASSUME Orderly, EngineInv, SendPackets
  PROVE  CountStep
<1>1. /\ Working /\ stack # <<>> /\ EngineTypes /\ Top.pc = "send" /\ UNCHANGED <<live, counters, closed>>
      /\ q \in [Ids -> QueryStates] /\ live \subseteq Ids
  BY Basics DEF SendPackets, EndSend, SendWaits, SendGivesUp, SendAgain, RulesGivenUp, AskDetails, Sending,
     In, Working, EngineTypes, vars, state, history
<1>2. Open' = Open
  <2>1. PICK s : s = SendServer
    OBVIOUS
  <2>2. q' = q \/ \E r : Alters(s, r) /\ SameSocket(r, q[s])
    BY <2>1, OrderlySetup, SendDoes DEF SendsTo
  <2>3. \A t \in live : q'[t].fd = q[t].fd
    BY <1>1, <2>2 DEF Alters, SameSocket
  <2> QED
    BY <1>1, <2>3 DEF Open
<1>3. Unbound' <=> Unbound
  <2>1. CASE EndSend
    BY <1>1, <2>1, BoundFrames DEF EndSend
  <2>2. CASE ~EndSend
    <3>1. PICK s, f : s = SendServer /\ f = SendOn
      OBVIOUS
    <3>2. Sending
      BY <2>2 DEF SendPackets, SendWaits, SendGivesUp, SendAgain, RulesGivenUp, AskDetails
    <3>3. s \in Ids /\ f \in Frames /\ f.pc = "send"
      BY <3>1, <3>2, OrderlySetup, SendServerFacts, SendServerLive
    <3>4. \/ Go(f)
          \/ \E force \in BOOLEAN : Call(Cleanup(s, force), f)
      BY <2>2, <3>1 DEF SendPackets, SendWaits, SendGivesUp, SendAgain, RulesGivenUp, AskDetails
    <3>5. \A force \in BOOLEAN : Cleanup(s, force) \in Frames /\ Cleanup(s, force).pc = "cleanup"
      BY <3>3, FrameSets DEF Cleanup
    <3> QED
      BY <1>1, <3>3, <3>4, <3>5, BoundFrames
  <2> QED
    BY <2>1, <2>2
<1> QED
  BY <1>1, <1>2, <1>3 DEF CountStep, Untouched

\* do_work: what it calls begins with no server bound.
LEMMA EmptyUnbound ==
  ASSUME stack = <<>>,
         \/ stack' \in {<<>>, <<BindCall>>, <<SendCall>>}
         \/ \E s, force : stack' \in {<<Cleanup(s, force)>>, <<BindCall, Cleanup(s, force)>>}
  PROVE  Unbound /\ Unbound'
<1>1. PICK st2 : st2 = stack'
  OBVIOUS
<1>2. Unbound' <=> \A d \in 1 .. Len(st2) : FrameOf(st2, d).pc # "bound"
  BY <1>1 DEF Unbound, Depths, Depth, Frame
<1>3. Unbound
  BY DEF Unbound, Depths, Depth
<1>4. CASE st2 \in {<<>>, <<BindCall>>, <<SendCall>>}
  BY <1>2, <1>3, <1>4 DEF FrameOf, BindCall, SendCall
<1>5. ASSUME NEW s, NEW force, st2 \in {<<Cleanup(s, force)>>, <<BindCall, Cleanup(s, force)>>}
      PROVE  Unbound'
  BY <1>2, <1>5 DEF FrameOf, BindCall, Cleanup
<1> QED
  BY <1>1, <1>3, <1>4, <1>5

LEMMA HandleCount ==
  ASSUME Orderly, EngineInv, Handle
  PROVE  Untouched
<1>1. PICK s : s = Head(buffer)
  OBVIOUS
<1>2. /\ stack = <<>> /\ s \in live /\ Answered(s) /\ UNCHANGED <<live, counters, closed>>
  BY <1>1, HandleDoes DEF At, vars, history
<1>3. PICK r : AnsweredWith(s, r)
  BY <1>2 DEF Answered
<1>4. SameSocket(r, q[s])
  BY <1>1, <1>3, OrderlySetup, AnswerKeepsSocket
<1>5. q \in [Ids -> QueryStates] /\ live \subseteq Ids
  BY Basics DEF EngineTypes
<1>6. Open' = Open
  BY <1>2, <1>3, <1>4, <1>5, OpenAltered DEF AnsweredWith, SameSocket
<1>7. Unbound /\ Unbound'
  BY <1>2, <1>3, EmptyUnbound DEF AnsweredWith
<1> QED
  BY <1>2, <1>6, <1>7 DEF Untouched

LEMMA ReceiveCount ==
  ASSUME Orderly, EngineInv, Receive
  PROVE  Untouched
<1>1. PICK f \in polled :
       /\ connmap[f] # 0
       /\ \/ UNCHANGED <<q, stack>>
          \/ /\ q' = [q EXCEPT ![connmap[f]].name = "DOWN"]
             /\ stack' = <<Cleanup(connmap[f], TRUE)>>
  BY DEF Receive
<1>2. /\ Working /\ stack = <<>> /\ UNCHANGED <<live, counters, closed>>
  BY DEF Receive, At, Working, vars, history
<1>3. /\ q \in [Ids -> QueryStates] /\ live \subseteq Ids /\ connmap[f] \in live
  BY <1>1, <1>2, OrderlySetup, LivePointers, Basics DEF EngineTypes
<1>4. Open' = Open
  <2>1. PICK s : s = connmap[f]
    OBVIOUS
  <2>2. PICK r : r = [q[s] EXCEPT !.name = "DOWN"]
    OBVIOUS
  <2>3. CASE q' = [q EXCEPT ![s].name = "DOWN"]
    <3>1. r.fd = q[s].fd /\ q' = [q EXCEPT ![s] = r]
      BY <1>3, <2>1, <2>2, <2>3 DEF QueryStates
    <3> QED
      BY <1>2, <1>3, <2>1, <3>1, OpenAltered
  <2> QED
    BY <1>1, <1>2, <2>1, <2>3, SocketsAside
<1>5. Unbound /\ Unbound'
  BY <1>1, <1>2, EmptyUnbound
<1> QED
  BY <1>2, <1>4, <1>5 DEF Untouched

LEMMA HandleBroadcastCount ==
  ASSUME Orderly, EngineInv, HandleBroadcast
  PROVE  Untouched
<1>1. stack = <<>> /\ stack' = stack /\ UNCHANGED <<counters, closed>>
  BY DEF HandleBroadcast, At, history
<1>2. SafeFrees
  BY OrderlySetup
<1>3. PICK s \in Ids :
        \/ s \in live /\ UNCHANGED <<live, ip, count, q>>
        \/ /\ s = count + 1 /\ s \notin live /\ live' = live \cup {s} /\ q'[s].fd = 0
           /\ \A t \in 1 .. count : ip'[t] = ip[t] /\ q'[t] = q[t]
           /\ count' = count + 1
  BY <1>2, BroadcastFinds
<1>4. live \subseteq 1 .. count
  BY Basics
<1>5. Open' = Open
  BY <1>3, <1>4 DEF Open
<1>6. Unbound /\ Unbound'
  BY <1>1, EmptyUnbound
<1> QED
  BY <1>1, <1>5, <1>6 DEF Untouched

\* Every step of the work.
LEMMA CountSteps ==
  ASSUME Orderly, EngineInv, Working, [NextScheduler]_all, ~EndWork
  PROVE  CountStep
<1>1. SafeFrees /\ EngineTypes
  BY OrderlySetup, Basics
<1>2. ~LoadServers /\ ~FinishOutput
  <2>1. CASE LoadServers
    <3>1. phase = "args"
      BY <2>1, LoadCmdLine
    <3> QED
      BY <3>1 DEF Working
  <2>2. ~FinishOutput
    BY FinishEffect DEF FinishOutput, Working
  <2> QED
    BY <2>1, <2>2
<1>3. CASE StartLoop \/ FirstSend \/ RetryBind \/ Poll \/ EndReceive \/ EndHandle \/ Rebind
  <2>1. UNCHANGED <<q, live, counters, closed>>
    BY <1>3 DEF StartLoop, FirstSend, RetryBind, Poll, EndReceive, EndHandle, Rebind, CallSend,
       MoveFirstBind, vars, state, history
  <2>2. stack = <<>> /\ stack' \in {<<>>, <<BindCall>>, <<SendCall>>}
    BY <1>3 DEF StartLoop, FirstSend, RetryBind, Poll, EndReceive, EndHandle, Rebind, CallSend, At
  <2>3. Unbound /\ Unbound'
    BY <2>2, EmptyUnbound
  <2> QED
    BY <2>1, <2>3, SocketsAside DEF CountStep, Untouched
<1>4. CASE Clock \/ UNCHANGED all
  <2>1. UNCHANGED <<q, live, counters, closed, stack>>
    BY <1>4 DEF Clock, SendIntervalEnds, Expire1, Expire2, all, vars, state, history
  <2>2. Unbound' <=> Unbound
    BY <2>1 DEF Unbound, Depths, Depth, Frame
  <2> QED
    BY <2>1, <2>2, SocketsAside DEF CountStep, Untouched
<1> QED
  BY <1>2, <1>3, <1>4, BindLoopCount, CleanupServerCount, SendPacketsCount, HandleCount,
     HandleBroadcastCount, ReceiveCount
     DEF NextScheduler, Program, DoWork, CountStep

\* `connected' is the number of open sockets, less the one whose status query was
\* sent and that bind_sockets is about to count.
CountInv ==
  /\ Cardinality(Open) <= MaxSimultaneous
  /\ Working => Cardinality(Open) = IF Unbound THEN connected ELSE connected + 1

LEMMA OpenFinite ==
  ASSUME EngineInv
  PROVE  IsFiniteSet(Open) /\ Cardinality(Open) \in Nat
<1>1. Open \subseteq 1 .. count /\ count \in Nat
  BY Basics DEF Open
<1>2. IsFiniteSet(1 .. count)
  BY <1>1, FS_Interval
<1> QED
  BY <1>1, <1>2, FS_Subset, FS_CardinalityType

LEMMA NothingOpen ==
  ASSUME EngineInv, phase = "args"
  PROVE  Open = {} /\ connected = 0 /\ stack = <<>> /\ Unbound
<1>1. \A s \in Ids : q[s] = NewQuery(ip[s])
  BY DEF EngineInv, NotStarted
<1>2. \A a : NewQuery(a).fd = 0
  BY DEF NewQuery
<1>3. Open = {}
  BY <1>1, <1>2, Basics DEF Open
<1>4. connected = 0 /\ stack = <<>>
  BY DEF EngineInv, NotStarted
<1> QED
  BY <1>3, <1>4 DEF Unbound, Depths, Depth

LEMMA FinishLive ==
  ASSUME Finish \/ Done
  PROVE  live' \subseteq live
<1>1. ASSUME NEW s, DisplayServer(s)
      PROVE  live' \subseteq live
  BY <1>1 DEF DisplayServer, Unlink
<1>2. ~FinishWalk /\ ~ShowSorted => live' = live
  BY DEF Finish, Done, FillArray, EndFinish, vars
<1>3. FinishWalk \/ ShowSorted => live' = live \/ \E s : DisplayServer(s)
  BY DEF FinishWalk, ShowSorted
<1> QED
  BY <1>1, <1>2, <1>3

\* Nothing but the work opens a socket.
LEMMA OutsideOpen ==
  ASSUME SafeFrees, EngineInv, [NextScheduler]_all, ~Working \/ EndWork
  PROVE  /\ Open' \subseteq Open
         /\ Working' => Open' = {} /\ connected' = 0 /\ Unbound' /\ stack' = <<>>
<1>1. CASE LoadServers /\ phase' = "args"
  <2>1. NotStarted' /\ EngineTypes' /\ SafeFrees
    BY <1>1, LoadKept, NextTypes
  <2>2. \A s \in Ids : q'[s].fd = 0
    <3>1. \A a : NewQuery(a)'.fd = 0
      BY DEF NewQuery
    <3> QED
      BY <1>1, <2>1, <3>1 DEF NotStarted
  <2>3. live' \subseteq Ids
    <3>1. ListInv'
      BY EngineStep, StepInv DEF EngineInv
    <3>2. live' \subseteq 1 .. count' /\ count' \in Ptrs
      BY <3>1 DEF ListInv, TypeOK
    <3>3. MaxServers \in Nat
      BY Basics
    <3>4. \A c \in Ptrs : 1 .. c \subseteq Ids
      BY <3>3 DEF Ptrs, Ids
    <3> QED
      BY <3>2, <3>4
  <2> QED
    BY <1>1, <2>2, <2>3 DEF Open, Working
<1>2. CASE LoadServers /\ phase' # "args"
  <2>1. phase = "args" /\ live' = live
    BY <1>2, LoadCmdLine DEF SameServers
  <2>2. q' = q
    BY <1>2, <2>1, Basics DEF LoadServers, EngineTypes
  <2>3. connected' = connected /\ stack' = stack
    BY <1>2 DEF LoadServers
  <2>4. Unbound' <=> Unbound
    BY <2>3 DEF Unbound, Depths, Depth, Frame
  <2> QED
    BY <2>1, <2>2, <2>3, <2>4, NothingOpen, SocketsAside
<1>3. CASE EndWork
  BY <1>3, SocketsAside DEF EndWork, StartFinish, state, Working
<1>4. CASE FinishOutput
  <2>1. q' = q /\ live' \subseteq live /\ phase' # "work"
    BY <1>4, FinishLive, FinishEffect DEF FinishOutput, state
  <2> QED
    BY <2>1 DEF Open, Working
<1>5. CASE UNCHANGED all
  <2>1. ~Working
    BY <1>5 DEF EndWork, StartFinish, all, vars
  <2> QED
    BY <1>5, <2>1, SocketsAside DEF all, state, vars, Working
<1> QED
  BY <1>1, <1>2, <1>3, <1>4, <1>5, OutsideSteps

\* Every step of the work keeps the count.
LEMMA CountKept ==
  ASSUME Orderly, EngineInv, CountInv, Working, Working', CountStep
  PROVE  CountInv'
<1>1. IsFiniteSet(Open) /\ Cardinality(Open) \in Nat /\ connected \in Int /\ MaxSimultaneous \in Nat
  BY OpenFinite, Basics, SchedulerAssumption DEF EngineTypes
<1>2. /\ Cardinality(Open) <= MaxSimultaneous
      /\ Cardinality(Open) = IF Unbound THEN connected ELSE connected + 1
  BY DEF CountInv
<1>3. CASE Untouched
  BY <1>2, <1>3 DEF Untouched, CountInv, counters
<1>4. CASE Counted
  BY <1>1, <1>2, <1>4 DEF Counted, CountInv
<1>5. ASSUME NEW s \in live, Opened(s)
      PROVE  CountInv'
  <2>1. Open' = Open \cup {s} /\ s \notin Open
    BY <1>5 DEF Opened
  <2>2. Cardinality(Open') = Cardinality(Open) + 1
    BY <1>1, <2>1, FS_AddElement
  <2> QED
    BY <1>1, <1>2, <1>5, <2>2 DEF Opened, CountInv
<1>6. ASSUME NEW s \in live, Dropped(s) \/ Ended(s)
      PROVE  CountInv'
  <2>1. Open' = Open \ {s} /\ (Unbound' <=> Unbound)
        /\ connected' = IF s \in Open THEN connected - 1 ELSE connected
    BY <1>6 DEF Dropped, Ended
  <2>2. Cardinality(Open') = IF s \in Open THEN Cardinality(Open) - 1 ELSE Cardinality(Open)
    BY <1>1, <2>1, FS_RemoveElement
  <2> QED
    BY <1>1, <1>2, <2>1, <2>2 DEF CountInv
<1> QED
  BY <1>3, <1>4, <1>5, <1>6 DEF CountStep

LEMMA CountNext ==
  ASSUME Orderly, EngineInv, CountInv, [NextScheduler]_all
  PROVE  CountInv'
<1>1. CASE Working /\ ~EndWork
  <2>1. Working'
    BY <1>1, OrderlySetup, WorkKinds DEF Keeps, Working
  <2> QED
    BY <1>1, <2>1, CountSteps, CountKept
<1>2. CASE ~Working \/ EndWork
  <2>1. SafeFrees
    BY OrderlySetup
  <2>2. Open' \subseteq Open /\ (Working' => Open' = {} /\ connected' = 0 /\ Unbound')
    BY <1>2, <2>1, OutsideOpen
  <2>3. Cardinality(Open') <= Cardinality(Open) /\ Cardinality(Open') \in Nat
    <3>1. PICK A, B : A = Open /\ B = Open'
      OBVIOUS
    <3>2. IsFiniteSet(A) /\ B \subseteq A
      BY <2>2, <3>1, OpenFinite
    <3>3. IsFiniteSet(B) /\ Cardinality(B) <= Cardinality(A)
      BY <3>2, FS_Subset
    <3> QED
      BY <3>1, <3>3, FS_CardinalityType
  <2>4. Cardinality(Open) \in Nat /\ Cardinality(Open) <= MaxSimultaneous /\ MaxSimultaneous \in Nat
    BY OpenFinite, SchedulerAssumption DEF CountInv
  <2>5. Cardinality({}) = 0
    BY FS_EmptySet
  <2> QED
    BY <2>2, <2>3, <2>4, <2>5 DEF CountInv
<1> QED
  BY <1>1, <1>2

LEMMA InitCount ==
  ASSUME Orderly, InitScheduler
  PROVE  EngineInv /\ CountInv
<1>1. EngineInv /\ phase = "args"
  BY InitEngine DEF Orderly, InitScheduler, InitList
<1>2. Open = {} /\ ~Working
  BY <1>1, NothingOpen DEF Working
<1>3. Cardinality(Open) = 0 /\ MaxSimultaneous \in Nat
  BY <1>2, FS_EmptySet, SchedulerAssumption
<1> QED
  BY <1>1, <1>2, <1>3 DEF CountInv

\* What it gives.

\* `connected' and the number of open sockets stay in step through every way a socket
\* is opened, refused, timed out or closed; one bind_sockets beneath a handler's or
\* a cleanup's call included.
THEOREM CountInvariant ==
  ASSUME Orderly
  PROVE  SchedulerSpec => [](EngineInv /\ CountInv)
<1>1. InitScheduler => EngineInv /\ CountInv
  BY InitCount
<1>2. (EngineInv /\ CountInv) /\ [NextScheduler]_all => (EngineInv /\ CountInv)'
  BY EngineNext, CountNext DEF Orderly
<1> QED
  BY <1>1, <1>2, PTL DEF SchedulerSpec

\* `connected' is the number of open sockets whenever do_work looks at it, and connmap has
\* the connected ones, each at its own descriptor.
THEOREM ConnectedExact ==
  ASSUME Orderly
  PROVE  SchedulerSpec => []SocketsCounted
<1>1. ASSUME EngineInv, CountInv
      PROVE  SocketsCounted
  <2>1. SUFFICES ASSUME Working
                 PROVE  /\ stack = <<>> => connected = Cardinality(Open)
                        /\ \A f \in Ids : connmap[f] # 0 => connmap[f] \in Open /\ q[connmap[f]].fd = f
                        /\ \A s \in Open : q[s].state = "connected" => connmap[q[s].fd] = s
                        /\ \A s, t \in Open : q[s].fd = q[t].fd => s = t
    BY DEF SocketsCounted, Working
  <2>2. stack = <<>> => Unbound
    BY DEF Unbound, Depths, Depth
  <2>3. stack = <<>> => connected = Cardinality(Open)
    BY <1>1, <2>1, <2>2 DEF CountInv
  <2>4. Sockets
    BY <1>1, <2>1, OrderlySetup DEF EngineInv
  <2>5. \A f \in Ids : f # 0
    BY <1>1, Basics
  <2>6. \A f \in Ids : connmap[f] # 0 => connmap[f] \in Open /\ q[connmap[f]].fd = f
    BY <2>4, <2>5 DEF Sockets, Open
  <2>7. \A s \in Open : q[s].state = "connected" => connmap[q[s].fd] = s
    BY <2>4 DEF Sockets, Open
  <2>8. \A s, t \in Open : q[s].fd = q[t].fd => s = t
    BY <2>4 DEF Sockets, Open
  <2> QED
    BY <2>3, <2>6, <2>7, <2>8
<1>2. EngineInv /\ CountInv => SocketsCounted
  BY <1>1
<1> QED
  BY <1>2, CountInvariant, PTL

\* -maxsimultaneous is kept whatever is bound, connecting or waiting.
THEOREM NeverTooManyOpen ==
  ASSUME Orderly
  PROVE  SchedulerSpec => []SocketLimit
<1>1. EngineInv /\ CountInv => SocketLimit
  BY DEF CountInv, SocketLimit
<1> QED
  BY <1>1, CountInvariant, PTL

-----------------------------------------------------------------------------
\* No server is cleaned up twice: the cleanups that run are of different servers,
\* none of them closed.
CleanupsOnce ==
  /\ \A d \in Depths : Frame(d).pc = "cleanup" => Frame(d).s \notin closed
  /\ \A d, e \in Depths :
       Frame(d).pc = "cleanup" /\ Frame(e).pc = "cleanup" /\ Frame(d).s = Frame(e).s => d = e

LEMMA CleanupFrom ==
  ASSUME Orderly, EngineInv, Working, [NextScheduler]_all, ~EndWork, ~Broadcasts(setup),
         NEW d \in Depths', NEW f, f = FrameOf(stack', d), f.pc = "cleanup"
  PROVE  \/ Stays(d, f)
         \/ Starts(d, f) /\ f.s \notin closed
         \/ StartsUnder(d, f) /\ f.s \notin closed
<1>1. SafeFrees /\ Plain
  BY OrderlySetup
<1>2. Stays(d, f) \/ Turns(d, f) \/ Starts(d, f) \/ StartsUnder(d, f)
  BY <1>1, Shapes
<1>3. ~Turns(d, f)
  BY DEF Turns, Follows, Closing
<1> QED
  BY <1>1, <1>2, <1>3 DEF Starts, StartsUnder, Begun

LEMMA CleanupsOnceKept ==
  ASSUME Orderly, EngineInv, Working, [NextScheduler]_all, ~EndWork, ~Broadcasts(setup), CleanupsOnce
  PROVE  CleanupsOnce'
<1>1. SafeFrees /\ Plain /\ Settled /\ StackKnown /\ CountStep /\ (stack # <<>> => Depth \in Depths /\ Frame(Depth) = Top)
  BY OrderlySetup, CountSteps, GoodTop DEF EngineInv
<1>2. Depths = 1 .. Depth /\ Depth \in Nat /\ Depths' \subseteq Nat
  <2>1. Depth \in Nat /\ Depth' \in Nat
    BY <1>1, Shapes
  <2> QED
    BY <2>1 DEF Depths
<1>3. ASSUME NEW d \in Depths', NEW f, f = FrameOf(stack', d), f.pc = "cleanup"
      PROVE  f.s \notin closed'
  <2>1. CASE closed' = closed
    BY <1>3, <2>1, CleanupFrom DEF Stays, CleanupsOnce
  <2>2. CASE Ended(Top.s)
    <3>1. /\ stack # <<>> /\ Top.pc = "cleanup" /\ closed' = closed \cup {Top.s} /\ d < Depth
      BY <1>2, <1>3, <2>2 DEF Ended
    <3>2. Stays(d, f)
      <4>1. ~StartsUnder(d, f)
        BY <3>1 DEF StartsUnder
      <4>2. ~Starts(d, f)
        <5>1. Starts(d, f) => d = Depth'
          BY DEF Starts
        <5>2. Depth' >= Depth
          BY <2>2 DEF Ended
        <5>3. d \in Nat /\ Depth \in Nat
          BY <1>2, <1>3
        <5> QED
          BY <3>1, <5>1, <5>2, <5>3
      <4> QED
        BY <1>3, <4>1, <4>2, CleanupFrom
    <3>3. f = Frame(d) /\ d \in Depths /\ f.s \notin closed
      BY <1>3, <3>2 DEF Stays, CleanupsOnce
    <3>4. f.s # Top.s
      <4>1. Depth \in Depths /\ Frame(Depth) = Top
        BY <1>1, <3>1
      <4>2. d # Depth
        BY <1>2, <1>3, <3>1
      <4>3. Frame(d).pc = "cleanup" /\ Frame(Depth).pc = "cleanup"
        BY <1>3, <3>1, <3>3, <4>1
      <4>4. Frame(d).s # Frame(Depth).s
        BY <3>3, <4>1, <4>2, <4>3 DEF CleanupsOnce
      <4> QED
        BY <3>3, <4>1, <4>4
    <3> QED
      BY <3>1, <3>3, <3>4
  <2>3. closed' = closed \/ Ended(Top.s)
    BY <1>1 DEF CountStep, Untouched, Counted, Opened, Dropped, Ended
  <2> QED
    BY <2>1, <2>2, <2>3
<1>4. ASSUME NEW d \in Depths', NEW f, f = FrameOf(stack', d), f.pc = "cleanup", Stays(d, f),
             NEW e \in Depths', NEW g, g = FrameOf(stack', e), g.pc = "cleanup", f.s = g.s
      PROVE  d = e
  <2>1. d \in Depths /\ f = Frame(d) /\ stack # <<>>
    BY <1>4 DEF Stays
  <2>2. CASE Stays(e, g)
    BY <1>4, <2>1, <2>2 DEF Stays, CleanupsOnce
  <2>3. CASE stack' = stack
    <3>1. e \in Depths /\ g = Frame(e)
      BY <1>4, <2>3 DEF Depths, Depth, Frame
    <3> QED
      BY <1>4, <2>1, <3>1 DEF CleanupsOnce
  <2>4. CASE stack' # stack /\ Starts(e, g)
    <3>1. d < Depth
      BY <1>4, <2>4 DEF Stays
    <3>2. q[f.s].name # NoName
      BY <1>1, <1>4, <2>1, <3>1 DEF Settled, Closing
    <3>3. Begun(g.s)
      BY <1>4, <2>4 DEF Starts
    <3>4. Top.pc = "send"
      BY <1>1, <1>4, <2>1, <3>2, <3>3 DEF Begun
    <3>5. Depth = 1
      BY <1>1, <2>1, <3>4 DEF StackKnown, Placed
    <3> QED
      BY <1>2, <2>1, <3>1, <3>5
  <2>5. ~StartsUnder(e, g)
    BY <2>1 DEF StartsUnder
  <2> QED
    BY <1>4, <2>2, <2>3, <2>4, <2>5, CleanupFrom
<1>5. ASSUME NEW d \in Depths', NEW f, f = FrameOf(stack', d), f.pc = "cleanup",
             NEW e \in Depths', NEW g, g = FrameOf(stack', e), g.pc = "cleanup", f.s = g.s
      PROVE  d = e
  <2>1. CASE Stays(d, f)
    BY <1>4, <1>5, <2>1
  <2>2. CASE Stays(e, g)
    BY <1>4, <1>5, <2>2
  <2>3. CASE ~Stays(d, f) /\ ~Stays(e, g)
    <3>1. (Starts(d, f) \/ StartsUnder(d, f)) /\ (Starts(e, g) \/ StartsUnder(e, g))
      BY <1>5, <2>3, CleanupFrom
    <3>2. BindCall.pc = "bind"
      BY DEF BindCall
    <3>3. \A c, h : Starts(c, h) => c = Depth'
      BY DEF Starts
    <3>4. \A c, h : StartsUnder(c, h) => c = 1 /\ Depth' = 2 /\ FrameOf(stack', 2) = BindCall
      BY DEF StartsUnder
    <3> QED
      BY <1>5, <3>1, <3>2, <3>3, <3>4
  <2> QED
    BY <2>1, <2>2, <2>3
<1> QED
  BY <1>3, <1>5 DEF CleanupsOnce, Frame

-----------------------------------------------------------------------------
\* Masters first.

Masters     == {s \in 1 .. count : ip[s] # 0 /\ Is(s, MasterTypes)}
MastersOpen == Masters \ closed

\* waiting_for_masters counts the masters that are not closed, and while it is not 0
\* a master has every open socket.
WaitingInv ==
  /\ waiting = Cardinality(MastersOpen)
  /\ \A s \in Open : waiting = 0 \/ Is(s, MasterTypes)

MasterInv == WaitingInv /\ (Working /\ ~Broadcasts(setup) => CleanupsOnce)

LEMMA MastersFinite ==
  ASSUME EngineInv
  PROVE  IsFiniteSet(MastersOpen) /\ Cardinality(MastersOpen) \in Nat
         /\ (Cardinality(MastersOpen) = 0 <=> MastersOpen = {})
<1>1. MastersOpen \subseteq 1 .. count /\ count \in Nat
  BY Basics DEF MastersOpen, Masters
<1>2. IsFiniteSet(1 .. count)
  BY <1>1, FS_Interval
<1>3. IsFiniteSet(MastersOpen)
  BY <1>1, <1>2, FS_Subset
<1> QED
  BY <1>3, FS_CardinalityType, FS_EmptySet

\* No step of the work finds a master.
LEMMA MastersKept ==
  ASSUME Orderly, EngineInv, Working, [NextScheduler]_all, ~EndWork
  PROVE  /\ Masters' = Masters
         /\ \A s \in 1 .. count : Is(s, MasterTypes)' <=> Is(s, MasterTypes)
<1>1. SafeFrees /\ WorkStep /\ count \in Nat
  BY OrderlySetup, WorkKinds, Basics
<1>2. \A s \in 1 .. count : ip'[s] = ip[s] /\ type'[s] = type[s]
  BY <1>1, WorkEffects
<1>3. \A s \in 1 .. count : Is(s, MasterTypes)' <=> Is(s, MasterTypes)
  BY <1>2 DEF Is
<1>4. CASE count' = count
  <2>1. \A s \in 1 .. count : Is(s, MasterTypes)' <=> Is(s, MasterTypes)
    BY <1>3
  <2> QED
    BY <1>2, <1>4, <2>1 DEF Masters
<1>5. ASSUME NEW d \in Discovered, FindsServer(d)
      PROVE  Masters' = Masters
  <2>1. /\ count' = count + 1 /\ count + 1 \in Ids
        /\ type' = [type EXCEPT ![count + 1] = d[3]]
    BY <1>5, FoundServer
  <2>2. type \in [Ids -> Types]
    BY Basics DEF TypeOK
  <2>3. d[3] \notin MasterTypes
    BY <1>1, Provisos DEF GamesReported
  <2>4. type'[count + 1] \notin MasterTypes
    BY <2>1, <2>2, <2>3
  <2>5. 1 .. count' = 1 .. count \cup {count + 1}
    BY <1>1, <2>1
  <2> QED
    BY <1>1, <1>2, <2>1, <2>4, <2>5 DEF Masters, Is
<1> QED
  BY <1>1, <1>3, <1>4, <1>5, WorkEffects

LEMMA AwaitedKept ==
  ASSUME Orderly, EngineInv, Working, [NextScheduler]_all, ~EndWork, MasterInv
  PROVE  WaitingInv'
<1>1. /\ SafeFrees /\ Plain /\ CountStep /\ Masters' = Masters
      /\ \A s \in 1 .. count : Is(s, MasterTypes)' <=> Is(s, MasterTypes)
      /\ live \subseteq 1 .. count /\ Open \subseteq live
      /\ WaitingInv /\ (~Broadcasts(setup) => CleanupsOnce)
  BY OrderlySetup, CountSteps, MastersKept, Basics DEF Open, MasterInv
<1>2. /\ IsFiniteSet(MastersOpen) /\ Cardinality(MastersOpen) \in Nat
      /\ (Cardinality(MastersOpen) = 0 <=> MastersOpen = {})
  BY MastersFinite
<1>3. CASE closed' = closed /\ waiting' = waiting
  <2>1. MastersOpen' = MastersOpen
    BY <1>1, <1>3 DEF MastersOpen
  <2>2. \A s \in Open' : s \in 1 .. count /\ (waiting = 0 \/ Is(s, MasterTypes))
    <3>1. CASE \E s \in live : Opened(s)
      BY <1>1, <3>1 DEF Opened, WaitingInv
    <3>2. CASE Open' \subseteq Open
      BY <1>1, <3>2 DEF WaitingInv
    <3>3. Open' \subseteq Open \/ \E s \in live : Opened(s)
      BY <1>1 DEF CountStep, Untouched, Counted, Dropped, Ended
    <3> QED
      BY <3>1, <3>2, <3>3
  <2> QED
    BY <1>1, <1>3, <2>1, <2>2 DEF WaitingInv
<1>4. ASSUME NEW s \in live, Ended(s)
      PROVE  WaitingInv'
  <2>1. /\ stack # <<>> /\ Top.pc = "cleanup" /\ s = Top.s /\ closed' = closed \cup {s}
        /\ waiting' = MastersLeft(s) /\ Open' = Open \ {s}
    BY <1>4 DEF Ended
  <2>2. Depth \in Depths /\ Frame(Depth) = Top /\ FrameKnown(Top)
    BY <1>1, <2>1, GoodTop DEF GoodFrame
  <2>3. ip[s] # 0 /\ s \in 1 .. count
    BY <1>1, <2>1, <2>2 DEF FrameKnown, Closing
  <2>4. MastersOpen' = MastersOpen \ {s}
    BY <1>1, <2>1 DEF MastersOpen
  <2>5. CASE ~Is(s, MasterTypes)
    <3>1. s \notin MastersOpen /\ waiting' = waiting
      BY <2>1, <2>5 DEF MastersOpen, Masters, MastersLeft
    <3> QED
      BY <1>1, <2>1, <2>4, <3>1 DEF WaitingInv
  <2>6. CASE Is(s, MasterTypes)
    <3>1. HasMasters(setup)
      BY <2>3, <2>6 DEF EngineInv, Origins, Origin
    <3>2. ~Broadcasts(setup)
      BY <1>1, <3>1 DEF Plain, BroadcastsOneReply, HasMasters
    <3>3. s \notin closed
      BY <1>1, <2>1, <2>2, <3>2 DEF CleanupsOnce
    <3>4. s \in MastersOpen
      BY <2>3, <2>6, <3>3 DEF MastersOpen, Masters
    <3>5. waiting' = Cardinality(MastersOpen')
      <4>1. Cardinality(MastersOpen \ {s}) = Cardinality(MastersOpen) - 1
        BY <1>2, <3>4, FS_RemoveElement
      <4> QED
        BY <1>1, <2>1, <2>4, <2>6, <4>1 DEF WaitingInv, MastersLeft
    <3>6. waiting # 0
      BY <1>1, <1>2, <3>4 DEF WaitingInv
    <3>7. \A t \in Open' : Is(t, MasterTypes)'
      BY <1>1, <2>1, <3>6 DEF WaitingInv
    <3> QED
      BY <3>5, <3>7 DEF WaitingInv
  <2> QED
    BY <2>5, <2>6
<1> QED
  BY <1>1, <1>3, <1>4 DEF CountStep, Untouched, Counted, Opened, Dropped, counters

\* The masters of the command line are counted as they are added.
LEMMA WaitingLoaded ==
  ASSUME Orderly, EngineInv, LoadServers, WaitingInv
  PROVE  WaitingInv'
<1> DEFINE new == live' \ live
<1>1. /\ waiting' = waiting + Cardinality({s \in new : ip'[s] # 0 /\ type'[s] \in MasterTypes})
      /\ closed' = closed
  BY DEF LoadServers, history
<1>2. phase = "args" /\ closed = {}
  <2>1. phase = "args"
    BY LoadCmdLine
  <2> QED
    BY <2>1 DEF EngineInv, NotStarted
<1>3. /\ IsFiniteSet(MastersOpen) /\ Cardinality(MastersOpen) \in Nat /\ waiting = Cardinality(MastersOpen)
      /\ MastersOpen = Masters /\ MastersOpen' = Masters'
  BY <1>1, <1>2, MastersFinite DEF WaitingInv, MastersOpen
<1>4. Open' = {}
  <2>1. Open = {} /\ Open' \subseteq Open
    BY <1>2, NothingOpen, OrderlySetup, OutsideOpen DEF NextScheduler, Program, Working
  <2> QED
    BY <2>1
<1>5. /\ ip \in [Ids -> Ips] /\ type \in [Ids -> Types] /\ count \in Nat /\ live \subseteq 1 .. count
  BY Basics DEF TypeOK
<1>6. CASE SameServers
  <2>1. Masters' = Masters
    BY <1>6 DEF SameServers, Masters, Is
  <2>2. {s \in new : ip'[s] # 0 /\ type'[s] \in MasterTypes} = {}
    BY <1>6 DEF SameServers
  <2>3. waiting' = waiting
    BY <1>1, <1>3, <2>2, FS_EmptySet
  <2> QED
    BY <1>3, <1>4, <2>1, <2>3 DEF WaitingInv
<1>7. ASSUME NEW a, NEW t, AddsServer(a, t)
      PROVE  WaitingInv'
  <2>1. /\ count' = count + 1 /\ count + 1 \in Ids /\ live' = live \cup {count + 1}
        /\ ip' = [ip EXCEPT ![count + 1] = a] /\ type' = [type EXCEPT ![count + 1] = t]
    BY <1>7 DEF AddsServer
  <2>2. new = {count + 1} /\ count + 1 \notin 1 .. count
    BY <1>5, <2>1
  <2>3. /\ ip'[count + 1] = a /\ type'[count + 1] = t
        /\ \A s \in 1 .. count : ip'[s] = ip[s] /\ type'[s] = type[s]
    BY <1>5, <2>1
  <2>4. 1 .. count' = 1 .. count \cup {count + 1}
    BY <1>5, <2>1
  <2>5. CASE a # 0 /\ t \in MasterTypes
    <3>1. {s \in new : ip'[s] # 0 /\ type'[s] \in MasterTypes} = {count + 1}
      BY <2>2, <2>3, <2>5
    <3>2. Masters' = Masters \cup {count + 1} /\ count + 1 \notin Masters
      BY <2>2, <2>3, <2>4, <2>5 DEF Masters, Is
    <3>3. waiting' = waiting + 1
      BY <1>1, <3>1, FS_Singleton
    <3>4. Cardinality(Masters \cup {count + 1}) = Cardinality(Masters) + 1
      BY <1>3, <3>2, FS_AddElement
    <3> QED
      BY <1>3, <1>4, <3>2, <3>3, <3>4 DEF WaitingInv
  <2>6. CASE ~(a # 0 /\ t \in MasterTypes)
    <3>1. {s \in new : ip'[s] # 0 /\ type'[s] \in MasterTypes} = {}
      BY <2>2, <2>3, <2>6
    <3>2. Masters' = Masters
      BY <2>2, <2>3, <2>4, <2>6 DEF Masters, Is
    <3>3. waiting' = waiting
      BY <1>1, <1>3, <3>1, FS_EmptySet
    <3> QED
      BY <1>3, <1>4, <3>2, <3>3 DEF WaitingInv
  <2> QED
    BY <2>5, <2>6
<1> QED
  BY <1>6, <1>7, LoadCmdLine

LEMMA MasterNext ==
  ASSUME Orderly, EngineInv, MasterInv, [NextScheduler]_all
  PROVE  MasterInv'
<1>1. CASE Working /\ ~EndWork
  <2>1. setup' = setup
    BY <1>1, OrderlySetup, WorkKinds DEF Keeps
  <2>2. WaitingInv'
    BY <1>1, AwaitedKept
  <2>3. ~Broadcasts(setup) => CleanupsOnce'
    BY <1>1, CleanupsOnceKept DEF MasterInv
  <2> QED
    BY <2>1, <2>2, <2>3 DEF MasterInv
<1>2. CASE ~Working \/ EndWork
  <2>1. SafeFrees /\ Open' \subseteq Open /\ (Working' => stack' = <<>>)
    BY <1>2, OrderlySetup, OutsideOpen
  <2>2. Working' => CleanupsOnce'
    BY <2>1 DEF CleanupsOnce, Depths, Depth
  <2>3. CASE LoadServers
    BY <2>2, <2>3, WaitingLoaded DEF MasterInv
  <2>4. CASE ~LoadServers
    <3>1. UNCHANGED <<count, ip, type, waiting, closed>>
      <4>1. CASE EndWork
        BY <4>1 DEF EndWork, StartFinish, state, counters, history, fields
      <4>2. CASE FinishOutput
        BY <4>2, FinishEffect DEF FinishOutput, state, counters, history
      <4>3. CASE UNCHANGED all
        BY <4>3 DEF all, vars, state, counters, history, fields
      <4> QED
        BY <1>2, <2>4, <4>1, <4>2, <4>3, OutsideSteps
    <3>2. MastersOpen' = MastersOpen
      BY <3>1 DEF MastersOpen, Masters, Is
    <3>3. WaitingInv'
      BY <2>1, <3>1, <3>2 DEF MasterInv, WaitingInv, Is
    <3> QED
      BY <2>2, <3>3 DEF MasterInv
  <2> QED
    BY <2>3, <2>4
<1> QED
  BY <1>1, <1>2

LEMMA InitMaster ==
  ASSUME Orderly, InitScheduler
  PROVE  MasterInv
<1>1. EngineInv /\ phase = "args" /\ count = 0 /\ waiting = 0
  BY InitEngine DEF Orderly, InitScheduler, InitList
<1>2. Open = {} /\ MastersOpen = {} /\ ~Working
  BY <1>1, NothingOpen DEF Working, MastersOpen, Masters
<1> QED
  BY <1>1, <1>2, FS_EmptySet DEF MasterInv, WaitingInv

\* A game server is asked only after the last master was closed, and cleaned up
\* once: waiting_for_masters is exact, however the cleanups nest.
THEOREM MastersBeforeGames ==
  ASSUME Orderly
  PROVE  SchedulerSpec => []MastersFirst
<1>1. InitScheduler => MasterInv
  BY InitMaster
<1>2. (EngineInv /\ MasterInv) /\ [NextScheduler]_all => MasterInv'
  BY MasterNext
<1>3. ASSUME EngineInv, MasterInv
      PROVE  MastersFirst
  <2>1. (\E s \in Open : ~Is(s, MasterTypes)) => MastersOpen = {}
    BY <1>3, MastersFinite DEF MasterInv, WaitingInv
  <2> QED
    BY <2>1 DEF MastersFirst, MastersOpen, Masters
<1>4. EngineInv /\ MasterInv => MastersFirst
  BY <1>3
<1>5. SchedulerSpec => []EngineInv
  BY EngineInvariant DEF Orderly
<1> QED
  BY <1>1, <1>2, <1>4, <1>5, PTL DEF SchedulerSpec

=============================================================================

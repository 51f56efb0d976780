---------------------------- MODULE EngineSafety ----------------------------
(***************************************************************************)
(* The pointers of the engine stay live: what each step of do_work and of  *)
(* what it calls does to the call stack, that the invariants of            *)
(* EngineProofs.tla are kept by it, and the theorems that follow.          *)
(***************************************************************************)
EXTENDS EngineProofs

-----------------------------------------------------------------------------
\* What a step does to the call stack: the frame on top returns, goes on as
\* another, or calls, and nothing beneath it changes.

GoodFrame(f) ==
  /\ FrameKnown(f)
  /\ Sort # "none" => FrameSorted(f)
  /\ Sort = "none" => FrameFreeing(f)

Once == Plain /\ (~Broadcasts(setup) \/ Sort = "none")

\* No packet of s is left to read or to handle.
Unread(s) ==
  /\ \A i \in DOMAIN buffer : buffer[i] # s
  /\ \A f \in polled : connmap[f] # s

\* A cleanup of s begins: of a server that was not closed, and, but for the cleanup
\* send_packets calls, had no name.
Begun(s) ==
  /\ s \in live' /\ ip'[s] # 0
  /\ Plain /\ ~Broadcasts(setup) => s \notin closed
  /\ Plain /\ stack # <<>> => Top.pc = "send" \/ q[s].name = NoName
  /\ Plain => q'[s].state # "connecting"
  /\ Once => Unread(s)'

\* A server without an answer is not cleaned up while it may be asked again.
Ripe(s) ==
  Plain /\ ~Fault("send") =>
    Is(s, TcpTypes) \/ q'[s].name # NoName \/ q'[s].retry1 < 1 \/ q[s].players > 0

\* f takes the place of the frame on top.
Follows(f) ==
  /\ f \in Frames /\ GoodFrame(f)'
  /\ f.pc \in {"send", "masters"} => Top.pc = f.pc
  /\ InBind(f) => InBind(Top) \/ HasMasters(setup)
  /\ Closing(f) => f.pc = "display" /\ Closing(Top) /\ f.s = Top.s /\ q'[f.s].state = q[f.s].state

CallsCleanup(s, f) ==
  /\ \E force \in BOOLEAN : Call(Cleanup(s, force), f)
  /\ Follows(f) /\ ~Closing(f) /\ Begun(s) /\ Ripe(s) /\ s \in Ids
  /\ f.pc = "bound" => Fault("send")
  /\ Sort = "none" => s \notin Held(f) /\ \A d \in 1 .. Depth - 1 : s \notin Held(Frame(d))

CallsMasters(f) ==
  /\ Call([pc |-> "masters", s |-> servers], f)
  /\ Follows(f) /\ f.pc = "display" /\ q'[f.s].name # NoName /\ HasMasters(setup) /\ live' = live
  /\ waiting' = 0

Begins(s) ==
  /\ stack = <<>> /\ main' \in {"recv", "handle"} /\ Begun(s) /\ s \in Ids
  /\ \/ \E force \in BOOLEAN : stack' = <<Cleanup(s, force)>>
     \/ stack' = <<BindCall, Cleanup(s, TRUE)>> /\ HasMasters(setup) /\ q'[s].name # NoName

StackStep ==
  \/ /\ main' = main
     /\ \/ stack' = stack /\ (stack # <<>> /\ Closing(Top) => q' = q)
        \/ stack # <<>> /\ Return
        \/ stack # <<>> /\ \E f : Follows(f) /\ Go(f)
        \/ stack # <<>> /\ \E s, f : CallsCleanup(s, f)
        \/ stack # <<>> /\ \E f : CallsMasters(f)
        \/ \E s : Begins(s)
  \/ /\ stack = <<>>
     /\ \/ stack' = <<>>
        \/ stack' = <<BindCall>> /\ main' \in {"first", "loop"}
        \/ stack' = <<SendCall>> /\ main' \in {"loop", "rebind"}

LEMMA SameGood ==
  ASSUME UNCHANGED <<live, ip, closed, setup, options>>
  PROVE  \A f : GoodFrame(f) => GoodFrame(f)'
  BY DEF GoodFrame, FrameKnown, FrameSorted, FrameFreeing, Sort

LEMMA GoodTop ==
  ASSUME SafeFrees, EngineInv, Working, stack # <<>>
  PROVE  /\ Top \in Frames /\ GoodFrame(Top) /\ Placed(Depth) /\ Depth \in Depths /\ Frame(Depth) = Top
         /\ Depth \in Nat \ {0}
<1>1. Top \in Frames /\ Depth \in Nat \ {0} /\ Frame(Depth) = Top
  BY Basics, TopFrame
<1>2. Depth \in Depths
  BY <1>1 DEF Depths
<1>3. FrameKnown(Top) /\ Placed(Depth)
  BY <1>1, <1>2 DEF EngineInv, StackKnown
<1>4. Sort # "none" => FrameSorted(Top)
  BY <1>1, <1>2 DEF EngineInv, PointersSorted
<1>5. Sort = "none" => FrameFreeing(Top)
  BY <1>1, <1>2 DEF EngineInv, PointersFreeing
<1> QED
  BY <1>1, <1>2, <1>3, <1>4, <1>5 DEF GoodFrame

LEMMA WalkGood ==
  ASSUME NEW f \in WalkFrames, f.s \in live \cup {0},
         f.pc \in {"bound", "joined"} => f.s \in live,
         Sort # "none" => /\ f.first \in live \cup {0} /\ f.last \in live \cup {0}
                          /\ f.pc = "joined" => f.nxt \in live \cup {0},
         Sort = "none" => /\ f.pc # "joined" /\ f.inprogress = 0
                          /\ f.pc = "pass" => f.s = f.last
  PROVE  GoodFrame(f) /\ InBind(f) /\ ~Closing(f) /\ f.pc # "send" /\ f \in Frames
<1>1. f.pc \in WalkPcs /\ f \in Frames
  BY DEF WalkFrames, Frames
<1> QED
  BY <1>1 DEF GoodFrame, FrameKnown, FrameSorted, FrameFreeing, Held, InBind, Closing, WalkPcs

LEMMA WalkFollows ==
  ASSUME UNCHANGED <<live, ip, closed, setup, options>>, InBind(Top), NEW f \in WalkFrames, GoodFrame(f)
  PROVE  Follows(f) /\ ~Closing(f)
<1>1. f.pc \in WalkPcs /\ f \in Frames
  BY DEF WalkFrames, Frames
<1> QED
  BY <1>1, SameGood DEF Follows, Closing, WalkPcs

\* What is known of a walking frame.
LEMMA WalkTop ==
  ASSUME SafeFrees, EngineInv, Working, stack # <<>>, Top.pc \in WalkPcs
  PROVE  /\ Top \in WalkFrames /\ GoodFrame(Top) /\ InBind(Top)
         /\ Top.pc # "result" => Top.s \in live \cup {0}
         /\ Top.pc \in {"bound", "joined"} => Top.s \in live
         /\ Sort # "none" => /\ Top.first \in live \cup {0} /\ Top.last \in live \cup {0}
                             /\ Top.pc = "joined" => Top.nxt \in live \cup {0}
         /\ Sort = "none" => /\ Top.pc # "joined" /\ Top.inprogress = 0
                             /\ Top.pc = "pass" => Top.s = Top.last
         /\ \A s \in live : next[s] \in live \cup {0} /\ next[s] # s
<1>1. Top \in WalkFrames /\ GoodFrame(Top)
  BY GoodTop, FrameKinds
<1>2. \A s \in live : next[s] \in live \cup {0} /\ next[s] # s
  <2>1. \A s \in live : s \in Nat /\ s # 0
    BY Basics DEF Ids
  <2> QED
    BY <2>1, Basics DEF ListWellFormed, After
<1> QED
  BY <1>1, <1>2 DEF GoodFrame, FrameKnown, FrameSorted, FrameFreeing, Held, InBind, WalkPcs

\* A turn of a walk that only moves on.
LEMMA Goes ==
  ASSUME SafeFrees, EngineInv, Working, stack # <<>>, InBind(Top), main' = main,
         UNCHANGED <<live, ip, closed, setup, options>>,
         NEW f \in WalkFrames, Go(f), f.s \in live \cup {0},
         f.pc \in {"bound", "joined"} => f.s \in live,
         Sort # "none" => /\ f.first \in live \cup {0} /\ f.last \in live \cup {0}
                          /\ f.pc = "joined" => f.nxt \in live \cup {0},
         Sort = "none" => /\ f.pc # "joined" /\ f.inprogress = 0
                          /\ f.pc = "pass" => f.s = f.last
  PROVE  StackStep
<1>1. GoodFrame(f)
  BY WalkGood
<1>2. Follows(f)
  BY <1>1, WalkFollows
<1> QED
  BY <1>2 DEF StackStep

LEMMA BindSocketsStack ==
  ASSUME SafeFrees, EngineInv, BindSockets
  PROVE  StackStep
<1> DEFINE resume == IF lastBind = 0 THEN servers ELSE lastBind
           from == IF Throttled THEN 0 ELSE IF waiting = 0 THEN resume ELSE servers
<1>1. /\ Working /\ stack # <<>> /\ Top.pc = "bind" /\ main' = main
      /\ Go([pc |-> "walk", s |-> from, nxt |-> 0, first |-> from, last |-> 0,
             inprogress |-> 0, retries |-> 0])
      /\ UNCHANGED <<live, ip, closed, setup, options>>
  BY DEF BindSockets, In, Working, MoveLastBind, state, history, fields
<1>2. from \in live \cup {0}
  BY <1>1, LivePointers
<1> HIDE DEF from
<1>3. PICK f : f = [pc |-> "walk", s |-> from, nxt |-> 0, first |-> from, last |-> 0,
                    inprogress |-> 0, retries |-> 0]
  OBVIOUS
<1>4. f \in WalkFrames /\ f.s = from /\ f.first = from /\ f.last = 0 /\ f.inprogress = 0 /\ f.pc = "walk"
  BY <1>2, <1>3, Basics DEF WalkFrames, WalkPcs
<1>5. Go(f) /\ InBind(Top)
  BY <1>1, <1>3 DEF Go, InBind
<1> QED
  BY <1>1, <1>2, <1>4, <1>5, Goes

LEMMA WalkTurnsStack ==
  ASSUME SafeFrees, EngineInv, SkipServer \/ Bound \/ EndWalk \/ EndPass \/ PassServer \/ Joined
  PROVE  StackStep
<1>1. /\ Working /\ stack # <<>> /\ Top.pc \in WalkPcs \ {"result"} /\ main' = main
      /\ UNCHANGED <<live, ip, closed, setup, options>>
  BY DEF SkipServer, Bound, EndWalk, EndPass, PassServer, Joined, Walking, Passing, In, Working,
         MoveLastBind, state, history, vars, fields, WalkPcs
<1>2. /\ Top \in WalkFrames /\ InBind(Top) /\ Top.s \in live \cup {0}
      /\ Top.pc \in {"bound", "joined"} => Top.s \in live
      /\ Sort # "none" => /\ Top.first \in live \cup {0} /\ Top.last \in live \cup {0}
                          /\ Top.pc = "joined" => Top.nxt \in live \cup {0}
      /\ Sort = "none" => /\ Top.pc # "joined" /\ Top.inprogress = 0
                          /\ Top.pc = "pass" => Top.s = Top.last
      /\ \A s \in live : next[s] \in live \cup {0}
  BY <1>1, WalkTop
<1>3. live \cup {0} \subseteq Ptrs /\ "pass" \in WalkPcs /\ "result" \in WalkPcs
  BY Basics DEF WalkPcs
<1>4. PICK x : x = Top
  OBVIOUS
<1>5. CASE SkipServer \/ PassServer
  <2>1. PICK f : f = [x EXCEPT !.s = next[x.s]]
    OBVIOUS
  <2>2. Go(f) /\ x.s \in live
    BY <1>4, <1>5, <2>1 DEF SkipServer, PassServer, Passing, WalkOn, Go
  <2>3. Sort = "none" => x.pc # "pass"
    BY <1>2, <1>4, <1>5 DEF SkipServer, PassServer, Walking, Passing, In
  <2>4. f \in WalkFrames /\ f.s = next[x.s] /\ f.pc = x.pc /\ f.first = x.first /\ f.last = x.last
                  /\ f.nxt = x.nxt /\ f.inprogress = x.inprogress /\ next[x.s] \in live \cup {0}
    BY <1>2, <1>3, <1>4, <2>1, <2>2 DEF WalkFrames
  <2>5. f.pc \notin {"bound", "joined"}
    BY <1>4, <1>5, <2>4 DEF SkipServer, PassServer, Walking, Passing, In
  <2> QED
    BY <1>1, <1>2, <1>4, <2>2, <2>3, <2>4, <2>5, Goes
<1>6. CASE Bound \/ EndWalk
  <2>1. PICK f : Go(f) /\ (f = [x EXCEPT !.pc = "pass", !.last = x.s, !.s = x.s] \/ f = [x EXCEPT !.pc = "pass", !.last = x.s])
    <3>1. CASE Bound
      <4>1. PICK f : f = [x EXCEPT !.pc = "pass", !.last = x.s, !.s = x.s]
        OBVIOUS
      <4> QED
        BY <1>4, <3>1, <4>1 DEF Bound, Go
    <3>2. CASE EndWalk
      <4>1. PICK f : f = [x EXCEPT !.pc = "pass", !.last = x.s]
        OBVIOUS
      <4> QED
        BY <1>4, <3>2, <4>1 DEF EndWalk, Go
    <3> QED
      BY <1>6, <3>1, <3>2
  <2>2. f \in WalkFrames /\ f.s = x.s /\ f.pc = "pass" /\ f.first = x.first /\ f.last = x.s
                  /\ f.nxt = x.nxt /\ f.inprogress = x.inprogress
    BY <1>2, <1>3, <1>4, <2>1 DEF WalkFrames
  <2> QED
    BY <1>1, <1>2, <1>4, <2>1, <2>2, Goes
<1>7. CASE EndPass
  <2>1. PICK f : Go(f) /\ (f = [x EXCEPT !.pc = "result"] \/ (f = [x EXCEPT !.s = x.first, !.inprogress = 0] /\ x.inprogress > 0 /\ x.pc = "pass"))
    <3>1. CASE Top.inprogress > 0
      <4>1. PICK f : f = [x EXCEPT !.s = x.first, !.inprogress = 0]
        OBVIOUS
      <4> QED
        BY <1>4, <1>7, <3>1, <4>1 DEF EndPass, Go, In
    <3>2. CASE ~(Top.inprogress > 0)
      <4>1. PICK f : f = [x EXCEPT !.pc = "result"]
        OBVIOUS
      <4> QED
        BY <1>4, <1>7, <3>2, <4>1 DEF EndPass, Go
    <3> QED
      BY <3>1, <3>2
  <2>2. CASE f = [x EXCEPT !.pc = "result"]
    <3>1. f \in WalkFrames /\ f.s = x.s /\ f.pc = "result" /\ f.first = x.first /\ f.last = x.last
                  /\ f.nxt = x.nxt /\ f.inprogress = x.inprogress
      BY <1>2, <1>3, <1>4, <2>2 DEF WalkFrames
    <3> QED
      BY <1>1, <1>2, <1>4, <2>1, <3>1, Goes
  <2>3. CASE f = [x EXCEPT !.s = x.first, !.inprogress = 0] /\ x.inprogress > 0 /\ x.pc = "pass"
    <3>1. Sort # "none" /\ x.first \in live \cup {0} /\ x.last \in live \cup {0}
      BY <1>2, <1>4, <2>3
    <3>2. f \in WalkFrames /\ f.s = x.first /\ f.pc = x.pc /\ f.first = x.first /\ f.last = x.last
      BY <1>2, <1>3, <1>4, <2>3, <3>1 DEF WalkFrames
    <3> QED
      BY <1>1, <1>2, <1>4, <2>1, <2>3, <3>1, <3>2, Goes
  <2> QED
    BY <2>1, <2>2, <2>3
<1>8. CASE Joined
  <2>1. PICK f : f = [x EXCEPT !.pc = "pass", !.s = x.nxt]
    OBVIOUS
  <2>2. Go(f) /\ x.pc = "joined"
    BY <1>4, <1>8, <2>1 DEF Joined, Go, In
  <2>3. Sort # "none" /\ x.nxt \in live \cup {0}
    BY <1>2, <1>4, <2>2
  <2>4. f \in WalkFrames /\ f.s = x.nxt /\ f.pc = "pass" /\ f.first = x.first /\ f.last = x.last
    BY <1>2, <1>3, <1>4, <2>1, <2>3 DEF WalkFrames
  <2> QED
    BY <1>1, <1>2, <1>4, <2>2, <2>3, <2>4, Goes
<1> QED
  BY <1>5, <1>6, <1>7, <1>8

\* No packet waits from a server without a connection.
LEMMA UnreadIfClosed ==
  ASSUME EngineInv, Working, Once, NEW s, q[s].fd = 0 \/ q[s].state # "connected", stack # <<>>
  PROVE  Unread(s)
<1>1. BufferedOnce /\ Sockets /\ polled \subseteq Ids /\ 0 \notin Ids
  BY Basics DEF Once, EngineInv, EngineTypes
<1>2. ASSUME NEW i \in DOMAIN buffer
      PROVE  buffer[i] # s
  BY <1>1 DEF BufferedOnce
<1>3. ASSUME NEW f \in polled
      PROVE  connmap[f] # s
  <2>1. connmap[f] # 0 /\ f \in Ids
    BY <1>1 DEF BufferedOnce
  <2>2. q[connmap[f]].fd = f /\ q[connmap[f]].state = "connected"
    BY <1>1, <2>1 DEF Sockets
  <2> QED
    BY <1>1, <2>1, <2>2
<1> QED
  BY <1>2, <1>3 DEF Unread

\* A server that fails to connect, or cannot be sent to, is closed with a call.
LEMMA CallsFromWalk ==
  ASSUME SafeFrees, EngineInv, Working, stack # <<>>, main' = main, Top.pc \in {"walk", "pass"},
         UNCHANGED <<live, ip, closed, setup, options, buffer, polled>>, NEW s \in live, ip[s] # 0,
         NEW f \in WalkFrames, Call(Cleanup(s, TRUE), f), f.s \in live \cup {0},
         f.pc \in {"bound", "joined"} => f.s \in live,
         f.pc = "bound" => Fault("send"),
         Sort # "none" => /\ f.first \in live \cup {0} /\ f.last \in live \cup {0}
                          /\ f.pc = "joined" => f.nxt \in live \cup {0},
         Sort = "none" => /\ f.pc # "joined" /\ f.inprogress = 0
                          /\ f.pc = "pass" => f.s = f.last
                          /\ f.s # s /\ Fault("connect"),
         Plain => q[s].name = NoName,
         ~Fault("send") => q'[s].name # NoName,
         Plain => q'[s].state # "connecting",
         Once => Unread(s)'
  PROVE  StackStep
<1>1. GoodFrame(f)
  BY WalkGood
<1>2. Follows(f) /\ ~Closing(f)
  BY <1>1, WalkFollows DEF InBind, WalkPcs
<1>3. Begun(s) /\ s \in Ids
  <2>1. Plain => s \notin closed
    BY DEF EngineInv, Sockets
  <2> QED
    BY <2>1, Basics DEF Begun
<1>4. Sort = "none" => s \notin Held(f) /\ \A d \in 1 .. Depth - 1 : s \notin Held(Frame(d))
  <2>1. SUFFICES ASSUME Sort = "none"
                 PROVE  s \notin Held(f) /\ 1 .. Depth - 1 = {}
    OBVIOUS
  <2>2. f.pc \in WalkPcs
    BY DEF WalkFrames
  <2>3. s \notin Held(f)
    BY <2>1, <2>2 DEF Held, WalkPcs
  <2>4. Depth = 1
    BY <2>1, GoodTop, Provisos DEF Placed, InBind, WalkPcs
  <2> QED
    BY <2>3, <2>4
<1>5. CallsCleanup(s, f)
  BY <1>2, <1>3, <1>4 DEF CallsCleanup, Ripe
<1> QED
  BY <1>5 DEF StackStep

LEMMA BindServerStack ==
  ASSUME SafeFrees, EngineInv, BindServer
  PROVE  StackStep
<1>0. PICK s : s = Top.s
  OBVIOUS
<1>1. /\ Working /\ stack # <<>> /\ Top.pc = "walk" /\ main' = main
      /\ UNCHANGED <<live, ip, closed, setup, options, buffer, polled>>
      /\ s \in live /\ q[s].name = NoName /\ q[s].fd = 0
  BY <1>0 DEF BindServer, Walking, In, Wanted, Working, vars, fields, input, BindDone, BindPending, BindNoDescriptor,
         BindFailed, history, state
<1>2. /\ Top \in WalkFrames /\ InBind(Top)
      /\ Sort # "none" => Top.first \in live \cup {0} /\ Top.last \in live \cup {0}
      /\ Sort = "none" => Top.inprogress = 0
      /\ next[s] \in live \cup {0} /\ next[s] # s
  BY <1>1, WalkTop DEF WalkPcs
<1>3. live \cup {0} \subseteq Ptrs /\ {"bound", "result"} \subseteq WalkPcs
  BY Basics DEF WalkPcs
<1>4. ip[s] # 0 /\ s \in Ids /\ q[s] \in QueryStates /\ q \in [Ids -> QueryStates]
  BY <1>1, Basics DEF EngineInv, Origins, Origin, EngineTypes
<1>5. PICK rc \in BindResults(s) :
       \/ rc = 0 /\ BindDone(s)
       \/ rc = -3 /\ BindPending(s)
       \/ rc = -2 /\ BindNoDescriptor
       \/ rc = -1 /\ BindFailed(s)
  BY <1>0 DEF BindServer
<1>6. PICK x : x = Top
  OBVIOUS
<1>7. x \in WalkFrames /\ x.s = s /\ x.pc = "walk"
  BY <1>0, <1>1, <1>2, <1>6
<1>8. CASE BindDone(s)
  <2>1. PICK sent \in Sends :
          /\ StatusQuery(s, [q[s] EXCEPT !.fd = FreeFd, !.state = "connected"], sent)
          /\ connmap' = [connmap EXCEPT ![FreeFd] = s]
          /\ LET after == [Top EXCEPT !.pc = "bound"]
             IN  IF sent THEN Go(after) ELSE Call(Cleanup(s, TRUE), after)
    BY <1>8 DEF BindDone
  <2>2. PICK f : f = [x EXCEPT !.pc = "bound"]
    OBVIOUS
  <2>3. f \in WalkFrames /\ f.s = x.s /\ f.pc = "bound" /\ f.first = x.first /\ f.last = x.last
          /\ f.inprogress = x.inprogress
    BY <1>3, <1>7, <2>2 DEF WalkFrames
  <2>4. CASE sent
    <3>1. Go(f)
      BY <1>6, <2>1, <2>2, <2>4 DEF Go
    <3> QED
      BY <1>1, <1>2, <1>6, <1>7, <2>3, <3>1, Goes
  <2>5. CASE ~sent
    <3>1. Call(Cleanup(s, TRUE), f)
      BY <1>6, <2>1, <2>2, <2>5 DEF Call
    <3>2. Fault("send") /\ Sort # "none"
      <4>1. Fault("send")
        BY <2>1, <2>5 DEF Sends
      <4> QED
        BY <4>1, Provisos
    <3>3. q'[s].state = "connected"
      <4>1. q' = [q EXCEPT ![s] = [q[s] EXCEPT !.fd = FreeFd, !.state = "connected"]]
        BY <2>1, <2>5 DEF StatusQuery
      <4>2. q'[s] = [q[s] EXCEPT !.fd = FreeFd, !.state = "connected"]
        BY <1>4, <4>1
      <4> QED
        BY <1>4, <4>2 DEF QueryStates
    <3>4. Once => Unread(s)'
      <4>1. SUFFICES ASSUME Once
                     PROVE  Unread(s)'
        OBVIOUS
      <4>2. Unread(s) /\ BufferedOnce /\ Sockets
        BY <1>1, <4>1, UnreadIfClosed DEF Once, EngineInv
      <4>3. FreeFd \notin polled
        <5>1. ASSUME NEW g \in polled
              PROVE  g # FreeFd
          <6>1. connmap[g] # 0 /\ g \in Ids
            BY <4>2, Basics DEF BufferedOnce, EngineTypes
          <6>2. connmap[g] \in live /\ q[connmap[g]].fd = g
            BY <4>2, <6>1 DEF Sockets
          <6> QED
            BY <1>1, <6>1, <6>2, Basics, FreeFdFound
        <5> QED
          BY <5>1
      <4>4. \A g \in polled : connmap'[g] = connmap[g]
        BY <2>1, <4>3, Basics DEF EngineTypes
      <4> QED
        BY <1>1, <4>2, <4>4 DEF Unread
    <3>5. s \in live /\ Top.pc \in {"walk", "pass"} /\ q[s].name = NoName
      BY <1>1
    <3> QED
      BY <1>1, <1>2, <1>4, <1>6, <1>7, <2>3, <3>1, <3>2, <3>3, <3>4, <3>5, CallsFromWalk
  <2> QED
    BY <2>4, <2>5
<1>9. CASE rc = -3 /\ BindPending(s)
  <2>1. PICK f : f = [[x EXCEPT !.s = next[s]] EXCEPT !.inprogress = @ + 1]
    OBVIOUS
  <2>2. Go(f)
    BY <1>0, <1>6, <1>9, <2>1 DEF BindPending, WalkOn, Go
  <2>3. Sort # "none"
    <3>1. Is(s, TcpTypes)
      BY <1>5, <1>9 DEF BindResults
    <3>2. s \in 1 .. count
      BY <1>1, Basics
    <3> QED
      BY <3>1, <3>2, Provisos DEF EngineInv, Origins, Origin
  <2>4. f \in WalkFrames /\ f.s = next[s] /\ f.pc = "walk" /\ f.first = x.first /\ f.last = x.last
    <3>1. PICK g : g = [x EXCEPT !.s = next[s]]
      OBVIOUS
    <3>2. /\ g \in WalkFrames /\ g.s = next[s] /\ g.pc = x.pc /\ g.first = x.first
          /\ g.last = x.last
      BY <1>2, <1>3, <1>7, <3>1 DEF WalkFrames
    <3>3. PICK n \in Nat : n = g.inprogress + 1
      BY <3>2 DEF WalkFrames
    <3>4. f = [g EXCEPT !.inprogress = n]
      BY <2>1, <3>1, <3>3
    <3> QED
      BY <1>7, <3>2, <3>4 DEF WalkFrames
  <2> QED
    BY <1>1, <1>2, <1>6, <2>2, <2>3, <2>4, Goes
<1>10. CASE BindNoDescriptor
  <2>1. CASE Top.retries = 2
    <3>1. PICK f : f = [x EXCEPT !.pc = "result", !.last = x.s]
      OBVIOUS
    <3>2. Go(f)
      BY <1>6, <1>10, <2>1, <3>1 DEF BindNoDescriptor, Go
    <3>3. f \in WalkFrames /\ f.s = x.s /\ f.pc = "result" /\ f.first = x.first /\ f.last = x.s
            /\ f.inprogress = x.inprogress
      BY <1>1, <1>3, <1>7, <3>1 DEF WalkFrames
    <3> QED
      BY <1>1, <1>2, <1>6, <1>7, <3>2, <3>3, Goes
  <2>2. CASE Top.retries # 2
    <3>1. PICK f : f = [[x EXCEPT !.s = next[s]] EXCEPT !.retries = @ + 1]
      OBVIOUS
    <3>2. Go(f)
      BY <1>0, <1>6, <1>10, <2>2, <3>1 DEF BindNoDescriptor, WalkOn, Go
    <3>3. f \in WalkFrames /\ f.s = next[s] /\ f.pc = "walk" /\ f.first = x.first /\ f.last = x.last
            /\ f.inprogress = x.inprogress
      <4>1. x.retries + 1 \in 0 .. 2
        BY <1>6, <1>7, <2>2 DEF WalkFrames
      <4> QED
        BY <1>2, <1>3, <1>7, <3>1, <4>1 DEF WalkFrames
    <3> QED
      BY <1>1, <1>2, <1>6, <3>2, <3>3, Goes
  <2> QED
    BY <2>1, <2>2
<1>11. CASE rc = -1 /\ BindFailed(s)
  <2>1. PICK f : f = [x EXCEPT !.s = next[s]]
    OBVIOUS
  <2>2. Call(Cleanup(s, TRUE), f)
    BY <1>0, <1>6, <1>11, <2>1 DEF BindFailed, WalkOn, Call
  <2>3. f \in WalkFrames /\ f.s = next[s] /\ f.pc = "walk" /\ f.first = x.first /\ f.last = x.last
          /\ f.inprogress = x.inprogress
    BY <1>2, <1>3, <1>7, <2>1 DEF WalkFrames
  <2>4. Fault("connect")
    BY <1>5, <1>11 DEF BindResults
  <2>5. q' = [q EXCEPT ![s].name = "SYSERROR"] /\ connmap' = connmap
    BY <1>11 DEF BindFailed
  <2>6. (Plain => q'[s].state # "connecting") /\ q'[s].name # NoName
    <3>1. q'[s].state = q[s].state /\ q'[s].name = "SYSERROR"
      <4>1. q'[s] = [q[s] EXCEPT !.name = "SYSERROR"]
        BY <1>4, <2>5
      <4> QED
        BY <1>4, <4>1 DEF QueryStates
    <3> QED
      BY <1>1, <3>1, Basics DEF EngineInv, Sockets, NoName
  <2>7. Once => Unread(s)'
    BY <1>1, <2>5, UnreadIfClosed DEF Unread
  <2>8. s \in live /\ Top.pc \in {"walk", "pass"} /\ q[s].name = NoName
    BY <1>1
  <2> QED
    BY <1>1, <1>2, <1>4, <1>6, <2>2, <2>3, <2>4, <2>6, <2>7, <2>8, CallsFromWalk
<1> QED
  BY <1>5, <1>8, <1>9, <1>10, <1>11

LEMMA ConnectServerStack ==
  ASSUME SafeFrees, EngineInv, ConnectServer
  PROVE  StackStep
<1>0. PICK s : s = Top.s
  OBVIOUS
<1>1. /\ Working /\ stack # <<>> /\ Top.pc = "pass" /\ main' = main /\ s # Top.last
      /\ UNCHANGED <<live, ip, closed, setup, options, buffer, polled>>
      /\ s \in live /\ q[s].state = "connecting"
  BY <1>0 DEF ConnectServer, Passing, In, Working, vars, fields, input, ConnectDone, ConnectWaits, ConnectFails,
         history, state
<1>2. /\ Top \in WalkFrames /\ InBind(Top) /\ Sort # "none"
      /\ Top.first \in live \cup {0} /\ Top.last \in live \cup {0}
      /\ next[s] \in live \cup {0}
  BY <1>0, <1>1, WalkTop DEF WalkPcs
<1>3. live \cup {0} \subseteq Ptrs /\ "joined" \in WalkPcs
  BY Basics DEF WalkPcs
<1>4. ip[s] # 0 /\ s \in Ids /\ q[s] \in QueryStates /\ q \in [Ids -> QueryStates]
  <2>1. ip[s] = 0 => q[s].state = "init"
    BY <1>1, Basics DEF EngineInv, Origins, Origin
  <2> QED
    BY <1>1, <2>1, Basics DEF EngineTypes
<1>5. PICK x : x = Top
  OBVIOUS
<1>6. x \in WalkFrames /\ x.s = s /\ x.pc = "pass"
  BY <1>0, <1>1, <1>2, <1>5
<1>7. Once => Unread(s)
  BY <1>1, UnreadIfClosed
<1>8. CASE ConnectDone(s)
  <2>1. PICK sent \in Sends :
          /\ StatusQuery(s, [q[s] EXCEPT !.state = "connected"], sent)
          /\ connmap' = [connmap EXCEPT ![q[s].fd] = s]
          /\ LET after == [Top EXCEPT !.pc = "joined", !.nxt = next[s]]
             IN  IF sent THEN Go(after) ELSE Call(Cleanup(s, TRUE), after)
    BY <1>8 DEF ConnectDone
  <2>2. PICK f : f = [x EXCEPT !.pc = "joined", !.nxt = next[s]]
    OBVIOUS
  <2>3. f \in WalkFrames /\ f.s = x.s /\ f.pc = "joined" /\ f.first = x.first /\ f.last = x.last
          /\ f.nxt = next[s]
    BY <1>2, <1>3, <1>6, <2>2 DEF WalkFrames
  <2>4. CASE sent
    <3>1. Go(f)
      BY <1>5, <2>1, <2>2, <2>4 DEF Go
    <3> QED
      BY <1>1, <1>2, <1>5, <1>6, <2>3, <3>1, Goes
  <2>5. CASE ~sent
    <3>1. Call(Cleanup(s, TRUE), f) /\ Fault("send")
      BY <1>5, <2>1, <2>2, <2>5 DEF Call, Sends
    <3>3. q'[s].state = "connected"
      <4>1. q' = [q EXCEPT ![s] = [q[s] EXCEPT !.state = "connected"]]
        BY <2>1, <2>5 DEF StatusQuery
      <4>2. q'[s] = [q[s] EXCEPT !.state = "connected"]
        BY <1>4, <4>1
      <4> QED
        BY <1>4, <4>2 DEF QueryStates
    <3>4. Once => Unread(s)'
      <4>1. SUFFICES ASSUME Once
                     PROVE  Unread(s)'
        OBVIOUS
      <4>2. Unread(s) /\ BufferedOnce /\ Sockets
        BY <1>1, <1>7, <4>1 DEF Once, EngineInv
      <4>3. q[s].fd \notin polled
        <5>1. SUFFICES ASSUME q[s].fd \in polled
                       PROVE  FALSE
          OBVIOUS
        <5>2. connmap[q[s].fd] # 0 /\ q[s].fd \in Ids
          BY <4>2, <5>1, Basics DEF BufferedOnce, EngineTypes
        <5>3. connmap[q[s].fd] \in live /\ q[connmap[q[s].fd]].fd = q[s].fd
                /\ q[connmap[q[s].fd]].state = "connected"
          BY <4>2, <5>2 DEF Sockets
        <5>4. connmap[q[s].fd] = s
          BY <1>1, <4>2, <5>2, <5>3, Basics DEF Sockets
        <5> QED
          BY <1>1, <5>3, <5>4
      <4>4. \A g \in polled : connmap'[g] = connmap[g]
        BY <2>1, <4>3, Basics DEF EngineTypes
      <4> QED
        BY <1>1, <4>2, <4>4 DEF Unread
    <3>5. s \in live /\ Top.pc \in {"walk", "pass"} /\ (Plain => q[s].name = NoName)
      BY <1>1, <1>4, Basics DEF EngineInv, Sockets
    <3> QED
      BY <1>1, <1>2, <1>4, <1>5, <1>6, <2>3, <3>1, <3>3, <3>4, <3>5, CallsFromWalk
  <2> QED
    BY <2>4, <2>5
<1>9. CASE ConnectWaits(s)
  <2>1. PICK f : f = [[x EXCEPT !.s = next[s]] EXCEPT !.inprogress = @ + 1]
    OBVIOUS
  <2>2. Go(f)
    BY <1>0, <1>5, <1>9, <2>1 DEF ConnectWaits, WalkOn, Go
  <2>3. f \in WalkFrames /\ f.s = next[s] /\ f.pc = "pass" /\ f.first = x.first /\ f.last = x.last
    <3>1. PICK g : g = [x EXCEPT !.s = next[s]]
      OBVIOUS
    <3>2. /\ g \in WalkFrames /\ g.s = next[s] /\ g.pc = x.pc /\ g.first = x.first
          /\ g.last = x.last
      BY <1>2, <1>3, <1>6, <3>1 DEF WalkFrames
    <3>3. PICK n \in Nat : n = g.inprogress + 1
      BY <3>2 DEF WalkFrames
    <3>4. f = [g EXCEPT !.inprogress = n]
      BY <2>1, <3>1, <3>3
    <3> QED
      BY <1>6, <3>2, <3>4 DEF WalkFrames
  <2> QED
    BY <1>1, <1>2, <1>5, <2>2, <2>3, Goes
<1>10. CASE ConnectFails(s)
  <2>1. PICK f : f = [x EXCEPT !.s = next[s]]
    OBVIOUS
  <2>2. Call(Cleanup(s, TRUE), f)
    BY <1>0, <1>5, <1>10, <2>1 DEF ConnectFails, WalkOn, Call
  <2>3. f \in WalkFrames /\ f.s = next[s] /\ f.pc = "pass" /\ f.first = x.first /\ f.last = x.last
    BY <1>2, <1>3, <1>6, <2>1 DEF WalkFrames
  <2>4. PICK name \in {"TIMEOUT", "SYSERROR"} :
          q' = [q EXCEPT ![s].name = name, ![s].state = "failed", ![s].fd = 0]
    BY <1>10 DEF ConnectFails
  <2>5. q'[s].state = "failed" /\ connmap' = connmap /\ q'[s].name # NoName
    <3>1. q'[s] = [q[s] EXCEPT !.name = name, !.state = "failed", !.fd = 0]
      BY <1>4, <2>4
    <3> QED
      BY <1>4, <1>10, <2>4, <3>1 DEF QueryStates, ConnectFails, NoName
  <2>6. Once => Unread(s)'
    BY <1>1, <1>7, <2>5 DEF Unread
  <2>7. s \in live /\ Top.pc \in {"walk", "pass"} /\ (Plain => q[s].name = NoName)
    BY <1>1, <1>4, Basics DEF EngineInv, Sockets
  <2> QED
    BY <1>1, <1>2, <1>4, <1>5, <2>2, <2>3, <2>5, <2>6, <2>7, CallsFromWalk
<1> QED
  BY <1>0, <1>8, <1>9, <1>10 DEF ConnectServer

LEMMA BindLoopStack ==
  ASSUME SafeFrees, EngineInv, BindLoop
  PROVE  StackStep
<1>1. CASE BindReturns
  BY <1>1 DEF BindReturns, In, StackStep
<1> QED
  BY <1>1, BindSocketsStack, WalkTurnsStack, BindServerStack, ConnectServerStack DEF BindLoop

\* Only a server without name and socket begins to connect.
LEMMA ConnectingKept ==
  ASSUME EngineInv, WorkStep, Plain, NEW s \in 1 .. count, q'[s].state = "connecting"
  PROVE  q[s].state = "connecting" \/ (q[s].name = NoName /\ q[s].fd = 0)
<1>1. q \in [Ids -> QueryStates] /\ s \in Ids
  BY Basics DEF EngineTypes
<1>2. ASSUME NEW t, NEW r, Alters(t, r)
      PROVE  q'[s] = IF t = s THEN r ELSE q[s]
  BY <1>1, <1>2 DEF Alters
<1>3. CASE Quiet
  BY <1>1, <1>2, <1>3 DEF Quiet, SameSocket
<1>4. CASE \E t \in live : Maps(t) \/ Opens(t) \/ Pends(t) \/ Joins(t) \/ Drops(t) \/ Closes(t) \/ Frees(t)
  <2>1. PICK t \in live : Maps(t) \/ Opens(t) \/ Pends(t) \/ Joins(t) \/ Drops(t) \/ Closes(t) \/ Frees(t)
    BY <1>4
  <2>2. CASE Frees(t)
    BY <2>2 DEF Frees
  <2>3. CASE Pends(t)
    BY <1>2, <2>3 DEF Pends
  <2>4. CASE Opens(t) \/ Joins(t) \/ Drops(t) \/ Closes(t)
    BY <1>2, <2>4 DEF Opens, Joins, Drops, Closes
  <2>5. ~Maps(t)
    BY DEF Maps
  <2> QED
    BY <2>1, <2>2, <2>3, <2>4, <2>5
<1>5. CASE \E d \in Discovered : FindsServer(d)
  <2>1. PICK d \in Discovered : FindsServer(d)
    BY <1>5
  <2>2. s # count + 1
    BY Basics
  <2> QED
    BY <1>1, <2>1, <2>2, FoundServer
<1> QED
  BY <1>3, <1>4, <1>5 DEF WorkStep

LEMMA CleanupServerStack ==
  ASSUME SafeFrees, EngineInv, CleanupServer
  PROVE  StackStep
<1>1. Working /\ stack # <<>> /\ main' = main
  BY DEF CleanupServer, CleanupKeeps, CleanupCloses, DisplayClosed, AddReported, NextMaster,
         MastersAdded, In, Working
<1>2. Top \in Frames /\ GoodFrame(Top)
  BY <1>1, GoodTop
<1>3. CASE CleanupKeeps \/ DisplayClosed
  BY <1>1, <1>3 DEF CleanupKeeps, DisplayClosed, StackStep
<1>4. CASE CleanupCloses
  <2>1. PICK s : s = Top.s
    OBVIOUS
  <2>2. PICK f : f = [pc |-> "display", s |-> s]
    OBVIOUS
  <2>3. /\ Top.pc = "cleanup" /\ s \in live /\ closed' = closed \cup {s}
        /\ UNCHANGED <<live, ip, setup, options>>
        /\ q' = [q EXCEPT ![s].name = ClosedName(s), ![s].fd = 0]
        /\ waiting' = IF Is(s, MasterTypes) THEN waiting - 1 ELSE waiting
        /\ IF Is(s, MasterTypes) /\ waiting = 1
           THEN Call([pc |-> "masters", s |-> servers], f)
           ELSE Go(f)
    BY <1>4, <2>1, <2>2 DEF CleanupCloses, In, AddThenDisplay, MastersLeft, vars, fields
  <2>4. ip[s] # 0 /\ s \in Ids /\ s \in 1 .. count
    BY <1>2, <2>1, <2>3, Basics DEF GoodFrame, FrameKnown, Closing
  <2>5. f \in Frames /\ f.pc = "display" /\ f.s = s
    BY <2>2, <2>4, FrameSets
  <2>6. q'[s].state = q[s].state /\ q'[s].name # NoName
    <3>1. q[s] \in QueryStates /\ q \in [Ids -> QueryStates]
      BY <2>4, Basics DEF EngineTypes
    <3>2. q'[s] = [q[s] EXCEPT !.name = ClosedName(s), !.fd = 0]
      BY <2>3, <2>4, <3>1
    <3>3. ClosedName(s) # NoName
      BY DEF ClosedName, NoName
    <3> QED
      BY <3>1, <3>2, <3>3 DEF QueryStates
  <2>7. GoodFrame(f)'
    BY <2>3, <2>4, <2>5 DEF GoodFrame, FrameKnown, FrameSorted, FrameFreeing, Held, Closing, Sort, WalkPcs
  <2>8. Follows(f)
    BY <2>1, <2>3, <2>5, <2>6, <2>7 DEF Follows, Closing, InBind, WalkPcs
  <2>9. CASE Is(s, MasterTypes) /\ waiting = 1
    <3>1. HasMasters(setup)
      BY <2>4, <2>9 DEF EngineInv, Origins, Origin
    <3>2. CallsMasters(f)
      <4>1. waiting' = 0
        BY <2>3, <2>9
      <4> QED
        BY <2>3, <2>5, <2>6, <2>8, <2>9, <3>1, <4>1 DEF CallsMasters
    <3> QED
      BY <1>1, <3>2 DEF StackStep
  <2>10. CASE ~(Is(s, MasterTypes) /\ waiting = 1)
    BY <1>1, <2>3, <2>8, <2>10 DEF StackStep
  <2> QED
    BY <2>9, <2>10
<1>5. CASE AddReported
  <2>1. stack' = stack /\ Top.pc = "masters"
    BY <1>5 DEF AddReported, In
  <2> QED
    BY <1>1, <2>1 DEF StackStep, Closing
<1>6. CASE NextMaster
  <2>1. PICK x : x = Top
    OBVIOUS
  <2>2. PICK f : f = [x EXCEPT !.s = next[x.s]]
    OBVIOUS
  <2>3. Go(f) /\ Top.pc = "masters" /\ Top.s # 0 /\ UNCHANGED <<live, ip, closed, setup, options>>
    BY <1>6, <2>1, <2>2 DEF NextMaster, WalkOn, Go, In, vars, fields, history
  <2>4. x \in MasterFrames /\ x.s \in live
    BY <1>2, <2>1, <2>3, FrameKinds DEF GoodFrame, FrameSorted, FrameFreeing, Held
  <2>5. next[x.s] \in live \cup {0} /\ next[x.s] \in Ptrs
    BY <2>4, Basics DEF ListWellFormed, After
  <2>6. f \in Frames /\ f.pc = "masters" /\ f.s = next[x.s]
    BY <2>2, <2>4, <2>5 DEF MasterFrames, Frames
  <2>7. HasMasters(setup)
    BY <1>2, <2>3 DEF GoodFrame, FrameKnown
  <2>8. GoodFrame(f)'
    BY <2>3, <2>5, <2>6, <2>7 DEF GoodFrame, FrameKnown, FrameSorted, FrameFreeing, Held, Closing, Sort, WalkPcs
  <2>9. Follows(f)
    BY <2>3, <2>6, <2>8 DEF Follows, Closing, InBind, WalkPcs
  <2> QED
    BY <1>1, <2>3, <2>9 DEF StackStep
<1>7. CASE MastersAdded
  <2>1. PICK f : f = BindCall
    OBVIOUS
  <2>2. Go(f) /\ Top.pc = "masters"
    BY <1>7, <2>1 DEF MastersAdded, In
  <2>3. f \in Frames /\ f.pc = "bind"
    BY <2>1, FrameSets DEF BindCall
  <2>4. HasMasters(setup)
    BY <1>2, <2>2 DEF GoodFrame, FrameKnown
  <2>5. GoodFrame(f)'
    BY <2>3 DEF GoodFrame, FrameKnown, FrameSorted, FrameFreeing, Held, Closing, WalkPcs
  <2>6. Follows(f)
    BY <2>3, <2>4, <2>5 DEF Follows, Closing
  <2> QED
    BY <1>1, <2>2, <2>6 DEF StackStep
<1> QED
  BY <1>3, <1>4, <1>5, <1>6, <1>7 DEF CleanupServer

LEMMA SendsRipe ==
  ASSUME EngineInv, SendPackets, Sending, NEW s, s = SendServer, s \in live,
         \E force \in BOOLEAN : \E f : Call(Cleanup(s, force), f)
  PROVE  Ripe(s)
<1>1. SUFFICES ASSUME ~Fault("send"), q'[s].name = NoName
               PROVE  q'[s].retry1 < 1 \/ q[s].players > 0
  BY DEF Ripe
<1>2. /\ s \in Ids /\ q \in [Ids -> QueryStates] /\ q[s] \in QueryStates /\ stack \in Seq(Frames)
      /\ stack # <<>>
  BY Basics DEF EngineTypes, Sending, In
<1>3. \A f : ~Go(f)
  <2>0. PICK force \in BOOLEAN : \E g : Call(Cleanup(s, force), g)
    OBVIOUS
  <2>1. PICK g : stack' = <<Cleanup(s, force), g>> \o Tail(stack)
    BY <2>0 DEF Call
  <2>2. PICK st, c : st = stack /\ c = Cleanup(s, force)
    OBVIOUS
  <2>3. ASSUME NEW f
        PROVE  <<f>> \o Tail(st) # <<c, g>> \o Tail(st)
    <3>1. Len(<<f>> \o Tail(st)) = 1 + Len(Tail(st)) /\ Len(<<c, g>> \o Tail(st)) = 2 + Len(Tail(st))
      BY <1>2, <2>2
    <3>2. Len(Tail(st)) \in Nat
      BY <1>2, <2>2
    <3> QED
      BY <3>1, <3>2
  <2> QED
    BY <2>1, <2>2, <2>3 DEF Go
<1>4. CASE SendGivesUp
  BY <1>4 DEF SendGivesUp, GivesUp, state
<1>5. ~SendAgain /\ ~SendWaits
  BY <1>1, <1>3 DEF SendAgain, SendWaits, Sends
<1>6. CASE RulesGivenUp
  <2>1. q' = [q EXCEPT ![s].rules = FALSE] /\ q[s].retry1 < 1
    BY <1>6 DEF RulesGivenUp
  <2>2. q'[s] = [q[s] EXCEPT !.rules = FALSE]
    BY <1>2, <2>1
  <2> QED
    BY <1>2, <2>1, <2>2 DEF QueryStates
<1>7. CASE AskDetails
  <2>1. PICK asks, idle :
          /\ asks = (q[s].players > 0 /\ ~Waits2(s)) /\ idle = (~q[s].rules /\ q[s].players = 0)
    OBVIOUS
  <2>2. asks \/ (idle /\ q[s].retry1 < 1)
    BY <1>3, <1>7, <2>1 DEF AskDetails
  <2>3. CASE asks
    BY <2>1, <2>3
  <2>4. CASE ~asks /\ idle /\ q[s].retry1 < 1
    <3>1. ~(q[s].retry1 >= 1)
      BY <1>2, <2>4 DEF QueryStates
    <3>2. q' = [q EXCEPT ![s] = q[s]]
      BY <1>7, <2>1, <2>4, <3>1 DEF AskDetails
    <3> QED
      BY <1>2, <2>4, <3>2
  <2> QED
    BY <2>2, <2>3, <2>4
<1>8. ~EndSend
  BY DEF EndSend
<1> QED
  BY <1>4, <1>5, <1>6, <1>7, <1>8 DEF SendPackets

LEMMA SendPacketsStack ==
  ASSUME SafeFrees, EngineInv, SendPackets
  PROVE  StackStep
<1>1. /\ Working /\ stack # <<>> /\ main' = main /\ Top.pc = "send"
      /\ UNCHANGED <<live, ip, closed, setup, options, buffer, polled, connmap>>
  BY DEF SendPackets, EndSend, SendWaits, SendGivesUp, SendAgain, RulesGivenUp, AskDetails,
         Sending, In, Working, vars, fields, state, history, input
<1>2. Top \in Frames /\ Depth = 1 /\ main \in {"loop", "rebind"}
  BY <1>1, GoodTop DEF Placed
<1>3. CASE EndSend
  BY <1>1, <1>3 DEF EndSend, StackStep
<1>4. CASE ~EndSend
  <2>1. PICK s, f : s = SendServer /\ f = SendOn
    OBVIOUS
  <2>2. Sending
    BY <1>4 DEF SendPackets, SendWaits, SendGivesUp, SendAgain, RulesGivenUp, AskDetails
  <2>3. s \in live /\ f \in Frames /\ f.pc = "send" /\ NextFd(Top.i) \in Ids
    BY <2>1, <2>2, SendServerFacts, SendServerLive
  <2>4. \/ Go(f)
        \/ \E force \in BOOLEAN : Call(Cleanup(s, force), f)
    BY <1>4, <2>1 DEF SendPackets, SendWaits, SendGivesUp, SendAgain, RulesGivenUp, AskDetails
  <2>5. GoodFrame(f)'
    BY <2>3 DEF GoodFrame, FrameKnown, FrameSorted, FrameFreeing, Held, Closing, WalkPcs
  <2>6. Follows(f) /\ ~Closing(f)
    BY <1>1, <2>3, <2>5 DEF Follows, Closing, InBind, WalkPcs
  <2>7. CASE Go(f)
    BY <1>1, <2>6, <2>7 DEF StackStep
  <2>8. CASE \E force \in BOOLEAN : Call(Cleanup(s, force), f)
    <3>1. buffer = <<>> /\ polled = {}
      BY <1>1, <1>2 DEF EngineInv, Buffering
    <3>2. Unread(s)'
      BY <1>1, <3>1 DEF Unread
    <3>3. ip[s] # 0
      BY <2>1, <2>2, SendServerFacts DEF SendServer, EngineInv, Buffering, Sending, In, Working
    <3>4. Plain => q'[s].state # "connecting"
      <4>1. SUFFICES ASSUME Plain
                     PROVE  q'[s].state # "connecting"
        OBVIOUS
      <4>2. q[s].state = "connected" /\ q[s].fd # 0 /\ s \in 1 .. count
        BY <2>1, <2>2, <2>3, <4>1, SendServerLive, Basics
      <4> QED
        BY <4>1, <4>2, ConnectingKept, SendPacketsKind
    <3>5. Begun(s)
      <4>1. Plain => s \notin closed
        BY <1>1, <2>1, <2>2, <2>3, SendServerLive, SendServerFacts DEF EngineInv, Sockets, Ids
      <4> QED
        BY <1>1, <2>3, <3>2, <3>3, <3>4, <4>1 DEF Begun
    <3>6. Held(f) = {} /\ 1 .. Depth - 1 = {} /\ f.pc # "bound" /\ s \in Ids
      BY <1>2, <2>3, Basics DEF Held
    <3>7. Ripe(s)
      BY <2>1, <2>2, <2>3, <2>8, SendsRipe
    <3>8. CallsCleanup(s, f)
      BY <2>6, <2>8, <3>5, <3>6, <3>7 DEF CallsCleanup
    <3> QED
      BY <1>1, <3>8 DEF StackStep
  <2> QED
    BY <2>4, <2>7, <2>8
<1> QED
  BY <1>3, <1>4

\* The packet at the head of the buffer is not from a server that connects.
LEMMA HeadConnected ==
  ASSUME SafeFrees, EngineInv, Working, Plain, NEW i \in DOMAIN buffer, buffer[i] \in live
  PROVE  q[buffer[i]].state # "connecting"
<1>1. PICK s : s = buffer[i]
  OBVIOUS
<1>2. s \in 1 .. count
  BY <1>1, Basics
<1>3. CASE Broadcasts(setup)
  <2>1. CmdTypes(setup) \cap TcpTypes = {}
    BY <1>3 DEF Plain, BroadcastsOneReply
  <2>2. ~Is(s, TcpTypes)
    BY <1>2, <2>1 DEF EngineInv, Origins, Origin
  <2> QED
    BY <1>1, <1>2, <2>2 DEF EngineInv, Sockets
<1>4. CASE ~Broadcasts(setup)
  BY <1>1, <1>4 DEF EngineInv, BufferedOnce
<1> QED
  BY <1>3, <1>4

LEMMA HandleStack ==
  ASSUME SafeFrees, EngineInv, Handle
  PROVE  StackStep
<1>1. PICK s : s = Head(buffer)
  OBVIOUS
<1>2. /\ Working /\ stack = <<>> /\ main = "handle" /\ buffer # <<>> /\ s \in live /\ ~Broadcast(s)
      /\ Answered(s) /\ buffer' = Tail(buffer)
      /\ UNCHANGED <<live, ip, main, polled>>
  <2>1. UNCHANGED <<live, ip, main, polled>>
    BY HandleDoes DEF vars, fields
  <2> QED
    BY <1>1, <2>1, HandleDoes DEF At, Working
<1>3. /\ buffer \in Seq(Ids) /\ 1 \in DOMAIN buffer /\ s = buffer[1] /\ s \in Ids /\ s \in 1 .. count
      /\ q[s] \in QueryStates /\ q \in [Ids -> QueryStates]
  BY <1>1, <1>2, Basics DEF EngineTypes
<1>4. PICK r : AnsweredWith(s, r)
  BY <1>2 DEF Answered
<1>5. q'[s] = r
  BY <1>3, <1>4 DEF AnsweredWith
<1>6. Plain => q'[s].state # "connecting"
  <2>1. SUFFICES ASSUME Plain
                 PROVE  r.state # "connecting"
    BY <1>5
  <2>2. q[s].state # "connecting"
    BY <1>2, <1>3, <2>1, HeadConnected
  <2> QED
    BY <1>4, <2>2 DEF AnsweredWith, SameSocket, NewSocket
<1>7. Once => Unread(s)'
  <2>1. SUFFICES ASSUME Once
                 PROVE  Unread(s)'
    OBVIOUS
  <2>2. polled' = {}
    BY <1>2 DEF EngineInv, Buffering
  <2>3. \A i, j \in DOMAIN buffer : buffer[i] = buffer[j] => i = j
    BY <1>2, <2>1 DEF EngineInv, Once, BufferedOnce
  <2>4. ASSUME NEW i \in DOMAIN buffer'
        PROVE  buffer'[i] # s
    <3>1. i + 1 \in DOMAIN buffer /\ buffer'[i] = buffer[i + 1] /\ i + 1 # 1
      BY <1>2, <1>3, <2>4
    <3> QED
      BY <1>3, <2>3, <3>1
  <2> QED
    BY <2>2, <2>4 DEF Unread
<1>8. Begun(s)
  <2>1. ip[s] # 0
    BY <1>2, <1>3 DEF EngineInv, Buffering
  <2>2. Plain /\ ~Broadcasts(setup) => s \notin closed
    BY <1>2, <1>3 DEF EngineInv, BufferedOnce, Sockets
  <2> QED
    BY <1>2, <1>6, <1>7, <2>1, <2>2 DEF Begun
<1>9. CASE stack' = <<>>
  BY <1>2, <1>9 DEF StackStep
<1>10. CASE \E force \in BOOLEAN : stack' = <<Cleanup(s, force)>>
  BY <1>2, <1>3, <1>8, <1>10 DEF StackStep, Begins
<1>11. CASE stack' = <<BindCall, Cleanup(s, TRUE)>> /\ Is(s, MasterTypes) /\ r.name # NoName
  <2>1. HasMasters(setup)
    BY <1>3, <1>11 DEF EngineInv, Origins, Origin
  <2>2. Begins(s)
    BY <1>2, <1>3, <1>5, <1>8, <1>11, <2>1 DEF Begins
  <2> QED
    BY <1>2, <2>2 DEF StackStep
<1> QED
  BY <1>4, <1>9, <1>10, <1>11 DEF AnsweredWith

LEMMA ReceiveStack ==
  ASSUME SafeFrees, EngineInv, Receive
  PROVE  StackStep
<1>1. /\ Working /\ stack = <<>> /\ main = "recv"
      /\ UNCHANGED <<live, ip, main, connmap>>
  BY DEF Receive, At, Working, vars, fields
<1>2. PICK f \in polled :
       /\ connmap[f] # 0
       /\ polled' = {g \in polled : g > f}
       /\ \/ /\ buffer' = Append(buffer, connmap[f])
             /\ UNCHANGED <<q, stack>>
          \/ /\ Fault("refused")
             /\ q' = [q EXCEPT ![connmap[f]].name = "DOWN"]
             /\ stack' = <<Cleanup(connmap[f], TRUE)>>
             /\ UNCHANGED buffer
  BY DEF Receive
<1>3. CASE stack' = stack
  BY <1>1, <1>3 DEF StackStep
<1>4. CASE stack' = <<Cleanup(connmap[f], TRUE)>> /\ buffer' = buffer
            /\ q' = [q EXCEPT ![connmap[f]].name = "DOWN"]
  <2>1. PICK s : s = connmap[f]
    OBVIOUS
  <2>2. s \in live /\ s \in Ids /\ f \in Ids /\ polled \subseteq Ids /\ q \in [Ids -> QueryStates]
    BY <1>1, <1>2, <2>1, LivePointers, Basics DEF EngineTypes
  <2>3. ip[s] # 0
    BY <1>1, <1>2, <2>1, <2>2 DEF EngineInv, Buffering
  <2>4. q'[s].state = q[s].state
    <3>1. q'[s] = [q[s] EXCEPT !.name = "DOWN"]
      BY <1>4, <2>1, <2>2
    <3> QED
      BY <2>2, <3>1 DEF QueryStates
  <2>5. Plain => q[s].state = "connected" /\ q[s].fd = f
    BY <1>1, <1>2, <2>1, <2>2 DEF EngineInv, Sockets
  <2>6. Once => Unread(s)'
    <3>1. SUFFICES ASSUME Once
                   PROVE  Unread(s)'
      OBVIOUS
    <3>2. \A i \in DOMAIN buffer : buffer[i] # s
      BY <1>1, <1>2, <2>5, <3>1 DEF EngineInv, BufferedOnce, Once
    <3>3. ASSUME NEW g \in polled'
          PROVE  connmap[g] # s
      <4>1. g \in Ids /\ g # f
        BY <1>2, <2>2, <3>3 DEF Ids
      <4>2. connmap[g] # 0 => q[connmap[g]].fd = g
        BY <1>1, <3>1, <4>1 DEF EngineInv, Once, Sockets
      <4> QED
        BY <1>2, <2>1, <2>5, <3>1, <4>1, <4>2 DEF Once
    <3> QED
      BY <1>1, <1>4, <3>2, <3>3 DEF Unread
  <2>7. Begun(s)
    <3>1. Plain => s \notin closed
      BY <1>1, <2>2, <2>5 DEF EngineInv, Sockets, Ids
    <3> QED
      BY <1>1, <2>2, <2>3, <2>4, <2>5, <2>6, <3>1 DEF Begun
  <2> QED
    BY <1>1, <1>4, <2>1, <2>2, <2>7 DEF Begins, StackStep
<1> QED
  BY <1>2, <1>3, <1>4

\* Every step of the work is one on the stack.
LEMMA StackSteps ==
  ASSUME SafeFrees, EngineInv, Working, [NextScheduler]_all, ~EndWork
  PROVE  StackStep
<1>1. CASE LoadServers
  <2>1. phase = "args"
    BY <1>1, LoadCmdLine
  <2> QED
    BY <2>1 DEF Working
<1>2. CASE DoWork
  <2>1. CASE StartLoop \/ FirstSend \/ RetryBind \/ Poll \/ EndReceive \/ EndHandle \/ Rebind
    BY <2>1 DEF StartLoop, FirstSend, RetryBind, Poll, EndReceive, EndHandle, Rebind, CallSend, At,
                StackStep
  <2>2. CASE HandleBroadcast
    BY <2>2 DEF HandleBroadcast, At, StackStep
  <2> QED
    BY <1>2, <2>1, <2>2, HandleStack DEF DoWork
<1>3. CASE FinishOutput
  BY <1>3, FinishEffect DEF FinishOutput, Working
<1>4. CASE Clock
  BY <1>4 DEF Clock, SendIntervalEnds, Expire1, Expire2, StackStep, state
<1>5. CASE UNCHANGED all
  BY <1>5 DEF all, state, StackStep
<1> QED
  BY <1>1, <1>2, <1>3, <1>4, <1>5, BindLoopStack, CleanupServerStack, SendPacketsStack, ReceiveStack
     DEF NextScheduler, Program

\* While a function of the engine runs, nothing is read from the network.
LEMMA InputKept ==
  ASSUME [NextScheduler]_all, Working, ~EndWork, stack # <<>>, EngineInv
  PROVE  /\ buffer' = buffer /\ polled' = polled /\ main' = main
         /\ live \subseteq live' \/ DisplayClosed
         /\ closed' = closed \/ CleanupCloses
         /\ count' = count \/ AddReported
<1>1. CASE LoadServers
  <2>1. phase = "args"
    BY <1>1, LoadCmdLine
  <2> QED
    BY <2>1 DEF Working
<1>2. CASE DoWork
  BY <1>2 DEF DoWork, StartLoop, FirstSend, RetryBind, Poll, EndReceive, Handle, HandleBroadcast,
              EndHandle, Rebind, At
<1>3. CASE FinishOutput
  BY <1>3, FinishEffect DEF FinishOutput, Working
<1>4. CASE Receive
  BY <1>4 DEF Receive, At
<1>5. CASE Clock
  BY <1>5 DEF Clock, SendIntervalEnds, Expire1, Expire2, vars, state, input, history
<1>6. CASE UNCHANGED all
  BY <1>6 DEF all, vars, state, input, history
<1>7. CASE BindLoop
  <2>1. CASE BindServer
    BY <2>1 DEF BindServer, BindDone, BindPending, BindNoDescriptor, BindFailed, StatusQuery, vars,
                input, state, history
  <2>2. CASE ConnectServer
    BY <2>2 DEF ConnectServer, ConnectDone, ConnectWaits, ConnectFails, StatusQuery, vars,
                input, state, history
  <2>3. CASE BindSockets \/ Bound \/ Joined
    BY <2>3 DEF BindSockets, Bound, Joined, MoveLastBind, input, state, history
  <2>4. CASE SkipServer \/ EndWalk \/ EndPass \/ PassServer \/ BindReturns
    BY <2>4 DEF SkipServer, EndWalk, EndPass, PassServer, BindReturns, vars, input, state, history
  <2> QED
    BY <1>7, <2>1, <2>2, <2>3, <2>4 DEF BindLoop
<1>8. CASE CleanupServer
  <2>1. CASE CleanupKeeps \/ CleanupCloses \/ NextMaster \/ MastersAdded
    BY <2>1 DEF CleanupKeeps, CleanupCloses, NextMaster, MastersAdded, vars, input, state, history
  <2>2. CASE DisplayClosed
    <3>1. count' = count
      BY <2>2, CloseEffect DEF DisplayClosed, vars
    <3> QED
      BY <2>2, <3>1 DEF DisplayClosed, input, state, history
  <2>3. CASE AddReported
    <3>1. /\ buffer' = buffer /\ polled' = polled /\ main' = main /\ closed' = closed
      BY <2>3 DEF AddReported, input, history
    <3>2. PICK d \in Discovered : UNCHANGED vars \/ AddByAddr(d[1], d[2], d[3])
      BY <2>3 DEF AddReported
    <3>3. live \subseteq live'
      BY <3>2, AddEffect DEF vars, AddsServer
    <3> QED
      BY <2>3, <3>1, <3>3
  <2> QED
    BY <1>8, <2>1, <2>2, <2>3 DEF CleanupServer
<1>9. CASE SendPackets
  BY <1>9 DEF SendPackets, EndSend, SendWaits, SendGivesUp, SendAgain, RulesGivenUp, AskDetails,
              vars, input, state, history
<1> QED
  BY <1>1, <1>2, <1>3, <1>4, <1>5, <1>6, <1>7, <1>8, <1>9 DEF NextScheduler, Program

\* The steps of do_work's own loop.
Rests ==
  /\ UNCHANGED <<vars, q, connmap, closed>> /\ UNCHANGED <<setup, buffer, polled>>
  /\ \/ UNCHANGED <<main, stack>>
     \/ buffer = <<>> /\ main' \notin {"recv", "handle"} /\ main # "recv"

LEMMA LoopSteps ==
  ASSUME [NextScheduler]_all, Working, ~EndWork, stack = <<>>, EngineInv
  PROVE  Rests \/ Poll \/ Receive \/ EndReceive \/ Handle \/ HandleBroadcast
<1>1. CASE LoadServers
  <2>1. phase = "args"
    BY <1>1, LoadCmdLine
  <2> QED
    BY <2>1 DEF Working
<1>2. CASE StartLoop \/ FirstSend \/ RetryBind \/ EndHandle \/ Rebind
  <2>1. main \notin {"recv", "handle"} => buffer = <<>>
    BY DEF EngineInv, Buffering
  <2> QED
    BY <1>2, <2>1 DEF StartLoop, FirstSend, RetryBind, EndHandle, Rebind, CallSend, At, Rests,
                      state, input, history
<1>3. CASE FinishOutput
  BY <1>3, FinishEffect DEF FinishOutput, Working
<1>4. CASE BindLoop \/ CleanupServer \/ SendPackets
  BY <1>4 DEF BindLoop, BindSockets, SkipServer, BindServer, Bound, EndWalk, EndPass, PassServer,
              ConnectServer, Joined, BindReturns, Walking, Passing, CleanupServer, CleanupKeeps,
              CleanupCloses, DisplayClosed, AddReported, NextMaster, MastersAdded, SendPackets,
              EndSend, SendWaits, SendGivesUp, SendAgain, RulesGivenUp, AskDetails, Sending, In
<1>5. CASE Clock
  BY <1>5 DEF Clock, SendIntervalEnds, Expire1, Expire2, state, input, history, Rests
<1>6. CASE UNCHANGED all
  BY <1>6 DEF all, state, input, history, Rests
<1> QED
  BY <1>1, <1>2, <1>3, <1>4, <1>5, <1>6 DEF NextScheduler, Program, DoWork

\* A frame stays good as long as the servers it holds are not freed.
LEMMA GoodKept ==
  ASSUME EngineInv, Keeps, WorkStep, NEW f, GoodFrame(f),
         live \subseteq live' \/ (Sort = "none" /\ \A s \in Held(f) : s \in live' \/ s \notin live)
  PROVE  GoodFrame(f)'
<1>1. UNCHANGED <<setup, options>> /\ live \subseteq 1 .. count
  BY Basics DEF Keeps
<1>2. /\ \A s \in 1 .. count : ip'[s] = ip[s]
      /\ closed \subseteq closed'
  BY WorkEffects
<1>3. CASE live \subseteq live'
  BY <1>1, <1>2, <1>3 DEF GoodFrame, FrameKnown, FrameSorted, FrameFreeing, Held, Sort
<1>4. CASE Sort = "none" /\ \A s \in Held(f) : s \in live' \/ s \notin live
  <2>1. Held(f) \subseteq live' \cup {0}
    BY <1>4 DEF GoodFrame, FrameFreeing
  <2>2. Closing(f) \/ f.pc \in {"bound", "joined"} => f.s \in Held(f)
    BY DEF Closing, Held
  <2>3. 0 \notin live
    BY Basics
  <2>4. FrameKnown(f)'
    BY <1>1, <1>2, <1>4, <2>2 DEF GoodFrame, FrameKnown
  <2>5. FrameFreeing(f)'
    BY <1>4, <2>1 DEF GoodFrame, FrameFreeing, Held
  <2> QED
    BY <1>1, <1>4, <2>4, <2>5 DEF GoodFrame, Sort
<1> QED
  BY <1>3, <1>4

LEMMA GoodFrames ==
  ASSUME SafeFrees, EngineInv, Working, NEW d \in Depths
  PROVE  Frame(d) \in Frames /\ GoodFrame(Frame(d)) /\ Placed(d)
<1>1. Frame(d) \in Frames
  <2>1. Depth # 0 => stack # <<>>
    BY DEF Depth
  <2> QED
    BY <2>1, Basics, TopFrame DEF Depths, Depth
<1>2. FrameKnown(Frame(d)) /\ Placed(d)
  BY DEF EngineInv, StackKnown
<1>3. Sort # "none" => FrameSorted(Frame(d))
  BY DEF EngineInv, PointersSorted
<1>4. Sort = "none" => FrameFreeing(Frame(d))
  BY DEF EngineInv, PointersFreeing
<1> QED
  BY <1>1, <1>2, <1>3, <1>4 DEF GoodFrame

\* Nothing frees what a function further up the stack holds.
LEMMA GoodBeneath ==
  ASSUME SafeFrees, EngineInv, Working, [NextScheduler]_all, ~EndWork, stack # <<>>,
         NEW d \in Depths, d < Depth \/ stack' = stack, NEW f, f = Frame(d)
  PROVE  GoodFrame(f)'
<1>1. Keeps /\ WorkStep /\ GoodFrame(f)
  BY WorkKinds, GoodFrames
<1>2. CASE live \subseteq live'
  BY <1>1, <1>2, GoodKept
<1>3. CASE DisplayClosed /\ ~(live \subseteq live')
  <2>1. CloseServer(Top.s) /\ Sort = "none" /\ Top.pc = "display" /\ stack' = Tail(stack)
    BY <1>3 DEF DisplayClosed, vars, In, Return
  <2>2. live' = live \ {Top.s}
    BY <2>1, CloseEffect
  <2>3. d < Depth /\ Depth \in Depths /\ Frame(Depth) = Top
    <3>1. Len(Tail(stack)) # Len(stack) /\ stack \in Seq(Frames)
      BY GoodTop, Basics DEF EngineTypes
    <3> QED
      BY <2>1, <3>1, GoodTop
  <2>4. Top.s \notin Held(f)
    BY <2>1, <2>3 DEF EngineInv, PointersFreeing, Closing
  <2> QED
    BY <1>1, <2>1, <2>2, <2>4, GoodKept
<1> QED
  BY <1>2, <1>3, InputKept

\* A frame of the stack after a step: one that was beneath the top, or was left
\* alone; what the one on top became; or what was called.
Stays(d, f) == stack # <<>> /\ d \in Depths /\ f = Frame(d) /\ (d < Depth \/ stack' = stack)
Turns(d, f) == /\ stack # <<>> /\ d = Depth /\ Follows(f) /\ main' = main
               /\ \/ Depth' = Depth
                  \/ Depth' = Depth + 1 /\ (f.pc = "bound" => Fault("send"))
                       /\ (Closing(f) => q'[f.s].name # NoName)
Starts(d, f) ==
  /\ f \in Frames /\ d = Depth' /\ f.pc \in {"cleanup", "masters", "bind", "send"}
  /\ f.pc = "cleanup" => /\ Begun(f.s)
                         /\ IF stack # <<>> THEN Ripe(f.s) ELSE main' \in {"recv", "handle"}
                         /\ Sort = "none" => \A c \in 1 .. d - 1 : f.s \notin Held(FrameOf(stack', c))
  /\ f.pc = "masters" => f.s \in live' \cup {0} /\ HasMasters(setup) /\ waiting' = 0
  /\ f.pc \in {"bind", "send"} => stack = <<>>
  /\ f.pc = "bind" => HasMasters(setup) \/ (main' \in {"first", "loop"} /\ d = 1)
  /\ f.pc = "send" => main' \in {"loop", "rebind"} /\ d = 1
StartsUnder(d, f) ==
  /\ f \in Frames /\ stack = <<>> /\ d = 1 /\ Depth' = 2 /\ f.pc = "cleanup" /\ Begun(f.s)
  /\ FrameOf(stack', 2) = BindCall
  /\ q'[f.s].name # NoName /\ main' \in {"recv", "handle"}

LEMMA Shapes ==
  ASSUME SafeFrees, EngineInv, Working, [NextScheduler]_all, ~EndWork
  PROVE  /\ Depth' \in Nat /\ Depth \in Nat
         /\ \A d \in Depths' : \A f : f = FrameOf(stack', d) =>
              Stays(d, f) \/ Turns(d, f) \/ Starts(d, f) \/ StartsUnder(d, f)
<1>1. StackStep /\ EngineTypes /\ EngineTypes' /\ setup' = setup /\ Ids \subseteq Ptrs
  BY StackSteps, NextTypes, Basics, WorkKinds DEF Keeps
<1>2. stack \in Seq(Frames) /\ stack' \in Seq(Frames) /\ Depth' \in Nat /\ Depth \in Nat
  BY <1>1 DEF EngineTypes, Depth
<1>3. stack # <<>> => Depth \in Nat \ {0}
  BY <1>2 DEF Depth
<1>4. CASE stack' = stack
  <2>1. stack # <<>> \/ Depths' = {}
    BY <1>4 DEF Depths, Depth
  <2>2. Depths' = Depths /\ \A d \in Depths : FrameOf(stack', d) = Frame(d)
    BY <1>4 DEF Depths, Depth, Frame
  <2> QED
    BY <1>2, <1>4, <2>1, <2>2 DEF Stays
<1>5. CASE stack # <<>> /\ Return
  <2>1. Depth' = Depth - 1 /\ \A d \in 1 .. Depth - 1 : FrameOf(stack', d) = Frame(d)
    <3>1. PICK st, st2 : st = stack /\ st2 = stack'
      OBVIOUS
    <3>2. st \in Seq(Frames) /\ st # <<>> /\ st2 = Tail(st)
      BY <1>2, <1>5, <3>1 DEF Return
    <3>3. Len(st2) = Len(st) - 1 /\ \A d \in 1 .. Len(st) - 1 : FrameOf(st2, d) = FrameOf(st, d)
      BY <3>2, StackReturn
    <3> QED
      BY <3>1, <3>3 DEF Depth, Frame
  <2>2. \A d \in Depths' : d \in 1 .. Depth - 1 /\ d \in Depths /\ d < Depth
    BY <1>2, <2>1 DEF Depths
  <2> QED
    BY <1>2, <1>5, <2>1, <2>2 DEF Stays
<1>6. ASSUME stack # <<>>, NEW f, Follows(f), Go(f), main' = main
      PROVE  \A d \in Depths' : \A g : g = FrameOf(stack', d) => Stays(d, g) \/ Turns(d, g)
  <2>1. f \in Frames
    BY <1>6 DEF Follows
  <2>2. Depth' = Depth /\ FrameOf(stack', Depth) = f /\ \A d \in 1 .. Depth - 1 : FrameOf(stack', d) = Frame(d)
    <3>1. PICK st, st2 : st = stack /\ st2 = stack'
      OBVIOUS
    <3>2. st \in Seq(Frames) /\ st # <<>> /\ st2 = <<f>> \o Tail(st)
      BY <1>2, <1>6, <3>1 DEF Go
    <3>3. /\ Len(st2) = Len(st) /\ FrameOf(st2, Len(st)) = f
          /\ \A d \in 1 .. Len(st) - 1 : FrameOf(st2, d) = FrameOf(st, d)
      BY <2>1, <3>2 DEF FrameOf
    <3> QED
      BY <3>1, <3>3 DEF Depth, Frame
  <2>3. \A d \in Depths' : d = Depth \/ (d \in 1 .. Depth - 1 /\ d \in Depths /\ d < Depth)
    BY <1>2, <2>2 DEF Depths
  <2>4. Turns(Depth, f)
    BY <1>6, <2>2 DEF Turns
  <2> QED
    BY <1>6, <2>2, <2>3, <2>4 DEF Stays
<1>7. ASSUME stack # <<>>, NEW f, NEW c, Follows(f), Call(c, f), main' = main,
             f.pc = "bound" => Fault("send"), Closing(f) => q'[f.s].name # NoName,
             c \in Frames,
             /\ Depth' = Depth + 1 /\ FrameOf(stack', Depth) = f
             /\ \A d \in 1 .. Depth - 1 : FrameOf(stack', d) = Frame(d)
             => Starts(Depth + 1, c)
      PROVE  \A d \in Depths' : \A g : g = FrameOf(stack', d) => Stays(d, g) \/ Turns(d, g) \/ Starts(d, g)
  <2>1. f \in Frames
    BY <1>7 DEF Follows
  <2>2. /\ Depth' = Depth + 1 /\ FrameOf(stack', Depth) = f /\ FrameOf(stack', Depth + 1) = c
        /\ \A d \in 1 .. Depth - 1 : FrameOf(stack', d) = Frame(d)
    <3>1. PICK st, st2 : st = stack /\ st2 = stack'
      OBVIOUS
    <3>2. st \in Seq(Frames) /\ st # <<>> /\ st2 = <<c, f>> \o Tail(st) /\ c \in Frames
      BY <1>2, <1>7, <3>1 DEF Call
    <3>3. /\ Len(st2) = Len(st) + 1 /\ FrameOf(st2, Len(st) + 1) = c /\ FrameOf(st2, Len(st)) = f
          /\ \A d \in 1 .. Len(st) - 1 : FrameOf(st2, d) = FrameOf(st, d)
      BY <2>1, <3>2 DEF FrameOf
    <3> QED
      BY <3>1, <3>3 DEF Depth, Frame
  <2>3. \A d \in Depths' : d = Depth + 1 \/ d = Depth \/ (d \in 1 .. Depth - 1 /\ d \in Depths /\ d < Depth)
    BY <1>2, <2>2 DEF Depths
  <2>4. Turns(Depth, f) /\ Starts(Depth + 1, c)
    BY <1>7, <2>2 DEF Turns
  <2> QED
    BY <1>7, <2>2, <2>3, <2>4 DEF Stays
<1>8. ASSUME stack # <<>>, NEW s, NEW f, CallsCleanup(s, f), main' = main
      PROVE  \A d \in Depths' : \A g : g = FrameOf(stack', d) => Stays(d, g) \/ Turns(d, g) \/ Starts(d, g)
  <2>1. PICK force \in BOOLEAN : Call(Cleanup(s, force), f)
    BY <1>8 DEF CallsCleanup
  <2>2. PICK c : c = Cleanup(s, force)
    OBVIOUS
  <2>3. c \in Frames /\ c.pc = "cleanup" /\ c.s = s
    BY <1>8, <2>2, FrameSets DEF CallsCleanup, Cleanup
  <2>4. ASSUME Depth' = Depth + 1, FrameOf(stack', Depth) = f,
               \A d \in 1 .. Depth - 1 : FrameOf(stack', d) = Frame(d)
        PROVE  Starts(Depth + 1, c)
    <3>1. Sort = "none" => s \notin Held(f) /\ \A d \in 1 .. Depth - 1 : s \notin Held(Frame(d))
      BY <1>8 DEF CallsCleanup
    <3>2. Sort = "none" => \A d \in 1 .. (Depth + 1) - 1 : s \notin Held(FrameOf(stack', d))
      BY <1>2, <2>4, <3>1
    <3> QED
      BY <1>8, <2>3, <2>4, <3>2 DEF Starts, CallsCleanup
  <2> QED
    BY <1>7, <1>8, <2>1, <2>2, <2>3, <2>4 DEF CallsCleanup
<1>9. ASSUME stack # <<>>, NEW f, CallsMasters(f), main' = main
      PROVE  \A d \in Depths' : \A g : g = FrameOf(stack', d) => Stays(d, g) \/ Turns(d, g) \/ Starts(d, g)
  <2>1. PICK c : c = [pc |-> "masters", s |-> servers]
    OBVIOUS
  <2>2. servers \in live \cup {0} /\ servers \in Ptrs
    BY LivePointers, Basics
  <2>3. c \in Frames /\ c.pc = "masters" /\ c.s = servers
    BY <2>1, <2>2, FrameSets
  <2>4. ASSUME Depth' = Depth + 1
        PROVE  Starts(Depth + 1, c)
    BY <1>9, <2>2, <2>3, <2>4 DEF Starts, CallsMasters
  <2> QED
    BY <1>7, <1>9, <2>1, <2>3, <2>4 DEF CallsMasters
<1>10. ASSUME NEW s, Begins(s)
       PROVE  \A d \in Depths' : \A g : g = FrameOf(stack', d) => Starts(d, g) \/ StartsUnder(d, g)
  <2>1. CASE \E force \in BOOLEAN : stack' = <<Cleanup(s, force)>>
    <3>1. PICK force \in BOOLEAN : stack' = <<Cleanup(s, force)>>
      BY <2>1
    <3>2. PICK c : c = Cleanup(s, force)
      OBVIOUS
    <3>3. c \in Frames /\ c.pc = "cleanup" /\ c.s = s
      BY <1>10, <3>2, FrameSets DEF Begins, Cleanup
    <3>4. Depth' = 1 /\ Depths' = {1} /\ FrameOf(stack', 1) = c
      BY <3>1, <3>2 DEF Depth, Depths, Frame, FrameOf
    <3> QED
      BY <1>10, <3>3, <3>4 DEF Starts, Begins
  <2>2. CASE stack' = <<BindCall, Cleanup(s, TRUE)>>
    <3>1. PICK b, c : b = BindCall /\ c = Cleanup(s, TRUE)
      OBVIOUS
    <3>2. b \in Frames /\ b.pc = "bind" /\ c \in Frames /\ c.pc = "cleanup" /\ c.s = s
      BY <1>10, <3>1, FrameSets DEF Begins, Cleanup, BindCall
    <3>3. Depth' = 2 /\ Depths' = {1, 2} /\ FrameOf(stack', 1) = c /\ FrameOf(stack', 2) = b
      BY <2>2, <3>1 DEF Depth, Depths, Frame, FrameOf
    <3>4. HasMasters(setup) /\ q'[s].name # NoName
      <4>1. Len(<<BindCall, Cleanup(s, TRUE)>>) = 2 /\ \A c2 : Len(<<c2>>) = 1
        OBVIOUS
      <4> QED
        BY <1>10, <2>2, <4>1 DEF Begins
    <3>5. Starts(2, b) /\ StartsUnder(1, c)
      BY <1>10, <3>1, <3>2, <3>3, <3>4 DEF Starts, StartsUnder, Begins
    <3> QED
      BY <3>3, <3>5
  <2> QED
    BY <1>10, <2>1, <2>2 DEF Begins
<1>11. CASE stack = <<>> /\ (\/ (stack' = <<BindCall>> /\ main' \in {"first", "loop"})
                            \/ (stack' = <<SendCall>> /\ main' \in {"loop", "rebind"}))
  <2>1. PICK c : \/ c = BindCall /\ stack' = <<c>> /\ main' \in {"first", "loop"}
                 \/ c = SendCall /\ stack' = <<c>> /\ main' \in {"loop", "rebind"}
    BY <1>11
  <2>2. c \in Frames
    <3>1. 0 \in Ptrs
      BY Basics
    <3> QED
      BY <2>1, <3>1, FrameSets DEF SendCall
  <2>3. Depth' = 1 /\ Depths' = {1} /\ FrameOf(stack', 1) = c
    BY <2>1 DEF Depth, Depths, Frame, FrameOf
  <2>4. Starts(1, c)
    BY <1>11, <2>1, <2>2, <2>3 DEF Starts, BindCall, SendCall
  <2> QED
    BY <1>2, <2>3, <2>4
<1>12. CASE stack = <<>> /\ stack' = <<>>
  BY <1>4, <1>12
<1> DEFINE shaped == \A d \in Depths' : \A f : f = FrameOf(stack', d) =>
                       Stays(d, f) \/ Turns(d, f) \/ Starts(d, f) \/ StartsUnder(d, f)
<1>13. CASE stack # <<>> /\ main' = main /\ \E f : Follows(f) /\ Go(f)
  <2>1. shaped
    BY <1>6, <1>13
  <2> QED
    BY <1>2, <2>1
<1>14. CASE stack # <<>> /\ main' = main /\ \E s, f : CallsCleanup(s, f)
  <2>1. shaped
    BY <1>8, <1>14
  <2> QED
    BY <1>2, <2>1
<1>15. CASE stack # <<>> /\ main' = main /\ \E f : CallsMasters(f)
  <2>1. shaped
    BY <1>9, <1>15
  <2> QED
    BY <1>2, <2>1
<1>16. CASE \E s : Begins(s)
  <2>1. shaped
    BY <1>10, <1>16
  <2> QED
    BY <1>2, <2>1
<1> HIDE DEF shaped
<1>17. \/ stack' = stack
       \/ stack # <<>> /\ Return
       \/ stack # <<>> /\ main' = main /\ \E f : Follows(f) /\ Go(f)
       \/ stack # <<>> /\ main' = main /\ \E s, f : CallsCleanup(s, f)
       \/ stack # <<>> /\ main' = main /\ \E f : CallsMasters(f)
       \/ \E s : Begins(s)
       \/ stack = <<>> /\ (\/ (stack' = <<BindCall>> /\ main' \in {"first", "loop"})
                            \/ (stack' = <<SendCall>> /\ main' \in {"loop", "rebind"}))
  BY <1>1, Zenon DEF StackStep
<1> QED
  BY <1>4, <1>5, <1>11, <1>13, <1>14, <1>15, <1>16, <1>17

-----------------------------------------------------------------------------
\* The stack stays as StackKnown and Settled say.

LEMMA FramesGood ==
  ASSUME SafeFrees, EngineInv, Working, [NextScheduler]_all, ~EndWork,
         NEW d \in Depths', NEW f, f = FrameOf(stack', d)
  PROVE  GoodFrame(f)' /\ f \in Frames
<1>1. CASE Stays(d, f)
  BY <1>1, GoodBeneath, GoodFrames DEF Stays
<1>2. CASE Turns(d, f)
  BY <1>2 DEF Turns, Follows
<1>3. CASE Starts(d, f)
  <2>1. setup' = setup
    BY WorkKinds DEF Keeps
  <2> QED
    BY <1>3, <2>1 DEF Starts, Begun, GoodFrame, FrameKnown, FrameSorted, FrameFreeing, Held, Closing, WalkPcs
<1>4. CASE StartsUnder(d, f)
  BY <1>4 DEF StartsUnder, Begun, GoodFrame, FrameKnown, FrameSorted, FrameFreeing, Held, Closing, WalkPcs
<1> QED
  BY <1>1, <1>2, <1>3, <1>4, Shapes

LEMMA FramesPlaced ==
  ASSUME SafeFrees, EngineInv, Working, [NextScheduler]_all, ~EndWork,
         NEW d \in Depths', NEW f, f = FrameOf(stack', d)
  PROVE  /\ f.pc = "send" => d = 1 /\ main' \in {"loop", "rebind"}
         /\ InBind(f) /\ ~HasMasters(setup) => d = 1 /\ main' \in {"first", "loop"}
         /\ f.pc = "bound" /\ ~Fault("send") => d = Depth'
<1>1. CASE Stays(d, f)
  <2>1. Placed(d) /\ f = Frame(d) /\ d \in Depths /\ (d < Depth \/ stack' = stack) /\ stack # <<>>
    BY <1>1, GoodFrames DEF Stays
  <2>2. main' = main
    BY <2>1, InputKept
  <2>3. d < Depth => d # Depth
    BY <2>1, Shapes DEF Depths
  <2>4. stack' = stack => Depth' = Depth
    BY DEF Depth
  <2> QED
    BY <2>1, <2>2, <2>3, <2>4 DEF Placed
<1>2. CASE Turns(d, f)
  <2>1. Placed(Depth) /\ Frame(Depth) = Top
    BY <1>2, GoodTop DEF Turns
  <2> QED
    BY <1>2, <2>1 DEF Turns, Follows, Placed, InBind
<1>3. CASE Starts(d, f)
  BY <1>3 DEF Starts, InBind, WalkPcs
<1>4. CASE StartsUnder(d, f)
  BY <1>4 DEF StartsUnder, InBind, WalkPcs
<1> QED
  BY <1>1, <1>2, <1>3, <1>4, Shapes

LEMMA StackKnownKept ==
  ASSUME SafeFrees, EngineInv, Working, [NextScheduler]_all, ~EndWork
  PROVE  StackKnown'
<1>1. setup' = setup
  BY WorkKinds DEF Keeps
<1>2. ASSUME NEW d \in Depths'
      PROVE  FrameKnown(Frame(d))' /\ Placed(d)'
  <2>1. PICK f : f = FrameOf(stack', d)
    OBVIOUS
  <2>2. FrameKnown(f)'
    BY <1>2, <2>1, FramesGood DEF GoodFrame
  <2>3. /\ f.pc = "send" => d = 1 /\ main' \in {"loop", "rebind"}
        /\ InBind(f) /\ ~HasMasters(setup) => d = 1 /\ main' \in {"first", "loop"}
        /\ f.pc = "bound" /\ ~Fault("send") => d = Depth'
    BY <1>2, <2>1, FramesPlaced
  <2>4. Frame(d)' = f
    BY <2>1 DEF Frame
  <2>5. FrameKnown(Frame(d))'
    BY <2>2, <2>4 DEF FrameKnown
  <2>6. Placed(d)'
    BY <1>1, <2>3, <2>4 DEF Placed, Fault, InBind
  <2> QED
    BY <2>5, <2>6
<1> QED
  BY <1>2 DEF StackKnown

LEMMA SettledKept ==
  ASSUME SafeFrees, EngineInv, Working, Plain, [NextScheduler]_all, ~EndWork
  PROVE  Settled'
<1>1. Keeps /\ WorkStep
  BY WorkKinds
<1>2. ASSUME NEW d \in Depths', NEW f, f = FrameOf(stack', d), Closing(f)
      PROVE  q'[f.s].state # "connecting" /\ (d < Depth' => q'[f.s].name # NoName)
  <2>1. CASE Stays(d, f)
    <3>1. d \in Depths /\ f = Frame(d) /\ (d < Depth \/ stack' = stack) /\ stack # <<>>
      BY <2>1 DEF Stays
    <3>2. q[f.s].state # "connecting" /\ (d < Depth => q[f.s].name # NoName)
      BY <1>2, <3>1 DEF EngineInv, Settled
    <3>3. f.s \in live /\ f.s \in 1 .. count
      BY <1>2, <3>1, GoodFrames, Basics DEF GoodFrame, FrameKnown
    <3>4. CASE d < Depth
      BY <1>1, <3>2, <3>3, <3>4, ConnectingKept, WorkEffects
    <3>5. CASE stack' = stack /\ ~(d < Depth)
      <4>1. d = Depth /\ Depth' = Depth
        BY <3>1, <3>5, Shapes DEF Depths, Depth
      <4>2. f = Top
        BY <3>1, <4>1, GoodTop
      <4>3. q'[f.s].state = q[f.s].state
        <5>1. ~Return /\ \A x : ~(Go(x) /\ x # Top) /\ \A y : ~Call(x, y)
          <6>1. PICK st : st = stack
            OBVIOUS
          <6>2. st \in Seq(Frames) /\ st # <<>>
            BY <3>1, <6>1, Basics DEF EngineTypes
          <6>3. st # Tail(st) /\ \A x : (st = <<x>> \o Tail(st) => x = Head(st)) /\ \A y : st # <<x, y>> \o Tail(st)
            BY <6>2
          <6> QED
            BY <3>5, <6>1, <6>3 DEF Return, Go, Call, Top
        <5>2. StackStep
          BY StackSteps
        <5>3. q' = q \/ Follows(f)
          BY <1>2, <3>1, <3>5, <4>2, <5>1, <5>2 DEF StackStep, CallsCleanup, CallsMasters, Begins
        <5> QED
          BY <1>2, <5>3 DEF Follows
      <4> QED
        BY <3>2, <4>1, <4>3, Shapes
    <3> QED
      BY <3>1, <3>4, <3>5
  <2>2. CASE Turns(d, f)
    <3>1. /\ f.s = Top.s /\ Closing(Top) /\ q'[f.s].state = q[f.s].state /\ d = Depth /\ stack # <<>>
          /\ Depth' = Depth + 1 => q'[f.s].name # NoName
          /\ Depth' = Depth \/ Depth' = Depth + 1
      BY <1>2, <2>2, Shapes DEF Turns, Follows
    <3>2. q[f.s].state # "connecting"
      BY <3>1, GoodTop DEF EngineInv, Settled
    <3>3. d < Depth' => Depth' = Depth + 1
      BY <3>1, Shapes
    <3> QED
      BY <3>1, <3>2, <3>3
  <2>3. CASE Starts(d, f)
    <3>1. f.pc = "cleanup" /\ ~(d < Depth')
      BY <1>2, <2>3, Shapes DEF Starts, Closing
    <3> QED
      BY <2>3, <3>1 DEF Starts, Begun
  <2>4. CASE StartsUnder(d, f)
    BY <2>4 DEF StartsUnder, Begun
  <2> QED
    BY <1>2, <2>1, <2>2, <2>3, <2>4, Shapes
<1>3. ASSUME NEW d \in Depths', Closing(Frame(d))'
      PROVE  (q[Frame(d).s].state # "connecting")' /\ (d < Depth' => (q[Frame(d).s].name # NoName)')
  <2>1. PICK f : f = FrameOf(stack', d)
    OBVIOUS
  <2>2. Frame(d)' = f
    BY <2>1 DEF Frame
  <2>3. Closing(f)
    BY <1>3, <2>2 DEF Closing
  <2> QED
    BY <1>2, <2>1, <2>2, <2>3
<1> QED
  BY <1>3 DEF Settled

\* What the address hash finds has not been freed.
LEMMA FoundLive ==
  ASSUME TypeOK, HashIndexesLive, NEW a \in Ips, NEW p \in Ports, FindServerByAddress(a, p) # 0
  PROVE  FindServerByAddress(a, p) \in live /\ ip[FindServerByAddress(a, p)] = a
<1> DEFINE m == Matches(a, p)
<1>1. hash[Bucket(a, p)] \in Seq(Ptrs) /\ Bucket(a, p) \in DOMAIN hash
  <2>1. a \in Nat /\ p \in Nat
    BY ServerListAssumption DEF Ips, Ports
  <2>2. Bucket(a, p) \in 0 .. HashLength - 1
    BY <2>1, BucketType
  <2> QED
    BY <2>1, <2>2 DEF TypeOK
<1>2. m \subseteq DOMAIN hash[Bucket(a, p)] /\ m \in SUBSET Nat /\ m # {}
  BY <1>1 DEF Matches, FindServerByAddress
<1>3. PICK i \in m : FindServerByAddress(a, p) = hash[Bucket(a, p)][i]
  <2>1. \E i \in m : \A j \in m : i <= j
    BY <1>2, LeastNumber
  <2> HIDE DEF m
  <2>2. (CHOOSE i \in m : \A j \in m : i <= j) \in m
    BY <2>1
  <2>3. FindServerByAddress(a, p) = hash[Bucket(a, p)][CHOOSE i \in m : \A j \in m : i <= j]
    BY <1>2 DEF m, FindServerByAddress
  <2> QED
    BY <2>2, <2>3
<1>4. i \in DOMAIN hash[Bucket(a, p)] /\ hash[Bucket(a, p)][i] # 0 /\ ip[hash[Bucket(a, p)][i]] = a
  BY <1>2 DEF Matches
<1> QED
  BY <1>1, <1>3, <1>4 DEF HashIndexesLive

\* A reply to a broadcast moves to the server that sent it.
LEMMA BroadcastFinds ==
  ASSUME SafeFrees, EngineInv, HandleBroadcast
  PROVE  /\ Working /\ stack = <<>> /\ main = "handle" /\ buffer # <<>> /\ Head(buffer) \in live
         /\ Broadcast(Head(buffer))
         /\ UNCHANGED <<connmap, closed, main, stack, polled>>
         /\ \E s \in Ids :
              /\ buffer' = <<s>> \o Tail(buffer) /\ s \in live' /\ ip'[s] # 0
              /\ ip'[s] \notin BroadcastIps
              /\ \/ s \in live /\ UNCHANGED <<live, ip, count, q>>
                 \/ /\ s = count + 1 /\ s \notin live /\ live' = live \cup {s} /\ q'[s].fd = 0
                    /\ \A t \in 1 .. count : ip'[t] = ip[t] /\ q'[t] = q[t]
                    /\ count' = count + 1
<1>1. /\ Working /\ stack = <<>> /\ main = "handle" /\ buffer # <<>>
      /\ UNCHANGED <<connmap, closed, main, stack, polled>>
  BY DEF HandleBroadcast, At, Working, history
<1>2. PICK d \in Discovered :
        /\ d[1] # 0 /\ Head(buffer) \in live /\ Broadcast(Head(buffer))
        /\ LET found == FindServerByAddress(d[1], d[2])
               s == IF found = 0 THEN count + 1 ELSE found
           IN  /\ buffer' = <<s>> \o Tail(buffer)
               /\ IF found # 0 THEN UNCHANGED <<vars, q>>
                  ELSE AddByAddr(d[1], d[2], d[3]) /\ q' = [q EXCEPT ![s] = NewQuery(d[1])]
  BY DEF HandleBroadcast
<1>3. d[1] \in Ips /\ d[2] \in Ports /\ d[1] \notin BroadcastIps
  BY ServerListAssumption, Provisos DEF GamesReported
<1>4. CASE FindServerByAddress(d[1], d[2]) # 0
  <2>1. PICK s : s = FindServerByAddress(d[1], d[2])
    OBVIOUS
  <2>2. s \in live /\ ip[s] = d[1] /\ s \in Ids
    BY <1>3, <1>4, <2>1, FoundLive, Basics DEF EngineInv
  <2>3. UNCHANGED <<live, ip, count, q>> /\ buffer' = <<s>> \o Tail(buffer)
    BY <1>2, <1>4, <2>1 DEF vars, fields
  <2> QED
    BY <1>1, <1>2, <1>3, <2>2, <2>3
<1>5. CASE FindServerByAddress(d[1], d[2]) = 0
  <2>1. PICK s : s = count + 1
    OBVIOUS
  <2>2. /\ AddByAddr(d[1], d[2], d[3]) /\ q' = [q EXCEPT ![s] = NewQuery(d[1])]
        /\ buffer' = <<s>> \o Tail(buffer)
    BY <1>2, <1>5, <2>1
  <2>3. AddsServer(d[1], d[3])
    BY <2>2, AddEffect
  <2>4. s \in Ids /\ s \notin 1 .. count /\ live \subseteq 1 .. count /\ 1 .. count \subseteq Ids
    BY <2>1, <2>3, Basics DEF AddsServer
  <2>5. q'[s] = NewQuery(d[1]) /\ \A t \in 1 .. count : q'[t] = q[t]
    BY <2>2, <2>4, Basics DEF EngineTypes
  <2>6. ip'[s] = d[1] /\ \A t \in 1 .. count : ip'[t] = ip[t]
    BY <2>1, <2>3, <2>4, Basics DEF AddsServer, TypeOK
  <2>7. q'[s].fd = 0
    BY <2>5 DEF NewQuery
  <2> QED
    BY <1>1, <1>2, <1>3, <2>1, <2>2, <2>3, <2>4, <2>5, <2>6, <2>7 DEF AddsServer
<1> QED
  BY <1>4, <1>5

\* Descriptors come to map to servers that live and have an address.
LEMMA ConnmapFrom ==
  ASSUME EngineInv, WorkStep, NEW f \in Ids
  PROVE  connmap'[f] = connmap[f] \/ connmap'[f] = 0
           \/ (connmap'[f] \in live /\ ip[connmap'[f]] # 0 /\ live' = live)
<1>1. connmap \in [Ids -> Ptrs]
  BY Basics DEF EngineTypes
<1>2. \A s \in live : ip[s] = 0 => q[s].name # NoName /\ q[s].state = "init"
  BY Basics DEF EngineInv, Origins, Origin
<1>3. CASE Quiet \/ \E d \in Discovered : FindsServer(d)
  BY <1>3 DEF Quiet, FindsServer, SameConnections
<1>4. ASSUME NEW s \in live, Maps(s) \/ Opens(s) \/ Pends(s) \/ Joins(s) \/ Drops(s) \/ Closes(s) \/ Frees(s)
      PROVE  connmap'[f] = connmap[f] \/ connmap'[f] = 0
           \/ (connmap'[f] \in live /\ ip[connmap'[f]] # 0 /\ live' = live)
  <2>1. CASE Maps(s)
    BY <1>1, <1>4, <2>1 DEF Maps, SameServers
  <2>2. CASE Opens(s)
    BY <1>1, <1>2, <1>4, <2>2 DEF Opens, SameServers
  <2>3. CASE Joins(s)
    BY <1>1, <1>2, <1>4, <2>3 DEF Joins, SameServers
  <2>4. CASE Closes(s)
    BY <1>1, <2>4 DEF Closes
  <2>5. CASE Pends(s) \/ Drops(s) \/ Frees(s)
    BY <2>5 DEF Pends, Drops, Frees, SameConnections
  <2> QED
    BY <1>4, <2>1, <2>2, <2>3, <2>4, <2>5
<1> QED
  BY <1>3, <1>4 DEF WorkStep

\* What is buffered was buffered before, was read, or is found.
LEMMA BufferFrom ==
  ASSUME SafeFrees, EngineInv, Working, [NextScheduler]_all, ~EndWork, NEW i \in DOMAIN buffer'
  PROVE  \/ \E j \in DOMAIN buffer : buffer'[i] = buffer[j]
         \/ \E f \in Ids : connmap[f] # 0 /\ buffer'[i] = connmap[f]
         \/ buffer'[i] \in live' /\ ip'[buffer'[i]] # 0
<1>1. buffer \in Seq(Ids) /\ polled \subseteq Ids
  BY Basics DEF EngineTypes
<1>2. CASE stack # <<>>
  BY <1>2, InputKept
<1>3. CASE Rests \/ EndReceive
  BY <1>3 DEF Rests, EndReceive
<1>4. CASE Poll
  <2>1. buffer' = buffer
    BY <1>4 DEF Poll
  <2> QED
    BY <2>1
<1>5. CASE Receive
  <2>1. PICK f \in polled : connmap[f] # 0 /\ (buffer' = Append(buffer, connmap[f]) \/ buffer' = buffer)
    BY <1>5 DEF Receive
  <2>2. buffer' = Append(buffer, connmap[f]) => buffer'[i] = connmap[f] \/ \E j \in DOMAIN buffer : buffer'[i] = buffer[j]
    BY <1>1
  <2> QED
    BY <1>1, <2>1, <2>2
<1>6. CASE Handle
  <2>1. buffer' = Tail(buffer) /\ buffer # <<>>
    BY <1>6, HandleDoes
  <2>2. i + 1 \in DOMAIN buffer /\ buffer'[i] = buffer[i + 1]
    BY <1>1, <2>1
  <2> QED
    BY <2>2
<1>7. CASE HandleBroadcast
  <2>1. buffer # <<>>
    BY <1>7 DEF HandleBroadcast
  <2>2. PICK s \in Ids : buffer' = <<s>> \o Tail(buffer) /\ s \in live' /\ ip'[s] # 0
    BY <1>7, BroadcastFinds
  <2>3. i # 1 => i \in DOMAIN buffer /\ buffer'[i] = buffer[i]
    BY <1>1, <2>1, <2>2
  <2>4. buffer'[1] = s
    BY <1>1, <2>1, <2>2
  <2> QED
    BY <2>2, <2>3, <2>4
<1> QED
  BY <1>2, <1>3, <1>4, <1>5, <1>6, <1>7, LoopSteps

-----------------------------------------------------------------------------
\* The pointers stay live.

LEMMA AddressesKept ==
  ASSUME EngineInv, WorkStep, NEW s \in Ptrs, s # 0, ip[s] # 0
  PROVE  s \in 1 .. count /\ ip'[s] = ip[s]
<1>1. s \in Ids /\ count \in Nat
  BY Basics DEF Ptrs, Ids
<1>2. s \in 1 .. count
  BY <1>1 DEF EngineInv, Fresh, Ids
<1> QED
  BY <1>2, WorkEffects

LEMMA BufferingKept ==
  ASSUME SafeFrees, EngineInv, Working, [NextScheduler]_all, ~EndWork
  PROVE  Buffering'
<1>1. WorkStep /\ Buffering /\ connmap \in [Ids -> Ptrs] /\ buffer \in Seq(Ids) /\ Ids \subseteq Ptrs
      /\ 0 \notin Ids
  BY WorkKinds, Basics DEF EngineInv, EngineTypes
<1>2. ASSUME NEW f \in Ids, connmap'[f] # 0
      PROVE  ip'[connmap'[f]] # 0
  <2>1. connmap'[f] \in Ptrs /\ ip[connmap'[f]] # 0
    <3>1. CASE connmap'[f] = connmap[f]
      BY <1>1, <1>2, <3>1 DEF Buffering
    <3>2. CASE connmap'[f] \in live /\ ip[connmap'[f]] # 0
      BY <1>1, <3>2, Basics
    <3> QED
      BY <1>1, <1>2, <3>1, <3>2, ConnmapFrom
  <2> QED
    BY <1>1, <1>2, <2>1, AddressesKept
<1>3. ASSUME NEW i \in DOMAIN buffer'
      PROVE  ip'[buffer'[i]] # 0
  <2>1. CASE \E j \in DOMAIN buffer : buffer'[i] = buffer[j]
    <3>1. PICK j \in DOMAIN buffer : buffer'[i] = buffer[j]
      BY <2>1
    <3>2. buffer[j] \in Ids /\ ip[buffer[j]] # 0
      BY <1>1 DEF Buffering
    <3> QED
      BY <1>1, <3>1, <3>2, AddressesKept
  <2>2. CASE \E f \in Ids : connmap[f] # 0 /\ buffer'[i] = connmap[f]
    <3>1. PICK f \in Ids : connmap[f] # 0 /\ buffer'[i] = connmap[f]
      BY <2>2
    <3>2. connmap[f] \in Ptrs /\ ip[connmap[f]] # 0
      BY <1>1, <3>1 DEF Buffering
    <3> QED
      BY <1>1, <3>1, <3>2, AddressesKept
  <2> QED
    BY <1>3, <2>1, <2>2, BufferFrom
<1>4. (main' \notin {"recv", "handle"} => buffer' = <<>>) /\ (main' # "recv" => polled' = {})
  <2>1. CASE stack # <<>>
    BY <1>1, <2>1, InputKept DEF Buffering
  <2>2. CASE Rests
    BY <1>1, <2>2 DEF Buffering, Rests
  <2>3. CASE Poll \/ EndReceive
    BY <2>3 DEF Poll, EndReceive
  <2>4. CASE Receive
    BY <2>4 DEF Receive, At
  <2>5. CASE Handle
    BY <1>1, <2>5, HandleDoes DEF Buffering, At
  <2>6. CASE HandleBroadcast
    BY <1>1, <2>6, BroadcastFinds DEF Buffering
  <2> QED
    BY <2>1, <2>2, <2>3, <2>4, <2>5, <2>6, LoopSteps
<1> QED
  BY <1>2, <1>3, <1>4 DEF Buffering

LEMMA SortedPointersKept ==
  ASSUME SafeFrees, EngineInv, Working, [NextScheduler]_all, ~EndWork, Sort # "none"
  PROVE  PointersSorted'
<1>1. Keeps /\ WorkStep /\ PointersSorted
  BY WorkKinds DEF EngineInv
<1>2. live \subseteq live' /\ options' = options
  BY <1>1, WorkEffects DEF Keeps, Frees
<1>3. ASSUME NEW d \in Depths'
      PROVE  FrameSorted(Frame(d))'
  <2>1. PICK f : f = FrameOf(stack', d)
    OBVIOUS
  <2>2. FrameSorted(f)'
    BY <1>2, <1>3, <2>1, FramesGood DEF GoodFrame, Sort
  <2>3. Frame(d)' = f
    BY <2>1 DEF Frame
  <2> QED
    BY <2>2, <2>3 DEF FrameSorted, Held
<1>4. ASSUME NEW f \in Ids
      PROVE  connmap'[f] \in live' \cup {0}
  BY <1>1, <1>2, ConnmapFrom DEF PointersSorted
<1>5. ASSUME NEW i \in DOMAIN buffer'
      PROVE  buffer'[i] \in live'
  BY <1>1, <1>2, BufferFrom DEF PointersSorted
<1> QED
  BY <1>3, <1>4, <1>5 DEF PointersSorted

LEMMA FreeingPointersKept ==
  ASSUME SafeFrees, EngineInv, Working, [NextScheduler]_all, ~EndWork, Sort = "none"
  PROVE  PointersFreeing'
<1>1. Keeps /\ options' = options /\ PointersFreeing
  BY WorkKinds DEF EngineInv, Keeps
<1>2. ASSUME NEW d \in Depths'
      PROVE  FrameFreeing(Frame(d))'
  <2>1. PICK f : f = FrameOf(stack', d)
    OBVIOUS
  <2>2. FrameFreeing(f)'
    BY <1>1, <1>2, <2>1, FramesGood DEF GoodFrame, Sort
  <2>3. Frame(d)' = f
    BY <2>1 DEF Frame
  <2> QED
    BY <2>2, <2>3 DEF FrameFreeing, Held
<1>3. ASSUME NEW d \in Depths', NEW e \in Depths', d < e, NEW f, f = FrameOf(stack', d),
             NEW g, g = FrameOf(stack', e), Closing(g)
      PROVE  g.s \notin Held(f)
  <2>0. Depth \in Nat /\ Depth' \in Nat /\ d \in Nat /\ e \in Nat /\ e <= Depth'
    BY Shapes DEF Depths
  <2>1. CASE Stays(e, g) \/ Turns(e, g)
    <3>1. stack # <<>> /\ e \in Depths /\ d \in Depths /\ d < Depth /\ Closing(Frame(e)) /\ Frame(e).s = g.s
      <4>1. CASE Stays(e, g)
        BY <1>3, <2>0, <4>1 DEF Stays, Depths
      <4>2. CASE Turns(e, g)
        BY <1>3, <2>0, <4>2, GoodTop DEF Turns, Follows, Depths
      <4> QED
        BY <2>1, <4>1, <4>2
    <3>2. Frame(e).s \notin Held(Frame(d))
      BY <1>1, <1>3, <3>1 DEF PointersFreeing
    <3>3. f = Frame(d)
      <4>1. ~Turns(d, f)
        BY <2>0, <3>1 DEF Turns
      <4>2. ~Starts(d, f)
        BY <1>3, <2>0 DEF Starts
      <4>3. ~StartsUnder(d, f)
        BY <3>1 DEF StartsUnder
      <4> QED
        BY <1>3, <4>1, <4>2, <4>3, Shapes DEF Stays
    <3> QED
      BY <3>1, <3>2, <3>3
  <2>2. CASE Starts(e, g) /\ ~Stays(e, g) /\ ~Turns(e, g)
    <3>1. g.pc = "cleanup" /\ d \in 1 .. e - 1
      <4>1. g.pc = "cleanup"
        BY <1>3, <2>2 DEF Starts, Closing
      <4>2. d >= 1
        BY <1>3 DEF Depths
      <4> QED
        BY <1>3, <2>0, <4>1, <4>2
    <3> QED
      BY <1>3, <2>2, <3>1 DEF Starts
  <2>3. ~StartsUnder(e, g)
    <3>1. d >= 1
      BY <1>3 DEF Depths
    <3> QED
      BY <1>3, <2>0, <3>1 DEF StartsUnder
  <2> QED
    BY <1>3, <2>1, <2>2, <2>3, Shapes
<1>4. ASSUME NEW d \in Depths', NEW e \in Depths', d < e, Closing(Frame(e))'
      PROVE  (Frame(e).s \notin Held(Frame(d)))'
  <2>1. PICK f, g : f = FrameOf(stack', d) /\ g = FrameOf(stack', e)
    OBVIOUS
  <2>2. Frame(d)' = f /\ Frame(e)' = g
    BY <2>1 DEF Frame
  <2>3. Closing(g)
    BY <1>4, <2>2 DEF Closing
  <2>4. g.s \notin Held(f)
    BY <1>3, <1>4, <2>1, <2>3
  <2> QED
    BY <2>2, <2>4 DEF Held
<1> QED
  BY <1>2, <1>4 DEF PointersFreeing

-----------------------------------------------------------------------------
\* The packets in the buffer.

\* A connected server stays so while a function runs that is not closing it.
LEMMA ConnectedKept ==
  ASSUME SafeFrees, EngineInv, Working, Plain, [NextScheduler]_all, ~EndWork, stack # <<>>,
         NEW t \in live, q[t].state = "connected", q[t].fd # 0, Closing(Top) => Top.s # t
  PROVE  /\ t \in live' /\ q'[t].fd = q[t].fd /\ q'[t].state = "connected"
         /\ connmap'[q[t].fd] = t
<1>1. Keeps /\ WorkStep /\ q \in [Ids -> QueryStates] /\ t \in Ids /\ t \in 1 .. count /\ Sockets
  BY WorkKinds, Basics DEF EngineTypes, EngineInv
<1>2. ASSUME NEW s, NEW r, Alters(s, r)
      PROVE  q'[t] = IF t = s THEN r ELSE q[t]
  BY <1>1, <1>2 DEF Alters
<1>3. t \in live' /\ q'[t].fd = q[t].fd /\ q'[t].state = "connected"
  <2>1. CASE Quiet
    BY <1>1, <1>2, <2>1 DEF Quiet, SameSocket, SameServers
  <2>2. CASE CleanupCloses
    <3>1. Closes(Top.s) /\ Closing(Top)
      BY <2>2, CleanupClosesKind DEF CleanupCloses, In, Closing
    <3> QED
      BY <1>2, <3>1 DEF Closes, SameServers
  <2>3. CASE DisplayClosed
    <3>1. Closing(Top) /\ q' = q
      BY <2>3 DEF DisplayClosed, In, Closing, state
    <3>2. CASE Sort = "none"
      <4>1. live' = live \ {Top.s}
        BY <2>3, <3>2, CloseEffect DEF DisplayClosed
      <4> QED
        BY <3>1, <4>1
    <3>3. CASE Sort # "none"
      BY <2>3, <3>1, <3>3 DEF DisplayClosed, vars
    <3> QED
      BY <3>2, <3>3
  <2>4. ASSUME NEW s \in live, Maps(s) \/ Opens(s) \/ Pends(s) \/ Joins(s) \/ Drops(s), ~CleanupCloses
        PROVE  t \in live' /\ q'[t].fd = q[t].fd /\ q'[t].state = "connected"
    BY <1>2, <2>4 DEF Maps, Opens, Pends, Joins, Drops, SameServers
  <2>5. ASSUME NEW s \in live, Closes(s), ~CleanupCloses
        PROVE  t \in live' /\ q'[t].fd = q[t].fd /\ q'[t].state = "connected"
    <3>1. s \in closed
      BY <2>5, InputKept DEF Closes
    <3>2. s # t
      BY <1>1, <3>1 DEF Sockets
    <3> QED
      BY <1>2, <2>5, <3>2 DEF Closes, SameServers
  <2>6. ASSUME NEW s \in live, Frees(s), ~DisplayClosed
        PROVE  FALSE
    <3>1. live \subseteq live'
      BY <2>6, InputKept
    <3> QED
      BY <2>6, <3>1 DEF Frees
  <2>7. CASE \E d \in Discovered : FindsServer(d)
    <3>1. PICK d \in Discovered : FindsServer(d)
      BY <2>7
    <3>2. t # count + 1
      BY <1>1, Basics
    <3> QED
      BY <1>1, <3>1, <3>2, FoundServer
  <2> QED
    BY <1>1, <2>1, <2>2, <2>3, <2>4, <2>5, <2>6, <2>7 DEF WorkStep
<1>4. connmap'[q[t].fd] = t
  <2>1. Sockets'
    BY <1>1, SocketsKept
  <2>2. \A s \in live' : (q[s].fd)' # 0 =>
          (q[s].state)' = "connecting" \/ ((q[s].state)' = "connected" /\ (connmap[q[s].fd])' = s)
    BY <2>1 DEF Sockets
  <2>3. (q[t].fd)' = q[t].fd /\ (q[t].state)' = "connected"
    BY <1>3
  <2> QED
    BY <1>3, <2>2, <2>3
<1> QED
  BY <1>3, <1>4

\* While a function runs nothing happens to the packets that wait.
LEMMA WaitingKept ==
  ASSUME SafeFrees, EngineInv, Working, Once, [NextScheduler]_all, ~EndWork, stack # <<>>
  PROVE  /\ buffer' = buffer /\ polled' = polled
         /\ \A i \in DOMAIN buffer : /\ buffer[i] \in live' /\ q'[buffer[i]].fd = q[buffer[i]].fd
                                     /\ q[buffer[i]].fd # 0 /\ q'[buffer[i]].state = "connected"
                                     /\ ip'[buffer[i]] = ip[buffer[i]]
                                     /\ Broadcasts(setup) => Broadcast(buffer[i])
         /\ \A f \in polled : connmap'[f] = connmap[f]
<1>1. BufferedOnce /\ Plain /\ polled \subseteq Ids /\ WorkStep
  BY WorkKinds, Basics DEF Once, EngineInv, EngineTypes
<1>2. Closing(Top) => /\ \A i \in DOMAIN buffer : buffer[i] # Top.s
                      /\ \A f \in polled : connmap[f] # Top.s
  BY <1>1, GoodTop DEF BufferedOnce
<1>3. ASSUME NEW i \in DOMAIN buffer
      PROVE  /\ buffer[i] \in live' /\ q'[buffer[i]].fd = q[buffer[i]].fd
             /\ q[buffer[i]].fd # 0 /\ q'[buffer[i]].state = "connected"
             /\ ip'[buffer[i]] = ip[buffer[i]]
             /\ Broadcasts(setup) => Broadcast(buffer[i])
  <2>1. Broadcasts(setup) => Broadcast(buffer[i])
    BY <1>1 DEF BufferedOnce
  <2>2. buffer[i] \in live /\ q[buffer[i]].fd # 0 /\ q[buffer[i]].state = "connected"
    BY <1>1, <2>1 DEF BufferedOnce
  <2>3. ip'[buffer[i]] = ip[buffer[i]]
    BY <1>1, <2>2, Basics, WorkEffects
  <2> QED
    BY <1>1, <1>2, <2>1, <2>2, <2>3, ConnectedKept
<1>4. ASSUME NEW f \in polled
      PROVE  connmap'[f] = connmap[f]
  <2>1. connmap[f] # 0 /\ f \in Ids
    BY <1>1 DEF BufferedOnce
  <2>2. connmap[f] \in live /\ q[connmap[f]].fd = f /\ q[connmap[f]].state = "connected"
    BY <1>1, <2>1 DEF EngineInv, Sockets
  <2>3. f # 0
    BY <2>1, Basics
  <2> QED
    BY <1>1, <1>2, <2>2, <2>3, ConnectedKept
<1> QED
  BY <1>3, <1>4, InputKept

LEMMA ClosingUnread ==
  ASSUME SafeFrees, EngineInv, Working, Once, [NextScheduler]_all, ~EndWork,
         NEW d \in Depths', NEW f, f = FrameOf(stack', d), Closing(f)
  PROVE  Unread(f.s)'
<1>1. CASE Stays(d, f) \/ Turns(d, f)
  <2>1. PICK e \in Depths : Closing(Frame(e)) /\ Frame(e).s = f.s /\ stack # <<>>
    <3>1. CASE Stays(d, f)
      BY <3>1 DEF Stays
    <3>2. CASE Turns(d, f)
      BY <3>2, GoodTop DEF Turns, Follows
    <3> QED
      BY <1>1, <3>1, <3>2
  <2>2. /\ \A i \in DOMAIN buffer : buffer[i] # Frame(e).s
        /\ \A g \in polled : connmap[g] # Frame(e).s
    BY <2>1 DEF Once, EngineInv, BufferedOnce
  <2>3. PICK s : s = f.s
    OBVIOUS
  <2>4. Unread(s)'
    BY <2>1, <2>2, <2>3, WaitingKept DEF Unread
  <2> QED
    BY <2>3, <2>4
<1>2. CASE Starts(d, f)
  BY <1>2 DEF Starts, Closing, Begun
<1>3. CASE StartsUnder(d, f)
  BY <1>3 DEF StartsUnder, Begun
<1> QED
  BY <1>1, <1>2, <1>3, Shapes

\* BufferedOnce without what it says of the stack.
PacketsKnown ==
  /\ \A i \in DOMAIN buffer : ~Broadcasts(setup) \/ Broadcast(buffer[i]) =>
       buffer[i] \in live /\ q[buffer[i]].fd # 0 /\ q[buffer[i]].state = "connected"
  /\ \A i \in DOMAIN buffer : Broadcasts(setup) /\ ~Broadcast(buffer[i]) =>
       buffer[i] \in live /\ main = "handle" /\ i = 1 /\ stack = <<>>
  /\ \A i, j \in DOMAIN buffer : buffer[i] = buffer[j] => i = j
  /\ \A f \in polled : connmap[f] # 0 /\ \A i \in DOMAIN buffer : q[buffer[i]].fd # f

LEMMA RunningPackets ==
  ASSUME SafeFrees, EngineInv, Working, Once, [NextScheduler]_all, ~EndWork, stack # <<>>
  PROVE  PacketsKnown'
<1>1. /\ buffer' = buffer /\ polled' = polled /\ setup' = setup
      /\ \A i \in DOMAIN buffer : /\ buffer[i] \in live' /\ q'[buffer[i]].fd = q[buffer[i]].fd
                                  /\ q[buffer[i]].fd # 0 /\ q'[buffer[i]].state = "connected"
                                  /\ ip'[buffer[i]] = ip[buffer[i]]
                                  /\ Broadcasts(setup) => Broadcast(buffer[i])
      /\ \A f \in polled : connmap'[f] = connmap[f]
  BY WaitingKept, WorkKinds DEF Keeps
<1>2. PacketsKnown
  BY DEF EngineInv, Once, BufferedOnce, PacketsKnown
<1> QED
  BY <1>1, <1>2 DEF PacketsKnown, Broadcast

LEMMA RestPackets ==
  ASSUME SafeFrees, EngineInv, Working, Once, Rests \/ EndReceive \/ Poll
  PROVE  PacketsKnown'
<1>1. PacketsKnown /\ Buffering
  BY DEF EngineInv, Once, BufferedOnce, PacketsKnown
<1>2. UNCHANGED <<q, connmap, setup, live, ip>>
  BY DEF Rests, EndReceive, Poll, MoveFirstBind, state, vars, fields
<1>3. CASE buffer' = <<>> /\ \A f \in polled' : connmap[f] # 0
  BY <1>2, <1>3 DEF PacketsKnown
<1>4. CASE Rests /\ UNCHANGED <<main, stack>>
  BY <1>1, <1>2, <1>4 DEF Rests, PacketsKnown, Broadcast
<1>5. CASE Rests /\ buffer = <<>>
  BY <1>1, <1>3, <1>5 DEF Rests, PacketsKnown
<1>6. CASE EndReceive
  <2>1. /\ buffer' = buffer /\ polled' = {} /\ stack' = stack /\ main = "recv"
    BY <1>6 DEF EndReceive, At
  <2> QED
    BY <1>1, <1>2, <2>1 DEF PacketsKnown, Broadcast
<1>7. CASE Poll
  <2>1. buffer' = buffer /\ main = "loop" /\ polled' = {f \in Ids : connmap[f] # 0}
    BY <1>7 DEF Poll, At
  <2> QED
    BY <1>1, <1>3, <2>1 DEF Buffering
<1> QED
  BY <1>4, <1>5, <1>6, <1>7 DEF Rests

LEMMA ReceivePackets ==
  ASSUME SafeFrees, EngineInv, Once, Receive
  PROVE  PacketsKnown'
<1>1. /\ Working /\ main = "recv" /\ stack = <<>> /\ UNCHANGED <<live, ip, setup, connmap, main>>
      /\ polled \subseteq Ids /\ buffer \in Seq(Ids) /\ 0 \notin Ids /\ q \in [Ids -> QueryStates]
  BY Basics DEF Receive, At, Working, vars, fields, EngineTypes
<1>2. PacketsKnown /\ Sockets
  BY <1>1 DEF EngineInv, Once, BufferedOnce, PacketsKnown
<1>3. PICK f \in polled :
       /\ connmap[f] # 0
       /\ polled' = {g \in polled : g > f}
       /\ \/ /\ buffer' = Append(buffer, connmap[f])
             /\ UNCHANGED <<q, stack>>
          \/ /\ q' = [q EXCEPT ![connmap[f]].name = "DOWN"]
             /\ UNCHANGED buffer
  BY DEF Receive
<1>4. PICK s : s = connmap[f]
  OBVIOUS
<1>5. /\ s \in live /\ q[s].fd = f /\ q[s].state = "connected" /\ f \in Ids /\ f # 0 /\ s \in Ids
      /\ s \in 1 .. count
  BY <1>1, <1>2, <1>3, <1>4, Basics DEF Sockets
<1>6. \A i \in DOMAIN buffer : Broadcasts(setup) => Broadcast(buffer[i])
  BY <1>1, <1>2 DEF PacketsKnown
<1>7. \A g \in polled' : g \in polled /\ g # f /\ connmap'[g] # 0
  <2>1. f \in Nat
    BY <1>5 DEF Ids
  <2> QED
    BY <1>1, <1>2, <1>3, <2>1 DEF PacketsKnown
<1>8. CASE buffer' = Append(buffer, s) /\ q' = q /\ stack' = stack
  <2>1. Broadcasts(setup) => Broadcast(s)
    <3>1. SUFFICES ASSUME Broadcasts(setup), ~Broadcast(s)
                   PROVE  FALSE
      OBVIOUS
    <3>2. FoundShown
      BY <1>1, <3>1 DEF EngineInv, Once, Streams
    <3>3. ip[s] # 0
      BY <1>1, <1>3, <1>4, <1>5 DEF EngineInv, Buffering
    <3> QED
      BY <1>5, <3>1, <3>2, <3>3 DEF FoundShown
  <2>2. DOMAIN buffer' = DOMAIN buffer \cup {Len(buffer) + 1} /\ buffer'[Len(buffer) + 1] = s
          /\ Len(buffer) + 1 \notin DOMAIN buffer /\ \A i \in DOMAIN buffer : buffer'[i] = buffer[i]
    BY <1>1, <1>5, <1>8
  <2>3. \A i \in DOMAIN buffer : buffer[i] # s
    BY <1>2, <1>3, <1>5 DEF PacketsKnown
  <2>4. ASSUME NEW i \in DOMAIN buffer'
        PROVE  /\ buffer'[i] \in live /\ q[buffer'[i]].fd # 0 /\ q[buffer'[i]].state = "connected"
               /\ Broadcasts(setup) => Broadcast(buffer'[i])
               /\ \A j \in DOMAIN buffer' : buffer'[i] = buffer'[j] => i = j
               /\ \A g \in polled' : q[buffer'[i]].fd # g
    <3>1. CASE i \in DOMAIN buffer
      <4>1. /\ buffer[i] \in live /\ q[buffer[i]].fd # 0 /\ q[buffer[i]].state = "connected"
            /\ \A j \in DOMAIN buffer : buffer[i] = buffer[j] => i = j
            /\ \A g \in polled : q[buffer[i]].fd # g
        BY <1>2, <1>6, <3>1 DEF PacketsKnown
      <4> QED
        BY <1>6, <1>7, <2>2, <2>3, <3>1, <4>1
    <3>2. CASE i = Len(buffer) + 1
      BY <1>5, <1>7, <2>1, <2>2, <2>3, <3>2
    <3> QED
      BY <2>2, <3>1, <3>2
  <2> QED
    BY <1>1, <1>7, <1>8, <2>4 DEF PacketsKnown, Broadcast
<1>9. CASE q' = [q EXCEPT ![s].name = "DOWN"] /\ buffer' = buffer
  <2>1. \A t \in Ids : q'[t].fd = q[t].fd /\ q'[t].state = q[t].state
    <3>1. q' = [q EXCEPT ![s] = [q[s] EXCEPT !.name = "DOWN"]]
      BY <1>9
    <3>2. [q[s] EXCEPT !.name = "DOWN"].fd = q[s].fd /\ [q[s] EXCEPT !.name = "DOWN"].state = q[s].state
      BY <1>1, <1>5 DEF QueryStates
    <3>3. \A t \in Ids : q'[t] = IF t = s THEN [q[s] EXCEPT !.name = "DOWN"] ELSE q[t]
      BY <1>1, <1>5, <3>1
    <3> QED
      BY <3>2, <3>3
  <2>2. \A i \in DOMAIN buffer : buffer[i] \in Ids
    BY <1>1
  <2>3. \A i \in DOMAIN buffer : /\ buffer[i] \in live /\ q[buffer[i]].fd # 0
                                 /\ q[buffer[i]].state = "connected"
    BY <1>2, <1>6 DEF PacketsKnown
  <2> QED
    BY <1>1, <1>2, <1>6, <1>7, <1>9, <2>1, <2>2, <2>3 DEF PacketsKnown, Broadcast
<1> QED
  BY <1>3, <1>4, <1>8, <1>9

LEMMA HandlePackets ==
  ASSUME SafeFrees, EngineInv, Once, Handle
  PROVE  PacketsKnown'
<1>1. PICK s : s = Head(buffer)
  OBVIOUS
<1>2. /\ Working /\ stack = <<>> /\ main = "handle" /\ buffer # <<>> /\ s \in live
      /\ Answered(s) /\ buffer' = Tail(buffer) /\ UNCHANGED <<live, ip, setup, main, polled>>
  BY <1>1, HandleDoes DEF At, Working, vars, fields
<1>3. PICK r : q' = [q EXCEPT ![s] = r]
  BY <1>2 DEF Answered, AnsweredWith
<1>4. PacketsKnown /\ polled' = {} /\ buffer \in Seq(Ids) /\ q \in [Ids -> QueryStates]
  BY <1>2, Basics DEF EngineInv, Once, BufferedOnce, PacketsKnown, Buffering, EngineTypes
<1>5. ASSUME NEW i \in DOMAIN buffer'
      PROVE  i + 1 \in DOMAIN buffer /\ buffer'[i] = buffer[i + 1] /\ i + 1 # 1 /\ i \in Nat
  BY <1>2, <1>4
<1>6. 1 \in DOMAIN buffer /\ buffer[1] = s
  BY <1>1, <1>2, <1>4
<1>7. ASSUME NEW i \in DOMAIN buffer'
      PROVE  /\ buffer'[i] # s /\ buffer'[i] \in Ids
             /\ Broadcasts(setup) => Broadcast(buffer'[i])
             /\ buffer'[i] \in live /\ q[buffer'[i]].fd # 0 /\ q[buffer'[i]].state = "connected"
  BY <1>4, <1>5, <1>6 DEF PacketsKnown
<1>8. \A i, j \in DOMAIN buffer' : buffer'[i] = buffer'[j] => i = j
  <2>1. ASSUME NEW i \in DOMAIN buffer', NEW j \in DOMAIN buffer', buffer'[i] = buffer'[j]
        PROVE  i = j
    <3>1. i + 1 = j + 1
      BY <1>4, <1>5, <2>1 DEF PacketsKnown
    <3> QED
      BY <1>5, <3>1
  <2> QED
    BY <2>1
<1>9. ASSUME NEW i \in DOMAIN buffer'
      PROVE  q'[buffer'[i]] = q[buffer'[i]]
  <2>1. PICK t : t = buffer'[i]
    OBVIOUS
  <2>2. t \in Ids /\ t # s
    <3>1. buffer'[i] \in Ids /\ buffer'[i] # s
      BY <1>7, <1>9, Zenon
    <3> QED
      BY <2>1, <3>1
  <2> QED
    BY <1>3, <1>4, <2>1, <2>2
<1> QED
  BY <1>2, <1>4, <1>7, <1>8, <1>9 DEF PacketsKnown, Broadcast

LEMMA BroadcastPackets ==
  ASSUME SafeFrees, EngineInv, Once, HandleBroadcast
  PROVE  PacketsKnown'
<1>1. /\ Working /\ stack = <<>> /\ main = "handle" /\ buffer # <<>> /\ Head(buffer) \in live
      /\ Broadcast(Head(buffer)) /\ UNCHANGED <<connmap, main, stack, polled>>
  BY BroadcastFinds
<1>2. PICK s \in Ids :
        /\ buffer' = <<s>> \o Tail(buffer) /\ s \in live' /\ ip'[s] \notin BroadcastIps
        /\ \/ s \in live /\ UNCHANGED <<live, ip, count, q>>
           \/ /\ s = count + 1 /\ s \notin live /\ live' = live \cup {s}
              /\ \A t \in 1 .. count : ip'[t] = ip[t] /\ q'[t] = q[t]
  BY BroadcastFinds
<1>3. PacketsKnown /\ polled' = {} /\ buffer \in Seq(Ids) /\ live \subseteq 1 .. count /\ setup' = setup
  <2>1. setup' = setup
    BY DEF HandleBroadcast
  <2> QED
    BY <1>1, <2>1, Basics DEF EngineInv, Once, BufferedOnce, PacketsKnown, Buffering, EngineTypes
<1>4. Broadcasts(setup)
  BY <1>1, <1>3 DEF EngineInv, Origins, Origin
<1>5. 1 \in DOMAIN buffer /\ Head(buffer) = buffer[1] /\ Len(buffer) \in Nat \ {0}
  BY <1>1, <1>3
<1>6. \A i \in DOMAIN buffer : Broadcast(buffer[i]) /\ buffer[i] \in live /\ q[buffer[i]].fd # 0
          /\ q[buffer[i]].state = "connected"
  BY <1>1, <1>3, <1>4, <1>5 DEF PacketsKnown
<1>7. DOMAIN buffer' = DOMAIN buffer /\ buffer'[1] = s /\ \A i \in DOMAIN buffer : i # 1 => buffer'[i] = buffer[i]
  BY <1>2, <1>3, <1>5
<1>8. \A t \in live : t \in live' /\ ip'[t] = ip[t] /\ q'[t] = q[t]
  BY <1>2, <1>3
<1>9. \A i \in DOMAIN buffer : i # 1 => buffer[i] # s
  BY <1>2, <1>6, <1>8 DEF Broadcast
<1>10. ASSUME NEW i \in DOMAIN buffer', i # 1
       PROVE  /\ buffer'[i] = buffer[i] /\ buffer'[i] # s
              /\ buffer'[i] \in live' /\ q'[buffer'[i]].fd # 0 /\ q'[buffer'[i]].state = "connected"
              /\ ip'[buffer'[i]] \in BroadcastIps
  BY <1>6, <1>7, <1>8, <1>9, <1>10 DEF Broadcast
<1>11. \A i, j \in DOMAIN buffer' : buffer'[i] = buffer'[j] => i = j
  <2>1. ASSUME NEW i \in DOMAIN buffer', NEW j \in DOMAIN buffer', buffer'[i] = buffer'[j]
        PROVE  i = j
    <3>1. CASE i = 1 \/ j = 1
      BY <1>7, <1>10, <2>1, <3>1
    <3>2. CASE i # 1 /\ j # 1
      BY <1>3, <1>7, <1>10, <2>1, <3>2 DEF PacketsKnown
    <3> QED
      BY <3>1, <3>2
  <2> QED
    BY <2>1
<1>12. \A i \in DOMAIN buffer' :
         /\ buffer'[i] \in live'
         /\ ip'[buffer'[i]] \in BroadcastIps => q'[buffer'[i]].fd # 0 /\ q'[buffer'[i]].state = "connected"
         /\ ip'[buffer'[i]] \notin BroadcastIps => i = 1
  <2>1. ASSUME NEW i \in DOMAIN buffer'
        PROVE  /\ buffer'[i] \in live'
               /\ ip'[buffer'[i]] \in BroadcastIps => q'[buffer'[i]].fd # 0 /\ q'[buffer'[i]].state = "connected"
               /\ ip'[buffer'[i]] \notin BroadcastIps => i = 1
    BY <1>2, <1>7, <1>10, <2>1
  <2> QED
    BY <2>1
<1>13. main' = "handle" /\ stack' = <<>> /\ polled' = {} /\ setup' = setup /\ Broadcasts(setup)
  BY <1>1, <1>3, <1>4
<1> HIDE DEF HandleBroadcast
<1> QED
  BY <1>11, <1>12, <1>13 DEF PacketsKnown, Broadcast

LEMMA BufferedOnceKept ==
  ASSUME SafeFrees, EngineInv, Working, Once, [NextScheduler]_all, ~EndWork
  PROVE  BufferedOnce'
<1>1. PacketsKnown'
  BY LoopSteps, RunningPackets, RestPackets, ReceivePackets, HandlePackets, BroadcastPackets
<1>2. ASSUME NEW d \in Depths', Closing(Frame(d))'
      PROVE  Unread(Frame(d).s)'
  <2>1. PICK f : f = FrameOf(stack', d)
    OBVIOUS
  <2>2. Frame(d)' = f
    BY <2>1 DEF Frame
  <2>3. Closing(f)
    BY <1>2, <2>2 DEF Closing
  <2>4. Unread(f.s)'
    BY <1>2, <2>1, <2>3, ClosingUnread
  <2> QED
    BY <2>2, <2>4 DEF Unread
<1> QED
  BY <1>1, <1>2 DEF BufferedOnce, PacketsKnown, Unread

-----------------------------------------------------------------------------
\* Servers found by a broadcast.

\* Where a broadcast is among the arguments, every type is one with a single reply.
LEMMA StreamTypes ==
  ASSUME SafeFrees, EngineInv, Streams
  PROVE  /\ Once /\ Plain /\ ~HasMasters(setup)
         /\ \A s \in 1 .. count : ~Is(s, Q1Types \cup Q3Types \cup MasterTypes) /\ ~Is(s, TcpTypes)
<1>1. Plain /\ Sort = "none" /\ Broadcasts(setup)
  BY Provisos DEF Streams
<1>2. CmdTypes(setup) \cap (Q1Types \cup Q3Types \cup MasterTypes \cup TcpTypes) = {}
  BY <1>1 DEF Plain, BroadcastsOneReply
<1>3. ~HasMasters(setup)
  BY <1>2 DEF HasMasters
<1>4. \A s \in 1 .. count : type[s] \in CmdTypes(setup)
  BY <1>1, <1>3 DEF EngineInv, Origins, Origin
<1> QED
  BY <1>1, <1>2, <1>3, <1>4 DEF Once, Is

\* A named server without a socket gets none.
LEMMA ClosedKept ==
  ASSUME EngineInv, WorkStep, Plain, NEW s \in 1 .. count, q[s].name # NoName, q[s].fd = 0,
         ~Is(s, TcpTypes)
  PROVE  q'[s].name # NoName /\ q'[s].fd = 0
<1>1. q \in [Ids -> QueryStates] /\ s \in Ids
  BY Basics DEF EngineTypes
<1>2. ASSUME NEW t, NEW r, Alters(t, r)
      PROVE  q'[s] = IF t = s THEN r ELSE q[s]
  BY <1>1, <1>2 DEF Alters
<1>3. q'[s].name # NoName
  BY WorkEffects
<1>4. CASE Quiet
  BY <1>1, <1>2, <1>3, <1>4 DEF Quiet, SameSocket
<1>5. ASSUME NEW t \in live, Maps(t) \/ Opens(t) \/ Pends(t) \/ Joins(t) \/ Drops(t) \/ Closes(t) \/ Frees(t)
      PROVE  q'[s].fd = 0
  <2>1. CASE Opens(t) \/ Pends(t) \/ Drops(t) \/ Closes(t)
    BY <1>2, <2>1 DEF Opens, Pends, Drops, Closes
  <2>2. CASE Joins(t)
    BY <1>2, <2>2 DEF Joins
  <2>3. CASE Frees(t)
    BY <2>3 DEF Frees
  <2> QED
    BY <1>5, <2>1, <2>2, <2>3 DEF Maps
<1>6. CASE \E d \in Discovered : FindsServer(d)
  <2>1. PICK d \in Discovered : FindsServer(d)
    BY <1>6
  <2>2. s # count + 1
    BY Basics
  <2> QED
    BY <1>1, <1>3, <2>1, <2>2, FoundServer
<1> QED
  BY <1>3, <1>4, <1>5, <1>6 DEF WorkStep

\* A server found by a broadcast that has no name yet.
LEMMA UnnamedShown ==
  ASSUME SafeFrees, EngineInv, Working, Streams, [NextScheduler]_all, ~EndWork,
         NEW s \in 1 .. count, ip[s] # 0, ~Broadcast(s), q[s].name = NoName
  PROVE  /\ q'[s].fd = 0
         /\ \/ q'[s].name # NoName
            \/ stack' = <<>> /\ main' = "handle" /\ buffer' # <<>> /\ s = Head(buffer')
            \/ stack' # <<>> /\ Head(stack').pc = "cleanup" /\ Head(stack').s = s
<1>1. /\ q[s].fd = 0
      /\ \/ stack = <<>> /\ main = "handle" /\ buffer # <<>> /\ s = Head(buffer)
         \/ stack # <<>> /\ Top.pc = "cleanup" /\ Top.s = s
  BY DEF EngineInv, FoundShown
<1>2. q \in [Ids -> QueryStates] /\ s \in Ids
  BY Basics DEF EngineTypes
<1>3. CASE stack # <<>> /\ Top.pc = "cleanup" /\ Top.s = s
  <2>1. CASE CleanupCloses
    <3>1. q'[s] = [q[s] EXCEPT !.name = ClosedName(s), !.fd = 0]
      BY <1>2, <1>3, <2>1 DEF CleanupCloses
    <3>2. ClosedName(s) # NoName
      BY DEF ClosedName, NoName
    <3> QED
      BY <1>2, <3>1, <3>2 DEF QueryStates
  <2>2. ~CleanupKeeps
    BY <1>3 DEF CleanupKeeps, MustClose
  <2>3. CASE UNCHANGED all
    BY <1>1, <1>3, <2>3 DEF all, state, Top
  <2>4. ~LoadServers
    BY LoadCmdLine DEF Working
  <2>5. ~FinishOutput
    BY FinishEffect DEF FinishOutput, Working
  <2>6. ~BindLoop
    BY <1>3 DEF BindLoop, BindSockets, SkipServer, BindServer, Bound, EndWalk, EndPass, PassServer,
              ConnectServer, Joined, BindReturns, Walking, Passing, In
  <2>7. ~SendPackets
    BY <1>3 DEF SendPackets, EndSend, SendWaits, SendGivesUp, SendAgain, RulesGivenUp, AskDetails, Sending, In
  <2>8. ~(DisplayClosed \/ AddReported \/ NextMaster \/ MastersAdded)
    BY <1>3 DEF DisplayClosed, AddReported, NextMaster, MastersAdded, In
  <2>9. ~DoWork /\ ~Receive /\ ~Clock
    BY <1>3 DEF DoWork, StartLoop, FirstSend, RetryBind, Poll, EndReceive, Handle, HandleBroadcast,
                EndHandle, Rebind, At, Receive, Clock, SendIntervalEnds, Expire1, Expire2, TimePasses, In
  <2> QED
    BY <2>1, <2>2, <2>3, <2>4, <2>5, <2>6, <2>7, <2>8, <2>9 DEF NextScheduler, Program, CleanupServer
<1>4. CASE stack = <<>> /\ main = "handle" /\ buffer # <<>> /\ s = Head(buffer)
  <2>1. CASE Handle
    <3>1. Answered(s)
      BY <1>4, <2>1, HandleDoes
    <3>2. PICK r : AnsweredWith(s, r)
      BY <3>1 DEF Answered
    <3>3. ~Is(s, Q1Types \cup Q3Types \cup MasterTypes) /\ ~Is(s, Q1Types \cup Q3Types) /\ ~Is(s, MasterTypes)
      BY StreamTypes DEF Is
    <3>4. q'[s] = r /\ r.fd = 0
      BY <1>1, <1>2, <3>2, <3>3 DEF AnsweredWith, SameSocket
    <3>5. PICK force \in BOOLEAN : stack' = <<Cleanup(s, force)>>
      BY <3>2, <3>3 DEF AnsweredWith
    <3>6. stack' # <<>> /\ Head(stack') = Cleanup(s, force)
      BY <3>5
    <3> QED
      BY <3>4, <3>6 DEF Cleanup
  <2>2. CASE Rests
    BY <1>1, <1>4, <2>2 DEF Rests
  <2>3. ~Poll /\ ~Receive /\ ~EndReceive
    BY <1>4 DEF Poll, Receive, EndReceive, At
  <2>4. ~HandleBroadcast
    BY <1>4 DEF HandleBroadcast
  <2> QED
    BY <1>4, <2>1, <2>2, <2>3, <2>4, LoopSteps
<1> QED
  BY <1>1, <1>3, <1>4

LEMMA FoundShownKept ==
  ASSUME SafeFrees, EngineInv, Working, Streams, [NextScheduler]_all, ~EndWork
  PROVE  FoundShown'
<1>1. WorkStep /\ count \in Nat /\ 1 .. count \subseteq Ids
  BY WorkKinds, Basics DEF Ids
<1>2. ASSUME NEW s \in 1 .. count', ip'[s] # 0, ip'[s] \notin BroadcastIps
      PROVE  /\ q'[s].fd = 0
             /\ \/ q'[s].name # NoName
                \/ stack' = <<>> /\ main' = "handle" /\ buffer' # <<>> /\ s = Head(buffer')
                \/ stack' # <<>> /\ Head(stack').pc = "cleanup" /\ Head(stack').s = s
  <2>1. CASE s \in 1 .. count
    <3>1. ip[s] # 0 /\ ~Broadcast(s)
      BY <1>1, <1>2, <2>1, WorkEffects DEF Broadcast
    <3>2. CASE q[s].name = NoName
      BY <2>1, <3>1, <3>2, UnnamedShown
    <3>3. CASE q[s].name # NoName
      <4>1. q[s].fd = 0
        BY <2>1, <3>1 DEF EngineInv, FoundShown
      <4> QED
        BY <1>1, <2>1, <3>3, <4>1, ClosedKept, StreamTypes
    <3> QED
      BY <3>2, <3>3
  <2>2. CASE s \notin 1 .. count
    <3>1. PICK d \in Discovered : FindsServer(d)
      <4>1. count' # count
        BY <1>2, <2>2
      <4> QED
        BY <1>1, <4>1, WorkEffects
    <3>2. s = count + 1 /\ count' # count
      BY <1>1, <1>2, <2>2, <3>1, FoundServer
    <3>3. HandleBroadcast
      <4>1. CASE stack # <<>>
        <5>1. AddReported
          BY <3>2, <4>1, InputKept
        <5>2. HasMasters(setup)
          BY <4>1, <5>1, GoodTop DEF AddReported, In, GoodFrame, FrameKnown
        <5> QED
          BY <5>2, StreamTypes
      <4>2. CASE stack = <<>>
        <5>1. ~Rests /\ ~Poll /\ ~Receive /\ ~EndReceive
          BY <3>2 DEF Rests, Poll, MoveFirstBind, Receive, EndReceive, vars
        <5>2. ~Handle
          BY <3>2, HandleDoes DEF vars
        <5> QED
          BY <4>2, <5>1, <5>2, LoopSteps
      <4> QED
        BY <4>1, <4>2
    <3>4. buffer # <<>> /\ stack' = <<>> /\ main' = "handle"
      BY <3>3, BroadcastFinds
    <3>5. PICK t \in Ids :
            /\ buffer' = <<t>> \o Tail(buffer)
            /\ \/ UNCHANGED <<live, ip, count, q>>
               \/ t = count + 1 /\ q'[t].fd = 0
      BY <3>3, BroadcastFinds
    <3>6. t = s /\ q'[s].fd = 0
      BY <3>2, <3>5
    <3>7. buffer' # <<>> /\ Head(buffer') = t
      <4>1. buffer \in Seq(Ids)
        BY Basics DEF EngineTypes
      <4> QED
        BY <3>4, <3>5, <4>1
    <3> QED
      BY <3>4, <3>6, <3>7
  <2> QED
    BY <2>1, <2>2
<1> QED
  BY <1>2 DEF FoundShown, Broadcast, Top

-----------------------------------------------------------------------------
\* The inductive invariant.

LEMMA InitEngine ==
  ASSUME SafeFrees, InitScheduler
  PROVE  EngineInv
<1>1. /\ ListInv /\ HashIndexesLive
  <2>1. HashIndexesLive
    BY DEF InitScheduler, InitList, HashIndexesLive
  <2> QED
    BY <2>1, InitInv DEF InitScheduler, SafeFrees
<1>2. /\ NRetries \in Nat \ {0} /\ MaxPlayers \in Nat /\ MaxReport \in Nat /\ MaxServers \in Nat
      /\ setup \in Scenarios /\ setup.rules \in BOOLEAN /\ setup.budget \in Nat
  BY SchedulerAssumption, ServerListAssumption DEF InitScheduler
<1>3. 0 \in Ptrs /\ 0 \in 0 .. MaxPlayers /\ 0 \in 0 .. MaxReport
  BY <1>2 DEF Ptrs
<1>4. ASSUME NEW a
      PROVE  NewQuery(a) \in QueryStates
  <2>1. PICK n, t : /\ n = NewQuery(a).name /\ t = NewQuery(a).retry1 /\ t = NewQuery(a).retry2
                    /\ n \in Names /\ t \in Int
    BY <1>2 DEF NewQuery, Names
  <2>2. NewQuery(a) = [name |-> n, fd |-> 0, state |-> "init", retry1 |-> t, retry2 |-> t,
                       rules |-> GetRules, players |-> 0, heard |-> FALSE, report |-> 0]
    BY <2>1 DEF NewQuery
  <2>3. GetRules \in BOOLEAN /\ "init" \in States
    BY <1>2 DEF GetRules, States
  <2> QED
    BY <1>3, <2>1, <2>2, <2>3 DEF QueryStates
<1>5. EngineTypes
  <2>1. setup \in Scenarios /\ Sort = setup.sort /\ q \in [Ids -> QueryStates]
    BY <1>2, <1>4 DEF InitScheduler, Sort
  <2>2. connmap \in [Ids -> Ptrs] /\ asked \in [Ids -> Nat]
    BY <1>3 DEF InitScheduler
  <2>3. /\ connected \in Int /\ waiting \in Int /\ returned \in Nat /\ timedOut \in Nat
        /\ bindRetry \in {0, -2} /\ budget \in Nat
    <3>1. connected = 0 /\ waiting = 0 /\ returned = 0 /\ timedOut = 0 /\ bindRetry = 0 /\ budget = setup.budget
      BY DEF InitScheduler
    <3> QED
      BY <1>2, <3>1
  <2>4. stack \in Seq(Frames) /\ buffer \in Seq(Ids)
    BY DEF InitScheduler
  <2>5. /\ main \in {"start", "first", "loop", "recv", "handle", "rebind"}
        /\ polled \subseteq Ids /\ due1 \subseteq Ids /\ due2 \subseteq Ids /\ closed \subseteq 1 .. count
        /\ recent \in BOOLEAN
    BY DEF InitScheduler
  <2> QED
    BY <2>1, <2>2, <2>3, <2>4, <2>5 DEF EngineTypes
<1>6. phase = "args" /\ count = 0 /\ ~adding.on /\ ip = [s \in Ids |-> 0] /\ next = [s \in Ids |-> 0]
      /\ cmdline = setup.cmdline
  BY DEF InitScheduler, InitList, Idle
<1>7. NotStarted /\ Fresh /\ NextAhead
  BY <1>6 DEF InitScheduler, NotStarted, Fresh, NextAhead
<1>8. Origins
  BY <1>6 DEF Origins, FromCmdLine
<1> QED
  BY <1>1, <1>5, <1>6, <1>7, <1>8 DEF EngineInv, Working

LEMMA WorkKept ==
  ASSUME SafeFrees, EngineInv, Working, [NextScheduler]_all, ~EndWork
  PROVE  NotStarted' /\ Fresh' /\ Origins' /\ WorkInv'
<1>1. Keeps /\ WorkStep
  BY WorkKinds
<1>2. options' = options /\ setup' = setup /\ phase' = phase
  BY <1>1 DEF Keeps
<1>3. NotStarted' /\ Fresh' /\ Origins'
  BY <1>1, <1>2, FreshKept, OriginsKept DEF Working, NotStarted
<1>4. /\ Plain' = Plain /\ Streams' = Streams /\ Sort' = Sort
      /\ Broadcasts(setup)' = Broadcasts(setup)
  BY <1>2 DEF Plain, Streams, Sort
<1>5. Plain => Sockets' /\ Settled'
  BY <1>1, SocketsKept, SettledKept
<1>6. Buffering' /\ StackKnown'
  BY BufferingKept, StackKnownKept
<1>7. Plain /\ (~Broadcasts(setup) \/ Sort = "none") => BufferedOnce'
  BY BufferedOnceKept DEF Once
<1>8. Streams => FoundShown'
  BY FoundShownKept
<1>9. (Sort # "none" => PointersSorted') /\ (Sort = "none" => PointersFreeing')
  BY SortedPointersKept, FreeingPointersKept
<1> QED
  BY <1>3, <1>4, <1>5, <1>6, <1>7, <1>8, <1>9 DEF WorkInv

\* Before and after do_work.
LEMMA OutsideSteps ==
  ASSUME [NextScheduler]_all, ~Working \/ EndWork
  PROVE  LoadServers \/ EndWork \/ FinishOutput \/ UNCHANGED all
<1>1. ~Working => ~BindLoop /\ ~CleanupServer /\ ~SendPackets /\ ~Receive /\ ~Clock
  BY DEF Working, BindLoop, BindSockets, SkipServer, BindServer, Bound, EndWalk, EndPass, PassServer,
         ConnectServer, Joined, BindReturns, Walking, Passing, In, CleanupServer, CleanupKeeps,
         CleanupCloses, DisplayClosed, AddReported, NextMaster, MastersAdded, SendPackets, EndSend,
         SendWaits, SendGivesUp, SendAgain, RulesGivenUp, AskDetails, Sending, Receive, At, Clock,
         SendIntervalEnds, Expire1, Expire2, TimePasses
<1>2. ~Working => ~(DoWork /\ ~EndWork)
  BY DEF Working, DoWork, StartLoop, FirstSend, RetryBind, Poll, EndReceive, Handle, HandleBroadcast,
         EndHandle, Rebind, At
<1> QED
  BY <1>1, <1>2 DEF NextScheduler, Program

LEMMA OutsideWork ==
  ASSUME SafeFrees, EngineInv, [NextScheduler]_all, ~Working \/ EndWork
  PROVE  NotStarted' /\ Fresh' /\ Origins' /\ WorkInv'
<1>1. EngineTypes'
  BY NextTypes
<1>2. CASE LoadServers
  BY <1>1, <1>2, LoadKept, LoadWork
<1>3. CASE EndWork \/ FinishOutput
  <2>1. /\ UNCHANGED <<options, count, ip, type, cmdline, adding, setup, q, asked>>
        /\ phase' \in {"finish", "done"} /\ (adding.on => phase = "args") /\ phase # "args"
    <3>1. adding.on => phase = "args"
      BY DEF EngineInv, Origins, FromCmdLine
    <3>2. CASE EndWork
      BY <3>1, <3>2 DEF EndWork, StartFinish, state, history, fields
    <3>3. CASE FinishOutput
      BY <3>1, <3>3, FinishEffect DEF FinishOutput, state, history
    <3> QED
      BY <1>3, <3>2, <3>3
  <2>2. NotStarted' /\ WorkInv'
    BY <2>1 DEF NotStarted, WorkInv, Working
  <2>3. Fresh'
    BY <2>1 DEF EngineInv, Fresh, NewQuery, GetRules
  <2>4. FromCmdLine'
    BY <2>1 DEF EngineInv, Origins, FromCmdLine
  <2>5. \A s \in 1 .. count : Origin(s)'
    BY <2>1 DEF EngineInv, Origins, Origin, Broadcast, Is
  <2> QED
    BY <2>1, <2>2, <2>3, <2>4, <2>5 DEF Origins
<1>4. CASE UNCHANGED all
  <2>1. ~Working \/ EndWork
    OBVIOUS
  <2>2. EndWork => phase' # phase
    BY DEF EndWork, StartFinish
  <2>3. ~Working
    BY <1>4, <2>1, <2>2 DEF all, vars
  <2>4. /\ UNCHANGED <<options, phase, cmdline, adding, live, count, fields, setup, q, connmap,
                        connected, returned, timedOut, main, stack, polled, buffer, asked, closed>>
    BY <1>4 DEF all, vars, state, counters, history, input
  <2>5. NotStarted' /\ Fresh' /\ WorkInv'
    BY <2>3, <2>4 DEF EngineInv, NotStarted, Fresh, NewQuery, GetRules, WorkInv, Working, fields
  <2>6. FromCmdLine'
    BY <2>4 DEF EngineInv, Origins, FromCmdLine, fields
  <2>7. \A s \in 1 .. count : Origin(s)'
    BY <2>4 DEF EngineInv, Origins, Origin, Broadcast, Is, fields
  <2> QED
    BY <2>4, <2>5, <2>6, <2>7 DEF Origins
<1> QED
  BY <1>2, <1>3, <1>4, OutsideSteps

LEMMA EngineNext ==
  ASSUME SafeFrees, EngineInv, [NextScheduler]_all
  PROVE  EngineInv'
<1>1. [NextList]_vars
  BY EngineStep
<1>2. ListInv' /\ HashIndexesLive' /\ NextAhead'
  BY <1>1, StepInv, HashKeeps, AheadKept DEF EngineInv
<1>3. EngineTypes'
  BY NextTypes
<1>4. NotStarted' /\ Fresh' /\ Origins' /\ WorkInv'
  <2>1. CASE ~Working \/ EndWork
    BY <2>1, OutsideWork
  <2>2. CASE Working /\ ~EndWork
    BY <2>2, WorkKept
  <2> QED
    BY <2>1, <2>2
<1> QED
  BY <1>2, <1>3, <1>4 DEF EngineInv, WorkInv

-----------------------------------------------------------------------------
\* What it gives.

\* Every reachable state of the engine satisfies the inductive invariant.
THEOREM EngineInvariant ==
  ASSUME SafeFrees
  PROVE  SchedulerSpec => []EngineInv
<1>1. InitScheduler => EngineInv
  BY InitEngine
<1>2. EngineInv /\ [NextScheduler]_all => EngineInv'
  BY EngineNext
<1> QED
  BY <1>1, <1>2, PTL DEF SchedulerSpec

\* do_work, bind_sockets, cleanup_qserver and add_servers_from_masters use the list
\* only as add_qserver, free_server and finish_output allow: no step of theirs is
\* one ServerList.tla does not know.
THEOREM EngineKeepsList ==
  ASSUME SafeFrees
  PROVE  SchedulerSpec => ListSafety
<1>1. InitScheduler => InitList
  BY DEF InitScheduler
<1>2. EngineInv /\ [NextScheduler]_all => [NextList]_vars
  BY EngineStep
<1> QED
  BY <1>1, <1>2, EngineInvariant, PTL DEF SchedulerSpec, ListSafety

\* And so the servers that the command line, the masters and the broadcasts report,
\* and that the engine closes, are a registry.
THEOREM EngineRefinesRegistry ==
  ASSUME SafeFrees
  PROVE  SchedulerSpec => ImplementsRegistry
<1>1. InitScheduler /\ EngineInv => Registry!Init
  <2>1. InitScheduler => InitList
    BY DEF InitScheduler
  <2> QED
    BY <2>1, RegisteredAre, RegistryInit DEF EngineInv
<1>2. EngineInv => Registered
  BY RegisteredAre DEF EngineInv
<1>3. EngineInv /\ Registered /\ Registered' /\ [NextScheduler]_all => [Registry!Next]_<<Walk, Indexed>>
  BY EngineStep, RegistryStep DEF EngineInv
<1> QED
  BY <1>1, <1>2, <1>3, EngineInvariant, PTL
     DEF SchedulerSpec, ImplementsRegistry, Registry!Spec, Indexed

\* So the list of a running qstat is well formed, its cursors live, and its hash exact.
THEOREM EngineListSound ==
  ASSUME SafeFrees
  PROVE  SchedulerSpec => [](ListWellFormed /\ CursorsLive /\ ShownOnce /\ HashIndexesLive)
<1>1. EngineInv => ListWellFormed /\ CursorsLive /\ ShownOnce /\ HashIndexesLive
  BY DEF EngineInv, ListInv
<1> QED
  BY <1>1, EngineInvariant, PTL

\* No function up the call stack is left with a pointer to a server that was freed in a
\* call it made: not bind_sockets when a handler, cleanup_qserver or a master's end
\* runs it again beneath itself, nor cleanup_qserver, add_servers_from_masters, or
\* do_work with its buffered packets.
THEOREM PointersStayLive ==
  ASSUME SafeFrees
  PROVE  SchedulerSpec => []PointersLive
<1>1. ASSUME EngineInv
      PROVE  PointersLive
  <2>1. SUFFICES ASSUME Working
                 PROVE  /\ \A i \in DOMAIN stack : Pointers(stack[i]) \subseteq live \cup {0}
                        /\ \A i \in DOMAIN buffer : buffer[i] \in live
    BY DEF PointersLive, Working
  <2>2. \A i \in DOMAIN buffer : buffer[i] \in live
    BY <1>1, <2>1, LivePointers
  <2>3. ASSUME NEW d \in Depths
        PROVE  Pointers(Frame(d)) \subseteq live \cup {0}
    <3>1. PICK f : f = Frame(d)
      OBVIOUS
    <3>2. f \in Frames /\ Held(f) \subseteq live \cup {0}
      BY <1>1, <2>1, <2>3, <3>1, GoodFrames, LivePointers
    <3>3. CASE Sort # "none"
      <4>1. FrameSorted(f)
        BY <1>1, <2>1, <2>3, <3>1, <3>3 DEF EngineInv, PointersSorted
      <4> QED
        BY <3>1, <3>2, <4>1 DEF Pointers, FrameSorted, Held, WalkPcs
    <3>4. CASE Sort = "none"
      <4>1. FrameFreeing(f)
        BY <1>1, <2>1, <2>3, <3>1, <3>4 DEF EngineInv, PointersFreeing
      <4>2. f.pc \in {"walk", "pass"} => f.inprogress = 0
        BY <4>1 DEF FrameFreeing, WalkPcs
      <4> QED
        BY <3>1, <3>2, <4>1, <4>2 DEF Pointers, FrameFreeing, Held
    <3> QED
      BY <3>3, <3>4
  <2>4. ASSUME NEW i \in DOMAIN stack
        PROVE  Pointers(stack[i]) \subseteq live \cup {0}
    <3>1. stack \in Seq(Frames)
      BY <1>1 DEF EngineInv, EngineTypes
    <3>2. i \in 1 .. Len(stack) /\ Len(stack) \in Nat
      BY <2>4, <3>1
    <3>3. PICK d : d = Len(stack) + 1 - i
      OBVIOUS
    <3>4. d \in Depths /\ Frame(d) = stack[i]
      <4>1. d \in 1 .. Len(stack) /\ Len(stack) + 1 - d = i
        BY <3>2, <3>3
      <4> QED
        BY <4>1 DEF Depths, Depth, Frame, FrameOf
    <3> QED
      BY <2>3, <3>4
  <2> QED
    BY <2>2, <2>4
<1>2. EngineInv => PointersLive
  BY <1>1
<1> QED
  BY <1>2, EngineInvariant, PTL

=============================================================================

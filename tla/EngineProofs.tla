---------------------------- MODULE EngineProofs ----------------------------
(***************************************************************************)
(* The engine keeps to the list: every step of do_work and of what it      *)
(* calls is a step of ServerList.tla, so that what is proved of the list   *)
(* in any order of its steps holds of the program, and no function up the  *)
(* call stack is left with a pointer to a server that was freed beneath    *)
(* it.                                                                     *)
(*                                                                         *)
(* Both are false of some command lines (see README.md).  The provisos     *)
(* below name those for which they hold, the invariants after them say     *)
(* why: which sockets are whose, which packets are buffered, and what each *)
(* function of the call stack holds.                                       *)
(***************************************************************************)
EXTENDS Scheduler, ServerListProofs

-----------------------------------------------------------------------------
\* Provisos.

CmdTypes(sc)   == {sc.cmdline[i].type : i \in DOMAIN sc.cmdline}
Broadcasts(sc) == \E i \in DOMAIN sc.cmdline : sc.cmdline[i].ip \in BroadcastIps
HasMasters(sc) == CmdTypes(sc) \cap MasterTypes # {}

\* What a master or a broadcast reports is a game server queried over UDP, as the
\* `master' fields of the type table say, and add_qserver_byaddr sets no
\* FLAG_BROADCAST.
GamesReported ==
  \A d \in Discovered : d[1] \notin BroadcastIps /\ d[3] \notin MasterTypes \cup TcpTypes

\* A broadcast is for types with one reply: a server found by it needs no socket
\* of its own, which send_rule_request_packet would open and nobody count.
BroadcastsOneReply(sc) ==
  Broadcasts(sc) => CmdTypes(sc) \cap (Q1Types \cup Q3Types \cup MasterTypes \cup TcpTypes) = {}

\* Unsorted, a server is freed as soon as it is displayed.  Freeing is safe unless
\* bind_sockets walks on over what it or a call of its own closes: a server that
\* could not be sent to, one of several connections waited for, or any server
\* that fails to connect beneath a master's cleanup.  Nor may a broadcast reply
\* close a server with a packet of its own in the buffer.
FreesSafely(sc) ==
  sc.sort = "none" =>
    /\ "send" \notin sc.faults /\ CmdTypes(sc) \cap TcpTypes = {}
    /\ "connect" \in sc.faults => ~HasMasters(sc)
    /\ BroadcastsOneReply(sc)
    /\ Broadcasts(sc) => \A i \in DOMAIN sc.cmdline :
         sc.cmdline[i].ip = 0 \/ sc.cmdline[i].ip \in BroadcastIps

SafeFrees == NoUnresolvedRange /\ GamesReported /\ \A sc \in Scenarios : FreesSafely(sc)

-----------------------------------------------------------------------------
\* The call stack, counted from its bottom: a call changes no frame but its own.

FrameOf(st, d) == st[Len(st) + 1 - d]
Depth == Len(stack)
Depths == 1 .. Depth
Frame(d) == FrameOf(stack, d)

WalkPcs == {"walk", "bound", "pass", "joined", "result"}
WalkFrames == [pc : WalkPcs, s : Ptrs, nxt : Ptrs, first : Ptrs, last : Ptrs,
               inprogress : Nat, retries : 0 .. 2]
CleanupFrames == [pc : {"cleanup"}, s : Ids, force : BOOLEAN]
DisplayFrames == [pc : {"display"}, s : Ids]
MasterFrames  == [pc : {"masters"}, s : Ptrs]
SendFrames    == [pc : {"send"}, i : Ptrs]
BindFrames    == [pc : {"bind"}]
Frames == WalkFrames \cup CleanupFrames \cup DisplayFrames \cup MasterFrames \cup SendFrames
            \cup BindFrames

InBind(f)  == f.pc \in WalkPcs \cup {"bind"}
Closing(f) == f.pc \in {"cleanup", "display"}

\* The servers a function uses after the calls it makes.
Held(f) ==
  CASE f.pc \in {"walk", "bound", "pass"} -> {f.s}
    [] f.pc = "joined" -> {f.s, f.nxt}
    [] f.pc \in {"cleanup", "display", "masters"} -> {f.s}
    [] OTHER -> {}

-----------------------------------------------------------------------------
\* The invariants.

Names == {NoName, "some", "HOSTNOTFOUND", "SYSERROR", "TIMEOUT", "DOWN", "MASTER", "SERVERERROR"}
States == {"init", "connecting", "connected", "failed"}
QueryStates == [name : Names, fd : Ptrs, state : States, retry1 : Int, retry2 : Int,
                rules : BOOLEAN, players : 0 .. MaxPlayers, heard : BOOLEAN,
                report : 0 .. MaxReport]

EngineTypes ==
  /\ setup \in Scenarios /\ Sort = setup.sort
  /\ q \in [Ids -> QueryStates] /\ connmap \in [Ids -> Ptrs]
  /\ connected \in Int /\ waiting \in Int /\ returned \in Nat /\ timedOut \in Nat
  /\ main \in {"start", "first", "loop", "recv", "handle", "rebind"} /\ stack \in Seq(Frames)
  /\ polled \subseteq Ids /\ buffer \in Seq(Ids) /\ bindRetry \in {0, -2}
  /\ due1 \subseteq Ids /\ due2 \subseteq Ids /\ recent \in BOOLEAN /\ budget \in Nat
  /\ asked \in [Ids -> Nat] /\ closed \subseteq 1 .. count

\* Before do_work nothing was asked.
NotStarted ==
  phase = "args" =>
    /\ main = "start" /\ stack = <<>> /\ buffer = <<>> /\ polled = {} /\ closed = {}
    /\ connected = 0 /\ returned = 0 /\ timedOut = 0 /\ connmap = [f \in Ids |-> 0]
    /\ \A s \in Ids : q[s] = NewQuery(ip[s]) /\ asked[s] = 0

\* Nor is anything known of a struct that was not handed out.
Fresh == \A s \in Ids : s > count => q[s] = NewQuery(0) /\ asked[s] = 0 /\ ip[s] = 0

\* Every server is from the command line, a master or a broadcast.
FromCmdLine ==
  /\ \A i \in DOMAIN cmdline : \E j \in DOMAIN setup.cmdline : cmdline[i] = setup.cmdline[j]
  /\ adding.on => phase = "args" /\ \E j \in DOMAIN setup.cmdline : adding.arg = setup.cmdline[j]
  /\ phase = "args" => \A s \in 1 .. count : \E j \in DOMAIN setup.cmdline :
       ip[s] = setup.cmdline[j].ip /\ type[s] = setup.cmdline[j].type

Origin(s) ==
  /\ Broadcast(s) => Broadcasts(setup)
  /\ Is(s, MasterTypes) => HasMasters(setup)
  /\ Broadcasts(setup) /\ ~HasMasters(setup) => type[s] \in CmdTypes(setup)
  /\ CmdTypes(setup) \cap TcpTypes = {} => ~Is(s, TcpTypes)
  /\ ip[s] = 0 => q[s].name # NoName /\ q[s].fd = 0 /\ q[s].state = "init"

Origins == FromCmdLine /\ \A s \in 1 .. count : Origin(s)

Working == phase = "work"
Plain   == BroadcastsOneReply(setup)
Streams == Sort = "none" /\ Broadcasts(setup)

\* connmap has the connected sockets, each at its descriptor; what is closed stays
\* closed.
Sockets ==
  /\ \A f \in Ids : connmap[f] # 0 =>
       connmap[f] \in live /\ q[connmap[f]].fd = f /\ q[connmap[f]].state = "connected"
  /\ \A s \in live : q[s].fd # 0 =>
       q[s].state = "connecting" \/ (q[s].state = "connected" /\ connmap[q[s].fd] = s)
  /\ \A s, t \in live : q[s].fd # 0 /\ q[s].fd = q[t].fd => s = t
  /\ \A s \in 1 .. count : q[s].state = "connecting" =>
       s \in live /\ Is(s, TcpTypes) /\ q[s].fd # 0 /\ q[s].name = NoName
  /\ \A s \in closed : q[s].fd = 0 /\ q[s].name # NoName

\* What is being closed is not waiting for its connection, nor is it asked again.
Settled ==
  \A d \in Depths : Closing(Frame(d)) =>
    /\ q[Frame(d).s].state # "connecting"
    /\ d < Depth => q[Frame(d).s].name # NoName

Buffering ==
  /\ main \notin {"recv", "handle"} => buffer = <<>>
  /\ main # "recv" => polled = {}
  /\ \A i \in DOMAIN buffer : ip[buffer[i]] # 0
  /\ \A f \in Ids : connmap[f] # 0 => ip[connmap[f]] # 0

\* A server that is being closed, or is yet to be read from, is not in the buffer;
\* a server found by a broadcast is there only as the packet at its head.
BufferedOnce ==
  /\ \A i \in DOMAIN buffer : ~Broadcasts(setup) \/ Broadcast(buffer[i]) =>
       buffer[i] \in live /\ q[buffer[i]].fd # 0 /\ q[buffer[i]].state = "connected"
  /\ \A i \in DOMAIN buffer : Broadcasts(setup) /\ ~Broadcast(buffer[i]) =>
       buffer[i] \in live /\ main = "handle" /\ i = 1 /\ stack = <<>>
  /\ \A i, j \in DOMAIN buffer : buffer[i] = buffer[j] => i = j
  /\ \A f \in polled : connmap[f] # 0 /\ \A i \in DOMAIN buffer : q[buffer[i]].fd # f
  /\ \A d \in Depths : Closing(Frame(d)) =>
       /\ \A i \in DOMAIN buffer : buffer[i] # Frame(d).s
       /\ \A f \in polled : connmap[f] # Frame(d).s

\* Unsorted, a server found by a broadcast is displayed by the packet that found it.
FoundShown ==
  \A s \in 1 .. count : ip[s] # 0 /\ ~Broadcast(s) =>
    /\ q[s].fd = 0
    /\ \/ q[s].name # NoName
       \/ stack = <<>> /\ main = "handle" /\ buffer # <<>> /\ s = Head(buffer)
       \/ stack # <<>> /\ Top.pc = "cleanup" /\ Top.s = s

\* What a frame may hold, and where it may be.
FrameKnown(f) ==
  /\ Closing(f) => f.s \in live /\ ip[f.s] # 0
  /\ f.pc = "display" => f.s \in closed
  /\ f.pc \in {"bound", "joined"} => f.s \in live
  /\ f.pc = "masters" => HasMasters(setup)

FrameSorted(f) ==
  /\ Held(f) \subseteq live \cup {0}
  /\ f.pc \in WalkPcs => f.first \in live \cup {0} /\ f.last \in live \cup {0}

FrameFreeing(f) ==
  /\ Held(f) \subseteq live \cup {0}
  /\ f.pc # "joined"
  /\ f.pc \in WalkPcs => f.inprogress = 0
  /\ f.pc = "pass" => f.s = f.last

Placed(d) ==
  /\ Frame(d).pc = "send" => d = 1 /\ main \in {"loop", "rebind"}
  /\ InBind(Frame(d)) /\ ~HasMasters(setup) => d = 1 /\ main \in {"first", "loop"}
  /\ Frame(d).pc = "bound" /\ ~Fault("send") => d = Depth

StackKnown == \A d \in Depths : FrameKnown(Frame(d)) /\ Placed(d)

PointersSorted ==
  /\ \A d \in Depths : FrameSorted(Frame(d))
  /\ \A i \in DOMAIN buffer : buffer[i] \in live
  /\ \A f \in Ids : connmap[f] \in live \cup {0}

PointersFreeing ==
  /\ \A d \in Depths : FrameFreeing(Frame(d))
  /\ \A d, e \in Depths : d < e /\ Closing(Frame(e)) => Frame(e).s \notin Held(Frame(d))

EngineInv ==
  /\ ListInv /\ HashIndexesLive /\ EngineTypes /\ NotStarted /\ Fresh /\ Origins /\ NextAhead
  /\ Working =>
       /\ Plain => Sockets /\ Settled
       /\ Buffering /\ StackKnown
       /\ Plain /\ (~Broadcasts(setup) \/ Sort = "none") => BufferedOnce
       /\ Streams => FoundShown
       /\ Sort # "none" => PointersSorted
       /\ Sort = "none" => PointersFreeing

-----------------------------------------------------------------------------
\* Calls and returns.

LEMMA FrameKinds ==
  ASSUME NEW f \in Frames
  PROVE  /\ f.pc \in WalkPcs => f \in WalkFrames
         /\ f.pc = "cleanup" => f \in CleanupFrames
         /\ f.pc = "display" => f \in DisplayFrames
         /\ f.pc = "masters" => f \in MasterFrames
         /\ f.pc = "send" => f \in SendFrames
         /\ f.pc = "bind" => f \in BindFrames
         /\ f.pc \in WalkPcs \cup {"cleanup", "display", "masters", "send", "bind"}
  BY DEF Frames, WalkFrames, WalkPcs, CleanupFrames, DisplayFrames, MasterFrames, SendFrames,
         BindFrames

LEMMA StackGo ==
  ASSUME NEW F, NEW st \in Seq(F), st # <<>>, NEW f \in F, NEW st2, st2 = <<f>> \o Tail(st)
  PROVE  /\ st2 \in Seq(F) /\ st2 # <<>> /\ Len(st) \in Nat \ {0} /\ Len(st2) = Len(st)
         /\ FrameOf(st2, Len(st)) = f /\ Head(st2) = f
         /\ \A d \in 1 .. Len(st) - 1 : FrameOf(st2, d) = FrameOf(st, d)
  BY DEF FrameOf

LEMMA StackCall ==
  ASSUME NEW F, NEW st \in Seq(F), st # <<>>, NEW f \in F, NEW g \in F,
         NEW st2, st2 = <<f, g>> \o Tail(st)
  PROVE  /\ st2 \in Seq(F) /\ st2 # <<>> /\ Len(st) \in Nat \ {0} /\ Len(st2) = Len(st) + 1
         /\ FrameOf(st2, Len(st) + 1) = f /\ FrameOf(st2, Len(st)) = g /\ Head(st2) = f
         /\ \A d \in 1 .. Len(st) - 1 : FrameOf(st2, d) = FrameOf(st, d)
  BY DEF FrameOf

LEMMA StackReturn ==
  ASSUME NEW F, NEW st \in Seq(F), st # <<>>, NEW st2, st2 = Tail(st)
  PROVE  /\ st2 \in Seq(F) /\ Len(st) \in Nat \ {0} /\ Len(st2) = Len(st) - 1
         /\ \A d \in 1 .. Len(st) - 1 : FrameOf(st2, d) = FrameOf(st, d)
  BY DEF FrameOf

LEMMA TopFrame ==
  ASSUME EngineTypes, stack # <<>>
  PROVE  /\ Top \in Frames /\ Depth \in Nat \ {0} /\ Frame(Depth) = Top
         /\ \A d \in Depths : Frame(d) \in Frames
<1>1. stack \in Seq(Frames)
  BY DEF EngineTypes
<1> QED
  BY <1>1 DEF Top, Frame, FrameOf, Depth, Depths

-----------------------------------------------------------------------------
\* The kernel finds a descriptor for a server without one.
LEMMA FreeFdFound ==
  ASSUME TypeOK, EngineTypes, NEW s \in live, q[s].fd = 0
  PROVE  FreeFd \in Ids /\ \A t \in live : q[t].fd # FreeFd
<1> DEFINE used == {q[t].fd : t \in Open}
<1> DEFINE fd == [t \in Open |-> q[t].fd]
<1>1. MaxServers \in Nat /\ live \subseteq Ids /\ s \in Ids
  BY TypeFacts DEF Ids
<1>2. Open \subseteq Ids \ {s}
  BY <1>1 DEF Open
<1>3. IsFiniteSet(Ids) /\ Cardinality(Ids) = MaxServers
  BY <1>1, FS_Interval DEF Ids
<1>4. IsFiniteSet(Open) /\ Cardinality(Open) <= MaxServers - 1
  <2>1. IsFiniteSet(Ids \ {s}) /\ Cardinality(Ids \ {s}) = MaxServers - 1
    BY <1>1, <1>3, FS_RemoveElement
  <2> QED
    BY <1>2, <2>1, FS_Subset
<1>5. IsFiniteSet(used) /\ Cardinality(used) <= Cardinality(Open)
  <2>1. fd \in [Open -> used]
    OBVIOUS
  <2>2. \A u \in used : \E t \in Open : fd[t] = u
    OBVIOUS
  <2>3. fd \in Surjection(Open, used)
    BY <2>1, <2>2 DEF Surjection
  <2> HIDE DEF fd, used
  <2> QED
    BY <1>4, <2>3, FS_Surjection
<1>6. ~(Ids \subseteq used)
  <2>1. Cardinality(used) \in Nat /\ Cardinality(Open) \in Nat
    BY <1>4, <1>5, FS_CardinalityType
  <2>2. SUFFICES ASSUME Ids \subseteq used
                 PROVE  FALSE
    OBVIOUS
  <2>3. Cardinality(Ids) <= Cardinality(used)
    BY <1>5, <2>2, FS_Subset
  <2> QED
    BY <1>1, <1>3, <1>4, <1>5, <2>1, <2>3
<1> DEFINE free == Ids \ used
<1>7. PICK f \in free : \A g \in free : f <= g
  <2>1. free \in SUBSET Nat /\ free # {}
    BY <1>1, <1>6 DEF Ids
  <2> QED
    BY <2>1, LeastNumber
<1>8. \A g \in 1 .. f - 1 : g \in used
  BY <1>1, <1>7 DEF Ids
<1>9. /\ FreeFd \in Ids
      /\ \A t \in Open : q[t].fd # FreeFd
  <2>1. f \in Ids /\ (\A t \in Open : q[t].fd # f)
          /\ \A g \in 1 .. f - 1 : \E t \in Open : q[t].fd = g
    BY <1>7, <1>8
  <2> QED
    BY <2>1 DEF FreeFd
<1>10. \A t \in live : q[t].fd # FreeFd
  <2>1. 0 \notin Ids
    BY <1>1 DEF Ids
  <2> QED
    BY <1>9, <2>1 DEF Open
<1> QED
  BY <1>9, <1>10

\* get_next_timeout's walk ends, since the list goes forward, and ends at a live
\* server or NULL if it begins there.
LEMMA FirstOpenDefined ==
  ASSUME TypeOK, NextAhead
  PROVE  \A s \in Ptrs : FirstOpen(s) =
           IF s = 0 THEN 0 ELSE IF q[s].fd # 0 THEN s ELSE FirstOpen(next[s])
<1> DEFINE D(n) == {t \in Ptrs : t = 0 \/ t > MaxServers - n}
<1> DEFINE walks(f, n) ==
      f = [t \in D(n) |-> IF t = 0 THEN 0 ELSE IF q[t].fd # 0 THEN t ELSE f[next[t]]]
<1>1. MaxServers \in Nat /\ next \in [Ids -> Ptrs]
  BY ServerListAssumption DEF TypeOK
<1>2. \E f : walks(f, 0)
  <2>1. D(0) = {0}
    BY <1>1 DEF Ptrs
  <2>2. walks([t \in D(0) |-> 0], 0)
    BY <2>1
  <2> QED
    BY <2>2
<1>3. ASSUME NEW n \in Nat, n < MaxServers, NEW f, walks(f, n)
      PROVE  \E g : walks(g, n + 1)
  <2> DEFINE m == MaxServers - n
  <2> DEFINE g == [t \in D(n + 1) |-> IF t = m THEN IF q[t].fd # 0 THEN t ELSE f[next[t]] ELSE f[t]]
  <2>1. m \in Ids /\ m # 0 /\ D(n + 1) = D(n) \cup {m} /\ m \notin D(n)
    BY <1>1, <1>3 DEF Ptrs, Ids
  <2>2. ASSUME NEW t \in D(n + 1), t # 0
        PROVE  t \in Ids /\ next[t] \in D(n) /\ next[t] # m
    <3>1. t \in Ids /\ t >= m
      BY <1>1, <1>3, <2>2 DEF Ptrs, Ids
    <3>2. next[t] \in Ptrs /\ (next[t] = 0 \/ next[t] > t)
      BY <1>1, <3>1 DEF NextAhead
    <3> QED
      BY <1>1, <2>1, <3>1, <3>2 DEF Ptrs, Ids
  <2>3. ASSUME NEW t \in D(n + 1)
        PROVE  g[t] = IF t = 0 THEN 0 ELSE IF q[t].fd # 0 THEN t ELSE g[next[t]]
    <3>1. CASE t = 0
      <4>1. 0 \in D(n) /\ 0 # m
        BY <1>1, <2>1 DEF Ptrs
      <4>2. f[0] = 0
        BY <1>3, <4>1
      <4> QED
        BY <3>1, <4>1, <4>2
    <3>2. CASE t # 0
      <4>1. next[t] \in D(n) /\ next[t] # m /\ next[t] \in D(n + 1)
        BY <2>1, <2>2, <3>2
      <4>2. g[next[t]] = f[next[t]]
        BY <4>1
      <4>3. t # m => t \in D(n) /\ f[t] = IF q[t].fd # 0 THEN t ELSE f[next[t]]
        BY <1>3, <2>1, <3>2
      <4> QED
        BY <3>2, <4>2, <4>3
    <3> QED
      BY <3>1, <3>2
  <2> HIDE DEF D
  <2>4. walks(g, n + 1)
    BY <2>3
  <2> QED
    BY <2>4
<1>4. \E f : walks(f, MaxServers)
  <2> DEFINE bad == {n \in 0 .. MaxServers : ~\E f : walks(f, n)}
  <2> HIDE DEF walks
  <2>1. SUFFICES ASSUME bad # {}
                 PROVE  FALSE
    BY <1>1
  <2>2. PICK n \in bad : \A k \in bad : n <= k
    <3>1. bad \in SUBSET Nat
      BY <1>1
    <3> QED
      BY <2>1, <3>1, LeastNumber
  <2>3. n # 0
    BY <1>2, <2>2
  <2>4. n - 1 \in Nat /\ n - 1 < MaxServers /\ n - 1 \notin bad
    BY <1>1, <2>2, <2>3
  <2>5. PICK f : walks(f, n - 1)
    BY <1>1, <2>4
  <2>6. \E g : walks(g, (n - 1) + 1)
    BY <1>3, <2>4, <2>5
  <2> QED
    BY <1>1, <2>2, <2>6
<1>5. D(MaxServers) = Ptrs
  BY <1>1 DEF Ptrs
<1>6. \E f : f = [t \in Ptrs |-> IF t = 0 THEN 0 ELSE IF q[t].fd # 0 THEN t ELSE f[next[t]]]
  BY <1>4, <1>5
<1> QED
  BY <1>6 DEF FirstOpen

LEMMA FirstOpenLive ==
  ASSUME TypeOK, ListWellFormed, NextAhead, NEW s \in live \cup {0}
  PROVE  FirstOpen(s) \in live \cup {0}
<1> DEFINE astray == {n \in Nat : \E t \in live : n = MaxServers - t /\ FirstOpen(t) \notin live \cup {0}}
<1>1. MaxServers \in Nat /\ live \subseteq 1 .. MaxServers
  BY TypeFacts
<1>2. FirstOpen(0) = 0 /\ \A t \in live : t \in Ptrs
  BY <1>1, FirstOpenDefined DEF Ptrs
<1>3. SUFFICES ASSUME astray # {}
               PROVE  FALSE
  <2>1. SUFFICES ASSUME s \in live, FirstOpen(s) \notin live \cup {0}
                 PROVE  astray # {}
    BY <1>2, <1>3
  <2>2. MaxServers - s \in astray
    BY <1>1, <2>1
  <2> QED
    BY <2>2
<1>4. PICK n \in astray : \A k \in astray : n <= k
  BY <1>3, LeastNumber
<1>5. PICK t \in live : n = MaxServers - t /\ FirstOpen(t) \notin live \cup {0}
  BY <1>4
<1>6. FirstOpen(t) = IF q[t].fd # 0 THEN t ELSE FirstOpen(next[t])
  BY <1>1, <1>2, <1>5, FirstOpenDefined
<1>7. FirstOpen(t) = FirstOpen(next[t]) /\ next[t] # 0
  <2>1. t # 0 /\ t \in live \cup {0} /\ 0 \in live \cup {0}
    BY <1>1, <1>5
  <2>2. q[t].fd = 0
    BY <1>5, <1>6, <2>1
  <2>3. FirstOpen(t) = FirstOpen(next[t])
    BY <1>6, <2>1, <2>2
  <2> QED
    BY <1>2, <1>5, <2>1, <2>3
<1>8. next[t] \in live /\ t < next[t]
  BY <1>5, <1>7 DEF ListWellFormed, After
<1> DEFINE u == next[t]
<1>9. u \in 1 .. MaxServers /\ t \in 1 .. MaxServers /\ t < u
  BY <1>1, <1>8
<1>10. MaxServers - u \in astray
  <2>1. FirstOpen(u) \notin live \cup {0} /\ u \in live
    BY <1>5, <1>7, <1>8
  <2> HIDE DEF u
  <2>2. MaxServers - u \in Nat
    BY <1>1, <1>9
  <2> QED
    BY <2>1, <2>2
<1> HIDE DEF astray, u
<1>11. MaxServers - t <= MaxServers - u
  BY <1>4, <1>5, <1>10
<1> QED
  BY <1>1, <1>9, <1>11

-----------------------------------------------------------------------------
\* Types.

LEMMA Basics ==
  ASSUME EngineInv
  PROVE  /\ TypeOK /\ ListWellFormed /\ CursorsLive /\ EngineTypes
         /\ MaxServers \in Nat /\ live \subseteq Ids /\ live \subseteq 1 .. count /\ count \in 0 .. MaxServers
         /\ Ids \subseteq Ptrs /\ 0 \in Ptrs /\ 0 \notin Ids
         /\ NRetries \in Nat \ {0} /\ MaxPlayers \in Nat /\ MaxReport \in Nat
         /\ 1 .. count \subseteq Ids
<1>1. ListInv /\ EngineTypes
  BY DEF EngineInv
<1>2. TypeOK /\ ListWellFormed /\ CursorsLive
  BY <1>1 DEF ListInv
<1> QED
  BY <1>1, <1>2, TypeFacts, SchedulerAssumption DEF Ids, Ptrs

\* The records a query state is turned into.
LEMMA QueryUpdates ==
  ASSUME NEW r \in QueryStates, MaxPlayers \in Nat
  PROVE  /\ \A n \in Names : [r EXCEPT !.name = n] \in QueryStates
         /\ \A f \in Ptrs, st \in States : [r EXCEPT !.fd = f, !.state = st] \in QueryStates
         /\ \A st \in States : [r EXCEPT !.state = st] \in QueryStates
         /\ \A n \in Int : [r EXCEPT !.retry1 = n] \in QueryStates
         /\ \A n \in Int : [r EXCEPT !.retry2 = n] \in QueryStates
         /\ \A b \in BOOLEAN : [r EXCEPT !.rules = b] \in QueryStates
         /\ \A b \in BOOLEAN : [r EXCEPT !.heard = b] \in QueryStates
         /\ \A n \in 0 .. MaxPlayers : [r EXCEPT !.players = n] \in QueryStates
         /\ \A n \in 0 .. MaxReport : [r EXCEPT !.report = n] \in QueryStates
         /\ \A n \in Names, f \in Ptrs : [r EXCEPT !.name = n, !.fd = f] \in QueryStates
         /\ \A n \in Names, f \in Ptrs, st \in States : [r EXCEPT !.name = n, !.state = st, !.fd = f] \in QueryStates
         /\ r.name \in Names /\ r.fd \in Ptrs /\ r.state \in States /\ r.retry1 \in Int /\ r.retry2 \in Int
         /\ r.rules \in BOOLEAN /\ r.players \in 0 .. MaxPlayers /\ r.heard \in BOOLEAN /\ r.report \in 0 .. MaxReport
  BY DEF QueryStates

LEMMA QueryRequests ==
  ASSUME NEW r \in QueryStates, MaxPlayers \in Nat, NEW sent
  PROVE  /\ [r EXCEPT !.retry1 = @ - 1] \in QueryStates
         /\ [r EXCEPT !.retry2 = @ - 1] \in QueryStates
         /\ Request1(r, sent) \in QueryStates /\ Request2(r, sent) \in QueryStates
         /\ Named(r) \in QueryStates
<1>1. r.retry1 - 1 \in Int /\ r.retry2 - 1 \in Int
  BY DEF QueryStates
<1>2. "some" \in Names
  BY DEF Names
<1>3. [r EXCEPT !.retry1 = r.retry1 - 1] \in QueryStates
         /\ [r EXCEPT !.retry2 = r.retry2 - 1] \in QueryStates
  BY <1>1, QueryUpdates
<1>4. [r EXCEPT !.retry1 = @ - 1] \in QueryStates
         /\ [r EXCEPT !.retry2 = @ - 1] \in QueryStates
  BY <1>3
<1> QED
  BY <1>2, <1>4, QueryUpdates DEF Request1, Request2, Named

LEMMA StatusQueryTypes ==
  ASSUME EngineTypes, NEW s \in Ids, NEW r \in QueryStates, MaxPlayers \in Nat, NEW sent \in BOOLEAN,
         StatusQuery(s, r, sent)
  PROVE  /\ q' \in [Ids -> QueryStates] /\ asked' \in [Ids -> Nat]
         /\ due1' \subseteq Ids /\ due2' = due2 /\ recent' = TRUE
<1>1. [r EXCEPT !.retry1 = @ - 1] \in QueryStates
  BY QueryRequests
<1>2. asked[s] + 1 \in Nat /\ q \in [Ids -> QueryStates] /\ asked \in [Ids -> Nat] /\ due1 \subseteq Ids
  BY DEF EngineTypes
<1>3. q' = [q EXCEPT ![s] = IF sent THEN [r EXCEPT !.retry1 = @ - 1] ELSE r]
  BY DEF StatusQuery
<1>4. q' \in [Ids -> QueryStates]
  BY <1>1, <1>2, <1>3
<1>5. asked' \in [Ids -> Nat]
  <2>1. CASE sent
    BY <1>2, <2>1 DEF StatusQuery
  <2>2. CASE ~sent
    BY <1>2, <2>2 DEF StatusQuery
  <2> QED
    BY <2>1, <2>2
<1> QED
  BY <1>2, <1>4, <1>5 DEF StatusQuery

\* find_server_by_address gives a pointer.
LEMMA FoundType ==
  ASSUME TypeOK, NEW a \in Ips, NEW p \in Ports
  PROVE  FindServerByAddress(a, p) \in Ptrs
<1> DEFINE m == Matches(a, p)
<1>1. hash[Bucket(a, p)] \in Seq(Ptrs) /\ 0 \in Ptrs
  <2>1. a \in Nat /\ p \in Nat /\ 0 \in Ptrs
    BY ServerListAssumption DEF Ips, Ports, Ptrs
  <2>2. Bucket(a, p) \in 0 .. HashLength - 1
    BY <2>1, BucketType
  <2> QED
    BY <2>1, <2>2 DEF TypeOK
<1>2. m \subseteq DOMAIN hash[Bucket(a, p)] /\ m \in SUBSET Nat
  BY <1>1 DEF Matches
<1>3. CASE m # {}
  <2>1. \E i \in m : \A j \in m : i <= j
    BY <1>2, <1>3, LeastNumber
  <2> HIDE DEF m
  <2>2. (CHOOSE i \in m : \A j \in m : i <= j) \in m
    BY <2>1
  <2>3. FindServerByAddress(a, p) = hash[Bucket(a, p)][CHOOSE i \in m : \A j \in m : i <= j]
    BY <1>3 DEF m, FindServerByAddress
  <2> DEFINE i == CHOOSE i \in m : \A j \in m : i <= j
  <2> HIDE DEF i
  <2>4. i \in DOMAIN hash[Bucket(a, p)]
    BY <1>2, <2>2 DEF i
  <2>5. hash[Bucket(a, p)][i] \in Ptrs
    BY <1>1, <2>4
  <2> QED
    BY <2>3, <2>5 DEF i
<1> QED
  BY <1>1, <1>3 DEF FindServerByAddress

\* A new struct has a query state.
LEMMA NewQueryType ==
  ASSUME MaxPlayers \in Nat, MaxReport \in Nat, NRetries \in Nat, EngineTypes, TypeOK, NEW a
  PROVE  NewQuery(a) \in QueryStates
<1>1. GetRules \in BOOLEAN /\ 0 \in Ptrs
  <2>1. setup \in Scenarios /\ Scenarios \subseteq [cmdline : CmdLines, sort : {"none", "listed", "keys"},
                          rules : BOOLEAN, players : BOOLEAN,
                          faults : SUBSET FaultKinds, budget : Nat]
    BY SchedulerAssumption DEF EngineTypes
  <2> QED
    BY <2>1, ServerListAssumption DEF GetRules, Ptrs
<1> QED
  BY <1>1 DEF NewQuery, QueryStates, Names, States, NoName

\* The frames a frame is turned into.
LEMMA FrameUpdates ==
  ASSUME NEW f \in WalkFrames, NEW p \in Ptrs, NEW t \in Ptrs, NEW pc \in WalkPcs
  PROVE  /\ [f EXCEPT !.s = p] \in WalkFrames
         /\ [f EXCEPT !.pc = pc] \in WalkFrames
         /\ [f EXCEPT !.pc = pc, !.last = p] \in WalkFrames
         /\ [f EXCEPT !.pc = pc, !.s = p] \in WalkFrames
         /\ [f EXCEPT !.pc = pc, !.nxt = p] \in WalkFrames
         /\ [f EXCEPT !.pc = pc, !.last = p, !.s = t] \in WalkFrames
         /\ [f EXCEPT !.inprogress = @ + 1] \in WalkFrames
         /\ [f EXCEPT !.s = p, !.inprogress = 0] \in WalkFrames
         /\ f.retries # 2 => [f EXCEPT !.retries = @ + 1] \in WalkFrames
         /\ f.s \in Ptrs /\ f.nxt \in Ptrs /\ f.first \in Ptrs /\ f.last \in Ptrs
         /\ f.inprogress \in Nat /\ f.retries \in 0 .. 2 /\ f.pc \in WalkPcs
<1>1. f.inprogress + 1 \in Nat
  BY DEF WalkFrames
<1>2. [f EXCEPT !.inprogress = f.inprogress + 1] \in WalkFrames
  BY <1>1 DEF WalkFrames
<1>3. f.retries # 2 => f.retries + 1 \in 0 .. 2
  BY DEF WalkFrames
<1>4. f.retries # 2 => [f EXCEPT !.retries = f.retries + 1] \in WalkFrames
  BY <1>3 DEF WalkFrames
<1>5. /\ [f EXCEPT !.inprogress = @ + 1] \in WalkFrames
      /\ f.retries # 2 => [f EXCEPT !.retries = @ + 1] \in WalkFrames
  BY <1>2, <1>4
<1> QED
  BY <1>5 DEF WalkFrames

LEMMA FrameSets ==
  /\ WalkFrames \subseteq Frames
  /\ \A s \in Ids, b \in BOOLEAN : Cleanup(s, b) \in Frames
  /\ \A s \in Ids : [pc |-> "display", s |-> s] \in Frames
  /\ \A s \in Ptrs : [pc |-> "masters", s |-> s] \in Frames
  /\ \A i \in Ptrs : [pc |-> "send", i |-> i] \in Frames
  /\ BindCall \in Frames
  BY DEF Frames, CleanupFrames, DisplayFrames, MasterFrames, SendFrames, BindFrames, Cleanup, BindCall

LEMMA StackTypes ==
  ASSUME EngineTypes, stack # <<>>
  PROVE  /\ \A f \in Frames : Go(f) => stack' \in Seq(Frames)
         /\ \A f \in Frames, g \in Frames : Call(f, g) => stack' \in Seq(Frames)
         /\ Return => stack' \in Seq(Frames)
<1>1. stack \in Seq(Frames)
  BY DEF EngineTypes
<1> QED
  BY <1>1, StackGo, StackCall, StackReturn DEF Go, Call, Return

LEMMA WalkOnType ==
  ASSUME EngineInv, stack # <<>>, Top.pc \in WalkPcs, Top.s \in Ids
  PROVE  /\ Top \in WalkFrames /\ WalkOn \in WalkFrames /\ WalkOn \in Frames
         /\ [WalkOn EXCEPT !.inprogress = @ + 1] \in Frames
         /\ Top.retries # 2 => [WalkOn EXCEPT !.retries = @ + 1] \in Frames
         /\ WalkOn.s = next[Top.s] /\ WalkOn.pc = Top.pc
<1>1. Top \in WalkFrames
  BY Basics, TopFrame, FrameKinds
<1>2. next[Top.s] \in Ptrs
  BY Basics DEF TypeOK
<1>3. WalkOn \in WalkFrames /\ WalkOn.retries = Top.retries
  BY <1>1, <1>2, FrameUpdates DEF WalkOn, WalkFrames
<1> QED
  <2>1. [WalkOn EXCEPT !.inprogress = @ + 1] \in WalkFrames
         /\ (Top.retries # 2 => [WalkOn EXCEPT !.retries = @ + 1] \in WalkFrames)
    BY <1>3, Basics, FrameUpdates DEF WalkPcs
  <2>2. WalkOn.s = next[Top.s] /\ WalkOn.pc = Top.pc
    BY <1>1 DEF WalkOn, WalkFrames
  <2> QED
    BY <1>1, <1>3, <2>1, <2>2, FrameSets

\* A step that leaves the list alone.
LEMMA TypesKept ==
  ASSUME EngineTypes, UNCHANGED <<options, setup, count>>,
         q' \in [Ids -> QueryStates], connmap' \in [Ids -> Ptrs],
         connected' \in Int, waiting' \in Int, returned' \in Nat, timedOut' \in Nat,
         main' \in {"start", "first", "loop", "recv", "handle", "rebind"}, stack' \in Seq(Frames),
         polled' \subseteq Ids, buffer' \in Seq(Ids), bindRetry' \in {0, -2},
         due1' \subseteq Ids, due2' \subseteq Ids, recent' \in BOOLEAN, budget' \in Nat,
         asked' \in [Ids -> Nat], closed' \subseteq 1 .. count
  PROVE  EngineTypes'
  BY DEF EngineTypes, Sort

\* bind_sockets.
LEMMA OnlyStackTypes ==
  ASSUME EngineInv, UNCHANGED <<options, setup, count, state, main, input, clock, budget>>,
         stack' \in Seq(Frames)
  PROVE  EngineTypes'
  BY Basics DEF EngineTypes, Sort, state, counters, history, input, clock

LEMMA BindServerTypes ==
  ASSUME EngineInv, BindServer
  PROVE  EngineTypes'
<1>1. /\ stack # <<>> /\ Top \in WalkFrames /\ Top \in Frames /\ Top.pc = "walk" /\ Top.s \in live
      /\ q[Top.s].fd = 0 /\ q[Top.s] \in QueryStates /\ Top.s \in Ids /\ Top.pc \in WalkPcs
  BY Basics, TopFrame, FrameKinds DEF BindServer, Walking, Wanted, In, WalkPcs, EngineTypes
<1>2. FreeFd \in Ids
  BY <1>1, Basics, FreeFdFound
<1> DEFINE s == Top.s
<1>3. UNCHANGED <<options, setup, count, main, input>>
  BY DEF BindServer, vars
<1>4. /\ Cleanup(s, TRUE) \in Frames /\ WalkOn \in Frames
      /\ [WalkOn EXCEPT !.inprogress = @ + 1] \in Frames
      /\ Top.retries # 2 => [WalkOn EXCEPT !.retries = @ + 1] \in Frames
      /\ [Top EXCEPT !.pc = "bound"] \in Frames
      /\ [Top EXCEPT !.pc = "result", !.last = Top.s] \in Frames
  <2>1. \A pc \in WalkPcs : [Top EXCEPT !.pc = pc] \in Frames /\ [Top EXCEPT !.pc = pc, !.last = Top.s] \in Frames
    BY <1>1, Basics, FrameUpdates, FrameSets
  <2> QED
    BY <1>1, <2>1, WalkOnType, FrameSets DEF WalkPcs
<1>5. CASE BindDone(s)
  <2>1. PICK sent \in Sends :
          /\ StatusQuery(s, [q[s] EXCEPT !.fd = FreeFd, !.state = "connected"], sent)
          /\ connmap' = [connmap EXCEPT ![FreeFd] = s]
          /\ LET after == [Top EXCEPT !.pc = "bound"]
             IN  IF sent THEN Go(after) ELSE Call(Cleanup(s, TRUE), after)
          /\ UNCHANGED <<counters, closed, budget>>
    BY <1>5 DEF BindDone
  <2>2. sent \in BOOLEAN
    BY DEF Sends
  <2>3. [q[s] EXCEPT !.fd = FreeFd, !.state = "connected"] \in QueryStates
    BY <1>1, <1>2, Basics, QueryUpdates DEF States
  <2>4. /\ q' \in [Ids -> QueryStates] /\ asked' \in [Ids -> Nat]
        /\ due1' \subseteq Ids /\ due2' = due2 /\ recent' = TRUE
    BY <1>1, <2>1, <2>2, <2>3, Basics, StatusQueryTypes
  <2>5. connmap' \in [Ids -> Ptrs]
    BY <1>1, <1>2, <2>1, Basics DEF EngineTypes
  <2>6. stack' \in Seq(Frames)
    BY <1>1, <1>4, <2>1, Basics, StackTypes
  <2> HIDE DEF s
  <2> QED
    BY <1>3, <2>1, <2>4, <2>5, <2>6, Basics, TypesKept DEF EngineTypes, counters, input
<1>6. CASE BindPending(s)
  <2>1. q' = [q EXCEPT ![s] = [q[s] EXCEPT !.fd = FreeFd, !.state = "connecting"]]
    BY <1>6, <1>1 DEF BindPending, EngineTypes
  <2>2. q' \in [Ids -> QueryStates]
    BY <1>1, <1>2, <2>1, Basics, QueryUpdates DEF States, EngineTypes
  <2>3. stack' \in Seq(Frames)
    BY <1>1, <1>4, <1>6, Basics, StackTypes DEF BindPending
  <2>4. connected' \in Int
    BY <1>6, Basics DEF BindPending, EngineTypes
  <2> HIDE DEF s
  <2> QED
    BY <1>3, <1>6, <2>2, <2>3, <2>4, Basics, TypesKept DEF BindPending, EngineTypes, counters, input, history
<1>7. CASE BindNoDescriptor /\ budget > 0
  <2>1. stack' \in Seq(Frames)
    BY <1>1, <1>4, <1>7, Basics, StackTypes DEF BindNoDescriptor
  <2>2. budget' \in Nat
    BY <1>7, Basics DEF BindNoDescriptor, EngineTypes
  <2> HIDE DEF s
  <2> QED
    BY <1>3, <1>7, <2>1, <2>2, Basics, TypesKept DEF BindNoDescriptor, EngineTypes, state, counters, input, history, clock
<1>8. CASE BindFailed(s)
  <2>1. q' = [q EXCEPT ![s] = [q[s] EXCEPT !.name = "SYSERROR"]]
    BY <1>8, <1>1 DEF BindFailed, EngineTypes
  <2>2. q' \in [Ids -> QueryStates]
    BY <1>1, <2>1, Basics, QueryUpdates DEF Names, EngineTypes
  <2>3. stack' \in Seq(Frames)
    BY <1>1, <1>4, <1>8, Basics, StackTypes DEF BindFailed
  <2>4. connected' \in Int
    BY <1>8, Basics DEF BindFailed, EngineTypes
  <2> HIDE DEF s
  <2> QED
    BY <1>3, <1>8, <2>2, <2>3, <2>4, Basics, TypesKept DEF BindFailed, EngineTypes, counters, input, history, clock
<1>9. PICK rc \in BindResults(s) :
       \/ rc = 0 /\ BindDone(s)
       \/ rc = -3 /\ BindPending(s)
       \/ rc = -2 /\ BindNoDescriptor
       \/ rc = -1 /\ BindFailed(s)
  BY DEF BindServer
<1>10. rc = -2 => budget > 0
  BY DEF BindResults
<1> QED
  BY <1>5, <1>6, <1>7, <1>8, <1>9, <1>10

LEMMA ConnectServerTypes ==
  ASSUME EngineInv, ConnectServer
  PROVE  EngineTypes'
<1>1. /\ stack # <<>> /\ Top \in WalkFrames /\ Top \in Frames /\ Top.pc = "pass" /\ Top.s \in live
      /\ q[Top.s] \in QueryStates /\ Top.s \in Ids /\ Top.pc \in WalkPcs
  BY Basics, TopFrame, FrameKinds DEF ConnectServer, Passing, In, WalkPcs, EngineTypes
<1> DEFINE s == Top.s
<1>2. UNCHANGED <<options, setup, count, main, input>>
  BY DEF ConnectServer, vars
<1>3. /\ Cleanup(s, TRUE) \in Frames /\ WalkOn \in Frames
      /\ [WalkOn EXCEPT !.inprogress = @ + 1] \in Frames
      /\ [Top EXCEPT !.pc = "joined", !.nxt = next[s]] \in Frames
  <2>1. next[s] \in Ptrs
    BY <1>1, Basics DEF TypeOK
  <2> QED
    BY <1>1, <2>1, FrameUpdates, FrameSets, WalkOnType DEF WalkPcs
<1>4. CASE ConnectDone(s)
  <2>1. PICK sent \in Sends :
          /\ StatusQuery(s, [q[s] EXCEPT !.state = "connected"], sent)
          /\ connmap' = [connmap EXCEPT ![q[s].fd] = s]
          /\ LET after == [Top EXCEPT !.pc = "joined", !.nxt = next[s]]
             IN  IF sent THEN Go(after) ELSE Call(Cleanup(s, TRUE), after)
          /\ UNCHANGED <<counters, closed, budget>>
    BY <1>4 DEF ConnectDone
  <2>2. sent \in BOOLEAN
    BY DEF Sends
  <2>3. [q[s] EXCEPT !.state = "connected"] \in QueryStates
    BY <1>1, Basics, QueryUpdates DEF States
  <2>4. /\ q' \in [Ids -> QueryStates] /\ asked' \in [Ids -> Nat]
        /\ due1' \subseteq Ids /\ due2' = due2 /\ recent' = TRUE
    BY <1>1, <2>1, <2>2, <2>3, Basics, StatusQueryTypes
  <2>5. connmap' \in [Ids -> Ptrs]
    BY <1>1, <2>1, Basics DEF EngineTypes
  <2>6. stack' \in Seq(Frames)
    BY <1>1, <1>3, <2>1, Basics, StackTypes
  <2> HIDE DEF s
  <2> QED
    BY <1>2, <2>1, <2>4, <2>5, <2>6, Basics, TypesKept DEF EngineTypes, counters, input
<1>5. CASE ConnectWaits(s)
  <2>1. stack' \in Seq(Frames)
    BY <1>1, <1>3, <1>5, Basics, StackTypes DEF ConnectWaits
  <2> QED
    BY <1>2, <1>5, <2>1, OnlyStackTypes DEF ConnectWaits
<1>6. CASE ConnectFails(s)
  <2>1. PICK name \in {"TIMEOUT", "SYSERROR"} :
          q' = [q EXCEPT ![s].name = name, ![s].state = "failed", ![s].fd = 0]
    BY <1>6 DEF ConnectFails
  <2>2. q' = [q EXCEPT ![s] = [q[s] EXCEPT !.name = name, !.state = "failed", !.fd = 0]]
    BY <1>1, <2>1 DEF EngineTypes
  <2>3. [q[s] EXCEPT !.name = name, !.state = "failed", !.fd = 0] \in QueryStates
    BY <1>1, Basics, QueryUpdates DEF Names, States
  <2>4. q' \in [Ids -> QueryStates]
    BY <1>1, <2>2, <2>3, Basics DEF EngineTypes
  <2>5. stack' \in Seq(Frames)
    BY <1>1, <1>3, <1>6, Basics, StackTypes DEF ConnectFails
  <2>6. connected' \in Int
    BY <1>6, Basics DEF ConnectFails, EngineTypes
  <2> HIDE DEF s
  <2> QED
    BY <1>2, <1>6, <2>4, <2>5, <2>6, Basics, TypesKept DEF ConnectFails, EngineTypes, counters, input, history, clock
<1> QED
  BY <1>4, <1>5, <1>6 DEF ConnectServer

LEMMA BindLoopTypes ==
  ASSUME EngineInv, BindLoop
  PROVE  EngineTypes'
<1>1. stack # <<>> /\ Top \in Frames /\ Top.pc \in {"bind"} \cup WalkPcs
  BY Basics, TopFrame
     DEF BindLoop, BindSockets, SkipServer, BindServer, Bound, EndWalk, EndPass, PassServer,
         ConnectServer, Joined, BindReturns, Walking, Passing, In, WalkPcs
<1>2. Top.pc # "bind" => Top \in WalkFrames
  BY <1>1, FrameKinds
<1>3. /\ \A f \in WalkFrames : Go(f) => stack' \in Seq(Frames)
      /\ Return => stack' \in Seq(Frames)
  BY <1>1, Basics, StackTypes, FrameSets
<1>4. Top.pc # "bind" /\ Top.s \in Ids => WalkOn \in WalkFrames
  BY <1>1, WalkOnType
<1>5. CASE BindSockets
  <2> DEFINE resume == IF lastBind = 0 THEN servers ELSE lastBind
             from == IF Throttled THEN 0 ELSE IF waiting = 0 THEN resume ELSE servers
             f == [pc |-> "walk", s |-> from, nxt |-> 0, first |-> from, last |-> 0,
                   inprogress |-> 0, retries |-> 0]
  <2>1. from \in Ptrs
    BY Basics DEF TypeOK
  <2>2. f \in WalkFrames
    BY <2>1, Basics DEF WalkFrames, WalkPcs
  <2>3. Go(f) /\ UNCHANGED <<options, setup, count, state, main, input, clock, budget>>
    BY <1>5 DEF BindSockets, MoveLastBind
  <2> QED
    BY <1>3, <2>2, <2>3, OnlyStackTypes
<1>6. CASE SkipServer
  BY <1>1, <1>3, <1>4, <1>6, Basics, OnlyStackTypes DEF SkipServer, Walking, In, vars
<1>7. CASE Bound
  <2>1. [Top EXCEPT !.pc = "pass", !.last = Top.s, !.s = Top.s] \in WalkFrames
    BY <1>2, <1>7 DEF Bound, In, WalkPcs, WalkFrames
  <2>2. stack' \in Seq(Frames)
    BY <1>3, <1>7, <2>1 DEF Bound
  <2>3. connected' \in Int
    BY <1>7, Basics DEF Bound, EngineTypes
  <2> QED
    BY <1>7, <2>2, <2>3, Basics, TypesKept DEF Bound, MoveLastBind, EngineTypes, history, input, clock
<1>8. CASE EndWalk
  <2>1. [Top EXCEPT !.pc = "pass", !.last = Top.s] \in WalkFrames
    BY <1>2, <1>8 DEF EndWalk, In, WalkPcs, WalkFrames
  <2> QED
    BY <1>3, <1>8, <2>1, OnlyStackTypes DEF EndWalk, vars
<1>9. CASE EndPass
  <2>1. /\ [Top EXCEPT !.pc = "result"] \in WalkFrames
        /\ [Top EXCEPT !.s = Top.first, !.inprogress = 0] \in WalkFrames
    BY <1>2, <1>9 DEF EndPass, In, WalkPcs, WalkFrames
  <2> QED
    BY <1>3, <1>9, <2>1, OnlyStackTypes DEF EndPass, vars
<1>10. CASE PassServer
  BY <1>1, <1>3, <1>4, <1>10, Basics, OnlyStackTypes DEF PassServer, Passing, In, vars
<1>11. CASE Joined
  <2>1. [Top EXCEPT !.pc = "pass", !.s = Top.nxt] \in WalkFrames
    BY <1>2, <1>11 DEF Joined, In, WalkPcs, WalkFrames
  <2> QED
    BY <1>3, <1>11, <2>1, OnlyStackTypes DEF Joined, MoveLastBind
<1>12. CASE BindReturns
  <2>1. bindRetry' \in {0, -2} /\ stack' \in Seq(Frames)
    BY <1>3, <1>12, Basics DEF BindReturns, EngineTypes
  <2> QED
    BY <1>12, <2>1, Basics, TypesKept DEF BindReturns, EngineTypes, vars, state, counters, history, clock
<1> QED
  BY <1>5, <1>6, <1>7, <1>8, <1>9, <1>10, <1>11, <1>12, BindServerTypes, ConnectServerTypes DEF BindLoop

\* cleanup_qserver, add_servers_from_masters and send_packets.
LEMMA CleanupServerTypes ==
  ASSUME EngineInv, CleanupServer
  PROVE  EngineTypes'
<1>1. stack # <<>> /\ Top \in Frames
  BY Basics, TopFrame
     DEF CleanupServer, CleanupKeeps, CleanupCloses, DisplayClosed, AddReported, NextMaster,
         MastersAdded, In
<1>2. CASE CleanupKeeps
  BY <1>1, <1>2, Basics, StackTypes, OnlyStackTypes DEF CleanupKeeps, vars
<1>3. CASE CleanupCloses
  <2> DEFINE s == Top.s
             show == [pc |-> "display", s |-> s]
  <2>1. s \in Ids /\ s \in 1 .. count /\ q[s] \in QueryStates
    BY <1>3, Basics DEF CleanupCloses, EngineTypes
  <2>2. /\ q' = [q EXCEPT ![s].name = ClosedName(s), ![s].fd = 0]
        /\ connmap' = IF q[s].fd = 0 THEN connmap ELSE [connmap EXCEPT ![q[s].fd] = 0]
        /\ connected' = IF q[s].fd = 0 THEN connected ELSE connected - 1
        /\ returned' = IF Returned(ClosedName(s)) THEN returned + 1 ELSE returned
        /\ timedOut' = IF q[s].name = NoName /\ ClosedName(s) = "TIMEOUT"
                       THEN timedOut + 1 ELSE timedOut
        /\ waiting' = MastersLeft(s)
        /\ closed' = closed \cup {s}
        /\ IF Is(s, MasterTypes) /\ waiting = 1
           THEN AddThenDisplay([pc |-> "masters", s |-> servers], show)
           ELSE Go(show)
        /\ UNCHANGED <<options, setup, count, asked, main, input, clock, budget>>
    BY <1>3 DEF CleanupCloses, vars
  <2>3. ClosedName(s) \in Names
    BY <2>1 DEF ClosedName, Names, QueryStates
  <2>4. q' = [q EXCEPT ![s] = [q[s] EXCEPT !.name = ClosedName(s), !.fd = 0]]
    BY <2>1, <2>2, Basics DEF EngineTypes
  <2>5. q' \in [Ids -> QueryStates]
    BY <2>1, <2>3, <2>4, Basics, QueryUpdates DEF EngineTypes
  <2>6. stack' \in Seq(Frames)
    <3>1. show \in Frames /\ [pc |-> "masters", s |-> servers] \in Frames
      BY <2>1, Basics, FrameSets DEF TypeOK
    <3> HIDE DEF show
    <3> QED
      BY <1>1, <2>2, <3>1, Basics, StackTypes DEF AddThenDisplay
  <2>7. connected' \in Int /\ waiting' \in Int /\ returned' \in Nat /\ timedOut' \in Nat
    <3> HIDE DEF s, show
    <3>1. connected \in Int /\ waiting \in Int /\ returned \in Nat /\ timedOut \in Nat
      BY Basics DEF EngineTypes
    <3>2. connected' \in {connected, connected - 1} /\ waiting' \in {waiting, waiting - 1}
      BY <2>2 DEF MastersLeft
    <3>3. returned' \in {returned, returned + 1} /\ timedOut' \in {timedOut, timedOut + 1}
      BY <2>2
    <3> QED
      BY <3>1, <3>2, <3>3
  <2>8. connmap' \in [Ids -> Ptrs] /\ closed' \subseteq 1 .. count
    BY <2>1, <2>2, Basics DEF EngineTypes
  <2> HIDE DEF s, show
  <2> QED
    BY <2>2, <2>5, <2>6, <2>7, <2>8, Basics, TypesKept DEF EngineTypes, input, clock
<1>4. CASE DisplayClosed
  <2>1. stack' \in Seq(Frames)
    BY <1>1, <1>4, Basics, StackTypes DEF DisplayClosed
  <2>2. UNCHANGED <<options, count>>
    BY <1>4 DEF DisplayClosed, CloseServer, DisplayServer, vars
  <2> QED
    BY <1>4, <2>1, <2>2, OnlyStackTypes DEF DisplayClosed
<1>5. CASE AddReported
  <2> DEFINE s == Top.s
  <2>1. s \in Ids /\ q[s] \in QueryStates /\ q[s].report - 1 \in 0 .. MaxReport
    <3>1. Top.s \in Ptrs /\ Top.s # 0
      BY <1>1, <1>5, FrameKinds DEF AddReported, In, MasterFrames
    <3>2. s \in Ids
      BY <3>1, Basics DEF Ids, Ptrs
    <3>3. q[s] \in QueryStates /\ q[s].report > 0
      BY <1>5, <3>2, Basics DEF AddReported, EngineTypes
    <3>4. q[s].report \in 0 .. MaxReport
      BY <3>3 DEF QueryStates
    <3> QED
      BY <3>2, <3>3, <3>4, Basics
  <2>2. PICK d \in Discovered :
       IF d[1] = 0 \/ FindServerByAddress(d[1], d[2]) # 0
       THEN q' = [q EXCEPT ![s].report = @ - 1] /\ UNCHANGED vars
       ELSE /\ AddByAddr(d[1], d[2], d[3])
            /\ q' = [q EXCEPT ![s].report = @ - 1, ![count + 1] = NewQuery(d[1])]
    BY <1>5 DEF AddReported
  <2> DEFINE r == [q[s] EXCEPT !.report = q[s].report - 1]
  <2>3. r \in QueryStates
    BY <2>1, Basics, QueryUpdates
  <2>4. NewQuery(d[1]) \in QueryStates
    BY Basics, NewQueryType
  <2>5. q' \in [Ids -> QueryStates]
    <3>1. [q EXCEPT ![s].report = @ - 1] = [q EXCEPT ![s] = r]
      BY <2>1, Basics DEF EngineTypes
    <3>2. [q EXCEPT ![s].report = @ - 1] \in [Ids -> QueryStates]
      BY <2>1, <2>3, <3>1, Basics DEF EngineTypes
    <3>3. \A Q \in [Ids -> QueryStates] : [Q EXCEPT ![count + 1] = NewQuery(d[1])] \in [Ids -> QueryStates]
      BY <2>4
    <3>4. [q EXCEPT ![s].report = @ - 1, ![count + 1] = NewQuery(d[1])]
            = [[q EXCEPT ![s].report = @ - 1] EXCEPT ![count + 1] = NewQuery(d[1])]
      OBVIOUS
    <3> HIDE DEF r, s
    <3>5. [q EXCEPT ![s].report = @ - 1, ![count + 1] = NewQuery(d[1])] \in [Ids -> QueryStates]
      BY <3>2, <3>3, <3>4
    <3> QED
      BY <2>2, <3>2, <3>5
  <2>6. UNCHANGED options /\ count' \in {count, count + 1}
    BY <2>2 DEF vars, AddByAddr, Register
  <2>7. 1 .. count \subseteq 1 .. count'
    BY <2>6, Basics
  <2> HIDE DEF s
  <2> QED
    BY <1>5, <2>5, <2>6, <2>7, Basics DEF AddReported, EngineTypes, Sort, counters, input, clock, history
<1>6. CASE NextMaster
  <2> DEFINE s == Top.s
  <2>1. s \in Ids /\ q[s] \in QueryStates
    <3>1. Top.s \in Ptrs /\ Top.s # 0
      BY <1>1, <1>6, FrameKinds DEF NextMaster, In, MasterFrames
    <3>2. s \in Ids
      BY <3>1, Basics DEF Ids, Ptrs
    <3> QED
      BY <3>2, Basics DEF EngineTypes
  <2>2. q' = [q EXCEPT ![s] = [q[s] EXCEPT !.heard = FALSE]]
    BY <1>6, <2>1, Basics DEF NextMaster, EngineTypes
  <2>3. q' \in [Ids -> QueryStates]
    BY <2>1, <2>2, Basics, QueryUpdates DEF EngineTypes
  <2>4. WalkOn \in Frames
    <3>1. Top \in MasterFrames /\ next[s] \in Ptrs
      BY <1>1, <1>6, <2>1, Basics, FrameKinds DEF NextMaster, In, TypeOK
    <3>2. WalkOn \in MasterFrames
      BY <3>1 DEF WalkOn, MasterFrames
    <3> QED
      BY <3>2 DEF Frames
  <2>5. stack' \in Seq(Frames)
    BY <1>1, <1>6, <2>4, Basics, StackTypes DEF NextMaster
  <2> HIDE DEF s
  <2> QED
    BY <1>6, <2>3, <2>5, Basics, TypesKept DEF NextMaster, EngineTypes, vars, counters, input, clock, history
<1>7. CASE MastersAdded
  BY <1>1, <1>7, Basics, StackTypes, OnlyStackTypes, FrameSets DEF MastersAdded, vars
<1> QED
  BY <1>2, <1>3, <1>4, <1>5, <1>6, <1>7 DEF CleanupServer

LEMMA SendServerFacts ==
  ASSUME EngineInv, Sending
  PROVE  /\ stack # <<>> /\ Top \in Frames /\ Top.pc = "send"
         /\ NextFd(Top.i) \in Ids /\ connmap[NextFd(Top.i)] # 0
         /\ SendServer \in Ids /\ SendOn \in Frames /\ SendOn.pc = "send"
<1>1. stack # <<>> /\ Top \in SendFrames /\ Top \in Frames /\ Top.pc = "send"
  BY Basics, TopFrame, FrameKinds DEF Sending, In
<1> DEFINE m == {f \in Ids : f > Top.i /\ connmap[f] # 0}
<1>2. NextFd(Top.i) \in m
  <2>1. m # {} /\ NextFd(Top.i) = CHOOSE f \in m : \A g \in m : f <= g
    BY DEF Sending, NextFd
  <2>2. m \in SUBSET Nat
    BY Basics DEF Ids
  <2>3. \E f \in m : \A g \in m : f <= g
    BY <2>1, <2>2, LeastNumber
  <2> HIDE DEF m
  <2> QED
    BY <2>1, <2>3
<1>3. SendServer \in Ids
  <2>1. SendServer \in Ptrs /\ SendServer # 0
    BY <1>2, Basics DEF SendServer, EngineTypes
  <2> QED
    BY <2>1, Basics DEF Ids, Ptrs
<1>4. SendOn \in SendFrames
  BY <1>1, <1>2, Basics DEF SendFrames, SendOn
<1> QED
  BY <1>1, <1>2, <1>3, <1>4 DEF Frames, SendFrames

LEMMA SendPacketsTypes ==
  ASSUME EngineInv, SendPackets
  PROVE  EngineTypes'
<1>1. stack # <<>> /\ Top \in Frames
  BY Basics, TopFrame
     DEF SendPackets, EndSend, SendWaits, SendGivesUp, SendAgain, RulesGivenUp, AskDetails, Sending, In
<1>2. Sending => /\ SendServer \in Ids /\ SendOn \in Frames /\ q[SendServer] \in QueryStates
                 /\ \A b \in BOOLEAN : Cleanup(SendServer, b) \in Frames
  BY Basics, SendServerFacts, FrameSets DEF EngineTypes
<1> DEFINE s == SendServer
<1>3. CASE EndSend
  BY <1>1, <1>3, Basics, StackTypes, OnlyStackTypes DEF EndSend, vars
<1>4. CASE SendWaits
  BY <1>1, <1>2, <1>4, Basics, StackTypes, OnlyStackTypes DEF SendWaits, vars
<1>5. CASE SendGivesUp
  BY <1>1, <1>2, <1>5, Basics, StackTypes, OnlyStackTypes DEF SendGivesUp, vars
<1>6. CASE SendAgain
  <2>1. PICK sent \in Sends :
       /\ StatusQuery(s, q[s], sent)
       /\ IF sent THEN Go(SendOn) ELSE Call(Cleanup(s, TRUE), SendOn)
    BY <1>6 DEF SendAgain
  <2>2. sent \in BOOLEAN /\ Sending
    BY <1>6 DEF Sends, SendAgain
  <2>3. /\ q' \in [Ids -> QueryStates] /\ asked' \in [Ids -> Nat]
        /\ due1' \subseteq Ids /\ due2' = due2 /\ recent' = TRUE
    BY <1>2, <2>1, <2>2, Basics, StatusQueryTypes
  <2>4. stack' \in Seq(Frames)
    BY <1>1, <1>2, <2>1, <2>2, Basics, StackTypes
  <2> HIDE DEF s
  <2> QED
    <3>1. /\ UNCHANGED <<options, setup, count, connmap, connected, waiting, returned, timedOut,
                        closed, main, polled, buffer, bindRetry, budget>>
      BY <1>6 DEF SendAgain, vars, fields, counters, input
    <3>2. EngineTypes
      BY DEF EngineInv
    <3> QED
      BY <2>3, <2>4, <3>1, <3>2 DEF EngineTypes, Sort
<1>7. CASE RulesGivenUp
  <2>1. q' = [q EXCEPT ![s] = [q[s] EXCEPT !.rules = FALSE]]
    BY <1>2, <1>7, Basics DEF RulesGivenUp, EngineTypes
  <2>2. q' \in [Ids -> QueryStates]
    BY <1>2, <1>7, <2>1, Basics, QueryUpdates DEF RulesGivenUp, EngineTypes
  <2>3. stack' \in Seq(Frames)
    BY <1>1, <1>2, <1>7, Basics, StackTypes DEF RulesGivenUp
  <2> HIDE DEF s
  <2> QED
    BY <1>7, <2>2, <2>3, Basics, TypesKept DEF RulesGivenUp, EngineTypes, vars, counters, input, clock, history
<1>8. CASE AskDetails
  <2>1. s \in Ids /\ q[s] \in QueryStates /\ Sending
    BY <1>2, <1>8 DEF AskDetails
  <2> DEFINE drops == DropsPlayer(s)
             left == IF drops THEN q[s].players - 1 ELSE q[s].players
             asks == q[s].players > 0 /\ ~Waits2(s)
             idle == ~q[s].rules /\ q[s].players = 0
  <2>2. PICK sent1 \in Sends, sent2 \in Sends :
         LET ruled == IF q[s].rules THEN Request1(q[s], sent1) ELSE q[s]
             fresh == IF drops THEN [ruled EXCEPT !.retry2 = NRetries] ELSE ruled
         IN  /\ q' = [q EXCEPT ![s] =
                        CASE asks /\ left = 0 -> [ruled EXCEPT !.players = 0]
                          [] asks /\ left > 0 -> Request2([fresh EXCEPT !.players = left], sent2)
                          [] idle /\ q[s].retry1 >= 1 -> [q[s] EXCEPT !.retry1 = @ - 1]
                          [] OTHER -> ruled]
             /\ due1' = IF q'[s].retry1 # q[s].retry1 THEN due1 \ {s} ELSE due1
             /\ due2' = IF asks THEN due2 \ {s} ELSE due2
             /\ recent' = (recent \/ q[s].rules \/ (asks /\ left > 0))
             /\ IF (asks /\ left = 0) \/ (idle /\ q[s].retry1 < 1 /\ s \in due1)
                THEN Call(Cleanup(s, TRUE), SendOn)
                ELSE Go(SendOn)
    BY <1>8 DEF AskDetails
  <2> DEFINE ruled == IF q[s].rules THEN Request1(q[s], sent1) ELSE q[s]
             fresh == IF drops THEN [ruled EXCEPT !.retry2 = NRetries] ELSE ruled
             r == CASE asks /\ left = 0 -> [ruled EXCEPT !.players = 0]
                    [] asks /\ left > 0 -> Request2([fresh EXCEPT !.players = left], sent2)
                    [] idle /\ q[s].retry1 >= 1 -> [q[s] EXCEPT !.retry1 = @ - 1]
                    [] OTHER -> ruled
  <2>3. ruled \in QueryStates
    BY <2>1, Basics, QueryRequests
  <2>4. asks => left \in 0 .. MaxPlayers
    <3>1. q[s].players \in 0 .. MaxPlayers
      BY <2>1 DEF QueryStates
    <3> QED
      BY <3>1, Basics
  <2>5. fresh \in QueryStates
    <3> HIDE DEF ruled
    <3>1. NRetries \in Int
      BY Basics
    <3> QED
      BY <2>3, <3>1, Basics, QueryUpdates
  <2>6. r \in QueryStates
    <3> HIDE DEF ruled, fresh, left
    <3>1. asks => [fresh EXCEPT !.players = left] \in QueryStates
      BY <2>4, <2>5, Basics, QueryUpdates
    <3>2. [ruled EXCEPT !.players = 0] \in QueryStates
      <4>1. 0 \in 0 .. MaxPlayers
        BY Basics
      <4> QED
        BY <2>3, <4>1, Basics, QueryUpdates
    <3> HIDE DEF asks, idle
    <3>3. asks => Request2([fresh EXCEPT !.players = left], sent2) \in QueryStates
      BY <3>1, Basics, QueryRequests
    <3>4. [q[s] EXCEPT !.retry1 = @ - 1] \in QueryStates
      BY <2>1, Basics, QueryRequests
    <3> QED
      BY <2>3, <3>2, <3>3, <3>4
  <2>7. q' = [q EXCEPT ![s] = r]
    BY <2>2
  <2>8. due1' \in {due1, due1 \ {s}} /\ due2' \in {due2, due2 \ {s}} /\ recent' \in BOOLEAN
    <3> HIDE DEF asks, left, idle
    <3>1. recent \in BOOLEAN /\ q[s].rules \in BOOLEAN
      BY <2>1, Basics DEF EngineTypes, QueryStates
    <3>2. recent' = (recent \/ q[s].rules \/ (asks /\ left > 0))
      BY <2>2
    <3>3. recent' \in BOOLEAN
      BY <3>1, <3>2
    <3> QED
      BY <2>2, <3>3
  <2>9. stack' \in Seq(Frames)
    BY <1>1, <1>2, <2>1, <2>2, Basics, StackTypes
  <2> HIDE DEF s, r
  <2>10. q' \in [Ids -> QueryStates]
    BY <2>1, <2>6, <2>7, Basics DEF EngineTypes
  <2> QED
    BY <1>8, <2>8, <2>9, <2>10, Basics, TypesKept DEF AskDetails, EngineTypes, vars, counters, input, history
<1> QED
  BY <1>3, <1>4, <1>5, <1>6, <1>7, <1>8 DEF SendPackets

-----------------------------------------------------------------------------
\* What a handler may do to the server the packet is from.

SameSocket(r, x) == r.fd = x.fd /\ r.state = x.state
NewSocket(r, x) == x.fd = 0 /\ r.fd = FreeFd /\ r.state = "connected"

\* A name is kept, or there is one now.
Renames(x, r) == r.name = x.name \/ r.name \notin {NoName, "TIMEOUT"}

AnsweredWith(s, r) ==
  /\ r \in QueryStates /\ q' = [q EXCEPT ![s] = r] /\ Renames(q[s], r)
  /\ \/ /\ SameSocket(r, q[s])
        /\ connmap' = connmap \/ (q[s].fd # 0 /\ connmap' = [connmap EXCEPT ![q[s].fd] = s])
     \/ /\ NewSocket(r, q[s]) /\ Is(s, Q1Types \cup Q3Types)
        /\ connmap' = [connmap EXCEPT ![FreeFd] = s]
  /\ \/ stack' = <<>> /\ Is(s, Q1Types \cup Q3Types \cup MasterTypes)
     \/ \E force \in BOOLEAN : stack' = <<Cleanup(s, force)>>
     \/ stack' = <<BindCall, Cleanup(s, TRUE)>> /\ Is(s, MasterTypes) /\ r.name # NoName

Answered(s) == \E r : AnsweredWith(s, r)

\* A change of a query state that leaves its socket alone.
Likewise(r, x) == r \in QueryStates /\ SameSocket(r, x) /\ Renames(x, r)

LEMMA LikewiseUpdates ==
  ASSUME NEW x, NEW r, Likewise(r, x), MaxPlayers \in Nat, NRetries \in Nat, NEW sent
  PROVE  /\ Likewise(Request1(r, sent), x) /\ Likewise(Request2(r, sent), x)
         /\ Likewise(Named(r), x) /\ Named(r).name \notin {NoName, "TIMEOUT"}
         /\ \A n \in Int : Likewise([r EXCEPT !.retry1 = n], x)
         /\ \A n \in Int : Likewise([r EXCEPT !.retry2 = n], x)
         /\ \A b \in BOOLEAN : Likewise([r EXCEPT !.rules = b], x)
         /\ \A b \in BOOLEAN : Likewise([r EXCEPT !.heard = b], x)
         /\ \A n \in 0 .. MaxPlayers : Likewise([r EXCEPT !.players = n], x)
         /\ \A n \in 0 .. MaxReport : Likewise([r EXCEPT !.report = n], x)
         /\ \A n \in Names \ {NoName, "TIMEOUT"} : Likewise([r EXCEPT !.name = n], x)
<1>1. r \in QueryStates
  BY DEF Likewise
<1>2. Request1(r, sent) \in QueryStates /\ Request2(r, sent) \in QueryStates /\ Named(r) \in QueryStates
  BY <1>1, QueryRequests
<1>3. /\ SameSocket(Request1(r, sent), r) /\ SameSocket(Request2(r, sent), r) /\ SameSocket(Named(r), r)
      /\ Request1(r, sent).name = r.name /\ Request2(r, sent).name = r.name /\ Named(r).name = "some"
  BY <1>1 DEF QueryStates, SameSocket, Request1, Request2, Named
<1>4. "some" \notin {NoName, "TIMEOUT"}
  BY DEF NoName
<1>5. /\ Likewise(Request1(r, sent), x) /\ Likewise(Request2(r, sent), x)
      /\ Likewise(Named(r), x) /\ Named(r).name \notin {NoName, "TIMEOUT"}
  BY <1>1, <1>2, <1>3, <1>4 DEF Likewise, SameSocket, Renames
<1> QED
  BY <1>1, <1>5 DEF Likewise, SameSocket, QueryStates, Renames

LEMMA ResultFrames ==
  ASSUME NEW s, NEW ret
  PROVE  /\ ret = "INPROGRESS" => ProcessFuncRet(ret, s) = <<>>
         /\ ret # "INPROGRESS" => \E force \in BOOLEAN : ProcessFuncRet(ret, s) = <<Cleanup(s, force)>>
  BY DEF ProcessFuncRet

LEMMA AnswerSingleDoes ==
  ASSUME EngineInv, NEW s \in live, AnswerSingle(s)
  PROVE  Answered(s) /\ UNCHANGED <<due1, due2, recent>>
<1>1. q[s] \in QueryStates
  BY Basics DEF EngineTypes
<1>2. Likewise(q[s], q[s]) /\ Likewise(Named(q[s]), q[s])
  BY <1>1, Basics, LikewiseUpdates DEF Likewise, SameSocket, Renames
<1>3. PICK r, ret : /\ Likewise(r, q[s]) /\ ret \in {"DONE_AUTO", "PKT_ERROR"} /\ Result(s, r, ret)
                    /\ UNCHANGED <<connmap, due1, due2, recent>>
  BY <1>2 DEF AnswerSingle
<1>4. AnsweredWith(s, r)
  BY <1>3, ResultFrames DEF AnsweredWith, Result, Likewise
<1> QED
  BY <1>3, <1>4 DEF Answered

LEMMA AnswerQ3Does ==
  ASSUME EngineInv, NEW s \in live, AnswerQ3(s)
  PROVE  Answered(s) /\ due1' \subseteq due1 /\ UNCHANGED <<due2, recent>>
<1>1. q[s] \in QueryStates /\ Likewise(q[s], q[s]) /\ NRetries \in Nat /\ MaxPlayers \in Nat
  BY Basics DEF EngineTypes, Likewise, SameSocket, Renames
<1>s. SUFFICES Answered(s)
  BY DEF AnswerQ3
<1>2. Likewise(Named(q[s]), q[s]) /\ Is(s, Q3Types)
  BY <1>1, LikewiseUpdates DEF AnswerQ3
<1>3. ASSUME NEW r, NEW ret, Likewise(r, q[s]), Result(s, r, ret), connmap' = connmap
      PROVE  Answered(s)
  <2>1. AnsweredWith(s, r)
    BY <1>2, <1>3, ResultFrames DEF AnsweredWith, Result, Likewise, Is
  <2> QED
    BY <2>1 DEF Answered
<1>4. CASE /\ LET r == Bind(s, [Named(q[s]) EXCEPT !.rules = TRUE, !.retry1 = NRetries - 1])
              IN  /\ Result(s, r, "INPROGRESS")
                  /\ connmap' = [connmap EXCEPT ![r.fd] = s]
  <2> DEFINE x == [Named(q[s]) EXCEPT !.rules = TRUE, !.retry1 = NRetries - 1]
             r == Bind(s, x)
  <2>1. Likewise(x, q[s]) /\ x.name \notin {NoName, "TIMEOUT"}
    <3>1. NRetries - 1 \in Int /\ Named(q[s]) \in QueryStates
      BY <1>1, <1>2 DEF Likewise
    <3>2. Likewise([Named(q[s]) EXCEPT !.rules = TRUE], q[s])
      BY <1>1, <1>2, LikewiseUpdates
    <3>3. x = [[Named(q[s]) EXCEPT !.rules = TRUE] EXCEPT !.retry1 = NRetries - 1]
      OBVIOUS
    <3>4. Likewise(x, q[s])
      BY <1>1, <3>1, <3>2, <3>3, LikewiseUpdates
    <3>5. x.name = Named(q[s]).name
      BY <3>1 DEF QueryStates
    <3> QED
      BY <1>1, <3>4, <3>5, LikewiseUpdates
  <2>2. x.fd = 0 => FreeFd \in Ptrs
    BY <2>1, Basics, FreeFdFound DEF Likewise, SameSocket
  <2> HIDE DEF x
  <2>3. r \in QueryStates /\ r.name \notin {NoName, "TIMEOUT"} /\ ((SameSocket(r, q[s]) /\ q[s].fd # 0) \/ NewSocket(r, q[s]))
    <3>1. CASE x.fd = 0
      <4>1. r = [x EXCEPT !.fd = FreeFd, !.state = "connected"]
        BY <3>1 DEF Bind
      <4> HIDE DEF r
      <4>2. x \in QueryStates /\ q[s].fd = 0
        BY <2>1, <3>1 DEF Likewise, SameSocket
      <4> QED
        BY <2>1, <2>2, <3>1, <4>1, <4>2 DEF NewSocket, QueryStates, States
    <3>2. CASE x.fd # 0
      BY <2>1, <3>2 DEF Bind, Likewise, SameSocket
    <3> QED
      BY <3>1, <3>2
  <2> HIDE DEF r
  <2>4. AnsweredWith(s, r)
    BY <1>2, <1>4, <2>3, ResultFrames DEF AnsweredWith, Renames, Result, SameSocket, NewSocket, Is, r, x
  <2> QED
    BY <2>4 DEF Answered
<1>5. CASE \E ret \in {"INPROGRESS", "DONE_AUTO", "PKT_ERROR"} : Result(s, q[s], ret) /\ connmap' = connmap
  BY <1>1, <1>3, <1>5
<1>6. CASE Result(s, Named(q[s]), "DONE_AUTO") /\ connmap' = connmap
  BY <1>2, <1>3, <1>6
<1>7. CASE Result(s, [Named(q[s]) EXCEPT !.rules = FALSE, !.retry1 = 0], "DONE_AUTO") /\ connmap' = connmap
  <2> DEFINE y == [Named(q[s]) EXCEPT !.rules = FALSE]
             x == [Named(q[s]) EXCEPT !.rules = FALSE, !.retry1 = 0]
  <2>1. Likewise(y, q[s])
    BY <1>1, <1>2, LikewiseUpdates
  <2>2. x = [y EXCEPT !.retry1 = 0]
    OBVIOUS
  <2> HIDE DEF x, y
  <2>3. Likewise(x, q[s])
    BY <1>1, <2>1, <2>2, LikewiseUpdates
  <2> QED
    BY <1>3, <1>7, <2>3 DEF x
<1> QED
  BY <1>4, <1>5, <1>6, <1>7 DEF AnswerQ3

LEMMA AnswerMasterDoes ==
  ASSUME EngineInv, NEW s \in live, AnswerMaster(s)
  PROVE  Answered(s) /\ due1' \subseteq due1 /\ UNCHANGED <<due2, recent>>
<1>1. q[s] \in QueryStates /\ Likewise(q[s], q[s]) /\ MaxPlayers \in Nat /\ MaxReport \in Nat /\ NRetries \in Nat
  BY Basics DEF EngineTypes, Likewise, SameSocket, Renames
<1>s. SUFFICES Answered(s)
  BY DEF AnswerMaster
<1>2. Is(s, MasterTypes) /\ connmap' = connmap
  BY DEF AnswerMaster
<1>3. ASSUME NEW r, Likewise(r, q[s]), q' = [q EXCEPT ![s] = r],
             \/ \E ret : stack' = ProcessFuncRet(ret, s)
             \/ stack' = <<BindCall, Cleanup(s, TRUE)>> /\ r.name # NoName
      PROVE  Answered(s)
  <2>1. AnsweredWith(s, r)
    BY <1>2, <1>3, ResultFrames DEF AnsweredWith, Likewise, Is
  <2> QED
    BY <2>1 DEF Answered
<1>4. CASE Result(s, [q[s] EXCEPT !.name = "SERVERERROR"], "PKT_ERROR")
  <2>1. Likewise([q[s] EXCEPT !.name = "SERVERERROR"], q[s])
    BY <1>1, LikewiseUpdates DEF Names, NoName
  <2> QED
    BY <1>3, <1>4, <2>1 DEF Result
<1>5. CASE Result(s, q[s], "DONE_AUTO")
  BY <1>1, <1>3, <1>5 DEF Result
<1>6. ASSUME NEW n \in 0 .. MaxReport,
          LET reported == IF q[s].report + n > MaxReport THEN MaxReport ELSE q[s].report + n
              r == [q[s] EXCEPT !.heard = TRUE, !.report = reported]
          IN  IF Is(s, MultiMasters)
              THEN \E ret \in {"INPROGRESS", "DONE_FORCE"} : Result(s, [r EXCEPT !.retry1 = 0], ret)
              ELSE \/ /\ q' = [q EXCEPT ![s] = [r EXCEPT !.name = "MASTER"]]
                      /\ stack' = <<BindCall, Cleanup(s, TRUE)>>
                   \/ \E sent \in Sends :
                        Result(s, Request1([r EXCEPT !.retry1 = @ + 1], sent), "INPROGRESS")
      PROVE  Answered(s)
  <2> DEFINE reported == IF q[s].report + n > MaxReport THEN MaxReport ELSE q[s].report + n
             r == [q[s] EXCEPT !.heard = TRUE, !.report = reported]
  <2>1. reported \in 0 .. MaxReport
    BY <1>1 DEF QueryStates
  <2>2. Likewise(r, q[s])
    <3>1. r = [[q[s] EXCEPT !.heard = TRUE] EXCEPT !.report = reported]
      OBVIOUS
    <3> HIDE DEF reported
    <3>2. Likewise([q[s] EXCEPT !.heard = TRUE], q[s])
      BY <1>1, LikewiseUpdates
    <3> QED
      BY <1>1, <2>1, <3>1, <3>2, LikewiseUpdates
  <2>3. CASE \E ret : Result(s, [r EXCEPT !.retry1 = 0], ret)
    <3> HIDE DEF r
    <3>1. Likewise([r EXCEPT !.retry1 = 0], q[s])
      BY <1>1, <2>2, LikewiseUpdates
    <3> QED
      BY <1>3, <2>3, <3>1 DEF Result
  <2>4. CASE q' = [q EXCEPT ![s] = [r EXCEPT !.name = "MASTER"]] /\ stack' = <<BindCall, Cleanup(s, TRUE)>>
    <3> HIDE DEF r
    <3>1. Likewise([r EXCEPT !.name = "MASTER"], q[s])
      BY <1>1, <2>2, LikewiseUpdates DEF Names, NoName
    <3>2. [r EXCEPT !.name = "MASTER"].name # NoName
      BY <2>2 DEF Likewise, QueryStates, NoName
    <3> QED
      BY <1>3, <2>4, <3>1, <3>2
  <2>5. CASE \E sent \in Sends : Result(s, Request1([r EXCEPT !.retry1 = @ + 1], sent), "INPROGRESS")
    <3> HIDE DEF r
    <3>1. PICK sent \in Sends : Result(s, Request1([r EXCEPT !.retry1 = @ + 1], sent), "INPROGRESS")
      BY <2>5
    <3>2. r.retry1 + 1 \in Int
      BY <2>2 DEF Likewise, QueryStates
    <3>3. Likewise([r EXCEPT !.retry1 = r.retry1 + 1], q[s])
      BY <1>1, <2>2, <3>2, LikewiseUpdates
    <3>4. Likewise(Request1([r EXCEPT !.retry1 = @ + 1], sent), q[s])
      BY <1>1, <3>3, LikewiseUpdates
    <3> QED
      BY <1>3, <3>1, <3>4 DEF Result
  <2> QED
    BY <1>6, <2>3, <2>4, <2>5
<1> QED
  BY <1>4, <1>5, <1>6 DEF AnswerMaster

AskedOn(r, x) ==
  /\ r \in QueryStates /\ Renames(x, r)
  /\ SameSocket(r, x) \/ NewSocket(r, x)

LEMMA AskedOnUpdates ==
  ASSUME EngineInv, NEW s \in live, NEW r, AskedOn(r, q[s]), NEW sent
  PROVE  AskedOn(Bind(s, r), q[s]) /\ AskedOn(Request1(r, sent), q[s]) /\ AskedOn(Request2(r, sent), q[s])
<1>1. r \in QueryStates /\ MaxPlayers \in Nat
  BY Basics DEF AskedOn
<1>2. r.fd = 0 => FreeFd \in Ids /\ q[s].fd = 0
  <2>1. SUFFICES ASSUME r.fd = 0
                 PROVE  FreeFd \in Ids /\ q[s].fd = 0
    OBVIOUS
  <2>2. q[s].fd = 0
    BY <2>1 DEF AskedOn, SameSocket, NewSocket
  <2> QED
    BY <2>2, Basics, FreeFdFound
<1>3. AskedOn(Bind(s, r), q[s])
  <2>1. CASE r.fd = 0
    <3>1. Bind(s, r) = [r EXCEPT !.fd = FreeFd, !.state = "connected"]
      BY <2>1 DEF Bind
    <3>2. Bind(s, r) \in QueryStates
      <4>1. FreeFd \in Ptrs /\ "connected" \in States
        BY <1>2, <2>1, Basics DEF States
      <4>2. [r EXCEPT !.fd = FreeFd, !.state = "connected"] \in QueryStates
        BY <1>1, <4>1, QueryUpdates
      <4> QED
        BY <3>1, <4>2
    <3>3. Bind(s, r).fd = FreeFd /\ Bind(s, r).state = "connected" /\ Bind(s, r).name = r.name
      BY <1>1, <3>1 DEF QueryStates
    <3> QED
      BY <1>2, <2>1, <3>2, <3>3 DEF AskedOn, NewSocket, Renames
  <2>2. CASE r.fd # 0
    BY <2>2 DEF Bind
  <2> QED
    BY <2>1, <2>2
<1>4. Request1(r, sent) \in QueryStates /\ Request2(r, sent) \in QueryStates
  BY <1>1, QueryRequests
<1>5. /\ SameSocket(Request1(r, sent), r) /\ SameSocket(Request2(r, sent), r)
      /\ Request1(r, sent).name = r.name /\ Request2(r, sent).name = r.name
  BY <1>1 DEF QueryStates, SameSocket, Request1, Request2
<1> QED
  BY <1>3, <1>4, <1>5 DEF AskedOn, SameSocket, NewSocket, Renames

LEMMA AnswerQ1Does ==
  ASSUME EngineInv, NEW s \in live, AnswerQ1(s)
  PROVE  Answered(s) /\ due1' \subseteq due1 /\ due2' \subseteq due2 /\ UNCHANGED recent
<1>1. /\ q[s] \in QueryStates /\ Likewise(q[s], q[s]) /\ NRetries \in Nat /\ MaxPlayers \in Nat
      /\ s \in Ids /\ q \in [Ids -> QueryStates]
  BY Basics DEF EngineTypes, Likewise, SameSocket, Renames
<1>2. /\ Is(s, Q1Types) /\ Likewise(Named(q[s]), q[s])
      /\ connmap' = IF q'[s].fd = 0 THEN connmap ELSE [connmap EXCEPT ![q'[s].fd] = s]
  BY <1>1, LikewiseUpdates DEF AnswerQ1
<1>s. SUFFICES Answered(s)
  BY DEF AnswerQ1
<1>3. ASSUME NEW r, NEW ret, AskedOn(r, q[s]), Result(s, r, ret)
      PROVE  Answered(s)
  <2>1. q'[s] = r /\ q' = [q EXCEPT ![s] = r]
    BY <1>1, <1>3 DEF Result
  <2>2. AnsweredWith(s, r)
    <3>1. \/ stack' = <<>> \/ \E force \in BOOLEAN : stack' = <<Cleanup(s, force)>>
      BY <1>3, ResultFrames DEF Result
    <3>2. \/ /\ SameSocket(r, q[s])
             /\ connmap' = connmap \/ (q[s].fd # 0 /\ connmap' = [connmap EXCEPT ![q[s].fd] = s])
          \/ NewSocket(r, q[s]) /\ connmap' = [connmap EXCEPT ![FreeFd] = s]
      <4>1. CASE SameSocket(r, q[s])
        BY <1>2, <2>1, <4>1 DEF SameSocket
      <4>2. CASE NewSocket(r, q[s])
        <5>1. FreeFd # 0
          BY <1>1, <4>2, Basics, FreeFdFound DEF NewSocket
        <5> QED
          BY <1>2, <2>1, <4>2, <5>1 DEF NewSocket
      <4> QED
        BY <1>3, <4>1, <4>2 DEF AskedOn
    <3> QED
      BY <1>2, <1>3, <2>1, <3>1, <3>2 DEF AnsweredWith, AskedOn, Is
  <2> QED
    BY <2>2 DEF Answered
<1>4. ASSUME NEW r, Likewise(r, q[s])
      PROVE  AskedOn(r, q[s])
  BY <1>4 DEF AskedOn, Likewise
<1>5. PICK sent1 \in Sends, sent2 \in Sends :
       LET r == q[s]
           Rule(x) == IF GetRules THEN Request1(Bind(s, x), sent1) ELSE x
           Player(x) == IF GetPlayers THEN Request2(Bind(s, x), sent2) ELSE x
       IN  \/ \E n \in 0 .. MaxPlayers :
                /\ r.name = NoName
                /\ Result(s, Player(Rule([Named(r) EXCEPT
                     !.players = IF GetPlayers THEN n ELSE 0, !.retry1 = NRetries])), "INPROGRESS")
           \/ /\ r.players > 0
              /\ LET x == [r EXCEPT !.players = @ - 1, !.retry2 = NRetries]
                 IN  Result(s, IF x.players > 0 THEN Request2(x, sent2) ELSE x, "INPROGRESS")
           \/ /\ r.rules /\ r.name # NoName
              /\ \/ Result(s, [r EXCEPT !.rules = FALSE], "INPROGRESS")
                 \/ Result(s, Request1([r EXCEPT !.retry1 = NRetries], sent1), "INPROGRESS")
           \/ Result(s, r, "INPROGRESS")
           \/ Result(s, r, "PKT_ERROR")
           \/ Result(s, Named(r), "PKT_ERROR")
  BY DEF AnswerQ1
<1> DEFINE Rule(x) == IF GetRules THEN Request1(Bind(s, x), sent1) ELSE x
           Player(x) == IF GetPlayers THEN Request2(Bind(s, x), sent2) ELSE x
<1>6. ASSUME NEW n \in 0 .. MaxPlayers,
             Result(s, Player(Rule([Named(q[s]) EXCEPT
                     !.players = IF GetPlayers THEN n ELSE 0, !.retry1 = NRetries])), "INPROGRESS")
      PROVE  Answered(s)
  <2> DEFINE m == IF GetPlayers THEN n ELSE 0
             y == [Named(q[s]) EXCEPT !.players = m]
             x == [Named(q[s]) EXCEPT !.players = IF GetPlayers THEN n ELSE 0, !.retry1 = NRetries]
  <2>1. m \in 0 .. MaxPlayers
    BY <1>1
  <2>2. Likewise(y, q[s])
    <3> HIDE DEF m
    <3> QED
      BY <1>1, <1>2, <2>1, LikewiseUpdates
  <2>3. x = [y EXCEPT !.retry1 = NRetries]
    OBVIOUS
  <2> HIDE DEF y, x
  <2>4. AskedOn(x, q[s])
    <3>1. NRetries \in Int
      BY <1>1
    <3>2. Likewise(x, q[s])
      BY <1>1, <2>2, <2>3, <3>1, LikewiseUpdates
    <3> QED
      BY <1>4, <3>2
  <2>5. AskedOn(Rule(x), q[s])
    BY <2>4, AskedOnUpdates
  <2> DEFINE z == Rule(x)
  <2> HIDE DEF z
  <2>6. AskedOn(Player(z), q[s])
    BY <2>5, AskedOnUpdates DEF z
  <2>7. Result(s, Player(z), "INPROGRESS")
    BY <1>6 DEF z, x
  <2> QED
    BY <1>3, <2>6, <2>7
<1>7. CASE /\ q[s].players > 0
           /\ LET x == [q[s] EXCEPT !.players = @ - 1, !.retry2 = NRetries]
              IN  Result(s, IF x.players > 0 THEN Request2(x, sent2) ELSE x, "INPROGRESS")
  <2> DEFINE y == [q[s] EXCEPT !.players = q[s].players - 1]
             x == [q[s] EXCEPT !.players = @ - 1, !.retry2 = NRetries]
  <2>1. q[s].players - 1 \in 0 .. MaxPlayers
    <3>1. q[s].players \in 0 .. MaxPlayers /\ q[s].players > 0
      BY <1>1, <1>7 DEF QueryStates
    <3> QED
      BY <1>1, <3>1
  <2>2. Likewise(y, q[s])
    BY <1>1, <2>1, LikewiseUpdates
  <2>3. x = [y EXCEPT !.retry2 = NRetries]
    OBVIOUS
  <2> HIDE DEF y, x
  <2>4. AskedOn(x, q[s])
    <3>1. NRetries \in Int
      BY <1>1
    <3>2. Likewise(x, q[s])
      BY <1>1, <2>2, <2>3, <3>1, LikewiseUpdates
    <3> QED
      BY <1>4, <3>2
  <2>5. AskedOn(IF x.players > 0 THEN Request2(x, sent2) ELSE x, q[s])
    BY <2>4, AskedOnUpdates
  <2>6. Result(s, IF x.players > 0 THEN Request2(x, sent2) ELSE x, "INPROGRESS")
    BY <1>7 DEF x
  <2> QED
    BY <1>3, <2>5, <2>6
<1>8. CASE \/ Result(s, [q[s] EXCEPT !.rules = FALSE], "INPROGRESS")
           \/ Result(s, Request1([q[s] EXCEPT !.retry1 = NRetries], sent1), "INPROGRESS")
  <2>1. /\ Likewise([q[s] EXCEPT !.rules = FALSE], q[s])
        /\ Likewise([q[s] EXCEPT !.retry1 = NRetries], q[s])
    <3> DEFINE x == q[s]
    <3>1. Likewise(x, x) /\ NRetries \in Int
      BY <1>1
    <3> HIDE DEF x
    <3>2. Likewise([x EXCEPT !.rules = FALSE], x) /\ Likewise([x EXCEPT !.retry1 = NRetries], x)
      BY <1>1, <3>1, LikewiseUpdates
    <3> QED
      BY <3>2 DEF x
  <2>2. /\ AskedOn([q[s] EXCEPT !.rules = FALSE], q[s])
        /\ AskedOn(Request1([q[s] EXCEPT !.retry1 = NRetries], sent1), q[s])
    BY <1>4, <2>1, AskedOnUpdates
  <2> QED
    BY <1>3, <1>8, <2>2
<1>9. CASE \/ Result(s, q[s], "INPROGRESS")
           \/ Result(s, q[s], "PKT_ERROR")
           \/ Result(s, Named(q[s]), "PKT_ERROR")
  BY <1>1, <1>2, <1>3, <1>4, <1>9
<1> HIDE DEF Rule, Player
<1> QED
  BY <1>5, <1>6, <1>7, <1>8, <1>9 DEF Rule, Player

\* A packet is handled.
LEMMA HandleDoes ==
  ASSUME EngineInv, Handle
  PROVE  /\ At("handle") /\ buffer # <<>> /\ Head(buffer) \in live /\ ~Broadcast(Head(buffer))
         /\ Answered(Head(buffer)) /\ buffer' = Tail(buffer)
         /\ due1' \subseteq due1 /\ due2' \subseteq due2 /\ recent' = recent
         /\ UNCHANGED <<vars, setup, counters, history, main, polled, bindRetry, budget>>
  BY AnswerSingleDoes, AnswerQ3Does, AnswerQ1Does, AnswerMasterDoes DEF Handle

-----------------------------------------------------------------------------
\* What a step of the list does to the structs.

AddsServer(a, t) ==
  /\ count' = count + 1 /\ count + 1 \in Ids /\ live' = live \cup {count + 1}
  /\ ip' = [ip EXCEPT ![count + 1] = a] /\ type' = [type EXCEPT ![count + 1] = t]

SameServers == UNCHANGED <<count, live, ip, type>>

LEMMA LoadEffect ==
  ASSUME ListInv, Load \/ StartWork
  PROVE  /\ phase = "args" \/ adding.on
         /\ options' = options
         /\ SameServers \/ (adding.on /\ AddsServer(adding.arg.ip, adding.arg.type))
<1>1. CASE AddUnresolved
  <2>1. InRange /\ adding.on /\ adding.arg.ip = 0
    BY <1>1 DEF AddUnresolved, InRange
  <2>2. adding.node = 0
    BY <2>1 DEF ListInv, OneTurn
  <2> QED
    BY <1>1, <2>1, <2>2 DEF AddUnresolved, SetFields, AddsServer
<1>2. CASE AddResolved
  BY <1>2 DEF AddResolved, Register, SetFields, AddsServer, SameServers, InRange, fields
<1> QED
  BY <1>1, <1>2 DEF Load, ParseArg, EndArg, StartWork, SameServers, fields

LEMMA AddEffect ==
  ASSUME NEW a, NEW p, NEW t, AddByAddr(a, p, t)
  PROVE  AddsServer(a, t) /\ UNCHANGED <<options, phase, cmdline, adding>> /\ a # 0
  BY DEF AddByAddr, Register, SetFields, AddsServer

LEMMA FinishEffect ==
  ASSUME Finish \/ Done
  PROVE  /\ UNCHANGED <<options, count, ip, type, cmdline, adding>>
         /\ phase \in {"finish", "done"} /\ phase' \in {"finish", "done"}
  BY DEF Finish, Done, FinishWalk, FillArray, ShowSorted, EndFinish, DisplayServer, vars, fields

LEMMA CloseEffect ==
  ASSUME NEW s, CloseServer(s)
  PROVE  /\ UNCHANGED <<options, phase, cmdline, adding, count, ip, type>>
         /\ live' = live \ {s}
  BY DEF CloseServer, DisplayServer, Unlink, fields

-----------------------------------------------------------------------------
LEMMA LoadTypes ==
  ASSUME EngineInv, LoadServers
  PROVE  EngineTypes'
<1> DEFINE new == live' \ live
           masters == {s \in new : ip'[s] # 0 /\ type'[s] \in MasterTypes}
<1>1. /\ q' = [s \in Ids |-> IF s \in new THEN NewQuery(ip'[s]) ELSE q[s]]
      /\ waiting' = waiting + Cardinality(masters)
      /\ UNCHANGED <<setup, connmap, connected, returned, timedOut, history, main, stack, input,
                     clock, budget>>
  BY DEF LoadServers
<1>2. options' = options /\ new \subseteq {count + 1} /\ count' \in {count, count + 1}
  BY LoadEffect DEF LoadServers, EngineInv, SameServers, AddsServer
<1>3. Cardinality(masters) \in Nat
  <2>1. IsFiniteSet({count + 1}) /\ masters \subseteq {count + 1}
    BY <1>2, FS_Singleton
  <2>2. IsFiniteSet(masters)
    BY <2>1, FS_Subset
  <2> QED
    BY <2>2, FS_CardinalityType
<1>4. q' \in [Ids -> QueryStates]
  BY <1>1, Basics, NewQueryType DEF EngineTypes
<1> HIDE DEF masters, new
<1>5. waiting' \in Int
  BY <1>1, <1>3, Basics DEF EngineTypes
<1>6. 1 .. count \subseteq 1 .. count'
  BY <1>2, Basics
<1> QED
  BY <1>1, <1>2, <1>4, <1>5, <1>6, Basics DEF EngineTypes, Sort, history, input, clock

LEMMA HandleTypes ==
  ASSUME EngineInv, Handle
  PROVE  EngineTypes'
<1> DEFINE s == Head(buffer)
<1>1. /\ buffer # <<>> /\ s \in live /\ Answered(s) /\ buffer' = Tail(buffer)
      /\ due1' \subseteq due1 /\ due2' \subseteq due2 /\ recent' = recent
      /\ UNCHANGED <<vars, setup, counters, history, main, polled, bindRetry, budget>>
  BY HandleDoes
<1>2. PICK r : AnsweredWith(s, r)
  BY <1>1 DEF Answered
<1>3. s \in Ids /\ r \in QueryStates /\ q' = [q EXCEPT ![s] = r]
  BY <1>1, <1>2, Basics DEF AnsweredWith
<1>4. q' \in [Ids -> QueryStates]
  BY <1>3, Basics DEF EngineTypes
<1>5. connmap' \in [Ids -> Ptrs]
  <2>1. \A f : [connmap EXCEPT ![f] = s] \in [Ids -> Ptrs]
    BY <1>3, Basics DEF EngineTypes
  <2> QED
    BY <1>2, <2>1, Basics DEF AnsweredWith, EngineTypes
<1>6. stack' \in Seq(Frames)
  <2>1. \A f \in Frames, g \in Frames : <<>> \in Seq(Frames) /\ <<f>> \in Seq(Frames) /\ <<f, g>> \in Seq(Frames)
    OBVIOUS
  <2>2. \A b \in BOOLEAN : Cleanup(s, b) \in Frames
    BY <1>3, FrameSets
  <2> HIDE DEF s
  <2> QED
    BY <1>2, <2>1, <2>2, FrameSets DEF AnsweredWith
<1>7. buffer' \in Seq(Ids)
  BY <1>1, Basics DEF EngineTypes
<1> HIDE DEF s
<1> QED
  BY <1>1, <1>4, <1>5, <1>6, <1>7, Basics, TypesKept DEF EngineTypes, vars, counters, history

LEMMA HandleBroadcastTypes ==
  ASSUME EngineInv, HandleBroadcast
  PROVE  EngineTypes'
<1>1. PICK d \in Discovered :
        LET b == Head(buffer)
            found == FindServerByAddress(d[1], d[2])
            s == IF found = 0 THEN count + 1 ELSE found
        IN  /\ d[1] # 0
            /\ buffer' = <<s>> \o Tail(buffer)
            /\ IF found # 0 THEN UNCHANGED <<vars, q, clock>>
               ELSE /\ AddByAddr(d[1], d[2], d[3])
                    /\ q' = [q EXCEPT ![s] = NewQuery(d[1])]
                    /\ due1' = IF b \in due1 THEN due1 \cup {s} ELSE due1
                    /\ due2' = IF b \in due2 THEN due2 \cup {s} ELSE due2
                    /\ UNCHANGED recent
  BY DEF HandleBroadcast
<1> DEFINE found == FindServerByAddress(d[1], d[2])
           s == IF found = 0 THEN count + 1 ELSE found
<1>2. s \in Ids
  <2>1. CASE found # 0
    <3>1. found \in Ptrs
      BY Basics, FoundType, ServerListAssumption DEF TypeOK
    <3> QED
      BY <2>1, <3>1, Basics DEF Ids, Ptrs
  <2>2. CASE found = 0
    BY <1>1, <2>2 DEF AddByAddr, Register
  <2> QED
    BY <2>1, <2>2
<1>3. buffer # <<>> /\ buffer \in Seq(Ids) /\ Tail(buffer) \in Seq(Ids)
  BY Basics DEF HandleBroadcast, EngineTypes
<1>4. buffer' \in Seq(Ids)
  <2> HIDE DEF s
  <2>1. <<s>> \o Tail(buffer) \in Seq(Ids)
    BY <1>2, <1>3
  <2> QED
    BY <1>1, <2>1 DEF s
<1>5. q' \in [Ids -> QueryStates]
  <2>1. NewQuery(d[1]) \in QueryStates
    BY Basics, NewQueryType
  <2>2. q \in [Ids -> QueryStates]
    BY Basics DEF EngineTypes
  <2>3. q' = q \/ q' = [q EXCEPT ![s] = NewQuery(d[1])]
    BY <1>1
  <2> HIDE DEF s
  <2> QED
    BY <1>2, <2>1, <2>2, <2>3
<1>6. options' = options /\ count' \in {count, count + 1}
  BY <1>1 DEF AddByAddr, Register, vars
<1>7. 1 .. count \subseteq 1 .. count'
  BY <1>6, Basics
<1>8. due1' \subseteq Ids /\ due2' \subseteq Ids /\ recent' \in BOOLEAN
  <2>1. due1 \subseteq Ids /\ due2 \subseteq Ids /\ recent \in BOOLEAN
    BY Basics DEF EngineTypes
  <2>2. /\ due1' = due1 \/ due1' = due1 \cup {s}
        /\ due2' = due2 \/ due2' = due2 \cup {s}
        /\ recent' = recent
    BY <1>1 DEF clock
  <2> HIDE DEF s
  <2> QED
    BY <1>2, <2>1, <2>2
<1> QED
  <2>1. /\ UNCHANGED <<setup, connmap, connected, waiting, returned, timedOut, main, stack, polled,
                        bindRetry, budget, asked, closed>>
    BY DEF HandleBroadcast, counters, history
  <2>2. EngineTypes
    BY DEF EngineInv
  <2>3. closed' \subseteq 1 .. count'
    BY <1>7, <2>1, <2>2 DEF EngineTypes
  <2> QED
    BY <1>4, <1>5, <1>6, <1>8, <2>1, <2>2, <2>3 DEF EngineTypes, Sort

LEMMA ReceiveTypes ==
  ASSUME EngineInv, Receive
  PROVE  EngineTypes'
<1>1. PICK f \in polled :
       /\ connmap[f] # 0
       /\ polled' = {g \in polled : g > f}
       /\ \/ /\ buffer' = Append(buffer, connmap[f])
             /\ UNCHANGED <<q, stack>>
          \/ /\ Fault("refused")
             /\ q' = [q EXCEPT ![connmap[f]].name = "DOWN"]
             /\ stack' = <<Cleanup(connmap[f], TRUE)>>
             /\ UNCHANGED buffer
  BY DEF Receive
<1>2. connmap[f] \in Ids /\ buffer \in Seq(Ids) /\ q[connmap[f]] \in QueryStates /\ q \in [Ids -> QueryStates]
  <2>1. /\ connmap \in [Ids -> Ptrs] /\ buffer \in Seq(Ids) /\ q \in [Ids -> QueryStates]
        /\ f \in Ids
    BY <1>1 DEF EngineInv, EngineTypes
  <2>2. connmap[f] \in Ids
    BY <1>1, <2>1 DEF Ids, Ptrs
  <2> QED
    BY <2>1, <2>2
<1>3. buffer' \in Seq(Ids)
  <2> DEFINE b == connmap[f]
  <2>1. b \in Ids /\ (buffer' = Append(buffer, b) \/ buffer' = buffer)
    BY <1>1, <1>2
  <2> HIDE DEF b
  <2> QED
    BY <1>2, <2>1
<1>4. q' \in [Ids -> QueryStates]
  <2>1. [q EXCEPT ![connmap[f]].name = "DOWN"] = [q EXCEPT ![connmap[f]] = [q[connmap[f]] EXCEPT !.name = "DOWN"]]
    BY <1>2
  <2>2. [q[connmap[f]] EXCEPT !.name = "DOWN"] \in QueryStates
    BY <1>2, Basics, QueryUpdates DEF Names
  <2> QED
    BY <1>1, <1>2, <2>1, <2>2
<1>5. stack' \in Seq(Frames)
  <2>1. Cleanup(connmap[f], TRUE) \in Frames
    BY <1>2, FrameSets
  <2>2. stack \in Seq(Frames) /\ \A c \in Frames : <<c>> \in Seq(Frames)
    BY Basics DEF EngineTypes
  <2> QED
    BY <1>1, <2>1, <2>2
<1>6. budget' \in Nat /\ polled' \subseteq Ids
  <2>1. budget \in Nat /\ polled \subseteq Ids
    BY DEF EngineInv, EngineTypes
  <2>2. budget > 0 /\ budget' = budget - 1
    BY DEF Receive
  <2> QED
    BY <1>1, <2>1, <2>2
<1> QED
  BY <1>3, <1>4, <1>5, <1>6, Basics, TypesKept DEF Receive, EngineTypes, vars, counters, history, clock

LEMMA DoWorkTypes ==
  ASSUME EngineInv, DoWork
  PROVE  EngineTypes'
<1>1. <<BindCall>> \in Seq(Frames) /\ <<SendCall>> \in Seq(Frames) /\ <<>> \in Seq(Frames)
  BY Basics, FrameSets DEF SendCall
<1>2. CASE StartLoop \/ FirstSend \/ RetryBind \/ EndReceive \/ EndHandle \/ Rebind
  BY <1>1, <1>2, Basics, TypesKept
     DEF StartLoop, FirstSend, RetryBind, EndReceive, EndHandle, Rebind, CallSend, EngineTypes, vars, state,
         counters, history, input, clock
<1>3. CASE Poll
  BY <1>3, Basics, TypesKept
     DEF Poll, MoveFirstBind, EngineTypes, state, counters, history, clock
<1>4. CASE EndWork
  BY <1>4, Basics, OnlyStackTypes DEF EndWork, StartFinish, EngineTypes
<1> QED
  BY <1>2, <1>3, <1>4, HandleTypes, HandleBroadcastTypes DEF DoWork

LEMMA NextTypes ==
  ASSUME EngineInv, [NextScheduler]_all
  PROVE  EngineTypes'
<1>1. CASE FinishOutput
  BY <1>1, Basics, OnlyStackTypes, FinishEffect DEF FinishOutput, EngineTypes
<1>2. CASE Clock
  BY <1>2, Basics, TypesKept DEF Clock, SendIntervalEnds, Expire1, Expire2, EngineTypes, vars, state, counters, history, input
<1>3. CASE UNCHANGED all
  BY <1>3, Basics, TypesKept DEF EngineTypes, all, vars, state, counters, history, input, clock
<1> QED
  BY <1>1, <1>2, <1>3, LoadTypes, DoWorkTypes, BindLoopTypes, CleanupServerTypes, SendPacketsTypes, ReceiveTypes
     DEF NextScheduler, Program

-----------------------------------------------------------------------------
\* What the invariants say of the pointers in use.

LEMMA Provisos ==
  ASSUME SafeFrees, EngineInv
  PROVE  /\ FreesSafely(setup) /\ GamesReported /\ Sort = setup.sort /\ Sort \in {"none", "listed", "keys"}
         /\ Sort = "none" => Plain /\ ~Fault("send") /\ CmdTypes(setup) \cap TcpTypes = {}
         /\ Sort = "none" /\ Fault("connect") => ~HasMasters(setup)
<1>1. setup \in Scenarios /\ Sort = setup.sort
  BY Basics DEF EngineTypes
<1>2. FreesSafely(setup) /\ GamesReported
  BY <1>1 DEF SafeFrees
<1>3. Sort \in {"none", "listed", "keys"}
  BY Basics DEF TypeOK, OptionSets, Sort
<1> QED
  BY <1>1, <1>2, <1>3 DEF FreesSafely, Plain, Fault

LEMMA LivePointers ==
  ASSUME SafeFrees, EngineInv, Working
  PROVE  /\ \A f \in Ids : connmap[f] \in live \cup {0}
         /\ \A i \in DOMAIN buffer : buffer[i] \in live
         /\ \A d \in Depths : Held(Frame(d)) \subseteq live \cup {0}
         /\ stack # <<>> => Held(Top) \subseteq live \cup {0} /\ FrameKnown(Top)
         /\ servers \in live \cup {0} /\ firstBind \in live \cup {0} /\ lastBind \in live \cup {0}
<1>1. Sort = "none" \/ Sort # "none"
  OBVIOUS
<1>2. \A f \in Ids : connmap[f] \in live \cup {0}
  BY Provisos DEF EngineInv, Sockets, PointersSorted
<1>3. \A i \in DOMAIN buffer : buffer[i] \in live
  <2>1. CASE Sort # "none"
    BY <2>1 DEF EngineInv, PointersSorted
  <2>2. CASE Sort = "none"
    <3>1. BufferedOnce
      BY <2>2, Provisos DEF EngineInv
    <3> QED
      BY <3>1 DEF BufferedOnce
  <2> QED
    BY <2>1, <2>2
<1>4. \A d \in Depths : Held(Frame(d)) \subseteq live \cup {0}
  BY DEF EngineInv, PointersSorted, PointersFreeing, FrameSorted, FrameFreeing
<1>5. stack # <<>> => Held(Top) \subseteq live \cup {0} /\ FrameKnown(Top)
  <2>1. SUFFICES ASSUME stack # <<>>
                 PROVE  Held(Top) \subseteq live \cup {0} /\ FrameKnown(Top)
    OBVIOUS
  <2>2. Depth \in Depths /\ Frame(Depth) = Top
    BY <2>1, Basics, TopFrame DEF Depths
  <2>3. StackKnown
    BY DEF EngineInv
  <2> QED
    BY <1>4, <2>2, <2>3 DEF StackKnown
<1> QED
  BY <1>2, <1>3, <1>4, <1>5, Basics DEF CursorsLive, ListWellFormed, After

-----------------------------------------------------------------------------
\* Every step of the engine is a step of the list.
LEMMA EngineStep ==
  ASSUME SafeFrees, EngineInv, [NextScheduler]_all
  PROVE  [NextList]_vars
<1>1. ASSUME NEW s \in live \cup {0}, MoveLastBind(s) \/ MoveFirstBind(s), phase = "work",
             s = 0 => UNCHANGED vars
      PROVE  [NextList]_vars
  <2>1. CASE s = 0
    BY <1>1, <2>1
  <2>2. CASE s # 0
    <3>1. s \in Ids /\ RememberBind(s)
      BY <1>1, <2>2, Basics DEF RememberBind, MoveLastBind, MoveFirstBind
    <3> QED
      BY <3>1 DEF NextList, Work
  <2> QED
    BY <2>1, <2>2
<1>2. CASE BindSockets
  <2> DEFINE resume == IF lastBind = 0 THEN servers ELSE lastBind
             s == IF waiting = 0 /\ ~Throttled THEN resume ELSE lastBind
  <2>1. MoveLastBind(s) /\ phase = "work" /\ Working
    BY <1>2 DEF BindSockets, In, Working
  <2>2. s \in live \cup {0}
    BY <2>1, LivePointers
  <2>3. s = 0 => UNCHANGED vars
    BY <2>1 DEF MoveLastBind, vars, binds
  <2> HIDE DEF s
  <2> QED
    BY <1>1, <2>1, <2>2, <2>3
<1>3. CASE Bound \/ Joined
  <2>1. /\ stack # <<>> /\ Working /\ phase = "work" /\ Top.pc \in {"bound", "joined"}
        /\ MoveLastBind(IF waiting = 0 THEN Top.s ELSE lastBind)
    BY <1>3 DEF Bound, Joined, In, Working
  <2>2. Top.s \in live
    BY <2>1, LivePointers DEF FrameKnown
  <2> DEFINE s == IF waiting = 0 THEN Top.s ELSE lastBind
  <2>3. s \in live \cup {0}
    BY <2>1, <2>2, LivePointers
  <2>4. s = 0 => UNCHANGED vars
    BY <2>1, <2>2, Basics DEF MoveLastBind, vars, binds
  <2> HIDE DEF s
  <2> QED
    BY <1>1, <2>1, <2>3, <2>4 DEF s
<1>4. CASE Poll
  <2> DEFINE from == IF firstBind = 0 THEN servers ELSE firstBind
             t == FirstOpen(from)
             s == IF t = 0 \/ (numServers > connected /\ connected < MaxSimultaneous) THEN from ELSE t
  <2>1. MoveFirstBind(s) /\ phase = "work" /\ Working
    BY <1>4 DEF Poll, At, Working
  <2>2. from \in live \cup {0}
    BY <2>1, LivePointers
  <2>3. t \in live \cup {0}
    BY <2>2, Basics, FirstOpenLive DEF EngineInv
  <2>4. from = 0 => t = 0
    <3>1. NextAhead
      BY DEF EngineInv
    <3> QED
      BY <3>1, Basics, FirstOpenDefined
  <2>5. s = 0 => UNCHANGED vars
    BY <2>1, <2>4 DEF MoveFirstBind, vars, binds
  <2> HIDE DEF t, from
  <2>6. s \in live \cup {0}
    BY <2>2, <2>3
  <2> HIDE DEF s
  <2> QED
    BY <1>1, <2>1, <2>5, <2>6
<1>5. CASE DisplayClosed
  <2>1. stack # <<>> /\ Working /\ phase = "work" /\ Top.pc = "display" /\ Top.s \in live
    BY <1>5 DEF DisplayClosed, In, Working
  <2>2. ip[Top.s] # 0 /\ Top.s \in Ids
    BY <2>1, LivePointers, Basics DEF FrameKnown, Closing
  <2>3. CloseServer(Top.s) \/ UNCHANGED vars
    BY <1>5 DEF DisplayClosed
  <2> QED
    BY <2>2, <2>3 DEF NextList, Work
<1>6. CASE AddReported
  BY <1>6 DEF AddReported, NextList, Work
<1>7. CASE HandleBroadcast
  BY <1>7 DEF HandleBroadcast, NextList, Work
<1>8. CASE LoadServers \/ EndWork \/ FinishOutput
  BY <1>8 DEF LoadServers, EndWork, FinishOutput, NextList
<1>9. CASE \/ SkipServer \/ BindServer \/ EndWalk \/ EndPass \/ PassServer \/ ConnectServer \/ BindReturns
           \/ CleanupKeeps \/ CleanupCloses \/ NextMaster \/ MastersAdded \/ SendPackets
  BY <1>9 DEF SkipServer, BindServer, EndWalk, EndPass, PassServer, ConnectServer, BindReturns, CleanupKeeps,
              CleanupCloses, NextMaster, MastersAdded, SendPackets, EndSend, SendWaits, SendGivesUp,
              SendAgain, RulesGivenUp, AskDetails
<1>10. CASE StartLoop \/ FirstSend \/ RetryBind \/ EndReceive \/ Handle \/ EndHandle \/ Rebind \/ Receive \/ Clock
            \/ UNCHANGED all
  BY <1>10 DEF StartLoop, FirstSend, RetryBind, EndReceive, Handle, EndHandle, Rebind, CallSend, Receive, Clock,
               SendIntervalEnds, Expire1, Expire2, all
<1> QED
  BY <1>2, <1>3, <1>4, <1>5, <1>6, <1>7, <1>8, <1>9, <1>10
     DEF NextScheduler, Program, DoWork, BindLoop, CleanupServer

-----------------------------------------------------------------------------
\* What a step of the work does to sockets, names and structs: one of nine things.

\* The query state of one server changes; a name, once there, stays.
Alters(s, r) ==
  /\ s \in live /\ r \in QueryStates /\ q' = [q EXCEPT ![s] = r]
  /\ q[s].name # NoName => r.name # NoName

SameConnections == UNCHANGED <<connmap, closed>>

Quiet ==
  /\ SameServers /\ SameConnections
  /\ \/ q' = q
     \/ \E s, r : Alters(s, r) /\ SameSocket(r, q[s])
                    /\ (Plain /\ q[s].state = "connecting" => r.name = q[s].name)

Maps(s) ==
  /\ SameServers /\ closed' = closed /\ ~Plain /\ ip[s] # 0
  /\ \E r : Alters(s, r) /\ r.fd # 0 /\ connmap' = [connmap EXCEPT ![r.fd] = s]

Opens(s) ==
  /\ SameServers /\ closed' = closed /\ q[s].fd = 0 /\ q[s].name = NoName
  /\ connmap' = [connmap EXCEPT ![FreeFd] = s]
  /\ \E r : Alters(s, r) /\ r.fd = FreeFd /\ r.state = "connected" /\ r.name = NoName

Pends(s) ==
  /\ SameServers /\ SameConnections /\ q[s].fd = 0 /\ q[s].name = NoName /\ Is(s, TcpTypes)
  /\ \E r : Alters(s, r) /\ r.fd = FreeFd /\ r.state = "connecting" /\ r.name = NoName

Joins(s) ==
  /\ SameServers /\ closed' = closed /\ q[s].state = "connecting"
  /\ connmap' = [connmap EXCEPT ![q[s].fd] = s]
  /\ \E r : Alters(s, r) /\ r.fd = q[s].fd /\ r.state = "connected" /\ r.name = q[s].name

Drops(s) ==
  /\ SameServers /\ SameConnections /\ q[s].state = "connecting"
  /\ \E r : Alters(s, r) /\ r.fd = 0 /\ r.state = "failed" /\ r.name # NoName

Closes(s) ==
  /\ SameServers /\ closed' = closed \cup {s} /\ (Plain => q[s].state # "connecting")
  /\ connmap' = IF q[s].fd = 0 THEN connmap ELSE [connmap EXCEPT ![q[s].fd] = 0]
  /\ \E r : Alters(s, r) /\ r.fd = 0 /\ r.state = q[s].state /\ r.name # NoName

Frees(s) ==
  /\ Sort = "none" /\ s \in closed /\ s \in live /\ live' = live \ {s}
  /\ UNCHANGED <<count, ip, type, q>> /\ SameConnections

\* A struct for an address that a master or a broadcast reported.
FindsServer(d) ==
  /\ AddsServer(d[1], d[3]) /\ d[1] # 0 /\ d \in Discovered /\ SameConnections
  /\ HasMasters(setup) \/ \E b \in live : type[b] = d[3]
  /\ q'[count + 1] = NewQuery(d[1])
  /\ \/ q' = [q EXCEPT ![count + 1] = NewQuery(d[1])]
     \/ \E s \in live : q' = [q EXCEPT ![s].report = @ - 1, ![count + 1] = NewQuery(d[1])]

WorkStep ==
  \/ Quiet
  \/ \E s \in live : Maps(s) \/ Opens(s) \/ Pends(s) \/ Joins(s) \/ Drops(s) \/ Closes(s) \/ Frees(s)
  \/ \E d \in Discovered : FindsServer(d)

\* Only a server in memory is asked.
AsksLive == \A s \in Ids \ live : asked'[s] = asked[s]

Keeps == UNCHANGED <<options, phase, cmdline, adding, setup>> /\ AsksLive

-----------------------------------------------------------------------------

LEMMA StatusQueryAlters ==
  ASSUME EngineInv, NEW s \in live, NEW r \in QueryStates, NEW sent, StatusQuery(s, r, sent),
         r.name = q[s].name
  PROVE  AsksLive /\ \E x : Alters(s, x) /\ SameSocket(x, r) /\ x.name = r.name
<1>1. [r EXCEPT !.retry1 = @ - 1] \in QueryStates
  BY Basics, QueryRequests
<1> DEFINE x == IF sent THEN [r EXCEPT !.retry1 = @ - 1] ELSE r
<1>2. x \in QueryStates /\ SameSocket(x, r) /\ x.name = r.name
  BY <1>1 DEF QueryStates, SameSocket
<1>3. q' = [q EXCEPT ![s] = x]
  BY DEF StatusQuery
<1>4. AsksLive
  BY Basics DEF StatusQuery, AsksLive, EngineTypes
<1> QED
  BY <1>2, <1>3, <1>4 DEF Alters

LEMMA StackOnlyKind ==
  ASSUME UNCHANGED <<options, phase, cmdline, adding, count, live, fields, setup, q, connmap, history>>
  PROVE  Keeps /\ WorkStep
  BY DEF Keeps, WorkStep, Quiet, SameServers, SameConnections, AsksLive, fields, history

LEMMA BindServerKind ==
  ASSUME EngineInv, BindServer
  PROVE  Keeps /\ WorkStep
<1> DEFINE s == Top.s
<1>1. /\ s \in live /\ s \in Ids /\ q[s] \in QueryStates /\ q[s].fd = 0 /\ q[s].name = NoName
      /\ FreeFd \in Ids
      /\ UNCHANGED <<options, phase, cmdline, adding, count, live, ip, type, setup>>
  BY Basics, FreeFdFound DEF BindServer, Wanted, EngineTypes, vars, fields
<1>2. PICK rc \in BindResults(s) :
       \/ rc = 0 /\ BindDone(s)
       \/ rc = -3 /\ BindPending(s)
       \/ rc = -2 /\ BindNoDescriptor
       \/ rc = -1 /\ BindFailed(s)
  BY DEF BindServer
<1>3. CASE BindDone(s)
  <2> DEFINE r == [q[s] EXCEPT !.fd = FreeFd, !.state = "connected"]
  <2>1. PICK sent \in Sends : /\ StatusQuery(s, r, sent)
                              /\ connmap' = [connmap EXCEPT ![FreeFd] = s]
                              /\ closed' = closed
    BY <1>3 DEF BindDone
  <2>2. r \in QueryStates /\ r.fd = FreeFd /\ r.state = "connected" /\ r.name = q[s].name
    <3>1. FreeFd \in Ptrs /\ "connected" \in States
      BY <1>1, Basics DEF States
    <3>2. r \in QueryStates
      BY <1>1, <3>1, Basics, QueryUpdates
    <3> QED
      BY <1>1, <3>2 DEF QueryStates
  <2> HIDE DEF r, s
  <2>3. AsksLive /\ \E x : Alters(s, x) /\ SameSocket(x, r) /\ x.name = r.name
    BY <1>1, <2>1, <2>2, StatusQueryAlters
  <2>4. Opens(s)
    BY <1>1, <2>1, <2>2, <2>3 DEF Opens, SameServers, SameSocket
  <2> QED
    BY <1>1, <2>3, <2>4 DEF Keeps, WorkStep
<1>4. CASE rc = -3 /\ BindPending(s)
  <2> DEFINE r == [q[s] EXCEPT !.fd = FreeFd, !.state = "connecting"]
  <2>1. r \in QueryStates /\ r.fd = FreeFd /\ r.state = "connecting" /\ r.name = NoName
    <3>1. FreeFd \in Ptrs /\ "connecting" \in States
      BY <1>1, Basics DEF States
    <3>2. r \in QueryStates
      BY <1>1, <3>1, Basics, QueryUpdates
    <3> QED
      BY <1>1, <3>2 DEF QueryStates
  <2>2. q' = [q EXCEPT ![s] = r] /\ UNCHANGED <<connmap, closed, asked>>
    BY <1>1, <1>4, Basics DEF BindPending, EngineTypes, history
  <2>3. Is(s, TcpTypes)
    BY <1>2, <1>4 DEF BindResults
  <2> HIDE DEF r, s
  <2>4. Pends(s)
    BY <1>1, <2>1, <2>2, <2>3 DEF Pends, Alters, SameServers, SameConnections
  <2> QED
    BY <1>1, <2>2, <2>4 DEF Keeps, WorkStep, AsksLive
<1>5. CASE BindNoDescriptor
  BY <1>5, StackOnlyKind DEF BindServer, BindNoDescriptor, vars, state
<1>6. CASE BindFailed(s)
  <2> DEFINE r == [q[s] EXCEPT !.name = "SYSERROR"]
  <2>1. r \in QueryStates /\ r.name # NoName /\ SameSocket(r, q[s])
    <3>1. "SYSERROR" \in Names /\ "SYSERROR" # NoName
      BY DEF Names, NoName
    <3>2. r \in QueryStates
      BY <1>1, <3>1, Basics, QueryUpdates
    <3> QED
      BY <1>1, <3>1, <3>2 DEF QueryStates, SameSocket
  <2>2. q' = [q EXCEPT ![s] = r] /\ UNCHANGED <<connmap, closed, asked>>
    BY <1>1, <1>6, Basics DEF BindFailed, EngineTypes, history
  <2>3. Plain => q[s].state # "connecting"
    BY <1>1, Basics DEF EngineInv, Sockets, BindServer, Walking, In, Working
  <2> HIDE DEF r, s
  <2>4. Quiet
    BY <1>1, <2>1, <2>2, <2>3 DEF Quiet, Alters, SameServers, SameConnections
  <2> QED
    BY <1>1, <2>2, <2>4 DEF Keeps, WorkStep, AsksLive
<1> QED
  BY <1>2, <1>3, <1>4, <1>5, <1>6

LEMMA ConnectServerKind ==
  ASSUME EngineInv, ConnectServer
  PROVE  Keeps /\ WorkStep
<1> DEFINE s == Top.s
<1>1. /\ s \in live /\ s \in Ids /\ q[s] \in QueryStates /\ q[s].state = "connecting"
      /\ UNCHANGED <<options, phase, cmdline, adding, count, live, ip, type, setup>>
  BY Basics DEF ConnectServer, Passing, EngineTypes, vars, fields
<1>2. CASE ConnectDone(s)
  <2> DEFINE r == [q[s] EXCEPT !.state = "connected"]
  <2>1. PICK sent \in Sends : /\ StatusQuery(s, r, sent)
                              /\ connmap' = [connmap EXCEPT ![q[s].fd] = s]
                              /\ closed' = closed
    BY <1>2 DEF ConnectDone
  <2>2. r \in QueryStates /\ r.fd = q[s].fd /\ r.state = "connected" /\ r.name = q[s].name
    <3>1. r \in QueryStates
      BY <1>1, Basics, QueryUpdates DEF States
    <3> QED
      BY <1>1, <3>1 DEF QueryStates
  <2> HIDE DEF r, s
  <2>3. AsksLive /\ \E x : Alters(s, x) /\ SameSocket(x, r) /\ x.name = r.name
    BY <1>1, <2>1, <2>2, StatusQueryAlters
  <2>4. Joins(s)
    BY <1>1, <2>1, <2>2, <2>3 DEF Joins, SameServers, SameSocket
  <2> QED
    BY <1>1, <2>3, <2>4 DEF Keeps, WorkStep
<1>3. CASE ConnectWaits(s)
  BY <1>3, StackOnlyKind DEF ConnectServer, ConnectWaits, vars, state
<1>4. CASE ConnectFails(s)
  <2>1. PICK name \in {"TIMEOUT", "SYSERROR"} :
          q' = [q EXCEPT ![s].name = name, ![s].state = "failed", ![s].fd = 0]
    BY <1>4 DEF ConnectFails
  <2> DEFINE r == [q[s] EXCEPT !.name = name, !.state = "failed", !.fd = 0]
  <2>2. r \in QueryStates /\ r.fd = 0 /\ r.state = "failed" /\ r.name # NoName
    <3>1. name \in Names /\ name # NoName /\ "failed" \in States
      BY DEF Names, NoName, States
    <3>2. r \in QueryStates
      BY <1>1, <3>1, Basics, QueryUpdates
    <3> QED
      BY <1>1, <3>1, <3>2 DEF QueryStates
  <2>3. q' = [q EXCEPT ![s] = r] /\ UNCHANGED <<connmap, closed, asked>>
    BY <1>1, <1>4, <2>1, Basics DEF ConnectFails, EngineTypes, history
  <2> HIDE DEF r, s
  <2>4. Drops(s)
    BY <1>1, <2>2, <2>3 DEF Drops, Alters, SameServers, SameConnections
  <2> QED
    BY <1>1, <2>3, <2>4 DEF Keeps, WorkStep, AsksLive
<1> QED
  BY <1>2, <1>3, <1>4 DEF ConnectServer

LEMMA CleanupClosesKind ==
  ASSUME EngineInv, CleanupCloses
  PROVE  Keeps /\ Closes(Top.s)
<1> DEFINE s == Top.s
           r == [q[s] EXCEPT !.name = ClosedName(s), !.fd = 0]
<1>1. /\ s \in live /\ s \in Ids /\ q[s] \in QueryStates
      /\ UNCHANGED <<options, phase, cmdline, adding, count, live, ip, type, setup, asked>>
      /\ closed' = closed \cup {s}
      /\ connmap' = IF q[s].fd = 0 THEN connmap ELSE [connmap EXCEPT ![q[s].fd] = 0]
  BY Basics DEF CleanupCloses, EngineTypes, vars, fields
<1>2. ClosedName(s) \in Names /\ ClosedName(s) # NoName
  BY <1>1 DEF ClosedName, Names, NoName, QueryStates
<1>3. q' = [q EXCEPT ![s] = r]
  BY <1>1, Basics DEF CleanupCloses, EngineTypes
<1>4. r \in QueryStates /\ r.fd = 0 /\ r.state = q[s].state /\ r.name # NoName
  <2>1. r \in QueryStates
    BY <1>1, <1>2, Basics, QueryUpdates
  <2> QED
    BY <1>1, <1>2, <2>1 DEF QueryStates
<1>5. Plain => q[s].state # "connecting"
  <2>1. Working /\ stack # <<>> /\ Top.pc = "cleanup"
    BY DEF CleanupCloses, In, Working
  <2>2. Depth \in Depths /\ Frame(Depth) = Top /\ Closing(Top)
    BY <2>1, Basics, TopFrame DEF Depths, Closing
  <2> QED
    BY <2>1, <2>2 DEF EngineInv, Settled
<1> HIDE DEF r, s
<1>6. Closes(s)
  BY <1>1, <1>3, <1>4, <1>5 DEF Closes, Alters, SameServers
<1> QED
  BY <1>1, <1>6 DEF Keeps, AsksLive, s

LEMMA CleanupServerKind ==
  ASSUME SafeFrees, EngineInv, CleanupServer
  PROVE  Keeps /\ WorkStep
<1>1. Working /\ stack # <<>> /\ Top \in Frames
  BY Basics, TopFrame DEF CleanupServer, CleanupKeeps, CleanupCloses, DisplayClosed, AddReported, NextMaster,
        MastersAdded, In, Working
<1>2. CASE CleanupKeeps \/ MastersAdded
  BY <1>2, StackOnlyKind DEF CleanupKeeps, MastersAdded, vars, state
<1>3. CASE CleanupCloses
  BY <1>3, CleanupClosesKind DEF WorkStep, CleanupCloses
<1>4. CASE DisplayClosed
  <2>1. Top.s \in live /\ Top.s \in closed
    BY <1>1, <1>4, LivePointers DEF DisplayClosed, In, FrameKnown
  <2>2. CASE Sort = "none"
    <3>1. Frees(Top.s) /\ UNCHANGED <<options, phase, cmdline, adding, setup, asked>>
      BY <1>4, <2>1, <2>2, CloseEffect DEF DisplayClosed, Frees, SameConnections, state, history
    <3> QED
      BY <2>1, <3>1 DEF Keeps, WorkStep, AsksLive
  <2>3. CASE Sort # "none"
    BY <1>4, <2>3, StackOnlyKind DEF DisplayClosed, vars, state
  <2> QED
    BY <2>2, <2>3
<1>5. ASSUME AddReported \/ NextMaster
      PROVE  Top.s \in live /\ Top.s \in Ids /\ q[Top.s] \in QueryStates
  <2>1. Top.pc = "masters" /\ Top.s # 0
    BY <1>5 DEF AddReported, NextMaster, In
  <2>2. Top.s \in live
    BY <1>1, <2>1, LivePointers DEF Held
  <2> QED
    BY <2>2, Basics DEF EngineTypes
<1>6. CASE AddReported
  <2> DEFINE s == Top.s
  <2>1. PICK d \in Discovered :
       IF d[1] = 0 \/ FindServerByAddress(d[1], d[2]) # 0
       THEN q' = [q EXCEPT ![s].report = @ - 1] /\ UNCHANGED vars
       ELSE /\ AddByAddr(d[1], d[2], d[3])
            /\ q' = [q EXCEPT ![s].report = @ - 1, ![count + 1] = NewQuery(d[1])]
    BY <1>6 DEF AddReported
  <2>2. s \in live /\ s \in Ids /\ q[s] \in QueryStates /\ UNCHANGED <<setup, connmap, asked, closed>>
    BY <1>5, <1>6 DEF AddReported, history
  <2>3. CASE d[1] = 0 \/ FindServerByAddress(d[1], d[2]) # 0
    <3> DEFINE r == [q[s] EXCEPT !.report = q[s].report - 1]
    <3>1. q' = [q EXCEPT ![s] = r] /\ UNCHANGED vars
      BY <2>1, <2>2, <2>3, Basics DEF EngineTypes
    <3>2. r \in QueryStates
      <4>1. q' \in [Ids -> QueryStates] /\ q'[s] = r
        BY <1>6, <2>2, <3>1, Basics, CleanupServerTypes DEF CleanupServer, EngineTypes
      <4> QED
        BY <2>2, <4>1
    <3>3. SameSocket(r, q[s]) /\ r.name = q[s].name
      BY <2>2 DEF QueryStates, SameSocket
    <3> HIDE DEF r
    <3>4. Quiet
      BY <2>2, <3>1, <3>2, <3>3 DEF Quiet, Alters, SameServers, SameConnections, vars, fields
    <3> QED
      BY <2>2, <3>1, <3>4 DEF Keeps, WorkStep, AsksLive, vars
  <2>4. CASE ~(d[1] = 0 \/ FindServerByAddress(d[1], d[2]) # 0)
    <3>1. /\ AddByAddr(d[1], d[2], d[3])
          /\ q' = [q EXCEPT ![s].report = @ - 1, ![count + 1] = NewQuery(d[1])]
      BY <2>1, <2>4
    <3>2. /\ AddsServer(d[1], d[3]) /\ d[1] # 0 /\ UNCHANGED <<options, phase, cmdline, adding>>
      BY <3>1, AddEffect
    <3>3. q'[count + 1] = NewQuery(d[1])
      BY <3>1, <3>2, Basics DEF AddsServer, EngineTypes
    <3>5. HasMasters(setup)
      BY <1>1, <1>6, LivePointers DEF AddReported, In, FrameKnown
    <3> HIDE DEF s
    <3>4. FindsServer(d)
      BY <2>2, <3>1, <3>2, <3>3, <3>5 DEF FindsServer, SameConnections
    <3> QED
      BY <2>2, <3>2, <3>4 DEF Keeps, WorkStep, AsksLive
  <2> QED
    BY <2>3, <2>4
<1>7. CASE NextMaster
  <2> DEFINE s == Top.s
             r == [q[s] EXCEPT !.heard = FALSE]
  <2>1. s \in live /\ s \in Ids /\ q[s] \in QueryStates
    BY <1>5, <1>7
  <2>2. q' = [q EXCEPT ![s] = r] /\ UNCHANGED <<vars, setup, connmap, asked, closed>>
    BY <1>7, <2>1, Basics DEF NextMaster, EngineTypes, history
  <2>3. r \in QueryStates /\ SameSocket(r, q[s]) /\ r.name = q[s].name
    <3>1. r \in QueryStates
      BY <2>1, Basics, QueryUpdates
    <3> QED
      BY <2>1, <3>1 DEF QueryStates, SameSocket
  <2> HIDE DEF r, s
  <2>4. Quiet
    BY <2>1, <2>2, <2>3 DEF Quiet, Alters, SameServers, SameConnections, vars, fields
  <2> QED
    BY <2>2, <2>4 DEF Keeps, WorkStep, AsksLive, vars
<1> QED
  BY <1>2, <1>3, <1>4, <1>6, <1>7 DEF CleanupServer

\* bind_sockets, send_packets and the handlers take such steps.
LEMMA BindLoopKind ==
  ASSUME EngineInv, BindLoop
  PROVE  Keeps /\ WorkStep
<1>1. CASE BindSockets \/ Bound \/ Joined
  BY <1>1, StackOnlyKind DEF BindSockets, Bound, Joined, MoveLastBind, state, history
<1>2. CASE SkipServer \/ EndWalk \/ EndPass \/ PassServer \/ BindReturns
  BY <1>2, StackOnlyKind DEF SkipServer, EndWalk, EndPass, PassServer, BindReturns, vars, state
<1> QED
  BY <1>1, <1>2, BindServerKind, ConnectServerKind DEF BindLoop

LEMMA SendServerLive ==
  ASSUME SafeFrees, EngineInv, Sending
  PROVE  /\ SendServer \in live /\ SendServer \in Ids /\ q[SendServer] \in QueryStates
         /\ Plain => q[SendServer].fd = NextFd(Top.i) /\ q[SendServer].state = "connected"
<1>1. NextFd(Top.i) \in Ids /\ SendServer # 0 /\ SendServer = connmap[NextFd(Top.i)] /\ Working
  BY SendServerFacts DEF SendServer, Sending, In, Working
<1>2. SendServer \in live
  BY <1>1, LivePointers
<1> QED
  BY <1>1, <1>2, Basics DEF EngineTypes, EngineInv, Sockets

\* send_packets changes the tries of one server, and neither its socket nor its name.
SendsTo(s) ==
  /\ UNCHANGED <<vars, setup, connmap, closed>> /\ AsksLive
  /\ \/ q' = q
     \/ \E r : Alters(s, r) /\ SameSocket(r, q[s]) /\ r.name = q[s].name

LEMMA SendDoes ==
  ASSUME SafeFrees, EngineInv, SendPackets
  PROVE  SendsTo(SendServer)
<1> DEFINE s == SendServer
<1>1. Sending => s \in live /\ s \in Ids /\ q[s] \in QueryStates /\ (Plain => q[s].state # "connecting")
  BY SendServerLive
<1>2. ASSUME NEW r, r \in QueryStates, SameSocket(r, q[s]), q' = [q EXCEPT ![s] = r], Sending,
             r.name = q[s].name,
             UNCHANGED <<vars, setup, connmap, closed>>, AsksLive
      PROVE  SendsTo(s)
  <2> HIDE DEF s
  <2> QED
    BY <1>1, <1>2 DEF SendsTo, Alters
<1>3. CASE EndSend \/ SendWaits \/ SendGivesUp
  BY <1>3 DEF EndSend, SendWaits, SendGivesUp, SendsTo, AsksLive, state, history
<1>4. CASE SendAgain
  <2>1. PICK sent \in Sends : StatusQuery(s, q[s], sent)
    BY <1>4 DEF SendAgain
  <2>2. Sending /\ UNCHANGED <<vars, setup, connmap, closed>>
    BY <1>4 DEF SendAgain
  <2> HIDE DEF s
  <2>3. AsksLive /\ \E x : Alters(s, x) /\ SameSocket(x, q[s]) /\ x.name = q[s].name
    BY <1>1, <2>1, <2>2, StatusQueryAlters
  <2>4. PICK x : Alters(s, x) /\ SameSocket(x, q[s]) /\ x.name = q[s].name
    BY <2>3
  <2> QED
    BY <1>2, <2>2, <2>3, <2>4 DEF Alters, s
<1>5. CASE RulesGivenUp
  <2> DEFINE r == [q[s] EXCEPT !.rules = FALSE]
  <2>1. Sending /\ UNCHANGED <<vars, setup, connmap, closed, asked>>
    BY <1>5 DEF RulesGivenUp, history
  <2>2. q' = [q EXCEPT ![s] = r]
    BY <1>1, <1>5, <2>1, Basics DEF RulesGivenUp, EngineTypes
  <2>3. r \in QueryStates
    BY <1>1, <2>1, Basics, QueryUpdates
  <2>4. SameSocket(r, q[s]) /\ r.name = q[s].name
    BY <1>1, <2>1, <2>3 DEF QueryStates, SameSocket
  <2> HIDE DEF r
  <2> QED
    BY <1>2, <2>1, <2>2, <2>3, <2>4 DEF AsksLive
<1>6. CASE AskDetails
  <2>1. Sending /\ UNCHANGED <<vars, setup, connmap, closed, asked>>
    BY <1>6 DEF AskDetails, history
  <2>2. q' \in [Ids -> QueryStates]
    BY <1>6, SendPacketsTypes DEF SendPackets, EngineTypes
  <2>3. PICK r : q' = [q EXCEPT ![s] = r] /\ SameSocket(r, q[s]) /\ r.name = q[s].name
    <3> DEFINE x == q[s]
    <3>1. x \in QueryStates
      BY <1>1, <2>1
    <3>3. PICK sent1 \in Sends, sent2 \in Sends :
           LET ruled  == IF q[s].rules THEN Request1(q[s], sent1) ELSE q[s]
               drops  == DropsPlayer(s)
               left   == IF drops THEN q[s].players - 1 ELSE q[s].players
               fresh  == IF drops THEN [ruled EXCEPT !.retry2 = NRetries] ELSE ruled
               asks   == q[s].players > 0 /\ ~Waits2(s)
               idle   == ~q[s].rules /\ q[s].players = 0
           IN  q' = [q EXCEPT ![s] =
                      CASE asks /\ left = 0 -> [ruled EXCEPT !.players = 0]
                        [] asks /\ left > 0 ->
                             Request2([fresh EXCEPT !.players = left], sent2)
                        [] idle /\ q[s].retry1 >= 1 -> [q[s] EXCEPT !.retry1 = @ - 1]
                        [] OTHER -> ruled]
      BY <1>6 DEF AskDetails
    <3> DEFINE ruled == IF x.rules THEN Request1(x, sent1) ELSE x
               drops == DropsPlayer(s)
               left  == IF drops THEN x.players - 1 ELSE x.players
               fresh == IF drops THEN [ruled EXCEPT !.retry2 = NRetries] ELSE ruled
               asks  == x.players > 0 /\ ~Waits2(s)
               idle  == ~x.rules /\ x.players = 0
               r == CASE asks /\ left = 0 -> [ruled EXCEPT !.players = 0]
                      [] asks /\ left > 0 -> Request2([fresh EXCEPT !.players = left], sent2)
                      [] idle /\ x.retry1 >= 1 -> [x EXCEPT !.retry1 = @ - 1]
                      [] OTHER -> ruled
               all4 == {[ruled EXCEPT !.players = 0], Request2([fresh EXCEPT !.players = left], sent2),
                        [x EXCEPT !.retry1 = @ - 1], ruled}
    <3>4. q' = [q EXCEPT ![s] = r]
      BY <3>3
    <3>5. \A y \in all4 : y.fd = x.fd /\ y.state = x.state /\ y.name = x.name
      <4> HIDE DEF x, drops, left, asks, idle, r
      <4> QED
        BY <3>1, ZenonT(40) DEF Request1, Request2, QueryStates
    <3>6. r \in all4
      <4> HIDE DEF asks, left, idle, fresh, ruled, x
      <4> QED
        OBVIOUS
    <3> HIDE DEF r, all4
    <3> QED
      BY <3>4, <3>5, <3>6 DEF SameSocket
  <2>4. r \in QueryStates
    BY <1>1, <2>1, <2>2, <2>3, Basics DEF EngineTypes
  <2> QED
    BY <1>2, <2>1, <2>3, <2>4 DEF AsksLive
<1> QED
  BY <1>3, <1>4, <1>5, <1>6 DEF SendPackets

LEMMA SendPacketsKind ==
  ASSUME SafeFrees, EngineInv, SendPackets
  PROVE  Keeps /\ WorkStep
<1>1. SendsTo(SendServer)
  BY SendDoes
<1>2. SameServers /\ SameConnections /\ UNCHANGED <<options, phase, cmdline, adding, setup>> /\ AsksLive
  BY <1>1 DEF SendsTo, SameServers, SameConnections, vars, fields
<1>3. Quiet
  BY <1>1, <1>2 DEF SendsTo, Quiet
<1> QED
  BY <1>2, <1>3 DEF Keeps, WorkStep

\* A server that answers over its own socket keeps it: what was found by a broadcast
\* has a type with one reply.
LEMMA AnswerKeepsSocket ==
  ASSUME SafeFrees, EngineInv, Handle, Plain, NEW s, s = Head(buffer), NEW r, AnsweredWith(s, r)
  PROVE  /\ SameSocket(r, q[s])
         /\ connmap' = connmap \/ (q[s].fd # 0 /\ connmap' = [connmap EXCEPT ![q[s].fd] = s])
<1>1. buffer # <<>> /\ At("handle")
  BY HandleDoes
<1>2. Working /\ 1 \in DOMAIN buffer /\ s = buffer[1]
  BY <1>1, Basics DEF At, Working, EngineTypes
<1>3. s \in live /\ s \in 1 .. count
  BY HandleDoes, Basics
<1>4. SUFFICES ASSUME NewSocket(r, q[s]), Is(s, Q1Types \cup Q3Types)
               PROVE  FALSE
  BY DEF AnsweredWith
<1>5. CASE ~Broadcasts(setup)
  <2>1. q[s].fd # 0
    BY <1>2, <1>5 DEF EngineInv, BufferedOnce
  <2> QED
    BY <1>4, <2>1 DEF NewSocket
<1>6. CASE Broadcasts(setup)
  <2>1. CmdTypes(setup) \cap (Q1Types \cup Q3Types \cup MasterTypes \cup TcpTypes) = {}
    BY <1>6 DEF Plain, BroadcastsOneReply
  <2>2. ~HasMasters(setup)
    BY <2>1 DEF HasMasters
  <2>3. type[s] \in CmdTypes(setup)
    BY <1>3, <1>6, <2>2 DEF EngineInv, Origins, Origin
  <2> QED
    BY <1>4, <2>1, <2>3 DEF Is
<1> QED
  BY <1>5, <1>6

LEMMA HandleKind ==
  ASSUME SafeFrees, EngineInv, Handle
  PROVE  Keeps /\ WorkStep
<1> DEFINE s == Head(buffer)
<1>1. /\ buffer # <<>> /\ s \in live /\ Answered(s) /\ ~Broadcast(s) /\ At("handle")
      /\ UNCHANGED <<vars, setup, counters, history, main, polled, bindRetry, budget>>
  BY HandleDoes
<1>2. Working /\ s \in Ids /\ q[s] \in QueryStates /\ 1 \in DOMAIN buffer /\ s = buffer[1] /\ s \in 1 .. count
  BY <1>1, Basics DEF At, Working, EngineTypes
<1>3. PICK r : AnsweredWith(s, r)
  BY <1>1 DEF Answered
<1>4. ip[s] # 0
  BY <1>2 DEF EngineInv, Buffering
<1>5. Alters(s, r) /\ closed' = closed /\ SameServers /\ AsksLive
  BY <1>1, <1>3 DEF AnsweredWith, Renames, Alters, vars, fields, history, SameServers, AsksLive
<1>6. CASE ~Plain
  <2>1. CASE SameSocket(r, q[s]) /\ connmap' = connmap
    <3>1. Quiet
      BY <1>5, <1>6, <2>1 DEF Quiet, SameConnections
    <3> QED
      BY <1>1, <1>5, <3>1 DEF Keeps, WorkStep, vars
  <2>2. CASE r.fd # 0 /\ connmap' = [connmap EXCEPT ![r.fd] = s]
    <3>1. Maps(s)
      BY <1>4, <1>5, <1>6, <2>2 DEF Maps
    <3> QED
      BY <1>1, <1>5, <3>1 DEF Keeps, WorkStep, vars
  <2>3. q[s].fd = 0 => FreeFd \in Ids
    BY <1>1, Basics, FreeFdFound
  <2> QED
    BY <1>3, <2>1, <2>2, <2>3, Basics DEF AnsweredWith, SameSocket, NewSocket
<1>7. CASE Plain
  <2>2. /\ SameSocket(r, q[s])
        /\ connmap' = connmap \/ (q[s].fd # 0 /\ connmap' = [connmap EXCEPT ![q[s].fd] = s])
    BY <1>3, <1>7, AnswerKeepsSocket
  <2>3. q[s].state # "connecting"
    <3>1. CASE ~Broadcasts(setup)
      <4>1. q[s].state = "connected"
        BY <1>2, <1>7, <3>1 DEF EngineInv, BufferedOnce
      <4> QED
        BY <4>1
    <3>2. CASE Broadcasts(setup)
      <4>1. CmdTypes(setup) \cap TcpTypes = {}
        BY <1>7, <3>2 DEF Plain, BroadcastsOneReply
      <4>2. ~Is(s, TcpTypes)
        BY <1>2, <4>1 DEF EngineInv, Origins, Origin
      <4> QED
        BY <1>2, <1>7, <4>2 DEF EngineInv, Sockets
    <3> QED
      BY <3>1, <3>2
  <2>4. connmap' = connmap
    <3>1. CASE q[s].fd # 0 /\ connmap' = [connmap EXCEPT ![q[s].fd] = s]
      <4>1. q[s].fd \in Ids /\ connmap[q[s].fd] = s
        <5>1. q[s].fd \in Ptrs
          BY <1>2 DEF QueryStates
        <5> QED
          BY <1>1, <1>2, <1>7, <2>3, <3>1, <5>1, Basics DEF EngineInv, Sockets, Ids, Ptrs
      <4>2. connmap \in [Ids -> Ptrs]
        BY Basics DEF EngineTypes
      <4> QED
        BY <3>1, <4>1, <4>2
    <3> QED
      BY <2>2, <3>1
  <2>5. Quiet
    BY <1>5, <2>2, <2>3, <2>4 DEF Quiet, SameConnections
  <2> QED
    BY <1>1, <1>5, <2>5 DEF Keeps, WorkStep, vars
<1> QED
  BY <1>6, <1>7

LEMMA HandleBroadcastKind ==
  ASSUME EngineInv, HandleBroadcast
  PROVE  Keeps /\ WorkStep
<1>1. PICK d \in Discovered :
        /\ d[1] # 0 /\ Head(buffer) \in live /\ d[3] = type[Head(buffer)]
        /\ LET found == FindServerByAddress(d[1], d[2])
               s == IF found = 0 THEN count + 1 ELSE found
           IN  IF found # 0 THEN UNCHANGED <<vars, q>>
               ELSE AddByAddr(d[1], d[2], d[3]) /\ q' = [q EXCEPT ![s] = NewQuery(d[1])]
  BY DEF HandleBroadcast
<1>2. UNCHANGED <<setup, connmap, asked, closed>>
  BY DEF HandleBroadcast, history
<1>3. CASE FindServerByAddress(d[1], d[2]) # 0
  BY <1>1, <1>2, <1>3, StackOnlyKind DEF vars, history
<1>4. CASE FindServerByAddress(d[1], d[2]) = 0
  <2>1. /\ AddByAddr(d[1], d[2], d[3]) /\ q' = [q EXCEPT ![count + 1] = NewQuery(d[1])]
    BY <1>1, <1>4
  <2>2. /\ AddsServer(d[1], d[3]) /\ UNCHANGED <<options, phase, cmdline, adding>>
    BY <2>1, AddEffect
  <2>3. q'[count + 1] = NewQuery(d[1])
    BY <2>1, <2>2, Basics DEF AddsServer, EngineTypes
  <2>4. FindsServer(d)
    BY <1>1, <1>2, <2>1, <2>2, <2>3 DEF FindsServer, SameConnections
  <2> QED
    BY <1>2, <2>2, <2>4 DEF Keeps, WorkStep, AsksLive
<1> QED
  BY <1>3, <1>4

LEMMA ReceiveKind ==
  ASSUME SafeFrees, EngineInv, Receive
  PROVE  Keeps /\ WorkStep
<1>1. PICK f \in polled :
       /\ connmap[f] # 0
       /\ \/ UNCHANGED <<q, stack>>
          \/ q' = [q EXCEPT ![connmap[f]].name = "DOWN"]
  BY DEF Receive
<1>2. UNCHANGED <<vars, setup, connmap, closed, asked>> /\ Working
  BY DEF Receive, history, At, Working
<1> DEFINE s == connmap[f]
<1>3. s \in live /\ s \in Ids /\ q[s] \in QueryStates /\ f \in Ids
  BY <1>1, <1>2, LivePointers, Basics DEF EngineTypes
<1>4. CASE q' = q
  BY <1>2, <1>4, StackOnlyKind DEF vars, history
<1>5. CASE q' = [q EXCEPT ![s].name = "DOWN"]
  <2> DEFINE r == [q[s] EXCEPT !.name = "DOWN"]
  <2>1. q' = [q EXCEPT ![s] = r]
    BY <1>3, <1>5, Basics DEF EngineTypes
  <2>2. r \in QueryStates /\ SameSocket(r, q[s]) /\ r.name # NoName
    <3>1. "DOWN" \in Names /\ "DOWN" # NoName
      BY DEF Names, NoName
    <3>2. r \in QueryStates
      BY <1>3, <3>1, Basics, QueryUpdates
    <3> QED
      BY <1>3, <3>1, <3>2 DEF QueryStates, SameSocket
  <2>3. Plain => q[s].state # "connecting"
    BY <1>1, <1>2, <1>3 DEF EngineInv, Sockets
  <2> HIDE DEF r, s
  <2>4. Quiet
    BY <1>2, <1>3, <2>1, <2>2, <2>3 DEF Quiet, Alters, SameServers, SameConnections, vars, fields
  <2> QED
    BY <1>2, <2>4 DEF Keeps, WorkStep, AsksLive, vars
<1> QED
  BY <1>1, <1>4, <1>5

\* Every step of the work but its last.
LEMMA WorkKinds ==
  ASSUME SafeFrees, EngineInv, Working, [NextScheduler]_all, ~EndWork
  PROVE  Keeps /\ WorkStep
<1>1. ~LoadServers /\ ~FinishOutput
  <2>1. ~adding.on /\ phase = "work"
    BY DEF EngineInv, Origins, FromCmdLine, Working
  <2>2. ~LoadServers
    BY <2>1, LoadEffect DEF LoadServers, EngineInv
  <2> QED
    BY <2>1, <2>2, FinishEffect DEF FinishOutput
<1>2. CASE StartLoop \/ FirstSend \/ RetryBind \/ EndReceive \/ EndHandle \/ Rebind
  BY <1>2, StackOnlyKind
     DEF StartLoop, FirstSend, RetryBind, EndReceive, EndHandle, Rebind, CallSend, vars, state
<1>3. CASE Poll
  BY <1>3, StackOnlyKind DEF Poll, MoveFirstBind, state
<1>4. CASE Clock
  BY <1>4, StackOnlyKind DEF Clock, SendIntervalEnds, Expire1, Expire2, vars, state
<1>5. CASE UNCHANGED all
  BY <1>5, StackOnlyKind DEF all, vars, state
<1> QED
  BY <1>1, <1>2, <1>3, <1>4, <1>5, BindLoopKind, CleanupServerKind, SendPacketsKind, HandleKind,
     HandleBroadcastKind, ReceiveKind
     DEF NextScheduler, Program, DoWork

-----------------------------------------------------------------------------
\* A struct for a reported address is new, and the others keep name and socket.
LEMMA FoundServer ==
  ASSUME EngineInv, NEW d \in Discovered, FindsServer(d)
  PROVE  /\ count' = count + 1 /\ count + 1 \in Ids /\ live' = live \cup {count + 1}
         /\ ip' = [ip EXCEPT ![count + 1] = d[1]] /\ type' = [type EXCEPT ![count + 1] = d[3]]
         /\ closed' = closed /\ connmap' = connmap /\ q'[count + 1] = NewQuery(d[1]) /\ d[1] # 0
         /\ \A t \in Ids : t # count + 1 =>
              q'[t] = q[t] \/ (t \in live /\ q'[t].name = q[t].name /\ q'[t].fd = q[t].fd /\ q'[t].state = q[t].state)
<1>1. /\ live \subseteq 1 .. count /\ 1 .. count \subseteq Ids /\ count \in Nat
      /\ q \in [Ids -> QueryStates]
  BY Basics DEF EngineTypes
<1>2. /\ count' = count + 1 /\ count + 1 \in Ids /\ live' = live \cup {count + 1}
      /\ ip' = [ip EXCEPT ![count + 1] = d[1]] /\ type' = [type EXCEPT ![count + 1] = d[3]]
      /\ closed' = closed /\ connmap' = connmap /\ q'[count + 1] = NewQuery(d[1]) /\ d[1] # 0
  BY DEF FindsServer, AddsServer, SameConnections
<1>3. \A t \in Ids : t # count + 1 =>
        q'[t] = q[t] \/ (t \in live /\ q'[t].name = q[t].name /\ q'[t].fd = q[t].fd /\ q'[t].state = q[t].state)
  <2>1. CASE q' = [q EXCEPT ![count + 1] = NewQuery(d[1])]
    BY <1>1, <2>1
  <2>2. CASE \E s \in live : q' = [q EXCEPT ![s].report = @ - 1, ![count + 1] = NewQuery(d[1])]
    <3>1. PICK s \in live : q' = [q EXCEPT ![s].report = @ - 1, ![count + 1] = NewQuery(d[1])]
      BY <2>2
    <3>2. s \in Ids /\ s # count + 1 /\ q[s] \in QueryStates
      BY <1>1
    <3>3. /\ \A t \in Ids : t # count + 1 /\ t # s => q'[t] = q[t]
          /\ q'[s] = [q[s] EXCEPT !.report = @ - 1]
      BY <1>1, <1>2, <3>1, <3>2
    <3>4. q'[s].name = q[s].name /\ q'[s].fd = q[s].fd /\ q'[s].state = q[s].state
      BY <3>2, <3>3 DEF QueryStates
    <3> QED
      BY <3>3, <3>4
  <2> QED
    BY <2>1, <2>2 DEF FindsServer
<1> QED
  BY <1>2, <1>3

\* What every step of the work has in common.
LEMMA WorkEffects ==
  ASSUME EngineInv, WorkStep
  PROVE  /\ 1 .. count \subseteq 1 .. count' /\ closed \subseteq closed'
         /\ \A s \in 1 .. count :
              /\ ip'[s] = ip[s] /\ type'[s] = type[s]
              /\ q[s].name # NoName => q'[s].name # NoName
              /\ ip[s] = 0 => q'[s].fd = 0 /\ q'[s].state = "init"
         /\ \A s \in Ids : s > count' => q'[s] = q[s] /\ ip'[s] = ip[s] /\ s > count
         /\ live \subseteq live' \/ \E s \in live : Frees(s)
         /\ \/ count' = count /\ live' \subseteq live
            \/ \E d \in Discovered : FindsServer(d)
<1>1. /\ count \in Nat /\ live \subseteq 1 .. count /\ 1 .. count \subseteq Ids
      /\ q \in [Ids -> QueryStates] /\ ip \in [Ids -> Ips] /\ type \in [Ids -> Types]
  <2>1. count \in 0 .. MaxServers /\ MaxServers \in Nat /\ live \subseteq 1 .. count /\ 1 .. count \subseteq Ids
    BY Basics
  <2>2. q \in [Ids -> QueryStates]
    BY Basics DEF EngineTypes
  <2>3. ip \in [Ids -> Ips] /\ type \in [Ids -> Types]
    BY Basics DEF TypeOK
  <2> QED
    BY <2>1, <2>2, <2>3
<1>2. \A s \in 1 .. count : ip[s] = 0 => q[s].fd = 0 /\ q[s].state = "init" /\ q[s].name # NoName
  BY DEF EngineInv, Origins, Origin
<1>3. ASSUME NEW s, NEW r, Alters(s, r), SameServers, closed \subseteq closed', ip[s] = 0 => r.fd = 0 /\ r.state = "init"
      PROVE  /\ \A t \in 1 .. count :
                  /\ ip'[t] = ip[t] /\ type'[t] = type[t]
                  /\ q[t].name # NoName => q'[t].name # NoName
                  /\ ip[t] = 0 => q'[t].fd = 0 /\ q'[t].state = "init"
             /\ \A t \in Ids : t > count' => q'[t] = q[t] /\ ip'[t] = ip[t] /\ t > count
             /\ count' = count /\ live' = live
  <2>1. s \in 1 .. count /\ s \in Ids
    BY <1>1, <1>3 DEF Alters
  <2> QED
    BY <1>1, <1>2, <1>3, <2>1 DEF Alters, SameServers
<1>4. CASE Quiet
  <2>1. CASE q' = q
    BY <1>1, <1>2, <1>4, <2>1 DEF Quiet, SameServers, SameConnections
  <2>2. CASE \E s, r : Alters(s, r) /\ SameSocket(r, q[s])
    <3>1. PICK s, r : Alters(s, r) /\ SameSocket(r, q[s])
      BY <2>2
    <3>2. ip[s] = 0 => r.fd = 0 /\ r.state = "init"
      BY <1>1, <1>2, <3>1 DEF Alters, SameSocket
    <3> QED
      BY <1>3, <1>4, <3>1, <3>2 DEF Quiet, SameConnections, SameServers
  <2> QED
    BY <1>4, <2>1, <2>2 DEF Quiet
<1>5. ASSUME NEW s \in live, Maps(s) \/ Opens(s) \/ Pends(s) \/ Joins(s) \/ Drops(s) \/ Closes(s)
      PROVE  \E r : Alters(s, r) /\ (ip[s] = 0 => r.fd = 0 /\ r.state = "init") /\ SameServers /\ closed \subseteq closed'
  BY <1>1, <1>2, <1>5 DEF Maps, Opens, Pends, Joins, Drops, Closes, SameConnections
<1>6. ASSUME NEW s \in live, Maps(s) \/ Opens(s) \/ Pends(s) \/ Joins(s) \/ Drops(s) \/ Closes(s)
      PROVE  /\ \A t \in 1 .. count :
                  /\ ip'[t] = ip[t] /\ type'[t] = type[t]
                  /\ q[t].name # NoName => q'[t].name # NoName
                  /\ ip[t] = 0 => q'[t].fd = 0 /\ q'[t].state = "init"
             /\ \A t \in Ids : t > count' => q'[t] = q[t] /\ ip'[t] = ip[t] /\ t > count
             /\ count' = count /\ live' = live /\ closed \subseteq closed'
  <2>1. PICK r : Alters(s, r) /\ (ip[s] = 0 => r.fd = 0 /\ r.state = "init") /\ SameServers /\ closed \subseteq closed'
    BY <1>5, <1>6
  <2> QED
    BY <1>3, <2>1
<1>7. CASE \E s \in live : Frees(s)
  BY <1>1, <1>2, <1>7 DEF Frees, SameConnections
<1>8. CASE \E d \in Discovered : FindsServer(d)
  <2>1. PICK d \in Discovered : FindsServer(d)
    BY <1>8
  <2> DEFINE n == count + 1
  <2>2. /\ n \in Ids /\ count' = n /\ live' = live \cup {n} /\ n \notin 1 .. count
        /\ ip' = [ip EXCEPT ![n] = d[1]] /\ type' = [type EXCEPT ![n] = d[3]] /\ closed' = closed
    BY <1>1, <2>1, FoundServer
  <2>3. \A t \in Ids : t # n =>
          q'[t] = q[t] \/ (t \in live /\ q'[t].name = q[t].name /\ q'[t].fd = q[t].fd /\ q'[t].state = q[t].state)
    BY <2>1, FoundServer
  <2>4. 1 .. count \subseteq 1 .. count' /\ \A t \in Ids : t > count' => t # n /\ t > count /\ t \notin live
    <3>1. MaxServers \in Nat /\ \A t \in Ids : t \in Nat
      BY Basics DEF Ids
    <3>2. \A t \in live : t \in Nat /\ t <= count
      BY <1>1
    <3>3. count' = count + 1 /\ n = count + 1
      BY <2>2
    <3> HIDE DEF n
    <3> QED
      BY <1>1, <3>1, <3>2, <3>3
  <2> HIDE DEF n
  <2>5. \A t \in 1 .. count : t \in Ids /\ t # n
    BY <1>1, <2>2
  <2>6. /\ \A t \in 1 .. count : ip'[t] = ip[t] /\ type'[t] = type[t] /\ q'[t].name = q[t].name
              /\ q'[t].fd = q[t].fd /\ q'[t].state = q[t].state
        /\ \A t \in Ids : t > count' => q'[t] = q[t] /\ ip'[t] = ip[t]
    BY <1>1, <2>2, <2>3, <2>4, <2>5
  <2> QED
    BY <1>2, <2>1, <2>2, <2>4, <2>6
<1> QED
  BY <1>4, <1>6, <1>7, <1>8 DEF WorkStep

-----------------------------------------------------------------------------
\* Structs not handed out, and where servers are from.

LEMMA FreshKept ==
  ASSUME SafeFrees, EngineInv, Keeps, WorkStep
  PROVE  Fresh'
<1>1. SUFFICES ASSUME NEW s \in Ids, s > count'
               PROVE  q'[s] = NewQuery(0)' /\ asked'[s] = 0 /\ ip'[s] = 0
  BY DEF Fresh
<1>2. q'[s] = q[s] /\ ip'[s] = ip[s] /\ s > count
  BY <1>1, WorkEffects
<1>3. q[s] = NewQuery(0) /\ asked[s] = 0 /\ ip[s] = 0
  BY <1>1, <1>2 DEF EngineInv, Fresh
<1>4. NewQuery(0)' = NewQuery(0)
  BY DEF NewQuery, GetRules, Keeps
<1>5. asked'[s] = asked[s]
  <2>1. s \notin live
    BY <1>2, Basics
  <2> QED
    BY <2>1, <1>1 DEF Keeps, AsksLive
<1> QED
  BY <1>2, <1>3, <1>4, <1>5

LEMMA OriginsKept ==
  ASSUME SafeFrees, EngineInv, Working, Keeps, WorkStep
  PROVE  Origins'
<1>1. FromCmdLine'
  BY DEF EngineInv, Origins, FromCmdLine, Keeps, Working
<1>2. /\ Broadcasts(setup)' = Broadcasts(setup) /\ HasMasters(setup)' = HasMasters(setup)
      /\ CmdTypes(setup)' = CmdTypes(setup)
  BY DEF Keeps
<1>3. ASSUME NEW s \in 1 .. count
      PROVE  Origin(s)'
  <2>1. Origin(s) /\ ip'[s] = ip[s] /\ type'[s] = type[s]
    BY <1>3, WorkEffects DEF EngineInv, Origins
  <2>2. q[s].name # NoName => q'[s].name # NoName
    BY <1>3, WorkEffects
  <2>3. ip[s] = 0 => q'[s].fd = 0 /\ q'[s].state = "init"
    BY <1>3, WorkEffects
  <2> QED
    BY <1>2, <2>1, <2>2, <2>3 DEF Origin, Broadcast, Is
<1>4. ASSUME NEW s \in 1 .. count', s \notin 1 .. count
      PROVE  Origin(s)'
  <2>1. PICK d \in Discovered : FindsServer(d)
    BY <1>4, WorkEffects
  <2>2. s = count + 1 /\ ip'[s] = d[1] /\ type'[s] = d[3] /\ d[1] # 0
    <3>1. /\ count' = count + 1 /\ count + 1 \in Ids /\ d[1] # 0
          /\ ip' = [ip EXCEPT ![count + 1] = d[1]] /\ type' = [type EXCEPT ![count + 1] = d[3]]
      BY <2>1, FoundServer
    <3>2. count \in 0 .. MaxServers /\ MaxServers \in Nat
      BY Basics
    <3>3. s = count + 1
      BY <1>4, <3>1, <3>2
    <3>4. ip \in [Ids -> Ips] /\ type \in [Ids -> Types]
      BY Basics DEF TypeOK
    <3> QED
      BY <3>1, <3>3, <3>4
  <2>3. d[1] \notin BroadcastIps /\ d[3] \notin MasterTypes \cup TcpTypes
    BY Provisos DEF GamesReported
  <2>4. Broadcasts(setup) /\ ~HasMasters(setup) => d[3] \in CmdTypes(setup)
    BY <2>1, Basics DEF FindsServer, EngineInv, Origins, Origin
  <2> QED
    BY <1>2, <2>2, <2>3, <2>4 DEF Origin, Broadcast, Is
<1> QED
  BY <1>1, <1>3, <1>4 DEF Origins

-----------------------------------------------------------------------------
\* Sockets.

LEMMA SocketsKept ==
  ASSUME SafeFrees, EngineInv, Working, Keeps, WorkStep, Plain
  PROVE  Sockets'
<1>1. Sockets
  BY DEF EngineInv
<1>2. /\ q \in [Ids -> QueryStates] /\ connmap \in [Ids -> Ptrs] /\ closed \subseteq 1 .. count
      /\ live \subseteq Ids /\ live \subseteq 1 .. count /\ 1 .. count \subseteq Ids
      /\ 0 \notin Ids /\ count \in Nat
  <2>1. q \in [Ids -> QueryStates] /\ connmap \in [Ids -> Ptrs] /\ closed \subseteq 1 .. count
    BY Basics DEF EngineTypes
  <2>2. /\ live \subseteq Ids /\ live \subseteq 1 .. count /\ 1 .. count \subseteq Ids
        /\ 0 \notin Ids /\ count \in 0 .. MaxServers /\ MaxServers \in Nat
    BY Basics
  <2> QED
    BY <2>1, <2>2
<1>3. \A s \in Ids : q[s] \in QueryStates /\ q[s].fd \in Ptrs /\ (q[s].fd # 0 => q[s].fd \in Ids)
  <2>1. \A s \in Ids : q[s] \in QueryStates /\ q[s].fd \in Ptrs
    BY <1>2 DEF QueryStates
  <2> QED
    BY <2>1, Basics DEF Ids, Ptrs
<1>12. /\ \A f \in Ids : connmap[f] # 0 =>
            connmap[f] \in live /\ q[connmap[f]].fd = f /\ q[connmap[f]].state = "connected"
       /\ \A s, t \in live : q[s].fd # 0 /\ q[s].fd = q[t].fd => s = t
  BY <1>1 DEF Sockets
<1>4. CASE Quiet
  <2>1. CASE q' = q
    BY <1>1, <1>4, <2>1 DEF Quiet, SameServers, SameConnections, Sockets, Is
  <2>2. CASE \E s, r : Alters(s, r) /\ SameSocket(r, q[s]) /\ (q[s].state = "connecting" => r.name = q[s].name)
    <3>1. PICK s, r : Alters(s, r) /\ SameSocket(r, q[s]) /\ (q[s].state = "connecting" => r.name = q[s].name)
      BY <2>2
    <3>2. \A t \in Ids : /\ q'[t].fd = q[t].fd /\ q'[t].state = q[t].state
                         /\ q[t].name # NoName => q'[t].name # NoName
                         /\ q[t].state = "connecting" => q'[t].name = q[t].name
      BY <1>2, <3>1 DEF Alters, SameSocket
    <3>3. UNCHANGED <<connmap, closed, live, count, type>>
      BY <1>4 DEF Quiet, SameServers, SameConnections
    <3>4. \A f \in Ids : connmap'[f] # 0 =>
            connmap'[f] \in live' /\ q'[connmap'[f]].fd = f /\ q'[connmap'[f]].state = "connected"
      BY <1>1, <1>2, <3>2, <3>3 DEF Sockets
    <3>5. \A t \in 1 .. count' : q'[t].state = "connecting" =>
            t \in live' /\ type'[t] \in TcpTypes /\ q'[t].fd # 0 /\ q'[t].name = NoName
      BY <1>1, <1>2, <3>2, <3>3 DEF Sockets, Is
    <3>6. \A t \in closed' : q'[t].fd = 0 /\ q'[t].name # NoName
      BY <1>1, <1>2, <3>2, <3>3 DEF Sockets
    <3>7. \A t \in live' : q'[t].fd # 0 =>
            q'[t].state = "connecting" \/ (q'[t].state = "connected" /\ connmap'[q'[t].fd] = t)
      BY <1>1, <1>2, <3>2, <3>3 DEF Sockets
    <3>8. ASSUME NEW t \in live', NEW u \in live', q'[t].fd # 0, q'[t].fd = q'[u].fd
          PROVE  t = u
      <4>1. t \in live /\ u \in live /\ t \in Ids /\ u \in Ids
        BY <1>2, <3>3
      <4>2. q'[t].fd = q[t].fd /\ q'[u].fd = q[u].fd
        BY <3>2, <4>1
      <4> QED
        BY <1>12, <3>8, <4>1, <4>2
    <3> QED
      BY <3>4, <3>5, <3>6, <3>7, <3>8 DEF Sockets, Is
  <2> QED
    BY <1>4, <2>1, <2>2 DEF Quiet
<1>5. ASSUME NEW s \in live, Opens(s)
      PROVE  Sockets'
  <2>1. PICK r : Alters(s, r) /\ r.fd = FreeFd /\ r.state = "connected" /\ r.name = NoName
    BY <1>5 DEF Opens
  <2>2. FreeFd \in Ids /\ \A t \in live : q[t].fd # FreeFd
    BY <1>5, Basics, FreeFdFound DEF Opens
  <2>3. /\ q[s].fd = 0 /\ q[s].name = NoName /\ connmap' = [connmap EXCEPT ![FreeFd] = s] /\ closed' = closed
        /\ SameServers /\ q' = [q EXCEPT ![s] = r]
    BY <1>5, <2>1 DEF Opens, Alters
  <2> DEFINE F == FreeFd
  <2> HIDE DEF F
  <2>4. /\ \A t \in Ids : t # s => q'[t] = q[t]
        /\ q'[s].fd = F /\ q'[s].state = "connected" /\ q'[s].name = NoName
        /\ \A f \in Ids : connmap'[f] = IF f = F THEN s ELSE connmap[f]
        /\ F \in Ids /\ \A t \in live : q[t].fd # F
    BY <1>2, <2>1, <2>2, <2>3 DEF F
  <2>5. s \notin closed
    BY <1>1, <2>3 DEF Sockets
  <2> QED
    BY <1>1, <1>2, <1>3, <2>3, <2>4, <2>5 DEF Sockets, SameServers, Is
<1>6. ASSUME NEW s \in live, Pends(s)
      PROVE  Sockets'
  <2>1. PICK r : Alters(s, r) /\ r.fd = FreeFd /\ r.state = "connecting" /\ r.name = NoName
    BY <1>6 DEF Pends
  <2>2. FreeFd \in Ids /\ \A t \in live : q[t].fd # FreeFd
    BY <1>6, Basics, FreeFdFound DEF Pends
  <2>3. /\ q[s].fd = 0 /\ q[s].name = NoName /\ SameConnections /\ SameServers /\ q' = [q EXCEPT ![s] = r]
        /\ Is(s, TcpTypes)
    BY <1>6, <2>1 DEF Pends, Alters
  <2> DEFINE F == FreeFd
  <2> HIDE DEF F
  <2>4. /\ \A t \in Ids : t # s => q'[t] = q[t]
        /\ q'[s].fd = F /\ q'[s].state = "connecting" /\ q'[s].name = NoName
        /\ F \in Ids /\ \A t \in live : q[t].fd # F
    BY <1>2, <2>1, <2>2, <2>3 DEF F
  <2>5. s \notin closed /\ \A f \in Ids : connmap[f] # s
    BY <1>1, <1>2, <2>3 DEF Sockets
  <2> QED
    BY <1>1, <1>2, <1>3, <2>3, <2>4, <2>5 DEF Sockets, SameServers, SameConnections, Is
<1>7. ASSUME NEW s \in live, Joins(s)
      PROVE  Sockets'
  <2>1. PICK r : Alters(s, r) /\ r.fd = q[s].fd /\ r.state = "connected" /\ r.name = q[s].name
    BY <1>7 DEF Joins
  <2>2. /\ q[s].state = "connecting" /\ connmap' = [connmap EXCEPT ![q[s].fd] = s] /\ closed' = closed
        /\ SameServers /\ q' = [q EXCEPT ![s] = r]
    BY <1>7, <2>1 DEF Joins, Alters
  <2>3. q[s].fd # 0 /\ q[s].fd \in Ids
    BY <1>1, <1>2, <1>3, <2>2 DEF Sockets
  <2>4. /\ \A t \in Ids : t # s => q'[t] = q[t]
        /\ q'[s].fd = q[s].fd /\ q'[s].state = "connected" /\ q'[s].name = q[s].name
        /\ \A f \in Ids : connmap'[f] = IF f = q[s].fd THEN s ELSE connmap[f]
    BY <1>2, <2>1, <2>2, <2>3
  <2> QED
    BY <1>1, <1>2, <1>3, <2>2, <2>3, <2>4 DEF Sockets, SameServers, Is
<1>8. ASSUME NEW s \in live, Drops(s)
      PROVE  Sockets'
  <2>1. PICK r : Alters(s, r) /\ r.fd = 0 /\ r.state = "failed" /\ r.name # NoName
    BY <1>8 DEF Drops
  <2>2. /\ q[s].state = "connecting" /\ SameConnections /\ SameServers /\ q' = [q EXCEPT ![s] = r]
    BY <1>8, <2>1 DEF Drops, Alters
  <2>3. \A f \in Ids : connmap[f] # s
    BY <1>1, <1>2, <2>2 DEF Sockets
  <2>4. /\ \A t \in Ids : t # s => q'[t] = q[t]
        /\ q'[s].fd = 0 /\ q'[s].state = "failed" /\ q'[s].name # NoName
    BY <1>2, <2>1, <2>2
  <2> QED
    BY <1>1, <1>2, <1>3, <2>2, <2>3, <2>4 DEF Sockets, SameServers, SameConnections, Is
<1>9. ASSUME NEW s \in live, Closes(s)
      PROVE  Sockets'
  <2>1. PICK r : Alters(s, r) /\ r.fd = 0 /\ r.state = q[s].state /\ r.name # NoName
    BY <1>9 DEF Closes
  <2>2. /\ connmap' = IF q[s].fd = 0 THEN connmap ELSE [connmap EXCEPT ![q[s].fd] = 0]
        /\ closed' = closed \cup {s} /\ SameServers /\ q' = [q EXCEPT ![s] = r]
    BY <1>9, <2>1 DEF Closes, Alters
  <2>3. /\ \A t \in Ids : t # s => q'[t] = q[t]
        /\ q'[s].fd = 0 /\ q'[s].state = q[s].state /\ q'[s].name # NoName
        /\ \A f \in Ids : connmap'[f] = IF f = q[s].fd /\ q[s].fd # 0 THEN 0 ELSE connmap[f]
    BY <1>2, <2>1, <2>2
  <2>4. q[s].state # "connecting"
    BY <1>9 DEF Closes
  <2> QED
    BY <1>1, <1>2, <1>3, <2>2, <2>3, <2>4 DEF Sockets, SameServers, Is
<1>10. ASSUME NEW s \in live, Frees(s)
      PROVE  Sockets'
  <2>1. q[s].fd = 0 /\ q[s].name # NoName
    BY <1>1, <1>10 DEF Frees, Sockets
  <2> QED
    BY <1>1, <1>2, <1>10, <2>1 DEF Sockets, Frees, SameConnections, Is
<1>11. ASSUME NEW d \in Discovered, FindsServer(d)
      PROVE  Sockets'
  <2> DEFINE n == count + 1
  <2>1. /\ n \in Ids /\ count' = n /\ live' = live \cup {n} /\ n \notin 1 .. count /\ n \notin live
        /\ type' = [type EXCEPT ![n] = d[3]] /\ closed' = closed /\ connmap' = connmap
        /\ q'[n] = NewQuery(d[1])
    BY <1>2, <1>11, FoundServer
  <2>2. \A t \in Ids : t # n => q'[t].name = q[t].name /\ q'[t].fd = q[t].fd /\ q'[t].state = q[t].state
    BY <1>11, FoundServer
  <2>3. q'[n].fd = 0 /\ q'[n].state = "init"
    BY <2>1 DEF NewQuery
  <2>4. \A t \in 1 .. count : t # n /\ type'[t] = type[t] /\ t \in Ids
    BY <1>2, <2>1, Basics DEF TypeOK
  <2>5. \A t \in 1 .. count' : t = n \/ t \in 1 .. count
    BY <1>2, <2>1
  <2> HIDE DEF n
  <2>6. ASSUME NEW f \in Ids, connmap'[f] # 0
        PROVE  connmap'[f] \in live' /\ q'[connmap'[f]].fd = f /\ q'[connmap'[f]].state = "connected"
    <3>1. connmap'[f] = connmap[f] /\ connmap[f] \in live /\ connmap[f] # n /\ connmap[f] \in Ids
      BY <1>2, <1>12, <2>1, <2>6
    <3>2. q[connmap[f]].fd = f /\ q[connmap[f]].state = "connected"
      BY <1>12, <2>6, <3>1
    <3> QED
      BY <2>1, <2>2, <3>1, <3>2
  <2>7. \A t \in 1 .. count' : q'[t].state = "connecting" =>
          t \in live' /\ type'[t] \in TcpTypes /\ q'[t].fd # 0 /\ q'[t].name = NoName
    BY <1>1, <1>2, <2>1, <2>2, <2>3, <2>4, <2>5 DEF Sockets, Is
  <2>8. \A t \in closed' : q'[t].fd = 0 /\ q'[t].name # NoName
    BY <1>1, <1>2, <2>1, <2>2, <2>4 DEF Sockets
  <2>9. \A t \in live' : q'[t].fd # 0 =>
          q'[t].state = "connecting" \/ (q'[t].state = "connected" /\ connmap'[q'[t].fd] = t)
    BY <1>1, <1>2, <2>1, <2>2, <2>3 DEF Sockets
  <2>10. \A t, u \in live' : q'[t].fd # 0 /\ q'[t].fd = q'[u].fd => t = u
    BY <1>1, <1>2, <2>1, <2>2, <2>3 DEF Sockets
  <2> QED
    BY <2>6, <2>7, <2>8, <2>9, <2>10 DEF Sockets, Is
<1> QED
  BY <1>4, <1>5, <1>6, <1>7, <1>8, <1>9, <1>10, <1>11 DEF WorkStep, Maps

-----------------------------------------------------------------------------
\* The command line.

LEMMA LoadCmdLine ==
  ASSUME EngineInv, LoadServers
  PROVE  /\ phase = "args" /\ setup' = setup /\ UNCHANGED options
         /\ FromCmdLine'
         /\ \/ SameServers
            \/ \E j \in DOMAIN setup.cmdline : AddsServer(setup.cmdline[j].ip, setup.cmdline[j].type)
         /\ phase' # "args" => SameServers
<1>1. FromCmdLine /\ phase = "args" /\ setup' = setup /\ options' = options
  <2>1. FromCmdLine
    BY DEF EngineInv, Origins
  <2> QED
    BY <2>1, LoadEffect DEF EngineInv, LoadServers, FromCmdLine
<1>2. /\ cmdline \in Seq(Args) /\ ip \in [Ids -> Ips] /\ type \in [Ids -> Types]
      /\ 1 .. count \subseteq Ids /\ count \in Nat
  BY Basics DEF TypeOK
<1>3. CASE ParseArg
  <2>1. /\ cmdline' = Tail(cmdline) /\ adding'.arg = Head(cmdline) /\ phase' = phase /\ SameServers
        /\ cmdline # <<>>
    BY <1>3 DEF ParseArg, SameServers, fields
  <2>2. /\ \A i \in DOMAIN Tail(cmdline) : i + 1 \in DOMAIN cmdline /\ Tail(cmdline)[i] = cmdline[i + 1]
        /\ 1 \in DOMAIN cmdline /\ Head(cmdline) = cmdline[1]
    BY <1>2, <2>1
  <2>3. FromCmdLine'
    BY <1>1, <2>1, <2>2 DEF FromCmdLine, SameServers
  <2> QED
    BY <1>1, <2>1, <2>3
<1>4. CASE AddUnresolved \/ AddResolved
  <2>1. /\ cmdline' = cmdline /\ adding'.arg = adding.arg /\ phase' = phase /\ adding.on
    <3>1. adding \in [on : BOOLEAN, port : Ports, node : Ptrs, arg : Args \cup {Idle.arg}]
      BY Basics DEF TypeOK
    <3> QED
      BY <1>4, <3>1 DEF AddUnresolved, AddResolved, InRange
  <2>2. PICK j \in DOMAIN setup.cmdline : adding.arg = setup.cmdline[j]
    BY <1>1, <2>1 DEF FromCmdLine
  <2>3. SameServers \/ AddsServer(setup.cmdline[j].ip, setup.cmdline[j].type)
    BY <1>4, <2>2, LoadEffect DEF Load, EngineInv
  <2>4. FromCmdLine'
    <3>1. ASSUME NEW s \in 1 .. count'
          PROVE  \E k \in DOMAIN setup.cmdline : ip'[s] = setup.cmdline[k].ip /\ type'[s] = setup.cmdline[k].type
      <4>1. CASE SameServers
        BY <1>1, <3>1, <4>1 DEF SameServers, FromCmdLine
      <4>2. CASE AddsServer(setup.cmdline[j].ip, setup.cmdline[j].type)
        <5>1. /\ count' = count + 1 /\ count + 1 \in Ids
              /\ ip' = [ip EXCEPT ![count + 1] = setup.cmdline[j].ip]
              /\ type' = [type EXCEPT ![count + 1] = setup.cmdline[j].type]
          BY <4>2 DEF AddsServer
        <5>2. CASE s = count + 1
          BY <1>2, <5>1, <5>2
        <5>3. CASE s # count + 1
          <6>1. s \in 1 .. count /\ s \in Ids
            BY <1>2, <3>1, <5>1, <5>3
          <6>2. ip'[s] = ip[s] /\ type'[s] = type[s]
            BY <1>2, <5>1, <5>3, <6>1
          <6> QED
            BY <1>1, <6>1, <6>2 DEF FromCmdLine
        <5> QED
          BY <5>2, <5>3
      <4> QED
        BY <2>3, <4>1, <4>2
    <3> QED
      BY <1>1, <2>1, <2>2, <3>1 DEF FromCmdLine
  <2> QED
    BY <1>1, <2>1, <2>3, <2>4
<1>5. CASE EndArg \/ StartWork
  <2>1. cmdline' = cmdline /\ (adding' = adding \/ ~adding'.on) /\ SameServers
    BY <1>5 DEF EndArg, StartWork, SameServers, Idle, fields
  <2>2. ~adding.on \/ phase' = phase
    BY <1>5 DEF EndArg, StartWork
  <2> QED
    BY <1>1, <2>1, <2>2 DEF FromCmdLine, SameServers
<1> QED
  BY <1>3, <1>4, <1>5 DEF LoadServers, Load

LEMMA LoadKept ==
  ASSUME SafeFrees, EngineInv, LoadServers
  PROVE  NotStarted' /\ Fresh' /\ Origins'
<1> DEFINE new == live' \ live
<1>1. /\ q' = [s \in Ids |-> IF s \in new THEN NewQuery(ip'[s]) ELSE q[s]]
      /\ UNCHANGED <<setup, connmap, connected, returned, timedOut, history, main, stack, input,
                     clock, budget>>
  BY DEF LoadServers
<1>2. /\ live \subseteq 1 .. count /\ 1 .. count \subseteq Ids /\ count \in Nat
      /\ ip \in [Ids -> Ips] /\ type \in [Ids -> Types]
  BY Basics DEF TypeOK
<1>3. phase = "args" /\ FromCmdLine'
  BY LoadCmdLine
<1>4. /\ main = "start" /\ stack = <<>> /\ buffer = <<>> /\ polled = {} /\ closed = {}
      /\ connected = 0 /\ returned = 0 /\ timedOut = 0 /\ connmap = [f \in Ids |-> 0]
      /\ \A s \in Ids : q[s] = NewQuery(ip[s]) /\ asked[s] = 0
  BY <1>3 DEF EngineInv, NotStarted
<1>5. \A a : NewQuery(a)' = NewQuery(a)
  BY <1>1 DEF NewQuery, GetRules
<1>6. /\ \A s \in Ids : q'[s] = NewQuery(ip'[s]) /\ asked'[s] = 0
      /\ \A s \in Ids : s > count' => s > count /\ ip'[s] = ip[s]
      /\ \A s \in 1 .. count' :
           /\ s \in Ids
           /\ \/ s \in 1 .. count /\ ip'[s] = ip[s] /\ type'[s] = type[s]
              \/ \E j \in DOMAIN setup.cmdline : ip'[s] = setup.cmdline[j].ip /\ type'[s] = setup.cmdline[j].type
  <2>1. CASE SameServers
    <3>1. new = {}
      BY <2>1 DEF SameServers
    <3> HIDE DEF new
    <3> QED
      BY <1>1, <1>2, <1>4, <2>1, <3>1 DEF SameServers, history
  <2>2. CASE \E j \in DOMAIN setup.cmdline : AddsServer(setup.cmdline[j].ip, setup.cmdline[j].type)
    <3>1. PICK j \in DOMAIN setup.cmdline : AddsServer(setup.cmdline[j].ip, setup.cmdline[j].type)
      BY <2>2
    <3> DEFINE n == count + 1
    <3>2. /\ count' = n /\ n \in Ids /\ live' = live \cup {n}
          /\ ip' = [ip EXCEPT ![n] = setup.cmdline[j].ip] /\ type' = [type EXCEPT ![n] = setup.cmdline[j].type]
          /\ n \notin live
      BY <1>2, <3>1 DEF AddsServer
    <3>3. new = {n}
      BY <3>2
    <3>4. \A s \in 1 .. count' : s = n \/ (s \in 1 .. count /\ s # n)
      BY <1>2, <3>2
    <3>5. \A s \in Ids : s > count' => s > count /\ s # n
      <4>1. \A s \in Ids : s \in Nat
        BY Basics DEF Ids
      <4> QED
        BY <1>2, <3>2, <4>1
    <3> HIDE DEF new, n
    <3>6. \A s \in Ids : q'[s] = NewQuery(ip'[s]) /\ asked'[s] = 0
      BY <1>1, <1>2, <1>4, <3>2, <3>3 DEF history
    <3>7. ip'[n] = setup.cmdline[j].ip /\ type'[n] = setup.cmdline[j].type
      BY <1>2, <3>2
    <3>8. \A s \in Ids : s # n => ip'[s] = ip[s] /\ type'[s] = type[s]
      BY <1>2, <3>2
    <3> QED
      BY <1>2, <3>2, <3>4, <3>5, <3>6, <3>7, <3>8
  <2> QED
    BY <2>1, <2>2, LoadCmdLine
<1> HIDE DEF new
<1>7. NotStarted'
  BY <1>1, <1>4, <1>5, <1>6 DEF NotStarted, history, input
<1>8. Fresh'
  BY <1>4, <1>5, <1>6 DEF EngineInv, Fresh
<1>9. /\ Broadcasts(setup)' = Broadcasts(setup) /\ HasMasters(setup)' = HasMasters(setup)
      /\ CmdTypes(setup)' = CmdTypes(setup)
  BY <1>1
<1>10. ASSUME NEW s \in 1 .. count'
       PROVE  Origin(s)'
  <2>1. s \in Ids /\ q'[s] = NewQuery(ip'[s])
    BY <1>6
  <2>2. ip'[s] = 0 => q'[s].name # NoName /\ q'[s].fd = 0 /\ q'[s].state = "init"
    BY <2>1 DEF NewQuery, NoName
  <2>3. CASE s \in 1 .. count /\ ip'[s] = ip[s] /\ type'[s] = type[s]
    <3>1. Origin(s)
      BY <2>3 DEF EngineInv, Origins
    <3> QED
      BY <1>9, <2>2, <2>3, <3>1 DEF Origin, Broadcast, Is
  <2>4. CASE \E j \in DOMAIN setup.cmdline : ip'[s] = setup.cmdline[j].ip /\ type'[s] = setup.cmdline[j].type
    <3>1. PICK j \in DOMAIN setup.cmdline : ip'[s] = setup.cmdline[j].ip /\ type'[s] = setup.cmdline[j].type
      BY <2>4
    <3>2. type'[s] \in CmdTypes(setup) /\ (ip'[s] \in BroadcastIps => Broadcasts(setup))
      BY <3>1 DEF CmdTypes, Broadcasts
    <3> QED
      BY <1>9, <2>2, <3>2 DEF Origin, Broadcast, Is, HasMasters
  <2> QED
    BY <1>6, <2>3, <2>4
<1> QED
  BY <1>3, <1>7, <1>8, <1>10 DEF Origins

\* At the start of the work no server has a socket, and no function runs.
WorkInv ==
  Working =>
    /\ Plain => Sockets /\ Settled
    /\ Buffering /\ StackKnown
    /\ Plain /\ (~Broadcasts(setup) \/ Sort = "none") => BufferedOnce
    /\ Streams => FoundShown
    /\ Sort # "none" => PointersSorted
    /\ Sort = "none" => PointersFreeing

LEMMA LoadWork ==
  ASSUME SafeFrees, EngineInv, LoadServers, EngineTypes'
  PROVE  WorkInv'
<1>1. SUFFICES ASSUME Working'
               PROVE  /\ (Plain => Sockets /\ Settled)' /\ Buffering' /\ StackKnown' /\ BufferedOnce'
                      /\ (Streams => FoundShown)' /\ PointersSorted' /\ PointersFreeing'
  BY DEF WorkInv
<1>2. phase = "args" /\ phase' # "args" /\ SameServers /\ UNCHANGED <<options, setup>>
  BY <1>1, LoadCmdLine DEF Working
<1>3. /\ main' = "start" /\ stack' = <<>> /\ buffer' = <<>> /\ polled' = {} /\ closed' = {}
      /\ connmap' = [f \in Ids |-> 0] /\ q' = q
      /\ \A s \in Ids : q[s] = NewQuery(ip[s])
  <2>1. live' \ live = {}
    BY <1>2 DEF SameServers
  <2>2. q' = q
    BY <2>1, Basics DEF LoadServers, EngineTypes
  <2> QED
    BY <1>2, <2>2 DEF EngineInv, NotStarted, LoadServers, input, history
<1>4. \A s \in Ids : q'[s].fd = 0 /\ q'[s].state = "init"
  <2>1. \A a : NewQuery(a).fd = 0 /\ NewQuery(a).state = "init"
    BY DEF NewQuery
  <2> QED
    BY <1>3, <2>1
<1>5. live' \subseteq Ids /\ 1 .. count' \subseteq Ids
  BY <1>2, Basics DEF SameServers
<1>6. Depths' = {} /\ DOMAIN buffer' = {}
  BY <1>3 DEF Depths, Depth
<1>7. Sockets' /\ Settled'
  BY <1>3, <1>4, <1>5, <1>6 DEF Sockets, Settled
<1>8. Buffering' /\ StackKnown' /\ BufferedOnce' /\ PointersSorted' /\ PointersFreeing'
  BY <1>3, <1>6 DEF Buffering, StackKnown, BufferedOnce, PointersSorted, PointersFreeing
<1>9. (Streams => FoundShown)'
  <2>1. SUFFICES ASSUME Streams, NEW s \in 1 .. count, ip[s] # 0, ip[s] \notin BroadcastIps
                 PROVE  FALSE
    BY <1>2 DEF Streams, FoundShown, SameServers, Sort, Broadcast
  <2>2. PICK j \in DOMAIN setup.cmdline : ip[s] = setup.cmdline[j].ip
    BY <1>2, <2>1 DEF EngineInv, Origins, FromCmdLine
  <2>3. \A i \in DOMAIN setup.cmdline : setup.cmdline[i].ip = 0 \/ setup.cmdline[i].ip \in BroadcastIps
    BY <2>1, Provisos DEF FreesSafely, Streams
  <2> QED
    BY <2>1, <2>2, <2>3
<1> QED
  BY <1>7, <1>8, <1>9

=============================================================================

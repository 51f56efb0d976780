-------------------------- MODULE ServerListProofs --------------------------
(***************************************************************************)
(* What holds of the server list for all values of the constants, unless   *)
(* a host that fails to resolve is given with a range of several ports:    *)
(* the list is well formed, the cursors into it never dangle, and the hash *)
(* is exact; finish_output displays every server it should, and fills the  *)
(* array sized by num_servers_total exactly; the loops that add servers    *)
(* add no address twice and leave no port of a range out; and the list and *)
(* the hash are the registry of Registry.tla.                              *)
(***************************************************************************)
EXTENDS ServerList, SequenceTheorems, FiniteSetTheorems, WellFoundedInduction, TLAPS

\* The proviso: add_qserver links the one struct of an unresolved range once
\* per port (run ServerList_range shows the loop this makes).
NoUnresolvedRange ==
  \A c \in CmdLines : \A i \in DOMAIN c : ~UnresolvedRange(c[i])

\* The arguments still to come obey the proviso, and add_qserver's loop makes
\* at most one turn for a host that did not resolve.
OneTurn ==
  /\ \A i \in DOMAIN cmdline : ~UnresolvedRange(cmdline[i])
  /\ adding.on /\ adding.arg.ip = 0 =>
       /\ ~UnresolvedRange(adding.arg)
       /\ ~InRange \/ (adding.node = 0 /\ adding.port = adding.arg.lo)

\* finish_output's cursor and array are unused before it runs; the array holds
\* servers in list order, each once, and the cursor is ahead of them.
ArrayOrder ==
  /\ phase \in {"args", "work"} => cursor = 0 /\ array = <<>>
  /\ \A i, j \in DOMAIN array : i < j => array[i] < array[j]
  /\ cursor # 0 => \A i \in DOMAIN array : array[i] < cursor

\* A struct not yet handed out is zero, as calloc gives it.
Calloced == \A s \in Ids : s > count => next[s] = 0 /\ prev[s] = 0

NotShown == \A s \in Ids : s > count => shown[s] = 0

ListInv ==
  /\ TypeOK /\ ListWellFormed /\ CursorsLive /\ ShownOnce
  /\ OneTurn /\ ArrayOrder /\ Calloced /\ NotShown

LEMMA ModRange ==
  ASSUME NEW a \in Nat, NEW b \in Nat \ {0}
  PROVE  a % b \in 0 .. b - 1
  BY SMT

LEMMA BucketType ==
  ASSUME NEW a \in Nat, NEW p \in Nat
  PROVE  Bucket(a, p) \in 0 .. HashLength - 1
<1>1. a + p \in Nat /\ HashLength \in Nat \ {0}
  BY ServerListAssumption
<1> QED
  BY <1>1, ModRange DEF Bucket

LEMMA BucketOfServer ==
  ASSUME TypeOK, NEW s \in Ids
  PROVE  Bucket(ip[s], orig[s]) \in 0 .. HashLength - 1
<1>1. ip[s] \in Nat /\ orig[s] \in Nat
  <2>1. ip[s] \in Ips /\ orig[s] \in Ports
    BY DEF TypeOK
  <2> QED
    BY <2>1, ServerListAssumption DEF Ips, Ports
<1> QED
  BY <1>1, BucketType

LEMMA AnyTypeType == AnyType \in Types
  BY ServerListAssumption DEF AnyType

LEMMA NextPortType ==
  ASSUME TypeOK
  PROVE  NextPort \in Ports
<1>1. adding.port + 1 \in Nat /\ MaxPort + 1 \in Nat \ {0}
  BY ServerListAssumption DEF TypeOK, Ports
<1>2. (adding.port + 1) % (MaxPort + 1) \in 0 .. (MaxPort + 1) - 1
  BY <1>1, ModRange
<1> QED
  BY <1>2, ServerListAssumption DEF NextPort, Ports

\* What the other proofs use of the types.
LEMMA TypeFacts ==
  ASSUME TypeOK
  PROVE  /\ MaxServers \in Nat /\ count \in 0 .. MaxServers
         /\ \A u \in live : u \in 1 .. count
         /\ next \in [1 .. MaxServers -> 0 .. MaxServers]
         /\ prev \in [1 .. MaxServers -> 0 .. MaxServers]
         /\ servers \in 0 .. MaxServers /\ lastServer \in 0 .. MaxServers
         /\ firstBind \in 0 .. MaxServers /\ lastBind \in 0 .. MaxServers
         /\ cursor \in 0 .. MaxServers
  BY ServerListAssumption DEF TypeOK, Ids, Ptrs

LEMMA ArrayFacts ==
  ASSUME TypeOK
  PROVE  /\ MaxServers \in Nat /\ Len(array) \in Nat /\ DOMAIN array = 1 .. Len(array)
         /\ \A i \in DOMAIN array : array[i] \in 1 .. MaxServers
<1>1. array \in Seq(Ids)
  BY DEF TypeOK
<1> QED
  BY <1>1, ServerListAssumption DEF Ids

LEMMA InitInv ==
  ASSUME NoUnresolvedRange, InitList
  PROVE  ListInv
<1>1. TypeOK
  <2>1. cmdline \in Seq(Args) /\ array \in Seq(Ids)
    BY ServerListAssumption DEF InitList
  <2>2. hash \in [0 .. HashLength - 1 -> Seq(Ptrs)]
    BY DEF InitList
  <2>3. adding \in [on : BOOLEAN, arg : Args, port : Ports, node : Ptrs]
    BY ServerListAssumption, AnyTypeType DEF InitList, Idle, Args, Ptrs, Ips, Ports
  <2>4. /\ ip \in [Ids -> Ips] /\ type \in [Ids -> Types]
        /\ port \in [Ids -> Ports] /\ orig \in [Ids -> Ports]
        /\ next \in [Ids -> Ptrs] /\ prev \in [Ids -> Ptrs] /\ shown \in [Ids -> Nat]
    BY ServerListAssumption, AnyTypeType DEF InitList, Ptrs, Ips, Ports
  <2>5. /\ live \subseteq 1 .. count /\ count \in Ptrs /\ {servers, lastServer, cursor} \subseteq Ptrs
        /\ {firstBind, lastBind} \subseteq Ptrs /\ numServers \in 0 .. UIntMax /\ numTotal \in Nat
    BY ServerListAssumption DEF InitList, Ptrs
  <2> QED
    BY <2>1, <2>2, <2>3, <2>4, <2>5, ServerListAssumption DEF TypeOK, InitList
<1>2. ListWellFormed /\ CursorsLive
  BY DEF InitList, ListWellFormed, CursorsLive, After, Before
<1>3. OneTurn
  BY DEF InitList, OneTurn, Idle, NoUnresolvedRange
<1>4. ArrayOrder /\ Calloced /\ NotShown /\ ShownOnce
  BY DEF InitList, ArrayOrder, Calloced, NotShown, ShownOnce
<1> QED
  BY <1>1, <1>2, <1>3, <1>4 DEF ListInv

-----------------------------------------------------------------------------
\* Linking a struct that was never linked before keeps the list.
LEMMA LinkKeeps ==
  ASSUME TypeOK, ListWellFormed, Calloced, NEW s, s = count + 1, s \in Ids,
         Link(s), live' = live \cup {s}, count' = s
  PROVE  ListWellFormed' /\ Calloced'
<1> USE DEF Ids
<1>1. /\ MaxServers \in Nat /\ count \in 0 .. MaxServers /\ s \in 1 .. MaxServers
      /\ \A u \in live : u \in 1 .. count
      /\ next \in [1 .. MaxServers -> 0 .. MaxServers]
      /\ prev \in [1 .. MaxServers -> 0 .. MaxServers]
      /\ servers \in 0 .. MaxServers /\ lastServer \in 0 .. MaxServers
  BY TypeFacts
<1>c. next[s] = 0 /\ prev[s] = 0 /\ Calloced'
  <2>1. lastServer <= count
    BY <1>1 DEF ListWellFormed, Before
  <2> QED
    BY <1>1, <2>1 DEF Calloced, Link
<1>2. CASE lastServer = 0
  <2>1. live = {}
    BY <1>1, <1>2 DEF ListWellFormed, Before
  <2>2. After(0, servers)' /\ Before(count + 1, lastServer)'
    BY <1>1, <1>2, <2>1 DEF Link, Before, After
  <2>3. After(s, next[s])' /\ Before(s, prev[s])'
    BY <1>1, <1>2, <1>c, <2>1 DEF Link, Before, After
  <2> QED
    BY <1>c, <2>1, <2>2, <2>3 DEF ListWellFormed
<1>3. CASE lastServer # 0
  <2>1. lastServer \in live /\ \A u \in live : u <= lastServer
    BY <1>1, <1>3 DEF ListWellFormed, Before
  <2>2. servers # 0
    BY <1>1, <2>1 DEF ListWellFormed, After
  <2>3. After(0, servers)'
    BY <1>1, <1>3, <2>1, <2>2 DEF Link, ListWellFormed, After
  <2>4. Before(count + 1, lastServer)'
    BY <1>1, <1>3 DEF Link, Before
  <2>5. ASSUME NEW t \in live' PROVE After(t, next[t])' /\ Before(t, prev[t])'
    <3>1. CASE t = s
      BY <1>1, <1>3, <1>c, <2>1, <3>1 DEF Link, After, Before
    <3>2. CASE t \in live
      <4>1. After(t, next[t]) /\ Before(t, prev[t]) /\ t < s
        BY <1>1, <3>2 DEF ListWellFormed
      <4>2. Before(t, prev[t])'
        BY <1>1, <1>3, <2>1, <3>2, <4>1 DEF Link, Before
      <4>3. CASE t = lastServer
        BY <1>1, <1>3, <2>1, <4>2, <4>3 DEF Link, After
      <4>4. CASE t # lastServer
        <5>1. next[t] \in live /\ next'[t] = next[t]
          BY <1>1, <1>3, <2>1, <3>2, <4>1, <4>4 DEF Link, After
        <5>2. /\ t < next[t] /\ next[t] \in live' /\ next[t] # 0
              /\ \A u \in live : u <= t \/ next[t] <= u
          <6>1. next[t] # 0 /\ next[t] \in live'
            BY <1>1, <5>1
          <6> QED
            BY <4>1, <6>1 DEF After
        <5>3. next[t] <= s
          BY <1>1, <5>1
        <5>4. After(t, next[t])'
          BY <5>1, <5>2, <5>3 DEF After
        <5> QED
          BY <4>2, <5>4
      <4> QED
        BY <4>3, <4>4
    <3> QED
      BY <3>1, <3>2
  <2> QED
    BY <1>c, <2>3, <2>4, <2>5 DEF ListWellFormed
<1> QED
  BY <1>2, <1>3


\* In a well-formed list free_server's special case for the head does nothing
\* its general case would not do.
LEMMA UnlinkSimple ==
  ASSUME TypeOK, ListWellFormed, NEW s \in live, Unlink(s)
  PROVE  /\ next' = IF prev[s] # 0 THEN [next EXCEPT ![prev[s]] = next[s]] ELSE next
         /\ prev' = IF next[s] # 0 THEN [prev EXCEPT ![next[s]] = prev[s]] ELSE prev
         /\ servers' = IF prev[s] = 0 THEN next[s] ELSE servers
         /\ lastServer' = IF next[s] = 0 THEN prev[s] ELSE lastServer
<1>1. /\ MaxServers \in Nat /\ count \in 0 .. MaxServers /\ s \in 1 .. MaxServers
      /\ \A u \in live : u \in 1 .. count
      /\ next \in [1 .. MaxServers -> 0 .. MaxServers]
      /\ prev \in [1 .. MaxServers -> 0 .. MaxServers]
      /\ servers \in 0 .. MaxServers /\ lastServer \in 0 .. MaxServers
  BY TypeFacts
<1>2. After(s, next[s]) /\ Before(s, prev[s])
  BY DEF ListWellFormed
<1>a. /\ servers # 0 /\ servers \in live /\ \A u \in live : servers <= u
      /\ lastServer # 0 /\ lastServer \in live /\ \A u \in live : u <= lastServer
  <2>1. After(0, servers) /\ Before(count + 1, lastServer)
    BY DEF ListWellFormed
  <2>2. servers # 0 /\ lastServer # 0
    BY <1>1, <2>1 DEF After, Before
  <2> QED
    BY <1>1, <2>1, <2>2 DEF After, Before
<1>3. servers = s <=> prev[s] = 0
  BY <1>1, <1>2, <1>a DEF Before
<1>4. lastServer = s <=> next[s] = 0
  BY <1>1, <1>2, <1>a DEF After
<1>5. next[s] # s /\ prev[s] # s
  BY <1>1, <1>2 DEF After, Before
<1>6. CASE servers = s
  BY <1>1, <1>3, <1>4, <1>5, <1>6 DEF Unlink
<1>7. CASE servers # s
  BY <1>1, <1>3, <1>4, <1>5, <1>7 DEF Unlink
<1> QED
  BY <1>6, <1>7

\* Unlinking any live server keeps the list; a cursor that moves on from it
\* stays on a live server or NULL.
LEMMA UnlinkKeeps ==
  ASSUME TypeOK, ListWellFormed, Calloced, NEW s \in live, Unlink(s), count' = count
  PROVE  /\ ListWellFormed' /\ Calloced'
         /\ \A c \in live \cup {0} : (IF c = s THEN next[s] ELSE c) \in live' \cup {0}
<1>1. /\ MaxServers \in Nat /\ count \in 0 .. MaxServers /\ s \in 1 .. MaxServers
      /\ \A u \in live : u \in 1 .. count
      /\ next \in [1 .. MaxServers -> 0 .. MaxServers]
      /\ prev \in [1 .. MaxServers -> 0 .. MaxServers]
      /\ servers \in 0 .. MaxServers /\ lastServer \in 0 .. MaxServers
  BY TypeFacts
<1>2. /\ next' = IF prev[s] # 0 THEN [next EXCEPT ![prev[s]] = next[s]] ELSE next
      /\ prev' = IF next[s] # 0 THEN [prev EXCEPT ![next[s]] = prev[s]] ELSE prev
      /\ servers' = IF prev[s] = 0 THEN next[s] ELSE servers
      /\ lastServer' = IF next[s] = 0 THEN prev[s] ELSE lastServer
  BY UnlinkSimple
<1>3. live' = live \ {s}
  BY DEF Unlink
<1>4. After(s, next[s]) /\ Before(s, prev[s])
  BY DEF ListWellFormed
<1>5. /\ next[s] # 0 => next[s] \in live /\ next[s] # s
      /\ prev[s] # 0 => prev[s] \in live /\ prev[s] # s
  BY <1>1, <1>4 DEF After, Before
<1>6. Calloced'
  BY <1>1, <1>2, <1>5 DEF Calloced, Ids
<1>7. After(0, servers)'
  <2>1. CASE prev[s] = 0
    BY <1>1, <1>2, <1>3, <1>4, <2>1 DEF After, Before
  <2>2. CASE prev[s] # 0
    BY <1>1, <1>2, <1>3, <1>4, <2>2 DEF ListWellFormed, After, Before
  <2> QED
    BY <2>1, <2>2
<1>8. Before(count + 1, lastServer)'
  <2>1. CASE next[s] = 0
    BY <1>1, <1>2, <1>3, <1>4, <2>1 DEF After, Before
  <2>2. CASE next[s] # 0
    BY <1>1, <1>2, <1>3, <1>4, <2>2 DEF ListWellFormed, After, Before
  <2> QED
    BY <2>1, <2>2
<1>9. ASSUME NEW t \in live' PROVE After(t, next[t])'
  <2>1. t \in live /\ t # s /\ After(t, next[t]) /\ t \in 1 .. MaxServers
    BY <1>1, <1>3 DEF ListWellFormed
  <2>2. CASE t = prev[s]
    <3>1. next'[t] = next[s]
      BY <1>1, <1>2, <2>1, <2>2
    <3>2. t < s /\ \A u \in live : s <= u \/ u <= t
      BY <1>1, <1>4, <2>1, <2>2 DEF Before
    <3>3. CASE next[s] = 0
      BY <1>1, <1>3, <1>4, <3>1, <3>2, <3>3 DEF After
    <3>4. CASE next[s] # 0
      BY <1>1, <1>3, <1>4, <1>5, <3>1, <3>2, <3>4 DEF After
    <3> QED
      BY <3>3, <3>4
  <2>3. CASE t # prev[s]
    <3>1. next'[t] = next[t]
      BY <1>1, <1>2, <2>1, <2>3
    <3>2. next[t] # s
      <4>1. SUFFICES ASSUME After(t, s) PROVE FALSE
        BY <2>1
      <4>2. t < s /\ prev[s] # 0 /\ t <= prev[s]
        BY <1>1, <1>4, <2>1, <4>1 DEF After, Before
      <4>3. prev[s] <= t
        BY <1>1, <1>4, <1>5, <2>1, <4>1, <4>2 DEF After, Before
      <4> QED
        BY <1>1, <2>1, <2>3, <4>2, <4>3
    <3> QED
      BY <1>1, <1>3, <2>1, <3>1, <3>2 DEF After
  <2> QED
    BY <2>2, <2>3
<1>10. ASSUME NEW t \in live' PROVE Before(t, prev[t])'
  <2>1. t \in live /\ t # s /\ Before(t, prev[t]) /\ t \in 1 .. MaxServers
    BY <1>1, <1>3 DEF ListWellFormed
  <2>2. CASE t = next[s]
    <3>1. prev'[t] = prev[s]
      BY <1>1, <1>2, <2>1, <2>2
    <3>2. s < t /\ \A u \in live : u <= s \/ t <= u
      BY <1>1, <1>4, <2>1, <2>2 DEF After
    <3>3. CASE prev[s] = 0
      BY <1>1, <1>3, <1>4, <3>1, <3>2, <3>3 DEF Before
    <3>4. CASE prev[s] # 0
      BY <1>1, <1>3, <1>4, <1>5, <3>1, <3>2, <3>4 DEF Before
    <3> QED
      BY <3>3, <3>4
  <2>3. CASE t # next[s]
    <3>1. prev'[t] = prev[t]
      BY <1>1, <1>2, <2>1, <2>3
    <3>2. prev[t] # s
      <4>1. SUFFICES ASSUME Before(t, s) PROVE FALSE
        BY <2>1
      <4>2. s < t /\ next[s] # 0 /\ next[s] <= t
        BY <1>1, <1>4, <2>1, <4>1 DEF After, Before
      <4>3. t <= next[s]
        BY <1>1, <1>4, <1>5, <2>1, <4>1, <4>2 DEF After, Before
      <4> QED
        BY <1>1, <1>5, <2>1, <2>3, <4>2, <4>3
    <3> QED
      BY <1>1, <1>3, <2>1, <3>1, <3>2 DEF Before
  <2> QED
    BY <2>2, <2>3
<1>11. \A c \in live \cup {0} : (IF c = s THEN next[s] ELSE c) \in live' \cup {0}
  BY <1>1, <1>3, <1>5
<1> QED
  BY <1>6, <1>7, <1>8, <1>9, <1>10, <1>11 DEF ListWellFormed

-----------------------------------------------------------------------------
\* Type correctness of the two operations on the list.
LEMMA LinkType ==
  ASSUME TypeOK, NEW s \in Ids, Link(s)
  PROVE  /\ next' \in [Ids -> Ptrs] /\ prev' \in [Ids -> Ptrs]
         /\ servers' \in Ptrs /\ lastServer' \in Ptrs
<1>1. Ids \subseteq Ptrs
  BY ServerListAssumption DEF Ids, Ptrs
<1>2. \A x \in Ptrs : x # 0 => x \in Ids
  BY ServerListAssumption DEF Ids, Ptrs
<1>3. /\ lastServer \in Ptrs /\ servers \in Ptrs
      /\ next \in [Ids -> Ptrs] /\ prev \in [Ids -> Ptrs]
  BY DEF TypeOK
<1> QED
  BY <1>1, <1>2, <1>3 DEF Link

LEMMA SetFieldsType ==
  ASSUME TypeOK, NEW s \in Ids, NEW a \in Ips, NEW p \in Ports, NEW t \in Types,
         SetFields(s, a, p, t)
  PROVE  /\ ip' \in [Ids -> Ips] /\ type' \in [Ids -> Types]
         /\ port' \in [Ids -> Ports] /\ orig' \in [Ids -> Ports]
  BY DEF TypeOK, SetFields

LEMMA RegisterType ==
  ASSUME TypeOK, NEW s, NEW a \in Ips, NEW p \in Ports, NEW t \in Types,
         Register(s, a, p, t)
  PROVE  /\ live' \subseteq 1 .. count' /\ count' \in Ptrs
         /\ ip' \in [Ids -> Ips] /\ type' \in [Ids -> Types]
         /\ port' \in [Ids -> Ports] /\ orig' \in [Ids -> Ports]
         /\ next' \in [Ids -> Ptrs] /\ prev' \in [Ids -> Ptrs]
         /\ servers' \in Ptrs /\ lastServer' \in Ptrs
         /\ hash' \in [0 .. HashLength - 1 -> Seq(Ptrs)]
         /\ numServers' \in 0 .. UIntMax /\ numTotal' \in Nat
<1>1. s \in Ids /\ s \in Ptrs /\ SetFields(s, a, p, t) /\ Link(s) /\ AddServerToHash(s, a, p)
  BY ServerListAssumption DEF Register, Ids, Ptrs
<1>2. live' \subseteq 1 .. count' /\ count' \in Ptrs
  BY ServerListAssumption DEF TypeOK, Register, Ids, Ptrs
<1>3. hash' \in [0 .. HashLength - 1 -> Seq(Ptrs)]
  <2>1. Bucket(a, p) \in 0 .. HashLength - 1
    BY BucketType, ServerListAssumption DEF Ips, Ports
  <2> QED
    BY <1>1, <2>1 DEF TypeOK, AddServerToHash
<1>4. numServers' \in 0 .. UIntMax
  <2>1. numServers + 1 \in Nat /\ UIntMax + 1 \in Nat \ {0}
    BY ServerListAssumption DEF TypeOK
  <2>2. (numServers + 1) % (UIntMax + 1) \in 0 .. (UIntMax + 1) - 1
    BY <2>1, ModRange
  <2> QED
    BY <2>2, ServerListAssumption DEF Register
<1>5. numTotal' \in Nat
  BY DEF TypeOK, Register
<1> QED
  BY <1>1, <1>2, <1>3, <1>4, <1>5, LinkType, SetFieldsType

LEMMA UnlinkType ==
  ASSUME TypeOK, ListWellFormed, NEW s \in live, Unlink(s), count' = count
  PROVE  /\ live' \subseteq 1 .. count'
         /\ next' \in [Ids -> Ptrs] /\ prev' \in [Ids -> Ptrs]
         /\ servers' \in Ptrs /\ lastServer' \in Ptrs
         /\ hash' \in [0 .. HashLength - 1 -> Seq(Ptrs)]
         /\ firstBind' \in Ptrs /\ lastBind' \in Ptrs
         /\ numServers' \in 0 .. UIntMax
<1>a. /\ next \in [Ids -> Ptrs] /\ prev \in [Ids -> Ptrs]
      /\ servers \in Ptrs /\ lastServer \in Ptrs
  BY DEF TypeOK
<1>b. s \in Ids
  BY TypeFacts DEF Ids
<1>1. s \in Ids /\ 0 \in Ptrs /\ next[s] \in Ptrs /\ prev[s] \in Ptrs
      /\ (next[s] # 0 => next[s] \in Ids) /\ (prev[s] # 0 => prev[s] \in Ids)
  <2>1. 0 \in Ptrs /\ \A x \in Ptrs : x # 0 => x \in Ids
    BY ServerListAssumption DEF Ids, Ptrs
  <2> QED
    BY <1>a, <1>b, <2>1
<1>2. /\ next' \in [Ids -> Ptrs] /\ prev' \in [Ids -> Ptrs]
      /\ servers' \in Ptrs /\ lastServer' \in Ptrs
  <2>1. /\ next' = IF prev[s] # 0 THEN [next EXCEPT ![prev[s]] = next[s]] ELSE next
        /\ prev' = IF next[s] # 0 THEN [prev EXCEPT ![next[s]] = prev[s]] ELSE prev
        /\ servers' = IF prev[s] = 0 THEN next[s] ELSE servers
        /\ lastServer' = IF next[s] = 0 THEN prev[s] ELSE lastServer
    BY UnlinkSimple
  <2>2. next' \in [Ids -> Ptrs]
    BY <1>a, <1>1, <2>1
  <2>3. prev' \in [Ids -> Ptrs]
    BY <1>a, <1>1, <2>1
  <2>4. servers' \in Ptrs /\ lastServer' \in Ptrs
    BY <1>a, <1>1, <2>1
  <2> QED
    BY <2>2, <2>3, <2>4
<1>3. hash' \in [0 .. HashLength - 1 -> Seq(Ptrs)]
  <2> DEFINE h == Bucket(ip[s], orig[s])
             b == hash[h]
             c == [i \in DOMAIN b |->
                     IF b[i] = s /\ \A j \in 1 .. i - 1 : b[j] # s THEN 0 ELSE b[i]]
  <2>1. ip[s] \in Nat /\ orig[s] \in Nat
    BY <1>1, ServerListAssumption DEF TypeOK, Ips, Ports
  <2>2. h \in 0 .. HashLength - 1
    BY <2>1, BucketType
  <2>3. b \in Seq(Ptrs)
    BY <2>2 DEF TypeOK
  <2>4. c \in [1 .. Len(b) -> Ptrs] /\ Len(b) \in Nat
    BY <1>1, <2>3
  <2>5. c \in Seq(Ptrs)
    BY <2>4
  <2>6. hash' = [hash EXCEPT ![h] = c]
    BY DEF Unlink, RemoveServerFromHash
  <2> HIDE DEF h, b, c
  <2> QED
    BY <2>2, <2>5, <2>6 DEF TypeOK
<1>4. live' \subseteq 1 .. count' /\ firstBind' \in Ptrs /\ lastBind' \in Ptrs
  BY <1>1 DEF TypeOK, Unlink
<1>5. numServers' \in 0 .. UIntMax
  BY ServerListAssumption DEF TypeOK, Unlink
<1> QED
  BY <1>2, <1>3, <1>4, <1>5

-----------------------------------------------------------------------------
\* Each step keeps the invariant.
LEMMA RegisterKeeps ==
  ASSUME ListInv, NEW a \in Ips, NEW p \in Ports, NEW t \in Types,
         Register(count + 1, a, p, t), UNCHANGED <<binds, finish>>
  PROVE  ListWellFormed' /\ CursorsLive' /\ ShownOnce' /\ Calloced' /\ NotShown'
<1>1. /\ count + 1 \in Ids /\ count' = count + 1 /\ live' = live \cup {count + 1}
      /\ Link(count + 1)
  BY DEF Register
<1>2. ListWellFormed' /\ Calloced'
  BY <1>1, LinkKeeps DEF ListInv
<1>3. CursorsLive'
  BY <1>1 DEF ListInv, CursorsLive, binds, finish
<1>4. ShownOnce' /\ NotShown'
  <2>1. count \in 0 .. MaxServers /\ MaxServers \in Nat /\ \A u \in live : u \in 1 .. count
    BY TypeFacts DEF ListInv
  <2>2. shown' = shown /\ ShownOnce /\ NotShown
    BY DEF finish, ListInv
  <2>3. ShownOnce'
    BY <1>1, <2>1, <2>2 DEF ShownOnce, NotShown, Ids
  <2> QED
    BY <1>1, <2>1, <2>2, <2>3 DEF NotShown, Ids
<1> QED
  BY <1>2, <1>3, <1>4

LEMMA DisplayKeeps ==
  ASSUME ListInv, NEW s \in live, DisplayServer(s)
  PROVE  /\ ListWellFormed' /\ ShownOnce' /\ Calloced' /\ NotShown'
         /\ shown' \in [Ids -> Nat]
         /\ {firstBind', lastBind'} \subseteq live' \cup {0}
         /\ \A c \in live \cup {0} : c # s => c \in live' \cup {0}
         /\ next[s] \in live' \cup {0}
<1>1. /\ Unlink(s) /\ count' = count /\ shown' = [shown EXCEPT ![s] = @ + 1]
      /\ live' = live \ {s}
  BY DEF DisplayServer, Unlink
<1>2. /\ ListWellFormed' /\ Calloced'
      /\ \A c \in live \cup {0} : (IF c = s THEN next[s] ELSE c) \in live' \cup {0}
  BY <1>1, UnlinkKeeps DEF ListInv
<1>3. /\ firstBind' = IF firstBind = s THEN next[s] ELSE firstBind
      /\ lastBind' = IF lastBind = s THEN next[s] ELSE lastBind
  BY <1>1 DEF Unlink
<1>4. s \in 1 .. count /\ s \in Ids /\ shown \in [Ids -> Nat] /\ count \in Nat /\ count <= MaxServers
      /\ MaxServers \in Nat
  <2>1. TypeOK /\ shown \in [Ids -> Nat]
    BY DEF ListInv, TypeOK
  <2> QED
    BY <2>1, TypeFacts DEF Ids
<1>5. ShownOnce' /\ NotShown' /\ shown' \in [Ids -> Nat]
  BY <1>1, <1>4 DEF ListInv, ShownOnce, NotShown, Ids
<1> QED
  BY <1>1, <1>2, <1>3, <1>5 DEF ListInv, CursorsLive

LEMMA LoadKeeps ==
  ASSUME ListInv, Load
  PROVE  ListInv'
<1> USE DEF ListInv
<1>1. CASE ParseArg
  <2>1. /\ Head(cmdline) \in Args /\ Tail(cmdline) \in Seq(Args)
        /\ \A i \in DOMAIN Tail(cmdline) : i + 1 \in DOMAIN cmdline /\ Tail(cmdline)[i] = cmdline[i + 1]
        /\ 1 \in DOMAIN cmdline /\ Head(cmdline) = cmdline[1]
    BY <1>1 DEF ParseArg, TypeOK
  <2>2. TypeOK'
    <3>1. Head(cmdline).lo \in Ports /\ 0 \in Ptrs
      BY <2>1, ServerListAssumption DEF Args, Ptrs
    <3>2. adding' \in [on : BOOLEAN, arg : Args, port : Ports, node : Ptrs]
      BY <1>1, <2>1, <3>1 DEF ParseArg
    <3> QED
      BY <1>1, <2>1, <3>2 DEF ParseArg, TypeOK, fields, list, binds, finish
  <2>3. OneTurn'
    BY <1>1, <2>1 DEF ParseArg, OneTurn, InRange
  <2> QED
    BY <1>1, <2>2, <2>3 DEF ParseArg, ListWellFormed, CursorsLive, ShownOnce, ArrayOrder,
         Calloced, NotShown, After, Before, fields, list, binds, finish
<1>2. CASE AddUnresolved
  <2>1. adding.node = 0 /\ adding.port = adding.arg.lo /\ ~UnresolvedRange(adding.arg) /\ adding.on
    BY <1>2 DEF AddUnresolved, OneTurn, InRange
  <2>2. PICK s : /\ s = count + 1 /\ s \in Ids /\ count' = s /\ live' = live \cup {s}
                 /\ SetFields(s, 0, adding.port, adding.arg.type) /\ Link(s)
                 /\ adding' = [adding EXCEPT !.port = NextPort, !.node = s]
    BY <1>2, <2>1 DEF AddUnresolved
  <2>3. ListWellFormed' /\ Calloced'
    BY <2>2, LinkKeeps
  <2>4. adding \in [on : BOOLEAN, arg : Args, port : Ports, node : Ptrs] /\ adding.arg \in Args
        /\ adding.port \in Ports /\ adding.arg.type \in Types /\ 0 \in Ips /\ s \in Ptrs
        /\ NextPort \in Ports
    <3>1. adding \in [on : BOOLEAN, arg : Args, port : Ports, node : Ptrs] /\ NextPort \in Ports
      BY NextPortType DEF TypeOK
    <3>2. adding.arg \in Args /\ adding.port \in Ports /\ adding.arg.type \in Types
      BY <3>1 DEF Args
    <3>3. 0 \in Ips /\ s \in Ptrs
      BY <2>2, ServerListAssumption DEF Ips, Ids, Ptrs
    <3> QED
      BY <3>1, <3>2, <3>3
  <2>5. TypeOK'
    <3>1. /\ ip' \in [Ids -> Ips] /\ type' \in [Ids -> Types]
          /\ port' \in [Ids -> Ports] /\ orig' \in [Ids -> Ports]
      BY <2>2, <2>4, SetFieldsType
    <3>2. /\ next' \in [Ids -> Ptrs] /\ prev' \in [Ids -> Ptrs]
          /\ servers' \in Ptrs /\ lastServer' \in Ptrs
      BY <2>2, LinkType
    <3>3. live' \subseteq 1 .. count' /\ count' \in Ptrs
      <4>1. count \in Nat /\ live \subseteq 1 .. count /\ MaxServers \in Nat
        BY ServerListAssumption DEF TypeOK, Ptrs
      <4> QED
        BY <2>2, <4>1 DEF Ids, Ptrs
    <3>4. adding' \in [on : BOOLEAN, arg : Args, port : Ports, node : Ptrs]
      BY <2>2, <2>4
    <3>5. numTotal' \in Nat
      BY <1>2 DEF AddUnresolved, TypeOK
    <3> QED
      BY <1>2, <3>1, <3>2, <3>3, <3>4, <3>5 DEF AddUnresolved, TypeOK, binds, finish
  <2>6. OneTurn'
    <3>1. adding.arg.lo = adding.arg.hi \/ adding.arg.lo = 0 \/ adding.arg.lo > adding.arg.hi
      BY <1>2, <2>1, <2>4, ServerListAssumption DEF AddUnresolved, UnresolvedRange, Args, Ports
    <3>2. adding.port = adding.arg.hi /\ adding.port \in Nat /\ adding.port <= MaxPort
      BY <1>2, <2>1, <2>4, <3>1, ServerListAssumption DEF AddUnresolved, InRange, Ports, Args
    <3>3. NextPort = 0 \/ NextPort > adding.arg.hi
      <4>1. CASE adding.port = MaxPort
        BY <3>2, <4>1, ServerListAssumption DEF NextPort
      <4>2. CASE adding.port < MaxPort
        BY <3>2, <4>2, ServerListAssumption DEF NextPort
      <4> QED
        BY <3>2, <4>1, <4>2, ServerListAssumption
    <3>4. adding'.port = NextPort /\ adding'.arg = adding.arg
      BY <2>2, <2>4
    <3>5. ~InRange'
      BY <2>4, <3>2, <3>3, <3>4 DEF InRange, Ports
    <3> QED
      BY <1>2, <2>1, <3>4, <3>5 DEF AddUnresolved, OneTurn
  <2>7. CursorsLive'
    BY <1>2, <2>2 DEF AddUnresolved, CursorsLive, binds, finish
  <2>8. ShownOnce' /\ NotShown'
    BY <1>2, <2>2, TypeFacts DEF AddUnresolved, ShownOnce, NotShown, finish, Ids
  <2>9. ArrayOrder'
    BY <1>2 DEF AddUnresolved, ArrayOrder, finish
  <2> QED
    BY <2>3, <2>5, <2>6, <2>7, <2>8, <2>9
<1>3. CASE AddResolved
  <2>1. adding \in [on : BOOLEAN, arg : Args, port : Ports, node : Ptrs] /\ adding.arg \in Args
        /\ adding.arg.ip \in Ips /\ adding.port \in Ports /\ adding.arg.type \in Types
        /\ NextPort \in Ports
    BY NextPortType DEF TypeOK, Args
  <2>2. /\ adding' \in [on : BOOLEAN, arg : Args, port : Ports, node : Ptrs]
        /\ adding'.arg = adding.arg /\ adding.arg.ip # 0
    BY <1>3, <2>1 DEF AddResolved
  <2>3. OneTurn' /\ ArrayOrder'
    BY <1>3, <2>2 DEF AddResolved, OneTurn, ArrayOrder, finish
  <2>4. CASE UNCHANGED <<live, count, fields, list, hash, numServers, numTotal>>
    BY <1>3, <2>2, <2>3, <2>4 DEF AddResolved, TypeOK, ListWellFormed, CursorsLive, ShownOnce,
         Calloced, NotShown, After, Before, fields, list, binds, finish
  <2>5. CASE Register(count + 1, adding.arg.ip, adding.port, adding.arg.type)
    <3>1. ListWellFormed' /\ CursorsLive' /\ ShownOnce' /\ Calloced' /\ NotShown'
      BY <1>3, <2>1, <2>5, RegisterKeeps DEF AddResolved
    <3>2. TypeOK'
      BY <1>3, <2>1, <2>2, <2>5, RegisterType DEF AddResolved, TypeOK, binds, finish
    <3> QED
      BY <2>3, <3>1, <3>2
  <2> QED
    BY <1>3, <2>4, <2>5 DEF AddResolved
<1>4. CASE EndArg
  <2>1. Idle \in [on : BOOLEAN, arg : Args, port : Ports, node : Ptrs] /\ ~Idle.on
    BY AnyTypeType, ServerListAssumption DEF Idle, Args, Ips, Ports, Ptrs
  <2> QED
    BY <1>4, <2>1 DEF EndArg, TypeOK, OneTurn, ListWellFormed, CursorsLive, ShownOnce, ArrayOrder,
         Calloced, NotShown, After, Before, fields, list, binds, finish
<1> QED
  BY <1>1, <1>2, <1>3, <1>4 DEF Load

LEMMA WorkKeeps ==
  ASSUME ListInv, StartWork \/ Work \/ StartFinish
  PROVE  ListInv'
<1> USE DEF ListInv
<1>1. CASE StartWork
  BY <1>1 DEF StartWork, TypeOK, OneTurn, ListWellFormed, CursorsLive, ShownOnce, ArrayOrder,
       InRange, Calloced, NotShown, After, Before, fields, list, binds, finish
<1>2. ASSUME NEW d \in Discovered, AddByAddr(d[1], d[2], d[3])
      PROVE  ListInv'
  <2>1. d[1] \in Ips /\ d[2] \in Ports /\ d[3] \in Types
    BY <1>2, ServerListAssumption
  <2>2. /\ Register(count + 1, d[1], d[2], d[3])
        /\ UNCHANGED <<options, phase, cmdline, adding, binds, finish>>
    BY <1>2 DEF AddByAddr
  <2>3. ListWellFormed' /\ CursorsLive' /\ ShownOnce' /\ Calloced' /\ NotShown'
    BY <2>1, <2>2, RegisterKeeps
  <2>4. TypeOK'
    BY <2>1, <2>2, RegisterType DEF TypeOK, binds, finish
  <2> QED
    BY <2>2, <2>3, <2>4 DEF OneTurn, InRange, ArrayOrder, finish
<1>3. ASSUME NEW s \in Ids, NEW p \in GamePorts, NEW force \in BOOLEAN,
             ChangeServerPort(s, p, force)
      PROVE  ListInv'
  BY <1>3, ServerListAssumption DEF ChangeServerPort, TypeOK, OneTurn, InRange, ListWellFormed,
       CursorsLive, ShownOnce, ArrayOrder, Calloced, NotShown, After, Before, list, binds, finish
<1>4. ASSUME NEW s \in Ids, RememberBind(s)
      PROVE  ListInv'
  <2>1. s \in live /\ s \in Ptrs
    BY <1>4, ServerListAssumption DEF RememberBind, Ids, Ptrs
  <2>2. /\ {firstBind', lastBind'} \subseteq {s, firstBind, lastBind}
        /\ UNCHANGED <<options, phase, cmdline, adding, live, count, fields, list, hash,
                       numServers, numTotal, finish>>
    BY <1>4 DEF RememberBind
  <2>3. TypeOK' /\ CursorsLive'
    BY <2>1, <2>2 DEF TypeOK, CursorsLive, fields, list, finish
  <2> QED
    BY <2>2, <2>3 DEF OneTurn, InRange, ListWellFormed, ShownOnce, ArrayOrder, Calloced,
         NotShown, After, Before, fields, list, finish
<1>5. ASSUME NEW s \in Ids, CloseServer(s)
      PROVE  ListInv'
  <2>1. /\ s \in live /\ DisplayServer(s) /\ UNCHANGED <<options, phase, cmdline, adding, cursor, array>>
        /\ cursor = 0 /\ array = <<>>
    BY <1>5 DEF CloseServer, Bindable, ArrayOrder
  <2>2. /\ Unlink(s) /\ UNCHANGED <<count, fields, numTotal>>
    BY <2>1 DEF DisplayServer
  <2>3. /\ ListWellFormed' /\ ShownOnce' /\ Calloced' /\ NotShown'
        /\ shown' \in [Ids -> Nat]
        /\ {firstBind', lastBind'} \subseteq live' \cup {0}
    BY <2>1, DisplayKeeps
  <2>4. TypeOK'
    BY <2>1, <2>2, <2>3, UnlinkType DEF TypeOK, fields
  <2>5. CursorsLive' /\ OneTurn' /\ ArrayOrder'
    BY <2>1, <2>3 DEF CursorsLive, OneTurn, InRange, ArrayOrder
  <2> QED
    BY <2>3, <2>4, <2>5
<1>6. CASE StartFinish
  <2>1. servers \in live \cup {0} /\ array = <<>>
    BY <1>6 DEF StartFinish, ListWellFormed, After, ArrayOrder
  <2>2. CursorsLive' /\ ArrayOrder'
    BY <1>6, <2>1 DEF StartFinish, CursorsLive, ArrayOrder, binds
  <2> QED
    BY <1>6, <2>2 DEF StartFinish, TypeOK, OneTurn, InRange, ListWellFormed, ShownOnce,
         Calloced, NotShown, After, Before, fields, list, binds
<1> QED
  BY <1>1, <1>2, <1>3, <1>4, <1>5, <1>6 DEF Work

LEMMA FinishKeeps ==
  ASSUME ListInv, Finish
  PROVE  ListInv'
<1> USE DEF ListInv
<1>1. CASE FinishWalk
  <2>1. cursor \in live /\ cursor' = next[cursor] /\ UNCHANGED <<options, phase, cmdline, adding, array>>
    BY <1>1 DEF FinishWalk, CursorsLive
  <2>2. After(cursor, next[cursor]) /\ next[cursor] \in Ptrs /\ cursor \in Nat
    BY <2>1, TypeFacts, ServerListAssumption DEF ListWellFormed, Ptrs
  <2>3. next[cursor] \in live \cup {0} /\ (next[cursor] # 0 => cursor < next[cursor])
    BY <2>2 DEF After
  <2>4. ArrayOrder' /\ OneTurn'
    <3>1. next[cursor] \in Nat /\ \A i \in DOMAIN array : array[i] \in Nat
      BY <2>2, ArrayFacts, ServerListAssumption DEF Ptrs
    <3> QED
      BY <1>1, <2>1, <2>2, <2>3, <3>1 DEF FinishWalk, ArrayOrder, OneTurn, InRange
  <2>5. CASE DisplayServer(cursor)
    <3>1. /\ ListWellFormed' /\ ShownOnce' /\ Calloced' /\ NotShown'
          /\ shown' \in [Ids -> Nat] /\ next[cursor] \in live' \cup {0}
          /\ {firstBind', lastBind'} \subseteq live' \cup {0}
          /\ \A c \in live \cup {0} : c # cursor => c \in live' \cup {0}
      BY <2>1, <2>5, DisplayKeeps
    <3>2. Unlink(cursor) /\ UNCHANGED <<count, fields, numTotal>>
      BY <2>5 DEF DisplayServer
    <3>3. TypeOK'
      BY <2>1, <2>2, <3>1, <3>2, UnlinkType DEF TypeOK, fields
    <3>4. \A i \in DOMAIN array : array[i] \in live /\ array[i] # cursor /\ array[i] # 0
      <4>1. \A i \in DOMAIN array : array[i] \in 1 .. MaxServers /\ MaxServers \in Nat /\ array[i] < cursor
        BY <1>1, ArrayFacts DEF FinishWalk, ArrayOrder
      <4> QED
        BY <2>2, <4>1 DEF CursorsLive
    <3>5. CursorsLive'
      BY <2>1, <3>1, <3>4 DEF CursorsLive
    <3> QED
      BY <2>4, <3>1, <3>3, <3>5
  <2>6. CASE UNCHANGED <<live, count, fields, list, hash, binds, numServers, numTotal, shown>>
    BY <2>1, <2>2, <2>3, <2>4, <2>6 DEF TypeOK, ListWellFormed, CursorsLive, ShownOnce,
         Calloced, NotShown, After, Before, fields, list, binds
  <2> QED
    BY <1>1, <2>5, <2>6 DEF FinishWalk
<1>2. CASE FillArray
  <2>1. /\ cursor \in live /\ cursor' = next[cursor] /\ array' = Append(array, cursor)
        /\ UNCHANGED <<options, phase, cmdline, adding, live, count, fields, list, hash, binds,
                       numServers, numTotal, shown>>
        /\ phase = "finish"
    BY <1>2 DEF FillArray, CursorsLive
  <2>2. After(cursor, next[cursor]) /\ next[cursor] \in Ptrs /\ cursor \in Ids /\ Ids \subseteq Nat
        /\ Ptrs \subseteq Nat
    BY <2>1, TypeFacts, ServerListAssumption DEF ListWellFormed, Ptrs, Ids
  <2>3. next[cursor] \in live \cup {0} /\ (next[cursor] # 0 => cursor < next[cursor])
    BY <2>2 DEF After
  <2>4. /\ array \in Seq(Ids) /\ array' \in Seq(Ids) /\ Len(array') = Len(array) + 1
        /\ \A i \in DOMAIN array : array'[i] = array[i] /\ array[i] \in Ids
        /\ DOMAIN array' = DOMAIN array \cup {Len(array) + 1}
        /\ array'[Len(array) + 1] = cursor
    BY <2>1, <2>2 DEF TypeOK
  <2>5. cursor # 0 /\ \A i \in DOMAIN array : array[i] < cursor
    BY <1>2 DEF FillArray, ArrayOrder
  <2>6. \A i, j \in DOMAIN array' : i < j => array'[i] < array'[j]
    <3>1. \A i \in DOMAIN array : i \in Nat /\ i <= Len(array) /\ Len(array) \in Nat
      BY <2>4
    <3> QED
      BY <2>2, <2>4, <2>5, <3>1 DEF ArrayOrder
  <2>7. cursor' # 0 => \A i \in DOMAIN array' : array'[i] < cursor'
    <3>1. SUFFICES ASSUME next[cursor] # 0, NEW i \in DOMAIN array'
                   PROVE  array'[i] < next[cursor]
      BY <2>1
    <3>2. cursor < next[cursor] /\ cursor \in Nat /\ next[cursor] \in Nat
      BY <2>2, <2>3, <3>1
    <3>3. CASE i = Len(array) + 1
      BY <2>4, <3>2, <3>3
    <3>4. CASE i \in DOMAIN array
      <4>1. array[i] \in Nat /\ array[i] < cursor /\ array'[i] = array[i]
        BY <2>2, <2>4, <2>5, <3>4
      <4> QED
        BY <3>2, <4>1
    <3> QED
      BY <2>4, <3>3, <3>4
  <2>8. ArrayOrder'
    BY <2>1, <2>6, <2>7 DEF ArrayOrder
  <2>9. CursorsLive'
    BY <2>1, <2>3, <2>4 DEF CursorsLive, binds
  <2> QED
    BY <2>1, <2>2, <2>4, <2>8, <2>9 DEF TypeOK, OneTurn, InRange, ListWellFormed, ShownOnce,
         Calloced, NotShown, After, Before, fields, list, binds
<1>3. CASE ShowSorted
  <2>1. PICK i \in DOMAIN array :
          /\ array' = SubSeq(array, 1, i - 1) \o SubSeq(array, i + 1, Len(array))
          /\ DisplayServer(array[i])
    BY <1>3 DEF ShowSorted
  <2>2. /\ cursor = 0 /\ phase = "finish" /\ array[i] \in live
        /\ UNCHANGED <<options, phase, cmdline, adding, cursor>>
    BY <1>3 DEF ShowSorted, CursorsLive
  <2>3. /\ array' \in Seq(Ids) /\ Len(array') = Len(array) - 1
        /\ \A j \in DOMAIN array' : array'[j] = IF j < i THEN array[j] ELSE array[j + 1]
    <3>1. array \in Seq(Ids) /\ i \in 1 .. Len(array)
      BY DEF TypeOK
    <3> DEFINE l == SubSeq(array, 1, i - 1)
               r == SubSeq(array, i + 1, Len(array))
    <3>2. /\ SubSeq(array, 1, i - 1) \in Seq(Ids) /\ Len(SubSeq(array, 1, i - 1)) = i - 1
          /\ SubSeq(array, i + 1, Len(array)) \in Seq(Ids)
          /\ Len(SubSeq(array, i + 1, Len(array))) = Len(array) - i
          /\ \A j \in 1 .. i - 1 : SubSeq(array, 1, i - 1)[j] = array[j]
          /\ \A j \in 1 .. Len(array) - i : SubSeq(array, i + 1, Len(array))[j] = array[i + j]
      BY <3>1
    <3>3. array' = l \o r
      BY <2>1
    <3> HIDE DEF l, r
    <3>4. l \in Seq(Ids) /\ r \in Seq(Ids) /\ Len(l) = i - 1 /\ Len(r) = Len(array) - i
      BY <3>2 DEF l, r
    <3>5. array' \in Seq(Ids) /\ Len(array') = Len(l) + Len(r)
      BY <3>3, <3>4, ConcatProperties
    <3>6. \A j \in 1 .. Len(l) + Len(r) : array'[j] = IF j <= Len(l) THEN l[j] ELSE r[j - Len(l)]
      BY <3>3, <3>4, ConcatProperties
    <3>7. /\ \A j \in 1 .. i - 1 : l[j] = array[j]
          /\ \A j \in 1 .. Len(array) - i : r[j] = array[i + j]
      BY <3>2 DEF l, r
    <3>8. ASSUME NEW j \in DOMAIN array'
          PROVE  array'[j] = IF j < i THEN array[j] ELSE array[j + 1]
      <4>1. j \in 1 .. Len(array) - 1
        BY <3>1, <3>4, <3>5
      <4>2. CASE j < i
        <5>1. Len(l) = i - 1 /\ Len(r) = Len(array) - i
          BY <3>4
        <5>2. j \in 1 .. Len(l) + Len(r) /\ j <= Len(l) /\ j \in 1 .. i - 1
          BY <3>1, <4>1, <4>2, <5>1
        <5>3. array'[j] = l[j]
          BY <3>6, <5>2
        <5> QED
          BY <3>7, <4>2, <5>2, <5>3
      <4>3. CASE ~(j < i)
        <5>1. j - (i - 1) \in 1 .. Len(array) - i /\ i + (j - (i - 1)) = j + 1
          BY <3>1, <4>1, <4>3
        <5>2. array'[j] = r[j - (i - 1)]
          <6>1. Len(l) = i - 1 /\ Len(r) = Len(array) - i
            BY <3>4
          <6>2. j \in 1 .. Len(l) + Len(r) /\ ~(j <= Len(l))
            BY <3>1, <4>1, <4>3, <6>1
          <6>3. array'[j] = r[j - Len(l)]
            BY <3>6, <6>2
          <6> QED
            BY <6>1, <6>3
        <5>3. r[j - (i - 1)] = array[i + (j - (i - 1))]
          BY <3>7, <5>1
        <5> QED
          BY <4>3, <5>1, <5>2, <5>3
      <4> QED
        BY <4>2, <4>3
    <3> QED
      BY <3>1, <3>4, <3>5, <3>8
  <2>4. \A j \in DOMAIN array' :
          /\ j \in Nat
          /\ j < i => j \in DOMAIN array
          /\ ~(j < i) => j + 1 \in DOMAIN array /\ j + 1 > i
    <3>1. DOMAIN array' = 1 .. Len(array') /\ Len(array') = Len(array) - 1
      BY <2>3
    <3>2. DOMAIN array = 1 .. Len(array) /\ Len(array) \in Nat /\ i \in Nat
      BY ArrayFacts
    <3> QED
      BY <3>1, <3>2
  <2>5. ArrayOrder'
    <3>1. ASSUME NEW j \in DOMAIN array', NEW k \in DOMAIN array', j < k
          PROVE  array'[j] < array'[k]
      <4>1. j \in Nat /\ k \in Nat /\ i \in Nat
        BY <2>4, ArrayFacts
      <4>2. \A m, n \in DOMAIN array : m < n => array[m] < array[n]
        BY DEF ArrayOrder
      <4> QED
        BY <2>3, <2>4, <3>1, <4>1, <4>2
    <3> QED
      BY <2>2, <3>1 DEF ArrayOrder
  <2>6. \A j \in DOMAIN array' : array'[j] \in live /\ array'[j] # array[i]
    <3>1. \A j, k \in DOMAIN array : j # k => array[j] # array[k]
      BY ArrayFacts DEF ArrayOrder
    <3> QED
      BY <2>3, <2>4, <3>1 DEF CursorsLive
  <2>7. /\ ListWellFormed' /\ ShownOnce' /\ Calloced' /\ NotShown'
        /\ shown' \in [Ids -> Nat]
        /\ {firstBind', lastBind'} \subseteq live' \cup {0}
        /\ live' = live \ {array[i]}
    BY <2>1, <2>2, DisplayKeeps DEF DisplayServer, Unlink
  <2>8. CursorsLive'
    BY <2>2, <2>6, <2>7 DEF CursorsLive
  <2>9. TypeOK'
    <3>1. Unlink(array[i]) /\ UNCHANGED <<count, fields, numTotal>>
      BY <2>1 DEF DisplayServer
    <3> QED
      BY <2>2, <2>3, <2>7, <3>1, UnlinkType DEF TypeOK, fields
  <2> QED
    BY <2>2, <2>5, <2>7, <2>8, <2>9 DEF OneTurn, InRange
<1>4. CASE EndFinish
  BY <1>4 DEF EndFinish, TypeOK, OneTurn, InRange, ListWellFormed, CursorsLive, ShownOnce,
       ArrayOrder, Calloced, NotShown, After, Before, fields, list, binds, finish
<1> QED
  BY <1>1, <1>2, <1>3, <1>4 DEF Finish

LEMMA StutterKeeps ==
  ASSUME ListInv, UNCHANGED vars
  PROVE  ListInv'
  BY DEF vars, ListInv, TypeOK, OneTurn, InRange, ListWellFormed, CursorsLive, ShownOnce,
       ArrayOrder, Calloced, NotShown, After, Before, fields, list, binds, finish

-----------------------------------------------------------------------------
\* The address hash.

\* Adding a new struct to the hash.
LEMMA HashAddKeeps ==
  ASSUME ListInv, HashIndexesLive, NEW a \in Ips \ {0}, NEW p \in Ports, NEW t \in Types,
         Register(count + 1, a, p, t)
  PROVE  HashIndexesLive'
<1> DEFINE s == count + 1
           h == Bucket(a, p)
<1>1. /\ s \in Ids /\ live' = live \cup {s} /\ s # 0
      /\ ip' = [ip EXCEPT ![s] = a] /\ orig' = [orig EXCEPT ![s] = p]
      /\ hash' = [hash EXCEPT ![h] = Append(@, s)]
  BY TypeFacts DEF Register, SetFields, AddServerToHash, ListInv
<1>a. TypeOK
  BY DEF ListInv
<1>2. /\ ip \in [Ids -> Ips] /\ orig \in [Ids -> Ports] /\ live \subseteq Ids /\ s \notin live
      /\ hash \in [0 .. HashLength - 1 -> Seq(Ptrs)]
  <2>1. /\ ip \in [Ids -> Ips] /\ orig \in [Ids -> Ports]
        /\ hash \in [0 .. HashLength - 1 -> Seq(Ptrs)]
    BY <1>a DEF TypeOK
  <2>2. live \subseteq Ids /\ s \notin live
    BY <1>a, TypeFacts DEF Ids
  <2> QED
    BY <2>1, <2>2
<1>3. h \in 0 .. HashLength - 1
  BY BucketType, ServerListAssumption DEF Ips, Ports
<1>4. s \in Ptrs
  BY <1>1, ServerListAssumption DEF Ids, Ptrs
<1>5. /\ ip'[s] = a /\ orig'[s] = p
      /\ \A u \in live : ip'[u] = ip[u] /\ orig'[u] = orig[u]
  BY <1>1, <1>2
<1> HIDE DEF s, h
<1>6. /\ DOMAIN hash' = DOMAIN hash
      /\ \A b \in DOMAIN hash : b # h => hash'[b] = hash[b]
      /\ hash'[h] = Append(hash[h], s) /\ hash[h] \in Seq(Ptrs)
  BY <1>1, <1>2, <1>3
<1>7. /\ DOMAIN hash'[h] = 1 .. Len(hash[h]) + 1 /\ DOMAIN hash[h] = 1 .. Len(hash[h])
      /\ Len(hash[h]) \in Nat
      /\ \A i \in DOMAIN hash[h] : hash'[h][i] = hash[h][i]
      /\ hash'[h][Len(hash[h]) + 1] = s
  BY <1>4, <1>6
<1>8. ASSUME NEW b \in DOMAIN hash', NEW i \in DOMAIN hash'[b], hash'[b][i] # 0
      PROVE  /\ hash'[b][i] \in live' /\ ip'[hash'[b][i]] # 0
             /\ b = Bucket(ip'[hash'[b][i]], orig'[hash'[b][i]])
             /\ \A j \in DOMAIN hash'[b] : hash'[b][j] = hash'[b][i] => j = i
  <2>1. CASE b # h
    BY <1>1, <1>5, <1>6, <1>8, <2>1 DEF HashIndexesLive
  <2>2. CASE b = h /\ i = Len(hash[h]) + 1
    <3>1. \A j \in DOMAIN hash[h] : hash[h][j] # s
      BY <1>1, <1>2, <1>3 DEF HashIndexesLive
    <3> QED
      BY <1>1, <1>5, <1>7, <2>2, <3>1 DEF h
  <2>3. CASE b = h /\ i \in DOMAIN hash[h]
    <3>1. /\ hash[h][i] \in live /\ ip[hash[h][i]] # 0
          /\ h = Bucket(ip[hash[h][i]], orig[hash[h][i]])
          /\ \A j \in DOMAIN hash[h] : hash[h][j] = hash[h][i] => j = i
      BY <1>2, <1>3, <1>7, <1>8, <2>3 DEF HashIndexesLive
    <3> QED
      BY <1>1, <1>2, <1>5, <1>7, <2>3, <3>1
  <2> QED
    BY <1>7, <2>1, <2>2, <2>3
<1>9. ASSUME NEW u \in live', ip'[u] # 0
      PROVE  \E i \in DOMAIN hash'[Bucket(ip'[u], orig'[u])] : hash'[Bucket(ip'[u], orig'[u])][i] = u
  <2>1. CASE u = s
    BY <1>5, <1>7, <2>1 DEF h
  <2>2. CASE u \in live
    <3> DEFINE g == Bucket(ip[u], orig[u])
    <3>1. PICK i \in DOMAIN hash[g] : hash[g][i] = u
      BY <1>5, <1>9, <2>2 DEF HashIndexesLive
    <3>2. g \in DOMAIN hash
      BY <1>2, <2>2, BucketOfServer DEF ListInv
    <3>3. Bucket(ip'[u], orig'[u]) = g
      BY <1>5, <2>2
    <3> HIDE DEF g
    <3> QED
      BY <1>6, <1>7, <3>1, <3>2, <3>3
  <2> QED
    BY <1>1, <2>1, <2>2
<1> QED
  BY <1>8, <1>9 DEF HashIndexesLive

\* Taking a live struct out of the hash.
LEMMA HashRemoveKeeps ==
  ASSUME ListInv, HashIndexesLive, NEW s \in live, Unlink(s), UNCHANGED fields
  PROVE  HashIndexesLive'
<1> DEFINE h == Bucket(ip[s], orig[s])
<1>1. /\ ip \in [Ids -> Ips] /\ orig \in [Ids -> Ports] /\ live \subseteq Ids
      /\ hash \in [0 .. HashLength - 1 -> Seq(Ptrs)] /\ s # 0
  BY TypeFacts DEF ListInv, TypeOK, Ids
<1>2. h \in 0 .. HashLength - 1
  BY <1>1, BucketOfServer DEF ListInv
<1>3. live' = live \ {s} /\ ip' = ip /\ orig' = orig
  BY DEF Unlink, fields
<1>4. /\ DOMAIN hash' = DOMAIN hash
      /\ \A b \in DOMAIN hash : b # h => hash'[b] = hash[b]
      /\ hash'[h] = [i \in DOMAIN hash[h] |->
           IF hash[h][i] = s /\ \A j \in 1 .. i - 1 : hash[h][j] # s THEN 0 ELSE hash[h][i]]
  BY <1>1, <1>2 DEF Unlink, RemoveServerFromHash
<1>5. DOMAIN hash[h] = 1 .. Len(hash[h]) /\ Len(hash[h]) \in Nat
  BY <1>1, <1>2
<1> HIDE DEF h
<1>6. \A i, j \in DOMAIN hash[h] : hash[h][i] = s /\ hash[h][j] = s => i = j
  BY <1>1, <1>2 DEF HashIndexesLive
<1>7. /\ DOMAIN hash'[h] = DOMAIN hash[h]
      /\ \A i \in DOMAIN hash[h] : hash'[h][i] = IF hash[h][i] = s THEN 0 ELSE hash[h][i]
  <2>1. ASSUME NEW i \in DOMAIN hash[h], hash[h][i] = s
        PROVE  \A j \in 1 .. i - 1 : hash[h][j] # s
    BY <1>5, <1>6, <2>1
  <2> QED
    BY <1>4, <2>1
<1>8. ASSUME NEW b \in DOMAIN hash', NEW i \in DOMAIN hash'[b], hash'[b][i] # 0
      PROVE  /\ hash'[b][i] \in live' /\ ip'[hash'[b][i]] # 0
             /\ b = Bucket(ip'[hash'[b][i]], orig'[hash'[b][i]])
             /\ \A j \in DOMAIN hash'[b] : hash'[b][j] = hash'[b][i] => j = i
  <2>1. /\ b \in DOMAIN hash /\ DOMAIN hash'[b] = DOMAIN hash[b] /\ i \in DOMAIN hash[b]
        /\ hash'[b][i] = hash[b][i]
        /\ \A j \in DOMAIN hash[b] : hash'[b][j] = hash[b][j] \/ hash'[b][j] = 0
    BY <1>4, <1>7, <1>8
  <2>2. /\ hash[b][i] \in live /\ ip[hash[b][i]] # 0
        /\ b = Bucket(ip[hash[b][i]], orig[hash[b][i]])
        /\ \A j \in DOMAIN hash[b] : hash[b][j] = hash[b][i] => j = i
    BY <1>8, <2>1 DEF HashIndexesLive
  <2>3. hash[b][i] # s
    BY <1>4, <1>7, <1>8, <2>1, <2>2 DEF h
  <2> QED
    BY <1>3, <1>8, <2>1, <2>2, <2>3
<1>9. ASSUME NEW u \in live', ip'[u] # 0
      PROVE  \E i \in DOMAIN hash'[Bucket(ip'[u], orig'[u])] : hash'[Bucket(ip'[u], orig'[u])][i] = u
  <2> DEFINE g == Bucket(ip[u], orig[u])
  <2>1. u \in live /\ u # s
    BY <1>3
  <2>2. PICK i \in DOMAIN hash[g] : hash[g][i] = u
    BY <1>3, <1>9, <2>1 DEF HashIndexesLive
  <2>3. g \in DOMAIN hash
    BY <1>1, <2>1, BucketOfServer DEF ListInv
  <2>4. Bucket(ip'[u], orig'[u]) = g
    BY <1>3
  <2> HIDE DEF g
  <2> QED
    BY <1>4, <1>7, <2>1, <2>2, <2>3, <2>4
<1> QED
  BY <1>8, <1>9 DEF HashIndexesLive

LEMMA HashKeeps ==
  ASSUME ListInv, HashIndexesLive, [NextList]_vars
  PROVE  HashIndexesLive'
<1> USE DEF ListInv
<1>1. CASE UNCHANGED <<live, ip, orig, hash>>
  BY <1>1 DEF HashIndexesLive
<1>2. CASE AddUnresolved
  <2>1. adding.node = 0
    BY <1>2 DEF AddUnresolved, OneTurn, InRange
  <2>2. PICK s : /\ s = count + 1 /\ s \in Ids /\ live' = live \cup {s}
                 /\ SetFields(s, 0, adding.port, adding.arg.type) /\ UNCHANGED hash
    BY <1>2, <2>1 DEF AddUnresolved
  <2>3. s \notin live /\ live \subseteq Ids /\ ip \in [Ids -> Ips] /\ orig \in [Ids -> Ports]
    <3>1. \A u \in live : u \in 1 .. count
      BY TypeFacts
    <3>2. count \in 0 .. MaxServers /\ MaxServers \in Nat
      BY TypeFacts
    <3> QED
      BY <2>2, <3>1, <3>2 DEF TypeOK, Ids
  <2>4. ip'[s] = 0 /\ \A u \in live : ip'[u] = ip[u] /\ orig'[u] = orig[u]
    BY <2>2, <2>3 DEF SetFields
  <2>5. \A u \in live' : ip'[u] # 0 => u \in live
    BY <2>2, <2>4
  <2> QED
    BY <2>2, <2>4, <2>5 DEF HashIndexesLive
<1>3. CASE AddResolved
  <2>1. adding.arg.ip \in Ips \ {0} /\ adding.port \in Ports /\ adding.arg.type \in Types
    BY <1>3 DEF AddResolved, TypeOK, Args
  <2>2. CASE Register(count + 1, adding.arg.ip, adding.port, adding.arg.type)
    BY <2>1, <2>2, HashAddKeeps
  <2>3. CASE UNCHANGED <<live, fields, hash>>
    BY <1>1, <2>3 DEF fields
  <2> QED
    BY <1>3, <2>2, <2>3 DEF AddResolved
<1>4. ASSUME NEW d \in Discovered, AddByAddr(d[1], d[2], d[3])
      PROVE  HashIndexesLive'
  <2>1. d[1] \in Ips \ {0} /\ d[2] \in Ports /\ d[3] \in Types
    BY <1>4, ServerListAssumption DEF AddByAddr
  <2> QED
    BY <1>4, <2>1, HashAddKeeps DEF AddByAddr
<1>5. ASSUME NEW s \in live, DisplayServer(s)
      PROVE  HashIndexesLive'
  BY <1>5, HashRemoveKeeps DEF DisplayServer
<1>6. CASE FinishWalk
  BY <1>1, <1>5, <1>6 DEF FinishWalk, CursorsLive, fields
<1>7. CASE ShowSorted
  BY <1>5, <1>7 DEF ShowSorted, CursorsLive
<1>8. ASSUME NEW s \in Ids, CloseServer(s)
      PROVE  HashIndexesLive'
  BY <1>5, <1>8 DEF CloseServer, Bindable
<1>9. CASE ParseArg \/ EndArg \/ StartWork \/ StartFinish \/ FillArray \/ EndFinish
           \/ UNCHANGED vars
  BY <1>1, <1>9 DEF ParseArg, EndArg, StartWork, StartFinish, FillArray, EndFinish, vars, fields
<1>10. ASSUME NEW s \in Ids, RememberBind(s)
       PROVE  HashIndexesLive'
  BY <1>1, <1>10 DEF RememberBind, fields
<1>11. ASSUME NEW s \in Ids, NEW p \in GamePorts, NEW force \in BOOLEAN,
              ChangeServerPort(s, p, force)
       PROVE  HashIndexesLive'
  BY <1>1, <1>11 DEF ChangeServerPort
<1> QED
  BY <1>2, <1>3, <1>4, <1>6, <1>7, <1>8, <1>9, <1>10, <1>11
     DEF NextList, Load, Work, Finish, Done

-----------------------------------------------------------------------------
LEMMA StepInv ==
  ASSUME ListInv, [NextList]_vars
  PROVE  ListInv'
BY LoadKeeps, WorkKeeps, FinishKeeps, StutterKeeps DEF NextList, Done

\* Every reachable state satisfies the inductive invariant.
THEOREM ListInvariant ==
  ASSUME NoUnresolvedRange
  PROVE  ListSpec => []ListInv
<1>1. InitList => ListInv
  BY InitInv
<1>2. ListInv /\ [NextList]_vars => ListInv'
  BY StepInv
<1> QED
  BY <1>1, <1>2, PTL DEF ListSpec

\* Types: every pointer of add_qserver, free_server and finish_output is NULL
\* or a struct, every port an unsigned short, whatever wraps around.
THEOREM ListTypes ==
  ASSUME NoUnresolvedRange
  PROVE  ListSpec => []TypeOK
<1>1. ListInv => TypeOK
  BY DEF ListInv
<1> QED
  BY <1>1, ListInvariant, PTL

\* add_qserver, add_qserver_byaddr and free_server keep the doubly linked list
\* of the live servers, in order of addition.
THEOREM ListStaysWellFormed ==
  ASSUME NoUnresolvedRange
  PROVE  ListSpec => []ListWellFormed
<1>1. ListInv => ListWellFormed
  BY DEF ListInv
<1> QED
  BY <1>1, ListInvariant, PTL

\* first_server_bind, last_server_bind and finish_output's cursor and sort array
\* never point at a freed server.
THEOREM CursorsNeverDangle ==
  ASSUME NoUnresolvedRange
  PROVE  ListSpec => []CursorsLive
<1>1. ListInv => CursorsLive
  BY DEF ListInv
<1> QED
  BY <1>1, ListInvariant, PTL

\* display_server runs at most once for a server.
THEOREM DisplayedAtMostOnce ==
  ASSUME NoUnresolvedRange
  PROVE  ListSpec => []ShownOnce
<1>1. ListInv => ShownOnce
  BY DEF ListInv
<1> QED
  BY <1>1, ListInvariant, PTL

\* server_hash holds exactly the live resolved servers, whatever
\* change_server_port does to their ports.
THEOREM HashExact ==
  ASSUME NoUnresolvedRange
  PROVE  ListSpec => []HashIndexesLive
<1>1. InitList => HashIndexesLive
  BY DEF InitList, HashIndexesLive
<1>2. ListInv /\ HashIndexesLive /\ [NextList]_vars => HashIndexesLive'
  BY HashKeeps
<1> QED
  BY <1>1, <1>2, ListInvariant, PTL DEF ListSpec

-----------------------------------------------------------------------------
\* How finish_output and the loops that add servers leave the list.

\* A live server is ahead of the cursor, in the sort array, or one that the loop
\* for unresolved hosts has passed by.
Passed(s) ==
  IF Sort = "keys" THEN \E i \in DOMAIN array : array[i] = s ELSE Sort = "none" /\ ip[s] # 0

Ahead(s) == cursor # 0 /\ cursor <= s

WalkComplete == phase = "finish" => \A s \in live : Ahead(s) \/ Passed(s)

\* num_servers_total counts the structs: init_qserver runs once for each.
AllCounted == numTotal = count

\* add_qserver's loop runs before do_work and finish_output.
Parsing == adding.on => phase = "args"

FinishInv == WalkComplete /\ FinishShows /\ AllCounted /\ Parsing

LEMMA FinishInvInit ==
  ASSUME InitList
  PROVE  FinishInv
BY DEF InitList, Idle, FinishInv, WalkComplete, FinishShows, AllCounted, Parsing

-----------------------------------------------------------------------------
\* num_servers_total.
LEMMA AllCountedKept ==
  ASSUME ListInv, AllCounted, [NextList]_vars
  PROVE  AllCounted'
<1>1. CASE AddUnresolved
  <2>1. adding.node = 0
    BY <1>1 DEF ListInv, AddUnresolved, OneTurn, InRange
  <2> QED
    BY <1>1, <2>1 DEF AddUnresolved, AllCounted
<1>2. CASE AddResolved
  BY <1>2 DEF AddResolved, Register, AllCounted
<1>3. ASSUME NEW d \in Discovered, AddByAddr(d[1], d[2], d[3])
      PROVE  AllCounted'
  BY <1>3 DEF AddByAddr, Register, AllCounted
<1>4. ASSUME NEW s \in Ids, RememberBind(s) \/ CloseServer(s)
      PROVE  AllCounted'
  BY <1>4 DEF RememberBind, CloseServer, DisplayServer, AllCounted
<1>5. ASSUME NEW s \in Ids, NEW p \in GamePorts, NEW force \in BOOLEAN,
             ChangeServerPort(s, p, force)
      PROVE  AllCounted'
  BY <1>5 DEF ChangeServerPort, AllCounted
<1>6. CASE Finish
  BY <1>6 DEF Finish, FinishWalk, FillArray, ShowSorted, EndFinish, DisplayServer, AllCounted
<1>7. CASE ParseArg \/ EndArg \/ StartWork \/ StartFinish \/ UNCHANGED vars
  BY <1>7 DEF ParseArg, EndArg, StartWork, StartFinish, AllCounted, vars
<1> QED
  BY <1>1, <1>2, <1>3, <1>4, <1>5, <1>6, <1>7 DEF NextList, Load, Work, Done

-----------------------------------------------------------------------------
\* The two parts of a sequence around one of its elements.
LEMMA PartsAround ==
  ASSUME NEW S, NEW a \in Seq(S), NEW i \in DOMAIN a
  PROVE  LET l == SubSeq(a, 1, i - 1)
             r == SubSeq(a, i + 1, Len(a))
         IN  /\ l \in Seq(S) /\ Len(l) = i - 1 /\ \A k \in 1 .. i - 1 : l[k] = a[k]
             /\ r \in Seq(S) /\ Len(r) = Len(a) - i /\ \A k \in 1 .. Len(a) - i : r[k] = a[i + k]
<1> DEFINE n == Len(a)
           l == SubSeq(a, 1, i - 1)
           r == SubSeq(a, i + 1, n)
<1>1. n \in Nat /\ DOMAIN a = 1 .. n /\ i \in 1 .. n /\ \A k \in 1 .. n : a[k] \in S
  OBVIOUS
<1> HIDE DEF n
<1>2. /\ \A k \in 1 .. i - 1 : a[k] \in S
      /\ \A k \in i + 1 .. n : a[k] \in S
      /\ i - 1 \in Int /\ i + 1 \in Int /\ n \in Int
  BY <1>1
<1>3. /\ l \in Seq(S) /\ Len(l) = IF 1 <= i - 1 THEN (i - 1) - 1 + 1 ELSE 0
      /\ \A k \in 1 .. (i - 1) - 1 + 1 : l[k] = a[1 + k - 1]
  BY <1>2, SubSeqProperties
<1>4. /\ r \in Seq(S) /\ Len(r) = IF i + 1 <= n THEN n - (i + 1) + 1 ELSE 0
      /\ \A k \in 1 .. n - (i + 1) + 1 : r[k] = a[(i + 1) + k - 1]
  BY <1>2, SubSeqProperties
<1> HIDE DEF l, r
<1>5. (i - 1) - 1 + 1 = i - 1 /\ n - (i + 1) + 1 = n - i
  BY <1>1
<1>6. \A k \in Int : 1 + k - 1 = k /\ (i + 1) + k - 1 = i + k
  BY <1>1
<1>7. \A k \in 1 .. i - 1 : l[k] = a[k]
  BY <1>3, <1>5, <1>6
<1>8. \A k \in 1 .. n - i : r[k] = a[i + k]
  <2>1. \A k \in 1 .. n - i : r[k] = a[(i + 1) + k - 1]
    BY <1>4, <1>5
  <2>2. \A k \in 1 .. n - i : k \in Int /\ (i + 1) + k - 1 = i + k
    BY <1>6
  <2> HIDE DEF n
  <2> QED
    BY <2>1, <2>2
<1>9. Len(l) = i - 1 /\ Len(r) = n - i
  <2>1. Len(l) = i - 1
    BY <1>1, <1>3, <1>5
  <2>2. Len(r) = IF i + 1 <= n THEN n - i ELSE 0
    BY <1>4, <1>5
  <2> QED
    BY <1>1, <2>1, <2>2
<1> QED
  BY <1>3, <1>4, <1>7, <1>8, <1>9 DEF l, r, n

\* The sorted array without the entry that was displayed has the other entries.
LEMMA RemovalKeeps ==
  ASSUME NEW S, NEW a \in Seq(S), NEW i \in DOMAIN a, NEW j \in DOMAIN a, j # i
  PROVE  LET b == SubSeq(a, 1, i - 1) \o SubSeq(a, i + 1, Len(a))
         IN  \E k \in DOMAIN b : b[k] = a[j]
<1> DEFINE l == SubSeq(a, 1, i - 1)
           r == SubSeq(a, i + 1, Len(a))
<1>1. Len(a) \in Nat /\ DOMAIN a = 1 .. Len(a)
  OBVIOUS
<1>2. /\ l \in Seq(S) /\ Len(l) = i - 1 /\ \A k \in 1 .. i - 1 : l[k] = a[k]
      /\ r \in Seq(S) /\ Len(r) = Len(a) - i /\ \A k \in 1 .. Len(a) - i : r[k] = a[i + k]
  BY PartsAround
<1> HIDE DEF l, r
<1>3. Len(l) + Len(r) = Len(a) - 1 /\ Len(l) \in Nat /\ Len(r) \in Nat
  BY <1>1, <1>2
<1>4. /\ l \o r \in Seq(S) /\ Len(l \o r) = Len(l) + Len(r)
      /\ \A k \in 1 .. Len(l) + Len(r) :
           (l \o r)[k] = IF k <= Len(l) THEN l[k] ELSE r[k - Len(l)]
  BY <1>2, ConcatProperties
<1>5. DOMAIN (l \o r) = 1 .. Len(a) - 1
  BY <1>3, <1>4
<1>6. \E k \in DOMAIN (l \o r) : (l \o r)[k] = a[j]
  <2>1. CASE j < i
    <3>1. j \in 1 .. Len(l) + Len(r) /\ j <= Len(l) /\ j \in 1 .. i - 1
      BY <1>1, <1>2, <1>3, <2>1
    <3>2. (l \o r)[j] = l[j]
      BY <1>4, <3>1
    <3> QED
      BY <1>2, <1>3, <1>5, <3>1, <3>2
  <2>2. CASE j > i
    <3>1. /\ j - 1 \in 1 .. Len(l) + Len(r) /\ ~(j - 1 <= Len(l))
          /\ (j - 1) - Len(l) \in 1 .. Len(a) - i /\ i + ((j - 1) - Len(l)) = j
      <4>1. i \in 1 .. Len(a) /\ j \in 1 .. Len(a) /\ Len(l) = i - 1 /\ Len(r) = Len(a) - i
        BY <1>1, <1>2
      <4>2. j - 1 \in 1 .. (i - 1) + (Len(a) - i) /\ ~(j - 1 <= i - 1)
        BY <1>1, <2>2, <4>1
      <4>3. (j - 1) - (i - 1) \in 1 .. Len(a) - i /\ i + ((j - 1) - (i - 1)) = j
        BY <1>1, <2>2, <4>1
      <4> QED
        BY <4>1, <4>2, <4>3
    <3>2. (l \o r)[j - 1] = r[(j - 1) - Len(l)]
      BY <1>4, <3>1
    <3>3. r[(j - 1) - Len(l)] = a[j]
      BY <1>2, <3>1
    <3> QED
      BY <1>3, <1>5, <3>1, <3>2, <3>3
  <2> QED
    BY <1>1, <2>1, <2>2
<1> QED
  BY <1>6 DEF l, r

\* The walks of finish_output.
LEMMA WalkKept ==
  ASSUME ListInv, WalkComplete, FinishShows, Finish
  PROVE  WalkComplete' /\ FinishShows'
<1>1. \A s \in live : s \in Nat /\ s # 0
  BY TypeFacts DEF ListInv
<1>2. cursor \in Nat /\ (cursor # 0 => cursor \in live /\ cursor \in Ids)
  BY TypeFacts DEF ListInv, CursorsLive, Ids
<1>3. ASSUME cursor # 0, cursor' = next[cursor]
      PROVE  /\ \A s \in live : Ahead(s) => s = cursor \/ (cursor' # 0 /\ cursor' <= s)
  <2>1. After(cursor, next[cursor])
    BY <1>2, <1>3 DEF ListInv, ListWellFormed
  <2> QED
    BY <1>1, <1>2, <1>3, <2>1 DEF After, Ahead
<1>4. CASE FinishWalk
  <2>1. /\ phase = "finish" /\ phase' = phase /\ options' = options /\ Sort # "keys" /\ cursor # 0
        /\ cursor' = next[cursor]
    BY <1>4 DEF FinishWalk
  <2>2. /\ live' \subseteq live /\ ip' = ip
        /\ cursor \in live' => Sort # "listed" /\ ip[cursor] # 0
    BY <1>4 DEF FinishWalk, DisplayServer, Unlink, fields
  <2>3. Sort \in {"none", "listed"}
    BY <2>1 DEF ListInv, TypeOK, OptionSets, Sort
  <2>4. ASSUME NEW s \in live'
        PROVE  Ahead(s)' \/ Passed(s)'
    <3>1. Ahead(s) \/ Passed(s)
      BY <2>1, <2>2, <2>4 DEF WalkComplete
    <3>2. CASE Passed(s)
      BY <2>1, <2>2, <3>2 DEF Passed, Sort
    <3>3. CASE s = cursor
      BY <2>1, <2>2, <2>3, <2>4, <3>3 DEF Passed, Sort
    <3>4. CASE Ahead(s) /\ s # cursor
      BY <1>3, <2>1, <2>2, <2>4, <3>4 DEF Ahead
    <3> QED
      BY <3>1, <3>2, <3>3, <3>4
  <2> QED
    BY <2>1, <2>4 DEF WalkComplete, FinishShows
<1>5. CASE FillArray
  <2>1. /\ phase = "finish" /\ phase' = phase /\ options' = options /\ Sort = "keys" /\ cursor # 0
        /\ cursor' = next[cursor] /\ array' = Append(array, cursor) /\ live' = live
    BY <1>5 DEF FillArray
  <2>2. array \in Seq(Ids) /\ cursor \in Ids
    BY <1>2, <2>1 DEF ListInv, TypeOK
  <2>3. /\ DOMAIN array = 1 .. Len(array) /\ Len(array) \in Nat
        /\ DOMAIN array' = 1 .. Len(array) + 1 /\ array'[Len(array) + 1] = cursor
        /\ \A i \in DOMAIN array : i \in DOMAIN array' /\ array'[i] = array[i]
    BY <2>1, <2>2
  <2>4. ASSUME NEW s \in live'
        PROVE  Ahead(s)' \/ Passed(s)'
    <3>1. Ahead(s) \/ Passed(s)
      BY <2>1, <2>4 DEF WalkComplete
    <3>2. CASE Passed(s)
      BY <2>1, <2>3, <3>2 DEF Passed, Sort
    <3>3. CASE s = cursor
      BY <2>1, <2>3, <3>3 DEF Passed, Sort
    <3>4. CASE Ahead(s) /\ s # cursor
      BY <1>3, <2>1, <2>4, <3>4 DEF Ahead
    <3> QED
      BY <3>1, <3>2, <3>3, <3>4
  <2> QED
    BY <2>1, <2>4 DEF WalkComplete, FinishShows
<1>6. CASE ShowSorted
  <2>1. PICK i \in DOMAIN array :
          /\ array' = SubSeq(array, 1, i - 1) \o SubSeq(array, i + 1, Len(array))
          /\ DisplayServer(array[i])
    BY <1>6 DEF ShowSorted
  <2>2. /\ phase = "finish" /\ phase' = phase /\ options' = options /\ Sort = "keys"
        /\ cursor = 0 /\ cursor' = 0 /\ live' = live \ {array[i]}
    BY <1>6, <2>1 DEF ShowSorted, DisplayServer, Unlink
  <2>3. \A s \in live : \E j \in DOMAIN array : array[j] = s
    BY <2>2 DEF WalkComplete, Ahead, Passed
  <2>4. ASSUME NEW j \in DOMAIN array, j # i
        PROVE  \E k \in DOMAIN array' : array'[k] = array[j]
    BY <2>1, <2>4, RemovalKeeps DEF ListInv, TypeOK
  <2>5. ASSUME NEW s \in live'
        PROVE  Passed(s)'
    BY <2>2, <2>3, <2>4, <2>5 DEF Passed, Sort
  <2> QED
    BY <2>2, <2>5 DEF WalkComplete, FinishShows
<1>7. CASE EndFinish
  <2>1. /\ phase = "finish" /\ phase' = "done" /\ cursor = 0 /\ array = <<>>
        /\ live' = live /\ ip' = ip /\ options' = options
    BY <1>7 DEF EndFinish, fields
  <2>2. ASSUME NEW s \in live
        PROVE  Sort = "none" /\ ip[s] # 0
    BY <2>1 DEF WalkComplete, Ahead, Passed
  <2> QED
    BY <2>1, <2>2 DEF WalkComplete, FinishShows, Sort
<1> QED
  BY <1>4, <1>5, <1>6, <1>7 DEF Finish

LEMMA ParsingKept ==
  ASSUME ListInv, Parsing, [NextList]_vars
  PROVE  Parsing'
<1>1. CASE ParseArg \/ EndArg \/ StartWork \/ StartFinish \/ UNCHANGED vars
  BY <1>1 DEF ParseArg, EndArg, StartWork, StartFinish, Idle, Parsing, vars
<1>2. CASE AddUnresolved \/ AddResolved
  BY <1>2 DEF AddUnresolved, AddResolved, InRange, Parsing
<1>3. ASSUME NEW d \in Discovered, AddByAddr(d[1], d[2], d[3])
      PROVE  Parsing'
  BY <1>3 DEF AddByAddr, Parsing
<1>4. ASSUME NEW s \in Ids, RememberBind(s) \/ CloseServer(s)
      PROVE  Parsing'
  BY <1>4 DEF RememberBind, CloseServer, Parsing
<1>5. ASSUME NEW s \in Ids, NEW p \in GamePorts, NEW force \in BOOLEAN,
             ChangeServerPort(s, p, force)
      PROVE  Parsing'
  BY <1>5 DEF ChangeServerPort, Parsing
<1>6. CASE Finish
  BY <1>6 DEF Finish, FinishWalk, FillArray, ShowSorted, EndFinish, Parsing
<1> QED
  BY <1>1, <1>2, <1>3, <1>4, <1>5, <1>6 DEF NextList, Load, Work, Done

LEMMA FinishInvKept ==
  ASSUME ListInv, FinishInv, [NextList]_vars
  PROVE  FinishInv'
<1>1. AllCounted' /\ Parsing'
  BY AllCountedKept, ParsingKept DEF FinishInv
<1>2. CASE Finish
  BY <1>1, <1>2, WalkKept DEF FinishInv
<1>3. CASE StartWork
  <2>1. ASSUME servers = 0
        PROVE  live = {}
    <3>1. \A s \in live : s \in Nat /\ s > 0
      BY TypeFacts DEF ListInv
    <3> QED
      BY <2>1, <3>1 DEF ListInv, ListWellFormed, After
  <2> QED
    BY <1>1, <1>3, <2>1 DEF StartWork, FinishInv, WalkComplete, FinishShows
<1>4. CASE StartFinish
  <2>1. /\ phase' = "finish" /\ cursor' = servers /\ live' = live
    BY <1>4 DEF StartFinish
  <2>2. /\ After(0, servers) /\ servers \in Nat
        /\ \A s \in live : s \in Nat /\ s > 0
    BY TypeFacts DEF ListInv, ListWellFormed
  <2>3. \A s \in live : servers # 0 /\ servers <= s
    BY <2>2 DEF After
  <2> QED
    BY <1>1, <2>1, <2>3 DEF FinishInv, WalkComplete, FinishShows, Ahead
<1>5. CASE UNCHANGED vars
  BY <1>1, <1>5 DEF FinishInv, WalkComplete, FinishShows, Ahead, Passed, Sort, vars, fields, finish
<1>6. CASE Load \/ Work
  <2>1. phase \in {"args", "work"}
    BY <1>6 DEF FinishInv, Parsing, Load, Work, ParseArg, AddUnresolved, AddResolved, EndArg, InRange,
      AddByAddr, ChangeServerPort, RememberBind, CloseServer
  <2>2. phase' = phase
    BY <1>6 DEF Load, Work, ParseArg, AddUnresolved, AddResolved, EndArg,
      AddByAddr, ChangeServerPort, RememberBind, CloseServer
  <2> QED
    BY <1>1, <2>1, <2>2 DEF FinishInv, WalkComplete, FinishShows
<1> QED
  BY <1>2, <1>3, <1>4, <1>5, <1>6 DEF NextList, Done

-----------------------------------------------------------------------------
\* The sort array and the counter: the array is an injection into the live servers,
\* onto them once the walk is over, and those that are not live were displayed.
LEMMA ArrayExact ==
  ASSUME ListInv, FinishInv
  PROVE  SortArrayExact
<1> DEFINE n == Len(array)
           D == {s \in Ids : shown[s] > 0}
           f == [i \in 1 .. n |-> array[i]]
<1>1. n \in Nat /\ DOMAIN array = 1 .. n /\ \A i \in 1 .. n : array[i] \in 1 .. MaxServers
  BY ArrayFacts DEF ListInv
<1>2. /\ count \in Nat /\ count <= MaxServers /\ MaxServers \in Nat /\ live \subseteq 1 .. count
      /\ numTotal = count
  BY TypeFacts DEF ListInv, FinishInv, AllCounted
<1>3. /\ IsFiniteSet(1 .. count) /\ Cardinality(1 .. count) = count
      /\ IsFiniteSet(1 .. n) /\ Cardinality(1 .. n) = n
  <2>1. 1 \in Int /\ count \in Int /\ n \in Int /\ count >= 0 /\ n >= 0
    BY <1>1, <1>2
  <2>2. IsFiniteSet(1 .. count) /\ Cardinality(1 .. count) = IF 1 > count THEN 0 ELSE count - 1 + 1
    BY <2>1, FS_Interval
  <2>3. IsFiniteSet(1 .. n) /\ Cardinality(1 .. n) = IF 1 > n THEN 0 ELSE n - 1 + 1
    <3> HIDE DEF n
    <3> QED
      BY <2>1, FS_Interval
  <2> HIDE DEF n
  <2> QED
    BY <2>1, <2>2, <2>3
<1>4. IsFiniteSet(live) /\ Cardinality(live) <= count /\ Cardinality(live) \in Nat
  BY <1>2, <1>3, FS_Subset, FS_CardinalityType
<1>5. f \in Injection(1 .. n, live)
  <2>1. \A i \in 1 .. n : array[i] \in live
    BY <1>1 DEF ListInv, CursorsLive
  <2>2. \A i, j \in 1 .. n : array[i] = array[j] => i = j
    BY <1>1 DEF ListInv, ArrayOrder
  <2> QED
    BY <2>1, <2>2 DEF Injection, IsInjective
<1>6. n <= Cardinality(live) /\ (f \in Surjection(1 .. n, live) => n = Cardinality(live))
  BY <1>3, <1>4, <1>5, FS_Injection
<1>7. Cardinality(D) = count - Cardinality(live)
  <2>1. D = (1 .. count) \ live
    <3>1. \A s \in Ids : s > count => shown[s] = 0
      BY DEF ListInv, NotShown
    <3>2. \A s \in 1 .. count : shown[s] = IF s \in live THEN 0 ELSE 1
      BY DEF ListInv, ShownOnce
    <3> QED
      BY <1>2, <3>1, <3>2 DEF Ids
  <2>2. (1 .. count) \cap live = live
    BY <1>2
  <2> QED
    BY <1>3, <2>1, <2>2, FS_Difference
<1>8. ASSUME phase = "finish", Sort = "keys", cursor = 0
      PROVE  f \in Surjection(1 .. n, live)
  <2>1. \A s \in live : \E i \in 1 .. n : array[i] = s
    BY <1>1, <1>8 DEF FinishInv, WalkComplete, Ahead, Passed
  <2> QED
    BY <1>5, <2>1 DEF Injection, Surjection
<1> HIDE DEF n, f
<1>9. n <= numTotal
  BY <1>1, <1>2, <1>4, <1>6
<1>10. ASSUME phase = "finish", Sort = "keys", cursor = 0
       PROVE  n + Cardinality(D) = numTotal
  BY <1>2, <1>4, <1>6, <1>7, <1>8, <1>10
<1> QED
  BY <1>9, <1>10 DEF SortArrayExact, n

-----------------------------------------------------------------------------
LEMMA LeastNumber ==
  ASSUME NEW m \in SUBSET Nat, m # {}
  PROVE  \E i \in m : \A j \in m : i <= j
<1>1. PICK i \in m : \A j \in m : ~(<<j, i>> \in OpToRel(<, Nat))
  BY NatLessThanWellFounded, WFMin
<1>2. \A j \in m : ~(j < i)
  BY <1>1 DEF OpToRel
<1> QED
  BY <1>2

\* find_server_by_address finds NULL only when no live server is in the hash under
\* that address and port.
LEMMA FoundIfThere ==
  ASSUME ListInv, HashIndexesLive, NEW a \in Ips, NEW p \in Ports,
         FindServerByAddress(a, p) = 0, NEW t \in live, a # 0, ip[t] = a, port[t] = p
  PROVE  orig[t] # p
<1> DEFINE h == Bucket(a, p)
           b == hash[h]
           m == Matches(a, p)
<1> SUFFICES ASSUME orig[t] = p
             PROVE  FALSE
  OBVIOUS
<1>1. h \in 0 .. HashLength - 1
  BY BucketType, ServerListAssumption DEF Ips, Ports
<1>2. b \in Seq(Ptrs) /\ DOMAIN b = 1 .. Len(b) /\ Len(b) \in Nat
  BY <1>1 DEF ListInv, TypeOK
<1>3. t # 0
  BY TypeFacts DEF ListInv
<1>4. m = {i \in DOMAIN b : b[i] # 0 /\ ip[b[i]] = a /\ port[b[i]] = p}
  BY DEF Matches
<1> HIDE DEF m, b
<1>5. m # {} /\ m \subseteq Nat
  <2>1. PICK i \in DOMAIN b : b[i] = t
    BY DEF HashIndexesLive, b
  <2> QED
    BY <1>2, <1>3, <1>4, <2>1
<1>6. \E i \in m : \A j \in m : i <= j
  BY <1>5, LeastNumber
<1>7. (CHOOSE i \in m : \A j \in m : i <= j) \in m
  BY <1>6
<1>8. FindServerByAddress(a, p) = b[CHOOSE i \in m : \A j \in m : i <= j]
  BY <1>5 DEF FindServerByAddress, b, m
<1> QED
  BY <1>4, <1>7, <1>8

\* What it finds is a live server of that address and port.
LEMMA FoundIsThere ==
  ASSUME ListInv, HashIndexesLive, NEW a \in Ips, NEW p \in Ports,
         FindServerByAddress(a, p) # 0
  PROVE  \E t \in live : ip[t] = a /\ port[t] = p
<1> DEFINE h == Bucket(a, p)
           b == hash[h]
           m == Matches(a, p)
<1>1. h \in 0 .. HashLength - 1
  BY BucketType, ServerListAssumption DEF Ips, Ports
<1>2. b \in Seq(Ptrs) /\ DOMAIN b = 1 .. Len(b) /\ Len(b) \in Nat
  BY <1>1 DEF ListInv, TypeOK
<1>3. h \in DOMAIN hash
  BY <1>1 DEF ListInv, TypeOK
<1>4. m = {i \in DOMAIN b : b[i] # 0 /\ ip[b[i]] = a /\ port[b[i]] = p}
  BY DEF Matches
<1>5. m # {} /\ FindServerByAddress(a, p) = b[CHOOSE i \in m : \A j \in m : i <= j]
  BY DEF FindServerByAddress
<1> HIDE DEF m
<1>6. \E i \in m : \A j \in m : i <= j
  <2>1. m \in SUBSET Nat
    BY <1>2, <1>4
  <2> QED
    BY <1>5, <2>1, LeastNumber
<1>7. PICK i \in m : TRUE
  BY <1>5
<1>8. i \in DOMAIN hash[h] /\ hash[h][i] \in live
  BY <1>3, <1>4, <1>7 DEF HashIndexesLive
<1> QED
  BY <1>4, <1>7, <1>8

\* A server that appears was registered under an address nobody has.
LEMMA AddsNoDuplicate ==
  ASSUME ListInv, HashIndexesLive, FinishInv, [NextList]_vars, NEW s \in live' \ live,
         ip'[s] # 0, NoServerDups \/ phase = "work", NEW t \in live
  PROVE  ~(ip[t] = ip'[s] /\ port[t] = port'[s] /\ orig[t] = port[t])
<1>1. ASSUME NEW a \in Ips, NEW p \in Ports, NEW y \in Types, a # 0,
             FindServerByAddress(a, p) = 0, Register(count + 1, a, p, y)
      PROVE  ~(ip[t] = ip'[s] /\ port[t] = port'[s] /\ orig[t] = port[t])
  <2>1. s = count + 1 /\ s \in Ids
    BY <1>1 DEF Register
  <2>2. ip'[s] = a /\ port'[s] = p
    BY <1>1, <2>1 DEF Register, SetFields, ListInv, TypeOK
  <2> QED
    BY <1>1, <2>2, FoundIfThere
<1>2. CASE AddUnresolved
  <2>1. adding.node = 0
    BY <1>2 DEF ListInv, AddUnresolved, OneTurn, InRange
  <2>2. /\ live' = live \cup {count + 1} /\ count + 1 \in Ids
        /\ SetFields(count + 1, 0, adding.port, adding.arg.type)
    BY <1>2, <2>1 DEF AddUnresolved
  <2> QED
    BY <2>2 DEF SetFields, ListInv, TypeOK
<1>3. CASE AddResolved
  <2>1. adding.arg.ip \in Ips \ {0} /\ adding.port \in Ports /\ adding.arg.type \in Types
    BY <1>3 DEF AddResolved, ListInv, TypeOK, Args
  <2>2. phase # "work"
    BY <1>3 DEF FinishInv, Parsing, AddResolved, InRange
  <2>3. /\ Register(count + 1, adding.arg.ip, adding.port, adding.arg.type)
        /\ FindServerByAddress(adding.arg.ip, adding.port) = 0
    BY <1>3, <2>2 DEF AddResolved
  <2> QED
    BY <1>1, <2>1, <2>3
<1>4. ASSUME NEW d \in Discovered, AddByAddr(d[1], d[2], d[3])
      PROVE  ~(ip[t] = ip'[s] /\ port[t] = port'[s] /\ orig[t] = port[t])
  BY <1>1, <1>4, ServerListAssumption DEF AddByAddr
<1>5. ASSUME NEW u \in Ids, RememberBind(u) \/ CloseServer(u)
      PROVE  FALSE
  BY <1>5 DEF RememberBind, CloseServer, DisplayServer, Unlink
<1>6. ASSUME NEW u \in Ids, NEW p \in GamePorts, NEW force \in BOOLEAN,
             ChangeServerPort(u, p, force)
      PROVE  FALSE
  BY <1>6 DEF ChangeServerPort
<1>7. CASE Finish
  BY <1>7 DEF Finish, FinishWalk, FillArray, ShowSorted, EndFinish, DisplayServer, Unlink
<1>8. CASE ParseArg \/ EndArg \/ StartWork \/ StartFinish \/ UNCHANGED vars
  BY <1>8 DEF ParseArg, EndArg, StartWork, StartFinish, vars
<1> QED
  BY <1>2, <1>3, <1>4, <1>5, <1>6, <1>7, <1>8 DEF NextList, Load, Work, Done

-----------------------------------------------------------------------------
\* The loop over a port range.

\* Every port the loop has passed has its server.
PortDone(p) == \E s \in live : ip[s] = adding.arg.ip /\ port[s] = p

RangeProgress ==
  adding.on /\ adding.arg.lo # 0 =>
    \A p \in (adding.arg.lo .. adding.arg.hi) \ {0} :
      p < adding.port \/ adding.port = 0 => PortDone(p)

LEMMA NextPortCases ==
  ASSUME TypeOK
  PROVE  /\ adding.port \in Nat
         /\ NextPort = adding.port + 1 \/ (NextPort = 0 /\ adding.port = MaxPort)
<1>1. adding.port \in 0 .. MaxPort /\ MaxPort \in Nat
  BY ServerListAssumption DEF TypeOK, Ports
<1>2. CASE adding.port = MaxPort
  BY <1>1, <1>2 DEF NextPort
<1>3. CASE adding.port < MaxPort
  BY <1>1, <1>3 DEF NextPort
<1> QED
  BY <1>1, <1>2, <1>3

\* A turn of the loop that has left a server at its port keeps RangeProgress.
LEMMA TurnKeepsRange ==
  ASSUME ListInv, RangeProgress, InRange,
         adding'.on, adding'.arg = adding.arg, adding'.port = NextPort,
         \A s \in live : s \in live' /\ ip'[s] = ip[s] /\ port'[s] = port[s],
         \E s \in live' : ip'[s] = adding.arg.ip /\ port'[s] = adding.port
  PROVE  RangeProgress'
<1>1. /\ adding.port \in Nat /\ adding.port <= adding.arg.hi
      /\ NextPort = adding.port + 1 \/ (NextPort = 0 /\ adding.port = MaxPort)
  BY NextPortCases DEF ListInv, InRange
<1>2. /\ adding.arg.lo \in Nat /\ adding.arg.hi \in Nat /\ MaxPort \in Nat
      /\ adding.arg.hi <= MaxPort
  BY ServerListAssumption DEF ListInv, TypeOK, Args, Ports
<1>3. ASSUME adding.arg.lo # 0, NEW p \in (adding.arg.lo .. adding.arg.hi) \ {0},
             p < NextPort \/ NextPort = 0
      PROVE  PortDone(p)'
  <2>1. p < adding.port \/ p = adding.port
    BY <1>1, <1>2, <1>3
  <2>2. CASE p < adding.port
    <3>1. PortDone(p)
      BY <1>3, <2>2 DEF RangeProgress, InRange
    <3> QED
      BY <3>1 DEF PortDone
  <2>3. CASE p = adding.port
    BY <2>3 DEF PortDone
  <2> QED
    BY <2>1, <2>2, <2>3
<1> QED
  BY <1>3 DEF RangeProgress

LEMMA RegisterFacts ==
  ASSUME ListInv, NEW a \in Ips, NEW p \in Ports, NEW t \in Types, NEW s,
         s = count + 1, s \in Ids, live' = live \cup {s}, SetFields(s, a, p, t)
  PROVE  /\ \A u \in live : u \in live' /\ ip'[u] = ip[u] /\ port'[u] = port[u]
         /\ s \in live' /\ ip'[s] = a /\ port'[s] = p
<1>1. \A u \in live : u \in Ids /\ u # s
  BY TypeFacts DEF ListInv, Ids
<1> QED
  BY <1>1 DEF SetFields, ListInv, TypeOK

LEMMA RangeProgressKept ==
  ASSUME ListInv, HashIndexesLive, FinishInv, RangeProgress, [NextList]_vars
  PROVE  RangeProgress'
<1>1. /\ adding.arg.ip \in Ips /\ adding.port \in Ports /\ adding.arg.type \in Types
      /\ adding \in [on : BOOLEAN, arg : Args, port : Ports, node : Ptrs]
      /\ adding.arg \in Args
  BY DEF ListInv, TypeOK, Args
<1>2. CASE ParseArg
  <2>1. /\ adding'.port = adding'.arg.lo /\ adding'.arg = Head(cmdline) /\ Head(cmdline) \in Args
    BY <1>2 DEF ParseArg, ListInv, TypeOK
  <2>2. \A p \in adding'.arg.lo .. adding'.arg.hi : ~(p < adding'.port)
    BY <2>1, ServerListAssumption DEF Args, Ports
  <2> QED
    BY <2>1, <2>2 DEF RangeProgress
<1>3. CASE AddUnresolved
  <2>1. adding.node = 0
    BY <1>3 DEF ListInv, AddUnresolved, OneTurn, InRange
  <2>2. PICK s : /\ s = count + 1 /\ s \in Ids /\ live' = live \cup {s} /\ adding.arg.ip = 0
                 /\ SetFields(s, adding.arg.ip, adding.port, adding.arg.type)
                 /\ adding' = [adding EXCEPT !.port = NextPort, !.node = s]
    BY <1>3, <2>1 DEF AddUnresolved
  <2>3. adding'.on /\ adding'.arg = adding.arg /\ adding'.port = NextPort
    BY <1>1, <1>3, <2>2 DEF AddUnresolved, InRange
  <2> QED
    BY <1>1, <1>3, <2>2, <2>3, RegisterFacts, TurnKeepsRange DEF AddUnresolved
<1>4. CASE AddResolved
  <2>1. adding'.on /\ adding'.arg = adding.arg /\ adding'.port = NextPort /\ InRange
    BY <1>1, <1>4 DEF AddResolved, InRange
  <2>2. CASE Register(count + 1, adding.arg.ip, adding.port, adding.arg.type)
    BY <1>1, <2>1, <2>2, RegisterFacts, TurnKeepsRange DEF Register
  <2>3. CASE /\ FindServerByAddress(adding.arg.ip, adding.port) # 0
             /\ UNCHANGED <<live, fields>>
    <3>1. \E t \in live : ip[t] = adding.arg.ip /\ port[t] = adding.port
      BY <1>1, <2>3, FoundIsThere
    <3> QED
      BY <2>1, <2>3, <3>1, TurnKeepsRange DEF fields
  <2> QED
    BY <1>4, <2>2, <2>3 DEF AddResolved
<1>5. CASE EndArg
  BY <1>5 DEF EndArg, Idle, RangeProgress
<1>6. CASE StartWork \/ StartFinish \/ UNCHANGED vars
  BY <1>6 DEF StartWork, StartFinish, RangeProgress, PortDone, vars, fields
<1>7. CASE Work \/ Finish
  <2>1. phase # "args"
    BY <1>7 DEF Work, Finish, AddByAddr, ChangeServerPort, RememberBind, CloseServer,
         FinishWalk, FillArray, ShowSorted, EndFinish
  <2>2. adding' = adding
    BY <1>7 DEF Work, Finish, AddByAddr, ChangeServerPort, RememberBind, CloseServer,
         FinishWalk, FillArray, ShowSorted, EndFinish
  <2> QED
    BY <2>1, <2>2 DEF FinishInv, Parsing, RangeProgress
<1> QED
  BY <1>2, <1>3, <1>4, <1>5, <1>6, <1>7 DEF NextList, Load, Done

LEMMA RangeEnds ==
  ASSUME ListInv, FinishInv, RangeProgress, [NextList]_vars,
         adding.on, ~adding'.on, adding.arg.lo # 0,
         NEW p \in (adding.arg.lo .. adding.arg.hi) \ {0}
  PROVE  PortDone(p)
<1>1. ~InRange
  <2>1. CASE AddUnresolved \/ AddResolved
    BY <2>1 DEF AddUnresolved, AddResolved, InRange, ListInv, TypeOK
  <2>2. CASE EndArg
    BY <2>2 DEF EndArg
  <2>3. CASE ParseArg \/ StartWork \/ StartFinish \/ UNCHANGED vars
    BY <2>3 DEF ParseArg, StartWork, StartFinish, vars
  <2>4. CASE Work \/ Finish
    BY <2>4 DEF Work, Finish, AddByAddr, ChangeServerPort, RememberBind, CloseServer,
         FinishWalk, FillArray, ShowSorted, EndFinish
  <2> QED
    BY <2>1, <2>2, <2>3, <2>4 DEF NextList, Load, Done
<1>2. adding.port = 0 \/ adding.port > adding.arg.hi
  BY <1>1, ServerListAssumption DEF InRange, ListInv, TypeOK, Args, Ports
<1>3. adding.port \in Nat /\ adding.arg.lo \in Nat /\ adding.arg.hi \in Nat
  BY ServerListAssumption DEF ListInv, TypeOK, Args, Ports
<1> QED
  BY <1>2, <1>3 DEF RangeProgress

-----------------------------------------------------------------------------
\* What finish_output's proofs rest on holds in every reachable state.
LEMMA FinishInvariant ==
  ASSUME NoUnresolvedRange
  PROVE  ListSpec => []FinishInv
<1>1. InitList => FinishInv
  BY FinishInvInit
<1>2. ListInv /\ FinishInv /\ [NextList]_vars => FinishInv'
  BY FinishInvKept
<1> QED
  BY <1>1, <1>2, ListInvariant, PTL DEF ListSpec

\* finish_output, after do_work or -timeout, leaves no server undisplayed that it
\* should show, although display_server unlinks the one the walk stands on.
THEOREM AllDisplayed ==
  ASSUME NoUnresolvedRange
  PROVE  ListSpec => []FinishShows
<1>1. FinishInv => FinishShows
  BY DEF FinishInv
<1> QED
  BY <1>1, FinishInvariant, PTL

\* The array that finish_output allocates for num_servers_total servers is filled
\* with that many: num_servers_total, kept by init_qserver, and the list that
\* free_server and add_qserver link agree.
THEOREM SortArrayFilled ==
  ASSUME NoUnresolvedRange
  PROVE  ListSpec => []SortArrayExact
<1>1. ListInv /\ FinishInv => SortArrayExact
  BY ArrayExact
<1> QED
  BY <1>1, ListInvariant, FinishInvariant, PTL

\* add_qserver and add_qserver_byaddr register no address twice, whatever
\* change_server_port and free_server did to the hash in between.
THEOREM AddedOnce ==
  ASSUME NoUnresolvedRange
  PROVE  ListSpec => NoDuplicateAdd
<1>1. ListInv /\ HashIndexesLive /\ FinishInv /\ [NextList]_vars =>
        [\A s \in live' \ live :
           ip'[s] # 0 /\ (NoServerDups \/ phase = "work") =>
             \A t \in live : ~(ip[t] = ip'[s] /\ port[t] = port'[s] /\ orig[t] = port[t])]_vars
  BY AddsNoDuplicate
<1> QED
  BY <1>1, ListInvariant, HashExact, FinishInvariant, PTL DEF ListSpec, NoDuplicateAdd

\* add_qserver's loop leaves no port of a range out, the largest unsigned short
\* included.
THEOREM RangesComplete ==
  ASSUME NoUnresolvedRange
  PROVE  ListSpec => RangeRegistered
<1>1. InitList => RangeProgress
  BY DEF InitList, Idle, RangeProgress
<1>2. ListInv /\ HashIndexesLive /\ FinishInv /\ RangeProgress /\ [NextList]_vars => RangeProgress'
  BY RangeProgressKept
<1>3. ListInv /\ FinishInv /\ RangeProgress /\ [NextList]_vars =>
        [adding.on /\ ~adding'.on /\ adding.arg.lo # 0 =>
           \A p \in (adding.arg.lo .. adding.arg.hi) \ {0} :
             \E s \in live : ip[s] = adding.arg.ip /\ port[s] = p]_vars
  BY RangeEnds DEF PortDone
<1> QED
  BY <1>1, <1>2, <1>3, ListInvariant, HashExact, FinishInvariant, PTL DEF ListSpec, RangeRegistered

-----------------------------------------------------------------------------
\* The next pointers go forward, whatever is linked and unlinked.

NextAhead == \A s \in Ids : next[s] = 0 \/ next[s] > s

LEMMA UnlinkAhead ==
  ASSUME ListInv, NextAhead, NEW s \in live, Unlink(s)
  PROVE  NextAhead'
<1>1. /\ s \in Ids /\ prev \in [Ids -> Ptrs] /\ next \in [Ids -> Ptrs] /\ MaxServers \in Nat
      /\ servers \in Ptrs /\ TypeOK
  <2>1. TypeOK
    BY DEF ListInv
  <2>2. MaxServers \in Nat /\ live \subseteq Ids
    BY <2>1, TypeFacts DEF Ids
  <2> QED
    BY <2>1, <2>2 DEF TypeOK
<1>2. /\ prev[s] = 0 \/ (prev[s] \in Ids /\ prev[s] < s)
      /\ next[s] = 0 \/ next[s] > s
  BY <1>1 DEF ListInv, ListWellFormed, Before, NextAhead, Ids, Ptrs
<1> DEFINE head  == IF servers = s THEN next[s] ELSE servers
           prev1 == IF servers = s /\ head # 0 THEN [prev EXCEPT ![head] = 0] ELSE prev
<1>3. next' = IF prev1[s] # 0 THEN [next EXCEPT ![prev1[s]] = next[s]] ELSE next
  BY DEF Unlink
<1>4. prev1[s] \in {0, prev[s]}
  BY <1>1
<1> HIDE DEF prev1
<1>5. next[s] \in Nat /\ s \in Nat /\ \A t \in Ids : t \in Nat /\ next[t] \in Nat
  BY <1>1 DEF Ids, Ptrs
<1> QED
  BY <1>1, <1>2, <1>3, <1>4, <1>5 DEF NextAhead

LEMMA LinkAhead ==
  ASSUME ListInv, NextAhead, NEW s \in Ids, s = count + 1, Link(s)
  PROVE  NextAhead'
<1>1. /\ next \in [Ids -> Ptrs] /\ MaxServers \in Nat /\ lastServer \in Ptrs /\ count \in Nat
      /\ lastServer = 0 \/ lastServer < s
  <2>1. TypeOK /\ ListWellFormed
    BY DEF ListInv
  <2>2. MaxServers \in Nat /\ count \in Nat /\ live \subseteq 1 .. count /\ lastServer \in Nat
    BY <2>1, TypeFacts
  <2>3. lastServer = 0 \/ lastServer < s
    BY <2>1, <2>2 DEF ListWellFormed, Before
  <2> QED
    BY <2>1, <2>2, <2>3 DEF TypeOK
<1>2. next' = IF lastServer = 0 THEN next ELSE [next EXCEPT ![lastServer] = s]
  BY DEF Link
<1> QED
  BY <1>1, <1>2 DEF NextAhead, Ids, Ptrs

LEMMA AheadKept ==
  ASSUME ListInv, NextAhead, [NextList]_vars
  PROVE  NextAhead'
<1>1. CASE next' = next
  BY <1>1 DEF NextAhead
<1>2. CASE Load \/ StartWork
  <2>1. CASE AddUnresolved
    <3>1. InRange /\ adding.on /\ adding.arg.ip = 0
      BY <2>1 DEF AddUnresolved, InRange
    <3>2. adding.node = 0
      BY <3>1 DEF ListInv, OneTurn
    <3> QED
      BY <2>1, <3>2, LinkAhead DEF AddUnresolved
  <2>2. CASE AddResolved
    BY <1>1, <2>2, LinkAhead DEF AddResolved, Register, list
  <2> QED
    BY <1>1, <1>2, <2>1, <2>2 DEF Load, ParseArg, EndArg, StartWork, list
<1>3. CASE Work
  <2>1. CASE \E s \in Ids : CloseServer(s)
    BY <2>1, UnlinkAhead DEF CloseServer, Bindable, DisplayServer
  <2>2. CASE \E d \in Discovered : AddByAddr(d[1], d[2], d[3])
    BY <2>2, LinkAhead DEF AddByAddr, Register
  <2> QED
    BY <1>1, <1>3, <2>1, <2>2 DEF Work, ChangeServerPort, RememberBind, list
<1>4. CASE Finish
  <2>1. CASE FinishWalk
    <3>1. cursor \in live
      BY <2>1 DEF FinishWalk, ListInv, CursorsLive
    <3> QED
      BY <1>1, <2>1, <3>1, UnlinkAhead DEF FinishWalk, DisplayServer, list
  <2>2. CASE ShowSorted
    <3>1. PICK i \in DOMAIN array : DisplayServer(array[i])
      BY <2>2 DEF ShowSorted
    <3>2. array[i] \in live
      BY <3>1 DEF ListInv, CursorsLive
    <3> QED
      BY <3>1, <3>2, UnlinkAhead DEF DisplayServer
  <2> QED
    BY <1>1, <1>4, <2>1, <2>2 DEF Finish, FillArray, EndFinish, list
<1> QED
  BY <1>1, <1>2, <1>3, <1>4 DEF NextList, StartFinish, Done, vars, list

-----------------------------------------------------------------------------
\* The servers as a sequence: any increasing one of them is the list.

Increasing(r) == \A i, j \in DOMAIN r : i < j => r[i] < r[j]
Lists(r, S) == r \in Seq(Nat) /\ Increasing(r) /\ S = {r[i] : i \in DOMAIN r}

\* The elements of two such sequences agree from the front on.
LEMMA ListsAgree ==
  ASSUME NEW S, NEW r, NEW t, Lists(r, S), Lists(t, S)
  PROVE  \A i \in DOMAIN r : i \in DOMAIN t /\ r[i] = t[i]
<1> DEFINE bad == {i \in DOMAIN r : ~(i \in DOMAIN t /\ r[i] = t[i])}
<1>1. /\ r \in Seq(Nat) /\ Len(r) \in Nat /\ DOMAIN r = 1 .. Len(r) /\ \A i \in DOMAIN r : r[i] \in Nat
      /\ t \in Seq(Nat) /\ Len(t) \in Nat /\ DOMAIN t = 1 .. Len(t) /\ \A i \in DOMAIN t : t[i] \in Nat
  BY DEF Lists
<1>2. /\ \A i \in DOMAIN r : \E j \in DOMAIN t : r[i] = t[j]
      /\ \A i \in DOMAIN t : \E j \in DOMAIN r : t[i] = r[j]
  BY DEF Lists
<1>3. SUFFICES ASSUME bad # {}
               PROVE  FALSE
  OBVIOUS
<1>4. PICK i \in bad : \A j \in bad : i <= j
  <2>1. bad \in SUBSET Nat
    BY <1>1
  <2> QED
    BY <1>3, <2>1, LeastNumber
<1>5. \A j \in 1 .. i - 1 : j \in DOMAIN r /\ j \in DOMAIN t /\ r[j] = t[j]
  <2>1. i \in Nat /\ i \in DOMAIN r
    BY <1>1, <1>4
  <2>2. \A j \in DOMAIN r : j \notin bad => j \in DOMAIN t /\ r[j] = t[j]
    OBVIOUS
  <2> HIDE DEF bad
  <2>3. SUFFICES ASSUME NEW j \in 1 .. i - 1
                 PROVE  j \in DOMAIN r /\ j \in DOMAIN t /\ r[j] = t[j]
    OBVIOUS
  <2>4. j \in DOMAIN r /\ ~(i <= j)
    BY <1>1, <2>1, <2>3
  <2> QED
    BY <1>4, <2>2, <2>4
<1>6. PICK k \in DOMAIN t : r[i] = t[k]
  BY <1>2, <1>4
<1>7. k >= i
  <2>1. SUFFICES ASSUME k \in 1 .. i - 1
                 PROVE  FALSE
    BY <1>1, <1>4
  <2>2. r[k] = r[i] /\ k < i /\ k \in DOMAIN r
    BY <1>1, <1>4, <1>5, <1>6, <2>1
  <2> QED
    BY <1>1, <1>4, <2>2 DEF Lists, Increasing
<1>8. i \in DOMAIN t /\ k # i
  BY <1>1, <1>4, <1>6, <1>7
<1>9. t[i] < r[i]
  BY <1>1, <1>6, <1>7, <1>8 DEF Lists, Increasing
<1>10. PICK m \in DOMAIN r : t[i] = r[m]
  BY <1>2, <1>8
<1>11. m < i
  <2>1. m # i
    BY <1>1, <1>4, <1>9, <1>10
  <2>2. ~(i < m)
    <3>1. SUFFICES ASSUME i < m
                   PROVE  FALSE
      OBVIOUS
    <3>2. r[i] < r[m]
      BY <1>4, <3>1 DEF Lists, Increasing
    <3> QED
      BY <1>1, <1>4, <1>9, <1>10, <3>2
  <2> QED
    BY <1>1, <1>4, <2>1, <2>2
<1>12. t[m] = t[i] /\ m \in DOMAIN t
  BY <1>1, <1>4, <1>5, <1>10, <1>11
<1> QED
  BY <1>1, <1>8, <1>11, <1>12 DEF Lists, Increasing

LEMMA ListsUnique ==
  ASSUME NEW S, NEW r, NEW t, Lists(r, S), Lists(t, S)
  PROVE  r = t
<1>1. /\ \A i \in DOMAIN r : i \in DOMAIN t /\ r[i] = t[i]
      /\ \A i \in DOMAIN t : i \in DOMAIN r /\ r[i] = t[i]
  BY ListsAgree
<1>2. r \in Seq(Nat) /\ t \in Seq(Nat)
  BY DEF Lists
<1>3. DOMAIN r = DOMAIN t /\ Len(r) = Len(t)
  BY <1>1, <1>2
<1> QED
  BY <1>1, <1>2, <1>3

\* A new server is at the end of the list.
LEMMA ListsAppend ==
  ASSUME NEW S, NEW r, Lists(r, S), NEW n \in Nat, \A s \in S : s < n
  PROVE  Lists(Append(r, n), S \cup {n})
<1> DEFINE a == Append(r, n)
           m == Len(r)
<1>1. /\ r \in Seq(Nat) /\ m \in Nat /\ DOMAIN r = 1 .. m
      /\ \A i \in 1 .. m : r[i] \in Nat /\ r[i] \in S
      /\ \A i, j \in 1 .. m : i < j => r[i] < r[j]
      /\ \A s \in S : \E i \in 1 .. m : s = r[i]
  BY DEF Lists, Increasing
<1>2. /\ a \in Seq(Nat) /\ DOMAIN a = 1 .. m + 1 /\ a[m + 1] = n
      /\ \A i \in 1 .. m : a[i] = r[i]
  BY <1>1
<1> HIDE DEF a, m
<1>3. ASSUME NEW i \in 1 .. m + 1, NEW j \in 1 .. m + 1, i < j
      PROVE  a[i] < a[j]
  <2>1. i \in 1 .. m /\ a[i] = r[i] /\ r[i] < n
    BY <1>1, <1>2, <1>3
  <2>2. j = m + 1 \/ (j \in 1 .. m /\ a[j] = r[j] /\ r[i] < r[j])
    BY <1>1, <1>2, <1>3, <2>1
  <2> QED
    BY <1>2, <2>1, <2>2
<1>4. ASSUME NEW x
      PROVE  x \in S \cup {n} <=> \E i \in 1 .. m + 1 : x = a[i]
  <2>1. \A i \in 1 .. m + 1 : i \in 1 .. m \/ i = m + 1
    BY <1>1
  <2>2. \A i \in 1 .. m : i \in 1 .. m + 1
    BY <1>1
  <2>3. m + 1 \in 1 .. m + 1
    BY <1>1
  <2> QED
    BY <1>1, <1>2, <2>1, <2>2, <2>3
<1>5. Increasing(a)
  BY <1>2, <1>3 DEF Increasing
<1>6. S \cup {n} = {a[i] : i \in DOMAIN a}
  BY <1>2, <1>4
<1> QED
  BY <1>2, <1>5, <1>6 DEF Lists, a

\* What is taken out of it leaves the others in their order.
LEMMA ListsRemove ==
  ASSUME NEW S, NEW r, Lists(r, S), NEW i \in DOMAIN r
  PROVE  Lists(SubSeq(r, 1, i - 1) \o SubSeq(r, i + 1, Len(r)), S \ {r[i]})
<1> DEFINE n == Len(r)
           front == SubSeq(r, 1, i - 1)
           back == SubSeq(r, i + 1, n)
           d == front \o back
<1>1. r \in Seq(Nat) /\ n \in Nat /\ DOMAIN r = 1 .. n /\ i \in 1 .. n
  BY DEF Lists
<1>2. /\ \A k \in 1 .. n : r[k] \in Nat
      /\ \A j, k \in 1 .. n : j < k => r[j] < r[k]
      /\ \A x : x \in S <=> \E k \in 1 .. n : x = r[k]
  <2>1. \A x : x \in S <=> \E k \in 1 .. n : x = r[k]
    <3>1. S = {r[k] : k \in 1 .. n}
      BY <1>1 DEF Lists
    <3> QED
      BY <3>1
  <2>2. /\ \A k \in 1 .. n : r[k] \in Nat
        /\ \A j, k \in 1 .. n : j < k => r[j] < r[k]
    <3>1. Increasing(r) /\ \A k \in 1 .. n : r[k] \in Nat
      BY <1>1 DEF Lists
    <3> QED
      BY <1>1, <3>1 DEF Increasing
  <2> QED
    BY <2>1, <2>2
<1>3. /\ front \in Seq(Nat) /\ Len(front) = i - 1 /\ \A k \in 1 .. i - 1 : front[k] = r[k]
      /\ back \in Seq(Nat) /\ Len(back) = n - i /\ \A k \in 1 .. n - i : back[k] = r[i + k]
  BY <1>1, PartsAround
<1> HIDE DEF front, back, n
<1>4. /\ d \in Seq(Nat) /\ Len(d) = Len(front) + Len(back)
      /\ \A k \in 1 .. Len(front) + Len(back) :
           d[k] = IF k <= Len(front) THEN front[k] ELSE back[k - Len(front)]
  BY <1>3, ConcatProperties
<1> HIDE DEF d
<1>5. /\ Len(d) = n - 1 /\ DOMAIN d = 1 .. n - 1
      /\ \A k \in 1 .. n - 1 : d[k] = IF k < i THEN r[k] ELSE r[k + 1]
  <2>1. Len(front) + Len(back) = n - 1 /\ Len(front) = i - 1 /\ n - 1 \in Nat
    BY <1>1, <1>3
  <2>2. Len(d) = n - 1 /\ DOMAIN d = 1 .. n - 1
    BY <1>4, <2>1
  <2>3. ASSUME NEW k \in 1 .. n - 1
        PROVE  d[k] = IF k < i THEN r[k] ELSE r[k + 1]
    <3>1. d[k] = IF k <= i - 1 THEN front[k] ELSE back[k - (i - 1)]
      BY <1>4, <2>1
    <3>2. CASE k < i
      <4>1. k <= i - 1 /\ k \in 1 .. i - 1
        BY <1>1, <3>2
      <4> QED
        BY <1>3, <3>1, <3>2, <4>1
    <3>3. CASE ~(k < i)
      <4>1. ~(k <= i - 1) /\ k - (i - 1) \in 1 .. n - i /\ i + (k - (i - 1)) = k + 1
        BY <1>1, <3>3
      <4>2. back[k - (i - 1)] = r[i + (k - (i - 1))]
        BY <1>3, <4>1
      <4> QED
        BY <3>1, <3>3, <4>1, <4>2
    <3> QED
      BY <3>2, <3>3
  <2> QED
    BY <2>2, <2>3
<1>6. ASSUME NEW j \in 1 .. n - 1, NEW k \in 1 .. n - 1, j < k
      PROVE  d[j] < d[k]
  <2> DEFINE up(x) == IF x < i THEN x ELSE x + 1
  <2>1. up(j) \in 1 .. n /\ up(k) \in 1 .. n /\ up(j) < up(k)
    BY <1>1, <1>6
  <2>2. d[j] = r[up(j)] /\ d[k] = r[up(k)]
    BY <1>5
  <2> HIDE DEF up
  <2> QED
    BY <1>2, <2>1, <2>2
<1>7. \A k \in 1 .. n : k # i => r[k] # r[i]
  <2>1. TAKE k \in 1 .. n
  <2>2. r[k] \in Nat /\ r[i] \in Nat /\ (k < i => r[k] < r[i]) /\ (i < k => r[i] < r[k])
    BY <1>1, <1>2
  <2> QED
    BY <1>1, <2>2
<1>8. ASSUME NEW k \in 1 .. n, k # i
      PROVE  \E j \in 1 .. n - 1 : d[j] = r[k]
  <2>1. CASE k < i
    <3>1. k \in 1 .. n - 1
      BY <1>1, <2>1
    <3> QED
      BY <1>5, <2>1, <3>1
  <2>2. CASE k > i
    <3>1. k - 1 \in 1 .. n - 1 /\ ~(k - 1 < i) /\ (k - 1) + 1 = k
      BY <1>1, <2>2
    <3>2. d[k - 1] = r[k]
      BY <1>5, <3>1
    <3> QED
      BY <3>1, <3>2
  <2> QED
    BY <1>1, <1>8, <2>1, <2>2
<1>9. ASSUME NEW j \in 1 .. n - 1
      PROVE  \E k \in 1 .. n : k # i /\ d[j] = r[k]
  <2>1. CASE j < i
    <3>1. j \in 1 .. n /\ j # i
      BY <1>1, <2>1
    <3> QED
      BY <1>5, <2>1, <3>1
  <2>2. CASE ~(j < i)
    <3>1. j + 1 \in 1 .. n /\ j + 1 # i
      BY <1>1, <2>2
    <3> QED
      BY <1>5, <2>2, <3>1
  <2> QED
    BY <2>1, <2>2
<1>10. ASSUME NEW x
       PROVE  x \in S \ {r[i]} <=> \E j \in 1 .. n - 1 : x = d[j]
  BY <1>2, <1>7, <1>8, <1>9
<1>11. S \ {r[i]} = {d[j] : j \in DOMAIN d}
  BY <1>5, <1>10
<1>12. Increasing(d)
  BY <1>5, <1>6 DEF Increasing
<1> QED
  BY <1>4, <1>11, <1>12 DEF Lists, d, front, back, n

\* A server before all the others is at the front.
LEMMA ListsPrepend ==
  ASSUME NEW S, NEW r, Lists(r, S), NEW t \in Nat, \A x \in S : t < x
  PROVE  Lists(<<t>> \o r, {t} \cup S)
<1> DEFINE v == <<t>> \o r
           m == Len(r)
<1>1. /\ r \in Seq(Nat) /\ m \in Nat /\ DOMAIN r = 1 .. m
      /\ \A i \in 1 .. m : r[i] \in Nat /\ r[i] \in S
      /\ \A i, j \in 1 .. m : i < j => r[i] < r[j]
      /\ \A s \in S : \E i \in 1 .. m : s = r[i]
  BY DEF Lists, Increasing
<1>2. /\ v \in Seq(Nat) /\ DOMAIN v = 1 .. m + 1 /\ v[1] = t
      /\ \A i \in 1 .. m : v[i + 1] = r[i]
  BY <1>1
<1> HIDE DEF v, m
<1>3. \A i \in 1 .. m + 1 : i = 1 \/ (i - 1 \in 1 .. m /\ v[i] = r[i - 1])
  <2>1. TAKE i \in 1 .. m + 1
  <2>2. SUFFICES ASSUME i # 1
                 PROVE  i - 1 \in 1 .. m /\ v[i] = r[i - 1]
    OBVIOUS
  <2>3. i - 1 \in 1 .. m /\ (i - 1) + 1 = i
    BY <1>1, <2>2
  <2> QED
    BY <1>2, <2>3
<1>4. ASSUME NEW i \in 1 .. m + 1, NEW j \in 1 .. m + 1, i < j
      PROVE  v[i] < v[j]
  <2>1. j - 1 \in 1 .. m /\ v[j] = r[j - 1]
    BY <1>1, <1>3, <1>4
  <2>2. CASE i = 1
    BY <1>1, <1>2, <2>1, <2>2
  <2>3. CASE i # 1
    <3>1. i - 1 \in 1 .. m /\ v[i] = r[i - 1] /\ i - 1 < j - 1
      BY <1>1, <1>3, <1>4, <2>3
    <3> QED
      BY <1>1, <2>1, <3>1
  <2> QED
    BY <2>2, <2>3
<1>5. ASSUME NEW x
      PROVE  x \in {t} \cup S <=> \E i \in 1 .. m + 1 : x = v[i]
  <2>1. 1 \in 1 .. m + 1 /\ \A i \in 1 .. m : i + 1 \in 1 .. m + 1
    BY <1>1
  <2>2. ASSUME x \in {t} \cup S
        PROVE  \E i \in 1 .. m + 1 : x = v[i]
    BY <1>1, <1>2, <2>1, <2>2
  <2>3. ASSUME NEW i \in 1 .. m + 1
        PROVE  v[i] \in {t} \cup S
    BY <1>1, <1>2, <1>3
  <2> QED
    BY <2>2, <2>3
<1>6. Increasing(v)
  BY <1>2, <1>4 DEF Increasing
<1>7. {t} \cup S = {v[i] : i \in DOMAIN v}
  BY <1>2, <1>5
<1> QED
  BY <1>2, <1>6, <1>7 DEF Lists, v

-----------------------------------------------------------------------------
\* The walk along the next pointers.

WalkFrom(w) == w = [t \in Ptrs |-> IF t = 0 THEN <<>> ELSE <<t>> \o w[next[t]]]

\* The list goes forward, so the walk ends and is a function of where it begins.
LEMMA WalkDefined ==
  ASSUME TypeOK, NextAhead
  PROVE  \E w : WalkFrom(w) /\ Walk = w[servers]
<1> DEFINE D(n) == {t \in Ptrs : t = 0 \/ t > MaxServers - n}
<1> DEFINE walks(f, n) == f = [t \in D(n) |-> IF t = 0 THEN <<>> ELSE <<t>> \o f[next[t]]]
<1>1. MaxServers \in Nat /\ next \in [Ids -> Ptrs]
  BY ServerListAssumption DEF TypeOK
<1>2. \E f : walks(f, 0)
  <2>1. D(0) = {0}
    BY <1>1 DEF Ptrs
  <2>2. walks([t \in D(0) |-> <<>>], 0)
    BY <2>1
  <2> QED
    BY <2>2
<1>3. ASSUME NEW n \in Nat, n < MaxServers, NEW f, walks(f, n)
      PROVE  \E g : walks(g, n + 1)
  <2> DEFINE m == MaxServers - n
  <2> DEFINE g == [t \in D(n + 1) |-> IF t = m THEN <<t>> \o f[next[t]] ELSE f[t]]
  <2>1. m \in Ids /\ m # 0 /\ D(n + 1) = D(n) \cup {m} /\ m \notin D(n)
    BY <1>1, <1>3 DEF Ptrs, Ids
  <2>2. ASSUME NEW t \in D(n + 1), t # 0
        PROVE  t \in Ids /\ next[t] \in D(n) /\ next[t] # m
    <3>1. t \in Ids /\ t >= m
      BY <1>1, <1>3, <2>2 DEF Ptrs, Ids
    <3>2. next[t] \in Ptrs /\ (next[t] = 0 \/ next[t] > t)
      BY <1>1, <3>1 DEF NextAhead
    <3> QED
      BY <1>1, <2>1, <3>1, <3>2 DEF Ptrs, Ids
  <2>3. ASSUME NEW t \in D(n + 1)
        PROVE  g[t] = IF t = 0 THEN <<>> ELSE <<t>> \o g[next[t]]
    <3>1. CASE t = 0
      <4>1. 0 \in D(n) /\ 0 # m
        BY <1>1, <2>1 DEF Ptrs
      <4>2. f[0] = <<>>
        BY <1>3, <4>1
      <4> QED
        BY <3>1, <4>1, <4>2
    <3>2. CASE t # 0
      <4>1. next[t] \in D(n) /\ next[t] # m /\ next[t] \in D(n + 1)
        BY <2>1, <2>2, <3>2
      <4>2. g[next[t]] = f[next[t]]
        BY <4>1
      <4>3. t # m => t \in D(n) /\ f[t] = <<t>> \o f[next[t]]
        BY <1>3, <2>1, <3>2
      <4> QED
        BY <3>2, <4>2, <4>3
    <3> QED
      BY <3>1, <3>2
  <2> HIDE DEF D
  <2>4. walks(g, n + 1)
    BY <2>3
  <2> QED
    BY <2>4
<1>4. \E f : walks(f, MaxServers)
  <2> DEFINE bad == {n \in 0 .. MaxServers : ~\E f : walks(f, n)}
  <2> HIDE DEF walks
  <2>1. SUFFICES ASSUME bad # {}
                 PROVE  FALSE
    BY <1>1
  <2>2. PICK n \in bad : \A k \in bad : n <= k
    <3>1. bad \in SUBSET Nat
      BY <1>1
    <3> QED
      BY <2>1, <3>1, LeastNumber
  <2>3. n # 0
    BY <1>2, <2>2
  <2>4. n - 1 \in Nat /\ n - 1 < MaxServers /\ n - 1 \notin bad
    BY <1>1, <2>2, <2>3
  <2>5. PICK f : walks(f, n - 1)
    BY <1>1, <2>4
  <2>6. \E g : walks(g, (n - 1) + 1)
    BY <1>3, <2>4, <2>5
  <2> QED
    BY <1>1, <2>2, <2>6
<1>5. D(MaxServers) = Ptrs
  BY <1>1 DEF Ptrs
<1>6. \E f : f = [t \in Ptrs |-> IF t = 0 THEN <<>> ELSE <<t>> \o f[next[t]]]
  BY <1>4, <1>5
<1> QED
  BY <1>6 DEF Walk, WalkFrom

\* From a live server on, the walk lists the live servers that were added after it.
LEMMA WalkFromLive ==
  ASSUME TypeOK, ListWellFormed, NEW w, WalkFrom(w), NEW s \in live
  PROVE  Lists(w[s], {t \in live : t >= s})
<1> DEFINE from(t) == {u \in live : u >= t}
           bad == {n \in Nat : \E t \in live : n = MaxServers - t /\ ~Lists(w[t], from(t))}
<1>1. MaxServers \in Nat /\ live \subseteq 1 .. MaxServers /\ live \subseteq Ptrs /\ 0 \in Ptrs
  <2>1. MaxServers \in Nat /\ live \subseteq 1 .. MaxServers
    BY TypeFacts
  <2> QED
    BY <2>1 DEF Ptrs
<1>2. SUFFICES ASSUME bad # {}
               PROVE  FALSE
  <2>1. SUFFICES ASSUME ~Lists(w[s], from(s))
                 PROVE  bad # {}
    BY <1>2
  <2> HIDE DEF from
  <2>2. MaxServers - s \in Nat
    BY <1>1
  <2>3. MaxServers - s \in bad
    BY <2>1, <2>2
  <2> QED
    BY <2>3
<1>3. PICK n \in bad : \A k \in bad : n <= k
  BY <1>2, LeastNumber
<1>4. PICK t \in live : n = MaxServers - t /\ ~Lists(w[t], from(t))
  BY <1>3
<1>5. w[t] = <<t>> \o w[next[t]] /\ w[0] = <<>>
  <2>1. t \in Ptrs /\ t # 0
    BY <1>1
  <2>2. \A p \in Ptrs : w[p] = IF p = 0 THEN <<>> ELSE <<p>> \o w[next[p]]
    BY DEF WalkFrom
  <2> QED
    BY <1>1, <2>1, <2>2
<1>6. After(t, next[t])
  BY DEF ListWellFormed
<1>7. CASE next[t] = 0
  <2>1. t \in Nat /\ from(t) = {t}
    <3>1. \A x \in live : x <= t /\ x \in Nat /\ t \in Nat
      BY <1>1, <1>6, <1>7 DEF After
    <3> QED
      BY <3>1
  <2>2. w[t] = <<t>>
    <3>1. w[t] = <<t>> \o w[0]
      BY <1>5, <1>7
    <3>2. w[t] = <<t>> \o <<>>
      BY <1>5, <3>1
    <3>3. <<t>> \in Seq(Nat)
      BY <2>1
    <3> QED
      BY <3>2, <3>3, ConcatEmptySeq
  <2>3. DOMAIN <<t>> = {1} /\ <<t>>[1] = t /\ <<t>> \in Seq(Nat)
    BY <2>1
  <2>4. Lists(<<t>>, {t})
    BY <2>3 DEF Lists, Increasing
  <2> QED
    BY <1>4, <2>1, <2>2, <2>4
<1>8. CASE next[t] # 0
  <2> DEFINE u == next[t]
             r == w[u]
             v == <<t>> \o r
  <2>1. u \in live /\ t < u /\ from(t) = {t} \cup from(u)
    <3>1. u \in live /\ t < u /\ \A x \in live : x <= t \/ u <= x
      BY <1>6, <1>8 DEF After
    <3> HIDE DEF u
    <3>2. ASSUME NEW x \in live
          PROVE  x >= t <=> x = t \/ x >= u
      BY <1>1, <3>1, <3>2
    <3> QED
      BY <3>1, <3>2
  <2>2. Lists(r, from(u))
    <3>1. SUFFICES ASSUME ~Lists(r, from(u))
                   PROVE  FALSE
      OBVIOUS
    <3> HIDE DEF from, u, r
    <3>2. MaxServers - u \in bad
      <4>1. MaxServers - u \in Nat
        BY <1>1, <2>1
      <4> QED
        BY <2>1, <3>1, <4>1 DEF r
    <3>3. MaxServers - t <= MaxServers - u
      BY <1>3, <1>4, <3>2
    <3> QED
      BY <1>1, <2>1, <3>3
  <2>3. \A x \in from(u) : t < x
    <3> HIDE DEF u
    <3> QED
      BY <1>1, <2>1
  <2>4. Lists(v, {t} \cup from(u))
    <3>1. t \in Nat
      BY <1>1
    <3> HIDE DEF from, u, r
    <3> QED
      BY <2>2, <2>3, <3>1, ListsPrepend
  <2> QED
    BY <1>4, <1>5, <2>1, <2>4
<1> QED
  BY <1>7, <1>8

\* From the head it lists all of them.
LEMMA WalkLists ==
  TypeOK /\ ListWellFormed /\ NextAhead => Lists(Walk, live)
<1> SUFFICES ASSUME TypeOK, ListWellFormed, NextAhead
             PROVE  Lists(Walk, live)
  OBVIOUS
<1>1. PICK w : WalkFrom(w) /\ Walk = w[servers]
  BY WalkDefined
<1>2. After(0, servers) /\ \A u \in live : u \in Nat /\ u > 0
  BY TypeFacts DEF ListWellFormed
<1>3. CASE servers = 0
  <2>1. live = {}
    BY <1>2, <1>3 DEF After
  <2>2. w[0] = <<>>
    BY <1>1, ServerListAssumption DEF WalkFrom, Ptrs
  <2>3. Lists(<<>>, {})
    BY DEF Lists, Increasing
  <2> QED
    BY <1>1, <1>3, <2>1, <2>2, <2>3
<1>4. CASE servers # 0
  <2>1. servers \in live /\ live = {t \in live : t >= servers}
    BY <1>2, <1>4 DEF After
  <2> QED
    BY <1>1, <2>1, WalkFromLive
<1> QED
  BY <1>3, <1>4

-----------------------------------------------------------------------------
\* The servers in the hash are the ones with an address.

Indexed == UNION {{hash[b][i] : i \in DOMAIN hash[b]} \ {0} : b \in DOMAIN hash}

LEMMA IndexedAre ==
  TypeOK /\ HashIndexesLive => Indexed = {s \in live : ip[s] # 0}
<1> SUFFICES ASSUME TypeOK, HashIndexesLive
             PROVE  Indexed = {s \in live : ip[s] # 0}
  OBVIOUS
<1>1. ASSUME NEW s \in Indexed
      PROVE  s \in live /\ ip[s] # 0
  BY DEF Indexed, HashIndexesLive
<1>2. ASSUME NEW s \in live, ip[s] # 0
      PROVE  s \in Indexed
  <2>1. s \in Ids /\ s # 0
    <3>1. s \in 1 .. count /\ count \in 0 .. MaxServers /\ MaxServers \in Nat
      BY TypeFacts
    <3> QED
      BY <3>1 DEF Ids
  <2> DEFINE b == Bucket(ip[s], orig[s])
  <2>2. b \in DOMAIN hash
    BY <2>1, BucketOfServer DEF TypeOK
  <2>3. PICK i \in DOMAIN hash[b] : hash[b][i] = s
    BY <1>2 DEF HashIndexesLive
  <2> HIDE DEF b
  <2> QED
    BY <2>1, <2>2, <2>3 DEF Indexed
<1> QED
  BY <1>1, <1>2

-----------------------------------------------------------------------------
\* What a step does to the servers in memory: nothing, one more, or one fewer.

AddressesStay == \A s \in live : ip'[s] = ip[s]
ServersStay   == live' = live
ServerAdded   == \E n \in Ids : n = count + 1 /\ live' = live \cup {n}
ServerDropped == \E s \in live : live' = live \ {s}

LEMMA NewServer ==
  ASSUME TypeOK, NEW s \in Ids, s = count + 1, NEW a, NEW p, NEW t, SetFields(s, a, p, t),
         live' = live \cup {s}
  PROVE  ServerAdded /\ AddressesStay
<1>1. ip \in [Ids -> Ips] /\ \A u \in live : u \in Ids /\ u # s
  <2>1. ip \in [Ids -> Ips]
    BY DEF TypeOK
  <2>2. count \in 0 .. MaxServers /\ MaxServers \in Nat /\ \A u \in live : u \in 1 .. count
    BY TypeFacts
  <2> QED
    BY <2>1, <2>2 DEF Ids
<1> QED
  BY <1>1 DEF SetFields, ServerAdded, AddressesStay

LEMMA StepKinds ==
  ASSUME ListInv, [NextList]_vars
  PROVE  AddressesStay /\ (ServersStay \/ ServerAdded \/ ServerDropped)
<1> USE DEF ListInv
<1>1. CASE UNCHANGED <<live, ip>>
  BY <1>1 DEF AddressesStay, ServersStay
<1>2. CASE AddUnresolved
  <2>1. adding.node = 0
    BY <1>2 DEF AddUnresolved, OneTurn, InRange
  <2> QED
    BY <1>2, <2>1, NewServer DEF AddUnresolved
<1>3. CASE AddResolved
  BY <1>1, <1>3, NewServer DEF AddResolved, Register, fields
<1>4. ASSUME NEW d \in Discovered, AddByAddr(d[1], d[2], d[3])
      PROVE  AddressesStay /\ ServerAdded
  BY <1>4, NewServer DEF AddByAddr, Register
<1>5. ASSUME NEW s \in live, DisplayServer(s)
      PROVE  AddressesStay /\ ServerDropped
  BY <1>5 DEF DisplayServer, Unlink, fields, AddressesStay, ServerDropped
<1>6. CASE FinishWalk
  BY <1>1, <1>5, <1>6 DEF FinishWalk, CursorsLive, fields
<1>7. CASE ShowSorted
  BY <1>5, <1>7 DEF ShowSorted, CursorsLive
<1>8. ASSUME NEW s \in Ids, CloseServer(s)
      PROVE  AddressesStay /\ ServerDropped
  BY <1>5, <1>8 DEF CloseServer, Bindable
<1>9. CASE ParseArg \/ EndArg \/ StartWork \/ StartFinish \/ FillArray \/ EndFinish
           \/ UNCHANGED vars
  BY <1>1, <1>9 DEF ParseArg, EndArg, StartWork, StartFinish, FillArray, EndFinish, vars, fields
<1>10. ASSUME NEW s \in Ids, RememberBind(s)
       PROVE  AddressesStay /\ ServersStay
  BY <1>1, <1>10 DEF RememberBind, fields, AddressesStay, ServersStay
<1>11. ASSUME NEW s \in Ids, NEW p \in GamePorts, NEW force \in BOOLEAN,
              ChangeServerPort(s, p, force)
       PROVE  AddressesStay /\ ServersStay
  BY <1>1, <1>11 DEF ChangeServerPort, AddressesStay, ServersStay
<1> QED
  BY <1>2, <1>3, <1>4, <1>6, <1>7, <1>8, <1>9, <1>10, <1>11
     DEF NextList, Load, Work, Finish, Done

-----------------------------------------------------------------------------
\* Each kind of step is a step of the registry.

\* What the registry's variables stand for.
Registered ==
  /\ Lists(Walk, live)
  /\ Indexed = {s \in live : ip[s] # 0}

LEMMA RegistryStays ==
  ASSUME Registered, Registered', AddressesStay, ServersStay
  PROVE  Walk' = Walk /\ Indexed' = Indexed
<1>1. Lists(Walk, live) /\ Lists(Walk', live)
  BY DEF Registered, ServersStay
<1>2. Walk' = Walk
  BY <1>1, ListsUnique
<1>3. Indexed' = Indexed
  BY DEF Registered, AddressesStay, ServersStay
<1> QED
  BY <1>2, <1>3

LEMMA RegistryAdds ==
  ASSUME TypeOK, Registered, Registered', AddressesStay, ServerAdded
  PROVE  \E s \in Ids : Registry!Add(s)
<1>1. PICK n \in Ids : n = count + 1 /\ live' = live \cup {n}
  BY DEF ServerAdded
<1>2. n \in Nat /\ \A s \in live : s < n
  <2>1. count \in 0 .. MaxServers /\ MaxServers \in Nat /\ \A u \in live : u \in 1 .. count
    BY TypeFacts
  <2> QED
    BY <1>1, <2>1
<1>3. Walk' = Append(Walk, n)
  <2>1. Lists(Append(Walk, n), live \cup {n})
    BY <1>2, ListsAppend DEF Registered
  <2>2. Lists(Walk', live \cup {n})
    BY <1>1 DEF Registered
  <2> QED
    BY <2>1, <2>2, ListsUnique
<1>4. n \notin {Walk[i] : i \in DOMAIN Walk}
  <2>1. live = {Walk[i] : i \in DOMAIN Walk}
    BY DEF Registered, Lists
  <2> QED
    BY <1>2, <2>1
<1>5. Indexed' \in {Indexed, Indexed \cup {n}}
  BY <1>1, <1>2 DEF Registered, AddressesStay
<1>6. Registry!Add(n)
  BY <1>3, <1>4, <1>5 DEF Registry!Add, Registry!Members, Indexed
<1> QED
  BY <1>6

LEMMA RegistryDrops ==
  ASSUME Registered, Registered', AddressesStay, ServerDropped
  PROVE  \E i \in DOMAIN Walk : Registry!Drop(i)
<1>1. PICK s \in live : live' = live \ {s}
  BY DEF ServerDropped
<1>2. PICK i \in DOMAIN Walk : Walk[i] = s
  <2>1. live = {Walk[i] : i \in DOMAIN Walk}
    BY DEF Registered, Lists
  <2> QED
    BY <2>1
<1>3. Walk' = SubSeq(Walk, 1, i - 1) \o SubSeq(Walk, i + 1, Len(Walk))
  <2>1. Lists(SubSeq(Walk, 1, i - 1) \o SubSeq(Walk, i + 1, Len(Walk)), live \ {s})
    BY <1>2, ListsRemove DEF Registered
  <2>2. Lists(Walk', live \ {s})
    BY <1>1 DEF Registered
  <2> QED
    BY <2>1, <2>2, ListsUnique
<1>4. Indexed' = Indexed \ {Walk[i]}
  BY <1>1, <1>2 DEF Registered, AddressesStay
<1>5. Registry!Drop(i)
  BY <1>3, <1>4 DEF Registry!Drop, Indexed
<1> QED
  BY <1>5

\* The list as the registry reads it is what the invariants of the list say.
LEMMA RegisteredAre ==
  ListInv /\ HashIndexesLive /\ NextAhead => Registered
BY WalkLists, IndexedAre DEF ListInv, Registered

LEMMA RegistryInit ==
  ASSUME InitList, Registered
  PROVE  Registry!Init
<1>1. live = {} /\ Indexed = {}
  BY DEF InitList, Registered
<1>2. Lists(<<>>, {})
  BY DEF Lists, Increasing
<1>3. Walk = <<>>
  BY <1>1, <1>2, ListsUnique DEF Registered
<1> QED
  BY <1>1, <1>3 DEF Registry!Init, Indexed

LEMMA RegistryStep ==
  ASSUME ListInv, Registered, Registered', [NextList]_vars
  PROVE  [Registry!Next]_<<Walk, Indexed>>
<1>1. TypeOK /\ AddressesStay
  BY StepKinds DEF ListInv
<1>2. CASE ServersStay
  BY <1>1, <1>2, RegistryStays
<1>3. CASE ServerAdded
  BY <1>1, <1>3, RegistryAdds DEF Registry!Next
<1>4. CASE ServerDropped
  BY <1>1, <1>4, RegistryDrops DEF Registry!Next
<1> QED
  BY <1>2, <1>3, <1>4, StepKinds

\* The doubly linked list that add_qserver and free_server keep, walked by its next
\* pointers, and server_hash beside it are a registry: a server is appended, or one
\* is taken out and the others keep their order, and the index follows.
THEOREM ListRefinesRegistry ==
  ASSUME NoUnresolvedRange
  PROVE  ListSpec => ImplementsRegistry
<1>1. InitList => NextAhead
  BY DEF InitList, NextAhead
<1>2. ListInv /\ NextAhead /\ [NextList]_vars => NextAhead'
  BY AheadKept
<1>3. ListInv /\ HashIndexesLive /\ NextAhead => Registered
  BY RegisteredAre
<1>4. InitList /\ Registered => Registry!Init
  BY RegistryInit
<1>5. ListInv /\ Registered /\ Registered' /\ [NextList]_vars => [Registry!Next]_<<Walk, Indexed>>
  BY RegistryStep
<1>6. Indexed = UNION {{hash[b][i] : i \in DOMAIN hash[b]} \ {0} : b \in DOMAIN hash}
  BY DEF Indexed
<1> QED
  BY <1>1, <1>2, <1>3, <1>4, <1>5, ListInvariant, HashExact, PTL
     DEF ListSpec, ImplementsRegistry, Registry!Spec, Indexed

=============================================================================

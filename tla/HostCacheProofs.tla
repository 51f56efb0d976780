-------------------------- MODULE HostCacheProofs --------------------------
(***************************************************************************)
(* The table of hcache.c is sound, answers what the resolver would, and    *)
(* its file keeps what a run was told, over any number of runs that end or *)
(* are killed: for any hosts, addresses, resolver, files and sizes.        *)
(*                                                                         *)
(* Names are added by folds of the community modules, which are recursive  *)
(* functions over the sets of a sequence's positions.  What they compute   *)
(* is proved by induction with least elements (NatLessThanWellFounded).    *)
(***************************************************************************)
EXTENDS HostCache, SequenceTheorems, FiniteSetTheorems, WellFoundedInduction, TLAPS

Entries == [ip : Ips, names : Seq(Hosts)]

\* What hcache_open may find in a file that write_file wrote, and what the table is
\* at all times: an address has one entry, with no name twice and not too many.
GoodNames(e) == Len(e.names) <= MaxHostNames /\ IsInjective(e.names)
OneEach(table) ==
  \A i, j \in DOMAIN table : table[i].ip # 0 /\ table[i].ip = table[j].ip => i = j
Sound(table) ==
  table \in Seq(Entries) /\ OneEach(table) /\ \A i \in DOMAIN table : GoodNames(table[i])
SoundLines(lines) == Sound(lines) /\ \A k \in DOMAIN lines : lines[k].ip # 0

Has(table, pair) ==
  \E k \in DOMAIN table :
    /\ table[k].ip = pair[2]
    /\ \/ \E j \in DOMAIN table[k].names : table[k].names[j] = pair[1]
       \/ Len(table[k].names) = MaxHostNames

\* Every name of an entry is a name of its address.
Resolved(table) ==
  \A i \in DOMAIN table : \A j \in DOMAIN table[i].names :
    resolver.address[table[i].names[j]] = table[i].ip

-----------------------------------------------------------------------------
\* The provisos, and the invariants.

\* The file of the first run is one that write_file wrote.
FilesSound == \A f \in Files : SoundLines(f)

\* gethostbyaddr and gethostbyname agree: the names of an address have it.
Consistent ==
  \A r \in Resolvers :
    /\ \A a \in Addresses : \A j \in DOMAIN r.names[a] : r.address[r.names[a][j]] = a
    /\ \A f \in Files : \A k \in DOMAIN f : \A j \in DOMAIN f[k].names : r.address[f[k].names[j]] = f[k].ip

\* There are fewer addresses than the table has room for at first: with more, a
\* name may be lost when the table moves (ReadLine).
RoomForAll == MaxEntries < FirstEntries /\ \A f \in Files : Len(f) < FirstEntries

TableInv ==
  /\ resolver \in Resolvers
  /\ SoundLines(file) /\ SoundLines(toRead) /\ Sound(hcache)
  /\ \A i \in DOMAIN hcache, k \in DOMAIN toRead : hcache[i].ip # toRead[k].ip
  /\ room \in Nat /\ Len(hcache) <= room /\ changes \in Nat /\ runs \in 1 .. MaxRuns

NamesInv == Resolved(file) /\ Resolved(toRead) /\ Resolved(hcache) /\ AnswersAsResolved

RoomInv ==
  /\ room \in {0, FirstEntries}
  /\ Len(hcache) + Len(toRead) < FirstEntries /\ Len(file) < FirstEntries

\* What this run was told, or an earlier one wrote, is in the table or will be read
\* into it; and until something changes, the table has nothing that is not in the
\* file, which need not be written then.
KeepInv ==
  /\ kept \subseteq Hosts \X Addresses /\ answered \subseteq Hosts \X Addresses
  /\ \A pair \in kept : Has(file, pair)
  /\ \A pair \in kept \cup answered : Has(hcache, pair) \/ Has(toRead, pair)
  /\ changes = 0 =>
       \A pair \in Hosts \X Addresses : Has(hcache, pair) \/ Has(toRead, pair) => Has(file, pair)

-----------------------------------------------------------------------------
\* Least and largest numbers.

LEMMA LeastNumber ==
  ASSUME NEW m \in SUBSET Nat, m # {}
  PROVE  \E i \in m : \A j \in m : i <= j
<1>1. PICK i \in m : \A j \in m : ~(<<j, i>> \in OpToRel(<, Nat))
  BY NatLessThanWellFounded, WFMin
<1>2. \A j \in m : ~(j < i)
  BY <1>1 DEF OpToRel
<1> QED
  BY <1>2

LEMMA MinIsLeast ==
  ASSUME NEW m \in SUBSET Nat, m # {}
  PROVE  Min(m) \in m /\ \A j \in m : Min(m) <= j
BY LeastNumber DEF Min

LEMMA MaxIs ==
  ASSUME NEW m \in SUBSET Nat, NEW x \in m, \A y \in m : y <= x
  PROVE  Max(m) = x
<1>1. \A y \in m : y \in Nat /\ x \in Nat
  OBVIOUS
<1>2. \E z \in m : \A y \in m : z >= y
  BY <1>1
<1>3. PICK z : z = Max(m) /\ z \in m /\ \A y \in m : z >= y
  BY <1>2 DEF Max
<1>4. z >= x /\ z <= x /\ z \in Nat /\ x \in Nat
  BY <1>1, <1>3
<1>5. z = x
  BY <1>4
<1> QED
  BY <1>3, <1>5

-----------------------------------------------------------------------------
\* A fold over a sequence is what its steps, one for each element, make of the
\* first value.

SetFold(f, m, b, G) ==
  \A s \in SUBSET (1 .. m) : f[s] = IF s = {} THEN b ELSE G[Max(s)][f[s \ {Max(s)}]]

LEMMA FoldDefined ==
  ASSUME NEW m \in Nat, NEW X, NEW b \in X, NEW G \in [1 .. m -> [X -> X]]
  PROVE  \E f \in [SUBSET (1 .. m) -> X] : SetFold(f, m, b, G)
<1> DEFINE folds(f, n) ==
             /\ f \in [SUBSET (1 .. n) -> X]
             /\ \A s \in SUBSET (1 .. n) : f[s] = IF s = {} THEN b ELSE G[Max(s)][f[s \ {Max(s)}]]
           bad == {n \in 0 .. m : ~\E f : folds(f, n)}
<1>1. \E f : folds(f, 0)
  <2>1. 1 .. 0 = {} /\ SUBSET {} = {{}}
    OBVIOUS
  <2>2. folds([s \in {{}} |-> b], 0)
    BY <2>1
  <2> QED
    BY <2>2
<1>2. ASSUME NEW n \in Nat, n < m, NEW f, folds(f, n)
      PROVE  \E g : folds(g, n + 1)
  <2> DEFINE g == [s \in SUBSET (1 .. n + 1) |-> IF n + 1 \in s THEN G[n + 1][f[s \ {n + 1}]] ELSE f[s]]
  <2>1. n + 1 \in 1 .. m /\ G[n + 1] \in [X -> X]
    BY <1>2
  <2>2. ASSUME NEW s \in SUBSET (1 .. n + 1)
        PROVE  /\ n + 1 \in s => Max(s) = n + 1 /\ s \ {n + 1} \in SUBSET (1 .. n) /\ s # {}
               /\ n + 1 \notin s => s \in SUBSET (1 .. n) /\ s \ {Max(s)} \in SUBSET (1 .. n)
               /\ s \ {n + 1} \in SUBSET (1 .. n + 1) /\ s \ {Max(s)} \in SUBSET (1 .. n + 1)
    <3>1. s \in SUBSET Nat /\ \A y \in s : y <= n + 1
      OBVIOUS
    <3>2. n + 1 \in s => Max(s) = n + 1
      BY <3>1, MaxIs
    <3>3. \A y \in 1 .. n + 1 : y # n + 1 => y \in 1 .. n
      OBVIOUS
    <3> QED
      BY <3>2, <3>3
  <2>3. g \in [SUBSET (1 .. n + 1) -> X]
    <3>1. SUFFICES ASSUME NEW s \in SUBSET (1 .. n + 1)
                   PROVE  (IF n + 1 \in s THEN G[n + 1][f[s \ {n + 1}]] ELSE f[s]) \in X
      OBVIOUS
    <3> QED
      BY <1>2, <2>1, <2>2
  <2>4. ASSUME NEW s \in SUBSET (1 .. n + 1)
        PROVE  g[s] = IF s = {} THEN b ELSE G[Max(s)][g[s \ {Max(s)}]]
    <3>1. CASE n + 1 \in s
      <4>1. Max(s) = n + 1 /\ s # {} /\ s \ {n + 1} \in SUBSET (1 .. n + 1)
        BY <2>2, <3>1
      <4>2. g[s \ {n + 1}] = f[s \ {n + 1}]
        BY <4>1
      <4>3. g[s] = G[n + 1][f[s \ {n + 1}]]
        BY <3>1
      <4> QED
        BY <4>1, <4>2, <4>3
    <3>2. CASE n + 1 \notin s
      <4>1. s \in SUBSET (1 .. n) /\ s \ {Max(s)} \in SUBSET (1 .. n + 1)
        BY <2>2, <3>2
      <4>2. g[s] = f[s] /\ g[s \ {Max(s)}] = f[s \ {Max(s)}]
        BY <3>2, <4>1
      <4> QED
        BY <1>2, <4>1, <4>2
    <3> QED
      BY <3>1, <3>2
  <2> HIDE DEF g
  <2> QED
    BY <2>3, <2>4
<1> HIDE DEF folds
<1>3. bad = {}
  <2>1. SUFFICES ASSUME bad # {}
                 PROVE  FALSE
    OBVIOUS
  <2>2. PICK n \in bad : \A k \in bad : n <= k
    <3>1. bad \in SUBSET Nat
      OBVIOUS
    <3> QED
      BY <2>1, <3>1, LeastNumber
  <2>3. n # 0
    BY <1>1, <2>2
  <2>4. n - 1 \in Nat /\ n - 1 < m /\ n - 1 \notin bad
    BY <2>2, <2>3
  <2>5. PICK f : folds(f, n - 1)
    BY <2>4
  <2>6. \E g : folds(g, (n - 1) + 1)
    BY <1>2, <2>4, <2>5
  <2> QED
    BY <2>2, <2>6
<1>4. PICK f : folds(f, m)
  BY <1>3
<1> QED
  BY <1>4 DEF folds, SetFold

\* From such a function of sets of numbers to one of numbers.
LEMMA FoldSteps ==
  ASSUME NEW m \in Nat
  PROVE  \A n \in 1 .. m : /\ 1 .. n \in SUBSET (1 .. m) /\ 1 .. n # {} /\ Max(1 .. n) = n
                           /\ (1 .. n) \ {Max(1 .. n)} = 1 .. n - 1
<1> TAKE n \in 1 .. m
<1>1. Max(1 .. n) = n
  <2>1. 1 .. n \in SUBSET Nat /\ n \in 1 .. n /\ \A y \in 1 .. n : y <= n
    OBVIOUS
  <2> QED
    BY <2>1, MaxIs
<1>2. (1 .. n) \ {n} = 1 .. n - 1
  <2>1. \A y : y \in (1 .. n) \ {n} <=> y \in 1 .. n - 1
    OBVIOUS
  <2> QED
    BY <2>1
<1> QED
  BY <1>1, <1>2

-----------------------------------------------------------------------------
\* The searches.

LEMMA FindEntryFinds ==
  ASSUME NEW table \in Seq(Entries), NEW a
  PROVE  LET i == FindEntry(table, a)
         IN  \/ i = 0 /\ \A j \in DOMAIN table : table[j].ip # a
             \/ i \in DOMAIN table /\ table[i].ip = a /\ i # 0
<1> DEFINE I == {i \in 1 .. Len(table) : table[i].ip = a}
<1>1. Len(table) \in Nat /\ DOMAIN table = 1 .. Len(table)
  OBVIOUS
<1>2. FindEntry(table, a) = IF I # {} THEN Min(I) ELSE 0
  BY DEF FindEntry, SelectInSeq
<1>3. CASE I = {}
  BY <1>1, <1>2, <1>3
<1>4. CASE I # {}
  <2>1. I \in SUBSET Nat
    BY <1>1
  <2>2. Min(I) \in I
    BY <1>4, <2>1, MinIsLeast
  <2> QED
    BY <1>1, <1>2, <1>4, <2>2
<1> QED
  BY <1>3, <1>4

LEMMA FindHostEntryFinds ==
  ASSUME NEW table \in Seq(Entries), NEW host
  PROVE  LET i == FindHostEntry(table, host)
         IN  \/ i = 0
             \/ i \in DOMAIN table /\ \E j \in DOMAIN table[i].names : table[i].names[j] = host
<1> DEFINE I == {i \in 1 .. Len(table) : \E j \in DOMAIN table[i].names : table[i].names[j] = host}
<1>1. Len(table) \in Nat /\ DOMAIN table = 1 .. Len(table)
  OBVIOUS
<1>2. FindHostEntry(table, host) = IF I # {} THEN Min(I) ELSE 0
  BY DEF FindHostEntry, SelectInSeq
<1>3. CASE I = {}
  BY <1>2, <1>3
<1>4. CASE I # {}
  <2>1. I \in SUBSET Nat
    BY <1>1
  <2>2. Min(I) \in I
    BY <1>4, <2>1, MinIsLeast
  <2> QED
    BY <1>1, <1>2, <1>4, <2>2
<1> QED
  BY <1>3, <1>4

\* An address has one entry when the search finds each entry by its address.
LEMMA OneEachFound ==
  ASSUME NEW table \in Seq(Entries)
  PROVE  OneEach(table) <=> \A i \in DOMAIN table : table[i].ip # 0 => FindEntry(table, table[i].ip) = i
<1>1. ASSUME OneEach(table), NEW i \in DOMAIN table, table[i].ip # 0
      PROVE  FindEntry(table, table[i].ip) = i
  BY <1>1, FindEntryFinds DEF OneEach
<1>2. ASSUME \A i \in DOMAIN table : table[i].ip # 0 => FindEntry(table, table[i].ip) = i
      PROVE  OneEach(table)
  BY <1>2 DEF OneEach
<1> QED
  BY <1>1, <1>2

-----------------------------------------------------------------------------
\* The names of an entry.

\* What add_hostname and init_entry do to one.
NameAdded(e, g) ==
  /\ g \in Entries /\ g.ip = e.ip
  /\ Len(e.names) <= Len(g.names) /\ Len(g.names) <= MaxHostNames
  /\ \A j \in DOMAIN e.names : j \in DOMAIN g.names /\ g.names[j] = e.names[j]

LEMMA WithNameAdds ==
  ASSUME NEW e \in Entries, NEW host \in Hosts, Len(e.names) <= MaxHostNames
  PROVE  /\ NameAdded(e, WithName(e, host))
         /\ \/ WithName(e, host) = e /\ Len(e.names) = MaxHostNames
            \/ WithName(e, host).names = Append(e.names, host) /\ Len(e.names) < MaxHostNames
<1> DEFINE g == WithName(e, host)
<1>1. e.ip \in Ips /\ e.names \in Seq(Hosts) /\ Len(e.names) \in Nat /\ MaxHostNames \in Nat
  BY HostCacheAssumption DEF Entries
<1>2. CASE Len(e.names) < MaxHostNames
  <2>1. g = [e EXCEPT !.names = Append(@, host)]
    BY <1>2 DEF WithName
  <2>2. Append(e.names, host) \in Seq(Hosts) /\ g.names = Append(e.names, host) /\ g.ip = e.ip /\ g \in Entries
    <3>1. Append(e.names, host) \in Seq(Hosts)
      BY <1>1
    <3>2. PICK names \in Seq(Hosts) : names = Append(e.names, host)
      BY <3>1
    <3>3. g = [e EXCEPT !.names = names]
      BY <2>1, <3>2
    <3>4. g \in Entries /\ g.names = names /\ g.ip = e.ip
      BY <3>3 DEF Entries
    <3> QED
      BY <3>1, <3>2, <3>4
  <2>3. /\ Len(g.names) = Len(e.names) + 1
        /\ \A j \in DOMAIN e.names : j \in DOMAIN g.names /\ g.names[j] = e.names[j]
    BY <1>1, <2>2
  <2> HIDE DEF g
  <2> QED
    BY <1>1, <1>2, <2>2, <2>3 DEF NameAdded, g
<1>3. CASE ~(Len(e.names) < MaxHostNames)
  <2>1. g = e
    BY <1>3 DEF WithName, Entries
  <2> HIDE DEF g
  <2> QED
    BY <1>1, <1>3, <2>1 DEF NameAdded, g
<1> QED
  BY <1>2, <1>3

LEMMA AddHostnameAdds ==
  ASSUME NEW e \in Entries, NEW host \in Hosts, GoodNames(e)
  PROVE  LET g == AddHostname(e, host)
         IN  /\ NameAdded(e, g) /\ GoodNames(g)
             /\ \A j \in DOMAIN g.names : g.names[j] = host \/ j \in DOMAIN e.names
             /\ (\E j \in DOMAIN g.names : g.names[j] = host) \/ Len(g.names) = MaxHostNames
<1> DEFINE g == AddHostname(e, host)
<1>1. e.names \in Seq(Hosts) /\ Len(e.names) \in Nat /\ DOMAIN e.names = 1 .. Len(e.names)
  BY DEF Entries
<1>2. CASE \E k \in DOMAIN e.names : e.names[k] = host
  BY <1>1, <1>2 DEF AddHostname, NameAdded, GoodNames
<1>3. CASE ~\E k \in DOMAIN e.names : e.names[k] = host
  <2>1. g = WithName(e, host)
    BY <1>3 DEF AddHostname
  <2> HIDE DEF g
  <2>2. NameAdded(e, g)
    BY <2>1, WithNameAdds DEF GoodNames
  <2>3. CASE g = e /\ Len(e.names) = MaxHostNames
    BY <2>2, <2>3 DEF GoodNames, g
  <2>4. CASE g.names = Append(e.names, host)
    <3>1. /\ DOMAIN g.names = 1 .. Len(e.names) + 1 /\ g.names[Len(e.names) + 1] = host
          /\ \A j \in 1 .. Len(e.names) : g.names[j] = e.names[j]
      BY <1>1, <2>4
    <3>2. \A j \in 1 .. Len(e.names) + 1 : j \in DOMAIN e.names \/ j = Len(e.names) + 1
      BY <1>1
    <3>3. IsInjective(g.names)
      BY <1>1, <1>3, <3>1, <3>2 DEF GoodNames, IsInjective
    <3>4. Len(e.names) + 1 \in DOMAIN g.names
      BY <1>1, <3>1
    <3> QED
      BY <2>2, <3>1, <3>2, <3>3, <3>4 DEF NameAdded, GoodNames, g
  <2> QED
    BY <2>1, <2>3, <2>4, WithNameAdds DEF GoodNames
<1> QED
  BY <1>2, <1>3

-----------------------------------------------------------------------------
\* The three folds.

LEMMA MaxIsIn ==
  ASSUME NEW m \in Nat, NEW s \in SUBSET (1 .. m), s # {}
  PROVE  Max(s) \in s
<1> DEFINE up == {m - x : x \in s}
<1>1. up \in SUBSET Nat /\ up # {}
  <2>1. \A x \in s : m - x \in Nat
    OBVIOUS
  <2> QED
    BY <2>1
<1>2. PICK k \in up : \A j \in up : k <= j
  BY <1>1, LeastNumber
<1>3. PICK x \in s : k = m - x
  BY <1>2
<1>4. \A y \in s : m - x <= m - y /\ x \in Nat /\ y \in Nat
  BY <1>2, <1>3
<1>5. \A y \in s : y <= x
  BY <1>4
<1> QED
  BY <1>5, MaxIs

Named == {e \in Entries : Len(e.names) <= MaxHostNames}
Good == {e \in Entries : GoodNames(e)}

LEMMA AddHostnamesSteps ==
  ASSUME NEW base \in Good, NEW seq \in Seq(Hosts)
  PROVE  \E g : /\ g[0] = base /\ g[Len(seq)] = AddHostnames(base, seq)
               /\ \A n \in 1 .. Len(seq) : g[n] = AddHostname(g[n - 1], seq[n])
<1> DEFINE m == Len(seq)
           G == [n \in 1 .. m |-> [x \in Good |-> AddHostname(x, seq[n])]]
           folds(w) == w = [s \in SUBSET DOMAIN seq |->
                              IF s = {} THEN base ELSE AddHostname(w[s \ {Max(s)}], seq[Max(s)])]
<1>1. m \in Nat /\ DOMAIN seq = 1 .. m
  OBVIOUS
<1>2. G \in [1 .. m -> [Good -> Good]]
  <2>1. SUFFICES ASSUME NEW n \in 1 .. m, NEW x \in Good
                 PROVE  AddHostname(x, seq[n]) \in Good
    OBVIOUS
  <2>2. seq[n] \in Hosts
    BY <1>1
  <2>3. NameAdded(x, AddHostname(x, seq[n])) /\ GoodNames(AddHostname(x, seq[n]))
    BY <2>2, AddHostnameAdds DEF Good
  <2> QED
    BY <2>3 DEF NameAdded, Good
<1>3. \E v : folds(v)
  <2>1. PICK f \in [SUBSET (1 .. m) -> Good] :
          SetFold(f, m, base, G)
    <3> HIDE DEF G, m
    <3> QED
      BY <1>1, <1>2, FoldDefined
  <2>2. ASSUME NEW s \in SUBSET (1 .. m), s # {}
        PROVE  G[Max(s)][f[s \ {Max(s)}]] = AddHostname(f[s \ {Max(s)}], seq[Max(s)])
    <3>1. Max(s) \in 1 .. m
      BY <1>1, <2>2, MaxIsIn
    <3>2. f[s \ {Max(s)}] \in Good
      BY <2>1
    <3> QED
      BY <3>1, <3>2
  <2> HIDE DEF G
  <2>3. folds(f)
    BY <1>1, <2>1, <2>2 DEF SetFold
  <2> QED
    BY <2>3
<1>4. PICK w : folds(w) /\ w[DOMAIN seq] = AddHostnames(base, seq)
  BY <1>3 DEF AddHostnames, FoldLeft, MapThenFoldSet
<1> DEFINE g == [n \in 0 .. m |-> w[1 .. n]]
<1> HIDE DEF G, m
<1>5. ASSUME NEW n \in 1 .. m
      PROVE  w[1 .. n] = AddHostname(w[1 .. n - 1], seq[n])
  <2>1. 1 .. n \in SUBSET (1 .. m) /\ 1 .. n # {} /\ Max(1 .. n) = n /\ (1 .. n) \ {Max(1 .. n)} = 1 .. n - 1
    BY <1>1, FoldSteps
  <2>2. w[1 .. n] = AddHostname(w[(1 .. n) \ {Max(1 .. n)}], seq[Max(1 .. n)])
    BY <1>1, <1>4, <2>1
  <2> QED
    BY <2>1, <2>2
<1>6. w[1 .. 0] = base
  <2>1. 1 .. 0 = {}
    OBVIOUS
  <2>2. w[{}] = base
    BY <1>1, <1>4
  <2> QED
    BY <2>1, <2>2
<1>7. g[0] = base /\ g[m] = AddHostnames(base, seq) /\ \A n \in 1 .. m : g[n] = AddHostname(g[n - 1], seq[n])
  <2>1. 0 \in 0 .. m /\ m \in 0 .. m /\ \A n \in 1 .. m : n \in 0 .. m /\ n - 1 \in 0 .. m
    BY <1>1
  <2> QED
    BY <1>1, <1>4, <1>5, <1>6, <2>1
<1> QED
  BY <1>7 DEF m

LEMMA LineNamesSteps ==
  ASSUME NEW base \in Named, NEW seq \in Seq(Hosts)
  PROVE  \E g : /\ g[0] = base /\ g[Len(seq)] = LineNames(base, seq)
               /\ \A n \in 1 .. Len(seq) : g[n] = WithName(g[n - 1], seq[n])
<1> DEFINE m == Len(seq)
           G == [n \in 1 .. m |-> [x \in Named |-> WithName(x, seq[n])]]
           folds(w) == w = [s \in SUBSET DOMAIN seq |->
                              IF s = {} THEN base ELSE WithName(w[s \ {Max(s)}], seq[Max(s)])]
<1>1. m \in Nat /\ DOMAIN seq = 1 .. m
  OBVIOUS
<1>2. G \in [1 .. m -> [Named -> Named]]
  <2>1. SUFFICES ASSUME NEW n \in 1 .. m, NEW x \in Named
                 PROVE  WithName(x, seq[n]) \in Named
    OBVIOUS
  <2>2. seq[n] \in Hosts
    BY <1>1
  <2>3. NameAdded(x, WithName(x, seq[n]))
    BY <2>2, WithNameAdds DEF Named
  <2> QED
    BY <2>3 DEF NameAdded, Named
<1>3. \E v : folds(v)
  <2>1. PICK f \in [SUBSET (1 .. m) -> Named] :
          SetFold(f, m, base, G)
    <3> HIDE DEF G, m
    <3> QED
      BY <1>1, <1>2, FoldDefined
  <2>2. ASSUME NEW s \in SUBSET (1 .. m), s # {}
        PROVE  G[Max(s)][f[s \ {Max(s)}]] = WithName(f[s \ {Max(s)}], seq[Max(s)])
    <3>1. Max(s) \in 1 .. m
      BY <1>1, <2>2, MaxIsIn
    <3>2. f[s \ {Max(s)}] \in Named
      BY <2>1
    <3> QED
      BY <3>1, <3>2
  <2> HIDE DEF G
  <2>3. folds(f)
    BY <1>1, <2>1, <2>2 DEF SetFold
  <2> QED
    BY <2>3
<1>4. PICK w : folds(w) /\ w[DOMAIN seq] = LineNames(base, seq)
  BY <1>3 DEF LineNames, FoldLeft, MapThenFoldSet
<1> DEFINE g == [n \in 0 .. m |-> w[1 .. n]]
<1> HIDE DEF G, m
<1>5. ASSUME NEW n \in 1 .. m
      PROVE  w[1 .. n] = WithName(w[1 .. n - 1], seq[n])
  <2>1. 1 .. n \in SUBSET (1 .. m) /\ 1 .. n # {} /\ Max(1 .. n) = n /\ (1 .. n) \ {Max(1 .. n)} = 1 .. n - 1
    BY <1>1, FoldSteps
  <2>2. w[1 .. n] = WithName(w[(1 .. n) \ {Max(1 .. n)}], seq[Max(1 .. n)])
    BY <1>1, <1>4, <2>1
  <2> QED
    BY <2>1, <2>2
<1>6. w[1 .. 0] = base
  <2>1. 1 .. 0 = {}
    OBVIOUS
  <2>2. w[{}] = base
    BY <1>1, <1>4
  <2> QED
    BY <2>1, <2>2
<1>7. g[0] = base /\ g[m] = LineNames(base, seq) /\ \A n \in 1 .. m : g[n] = WithName(g[n - 1], seq[n])
  <2>1. 0 \in 0 .. m /\ m \in 0 .. m /\ \A n \in 1 .. m : n \in 0 .. m /\ n - 1 \in 0 .. m
    BY <1>1
  <2> QED
    BY <1>1, <1>4, <1>5, <1>6, <2>1
<1> QED
  BY <1>7 DEF m

LEMMA WrittenSteps ==
  ASSUME NEW seq \in Seq(Entries)
  PROVE  \E g : /\ g[0] = <<>> /\ g[Len(seq)] = Written(seq)
               /\ \A n \in 1 .. Len(seq) : g[n] = WriteLine(g[n - 1], seq[n])
<1> DEFINE m == Len(seq)
           G == [n \in 1 .. m |-> [x \in Seq(Entries) |-> WriteLine(x, seq[n])]]
           folds(w) == w = [s \in SUBSET DOMAIN seq |->
                              IF s = {} THEN <<>> ELSE WriteLine(w[s \ {Max(s)}], seq[Max(s)])]
<1>1. m \in Nat /\ DOMAIN seq = 1 .. m
  OBVIOUS
<1>2. G \in [1 .. m -> [Seq(Entries) -> Seq(Entries)]]
  <2>1. SUFFICES ASSUME NEW n \in 1 .. m, NEW x \in Seq(Entries)
                 PROVE  WriteLine(x, seq[n]) \in Seq(Entries)
    OBVIOUS
  <2>2. seq[n] \in Entries
    BY <1>1
  <2> QED
    BY <2>2 DEF WriteLine
<1>3. \E v : folds(v)
  <2>1. PICK f \in [SUBSET (1 .. m) -> Seq(Entries)] :
          SetFold(f, m, <<>>, G)
    <3>1. <<>> \in Seq(Entries)
      OBVIOUS
    <3> HIDE DEF G, m
    <3> QED
      BY <1>1, <1>2, <3>1, FoldDefined
  <2>2. ASSUME NEW s \in SUBSET (1 .. m), s # {}
        PROVE  G[Max(s)][f[s \ {Max(s)}]] = WriteLine(f[s \ {Max(s)}], seq[Max(s)])
    <3>1. Max(s) \in 1 .. m
      BY <1>1, <2>2, MaxIsIn
    <3>2. f[s \ {Max(s)}] \in Seq(Entries)
      BY <2>1
    <3> QED
      BY <3>1, <3>2
  <2> HIDE DEF G
  <2>3. folds(f)
    BY <1>1, <2>1, <2>2 DEF SetFold
  <2> QED
    BY <2>3
<1>4. PICK w : folds(w) /\ w[DOMAIN seq] = Written(seq)
  BY <1>3 DEF Written, FoldLeft, MapThenFoldSet
<1> DEFINE g == [n \in 0 .. m |-> w[1 .. n]]
<1> HIDE DEF G, m
<1>5. ASSUME NEW n \in 1 .. m
      PROVE  w[1 .. n] = WriteLine(w[1 .. n - 1], seq[n])
  <2>1. 1 .. n \in SUBSET (1 .. m) /\ 1 .. n # {} /\ Max(1 .. n) = n /\ (1 .. n) \ {Max(1 .. n)} = 1 .. n - 1
    BY <1>1, FoldSteps
  <2>2. w[1 .. n] = WriteLine(w[(1 .. n) \ {Max(1 .. n)}], seq[Max(1 .. n)])
    BY <1>1, <1>4, <2>1
  <2> QED
    BY <2>1, <2>2
<1>6. w[1 .. 0] = <<>>
  <2>1. 1 .. 0 = {}
    OBVIOUS
  <2>2. w[{}] = <<>>
    BY <1>1, <1>4
  <2> QED
    BY <2>1, <2>2
<1>7. g[0] = <<>> /\ g[m] = Written(seq) /\ \A n \in 1 .. m : g[n] = WriteLine(g[n - 1], seq[n])
  <2>1. 0 \in 0 .. m /\ m \in 0 .. m /\ \A n \in 1 .. m : n \in 0 .. m /\ n - 1 \in 0 .. m
    BY <1>1
  <2> QED
    BY <1>1, <1>4, <1>5, <1>6, <2>1
<1> QED
  BY <1>7 DEF m

-----------------------------------------------------------------------------
\* What the folds return.

\* Adding names keeps the ones that are there, and adds none but those.
LEMMA HostnamesAdded ==
  ASSUME NEW e \in Entries, NEW hosts \in Seq(Hosts), GoodNames(e)
  PROVE  LET g == AddHostnames(e, hosts)
         IN  /\ NameAdded(e, g) /\ GoodNames(g)
             /\ \A j \in DOMAIN g.names : j \in DOMAIN e.names \/ \E k \in DOMAIN hosts : g.names[j] = hosts[k]
<1> DEFINE m == Len(hosts)
           Adds(g) == /\ NameAdded(e, g) /\ GoodNames(g)
                      /\ \A j \in DOMAIN g.names :
                           j \in DOMAIN e.names \/ \E k \in DOMAIN hosts : g.names[j] = hosts[k]
<1>1. m \in Nat /\ DOMAIN hosts = 1 .. m /\ e \in Good
  BY DEF Good
<1>2. PICK g : g[0] = e /\ g[m] = AddHostnames(e, hosts) /\ \A n \in 1 .. m : g[n] = AddHostname(g[n - 1], hosts[n])
  BY <1>1, AddHostnamesSteps
<1> HIDE DEF m
<1>3. Adds(e)
  <2>1. e.names \in Seq(Hosts) /\ e \in Entries
    BY DEF Entries
  <2>2. Len(e.names) \in Nat
    BY <2>1
  <2> QED
    BY <2>1, <2>2 DEF NameAdded, GoodNames
<1>4. ASSUME NEW n \in 1 .. m, Adds(g[n - 1])
      PROVE  Adds(g[n])
  <2> DEFINE x == g[n - 1]
             y == g[n]
  <2>1. hosts[n] \in Hosts /\ y = AddHostname(x, hosts[n]) /\ n \in DOMAIN hosts
    BY <1>1, <1>2
  <2> HIDE DEF x, y
  <2>2. x \in Entries /\ GoodNames(x) /\ Adds(x)
    BY <1>4 DEF NameAdded, x
  <2>3. /\ NameAdded(x, y) /\ GoodNames(y)
        /\ \A j \in DOMAIN y.names : y.names[j] = hosts[n] \/ j \in DOMAIN x.names
    BY <2>1, <2>2, AddHostnameAdds
  <2>4. /\ Len(e.names) \in Nat /\ Len(x.names) \in Nat /\ Len(y.names) \in Nat /\ MaxHostNames \in Nat
    <3>1. e.names \in Seq(Hosts) /\ x.names \in Seq(Hosts) /\ y.names \in Seq(Hosts)
      BY <2>2, <2>3 DEF Entries, NameAdded
    <3> QED
      BY <3>1, HostCacheAssumption
  <2>5. NameAdded(e, y)
    <3>1. y \in Entries /\ y.ip = e.ip
      BY <2>2, <2>3 DEF NameAdded
    <3>2. Len(e.names) <= Len(y.names) /\ Len(y.names) <= MaxHostNames
      BY <2>2, <2>3, <2>4 DEF NameAdded
    <3>3. \A j \in DOMAIN e.names : j \in DOMAIN y.names /\ y.names[j] = e.names[j]
      BY <2>2, <2>3 DEF NameAdded
    <3> QED
      BY <3>1, <3>2, <3>3 DEF NameAdded
  <2>6. ASSUME NEW j \in DOMAIN y.names
        PROVE  j \in DOMAIN e.names \/ \E k \in DOMAIN hosts : y.names[j] = hosts[k]
    <3>1. CASE y.names[j] = hosts[n]
      BY <2>1, <3>1
    <3>2. CASE j \in DOMAIN x.names
      <4>1. y.names[j] = x.names[j]
        BY <2>3, <3>2 DEF NameAdded
      <4> QED
        BY <2>2, <3>2, <4>1
    <3> QED
      BY <2>3, <3>1, <3>2
  <2>7. Adds(y)
    BY <2>3, <2>5, <2>6
  <2> QED
    BY <2>7 DEF y
<1> HIDE DEF Adds
<1>5. \A n \in 0 .. m : Adds(g[n])
  <2> DEFINE bad == {n \in 0 .. m : ~Adds(g[n])}
  <2>1. SUFFICES ASSUME bad # {}
                 PROVE  FALSE
    OBVIOUS
  <2>2. PICK n \in bad : \A k \in bad : n <= k
    <3>1. bad \in SUBSET Nat
      BY <1>1
    <3> QED
      BY <2>1, <3>1, LeastNumber
  <2>3. n # 0
    BY <1>2, <1>3, <2>2
  <2>4. n \in 1 .. m /\ n - 1 \notin bad /\ n - 1 \in 0 .. m
    BY <1>1, <2>2, <2>3
  <2> QED
    BY <1>4, <2>2, <2>4
<1>6. Adds(AddHostnames(e, hosts))
  <2>1. m \in 0 .. m
    BY <1>1
  <2> QED
    BY <1>2, <1>5, <2>1
<1> QED
  BY <1>6 DEF Adds

\* The names of a line of a sound file are all the names of its new entry.
LEMMA LineRead ==
  ASSUME NEW a \in Ips, NEW hosts \in Seq(Hosts), Len(hosts) <= MaxHostNames
  PROVE  LineNames([ip |-> a, names |-> <<>>], hosts) = [ip |-> a, names |-> hosts]
<1> DEFINE m == Len(hosts)
           e == [ip |-> a, names |-> <<>>]
           to(n) == [ip |-> a, names |-> SubSeq(hosts, 1, n)]
<1>1. m \in Nat /\ DOMAIN hosts = 1 .. m /\ e \in Named
  BY HostCacheAssumption DEF Named, Entries
<1>2. PICK g : g[0] = e /\ g[m] = LineNames(e, hosts) /\ \A n \in 1 .. m : g[n] = WithName(g[n - 1], hosts[n])
  BY <1>1, LineNamesSteps
<1>3. to(0) = e /\ to(m) = [ip |-> a, names |-> hosts]
  <2>1. SubSeq(hosts, 1, 0) = <<>> /\ SubSeq(hosts, 1, m) = hosts
    OBVIOUS
  <2> QED
    BY <2>1
<1>4. ASSUME NEW n \in 1 .. m
      PROVE  to(n) = WithName(to(n - 1), hosts[n])
  <2>1. /\ SubSeq(hosts, 1, n - 1) \in Seq(Hosts) /\ Len(SubSeq(hosts, 1, n - 1)) = n - 1
        /\ SubSeq(hosts, 1, n) = Append(SubSeq(hosts, 1, n - 1), hosts[n])
    BY <1>1
  <2>2. n - 1 < MaxHostNames
    BY <1>1, HostCacheAssumption
  <2>3. PICK s : s = SubSeq(hosts, 1, n - 1)
    OBVIOUS
  <2>4. WithName([ip |-> a, names |-> s], hosts[n]) = [ip |-> a, names |-> Append(s, hosts[n])]
    <3>1. Len(s) < MaxHostNames
      BY <2>1, <2>2, <2>3
    <3>2. PICK x : x = [ip |-> a, names |-> s]
      OBVIOUS
    <3>3. x.names = s /\ WithName(x, hosts[n]) = [x EXCEPT !.names = Append(@, hosts[n])]
      BY <3>1, <3>2 DEF WithName
    <3>4. PICK z : z = Append(s, hosts[n])
      OBVIOUS
    <3>5. WithName(x, hosts[n]) = [x EXCEPT !.names = z]
      BY <3>3, <3>4
    <3>6. [x EXCEPT !.names = z] = [ip |-> a, names |-> z]
      BY <3>2
    <3> QED
      BY <3>2, <3>4, <3>5, <3>6
  <2> QED
    BY <2>1, <2>3, <2>4
<1> HIDE DEF to, m, e
<1>5. \A n \in 0 .. m : g[n] = to(n)
  <2> DEFINE bad == {n \in 0 .. m : g[n] # to(n)}
  <2>1. SUFFICES ASSUME bad # {}
                 PROVE  FALSE
    OBVIOUS
  <2>2. PICK n \in bad : \A k \in bad : n <= k
    <3>1. bad \in SUBSET Nat
      BY <1>1
    <3> QED
      BY <2>1, <3>1, LeastNumber
  <2>3. n # 0
    BY <1>2, <1>3, <2>2
  <2>4. n \in 1 .. m /\ n - 1 \notin bad /\ n - 1 \in 0 .. m
    BY <1>1, <2>2, <2>3
  <2> QED
    BY <1>2, <1>4, <2>2, <2>4
<1>6. g[m] = to(m)
  BY <1>1, <1>5
<1> QED
  BY <1>2, <1>3, <1>6 DEF e

\* What is written are the entries with an address, in the order of the table.
LEMMA WrittenLines ==
  ASSUME NEW table, Sound(table)
  PROVE  LET lines == Written(table)
         IN  /\ SoundLines(lines) /\ Len(lines) <= Len(table)
             /\ \A k \in DOMAIN lines : \E i \in DOMAIN table : lines[k] = table[i]
             /\ \A i \in DOMAIN table : table[i].ip # 0 => \E k \in DOMAIN lines : lines[k] = table[i]
<1> DEFINE m == Len(table)
           From(lines, n) ==
             /\ lines \in Seq(Entries) /\ Len(lines) <= n
             /\ \A k \in DOMAIN lines : \E i \in 1 .. n : lines[k] = table[i]
             /\ \A i \in 1 .. n : table[i].ip # 0 => \E k \in DOMAIN lines : lines[k] = table[i]
             /\ \A k \in DOMAIN lines : lines[k].ip # 0
             /\ OneEach(lines)
<1>1. /\ m \in Nat /\ DOMAIN table = 1 .. m /\ table \in Seq(Entries)
      /\ \A i \in 1 .. m : table[i] \in Entries
      /\ \A i, j \in 1 .. m : table[i].ip # 0 /\ table[i].ip = table[j].ip => i = j
  BY DEF Sound, OneEach
<1>2. PICK g : g[0] = <<>> /\ g[m] = Written(table) /\ \A n \in 1 .. m : g[n] = WriteLine(g[n - 1], table[n])
  BY <1>1, WrittenSteps
<1> HIDE DEF m
<1>3. From(<<>>, 0)
  BY DEF OneEach
<1>4. ASSUME NEW n \in 1 .. m, NEW lines, From(lines, n - 1)
      PROVE  From(WriteLine(lines, table[n]), n)
  <2> DEFINE e == table[n]
             l == Len(lines)
  <2>1. /\ n \in Nat /\ n - 1 \in Nat /\ l \in Nat /\ DOMAIN lines = 1 .. l /\ l <= n - 1 /\ lines \in Seq(Entries)
        /\ \A i \in 1 .. n : i \in 1 .. n - 1 \/ i = n
        /\ \A i \in 1 .. n - 1 : i \in 1 .. n /\ i # n
    BY <1>1, <1>4
  <2>2. /\ \A k \in 1 .. l : \E i \in 1 .. n - 1 : lines[k] = table[i]
        /\ \A i \in 1 .. n - 1 : table[i].ip # 0 => \E k \in 1 .. l : lines[k] = table[i]
        /\ \A k \in 1 .. l : lines[k].ip # 0
        /\ \A i, j \in 1 .. l : lines[i].ip # 0 /\ lines[i].ip = lines[j].ip => i = j
    BY <1>4, <2>1 DEF OneEach
  <2>3. CASE e.ip = 0
    <3>1. WriteLine(lines, table[n]) = lines
      BY <2>3 DEF WriteLine
    <3>2. l <= n
      BY <2>1
    <3>3. \A i \in 1 .. n : table[i].ip # 0 => \E k \in DOMAIN lines : lines[k] = table[i]
      BY <2>1, <2>2, <2>3
    <3>4. \A k \in DOMAIN lines : \E i \in 1 .. n : lines[k] = table[i]
      BY <2>1, <2>2
    <3> QED
      BY <1>4, <2>1, <2>2, <3>1, <3>2, <3>3, <3>4
  <2>4. CASE e.ip # 0
    <3> DEFINE a == Append(lines, e)
    <3>1. WriteLine(lines, table[n]) = a
      BY <2>4 DEF WriteLine
    <3>2. /\ a \in Seq(Entries) /\ Len(a) = l + 1 /\ DOMAIN a = 1 .. l + 1 /\ a[l + 1] = e
          /\ \A k \in 1 .. l : a[k] = lines[k]
      BY <1>1, <2>1
    <3>3. \A k \in 1 .. l + 1 : k \in 1 .. l \/ k = l + 1
      BY <2>1
    <3>4. \A k \in 1 .. l : k \in 1 .. l + 1
      BY <2>1
    <3>5. l + 1 \in 1 .. l + 1 /\ l + 1 <= n /\ n \in 1 .. n
      BY <2>1
    <3>6. \A k \in 1 .. l : lines[k].ip # e.ip
      <4>1. ASSUME NEW k \in 1 .. l
            PROVE  lines[k].ip # e.ip
        <5>1. PICK i \in 1 .. n - 1 : lines[k] = table[i]
          BY <2>2
        <5>2. i \in 1 .. m /\ i # n
          BY <1>1, <2>1, <5>1
        <5> QED
          BY <1>1, <2>4, <5>1, <5>2
      <4> QED
        BY <4>1
    <3> HIDE DEF a, e, l
    <3>7. \A k \in 1 .. l + 1 : \E i \in 1 .. n : a[k] = table[i]
      <4>1. ASSUME NEW k \in 1 .. l + 1
            PROVE  \E i \in 1 .. n : a[k] = table[i]
        <5>1. CASE k \in 1 .. l
          <6>1. a[k] = lines[k] /\ \E i \in 1 .. n - 1 : lines[k] = table[i]
            BY <2>2, <3>2, <5>1
          <6> QED
            BY <2>1, <6>1
        <5>2. CASE k = l + 1
          BY <3>2, <3>5, <5>2 DEF e
        <5> QED
          BY <3>3, <5>1, <5>2
      <4> QED
        BY <4>1
    <3>8. \A i \in 1 .. n : table[i].ip # 0 => \E k \in 1 .. l + 1 : a[k] = table[i]
      <4>1. ASSUME NEW i \in 1 .. n, table[i].ip # 0
            PROVE  \E k \in 1 .. l + 1 : a[k] = table[i]
        <5>1. CASE i \in 1 .. n - 1
          <6>1. PICK k \in 1 .. l : lines[k] = table[i]
            BY <2>2, <4>1, <5>1
          <6> QED
            BY <3>2, <3>4, <6>1
        <5>2. CASE i = n
          BY <3>2, <3>5, <5>2 DEF e
        <5> QED
          BY <2>1, <5>1, <5>2
      <4> QED
        BY <4>1
    <3>9. \A k \in 1 .. l + 1 : a[k].ip # 0
      BY <2>2, <2>4, <3>2, <3>3
    <3>10. \A i, j \in 1 .. l + 1 : a[i].ip = a[j].ip => i = j
      BY <2>2, <3>2, <3>3, <3>6
    <3> QED
      BY <3>1, <3>2, <3>5, <3>7, <3>8, <3>9, <3>10 DEF OneEach
  <2> QED
    BY <2>3, <2>4
<1> HIDE DEF From
<1>5. \A n \in 0 .. m : From(g[n], n)
  <2> DEFINE bad == {n \in 0 .. m : ~From(g[n], n)}
  <2>1. SUFFICES ASSUME bad # {}
                 PROVE  FALSE
    OBVIOUS
  <2>2. PICK n \in bad : \A k \in bad : n <= k
    <3>1. bad \in SUBSET Nat
      BY <1>1
    <3> QED
      BY <2>1, <3>1, LeastNumber
  <2>3. n # 0
    BY <1>2, <1>3, <2>2
  <2>4. n \in 1 .. m /\ n - 1 \notin bad /\ n - 1 \in 0 .. m
    BY <1>1, <2>2, <2>3
  <2>5. From(g[n], n)
    BY <1>2, <1>4, <2>4
  <2> QED
    BY <2>2, <2>5
<1>6. From(Written(table), m)
  BY <1>1, <1>2, <1>5
<1>7. \A k \in DOMAIN Written(table) : GoodNames(Written(table)[k])
  BY <1>1, <1>6 DEF From, Sound
<1> QED
  BY <1>1, <1>6, <1>7 DEF From, Sound, SoundLines, m

-----------------------------------------------------------------------------
\* The invariants say what the properties do, and the table grows soundly.

LEMMA TableTypes ==
  ASSUME TableInv
  PROVE  HostCacheTypeOK
<1>1. hcache \in Seq(Entries) /\ OneEach(hcache) /\ \A i \in DOMAIN hcache : GoodNames(hcache[i])
  BY DEF TableInv, Sound
<1>2. \A i \in DOMAIN hcache : hcache[i].ip # 0 => FindEntry(hcache, hcache[i].ip) = i
  BY <1>1, OneEachFound
<1> QED
  BY <1>1, <1>2 DEF TableInv, HostCacheTypeOK, GoodNames, Entries

-----------------------------------------------------------------------------
\* A lookup that is not answered from the table adds an entry to it, and names to
\* at most one other.

Extends(table, new) ==
  /\ Len(new) = Len(table) + 1
  /\ \A i \in DOMAIN table : NameAdded(table[i], new[i])

\* The entries of addresses in the new table are the ones it had, unless the one it
\* did not have is the entry that was added.
LEMMA ExtendedSound ==
  ASSUME NEW table, Sound(table), NEW new \in Seq(Entries), Extends(table, new),
         \A i \in DOMAIN new : GoodNames(new[i]),
         LET n == Len(new) IN new[n].ip = 0 \/ \A i \in DOMAIN table : table[i].ip # new[n].ip
  PROVE  Sound(new)
<1> DEFINE n == Len(new)
<1>1. /\ Len(table) \in Nat /\ DOMAIN table = 1 .. Len(table) /\ DOMAIN new = 1 .. n /\ n = Len(table) + 1
      /\ \A i \in DOMAIN table : new[i].ip = table[i].ip
  BY DEF Sound, Extends, NameAdded
<1> HIDE DEF n
<1>2. \A i \in DOMAIN new : i \in DOMAIN table \/ i = n
  BY <1>1
<1>3. \A i, j \in DOMAIN table : table[i].ip # 0 /\ table[i].ip = table[j].ip => i = j
  BY DEF Sound, OneEach
<1>4. new[n].ip = 0 \/ \A i \in DOMAIN table : table[i].ip # new[n].ip
  BY DEF n
<1>5. ASSUME NEW i \in DOMAIN new, NEW j \in DOMAIN new, new[i].ip # 0, new[i].ip = new[j].ip
      PROVE  i = j
  BY <1>1, <1>2, <1>3, <1>4, <1>5
<1> QED
  BY <1>5 DEF Sound, OneEach

LEMMA ExtendedHas ==
  ASSUME NEW table, Sound(table), NEW new \in Seq(Entries), Extends(table, new),
         NEW pair, Has(table, pair)
  PROVE  Has(new, pair)
<1>1. PICK k \in DOMAIN table :
        /\ table[k].ip = pair[2]
        /\ \/ \E j \in DOMAIN table[k].names : table[k].names[j] = pair[1]
           \/ Len(table[k].names) = MaxHostNames
  BY DEF Has
<1>2. k \in DOMAIN new
  <2>1. Len(table) \in Nat /\ DOMAIN table = 1 .. Len(table) /\ DOMAIN new = 1 .. Len(new) /\ Len(new) = Len(table) + 1
    BY DEF Sound, Extends
  <2> QED
    BY <2>1
<1>3. NameAdded(table[k], new[k])
  BY DEF Extends
<1>4. Len(table[k].names) = MaxHostNames => Len(new[k].names) = MaxHostNames
  <2>1. new[k].names \in Seq(Hosts)
    BY <1>3 DEF NameAdded, Entries
  <2>2. Len(new[k].names) \in Nat /\ MaxHostNames \in Nat
    BY <2>1, HostCacheAssumption
  <2> QED
    BY <1>3, <2>2 DEF NameAdded
<1> QED
  BY <1>1, <1>2, <1>3, <1>4 DEF Has, NameAdded

LEMMA SameNames ==
  ASSUME NEW e \in Entries, GoodNames(e)
  PROVE  NameAdded(e, e)
<1>1. e.names \in Seq(Hosts)
  BY DEF Entries
<1> QED
  BY <1>1 DEF NameAdded, GoodNames

\* All the names of e are names of its address.
Own(e) == \A j \in DOMAIN e.names : resolver.address[e.names[j]] = e.ip

LEMMA OwnNamesAdded ==
  ASSUME Consistent, resolver \in Resolvers, NEW e \in Entries, GoodNames(e), Own(e), e.ip # 0
  PROVE  Own(AddHostnames(e, resolver.names[e.ip]))
<1> DEFINE g == AddHostnames(e, resolver.names[e.ip])
<1>1. e.ip \in Addresses /\ resolver.names[e.ip] \in Seq(Hosts)
  BY HostCacheAssumption DEF Entries, Ips, ResolverSets
<1>2. /\ NameAdded(e, g)
      /\ \A j \in DOMAIN g.names :
           j \in DOMAIN e.names \/ \E k \in DOMAIN resolver.names[e.ip] : g.names[j] = resolver.names[e.ip][k]
  BY <1>1, HostnamesAdded
<1>3. \A k \in DOMAIN resolver.names[e.ip] : resolver.address[resolver.names[e.ip][k]] = e.ip
  BY <1>1 DEF Consistent
<1> HIDE DEF g
<1> QED
  BY <1>2, <1>3 DEF Own, NameAdded, g

LEMMA AppendedExtends ==
  ASSUME NEW table, Sound(table), NEW e \in Entries, GoodNames(e),
         e.ip = 0 \/ \A i \in DOMAIN table : table[i].ip # e.ip
  PROVE  LET new == Append(table, e)
         IN  /\ Sound(new) /\ Extends(table, new) /\ new \in Seq(Entries)
             /\ \A i \in DOMAIN table : i \in DOMAIN new /\ new[i] = table[i]
             /\ Len(new) \in DOMAIN new /\ Len(new) \notin DOMAIN table /\ new[Len(new)] = e
             /\ \A i \in DOMAIN new : i \in DOMAIN table \/ i = Len(new)
<1> DEFINE new == Append(table, e)
<1>1. /\ table \in Seq(Entries) /\ Len(table) \in Nat /\ DOMAIN table = 1 .. Len(table)
      /\ \A i \in DOMAIN table : table[i] \in Entries /\ GoodNames(table[i])
  BY DEF Sound
<1>2. /\ new \in Seq(Entries) /\ Len(new) = Len(table) + 1 /\ DOMAIN new = 1 .. Len(table) + 1
      /\ new[Len(table) + 1] = e /\ \A i \in DOMAIN table : new[i] = table[i]
  BY <1>1
<1> HIDE DEF new
<1>3. /\ \A i \in DOMAIN table : i \in DOMAIN new
      /\ Len(new) \in DOMAIN new /\ Len(new) \notin DOMAIN table
      /\ \A i \in DOMAIN new : i \in DOMAIN table \/ i = Len(new)
  BY <1>1, <1>2
<1>4. Extends(table, new)
  BY <1>1, <1>2, SameNames DEF Extends
<1>5. Sound(new)
  BY <1>1, <1>2, <1>3, <1>4, ExtendedSound
<1> QED
  BY <1>2, <1>3, <1>4, <1>5 DEF new

\* init_entry and validate_entry for a name: what the table becomes.
LEMMA HostnameValidated ==
  ASSUME resolver \in Resolvers, NEW table, Sound(table), NEW host \in Hosts
  PROVE  LET new == ValidateHostname(Append(table, [ip |-> 0, names |-> <<host>>]), host)
             a == resolver.address[host]
         IN  /\ Sound(new) /\ new \in Seq(Entries) /\ Extends(table, new)
             /\ a # 0 => Has(new, <<host, a>>)
             /\ Consistent /\ Resolved(table) => Resolved(new)
<1> DEFINE e == [ip |-> 0, names |-> <<host>>]
           t == Append(table, e)
           n == Len(t)
           a == resolver.address[host]
           new == ValidateHostname(t, host)
<1>1. resolver \in ResolverSets /\ a \in Ips /\ MaxHostNames \in Nat /\ MaxHostNames >= 1 /\ 0 \notin Addresses
  BY HostCacheAssumption DEF ResolverSets
<1>2. e \in Entries /\ GoodNames(e) /\ e.ip = 0 /\ e.names = <<host>>
  <2>1. <<host>> \in Seq(Hosts) /\ Len(<<host>>) = 1 /\ DOMAIN <<host>> = {1}
    OBVIOUS
  <2> QED
    BY <1>1, <2>1 DEF Entries, GoodNames, IsInjective, Ips
<1> HIDE DEF e
<1>3. /\ table \in Seq(Entries) /\ Sound(t) /\ Extends(table, t) /\ t \in Seq(Entries)
      /\ \A i \in DOMAIN table : i \in DOMAIN t /\ t[i] = table[i]
      /\ n \in DOMAIN t /\ n \notin DOMAIN table /\ t[n] = e
      /\ \A i \in DOMAIN t : i \in DOMAIN table \/ i = n
  BY <1>2, AppendedExtends DEF Sound
<1>4. /\ \A i \in DOMAIN t : t[i] \in Entries /\ GoodNames(t[i])
      /\ n = Len(table) + 1 /\ n \in Nat
  BY <1>3 DEF Sound, Extends
<1>5. Resolved(table) => \A i \in DOMAIN table : Own(t[i])
  BY <1>3 DEF Resolved, Own
<1> HIDE DEF t, n, a
<1>6. CASE a = 0
  <2>1. new = t
    BY <1>6 DEF ValidateHostname, a
  <2>2. Own(e)
    BY <1>2, <1>6 DEF Own, a
  <2>3. Resolved(table) => Resolved(t)
    BY <1>3, <1>5, <2>2 DEF Resolved, Own
  <2> QED
    BY <1>3, <1>6, <2>1, <2>3 DEF a, t, e
<1>7. CASE a # 0
  <2> DEFINE old == FindEntry(t, a)
             hosts == resolver.names[a]
  <2>1. a \in Addresses /\ hosts \in Seq(Hosts)
    BY <1>1, <1>7 DEF Ips, ResolverSets
  <2>2. \/ old = 0 /\ \A i \in DOMAIN t : t[i].ip # a
        \/ old \in DOMAIN t /\ t[old].ip = a /\ old # 0
    BY <1>3, FindEntryFinds
  <2>3. CASE old = 0
    <3> DEFINE x == [ip |-> a, names |-> <<host>>]
               g == AddHostnames(x, hosts)
    <3>1. new = [t EXCEPT ![n] = AddHostnames([@ EXCEPT !.ip = a], hosts)]
      BY <1>7, <2>3 DEF ValidateHostname, a, n
    <3>2. [e EXCEPT !.ip = a] = x
      BY <1>2 DEF e
    <3>3. new = [t EXCEPT ![n] = g]
      BY <1>3, <3>1, <3>2
    <3>4. x \in Entries /\ GoodNames(x) /\ x.ip = a /\ x.names = <<host>>
      BY <1>1, <1>2, <2>1 DEF Entries, GoodNames, e
    <3> HIDE DEF x, g, old, hosts
    <3>5. NameAdded(x, g) /\ GoodNames(g) /\ g \in Entries /\ g.ip = a
      BY <2>1, <3>4, HostnamesAdded DEF NameAdded, g
    <3>6. /\ new \in Seq(Entries) /\ DOMAIN new = DOMAIN t /\ Len(new) = n
          /\ new[n] = g /\ \A i \in DOMAIN table : new[i] = t[i]
      <4>1. new \in Seq(Entries) /\ Len(new) = Len(t)
        BY <1>3, <3>3, <3>5, ExceptSeq
      <4>2. DOMAIN new = DOMAIN t /\ new[n] = g /\ \A i \in DOMAIN t : i # n => new[i] = t[i]
        BY <1>3, <3>3
      <4> QED
        BY <1>3, <4>1, <4>2 DEF n
    <3> HIDE DEF new
    <3>7. \A i \in DOMAIN table : t[i].ip # a
      BY <1>3, <2>2, <2>3 DEF old
    <3>8. Extends(table, new)
      BY <1>3, <1>4, <3>6 DEF Extends
    <3>9. Sound(new)
      <4>1. \A i \in DOMAIN new : GoodNames(new[i])
        BY <1>3, <1>4, <3>5, <3>6
      <4>2. \A i \in DOMAIN table : table[i].ip # new[n].ip
        BY <1>3, <3>5, <3>6, <3>7
      <4> QED
        BY <3>6, <3>8, <4>1, <4>2, ExtendedSound
    <3>10. Has(new, <<host, a>>)
      <4>1. 1 \in DOMAIN x.names /\ x.names[1] = host
        BY <3>4
      <4>2. 1 \in DOMAIN g.names /\ g.names[1] = host
        BY <3>5, <4>1 DEF NameAdded
      <4> QED
        BY <1>3, <3>5, <3>6, <4>2 DEF Has
    <3>11. ASSUME Consistent, Resolved(table)
           PROVE  Resolved(new)
      <4>1. Own(x)
        BY <3>4 DEF Own, a
      <4>2. Own(g)
        BY <1>7, <3>4, <3>11, <4>1, OwnNamesAdded DEF g, hosts
      <4>3. \A i \in DOMAIN new : Own(new[i])
        BY <1>3, <1>5, <3>6, <3>11, <4>2
      <4> QED
        BY <4>3 DEF Resolved, Own
    <3> QED
      BY <3>6, <3>8, <3>9, <3>10, <3>11 DEF new, a, t, e
  <2>4. CASE old # 0
    <3> DEFINE f == [ip |-> 0, names |-> <<>>]
               x == AddHostname(t[old], host)
               g == AddHostnames(x, hosts)
    <3>1. old \in DOMAIN table /\ old # n /\ t[old].ip = a
      BY <1>2, <1>3, <1>7, <2>2, <2>4
    <3>2. new = [t EXCEPT ![n] = f, ![old] = AddHostnames(AddHostname(@, host), hosts)]
      BY <1>7, <2>4 DEF ValidateHostname, a, n
    <3>3. f \in Entries /\ GoodNames(f) /\ f.ip = 0 /\ f.names = <<>>
      BY <1>1 DEF Entries, GoodNames, IsInjective, Ips
    <3> HIDE DEF f, x, g, old, hosts
    <3>4. new = [[t EXCEPT ![n] = f] EXCEPT ![old] = g]
      BY <1>3, <3>1, <3>2 DEF g, x
    <3>5. /\ NameAdded(t[old], x) /\ GoodNames(x) /\ x \in Entries /\ x.ip = a
          /\ \A j \in DOMAIN x.names : x.names[j] = host \/ j \in DOMAIN t[old].names
          /\ (\E j \in DOMAIN x.names : x.names[j] = host) \/ Len(x.names) = MaxHostNames
      BY <1>3, <1>4, <3>1, AddHostnameAdds DEF NameAdded, x
    <3>6. NameAdded(x, g) /\ GoodNames(g) /\ g \in Entries /\ g.ip = a
      BY <2>1, <3>5, HostnamesAdded DEF NameAdded, g
    <3>7. NameAdded(t[old], g)
      <4>1. x.names \in Seq(Hosts) /\ g.names \in Seq(Hosts) /\ t[old].names \in Seq(Hosts)
        BY <1>3, <1>4, <3>1, <3>5, <3>6 DEF Entries
      <4>2. Len(x.names) \in Nat /\ Len(g.names) \in Nat /\ Len(t[old].names) \in Nat
        BY <4>1
      <4> QED
        BY <3>5, <3>6, <4>2 DEF NameAdded
    <3>8. /\ new \in Seq(Entries) /\ DOMAIN new = DOMAIN t /\ Len(new) = n
          /\ new[n] = f /\ new[old] = g /\ \A i \in DOMAIN table : i # old => new[i] = t[i]
      <4> DEFINE u == [t EXCEPT ![n] = f]
      <4>1. u \in Seq(Entries) /\ Len(u) = Len(t)
        BY <1>3, <3>3, ExceptSeq
      <4>2. DOMAIN u = DOMAIN t /\ u[n] = f /\ \A i \in DOMAIN t : i # n => u[i] = t[i]
        BY <1>3
      <4> HIDE DEF u
      <4>3. old \in DOMAIN u /\ new = [u EXCEPT ![old] = g]
        BY <1>3, <3>1, <3>4, <4>2 DEF u
      <4>4. new \in Seq(Entries) /\ Len(new) = Len(u)
        BY <3>6, <4>1, <4>3, ExceptSeq
      <4>5. DOMAIN new = DOMAIN u /\ new[old] = g /\ \A i \in DOMAIN u : i # old => new[i] = u[i]
        BY <4>3
      <4> QED
        BY <1>3, <3>1, <4>1, <4>2, <4>4, <4>5 DEF n
    <3> HIDE DEF new
    <3>9. Extends(table, new)
      <4>1. \A i \in DOMAIN table : i # old => NameAdded(table[i], new[i])
        BY <1>3, <1>4, <3>8, SameNames
      <4> QED
        BY <1>3, <1>4, <3>1, <3>7, <3>8, <4>1 DEF Extends
    <3>10. Sound(new)
      <4>1. \A i \in DOMAIN new : GoodNames(new[i])
        BY <1>3, <1>4, <3>3, <3>6, <3>8
      <4> QED
        BY <3>3, <3>8, <3>9, <4>1, ExtendedSound
    <3>11. Has(new, <<host, a>>)
      <4>1. (\E j \in DOMAIN g.names : g.names[j] = host) \/ Len(g.names) = MaxHostNames
        <5>1. x.names \in Seq(Hosts) /\ g.names \in Seq(Hosts)
          BY <3>5, <3>6 DEF Entries
        <5>2. Len(x.names) \in Nat /\ Len(g.names) \in Nat
          BY <5>1
        <5> QED
          BY <1>1, <3>5, <3>6, <5>2 DEF NameAdded
      <4> QED
        BY <1>3, <3>1, <3>6, <3>8, <4>1 DEF Has
    <3>12. ASSUME Consistent, Resolved(table)
           PROVE  Resolved(new)
      <4>1. Own(x)
        BY <1>5, <3>1, <3>5, <3>12 DEF Own, NameAdded, a
      <4>2. Own(g)
        BY <1>7, <3>5, <3>12, <4>1, OwnNamesAdded DEF g, hosts
      <4>3. Own(f)
        BY <3>3 DEF Own
      <4>4. \A i \in DOMAIN new : Own(new[i])
        BY <1>3, <1>5, <3>8, <3>12, <4>2, <4>3
      <4> QED
        BY <4>4 DEF Resolved, Own
    <3> QED
      BY <3>8, <3>9, <3>10, <3>11, <3>12 DEF new, a, t, e
  <2> QED
    BY <2>3, <2>4
<1> QED
  BY <1>6, <1>7

\* The same for an address.
LEMMA AddressValidated ==
  ASSUME resolver \in Resolvers, NEW table, Sound(table), NEW a \in Addresses,
         \A i \in DOMAIN table : table[i].ip # a
  PROVE  LET new == ValidateAddress(Append(table, [ip |-> a, names |-> <<>>]), a)
         IN  /\ Sound(new) /\ new \in Seq(Entries) /\ Extends(table, new)
             /\ Len(new) \in DOMAIN new /\ new[Len(new)].ip = a
             /\ Consistent /\ Resolved(table) => Resolved(new)
<1> DEFINE e == [ip |-> a, names |-> <<>>]
           t == Append(table, e)
           n == Len(t)
           g == AddHostnames(e, resolver.names[a])
           new == ValidateAddress(t, a)
<1>1. resolver \in ResolverSets /\ resolver.names[a] \in Seq(Hosts) /\ MaxHostNames \in Nat /\ a # 0
  BY HostCacheAssumption DEF ResolverSets
<1>2. e \in Entries /\ GoodNames(e) /\ e.ip = a /\ Own(e)
  BY <1>1 DEF Entries, GoodNames, IsInjective, Ips, Own
<1> HIDE DEF e
<1>3. /\ table \in Seq(Entries) /\ Sound(t) /\ Extends(table, t) /\ t \in Seq(Entries)
      /\ \A i \in DOMAIN table : i \in DOMAIN t /\ t[i] = table[i]
      /\ n \in DOMAIN t /\ n \notin DOMAIN table /\ t[n] = e
      /\ \A i \in DOMAIN t : i \in DOMAIN table \/ i = n
  BY <1>2, AppendedExtends DEF Sound
<1>4. \A i \in DOMAIN t : t[i] \in Entries /\ GoodNames(t[i])
  BY <1>3 DEF Sound
<1>5. Resolved(table) => \A i \in DOMAIN table : Own(t[i])
  BY <1>3 DEF Resolved, Own
<1> HIDE DEF t, n
<1>6. CASE a \in resolver.unlisted
  <2>1. new = t
    BY <1>6 DEF ValidateAddress
  <2>2. Resolved(table) => Resolved(t)
    BY <1>2, <1>3, <1>5 DEF Resolved, Own
  <2> QED
    BY <1>2, <1>3, <2>1, <2>2 DEF t, n, e
<1>7. CASE a \notin resolver.unlisted
  <2>1. new = [t EXCEPT ![n] = g]
    BY <1>3, <1>7 DEF ValidateAddress, n, g
  <2>2. NameAdded(e, g) /\ GoodNames(g) /\ g \in Entries /\ g.ip = a
    BY <1>1, <1>2, HostnamesAdded DEF NameAdded
  <2> HIDE DEF g
  <2>3. /\ new \in Seq(Entries) /\ DOMAIN new = DOMAIN t /\ Len(new) = n
        /\ new[n] = g /\ \A i \in DOMAIN table : new[i] = t[i]
    <3>1. new \in Seq(Entries) /\ Len(new) = Len(t)
      BY <1>3, <2>1, <2>2, ExceptSeq
    <3>2. DOMAIN new = DOMAIN t /\ new[n] = g /\ \A i \in DOMAIN t : i # n => new[i] = t[i]
      BY <1>3, <2>1
    <3> QED
      BY <1>3, <3>1, <3>2 DEF n
  <2> HIDE DEF new
  <2>4. Extends(table, new)
    BY <1>3, <2>3 DEF Extends, n
  <2>5. Sound(new)
    <3>1. \A i \in DOMAIN new : GoodNames(new[i])
      BY <1>3, <1>4, <2>2, <2>3
    <3> QED
      BY <2>2, <2>3, <2>4, <3>1, ExtendedSound
  <2>6. ASSUME Consistent, Resolved(table)
        PROVE  Resolved(new)
    <3>1. Own(g)
      BY <1>1, <1>2, <2>6, OwnNamesAdded DEF g
    <3>2. \A i \in DOMAIN new : Own(new[i])
      BY <1>3, <1>5, <2>3, <2>6, <3>1
    <3> QED
      BY <3>2 DEF Resolved, Own
  <2> QED
    BY <1>3, <2>2, <2>3, <2>4, <2>5, <2>6 DEF new, t, e
<1> QED
  BY <1>6, <1>7

-----------------------------------------------------------------------------
\* Lines and tables taken apart.

LEMMA GrownHasRoom ==
  ASSUME NEW table \in Seq(Entries), room \in Nat, Len(table) <= room
  PROVE  Grown(table) \in Nat /\ Len(table) + 1 <= Grown(table) /\ 2 * Grown(table) >= Grown(table)
BY HostCacheAssumption DEF Grown

LEMMA TailSound ==
  ASSUME NEW lines, SoundLines(lines), lines # <<>>
  PROVE  /\ SoundLines(Tail(lines)) /\ Len(Tail(lines)) = Len(lines) - 1 /\ 1 \in DOMAIN lines
         /\ \A k \in DOMAIN Tail(lines) : k + 1 \in DOMAIN lines /\ Tail(lines)[k] = lines[k + 1]
         /\ \A k \in DOMAIN lines : k = 1 \/ (k - 1 \in DOMAIN Tail(lines) /\ Tail(lines)[k - 1] = lines[k])
<1> DEFINE n == Len(lines)
           t == Tail(lines)
<1>1. /\ lines \in Seq(Entries) /\ n \in Nat /\ n >= 1 /\ DOMAIN lines = 1 .. n
      /\ \A i, j \in 1 .. n : lines[i].ip # 0 /\ lines[i].ip = lines[j].ip => i = j
      /\ \A i \in 1 .. n : GoodNames(lines[i]) /\ lines[i].ip # 0
  <2>1. lines \in Seq(Entries) /\ lines # <<>> /\ DOMAIN lines = 1 .. n /\ n \in Nat
    BY DEF SoundLines, Sound
  <2> QED
    BY <2>1 DEF SoundLines, Sound, OneEach
<1>2. t \in Seq(Entries) /\ Len(t) = n - 1 /\ DOMAIN t = 1 .. n - 1 /\ \A k \in 1 .. n - 1 : t[k] = lines[k + 1]
  <2>1. lines # <<>>
    OBVIOUS
  <2> QED
    BY <1>1, <2>1
<1> HIDE DEF t, n
<1>3. \A k \in 1 .. n - 1 : k + 1 \in 1 .. n
  BY <1>1
<1>4. \A k \in 1 .. n : k = 1 \/ (k - 1 \in 1 .. n - 1 /\ (k - 1) + 1 = k)
  BY <1>1
<1>5. ASSUME NEW i \in DOMAIN t, NEW j \in DOMAIN t, t[i].ip # 0, t[i].ip = t[j].ip
      PROVE  i = j
  <2>1. i + 1 \in 1 .. n /\ j + 1 \in 1 .. n /\ t[i] = lines[i + 1] /\ t[j] = lines[j + 1] /\ i \in Int /\ j \in Int
    BY <1>2, <1>3
  <2>2. i + 1 = j + 1
    BY <1>1, <1>5, <2>1
  <2> QED
    BY <2>1, <2>2
<1>6. SoundLines(t)
  <2>1. \A k \in DOMAIN t : GoodNames(t[k]) /\ t[k].ip # 0
    BY <1>1, <1>2, <1>3
  <2> QED
    BY <1>2, <1>5, <2>1 DEF SoundLines, Sound, OneEach
<1>7. 1 \in DOMAIN lines
  BY <1>1
<1>8. \A k \in 1 .. n : k = 1 \/ (k - 1 \in 1 .. n - 1 /\ t[k - 1] = lines[k])
  <2>1. \A k \in 1 .. n : k # 1 => t[k - 1] = lines[(k - 1) + 1]
    BY <1>2, <1>4
  <2> QED
    BY <1>4, <2>1
<1>9. /\ \A k \in DOMAIN t : k + 1 \in DOMAIN lines /\ t[k] = lines[k + 1]
      /\ \A k \in DOMAIN lines : k = 1 \/ (k - 1 \in DOMAIN t /\ t[k - 1] = lines[k])
  BY <1>1, <1>2, <1>3, <1>8
<1> QED
  BY <1>2, <1>6, <1>7, <1>9 DEF t, n

LEMMA CutSound ==
  ASSUME NEW lines, SoundLines(lines), NEW k \in 0 .. Len(lines)
  PROVE  /\ SoundLines(SubSeq(lines, 1, k)) /\ Len(SubSeq(lines, 1, k)) <= Len(lines)
         /\ \A i \in DOMAIN SubSeq(lines, 1, k) : i \in DOMAIN lines /\ SubSeq(lines, 1, k)[i] = lines[i]
<1> DEFINE s == SubSeq(lines, 1, k)
<1>1. lines \in Seq(Entries) /\ Len(lines) \in Nat /\ DOMAIN lines = 1 .. Len(lines)
  BY DEF SoundLines, Sound
<1>2. s \in Seq(Entries) /\ Len(s) = k /\ DOMAIN s = 1 .. k /\ \A i \in 1 .. k : i \in DOMAIN lines /\ s[i] = lines[i]
  BY <1>1
<1> HIDE DEF s
<1>3. SoundLines(s)
  BY <1>2 DEF SoundLines, Sound, OneEach
<1> QED
  BY <1>1, <1>2, <1>3 DEF s

LEMMA WrittenHas ==
  ASSUME NEW table, Sound(table), NEW pair, pair[2] # 0, Has(table, pair)
  PROVE  Has(Written(table), pair)
<1>1. PICK i \in DOMAIN table :
        /\ table[i].ip = pair[2]
        /\ \/ \E j \in DOMAIN table[i].names : table[i].names[j] = pair[1]
           \/ Len(table[i].names) = MaxHostNames
  BY DEF Has
<1>2. PICK k \in DOMAIN Written(table) : Written(table)[k] = table[i]
  BY <1>1, WrittenLines
<1> QED
  BY <1>1, <1>2 DEF Has

LEMMA EmptyTable == Sound(<<>>) /\ SoundLines(<<>>) /\ Resolved(<<>>) /\ Len(<<>>) = 0 /\ \A pair : ~Has(<<>>, pair)
BY DEF Sound, SoundLines, OneEach, Resolved, Has

\* A line of the file is a new entry, which has all its names unless the table moved.
LEMMA LineReadIn ==
  ASSUME TableInv, ReadLine
  PROVE  LET line == toRead[1]
             bare == [ip |-> line.ip, names |-> <<>>]
         IN  /\ line \in Entries /\ GoodNames(line) /\ line.ip # 0
             /\ bare \in Entries /\ GoodNames(bare)
             /\ \A i \in DOMAIN hcache : hcache[i].ip # line.ip
             /\ \/ hcache' = Append(hcache, line)
                \/ hcache' = Append(hcache, bare) /\ Len(hcache) + 1 = Grown(hcache)
             /\ room' \in {Grown(hcache), 2 * Grown(hcache)}
             /\ room' = Grown(hcache) \/ Len(hcache) + 1 = Grown(hcache)
<1> DEFINE line == toRead[1]
           bare == [ip |-> line.ip, names |-> <<>>]
           table == Append(hcache, bare)
           n == Len(hcache) + 1
<1>1. 1 \in DOMAIN toRead /\ toRead # <<>> /\ SoundLines(toRead) /\ Sound(hcache)
  BY TailSound DEF TableInv, ReadLine
<1>2. line \in Entries /\ GoodNames(line) /\ line.ip # 0 /\ \A i \in DOMAIN hcache : hcache[i].ip # line.ip
  BY <1>1 DEF SoundLines, Sound, TableInv
<1>3. /\ line.ip \in Ips /\ line.names \in Seq(Hosts) /\ Len(line.names) <= MaxHostNames
      /\ line = [ip |-> line.ip, names |-> line.names]
  BY <1>2 DEF Entries, GoodNames
<1>4. bare \in Entries /\ GoodNames(bare) /\ bare.ip = line.ip
  BY <1>3, HostCacheAssumption DEF Entries, GoodNames, IsInjective
<1> HIDE DEF line
<1>5. LineEntry(hcache, line.ip) = table
  <2>1. FindEntry(hcache, line.ip) = 0
    BY <1>1, <1>2, FindEntryFinds DEF Sound
  <2> QED
    BY <2>1 DEF LineEntry
<1>6. LineNames(bare, line.names) = line
  BY <1>3, LineRead
<1> HIDE DEF bare
<1>7. /\ Sound(table) /\ table \in Seq(Entries) /\ Len(table) = n /\ n \in DOMAIN table /\ table[n] = bare
      /\ Append(hcache, line) = [table EXCEPT ![n] = line]
  <2>1. hcache \in Seq(Entries) /\ Len(hcache) \in Nat
    BY <1>1 DEF Sound
  <2>2. Sound(table) /\ table \in Seq(Entries)
    BY <1>1, <1>2, <1>4, AppendedExtends
  <2>3. Len(table) = n /\ n \in DOMAIN table /\ table[n] = bare /\ n \in Nat
    BY <1>4, <2>1
  <2>4. [table EXCEPT ![n] = line] \in Seq(Entries) /\ Append(hcache, line) \in Seq(Entries)
    BY <1>2, <2>1, <2>2, <2>3, ExceptSeq
  <2>5. Len([table EXCEPT ![n] = line]) = n /\ Len(Append(hcache, line)) = n
    BY <1>2, <2>1, <2>2, <2>3, ExceptSeq
  <2>6. \A i \in 1 .. n : [table EXCEPT ![n] = line][i] = Append(hcache, line)[i]
    <3>1. \A i \in 1 .. Len(hcache) : table[i] = hcache[i] /\ Append(hcache, line)[i] = hcache[i]
      BY <1>2, <1>4, <2>1
    <3>2. Append(hcache, line)[n] = line
      BY <1>2, <2>1
    <3>3. \A i \in 1 .. n : i = n \/ i \in 1 .. Len(hcache)
      BY <2>1
    <3>4. DOMAIN table = 1 .. n
      BY <2>2, <2>3
    <3> HIDE DEF table, n
    <3> QED
      BY <3>1, <3>2, <3>3, <3>4
  <2> QED
    BY <2>2, <2>3, <2>4, <2>5, <2>6, SeqEqual
<1> HIDE DEF table, n
<1>8. FindEntry(table, line.ip) = n
  <2>1. table[n].ip # 0 /\ table[n].ip = line.ip /\ OneEach(table)
    BY <1>2, <1>4, <1>7 DEF Sound
  <2> QED
    BY <1>7, <2>1, OneEachFound
<1>9. [table EXCEPT ![FindEntry(table, line.ip)] = LineNames(@, line.names)] = Append(hcache, line)
  BY <1>6, <1>7, <1>8
<1> DEFINE before == Grown(hcache)
           stale == line.names # <<>> /\ Len(table) = before
<1>10. /\ \E lost \in IF stale THEN BOOLEAN ELSE {FALSE} :
             hcache' = IF lost THEN table
                       ELSE [table EXCEPT ![FindEntry(table, line.ip)] = LineNames(@, line.names)]
       /\ room' = IF stale THEN 2 * before ELSE before
  BY <1>5 DEF ReadLine, line
<1>11. hcache' = Append(hcache, line) \/ (hcache' = table /\ stale)
  BY <1>9, <1>10
<1> QED
  BY <1>2, <1>4, <1>7, <1>10, <1>11 DEF table, bare, line, n

-----------------------------------------------------------------------------
\* Each action on the table.

\* A new entry for a name, or for an address.
NewHostnameEffect(host) ==
  /\ Extends(hcache, hcache') /\ Sound(hcache') /\ hcache' \in Seq(Entries)
  /\ resolver.address[host] # 0 => Has(hcache', <<host, resolver.address[host]>>)
  /\ Consistent /\ Resolved(hcache) => Resolved(hcache')

LEMMA NewHostnameAdds ==
  ASSUME TableInv, NEW host \in Hosts, NewHostname(host)
  PROVE  NewHostnameEffect(host)
BY HostnameValidated DEF TableInv, NewHostname, NewHostnameEffect

NewAddressEffect(a) ==
  /\ Extends(hcache, hcache') /\ Sound(hcache') /\ hcache' \in Seq(Entries)
  /\ Len(hcache') \in DOMAIN hcache' /\ hcache'[Len(hcache')].ip = a
  /\ Consistent /\ Resolved(hcache) => Resolved(hcache')

LEMMA NewAddressAdds ==
  ASSUME TableInv, NEW a \in Addresses, NewAddress(a)
  PROVE  NewAddressEffect(a)
<1>1. \A i \in DOMAIN hcache : hcache[i].ip # a
  <2>1. FindEntry(hcache, a) = 0 /\ hcache \in Seq(Entries)
    BY DEF NewAddress, TableInv, Sound
  <2> QED
    BY <2>1, FindEntryFinds
<1> QED
  BY <1>1, AddressValidated DEF TableInv, NewAddress, NewAddressEffect

-----------------------------------------------------------------------------
\* The table and the file.

LEMMA TableInit ==
  ASSUME FilesSound, InitHostCache
  PROVE  TableInv
BY EmptyTable, HostCacheAssumption DEF InitHostCache, TableInv, FilesSound

\* Another run finds the file it is left.
LEMMA RestartKeepsTable ==
  ASSUME TableInv, Restarts, SoundLines(file')
  PROVE  TableInv'
<1>1. SoundLines(toRead') /\ Sound(hcache') /\ Len(hcache') = 0
  BY EmptyTable DEF Restarts
<1>2. runs' \in 1 .. MaxRuns
  BY HostCacheAssumption DEF Restarts, TableInv
<1>3. \A i \in DOMAIN hcache', k \in DOMAIN toRead' : hcache'[i].ip # toRead'[k].ip
  BY DEF Restarts
<1> QED
  BY <1>1, <1>2, <1>3 DEF Restarts, TableInv

LEMMA LookupKeepsTable ==
  ASSUME TableInv, LookupHostname \/ LookupIpaddr
  PROVE  TableInv'
<1>1. hcache \in Seq(Entries) /\ Len(hcache) \in Nat
  BY DEF TableInv, Sound
<1>2. ASSUME Sound(hcache'), Extends(hcache, hcache'), room' = Grown(hcache), changes' = changes + 1,
             toRead = <<>>, UNCHANGED <<resolver, file, toRead, runs>>
      PROVE  TableInv'
  <2>1. Grown(hcache) \in Nat /\ Len(hcache) + 1 <= Grown(hcache)
    BY <1>1, GrownHasRoom DEF TableInv
  <2>2. room' \in Nat /\ Len(hcache') <= room' /\ changes' \in Nat
    BY <1>2, <2>1 DEF Extends, TableInv
  <2> QED
    BY <1>2, <2>2 DEF TableInv
<1>3. ASSUME UNCHANGED <<resolver, file, toRead, hcache, room, changes, runs>>
      PROVE  TableInv'
  BY <1>3 DEF TableInv
<1>4. CASE LookupHostname
  <2>1. PICK host \in Hosts : KnownHostname(host) \/ NewHostname(host)
    BY <1>4 DEF LookupHostname
  <2>2. CASE NewHostname(host)
    <3>1. NewHostnameEffect(host)
      BY <2>2, NewHostnameAdds
    <3> QED
      BY <1>2, <1>4, <2>2, <3>1 DEF NewHostnameEffect, LookupHostname, NewHostname
  <2> QED
    BY <1>3, <1>4, <2>1, <2>2 DEF LookupHostname, KnownHostname
<1>5. CASE LookupIpaddr
  <2>1. PICK a \in Addresses : KnownAddress(a) \/ NewAddress(a)
    BY <1>5 DEF LookupIpaddr
  <2>2. CASE NewAddress(a)
    <3>1. NewAddressEffect(a)
      BY <2>2, NewAddressAdds
    <3> QED
      BY <1>2, <1>5, <2>2, <3>1 DEF NewAddressEffect, LookupIpaddr, NewAddress
  <2> QED
    BY <1>3, <1>5, <2>1, <2>2 DEF LookupIpaddr, KnownAddress
<1> QED
  BY <1>4, <1>5

LEMMA ReadKeepsTable ==
  ASSUME TableInv, ReadLine
  PROVE  TableInv'
<1> DEFINE line == toRead[1]
<1>1. \E e : /\ hcache' = Append(hcache, e) /\ e \in Entries /\ GoodNames(e) /\ e.ip = line.ip /\ line.ip # 0
             /\ \A i \in DOMAIN hcache : hcache[i].ip # line.ip
  BY LineReadIn
<1>2. PICK e : /\ hcache' = Append(hcache, e) /\ e \in Entries /\ GoodNames(e) /\ e.ip = line.ip /\ line.ip # 0
               /\ \A i \in DOMAIN hcache : hcache[i].ip # line.ip
  BY <1>1
<1>3. SoundLines(toRead) /\ toRead # <<>> /\ toRead' = Tail(toRead) /\ Sound(hcache) /\ hcache \in Seq(Entries)
  BY DEF TableInv, ReadLine, Sound
<1>4. /\ Sound(hcache')
      /\ \A i \in DOMAIN hcache : i \in DOMAIN hcache' /\ hcache'[i] = hcache[i]
      /\ hcache'[Len(hcache')] = e
      /\ \A i \in DOMAIN hcache' : i \in DOMAIN hcache \/ i = Len(hcache')
      /\ Len(hcache') = Len(hcache) + 1
  BY <1>2, <1>3, AppendedExtends DEF Extends
<1>5. /\ SoundLines(toRead') /\ 1 \in DOMAIN toRead
      /\ \A k \in DOMAIN toRead' : k + 1 \in DOMAIN toRead /\ toRead'[k] = toRead[k + 1]
  BY <1>3, TailSound
<1>6. \A i \in DOMAIN hcache', k \in DOMAIN toRead' : hcache'[i].ip # toRead'[k].ip
  <2>1. ASSUME NEW k \in DOMAIN toRead'
        PROVE  toRead'[k].ip # line.ip
    <3>1. k \in Nat \ {0}
      <4>1. toRead' \in Seq(Entries)
        BY <1>5 DEF SoundLines, Sound
      <4> QED
        BY <4>1
    <3>2. k + 1 # 1
      BY <3>1
    <3> QED
      BY <1>2, <1>3, <1>5, <3>2 DEF SoundLines, Sound, OneEach
  <2>2. \A i \in DOMAIN hcache, k \in DOMAIN toRead : hcache[i].ip # toRead[k].ip
    BY DEF TableInv
  <2> HIDE DEF line
  <2> QED
    BY <1>2, <1>4, <1>5, <2>1, <2>2
<1>7. room' \in Nat /\ Len(hcache') <= room'
  <2>1. room' \in {Grown(hcache), 2 * Grown(hcache)} /\ Len(hcache) \in Nat
    BY <1>3, LineReadIn
  <2>2. Grown(hcache) \in Nat /\ Len(hcache) + 1 <= Grown(hcache) /\ 2 * Grown(hcache) >= Grown(hcache)
    BY <1>3, GrownHasRoom DEF TableInv
  <2> QED
    BY <1>4, <2>1, <2>2
<1> QED
  BY <1>4, <1>5, <1>6, <1>7 DEF TableInv, ReadLine

LEMMA TableKept ==
  ASSUME TableInv, [Next]_vars
  PROVE  TableInv'
<1>1. SoundLines(Written(hcache))
  BY WrittenLines DEF TableInv
<1>2. CASE UpdateFile
  BY <1>1, <1>2 DEF UpdateFile, TableInv
<1>3. CASE Ends
  BY <1>1, <1>3, RestartKeepsTable DEF Ends, TableInv
<1>4. CASE Killed
  BY <1>4, RestartKeepsTable DEF Killed, TableInv
<1>5. CASE KilledWriting
  BY <1>1, <1>5, CutSound, RestartKeepsTable DEF KilledWriting
<1>6. CASE UNCHANGED vars
  BY <1>6 DEF vars, TableInv
<1> QED
  BY <1>2, <1>3, <1>4, <1>5, <1>6, ReadKeepsTable, LookupKeepsTable DEF Next

\* The table has one entry for an address, with names that differ, and there is room
\* for it: whatever init_entry, validate_entry and free_entry do to it, and whatever
\* part of the file a killed run left.
THEOREM CacheTypes ==
  ASSUME FilesSound
  PROVE  HostCacheSpec => []HostCacheTypeOK
<1>1. InitHostCache => TableInv
  BY TableInit
<1>2. TableInv /\ [Next]_vars => TableInv'
  BY TableKept
<1>3. TableInv => HostCacheTypeOK
  BY TableTypes
<1> QED
  BY <1>1, <1>2, <1>3, PTL DEF HostCacheSpec

-----------------------------------------------------------------------------
\* The names.

LEMMA NamesInit ==
  ASSUME Consistent, InitHostCache
  PROVE  NamesInv
<1>1. Resolved(file)
  BY DEF InitHostCache, Consistent, Resolved
<1> QED
  BY <1>1, EmptyTable DEF InitHostCache, NamesInv, AnswersAsResolved, NoAnswer, Resolved

LEMMA WrittenResolved ==
  ASSUME TableInv, Resolved(hcache)
  PROVE  Resolved(Written(hcache))
BY WrittenLines DEF TableInv, Resolved

LEMMA RestartKeepsNames ==
  ASSUME Resolved(file)', Restarts
  PROVE  NamesInv'
BY EmptyTable DEF Restarts, NamesInv, AnswersAsResolved, NoAnswer, Resolved

LEMMA ReadKeepsNames ==
  ASSUME TableInv, NamesInv, ReadLine
  PROVE  NamesInv'
<1>1. SoundLines(toRead) /\ toRead # <<>> /\ toRead' = Tail(toRead) /\ Sound(hcache)
  BY DEF TableInv, ReadLine
<1>2. Resolved(toRead)'
  <2>1. \A k \in DOMAIN toRead' : k + 1 \in DOMAIN toRead /\ toRead'[k] = toRead[k + 1]
    BY <1>1, TailSound
  <2> QED
    BY <2>1 DEF ReadLine, NamesInv, Resolved
<1>3. \E e : /\ hcache' = Append(hcache, e) /\ e \in Entries /\ GoodNames(e) /\ Own(e)
             /\ \A i \in DOMAIN hcache : hcache[i].ip # e.ip
  <2> DEFINE line == toRead[1]
             bare == [ip |-> line.ip, names |-> <<>>]
  <2>1. 1 \in DOMAIN toRead
    BY <1>1, TailSound
  <2>2. Own(line)
    BY <2>1 DEF NamesInv, Resolved, Own
  <2>3. Own(bare) /\ bare.ip = line.ip
    BY DEF Own
  <2> QED
    BY <2>2, <2>3, LineReadIn
<1>4. PICK e : /\ hcache' = Append(hcache, e) /\ e \in Entries /\ GoodNames(e) /\ Own(e)
               /\ \A i \in DOMAIN hcache : hcache[i].ip # e.ip
  BY <1>3
<1>5. /\ \A i \in DOMAIN hcache : hcache'[i] = hcache[i]
      /\ hcache'[Len(hcache')] = e
      /\ \A i \in DOMAIN hcache' : i \in DOMAIN hcache \/ i = Len(hcache')
  BY <1>1, <1>4, AppendedExtends
<1>6. Resolved(hcache)'
  BY <1>4, <1>5 DEF ReadLine, NamesInv, Resolved, Own
<1> QED
  BY <1>2, <1>6 DEF ReadLine, NamesInv, AnswersAsResolved, Resolved

LEMMA LookupKeepsNames ==
  ASSUME Consistent, TableInv, NamesInv, LookupHostname \/ LookupIpaddr
  PROVE  NamesInv'
<1>1. hcache \in Seq(Entries) /\ resolver \in ResolverSets
  BY HostCacheAssumption DEF TableInv, Sound
<1>2. ASSUME Resolved(hcache'), UNCHANGED <<resolver, file, toRead>>, AnswersAsResolved'
      PROVE  NamesInv'
  BY <1>2 DEF NamesInv, Resolved
<1>3. CASE LookupHostname
  <2>1. PICK host \in Hosts : KnownHostname(host) \/ NewHostname(host)
    BY <1>3 DEF LookupHostname
  <2>2. CASE KnownHostname(host)
    <3>1. PICK i \in DOMAIN hcache : i = FindHostEntry(hcache, host)
                                     /\ \E j \in DOMAIN hcache[i].names : hcache[i].names[j] = host
      BY <1>1, <2>2, FindHostEntryFinds DEF KnownHostname
    <3>2. resolver.address[host] = hcache[i].ip
      BY <3>1 DEF NamesInv, Resolved
    <3>3. AnswersAsResolved'
      BY <1>3, <2>2, <3>1, <3>2 DEF LookupHostname, KnownHostname, Answers, AnswersAsResolved
    <3> QED
      BY <1>2, <1>3, <2>2, <3>3 DEF LookupHostname, KnownHostname, NamesInv
  <2>3. CASE NewHostname(host)
    <3>1. Resolved(hcache')
      BY <2>3, NewHostnameAdds DEF NewHostnameEffect, NamesInv
    <3>2. AnswersAsResolved'
      BY <1>3, <2>3 DEF LookupHostname, NewHostname, Answers, AnswersAsResolved
    <3> QED
      BY <1>2, <1>3, <3>1, <3>2 DEF LookupHostname
  <2> QED
    BY <2>1, <2>2, <2>3
<1>4. CASE LookupIpaddr
  <2>1. PICK a \in Addresses : KnownAddress(a) \/ NewAddress(a)
    BY <1>4 DEF LookupIpaddr
  <2>2. ASSUME NEW e \in Entries, Own(e), e.ip = a, Answers(FirstName(e), a)
        PROVE  AnswersAsResolved'
    <3>1. e.names # <<>> => 1 \in DOMAIN e.names
      <4>1. e.names \in Seq(Hosts)
        BY DEF Entries
      <4> QED
        BY <4>1
    <3>2. FirstName(e) # "none" => resolver.address[FirstName(e)] = a
      BY <2>2, <3>1 DEF FirstName, Own
    <3> QED
      BY <1>4, <2>2, <3>2 DEF LookupIpaddr, Answers, AnswersAsResolved
  <2>3. CASE KnownAddress(a)
    <3>1. PICK i \in DOMAIN hcache : i = FindEntry(hcache, a) /\ hcache[i].ip = a
      BY <1>1, <2>3, FindEntryFinds DEF KnownAddress
    <3>2. hcache[i] \in Entries /\ Own(hcache[i])
      BY <1>1 DEF NamesInv, Resolved, Own
    <3>3. AnswersAsResolved'
      BY <2>2, <2>3, <3>1, <3>2 DEF KnownAddress
    <3> QED
      BY <1>2, <1>4, <2>3, <3>3 DEF LookupIpaddr, KnownAddress, NamesInv
  <2>4. CASE NewAddress(a)
    <3>1. NewAddressEffect(a) /\ Resolved(hcache')
      BY <2>4, NewAddressAdds DEF NewAddressEffect, NamesInv
    <3>2. PICK e : e = hcache'[Len(hcache')]
      OBVIOUS
    <3>3. e \in Entries /\ Own(e) /\ e.ip = a
      BY <3>1, <3>2 DEF NewAddressEffect, Resolved, Own
    <3>4. AnswersAsResolved'
      BY <2>2, <2>4, <3>2, <3>3 DEF NewAddress
    <3> QED
      BY <1>2, <1>4, <3>1, <3>4 DEF LookupIpaddr
  <2> QED
    BY <2>1, <2>3, <2>4
<1> QED
  BY <1>3, <1>4

LEMMA NamesKept ==
  ASSUME Consistent, TableInv, NamesInv, [Next]_vars
  PROVE  NamesInv'
<1>1. Resolved(file) /\ Resolved(Written(hcache))
  BY WrittenResolved DEF NamesInv
<1>2. CASE UpdateFile
  BY <1>1, <1>2 DEF UpdateFile, NamesInv, Resolved, AnswersAsResolved
<1>3. CASE Ends
  BY <1>1, <1>3, RestartKeepsNames DEF Ends, Restarts, Resolved
<1>4. CASE Killed
  BY <1>1, <1>4, RestartKeepsNames DEF Killed, Restarts, Resolved
<1>5. CASE KilledWriting
  <2>1. PICK k \in 0 .. Len(Written(hcache)) : file' = SubSeq(Written(hcache), 1, k)
    BY <1>5 DEF KilledWriting
  <2>2. SoundLines(Written(hcache))
    BY WrittenLines DEF TableInv
  <2>3. \A i \in DOMAIN file' : i \in DOMAIN Written(hcache) /\ file'[i] = Written(hcache)[i]
    BY <2>1, <2>2, CutSound
  <2>4. Resolved(file)'
    BY <1>1, <1>5, <2>3 DEF KilledWriting, Restarts, Resolved
  <2> QED
    BY <1>5, <2>4, RestartKeepsNames DEF KilledWriting
<1>6. CASE UNCHANGED vars
  BY <1>6 DEF vars, NamesInv, Resolved, AnswersAsResolved
<1> QED
  BY <1>2, <1>3, <1>4, <1>5, <1>6, ReadKeepsNames, LookupKeepsNames DEF Next

\* A lookup answers what the resolver would, whether it asked it, found the name in
\* the table, or a run before found it and left it in the file.
THEOREM LookupsAsResolved ==
  ASSUME FilesSound, Consistent
  PROVE  HostCacheSpec => []AnswersAsResolved
<1>1. InitHostCache => TableInv /\ NamesInv
  BY TableInit, NamesInit
<1>2. TableInv /\ NamesInv /\ [Next]_vars => TableInv' /\ NamesInv'
  BY TableKept, NamesKept
<1>3. NamesInv => AnswersAsResolved
  BY DEF NamesInv
<1> QED
  BY <1>1, <1>2, <1>3, PTL DEF HostCacheSpec

-----------------------------------------------------------------------------
\* The room.

LEMMA RoomInit ==
  ASSUME RoomForAll, InitHostCache
  PROVE  RoomInv
<1>1. Len(file) < FirstEntries /\ Len(file) \in Nat
  <2>1. file \in Seq(Lines)
    BY HostCacheAssumption DEF InitHostCache
  <2> QED
    BY <2>1 DEF InitHostCache, RoomForAll
<1> QED
  BY <1>1, EmptyTable DEF InitHostCache, RoomInv

LEMMA RoomFacts ==
  ASSUME TableInv, RoomInv
  PROVE  /\ Len(hcache) \in Nat /\ Len(toRead) \in Nat /\ Len(file) \in Nat /\ FirstEntries \in Nat
         /\ Len(hcache) < FirstEntries
         /\ Grown(hcache) = FirstEntries
<1>1. /\ Len(hcache) \in Nat /\ Len(toRead) \in Nat /\ Len(file) \in Nat /\ FirstEntries \in Nat /\ FirstEntries > 0
      /\ Len(hcache) <= room
  BY HostCacheAssumption DEF TableInv, Sound, SoundLines
<1>2. Len(hcache) < FirstEntries
  BY <1>1 DEF RoomInv
<1> QED
  BY <1>1, <1>2 DEF RoomInv, Grown

\* So the table does not move while a line is read.
LEMMA NothingLost ==
  ASSUME TableInv, RoomInv, ReadLine
  PROVE  /\ hcache' = Append(hcache, toRead[1]) /\ room' = FirstEntries
         /\ Len(hcache') = Len(hcache) + 1 /\ Len(toRead') = Len(toRead) - 1
<1>1. SoundLines(toRead) /\ toRead # <<>> /\ toRead' = Tail(toRead) /\ hcache \in Seq(Entries)
  BY DEF TableInv, ReadLine, Sound
<1>2. Len(toRead) >= 1
  <2>1. toRead \in Seq(Entries)
    BY <1>1 DEF SoundLines, Sound
  <2> QED
    BY <1>1, <2>1
<1>3. Len(hcache) + 1 # Grown(hcache)
  BY <1>2, RoomFacts DEF RoomInv
<1>4. hcache' = Append(hcache, toRead[1]) /\ room' = Grown(hcache) /\ toRead[1] \in Entries
  BY <1>3, LineReadIn
<1> QED
  BY <1>1, <1>4, RoomFacts, TailSound

LEMMA RoomKept ==
  ASSUME RoomForAll, TableInv, RoomInv, [Next]_vars
  PROVE  RoomInv'
<1>1. /\ Len(hcache) \in Nat /\ Len(toRead) \in Nat /\ Len(file) \in Nat /\ FirstEntries \in Nat
      /\ Len(hcache) < FirstEntries /\ Grown(hcache) = FirstEntries /\ MaxEntries \in Nat
  BY RoomFacts, HostCacheAssumption
<1>2. SoundLines(Written(hcache)) /\ Len(Written(hcache)) <= Len(hcache) /\ Len(Written(hcache)) \in Nat
  <2>1. SoundLines(Written(hcache)) /\ Len(Written(hcache)) <= Len(hcache)
    BY WrittenLines DEF TableInv
  <2> QED
    BY <2>1 DEF SoundLines, Sound
<1>3. ASSUME Restarts, Len(file') < FirstEntries, Len(file') \in Nat
      PROVE  RoomInv'
  BY <1>3, EmptyTable DEF Restarts, RoomInv
<1>4. CASE ReadLine
  <2>1. /\ Len(hcache') = Len(hcache) + 1 /\ Len(toRead') = Len(toRead) - 1
        /\ room' = FirstEntries /\ file' = file
    BY <1>4, NothingLost DEF ReadLine
  <2>2. Len(hcache) + Len(toRead) < FirstEntries /\ Len(file) < FirstEntries
    BY DEF RoomInv
  <2>3. Len(hcache') + Len(toRead') < FirstEntries
    BY <1>1, <2>1, <2>2
  <2> QED
    BY <2>1, <2>2, <2>3 DEF RoomInv
<1>5. ASSUME toRead = <<>>, UNCHANGED <<file, toRead>>, Len(hcache) < MaxEntries, room' = Grown(hcache),
             Len(hcache') = Len(hcache) + 1
      PROVE  RoomInv'
  <2>1. MaxEntries < FirstEntries /\ Len(toRead') = 0
    BY <1>5, EmptyTable DEF RoomForAll
  <2>2. Len(hcache') < FirstEntries
    BY <1>1, <1>5, <2>1
  <2> QED
    BY <1>1, <1>5, <2>1, <2>2 DEF RoomInv
<1>6. CASE LookupHostname
  <2>1. PICK host \in Hosts : KnownHostname(host) \/ NewHostname(host)
    BY <1>6 DEF LookupHostname
  <2>2. CASE NewHostname(host)
    <3>1. Len(hcache') = Len(hcache) + 1
      BY <2>2, NewHostnameAdds DEF NewHostnameEffect, Extends
    <3> QED
      BY <1>5, <1>6, <2>2, <3>1 DEF LookupHostname, NewHostname
  <2> QED
    BY <1>6, <2>1, <2>2 DEF LookupHostname, KnownHostname, RoomInv
<1>7. CASE LookupIpaddr
  <2>1. PICK a \in Addresses : KnownAddress(a) \/ NewAddress(a)
    BY <1>7 DEF LookupIpaddr
  <2>2. CASE NewAddress(a)
    <3>1. Len(hcache') = Len(hcache) + 1
      BY <2>2, NewAddressAdds DEF NewAddressEffect, Extends
    <3> QED
      BY <1>5, <1>7, <2>2, <3>1 DEF LookupIpaddr, NewAddress
  <2> QED
    BY <1>7, <2>1, <2>2 DEF LookupIpaddr, KnownAddress, RoomInv
<1>8. CASE UpdateFile
  BY <1>1, <1>2, <1>8 DEF UpdateFile, RoomInv
<1>9. CASE Ends
  BY <1>1, <1>2, <1>3, <1>9 DEF Ends, RoomInv
<1>10. CASE Killed
  BY <1>1, <1>3, <1>10 DEF Killed, RoomInv
<1>11. CASE KilledWriting
  <2>1. PICK k \in 0 .. Len(Written(hcache)) : file' = SubSeq(Written(hcache), 1, k)
    BY <1>11 DEF KilledWriting
  <2>2. Len(file') <= Len(Written(hcache)) /\ SoundLines(file')
    BY <1>2, <2>1, CutSound
  <2>3. Len(file') \in Nat
    BY <2>2 DEF SoundLines, Sound
  <2> QED
    BY <1>1, <1>2, <1>3, <1>11, <2>2, <2>3 DEF KilledWriting
<1>12. CASE UNCHANGED vars
  BY <1>12 DEF vars, RoomInv
<1> QED
  BY <1>4, <1>6, <1>7, <1>8, <1>9, <1>10, <1>11, <1>12 DEF Next

-----------------------------------------------------------------------------
\* What was answered stays.

Pairs == Hosts \X Addresses

LEMMA PairAddress ==
  ASSUME NEW pair \in Pairs
  PROVE  pair[2] # 0
BY HostCacheAssumption DEF Pairs

LEMMA KeepInit ==
  ASSUME InitHostCache
  PROVE  KeepInv
BY EmptyTable DEF InitHostCache, KeepInv

\* Another run will read all that is in the file.
LEMMA RestartKeeps ==
  ASSUME Restarts, kept' \subseteq Pairs, \A pair \in kept' : Has(file', pair)
  PROVE  KeepInv'
BY EmptyTable DEF Restarts, KeepInv, Pairs

\* A line that is read is in the table.
LEMMA ReadKeeps ==
  ASSUME TableInv, RoomInv, KeepInv, ReadLine
  PROVE  KeepInv'
<1> DEFINE line == toRead[1]
           Fits(e, pair) == /\ e.ip = pair[2]
                            /\ \/ \E j \in DOMAIN e.names : e.names[j] = pair[1]
                               \/ Len(e.names) = MaxHostNames
<1>1. /\ SoundLines(toRead) /\ toRead # <<>> /\ toRead' = Tail(toRead) /\ Sound(hcache)
      /\ line \in Entries /\ GoodNames(line) /\ \A i \in DOMAIN hcache : hcache[i].ip # line.ip
      /\ hcache' = Append(hcache, line)
  BY LineReadIn, NothingLost DEF TableInv, ReadLine
<1>2. /\ \A i \in DOMAIN hcache : i \in DOMAIN hcache' /\ hcache'[i] = hcache[i]
      /\ Len(hcache') \in DOMAIN hcache' /\ hcache'[Len(hcache')] = line
      /\ \A i \in DOMAIN hcache' : i \in DOMAIN hcache \/ i = Len(hcache')
  BY <1>1, AppendedExtends
<1>3. /\ \A k \in DOMAIN toRead' : k + 1 \in DOMAIN toRead /\ toRead'[k] = toRead[k + 1]
      /\ \A k \in DOMAIN toRead : k = 1 \/ (k - 1 \in DOMAIN toRead' /\ toRead'[k - 1] = toRead[k])
      /\ 1 \in DOMAIN toRead
  BY <1>1, TailSound
<1>4. \A table, pair : Has(table, pair) <=> \E k \in DOMAIN table : Fits(table[k], pair)
  BY DEF Has
<1> HIDE DEF Fits
<1>5. ASSUME NEW pair
      PROVE  Has(hcache', pair) \/ Has(toRead', pair) <=> Has(hcache, pair) \/ Has(toRead, pair)
  <2>1. Has(hcache', pair) <=> Has(hcache, pair) \/ Fits(line, pair)
    <3> HIDE DEF line
    <3> QED
      BY <1>2, <1>4
  <2>2. Has(toRead, pair) <=> Has(toRead', pair) \/ Fits(line, pair)
    BY <1>3, <1>4
  <2> QED
    BY <2>1, <2>2
<1> QED
  BY <1>5 DEF ReadLine, KeepInv

\* A new answer is in the table.
LEMMA AnswerKept ==
  ASSUME KeepInv, toRead = <<>>, UNCHANGED <<file, toRead, kept>>, NEW host, NEW a, Answers(host, a),
         a = 0 \/ host = "none" \/ (<<host, a>> \in Pairs /\ Has(hcache', <<host, a>>)),
         \A pair : Has(hcache, pair) => Has(hcache', pair),
         changes' # 0 \/ (hcache' = hcache /\ changes' = changes)
  PROVE  KeepInv'
<1>1. answered' \subseteq answered \cup {<<host, a>>}
  BY DEF Answers
<1>2. <<host, a>> \in answered' => <<host, a>> \in answered \/ (<<host, a>> \in Pairs /\ Has(hcache', <<host, a>>))
  BY DEF Answers
<1>3. \A pair : ~Has(toRead, pair)
  BY EmptyTable
<1>4. answered' \subseteq Pairs
  BY <1>1, <1>2 DEF KeepInv, Pairs
<1>5. \A pair \in kept' \cup answered' : Has(hcache', pair)
  BY <1>1, <1>2, <1>3 DEF KeepInv
<1>6. changes' = 0 => \A pair \in Hosts \X Addresses : Has(hcache', pair) \/ Has(toRead', pair) => Has(file', pair)
  BY DEF KeepInv
<1> QED
  BY <1>4, <1>5, <1>6 DEF KeepInv, Pairs

LEMMA LookupKeeps ==
  ASSUME TableInv, KeepInv, LookupHostname \/ LookupIpaddr
  PROVE  KeepInv'
<1>1. /\ hcache \in Seq(Entries) /\ Sound(hcache) /\ changes \in Nat
      /\ \A i \in DOMAIN hcache : hcache[i] \in Entries
  BY DEF TableInv, Sound
<1>2. ASSUME NEW e \in Entries, NEW a, a # 0, e.ip = a, FirstName(e) # "none"
      PROVE  /\ <<FirstName(e), a>> \in Pairs
             /\ \E j \in DOMAIN e.names : e.names[j] = FirstName(e)
  <2>1. e.names \in Seq(Hosts) /\ e.ip \in Ips
    BY DEF Entries
  <2>2. e.names # <<>> /\ FirstName(e) = e.names[1]
    BY <1>2 DEF FirstName
  <2>3. 1 \in DOMAIN e.names
    BY <2>1, <2>2
  <2> QED
    BY <1>2, <2>1, <2>2, <2>3 DEF Pairs, Ips
<1>3. CASE LookupHostname
  <2>1. PICK host \in Hosts : KnownHostname(host) \/ NewHostname(host)
    BY <1>3 DEF LookupHostname
  <2>2. CASE KnownHostname(host)
    <3>1. PICK i \in DOMAIN hcache : /\ i = FindHostEntry(hcache, host)
                                     /\ \E j \in DOMAIN hcache[i].names : hcache[i].names[j] = host
      BY <1>1, <2>2, FindHostEntryFinds DEF KnownHostname
    <3>2. PICK a : a = hcache[i].ip /\ Answers(host, a) /\ hcache' = hcache /\ changes' = changes
      BY <2>2, <3>1 DEF KnownHostname
    <3>3. a = 0 \/ <<host, a>> \in Pairs
      BY <1>1, <3>2 DEF Pairs, Entries, Ips
    <3>4. Has(hcache', <<host, a>>)
      BY <3>1, <3>2 DEF Has
    <3> QED
      BY <1>3, <3>2, <3>3, <3>4, AnswerKept DEF LookupHostname
  <2>3. CASE NewHostname(host)
    <3>1. PICK a : a = resolver.address[host] /\ Answers(host, a) /\ changes' = changes + 1
      BY <2>3 DEF NewHostname
    <3>2. NewHostnameEffect(host)
      BY <2>3, NewHostnameAdds
    <3>3. a = 0 \/ (<<host, a>> \in Pairs /\ Has(hcache', <<host, a>>))
      <4>1. a \in Ips
        BY <3>1, HostCacheAssumption DEF TableInv, ResolverSets
      <4> QED
        BY <3>1, <3>2, <4>1 DEF NewHostnameEffect, Pairs, Ips
    <3>4. \A pair : Has(hcache, pair) => Has(hcache', pair)
      BY <1>1, <3>2, ExtendedHas DEF NewHostnameEffect
    <3>5. changes' # 0
      BY <1>1, <3>1
    <3> QED
      BY <1>3, <3>1, <3>3, <3>4, <3>5, AnswerKept DEF LookupHostname
  <2> QED
    BY <2>1, <2>2, <2>3
<1>4. CASE LookupIpaddr
  <2>1. PICK a \in Addresses : KnownAddress(a) \/ NewAddress(a)
    BY <1>4 DEF LookupIpaddr
  <2>2. a # 0
    BY HostCacheAssumption
  <2>3. CASE KnownAddress(a)
    <3>1. PICK i \in DOMAIN hcache : i = FindEntry(hcache, a) /\ hcache[i].ip = a
      BY <1>1, <2>3, FindEntryFinds DEF KnownAddress
    <3>2. PICK host : host = FirstName(hcache[i]) /\ Answers(host, a) /\ hcache' = hcache /\ changes' = changes
      BY <2>3, <3>1 DEF KnownAddress
    <3>3. host = "none" \/ (<<host, a>> \in Pairs /\ Has(hcache', <<host, a>>))
      BY <1>1, <1>2, <2>2, <3>1, <3>2 DEF Has
    <3> QED
      BY <1>4, <3>2, <3>3, AnswerKept DEF LookupIpaddr
  <2>4. CASE NewAddress(a)
    <3>1. NewAddressEffect(a)
      BY <2>4, NewAddressAdds
    <3>2. PICK i \in DOMAIN hcache' : i = Len(hcache') /\ hcache'[i].ip = a /\ hcache'[i] \in Entries
      BY <3>1 DEF NewAddressEffect
    <3>3. PICK host : host = FirstName(hcache'[i]) /\ Answers(host, a) /\ changes' = changes + 1
      BY <2>4, <3>2 DEF NewAddress
    <3>4. host = "none" \/ (<<host, a>> \in Pairs /\ Has(hcache', <<host, a>>))
      BY <1>2, <2>2, <3>2, <3>3 DEF Has
    <3>5. \A pair : Has(hcache, pair) => Has(hcache', pair)
      BY <1>1, <3>1, ExtendedHas DEF NewAddressEffect
    <3>6. changes' # 0
      BY <1>1, <3>3
    <3> QED
      BY <1>4, <3>3, <3>4, <3>5, <3>6, AnswerKept DEF LookupIpaddr
  <2> QED
    BY <2>1, <2>3, <2>4
<1> QED
  BY <1>3, <1>4

\* What was told is in the file once it is written, and when there was nothing to
\* write it was there already.
LEMMA WritingKeeps ==
  ASSUME TableInv, KeepInv, toRead = <<>>
  PROVE  /\ kept \cup answered \subseteq Pairs
         /\ \A pair \in kept \cup answered : Has(Written(hcache), pair) /\ Has(hcache, pair)
         /\ changes = 0 => \A pair \in kept \cup answered : Has(file, pair)
<1>1. kept \cup answered \subseteq Pairs
  BY DEF KeepInv, Pairs
<1>2. \A pair \in kept \cup answered : Has(hcache, pair)
  BY EmptyTable DEF KeepInv
<1>3. \A pair \in kept \cup answered : Has(Written(hcache), pair)
  <2>1. ASSUME NEW pair \in kept \cup answered
        PROVE  Has(Written(hcache), pair)
    <3>1. pair[2] # 0 /\ Has(hcache, pair) /\ Sound(hcache)
      BY <1>1, <1>2, PairAddress DEF TableInv
    <3> QED
      BY <3>1, WrittenHas
  <2> QED
    BY <2>1
<1>4. changes = 0 => \A pair \in kept \cup answered : Has(file, pair)
  BY <1>1, <1>2 DEF KeepInv, Pairs
<1> QED
  BY <1>1, <1>2, <1>3, <1>4

LEMMA KeepKept ==
  ASSUME TableInv, RoomInv, KeepInv, [Next]_vars
  PROVE  KeepInv'
<1>1. CASE UpdateFile
  <2>1. toRead = <<>> /\ changes # 0
    BY <1>1 DEF UpdateFile
  <2>2. kept' \subseteq Hosts \X Addresses /\ \A pair \in kept' : Has(file', pair) /\ Has(hcache', pair)
    BY <1>1, <2>1, WritingKeeps DEF UpdateFile, Pairs
  <2>3. answered' \subseteq kept' /\ changes' # 0
    BY <1>1, <2>1 DEF UpdateFile
  <2> QED
    BY <2>2, <2>3 DEF KeepInv
<1>2. CASE Ends
  <2>1. toRead = <<>> /\ kept' = kept \cup answered /\ Restarts
    BY <1>2 DEF Ends
  <2>2. kept' \subseteq Pairs /\ \A pair \in kept' : Has(file', pair)
    BY <1>2, <2>1, WritingKeeps DEF Ends
  <2> QED
    BY <2>1, <2>2, RestartKeeps
<1>3. CASE Killed
  BY <1>3, RestartKeeps DEF Killed, KeepInv, Pairs
<1>4. CASE KilledWriting
  BY <1>4, RestartKeeps DEF KilledWriting
<1>5. CASE UNCHANGED vars
  BY <1>5 DEF vars, KeepInv
<1> QED
  BY <1>1, <1>2, <1>3, <1>4, <1>5, ReadKeeps, LookupKeeps DEF Next

\* What a run was told stays in the file, however many runs are killed, however
\* often the file is written, and although it is not written when nothing changed.
THEOREM AnswersStayOnFile ==
  ASSUME FilesSound, RoomForAll
  PROVE  HostCacheSpec => []FileKeeps
<1>1. InitHostCache => TableInv /\ RoomInv /\ KeepInv
  BY TableInit, RoomInit, KeepInit
<1>2. TableInv /\ RoomInv /\ KeepInv /\ [Next]_vars => TableInv' /\ RoomInv' /\ KeepInv'
  BY TableKept, RoomKept, KeepKept
<1>3. KeepInv => FileKeeps
  BY DEF KeepInv, FileKeeps, Has
<1> QED
  BY <1>1, <1>2, <1>3, PTL DEF HostCacheSpec
=============================================================================

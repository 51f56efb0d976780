---------------------------- MODULE SortingProofs ----------------------------
(***************************************************************************)
(* quicksort loses nothing and ends, whatever the comparison says, and     *)
(* ends with the array in order if the comparison is an order: for any     *)
(* servers, players, keys, and any size of an int.                         *)
(***************************************************************************)
EXTENDS Sorting, SequenceTheorems, FiniteSetTheorems, TLAPS

\* What is sorted: a server or player of the job.
Elements(in) == IF in.job = "servers" THEN Server ELSE Player
Values(in) == {in.list[k] : k \in DOMAIN in.list}

\* The array as a permutation of what was taken.
Permuted ==
  \E to \in [1 .. Size -> 1 .. Size] : IsRearranged(to)

\* Before its first exchange, a pass of qpartition has the pivot in front, so that
\* the scan from the left stops at once.
PivotFirst ==
  scan.on =>
    /\ calls[1].lo < calls[1].hi
    /\ scan.i < calls[1].lo => array[calls[1].lo] = scan.z

Types ==
  /\ input \in Inputs
  /\ array \in Seq(Values(input))
  /\ Size = Len(Taken(input))
  /\ calls \in Seq([lo : Int, hi : Int])
  /\ scan \in [on : BOOLEAN, i : Int, j : Int, z : Values(input) \cup {0}]
  /\ scan.on => scan.z \in Values(input)

RangeInv == Types /\ Permuted /\ RangesOK /\ ScanOK /\ PivotFirst

\* Two elements are in order, or both in a range still to be sorted.
Pending(k, l) == \E c \in 1 .. Len(calls) : calls[c].lo <= k /\ l <= calls[c].hi
PairsOrdered ==
  \A k, l \in 1 .. Size : k < l => Compare(array[k], array[l]) <= 0 \/ Pending(k, l)

\* What qpartition's scans have passed, or exchanged, is on its side of the pivot.
ScannedSides ==
  scan.on =>
    /\ \A k \in calls[1].lo .. scan.i : Compare(array[k], scan.z) <= 0
    /\ \A k \in scan.j .. calls[1].hi : Compare(array[k], scan.z) >= 0

OrderInv == RangeInv /\ ScannedSides /\ (Consistent => PairsOrdered)

-----------------------------------------------------------------------------
\* The comparison.

LEMMA ValuesType ==
  ASSUME NEW in \in Inputs
  PROVE  /\ in \in Jobs /\ in.list \in Seq(Values(in))
         /\ Values(in) \subseteq Elements(in)
<1>1. in \in Jobs
  BY SortingAssumption
<1>2. in.list \in Seq(Items)
  BY <1>1 DEF Jobs
<1>3. DOMAIN in.list = 1 .. Len(in.list) /\ Len(in.list) \in Nat
  BY <1>2, LenProperties
<1>4. in.list = [k \in 1 .. Len(in.list) |-> in.list[k]]
  BY <1>2, LenProperties
<1>5. in.list \in [1 .. Len(in.list) -> Values(in)]
  BY <1>3, <1>4 DEF Values
<1>6. in.list \in Seq(Values(in))
  BY <1>3, <1>5, SeqDef
<1>7. Values(in) \subseteq Elements(in)
  BY SortingAssumption DEF Values, Elements
<1> QED
  BY <1>1, <1>6, <1>7

\* No element is before or after itself.
LEMMA CompareSame ==
  ASSUME NEW x, input \in Inputs, x \in Elements(input)
  PROVE  Compare(x, x) = 0
<1>1. \A v \in Int : Minus(v, v) = 0
  BY SortingAssumption DEF Minus
<1>2. \A v \in Int : Order(v, v) = 0
  BY DEF Order
<1>3. ASSUME NEW key PROVE By(key, x, x) = 0
  <2>1. CASE input.job = "servers"
    <3>1. x \in Server
      BY <2>1 DEF Elements
    <3>2. /\ x.game \in Int /\ x.host \in Int /\ x.ip \in Int /\ x.port \in Int
          /\ x.ping \in Int /\ x.requests \in Int /\ x.players \in Int
      BY <3>1, SortingAssumption DEF Server, Number
    <3> QED
      BY <1>1, <1>2, <2>1, <3>2 DEF By, ServerBy
  <2>2. CASE input.job # "servers"
    <3>1. x \in Player
      BY <2>2 DEF Elements
    <3>2. /\ x.ping \in Int /\ x.frags \in Int /\ x.score \in Int /\ x.team \in Int
          /\ x.teamName \in Int /\ x.name \in Int /\ x.number \in Int
      BY <3>1, SortingAssumption DEF Player, Number
    <3> QED
      BY <1>1, <1>2, <2>2, <3>2 DEF By, PlayerBy
  <2> QED
    BY <2>1, <2>2
<1> QED
  BY <1>3 DEF Compare

LEMMA CompareType ==
  ASSUME NEW x, NEW y, input \in Inputs, x \in Elements(input), y \in Elements(input)
  PROVE  Compare(x, y) \in Int
<1>1. \A v, w \in Int : Minus(v, w) \in Int
  BY SortingAssumption DEF Minus
<1>2. \A v, w : Order(v, w) \in Int
  BY DEF Order
<1>3. ASSUME NEW key PROVE By(key, x, y) \in Int
  <2>1. CASE input.job = "servers"
    <3>1. x \in Server /\ y \in Server
      BY <2>1 DEF Elements
    <3>2. /\ x.ping \in Int /\ x.requests \in Int /\ x.players \in Int
          /\ y.ping \in Int /\ y.requests \in Int /\ y.players \in Int
      BY <3>1, SortingAssumption DEF Server, Number
    <3> QED
      BY <1>1, <1>2, <2>1, <3>2 DEF By, ServerBy
  <2>2. CASE input.job # "servers"
    <3>1. x \in Player /\ y \in Player
      BY <2>2 DEF Elements
    <3>2. /\ x.ping \in Int /\ x.frags \in Int /\ x.score \in Int /\ x.team \in Int /\ x.number \in Int
          /\ y.ping \in Int /\ y.frags \in Int /\ y.score \in Int /\ y.team \in Int /\ y.number \in Int
      BY <3>1, SortingAssumption DEF Player, Number
    <3> QED
      BY <1>1, <1>2, <2>2, <3>2 DEF By, PlayerBy
  <2> QED
    BY <2>1, <2>2
<1> QED
  BY <1>3 DEF Compare

-----------------------------------------------------------------------------
\* Permutations.

LEMMA TakenType ==
  ASSUME NEW in \in Inputs
  PROVE  Taken(in) \in Seq(Values(in))
<1>1. in \in Jobs /\ in.list \in Seq(Values(in))
  BY ValuesType
<1>2. Len(in.list) \in Nat /\ DOMAIN in.list = 1 .. Len(in.list)
  BY <1>1, LenProperties
<1>3. FirstTaken(in) \in Nat \ {0}
  <2>1. Teams(in) \in SUBSET (1 .. Len(in.list))
    BY <1>2 DEF Teams
  <2>2. IsFiniteSet(1 .. Len(in.list))
    <3>1. 1 \in Int /\ Len(in.list) \in Int
      BY <1>2
    <3> QED
      BY <3>1, FS_Interval
  <2>3. IsFiniteSet(Teams(in))
    BY <2>1, <2>2, FS_Subset
  <2>4. Cardinality(Teams(in)) \in Nat
    BY <2>3, FS_CardinalityType
  <2> QED
    BY <2>4 DEF FirstTaken
<1>4. Room(in) \in Int
  BY <1>1, SortingAssumption DEF Jobs, Number, Room
<1>5. LastTaken(in) \in Int /\ LastTaken(in) <= Len(in.list)
  BY <1>2, <1>3, <1>4 DEF LastTaken
<1>6. \A k \in FirstTaken(in) .. LastTaken(in) : in.list[k] \in Values(in)
  BY <1>2, <1>3, <1>5 DEF Values
<1> QED
  BY <1>3, <1>5, <1>6, SubSeqProperties DEF Taken

\* The array starts as what is taken.
LEMMA StartsPermuted ==
  ASSUME InitSorting
  PROVE  Permuted
<1>1. array \in Seq(Values(input)) /\ array = Taken(input)
  BY TakenType DEF InitSorting
<1>2. Size \in Nat
  BY <1>1, LenProperties DEF Size
<1> DEFINE to == [k \in 1 .. Size |-> k]
<1>3. to \in [1 .. Size -> 1 .. Size]
  OBVIOUS
<1>4. IsRearranged(to)
  BY <1>1 DEF IsRearranged
<1> QED
  BY <1>3, <1>4 DEF Permuted

\* An exchange of two elements of the array.
LEMMA ExchangePermutes ==
  ASSUME Types, Permuted, input' = input,
         NEW i \in 1 .. Size, NEW j \in 1 .. Size, i # j,
         array' = [array EXCEPT ![i] = array[j], ![j] = array[i]]
  PROVE  /\ Permuted'
         /\ array' \in Seq(Values(input)) /\ Size' = Size
         /\ \A k \in 1 .. Size : array'[k] = IF k = i THEN array[j]
                                             ELSE IF k = j THEN array[i] ELSE array[k]
<1>1. /\ array \in Seq(Values(input)) /\ Size = Len(array)
      /\ array[i] \in Values(input) /\ array[j] \in Values(input)
  BY ElementOfSeq DEF Types, Size
<1> DEFINE half == [array EXCEPT ![i] = array[j]]
<1>2. /\ half \in Seq(Values(input)) /\ Len(half) = Size
      /\ \A k \in 1 .. Size : half[k] = IF k = i THEN array[j] ELSE array[k]
  BY <1>1, ExceptSeq
<1>3. array' = [half EXCEPT ![j] = array[i]]
  OBVIOUS
<1>4. /\ array' \in Seq(Values(input)) /\ Len(array') = Size
      /\ \A k \in 1 .. Size : array'[k] = IF k = j THEN array[i] ELSE half[k]
  <2> HIDE DEF half
  <2> QED
    BY <1>1, <1>2, <1>3, ExceptSeq
<1>5. Size' = Size
  BY <1>4 DEF Size
<1>6. \A k \in 1 .. Size : array'[k] = IF k = i THEN array[j]
                                      ELSE IF k = j THEN array[i] ELSE array[k]
  BY <1>2, <1>4
<1>7. Permuted'
  <2>1. PICK to \in [1 .. Size -> 1 .. Size] : IsRearranged(to)
    BY DEF Permuted
  <2> DEFINE after == [k \in 1 .. Size |-> IF k = i THEN to[j] ELSE IF k = j THEN to[i] ELSE to[k]]
  <2>2. after \in [1 .. Size -> 1 .. Size]
    OBVIOUS
  <2>3. \A k \in 1 .. Size : to[k] \in 1 .. Size /\ array[k] = Taken(input)[to[k]]
    BY <2>1 DEF IsRearranged
  <2>4. \A k, l \in 1 .. Size : to[k] = to[l] => k = l
    BY <2>1 DEF IsRearranged
  <2>5. \A k \in 1 .. Size : after[k] \in 1 .. Size /\ array'[k] = Taken(input)[after[k]]
    BY <1>6, <2>3
  <2>6. \A k, l \in 1 .. Size : after[k] = after[l] => k = l
    BY <2>4
  <2>7. Taken(input)' = Taken(input)
    OBVIOUS
  <2> HIDE DEF after
  <2>8. \E x \in [1 .. Size' -> 1 .. Size'] :
          /\ \A k \in 1 .. Size' : x[k] \in 1 .. Size' /\ array'[k] = Taken(input)'[x[k]]
          /\ \A k, l \in 1 .. Size' : x[k] = x[l] => k = l
    <3>1. after \in [1 .. Size' -> 1 .. Size']
      BY <1>5, <2>2
    <3>2. \A k \in 1 .. Size' :
            after[k] \in 1 .. Size' /\ array'[k] = Taken(input)'[after[k]]
      BY <1>5, <2>5, <2>7
    <3>3. \A k, l \in 1 .. Size' : after[k] = after[l] => k = l
      BY <1>5, <2>6
    <3> WITNESS after \in [1 .. Size' -> 1 .. Size']
    <3> QED
      BY <3>2, <3>3
  <2> QED
    BY <2>8 DEF Permuted, IsRearranged
<1> QED
  BY <1>4, <1>5, <1>6, <1>7

LEMMA SameArray ==
  ASSUME Types, Permuted, UNCHANGED <<input, array>>
  PROVE  Permuted' /\ Size' = Size
  BY DEF Permuted, IsRearranged, Size

-----------------------------------------------------------------------------
\* Each step keeps the ranges and the scans where they belong.

LEMMA InitRanges ==
  ASSUME InitSorting
  PROVE  RangeInv
<1>1. input \in Inputs /\ array = Taken(input) /\ array \in Seq(Values(input))
  BY TakenType DEF InitSorting
<1>2. Size \in Nat /\ Size = Len(Taken(input))
  BY <1>1, LenProperties DEF Size
<1>3. calls = <<[lo |-> 1, hi |-> Size]>> /\ scan = NotScanning
  BY DEF InitSorting, Size
<1>4. calls \in Seq([lo : Int, hi : Int]) /\ Len(calls) = 1 /\ calls[1] = [lo |-> 1, hi |-> Size]
  BY <1>2, <1>3
<1>5. Types
  BY <1>1, <1>2, <1>3, <1>4 DEF Types, NotScanning
<1>6. RangesOK
  BY <1>2, <1>4 DEF RangesOK
<1>7. ScanOK /\ PivotFirst
  BY <1>3 DEF ScanOK, PivotFirst, NotScanning
<1> QED
  BY <1>5, <1>6, <1>7, StartsPermuted DEF RangeInv

\* What is left of the calls when the first returns.
LEMMA TailCalls ==
  ASSUME Types, calls # <<>>
  PROVE  /\ Len(calls) \in Nat \ {0}
         /\ Tail(calls) \in Seq([lo : Int, hi : Int])
         /\ Len(Tail(calls)) = Len(calls) - 1
         /\ \A c \in 1 .. Len(calls) - 1 : Tail(calls)[c] = calls[c + 1]
         /\ \A c \in 1 .. Len(calls) : calls[c].lo \in Int /\ calls[c].hi \in Int
<1>1. calls \in Seq([lo : Int, hi : Int])
  BY DEF Types
<1>2. Len(calls) \in Nat /\ Len(calls) # 0
  BY <1>1, LenProperties, EmptySeq
<1>3. \A c \in 1 .. Len(calls) : calls[c] \in [lo : Int, hi : Int]
  BY <1>1, ElementOfSeq
<1> QED
  BY <1>1, <1>2, <1>3, HeadTailProperties

LEMMA ReturnKeepsRanges ==
  ASSUME RangeInv, Return
  PROVE  RangeInv'
<1>1. Permuted' /\ Size' = Size
  BY SameArray DEF Return, RangeInv
<1>2. /\ calls # <<>> /\ ~scan.on /\ calls' = Tail(calls)
      /\ input' = input /\ array' = array /\ scan' = scan
  BY DEF Return
<1>3. Types'
  BY <1>1, <1>2, TailCalls DEF RangeInv, Types
<1>4. RangesOK'
  <2>1. /\ Len(calls') = Len(calls) - 1 /\ Len(calls) \in Nat \ {0}
        /\ \A c \in 1 .. Len(calls) - 1 : calls'[c] = calls[c + 1]
        /\ \A c \in 1 .. Len(calls) : calls[c].lo \in Int /\ calls[c].hi \in Int
    BY <1>2, TailCalls DEF RangeInv
  <2>2. ASSUME NEW c \in 1 .. Len(calls')
        PROVE  /\ calls'[c].lo >= 1 /\ calls'[c].hi <= Size
               /\ Size > 0 => calls'[c].lo <= calls'[c].hi
               /\ \A d \in 1 .. c - 1 : calls'[d].hi < calls'[c].lo
    <3>1. c \in 1 .. Len(calls) - 1 /\ c + 1 \in 1 .. Len(calls) /\ calls'[c] = calls[c + 1]
      BY <2>1
    <3>2. ASSUME NEW d \in 1 .. c - 1 PROVE calls'[d].hi < calls'[c].lo
      <4>1. d + 1 \in 1 .. (c + 1) - 1 /\ calls'[d] = calls[d + 1]
        BY <2>1, <3>1
      <4> QED
        BY <3>1, <4>1 DEF RangeInv, RangesOK
    <3> QED
      BY <3>1, <3>2 DEF RangeInv, RangesOK
  <2> QED
    BY <1>1, <2>2 DEF RangesOK
<1>5. ScanOK' /\ PivotFirst'
  BY <1>2 DEF ScanOK, PivotFirst
<1> QED
  BY <1>1, <1>3, <1>4, <1>5 DEF RangeInv

LEMMA PartitionKeepsRanges ==
  ASSUME RangeInv, Partition
  PROVE  RangeInv'
<1>1. Permuted' /\ Size' = Size
  BY SameArray DEF Partition, RangeInv
<1>2. /\ calls # <<>> /\ ~scan.on /\ calls[1].lo < calls[1].hi
      /\ input' = input /\ array' = array /\ calls' = calls
      /\ scan' = [on |-> TRUE, i |-> calls[1].lo - 1, j |-> calls[1].hi + 1,
                  z |-> array[calls[1].lo]]
  BY DEF Partition
<1>3. /\ 1 \in 1 .. Len(calls) /\ calls[1].lo \in Int /\ calls[1].hi \in Int
      /\ 1 <= calls[1].lo /\ calls[1].hi <= Size
  BY <1>2, TailCalls DEF RangeInv, RangesOK
<1>4. array[calls[1].lo] \in Values(input)
  <2>1. array \in Seq(Values(input)) /\ Size \in Nat
    BY LenProperties DEF RangeInv, Types, Size
  <2> QED
    BY <1>2, <1>3, <2>1, ElementOfSeq DEF Size
<1>5. Types'
  <2>1. scan' \in [on : BOOLEAN, i : Int, j : Int, z : Values(input) \cup {0}]
        /\ scan'.z \in Values(input)
    BY <1>2, <1>3, <1>4
  <2> QED
    BY <1>1, <1>2, <2>1 DEF RangeInv, Types
<1>6. RangesOK'
  BY <1>1, <1>2 DEF RangeInv, RangesOK
<1>7. ScanOK' /\ PivotFirst'
  BY <1>2, <1>3 DEF ScanOK, PivotFirst
<1> QED
  BY <1>1, <1>5, <1>6, <1>7 DEF RangeInv

\* Where the scans have stopped, within the range of the first call.
LEMMA ScansStop ==
  ASSUME RangeInv, scan.on,
         NEW i \in 1 .. Size + 1, NEW j \in 1 .. Size, Scanned(i, j)
  PROVE  /\ Len(calls) \in Nat \ {0} /\ Size \in Nat
         /\ calls[1].lo \in Int /\ calls[1].hi \in Int /\ scan.i \in Int /\ scan.j \in Int
         /\ 1 <= calls[1].lo /\ calls[1].lo < calls[1].hi /\ calls[1].hi <= Size
         /\ calls[1].lo - 1 <= scan.i /\ scan.j <= calls[1].hi + 1
         /\ calls[1].lo <= j /\ j < scan.j /\ scan.i < i
         /\ StopsDown(j) /\ StopsUp(i, j)
         /\ \A k \in j + 1 .. scan.j - 1 : ~StopsDown(k)
         /\ \A k \in scan.i + 1 .. i - 1 : ~StopsUp(k, j)
<1>1. calls # <<>> /\ calls[1].lo - 1 <= scan.i /\ scan.j <= calls[1].hi + 1
  BY DEF RangeInv, ScanOK
<1>2. /\ Len(calls) \in Nat \ {0} /\ calls[1].lo \in Int /\ calls[1].hi \in Int
  BY <1>1, TailCalls DEF RangeInv
<1>3. 1 <= calls[1].lo /\ calls[1].hi <= Size /\ calls[1].lo < calls[1].hi
  BY <1>2 DEF RangeInv, RangesOK, PivotFirst
<1>4. scan.i \in Int /\ scan.j \in Int
  BY DEF RangeInv, Types
<1>5. Size \in Nat
  BY LenProperties DEF RangeInv, Types, Size
<1>6. /\ j \in calls[1].lo .. scan.j - 1 /\ StopsDown(j)
      /\ \A k \in j + 1 .. scan.j - 1 : ~StopsDown(k)
      /\ i \in scan.i + 1 .. Size + 1 /\ StopsUp(i, j)
      /\ \A k \in scan.i + 1 .. i - 1 : ~StopsUp(k, j)
  BY DEF Scanned
<1> QED
  BY <1>1, <1>2, <1>3, <1>4, <1>5, <1>6

LEMMA ExchangeKeepsRanges ==
  ASSUME RangeInv, Exchange
  PROVE  RangeInv'
<1>1. PICK i \in 1 .. Size, j \in 1 .. Size :
        /\ Scanned(i, j) /\ i < j
        /\ array' = [array EXCEPT ![i] = array[j], ![j] = array[i]]
        /\ scan' = [scan EXCEPT !.i = i, !.j = j]
  BY DEF Exchange
<1>2. scan.on /\ input' = input /\ calls' = calls
  BY DEF Exchange
<1>3. /\ Size \in Nat /\ calls[1].lo \in Int /\ calls[1].hi \in Int
      /\ scan.i \in Int /\ scan.j \in Int
      /\ calls[1].lo < calls[1].hi
      /\ calls[1].lo - 1 <= scan.i /\ scan.j <= calls[1].hi + 1
      /\ calls[1].lo <= j /\ j < scan.j /\ scan.i < i
  <2>1. Size \in Nat
    BY LenProperties DEF RangeInv, Types, Size
  <2>2. i \in 1 .. Size + 1
    BY <2>1
  <2> QED
    BY <1>1, <1>2, <2>2, ScansStop
<1>4. /\ Permuted' /\ array' \in Seq(Values(input)) /\ Size' = Size
  <2>1. i # j
    BY <1>1
  <2> QED
    BY <1>1, <1>2, <2>1, ExchangePermutes DEF RangeInv
<1>5. scan' \in [on : BOOLEAN, i : Int, j : Int, z : Values(input) \cup {0}]
      /\ scan'.on /\ scan'.z = scan.z /\ scan'.i = i /\ scan'.j = j
  <2>1. scan \in [on : BOOLEAN, i : Int, j : Int, z : Values(input) \cup {0}]
    BY DEF RangeInv, Types
  <2>2. i \in Int /\ j \in Int
    BY <1>3
  <2> QED
    BY <1>1, <1>2, <2>1, <2>2
<1>6. Types'
  BY <1>2, <1>4, <1>5 DEF RangeInv, Types
<1>7. RangesOK'
  BY <1>2, <1>4 DEF RangeInv, RangesOK
<1>8. ScanOK' /\ PivotFirst'
  BY <1>1, <1>2, <1>3, <1>5 DEF RangeInv, ScanOK, PivotFirst
<1> QED
  BY <1>4, <1>6, <1>7, <1>8 DEF RangeInv

\* The first pass stops at the pivot, so that the last has a side for each call.
LEMMA DivideSplits ==
  ASSUME RangeInv, scan.on,
         NEW i \in 1 .. Size + 1, NEW j \in 1 .. Size, Scanned(i, j), i >= j
  PROVE  calls[1].lo <= j /\ j < calls[1].hi
<1>1. /\ calls[1].lo \in Int /\ calls[1].hi \in Int /\ scan.i \in Int /\ scan.j \in Int
      /\ 1 <= calls[1].lo /\ calls[1].lo < calls[1].hi /\ calls[1].hi <= Size
      /\ calls[1].lo - 1 <= scan.i /\ scan.j <= calls[1].hi + 1
      /\ calls[1].lo <= j /\ j < scan.j /\ scan.i < i
      /\ \A k \in scan.i + 1 .. i - 1 : ~StopsUp(k, j)
  BY ScansStop
<1>2. CASE scan.i >= calls[1].lo
  BY <1>1, <1>2 DEF RangeInv, ScanOK
<1>3. CASE scan.i < calls[1].lo
  <2>1. SUFFICES ASSUME j >= calls[1].hi
                 PROVE  FALSE
    BY <1>1
  <2>2. calls[1].lo \in scan.i + 1 .. i - 1 /\ calls[1].lo <= j
    BY <1>1, <1>3, <2>1
  <2>3. array[calls[1].lo] = scan.z /\ scan.z \in Elements(input) /\ input \in Inputs
    BY <1>3, ValuesType DEF RangeInv, PivotFirst, Types
  <2>4. Compare(array[calls[1].lo], scan.z) = 0
    BY <2>3, CompareSame
  <2>5. StopsUp(calls[1].lo, j)
    BY <2>4 DEF StopsUp
  <2> QED
    BY <1>1, <2>2, <2>5
<1> QED
  BY <1>1, <1>2, <1>3

\* The calls after a division: two for the first, and those behind it.
LEMMA DividedCalls ==
  ASSUME Types, calls # <<>>, NEW j \in Int,
         calls' = <<[lo |-> calls[1].lo, hi |-> j], [lo |-> j + 1, hi |-> calls[1].hi]>> \o Tail(calls)
  PROVE  /\ calls' \in Seq([lo : Int, hi : Int])
         /\ Len(calls') = Len(calls) + 1
         /\ calls'[1] = [lo |-> calls[1].lo, hi |-> j]
         /\ calls'[2] = [lo |-> j + 1, hi |-> calls[1].hi]
         /\ \A c \in 3 .. Len(calls) + 1 : calls'[c] = calls[c - 1]
<1>1. /\ Len(calls) \in Nat \ {0}
      /\ Tail(calls) \in Seq([lo : Int, hi : Int])
      /\ Len(Tail(calls)) = Len(calls) - 1
      /\ \A c \in 1 .. Len(calls) - 1 : Tail(calls)[c] = calls[c + 1]
      /\ calls[1].lo \in Int /\ calls[1].hi \in Int
  BY TailCalls
<1> DEFINE both == <<[lo |-> calls[1].lo, hi |-> j], [lo |-> j + 1, hi |-> calls[1].hi]>>
<1>2. /\ both \in Seq([lo : Int, hi : Int]) /\ Len(both) = 2
      /\ both[1] = [lo |-> calls[1].lo, hi |-> j]
      /\ both[2] = [lo |-> j + 1, hi |-> calls[1].hi]
  BY <1>1
<1>3. calls' = both \o Tail(calls)
  OBVIOUS
<1> HIDE DEF both
<1>4. /\ calls' \in Seq([lo : Int, hi : Int])
      /\ Len(calls') = Len(both) + Len(Tail(calls))
      /\ \A c \in 1 .. Len(both) + Len(Tail(calls)) :
           calls'[c] = IF c <= Len(both) THEN both[c] ELSE Tail(calls)[c - Len(both)]
  BY <1>1, <1>2, <1>3, ConcatProperties
<1>5. /\ Len(calls') = Len(calls) + 1
      /\ \A c \in 1 .. Len(calls) + 1 :
           calls'[c] = IF c <= 2 THEN both[c] ELSE Tail(calls)[c - 2]
  BY <1>1, <1>2, <1>4
<1>6. calls'[1] = both[1] /\ calls'[2] = both[2]
  BY <1>1, <1>5
<1>7. ASSUME NEW c \in 3 .. Len(calls) + 1 PROVE calls'[c] = calls[c - 1]
  <2>1. calls'[c] = Tail(calls)[c - 2] /\ c - 2 \in 1 .. Len(calls) - 1
    BY <1>1, <1>5
  <2> QED
    BY <1>1, <2>1
<1> QED
  BY <1>2, <1>4, <1>5, <1>6, <1>7

LEMMA DivideKeepsRanges ==
  ASSUME RangeInv, Divide
  PROVE  RangeInv'
<1>1. Permuted' /\ Size' = Size
  BY SameArray DEF Divide, RangeInv
<1>2. PICK i \in 1 .. Size + 1, j \in 1 .. Size :
        /\ Scanned(i, j) /\ i >= j
        /\ calls' = <<[lo |-> calls[1].lo, hi |-> j], Rest(j)>> \o Tail(calls)
  BY DEF Divide
<1>3. scan.on /\ input' = input /\ array' = array /\ scan' = NotScanning
  BY DEF Divide
<1>4. /\ Size \in Nat /\ j \in Int /\ calls # <<>> /\ Types /\ RangesOK
      /\ Len(calls) \in Nat \ {0} /\ calls[1].lo \in Int /\ calls[1].hi \in Int
      /\ 1 <= calls[1].lo /\ calls[1].hi <= Size
  BY <1>2, <1>3, ScansStop DEF RangeInv, ScanOK
<1>5. calls[1].lo <= j /\ j < calls[1].hi
  BY <1>2, <1>3, DivideSplits
<1>6. /\ calls' \in Seq([lo : Int, hi : Int])
      /\ Len(calls') = Len(calls) + 1
      /\ calls'[1] = [lo |-> calls[1].lo, hi |-> j]
      /\ calls'[2] = [lo |-> j + 1, hi |-> calls[1].hi]
      /\ \A c \in 3 .. Len(calls) + 1 : calls'[c] = calls[c - 1]
  BY <1>2, <1>4, DividedCalls DEF Rest
<1>7. Types'
  BY <1>1, <1>3, <1>6 DEF RangeInv, Types, NotScanning
<1>8. RangesOK'
  <2>1. ASSUME NEW c \in 1 .. Len(calls')
        PROVE  /\ calls'[c].lo >= 1 /\ calls'[c].hi <= Size
               /\ Size > 0 => calls'[c].lo <= calls'[c].hi
               /\ \A d \in 1 .. c - 1 : calls'[d].hi < calls'[c].lo
    <3>1. CASE c = 1
      BY <1>4, <1>5, <1>6, <3>1
    <3>2. CASE c = 2
      BY <1>4, <1>5, <1>6, <3>2
    <3>3. CASE c > 2
      <4>1. c - 1 \in 2 .. Len(calls) /\ calls'[c] = calls[c - 1]
        <5>1. Len(calls) \in Nat /\ Len(calls') = Len(calls) + 1
          BY <1>4, <1>6
        <5>2. c \in 3 .. Len(calls) + 1
          BY <3>3, <5>1
        <5>3. \A k \in 3 .. Len(calls) + 1 : calls'[k] = calls[k - 1]
          BY <1>6
        <5>4. calls'[c] = calls[c - 1]
          BY <5>2, <5>3
        <5> QED
          BY <5>1, <5>2, <5>4
      <4>2. calls[c - 1].lo \in Int
        BY <1>4, <4>1, TailCalls
      <4>3. /\ calls[c - 1].lo >= 1 /\ calls[c - 1].hi <= Size
            /\ Size > 0 => calls[c - 1].lo <= calls[c - 1].hi
            /\ \A d \in 1 .. c - 2 : calls[d].hi < calls[c - 1].lo
        BY <1>4, <4>1 DEF RangesOK
      <4>4. ASSUME NEW d \in 1 .. c - 1 PROVE calls'[d].hi < calls'[c].lo
        <5>1. CASE d \in {1, 2}
          <6>1. calls[1].hi < calls[c - 1].lo
            BY <4>1, <4>3
          <6>2. calls'[1].hi = j /\ calls'[2].hi = calls[1].hi
            BY <1>6
          <6>3. j < calls[c - 1].lo
            BY <1>4, <1>5, <4>2, <6>1
          <6>4. calls'[d].hi \in {j, calls[1].hi}
            BY <5>1, <6>2
          <6> QED
            BY <4>1, <6>1, <6>3, <6>4
        <5>2. CASE d > 2
          <6>1. d - 1 \in 1 .. c - 2 /\ calls'[d] = calls[d - 1]
            BY <1>4, <1>6, <4>1, <5>2
          <6> QED
            BY <4>1, <4>3, <6>1
        <5> QED
          BY <5>1, <5>2
      <4> QED
        BY <4>1, <4>3, <4>4
    <3> QED
      BY <1>4, <1>6, <3>1, <3>2, <3>3
  <2> QED
    BY <1>1, <2>1 DEF RangesOK
<1>9. ScanOK' /\ PivotFirst'
  BY <1>3 DEF ScanOK, PivotFirst, NotScanning
<1> QED
  BY <1>1, <1>7, <1>8, <1>9 DEF RangeInv

LEMMA StutterKeepsRanges ==
  ASSUME RangeInv, UNCHANGED vars
  PROVE  RangeInv'
<1>1. Permuted' /\ Size' = Size
  BY SameArray DEF vars, RangeInv
<1> QED
  BY <1>1 DEF vars, RangeInv, Types, RangesOK, ScanOK, PivotFirst

LEMMA RangeStep ==
  ASSUME RangeInv, [Next]_vars
  PROVE  RangeInv'
  BY ReturnKeepsRanges, PartitionKeepsRanges, ExchangeKeepsRanges, DivideKeepsRanges,
     StutterKeepsRanges DEF Next, Sorted

\* Whatever the comparison says: the array stays a permutation of what was taken,
\* and both sides of a division have elements (qpartition).
THEOREM SortingTypes == SortingSpec => []SortingTypeOK
<1>1. InitSorting => RangeInv
  BY InitRanges
<1>2. RangeInv /\ [Next]_vars => RangeInv'
  BY RangeStep
<1>3. RangeInv => SortingTypeOK
  BY DEF RangeInv, Types, Permuted, SortingTypeOK
<1> QED
  BY <1>1, <1>2, <1>3, PTL DEF SortingSpec

-----------------------------------------------------------------------------
\* Each step keeps the order reached so far.

LEMMA SameCompare ==
  ASSUME input' = input
  PROVE  \A x, y : Compare(x, y)' = Compare(x, y)
  BY DEF Compare, FirstToSettle, Settles, By

LEMMA SameConsistent ==
  ASSUME input' = input, Consistent'
  PROVE  Consistent
  BY SameCompare DEF Consistent

LEMMA ArrayElements ==
  ASSUME Types
  PROVE  /\ input \in Inputs /\ Size \in Nat
         /\ \A k \in 1 .. Size : array[k] \in Values(input) /\ array[k] \in Elements(input)
<1>1. input \in Inputs /\ array \in Seq(Values(input)) /\ Values(input) \subseteq Elements(input)
  BY ValuesType DEF Types
<1>2. Size = Len(array) /\ Len(array) \in Nat
  BY <1>1, LenProperties DEF Size
<1> QED
  BY <1>1, <1>2, ElementOfSeq

LEMMA InitOrder ==
  ASSUME InitSorting
  PROVE  OrderInv
<1>1. RangeInv
  BY InitRanges
<1>2. Size \in Nat
  BY <1>1, ArrayElements DEF RangeInv
<1>3. calls = <<[lo |-> 1, hi |-> Size]>> /\ ~scan.on
  BY DEF InitSorting, NotScanning, Size
<1>4. Len(calls) = 1 /\ calls[1].lo = 1 /\ calls[1].hi = Size
  BY <1>2, <1>3
<1>5. \A k, l \in 1 .. Size : Pending(k, l)
  BY <1>2, <1>4 DEF Pending
<1> QED
  BY <1>1, <1>3, <1>5 DEF OrderInv, PairsOrdered, ScannedSides

LEMMA ReturnKeepsOrder ==
  ASSUME OrderInv, Return
  PROVE  OrderInv'
<1>1. RangeInv'
  BY ReturnKeepsRanges DEF OrderInv
<1>2. /\ calls # <<>> /\ ~scan.on /\ calls' = Tail(calls) /\ calls[1].lo >= calls[1].hi
      /\ input' = input /\ array' = array /\ scan' = scan /\ Size' = Size
  BY DEF Return, Size
<1>3. /\ Len(calls') = Len(calls) - 1 /\ Len(calls) \in Nat \ {0}
      /\ \A c \in 1 .. Len(calls) - 1 : calls'[c] = calls[c + 1]
      /\ \A c \in 1 .. Len(calls) : calls[c].lo \in Int /\ calls[c].hi \in Int
      /\ Size \in Nat
  BY <1>2, TailCalls, ArrayElements DEF OrderInv, RangeInv
<1>4. ASSUME NEW k \in 1 .. Size, NEW l \in 1 .. Size, k < l, Pending(k, l)
      PROVE  Pending(k, l)'
  <2>1. PICK c \in 1 .. Len(calls) : calls[c].lo <= k /\ l <= calls[c].hi
    BY <1>4 DEF Pending
  <2>2. c # 1
    BY <1>2, <1>3, <1>4, <2>1
  <2>3. c - 1 \in 1 .. Len(calls') /\ calls'[c - 1] = calls[c]
    <3>1. c - 1 \in 1 .. Len(calls) - 1 /\ (c - 1) + 1 = c
      BY <1>3, <2>2
    <3> QED
      BY <1>3, <3>1
  <2>4. \E b \in 1 .. Len(calls') : calls'[b].lo <= k /\ l <= calls'[b].hi
    BY <2>1, <2>3
  <2> QED
    BY <2>4 DEF Pending
<1>5. Consistent' => PairsOrdered'
  BY <1>2, <1>4, SameCompare, SameConsistent DEF OrderInv, PairsOrdered
<1> QED
  BY <1>1, <1>2, <1>5 DEF OrderInv, ScannedSides

LEMMA PartitionKeepsOrder ==
  ASSUME OrderInv, Partition
  PROVE  OrderInv'
<1>1. RangeInv'
  BY PartitionKeepsRanges DEF OrderInv
<1>2. /\ input' = input /\ array' = array /\ calls' = calls /\ Size' = Size /\ calls # <<>>
      /\ scan'.i = calls[1].lo - 1 /\ scan'.j = calls[1].hi + 1
  BY DEF Partition, Size
<1>3. calls[1].lo \in Int /\ calls[1].hi \in Int
  BY <1>2, TailCalls DEF OrderInv, RangeInv
<1>4. ScannedSides'
  BY <1>2, <1>3 DEF ScannedSides
<1>5. Consistent' => PairsOrdered'
  BY <1>2, SameCompare, SameConsistent DEF OrderInv, PairsOrdered, Pending
<1> QED
  BY <1>1, <1>4, <1>5 DEF OrderInv

\* An element outside the range of the first call is in order with all inside.
LEMMA OutsideFirst ==
  ASSUME RangeInv, PairsOrdered, calls # <<>>,
         NEW k \in 1 .. Size, NEW l \in 1 .. Size, k < l,
         \/ k < calls[1].lo /\ calls[1].lo <= l /\ l <= calls[1].hi
         \/ calls[1].lo <= k /\ k <= calls[1].hi /\ calls[1].hi < l
  PROVE  Compare(array[k], array[l]) <= 0
<1>1. /\ Len(calls) \in Nat \ {0} /\ Size \in Nat
      /\ \A c \in 1 .. Len(calls) : calls[c].lo \in Int /\ calls[c].hi \in Int
  BY TailCalls, ArrayElements DEF RangeInv
<1>2. ASSUME Pending(k, l) PROVE FALSE
  <2>1. PICK c \in 1 .. Len(calls) : calls[c].lo <= k /\ l <= calls[c].hi
    BY <1>2 DEF Pending
  <2>2. CASE c = 1
    BY <1>1, <2>1, <2>2
  <2>3. CASE c # 1
    <3>1. 1 \in 1 .. c - 1
      BY <1>1, <2>3
    <3>2. calls[1].hi < calls[c].lo
      BY <3>1 DEF RangeInv, RangesOK
    <3>3. calls[1].lo \in Int /\ calls[1].hi \in Int /\ calls[c].lo \in Int
      BY <1>1
    <3> QED
      BY <2>1, <3>2, <3>3
  <2> QED
    BY <2>2, <2>3
<1> QED
  BY <1>2 DEF PairsOrdered

\* What the scans have passed when they stop.
LEMMA ScansPass ==
  ASSUME OrderInv, scan.on,
         NEW i \in 1 .. Size + 1, NEW j \in 1 .. Size, Scanned(i, j)
  PROVE  /\ \A k \in calls[1].lo .. i - 1 : k <= Size => Compare(array[k], scan.z) <= 0
         /\ \A k \in j + 1 .. calls[1].hi : Compare(array[k], scan.z) >= 0
<1>1. /\ Size \in Nat /\ calls[1].lo \in Int /\ calls[1].hi \in Int
      /\ scan.i \in Int /\ scan.j \in Int
      /\ 1 <= calls[1].lo /\ calls[1].hi <= Size
      /\ calls[1].lo - 1 <= scan.i /\ scan.j <= calls[1].hi + 1
      /\ calls[1].lo <= j /\ j < scan.j /\ scan.i < i
      /\ \A k \in j + 1 .. scan.j - 1 : ~StopsDown(k)
      /\ \A k \in scan.i + 1 .. i - 1 : ~StopsUp(k, j)
  BY ScansStop DEF OrderInv
<1>2. \A k \in 1 .. Size : Compare(array[k], scan.z) \in Int
  <2>1. scan.z \in Elements(input) /\ input \in Inputs
    BY ValuesType DEF OrderInv, RangeInv, Types
  <2> QED
    BY <2>1, ArrayElements, CompareType DEF OrderInv, RangeInv
<1>3. ASSUME NEW k \in calls[1].lo .. i - 1, k <= Size
      PROVE  Compare(array[k], scan.z) <= 0
  <2>1. CASE k <= scan.i
    BY <1>1, <2>1 DEF OrderInv, ScannedSides
  <2>2. CASE k > scan.i
    <3>1. ~StopsUp(k, j)
      BY <1>1, <2>2
    <3>2. Compare(array[k], scan.z) \in Int /\ ~(Compare(array[k], scan.z) >= 0)
      BY <1>1, <1>2, <1>3, <3>1 DEF StopsUp
    <3> QED
      BY <3>2
  <2> QED
    BY <1>1, <2>1, <2>2
<1>4. ASSUME NEW k \in j + 1 .. calls[1].hi
      PROVE  Compare(array[k], scan.z) >= 0
  <2>1. CASE k >= scan.j
    BY <1>1, <2>1 DEF OrderInv, ScannedSides
  <2>2. CASE k < scan.j
    <3>1. ~StopsDown(k) /\ k \in 1 .. Size
      BY <1>1, <2>2
    <3>2. Compare(array[k], scan.z) \in Int /\ ~(Compare(array[k], scan.z) <= 0)
      BY <1>2, <3>1 DEF StopsDown
    <3> QED
      BY <3>2
  <2> QED
    BY <1>1, <2>1, <2>2
<1> QED
  BY <1>3, <1>4

LEMMA ExchangeKeepsOrder ==
  ASSUME OrderInv, Exchange
  PROVE  OrderInv'
<1>1. RangeInv'
  BY ExchangeKeepsRanges DEF OrderInv
<1>2. PICK i \in 1 .. Size, j \in 1 .. Size :
        /\ Scanned(i, j) /\ i < j
        /\ array' = [array EXCEPT ![i] = array[j], ![j] = array[i]]
        /\ scan' = [scan EXCEPT !.i = i, !.j = j]
  BY DEF Exchange
<1>3. scan.on /\ input' = input /\ calls' = calls /\ calls # <<>>
  BY DEF Exchange, OrderInv, RangeInv, ScanOK
<1>4. Size \in Nat /\ i \in 1 .. Size + 1
  BY ArrayElements DEF OrderInv, RangeInv
<1>5. /\ calls[1].lo \in Int /\ calls[1].hi \in Int /\ Len(calls) \in Nat \ {0}
      /\ 1 <= calls[1].lo /\ calls[1].hi <= Size
      /\ calls[1].lo <= i /\ i < j /\ j <= calls[1].hi
      /\ StopsDown(j) /\ StopsUp(i, j)
  BY <1>2, <1>3, <1>4, ScansStop DEF OrderInv
<1>6. /\ \A k \in calls[1].lo .. i - 1 : k <= Size => Compare(array[k], scan.z) <= 0
      /\ \A k \in j + 1 .. calls[1].hi : Compare(array[k], scan.z) >= 0
  BY <1>2, <1>3, <1>4, ScansPass
<1>7. Compare(array[j], scan.z) <= 0 /\ Compare(array[i], scan.z) >= 0
  BY <1>5 DEF StopsDown, StopsUp
<1>8. /\ Size' = Size
      /\ \A k \in 1 .. Size : array'[k] = IF k = i THEN array[j]
                                          ELSE IF k = j THEN array[i] ELSE array[k]
  <2>1. i # j
    BY <1>5
  <2> QED
    BY <1>2, <1>3, <2>1, ExchangePermutes DEF OrderInv, RangeInv
<1>9. scan'.z = scan.z /\ scan'.i = i /\ scan'.j = j
  BY <1>2 DEF OrderInv, RangeInv, Types
<1>10. ScannedSides'
  <2>1. ASSUME NEW k \in calls[1].lo .. i PROVE Compare(array'[k], scan.z) <= 0
    BY <1>4, <1>5, <1>6, <1>7, <1>8
  <2>2. ASSUME NEW k \in j .. calls[1].hi PROVE Compare(array'[k], scan.z) >= 0
    BY <1>4, <1>5, <1>6, <1>7, <1>8
  <2>3. \A k \in calls[1].lo .. i : Compare(array[k], scan.z)' <= 0
    BY <1>3, <1>9, <2>1, SameCompare
  <2>4. \A k \in j .. calls[1].hi : Compare(array[k], scan.z)' >= 0
    BY <1>3, <1>9, <2>2, SameCompare
  <2> QED
    BY <1>3, <1>9, <2>3, <2>4 DEF ScannedSides
<1>11. ASSUME Consistent PROVE PairsOrdered'
  <2> DEFINE inside == calls[1].lo .. calls[1].hi
  <2>1. PairsOrdered /\ RangeInv
    BY <1>11 DEF OrderInv
  <2>2. \A k \in 1 .. Size : k \notin inside => array'[k] = array[k]
    BY <1>5, <1>8
  <2>3. \A k \in inside : \E m \in inside : array'[k] = array[m]
    BY <1>4, <1>5, <1>8
  <2>4. ASSUME NEW k \in 1 .. Size, NEW l \in 1 .. Size, k < l
        PROVE  Compare(array'[k], array'[l]) <= 0 \/ Pending(k, l)
    <3>1. CASE k \in inside /\ l \in inside
      BY <1>5, <3>1 DEF Pending
    <3>2. CASE k \notin inside /\ l \in inside
      <4>1. PICK m \in inside : array'[l] = array[m]
        BY <2>3, <3>2
      <4>2. k < calls[1].lo /\ m \in 1 .. Size /\ k < m
        BY <1>4, <1>5, <2>4, <3>2
      <4>3. Compare(array[k], array[m]) <= 0
        BY <1>3, <1>5, <2>1, <4>2, OutsideFirst
      <4> QED
        BY <2>2, <3>2, <4>1, <4>3
    <3>3. CASE k \in inside /\ l \notin inside
      <4>1. PICK m \in inside : array'[k] = array[m]
        BY <2>3, <3>3
      <4>2. calls[1].hi < l /\ m \in 1 .. Size /\ m < l
        BY <1>4, <1>5, <2>4, <3>3
      <4>3. Compare(array[m], array[l]) <= 0
        BY <1>3, <1>5, <2>1, <4>2, OutsideFirst
      <4> QED
        BY <2>2, <3>3, <4>1, <4>3
    <3>4. CASE k \notin inside /\ l \notin inside
      BY <2>1, <2>2, <2>4, <3>4 DEF PairsOrdered
    <3> QED
      BY <3>1, <3>2, <3>3, <3>4
  <2>5. \A k, l \in 1 .. Size : k < l => Compare(array[k], array[l])' <= 0 \/ Pending(k, l)'
    BY <1>3, <2>4, SameCompare DEF Pending
  <2> QED
    BY <1>8, <2>5 DEF PairsOrdered
<1> QED
  BY <1>1, <1>3, <1>10, <1>11, SameConsistent DEF OrderInv

LEMMA DivideKeepsOrder ==
  ASSUME OrderInv, Divide
  PROVE  OrderInv'
<1>1. RangeInv'
  BY DivideKeepsRanges DEF OrderInv
<1>2. PICK i \in 1 .. Size + 1, j \in 1 .. Size :
        /\ Scanned(i, j) /\ i >= j
        /\ calls' = <<[lo |-> calls[1].lo, hi |-> j], Rest(j)>> \o Tail(calls)
  BY DEF Divide
<1>3. scan.on /\ input' = input /\ array' = array /\ scan' = NotScanning
  BY DEF Divide
<1>4. /\ Size \in Nat /\ Size' = Size /\ calls # <<>> /\ Types /\ RangeInv
      /\ Len(calls) \in Nat \ {0} /\ calls[1].lo \in Int /\ calls[1].hi \in Int
      /\ 1 <= calls[1].lo /\ calls[1].hi <= Size
      /\ calls[1].lo - 1 <= scan.i /\ scan.i \in Int /\ scan.i < i
      /\ calls[1].lo <= j /\ StopsDown(j)
  BY <1>2, <1>3, ScansStop DEF OrderInv, RangeInv, ScanOK, Size
<1>5. j < calls[1].hi
  BY <1>2, <1>3, <1>4, DivideSplits
<1>6. /\ Len(calls') = Len(calls) + 1
      /\ calls'[1] = [lo |-> calls[1].lo, hi |-> j]
      /\ calls'[2] = [lo |-> j + 1, hi |-> calls[1].hi]
      /\ \A c \in 3 .. Len(calls) + 1 : calls'[c] = calls[c - 1]
  BY <1>2, <1>4, DividedCalls DEF Rest
<1>7. scan.z \in Values(input) /\ \A k \in 1 .. Size : array[k] \in Values(input)
  BY <1>3, <1>4, ArrayElements DEF Types
<1>8. /\ \A k \in calls[1].lo .. i - 1 : k <= Size => Compare(array[k], scan.z) <= 0
      /\ \A k \in j + 1 .. calls[1].hi : Compare(array[k], scan.z) >= 0
  BY <1>2, <1>3, ScansPass
<1>9. \A k \in calls[1].lo .. j : Compare(array[k], scan.z) <= 0
  <2>1. Compare(array[j], scan.z) <= 0
    <3>1. CASE j > calls[1].lo
      BY <1>4, <3>1 DEF StopsDown
    <3>2. CASE j = calls[1].lo /\ scan.i < calls[1].lo
      <4>1. array[j] = scan.z
        BY <1>3, <1>4, <3>2 DEF RangeInv, PivotFirst
      <4>2. scan.z \in Elements(input) /\ input \in Inputs
        BY <1>4, <1>7, ValuesType DEF Types
      <4> QED
        BY <4>1, <4>2, CompareSame
    <3>3. CASE j = calls[1].lo /\ scan.i >= calls[1].lo
      BY <1>3, <1>4, <3>3 DEF OrderInv, ScannedSides
    <3> QED
      BY <1>4, <3>1, <3>2, <3>3
  <2> QED
    BY <1>2, <1>4, <1>5, <1>8, <2>1
<1>10. ASSUME Consistent PROVE PairsOrdered'
  <2>1. PairsOrdered
    BY <1>10 DEF OrderInv
  <2>2. ASSUME NEW k \in calls[1].lo .. j, NEW l \in j + 1 .. calls[1].hi
        PROVE  Compare(array[k], array[l]) <= 0
    <3>1. k \in 1 .. Size /\ l \in 1 .. Size
      BY <1>4, <1>5
    <3>2. array[k] \in Values(input) /\ array[l] \in Values(input)
      BY <1>7, <3>1
    <3>3. Compare(array[k], scan.z) <= 0 /\ Compare(array[l], scan.z) >= 0
      BY <1>8, <1>9
    <3>4. Compare(scan.z, array[l]) \in Int /\ Compare(array[l], scan.z) \in Int
      BY <1>4, <1>7, <3>2, ValuesType, CompareType DEF Types
    <3>5. Compare(scan.z, array[l]) > 0 => Compare(array[l], scan.z) < 0
      BY <1>7, <1>10, <3>2 DEF Consistent, Values
    <3>6. Compare(scan.z, array[l]) <= 0
      BY <3>3, <3>4, <3>5
    <3> QED
      BY <1>7, <1>10, <3>2, <3>3, <3>6 DEF Consistent, Values
  <2>3. ASSUME NEW k \in 1 .. Size, NEW l \in 1 .. Size, k < l, Pending(k, l)
        PROVE  Compare(array[k], array[l]) <= 0 \/ Pending(k, l)'
    <3>1. PICK c \in 1 .. Len(calls) : calls[c].lo <= k /\ l <= calls[c].hi
      BY <2>3 DEF Pending
    <3>2. CASE c = 1
      <4>1. CASE l <= j
        <5>1. \E b \in 1 .. Len(calls') : calls'[b].lo <= k /\ l <= calls'[b].hi
          BY <1>4, <1>6, <3>1, <3>2, <4>1
        <5> QED
          BY <5>1 DEF Pending
      <4>2. CASE j < k
        <5>1. \E b \in 1 .. Len(calls') : calls'[b].lo <= k /\ l <= calls'[b].hi
          BY <1>4, <1>6, <3>1, <3>2, <4>2
        <5> QED
          BY <5>1 DEF Pending
      <4>3. CASE k <= j /\ j < l
        BY <1>4, <2>2, <3>1, <3>2, <4>3
      <4> QED
        BY <4>1, <4>2, <4>3
    <3>3. CASE c # 1
      <4>1. c + 1 \in 3 .. Len(calls) + 1 /\ (c + 1) - 1 = c
        BY <1>4, <3>3
      <4>2. calls'[c + 1] = calls[c] /\ c + 1 \in 1 .. Len(calls')
        BY <1>4, <1>6, <4>1
      <4>3. \E b \in 1 .. Len(calls') : calls'[b].lo <= k /\ l <= calls'[b].hi
        BY <3>1, <4>2
      <4> QED
        BY <4>3 DEF Pending
    <3> QED
      BY <3>2, <3>3
  <2>4. \A k, l \in 1 .. Size : k < l => Compare(array[k], array[l]) <= 0 \/ Pending(k, l)'
    BY <2>1, <2>3 DEF PairsOrdered
  <2>5. \A k, l \in 1 .. Size : k < l => Compare(array[k], array[l])' <= 0 \/ Pending(k, l)'
    BY <1>3, <2>4, SameCompare
  <2> QED
    BY <1>4, <2>5 DEF PairsOrdered
<1>11. ScannedSides'
  BY <1>3 DEF ScannedSides, NotScanning
<1> QED
  BY <1>1, <1>3, <1>10, <1>11, SameConsistent DEF OrderInv

LEMMA OrderStep ==
  ASSUME OrderInv, [Next]_vars
  PROVE  OrderInv'
<1>1. CASE UNCHANGED vars
  <2>1. RangeInv'
    BY <1>1, StutterKeepsRanges DEF OrderInv
  <2>2. input' = input /\ array' = array /\ calls' = calls /\ scan' = scan /\ Size' = Size
    BY <1>1 DEF vars, Size
  <2>3. ScannedSides'
    BY <2>2, SameCompare DEF OrderInv, ScannedSides
  <2>4. Consistent' => PairsOrdered'
    BY <2>2, SameCompare, SameConsistent DEF OrderInv, PairsOrdered, Pending
  <2> QED
    BY <2>1, <2>3, <2>4 DEF OrderInv
<1> QED
  BY <1>1, ReturnKeepsOrder, PartitionKeepsOrder, ExchangeKeepsOrder, DivideKeepsOrder
  DEF Next, Sorted

\* When quicksort has returned the array is in order, if the comparison is one.
THEOREM SortingSorts == SortingSpec => []EndsSorted
<1>1. InitSorting => OrderInv
  BY InitOrder
<1>2. OrderInv /\ [Next]_vars => OrderInv'
  BY OrderStep
<1>3. OrderInv => EndsSorted
  <2>1. ASSUME OrderInv, calls = <<>>, Consistent
        PROVE  \A k, l \in 1 .. Size : k < l => Compare(array[k], array[l]) <= 0
    <3>1. \A k, l \in 1 .. Size : ~Pending(k, l)
      BY <2>1 DEF Pending
    <3> QED
      BY <2>1, <3>1 DEF OrderInv, PairsOrdered
  <2> QED
    BY <2>1 DEF EndsSorted
<1> QED
  BY <1>1, <1>2, <1>3, PTL DEF SortingSpec
=============================================================================

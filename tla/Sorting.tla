------------------------------- MODULE Sorting -------------------------------
(***************************************************************************)
(* The sorting of qstat.c: sort_servers and sort_players, quicksort with   *)
(* qpartition, server_compare and player_compare.                          *)
(*                                                                         *)
(* quicksort's calls are a stack of the ranges still to be sorted, the one *)
(* that runs first; a pass of qpartition's loop is a step.  Arrays count   *)
(* from 1 here.                                                            *)
(***************************************************************************)
EXTENDS Integers, Sequences, FiniteSets

CONSTANTS
  Items,    \* servers or players, with the fields that sort keys name
  Inputs,   \* what is sorted, by which keys: see SortingAssumption
  IntMax    \* largest int

Keys == {"p", "g", "i", "h", "n", "l", "P", "F", "T", "N", "S"}

Number == -IntMax - 1 .. IntMax

\* numPlayers and spectators are the server's, when its players are sorted.
Jobs == [job : {"servers", "players"}, keys : Seq(Keys), list : Seq(Items),
         numPlayers : Number, spectators : Number]

Server == [game : Nat, host : Nat, ip : Nat, port : Nat, ping : Nat, requests : Nat,
           players : Number]
Player == [ping : Number, frags : Number, score : Number, team : Number, teamName : Nat,
           name : Nat, number : Number, isTeam : BOOLEAN]

ASSUME SortingAssumption ==
  /\ Items \subseteq Server \cup Player
  /\ IntMax \in Nat
  /\ Inputs \subseteq Jobs
  /\ \A in \in Inputs : \A k \in DOMAIN in.list :
       in.list[k] \in IF in.job = "servers" THEN Server ELSE Player

VARIABLES
  input,  \* the element of Inputs this run is about
  array,  \* the array that is sorted
  calls,  \* quicksort's calls: ranges [lo, hi]
  scan    \* qpartition's locals, for the range of the first call

vars == <<input, array, calls, scan>>

-----------------------------------------------------------------------------
\* Comparing.

\* Subtraction of two ints.
Minus(x, y) ==
  CASE x - y > IntMax -> x - y - 2 * (IntMax + 1)
    [] x - y < -IntMax - 1 -> x - y + 2 * (IntMax + 1)
    [] OTHER -> x - y

\* strcmp_withnull, ports and addresses.
Order(x, y) == IF x < y THEN -1 ELSE IF x > y THEN 1 ELSE 0

\* A server that was sent nothing comes last, as far as "p" goes: whatever other
\* key there is does not count for it.
ServerBy(key, one, two) ==
  CASE key = "g" -> Order(one.game, two.game)
    [] key = "p" -> IF one.requests = 0 THEN two.requests
                    ELSE IF two.requests = 0 THEN -1 ELSE Minus(one.ping, two.ping)
    [] key = "i" -> IF one.ip # two.ip THEN Order(one.ip, two.ip) ELSE Order(one.port, two.port)
    [] key = "h" -> Order(one.host, two.host)
    [] key = "n" -> Minus(two.players, one.players)
    [] OTHER -> 0

\* "N" ends the comparison.
PlayerBy(key, one, two) ==
  CASE key = "P" -> Minus(one.ping, two.ping)
    [] key = "F" -> Minus(two.frags, one.frags)
    [] key = "S" -> Minus(two.score, one.score)
    [] key = "T" -> IF Minus(one.team, two.team) # 0 THEN Minus(one.team, two.team)
                    ELSE Order(one.teamName, two.teamName)
    [] key = "N" -> IF one.name # two.name THEN Order(one.name, two.name)
                    ELSE Minus(one.number, two.number)
    [] OTHER -> 0

By(key, one, two) ==
  IF input.job = "servers" THEN ServerBy(key, one, two) ELSE PlayerBy(key, one, two)

\* server_compare and player_compare: the first key that settles it.
Settles(k, one, two) ==
  \/ By(input.keys[k], one, two) # 0
  \/ input.job = "servers" /\ input.keys[k] = "p" /\ one.requests = 0
  \/ input.job = "players" /\ input.keys[k] = "N"
FirstToSettle(k, one, two) ==
  Settles(k, one, two) /\ \A before \in 1 .. k - 1 : ~Settles(before, one, two)
Compare(one, two) ==
  IF \E k \in DOMAIN input.keys : FirstToSettle(k, one, two)
  THEN By(input.keys[CHOOSE k \in DOMAIN input.keys : FirstToSettle(k, one, two)], one, two)
  ELSE 0

-----------------------------------------------------------------------------
\* sort_players leaves the teams in front where they are, and takes as many of the
\* rest as there are said to be: any more are unlinked.
IsTeam(in, k) == in.job = "players" /\ in.list[k].isTeam
Teams(in) == {k \in DOMAIN in.list : \A before \in 1 .. k : IsTeam(in, before)}
FirstTaken(in) == Cardinality(Teams(in)) + 1
Room(in) == IF in.numPlayers = 0 THEN 0 ELSE in.numPlayers + in.spectators
LastTaken(in) ==
  IF in.job = "servers" \/ FirstTaken(in) + Room(in) > Len(in.list) THEN Len(in.list)
  ELSE FirstTaken(in) + Room(in) - 1
Taken(in) == SubSeq(in.list, FirstTaken(in), LastTaken(in))

Size == Len(array)

\* qpartition's variables: the range, i, j and the element z to compare with.
NotScanning == [on |-> FALSE, i |-> 0, j |-> 0, z |-> 0]

InitSorting ==
  /\ input \in Inputs
  /\ array = Taken(input)
  /\ calls = <<[lo |-> 1, hi |-> Len(array)]>>
  /\ scan = NotScanning

\* quicksort of nothing or one element.
Return ==
  /\ calls # <<>> /\ ~scan.on
  /\ calls[1].lo >= calls[1].hi
  /\ calls' = Tail(calls)
  /\ UNCHANGED <<input, array, scan>>

\* quicksort calls qpartition.
Partition ==
  /\ calls # <<>> /\ ~scan.on
  /\ calls[1].lo < calls[1].hi
  /\ scan' = [on |-> TRUE, i |-> calls[1].lo - 1, j |-> calls[1].hi + 1, z |-> array[calls[1].lo]]
  /\ UNCHANGED <<input, array, calls>>

\* The scan from the right stops at j, the one from the left at i.
StopsDown(j) == j > calls[1].lo => Compare(array[j], scan.z) <= 0
StopsUp(i, j) == i <= j => Compare(array[i], scan.z) >= 0
Scanned(i, j) ==
  /\ j \in calls[1].lo .. scan.j - 1 /\ StopsDown(j)
  /\ \A k \in j + 1 .. scan.j - 1 : ~StopsDown(k)
  /\ i \in scan.i + 1 .. Size + 1 /\ StopsUp(i, j)
  /\ \A k \in scan.i + 1 .. i - 1 : ~StopsUp(k, j)

\* A pass of qpartition that exchanges two elements.
Exchange ==
  /\ scan.on
  /\ \E i \in 1 .. Size, j \in 1 .. Size :
       /\ Scanned(i, j) /\ i < j
       /\ array' = [array EXCEPT ![i] = array[j], ![j] = array[i]]
       /\ scan' = [scan EXCEPT !.i = i, !.j = j]
  /\ UNCHANGED <<input, calls>>

\* The last one: quicksort goes on with either side.  Mutants: the second side
\* begins with the last of the first, or leaves one out.
RestOverlaps(j) == [lo |-> j, hi |-> calls[1].hi]
RestSkips(j) == [lo |-> j + 2, hi |-> calls[1].hi]
Rest(j) == [lo |-> j + 1, hi |-> calls[1].hi]
Divide ==
  /\ scan.on
  /\ \E i \in 1 .. Size + 1, j \in 1 .. Size :
       /\ Scanned(i, j) /\ i >= j
       /\ calls' = <<[lo |-> calls[1].lo, hi |-> j], Rest(j)>> \o Tail(calls)
  /\ scan' = NotScanning
  /\ UNCHANGED <<input, array>>

Sorted == calls = <<>> /\ UNCHANGED vars

Next == Return \/ Partition \/ Exchange \/ Divide \/ Sorted

SortingSpec == InitSorting /\ [][Next]_vars /\ WF_vars(Next)

-----------------------------------------------------------------------------
\* Properties.

\* The order of the indexes before the sort that the array now has.
IsRearranged(to) ==
  /\ \A k \in 1 .. Size : to[k] \in 1 .. Size /\ array[k] = Taken(input)[to[k]]
  /\ \A k, l \in 1 .. Size : to[k] = to[l] => k = l

\* Whatever the comparison says, consistent or not: no element is lost or doubled,
\* the scans stay in their range, and both sides of a division have elements, so that
\* each is smaller than the range was and quicksort ends (qpartition, qstat.c:11675).
RangesOK ==
  \A c \in 1 .. Len(calls) :
    /\ calls[c].lo >= 1 /\ calls[c].hi <= Size
    /\ Size > 0 => calls[c].lo <= calls[c].hi
    /\ \A d \in 1 .. c - 1 : calls[d].hi < calls[c].lo
ScanOK ==
  scan.on =>
    /\ calls # <<>>
    /\ calls[1].lo - 1 <= scan.i /\ scan.i < scan.j /\ scan.j <= calls[1].hi + 1
    /\ scan.i >= calls[1].lo => scan.j <= calls[1].hi
SortingTypeOK ==
  /\ input \in Inputs
  /\ Size = Len(Taken(input))
  /\ \E to \in [1 .. Size -> 1 .. Size] : IsRearranged(to)
  /\ RangesOK /\ ScanOK

\* A comparison that is an order: of two elements one is before the other, or
\* neither, and that goes from one to the next.
Consistent ==
  LET Values == {input.list[k] : k \in DOMAIN input.list}
  IN \A x, y, w \in Values :
       /\ Compare(x, y) > 0 <=> Compare(y, x) < 0
       /\ Compare(x, y) <= 0 /\ Compare(y, w) <= 0 => Compare(x, w) <= 0

\* When quicksort has returned, the array is in order, if there is one ("Servers
\* and players are sorted according to sort-keys", qstatdoc.html:729).
EndsSorted ==
  (calls = <<>> /\ Consistent) =>
    \A k, l \in 1 .. Size : k < l => Compare(array[k], array[l]) <= 0
=============================================================================

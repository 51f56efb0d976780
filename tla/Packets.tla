------------------------------ MODULE Packets ------------------------------
(***************************************************************************)
(* packet_manip.c: the fragments a server has sent so far (the list        *)
(* qserver.saved_data) and the search for a response that is whole.        *)
(*                                                                         *)
(* The list is a sequence of records [id, index, max, data]; max = 0 marks *)
(* a fragment whose response has been handled.                             *)
(***************************************************************************)
EXTENDS Integers, Sequences, FiniteSets, FiniteSetsExt

CONSTANTS
  MaxFragments,  \* MAX_FAGMENTS: indexes the table segments has room for
  MaxPackets     \* MAX_PACKETS: responses it has room for

ASSUME PacketsAssumption == MaxFragments \in Nat \ {0} /\ MaxPackets \in Nat \ {0}

Fragment(id, index, max, data) == [id |-> id, index |-> index, max |-> max, data |-> data]

\* The first fragment is the one inside the struct; the others are linked in
\* right behind it.
Insert(saved, f) ==
  IF saved = <<>> THEN <<f>> ELSE <<Head(saved), f>> \o Tail(saved)

\* add_packet with calc_max: the largest total heard of holds for them all.
Raised(saved, max) ==
  [k \in DOMAIN saved |-> [saved[k] EXCEPT !.max = max]]

\* Mutant: only the new fragment learns the larger total.
AddPacketKeepsMax(saved, f) ==
  IF saved = <<>> THEN <<f>>
  ELSE LET max == Max({f.max} \cup {saved[k].max : k \in DOMAIN saved})
       IN Insert(saved, [f EXCEPT !.max = max])

AddPacket(saved, f) ==
  IF saved = <<>> THEN <<f>>
  ELSE LET max == Max({f.max} \cup {saved[k].max : k \in DOMAIN saved})
       IN Insert(Raised(saved, max), [f EXCEPT !.max = max])

-----------------------------------------------------------------------------
\* combine_packets.  The fragments not handled yet, the responses they belong
\* to, and the total each response is said to have: that of the first fragment
\* of it on the list.
Pending(saved) == {k \in DOMAIN saved : saved[k].max # 0}
ResponseIds(saved) == {saved[k].id : k \in Pending(saved)}
FirstOf(saved, id) == Min({k \in Pending(saved) : saved[k].id = id})
Total(saved, id) == saved[FirstOf(saved, id)].max

\* segments[id]: the first fragment of each index that agrees on the total.
Agreeing(saved, id) == {k \in Pending(saved) : saved[k].id = id /\ saved[k].max = Total(saved, id)}
Segments(saved, id) ==
  {k \in Agreeing(saved, id) :
     \A j \in Agreeing(saved, id) : saved[j].index = saved[k].index => k <= j}

\* counts[id] = maxes[id]
Counted(saved, id) == Cardinality(Segments(saved, id)) = Total(saved, id)

\* segments[id][0 .. counts[id] - 1] are all there.
NoneMissing(saved, id) ==
  \A p \in 0 .. Total(saved, id) - 1 : \E k \in Segments(saved, id) : saved[k].index = p

TableFull(saved) ==
  \/ \E k \in Pending(saved) : saved[k].index >= MaxFragments
  \/ Cardinality(ResponseIds(saved)) > MaxPackets

\* The responses are tried in the order in which the list mentions them.
Complete(saved) == {id \in ResponseIds(saved) : Counted(saved, id)}
Chosen(saved) ==
  CHOOSE id \in Complete(saved) :
    \A other \in Complete(saved) : FirstOf(saved, id) <= FirstOf(saved, other)

SegmentAt(saved, id, p) == CHOOSE k \in Segments(saved, id) : saved[k].index = p

\* What the packet function is called with: the data of fragments 0, 1, ...
Combined(saved, id) ==
  [p \in 1 .. Total(saved, id) |-> saved[SegmentAt(saved, id, p - 1)].data]

\* "prevent reprocessing?"
Handled(saved, id) ==
  [k \in DOMAIN saved |->
     IF k \in Segments(saved, id) THEN [saved[k] EXCEPT !.max = 0] ELSE saved[k]]

\* The outcome: an error, nothing yet, or a call of the packet function.  The
\* handlers search after every fragment, so a second response that became
\* whole in the same moment need not be looked for.
Combine(saved) ==
  IF TableFull(saved) THEN [ret |-> "PKT_ERROR", saved |-> saved, data |-> <<>>]
  ELSE IF Complete(saved) = {} \/ ~NoneMissing(saved, Chosen(saved))
  THEN [ret |-> "INPROGRESS", saved |-> saved, data |-> <<>>]
  ELSE [ret |-> "call", saved |-> Handled(saved, Chosen(saved)),
        data |-> Combined(saved, Chosen(saved))]

\* packet_count, which the handlers of TCP streams use as the next index.
PacketCount(saved) == Len(saved)
=============================================================================

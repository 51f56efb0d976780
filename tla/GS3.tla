-------------------------------- MODULE GS3 --------------------------------
(***************************************************************************)
(* gs3.c: Gamespy 3 and 4.  A Gamespy 4 query starts with a challenge; a   *)
(* server that knows only version 3 says so with a reply of seven bytes    *)
(* and is asked again the old way.  Fragments carry an index and a flag on *)
(* the last one, so how many there are must be guessed and corrected.      *)
(***************************************************************************)
EXTENDS QServer

\* send_gs3_request_packet
GS3Request(s) ==
  IF s.status.type = "gs4" /\ s.status.challenge = 0 THEN Request("challenge", NoChallenge)
  ELSE Request(IF s.want = {} THEN "status" ELSE "all", s.status.challenge)

GS3StatusQuery(s, ok) == SendPacket(s, ok, GS3Request(s))

\* A challenge and a fallback are answers: their query is not counted.
GS3Again(s, ok) == GS3StatusQuery([s EXCEPT !.retry1 = @ + 1], ok)

\* Mutant: the last fragment heard of is the last there is.
GuessedLow(m) == m.index + 1

\* The total a fragment suggests: one more than its index, and at least one
\* more still unless it is the last.
Guessed(m) == IF m.final THEN m.index + 1 ELSE m.index + 2

\* add_packet with calc_max, then combine_packets; the four bytes of the id
\* are those of the query, the same in every query.
GS3Fragment(s, m) == Combine(AddPacket(s.saved, Fragment(0, m.index, Guessed(m), m.data)))

\* process_gs3_packet and deal_with_gs3_status
GS3Whole(s, m) ==
  IF m.kind = "all" \/ (m.kind = "status" /\ s.want = {})
  THEN Ends([s EXCEPT !.name = "server"], "DONE_FORCE")
  ELSE Ends(s, "PKT_ERROR")

\* deal_with_gs3_packet
GS3Packet(s, m, ok) ==
  CASE m.kind = "fallback"  -> GS3Again([s EXCEPT !.status.type = "gs3"], ok)
    [] m.kind = "challenge" -> GS3Again([s EXCEPT !.status.challenge = m.challenge], ok)
    [] m.kind = "fragment"  -> LET c == GS3Fragment(s, m)
                                   t == [s EXCEPT !.saved = c.saved]
                               IN IF c.ret = "call" THEN GS3Whole(t, Reassembled(c.data))
                                  ELSE Ends(t, c.ret)
    [] OTHER                -> GS3Whole(s, m)
=============================================================================

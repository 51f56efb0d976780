------------------------------- MODULE Masters -------------------------------
(***************************************************************************)
(* The handlers of master servers, up to the list of addresses they keep   *)
(* (master_pkt): QuakeWorld and what grew out of it, Quake 3, Half-Life    *)
(* and Steam, Tribes, Tribes 2, Descent 3 and Gamespy in qstat.c, and      *)
(* those of doom3.c, ottd.c, tee.c and ut2004.c.  What is done with the    *)
(* addresses, by bind_sockets and cleanup_qserver, is in Scheduler.tla.    *)
(*                                                                         *)
(* A list arrives in pages.  m.page is the number of one, m.last says it   *)
(* is the last: found has the pages in the order they were appended, each  *)
(* as often as it came.                                                    *)
(***************************************************************************)
EXTENDS QServer

\* What a datagram of no known kind appends is no page's.
Junk == 99
Lists(s, m) ==
  [s EXCEPT !.found = Append(@, IF m.kind = "odd" THEN Junk ELSE m.page), !.hasFound = TRUE]
Listed(s) == [s EXCEPT !.name = "MASTER"]

\* What send_qwmaster_request_packet and its kin count once the send succeeded.
CountedMaster(s) ==
  [s EXCEPT !.elapsed = IF s.retry1 = NRetries THEN 0 ELSE @,
            !.retries = IF s.retry1 = NRetries THEN @ ELSE @ + 1, !.retry1 = @ - 1]

\* send_qwmaster_request_packet, send_doom3master_request_packet and
\* send_quake4master_request_packet: a master has no players.  The page asked
\* for is master_query_tag, kept in status.step.
MasterStatusQuery(s, ok) ==
  LET t == [s EXCEPT !.nextPlayer = NoPlayerInfo]
  IN IF ok THEN Asks(CountedMaster(t), "INPROGRESS", Request("list", s.status.step))
     ELSE Ends(t, "SYS_ERROR")

\* send_tribes2master_request_packet
Tribes2MasterStatusQuery(s, ok) ==
  IF ok THEN Asks(CountedMaster(s), "INPROGRESS", Request("list", 0)) ELSE Ends(s, "SYS_ERROR")

-----------------------------------------------------------------------------
\* deal_with_qwmaster_packet.

\* decode_q3master_packet: "received at least one packet so no need to retry".
Quake3List(s, m) ==
  Ends([Lists(s, m) EXCEPT !.retry1 = 0], IF m.last THEN "DONE_FORCE" ELSE "INPROGRESS")

\* decode_stefmaster_packet returns 1.
EliteForceList(s, m) ==
  Ends([Lists(s, m) EXCEPT !.retry1 = 0, !.nextPlayer = -1], "DONE_AUTO")

\* Half-Life and Steam: a page says where the next one starts (Half-Life, with
\* all zeros for the end), or ends in an entry of zeros (Steam).  A datagram of no
\* known kind is appended too, and leaves the tag as it is, which for Half-Life
\* is all zeros before the first page.
IsPaging(s) == s.status.type = "hlm" \/ HasFlag(s.status.type, "MASTER_STEAM")
IsLast(s, m) == IF m.kind = "odd" THEN s.status.type = "hlm" /\ s.status.step = 0 ELSE m.last

\* Mutant: pages are counted as they come.
PageCounted(s, m, ok) ==
  LET t == [Lists(s, m) EXCEPT !.status.step = @ + 1]
  IN IF IsLast(s, m) THEN Ends(Listed(t), "DONE_FORCE")
     ELSE Returns(MasterStatusQuery([t EXCEPT !.retry1 = @ + 1], ok), "INPROGRESS")

Page(s, m, ok) ==
  LET t == [Lists(s, m) EXCEPT !.status.step = IF m.kind = "odd" THEN @ ELSE m.page + 1]
  IN IF IsLast(s, m) THEN Ends(Listed(t), "DONE_FORCE")
     ELSE Returns(MasterStatusQuery([t EXCEPT !.retry1 = @ + 1], ok), "INPROGRESS")

MultiResponse(s) == HasFlag(s.status.type, "MASTER_MULTI_RESPONSE")

QWMasterPacket(s, m, ok) ==
  CASE m.kind = "nack" -> Ends([s EXCEPT !.name = "SERVERERROR"], "PKT_ERROR")
    [] m.kind = "no list" -> Ends(s, "DONE_AUTO")
    [] m.kind = "list" /\ s.status.type \in {"q3m", "rwm", "jk3m"} -> Quake3List(s, m)
    [] m.kind = "list" /\ s.status.type = "efm" -> EliteForceList(s, m)
    [] OTHER ->
         IF MultiResponse(s) THEN Ends([Lists(s, m) EXCEPT !.nextPlayer = -1, !.retry1 = 0], "INPROGRESS")
         ELSE IF IsPaging(s) THEN Page(s, m, ok)
         ELSE Ends(Listed(Lists(s, m)), "DONE_AUTO")

-----------------------------------------------------------------------------
\* deal_with_tribesmaster_packet: next_player_info of -1 keeps the server until
\* the page numbered last.
TribesMasterPacket(s, m) ==
  Ends([Listed(Lists(s, m)) EXCEPT !.nextPlayer = -1], IF m.last THEN "DONE_FORCE" ELSE "DONE_AUTO")

\* deal_with_tribes2master_packet ends with an error when all went well.  The
\* types of games and missions (query=types) are displayed at once.
Tribes2MasterPacket(s, m) ==
  CASE m.kind = "list" -> Ends([Listed(Lists(s, m)) EXCEPT !.nextPlayer = -1],
                               IF m.last THEN "PKT_ERROR" ELSE "DONE_AUTO")
    [] m.kind = "types" -> Ends([Listed(s) EXCEPT !.found = <<>>, !.nextPlayer = -1], "DONE_FORCE")
    [] OTHER -> Ends(s, "PKT_ERROR")

\* deal_with_descent3master_packet and ack_descent3master_packet.
Descent3MasterPacket(s, m, ok) ==
  LET t == [Lists(s, m) EXCEPT !.nextPlayer = -1, !.retry1 = 0]
      ret == IF m.last THEN "DONE_AUTO" ELSE "INPROGRESS"
  IN IF ok THEN Asks(t, ret, Request("ack", m.page)) ELSE Ends(t, ret)

-----------------------------------------------------------------------------
\* deal_with_doom3master_packet: one bad page and the list is thrown away.
Doom3MasterPacket(s, m) ==
  IF m.kind # "list" THEN Ends([s EXCEPT !.name = "SERVERERROR", !.found = <<>>], "PKT_ERROR")
  ELSE Ends([Lists(s, m) EXCEPT !.retry1 = 0], "INPROGRESS")

\* send_ottdmaster_request_packet, deal_with_ottdmaster_packet: a master by
\* name whatever it says.
OttdMasterStatusQuery(s, ok) == SendsInitial(s, ok, Request("list", 0))
OttdMasterPacket(s, m) ==
  IF m.kind = "list" THEN Ends(Listed(Lists(s, m)), "DONE_AUTO") ELSE Ends(Listed(s), "PKT_ERROR")

\* send_teemaster_request_packet, deal_with_teemaster_packet: two requests, and
\* no reply is known to be the last.
TeeMasterStatusQuery(s, ok) ==
  IF ~ok THEN Ends(s, "SYS_ERROR")
  ELSE [s |-> RegisterSend(RegisterSend(s)), ret |-> "INPROGRESS",
        out |-> <<Request("list", 1), Request("list", 2)>>]
TeeMasterPacket(s, m) ==
  IF m.kind # "list" THEN Ends(s, "PKT_ERROR") ELSE Ends(Listed(Lists(s, m)), "INPROGRESS")

-----------------------------------------------------------------------------
\* Gamespy, over TCP: two requests in one go; the answer is kept until a chunk
\* ends in "final" or the connection closes.  status.step counts the pieces.
GamespyMasterStatusQuery(s, ok) ==
  IF ~ok THEN Ends(s, "SYS_ERROR")
  ELSE Asks([s EXCEPT !.elapsed = IF s.retry1 = NRetries THEN 0 ELSE @], "INPROGRESS",
            Request("list", 0))

\* deal_with_gamespy_master_response
GamespyMasterPacket(s, m) ==
  LET t == [s EXCEPT !.status.step = IF m.kind = "eof" THEN @ ELSE @ + 1]
      last == m.kind = "eof" \/ t.status.step = m.data.parts
  IN IF ~last THEN Ends(t, "INPROGRESS")
     ELSE IF t.status.step = 0 THEN Ends(t, "PKT_ERROR")
     ELSE Ends([Listed(t) EXCEPT !.found = [k \in 1 .. t.status.step |-> k], !.hasFound = TRUE,
                                 !.nextPlayer = -1, !.retry1 = 0], "DONE_FORCE")

-----------------------------------------------------------------------------
\* ut2004.c.  The master speaks first; challenge, approval, verification and the
\* query follow one another (status.step, master_query_tag[0]).
UT2004MasterStatusQuery(s) ==
  Ends([QServerSend(s) EXCEPT !.status.step = 0], "INPROGRESS")

UT2004Steps == <<"challenge", "approved", "verified">>
UT2004Answer(s) == Request(<<"response", "verify", "query">>[s.status.step + 1], NoChallenge)

\* A step of the dialogue: what was expected is answered.  A failed send ends it,
\* but for the last, as ut2004_send_query tells the caller nothing went wrong.
UT2004Step(s, m, ok) ==
  LET sent == Sends(s, ok, UT2004Answer(s))
  IN IF m.lines[1].what # UT2004Steps[s.status.step + 1] \/ Len(m.lines) # 1 THEN Ends(s, "DONE_FORCE")
     ELSE IF ~ok /\ s.status.step < 2 THEN Ends(sent.s, "DONE_FORCE")
     ELSE Returns([sent EXCEPT !.s.status.step = @ + 1,
                               !.s.name = IF s.status.step = 0 THEN "MASTER" ELSE @], "INPROGRESS")

\* ut2004_parse_record for the records of a chunk.  The first chunk "contains
\* number of servers to expect", and is not read for more.
UT2004Records(m) ==
  LET records == SelectSeq(m.lines, LAMBDA line : line.what = "server")
  IN [k \in DOMAIN records |-> records[k].page]
UT2004Listing(s, m) ==
  IF ~s.status.haveInfo THEN Ends([s EXCEPT !.status.haveInfo = TRUE], "INPROGRESS")
  ELSE Ends([s EXCEPT !.found = @ \o UT2004Records(m), !.hasFound = TRUE], "INPROGRESS")

\* deal_with_ut2004master_packet: the end of the stream is the end of the list.
UT2004MasterPacket(s, m, ok) ==
  IF m.kind = "eof" THEN Ends(s, "DONE_FORCE")
  ELSE IF s.status.step < 3 THEN UT2004Step(s, m, ok)
  ELSE UT2004Listing(s, m)
=============================================================================

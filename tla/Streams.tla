------------------------------ MODULE Streams ------------------------------
(***************************************************************************)
(* ksp.c, farmsim.c and crysis.c: HTTP over TCP.  A response arrives in    *)
(* chunks of any size; each is kept as a fragment, and all of them are     *)
(* combined and looked at again whenever one more has come.                *)
(***************************************************************************)
EXTENDS QServer

\* valid_ksp_response on the chunks in hand: they are the whole response.
WholeResponse(data) ==
  /\ Len(data) = data[1].parts
  /\ \A p \in DOMAIN data : data[p].part = p

\* The fragment a chunk is kept as in ksp.c and farmsim.c.
KspChunk(s, m) == Fragment(0, PacketCount(s.saved), PacketCount(s.saved) + 1, m.data)

\* In crysis.c: pkt_max = pkt_id++.
CrysisChunk(s, m) == Fragment(0, PacketCount(s.saved) + 1, PacketCount(s.saved), m.data)

Chunk(s, m) == IF s.status.type = "crysis" THEN CrysisChunk(s, m) ELSE KspChunk(s, m)
StreamFragment(s, m) == Combine(AddPacket(s.saved, Chunk(s, m)))

\* The end of the stream is a chunk of no bytes, which add_packet refuses.
StreamEnd(s) == IF s.saved = <<>> THEN "REQ_ERROR" ELSE "MEM_ERROR"

\* A chunk, up to where a whole response is read ("whole").
StreamChunk(s, m) ==
  LET c == StreamFragment(s, m)
      t == [s EXCEPT !.saved = c.saved, !.retry1 = NRetries]
  IN IF m.kind = "eof" THEN Ends([s EXCEPT !.retry1 = NRetries], StreamEnd(s))
     ELSE IF WholeResponse(<<m.data>>) THEN Ends([s EXCEPT !.retry1 = NRetries], "whole")
     ELSE IF c.ret # "call" THEN Ends(t, c.ret)
     ELSE Ends(t, IF WholeResponse(c.data) THEN "whole" ELSE "INPROGRESS")

\* send_ksp_request_packet, deal_with_ksp_packet
KspStatusQuery(s, ok) == SendPacket(s, ok, Request("get", NoChallenge))
KspRespond(s) == Ends([s EXCEPT !.name = "server"], "DONE_FORCE")
KspPacket(s, m) ==
  LET c == StreamChunk(s, m) IN IF c.ret = "whole" THEN KspRespond(c.s) ELSE c

\* send_crysis_request_packet: challenge, authenticate and status in turn,
\* counted in server->challenge.
CrysisCommand(s) == <<"challenge", "authenticate", "status">>[s.status.challenge + 1]
CrysisStatusQuery(s, ok) ==
  SendPacket([s EXCEPT !.status.challenge = @ + 1], ok, Request(CrysisCommand(s), NoChallenge))

\* deal_with_crysis_packet
CrysisRespond(s, m, ok) ==
  IF m.data.message.kind = "down" THEN Ends(s, "REQ_ERROR")
  ELSE IF s.status.challenge < 3 THEN CrysisStatusQuery(s, ok)
  ELSE Ends([s EXCEPT !.name = "server"], "DONE_FORCE")
CrysisPacket(s, m, ok) ==
  LET c == StreamChunk(s, m) IN IF c.ret = "whole" THEN CrysisRespond(c.s, m, ok) ELSE c
=============================================================================

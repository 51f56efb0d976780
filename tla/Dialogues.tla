------------------------------ MODULE Dialogues ------------------------------
(***************************************************************************)
(* Handlers that talk to a server over a TCP connection: ts2.c, ts3.c,     *)
(* tm.c, bfbc2.c, wic.c, terraria.c, starmade.c and Battlefield 1942's     *)
(* bfris in qstat.c.                                                       *)
(*                                                                         *)
(* What a server sends is a stream cut into chunks anywhere between two    *)
(* lines.  A chunk has the lines it holds, each with what it says and its  *)
(* length, and its place among the pieces of the reply it is from.         *)
(***************************************************************************)
EXTENDS Streams, SequencesExt

\* Lines are read one after the other (FoldLeft) by a parser in some mode.
Reading(s, mode) == [s |-> s, mode |-> mode]

NumberedNext(s) == [s EXCEPT !.players = Append(@, Len(@))]

-----------------------------------------------------------------------------
\* ts2.c: all commands go out at once.  status.left is the number of "OK" still
\* to come, kept in saved_data.pkt_index.
Ts2StatusQuery(s, ok) ==
  SendPacket([s EXCEPT !.status.left = IF PlayersWanted(s) THEN 2 ELSE 1], ok,
             RequestWith("commands", s.want \ {"rules"}))

Ts2Line(a, line) ==
  CASE a.mode = 0 /\ line.what = "name" -> [a EXCEPT !.s.name = "server"]
    [] a.mode = 1 /\ line.what = "player" -> [a EXCEPT !.s = NumberedNext(@)]
    [] a.mode \in {0, 1} /\ line.what = "ok" ->
         [a EXCEPT !.mode = @ + 1, !.s.status.left = @ - 1]
    [] a.mode \in {0, 1} /\ line.what = "error" ->
         [a EXCEPT !.s.name = "DOWN", !.s.status.left = 0]
    [] OTHER -> a

\* deal_with_ts2_packet: every chunk is read from mode 0 on.
Ts2Packet(s, m) ==
  IF m.kind = "eof" THEN Ends(s, "REQ_ERROR")
  ELSE LET t == FoldLeft(Ts2Line, Reading([s EXCEPT !.elapsed = 0], 0), m.lines).s
       IN Ends(t, IF t.status.left = 0 THEN "DONE_FORCE" ELSE "INPROGRESS")

-----------------------------------------------------------------------------
\* ts3.c, send_ts3_single_server_packet without a password.  status.challenge
\* counts the replies that were good, status.left is how many there must be.
Ts3Command(s) ==
  CASE s.status.challenge \in {1, 2} -> "use"
    [] s.status.challenge = 3 -> "serverinfo"
    [] s.status.challenge = 4 -> IF PlayersWanted(s) THEN "clientlist" ELSE "quit"
    [] s.status.challenge = 5 -> "quit"
    [] OTHER -> "whatever the buffer holds"

Ts3StatusQuery(s, ok) ==
  IF s.status.challenge = 0 THEN Ends([s EXCEPT !.status.left = 999], "INPROGRESS")
  ELSE IF s.status.challenge = 5 /\ ~PlayersWanted(s) THEN Ends(s, "DONE_FORCE")
  ELSE SendPacket([s EXCEPT !.status.challenge = Max({@, 2}),
                            !.status.left = IF s.status.challenge > 2 THEN @
                                            ELSE IF PlayersWanted(s) THEN 5 ELSE 4],
                  ok, Request(Ts3Command(s), NoChallenge))

\* Where each line of the stream starts.
Position(lines) ==
  LET from[k \in 1 .. Len(lines)] == IF k = 1 THEN 0 ELSE from[k - 1] + lines[k - 1].len
  IN from

\* The "error" lines valid_ts3_response can see from an offset on: one right
\* there, or one whose line break is.
Ts3Results(lines, offset) ==
  {k \in DOMAIN lines : /\ lines[k].what \in {"ok", "error"}
                        /\ Position(lines)[k] = offset \/ Position(lines)[k] - 2 >= offset}

\* valid_ts3_response: how far challenge advances.  status.step is
\* master_pkt_len, where the next search begins; it is set to the distance from
\* where this one began.  A bad result counts two, DONE_FORCE.
Ts3Valid(s, lines) ==
  LET offset == s.status.step
      results == Ts3Results(lines, offset)
      result == Min(results)
  IN IF offset = 0 /\ lines[1].what = "greeting"
     THEN [s EXCEPT !.status.step = 3, !.status.challenge = @ + 1]
     ELSE IF results = {} THEN s
     ELSE IF lines[result].what = "ok"
     THEN [s EXCEPT !.status.step = Position(lines)[result] - offset + 9,
                    !.status.challenge = @ + 1]
     ELSE [s EXCEPT !.name = "DOWN", !.status.challenge = @ + 2]

\* Serverinfo is read behind the first result, the clients behind the second.  A
\* virtual server that is not online is down, and nothing behind that is read.
Ts3Line(a, line) ==
  CASE a.mode = 3 -> a
    [] line.what \in {"ok", "error"} -> [a EXCEPT !.mode = Min({@ + 1, 3})]
    [] a.mode = 1 /\ line.what = "offline" -> [a EXCEPT !.mode = 3, !.s.name = "DOWN"]
    [] a.mode = 1 /\ line.what = "name" -> [a EXCEPT !.s.name = "server"]
    [] a.mode = 2 /\ line.what = "player" -> [a EXCEPT !.s = NumberedNext(@)]
    [] OTHER -> a
Ts3Process(s, lines) ==
  Ends(FoldLeft(Ts3Line, Reading(s, 0), lines).s, "DONE_FORCE")

\* The stream so far, handed back by combine_packets.
Ts3Combined(s, lines, ok) ==
  LET t == Ts3Valid(s, lines)
      sent == IF t.status.challenge > s.status.challenge THEN Ts3StatusQuery(t, ok)
              ELSE Ends(t, "INPROGRESS")
  IN IF sent.ret # "INPROGRESS" \/ sent.s.status.left > sent.s.status.challenge THEN sent
     ELSE After(sent, Ts3Process(sent.s, lines))

\* deal_with_ts3_packet
Ts3Fragment(s, m) ==
  Combine(AddPacket(s.saved, Fragment(0, PacketCount(s.saved), PacketCount(s.saved) + 1, m.lines)))
Ts3Packet(s, m, ok) ==
  LET t == [s EXCEPT !.retry1 = NRetries]
      c == Ts3Fragment(t, m)
      kept == [t EXCEPT !.saved = c.saved]
  IN IF m.kind = "eof" THEN Ends(s, "REQ_ERROR")
     ELSE IF s.status.left < s.status.challenge THEN Ts3Process(t, m.lines)
     ELSE IF c.ret = "call" THEN Ts3Combined(kept, FlattenSeq(c.data), ok)
     ELSE Ends(kept, c.ret)

-----------------------------------------------------------------------------
\* tm.c.  The server speaks first: its handle, then the version, which
\* send_tm_request_packet waits for (status.format).
TmStatusQuery(s, ok) ==
  IF s.status.format = 0 THEN Ends(RegisterSend(s), "INPROGRESS")
  ELSE SendPacket(s, ok, RequestWith("methods", {"players"}))

\* The reply begins with its length (status.left, in pieces); pieces are kept
\* until they add up to it.  status.step is pkt_max, one until some were kept.
TmKept(s) == Cardinality({k \in DOMAIN s.saved : s.saved[k].id = 0})
TmIndex(s) == IF s.saved = <<>> THEN 0 ELSE s.saved[1].max - 1
TmIsLast(s, m) == TmKept(s) + 1 >= m.data.parts
TmFragment(s, m) ==
  AddPacket(s.saved, Fragment(0, TmIndex(s), TmIndex(s) + (IF TmIsLast(s, m) THEN 1 ELSE 2), m.data))

TmWhole(s, m) ==
  IF m.kind = "garbled" THEN Ends(s, "INPROGRESS")
  ELSE Ends([s EXCEPT !.name = "server", !.numPlayers = @ + m.players,
                      !.players = @ \o [k \in 1 .. m.players |-> Len(s.players) + k]],
            "DONE_FORCE")

\* deal_with_tm_packet; the reply to the query sent with the version is not
\* looked at.
TmPacket(s, m, ok) ==
  LET c == Combine(TmFragment(s, m))
      kept == [s EXCEPT !.saved = TmFragment(s, m)]
  IN CASE m.kind = "eof" -> Ends(s, "SYS_ERROR")
       [] m.kind = "handle" -> Ends([s EXCEPT !.status.haveChallenge = TRUE], "INPROGRESS")
       [] m.kind = "version" ->
            Returns(TmStatusQuery([s EXCEPT !.status.format = 1], ok), "INPROGRESS")
       [] m.kind = "chunk" ->
            IF ~TmIsLast(s, m) THEN Ends(kept, "INPROGRESS")
            ELSE IF c.ret = "call" THEN TmWhole([s EXCEPT !.saved = c.saved], Reassembled(c.data))
            ELSE Ends(kept, c.ret)

-----------------------------------------------------------------------------
\* bfbc2.c: serverInfo, then quit.  What comes next is taken for its answer.
Bfbc2StatusQuery(s, ok) ==
  IF s.status.challenge = 2 THEN Ends(s, "DONE_FORCE")
  ELSE SendPacket(s, ok, Request(<<"serverInfo", "quit">>[s.status.challenge + 1], NoChallenge))

Bfbc2Packet(s, m, ok) ==
  LET t == [s EXCEPT !.name = IF \E k \in DOMAIN m.lines : m.lines[k].what = "name"
                              THEN "server" ELSE @,
                     !.status.challenge = @ + 1, !.elapsed = 0]
  IN IF m.kind = "eof" THEN Ends(s, "REQ_ERROR")
     ELSE IF t.status.challenge = 1 THEN Returns(Bfbc2StatusQuery(t, ok), "INPROGRESS")
     ELSE Ends(t, "DONE_FORCE")

-----------------------------------------------------------------------------
\* wic.c: as ts2.c, but the mode is kept between chunks, in n_servers
\* (status.step).
WicStatusQuery(s, ok) ==
  SendPacket([s EXCEPT !.status.left = IF PlayersWanted(s) THEN 2 ELSE 1], ok,
             RequestWith("commands", s.want \ {"rules"}))

\* Mode 2 is the return behind "Exit confirmed."
WicLine(a, line) ==
  CASE a.mode = 2 -> a
    [] line.what = "exit" -> [a EXCEPT !.mode = 2]
    [] a.mode = 0 /\ line.what = "name" -> [a EXCEPT !.s.name = "server"]
    [] a.mode = 0 /\ line.what = "listing" ->
         [a EXCEPT !.mode = 1, !.s.status.left = @ - 1, !.s.status.step = 1]
    [] a.mode = 1 /\ line.what = "player" -> [a EXCEPT !.s = NumberedNext(@)]
    [] OTHER -> a

WicPacket(s, m) ==
  LET read == FoldLeft(WicLine, Reading([s EXCEPT !.elapsed = 0], s.status.step), m.lines)
  IN IF m.kind = "eof" THEN Ends(s, "REQ_ERROR")
     ELSE Ends(read.s, IF read.mode = 2 \/ read.s.status.left = 0 THEN "DONE_FORCE"
                       ELSE "INPROGRESS")

-----------------------------------------------------------------------------
\* terraria.c: as ksp.c, except that the first chunk is never combined by
\* itself, and that a status other than 200 is a server that is down.
TerrariaRespond(s, message) ==
  Ends([s EXCEPT !.name = IF message.kind = "down" THEN "DOWN" ELSE "server"], "DONE_FORCE")

TerrariaPacket(s, m) ==
  LET t == [s EXCEPT !.retry1 = NRetries]
      added == AddPacket(s.saved, KspChunk(s, m))
      c == StreamFragment(s, m)
  IN IF m.kind = "eof" THEN Ends(s, "REQ_ERROR")
     ELSE IF WholeResponse(<<m.data>>) THEN TerrariaRespond(s, m.data.message)
     ELSE IF s.saved = <<>> THEN Ends([t EXCEPT !.saved = added], "INPROGRESS")
     ELSE IF c.ret # "call" THEN Ends([t EXCEPT !.saved = c.saved], c.ret)
     ELSE IF WholeResponse(c.data)
     THEN TerrariaRespond([t EXCEPT !.saved = c.saved], m.data.message)
     ELSE Ends([t EXCEPT !.saved = c.saved], "INPROGRESS")

-----------------------------------------------------------------------------
\* starmade.c: a chunk has all of the reply or is an error; the name may have
\* been read by then.
StarmadeStatusQuery(s, ok) == SendPacket(s, ok, Request("get", NoChallenge))

StarmadePacket(s, m) ==
  IF m.kind = "eof" THEN Ends(s, "REQ_ERROR")
  ELSE IF WholeResponse(<<m.data>>) THEN Ends([s EXCEPT !.name = "server"], "DONE_FORCE")
  ELSE Ends(s, "MEM_ERROR")

-----------------------------------------------------------------------------
\* bfris: the server starts by itself; nothing is sent.  status.step counts the
\* pieces put together so far, and all of them make the name.
BfrisStatusQuery(s) == Ends(RegisterSend(s), "INPROGRESS")

BfrisPacket(s, m) ==
  IF m.kind = "eof" \/ s.status.step + 1 < m.data.parts
  THEN Ends([s EXCEPT !.status.step = IF m.kind = "eof" THEN @ ELSE @ + 1], "INPROGRESS")
  ELSE Ends([s EXCEPT !.name = "server", !.numPlayers = m.data.message.players,
                      !.players = [k \in 1 .. (IF PlayersWanted(s) THEN m.data.message.players
                                               ELSE 0) |-> k]],
            "DONE_FORCE")
=============================================================================

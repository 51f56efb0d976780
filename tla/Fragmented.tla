----------------------------- MODULE Fragmented -----------------------------
(***************************************************************************)
(* The handlers that put a reply together from datagrams, or ask for it in *)
(* steps: Half-Life (qstat.c), Source (hl2, qstat.c), the All Seeing Eye   *)
(* protocol (eye, qstat.c), haze.c, ventrilo.c and dirtybomb.c.            *)
(***************************************************************************)
EXTENDS Quake

\* The whole reply a set of fragments made, handed back to the handler.
Again(s, c) == [s EXCEPT !.saved = c.saved]

-----------------------------------------------------------------------------
\* Half-Life.  Rules may come in fragments; each is linked in without
\* add_packet.
HLFragment(s, m) == Combine(Insert(s.saved, Fragment(m.id, m.index, m.max, m.data)))

\* 'C' and 'm': the info reply, once.  All players come in one answer, so all
\* but the last count as known.
HLInfo(s, m, ok) ==
  IF s.name # "none" THEN Ends(s, "INPROGRESS")
  ELSE LET t == [s EXCEPT !.name = "server", !.numPlayers = m.players]
           players == IF PlayersWanted(s) /\ m.players # 0
                      THEN PlayerQuery([t EXCEPT !.nextPlayer = m.players - 1], ok)
                      ELSE Ends(t, "INPROGRESS")
           rules == IF RulesWanted(s)
                    THEN RuleQuery([players.s EXCEPT !.rule = TRUE, !.retry1 = NRetries], ok)
                    ELSE Ends(players.s, "INPROGRESS")
       IN Returns(After(players, rules), "DONE_AUTO")

\* 'D': the players, unless some are listed.
\* Mutant: whether or not.
HLPlayersAgain(s, m) ==
  LET t == [s EXCEPT !.players = @ \o [k \in 1 .. m.players |-> k],
                     !.numPlayers = Max({@, m.players})]
  IN Ends([t EXCEPT !.nextPlayer = t.numPlayers], "DONE_AUTO")

HLPlayers(s, m) ==
  IF s.players # <<>> THEN Ends(s, "DONE_AUTO")
  ELSE LET t == [s EXCEPT !.players = [k \in 1 .. m.players |-> k],
                          !.numPlayers = Max({@, m.players})]
       IN Ends([t EXCEPT !.nextPlayer = t.numPlayers], "DONE_AUTO")

\* 'E': the rules, if they are waited for.
HLRules(s) == Ends([s EXCEPT !.rule = FALSE], "DONE_AUTO")

HLWhole(s, m, ok) ==
  CASE m.kind = "short"   -> Ends(s, "PKT_ERROR")
    [] m.kind = "info"    -> HLInfo(s, m, ok)
    [] m.kind = "players" -> HLPlayers(s, m)
    [] m.kind = "rules"   -> HLRules(s)
    [] OTHER              -> Ends(s, "DONE_AUTO")

\* deal_with_halflife_packet
HalfLifePacket(s, m, ok) ==
  IF m.kind # "fragment" THEN HLWhole(s, m, ok)
  ELSE LET c == HLFragment(s, m)
       IN IF c.ret = "call" THEN HLWhole(Again(s, c), Reassembled(c.data), ok)
          ELSE Ends(Again(s, c), c.ret)

-----------------------------------------------------------------------------
\* deal_with_hl2_packet.  Status, rules and players in turn; the end is the reply
\* after which nothing is asked.  next_rule stays as it is.
HL2Packet(s, m, ok) ==
  CASE m.kind = "info" /\ m.bad = "none" ->
         LET t == [s EXCEPT !.name = "server", !.numPlayers = m.players]
         IN IF RulesWanted(s) THEN Returns(RuleQuery(t, ok), "INPROGRESS")
            ELSE IF PlayersWanted(s) THEN Returns(PlayerQuery(t, ok), "INPROGRESS")
            ELSE Ends(t, "DONE_FORCE")
    [] m.kind = "rules" ->
         IF PlayersWanted(s) THEN Returns(PlayerQuery(s, ok), "INPROGRESS")
         ELSE Ends(s, "DONE_FORCE")
    [] m.kind = "players" ->
         Ends([s EXCEPT !.players = @ \o [k \in 1 .. m.players |-> k]], "DONE_FORCE")
    [] OTHER -> Ends(s, "PKT_ERROR")

-----------------------------------------------------------------------------
\* deal_with_eye_packet.  A datagram of full length, or one whose fifth byte is
\* not 1, is a fragment; "two packets is enough", so the total is two.
EyeFragment(s, m) == Combine(Insert(s.saved, Fragment(m.id, m.index, 2, m.data)))

\* The name is the third of the fields in front; one that lacks is an error.
EyeWhole(s, m) ==
  IF m.kind # "reply" THEN Ends(s, "PKT_ERROR")
  ELSE IF m.bad = "front" THEN Ends(s, "MEM_ERROR")
  ELSE LET t == [s EXCEPT !.name = "server", !.players = @ \o ListedPlayers(s, m)]
       IN Ends(t, IF m.bad = "fields" THEN "MEM_ERROR" ELSE "DONE_FORCE")

EyePacket(s, m) ==
  IF m.kind # "fragment" THEN EyeWhole(s, m)
  ELSE LET c == EyeFragment(s, m)
       IN IF c.ret = "call" THEN EyeWhole(Again(s, c), Reassembled(c.data))
          ELSE Ends(Again(s, c), c.ret)

-----------------------------------------------------------------------------
\* haze.c: send_haze_request_packet.  The challenge is 1 once one has come.
HazeStatusQuery(s, ok) ==
  SendPacket(s, ok, IF s.status.challenge # 0 THEN RequestWith("status", s.want)
                    ELSE Request("challenge", NoChallenge))

\* "Correct the stats due to two phase protocol"
HazeUncounted(s) ==
  [s EXCEPT !.status.challenge = 1, !.retry1 = @ + 1,
            !.retries = IF s.retry1 + 1 = NRetries THEN @ ELSE @ - 1]

HazeFragment(s, m) == Combine(AddPacket(s.saved, Fragment(m.id, m.index, m.max, m.data)))

\* process_haze_packet reads the fragments themselves, of the response being
\* combined; outside of combine_packets there are none.
HazeProcess(s, m, combining) ==
  IF ~combining THEN Ends(s, "DONE_FORCE")
  ELSE IF m.kind # "reply" \/ m.bad = "front" THEN Ends(s, "PKT_ERROR")
  ELSE LET t == [s EXCEPT !.name = "server", !.players = @ \o ListedPlayers(s, m)]
       IN Ends(t, IF m.bad = "fields" THEN "PKT_ERROR" ELSE "DONE_FORCE")

\* deal_with_haze_packet
HazePacket(s, m, ok) ==
  CASE m.kind = "challenge" -> HazeStatusQuery(HazeUncounted(s), ok)
    [] m.kind = "fragment"  ->
         LET c == HazeFragment(s, m)
         IN IF c.ret = "call" THEN HazeProcess(Again(s, c), Reassembled(c.data), TRUE)
            ELSE Ends(Again(s, c), c.ret)
    [] m.kind = "reply" -> HazeProcess(s, m, FALSE)
    [] OTHER -> Ends(s, "PKT_ERROR")

-----------------------------------------------------------------------------
\* ventrilo.c.  packet_time1 moves whether or not the send succeeds.
VentriloStatusQuery(s, ok) ==
  SendPacket([s EXCEPT !.elapsed = 0], ok, RequestWith("status", s.want))

\* Fragments are numbered as they come: the index is packet_count.
VentriloFragment(s, m) ==
  Combine(Insert(s.saved, Fragment(m.id, PacketCount(s.saved), m.max, m.data)))

VentriloWhole(s, m) ==
  IF m.kind = "garbled" THEN Ends(s, "DONE_FORCE")
  ELSE Ends([s EXCEPT !.name = "server", !.players = @ \o ListedPlayers(s, m)], "DONE_FORCE")

\* deal_with_ventrilo_packet
VentriloPacket(s, m) ==
  IF m.kind # "fragment" THEN Ends(s, "INPROGRESS")
  ELSE LET c == VentriloFragment(s, m)
       IN IF c.ret = "call" THEN VentriloWhole(Again(s, c), Reassembled(c.data))
          ELSE Ends(Again(s, c), c.ret)

-----------------------------------------------------------------------------
\* dirtybomb.c.  The bits of server->flags that ask for rules and players are
\* never set.
DirtybombStatusQuery(s, ok) == SendPacket(s, ok, RequestWith("status", {}))

\* The number of the last packet is taken for the total.
DirtybombFragment(s, m) ==
  Combine(AddPacket(s.saved, Fragment(0, m.index, m.max - 1, m.data)))

\* unpack_msgpack
DirtybombWhole(s, m) ==
  IF m.kind # "reply" \/ m.bad # "none" THEN Ends(s, "PKT_ERROR")
  ELSE Ends([s EXCEPT !.name = "server"], "DONE_FORCE")

\* What the one datagram says by itself.
Alone(m) == IF m.max = 1 THEN m.data.message ELSE [kind |-> "garbled"]

\* deal_with_dirtybomb_packet
DirtybombPacket(s, m) ==
  LET t == [s EXCEPT !.retry1 = NRetries]
      c == DirtybombFragment(t, m)
  IN IF m.kind # "fragment" THEN Ends(s, "PKT_ERROR")
     ELSE IF PacketCount(t.saved) >= m.max - 1 THEN DirtybombWhole(t, Alone(m))
     ELSE IF c.ret = "call" THEN DirtybombWhole(Again(t, c), Reassembled(c.data))
     ELSE Ends(Again(t, c), c.ret)
=============================================================================

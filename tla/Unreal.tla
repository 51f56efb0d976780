------------------------------- MODULE Unreal -------------------------------
(***************************************************************************)
(* Handlers for games on the Unreal engine and their relatives: gps.c      *)
(* (Gamespy 1), gs2.c (Gamespy 2), and UT2003 and Pariah in qstat.c.       *)
(*                                                                         *)
(* All of these read what a datagram says of the server as it comes; what  *)
(* differs is how they tell that nothing more will.                        *)
(***************************************************************************)
EXTENDS QServer

-----------------------------------------------------------------------------
\* gps.c.  The datagrams of a reply are numbered major.minor, and the last says
\* it is "final".  saved_data holds counters: status.challenge is pkt_id, the
\* major number; status.mask the minors in pkt_index; status.step is pkt_max.
GpsStatusQuery(s, ok) == SendPacket(s, ok, RequestWith("status", s.want))

\* gps_max_players: players beyond the number told are left out, so all of
\* them until a number has been told.
GpsListed(s, m) ==
  LET new == SelectSeq(m.numbers, LAMBDA n : \A k \in DOMAIN s.players : s.players[k] # n)
      room == Max({s.numPlayers - Len(s.players), 0})
  IN s.players \o SubSeq(new, 1, Min({room, Len(new)}))

GpsId(s, m) == IF s.status.challenge = 0 THEN m.major ELSE s.status.challenge
GpsMask(s, m) ==
  s.status.mask \cup (IF m.major = GpsId(s, m) /\ m.minor > 0 THEN {m.minor} ELSE {})
\* "final" behind the number counts for any reply, in front of it for this one.
GpsLast(s, m) ==
  IF m.final /\ (m.major = GpsId(s, m) \/ m.finalBehind)
  THEN Max({s.status.step, m.minor}) ELSE s.status.step

\* pkt_index >= (1 << pkt_max) - 1: all the bits up to the last, or one above it.
GpsHasAll(s, m) ==
  \/ m.final /\ s.status.challenge = 0
  \/ /\ s.status.step > 0
     /\ \/ 1 .. s.status.step \subseteq s.status.mask
        \/ \E k \in s.status.mask : k > s.status.step
  \/ s.numPlayers < 0 /\ m.minor >= 3

\* deal_with_gps_packet
GpsPacket(s, m) ==
  LET t == [s EXCEPT !.name = IF m.names THEN "server" ELSE @,
                     !.numPlayers = IF m.names THEN m.players ELSE @,
                     !.status.challenge = GpsId(s, m), !.status.mask = GpsMask(s, m),
                     !.status.step = GpsLast(s, m),
                     !.elapsed = IF s.name = "none" THEN @ ELSE 0]
      read == [t EXCEPT !.players = GpsListed(t, m)]
  IN Ends(read, IF GpsHasAll(read, m) THEN "DONE_FORCE" ELSE "INPROGRESS")

-----------------------------------------------------------------------------
\* gs2.c.  One datagram: rules, players, teams.  It always ends the query; the
\* name is among the rules, read before the players are missed.
GS2StatusQuery(s, ok) == SendPacket(s, ok, RequestWith("status", s.want \ {"rules"}))

GS2Packet(s, m) ==
  IF m.kind # "reply" \/ m.bad = "front" THEN Ends(s, "PKT_ERROR")
  ELSE Ends([s EXCEPT !.name = "server", !.numPlayers = m.players,
                      !.players = [k \in 1 .. m.players |-> k],
                      !.elapsed = IF s.name = "none" THEN @ ELSE 0],
            IF m.bad = "none" THEN "DONE_FORCE" ELSE "PKT_ERROR")

-----------------------------------------------------------------------------
\* send_ut2003_request_packet
UT2003StatusQuery(s, ok) ==
  LET sent == SendPacket(s, ok, Request("info", NoChallenge))
  IN [sent EXCEPT !.s.nextPlayer = NoPlayerInfo]

\* The test at the end of deal_with_ut2003_packet.
UT2003Ends(s, error) ==
  Ends(s, IF \/ error \/ s.want = {}
             \/ s.numPlayers = Len(s.players) /\ (~RulesWanted(s) \/ ~s.rule)
          THEN "DONE_FORCE" ELSE "INPROGRESS")

\* ut2003_basic_packet, and the request for the rest.  "don't wait for player
\* packet": retry2 is 0.
UT2003Info(s, m, ok) ==
  IF m.bad = "front" THEN UT2003Ends(s, TRUE)
  ELSE IF m.bad # "none" THEN UT2003Ends([s EXCEPT !.name = "server"], TRUE)
  ELSE LET t == [s EXCEPT !.name = "server", !.numPlayers = m.players]
           asked == RuleQuery([t EXCEPT !.rule = TRUE, !.retry1 = NRetries, !.retry2 = 0], ok)
       IN IF s.want = {} THEN UT2003Ends(t, FALSE)
          ELSE Returns(asked, UT2003Ends(asked.s, FALSE).ret)

\* Rules come in any number of datagrams: they are waited for until the time is
\* over, but not asked for again.
UT2003Rules(s) == UT2003Ends([s EXCEPT !.rule = TRUE, !.retry1 = 0], FALSE)

\* ut2003_player_packet: players up to the first that is listed; the ones of
\* Unreal 2 XMP have no numbers, are given the next, and never are.
UT2003Listed(s, m) ==
  LET known == {k \in DOMAIN m.numbers : \E j \in DOMAIN s.players : s.players[j] = m.numbers[k]}
  IN IF m.xmp THEN s.players \o [k \in DOMAIN m.numbers |-> Len(s.players) + k]
     ELSE s.players \o SubSeq(m.numbers, 1, Min(known \cup {Len(m.numbers) + 1}) - 1)

UT2003Players(s, m) ==
  LET listed == UT2003Listed(s, m)
  IN UT2003Ends([s EXCEPT !.players = listed], m.bad # "none" \/ listed = s.players)

\* pariah_basic_packet: "pariah always sends a rules and players packet".
PariahInfo(s, m) ==
  IF m.bad = "front" THEN UT2003Ends(s, TRUE)
  ELSE IF m.bad # "none" THEN UT2003Ends([s EXCEPT !.name = "server"], TRUE)
  ELSE UT2003Ends([s EXCEPT !.name = "server", !.numPlayers = m.players, !.rule = TRUE,
                            !.retry1 = NRetries, !.retry2 = 0], FALSE)

\* pariah_rule_packet: as many rules as announced are all there are.
PariahRules(s, m) == UT2003Ends([s EXCEPT !.rule = @ /\ m.bad # "none", !.retry1 = 0], FALSE)

\* pariah_player_packet: numbers are given out, so that players repeat with the
\* datagram; one with as many as announced says how many there are.
PariahPlayers(s, m) ==
  LET listed == s.players \o [k \in DOMAIN m.numbers |-> Len(s.players) + k]
  IN UT2003Ends([s EXCEPT !.players = listed,
                          !.numPlayers = IF m.bad = "none" THEN Len(listed) ELSE @],
                listed = s.players)

\* deal_with_ut2003_packet; an unknown packet type is noted and let pass.
UT2003Packet(s, m, ok) ==
  CASE m.kind = "info"    -> UT2003Info(s, m, ok)
    [] m.kind = "rules"   -> UT2003Rules(s)
    [] m.kind = "players" -> UT2003Players(s, m)
    [] m.kind = "pariah info"    -> PariahInfo(s, m)
    [] m.kind = "pariah rules"   -> PariahRules(s, m)
    [] m.kind = "pariah players" -> PariahPlayers(s, m)
    [] OTHER -> UT2003Ends(s, FALSE)
=============================================================================

------------------------------- MODULE Quake -------------------------------
(***************************************************************************)
(* The Quake handlers of qstat.c.  Quake itself (deal_with_q_packet) asks  *)
(* for each rule and each player by itself; QuakeWorld, Quake 2 and Quake  *)
(* 3 (deal_with_qw_packet) answer with all of it, Quake 3 after a short    *)
(* info reply.                                                             *)
(*                                                                         *)
(* In a message, bad says what is wrong with it, "none" if nothing is.     *)
(***************************************************************************)
EXTENDS QServer

-----------------------------------------------------------------------------
\* Quake and Hexen 2.  status.step is the rule next_rule names.

\* server_info_packet: a second one is ignored; a short one may have set the
\* name before its end was found.  What the two requests return is not looked at.
QInfo(s, m, ok) ==
  IF s.name # "none" THEN Ends(s, "INPROGRESS")
  ELSE IF m.bad = "address" THEN Ends(s, "SYS_ERROR")
  ELSE IF m.bad = "map" THEN Ends([s EXCEPT !.name = "server"], "SYS_ERROR")
  ELSE LET t == [s EXCEPT !.name = "server", !.numPlayers = m.players, !.retry1 = NRetries]
           rules == IF RulesWanted(s) THEN RuleQuery(t, ok) ELSE Ends(t, "INPROGRESS")
           players == IF PlayersWanted(s) THEN PlayerQuery(rules.s, ok)
                      ELSE Ends(rules.s, "INPROGRESS")
       IN Returns(After(rules, players), "INPROGRESS")

\* player_info_packet: the next player is asked for when a new one has come,
\* whichever was asked for last.
QPlayer(s, m, ok) ==
  IF m.bad # "none" THEN Ends(s, "SYS_ERROR")
  ELSE IF AddPlayer(s, m.number) = s THEN Ends(s, "INPROGRESS")
  ELSE LET t == [AddPlayer(s, m.number) EXCEPT !.nextPlayer = @ + 1, !.retry2 = NRetries]
       IN IF t.nextPlayer < t.numPlayers THEN Returns(PlayerQuery(t, ok), "INPROGRESS")
          ELSE Ends(t, "INPROGRESS")

\* rule_info_packet: an answer without a rule ends them; one that is on the list
\* already is ignored.
QRule(s, m, ok) ==
  IF ~s.rule THEN Ends(s, "INPROGRESS")
  ELSE IF m.kind = "norules" THEN Ends([s EXCEPT !.rule = FALSE], "INPROGRESS")
  ELSE IF m.bad # "none" THEN Ends(s, "SYS_ERROR")
  ELSE IF m.number <= s.status.step THEN Ends(s, "INPROGRESS")
  ELSE Returns(RuleQuery([s EXCEPT !.status.step = m.number, !.retry1 = NRetries], ok),
               "INPROGRESS")

\* deal_with_q_packet: a wrong length is an error; a refusal and requests are not.
QPacket(s, m, ok) ==
  CASE m.kind = "info"    -> QInfo(s, m, ok)
    [] m.kind = "player"  -> QPlayer(s, m, ok)
    [] m.kind \in {"rule", "norules"} -> QRule(s, m, ok)
    [] m.kind = "refused" -> Ends(s, "INPROGRESS")
    [] OTHER              -> Ends(s, "PKT_ERROR")

-----------------------------------------------------------------------------
\* QuakeWorld, Quake 2, Quake 3 and what was built on them.

\* send_qwserver_request_packet.  The error for a server that has a name and a
\* type without rule_packet looks like a failed send.
QWStatusQuery(s, ok) ==
  LET asks == IF s.name = "none" THEN "status" ELSE "rules"
  IN IF ~ok \/ (s.name # "none" /\ ~HasPacket(s.status.type, "rule")) THEN Ends(s, "SYS_ERROR")
     ELSE Asks([Counted1(s) EXCEPT !.nextPlayer = NoPlayerInfo], "INPROGRESS",
               Request(asks, NoChallenge))

\* A server without a hostname has an empty one.
NamedAtLast(s) == [s EXCEPT !.name = IF @ = "none" THEN "server" ELSE @]

\* The players a list of m.players brings, if asked for.
ListedPlayers(s, m) ==
  IF PlayersWanted(s) THEN [k \in 1 .. m.players |-> k] ELSE <<>>

\* deal_with_q1qw_packet: num_players counts up with every line that is read.
Q1QWPacket(s, m) ==
  IF m.bad = "empty" THEN Ends(s, "DONE_AUTO")
  ELSE IF m.bad = "player" THEN Ends([s EXCEPT !.name = "ERROR"], "DONE_AUTO")
  ELSE Ends([NamedAtLast(s) EXCEPT !.numPlayers = @ + m.players,
                                   !.players = @ \o ListedPlayers(s, m)], "DONE_AUTO")

\* deal_with_q2_packet: rules up to an empty line, then players.
Q2Packet(s, m) ==
  IF m.bad = "empty" THEN Ends(s, "PKT_ERROR")
  ELSE IF m.bad = "player" THEN Ends([s EXCEPT !.name = "ERROR"], "DONE_AUTO")
  ELSE Ends([NamedAtLast(s) EXCEPT !.numPlayers = Max({@, m.players}),
                                   !.players = @ \o ListedPlayers(s, m),
                                   !.rule = @ /\ ~m.qfusion], "DONE_AUTO")

\* Mutant: the details are asked for, but not waited for.
QWInfoUnawaited(s, m, ok) ==
  LET read == Q2Packet([s EXCEPT !.rule = FALSE, !.numPlayers = m.players], [m EXCEPT !.players = 0])
      asked == RuleQuery(read.s, ok)
  IN IF m.bad = "nokeys" THEN Ends(s, "INPROGRESS")
     ELSE IF read.ret = "DONE_AUTO" /\ s.want # {}
     THEN [asked EXCEPT !.s.retry1 = NRetries - 1, !.ret = "INPROGRESS"]
     ELSE read

\* infoResponse: names the server; the rest is asked for with the rule packet.
QWInfo(s, m, ok) ==
  LET details == s.want # {}
      read == Q2Packet([s EXCEPT !.rule = @ \/ details, !.numPlayers = m.players], [m EXCEPT !.players = 0])
  IN IF m.bad = "nokeys" THEN Ends(s, "INPROGRESS")
     ELSE IF read.ret = "DONE_AUTO" /\ details
     THEN LET asked == RuleQuery(read.s, ok)
          IN [asked EXCEPT !.s.retry1 = NRetries - 1, !.ret = "INPROGRESS"]
     ELSE read

\* statusResponse: no more rules are expected.
QWStatus(s, m) == Q2Packet([s EXCEPT !.rule = FALSE, !.retry1 = 0], m)

\* deal_with_qw_packet.  A QuakeWorld or HexenWorld reply tells the type.
QWPacket(s, m, ok) ==
  CASE m.kind = "qw"  -> Q1QWPacket([s EXCEPT !.status.type = "qws"], m)
    [] m.kind = "hw"  -> Q1QWPacket([s EXCEPT !.status.type = "hws"], m)
    [] m.kind \in {"print", "infostring"} -> Q2Packet(s, m)
    [] m.kind = "info"   -> QWInfo(s, m, ok)
    [] m.kind = "status" -> QWStatus(s, m)
    [] OTHER -> Ends(s, "DONE_AUTO")
=============================================================================

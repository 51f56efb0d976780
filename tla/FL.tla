--------------------------------- MODULE FL ---------------------------------
(***************************************************************************)
(* fl.c: the 7DFPS protocol, a variation on a2s.c.  Here the challenge is  *)
(* asked for by a request of its own, and only of servers whose protocol   *)
(* number, told by the info reply, is above 1.                             *)
(***************************************************************************)
EXTENDS A2S

\* send_fl_request_packet
FLStatusQuery(s, ok) ==
  IF ~ok THEN Ends(SendInitial(s), "SYS_ERROR")
  ELSE Asks([SendInitial(s) EXCEPT !.status.sentInfo = TRUE, !.status.format = 0],
            "INPROGRESS", Request("info", NoChallenge))

\* send_fl_rule_request_packet
FLRestarts(s) ==
  /\ s.status.haveChallenge
  /\ A2SHasAll(s)

FLNext(s) ==
  IF ~s.status.haveChallenge THEN Request("challenge", NoChallenge)
  ELSE IF "rules" \in s.want /\ ~s.status.haveRules THEN Request("rules", s.status.challenge)
  ELSE Request("players", s.status.challenge)

FLRuleQuery(s, ok) ==
  IF s.status.format <= 1 THEN Ends(s, "PKT_ERROR")
  ELSE IF s.want = {} THEN Ends(s, "DONE_FORCE")
  ELSE LET again == IF FLRestarts(s)
                    THEN [s EXCEPT !.status.haveChallenge = FALSE, !.status.haveRules = FALSE]
                    ELSE s
       IN IF ok THEN Asks(SendInitial(again), "INPROGRESS", FLNext(again))
          ELSE Ends(SendInitial(again), "SYS_ERROR")

\* The check at the end of deal_with_fl_packet, which every reply comes to.
FLEnds(s) == Ends([s EXCEPT !.rule = @ /\ ~A2SHasAll(s)], "DONE_AUTO")
FLProgress(s) == FLEnds([s EXCEPT !.retry1 = NRetries])

\* FL_CHALLENGERESPONSE: send_packets asks for the rest.
FLChallenge(s, m) ==
  FLEnds([ChallengeUncounted(s) EXCEPT !.status.challenge = m.challenge,
                                       !.status.haveChallenge = TRUE])

\* FL_INFORESPONSE; the protocol number is kept in format.
FLInfo(s, m) ==
  FLProgress([s EXCEPT !.name = "server", !.status.haveInfo = TRUE, !.status.format = m.format,
                       !.rule = @ \/ (m.format > 1 /\ s.want # {})])

FLWhole(s, m) ==
  CASE m.kind = "challenge" -> FLChallenge(s, m)
    [] m.kind = "info"      -> FLInfo(s, m)
    [] m.kind = "rules"     -> FLProgress([s EXCEPT !.status.haveRules = TRUE,
                                                    !.missing = @ \/ m.short])
    [] m.kind = "players"   -> FLProgress([s EXCEPT !.status.havePlayer = TRUE])
    [] OTHER                -> Ends(s, "PKT_ERROR")

\* deal_with_fl_packet; fragments say their index and total, one byte each.
FLFragment(s, m) == Combine(Insert(s.saved, Fragment(m.id, m.index, m.max, m.data)))

FLPacket(s, m) ==
  IF m.kind # "fragment" THEN FLWhole(s, m)
  ELSE LET c == FLFragment(s, m)
           t == [s EXCEPT !.saved = c.saved]
       IN IF c.ret = "call" THEN FLWhole(t, Reassembled(c.data)) ELSE Ends(t, c.ret)
=============================================================================

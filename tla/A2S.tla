-------------------------------- MODULE A2S --------------------------------
(***************************************************************************)
(* a2s.c: the Source engine protocol.  An info query, a challenge that the *)
(* server may ask back at any time, then rules and players, each reply     *)
(* possibly in fragments.                                                  *)
(***************************************************************************)
EXTENDS QServer

\* send_a2s_request_packet
A2SStatusQuery(s, ok) ==
  IF ~ok THEN Ends(SendInitial(s), "DONE_FORCE")
  ELSE Asks([SendInitial(s) EXCEPT !.status.sentInfo = TRUE, !.status.format = 0,
                                   !.rule = @ \/ s.want # {}],
            "INPROGRESS", Request("info", NoChallenge))

\* What send_a2s_rule_request_packet asks for next.
A2SRestarts(s) ==
  /\ s.status.haveChallenge
  /\ ~(s.status.sentInfo /\ ~s.status.haveInfo)
  /\ "rules" \in s.want => s.status.haveRules
  /\ "players" \in s.want => s.status.havePlayer

\* Mutant: rules are asked for without waiting for the challenge.
A2SNextUnchallenged(s) ==
  IF "rules" \in s.want /\ ~s.status.haveRules THEN Request("rules", s.status.challenge)
  ELSE Request("players", s.status.challenge)

A2SNext(s) ==
  IF ~s.status.haveChallenge THEN Request("players", AnyChallenge)
  ELSE IF s.status.sentInfo /\ ~s.status.haveInfo THEN Request("info", s.status.challenge)
  ELSE IF "rules" \in s.want /\ ~s.status.haveRules THEN Request("rules", s.status.challenge)
  ELSE Request("players", s.status.challenge)

\* send_a2s_rule_request_packet
A2SRuleQuery(s, ok) ==
  IF (s.want = {} /\ s.status.haveInfo) \/ s.retry1 < 0 THEN Ends(s, "DONE_FORCE")
  ELSE LET again == IF A2SRestarts(s)
                    THEN [s EXCEPT !.status.haveChallenge = FALSE, !.status.haveRules = FALSE]
                    ELSE s
           asking == IF again.status.haveChallenge THEN again
                     ELSE [again EXCEPT !.status.challenge = AnyChallenge]
       IN IF ok THEN Asks(SendInitial(asking), "INPROGRESS", A2SNext(again))
          ELSE Ends(SendInitial(asking), "SYS_ERROR")

-----------------------------------------------------------------------------
\* deal_with_a2s_packet

\* Mutant: the try is given back even when none was spent.
ChallengeRefunded(s) ==
  IF ~s.status.haveChallenge
  THEN [s EXCEPT !.retry1 = @ + 1, !.retries = IF @ > 0 THEN @ - 1 ELSE 0]
  ELSE s

\* Mutant: the query behind a challenge counts like any retry.
ChallengeCounted(s) == s

\* "do not count challenge as retry"
ChallengeUncounted(s) ==
  IF ~s.status.haveChallenge /\ s.retry1 # NRetries
  THEN [s EXCEPT !.retry1 = @ + 1, !.retries = IF @ > 0 THEN @ - 1 ELSE 0]
  ELSE s

\* A2S_CHALLENGERESPONSE
A2SChallenge(s, m, ok) ==
  A2SRuleQuery([ChallengeUncounted(s) EXCEPT !.status.challenge = m.challenge,
                                             !.status.haveChallenge = TRUE], ok)

\* Mutant: whatever was had, one reply settles the details.
A2SHasAllEarly(s) == s.status.haveRules \/ s.status.havePlayer \/ s.want = {}

\* What was asked for has come.
A2SHasAll(s) ==
  /\ "players" \in s.want => s.status.havePlayer
  /\ "rules" \in s.want => s.status.haveRules

\* The end every data reply comes to.
A2SProgress(s) ==
  Ends([s EXCEPT !.retry1 = NRetries, !.rule = @ /\ ~A2SHasAll(s)], "DONE_AUTO")

\* A2S_INFORESPONSE_HL1
A2SInfoHL1(s) ==
  A2SProgress([s EXCEPT !.name = "server", !.status.haveInfo = TRUE, !.status.format = 1])

\* A2S_INFORESPONSE_HL2.  protocol_version is set from one signed char of the
\* application id, m.app: from 128 on it becomes a number far above 200, below
\* it stays under 200.  status.wide says which.
A2SInfoHL2(s, m) ==
  A2SProgress([s EXCEPT !.name = "server", !.status.haveInfo = TRUE, !.status.format = 2,
                        !.status.wide = m.app >= 128])

\* A2S_RULESRESPONSE: fewer rules than announced are noted and let pass.
A2SRules(s, m) ==
  A2SProgress([s EXCEPT !.status.haveRules = TRUE, !.missing = @ \/ m.short])

\* A2S_PLAYERRESPONSE.  A server that answers without a challenge has none:
\* "Without this we would end up in an infinite loop."
A2SPlayers(s, m) ==
  A2SProgress([s EXCEPT !.status.havePlayer = TRUE, !.status.haveChallenge = TRUE])

A2SWhole(s, m, ok) ==
  CASE m.kind = "challenge" -> A2SChallenge(s, m, ok)
    [] m.kind = "info"      -> IF m.format = 1 THEN A2SInfoHL1(s) ELSE A2SInfoHL2(s, m)
    [] m.kind = "rules"     -> A2SRules(s, m)
    [] m.kind = "players"   -> A2SPlayers(s, m)
    [] OTHER                -> Ends(s, "PKT_ERROR")

\* The header of a fragment.  The first format packs index and total in one
\* byte, index above; the second has the total in that byte.
ReadsHL1(s) == s.status.format = 1 \/ ~s.status.wide
ReadIndex(s, m) == IF ReadsHL1(s) /\ m.format = 2 THEN m.max \div 16 ELSE m.index
ReadMax(s, m) == IF ReadsHL1(s) /\ m.format = 2 THEN m.max % 16 ELSE m.max

\* Fragments are linked in without add_packet; their totals are not raised.
A2SFragment(s, m) ==
  Combine(Insert(s.saved, Fragment(m.id, ReadIndex(s, m), ReadMax(s, m), m.data)))

A2SPacket(s, m, ok) ==
  IF m.kind # "fragment" THEN A2SWhole(s, m, ok)
  ELSE IF ~ReadsHL1(s) /\ s.status.format # 2 THEN Ends(s, "PKT_ERROR")
  ELSE LET c == A2SFragment(s, m)
           t == [s EXCEPT !.saved = c.saved]
       IN IF c.ret = "call" THEN A2SWhole(t, Reassembled(c.data), ok) ELSE Ends(t, c.ret)
=============================================================================

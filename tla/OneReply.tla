------------------------------ MODULE OneReply ------------------------------
(***************************************************************************)
(* Handlers whose servers answer with one datagram: Tribes, Tribes 2,      *)
(* Ghost Recon, Raven Shield, Savage, Far Cry and Descent 3 in qstat.c,    *)
(* doom3.c, ottd.c, tee.c, tf.c, cube2.c and mumble.c.  Some ask for more  *)
(* once they have it.                                                      *)
(***************************************************************************)
EXTENDS QServer

\* A datagram read to its end, or to a fault (m.bad) in front of the server's
\* name or behind it.
ReadReply(s, m, listed, fault, done) ==
  IF m.bad = "front" THEN Ends(s, fault)
  ELSE Ends([s EXCEPT !.name = "server", !.numPlayers = m.players,
                      !.players = IF listed THEN [k \in 1 .. m.players |-> k] ELSE @],
            IF m.bad = "none" THEN done ELSE fault)

\* send_qserver_request_packet, and the functions like it that send the status
\* packet of the type.
PlainStatusQuery(s, ok) == SendPacket(s, ok, RequestWith("status", s.want))

-----------------------------------------------------------------------------
\* deal_with_tribes_packet: the rest of the reply is a list of players.
TribesPacket(s, m) ==
  IF m.kind # "reply" THEN Ends(s, "PKT_ERROR") ELSE ReadReply(s, m, TRUE, "PKT_ERROR", "DONE_AUTO")

\* send_tribes2_request_packet returns the number of bytes sent, a code nobody
\* knows; the server stays as it is.
Tribes2StatusQuery(s, ok) ==
  SendPacket(s, ok, IF s.name = "none" THEN Request("status", NoChallenge)
                    ELSE Request("players", NoChallenge))

\* deal_with_tribes2_packet.  The ping reply names the server, the info reply
\* has all the rest.
Tribes2Packet(s, m, ok) ==
  CASE m.kind = "ping" ->
         IF m.bad = "front" THEN Ends(s, "PKT_ERROR")
         ELSE IF m.bad # "none" THEN Ends([s EXCEPT !.name = "ERROR"], "PKT_ERROR")
         ELSE Returns(PlayerQuery([s EXCEPT !.name = "server"], ok), "INPROGRESS")
    [] m.kind = "info" ->
         IF m.bad # "none" THEN Ends(s, "PKT_ERROR")
         ELSE Ends([s EXCEPT !.numPlayers = m.players, !.players = [k \in 1 .. m.players |-> k]],
                   "DONE_FORCE")
    [] OTHER -> Ends(s, "PKT_ERROR")

\* deal_with_ghostrecon_packet gives a server it does not understand what is
\* wrong for a name.
GhostReconPacket(s, m) ==
  IF m.kind # "reply" \/ m.bad = "front" THEN Ends([s EXCEPT !.name = "ERROR"], "PKT_ERROR")
  ELSE ReadReply(s, m, TRUE, "PKT_ERROR", "DONE_FORCE")

\* deal_with_ravenshield_packet, deal_with_savage_packet and
\* deal_with_farcry_packet end the query whatever they read.
KeyValuePacket(s, m) ==
  IF m.kind # "reply" THEN Ends(s, "DONE_FORCE") ELSE ReadReply(s, m, TRUE, "DONE_FORCE", "DONE_FORCE")
RavenShieldPacket(s, m) == KeyValuePacket(s, m)
SavagePacket(s, m) == KeyValuePacket(s, m)
FarCryPacket(s, m) == KeyValuePacket(s, m)

\* send_savage_request_packet, send_farcry_request_packet: one of two packets.
\* Far Cry has no player_packet, and none is sent, but counted.
EitherStatusQuery(s, ok) ==
  IF ~PlayersWanted(s) THEN SendPacket(s, ok, Request("status", NoChallenge))
  ELSE IF HasPacket(s.status.type, "player") THEN SendPacket(s, ok, Request("players", NoChallenge))
  ELSE Ends(RegisterSend(s), "INPROGRESS")

\* deal_with_descent3_packet.  Players are asked for once there are some.
Descent3Packet(s, m, ok) ==
  CASE m.kind = "short" -> Ends(s, "PKT_ERROR")
    [] m.kind = "info" ->
         LET t == [s EXCEPT !.name = "server", !.numPlayers = m.players]
         IN IF s.name # "none" THEN Ends(s, "PKT_ERROR")
            ELSE IF PlayersWanted(s) /\ m.players # 0
            THEN Returns(PlayerQuery([t EXCEPT !.nextPlayer = 0], ok), "INPROGRESS")
            ELSE Ends(t, "DONE_FORCE")
    [] m.kind = "players" ->
         IF s.players # <<>> THEN Ends(s, "PKT_ERROR")
         ELSE Ends([s EXCEPT !.nextPlayer = NoPlayerInfo, !.players = [k \in 1 .. m.players |-> k]],
                   "DONE_FORCE")
    [] OTHER -> Ends(s, "DONE_FORCE")

-----------------------------------------------------------------------------
\* doom3.c: _deal_with_doom3_packet, for six versions of the protocol.  Players
\* follow the rules and end in a marker; fewer or more are an error.
Doom3Packet(s, m) ==
  IF m.kind # "reply" THEN Ends(s, "PKT_ERROR") ELSE ReadReply(s, m, TRUE, "PKT_ERROR", "DONE_FORCE")

\* send_ottd_request_packet: whether the send succeeded is not looked at.  A
\* reply with details is asked for with the rule packet.
OttdStatusQuery(s, ok) ==
  Returns([SendsInitial(s, ok, Request("status", NoChallenge))
             EXCEPT !.s.rule = @ \/ s.want # {}], "INPROGRESS")

\* deal_with_ottd_packet: an info reply, or a player reply, which is the last.
OttdPacket(s, m) ==
  CASE m.kind = "info" -> Ends([ReadReply(s, m, FALSE, "PKT_ERROR", "DONE_AUTO").s
                                  EXCEPT !.retry1 = IF m.bad = "none" THEN NRetries ELSE @],
                               IF m.bad = "none" THEN "DONE_AUTO" ELSE "PKT_ERROR")
    [] m.kind = "players" ->
         IF m.bad # "none" THEN Ends([s EXCEPT !.numPlayers = m.players], "PKT_ERROR")
         ELSE Ends([s EXCEPT !.numPlayers = m.players, !.players = [k \in 1 .. m.players |-> k],
                             !.rule = FALSE, !.nextPlayer = m.players, !.retry1 = NRetries],
                   "DONE_AUTO")
    [] OTHER -> Ends(s, "PKT_ERROR")

\* send_teeserver_request_packet: three versions of the request, each counted
\* as a try.
TeeStatusQuery(s, ok) ==
  IF ~ok THEN Ends(s, "SYS_ERROR")
  ELSE [s |-> RegisterSend(RegisterSend(RegisterSend(s))), ret |-> "INPROGRESS",
        out |-> [k \in 1 .. 3 |-> Request("status", k)]]

TeePacket(s, m) ==
  IF m.kind # "reply" THEN Ends(s, "PKT_ERROR") ELSE ReadReply(s, m, TRUE, "PKT_ERROR", "DONE_FORCE")

\* tf.c: the request carries a key; the name is set when all has been read, and
\* nothing more is wanted.
TfStatusQuery(s, ok) == SendsInitial(s, ok, Request("status", NoChallenge))
TfPacket(s, m) ==
  IF m.kind # "reply" \/ m.bad # "none" THEN Ends(s, "PKT_ERROR")
  ELSE Ends([s EXCEPT !.name = "server", !.numPlayers = m.players, !.rule = FALSE,
                      !.players = [k \in 1 .. m.players |-> k]], "DONE_AUTO")

\* cube2.c reads anything; mumble.c wants the length and the stamp it sent.
Cube2Packet(s, m) == ReadReply(s, [players |-> 0, bad |-> "none"], FALSE, "PKT_ERROR", "DONE_FORCE")
MumblePacket(s, m) ==
  IF m.kind # "reply" \/ m.bad # "none" THEN Ends(s, "PKT_ERROR")
  ELSE ReadReply(s, m, FALSE, "PKT_ERROR", "DONE_FORCE")
=============================================================================

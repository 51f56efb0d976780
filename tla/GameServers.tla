----------------------------- MODULE GameServers -----------------------------
(***************************************************************************)
(* The other side: what the game servers and masters the handlers are      *)
(* written for answer to a request, and how it travels.  Everything here   *)
(* is taken from what the handlers expect.                                 *)
(*                                                                         *)
(* A game g is [type, want, parts, format, app, players, server, ...]: see *)
(* Queries.tla.                                                            *)
(***************************************************************************)
EXTENDS Handlers, SequencesExt

TcpConnect(g) == HasFlag(g.type, "TCP_CONNECT")
GameHandler(g) == ServerType[g.type].handler

Message(g, kind) == [kind |-> kind, bad |-> "none", players |-> g.players, qfusion |-> FALSE,
                     format |-> g.format, app |-> g.app,
                     short |-> kind = "rules" /\ "short" \in g.server]

\* A reply to request k comes whole or in fragments.  Gamespy, Ventrilo and
\* Dirty Bomb have a header on a single one too.
AlwaysNumbered == {"gs3", "ventrilo", "dirtybomb"}
Fragments(g, message, k) ==
  {[kind |-> "fragment", id |-> k, index |-> p - 1, max |-> g.parts, final |-> p = g.parts,
    format |-> g.format, data |-> [part |-> p, parts |-> g.parts, message |-> message]]
     : p \in 1 .. g.parts}
InParts(g, message, k) ==
  IF g.parts = 1 /\ GameHandler(g) \notin AlwaysNumbered THEN {message}
  ELSE Fragments(g, message, k)

\* Challenges 1 .. issued have been made up; a request is answered if it carries
\* one of them, with a new one if that is not the latest.
NewChallenges(issued) == {[kind |-> "challenge", challenge |-> c] : c \in 1 .. issued}
Guarded(r, issued, reply) ==
  (IF r.challenge \in 1 .. issued THEN reply ELSE {})
    \cup (IF r.challenge # issued THEN NewChallenges(issued) ELSE {})

\* a2s, fl, gs3
ChallengedReply(g, r, k, issued) ==
  LET info == {Message(g, "info")}
      details == InParts(g, Message(g, r.kind), k)
  IN CASE r.kind = "info" -> IF "guarded" \in g.server THEN Guarded(r, issued, info) ELSE info
       [] r.kind \in {"rules", "players"} ->
            IF r.kind = "players" /\ r.challenge = AnyChallenge /\ "broken" \in g.server THEN details
            ELSE Guarded(r, issued, details)
       [] r.kind = "challenge" -> IF "old" \in g.server THEN {[kind |-> "fallback"]}
                                  ELSE NewChallenges(issued)
       [] r.kind = "status" -> {Message(g, "status")}
       [] r.kind = "all" -> details

\* Quake has a rule and a player at a time; format says how many rules.
QuakeReply(g, r) ==
  CASE r.kind = "status"  -> {Message(g, "info")}
    [] r.kind = "players" -> {[kind |-> "player", number |-> r.challenge, bad |-> "none"]}
    [] r.kind = "rules" /\ r.challenge < g.format ->
         {[kind |-> "rule", number |-> r.challenge + 1, bad |-> "none"]}
    [] r.kind = "rules" -> {[kind |-> "norules"]}

QWKind(g) ==
  CASE g.type = "qws" -> "qw" [] g.type = "hws" -> "hw"
    [] OTHER -> IF HasFlag(g.type, "SINGLE_QUERY") THEN "print" ELSE "info"
QuakeWorldReply(g, r) == {Message(g, IF r.kind = "status" THEN QWKind(g) ELSE "status")}

HalfLifeReply(g, r, k) ==
  CASE r.kind = "status"  -> {Message(g, "info")}
    [] r.kind = "players" -> {Message(g, "players")}
    [] r.kind = "rules"   -> InParts(g, Message(g, "rules"), k)

\* Three replies, whole: hl2.  Two: descent3, tribes2 and OpenTTD.
StepReply(g, r) ==
  LET kind == IF GameHandler(g) = "tribes2" THEN (IF r.kind = "status" THEN "ping" ELSE "info")
              ELSE IF r.kind = "status" THEN "info"
              ELSE IF r.kind = "rules" /\ GameHandler(g) = "ottd" THEN "players" ELSE r.kind
  IN {Message(g, kind)}

\* The numbers of the players that part p tells of.
Share(g, p) == SelectSeq([n \in 1 .. g.players |-> n], LAMBDA n : (n % g.parts) + 1 = p)

\* Gamespy: parts numbered from 1, the last marked; the first names the server.
GpsReply(g, k) ==
  {[kind |-> "gps", major |-> k, minor |-> p, final |-> p = g.parts,
    finalBehind |-> "behind" \in g.server, names |-> p = 1, players |-> g.players,
    numbers |-> IF "players" \in g.want THEN Share(g, p) ELSE <<>>] : p \in 1 .. g.parts}

UT2003Reply(g, r) ==
  LET pariah == IF g.type = "prs" THEN "pariah " ELSE ""
      players == {[kind |-> pariah \o "players", numbers |-> Share(g, p), bad |-> "none", xmp |-> FALSE]
                    : p \in 1 .. g.parts}
      rules == {Message(g, pariah \o "rules")}
  IN CASE g.type = "prs" -> {Message(g, "pariah info")} \cup rules \cup players
       [] g.type # "prs" /\ r.kind = "info" -> {Message(g, "info")}
       [] g.type # "prs" /\ r.kind = "rules" ->
            (IF "rules" \in g.want THEN rules ELSE {}) \cup (IF "players" \in g.want THEN players ELSE {})

HazeReply(g, r, k) ==
  IF r.kind = "challenge" THEN {[kind |-> "challenge"]} ELSE InParts(g, Message(g, "reply"), k)

\* A Tribes 2 master asked with query=types tells no servers: format 1.
AsksForTypes(g) == g.format = 1

\* A master: pages from 0 on, one for each request or all for any.
MasterReply(g, r) ==
  LET pages == {[kind |-> "list", page |-> p, last |-> p = g.parts - 1] : p \in 0 .. g.parts - 1}
  IN CASE r.kind = "ack" -> {}
       [] g.type = "t2m" /\ AsksForTypes(g) -> {[kind |-> "types"]}
       [] GameHandler(g) = "qwmaster" /\ g.type \in {"hlm", "stm"} ->
            {m \in pages : m.page = r.challenge}
       [] OTHER -> pages

MasterHandlers ==
  {"qwmaster", "doom3master", "tribesmaster", "tribes2master", "descent3master", "ottdmaster",
   "teemaster"}
SteppedHandlers == {"hl2", "descent3", "tribes2", "ottd"}

\* What may come back for the k-th request, r.
Reply(g, r, k, issued) ==
  CASE GameHandler(g) \in {"a2s", "fl", "gs3"} -> ChallengedReply(g, r, k, issued)
    [] GameHandler(g) = "q"        -> QuakeReply(g, r)
    [] GameHandler(g) = "qw"       -> QuakeWorldReply(g, r)
    [] GameHandler(g) = "halflife" -> HalfLifeReply(g, r, k)
    [] GameHandler(g) \in SteppedHandlers -> StepReply(g, r)
    [] GameHandler(g) = "gps"      -> GpsReply(g, k)
    [] GameHandler(g) = "ut2003"   -> UT2003Reply(g, r)
    [] GameHandler(g) = "haze"     -> HazeReply(g, r, k)
    [] GameHandler(g) \in MasterHandlers -> MasterReply(g, r)
    [] OTHER -> InParts(g, Message(g, "reply"), k)

-----------------------------------------------------------------------------
\* TCP.  A stream is a sequence of lines, or of pieces of replies.
Line(what) == [what |-> what, len |-> IF what = "greeting" THEN 5 ELSE IF what = "ok" THEN 19 ELSE 40]
Lines(what, count) == [k \in 1 .. count |-> Line(what)]
Pieces(g, message) ==
  [p \in 1 .. g.parts |-> [part |-> p, parts |-> g.parts, message |-> message]]

\* What a server says before it is asked.
Greeting(g) ==
  CASE GameHandler(g) = "ts3" -> <<Line("greeting"), Line("text")>>
    [] GameHandler(g) = "ut2004master" -> <<Line("challenge")>>
    [] GameHandler(g) = "tm" -> <<[kind |-> "handle"], [kind |-> "version"]>>
    [] GameHandler(g) = "bfris" -> Pieces(g, Message(g, "reply"))
    [] OTHER -> <<>>

Ts2Response(g, r) ==
  <<Line("name"), Line("ok")>>
    \o (IF "players" \in r.details THEN Append(Lines("player", g.players), Line("ok")) ELSE <<>>)
WicResponse(g, r) ==
  <<Line("name"), Line("listing")>>
    \o (IF "players" \in r.details THEN Append(Lines("player", g.players), Line("exit")) ELSE <<>>)
Ts3Response(g, r) ==
  (CASE r.kind = "serverinfo" -> <<Line(IF "offline" \in g.server THEN "offline" ELSE "name")>>
     [] r.kind = "clientlist" -> Lines("player", g.players)
     [] OTHER -> <<>>) \o <<Line(IF r.kind = "use" /\ "unknown" \in g.server THEN "error" ELSE "ok")>>
UT2004Response(g, r) ==
  CASE r.kind = "response" -> <<Line("approved")>>
    [] r.kind = "verify" -> <<Line("verified")>>
    [] r.kind = "query" -> <<Line("count")>>
                           \o [p \in 1 .. g.parts |-> [what |-> "server", len |-> 40, page |-> p]]

\* A response without the text it should have, or one that denies authorization.
Refuses(g, r) == "down" \in g.server \/ ("unknown" \in g.server /\ r.kind = "authenticate")

LineHandlers == {"ts2", "ts3", "wic", "bfbc2", "ut2004master"}
Response(g, r) ==
  CASE GameHandler(g) = "ts2" -> Ts2Response(g, r)
    [] GameHandler(g) = "wic" -> WicResponse(g, r)
    [] GameHandler(g) = "ts3" -> Ts3Response(g, r)
    [] GameHandler(g) = "ut2004master" -> UT2004Response(g, r)
    [] GameHandler(g) = "bfbc2" -> IF r.kind = "serverInfo" THEN <<Line("name")>> ELSE <<Line("ok")>>
    [] OTHER -> Pieces(g, Message(g, IF Refuses(g, r) THEN "down" ELSE "page"))

Stream(g, asked) == Greeting(g) \o FlattenSeq([k \in DOMAIN asked |-> Response(g, asked[k])])

\* The chunks that may be read next once the program has read the first read
\* elements of the stream: up to any line if the server is "chunky", or all that is
\* there; piece by piece, for handlers that look at no lines.
LinesTo(stream, read, upto) == [kind |-> "chunk", lines |-> SubSeq(stream, read + 1, upto), upto |-> upto]
NextChunks(g, stream, read) ==
  IF read = Len(stream) THEN {}
  ELSE IF GameHandler(g) \in LineHandlers
  THEN {LinesTo(stream, read, upto) : upto \in IF "chunky" \in g.server THEN read + 1 .. Len(stream)
                                               ELSE {Len(stream)}}
  ELSE IF "kind" \in DOMAIN stream[read + 1]
  THEN {[kind |-> stream[read + 1].kind, upto |-> read + 1]}
  ELSE {[kind |-> "chunk", data |-> stream[read + 1], upto |-> read + 1]}
=============================================================================

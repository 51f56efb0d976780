------------------------------ MODULE Queries ------------------------------
(***************************************************************************)
(* The query of one server, of any type in the table, with packet_manip.c  *)
(* under its handler and send_packets with its retries over it.            *)
(*                                                                         *)
(* The server answers what it was asked (GameServers.tla).  The network    *)
(* loses, delays, reorders and repeats the datagrams: any fragment of any  *)
(* answer to any query sent so far may arrive next, or never.  TCP chunks  *)
(* come in order.                                                          *)
(***************************************************************************)
EXTENDS GameServers

CONSTANTS
  Setups  \* the query, the server asked and what may go wrong

ASSUME QueriesAssumption ==
  Setups \subseteq
    [type : TypeStrings,
     want : SUBSET {"rules", "players"},  \* -R, -P
     parts : Nat \ {0},       \* fragments of a reply, pages of a list
     format : Nat,            \* Half-Life generation, fl's protocol number, Quake's rules
     app : 0 .. 255,          \* the low byte of the application id
     players : Nat,           \* on the server
     server : SUBSET {"guarded", "broken", "short", "old", "odd", "behind", "chunky", "offline",
                      "unknown", "down", "cut"},
     sends : SUBSET BOOLEAN,  \* how send may end
     rotations : Nat,         \* changes of the challenge
     budget : Nat]            \* datagrams or chunks that arrive

VARIABLES
  setup,     \* the element of Setups this run is about
  s,         \* the struct qserver
  main,      \* "start", "work"
  asked,     \* the queries that went out, in order
  issued,    \* the challenges the server has made up so far: 1 .. issued
  chunks,    \* TCP: how much of the stream has been read
  budget,    \* arrivals left
  heard,     \* history: the replies handled
  resends,   \* history: queries send_packets repeated for want of a reply
  renewals,  \* history: challenges that replaced one already held
  gaveUp     \* history: the server or a player given up, or an error of a handler

history == <<heard, resends, renewals, gaveUp>>
all == <<setup, s, main, asked, issued, chunks, budget, history>>

InitQueries ==
  /\ setup \in Setups
  /\ s = NewServer(setup.type, setup.want)
  /\ main = "start"
  /\ asked = <<>>
  /\ issued = 1
  /\ chunks = 0
  /\ budget = setup.budget
  /\ heard = {} /\ resends = 0 /\ renewals = 0 /\ gaveUp = FALSE

\* Queries have gone out, or failed to.  Which of two like queries a reply is to
\* matters only if it comes in fragments: without, repeated ones are not noted.
Sent(result) ==
  asked' = IF /\ setup.parts = 1
              /\ \A j \in DOMAIN result.out : \E k \in DOMAIN asked : asked[k] = result.out[j]
           THEN asked ELSE asked \o result.out

\* What may arrive next.  A connection may break at any time; faulty datagrams
\* are of no known kind ("odd"), or end too early ("cut").
Arrivals ==
  IF TcpConnect(setup)
  THEN {[kind |-> "eof"]} \cup NextChunks(setup, Stream(setup, asked), chunks)
  ELSE LET replies == UNION {Reply(setup, asked[k], k, issued) : k \in DOMAIN asked}
       IN replies
            \cup (IF "odd" \in setup.server THEN {[kind |-> "odd"]} ELSE {})
            \cup (IF "cut" \in setup.server
                  THEN {[m EXCEPT !.bad = fault] : m \in {r \in replies : "bad" \in DOMAIN r},
                                                   fault \in {"front", "behind"}}
                  ELSE {})

-----------------------------------------------------------------------------
\* What a packet lets the handler read: the packet itself, or the reply its
\* fragment completes.
ReadsStreams == {"ksp", "farmsim", "crysis"}
FragmentOutcome(m) ==
  CASE Handler(s) = "a2s" -> A2SFragment(s, m)
    [] Handler(s) = "fl"  -> FLFragment(s, m)
    [] Handler(s) = "gs3" -> GS3Fragment(s, m)
    [] Handler(s) = "halflife" -> HLFragment(s, m)
    [] Handler(s) = "eye" -> EyeFragment(s, m)
    [] Handler(s) = "haze" -> HazeFragment(s, m)
    [] Handler(s) = "ventrilo" -> VentriloFragment(s, m)
    [] Handler(s) = "dirtybomb" -> DirtybombFragment(s, m)
ReadAlone(m) == Handler(s) = "dirtybomb" /\ PacketCount(s.saved) >= m.max - 1
FromFragment(m) ==
  IF ReadAlone(m) THEN {Alone(m).kind}
  ELSE IF FragmentOutcome(m).ret = "call" THEN {Reassembled(FragmentOutcome(m).data).kind} ELSE {}
IsWhole(m) ==
  IF Handler(s) \in ReadsStreams
  THEN \/ WholeResponse(<<m.data>>)
       \/ StreamFragment(s, m).ret = "call" /\ WholeResponse(StreamFragment(s, m).data)
  ELSE m.data.part = m.data.parts
Read(m) ==
  CASE m.kind = "fragment" -> FromFragment(m)
    [] m.kind = "chunk" /\ Handler(s) \in LineHandlers -> {m.lines[k].what : k \in DOMAIN m.lines}
    [] m.kind = "chunk" /\ Handler(s) \notin LineHandlers ->
         IF IsWhole(m) THEN {m.data.message.kind} ELSE {}
    [] OTHER -> {m.kind}

\* bind_sockets: the first query.
Start ==
  /\ main = "start"
  /\ main' = "work"
  /\ \E ok \in setup.sends :
       LET result == StatusQueryFunc(s, ok) IN s' = Fate(result) /\ Sent(result)
  /\ UNCHANGED <<setup, issued, chunks, budget, history>>

\* do_work hands a packet to the handler of the server's type.
Handle ==
  /\ main = "work" /\ s.open /\ budget > 0
  /\ budget' = budget - 1
  /\ \E m \in Arrivals, ok \in setup.sends :
       LET result == PacketFunc(s, m, ok)
       IN /\ s' = Fate(result)
          /\ Sent(result)
          /\ heard' = heard \cup Read(m)
          /\ renewals' = IF m.kind = "challenge" /\ s.status.haveChallenge
                         THEN renewals + 1 ELSE renewals
          /\ gaveUp' = (gaveUp \/ result.ret \in Errors)
          /\ chunks' = IF "upto" \in DOMAIN m THEN m.upto ELSE chunks
  /\ UNCHANGED <<setup, main, issued, resends>>

-----------------------------------------------------------------------------
\* send_packets, for one server.

Nameless == s.name = "none"
GivesUpNow == ~WaitsOne(s) /\ s.retry1 < 1

\* "No more retries", for the server or for its rules.
GivesUpQuery ==
  /\ Nameless /\ GivesUpNow
  /\ s' = CleanupOne(s, TRUE)
  /\ gaveUp' = TRUE
  /\ UNCHANGED <<asked, resends>>

\* A query that takes a try is a repeated one, but for the first.
Resent ==
  resends' = IF s.retry1 = NRetries \/ s'.retry1 = s.retry1 THEN resends ELSE resends + 1

AsksStatus ==
  /\ Nameless /\ ~WaitsOne(s) /\ s.retry1 >= 1 /\ Due(s)
  /\ ~HasFlag(s.status.type, "TCP_CONNECT")
AsksAgain ==
  /\ AsksStatus
  /\ \E ok \in setup.sends :
       LET result == StatusQueryFunc(s, ok) IN s' = Fate(result) /\ Sent(result)
  /\ Resent
  /\ gaveUp' = ~s'.open

\* The server is known, or its first query is not due yet.
PastStatus == ~(Nameless /\ (WaitsOne(s) \/ GivesUpNow)) /\ ~AsksStatus

GivesUpRules ==
  /\ PastStatus /\ s.rule /\ GivesUpNow
  /\ s' = CleanupOne([s EXCEPT !.rule = FALSE, !.missing = TRUE], FALSE)
  /\ UNCHANGED <<asked, resends, gaveUp>>

\* The part about players: the query for one that was tried often enough is given
\* up, and the server with the last of them.
ExpectsPlayers(t) == t.nextPlayer < t.numPlayers
PlayerStage(t, ok) ==
  LET next == [t EXCEPT !.nextPlayer = @ + 1]
  IN IF ~ExpectsPlayers(t) \/ WaitsTwo(t) THEN Ends(t, "INPROGRESS")
     ELSE IF t.retry2 # 0 THEN PlayerQuery(t, ok)
     ELSE IF ~ExpectsPlayers(next) THEN Ends(CleanupOne(next, TRUE), "INPROGRESS")
     ELSE PlayerQuery([next EXCEPT !.retry2 = NRetries], ok)

PlayerGivenUp == gaveUp' = (gaveUp \/ s'.nextPlayer # s.nextPlayer)

\* What the rule query returns is not looked at; either send may fail.
AsksRules ==
  /\ PastStatus /\ s.rule /\ ~WaitsOne(s) /\ s.retry1 >= 1
  /\ \E ok, next \in setup.sends :
       LET rules == RuleQueryFunc(s, ok)
           result == After(rules, PlayerStage(rules.s, next))
       IN s' = result.s /\ Sent(result)
  /\ Resent
  /\ PlayerGivenUp

AsksPlayers ==
  /\ PastStatus /\ ~s.rule /\ ExpectsPlayers(s)
  /\ \E ok \in setup.sends :
       LET result == PlayerStage(s, ok) IN s' = result.s /\ Sent(result)
  /\ PlayerGivenUp
  /\ UNCHANGED resends

\* Mutant: no query, no try spent.
SendsNothingFree ==
  /\ PastStatus /\ ~s.rule /\ ~ExpectsPlayers(s)
  /\ s' = IF s.retry1 < 1 /\ s.elapsed > NRetries + 1 THEN CleanupOne(s, TRUE) ELSE s
  /\ UNCHANGED <<asked, resends, gaveUp>>

\* "we didnt send any additional queries"
SendsNothing ==
  /\ PastStatus /\ ~s.rule /\ ~ExpectsPlayers(s)
  /\ s' = IF s.retry1 >= 1 THEN [s EXCEPT !.retry1 = @ - 1]
          ELSE IF s.elapsed > NRetries + 1 THEN CleanupOne(s, TRUE) ELSE s
  /\ UNCHANGED <<asked, resends, gaveUp>>

SendPackets ==
  /\ main = "work" /\ s.open
  /\ \/ GivesUpQuery \/ AsksAgain \/ GivesUpRules \/ AsksRules \/ AsksPlayers \/ SendsNothing
  /\ UNCHANGED <<setup, main, issued, chunks, budget, heard, renewals>>

\* Another retry interval goes by; after so many it makes no difference.
LongAgo(retry) == Max({NRetries + 2, NRetries - retry + 1})
Tick ==
  /\ main = "work" /\ s.open
  /\ s.elapsed < LongAgo(s.retry1) \/ s.elapsed2 < LongAgo(s.retry2)
  /\ s' = [s EXCEPT !.elapsed = Max({@, Min({@ + 1, LongAgo(s.retry1)})}),
                    !.elapsed2 = Max({@, Min({@ + 1, LongAgo(s.retry2)})})]
  /\ UNCHANGED <<setup, main, asked, issued, chunks, budget, history>>

\* The server makes up a new challenge.
Rotate ==
  /\ main = "work" /\ s.open /\ issued <= setup.rotations
  /\ issued' = issued + 1
  /\ UNCHANGED <<setup, s, main, asked, chunks, budget, history>>

Over == main = "work" /\ ~s.open /\ UNCHANGED all

Next == Start \/ Handle \/ SendPackets \/ Tick \/ Rotate \/ Over

\* The program runs and time passes.
QueriesSpec ==
  InitQueries /\ [][Next]_all /\ WF_all(Start) /\ WF_all(SendPackets) /\ WF_all(Tick)

-----------------------------------------------------------------------------
\* Properties.

\* The retry counter and its sign, the fragments kept, the states a query ends
\* in: what the C fields hold, whatever arrives (struct qserver, qstat.h).
QueryTypeOK ==
  /\ s.name \in {"none", "server", "MASTER", "TIMEOUT", "DOWN", "ERROR", "SERVERERROR"}
  /\ s.open \/ s.name # "none"
  /\ s.retry1 \in 0 - setup.budget - 1 .. NRetries /\ s.retries \in 0 .. NRetries * (setup.budget + 1)
  /\ s.elapsed \in 0 .. NRetries + setup.budget + 2
  /\ s.saved # <<>> => s.open
  /\ \A k \in DOMAIN s.saved : /\ s.saved[k].index \in 0 .. MaxFragments - 1
                               /\ s.saved[k].max \in 0 .. MaxFragments
  /\ budget \in 0 .. setup.budget

\* The replies the handlers have to see before a server has answered: each kind
\* of detail that was asked for, where it has a reply of its own.
Asked(kind) == IF kind \in setup.want THEN {kind} ELSE {}
AskedAny(kind) == IF setup.want # {} THEN {kind} ELSE {}
Needed ==
  CASE GameHandler(setup) \in {"a2s", "fl", "hl2"} -> {"info"} \cup setup.want
    [] GameHandler(setup) = "q" -> {"info"} \cup (IF "rules" \in setup.want THEN {"norules"} ELSE {})
    [] GameHandler(setup) = "qw" /\ QWKind(setup) = "info" -> {"info"} \cup AskedAny("status")
    [] GameHandler(setup) \in {"halflife", "descent3"} -> {"info"} \cup Asked("players")
    [] GameHandler(setup) = "ottd" -> {"info"} \cup AskedAny("players")
    [] GameHandler(setup) = "tribes2" -> {"ping"}
    [] setup.type = "ut2s" -> {"info"} \cup Asked("players")
    [] OTHER -> {}

\* What a server is displayed from if that is all there is to read.
Sources == {"reply", "all", "status", "page", "gps", "qw", "hw", "print", "name", "pariah info"}

\* A server that is displayed as answered, with nothing noted as missing and no
\* fault in what it sent, did answer: info and whatever was asked for was read, as
\* whole replies (next_rule and the have_ bits, a2s.c:722, fl.c:498).  One that
\* has used up its tries is closed without a note (a2s.c:76, qstat.c:4916).
Faultless == setup.server \cap {"odd", "cut"} = {} /\ FALSE \notin setup.sends
Answered == ~s.open /\ s.name = "server" /\ ~s.missing /\ Faultless
UsedUp == IF GameHandler(setup) \in {"a2s", "fl"} THEN s.retry1 < 0 ELSE gaveUp
AnsweredMeansAll ==
  (Answered /\ ~UsedUp) => Needed \subseteq heard /\ (Needed = {} => heard \cap Sources # {})

\* A server that answered lists every player it has, once, when they are asked
\* for (add_player, qstat.c:7465; the handlers that number players themselves
\* depend on reading a reply only once).
ListsPlayers ==
  {"q", "qw", "doom3", "quake4", "hl2", "ut2003", "halflife", "tribes", "bfris", "tribes2",
   "descent3", "eye", "gs2", "savage", "haze", "wolf", "ts2", "wic", "tm", "ventrilo", "tf"}
PlayersExact ==
  (Answered /\ ~gaveUp /\ "players" \in setup.want /\ GameHandler(setup) \in ListsPlayers
     /\ setup.type # "prs") =>
    Len(s.players) = setup.players

\* A list that is asked for page by page (Half-Life, Steam) is whole when it is
\* taken for complete, whatever was lost or came late or again: no page is missing,
\* each stands behind the one before it, the last one at the end (master_query_tag,
\* qstat.c:6789).  A page that came twice is there twice (qstat.c:6797): its
\* addresses are refused the second time (add_qserver_byaddr, 4108).  A datagram of
\* no known kind is taken for a page (qstat.c:6786).
PagesWhole ==
  (~s.open /\ s.name = "MASTER" /\ ~gaveUp /\ setup.type \in {"hlm", "stm"} /\ "odd" \notin setup.server) =>
    /\ Range(s.found) = 0 .. setup.parts - 1
    /\ \A k \in DOMAIN s.found : s.found[k] = 0 \/ \E j \in 1 .. k - 1 : s.found[j] = s.found[k] - 1
    /\ s.found[Len(s.found)] = setup.parts - 1

\* TIMEOUT is for servers that never said who they are: a reply that names the
\* server is not thrown away later (cleanup_qserver, qstat.c:5666).
NamesServer ==
  IF setup.type \in {"crysis", "ts3"} THEN {}
  ELSE {"info", "all", "status", "ping", "qw", "hw", "print", "page", "name"}
TimeoutMeansSilence ==
  (s.name = "TIMEOUT" /\ Faultless) => heard \cap NamesServer = {}

\* "do not count challenge as retry" (a2s.c:253, fl.c:187): the retries shown
\* for a server are queries that were repeated, or asked again under a new
\* challenge.  (gs3.c:70 gives the try back but leaves n_retries alone.)
RetriesAreResends ==
  setup.type \in {"a2s", "fls"} => s.retries <= resends + renewals

\* Fragments are only ever put together into the reply they were cut from
\* (combine_packets, and the totals gs3.c guesses).
RepliesWhole == "garbled" \notin heard

\* Once every fragment of a reply has come, in whatever order and among whatever
\* repeats, the reply is read ("combine_packets will call us recursively",
\* a2s.c:235).
HasAllParts(k) ==
  \A p \in 1 .. s.saved[k].data.parts :
    \E j \in DOMAIN s.saved : /\ s.saved[j].id = s.saved[k].id
                             /\ s.saved[j].data = [s.saved[k].data EXCEPT !.part = p]
FragmentsSuffice ==
  \A k \in DOMAIN s.saved : HasAllParts(k) => s.saved[k].data.message.kind \in heard

\* Rules are asked for with a challenge the server made up, unless it answers
\* without one (a2s.c:97, fl.c:83).
ChallengeFirst ==
  \A k \in DOMAIN asked :
    (setup.type \in {"a2s", "fls", "gs4"} /\ asked[k].kind \in {"rules", "status", "all"}) =>
      asked[k].challenge \in 1 .. issued \/ setup.server \cap {"broken", "old"} # {}

\* Work on a server ends, whatever is lost (send_packets).
QueryEnds == <>~s.open
=============================================================================

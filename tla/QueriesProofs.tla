---------------------------- MODULE QueriesProofs ----------------------------
(***************************************************************************)
(* Theorems about queries: of the types with a challenge, a2s and fls, gs3 *)
(* and gs4, and of the masters whose list comes in pages, hlm and stm.     *)
(*                                                                         *)
(* The functions of a2s.c and fl.c are first reduced to relations between  *)
(* the server they are given and the one they leave (InfoAsked, MoreAsked, *)
(* Challenged, InfoRead, ...); what each leaves satisfies Good, and what   *)
(* the engine makes of it satisfies the invariant.  The same is done for   *)
(* gs3.c (GSInv) and for the functions of the two masters (PagingInv).     *)
(*                                                                         *)
(* On top of that: what the server remembers was read (HeardInv), and the  *)
(* fragments it keeps are pieces of what was asked for with one missing of *)
(* each reply not read yet (PiecesInv, Filed).  For gs3.c both are in      *)
(* GSHeard; there all totals are raised together and may still be too low  *)
(* (GSTotalled), but never when the last piece is there.                   *)
(***************************************************************************)
EXTENDS Queries, SequenceTheorems, FiniteSetTheorems, TLAPS

\* TypeTable's R is a name WellFoundedInduction uses too.
W == INSTANCE WellFoundedInduction

-----------------------------------------------------------------------------
\* The rows of the type table.

Types == {"a2s", "fls", "gs3", "gs4"}

LEMMA OtherRows ==
  /\ \A row \in QuakeTypes \cup Quake3Types \cup Quake3GameTypes \cup HalfLifeEraTypes : row.type \notin Types
  /\ \A row \in TribesEraTypes \cup GamespyEraTypes \cup DescentEraTypes \cup Gamespy2EraTypes : row.type \notin Types
  /\ \A row \in QuakeMasterTypes \cup Quake3MasterTypes \cup PagingMasterTypes \cup OtherMasterTypes : row.type \notin Types
  /\ \A row \in TrackmaniaEraTypes \cup TeamspeakEraTypes \cup Cube2EraTypes \cup WebTypes \cup LastTypes : row.type \notin Types
<1>1. \A row \in QuakeTypes \cup Quake3Types \cup Quake3GameTypes \cup HalfLifeEraTypes : row.type \notin Types
  BY DEF Types, R, QuakeTypes, Quake3Types, Quake3GameTypes, HalfLifeEraTypes
<1>2. \A row \in TribesEraTypes \cup GamespyEraTypes \cup DescentEraTypes \cup Gamespy2EraTypes : row.type \notin Types
  BY DEF Types, R, TribesEraTypes, GamespyEraTypes, DescentEraTypes, Gamespy2EraTypes
<1>3. \A row \in QuakeMasterTypes \cup Quake3MasterTypes \cup PagingMasterTypes \cup OtherMasterTypes : row.type \notin Types
  BY DEF Types, R, QuakeMasterTypes, Quake3MasterTypes, PagingMasterTypes, OtherMasterTypes
<1>4. \A row \in TrackmaniaEraTypes \cup TeamspeakEraTypes \cup Cube2EraTypes \cup WebTypes \cup LastTypes : row.type \notin Types
  BY DEF Types, R, TrackmaniaEraTypes, TeamspeakEraTypes, Cube2EraTypes, WebTypes, LastTypes
<1> QED
  BY <1>1, <1>2, <1>3, <1>4

\* The four rows.
A2SRow == R("a2s", "none", {}, {}, "a2s", "a2s")
FLRow == R("fls", "none", {}, {}, "fl", "fl")
GS3Row == R("gs3", "none", {"SINGLE_QUERY"}, {"status", "player"}, "gs3", "gs3")
GS4Row == R("gs4", "none", {"SINGLE_QUERY"}, {"status", "player"}, "gs3", "gs3")

LEMMA OurRows ==
  /\ A2SRow \in SourceEraTypes /\ GS3Row \in SourceEraTypes
  /\ FLRow \in OpenTTDEraTypes /\ GS4Row \in Quake4EraTypes
  /\ \A row \in SourceEraTypes \cup OpenTTDEraTypes \cup Quake4EraTypes :
       /\ row.type = "a2s" => row = A2SRow
       /\ row.type = "fls" => row = FLRow
       /\ row.type = "gs3" => row = GS3Row
       /\ row.type = "gs4" => row = GS4Row
<1>1. /\ A2SRow \in SourceEraTypes /\ GS3Row \in SourceEraTypes
      /\ FLRow \in OpenTTDEraTypes /\ GS4Row \in Quake4EraTypes
  BY DEF A2SRow, FLRow, GS3Row, GS4Row, SourceEraTypes, OpenTTDEraTypes, Quake4EraTypes
<1>2. ASSUME NEW row \in SourceEraTypes
      PROVE  row.type \notin {"fls", "gs4"} /\ (row.type = "a2s" => row = A2SRow) /\ (row.type = "gs3" => row = GS3Row)
  BY DEF R, A2SRow, GS3Row, SourceEraTypes
<1>3. ASSUME NEW row \in OpenTTDEraTypes
      PROVE  row.type \notin {"a2s", "gs3", "gs4"} /\ (row.type = "fls" => row = FLRow)
  BY DEF R, FLRow, OpenTTDEraTypes
<1>4. ASSUME NEW row \in Quake4EraTypes
      PROVE  row.type \notin {"a2s", "gs3", "fls"} /\ (row.type = "gs4" => row = GS4Row)
  BY DEF R, GS4Row, Quake4EraTypes
<1> QED
  BY <1>1, <1>2, <1>3, <1>4

LEMMA Row ==
  ASSUME NEW row \in BuiltinTypes, row.type \in Types
  PROVE  row \in SourceEraTypes \cup OpenTTDEraTypes \cup Quake4EraTypes
BY OtherRows DEF BuiltinTypes

LEMMA RowTypes ==
  A2SRow.type = "a2s" /\ FLRow.type = "fls" /\ GS3Row.type = "gs3" /\ GS4Row.type = "gs4"
BY DEF A2SRow, FLRow, GS3Row, GS4Row, R

LEMMA Looked ==
  ASSUME NEW type, NEW row \in BuiltinTypes, row.type = type,
         \A other \in BuiltinTypes : other.type = type => other = row
  PROVE  type \in TypeStrings /\ ServerType[type] = row
BY DEF TypeStrings, ServerType

LEMMA TableHas ==
  /\ Types \subseteq TypeStrings
  /\ ServerType["a2s"] = A2SRow /\ ServerType["fls"] = FLRow
  /\ ServerType["gs3"] = GS3Row /\ ServerType["gs4"] = GS4Row
<1>1. A2SRow \in BuiltinTypes /\ FLRow \in BuiltinTypes /\ GS3Row \in BuiltinTypes /\ GS4Row \in BuiltinTypes
  BY OurRows DEF BuiltinTypes
<1>2. \A other \in BuiltinTypes :
        /\ other.type = "a2s" => other = A2SRow
        /\ other.type = "fls" => other = FLRow
        /\ other.type = "gs3" => other = GS3Row
        /\ other.type = "gs4" => other = GS4Row
  BY Row, OurRows DEF Types
<1>3. /\ "a2s" \in TypeStrings /\ ServerType["a2s"] = A2SRow
      /\ "fls" \in TypeStrings /\ ServerType["fls"] = FLRow
      /\ "gs3" \in TypeStrings /\ ServerType["gs3"] = GS3Row
      /\ "gs4" \in TypeStrings /\ ServerType["gs4"] = GS4Row
  BY <1>1, <1>2, Looked, RowTypes
<1> QED
  BY <1>3 DEF Types

\* What the functions look up.
LEMMA TableSays ==
  /\ ServerType["a2s"].query = "a2s" /\ ServerType["a2s"].handler = "a2s"
  /\ ServerType["fls"].query = "fl" /\ ServerType["fls"].handler = "fl"
  /\ ServerType["gs3"].query = "gs3" /\ ServerType["gs3"].handler = "gs3"
  /\ ServerType["gs4"].query = "gs3" /\ ServerType["gs4"].handler = "gs3"
  /\ \A type \in Types : ~IsMaster(type) /\ ~HasFlag(type, "TCP_CONNECT")
  /\ ~HasFlag("a2s", "SINGLE_QUERY") /\ ~HasFlag("fls", "SINGLE_QUERY")
  /\ HasFlag("gs3", "SINGLE_QUERY") /\ HasFlag("gs4", "SINGLE_QUERY")
<1>1. /\ A2SRow.query = "a2s" /\ A2SRow.handler = "a2s" /\ A2SRow.flags = {} /\ A2SRow.master = "none"
      /\ FLRow.query = "fl" /\ FLRow.handler = "fl" /\ FLRow.flags = {} /\ FLRow.master = "none"
  BY DEF A2SRow, FLRow, R
<1>2. /\ GS3Row.query = "gs3" /\ GS3Row.handler = "gs3" /\ GS3Row.flags = {"SINGLE_QUERY"} /\ GS3Row.master = "none"
      /\ GS4Row.query = "gs3" /\ GS4Row.handler = "gs3" /\ GS4Row.flags = {"SINGLE_QUERY"} /\ GS4Row.master = "none"
  BY DEF GS3Row, GS4Row, R
<1>3. \A type \in Types : ServerType[type].master = "none" /\ "TCP_CONNECT" \notin ServerType[type].flags
  BY <1>1, <1>2, TableHas DEF Types
<1> QED
  BY <1>1, <1>2, <1>3, TableHas DEF IsMaster, HasFlag

-----------------------------------------------------------------------------
\* The records.

Message4 == [kind : {"info", "rules", "players", "status", "all"}, bad : {"none", "front", "behind"}, players : Nat,
             qfusion : BOOLEAN, format : Nat, app : 0 .. 255, short : BOOLEAN]
Slices == [part : Nat, parts : Nat, message : Message4]
Kept == [id : Nat, index : Nat, max : Nat, data : Slices]
Requests == [kind : {"info", "challenge", "rules", "players", "status", "all"}, challenge : Int,
             details : SUBSET {"rules", "players"}]

Statuses ==
  [type : Types, format : Nat, wide : BOOLEAN, challenge : Int, haveChallenge : BOOLEAN,
   sentInfo : BOOLEAN, haveInfo : BOOLEAN, havePlayer : BOOLEAN, haveRules : BOOLEAN,
   step : Nat, left : Nat, mask : SUBSET Nat]
Servers ==
  [name : {"none", "server", "TIMEOUT"}, open : BOOLEAN, retry1 : Int, retry2 : Int, retries : Nat,
   elapsed : Nat, elapsed2 : Nat, rule : BOOLEAN, missing : BOOLEAN, nextPlayer : Nat,
   numPlayers : Nat, players : Seq(Nat), found : Seq(Nat), hasFound : BOOLEAN,
   saved : Seq(Kept), want : SUBSET {"rules", "players"}, status : Statuses]

LEMMA NewTyped ==
  ASSUME NEW type \in Types, NEW want \in SUBSET {"rules", "players"}
  PROVE  /\ NewServer(type, want) \in Servers
         /\ NewServer(type, want).saved = <<>>
<1>1. NewStatus(type) \in Statuses
  BY DEF NewStatus, Statuses
<1>2. <<>> \in Seq(Kept)
  OBVIOUS
<1> QED
  BY <1>1, <1>2, QServerAssumption DEF NewServer, Servers, NoPlayerInfo

\* What sending changes: elapsed and the tries.
Same(t, u) ==
  /\ u.elapsed2 = t.elapsed2
  /\ u.name = t.name /\ u.open = t.open /\ u.rule = t.rule /\ u.missing = t.missing
  /\ u.nextPlayer = t.nextPlayer /\ u.numPlayers = t.numPlayers /\ u.hasFound = t.hasFound
  /\ u.saved = t.saved /\ u.want = t.want /\ u.status = t.status
Spends(t, u) ==
  /\ u \in Servers /\ Same(t, u)
  /\ u.retry1 = t.retry1 - 1
  /\ u.retries = IF t.retry1 = NRetries THEN t.retries ELSE t.retries + 1
  /\ u.elapsed \in {0, t.elapsed}

LEMMA Fields ==
  ASSUME NEW t \in Servers
  PROVE  /\ t.name \in {"none", "server", "TIMEOUT"} /\ t.open \in BOOLEAN
         /\ t.retry1 \in Int /\ t.retries \in Nat /\ t.elapsed \in Nat /\ t.elapsed2 \in Nat
         /\ t.rule \in BOOLEAN /\ t.missing \in BOOLEAN /\ t.nextPlayer \in Nat /\ t.numPlayers \in Nat
         /\ t.saved \in Seq(Kept) /\ t.want \in SUBSET {"rules", "players"} /\ t.status \in Statuses
BY DEF Servers

LEMMA InitialSpends ==
  ASSUME NEW t \in Servers
  PROVE  Spends(t, SendInitial(t))
<1>1. t.retry1 \in Int /\ t.retries \in Nat
  BY Fields
<1>2. PICK r \in Int : r = t.retry1 - 1
  BY <1>1
<1>3. PICK q \in Nat : q = t.retries + 1
  BY <1>1
<1>4. CASE t.retry1 = NRetries
  <2> DEFINE u == [t EXCEPT !.elapsed = 0, !.retry1 = r]
  <2>1. SendInitial(t) = u
    BY <1>2, <1>4 DEF SendInitial
  <2>2. u \in Servers /\ u.retry1 = r /\ u.retries = t.retries /\ u.elapsed = 0 /\ Same(t, u)
    BY DEF Servers, Same
  <2> QED
    BY <1>2, <1>4, <2>1, <2>2 DEF Spends
<1>5. CASE t.retry1 # NRetries
  <2> DEFINE u == [t EXCEPT !.retries = q, !.retry1 = r]
  <2>1. SendInitial(t) = u
    BY <1>2, <1>3, <1>5 DEF SendInitial
  <2>2. u \in Servers /\ u.retry1 = r /\ u.retries = q /\ u.elapsed = t.elapsed /\ Same(t, u)
    BY DEF Servers, Same
  <2> QED
    BY <1>2, <1>3, <1>5, <2>1, <2>2 DEF Spends
<1> QED
  BY <1>4, <1>5

LEMMA RegisterSpends ==
  ASSUME NEW t \in Servers
  PROVE  Spends(t, RegisterSend(t))
<1>1. t.retry1 \in Int /\ t.retries \in Nat
  BY Fields
<1>2. PICK r \in Int : r = t.retry1 - 1
  BY <1>1
<1>3. PICK q \in Nat : q = IF t.retry1 = NRetries THEN t.retries ELSE t.retries + 1
  BY <1>1
<1> DEFINE u == [t EXCEPT !.elapsed = 0, !.retry1 = r, !.retries = q]
<1>4. RegisterSend(t) = u
  BY <1>2, <1>3 DEF RegisterSend
<1>5. u \in Servers /\ u.retry1 = r /\ u.retries = q /\ u.elapsed = 0 /\ Same(t, u)
  BY DEF Servers, Same
<1> QED
  BY <1>2, <1>3, <1>4, <1>5 DEF Spends

\* cleanup_qserver for these types, which list no players for send_packets to ask
\* for, and no servers.
Closed(t, u) ==
  /\ u = [t EXCEPT !.name = IF @ # "none" THEN @ ELSE "TIMEOUT", !.open = FALSE, !.saved = <<>>]
  /\ u \in Servers
Plain(t) == t \in Servers /\ t.numPlayers = 0 /\ ~t.hasFound

LEMMA CleanupCloses ==
  ASSUME NEW t, Plain(t), NEW force \in BOOLEAN
  PROVE  IF force \/ t.name = "none" \/ ~t.rule \/ t.status.type \in {"gs3", "gs4"}
         THEN Closed(t, CleanupOne(t, force)) ELSE CleanupOne(t, force) = t
<1>1. t \in Servers /\ t.status.type \in Types /\ t.nextPlayer >= t.numPlayers /\ ~t.hasFound
  <2>1. t \in Servers /\ t.status \in Statuses /\ t.nextPlayer \in Nat /\ t.numPlayers = 0 /\ ~t.hasFound
    BY Fields DEF Plain
  <2> QED
    BY <2>1 DEF Statuses
<1>2. HasFlag(t.status.type, "SINGLE_QUERY") <=> t.status.type \in {"gs3", "gs4"}
  BY <1>1, TableSays DEF Types
<1>3. MustCloseOne(t, force) <=> force \/ t.name = "none" \/ ~t.rule \/ t.status.type \in {"gs3", "gs4"}
  BY <1>1, <1>2 DEF MustCloseOne
<1>4. CASE MustCloseOne(t, force)
  <2>1. PICK n \in {"none", "server", "TIMEOUT"} : n = IF t.name # "none" THEN t.name ELSE "TIMEOUT"
    BY <1>1, Fields
  <2>2. PICK none \in Seq(Kept) : none = <<>>
    <3>1. <<>> \in Seq(Kept)
      OBVIOUS
    <3> QED
      BY <3>1
  <2> DEFINE u == [t EXCEPT !.name = n, !.open = FALSE, !.saved = none]
  <2>3. CleanupOne(t, force) = u
    BY <1>1, <1>4, <2>1, <2>2, TableSays DEF CleanupOne
  <2>4. u \in Servers
    BY <1>1 DEF Servers
  <2>5. u = [t EXCEPT !.name = IF @ # "none" THEN @ ELSE "TIMEOUT", !.open = FALSE, !.saved = <<>>]
    BY <1>1, <2>1, <2>2
  <2> HIDE DEF u
  <2> QED
    BY <1>3, <1>4, <2>3, <2>4, <2>5 DEF Closed
<1>5. CASE ~MustCloseOne(t, force)
  BY <1>3, <1>5 DEF CleanupOne
<1> QED
  BY <1>4, <1>5

Keeps(t, u) ==
  /\ u.retry1 = t.retry1 /\ u.retries = t.retries /\ u.elapsed = t.elapsed /\ u.elapsed2 = t.elapsed2
  /\ u.rule = t.rule /\ u.missing = t.missing /\ u.nextPlayer = t.nextPlayer
  /\ u.want = t.want /\ u.status = t.status

LEMMA ClosedSays ==
  ASSUME NEW t \in Servers, NEW u, Closed(t, u)
  PROVE  /\ u \in Servers /\ Keeps(t, u) /\ ~u.open /\ u.saved = <<>>
         /\ u.name = IF t.name = "none" THEN "TIMEOUT" ELSE t.name
BY DEF Closed, Keeps, Servers

\* process_func_ret for these types.
Rets == {"INPROGRESS", "DONE_AUTO", "DONE_FORCE", "SYS_ERROR", "PKT_ERROR"}
LEMMA FateIs ==
  ASSUME NEW r, r.ret \in Rets, Plain(r.s)
  PROVE  /\ r.ret = "INPROGRESS" => Fate(r) = r.s
         /\ r.ret = "DONE_AUTO" =>
              IF r.s.name = "none" \/ ~r.s.rule \/ r.s.status.type \in {"gs3", "gs4"}
              THEN Closed(r.s, Fate(r)) ELSE Fate(r) = r.s
         /\ r.ret \notin {"INPROGRESS", "DONE_AUTO"} => Closed(r.s, Fate(r))
<1>1. r.ret = "INPROGRESS" => Fate(r) = r.s
  BY DEF Fate, Errors
<1>2. r.ret = "DONE_AUTO" => Fate(r) = CleanupOne(r.s, FALSE)
  BY DEF Fate, Errors
<1>3. r.ret \notin {"INPROGRESS", "DONE_AUTO"} => Fate(r) = CleanupOne(r.s, TRUE)
  BY DEF Fate, Errors, Rets
<1> QED
  BY <1>1, <1>2, <1>3, CleanupCloses

-----------------------------------------------------------------------------
\* What the functions of a2s.c and fl.c do to the fields.

SameRest(t, u) ==
  /\ u.numPlayers = t.numPlayers /\ u.hasFound = t.hasFound /\ u.elapsed2 = t.elapsed2
  /\ u.nextPlayer = t.nextPlayer /\ u.want = t.want /\ u.status.type = t.status.type
SameFate(t, u) == u.name = t.name /\ u.open = t.open /\ u.missing = t.missing /\ u.saved = t.saved
SameTries(t, u) == u.retry1 = t.retry1 /\ u.retries = t.retries /\ u.elapsed = t.elapsed
SameHave(t, u) ==
  /\ u.status.haveInfo = t.status.haveInfo /\ u.status.haveRules = t.status.haveRules
  /\ u.status.havePlayer = t.status.havePlayer
SameHeader(t, u) == u.status.format = t.status.format /\ u.status.wide = t.status.wide
SameChallenge(t, u) ==
  u.status.challenge = t.status.challenge /\ u.status.haveChallenge = t.status.haveChallenge

\* A query was sent, or was to be.
Spent(t, u) ==
  /\ u.retry1 = t.retry1 - 1
  /\ u.retries = IF t.retry1 = NRetries THEN t.retries ELSE t.retries + 1
  /\ u.elapsed \in {0, t.elapsed}
InfoAsked(t, u) ==
  /\ u \in Servers /\ SameRest(t, u) /\ SameFate(t, u) /\ SameHave(t, u) /\ SameChallenge(t, u)
  /\ Spent(t, u) /\ u.status.sentInfo /\ u.status.wide = t.status.wide /\ (t.rule => u.rule)
MoreAsked(t, u) ==
  /\ u \in Servers /\ SameRest(t, u) /\ SameFate(t, u) /\ SameHave(t, u) /\ SameHeader(t, u)
  /\ Spent(t, u) /\ u.status.sentInfo = t.status.sentInfo /\ u.rule = t.rule
  /\ u.status.haveChallenge = t.status.haveChallenge
  /\ t.status.haveChallenge => u.status.challenge = t.status.challenge

\* A challenge has come.
Challenged(t, u, c) ==
  /\ u \in Servers /\ SameRest(t, u) /\ SameFate(t, u) /\ SameHave(t, u) /\ SameHeader(t, u)
  /\ u.elapsed = t.elapsed /\ u.status.sentInfo = t.status.sentInfo /\ u.rule = t.rule
  /\ u.status.haveChallenge /\ u.status.challenge = c
  /\ IF ~t.status.haveChallenge /\ t.retry1 # NRetries
     THEN u.retry1 = t.retry1 + 1 /\ u.retries = IF t.retries > 0 THEN t.retries - 1 ELSE 0
     ELSE u.retry1 = t.retry1 /\ u.retries = t.retries

\* A reply with data has come.
Progressed(t, u) ==
  /\ u \in Servers /\ SameRest(t, u) /\ u.open = t.open /\ u.saved = t.saved
  /\ u.retry1 = NRetries /\ u.retries = t.retries /\ u.elapsed = t.elapsed
  /\ u.status.sentInfo = t.status.sentInfo
  /\ u.status.challenge = t.status.challenge /\ (t.status.haveChallenge => u.status.haveChallenge)
  /\ u.rule => ~A2SHasAll(u)
  /\ A2SHasAll(u) \/ (t.rule => u.rule)
  /\ t.missing => u.missing
InfoRead(t, u) ==
  /\ Progressed(t, u) /\ u.status.haveChallenge = t.status.haveChallenge /\ u.missing = t.missing
  /\ u.name = "server" /\ u.status.haveInfo
  /\ u.status.haveRules = t.status.haveRules /\ u.status.havePlayer = t.status.havePlayer
RulesRead(t, u) ==
  /\ Progressed(t, u) /\ SameHeader(t, u) /\ u.status.haveChallenge = t.status.haveChallenge
  /\ u.name = t.name /\ u.status.haveInfo = t.status.haveInfo
  /\ u.status.haveRules /\ u.status.havePlayer = t.status.havePlayer
PlayersRead(t, u) ==
  /\ Progressed(t, u) /\ SameHeader(t, u) /\ u.missing = t.missing
  /\ u.name = t.name /\ u.status.haveInfo = t.status.haveInfo
  /\ u.status.haveRules = t.status.haveRules /\ u.status.havePlayer

LEMMA ResultIs ==
  ASSUME NEW u, NEW ret, NEW request
  PROVE  /\ Asks(u, ret, request).s = u /\ Asks(u, ret, request).ret = ret
         /\ Asks(u, ret, request).out = <<request>>
         /\ Ends(u, ret).s = u /\ Ends(u, ret).ret = ret /\ Ends(u, ret).out = <<>>
BY DEF Asks, Ends

LEMMA SpendsSpent ==
  ASSUME NEW t \in Servers, NEW u, Spends(t, u)
  PROVE  /\ u \in Servers /\ SameRest(t, u) /\ SameFate(t, u) /\ SameHave(t, u) /\ SameHeader(t, u)
         /\ SameChallenge(t, u) /\ Spent(t, u) /\ u.status.sentInfo = t.status.sentInfo /\ u.rule = t.rule
BY DEF Spends, Same, SameRest, SameFate, SameHave, SameHeader, SameChallenge, Spent

LEMMA SentInfoIs ==
  ASSUME NEW t \in Servers, NEW u, NEW ru \in BOOLEAN,
         u = [t EXCEPT !.status.sentInfo = TRUE, !.status.format = 0, !.rule = ru]
  PROVE  /\ u \in Servers /\ SameRest(t, u) /\ SameFate(t, u) /\ SameTries(t, u) /\ SameHave(t, u)
         /\ SameChallenge(t, u) /\ u.status.sentInfo /\ u.status.wide = t.status.wide /\ u.rule = ru
BY DEF Servers, Statuses, SameRest, SameFate, SameTries, SameHave, SameChallenge

LEMMA SentInfoOnlyIs ==
  ASSUME NEW t \in Servers, NEW u,
         u = [t EXCEPT !.status.sentInfo = TRUE, !.status.format = 0]
  PROVE  /\ u \in Servers /\ SameRest(t, u) /\ SameFate(t, u) /\ SameTries(t, u) /\ SameHave(t, u)
         /\ SameChallenge(t, u) /\ u.status.sentInfo /\ u.status.wide = t.status.wide /\ u.rule = t.rule
BY DEF Servers, Statuses, SameRest, SameFate, SameTries, SameHave, SameChallenge

Info == Request("info", NoChallenge)

LEMMA SpentThen ==
  ASSUME NEW t \in Servers, NEW v, Spends(t, v), NEW u \in Servers,
         SameRest(v, u), SameFate(v, u), SameTries(v, u), SameHave(v, u),
         SameChallenge(v, u), u.status.sentInfo, u.status.wide = v.status.wide, v.rule => u.rule
  PROVE  InfoAsked(t, u)
BY SpendsSpent DEF InfoAsked, SameRest, SameFate, SameTries, SameHave, SameHeader, SameChallenge, Spent

\* send_a2s_request_packet, send_fl_request_packet
LEMMA StatusQueryEffect ==
  ASSUME NEW t \in Servers, NEW ok \in BOOLEAN
  PROVE  /\ ok => LET r == A2SStatusQuery(t, ok)
                  IN r.ret = "INPROGRESS" /\ r.out = <<Info>> /\ InfoAsked(t, r.s)
         /\ ok => LET r == A2SStatusQuery(t, ok) IN t.want # {} => r.s.rule
         /\ ok => LET r == FLStatusQuery(t, ok)
                  IN r.ret = "INPROGRESS" /\ r.out = <<Info>> /\ InfoAsked(t, r.s)
         /\ ~ok => LET r == A2SStatusQuery(t, ok)
                   IN r.ret = "DONE_FORCE" /\ r.out = <<>> /\ Spends(t, r.s)
         /\ ~ok => LET r == FLStatusQuery(t, ok)
                   IN r.ret = "SYS_ERROR" /\ r.out = <<>> /\ Spends(t, r.s)
<1>1. PICK v : v = SendInitial(t)
  OBVIOUS
<1>2. Spends(t, v) /\ v \in Servers
  BY <1>1, InitialSpends DEF Spends
<1>3. CASE ~ok
  BY <1>1, <1>2, <1>3 DEF A2SStatusQuery, FLStatusQuery, Ends
<1>4. CASE ok
  <2>1. PICK ru \in BOOLEAN : ru = (v.rule \/ t.want # {})
    OBVIOUS
  <2>2. PICK u : u = [v EXCEPT !.status.sentInfo = TRUE, !.status.format = 0, !.rule = ru]
    OBVIOUS
  <2>3. PICK w : w = [v EXCEPT !.status.sentInfo = TRUE, !.status.format = 0]
    OBVIOUS
  <2>4. A2SStatusQuery(t, ok) = Asks(u, "INPROGRESS", Info)
    BY <1>1, <1>4, <2>1, <2>2 DEF A2SStatusQuery, Info
  <2>5. FLStatusQuery(t, ok) = Asks(w, "INPROGRESS", Info)
    BY <1>1, <1>4, <2>3 DEF FLStatusQuery, Info
  <2>6. LET r == A2SStatusQuery(t, ok) IN r.ret = "INPROGRESS" /\ r.out = <<Info>> /\ r.s = u
    BY <2>4, ResultIs
  <2>7. LET r == FLStatusQuery(t, ok) IN r.ret = "INPROGRESS" /\ r.out = <<Info>> /\ r.s = w
    BY <2>5, ResultIs
  <2>8. InfoAsked(t, u)
    <3>1. /\ u \in Servers /\ SameRest(v, u) /\ SameFate(v, u) /\ SameTries(v, u) /\ SameHave(v, u)
          /\ SameChallenge(v, u) /\ u.status.sentInfo /\ u.status.wide = v.status.wide /\ (v.rule => u.rule)
      BY <1>2, <2>1, <2>2, SentInfoIs
    <3> QED
      BY <1>2, <3>1, SpentThen
  <2>9. InfoAsked(t, w)
    <3>1. /\ w \in Servers /\ SameRest(v, w) /\ SameFate(v, w) /\ SameTries(v, w) /\ SameHave(v, w)
          /\ SameChallenge(v, w) /\ w.status.sentInfo /\ w.status.wide = v.status.wide /\ (v.rule => w.rule)
      BY <1>2, <2>3, SentInfoOnlyIs
    <3> QED
      BY <1>2, <3>1, SpentThen
  <2>10. t.want # {} => u.rule
    BY <1>2, <2>1, <2>2, SentInfoIs DEF Servers
  <2> QED
    BY <1>4, <2>6, <2>7, <2>8, <2>9, <2>10
<1> QED
  BY <1>3, <1>4

\* send_a2s_rule_request_packet, while what has come is not all there is to ask for.
LEMMA A2SRuleQueryEffect ==
  ASSUME NEW t \in Servers, NEW ok \in BOOLEAN, ~A2SRestarts(t)
  PROVE  LET r == A2SRuleQuery(t, ok)
         IN  \/ /\ (t.want = {} /\ t.status.haveInfo) \/ t.retry1 < 0
                /\ r.ret = "DONE_FORCE" /\ r.out = <<>> /\ r.s = t
             \/ /\ ~(t.want = {} /\ t.status.haveInfo) /\ t.retry1 >= 0
                /\ MoreAsked(t, r.s)
                /\ \/ ok /\ r.ret = "INPROGRESS" /\ r.out = <<A2SNext(t)>>
                   \/ ~ok /\ r.ret = "SYS_ERROR" /\ r.out = <<>>
<1>1. CASE (t.want = {} /\ t.status.haveInfo) \/ t.retry1 < 0
  BY <1>1 DEF A2SRuleQuery, Ends
<1>2. CASE ~((t.want = {} /\ t.status.haveInfo) \/ t.retry1 < 0)
  <2>1. PICK v : v = IF t.status.haveChallenge THEN t ELSE [t EXCEPT !.status.challenge = AnyChallenge]
    OBVIOUS
  <2>2. /\ v \in Servers /\ SameRest(t, v) /\ SameFate(t, v) /\ SameTries(t, v) /\ SameHave(t, v) /\ SameHeader(t, v)
        /\ v.status.sentInfo = t.status.sentInfo /\ v.rule = t.rule
        /\ v.status.haveChallenge = t.status.haveChallenge
        /\ t.status.haveChallenge => v.status.challenge = t.status.challenge
    <3>1. CASE t.status.haveChallenge
      BY <2>1, <3>1 DEF SameRest, SameFate, SameTries, SameHave, SameHeader
    <3>2. CASE ~t.status.haveChallenge
      <4>1. PICK c \in Int : c = AnyChallenge
        BY DEF AnyChallenge
      <4>2. v = [t EXCEPT !.status.challenge = c]
        BY <2>1, <3>2, <4>1
      <4> QED
        BY <3>2, <4>2 DEF SameRest, SameFate, SameTries, SameHave, SameHeader, Servers, Statuses
    <3> QED
      BY <3>1, <3>2
  <2>3. PICK u : u = SendInitial(v)
    OBVIOUS
  <2>4. A2SRuleQuery(t, ok) = IF ok THEN Asks(u, "INPROGRESS", A2SNext(t)) ELSE Ends(u, "SYS_ERROR")
    BY <1>2, <2>1, <2>3 DEF A2SRuleQuery
  <2>5. MoreAsked(t, u)
    <3>1. /\ u \in Servers /\ SameRest(v, u) /\ SameFate(v, u) /\ SameHave(v, u) /\ SameHeader(v, u)
          /\ SameChallenge(v, u) /\ Spent(v, u) /\ u.status.sentInfo = v.status.sentInfo /\ u.rule = v.rule
      BY <2>2, <2>3, InitialSpends, SpendsSpent
    <3> QED
      BY <2>2, <3>1 DEF MoreAsked, SameRest, SameFate, SameTries, SameHave, SameHeader, SameChallenge, Spent
  <2>6. t.retry1 >= 0
    BY <1>2, Fields
  <2> QED
    BY <1>2, <2>4, <2>5, <2>6 DEF Asks, Ends
<1> QED
  BY <1>1, <1>2

\* send_fl_rule_request_packet
LEMMA FLRuleQueryEffect ==
  ASSUME NEW t \in Servers, NEW ok \in BOOLEAN, ~FLRestarts(t)
  PROVE  LET r == FLRuleQuery(t, ok)
         IN  \/ r.ret \in {"PKT_ERROR", "DONE_FORCE"} /\ r.out = <<>> /\ r.s = t
             \/ /\ MoreAsked(t, r.s) /\ SameChallenge(t, r.s)
                /\ \/ ok /\ r.ret = "INPROGRESS" /\ r.out = <<FLNext(t)>>
                   \/ ~ok /\ r.ret = "SYS_ERROR" /\ r.out = <<>>
<1>1. CASE t.status.format <= 1 \/ t.want = {}
  BY <1>1 DEF FLRuleQuery, Ends
<1>2. CASE ~(t.status.format <= 1 \/ t.want = {})
  <2>1. PICK u : u = SendInitial(t)
    OBVIOUS
  <2>2. FLRuleQuery(t, ok) = IF ok THEN Asks(u, "INPROGRESS", FLNext(t)) ELSE Ends(u, "SYS_ERROR")
    BY <1>2, <2>1 DEF FLRuleQuery
  <2>3. MoreAsked(t, u) /\ SameChallenge(t, u)
    BY <2>1, InitialSpends, SpendsSpent DEF MoreAsked, SameChallenge
  <2> QED
    BY <1>2, <2>2, <2>3 DEF Asks, Ends
<1> QED
  BY <1>1, <1>2

-----------------------------------------------------------------------------
\* The replies, whole.

ChallengeNoted(t, u, c) ==
         /\ u \in Servers /\ SameRest(t, u) /\ SameFate(t, u) /\ SameTries(t, u) /\ SameHave(t, u) /\ SameHeader(t, u)
         /\ u.status.sentInfo = t.status.sentInfo /\ u.rule = t.rule
         /\ u.status.haveChallenge /\ u.status.challenge = c
LEMMA ChallengeIs ==
  ASSUME NEW t \in Servers, NEW c \in Int, NEW u,
         u = [t EXCEPT !.status.challenge = c, !.status.haveChallenge = TRUE]
  PROVE  ChallengeNoted(t, u, c)
BY DEF ChallengeNoted, Servers, Statuses, SameRest, SameFate, SameTries, SameHave, SameHeader

LEMMA UncountedIs ==
  ASSUME NEW t \in Servers, NEW c \in Int, NEW u,
         u = [ChallengeUncounted(t) EXCEPT !.status.challenge = c, !.status.haveChallenge = TRUE]
  PROVE  Challenged(t, u, c)
<1>1. t.retry1 \in Int /\ t.retries \in Nat
  BY Fields
<1>2. PICK r \in Int : r = t.retry1 + 1
  BY <1>1
<1>3. PICK q \in Nat : q = IF t.retries > 0 THEN t.retries - 1 ELSE 0
  BY <1>1
<1>4. CASE ~t.status.haveChallenge /\ t.retry1 # NRetries
  <2>1. PICK v : v = [t EXCEPT !.retry1 = r, !.retries = q]
    OBVIOUS
  <2>2. ChallengeUncounted(t) = v
    BY <1>2, <1>3, <1>4, <2>1 DEF ChallengeUncounted
  <2>3. /\ v \in Servers /\ SameRest(t, v) /\ SameFate(t, v) /\ v.status = t.status /\ v.elapsed = t.elapsed
        /\ v.retry1 = r /\ v.retries = q /\ v.rule = t.rule
    BY <2>1 DEF Servers, SameRest, SameFate
  <2>4. u = [v EXCEPT !.status.challenge = c, !.status.haveChallenge = TRUE]
    BY <2>2
  <2>5. ChallengeNoted(v, u, c)
    BY <2>3, <2>4, ChallengeIs
  <2> QED
    BY <1>2, <1>3, <1>4, <2>3, <2>5 DEF ChallengeNoted, Challenged, SameRest, SameFate, SameTries, SameHave, SameHeader
<1>5. CASE ~(~t.status.haveChallenge /\ t.retry1 # NRetries)
  <2>1. u = [t EXCEPT !.status.challenge = c, !.status.haveChallenge = TRUE]
    BY <1>5 DEF ChallengeUncounted
  <2>2. ChallengeNoted(t, u, c)
    BY <2>1, ChallengeIs
  <2> QED
    BY <1>5, <2>2 DEF ChallengeNoted, Challenged, SameTries
<1> QED
  BY <1>4, <1>5

TriesAre(t, u, r, ru) ==
  /\ u \in Servers /\ SameRest(t, u) /\ u.open = t.open /\ u.saved = t.saved /\ u.retry1 = r
  /\ u.retries = t.retries /\ u.elapsed = t.elapsed /\ u.status = t.status /\ u.rule = ru
  /\ u.name = t.name /\ u.missing = t.missing
TriesNoted(t, u, ru) == TriesAre(t, u, NRetries, ru)
LEMMA TriesSet ==
  ASSUME NEW t \in Servers, NEW r \in Int, NEW ru \in BOOLEAN, NEW u, u = [t EXCEPT !.retry1 = r, !.rule = ru]
  PROVE  TriesAre(t, u, r, ru)
BY DEF TriesAre, Servers, SameRest
LEMMA TriesRenewed ==
  ASSUME NEW t \in Servers, NEW ru \in BOOLEAN, NEW u, u = [t EXCEPT !.retry1 = NRetries, !.rule = ru]
  PROVE  TriesNoted(t, u, ru)
<1>1. NRetries \in Int
  BY QServerAssumption
<1> QED
  BY <1>1, TriesSet DEF TriesNoted

\* What the end of every reply makes of the fields a reply has changed.
LEMMA ProgressIs ==
  ASSUME NEW t \in Servers, NEW u, NEW ru \in BOOLEAN, ru => ~A2SHasAll(t), A2SHasAll(t) \/ (t.rule => ru),
         TriesNoted(t, u, ru)
  PROVE  Progressed(t, u)
<1>1. A2SHasAll(u) <=> A2SHasAll(t)
  BY DEF A2SHasAll, TriesNoted, TriesAre, SameRest
<1> QED
  BY <1>1 DEF Progressed, TriesNoted, TriesAre

\* What a reply has changed.
DataNoted(t, v) ==
  /\ v \in Servers /\ SameRest(t, v) /\ v.open = t.open /\ v.saved = t.saved /\ SameTries(t, v)
  /\ v.status.sentInfo = t.status.sentInfo
InfoNoted(t, v, format) ==
  /\ DataNoted(t, v) /\ SameChallenge(t, v) /\ v.missing = t.missing
  /\ v.status.format = format /\ v.status.haveInfo /\ v.name = "server"
  /\ v.status.haveRules = t.status.haveRules /\ v.status.havePlayer = t.status.havePlayer
RulesNoted(t, v) ==
  /\ DataNoted(t, v) /\ SameChallenge(t, v) /\ SameHeader(t, v) /\ v.rule = t.rule
  /\ v.status.haveInfo = t.status.haveInfo /\ v.name = t.name /\ (t.missing => v.missing)
  /\ v.status.haveRules /\ v.status.havePlayer = t.status.havePlayer
PlayersNoted(t, v) ==
  /\ DataNoted(t, v) /\ SameHeader(t, v) /\ v.rule = t.rule /\ v.missing = t.missing
  /\ v.status.challenge = t.status.challenge /\ (t.status.haveChallenge => v.status.haveChallenge)
  /\ v.status.haveInfo = t.status.haveInfo /\ v.name = t.name
  /\ v.status.haveRules = t.status.haveRules /\ v.status.havePlayer

\* A2S_INFORESPONSE, FL_INFORESPONSE
LEMMA InfoIs ==
  ASSUME NEW t \in Servers, NEW v, NEW format \in Nat, NEW wide \in BOOLEAN,
         v = [t EXCEPT !.name = "server", !.status.haveInfo = TRUE, !.status.format = format, !.status.wide = wide]
  PROVE  InfoNoted(t, v, format) /\ v.status.wide = wide /\ v.rule = t.rule
BY DEF InfoNoted, DataNoted, Servers, Statuses, SameRest, SameTries, SameChallenge
LEMMA InfoNarrowIs ==
  ASSUME NEW t \in Servers, NEW v, NEW format \in Nat, NEW ru \in BOOLEAN,
         v = [t EXCEPT !.name = "server", !.status.haveInfo = TRUE, !.status.format = format, !.rule = ru]
  PROVE  InfoNoted(t, v, format) /\ v.status.wide = t.status.wide /\ v.rule = ru
BY DEF InfoNoted, DataNoted, Servers, Statuses, SameRest, SameTries, SameChallenge
LEMMA InfoPlainIs ==
  ASSUME NEW t \in Servers, NEW v, NEW format \in Nat,
         v = [t EXCEPT !.name = "server", !.status.haveInfo = TRUE, !.status.format = format]
  PROVE  InfoNoted(t, v, format) /\ v.status.wide = t.status.wide /\ v.rule = t.rule
BY DEF InfoNoted, DataNoted, Servers, Statuses, SameRest, SameTries, SameChallenge

LEMMA RulesAre ==
  ASSUME NEW t \in Servers, NEW v, NEW mi \in BOOLEAN, t.missing => mi,
         v = [t EXCEPT !.status.haveRules = TRUE, !.missing = mi]
  PROVE  RulesNoted(t, v)
<1>1. v.missing = mi
  BY DEF Servers
<1> QED
  BY <1>1 DEF RulesNoted, DataNoted, Servers, Statuses, SameRest, SameTries, SameChallenge, SameHeader
LEMMA RulesOrIs ==
  ASSUME NEW t \in Servers, NEW short \in BOOLEAN
  PROVE  \E mi \in BOOLEAN : /\ t.missing => mi
                              /\ [t EXCEPT !.status.haveRules = TRUE, !.missing = @ \/ short]
                                   = [t EXCEPT !.status.haveRules = TRUE, !.missing = mi]
<1>1. PICK mi \in BOOLEAN : mi = (t.missing \/ short)
  BY Fields
<1>2. [t EXCEPT !.status.haveRules = TRUE, !.missing = @ \/ short]
        = [t EXCEPT !.status.haveRules = TRUE, !.missing = mi]
  BY <1>1
<1>3. t.missing => mi
  BY <1>1
<1> QED
  BY <1>2, <1>3

LEMMA PlayersAre ==
  ASSUME NEW t \in Servers, NEW v,
         v = [t EXCEPT !.status.havePlayer = TRUE, !.status.haveChallenge = TRUE]
  PROVE  PlayersNoted(t, v)
BY DEF PlayersNoted, DataNoted, Servers, Statuses, SameRest, SameTries, SameHeader
LEMMA PlayersOnlyAre ==
  ASSUME NEW t \in Servers, NEW v, v = [t EXCEPT !.status.havePlayer = TRUE]
  PROVE  PlayersNoted(t, v) /\ SameChallenge(t, v)
BY DEF PlayersNoted, DataNoted, Servers, Statuses, SameRest, SameTries, SameHeader, SameChallenge

\* Then the end of the reply.
LEMMA InfoThen ==
  ASSUME NEW t \in Servers, NEW v, NEW u, NEW format, NEW ru, InfoNoted(t, v, format), t.rule => v.rule,
         Progressed(v, u), TriesNoted(v, u, ru)
  PROVE  InfoRead(t, u) /\ u.status.format = format /\ u.status.wide = v.status.wide
BY DEF InfoNoted, DataNoted, InfoRead, Progressed, TriesNoted, TriesAre, SameRest, SameTries, SameChallenge
LEMMA RulesThen ==
  ASSUME NEW t \in Servers, NEW v, NEW u, NEW ru, RulesNoted(t, v), Progressed(v, u), TriesNoted(v, u, ru)
  PROVE  RulesRead(t, u)
BY DEF RulesNoted, DataNoted, RulesRead, Progressed, TriesNoted, TriesAre, SameRest, SameTries, SameChallenge, SameHeader
LEMMA PlayersThen ==
  ASSUME NEW t \in Servers, NEW v, NEW u, NEW ru, PlayersNoted(t, v), Progressed(v, u), TriesNoted(v, u, ru)
  PROVE  PlayersRead(t, u) /\ u.status.haveChallenge = v.status.haveChallenge
BY DEF PlayersNoted, DataNoted, PlayersRead, Progressed, TriesNoted, TriesAre, SameRest, SameTries, SameHeader

-----------------------------------------------------------------------------
\* The invariant of a2s and fls: g is the setup, t the server, n the challenges
\* made up so far, spent the repeated queries and renewed challenges.

Dialogues == {"a2s", "fls"}
Held(g, n, c) == c \in 1 .. n \/ "broken" \in g.server
Vouched(g, t) == t.status.haveChallenge \/ "broken" \in g.server
Details == {"rules", "players"}

RequestFine(g, t, n, r) ==
  /\ r \in Requests /\ r.kind \in {"info", "challenge"} \cup Details
  /\ r.kind = "rules" => Held(g, n, r.challenge)
  /\ r.kind = "players" /\ r.challenge # AnyChallenge => Vouched(g, t)
  /\ t.open /\ t.name = "none" => r.kind = "info"
MessageFine(g, t, m) == m.kind \in Details /\ (m.kind = "players" => Vouched(g, t))
Core(g, t, n) ==
  /\ t \in Servers /\ t.numPlayers = 0 /\ ~t.hasFound /\ t.want = g.want /\ t.status.type = g.type
  /\ t.status.haveChallenge => Held(g, n, t.status.challenge)
  /\ \A k \in DOMAIN t.saved : MessageFine(g, t, t.saved[k].data.message)

HasNone(t) == ~t.status.haveInfo /\ ~t.status.haveRules /\ ~t.status.havePlayer /\ t.saved = <<>>
Unnamed(t) == t.name = "none" => HasNone(t)
Named(t) == t.name # "none" => t.status.haveInfo /\ t.rule /\ ~A2SHasAll(t)
Stage(t) == Unnamed(t) /\ Named(t) /\ (t.name = "none" => t.status.sentInfo /\ t.retry1 < NRetries)
Tries(t, spent) ==
  /\ t.retry1 \in -1 .. NRetries
  /\ NRetries - 1 - t.retry1 <= t.retries /\ t.retries <= spent

\* What a handler or a query function may leave.
Good(g, t, n, spent, r) ==
  /\ r.ret \in Rets /\ Core(g, r.s, n) /\ r.s.open = t.open /\ Tries(r.s, spent)
  /\ r.ret = "INPROGRESS" => Stage(r.s)
  /\ r.ret = "DONE_AUTO" => Named(r.s) \/ (r.s.name # "none" /\ ~r.s.rule)
  /\ \E request : r.out = <<>> \/ (r.out = <<request>> /\ RequestFine(g, r.s, n, request))
  /\ Vouched(g, t) => Vouched(g, r.s)
  /\ r.s.name = "none" => t.name = "none"

\* The queries that went out remain fine.
LEMMA StillFine ==
  ASSUME NEW g, NEW t, NEW u, NEW n, NEW r, RequestFine(g, t, n, r), Vouched(g, t) => Vouched(g, u),
         u.open => t.open, u.open /\ u.name = "none" => t.name = "none"
  PROVE  RequestFine(g, u, n, r)
BY DEF RequestFine

LEMMA FateGood ==
  ASSUME NEW g \in Setups, NEW t, NEW n, NEW spent, NEW r, Good(g, t, n, spent, r), g.type \in Dialogues, t.open
  PROVE  LET u == Fate(r)
         IN  /\ Core(g, u, n) /\ Tries(u, spent) /\ (u.open => Stage(u))
             /\ \E request : r.out = <<>> \/ (r.out = <<request>> /\ RequestFine(g, u, n, request))
             /\ Vouched(g, t) => Vouched(g, u)
             /\ u.open /\ u.name = "none" => t.name = "none"
<1> DEFINE u == Fate(r)
<1>1. Plain(r.s) /\ r.s \in Servers /\ r.ret \in Rets /\ r.s.status.type \in Dialogues
  BY DEF Good, Core, Plain
<1>2. u = r.s \/ Closed(r.s, u)
  BY <1>1, FateIs DEF Rets
<1>3. CASE Closed(r.s, u)
  <2>1. /\ u \in Servers /\ Keeps(r.s, u) /\ ~u.open /\ u.saved = <<>>
    BY <1>1, <1>3, ClosedSays
  <2>2. u.numPlayers = 0 /\ ~u.hasFound
    BY <1>1, <1>3 DEF Closed, Plain, Servers
  <2> HIDE DEF u
  <2>3. Core(g, u, n)
    BY <2>1, <2>2 DEF Good, Core, Keeps
  <2>4. Tries(u, spent)
    BY <2>1 DEF Good, Tries, Keeps
  <2>5. Vouched(g, r.s) => Vouched(g, u)
    BY <2>1 DEF Vouched, Keeps
  <2>6. \A request : RequestFine(g, r.s, n, request) => RequestFine(g, u, n, request)
    BY <2>1, <2>5 DEF RequestFine
  <2>7. Vouched(g, t) => Vouched(g, u)
    BY <2>5 DEF Good
  <2>8. \E request : r.out = <<>> \/ (r.out = <<request>> /\ RequestFine(g, u, n, request))
    BY <2>6 DEF Good
  <2> QED
    BY <2>1, <2>3, <2>4, <2>7, <2>8 DEF u
<1>4. CASE ~Closed(r.s, u)
  <2>1. u = r.s
    BY <1>2, <1>4
  <2>2. r.ret = "INPROGRESS" \/ (r.ret = "DONE_AUTO" /\ r.s.name # "none" /\ r.s.rule)
    BY <1>1, <1>4, FateIs DEF Rets, Dialogues
  <2>3. Stage(r.s)
    <3>1. CASE r.ret = "INPROGRESS"
      BY <3>1 DEF Good
    <3>2. CASE r.ret = "DONE_AUTO" /\ r.s.name # "none" /\ r.s.rule
      BY <3>2 DEF Good, Stage, Unnamed
    <3> QED
      BY <2>2, <3>1, <3>2
  <2> HIDE DEF u
  <2>4. Core(g, u, n) /\ Tries(u, spent) /\ (u.name = "none" => t.name = "none")
    BY <2>1 DEF Good
  <2>5. \E request : r.out = <<>> \/ (r.out = <<request>> /\ RequestFine(g, u, n, request))
    BY <2>1 DEF Good
  <2>6. Vouched(g, t) => Vouched(g, u)
    BY <2>1 DEF Good
  <2> QED
    BY <2>1, <2>3, <2>4, <2>5, <2>6 DEF u
<1> QED
  BY <1>3, <1>4

-----------------------------------------------------------------------------
\* Counting.

LEMMA SpentTries ==
  ASSUME NEW t \in Servers, NEW u \in Servers, Spent(t, u), NEW spent \in Nat, Tries(t, spent), t.retry1 >= 0
  PROVE  Tries(u, IF t.retry1 = NRetries THEN spent ELSE spent + 1)
<1>1. t.retry1 \in Int /\ t.retries \in Nat /\ u.retry1 \in Int /\ u.retries \in Nat /\ NRetries \in Nat
  BY Fields, QServerAssumption
<1> QED
  BY <1>1 DEF Spent, Tries

LEMMA ChallengedTries ==
  ASSUME NEW t \in Servers, NEW u \in Servers, NEW c, Challenged(t, u, c), NEW spent \in Nat, Tries(t, spent)
  PROVE  /\ Tries(u, spent)
         /\ ~t.status.haveChallenge /\ u.retry1 # NRetries => u.retries + 1 <= spent
<1>1. t.retry1 \in Int /\ t.retries \in Nat /\ u.retry1 \in Int /\ u.retries \in Nat /\ NRetries \in Nat
  BY Fields, QServerAssumption
<1> QED
  BY <1>1 DEF Challenged, Tries

LEMMA ChallengedSpentTries ==
  ASSUME NEW t \in Servers, NEW v \in Servers, NEW u \in Servers, NEW c, Challenged(t, v, c), Spent(v, u),
         NEW spent \in Nat, Tries(t, spent), v.retry1 >= 0
  PROVE  Tries(u, IF t.status.haveChallenge THEN spent + 1 ELSE spent)
<1>1. /\ Tries(v, spent)
      /\ ~t.status.haveChallenge /\ v.retry1 # NRetries => v.retries + 1 <= spent
  BY ChallengedTries
<1>2. v.retry1 \in Int /\ v.retries \in Nat /\ u.retry1 \in Int /\ u.retries \in Nat /\ NRetries \in Nat
  BY Fields, QServerAssumption
<1> QED
  BY <1>1, <1>2 DEF Spent, Tries

LEMMA ProgressedTries ==
  ASSUME NEW t \in Servers, NEW u \in Servers, Progressed(t, u), NEW spent \in Nat, Tries(t, spent)
  PROVE  Tries(u, spent)
<1>1. t.retry1 \in Int /\ t.retries \in Nat /\ u.retry1 \in Int /\ u.retries \in Nat /\ NRetries \in Nat
  BY Fields, QServerAssumption
<1> QED
  BY <1>1 DEF Progressed, Tries

LEMMA MoreTries ==
  ASSUME NEW t, NEW spent \in Nat, Tries(t, spent), t \in Servers
  PROVE  Tries(t, spent + 1)
BY Fields DEF Tries

-----------------------------------------------------------------------------
\* The query functions.

StatusQueryOf(t, ok) == IF t.status.type = "a2s" THEN A2SStatusQuery(t, ok) ELSE FLStatusQuery(t, ok)
Repeats(t) == IF t.retry1 = NRetries THEN 0 ELSE 1

LEMMA SameCore ==
  ASSUME NEW g, NEW t \in Servers, NEW u \in Servers, NEW n, Core(g, t, n), SameRest(t, u), u.saved = t.saved,
         u.status.haveChallenge = t.status.haveChallenge,
         t.status.haveChallenge => u.status.challenge = t.status.challenge
  PROVE  Core(g, u, n) /\ (Vouched(g, t) <=> Vouched(g, u))
<1>1. Vouched(g, t) <=> Vouched(g, u)
  BY DEF Vouched
<1> QED
  BY <1>1 DEF Core, SameRest, MessageFine

Kinds == {"info", "challenge", "rules", "players", "status", "all"}
LEMMA RequestIs ==
  ASSUME NEW kind \in Kinds, NEW c \in Int
  PROVE  LET r == Request(kind, c) IN r \in Requests /\ r.kind = kind /\ r.challenge = c
<1>1. PICK none \in SUBSET {"rules", "players"} : none = {}
  OBVIOUS
<1>2. Request(kind, c) = [kind |-> kind, challenge |-> c, details |-> none]
  BY <1>1 DEF Request
<1> QED
  BY <1>2 DEF Requests, Kinds

LEMMA InfoFine ==
  ASSUME NEW g, NEW t, NEW n, NEW c \in Int
  PROVE  RequestFine(g, t, n, Request("info", c)) /\ RequestFine(g, t, n, Info)
<1>1. Request("info", c) \in Requests /\ Info \in Requests /\ Request("info", c).kind = "info" /\ Info.kind = "info"
  BY RequestIs DEF Kinds, Info, NoChallenge
<1> QED
  BY <1>1 DEF RequestFine

LEMMA InfoAskedGood ==
  ASSUME NEW g, NEW t \in Servers, NEW u, NEW n, NEW spent \in Nat, Core(g, t, n), Tries(t, spent), t.retry1 >= 0,
         t.name = "none", HasNone(t), InfoAsked(t, u)
  PROVE  /\ Core(g, u, n) /\ (Vouched(g, t) <=> Vouched(g, u)) /\ u.open = t.open /\ u.name = t.name
         /\ Tries(u, spent + Repeats(t)) /\ Stage(u)
<1>1. u \in Servers /\ SameRest(t, u) /\ SameFate(t, u) /\ SameHave(t, u) /\ SameChallenge(t, u) /\ Spent(t, u)
      /\ u.status.sentInfo
  BY DEF InfoAsked
<1>2. Core(g, u, n) /\ (Vouched(g, t) <=> Vouched(g, u)) /\ u.open = t.open /\ u.name = t.name
  BY <1>1, SameCore DEF SameFate, SameChallenge
<1>3. Tries(u, spent + Repeats(t))
  BY <1>1, SpentTries DEF Repeats
<1>4. u.retry1 < NRetries
  BY <1>1, Fields, QServerAssumption DEF Spent, Tries
<1>5. Stage(u)
  BY <1>1, <1>2, <1>4 DEF Stage, Unnamed, Named, HasNone, SameHave, SameFate
<1> QED
  BY <1>2, <1>3, <1>5

LEMMA StatusGood ==
  ASSUME NEW g, NEW t \in Servers, NEW n, NEW spent \in Nat, NEW ok \in BOOLEAN, Core(g, t, n), Tries(t, spent),
         t.retry1 >= 0, t.name = "none", HasNone(t)
  PROVE  Good(g, t, n, spent + Repeats(t), StatusQueryOf(t, ok))
<1>1. CASE ok
  <2>1. LET r == StatusQueryOf(t, ok) IN r.ret = "INPROGRESS" /\ r.out = <<Info>> /\ InfoAsked(t, r.s)
    BY <1>1, StatusQueryEffect DEF StatusQueryOf
  <2>2. LET u == StatusQueryOf(t, ok).s
        IN  /\ Core(g, u, n) /\ (Vouched(g, t) <=> Vouched(g, u)) /\ u.open = t.open /\ u.name = t.name
            /\ Tries(u, spent + Repeats(t)) /\ Stage(u)
    BY <2>1, InfoAskedGood
  <2>3. RequestFine(g, StatusQueryOf(t, ok).s, n, Info)
    BY InfoFine
  <2> QED
    BY <2>1, <2>2, <2>3 DEF Good, Rets
<1>2. CASE ~ok
  <2>1. LET r == StatusQueryOf(t, ok)
        IN r.ret \in {"DONE_FORCE", "SYS_ERROR"} /\ r.out = <<>> /\ Spends(t, r.s) /\ r.s \in Servers
    BY <1>2, StatusQueryEffect DEF StatusQueryOf, Spends
  <2>2. PICK u \in Servers : u = StatusQueryOf(t, ok).s /\ Spends(t, u)
    BY <2>1
  <2>3. SameRest(t, u) /\ SameFate(t, u) /\ SameChallenge(t, u) /\ Spent(t, u)
    BY <2>2, SpendsSpent
  <2>4. Core(g, u, n) /\ (Vouched(g, t) <=> Vouched(g, u)) /\ u.open = t.open /\ u.name = t.name
    BY <2>3, SameCore DEF SameFate, SameChallenge
  <2>5. Tries(u, spent + Repeats(t))
    BY <2>3, SpentTries DEF Repeats
  <2> QED
    BY <2>1, <2>2, <2>4, <2>5 DEF Good, Rets
<1> QED
  BY <1>1, <1>2

RuleQueryOf(t, ok) == IF t.status.type = "a2s" THEN A2SRuleQuery(t, ok) ELSE FLRuleQuery(t, ok)

\* What is asked for next is fine.
LEMMA NextFine ==
  ASSUME NEW g, NEW t \in Servers, NEW u, NEW n, Core(g, t, n), Unnamed(t),
         u.name = t.name, Vouched(g, t) => Vouched(g, u)
  PROVE  /\ (t.name = "none" => t.status.sentInfo /\ t.status.haveChallenge)
              => RequestFine(g, u, n, A2SNext(t))
         /\ t.name # "none" => RequestFine(g, u, n, FLNext(t))
<1>1. \A kind \in {"info", "challenge"} \cup Details, c \in Int :
        LET r == Request(kind, c) IN r \in Requests /\ r.kind = kind /\ r.challenge = c
  BY RequestIs DEF Details, Kinds
<1>2. t.status.challenge \in Int /\ AnyChallenge \in Int /\ NoChallenge \in Int
  BY Fields DEF Statuses, AnyChallenge, NoChallenge
<1>3. t.status.haveChallenge => Held(g, n, t.status.challenge) /\ Vouched(g, u)
  BY DEF Core, Vouched
<1>4. ASSUME t.name = "none" => t.status.sentInfo /\ t.status.haveChallenge
      PROVE  RequestFine(g, u, n, A2SNext(t))
  <2>1. CASE ~t.status.haveChallenge
    BY <1>1, <1>2, <1>4, <2>1 DEF A2SNext, RequestFine, Details
  <2>2. CASE t.status.haveChallenge /\ t.status.sentInfo /\ ~t.status.haveInfo
    BY <1>1, <1>2, <2>2 DEF A2SNext, RequestFine, Details
  <2>3. CASE t.status.haveChallenge /\ ~(t.status.sentInfo /\ ~t.status.haveInfo)
    <3>1. t.name # "none"
      BY <1>4, <2>3 DEF Unnamed, HasNone
    <3> QED
      BY <1>1, <1>2, <1>3, <2>3, <3>1 DEF A2SNext, RequestFine, Details
  <2> QED
    BY <2>1, <2>2, <2>3
<1>5. ASSUME t.name # "none"
      PROVE  RequestFine(g, u, n, FLNext(t))
  BY <1>1, <1>2, <1>3, <1>5 DEF FLNext, RequestFine, Details
<1> QED
  BY <1>4, <1>5

LEMMA MoreAskedGood ==
  ASSUME NEW g, NEW t \in Servers, NEW u, NEW n, Core(g, t, n), Unnamed(t), Named(t),
         t.name = "none" => t.status.sentInfo /\ t.retry1 <= NRetries, MoreAsked(t, u)
  PROVE  /\ Core(g, u, n) /\ (Vouched(g, t) <=> Vouched(g, u)) /\ u.open = t.open /\ u.name = t.name
         /\ Stage(u) /\ Spent(t, u) /\ u \in Servers
<1>1. /\ u \in Servers /\ SameRest(t, u) /\ SameFate(t, u) /\ SameHave(t, u) /\ Spent(t, u)
      /\ u.status.sentInfo = t.status.sentInfo /\ u.rule = t.rule
      /\ u.status.haveChallenge = t.status.haveChallenge
      /\ t.status.haveChallenge => u.status.challenge = t.status.challenge
  BY DEF MoreAsked
<1>2. Core(g, u, n) /\ (Vouched(g, t) <=> Vouched(g, u)) /\ u.open = t.open /\ u.name = t.name
  BY <1>1, SameCore DEF SameFate
<1>3. t.name = "none" => u.retry1 < NRetries
  BY <1>1, Fields, QServerAssumption DEF Spent
<1>4. A2SHasAll(u) <=> A2SHasAll(t)
  BY <1>1 DEF SameRest, SameHave, A2SHasAll
<1>5. Stage(u)
  BY <1>1, <1>2, <1>3, <1>4 DEF Stage, Unnamed, Named, HasNone, SameHave, SameFate
<1> QED
  BY <1>1, <1>2, <1>5

LEMMA NoRestart ==
  ASSUME NEW t, Unnamed(t), Named(t), t.name = "none" => t.status.sentInfo
  PROVE  ~A2SRestarts(t) /\ (t.name # "none" => ~FLRestarts(t))
BY DEF A2SRestarts, FLRestarts, Unnamed, Named, HasNone, A2SHasAll

\* A2S: after a challenge, or from send_packets.
LEMMA A2SRuleGood ==
  ASSUME NEW g, NEW t \in Servers, NEW n, NEW ok \in BOOLEAN, Core(g, t, n), Unnamed(t), Named(t),
         t.name = "none" => t.status.sentInfo /\ t.status.haveChallenge /\ t.retry1 <= NRetries
  PROVE  LET r == A2SRuleQuery(t, ok)
         IN  /\ r.ret \in {"INPROGRESS", "DONE_FORCE", "SYS_ERROR"} /\ Core(g, r.s, n) /\ r.s \in Servers
             /\ r.s.open = t.open /\ r.s.name = t.name
             /\ r.s = t \/ (t.retry1 >= 0 /\ Spent(t, r.s))
             /\ r.ret = "INPROGRESS" \/ t.name # "none" => Stage(r.s)
             /\ Vouched(g, t) => Vouched(g, r.s)
             /\ \E request : r.out = <<>> \/ (r.out = <<request>> /\ RequestFine(g, r.s, n, request))
<1> DEFINE r == A2SRuleQuery(t, ok)
<1>1. ~A2SRestarts(t)
  BY NoRestart
<1>2. \/ r.ret = "DONE_FORCE" /\ r.out = <<>> /\ r.s = t
      \/ /\ t.retry1 >= 0 /\ MoreAsked(t, r.s)
         /\ \/ ok /\ r.ret = "INPROGRESS" /\ r.out = <<A2SNext(t)>>
            \/ ~ok /\ r.ret = "SYS_ERROR" /\ r.out = <<>>
  BY <1>1, A2SRuleQueryEffect
<1> HIDE DEF r
<1>3. CASE r.ret = "DONE_FORCE" /\ r.out = <<>> /\ r.s = t
  BY <1>3 DEF r, Stage
<1>4. CASE /\ t.retry1 >= 0 /\ MoreAsked(t, r.s)
           /\ \/ ok /\ r.ret = "INPROGRESS" /\ r.out = <<A2SNext(t)>>
              \/ ~ok /\ r.ret = "SYS_ERROR" /\ r.out = <<>>
  <2>1. PICK u : u = r.s
    OBVIOUS
  <2>2. /\ Core(g, u, n) /\ (Vouched(g, t) <=> Vouched(g, u)) /\ u.open = t.open /\ u.name = t.name
        /\ Stage(u) /\ Spent(t, u) /\ u \in Servers
    <3>1. MoreAsked(t, u)
      BY <1>4, <2>1
    <3> QED
      BY <3>1, MoreAskedGood
  <2>3. RequestFine(g, u, n, A2SNext(t))
    BY <2>2, NextFine
  <2>4. \E request : r.out = <<>> \/ (r.out = <<request>> /\ RequestFine(g, u, n, request))
    BY <1>4, <2>3
  <2> QED
    BY <1>4, <2>1, <2>2, <2>4 DEF r
<1> QED
  BY <1>2, <1>3, <1>4

LEMMA FLRuleGood ==
  ASSUME NEW g, NEW t \in Servers, NEW n, NEW ok \in BOOLEAN, Core(g, t, n), Named(t), t.name # "none"
  PROVE  LET r == FLRuleQuery(t, ok)
         IN  /\ Core(g, r.s, n) /\ r.s \in Servers /\ r.s.open = t.open /\ r.s.name = t.name
             /\ r.s = t \/ Spent(t, r.s)
             /\ Stage(r.s)
             /\ Vouched(g, t) => Vouched(g, r.s)
             /\ \E request : r.out = <<>> \/ (r.out = <<request>> /\ RequestFine(g, r.s, n, request))
<1> DEFINE r == FLRuleQuery(t, ok)
<1>1. Unnamed(t)
  BY DEF Unnamed
<1>2. ~FLRestarts(t)
  BY <1>1, NoRestart
<1>3. \/ r.out = <<>> /\ r.s = t
      \/ MoreAsked(t, r.s) /\ r.out \in {<<FLNext(t)>>, <<>>}
  BY <1>2, FLRuleQueryEffect
<1> HIDE DEF r
<1>4. CASE r.out = <<>> /\ r.s = t
  BY <1>4 DEF r, Stage, Unnamed
<1>5. CASE MoreAsked(t, r.s) /\ r.out \in {<<FLNext(t)>>, <<>>}
  <2>1. PICK u : u = r.s
    OBVIOUS
  <2>2. /\ Core(g, u, n) /\ (Vouched(g, t) <=> Vouched(g, u)) /\ u.open = t.open /\ u.name = t.name
        /\ Stage(u) /\ Spent(t, u) /\ u \in Servers
    <3>1. MoreAsked(t, u)
      BY <1>5, <2>1
    <3> QED
      BY <1>1, <3>1, MoreAskedGood
  <2>3. RequestFine(g, u, n, FLNext(t))
    BY <1>1, <2>2, NextFine
  <2>4. \E request : r.out = <<>> \/ (r.out = <<request>> /\ RequestFine(g, u, n, request))
    BY <1>5, <2>3
  <2> QED
    BY <2>1, <2>2, <2>4 DEF r
<1> QED
  BY <1>3, <1>4, <1>5

-----------------------------------------------------------------------------
\* Whole replies.

LEMMA A2SProgressIs ==
  ASSUME NEW v \in Servers
  PROVE  LET r == A2SProgress(v)
         IN  r.ret = "DONE_AUTO" /\ r.out = <<>> /\ Progressed(v, r.s) /\ \E ru : TriesNoted(v, r.s, ru)
<1>1. PICK ru \in BOOLEAN : ru = (v.rule /\ ~A2SHasAll(v))
  OBVIOUS
<1>2. PICK u : u = [v EXCEPT !.retry1 = NRetries, !.rule = ru]
  OBVIOUS
<1>3. A2SProgress(v) = Ends(u, "DONE_AUTO")
  BY <1>1, <1>2 DEF A2SProgress
<1>4. TriesNoted(v, u, ru)
  BY <1>2, TriesRenewed
<1>5. Progressed(v, u)
  BY <1>1, <1>4, ProgressIs
<1>6. A2SProgress(v).s = u /\ A2SProgress(v).ret = "DONE_AUTO" /\ A2SProgress(v).out = <<>>
  BY <1>3 DEF Ends
<1> QED
  BY <1>4, <1>5, <1>6

LEMMA FLProgressIs ==
  ASSUME NEW v \in Servers
  PROVE  LET r == FLProgress(v)
         IN  r.ret = "DONE_AUTO" /\ r.out = <<>> /\ Progressed(v, r.s) /\ \E ru : TriesNoted(v, r.s, ru)
<1>1. PICK ru \in BOOLEAN : ru = (v.rule /\ ~A2SHasAll(v))
  OBVIOUS
<1>2. PICK u : u = [v EXCEPT !.retry1 = NRetries, !.rule = ru]
  OBVIOUS
<1>3. PICK w : w = [v EXCEPT !.retry1 = NRetries]
  OBVIOUS
<1>4. w.rule = v.rule /\ w.want = v.want /\ w.status = v.status
  BY <1>3 DEF Servers
<1>5. ru = (w.rule /\ ~A2SHasAll(w))
  BY <1>1, <1>4 DEF A2SHasAll
<1>6. FLProgress(v) = Ends([w EXCEPT !.rule = ru], "DONE_AUTO")
  BY <1>3, <1>5 DEF FLProgress, FLEnds
<1>7. u = [w EXCEPT !.rule = ru]
  BY <1>2, <1>3
<1>8. TriesNoted(v, u, ru)
  BY <1>2, TriesRenewed
<1>9. Progressed(v, u)
  BY <1>1, <1>8, ProgressIs
<1>10. FLProgress(v).s = u /\ FLProgress(v).ret = "DONE_AUTO" /\ FLProgress(v).out = <<>>
  BY <1>6, <1>7 DEF Ends
<1> QED
  BY <1>8, <1>9, <1>10

\* What a whole reply leaves, given what it has changed.
LEMMA ReadGood ==
  ASSUME NEW g, NEW t \in Servers, NEW u, NEW n, NEW spent \in Nat, NEW r, Core(g, t, n), Stage(t), Tries(t, spent),
         r.ret = "DONE_AUTO", r.out = <<>>, r.s = u, Progressed(t, u), Core(g, u, n),
         u.name # "none", u.status.haveInfo
  PROVE  Good(g, t, n, spent, r)
<1>1. u \in Servers /\ Tries(u, spent)
  BY ProgressedTries DEF Progressed
<1>2. Named(u) \/ ~u.rule
  BY DEF Progressed, Named
<1>3. Vouched(g, t) => Vouched(g, u)
  BY DEF Vouched, Progressed
<1> QED
  BY <1>1, <1>2, <1>3 DEF Good, Rets, Progressed

LEMMA InfoReadGood ==
  ASSUME NEW g, NEW t \in Servers, NEW u, NEW n, NEW spent \in Nat, NEW r, Core(g, t, n), Stage(t), Tries(t, spent),
         r.ret = "DONE_AUTO", r.out = <<>>, r.s = u, InfoRead(t, u)
  PROVE  Good(g, t, n, spent, r)
<1>1. Progressed(t, u) /\ u \in Servers
  BY DEF InfoRead, Progressed
<1>2. Core(g, u, n)
  BY <1>1, SameCore DEF InfoRead, Progressed
<1> QED
  BY <1>1, <1>2, ReadGood DEF InfoRead

LEMMA RulesReadGood ==
  ASSUME NEW g, NEW t \in Servers, NEW u, NEW n, NEW spent \in Nat, NEW r, Core(g, t, n), Stage(t), Tries(t, spent),
         r.ret = "DONE_AUTO", r.out = <<>>, r.s = u, RulesRead(t, u), t.name # "none"
  PROVE  Good(g, t, n, spent, r)
<1>1. Progressed(t, u) /\ u \in Servers /\ u.name # "none" /\ u.status.haveInfo
  BY DEF RulesRead, Progressed, Stage, Named
<1>2. Core(g, u, n)
  BY <1>1, SameCore DEF RulesRead, Progressed
<1> QED
  BY <1>1, <1>2, ReadGood

LEMMA PlayersReadGood ==
  ASSUME NEW g, NEW t \in Servers, NEW u, NEW n, NEW spent \in Nat, NEW r, Core(g, t, n), Stage(t), Tries(t, spent),
         r.ret = "DONE_AUTO", r.out = <<>>, r.s = u, PlayersRead(t, u), t.name # "none",
         Vouched(g, t)
  PROVE  Good(g, t, n, spent, r)
<1>1. Progressed(t, u) /\ u \in Servers /\ u.name # "none" /\ u.status.haveInfo
  BY DEF PlayersRead, Progressed, Stage, Named
<1>2. SameRest(t, u) /\ u.saved = t.saved /\ u.status.challenge = t.status.challenge
  BY <1>1 DEF Progressed
<1>3. u.status.haveChallenge => Held(g, n, u.status.challenge)
  BY <1>2 DEF Core, Vouched, Held
<1>4. Vouched(g, u)
  BY <1>1 DEF Vouched, Progressed
<1>5. Core(g, u, n)
  BY <1>1, <1>2, <1>3, <1>4 DEF Core, SameRest, MessageFine
<1> QED
  BY <1>1, <1>5, ReadGood

\* The same under another name.
LEMMA GoodAs ==
  ASSUME NEW g, NEW t, NEW n, NEW a, NEW b, NEW r, a = b, Good(g, t, n, a, r)
  PROVE  Good(g, t, n, b, r)
OBVIOUS

Readable(g, t, m) ==
  /\ m \in Message4 /\ m.kind \in {"info"} \cup Details
  /\ t.name = "none" => m.kind = "info"
  /\ m.kind = "players" => Vouched(g, t)
  /\ m.kind = "info" => m.format = g.format /\ m.app = g.app
Challenge(n, m) == m.kind = "challenge" /\ m.challenge \in 1 .. n
Renews(t, m) == IF m.kind = "challenge" /\ t.status.haveChallenge THEN 1 ELSE 0
WholeHandler(t, m, ok) == IF t.status.type = "a2s" THEN A2SWhole(t, m, ok) ELSE FLWhole(t, m)

\* What info, rules and players leave.
Expects(t, format) == t.rule \/ (t.status.type # "a2s" /\ format > 1 /\ t.want # {})
InfoLeft(t, m, r) ==
  /\ r.ret = "DONE_AUTO" /\ r.out = <<>> /\ InfoRead(t, r.s)
  /\ r.s.status.format = IF t.status.type = "a2s" /\ m.format # 1 THEN 2 ELSE m.format
  /\ t.status.type = "a2s" /\ m.format # 1 /\ m.app >= 128 => r.s.status.wide
  /\ r.s.rule \/ A2SHasAll(r.s) \/ ~Expects(t, m.format)
RulesLeft(t, r) == r.ret = "DONE_AUTO" /\ r.out = <<>> /\ RulesRead(t, r.s)
PlayersLeft(t, r) == r.ret = "DONE_AUTO" /\ r.out = <<>> /\ PlayersRead(t, r.s)

LEMMA InfoEffect ==
  ASSUME NEW t \in Servers, NEW ok \in BOOLEAN, NEW m \in Message4, m.kind = "info"
  PROVE  InfoLeft(t, m, WholeHandler(t, m, ok))
<1>1. m.format \in Nat /\ m.app \in Nat
  BY DEF Message4
<1>2. CASE t.status.type = "a2s" /\ m.format = 1
  <2>1. PICK format \in Nat : format = 1
    OBVIOUS
  <2>2. PICK v : v = [t EXCEPT !.name = "server", !.status.haveInfo = TRUE, !.status.format = format]
    OBVIOUS
  <2>3. InfoNoted(t, v, format) /\ v.rule = t.rule
    BY <2>2, InfoPlainIs
  <2>4. WholeHandler(t, m, ok) = A2SProgress(v)
    BY <1>2, <2>1, <2>2 DEF WholeHandler, A2SWhole, A2SInfoHL1
  <2>5. PICK u : u = A2SProgress(v).s
    OBVIOUS
  <2>6. v \in Servers
    BY <2>3 DEF InfoNoted, DataNoted
  <2>7. InfoRead(t, u) /\ u.status.format = format
    BY <2>3, <2>5, <2>6, A2SProgressIs, InfoThen
  <2>8. u.rule \/ A2SHasAll(u) \/ ~t.rule
    BY <2>3, <2>5, <2>6, A2SProgressIs DEF Progressed
  <2> QED
    BY <1>2, <2>1, <2>4, <2>5, <2>6, <2>7, <2>8, A2SProgressIs DEF InfoLeft, Expects
<1>3. CASE t.status.type = "a2s" /\ m.format # 1
  <2>1. PICK format \in Nat : format = 2
    OBVIOUS
  <2>2. PICK wide \in BOOLEAN : wide = (m.app >= 128)
    <3>1. (m.app >= 128) \in BOOLEAN
      OBVIOUS
    <3> QED
      BY <3>1, Zenon
  <2>3. PICK v : v = [t EXCEPT !.name = "server", !.status.haveInfo = TRUE, !.status.format = format, !.status.wide = wide]
    OBVIOUS
  <2>4. InfoNoted(t, v, format) /\ v.rule = t.rule
    BY <2>3, InfoIs
  <2>5. A2SWhole(t, m, ok) = A2SInfoHL2(t, m)
    BY <1>3 DEF A2SWhole
  <2>6. A2SInfoHL2(t, m) = A2SProgress(v)
    BY <2>1, <2>2, <2>3 DEF A2SInfoHL2
  <2>7. WholeHandler(t, m, ok) = A2SProgress(v)
    BY <1>3, <2>5, <2>6 DEF WholeHandler
  <2>8. PICK u : u = A2SProgress(v).s
    OBVIOUS
  <2>9. v \in Servers
    BY <2>4 DEF InfoNoted, DataNoted
  <2>10. InfoRead(t, u) /\ u.status.format = format /\ u.status.wide = v.status.wide
    BY <2>4, <2>8, <2>9, A2SProgressIs, InfoThen
  <2>11. u.rule \/ A2SHasAll(u) \/ ~t.rule
    BY <2>4, <2>8, <2>9, A2SProgressIs DEF Progressed
  <2>12. v.status.wide = wide
    BY <2>3, InfoIs
  <2>13. m.app >= 128 => u.status.wide
    BY <2>2, <2>10, <2>12
  <2> QED
    BY <1>3, <2>1, <2>7, <2>8, <2>9, <2>10, <2>11, <2>13, A2SProgressIs DEF InfoLeft, Expects
<1>4. CASE t.status.type # "a2s"
  <2>1. PICK format \in Nat : format = m.format
    BY <1>1
  <2>2. PICK ru \in BOOLEAN : ru = (t.rule \/ (m.format > 1 /\ t.want # {}))
    BY Fields
  <2>3. PICK v : v = [t EXCEPT !.name = "server", !.status.haveInfo = TRUE, !.status.format = format, !.rule = ru]
    OBVIOUS
  <2>4. InfoNoted(t, v, format) /\ v.rule = ru
    BY <2>3, InfoNarrowIs
  <2>5. FLWhole(t, m) = FLInfo(t, m)
    BY DEF FLWhole
  <2>6. FLInfo(t, m) = FLProgress(v)
    BY <2>1, <2>2, <2>3 DEF FLInfo
  <2>7. WholeHandler(t, m, ok) = FLProgress(v)
    BY <1>4, <2>5, <2>6 DEF WholeHandler
  <2>8. PICK u : u = FLProgress(v).s
    OBVIOUS
  <2>9. v \in Servers
    BY <2>4 DEF InfoNoted, DataNoted
  <2>10. t.rule => v.rule
    BY <2>2, <2>4
  <2>11. InfoRead(t, u) /\ u.status.format = format
    BY <2>4, <2>8, <2>9, <2>10, FLProgressIs, InfoThen
  <2>12. u.rule \/ A2SHasAll(u) \/ ~ru
    BY <2>4, <2>8, <2>9, FLProgressIs DEF Progressed
  <2> QED
    BY <1>4, <2>1, <2>2, <2>7, <2>8, <2>9, <2>11, <2>12, FLProgressIs DEF InfoLeft, Expects
<1> QED
  BY <1>2, <1>3, <1>4

LEMMA RulesEffect ==
  ASSUME NEW t \in Servers, NEW ok \in BOOLEAN, NEW m \in Message4, m.kind = "rules"
  PROVE  RulesLeft(t, WholeHandler(t, m, ok))
<1>1. m.short \in BOOLEAN
  BY DEF Message4
<1>2. PICK mi \in BOOLEAN : /\ t.missing => mi
                            /\ [t EXCEPT !.status.haveRules = TRUE, !.missing = @ \/ m.short]
                                 = [t EXCEPT !.status.haveRules = TRUE, !.missing = mi]
  BY <1>1, RulesOrIs
<1>3. PICK v : v = [t EXCEPT !.status.haveRules = TRUE, !.missing = mi]
  OBVIOUS
<1>4. v = [t EXCEPT !.status.haveRules = TRUE, !.missing = @ \/ m.short]
  BY <1>2, <1>3, Zenon
<1>5. RulesNoted(t, v)
  BY <1>2, <1>3, RulesAre
<1>6. v \in Servers
  BY <1>5 DEF RulesNoted, DataNoted
<1>7. A2SRules(t, m) = A2SProgress(v)
  BY <1>4, Zenon DEF A2SRules
<1>8. FLWhole(t, m) = FLProgress([t EXCEPT !.status.haveRules = TRUE, !.missing = @ \/ m.short])
  BY DEF FLWhole
<1>9. FLWhole(t, m) = FLProgress(v)
  BY <1>4, <1>8, Zenon
<1>10. A2SWhole(t, m, ok) = A2SProgress(v)
  BY <1>7 DEF A2SWhole
<1>11. CASE t.status.type = "a2s"
  <2>1. PICK u : u = A2SProgress(v).s
    OBVIOUS
  <2>2. RulesRead(t, u)
    BY <1>5, <1>6, <2>1, A2SProgressIs, RulesThen
  <2>3. WholeHandler(t, m, ok) = A2SProgress(v)
    BY <1>10, <1>11 DEF WholeHandler
  <2> QED
    BY <1>6, <2>1, <2>2, <2>3, A2SProgressIs DEF RulesLeft
<1>12. CASE t.status.type # "a2s"
  <2>1. PICK u : u = FLProgress(v).s
    OBVIOUS
  <2>2. RulesRead(t, u)
    BY <1>5, <1>6, <2>1, FLProgressIs, RulesThen
  <2>3. WholeHandler(t, m, ok) = FLProgress(v)
    BY <1>9, <1>12 DEF WholeHandler
  <2> QED
    BY <1>6, <2>1, <2>2, <2>3, FLProgressIs DEF RulesLeft
<1> QED
  BY <1>11, <1>12

LEMMA PlayersEffect ==
  ASSUME NEW t \in Servers, NEW ok \in BOOLEAN, NEW m \in Message4, m.kind = "players"
  PROVE  PlayersLeft(t, WholeHandler(t, m, ok))
<1>1. CASE t.status.type = "a2s"
  <2>1. PICK v : v = [t EXCEPT !.status.havePlayer = TRUE, !.status.haveChallenge = TRUE]
    OBVIOUS
  <2>2. PlayersNoted(t, v)
    BY <2>1, PlayersAre
  <2>3. v \in Servers
    BY <2>2 DEF PlayersNoted, DataNoted
  <2>4. A2SWhole(t, m, ok) = A2SProgress(v)
    BY <2>1 DEF A2SWhole, A2SPlayers
  <2>5. PICK u : u = A2SProgress(v).s
    OBVIOUS
  <2>6. PlayersRead(t, u)
    BY <2>2, <2>3, <2>5, A2SProgressIs, PlayersThen
  <2>7. WholeHandler(t, m, ok) = A2SProgress(v)
    BY <1>1, <2>4 DEF WholeHandler
  <2> QED
    BY <2>3, <2>5, <2>6, <2>7, A2SProgressIs DEF PlayersLeft
<1>2. CASE t.status.type # "a2s"
  <2>1. PICK v : v = [t EXCEPT !.status.havePlayer = TRUE]
    OBVIOUS
  <2>2. PlayersNoted(t, v)
    BY <2>1, PlayersOnlyAre
  <2>3. v \in Servers
    BY <2>2 DEF PlayersNoted, DataNoted
  <2>4. FLWhole(t, m) = FLProgress(v)
    BY <2>1 DEF FLWhole
  <2>5. PICK u : u = FLProgress(v).s
    OBVIOUS
  <2>6. PlayersRead(t, u)
    BY <2>2, <2>3, <2>5, FLProgressIs, PlayersThen
  <2>7. WholeHandler(t, m, ok) = FLProgress(v)
    BY <1>2, <2>4 DEF WholeHandler
  <2> QED
    BY <2>3, <2>5, <2>6, <2>7, FLProgressIs DEF PlayersLeft
<1> QED
  BY <1>1, <1>2

LEMMA InfoGood ==
  ASSUME NEW g, NEW t \in Servers, NEW n, NEW spent \in Nat, NEW ok \in BOOLEAN, Core(g, t, n), Stage(t),
         Tries(t, spent), NEW m \in Message4, m.kind = "info"
  PROVE  Good(g, t, n, spent, WholeHandler(t, m, ok))
BY InfoEffect, InfoReadGood DEF InfoLeft

LEMMA RulesGood ==
  ASSUME NEW g, NEW t \in Servers, NEW n, NEW spent \in Nat, NEW ok \in BOOLEAN, Core(g, t, n), Stage(t),
         Tries(t, spent), NEW m \in Message4, m.kind = "rules", t.name # "none"
  PROVE  Good(g, t, n, spent, WholeHandler(t, m, ok))
BY RulesEffect, RulesReadGood DEF RulesLeft

LEMMA PlayersGood ==
  ASSUME NEW g, NEW t \in Servers, NEW n, NEW spent \in Nat, NEW ok \in BOOLEAN, Core(g, t, n), Stage(t),
         Tries(t, spent), NEW m \in Message4, m.kind = "players", t.name # "none", Vouched(g, t)
  PROVE  Good(g, t, n, spent, WholeHandler(t, m, ok))
BY PlayersEffect, PlayersReadGood DEF PlayersLeft

-----------------------------------------------------------------------------
\* A challenge.

LEMMA ChallengedCore ==
  ASSUME NEW g, NEW t \in Servers, NEW v, NEW n, NEW c, Core(g, t, n), Stage(t), c \in 1 .. n, Challenged(t, v, c)
  PROVE  /\ v \in Servers /\ Core(g, v, n) /\ Unnamed(v) /\ Named(v) /\ Vouched(g, v)
         /\ v.name = t.name /\ v.open = t.open /\ v.rule = t.rule
         /\ v.name = "none" => v.status.sentInfo /\ v.status.haveChallenge
<1>1. /\ v \in Servers /\ SameRest(t, v) /\ SameFate(t, v) /\ SameHave(t, v)
      /\ v.status.sentInfo = t.status.sentInfo /\ v.rule = t.rule
      /\ v.status.haveChallenge /\ v.status.challenge = c
  BY DEF Challenged
<1>2. Vouched(g, v) /\ Held(g, n, c)
  BY <1>1 DEF Vouched, Held
<1>3. Core(g, v, n)
  BY <1>1, <1>2 DEF Core, SameRest, SameFate, MessageFine
<1>4. A2SHasAll(v) <=> A2SHasAll(t)
  BY <1>1 DEF SameRest, SameHave, A2SHasAll
<1>5. Unnamed(v) /\ Named(v)
  BY <1>1, <1>4 DEF Stage, Unnamed, Named, HasNone, SameHave, SameFate
<1> QED
  BY <1>1, <1>2, <1>3, <1>5 DEF SameFate, Stage

LEMMA A2SChallengeGood ==
  ASSUME NEW g, NEW t \in Servers, NEW n \in Nat, NEW spent \in Nat, NEW ok \in BOOLEAN, Core(g, t, n), Stage(t),
         Tries(t, spent), NEW m, Challenge(n, m)
  PROVE  Good(g, t, n, spent + Renews(t, m), A2SChallenge(t, m, ok))
<1>1. PICK c \in Int : c = m.challenge /\ c \in 1 .. n
  BY DEF Challenge
<1>2. PICK v : v = [ChallengeUncounted(t) EXCEPT !.status.challenge = c, !.status.haveChallenge = TRUE]
  OBVIOUS
<1>3. Challenged(t, v, c)
  BY <1>2, UncountedIs
<1>4. A2SChallenge(t, m, ok) = A2SRuleQuery(v, ok)
  BY <1>1, <1>2 DEF A2SChallenge
<1>5. /\ v \in Servers /\ Core(g, v, n) /\ Unnamed(v) /\ Named(v) /\ Vouched(g, v)
      /\ v.name = t.name /\ v.open = t.open
      /\ v.name = "none" => v.status.sentInfo /\ v.status.haveChallenge
  BY <1>1, <1>3, ChallengedCore
<1>6. Tries(v, spent) /\ v.retry1 <= NRetries
  <2>1. Tries(v, spent)
    BY <1>3, <1>5, ChallengedTries
  <2> QED
    BY <2>1, QServerAssumption DEF Tries
<1> DEFINE r == A2SRuleQuery(v, ok)
<1>7. /\ r.ret \in {"INPROGRESS", "DONE_FORCE", "SYS_ERROR"} /\ Core(g, r.s, n) /\ r.s \in Servers
      /\ r.s.open = v.open /\ r.s.name = v.name
      /\ r.s = v \/ (v.retry1 >= 0 /\ Spent(v, r.s))
      /\ r.ret = "INPROGRESS" \/ v.name # "none" => Stage(r.s)
      /\ Vouched(g, v) => Vouched(g, r.s)
      /\ \E request : r.out = <<>> \/ (r.out = <<request>> /\ RequestFine(g, r.s, n, request))
  BY <1>5, <1>6, A2SRuleGood
<1>8. m.kind = "challenge"
  BY DEF Challenge
<1> HIDE DEF r
<1>9. Tries(r.s, spent + Renews(t, m))
  <2>1. CASE r.s = v
    BY <1>5, <1>6, <2>1, MoreTries DEF Renews
  <2>2. CASE v.retry1 >= 0 /\ Spent(v, r.s)
    <3>1. Tries(r.s, IF t.status.haveChallenge THEN spent + 1 ELSE spent)
      BY <1>3, <1>5, <1>7, <2>2, ChallengedSpentTries
    <3> QED
      BY <1>8, <3>1 DEF Renews
  <2> QED
    BY <1>7, <2>1, <2>2
<1>10. Good(g, t, n, spent + Renews(t, m), r)
  BY <1>5, <1>7, <1>9 DEF Good, Rets
<1> QED
  BY <1>4, <1>10 DEF r

RuleSet(v, u, ru) ==
  /\ u \in Servers /\ SameRest(v, u) /\ SameFate(v, u) /\ SameTries(v, u) /\ u.status = v.status /\ u.rule = ru
LEMMA RuleIs ==
  ASSUME NEW v \in Servers, NEW ru \in BOOLEAN, NEW u, u = [v EXCEPT !.rule = ru]
  PROVE  RuleSet(v, u, ru)
BY DEF RuleSet, Servers, SameRest, SameFate, SameTries

LEMMA FLChallengeGood ==
  ASSUME NEW g, NEW t \in Servers, NEW n \in Nat, NEW spent \in Nat, Core(g, t, n), Stage(t),
         Tries(t, spent), NEW m, Challenge(n, m)
  PROVE  Good(g, t, n, spent + Renews(t, m), FLChallenge(t, m))
<1>1. PICK c \in Int : c = m.challenge /\ c \in 1 .. n
  BY DEF Challenge
<1>2. PICK v : v = [ChallengeUncounted(t) EXCEPT !.status.challenge = c, !.status.haveChallenge = TRUE]
  OBVIOUS
<1>3. Challenged(t, v, c)
  BY <1>2, UncountedIs
<1>4. FLChallenge(t, m) = FLEnds(v)
  BY <1>1, <1>2 DEF FLChallenge
<1>5. /\ v \in Servers /\ Core(g, v, n) /\ Unnamed(v) /\ Named(v) /\ Vouched(g, v)
      /\ v.name = t.name /\ v.open = t.open
  BY <1>1, <1>3, ChallengedCore
<1>6. PICK ru \in BOOLEAN : ru = (v.rule /\ ~A2SHasAll(v))
  OBVIOUS
<1>7. PICK u : u = [v EXCEPT !.rule = ru]
  OBVIOUS
<1>8. RuleSet(v, u, ru)
  BY <1>5, <1>7, RuleIs
<1> DEFINE r == FLChallenge(t, m)
<1>9. r.s = u /\ r.ret = "DONE_AUTO" /\ r.out = <<>>
  BY <1>4, <1>6, <1>7 DEF FLEnds, Ends
<1> HIDE DEF r
<1>10. u \in Servers /\ SameRest(v, u) /\ u.saved = v.saved /\ u.name = v.name /\ u.open = v.open
      /\ u.status = v.status /\ u.retry1 = v.retry1 /\ u.retries = v.retries /\ u.rule = ru
  BY <1>8 DEF RuleSet, SameFate, SameTries
<1>11. Core(g, u, n) /\ Vouched(g, u)
  BY <1>5, <1>10, SameCore
<1>12. Tries(u, spent + Renews(t, m))
  <2>1. Tries(v, spent)
    BY <1>3, <1>5, ChallengedTries
  <2>2. Tries(u, spent)
    BY <1>10, <2>1 DEF Tries
  <2> QED
    BY <1>10, <2>2, MoreTries DEF Renews
<1>13. Named(u) \/ (u.name # "none" /\ ~u.rule)
  <2>1. A2SHasAll(u) <=> A2SHasAll(v)
    BY <1>10 DEF SameRest, A2SHasAll
  <2> QED
    BY <1>5, <1>6, <1>10, <2>1 DEF Named
<1>14. r.ret \in Rets /\ r.ret # "INPROGRESS"
  BY <1>9 DEF Rets
<1>15. \E request : r.out = <<>> \/ (r.out = <<request>> /\ RequestFine(g, r.s, n, request))
  BY <1>9
<1>16. r.s.open = t.open /\ (r.s.name = "none" => t.name = "none")
  BY <1>5, <1>9, <1>10
<1>17. Good(g, t, n, spent + Renews(t, m), r)
  BY <1>9, <1>11, <1>12, <1>13, <1>14, <1>15, <1>16 DEF Good
<1> QED
  BY <1>17 DEF r

LEMMA WholeGood ==
  ASSUME NEW g, NEW t \in Servers, NEW n \in Nat, NEW spent \in Nat, NEW ok \in BOOLEAN, Core(g, t, n), Stage(t),
         Tries(t, spent), NEW m,
         \/ Challenge(n, m) \/ Readable(g, t, m)
         \/ m.kind \notin {"challenge", "info"} \cup Details
  PROVE  Good(g, t, n, spent + Renews(t, m), WholeHandler(t, m, ok))
<1>1. CASE Challenge(n, m)
  <2>1. WholeHandler(t, m, ok) = IF t.status.type = "a2s" THEN A2SChallenge(t, m, ok) ELSE FLChallenge(t, m)
    BY <1>1 DEF Challenge, WholeHandler, A2SWhole, FLWhole
  <2> QED
    BY <1>1, <2>1, A2SChallengeGood, FLChallengeGood
<1>2. CASE Readable(g, t, m)
  <2>1. spent + Renews(t, m) = spent
    BY <1>2 DEF Readable, Details, Renews
  <2>2. m \in Message4 /\ m.kind \in {"info", "rules", "players"}
    BY <1>2 DEF Readable, Details
  <2>3. CASE m.kind = "info"
    BY <2>1, <2>2, <2>3, InfoGood
  <2>4. CASE m.kind = "rules"
    BY <1>2, <2>1, <2>2, <2>4, RulesGood DEF Readable
  <2>5. CASE m.kind = "players"
    BY <1>2, <2>1, <2>2, <2>5, PlayersGood DEF Readable
  <2> QED
    BY <2>2, <2>3, <2>4, <2>5
<1>3. CASE m.kind \notin {"challenge", "info"} \cup Details
  <2> DEFINE r == WholeHandler(t, m, ok)
  <2>1. spent + Renews(t, m) = spent
    BY <1>3 DEF Renews
  <2>2. r.s = t /\ r.ret = "PKT_ERROR" /\ r.out = <<>>
    BY <1>3 DEF WholeHandler, A2SWhole, FLWhole, Ends, Details
  <2> HIDE DEF r
  <2>3. r.ret \in Rets
    BY <2>2 DEF Rets
  <2>4. Good(g, t, n, spent, r)
    BY <2>2, <2>3 DEF Good
  <2> QED
    BY <2>1, <2>4 DEF r
<1> QED
  BY <1>1, <1>2, <1>3

-----------------------------------------------------------------------------
\* The store of fragments.

LEMMA LeastNumber ==
  ASSUME NEW m \in SUBSET Nat, m # {}
  PROVE  \E i \in m : \A j \in m : i <= j
<1>1. PICK i \in m : \A j \in m : ~(<<j, i>> \in W!OpToRel(<, Nat))
  BY W!NatLessThanWellFounded, W!WFMin
<1>2. \A j \in m : ~(j < i)
  BY <1>1 DEF W!OpToRel
<1> QED
  BY <1>2

LEMMA MinIsLeast ==
  ASSUME NEW m \in SUBSET Nat, m # {}
  PROVE  Min(m) \in m /\ \A j \in m : Min(m) <= j
BY LeastNumber DEF Min

LEMMA InsertIs ==
  ASSUME NEW saved \in Seq(Kept), NEW f \in Kept
  PROVE  LET more == Insert(saved, f)
         IN  /\ more \in Seq(Kept)
             /\ \A k \in DOMAIN more : more[k] = f \/ \E j \in DOMAIN saved : more[k] = saved[j]
             /\ \E k \in DOMAIN more : more[k] = f
             /\ \A j \in DOMAIN saved : \E k \in DOMAIN more : more[k] = saved[j]
<1>1. CASE saved = <<>>
  <2>1. Insert(saved, f) = <<f>>
    BY <1>1 DEF Insert
  <2>2. <<f>> \in Seq(Kept) /\ DOMAIN <<f>> = {1} /\ <<f>>[1] = f
    OBVIOUS
  <2>3. DOMAIN saved = {}
    BY <1>1
  <2> QED
    BY <2>1, <2>2, <2>3
<1>2. CASE saved # <<>>
  <2>1. Insert(saved, f) = <<Head(saved), f>> \o Tail(saved)
    BY <1>2 DEF Insert
  <2>2. PICK rest \in Seq(Kept) : rest = Tail(saved) /\ Len(rest) = Len(saved) - 1
                                  /\ \A k \in 1 .. Len(rest) : rest[k] = saved[k + 1]
    BY <1>2, HeadTailProperties
  <2>3. PICK first \in Kept : first = Head(saved) /\ first = saved[1]
    BY <1>2
  <2>4. PICK more : more = <<first, f>> \o rest
    OBVIOUS
  <2>5. /\ more \in Seq(Kept) /\ Len(more) = Len(saved) + 1 /\ more[1] = saved[1] /\ more[2] = f
        /\ \A k \in 3 .. Len(more) : more[k] = saved[k - 1]
    BY <2>2, <2>3, <2>4
  <2>6. DOMAIN more = 1 .. Len(saved) + 1 /\ DOMAIN saved = 1 .. Len(saved) /\ Len(saved) \in Nat /\ Len(saved) # 0
    BY <1>2, <2>5
  <2>7. \A k \in DOMAIN more : more[k] = f \/ \E j \in DOMAIN saved : more[k] = saved[j]
    <3> TAKE k \in DOMAIN more
    <3>1. CASE k = 1
      BY <2>5, <2>6, <3>1
    <3>2. CASE k = 2
      BY <2>5, <3>2
    <3>3. CASE k > 2
      <4>1. k - 1 \in DOMAIN saved /\ more[k] = saved[k - 1]
        BY <2>5, <2>6, <3>3
      <4> QED
        BY <4>1
    <3> QED
      BY <2>6, <3>1, <3>2, <3>3
  <2>8. \A j \in DOMAIN saved : \E k \in DOMAIN more : more[k] = saved[j]
    <3> TAKE j \in DOMAIN saved
    <3>1. CASE j = 1
      BY <2>5, <2>6, <3>1
    <3>2. CASE j > 1
      <4>1. j + 1 \in DOMAIN more /\ more[j + 1] = saved[j]
        BY <2>5, <2>6, <3>2
      <4> QED
        BY <4>1
    <3> QED
      BY <2>6, <3>1, <3>2
  <2>9. \E k \in DOMAIN more : more[k] = f
    BY <2>5, <2>6
  <2>10. Insert(saved, f) = more
    BY <2>1, <2>2, <2>3, <2>4
  <2> HIDE DEF Insert
  <2> QED
    BY <2>5, <2>7, <2>8, <2>9, <2>10
<1> QED
  BY <1>1, <1>2

LEMMA KeptFields ==
  ASSUME NEW f \in Kept
  PROVE  f.id \in Nat /\ f.index \in Nat /\ f.max \in Nat /\ f.data \in Slices
BY DEF Kept

LEMMA FirstIs ==
  ASSUME NEW saved \in Seq(Kept), NEW id \in ResponseIds(saved)
  PROVE  LET k == FirstOf(saved, id)
         IN  /\ k \in Pending(saved) /\ k \in Nat /\ saved[k].id = id
             /\ Total(saved, id) = saved[k].max /\ Total(saved, id) \in Nat \ {0}
<1> DEFINE its == {k \in Pending(saved) : saved[k].id = id}
<1>1. its \in SUBSET Nat /\ its # {}
  BY DEF Pending, ResponseIds
<1>0. FirstOf(saved, id) = Min(its)
  BY DEF FirstOf
<1>2. PICK k : k = Min(its) /\ k \in its
  BY <1>1, MinIsLeast
<1>3. k = FirstOf(saved, id)
  BY <1>0, <1>2
<1>4. k \in DOMAIN saved /\ saved[k] \in Kept /\ saved[k].max # 0
  BY <1>2 DEF Pending
<1>5. saved[k].max \in Nat
  BY <1>4, KeptFields
<1> QED
  BY <1>1, <1>2, <1>3, <1>4, <1>5 DEF Total

LEMMA ChosenIs ==
  ASSUME NEW saved \in Seq(Kept), Complete(saved) # {}
  PROVE  Chosen(saved) \in Complete(saved)
<1> DEFINE firsts == {FirstOf(saved, id) : id \in Complete(saved)}
<1>1. \A id \in Complete(saved) : FirstOf(saved, id) \in Nat
  BY FirstIs DEF Complete
<1>2. firsts \in SUBSET Nat /\ firsts # {}
  BY <1>1
<1>3. PICK least \in firsts : \A other \in firsts : least <= other
  BY <1>2, LeastNumber
<1>4. PICK id \in Complete(saved) : FirstOf(saved, id) = least
  BY <1>3
<1>5. \A other \in Complete(saved) : FirstOf(saved, id) <= FirstOf(saved, other)
  BY <1>3, <1>4
<1> QED
  BY <1>5 DEF Chosen

LEMMA SegmentIs ==
  ASSUME NEW saved \in Seq(Kept), NEW id \in ResponseIds(saved), NoneMissing(saved, id),
         NEW p \in 0 .. Total(saved, id) - 1
  PROVE  LET k == SegmentAt(saved, id, p)
         IN k \in Segments(saved, id) /\ saved[k].index = p /\ k \in Pending(saved) /\ saved[k].id = id
<1>1. \E k \in Segments(saved, id) : saved[k].index = p
  BY DEF NoneMissing
<1>2. SegmentAt(saved, id, p) \in Segments(saved, id) /\ saved[SegmentAt(saved, id, p)].index = p
  BY <1>1 DEF SegmentAt
<1> QED
  BY <1>2 DEF Segments, Agreeing

LEMMA HandledIs ==
  ASSUME NEW saved \in Seq(Kept), NEW id
  PROVE  LET left == Handled(saved, id)
         IN  /\ left \in Seq(Kept) /\ DOMAIN left = DOMAIN saved
             /\ \A k \in DOMAIN saved :
                  /\ left[k].id = saved[k].id /\ left[k].index = saved[k].index /\ left[k].data = saved[k].data
                  /\ left[k].max = IF k \in Segments(saved, id) THEN 0 ELSE saved[k].max
<1> DEFINE left == Handled(saved, id)
<1>1. ASSUME NEW k \in DOMAIN saved
      PROVE  /\ left[k] \in Kept
             /\ left[k].id = saved[k].id /\ left[k].index = saved[k].index /\ left[k].data = saved[k].data
             /\ left[k].max = IF k \in Segments(saved, id) THEN 0 ELSE saved[k].max
  <2>1. PICK f \in Kept : f = saved[k]
    OBVIOUS
  <2>2. left[k] = IF k \in Segments(saved, id) THEN [f EXCEPT !.max = 0] ELSE f
    BY <2>1 DEF Handled
  <2>3. CASE k \in Segments(saved, id)
    <3>1. PICK none \in Nat : none = 0
      OBVIOUS
    <3>2. left[k] = [f EXCEPT !.max = none]
      BY <2>2, <2>3, <3>1
    <3> HIDE DEF left
    <3>3. left[k] \in Kept /\ left[k].id = f.id /\ left[k].index = f.index /\ left[k].data = f.data /\ left[k].max = none
      BY <3>2 DEF Kept
    <3> QED
      BY <2>1, <2>3, <3>1, <3>3
  <2>4. CASE k \notin Segments(saved, id)
    BY <2>1, <2>2, <2>4
  <2> QED
    BY <2>3, <2>4
<1>2. DOMAIN left = DOMAIN saved
  BY DEF Handled
<1>3. Len(saved) \in Nat /\ DOMAIN saved = 1 .. Len(saved)
  OBVIOUS
<1>4. left = [k \in 1 .. Len(saved) |-> left[k]]
  BY <1>3 DEF Handled
<1> HIDE DEF left
<1>5. left \in [1 .. Len(saved) -> Kept]
  BY <1>1, <1>3, <1>4
<1>6. left \in Seq(Kept)
  BY <1>3, <1>5
<1> QED
  BY <1>1, <1>2, <1>6 DEF left

LEMMA CombineIs ==
  ASSUME NEW saved \in Seq(Kept)
  PROVE  LET c == Combine(saved)
         IN  \/ c.ret = "PKT_ERROR" /\ TableFull(saved) /\ c.saved = saved
             \/ /\ c.ret = "INPROGRESS" /\ ~TableFull(saved) /\ c.saved = saved
                /\ Complete(saved) = {} \/ ~NoneMissing(saved, Chosen(saved))
             \/ /\ c.ret = "call" /\ ~TableFull(saved)
                /\ Chosen(saved) \in Complete(saved) /\ NoneMissing(saved, Chosen(saved))
                /\ c.saved = Handled(saved, Chosen(saved)) /\ c.data = Combined(saved, Chosen(saved))
BY ChosenIs DEF Combine

LEMMA CombineTyped ==
  ASSUME NEW saved \in Seq(Kept)
  PROVE  LET c == Combine(saved)
         IN  /\ c.ret \in {"PKT_ERROR", "INPROGRESS", "call"} /\ c.saved \in Seq(Kept) /\ DOMAIN c.saved = DOMAIN saved
             /\ \A k \in DOMAIN saved : c.saved[k].data = saved[k].data
             /\ c.ret = "call" => \/ Reassembled(c.data).kind = "garbled"
                                  \/ \E k \in DOMAIN saved : Reassembled(c.data) = saved[k].data.message
<1> DEFINE c == Combine(saved)
<1> DEFINE id == Chosen(saved)
<1>1. \/ c.ret = "PKT_ERROR" /\ c.saved = saved
      \/ c.ret = "INPROGRESS" /\ c.saved = saved
      \/ /\ c.ret = "call" /\ id \in Complete(saved) /\ NoneMissing(saved, id)
         /\ c.saved = Handled(saved, id) /\ c.data = Combined(saved, id)
  BY CombineIs
<1>2. CASE c.saved = saved /\ c.ret \in {"PKT_ERROR", "INPROGRESS"}
  BY <1>2
<1>3. CASE /\ c.ret = "call" /\ id \in Complete(saved) /\ NoneMissing(saved, id)
           /\ c.saved = Handled(saved, id) /\ c.data = Combined(saved, id)
  <2> HIDE DEF c, id
  <2>1. id \in ResponseIds(saved)
    BY <1>3 DEF Complete
  <2>2. Total(saved, id) \in Nat \ {0}
    BY <2>1, FirstIs
  <2>3. PICK k : k = SegmentAt(saved, id, 0)
    OBVIOUS
  <2>4. k \in DOMAIN saved
    BY <1>3, <2>1, <2>2, <2>3, SegmentIs DEF Pending
  <2>5. c.data[1] = saved[k].data
    BY <1>3, <2>2, <2>3 DEF Combined
  <2>6. Reassembled(c.data) = c.data[1].message \/ Reassembled(c.data).kind = "garbled"
    BY DEF Reassembled
  <2>7. \/ Reassembled(c.data).kind = "garbled"
        \/ \E j \in DOMAIN saved : Reassembled(c.data) = saved[j].data.message
    BY <2>4, <2>5, <2>6
  <2>8. c.saved \in Seq(Kept) /\ DOMAIN c.saved = DOMAIN saved /\ \A j \in DOMAIN saved : c.saved[j].data = saved[j].data
    BY <1>3, HandledIs
  <2> QED
    BY <1>3, <2>7, <2>8 DEF c
<1> QED
  BY <1>1, <1>2, <1>3

-----------------------------------------------------------------------------
\* deal_with_a2s_packet and deal_with_fl_packet.

\* What may arrive.
Piece(m) ==
  /\ m.kind = "fragment" /\ m.id \in Nat /\ m.index \in Nat /\ m.max \in Nat /\ m.format \in Nat
  /\ m.data \in Slices
Comes(g, t, n, m) ==
  \/ m.kind \in {"odd", "fallback"}
  \/ Challenge(n, m)
  \/ Readable(g, t, m)
  \/ Piece(m) /\ t.name # "none" /\ MessageFine(g, t, m.data.message)

SavedSet(t, u, saved) ==
  /\ u \in Servers /\ SameRest(t, u) /\ u.name = t.name /\ u.open = t.open /\ u.missing = t.missing
  /\ SameTries(t, u) /\ u.status = t.status /\ u.rule = t.rule /\ u.saved = saved
LEMMA SavedIs ==
  ASSUME NEW t \in Servers, NEW saved \in Seq(Kept), NEW u, u = [t EXCEPT !.saved = saved]
  PROVE  SavedSet(t, u, saved)
BY DEF SavedSet, Servers, SameRest, SameTries

LEMMA SavedCore ==
  ASSUME NEW g, NEW t \in Servers, NEW u, NEW n, NEW spent, Core(g, t, n), Stage(t), Tries(t, spent), t.name # "none",
         NEW saved, SavedSet(t, u, saved),
         \A k \in DOMAIN saved : MessageFine(g, t, saved[k].data.message)
  PROVE  /\ Core(g, u, n) /\ Stage(u) /\ Tries(u, spent) /\ u \in Servers
         /\ (Vouched(g, t) <=> Vouched(g, u)) /\ u.name = t.name /\ u.open = t.open
<1>1. /\ u \in Servers /\ SameRest(t, u) /\ u.name = t.name /\ u.open = t.open
      /\ u.status = t.status /\ u.saved = saved /\ u.rule = t.rule
      /\ u.retry1 = t.retry1 /\ u.retries = t.retries
  BY DEF SavedSet, SameTries
<1>2. Vouched(g, t) <=> Vouched(g, u)
  BY <1>1 DEF Vouched
<1>3. Core(g, u, n)
  BY <1>1, <1>2 DEF Core, SameRest, MessageFine
<1>4. A2SHasAll(u) <=> A2SHasAll(t)
  BY <1>1 DEF SameRest, A2SHasAll
<1>5. Stage(u)
  BY <1>1, <1>4 DEF Stage, Unnamed, Named
<1>6. Tries(u, spent)
  BY <1>1 DEF Tries
<1> QED
  BY <1>1, <1>2, <1>3, <1>5, <1>6

LEMMA GoodFrom ==
  ASSUME NEW g, NEW t, NEW u, NEW n, NEW spent, NEW r, Good(g, u, n, spent, r),
         Vouched(g, t) => Vouched(g, u), u.open = t.open, u.name = "none" => t.name = "none"
  PROVE  Good(g, t, n, spent, r)
BY DEF Good

\* A fragment with the header read as index and max.
Put(t, m, index, max) == Combine(Insert(t.saved, Fragment(m.id, index, max, m.data)))
PieceHandler(t, m, c, ok) ==
  LET u == [t EXCEPT !.saved = c.saved]
  IN IF c.ret = "call" THEN WholeHandler(u, Reassembled(c.data), ok) ELSE Ends(u, c.ret)

LEMMA FragmentIs ==
  ASSUME NEW m, Piece(m), NEW index \in Nat, NEW max \in Nat
  PROVE  LET f == Fragment(m.id, index, max, m.data)
         IN  f \in Kept /\ f.id = m.id /\ f.index = index /\ f.max = max /\ f.data = m.data
BY DEF Piece, Fragment, Kept

Stored(g, t, n, spent, c, u) ==
  /\ SavedSet(t, u, c.saved) /\ Core(g, u, n) /\ Stage(u) /\ Tries(u, spent) /\ u \in Servers
  /\ (Vouched(g, t) <=> Vouched(g, u)) /\ u.name = t.name /\ u.open = t.open
  /\ c.ret \in {"PKT_ERROR", "INPROGRESS", "call"}
  /\ c.ret = "call" => \/ Reassembled(c.data).kind = "garbled"
                       \/ Readable(g, u, Reassembled(c.data)) /\ Reassembled(c.data).kind \in Details
LEMMA PieceStored ==
  ASSUME NEW g, NEW t \in Servers, NEW n, NEW spent, Core(g, t, n), Stage(t),
         Tries(t, spent), NEW m, Piece(m), t.name # "none", MessageFine(g, t, m.data.message),
         NEW index \in Nat, NEW max \in Nat, NEW c, c = Put(t, m, index, max)
  PROVE  Stored(g, t, n, spent, c, [t EXCEPT !.saved = c.saved])
<1>1. PICK f \in Kept : f = Fragment(m.id, index, max, m.data) /\ f.data = m.data
  BY FragmentIs
<1>2. PICK more : more = Insert(t.saved, f)
  OBVIOUS
<1>3. /\ more \in Seq(Kept)
      /\ \A k \in DOMAIN more : more[k] = f \/ \E j \in DOMAIN t.saved : more[k] = t.saved[j]
  BY <1>2, Fields, InsertIs
<1>4. \A k \in DOMAIN more : more[k].data \in Slices /\ MessageFine(g, t, more[k].data.message)
  <2> TAKE k \in DOMAIN more
  <2>1. more[k] \in Kept
    BY <1>3
  <2>2. MessageFine(g, t, more[k].data.message)
    BY <1>1, <1>3 DEF Core
  <2> QED
    BY <2>1, <2>2, KeptFields
<1>5. c = Combine(more)
  BY <1>1, <1>2 DEF Put
<1>6. /\ c.ret \in {"PKT_ERROR", "INPROGRESS", "call"} /\ c.saved \in Seq(Kept) /\ DOMAIN c.saved = DOMAIN more
      /\ \A k \in DOMAIN more : c.saved[k].data = more[k].data
      /\ c.ret = "call" => \/ Reassembled(c.data).kind = "garbled"
                           \/ \E k \in DOMAIN more : Reassembled(c.data) = more[k].data.message
  BY <1>3, <1>5, CombineTyped
<1>7. PICK u : u = [t EXCEPT !.saved = c.saved]
  OBVIOUS
<1>8. SavedSet(t, u, c.saved)
  BY <1>6, <1>7, SavedIs
<1>9. \A k \in DOMAIN c.saved : MessageFine(g, t, c.saved[k].data.message)
  BY <1>4, <1>6
<1>10. /\ Core(g, u, n) /\ Stage(u) /\ Tries(u, spent) /\ u \in Servers
       /\ (Vouched(g, t) <=> Vouched(g, u)) /\ u.name = t.name /\ u.open = t.open
  BY <1>8, <1>9, SavedCore
<1>11. ASSUME NEW k \in DOMAIN more
       PROVE  Readable(g, u, more[k].data.message) /\ more[k].data.message.kind \in Details
  <2>1. more[k].data.message \in Message4 /\ MessageFine(g, t, more[k].data.message)
    BY <1>4, <1>11 DEF Slices
  <2> QED
    BY <1>10, <2>1 DEF Readable, MessageFine, Details
<1> QED
  BY <1>6, <1>7, <1>8, <1>10, <1>11 DEF Stored

LEMMA PieceGood ==
  ASSUME NEW g, NEW t \in Servers, NEW n \in Nat, NEW spent \in Nat, NEW ok \in BOOLEAN, Core(g, t, n), Stage(t),
         Tries(t, spent), NEW m, Piece(m), t.name # "none", MessageFine(g, t, m.data.message),
         NEW index \in Nat, NEW max \in Nat
  PROVE  Good(g, t, n, spent, PieceHandler(t, m, Put(t, m, index, max), ok))
<1>1. PICK c : c = Put(t, m, index, max)
  OBVIOUS
<1>2. PICK u : u = [t EXCEPT !.saved = c.saved]
  OBVIOUS
<1>3. Stored(g, t, n, spent, c, u)
  BY <1>1, <1>2, PieceStored
<1>4. CASE c.ret = "call"
  <2>1. PICK x : x = Reassembled(c.data)
    OBVIOUS
  <2>2. Readable(g, u, x) \/ x.kind \notin {"challenge", "info"} \cup Details
    BY <1>3, <1>4, <2>1 DEF Stored, Details
  <2>3. Good(g, u, n, spent + Renews(u, x), WholeHandler(u, x, ok))
    BY <1>3, <2>2, WholeGood DEF Stored
  <2>4. Renews(u, x) = 0
    BY <2>2 DEF Readable, Details, Renews
  <2>5. Good(g, u, n, spent, WholeHandler(u, x, ok))
    BY <2>3, <2>4
  <2>6. PieceHandler(t, m, c, ok) = WholeHandler(u, x, ok)
    BY <1>2, <1>4, <2>1 DEF PieceHandler
  <2>7. Good(g, t, n, spent, WholeHandler(u, x, ok))
    BY <1>3, <2>5, GoodFrom DEF Stored
  <2> QED
    BY <1>1, <2>6, <2>7
<1>5. CASE c.ret # "call"
  <2>1. PICK r : r = PieceHandler(t, m, c, ok)
    OBVIOUS
  <2>2. r.s = u /\ r.ret = c.ret /\ r.out = <<>>
    BY <1>2, <1>5, <2>1 DEF PieceHandler, Ends
  <2>3. r.ret \in Rets /\ r.ret # "DONE_AUTO"
    BY <1>3, <1>5, <2>2 DEF Rets, Stored
  <2>4. Good(g, u, n, spent, r)
    BY <1>3, <2>2, <2>3 DEF Good, Stored
  <2>5. Good(g, t, n, spent, r)
    BY <1>3, <2>4, GoodFrom DEF Stored
  <2> QED
    BY <1>1, <2>1, <2>5
<1> QED
  BY <1>4, <1>5

DialoguePacket(t, m, ok) == IF t.status.type = "a2s" THEN A2SPacket(t, m, ok) ELSE FLPacket(t, m)

LEMMA HeaderIs ==
  ASSUME NEW t, NEW m, Piece(m)
  PROVE  ReadIndex(t, m) \in Nat /\ ReadMax(t, m) \in Nat
<1>1. m.index \in Nat /\ m.max \in Nat
  BY DEF Piece
<1>2. m.max \div 16 \in Nat /\ m.max % 16 \in Nat
  BY <1>1
<1> QED
  BY <1>1, <1>2 DEF ReadIndex, ReadMax

Unreadable(t) == t.status.type = "a2s" /\ ~ReadsHL1(t) /\ t.status.format # 2
IndexRead(t, m) == IF t.status.type = "a2s" THEN ReadIndex(t, m) ELSE m.index
MaxRead(t, m) == IF t.status.type = "a2s" THEN ReadMax(t, m) ELSE m.max
DialoguePut(t, m) == Put(t, m, IndexRead(t, m), MaxRead(t, m))

LEMMA PiecePacketIs ==
  ASSUME NEW t \in Servers, NEW m, Piece(m), NEW ok
  PROVE  /\ IndexRead(t, m) \in Nat /\ MaxRead(t, m) \in Nat
         /\ Unreadable(t) => DialoguePacket(t, m, ok) = Ends(t, "PKT_ERROR")
         /\ ~Unreadable(t) => DialoguePacket(t, m, ok) = PieceHandler(t, m, DialoguePut(t, m), ok)
<1>1. IndexRead(t, m) \in Nat /\ MaxRead(t, m) \in Nat
  BY HeaderIs DEF Piece, IndexRead, MaxRead
<1>2. PICK c : c = DialoguePut(t, m)
  OBVIOUS
<1>3. PICK u : u = [t EXCEPT !.saved = c.saved]
  OBVIOUS
<1>4. u.status = t.status
  BY <1>3 DEF Servers
<1>5. CASE t.status.type # "a2s"
  <2>1. FLPacket(t, m) = IF c.ret = "call" THEN FLWhole(u, Reassembled(c.data)) ELSE Ends(u, c.ret)
    BY <1>2, <1>3, <1>5 DEF Piece, FLPacket, FLFragment, Put, DialoguePut, IndexRead, MaxRead
  <2>2. PieceHandler(t, m, c, ok) = FLPacket(t, m)
    BY <1>3, <1>4, <1>5, <2>1 DEF PieceHandler, WholeHandler
  <2> QED
    BY <1>1, <1>2, <1>5, <2>2 DEF DialoguePacket, Unreadable
<1>6. CASE t.status.type = "a2s" /\ ~Unreadable(t)
  <2>1. A2SPacket(t, m, ok) = IF c.ret = "call" THEN A2SWhole(u, Reassembled(c.data), ok) ELSE Ends(u, c.ret)
    BY <1>2, <1>3, <1>6 DEF Piece, A2SPacket, A2SFragment, Put, DialoguePut, IndexRead, MaxRead, Unreadable
  <2>2. PieceHandler(t, m, c, ok) = A2SPacket(t, m, ok)
    BY <1>3, <1>4, <1>6, <2>1 DEF PieceHandler, WholeHandler
  <2> QED
    BY <1>1, <1>2, <1>6, <2>2 DEF DialoguePacket
<1>7. CASE Unreadable(t)
  <2>1. DialoguePacket(t, m, ok) = Ends(t, "PKT_ERROR")
    BY <1>7 DEF Piece, DialoguePacket, A2SPacket, Unreadable
  <2> QED
    BY <1>1, <1>7, <2>1
<1> QED
  BY <1>5, <1>6, <1>7 DEF Unreadable

LEMMA WholePacketIs ==
  ASSUME NEW t, NEW m, m.kind # "fragment", NEW ok
  PROVE  DialoguePacket(t, m, ok) = WholeHandler(t, m, ok)
BY DEF DialoguePacket, WholeHandler, A2SPacket, FLPacket

LEMMA PacketGood ==
  ASSUME NEW g, NEW t \in Servers, NEW n \in Nat, NEW spent \in Nat, NEW ok \in BOOLEAN, Core(g, t, n), Stage(t),
         Tries(t, spent), NEW m, Comes(g, t, n, m)
  PROVE  Good(g, t, n, spent + Renews(t, m), DialoguePacket(t, m, ok))
<1>1. CASE Piece(m) /\ t.name # "none" /\ MessageFine(g, t, m.data.message)
  <2>1. spent + Renews(t, m) = spent
    BY <1>1 DEF Piece, Renews
  <2>2. IndexRead(t, m) \in Nat /\ MaxRead(t, m) \in Nat
    BY <1>1, PiecePacketIs
  <2>3. CASE ~Unreadable(t)
    <3>1. Good(g, t, n, spent, PieceHandler(t, m, DialoguePut(t, m), ok))
      BY <1>1, <2>2, PieceGood DEF DialoguePut
    <3> QED
      BY <1>1, <2>1, <2>3, <3>1, PiecePacketIs
  <2>4. CASE Unreadable(t)
    <3>1. PICK r : r = DialoguePacket(t, m, ok)
      OBVIOUS
    <3>2. r.s = t /\ r.ret = "PKT_ERROR" /\ r.out = <<>>
      BY <1>1, <2>4, <3>1, PiecePacketIs DEF Ends
    <3>3. Good(g, t, n, spent, r)
      BY <3>2 DEF Good, Rets
    <3> QED
      BY <2>1, <3>1, <3>3
  <2> QED
    BY <2>3, <2>4
<1>2. CASE m.kind \in {"odd", "fallback"} \/ Challenge(n, m) \/ Readable(g, t, m)
  <2>1. m.kind # "fragment"
    BY <1>2 DEF Challenge, Readable, Details
  <2>2. \/ Challenge(n, m) \/ Readable(g, t, m)
        \/ m.kind \notin {"challenge", "info"} \cup Details
    BY <1>2 DEF Details
  <2> QED
    BY <2>1, <2>2, WholeGood, WholePacketIs
<1> QED
  BY <1>1, <1>2 DEF Comes

-----------------------------------------------------------------------------
\* What the servers of these types answer.

LEMMA SetupIs ==
  ASSUME NEW g \in Setups
  PROVE  /\ g.want \in SUBSET Details /\ g.parts \in Nat \ {0} /\ g.format \in Nat /\ g.app \in 0 .. 255
         /\ g.players \in Nat /\ g.sends \in SUBSET BOOLEAN /\ g.budget \in Nat /\ g.rotations \in Nat
BY QueriesAssumption DEF Details

LEMMA MessageIs ==
  ASSUME NEW g \in Setups, NEW kind \in {"info", "rules", "players", "status", "all"}
  PROVE  /\ Message(g, kind) \in Message4 /\ Message(g, kind).kind = kind
         /\ Message(g, kind).format = g.format /\ Message(g, kind).app = g.app
<1>1. g.players \in Nat /\ g.format \in Nat /\ g.app \in 0 .. 255
  BY SetupIs
<1>2. PICK short \in BOOLEAN : short = (kind = "rules" /\ "short" \in g.server)
  OBVIOUS
<1>3. PICK players \in Nat, format \in Nat, app \in 0 .. 255 :
        players = g.players /\ format = g.format /\ app = g.app
  BY <1>1
<1>4. Message(g, kind) = [kind |-> kind, bad |-> "none", players |-> players, qfusion |-> FALSE,
                          format |-> format, app |-> app, short |-> short]
  BY <1>2, <1>3 DEF Message
<1>5. PICK bad \in {"none", "front", "behind"} : bad = "none"
  OBVIOUS
<1>6. PICK m : m = [kind |-> kind, bad |-> bad, players |-> players, qfusion |-> FALSE,
                    format |-> format, app |-> app, short |-> short]
  OBVIOUS
<1>7. m \in Message4 /\ m.kind = kind /\ m.format = format /\ m.app = app
  BY <1>2, <1>3, <1>5, <1>6 DEF Message4
<1> QED
  BY <1>3, <1>4, <1>5, <1>6, <1>7

LEMMA FaultIs ==
  ASSUME NEW m \in Message4, NEW fault \in {"front", "behind"}
  PROVE  LET x == [m EXCEPT !.bad = fault]
         IN  x \in Message4 /\ x.kind = m.kind /\ x.format = m.format /\ x.app = m.app
BY DEF Message4

\* A reply is whole or a fragment.
LEMMA PartsAre ==
  ASSUME NEW g \in Setups, NEW kind \in {"rules", "players", "all"}, NEW k \in Nat,
         NEW m \in InParts(g, Message(g, kind), k)
  PROVE  \/ m = Message(g, kind)
         \/ Piece(m) /\ m.data.message = Message(g, kind) /\ "bad" \notin DOMAIN m
<1>1. CASE m \in Fragments(g, Message(g, kind), k)
  <2>1. PICK p \in 1 .. g.parts :
          m = [kind |-> "fragment", id |-> k, index |-> p - 1, max |-> g.parts, final |-> p = g.parts,
               format |-> g.format, data |-> [part |-> p, parts |-> g.parts, message |-> Message(g, kind)]]
    BY <1>1 DEF Fragments
  <2>2. /\ g.parts \in Nat \ {0} /\ g.format \in Nat /\ p \in Nat /\ p - 1 \in Nat
    BY <2>1, SetupIs
  <2>3. PICK message \in Message4 : message = Message(g, kind)
    BY MessageIs
  <2>9. PICK parts \in Nat, format \in Nat : parts = g.parts /\ format = g.format
    BY <2>2
  <2>4. PICK data : data = [part |-> p, parts |-> parts, message |-> message]
    OBVIOUS
  <2>10. data \in Slices /\ data.message = message
    BY <2>2, <2>3, <2>4, <2>9 DEF Slices
  <2>5. PICK index \in Nat : index = p - 1
    BY <2>2
  <2>6. PICK final : final = (p = g.parts)
    OBVIOUS
  <2>7. m = [kind |-> "fragment", id |-> k, index |-> index, max |-> parts, final |-> final,
             format |-> format, data |-> data]
    BY <2>1, <2>3, <2>4, <2>5, <2>6, <2>9
  <2>8. /\ m.kind = "fragment" /\ m.id = k /\ m.index = index /\ m.max = parts /\ m.format = format
        /\ m.data = data /\ "bad" \notin DOMAIN m
    BY <2>7
  <2> QED
    BY <2>2, <2>3, <2>5, <2>8, <2>9, <2>10 DEF Piece
<1>2. CASE m \notin Fragments(g, Message(g, kind), k)
  BY <1>2 DEF InParts
<1> QED
  BY <1>1, <1>2

LEMMA GuardedIs ==
  ASSUME NEW r \in Requests, NEW n \in Nat, NEW reply, NEW m \in Guarded(r, n, reply)
  PROVE  \/ r.challenge \in 1 .. n /\ m \in reply
         \/ Challenge(n, m) /\ "bad" \notin DOMAIN m
<1>1. CASE m \in NewChallenges(n)
  <2>1. PICK c \in 1 .. n : m = [kind |-> "challenge", challenge |-> c]
    BY <1>1 DEF NewChallenges
  <2>2. m.kind = "challenge" /\ m.challenge = c /\ "bad" \notin DOMAIN m
    BY <2>1
  <2> QED
    BY <2>2 DEF Challenge
<1>2. CASE m \notin NewChallenges(n)
  BY <1>2 DEF Guarded
<1> QED
  BY <1>1, <1>2

LEMMA HandlerOf ==
  ASSUME NEW g, g.type \in Types
  PROVE  /\ GameHandler(g) \in {"a2s", "fl", "gs3"} /\ ~TcpConnect(g)
         /\ \A r, k, n : Reply(g, r, k, n) = ChallengedReply(g, r, k, n)
<1>1. GameHandler(g) \in {"a2s", "fl", "gs3"} /\ ~TcpConnect(g)
  BY TableSays DEF Types, GameHandler, TcpConnect
<1>2. ASSUME NEW r, NEW k, NEW n
      PROVE  Reply(g, r, k, n) = ChallengedReply(g, r, k, n)
  BY <1>1 DEF Reply, SteppedHandlers, MasterHandlers
<1> QED
  BY <1>1, <1>2

LEMMA ReplyComes ==
  ASSUME NEW g \in Setups, NEW t, NEW n \in Nat, NEW r, RequestFine(g, t, n, r), t.open, NEW k \in Nat,
         NEW m \in ChallengedReply(g, r, k, n)
  PROVE  Comes(g, t, n, m) /\ ("bad" \in DOMAIN m => m \in Message4)
<1>1. r \in Requests /\ r.kind \in {"info", "challenge", "rules", "players"} /\ r.challenge \in Int
  BY DEF RequestFine, Details, Requests
<1>2. CASE r.kind = "info"
  <2>1. ChallengedReply(g, r, k, n) = IF "guarded" \in g.server THEN Guarded(r, n, {Message(g, "info")})
                                      ELSE {Message(g, "info")}
    BY <1>2 DEF ChallengedReply
  <2>2. m = Message(g, "info") \/ (Challenge(n, m) /\ "bad" \notin DOMAIN m)
    BY <1>1, <2>1, GuardedIs
  <2>3. CASE m = Message(g, "info")
    BY <2>3, MessageIs DEF Comes, Readable
  <2>4. CASE Challenge(n, m) /\ "bad" \notin DOMAIN m
    BY <2>4 DEF Comes
  <2> QED
    BY <2>2, <2>3, <2>4
<1>3. CASE r.kind \in {"rules", "players"}
  <2>1. PICK kind \in {"rules", "players"} : kind = r.kind
    BY <1>3
  <2>2. PICK details : details = InParts(g, Message(g, kind), k)
    OBVIOUS
  <2>3. ChallengedReply(g, r, k, n) = IF kind = "players" /\ r.challenge = AnyChallenge /\ "broken" \in g.server
                                      THEN details ELSE Guarded(r, n, details)
    BY <1>3, <2>1, <2>2 DEF ChallengedReply
  <2>4. \/ m \in details /\ (kind = "players" => Vouched(g, t))
        \/ Challenge(n, m) /\ "bad" \notin DOMAIN m
    <3>1. CASE kind = "players" /\ r.challenge = AnyChallenge /\ "broken" \in g.server
      BY <2>3, <3>1 DEF Vouched
    <3>2. CASE ~(kind = "players" /\ r.challenge = AnyChallenge /\ "broken" \in g.server)
      <4>1. \/ r.challenge \in 1 .. n /\ m \in details
            \/ Challenge(n, m) /\ "bad" \notin DOMAIN m
        BY <1>1, <2>3, <3>2, GuardedIs
      <4>2. r.challenge \in 1 .. n => r.challenge # AnyChallenge
        BY <1>1 DEF AnyChallenge
      <4> QED
        BY <2>1, <4>1, <4>2 DEF RequestFine
    <3> QED
      BY <3>1, <3>2
  <2>5. t.name # "none"
    BY <1>3 DEF RequestFine
  <2>6. CASE m \in details /\ (kind = "players" => Vouched(g, t))
    <3>1. PICK message \in Message4 : message = Message(g, kind) /\ message.kind = kind
      BY <2>1, MessageIs
    <3>2. m = message \/ (Piece(m) /\ m.data.message = message /\ "bad" \notin DOMAIN m)
      BY <2>1, <2>2, <2>6, <3>1, PartsAre
    <3>3. CASE m = message
      BY <2>1, <2>5, <2>6, <3>1, <3>3 DEF Comes, Readable, Details
    <3>4. CASE Piece(m) /\ m.data.message = message /\ "bad" \notin DOMAIN m
      BY <2>1, <2>5, <2>6, <3>1, <3>4 DEF Comes, MessageFine, Details
    <3> QED
      BY <3>2, <3>3, <3>4
  <2>7. CASE Challenge(n, m) /\ "bad" \notin DOMAIN m
    BY <2>7 DEF Comes
  <2> QED
    BY <2>4, <2>6, <2>7
<1>4. CASE r.kind = "challenge"
  <2>1. ChallengedReply(g, r, k, n) = IF "old" \in g.server THEN {[kind |-> "fallback"]} ELSE NewChallenges(n)
    BY <1>4 DEF ChallengedReply
  <2>2. CASE "old" \in g.server
    <3>1. m = [kind |-> "fallback"]
      BY <2>1, <2>2
    <3>2. m.kind = "fallback" /\ "bad" \notin DOMAIN m
      BY <3>1
    <3> QED
      BY <3>2 DEF Comes
  <2>3. CASE "old" \notin g.server
    <3>1. PICK c \in 1 .. n : m = [kind |-> "challenge", challenge |-> c]
      BY <2>1, <2>3 DEF NewChallenges
    <3>2. m.kind = "challenge" /\ m.challenge = c /\ "bad" \notin DOMAIN m
      BY <3>1
    <3> QED
      BY <3>2 DEF Comes, Challenge
  <2> QED
    BY <2>2, <2>3
<1> QED
  BY <1>1, <1>2, <1>3, <1>4

LEMMA FaultComes ==
  ASSUME NEW g, NEW t, NEW n, NEW m \in Message4, Comes(g, t, n, m), NEW fault \in {"front", "behind"}
  PROVE  Comes(g, t, n, [m EXCEPT !.bad = fault])
<1>1. m.kind \notin {"odd", "fallback", "challenge", "fragment"}
  BY DEF Message4
<1>2. Readable(g, t, m)
  BY <1>1 DEF Comes, Challenge, Piece
<1>3. Readable(g, t, [m EXCEPT !.bad = fault])
  BY <1>2, FaultIs DEF Readable
<1> QED
  BY <1>3 DEF Comes

-----------------------------------------------------------------------------
\* The steps.

LEMMA FunctionsOf ==
  ASSUME NEW t, t.status.type \in Dialogues, NEW ok
  PROVE  /\ StatusQueryFunc(t, ok) = StatusQueryOf(t, ok)
         /\ RuleQueryFunc(t, ok) = RuleQueryOf(t, ok)
         /\ \A m : PacketFunc(t, m, ok) = DialoguePacket(t, m, ok)
<1>1. CASE t.status.type = "a2s"
  <2>1. Query(t) = "a2s" /\ Handler(t) = "a2s"
    BY <1>1, TableSays DEF Query, Handler
  <2>2. StatusQueryFunc(t, ok) = A2SStatusQuery(t, ok)
    BY <2>1 DEF StatusQueryFunc, PlainQueries, HttpQueries, MasterQueries
  <2>3. RuleQueryFunc(t, ok) = A2SRuleQuery(t, ok)
    BY <2>1 DEF RuleQueryFunc
  <2>4. \A m : PacketFunc(t, m, ok) = A2SPacket(t, m, ok)
    BY <2>1 DEF PacketFunc, Doom3Handlers, HttpHandlers
  <2> QED
    BY <1>1, <2>2, <2>3, <2>4 DEF StatusQueryOf, RuleQueryOf, DialoguePacket
<1>2. CASE t.status.type = "fls"
  <2>1. Query(t) = "fl" /\ Handler(t) = "fl"
    BY <1>2, TableSays DEF Query, Handler
  <2>2. StatusQueryFunc(t, ok) = FLStatusQuery(t, ok)
    BY <2>1 DEF StatusQueryFunc, PlainQueries, HttpQueries, MasterQueries
  <2>3. RuleQueryFunc(t, ok) = FLRuleQuery(t, ok)
    BY <2>1 DEF RuleQueryFunc
  <2>4. \A m : PacketFunc(t, m, ok) = FLPacket(t, m)
    BY <2>1 DEF PacketFunc, Doom3Handlers, HttpHandlers
  <2> QED
    BY <1>2, <2>2, <2>3, <2>4 DEF StatusQueryOf, RuleQueryOf, DialoguePacket
<1> QED
  BY <1>1, <1>2 DEF Dialogues

LEMMA PastStatusNamed ==
  ASSUME s \in Servers, s.name = "none" => s.retry1 < NRetries, PastStatus
  PROVE  s.name # "none"
<1>1. s.retry1 \in Int /\ NRetries \in Int /\ ~HasFlag(s.status.type, "TCP_CONNECT")
  <2>1. s.status.type \in Types
    BY Fields DEF Statuses
  <2> QED
    BY <2>1, Fields, TableSays, QServerAssumption
<1> QED
  BY <1>1 DEF PastStatus, Nameless, GivesUpNow, AsksStatus, WaitsOne

\* What was asked before, and what is asked now.
LEMMA SentIn ==
  ASSUME NEW S, asked \in Seq(S), NEW r, Sent(r), NEW request,
         r.out = <<>> \/ (r.out = <<request>> /\ request \in S)
  PROVE  /\ asked' \in Seq(S)
         /\ \A k \in DOMAIN asked' : \/ \E j \in DOMAIN asked : asked'[k] = asked[j]
                                     \/ r.out = <<request>> /\ asked'[k] = request
<1>1. CASE asked' = asked
  BY <1>1
<1>2. CASE asked' # asked
  <2>1. asked' = asked \o r.out
    BY <1>2 DEF Sent
  <2>2. CASE r.out = <<>>
    BY <2>1, <2>2
  <2>3. CASE r.out = <<request>> /\ request \in S
    <3>1. <<request>> \in Seq(S) /\ Len(<<request>>) = 1 /\ <<request>>[1] = request
      BY <2>3
    <3>2. asked' \in Seq(S) /\ Len(asked') = Len(asked) + 1
      BY <2>1, <2>3, <3>1
    <3>3. \A k \in 1 .. Len(asked') : asked'[k] = IF k <= Len(asked) THEN asked[k] ELSE request
      BY <2>1, <2>3, <3>1, <3>2
    <3> QED
      BY <2>3, <3>2, <3>3
  <2> QED
    BY <2>2, <2>3
<1> QED
  BY <1>1, <1>2

Adds(r, request) == r.out = <<>> \/ (r.out = <<request>> /\ request \in Requests)
LEMMA SentIs ==
  ASSUME asked \in Seq(Requests), NEW r, Sent(r), NEW request, Adds(r, request)
  PROVE  /\ asked' \in Seq(Requests)
         /\ \A k \in DOMAIN asked' : \/ \E j \in DOMAIN asked : asked'[k] = asked[j]
                                     \/ r.out = <<request>> /\ asked'[k] = request
BY SentIn DEF Adds

LEMMA MaxOfTwo ==
  ASSUME NEW a \in Int, NEW b \in Int
  PROVE  Max({a, b}) = IF a >= b THEN a ELSE b
<1>1. PICK c \in {a, b} : (c = IF a >= b THEN a ELSE b) /\ \A x \in {a, b} : c >= x
  OBVIOUS
<1>2. Max({a, b}) \in {a, b} /\ \A x \in {a, b} : Max({a, b}) >= x
  BY <1>1 DEF Max
<1> QED
  BY <1>1, <1>2

LEMMA MinOfTwo ==
  ASSUME NEW a \in Int, NEW b \in Int
  PROVE  Min({a, b}) = IF a <= b THEN a ELSE b
<1>1. PICK c \in {a, b} : (c = IF a <= b THEN a ELSE b) /\ \A x \in {a, b} : c <= x
  OBVIOUS
<1>2. Min({a, b}) \in {a, b} /\ \A x \in {a, b} : Min({a, b}) <= x
  BY <1>1 DEF Min
<1> QED
  BY <1>1, <1>2

Waited(t, u) ==
  /\ u \in Servers /\ u.elapsed >= t.elapsed /\ u.elapsed2 >= t.elapsed2
  /\ u.name = t.name /\ u.open = t.open /\ u.rule = t.rule /\ u.missing = t.missing
  /\ u.nextPlayer = t.nextPlayer /\ u.numPlayers = t.numPlayers /\ u.hasFound = t.hasFound
  /\ u.saved = t.saved /\ u.want = t.want /\ u.status = t.status
  /\ u.retry1 = t.retry1 /\ u.retries = t.retries
LEMMA TickIs ==
  ASSUME s \in Servers, Tick
  PROVE  Waited(s, s')
<1>1. \A retry \in Int : LongAgo(retry) \in Int
  BY MaxOfTwo, QServerAssumption DEF LongAgo
<1>2. \A e \in Nat, l \in Int : Max({e, Min({e + 1, l})}) \in Nat /\ Max({e, Min({e + 1, l})}) >= e
  BY MaxOfTwo, MinOfTwo
<1>3. s.elapsed \in Nat /\ s.elapsed2 \in Nat /\ s.retry1 \in Int /\ s.retry2 \in Int
  BY DEF Servers
<1>4. PICK e \in Nat : e = Max({s.elapsed, Min({s.elapsed + 1, LongAgo(s.retry1)})}) /\ e >= s.elapsed
  BY <1>1, <1>2, <1>3
<1>5. PICK f \in Nat : f = Max({s.elapsed2, Min({s.elapsed2 + 1, LongAgo(s.retry2)})}) /\ f >= s.elapsed2
  BY <1>1, <1>2, <1>3
<1>6. s' = [s EXCEPT !.elapsed = e, !.elapsed2 = f]
  BY <1>4, <1>5 DEF Tick
<1>7. PICK u : u = [s EXCEPT !.elapsed = e, !.elapsed2 = f]
  OBVIOUS
<1>8. /\ u \in Servers /\ u.elapsed = e /\ u.elapsed2 = f
      /\ u.name = s.name /\ u.open = s.open /\ u.rule = s.rule /\ u.missing = s.missing
      /\ u.nextPlayer = s.nextPlayer /\ u.numPlayers = s.numPlayers /\ u.hasFound = s.hasFound
      /\ u.saved = s.saved /\ u.want = s.want /\ u.status = s.status
      /\ u.retry1 = s.retry1 /\ u.retries = s.retries
  BY <1>7 DEF Servers
<1> QED
  BY <1>4, <1>5, <1>6, <1>7, <1>8 DEF Waited

\* The part about players does nothing.
LEMMA NoPlayerStage ==
  ASSUME NEW t \in Servers, t.numPlayers = 0, NEW ok
  PROVE  /\ ~ExpectsPlayers(t)
         /\ PlayerStage(t, ok) = Ends(t, "INPROGRESS")
<1>1. ~ExpectsPlayers(t)
  BY Fields DEF ExpectsPlayers
<1> QED
  BY <1>1 DEF PlayerStage

LEMMA AfterIs ==
  ASSUME NEW first, NEW t, NEW request, first.out = <<>> \/ first.out = <<request>>
  PROVE  LET r == After(first, Ends(t, "INPROGRESS")) IN r.s = t /\ r.out = first.out
<1>1. first.out \o <<>> = first.out
  <2>1. <<request>> \in Seq({request}) /\ <<>> \in Seq({request})
    OBVIOUS
  <2>2. first.out \in Seq({request})
    BY <2>1
  <2>3. \A q \in Seq({request}) : q \o <<>> = q
    OBVIOUS
  <2> QED
    BY <2>2, <2>3
<1>2. PICK none : none = <<>>
  OBVIOUS
<1>3. PICK out : out = first.out \o none
  OBVIOUS
<1>4. After(first, Ends(t, "INPROGRESS")) = [[s |-> t, ret |-> "INPROGRESS", out |-> none] EXCEPT !.out = out]
  BY <1>2, <1>3 DEF After, Ends
<1> QED
  BY <1>1, <1>2, <1>3, <1>4

-----------------------------------------------------------------------------
\* The invariant of a2s and fls holds.

Counts ==
  /\ setup \in Setups /\ main \in {"start", "work"} /\ issued \in Nat \ {0}
  /\ resends \in Nat /\ renewals \in Nat
AskedFine == asked \in Seq(Requests) /\ \A k \in DOMAIN asked : RequestFine(setup, s, issued, asked[k])
Begins(t) == t.open /\ t.name = "none" /\ HasNone(t) /\ t.retry1 = NRetries
DialogueInv ==
  setup.type \in Dialogues =>
    /\ Core(setup, s, issued) /\ Tries(s, resends + renewals) /\ AskedFine
    /\ main = "start" => Begins(s)
    /\ main = "work" /\ s.open => Stage(s)

LEMMA CountsSteps ==
  ASSUME Counts, [Next]_all
  PROVE  Counts' /\ setup' = setup
<1>1. CASE Start
  BY <1>1 DEF Start, Counts, history
<1>2. CASE Handle
  BY <1>2 DEF Handle, Counts
<1>3. CASE SendPackets
  <2>2. Resent \/ resends' = resends
    BY <1>3 DEF SendPackets, GivesUpQuery, AsksAgain, GivesUpRules, AsksRules, AsksPlayers, SendsNothing
  <2>1. resends' \in Nat
    BY <2>2 DEF Resent, Counts
  <2> QED
    BY <1>3, <2>1 DEF SendPackets, Counts
<1>4. CASE Tick \/ Rotate \/ Over \/ UNCHANGED all
  BY <1>4 DEF Tick, Rotate, Over, Counts, all, history
<1> QED
  BY <1>1, <1>2, <1>3, <1>4 DEF Next

LEMMA InitialServer ==
  ASSUME NEW g \in Setups, g.type \in Types
  PROVE  LET t == NewServer(g.type, g.want)
         IN  /\ t \in Servers /\ t.numPlayers = 0 /\ ~t.hasFound /\ t.want = g.want
             /\ t.status.type = g.type /\ ~t.status.haveChallenge /\ t.status.challenge = 0 /\ t.saved = <<>>
             /\ t.retries = 0 /\ t.elapsed = 0 /\ Begins(t)
<1>1. PICK want \in SUBSET Details : want = g.want
  BY SetupIs
<1>2. PICK type \in Types : type = g.type
  OBVIOUS
<1>3. NewServer(type, want) \in Servers
  BY NewTyped DEF Details
<1>4. PICK status : status = NewStatus(type)
  OBVIOUS
<1>5. /\ status.type = type /\ ~status.haveChallenge /\ status.challenge = 0
      /\ ~status.haveInfo /\ ~status.haveRules /\ ~status.havePlayer
  BY <1>4 DEF NewStatus
<1>6. PICK t : t = NewServer(type, want)
  OBVIOUS
<1>7. /\ t.numPlayers = 0 /\ ~t.hasFound /\ t.want = want /\ t.status = status /\ t.saved = <<>>
      /\ t.retries = 0 /\ t.elapsed = 0 /\ t.open /\ t.name = "none" /\ t.retry1 = NRetries
  BY <1>4, <1>6 DEF NewServer
<1> QED
  BY <1>1, <1>2, <1>3, <1>5, <1>6, <1>7 DEF Begins, HasNone

LEMMA DialogueStarts ==
  ASSUME InitQueries
  PROVE  Counts /\ DialogueInv
<1>1. Counts
  BY DEF InitQueries, Counts, history
<1>2. ASSUME setup.type \in Dialogues
      PROVE  /\ Core(setup, s, issued) /\ Tries(s, resends + renewals) /\ AskedFine
             /\ main = "start" /\ Begins(s)
  <2>1. setup.type \in Types /\ setup \in Setups
    BY <1>2 DEF Dialogues, Types, InitQueries
  <2>2. /\ s \in Servers /\ s.numPlayers = 0 /\ ~s.hasFound /\ s.want = setup.want
        /\ s.status.type = setup.type /\ ~s.status.haveChallenge /\ s.saved = <<>>
        /\ s.retries = 0 /\ Begins(s)
    BY <2>1, InitialServer DEF InitQueries
  <2>3. Core(setup, s, issued)
    BY <2>2 DEF Core
  <2>4. Tries(s, resends + renewals)
    BY <2>2, QServerAssumption DEF Tries, Begins, InitQueries
  <2>5. AskedFine
    BY DEF AskedFine, InitQueries
  <2> QED
    BY <2>2, <2>3, <2>4, <2>5 DEF InitQueries
<1> QED
  BY <1>1, <1>2 DEF DialogueInv

\* A step that leaves such a server keeps the invariant.
AddsOnly(r) == Sent(r) \/ asked' = asked
LEMMA Settles ==
  ASSUME Counts, DialogueInv, setup.type \in Dialogues, setup' = setup, issued' = issued, main' = "work",
         Core(setup, s', issued), Tries(s', resends' + renewals'), s'.open => Stage(s'),
         Vouched(setup, s) => Vouched(setup, s'), s'.open => s.open, s'.open /\ s'.name = "none" => s.name = "none",
         NEW r, AddsOnly(r), \E request : r.out = <<>> \/ (r.out = <<request>> /\ RequestFine(setup, s', issued, request))
  PROVE  DialogueInv'
<1>1. PICK request : r.out = <<>> \/ (r.out = <<request>> /\ RequestFine(setup, s', issued, request))
  OBVIOUS
<1>2. asked \in Seq(Requests) /\ \A k \in DOMAIN asked : RequestFine(setup, s', issued, asked[k])
  BY StillFine DEF DialogueInv, AskedFine
<1>3. CASE Sent(r)
  <2>1. Adds(r, request)
    BY <1>1 DEF Adds, RequestFine
  <2>2. /\ asked' \in Seq(Requests)
        /\ \A k \in DOMAIN asked' : \/ \E j \in DOMAIN asked : asked'[k] = asked[j]
                                    \/ r.out = <<request>> /\ asked'[k] = request
    BY <1>2, <1>3, <2>1, SentIs
  <2>3. r.out = <<request>> => RequestFine(setup, s', issued, request)
    BY <1>1
  <2>4. \A k \in DOMAIN asked' : RequestFine(setup, s', issued, asked'[k])
    BY <1>2, <2>2, <2>3
  <2> QED
    BY <2>2, <2>4 DEF DialogueInv, AskedFine
<1>4. CASE asked' = asked
  BY <1>2, <1>4 DEF DialogueInv, AskedFine
<1> QED
  BY <1>3, <1>4 DEF AddsOnly

LEMMA Outcome ==
  ASSUME Counts, DialogueInv, setup.type \in Dialogues, setup' = setup, issued' = issued, main' = "work", s.open,
         NEW r, Good(setup, s, issued, resends' + renewals', r), AddsOnly(r), s' = Fate(r)
  PROVE  DialogueInv'
<1>1. setup \in Setups
  BY DEF Counts
<1>2. /\ Core(setup, s', issued) /\ Tries(s', resends' + renewals') /\ (s'.open => Stage(s'))
      /\ \E request : r.out = <<>> \/ (r.out = <<request>> /\ RequestFine(setup, s', issued, request))
      /\ Vouched(setup, s) => Vouched(setup, s')
      /\ s'.open /\ s'.name = "none" => s.name = "none"
  BY <1>1, FateGood
<1> QED
  BY <1>2, Settles

LEMMA StatusTries ==
  ASSUME NEW t \in Servers, t.status.type \in Dialogues, NEW ok \in BOOLEAN, t.numPlayers = 0, ~t.hasFound
  PROVE  Fate(StatusQueryOf(t, ok)).retry1 = t.retry1 - 1
<1>1. PICK r : r = StatusQueryOf(t, ok)
  OBVIOUS
<1>2. /\ r.ret \in {"INPROGRESS", "DONE_FORCE", "SYS_ERROR"} /\ r.s \in Servers /\ SameRest(t, r.s)
      /\ r.s.retry1 = t.retry1 - 1
  <2>1. CASE ok
    <3>1. r.ret = "INPROGRESS" /\ InfoAsked(t, r.s)
      BY <1>1, <2>1, StatusQueryEffect DEF StatusQueryOf
    <3> QED
      BY <3>1 DEF InfoAsked, Spent
  <2>2. CASE ~ok
    <3>1. r.ret \in {"DONE_FORCE", "SYS_ERROR"} /\ Spends(t, r.s)
      BY <1>1, <2>2, StatusQueryEffect DEF StatusQueryOf
    <3> QED
      BY <3>1, SpendsSpent DEF Spent
  <2> QED
    BY <2>1, <2>2
<1>3. Plain(r.s) /\ r.ret \in Rets
  BY <1>2 DEF Plain, SameRest, Rets
<1>4. Fate(r) = r.s \/ Closed(r.s, Fate(r))
  BY <1>2, <1>3, FateIs
<1>5. Fate(r).retry1 = r.s.retry1
  BY <1>2, <1>4, ClosedSays DEF Keeps
<1> QED
  BY <1>1, <1>2, <1>5

LEMMA StartKeeps ==
  ASSUME Counts, DialogueInv, setup.type \in Dialogues, Start
  PROVE  DialogueInv'
<1>1. /\ setup' = setup /\ issued' = issued /\ main' = "work" /\ resends' = resends /\ renewals' = renewals
      /\ main = "start"
  BY DEF Start, history
<1>2. PICK ok \in BOOLEAN : s' = Fate(StatusQueryFunc(s, ok)) /\ Sent(StatusQueryFunc(s, ok))
  BY SetupIs DEF Start, Counts
<1>3. /\ Core(setup, s, issued) /\ Tries(s, resends + renewals) /\ Begins(s) /\ s \in Servers
      /\ s.status.type \in Dialogues
  BY <1>1 DEF DialogueInv, Core
<1>4. s.retry1 >= 0 /\ Repeats(s) = 0 /\ s.name = "none" /\ HasNone(s) /\ s.open
  BY <1>3, QServerAssumption DEF Begins, Repeats
<1>5. PICK spent \in Nat : spent = resends + renewals
  BY DEF Counts
<1>6. Good(setup, s, issued, spent + Repeats(s), StatusQueryOf(s, ok))
  BY <1>3, <1>4, <1>5, StatusGood
<1>7. spent + Repeats(s) = resends' + renewals'
  BY <1>1, <1>4, <1>5
<1>8. PICK r : r = StatusQueryOf(s, ok)
  OBVIOUS
<1>9. Good(setup, s, issued, resends' + renewals', r) /\ AddsOnly(r) /\ s' = Fate(r)
  BY <1>2, <1>3, <1>6, <1>7, <1>8, FunctionsOf DEF AddsOnly
<1> QED
  BY <1>1, <1>4, <1>9, Outcome

LEMMA ArrivesFine ==
  ASSUME Counts, DialogueInv, setup.type \in Dialogues, s.open, NEW m \in Arrivals
  PROVE  Comes(setup, s, issued, m)
<1>1. /\ ~TcpConnect(setup)
      /\ \A r, k : Reply(setup, r, k, issued) = ChallengedReply(setup, r, k, issued)
  BY HandlerOf DEF Dialogues, Types
<1> DEFINE replies == UNION {Reply(setup, asked[k], k, issued) : k \in DOMAIN asked}
<1>2. ASSUME NEW x \in replies
      PROVE  Comes(setup, s, issued, x) /\ ("bad" \in DOMAIN x => x \in Message4)
  <2>1. PICK k \in DOMAIN asked : x \in ChallengedReply(setup, asked[k], k, issued)
    BY <1>1, <1>2
  <2>2. RequestFine(setup, s, issued, asked[k]) /\ k \in Nat
    BY DEF DialogueInv, AskedFine
  <2> QED
    BY <2>1, <2>2, ReplyComes DEF Counts
<1>3. \/ m \in replies
      \/ m \in {[kind |-> "odd"]}
      \/ m \in {[x EXCEPT !.bad = fault] : x \in {r \in replies : "bad" \in DOMAIN r}, fault \in {"front", "behind"}}
  BY <1>1 DEF Arrivals
<1> HIDE DEF replies
<1>4. CASE m \in replies
  BY <1>2, <1>4
<1>5. CASE m \in {[kind |-> "odd"]}
  <2>1. m.kind = "odd"
    BY <1>5
  <2> QED
    BY <2>1 DEF Comes
<1>6. CASE m \in {[x EXCEPT !.bad = fault] : x \in {r \in replies : "bad" \in DOMAIN r}, fault \in {"front", "behind"}}
  <2>1. PICK x \in replies, fault \in {"front", "behind"} : "bad" \in DOMAIN x /\ m = [x EXCEPT !.bad = fault]
    BY <1>6
  <2>2. x \in Message4 /\ Comes(setup, s, issued, x)
    BY <1>2, <2>1
  <2> QED
    BY <2>1, <2>2, FaultComes
<1> QED
  BY <1>3, <1>4, <1>5, <1>6

LEMMA HandleKeeps ==
  ASSUME Counts, DialogueInv, setup.type \in Dialogues, Handle
  PROVE  DialogueInv'
<1>1. setup' = setup /\ issued' = issued /\ main' = "work" /\ main = "work" /\ resends' = resends /\ s.open
  BY DEF Handle
<1>2. PICK m \in Arrivals, ok \in BOOLEAN :
        /\ s' = Fate(PacketFunc(s, m, ok)) /\ Sent(PacketFunc(s, m, ok))
        /\ renewals' = IF m.kind = "challenge" /\ s.status.haveChallenge THEN renewals + 1 ELSE renewals
  BY SetupIs DEF Handle, Counts
<1>3. /\ Core(setup, s, issued) /\ Tries(s, resends + renewals) /\ Stage(s) /\ s \in Servers
      /\ s.status.type \in Dialogues
  BY <1>1 DEF DialogueInv, Core
<1>4. Comes(setup, s, issued, m)
  BY <1>1, <1>2, ArrivesFine
<1>5. PICK spent \in Nat : spent = resends + renewals
  BY DEF Counts
<1>6. Good(setup, s, issued, spent + Renews(s, m), DialoguePacket(s, m, ok))
  BY <1>3, <1>4, <1>5, PacketGood DEF Counts
<1>7. spent + Renews(s, m) = resends' + renewals'
  BY <1>1, <1>2, <1>5 DEF Renews, Counts
<1>8. PICK r : r = DialoguePacket(s, m, ok)
  OBVIOUS
<1>9. Good(setup, s, issued, resends' + renewals', r) /\ AddsOnly(r) /\ s' = Fate(r)
  BY <1>2, <1>3, <1>6, <1>7, <1>8, FunctionsOf DEF AddsOnly
<1> QED
  BY <1>1, <1>9, Outcome

LEMMA AsksAgainKeeps ==
  ASSUME Counts, DialogueInv, setup.type \in Dialogues, s.open, main = "work", main' = "work", setup' = setup,
         issued' = issued, renewals' = renewals, AsksAgain
  PROVE  DialogueInv'
<1>2. PICK ok \in BOOLEAN : s' = Fate(StatusQueryFunc(s, ok)) /\ Sent(StatusQueryFunc(s, ok))
  BY SetupIs DEF AsksAgain, Counts
<1>3. /\ Core(setup, s, issued) /\ Tries(s, resends + renewals) /\ Stage(s) /\ s \in Servers
      /\ s.status.type \in Dialogues /\ s.numPlayers = 0 /\ ~s.hasFound
  BY DEF DialogueInv, Core
<1>4. s.retry1 >= 1 /\ s.name = "none" /\ HasNone(s) /\ s.retry1 \in Int
  BY <1>3, Fields DEF AsksAgain, AsksStatus, Nameless, Stage, Unnamed
<1>5. PICK spent \in Nat : spent = resends + renewals
  BY DEF Counts
<1>6. Good(setup, s, issued, spent + Repeats(s), StatusQueryOf(s, ok))
  BY <1>3, <1>4, <1>5, StatusGood
<1>7. s'.retry1 # s.retry1
  BY <1>2, <1>3, <1>4, FunctionsOf, StatusTries
<1>8. spent + Repeats(s) = resends' + renewals'
  BY <1>5, <1>7 DEF AsksAgain, Resent, Repeats, Counts
<1>9. PICK r : r = StatusQueryOf(s, ok)
  OBVIOUS
<1>10. Good(setup, s, issued, resends' + renewals', r) /\ AddsOnly(r) /\ s' = Fate(r)
  BY <1>2, <1>3, <1>6, <1>8, <1>9, FunctionsOf DEF AddsOnly
<1> QED
  BY <1>10, Outcome

LEMMA EndsIs ==
  ASSUME NEW t, NEW ret
  PROVE  LET r == Ends(t, ret) IN r.s = t /\ r.ret = ret /\ r.out = <<>>
BY DEF Ends

LEMMA GivesUpQueryKeeps ==
  ASSUME Counts, DialogueInv, setup.type \in Dialogues, s.open, main = "work", main' = "work", setup' = setup,
         issued' = issued, renewals' = renewals, GivesUpQuery
  PROVE  DialogueInv'
<1>1. Core(setup, s, issued) /\ Tries(s, resends + renewals)
  BY DEF DialogueInv
<1>2. PICK r : r = Ends(s, "DONE_FORCE")
  OBVIOUS
<1>3. r.s = s /\ r.ret = "DONE_FORCE" /\ r.out = <<>>
  BY <1>2, EndsIs
<1>4. resends' = resends /\ asked' = asked /\ s' = Fate(r)
  BY <1>3 DEF GivesUpQuery, Fate, Errors
<1>5. Good(setup, s, issued, resends' + renewals', r)
  BY <1>1, <1>3, <1>4 DEF Good, Rets
<1> QED
  BY <1>4, <1>5, Outcome DEF AddsOnly

LEMMA GivesUpRulesKeeps ==
  ASSUME Counts, DialogueInv, setup.type \in Dialogues, s.open, main = "work", main' = "work", setup' = setup,
         issued' = issued, renewals' = renewals, GivesUpRules
  PROVE  DialogueInv'
<1>1. Core(setup, s, issued) /\ Tries(s, resends + renewals) /\ Stage(s) /\ s \in Servers
  BY DEF DialogueInv, Core
<1>2. s.name # "none"
  BY <1>1, PastStatusNamed DEF GivesUpRules, Stage
<1>3. PICK u : u = [s EXCEPT !.rule = FALSE, !.missing = TRUE]
  OBVIOUS
<1>4. /\ u \in Servers /\ SameRest(s, u) /\ u.saved = s.saved /\ u.status = s.status /\ u.name = s.name
      /\ u.open = s.open /\ u.retry1 = s.retry1 /\ u.retries = s.retries /\ ~u.rule
  BY <1>1, <1>3 DEF Servers, SameRest
<1>5. PICK r : r = Ends(u, "DONE_AUTO")
  OBVIOUS
<1>6. r.s = u /\ r.ret = "DONE_AUTO" /\ r.out = <<>>
  BY <1>5, EndsIs
<1>7. resends' = resends /\ asked' = asked /\ s' = Fate(r)
  BY <1>3, <1>6 DEF GivesUpRules, Fate, Errors
<1>8. Core(setup, u, issued) /\ (Vouched(setup, s) <=> Vouched(setup, u))
  BY <1>1, <1>4, SameCore
<1>9. Tries(u, resends' + renewals')
  BY <1>1, <1>4, <1>7 DEF Tries
<1>10. Good(setup, s, issued, resends' + renewals', r)
  BY <1>2, <1>4, <1>6, <1>8, <1>9 DEF Good, Rets
<1> QED
  BY <1>7, <1>10, Outcome DEF AddsOnly

LEMMA AsksRulesKeeps ==
  ASSUME Counts, DialogueInv, setup.type \in Dialogues, s.open, main = "work", main' = "work", setup' = setup,
         issued' = issued, renewals' = renewals, AsksRules
  PROVE  DialogueInv'
<1>1. PICK ok \in BOOLEAN, more \in BOOLEAN :
        LET rules == RuleQueryFunc(s, ok)
            result == After(rules, PlayerStage(rules.s, more))
        IN s' = result.s /\ Sent(result)
  BY SetupIs DEF AsksRules, Counts
<1>2. /\ Core(setup, s, issued) /\ Tries(s, resends + renewals) /\ Stage(s) /\ s \in Servers
      /\ s.status.type \in Dialogues
  BY DEF DialogueInv, Core
<1>3. s.name # "none" /\ s.retry1 >= 1 /\ Unnamed(s) /\ Named(s)
  BY <1>2, PastStatusNamed DEF AsksRules, Stage
<1>4. PICK rules : rules = RuleQueryFunc(s, ok)
  OBVIOUS
<1>5. /\ Core(setup, rules.s, issued) /\ rules.s \in Servers /\ rules.s.open = s.open /\ rules.s.name = s.name
      /\ rules.s = s \/ Spent(s, rules.s)
      /\ Stage(rules.s)
      /\ Vouched(setup, s) => Vouched(setup, rules.s)
      /\ \E request : rules.out = <<>> \/ (rules.out = <<request>> /\ RequestFine(setup, rules.s, issued, request))
  <2>1. CASE s.status.type = "a2s"
    <3>1. rules = A2SRuleQuery(s, ok)
      BY <1>2, <1>4, <2>1, FunctionsOf DEF RuleQueryOf
    <3> QED
      BY <1>2, <1>3, <3>1, A2SRuleGood
  <2>2. CASE s.status.type # "a2s"
    <3>1. rules = FLRuleQuery(s, ok)
      BY <1>2, <1>4, <2>2, FunctionsOf DEF RuleQueryOf
    <3> QED
      BY <1>2, <1>3, <3>1, FLRuleGood
  <2> QED
    BY <2>1, <2>2
<1>6. PICK request : rules.out = <<>> \/ (rules.out = <<request>> /\ RequestFine(setup, rules.s, issued, request))
  BY <1>5
<1>7. PlayerStage(rules.s, more) = Ends(rules.s, "INPROGRESS")
  BY <1>5, NoPlayerStage DEF Core
<1>8. PICK r : r = After(rules, Ends(rules.s, "INPROGRESS"))
  OBVIOUS
<1>9. r.s = rules.s /\ r.out = rules.out
  BY <1>6, <1>8, AfterIs
<1>10. s' = rules.s /\ Sent(r)
  BY <1>1, <1>4, <1>7, <1>8, <1>9
<1>11. Tries(s', resends' + renewals')
  <2>1. PICK spent \in Nat : spent = resends + renewals
    BY DEF Counts
  <2>2. CASE s' = s
    <3>1. resends' = resends
      BY <2>2 DEF AsksRules, Resent
    <3> QED
      BY <1>2, <2>2, <3>1
  <2>3. CASE Spent(s, s')
    <3>4. PICK u \in Servers : u = s' /\ Spent(s, u)
      BY <1>5, <1>10, <2>3
    <3>5. Tries(s, spent) /\ s.retry1 >= 0 /\ s \in Servers
      BY <1>2, <1>3, <2>1, Fields
    <3>6. Tries(u, IF s.retry1 = NRetries THEN spent ELSE spent + 1)
      BY <3>4, <3>5, SpentTries
    <3>1. Tries(s', IF s.retry1 = NRetries THEN spent ELSE spent + 1)
      BY <3>4, <3>6
    <3>2. s'.retry1 # s.retry1
      BY <1>2, <2>3, Fields DEF Spent
    <3>3. resends' + renewals' = IF s.retry1 = NRetries THEN spent ELSE spent + 1
      BY <2>1, <3>2 DEF AsksRules, Resent, Counts
    <3> QED
      BY <3>1, <3>3
  <2> QED
    BY <1>5, <1>10, <2>2, <2>3
<1>12. r.out = <<>> \/ (r.out = <<request>> /\ RequestFine(setup, s', issued, request))
  BY <1>6, <1>9, <1>10
<1> QED
  BY <1>5, <1>10, <1>11, <1>12, Settles DEF AddsOnly

\* A server whose rules are still to come is all there is work for.
LEMMA NothingElse ==
  ASSUME DialogueInv, setup.type \in Dialogues, s.open, main = "work"
  PROVE  ~AsksPlayers /\ ~SendsNothing
<1>1. Stage(s) /\ s \in Servers
  BY DEF DialogueInv, Core
<1>2. ASSUME PastStatus
      PROVE  s.rule
  BY <1>1, <1>2, PastStatusNamed DEF Stage, Named
<1> QED
  BY <1>2 DEF AsksPlayers, SendsNothing

LEMMA TickKeeps ==
  ASSUME Counts, DialogueInv, setup.type \in Dialogues, Tick
  PROVE  DialogueInv'
<1>1. /\ Core(setup, s, issued) /\ Tries(s, resends + renewals) /\ AskedFine /\ s \in Servers
      /\ main = "work" /\ s.open /\ Stage(s)
  BY DEF DialogueInv, Core, Tick
<1>2. Waited(s, s')
  BY <1>1, TickIs
<1>3. /\ setup' = setup /\ main' = main /\ asked' = asked /\ issued' = issued
      /\ resends' = resends /\ renewals' = renewals
  BY DEF Tick, history
<1>4. PICK u : u = s'
  OBVIOUS
<1>5. Waited(s, u)
  BY <1>2, <1>4
<1>6. /\ Core(setup, u, issued) /\ (Vouched(setup, s) <=> Vouched(setup, u))
  <2>1. SameRest(s, u) \/ u.elapsed2 # s.elapsed2
    BY <1>5 DEF Waited, SameRest
  <2> QED
    BY <1>1, <1>5 DEF Waited, Core, Vouched, MessageFine
<1>7. Stage(u) /\ Tries(u, resends + renewals)
  <2>1. A2SHasAll(u) <=> A2SHasAll(s)
    BY <1>5 DEF Waited, A2SHasAll
  <2> QED
    BY <1>1, <1>5, <2>1 DEF Waited, Stage, Unnamed, Named, HasNone, Tries
<1>8. AskedFine'
  <2>1. \A r : RequestFine(setup, s, issued, r) => RequestFine(setup, s', issued, r)
    BY <1>2, <1>4, <1>6, StillFine DEF Waited
  <2> QED
    BY <1>1, <1>3, <2>1 DEF AskedFine
<1> QED
  BY <1>1, <1>3, <1>4, <1>6, <1>7, <1>8 DEF DialogueInv

LEMMA RotateKeeps ==
  ASSUME Counts, DialogueInv, setup.type \in Dialogues, Rotate
  PROVE  DialogueInv'
<1>1. /\ Core(setup, s, issued) /\ Tries(s, resends + renewals) /\ AskedFine /\ main = "work" /\ s.open /\ Stage(s)
  BY DEF DialogueInv, Rotate
<1>2. /\ setup' = setup /\ s' = s /\ main' = main /\ asked' = asked /\ issued' = issued + 1
      /\ resends' = resends /\ renewals' = renewals
  BY DEF Rotate, history
<1>3. ASSUME NEW c, Held(setup, issued, c)
      PROVE  Held(setup, issued + 1, c)
  BY <1>3 DEF Held, Counts
<1>4. Core(setup, s, issued + 1)
  BY <1>1, <1>3 DEF Core
<1>5. \A r : RequestFine(setup, s, issued, r) => RequestFine(setup, s, issued + 1, r)
  BY <1>3 DEF RequestFine
<1> QED
  BY <1>1, <1>2, <1>4, <1>5 DEF DialogueInv, AskedFine

LEMMA DialogueSteps ==
  ASSUME Counts, DialogueInv, [Next]_all
  PROVE  DialogueInv'
<1>1. Counts' /\ setup' = setup
  BY CountsSteps
<1>2. CASE setup.type \notin Dialogues
  BY <1>1, <1>2 DEF DialogueInv
<1>3. CASE setup.type \in Dialogues
  <2>1. CASE Start
    BY <1>3, <2>1, StartKeeps
  <2>2. CASE Handle
    BY <1>3, <2>2, HandleKeeps
  <2>3. CASE SendPackets
    <3>1. s.open /\ main = "work" /\ main' = "work" /\ setup' = setup /\ issued' = issued /\ renewals' = renewals
      BY <2>3 DEF SendPackets
    <3>2. GivesUpQuery \/ AsksAgain \/ GivesUpRules \/ AsksRules
      BY <1>3, <2>3, <3>1, NothingElse DEF SendPackets
    <3> QED
      BY <1>3, <3>1, <3>2, GivesUpQueryKeeps, AsksAgainKeeps, GivesUpRulesKeeps, AsksRulesKeeps
  <2>4. CASE Tick
    BY <1>3, <2>4, TickKeeps
  <2>5. CASE Rotate
    BY <1>3, <2>5, RotateKeeps
  <2>6. CASE Over \/ UNCHANGED all
    <3>1. UNCHANGED all
      BY <2>6 DEF Over
    <3>2. /\ setup' = setup /\ s' = s /\ main' = main /\ asked' = asked /\ issued' = issued
          /\ resends' = resends /\ renewals' = renewals
      BY <3>1 DEF all, history
    <3> QED
      BY <3>2 DEF DialogueInv, AskedFine
  <2> QED
    BY <2>1, <2>2, <2>3, <2>4, <2>5, <2>6 DEF Next
<1> QED
  BY <1>2, <1>3

\* The retries a2s.c and fl.c show for a server are queries that were repeated,
\* or asked again under a new challenge: a challenge that comes, however often,
\* is not counted as one.
THEOREM RetriesCounted == QueriesSpec => []RetriesAreResends
<1>1. Counts /\ DialogueInv => RetriesAreResends
  BY DEF DialogueInv, RetriesAreResends, Tries, Dialogues
<1>2. InitQueries => Counts /\ DialogueInv
  BY DialogueStarts
<1>3. Counts /\ DialogueInv /\ [Next]_all => (Counts /\ DialogueInv)'
  BY CountsSteps, DialogueSteps
<1> QED
  BY <1>1, <1>2, <1>3, PTL DEF QueriesSpec

-----------------------------------------------------------------------------
\* Gamespy 3 and 4.

LEMMA SeqBounded ==
  ASSUME NEW q \in Seq(Nat)
  PROVE  \E b \in Nat : \A k \in DOMAIN q : q[k] <= b
<1>1. PICK l \in Nat : DOMAIN q = 1 .. l
  OBVIOUS
<1>2. \A k \in 1 .. l : q[k] \in Nat
  BY <1>1
<1> DEFINE Bounded(j) == \E b \in Nat : \A k \in 1 .. j : q[k] <= b
           unbounded == {j \in 0 .. l : ~Bounded(j)}
<1>3. ASSUME unbounded # {}
      PROVE  FALSE
  <2>1. PICK j \in unbounded : \A i \in unbounded : j <= i
    <3>1. unbounded \in SUBSET Nat
      BY <1>1
    <3> HIDE DEF unbounded
    <3> QED
      BY <1>3, <3>1, LeastNumber
  <2>2. j \in 0 .. l /\ ~Bounded(j) /\ j \in Nat
    BY <1>1, <2>1
  <2>3. j # 0
    BY <2>2
  <2>4. j - 1 \in 0 .. l /\ j - 1 \notin unbounded
    <3>1. j - 1 \in 0 .. l
      BY <1>1, <2>2, <2>3
    <3>2. ~(j <= j - 1)
      BY <2>2
    <3> HIDE DEF unbounded
    <3> QED
      BY <2>1, <3>1, <3>2
  <2>5. PICK b \in Nat : \A k \in 1 .. j - 1 : q[k] <= b
    BY <2>4
  <2>6. q[j] \in Nat
    BY <1>1, <1>2, <2>2, <2>3
  <2>9. PICK m \in Nat : m = q[j]
    BY <2>6
  <2>7. PICK c \in Nat : c >= b /\ c >= q[j]
    <3>1. \A x, y \in Nat : x + y \in Nat /\ x + y >= x /\ x + y >= y
      OBVIOUS
    <3> HIDE DEF unbounded
    <3>2. b + m \in Nat /\ b + m >= b /\ b + m >= m
      BY <2>5, <2>9, <3>1
    <3> QED
      BY <2>9, <3>2
  <2>8. ASSUME NEW k \in 1 .. j
        PROVE  q[k] <= c
    <3>1. CASE k = j
      BY <2>7, <3>1
    <3>2. CASE k # j
      <4>1. k \in 1 .. j - 1 /\ k \in 1 .. l
        BY <1>1, <2>2, <3>2
      <4>2. q[k] <= b /\ q[k] \in Nat
        BY <1>2, <2>5, <4>1
      <4>3. \A x, y, z \in Nat : x <= y /\ z >= y => x <= z
        OBVIOUS
      <4> HIDE DEF unbounded
      <4> QED
        BY <2>5, <2>7, <4>2, <4>3
    <3> QED
      BY <3>1, <3>2
  <2> QED
    BY <2>2, <2>7, <2>8
<1>4. l \notin unbounded
  BY <1>3
<1>5. Bounded(l)
  BY <1>1, <1>4
<1> QED
  BY <1>1, <1>5

LEMMA MaxOfBounded ==
  ASSUME NEW m \in SUBSET Nat, m # {}, NEW b \in Nat, \A x \in m : x <= b
  PROVE  Max(m) \in m /\ \A x \in m : Max(m) >= x
<1>1. PICK least \in Nat : /\ \A x \in m : x <= least
                           /\ \A c \in Nat : (\A x \in m : x <= c) => least <= c
  <2> DEFINE bounds == {c \in Nat : \A x \in m : x <= c}
  <2>1. PICK least \in bounds : \A c \in bounds : least <= c
    <3>1. b \in bounds
      OBVIOUS
    <3> QED
      BY <3>1, LeastNumber
  <2> QED
    BY <2>1
<1>2. least \in m
  <2>1. SUFFICES ASSUME least \notin m
                 PROVE  FALSE
    OBVIOUS
  <2>2. \A x \in m : x \in Nat /\ x <= least - 1
    BY <1>1, <2>1
  <2>4. PICK x \in m : TRUE
    OBVIOUS
  <2>3. least - 1 \in Nat
    BY <1>1, <2>2, <2>4
  <2> QED
    BY <1>1, <2>2, <2>3
<1> QED
  BY <1>1, <1>2 DEF Max

LEMMA AddPacketTyped ==
  ASSUME NEW saved \in Seq(Kept), NEW f \in Kept
  PROVE  AddPacket(saved, f) \in Seq(Kept)
<1>1. CASE saved = <<>>
  BY <1>1 DEF AddPacket
<1>2. CASE saved # <<>>
  <2> DEFINE m == {f.max} \cup {saved[k].max : k \in DOMAIN saved}
  <2>1. PICK max : max = Max(m)
    OBVIOUS
  <2>2. max \in Nat
    <3>1. PICK q \in Seq(Nat) : DOMAIN q = DOMAIN saved /\ \A k \in DOMAIN saved : q[k] = saved[k].max
      <4> DEFINE q == [k \in 1 .. Len(saved) |-> saved[k].max]
      <4>1. \A k \in 1 .. Len(saved) : saved[k].max \in Nat
        BY KeptFields
      <4>2. q \in Seq(Nat) /\ DOMAIN q = DOMAIN saved /\ \A k \in DOMAIN saved : q[k] = saved[k].max
        BY <4>1
      <4> QED
        BY <4>2
    <3>2. PICK b \in Nat : \A k \in DOMAIN q : q[k] <= b
      BY SeqBounded
    <3>3. f.max \in Nat /\ \A k \in DOMAIN saved : saved[k] \in Kept /\ saved[k].max \in Nat
      BY KeptFields
    <3>4. PICK c \in Nat : c = IF b >= f.max THEN b ELSE f.max
      BY <3>3
    <3>5. m \in SUBSET Nat /\ m # {}
      BY <3>3
    <3>6. \A x \in m : x <= c
      BY <3>1, <3>2, <3>3, <3>4
    <3> HIDE DEF m
    <3>7. Max(m) \in m
      BY <3>5, <3>6, MaxOfBounded
    <3> QED
      BY <2>1, <3>5, <3>7
  <2>3. PICK g \in Kept : g = [f EXCEPT !.max = max]
    BY <2>2 DEF Kept
  <2>4. Raised(saved, max) \in Seq(Kept)
    <3>1. \A h \in Kept : [h EXCEPT !.max = max] \in Kept
      BY <2>2 DEF Kept
    <3>2. PICK l \in Nat : DOMAIN saved = 1 .. l /\ \A k \in 1 .. l : saved[k] \in Kept
      OBVIOUS
    <3>3. \A k \in 1 .. l : [saved[k] EXCEPT !.max = max] \in Kept
      BY <3>1, <3>2
    <3>4. [k \in 1 .. l |-> [saved[k] EXCEPT !.max = max]] \in Seq(Kept)
      BY <3>3
    <3> QED
      BY <3>2, <3>4 DEF Raised
  <2>5. AddPacket(saved, f) = Insert(Raised(saved, max), g)
    BY <1>2, <2>1, <2>3 DEF AddPacket
  <2> QED
    BY <2>4, <2>5, InsertIs
<1> QED
  BY <1>1, <1>2

GSTypes == {"gs3", "gs4"}
\* g is the setup, t the server, n the challenges made up so far.
GSCore(g, t, n) ==
  /\ t \in Servers /\ t.numPlayers = 0 /\ ~t.hasFound
  /\ t.status.type \in GSTypes /\ t.status.challenge \in 0 .. n
  /\ t.status.type = g.type \/ "old" \in g.server
GSStage(t) == t.name = "none" /\ t.retry1 < NRetries
GSRequest(g, n, r) ==
  /\ r \in Requests /\ r.kind \in {"challenge", "status", "all"}
  /\ g.type = "gs4" /\ r.kind # "challenge" => r.challenge \in 1 .. n \/ "old" \in g.server
GSGood(g, n, r) ==
  /\ r.ret \in Rets \ {"DONE_AUTO"} /\ GSCore(g, r.s, n)
  /\ r.ret = "INPROGRESS" => GSStage(r.s)
  /\ \E request : r.out = <<>> \/ (r.out = <<request>> /\ GSRequest(g, n, request))

LEMMA GSRequestFine ==
  ASSUME NEW g, NEW t, NEW n \in Nat, GSCore(g, t, n)
  PROVE  GSRequest(g, n, GS3Request(t))
<1>1. t.status.challenge \in Int /\ NoChallenge \in Int
  BY DEF GSCore, NoChallenge
<1>2. \A kind \in {"challenge", "status", "all"}, c \in Int :
        LET r == Request(kind, c) IN r \in Requests /\ r.kind = kind /\ r.challenge = c
  BY RequestIs DEF Kinds
<1>3. CASE t.status.type = "gs4" /\ t.status.challenge = 0
  BY <1>1, <1>2, <1>3 DEF GS3Request, GSRequest
<1>4. CASE ~(t.status.type = "gs4" /\ t.status.challenge = 0)
  <2>1. PICK kind \in {"status", "all"} : kind = IF t.want = {} THEN "status" ELSE "all"
    OBVIOUS
  <2>2. GS3Request(t) = Request(kind, t.status.challenge)
    BY <1>4, <2>1 DEF GS3Request
  <2>3. g.type = "gs4" => t.status.challenge \in 1 .. n \/ "old" \in g.server
    BY <1>4 DEF GSCore, GSTypes
  <2> QED
    BY <1>1, <1>2, <2>2, <2>3 DEF GSRequest
<1> QED
  BY <1>3, <1>4

LEMMA GSStatusGood ==
  ASSUME NEW g, NEW t, NEW n \in Nat, GSCore(g, t, n), NEW ok, t.name = "none", t.retry1 <= NRetries
  PROVE  GSGood(g, n, GS3StatusQuery(t, ok))
<1>0. t \in Servers
  BY DEF GSCore
<1>1. CASE ok
  <2>1. PICK u : u = RegisterSend(t)
    OBVIOUS
  <2>2. Spends(t, u)
    BY <1>0, <2>1, RegisterSpends
  <2>3. GSCore(g, u, n)
    BY <2>2 DEF Spends, Same, GSCore
  <2>4. GSStage(u)
    BY <1>0, <2>2, Fields, QServerAssumption DEF Spends, Same, GSStage
  <2>5. PICK request : request = GS3Request(t)
    OBVIOUS
  <2>6. GS3StatusQuery(t, ok) = Asks(u, "INPROGRESS", request)
    BY <1>1, <2>1, <2>5 DEF GS3StatusQuery, SendPacket
  <2>7. GSRequest(g, n, request)
    BY <2>5, GSRequestFine
  <2> QED
    BY <2>3, <2>4, <2>6, <2>7, ResultIs DEF GSGood, Rets
<1>2. CASE ~ok
  <2>1. GS3StatusQuery(t, ok) = Ends(t, "SYS_ERROR")
    BY <1>2 DEF GS3StatusQuery, SendPacket
  <2>2. PICK r : r = Ends(t, "SYS_ERROR")
    OBVIOUS
  <2>3. r.s = t /\ r.ret = "SYS_ERROR" /\ r.out = <<>>
    BY <2>2, EndsIs
  <2>4. GSGood(g, n, r)
    BY <2>3 DEF GSGood, Rets
  <2> QED
    BY <2>1, <2>2, <2>4
<1> QED
  BY <1>1, <1>2

\* What may arrive.
GSComes(g, n, m) ==
  \/ m.kind \notin {"fallback", "challenge", "fragment"}
  \/ m.kind = "fallback" /\ "old" \in g.server
  \/ Challenge(n, m)
  \/ Piece(m)

LEMMA GSAgainGood ==
  ASSUME NEW g, NEW t, NEW n \in Nat, GSCore(g, t, n), GSStage(t), NEW ok,
         NEW status \in Statuses, status.type \in GSTypes, status.challenge \in 0 .. n,
         status.type = g.type \/ "old" \in g.server,
         NEW v, v = [t EXCEPT !.status = status]
  PROVE  GSGood(g, n, GS3Again(v, ok))
<1>1. t \in Servers /\ t.retry1 \in Int /\ t.retry1 < NRetries /\ NRetries \in Int
  BY Fields, QServerAssumption DEF GSCore, GSStage
<1>2. v \in Servers /\ v.name = t.name /\ v.retry1 = t.retry1 /\ v.status = status /\ v.numPlayers = t.numPlayers
      /\ v.hasFound = t.hasFound
  BY <1>1 DEF Servers
<1>3. PICK r \in Int : r = v.retry1 + 1 /\ r <= NRetries
  BY <1>1, <1>2
<1>4. PICK u : u = [v EXCEPT !.retry1 = r]
  OBVIOUS
<1>5. u \in Servers /\ u.name = v.name /\ u.retry1 = r /\ u.status = v.status /\ u.numPlayers = v.numPlayers
      /\ u.hasFound = v.hasFound
  BY <1>2, <1>3, <1>4 DEF Servers
<1>6. GSCore(g, u, n) /\ u.name = "none" /\ u.retry1 <= NRetries
  BY <1>2, <1>3, <1>5 DEF GSCore, GSStage
<1>7. GS3Again(v, ok) = GS3StatusQuery(u, ok)
  BY <1>3, <1>4 DEF GS3Again
<1> QED
  BY <1>6, <1>7, GSStatusGood

LEMMA GSEndsGood ==
  ASSUME NEW g, NEW t, NEW n, GSCore(g, t, n), NEW ret \in Rets \ {"DONE_AUTO"}, ret = "INPROGRESS" => GSStage(t)
  PROVE  GSGood(g, n, Ends(t, ret))
<1>1. PICK r : r = Ends(t, ret)
  OBVIOUS
<1>2. r.s = t /\ r.ret = ret /\ r.out = <<>>
  BY <1>1, EndsIs
<1>3. GSGood(g, n, r)
  BY <1>2 DEF GSGood
<1> QED
  BY <1>1, <1>3

LEMMA GSWholeGood ==
  ASSUME NEW g, NEW t, NEW n, GSCore(g, t, n), NEW m
  PROVE  GSGood(g, n, GS3Whole(t, m))
<1>1. PICK u : u = [t EXCEPT !.name = "server"]
  OBVIOUS
<1>2. GSCore(g, u, n)
  BY <1>1 DEF GSCore, Servers
<1>3. GS3Whole(t, m) = Ends(u, "DONE_FORCE") \/ GS3Whole(t, m) = Ends(t, "PKT_ERROR")
  BY <1>1 DEF GS3Whole
<1> QED
  BY <1>2, <1>3, GSEndsGood DEF Rets

LEMMA GSPieceGood ==
  ASSUME NEW g, NEW t, NEW n, GSCore(g, t, n), GSStage(t), NEW m, Piece(m)
  PROVE  GSGood(g, n, LET c == GS3Fragment(t, m)
                          u == [t EXCEPT !.saved = c.saved]
                      IN IF c.ret = "call" THEN GS3Whole(u, Reassembled(c.data)) ELSE Ends(u, c.ret))
<1>1. PICK c : c = GS3Fragment(t, m)
  OBVIOUS
<1>2. c.saved \in Seq(Kept) /\ c.ret \in {"PKT_ERROR", "INPROGRESS", "call"}
  <2>1. m.index \in Nat /\ m.data \in Slices
    BY DEF Piece
  <2>2. PICK total \in Nat : total = Guessed(m)
    BY <2>1 DEF Guessed
  <2>3. PICK f : f = Fragment(0, m.index, total, m.data)
    OBVIOUS
  <2>4. f \in Kept
    BY <2>1, <2>2, <2>3 DEF Fragment, Kept
  <2>5. PICK more : more = AddPacket(t.saved, f)
    OBVIOUS
  <2>6. more \in Seq(Kept)
    BY <2>4, <2>5, AddPacketTyped, Fields DEF GSCore
  <2>7. c = Combine(more)
    BY <1>1, <2>2, <2>3, <2>5 DEF GS3Fragment
  <2> QED
    BY <2>6, <2>7, CombineTyped
<1>3. PICK u : u = [t EXCEPT !.saved = c.saved]
  OBVIOUS
<1>4. t \in Servers
  BY DEF GSCore
<1>5. u \in Servers /\ u.numPlayers = t.numPlayers /\ u.hasFound = t.hasFound /\ u.status = t.status
      /\ u.name = t.name /\ u.retry1 = t.retry1
  BY <1>2, <1>3, <1>4 DEF Servers
<1>6. GSCore(g, u, n) /\ GSStage(u)
  BY <1>5 DEF GSCore, GSStage
<1>7. CASE c.ret = "call"
  BY <1>1, <1>3, <1>6, <1>7, GSWholeGood
<1>8. CASE c.ret # "call"
  <2>1. c.ret \in Rets \ {"DONE_AUTO"}
    BY <1>2, <1>8 DEF Rets
  <2>2. GSGood(g, n, Ends(u, c.ret))
    BY <1>6, <2>1, GSEndsGood
  <2> QED
    BY <1>1, <1>3, <1>8, <2>2
<1> QED
  BY <1>7, <1>8

LEMMA GSPacketGood ==
  ASSUME NEW g, NEW t, NEW n \in Nat, GSCore(g, t, n), GSStage(t), NEW m, GSComes(g, n, m), NEW ok
  PROVE  GSGood(g, n, GS3Packet(t, m, ok))
<1>1. t \in Servers /\ t.status \in Statuses
  BY Fields DEF GSCore
<1>2. CASE m.kind = "fallback"
  <2>1. PICK status : status = [t.status EXCEPT !.type = "gs3"]
    OBVIOUS
  <2>2. status \in Statuses /\ status.type = "gs3" /\ status.challenge = t.status.challenge
    BY <1>1, <2>1 DEF Statuses, Types
  <2>3. "old" \in g.server
    BY <1>2 DEF GSComes, Challenge, Piece
  <2>4. PICK v : v = [t EXCEPT !.status = status]
    OBVIOUS
  <2>5. GS3Packet(t, m, ok) = GS3Again(v, ok)
    <3>1. [t EXCEPT !.status.type = "gs3"] = v
      BY <1>1, <2>1, <2>4 DEF Servers
    <3> QED
      BY <1>2, <3>1 DEF GS3Packet
  <2> QED
    BY <2>2, <2>3, <2>4, <2>5, GSAgainGood DEF GSCore, GSTypes
<1>3. CASE m.kind = "challenge"
  <2>0. m.challenge \in 1 .. n
    BY <1>3 DEF GSComes, Challenge, Piece
  <2>6. PICK c \in 1 .. n : c = m.challenge
    BY <2>0
  <2>1. PICK status : status = [t.status EXCEPT !.challenge = c]
    OBVIOUS
  <2>2. status \in Statuses /\ status.type = t.status.type /\ status.challenge = c
    BY <1>1, <2>1, <2>6 DEF Statuses, Types
  <2>4. PICK v : v = [t EXCEPT !.status = status]
    OBVIOUS
  <2>5. GS3Packet(t, m, ok) = GS3Again(v, ok)
    <3>1. [t EXCEPT !.status.challenge = c] = v
      BY <1>1, <2>1, <2>4 DEF Servers
    <3> QED
      BY <1>3, <2>6, <3>1 DEF GS3Packet
  <2>7. status.type \in GSTypes /\ (status.type = g.type \/ "old" \in g.server) /\ status.challenge \in 0 .. n
    BY <2>2, <2>6 DEF GSCore
  <2> QED
    BY <2>2, <2>4, <2>5, <2>7, GSAgainGood
<1>4. CASE m.kind = "fragment"
  <2>1. Piece(m)
    BY <1>4 DEF GSComes, Challenge
  <2> QED
    BY <1>4, <2>1, GSPieceGood DEF GS3Packet
<1>5. CASE m.kind \notin {"fallback", "challenge", "fragment"}
  BY <1>5, GSWholeGood DEF GS3Packet
<1> QED
  BY <1>2, <1>3, <1>4, <1>5

LEMMA GSReplyComes ==
  ASSUME NEW g \in Setups, NEW n \in Nat, NEW r, GSRequest(g, n, r), NEW k \in Nat,
         NEW m \in ChallengedReply(g, r, k, n)
  PROVE  GSComes(g, n, m) /\ ("bad" \in DOMAIN m => m \in Message4)
<1>1. r.kind \in {"challenge", "status", "all"}
  BY DEF GSRequest
<1>2. CASE r.kind = "status"
  <2>1. m = Message(g, "status")
    BY <1>2 DEF ChallengedReply
  <2> QED
    BY <2>1, MessageIs DEF GSComes
<1>3. CASE r.kind = "all"
  <2>1. m \in InParts(g, Message(g, "all"), k)
    BY <1>3 DEF ChallengedReply
  <2>2. PICK message \in Message4 : message = Message(g, "all") /\ message.kind = "all"
    BY MessageIs
  <2>3. m = message \/ (Piece(m) /\ "bad" \notin DOMAIN m)
    BY <2>1, <2>2, PartsAre
  <2> QED
    BY <2>2, <2>3 DEF GSComes
<1>4. CASE r.kind = "challenge"
  <2>1. ChallengedReply(g, r, k, n) = IF "old" \in g.server THEN {[kind |-> "fallback"]} ELSE NewChallenges(n)
    BY <1>4 DEF ChallengedReply
  <2>2. CASE "old" \in g.server
    <3>1. m = [kind |-> "fallback"]
      BY <2>1, <2>2
    <3>2. m.kind = "fallback" /\ "bad" \notin DOMAIN m
      BY <3>1
    <3> QED
      BY <2>2, <3>2 DEF GSComes
  <2>3. CASE "old" \notin g.server
    <3>1. PICK c \in 1 .. n : m = [kind |-> "challenge", challenge |-> c]
      BY <2>1, <2>3 DEF NewChallenges
    <3>2. m.kind = "challenge" /\ m.challenge = c /\ "bad" \notin DOMAIN m
      BY <3>1
    <3> QED
      BY <3>2 DEF GSComes, Challenge
  <2> QED
    BY <2>2, <2>3
<1> QED
  BY <1>1, <1>2, <1>3, <1>4

LEMMA GSFateGood ==
  ASSUME NEW g, NEW n, NEW r, GSGood(g, n, r)
  PROVE  GSCore(g, Fate(r), n) /\ (Fate(r).open => GSStage(Fate(r)))
<1>1. Plain(r.s) /\ r.ret \in Rets /\ r.ret # "DONE_AUTO" /\ r.s \in Servers
  BY DEF GSGood, GSCore, Plain
<1>2. CASE r.ret = "INPROGRESS"
  BY <1>1, <1>2, FateIs DEF GSGood
<1>3. CASE r.ret # "INPROGRESS"
  <2>1. PICK u : u = Fate(r) /\ Closed(r.s, u)
    BY <1>1, <1>3, FateIs
  <2>2. u \in Servers /\ Keeps(r.s, u) /\ ~u.open
    BY <1>1, <2>1, ClosedSays
  <2>3. u.numPlayers = 0 /\ ~u.hasFound
    BY <1>1, <2>1 DEF Closed, Plain, Servers
  <2> QED
    BY <2>1, <2>2, <2>3 DEF GSGood, GSCore, Keeps
<1> QED
  BY <1>2, <1>3

-----------------------------------------------------------------------------
\* The invariant of gs3 and gs4 holds.

GSAskedFine == asked \in Seq(Requests) /\ \A k \in DOMAIN asked : GSRequest(setup, issued, asked[k])
GSInv ==
  setup.type \in GSTypes =>
    /\ GSCore(setup, s, issued) /\ GSAskedFine
    /\ main = "start" => s.open /\ s.name = "none" /\ s.retry1 = NRetries
    /\ main = "work" /\ s.open => GSStage(s)

LEMMA GSFunctionsOf ==
  ASSUME NEW t, t.status.type \in GSTypes, NEW ok
  PROVE  /\ StatusQueryFunc(t, ok) = GS3StatusQuery(t, ok)
         /\ \A m : PacketFunc(t, m, ok) = GS3Packet(t, m, ok)
<1>1. Query(t) = "gs3" /\ Handler(t) = "gs3"
  BY TableSays DEF Query, Handler, GSTypes
<1>2. StatusQueryFunc(t, ok) = GS3StatusQuery(t, ok)
  BY <1>1 DEF StatusQueryFunc, PlainQueries, HttpQueries, MasterQueries
<1>3. \A m : PacketFunc(t, m, ok) = GS3Packet(t, m, ok)
  BY <1>1 DEF PacketFunc, Doom3Handlers, HttpHandlers
<1> QED
  BY <1>2, <1>3

LEMMA GSStarts ==
  ASSUME InitQueries
  PROVE  GSInv
<1> SUFFICES ASSUME setup.type \in GSTypes
             PROVE  /\ GSCore(setup, s, issued) /\ GSAskedFine /\ main = "start"
                    /\ s.open /\ s.name = "none" /\ s.retry1 = NRetries
  BY DEF GSInv
<1>1. setup.type \in Types /\ setup \in Setups
  BY DEF GSTypes, Types, InitQueries
<1>2. /\ s \in Servers /\ s.numPlayers = 0 /\ ~s.hasFound /\ s.status.type = setup.type
      /\ s.status.challenge = 0 /\ Begins(s)
  BY <1>1, InitialServer DEF InitQueries
<1>3. GSCore(setup, s, issued)
  BY <1>2 DEF GSCore, InitQueries
<1> QED
  BY <1>2, <1>3 DEF Begins, GSAskedFine, InitQueries

LEMMA GSOutcome ==
  ASSUME Counts, GSInv, setup.type \in GSTypes, setup' = setup, issued' = issued, main' = "work",
         NEW r, GSGood(setup, issued, r), AddsOnly(r), s' = Fate(r)
  PROVE  GSInv'
<1>1. GSCore(setup, s', issued) /\ (s'.open => GSStage(s'))
  BY GSFateGood
<1>2. PICK request : r.out = <<>> \/ (r.out = <<request>> /\ GSRequest(setup, issued, request))
  BY DEF GSGood
<1>3. asked \in Seq(Requests) /\ \A k \in DOMAIN asked : GSRequest(setup, issued, asked[k])
  BY DEF GSInv, GSAskedFine
<1>4. CASE Sent(r)
  <2>1. Adds(r, request)
    BY <1>2 DEF Adds, GSRequest
  <2>2. /\ asked' \in Seq(Requests)
        /\ \A k \in DOMAIN asked' : \/ \E j \in DOMAIN asked : asked'[k] = asked[j]
                                    \/ r.out = <<request>> /\ asked'[k] = request
    BY <1>3, <1>4, <2>1, SentIs
  <2>3. r.out = <<request>> => GSRequest(setup, issued, request)
    BY <1>2
  <2>4. \A k \in DOMAIN asked' : GSRequest(setup, issued, asked'[k])
    BY <1>3, <2>2, <2>3
  <2> QED
    BY <1>1, <2>2, <2>4 DEF GSInv, GSAskedFine
<1>5. CASE asked' = asked
  BY <1>1, <1>3, <1>5 DEF GSInv, GSAskedFine
<1> QED
  BY <1>4, <1>5 DEF AddsOnly

LEMMA GSArrivesFine ==
  ASSUME Counts, GSInv, setup.type \in GSTypes, NEW m \in Arrivals
  PROVE  GSComes(setup, issued, m)
<1>1. /\ ~TcpConnect(setup)
      /\ \A r, k : Reply(setup, r, k, issued) = ChallengedReply(setup, r, k, issued)
  BY HandlerOf DEF GSTypes, Types
<1> DEFINE replies == UNION {Reply(setup, asked[k], k, issued) : k \in DOMAIN asked}
<1>2. ASSUME NEW x \in replies
      PROVE  GSComes(setup, issued, x) /\ ("bad" \in DOMAIN x => x \in Message4)
  <2>1. PICK k \in DOMAIN asked : x \in ChallengedReply(setup, asked[k], k, issued)
    BY <1>1, <1>2
  <2>2. GSRequest(setup, issued, asked[k]) /\ k \in Nat
    BY DEF GSInv, GSAskedFine
  <2> QED
    BY <2>1, <2>2, GSReplyComes DEF Counts
<1>3. \/ m \in replies
      \/ m \in {[kind |-> "odd"]}
      \/ m \in {[x EXCEPT !.bad = fault] : x \in {r \in replies : "bad" \in DOMAIN r}, fault \in {"front", "behind"}}
  BY <1>1 DEF Arrivals
<1> HIDE DEF replies
<1>4. CASE m \in replies
  BY <1>2, <1>4
<1>5. CASE m \in {[kind |-> "odd"]}
  <2>1. m.kind = "odd"
    BY <1>5
  <2> QED
    BY <2>1 DEF GSComes
<1>6. CASE m \in {[x EXCEPT !.bad = fault] : x \in {r \in replies : "bad" \in DOMAIN r}, fault \in {"front", "behind"}}
  <2>1. PICK x \in replies, fault \in {"front", "behind"} : "bad" \in DOMAIN x /\ m = [x EXCEPT !.bad = fault]
    BY <1>6
  <2>2. x \in Message4
    BY <1>2, <2>1
  <2>3. m \in Message4
    BY <2>1, <2>2, FaultIs
  <2> QED
    BY <2>3 DEF GSComes, Message4
<1> QED
  BY <1>3, <1>4, <1>5, <1>6

LEMMA GSSteps ==
  ASSUME Counts, GSInv, [Next]_all
  PROVE  GSInv'
<1>0. Counts' /\ setup' = setup
  BY CountsSteps
<1> SUFFICES ASSUME setup.type \in GSTypes
             PROVE  GSInv'
  BY <1>0 DEF GSInv
<1>1. GSCore(setup, s, issued) /\ s \in Servers /\ s.status.type \in GSTypes /\ GSAskedFine
  BY DEF GSInv, GSCore
<1>2. CASE Start
  <2>1. issued' = issued /\ main' = "work" /\ main = "start"
    BY <1>2 DEF Start
  <2>2. PICK ok \in BOOLEAN : s' = Fate(StatusQueryFunc(s, ok)) /\ Sent(StatusQueryFunc(s, ok))
    BY <1>2, SetupIs DEF Start, Counts
  <2>3. s.name = "none" /\ s.retry1 <= NRetries
    BY <2>1, QServerAssumption DEF GSInv
  <2>4. PICK r : r = GS3StatusQuery(s, ok)
    OBVIOUS
  <2>5. GSGood(setup, issued, r) /\ AddsOnly(r) /\ s' = Fate(r)
    BY <1>1, <2>2, <2>3, <2>4, GSStatusGood, GSFunctionsOf DEF AddsOnly, Counts
  <2> QED
    BY <1>0, <2>1, <2>5, GSOutcome
<1>3. CASE Handle
  <2>1. issued' = issued /\ main' = "work" /\ main = "work" /\ s.open
    BY <1>3 DEF Handle
  <2>2. PICK m \in Arrivals, ok \in BOOLEAN : s' = Fate(PacketFunc(s, m, ok)) /\ Sent(PacketFunc(s, m, ok))
    BY <1>3, SetupIs DEF Handle, Counts
  <2>3. GSComes(setup, issued, m) /\ GSStage(s)
    BY <2>1, GSArrivesFine DEF GSInv
  <2>4. PICK r : r = GS3Packet(s, m, ok)
    OBVIOUS
  <2>5. GSGood(setup, issued, r) /\ AddsOnly(r) /\ s' = Fate(r)
    BY <1>1, <2>2, <2>3, <2>4, GSPacketGood, GSFunctionsOf DEF AddsOnly, Counts
  <2> QED
    BY <1>0, <2>1, <2>5, GSOutcome
<1>4. CASE SendPackets
  <2>1. issued' = issued /\ main' = "work" /\ main = "work" /\ s.open
    BY <1>4 DEF SendPackets
  <2>2. GSStage(s)
    BY <2>1 DEF GSInv
  <2>3. ~PastStatus
    BY <1>1, <2>2, PastStatusNamed DEF GSStage
  <2>4. GivesUpQuery \/ AsksAgain
    BY <1>4, <2>3 DEF SendPackets, GivesUpRules, AsksRules, AsksPlayers, SendsNothing
  <2>5. CASE GivesUpQuery
    <3>1. PICK r : r = Ends(s, "DONE_FORCE")
      OBVIOUS
    <3>2. r.s = s /\ r.ret = "DONE_FORCE" /\ r.out = <<>>
      BY <3>1, EndsIs
    <3>3. asked' = asked /\ s' = Fate(r)
      BY <2>5, <3>2 DEF GivesUpQuery, Fate, Errors
    <3>4. GSGood(setup, issued, r)
      BY <1>1, <3>2 DEF GSGood, Rets
    <3> QED
      BY <1>0, <2>1, <3>3, <3>4, GSOutcome DEF AddsOnly
  <2>6. CASE AsksAgain
    <3>1. PICK ok \in BOOLEAN : s' = Fate(StatusQueryFunc(s, ok)) /\ Sent(StatusQueryFunc(s, ok))
      BY <2>6, SetupIs DEF AsksAgain, Counts
    <3>2. PICK r : r = GS3StatusQuery(s, ok)
      OBVIOUS
    <3>3. s.name = "none" /\ s.retry1 <= NRetries
      BY <1>1, <2>2, Fields, QServerAssumption DEF GSStage
    <3>4. GSGood(setup, issued, r) /\ AddsOnly(r) /\ s' = Fate(r)
      BY <1>1, <3>1, <3>2, <3>3, GSStatusGood, GSFunctionsOf DEF AddsOnly, Counts
    <3> QED
      BY <1>0, <2>1, <3>4, GSOutcome
  <2> QED
    BY <2>4, <2>5, <2>6
<1>5. CASE Tick
  <2>1. main' = main /\ main = "work" /\ asked' = asked /\ issued' = issued /\ s.open
    BY <1>5 DEF Tick
  <2>2. PICK u : u = s' /\ Waited(s, u)
    BY <1>1, <1>5, TickIs
  <2>3. GSCore(setup, u, issued) /\ GSStage(u)
    BY <1>1, <2>1, <2>2 DEF Waited, GSCore, GSInv, GSStage
  <2> QED
    BY <1>0, <1>1, <2>1, <2>2, <2>3 DEF GSInv, GSAskedFine
<1>6. CASE Rotate
  <2>1. s' = s /\ main' = main /\ asked' = asked /\ issued' = issued + 1
    BY <1>6 DEF Rotate
  <2>2. GSCore(setup, s, issued + 1)
    BY <1>1 DEF GSCore, Counts
  <2>3. \A r : GSRequest(setup, issued, r) => GSRequest(setup, issued + 1, r)
    BY DEF GSRequest, Counts
  <2> QED
    BY <1>0, <1>1, <2>1, <2>2, <2>3 DEF GSInv, GSAskedFine
<1>7. CASE Over \/ UNCHANGED all
  <2>1. UNCHANGED all
    BY <1>7 DEF Over
  <2>2. s' = s /\ main' = main /\ asked' = asked /\ issued' = issued
    BY <2>1 DEF all
  <2> QED
    BY <1>0, <2>2 DEF GSInv, GSAskedFine
<1> QED
  BY <1>2, <1>3, <1>4, <1>5, <1>6, <1>7 DEF Next

\* The queries of a2s.c, fl.c and gs3.c for details carry a challenge the server
\* made up before, unless it is one that answers without.
THEOREM RulesVouched == QueriesSpec => []ChallengeFirst
<1> DEFINE Inv == Counts /\ DialogueInv /\ GSInv
<1>1. InitQueries => Inv
  BY DialogueStarts, GSStarts
<1>2. Inv /\ [Next]_all => Inv'
  BY CountsSteps, DialogueSteps, GSSteps
<1>3. Inv => ChallengeFirst
  <2> SUFFICES ASSUME Inv, NEW k \in DOMAIN asked, setup.type \in {"a2s", "fls", "gs4"},
                      asked[k].kind \in {"rules", "status", "all"}
               PROVE  asked[k].challenge \in 1 .. issued \/ setup.server \cap {"broken", "old"} # {}
    BY DEF ChallengeFirst
  <2>1. CASE setup.type \in Dialogues
    BY <2>1 DEF DialogueInv, AskedFine, RequestFine, Details, Held
  <2>2. CASE setup.type \notin Dialogues
    BY <2>2 DEF GSInv, GSAskedFine, GSRequest, GSTypes, Dialogues
  <2> QED
    BY <2>1, <2>2
<1> QED
  BY <1>1, <1>2, <1>3, PTL DEF QueriesSpec

-----------------------------------------------------------------------------
\* Masters asked page by page: their rows.

Paging == {"hlm", "stm"}
HLMRow == R("hlm", "hls", {"SINGLE_QUERY", "QUERY_ARG"}, {"master"}, "qwmaster", "qwmaster")
STMRow == R("stm", "a2s", {"SINGLE_QUERY", "QUERY_ARG", "MASTER_STEAM"}, {"master"}, "qwmaster", "qwmaster")

LEMMA NoPagingRows ==
  /\ \A row \in QuakeTypes \cup Quake3Types \cup Quake3GameTypes \cup HalfLifeEraTypes : row.type \notin Paging
  /\ \A row \in TribesEraTypes \cup GamespyEraTypes \cup DescentEraTypes \cup Gamespy2EraTypes : row.type \notin Paging
  /\ \A row \in QuakeMasterTypes \cup Quake3MasterTypes \cup SourceEraTypes \cup Quake4EraTypes : row.type \notin Paging
  /\ \A row \in TrackmaniaEraTypes \cup OpenTTDEraTypes \cup TeamspeakEraTypes \cup Cube2EraTypes : row.type \notin Paging
  /\ \A row \in WebTypes \cup LastTypes : row.type \notin Paging
<1>1. \A row \in QuakeTypes \cup Quake3Types \cup Quake3GameTypes \cup HalfLifeEraTypes : row.type \notin Paging
  BY DEF Paging, R, QuakeTypes, Quake3Types, Quake3GameTypes, HalfLifeEraTypes
<1>2. \A row \in TribesEraTypes \cup GamespyEraTypes \cup DescentEraTypes \cup Gamespy2EraTypes : row.type \notin Paging
  BY DEF Paging, R, TribesEraTypes, GamespyEraTypes, DescentEraTypes, Gamespy2EraTypes
<1>3. \A row \in QuakeMasterTypes \cup Quake3MasterTypes \cup SourceEraTypes \cup Quake4EraTypes : row.type \notin Paging
  BY DEF Paging, R, QuakeMasterTypes, Quake3MasterTypes, SourceEraTypes, Quake4EraTypes
<1>4. \A row \in TrackmaniaEraTypes \cup OpenTTDEraTypes \cup TeamspeakEraTypes \cup Cube2EraTypes : row.type \notin Paging
  BY DEF Paging, R, TrackmaniaEraTypes, OpenTTDEraTypes, TeamspeakEraTypes, Cube2EraTypes
<1>5. \A row \in WebTypes \cup LastTypes : row.type \notin Paging
  BY DEF Paging, R, WebTypes, LastTypes
<1> QED
  BY <1>1, <1>2, <1>3, <1>4, <1>5

LEMMA PagingRows ==
  /\ ServerType["hlm"] = HLMRow /\ ServerType["stm"] = STMRow
<1>1. HLMRow \in PagingMasterTypes /\ STMRow \in OtherMasterTypes
  BY DEF HLMRow, STMRow, PagingMasterTypes, OtherMasterTypes
<1>2. ASSUME NEW row \in PagingMasterTypes
      PROVE  row.type # "stm" /\ (row.type = "hlm" => row = HLMRow)
  BY DEF R, HLMRow, PagingMasterTypes
<1>3. ASSUME NEW row \in OtherMasterTypes
      PROVE  row.type # "hlm" /\ (row.type = "stm" => row = STMRow)
  BY DEF R, STMRow, OtherMasterTypes
<1>4. HLMRow.type = "hlm" /\ STMRow.type = "stm"
  BY DEF HLMRow, STMRow, R
<1>5. HLMRow \in BuiltinTypes /\ STMRow \in BuiltinTypes
  BY <1>1 DEF BuiltinTypes
<1>6. \A other \in BuiltinTypes : other.type \in Paging => other \in PagingMasterTypes \cup OtherMasterTypes
  BY NoPagingRows DEF BuiltinTypes
<1>7. \A other \in BuiltinTypes : /\ other.type = "hlm" => other = HLMRow
                                  /\ other.type = "stm" => other = STMRow
  BY <1>2, <1>3, <1>6 DEF Paging
<1> QED
  BY <1>4, <1>5, <1>7, Looked

LEMMA PagingSays ==
  ASSUME NEW type \in Paging
  PROVE  /\ ServerType[type].query = "qwmaster" /\ ServerType[type].handler = "qwmaster"
         /\ IsMaster(type) /\ ~HasFlag(type, "TCP_CONNECT") /\ HasFlag(type, "SINGLE_QUERY")
         /\ type = "hlm" \/ HasFlag(type, "MASTER_STEAM")
         /\ ~HasPacket(type, "rule") /\ ~HasFlag(type, "MASTER_MULTI_RESPONSE")
<1>1. /\ HLMRow.query = "qwmaster" /\ HLMRow.handler = "qwmaster" /\ HLMRow.master = "hls"
      /\ HLMRow.flags = {"SINGLE_QUERY", "QUERY_ARG"} /\ HLMRow.packets = {"master"}
  BY DEF HLMRow, R
<1>2. /\ STMRow.query = "qwmaster" /\ STMRow.handler = "qwmaster" /\ STMRow.master = "a2s"
      /\ STMRow.flags = {"SINGLE_QUERY", "QUERY_ARG", "MASTER_STEAM"} /\ STMRow.packets = {"master"}
  BY DEF STMRow, R
<1>3. CASE type = "hlm"
  <2>1. ServerType[type] = HLMRow
    BY <1>3, PagingRows
  <2> QED
    BY <1>1, <1>3, <2>1 DEF IsMaster, HasFlag, HasPacket
<1>4. CASE type = "stm"
  <2>1. ServerType[type] = STMRow
    BY <1>4, PagingRows
  <2> QED
    BY <1>2, <2>1 DEF IsMaster, HasFlag, HasPacket
<1> QED
  BY <1>3, <1>4 DEF Paging

\* Their records.
PageRequests == [kind : {"list"}, challenge : Nat, details : SUBSET {"rules", "players"}]
PStatuses ==
  [type : Paging, format : Nat, wide : BOOLEAN, challenge : Int, haveChallenge : BOOLEAN,
   sentInfo : BOOLEAN, haveInfo : BOOLEAN, havePlayer : BOOLEAN, haveRules : BOOLEAN,
   step : Nat, left : Nat, mask : SUBSET Nat]
PServers ==
  [name : {"none", "MASTER", "TIMEOUT"}, open : BOOLEAN, retry1 : Int, retry2 : Int, retries : Nat,
   elapsed : Nat, elapsed2 : Nat, rule : BOOLEAN, missing : BOOLEAN, nextPlayer : Nat,
   numPlayers : Nat, players : Seq(Nat), found : Seq(Nat), hasFound : BOOLEAN,
   saved : Seq(Kept), want : SUBSET {"rules", "players"}, status : PStatuses]

LEMMA PFields ==
  ASSUME NEW t \in PServers
  PROVE  /\ t.name \in {"none", "MASTER", "TIMEOUT"} /\ t.open \in BOOLEAN
         /\ t.retry1 \in Int /\ t.retries \in Nat /\ t.elapsed \in Nat /\ t.elapsed2 \in Nat
         /\ t.nextPlayer \in Nat /\ t.numPlayers \in Nat /\ t.found \in Seq(Nat)
         /\ t.status \in PStatuses /\ t.status.type \in Paging /\ t.status.step \in Nat
<1>1. t.status \in PStatuses
  BY DEF PServers
<1>2. t.status.type \in Paging /\ t.status.step \in Nat
  BY <1>1 DEF PStatuses
<1> QED
  BY <1>1, <1>2 DEF PServers

\* What asking for a page leaves alone.
SamePages(t, u) ==
  /\ u \in PServers /\ u.name = t.name /\ u.open = t.open /\ u.found = t.found /\ u.hasFound = t.hasFound
  /\ u.numPlayers = t.numPlayers /\ u.status = t.status

LEMMA CountedMasterIs ==
  ASSUME NEW t \in PServers
  PROVE  SamePages(t, CountedMaster(t))
<1>1. t.retry1 \in Int /\ t.retries \in Nat /\ t.elapsed \in Nat
  BY PFields
<1>2. PICK r \in Int : r = t.retry1 - 1
  BY <1>1
<1>3. PICK q \in Nat : q = IF t.retry1 = NRetries THEN t.retries ELSE t.retries + 1
  BY <1>1
<1>4. PICK e \in Nat : e = IF t.retry1 = NRetries THEN 0 ELSE t.elapsed
  BY <1>1
<1> DEFINE u == [t EXCEPT !.elapsed = e, !.retries = q, !.retry1 = r]
<1>5. CountedMaster(t) = u
  BY <1>2, <1>3, <1>4 DEF CountedMaster
<1>6. SamePages(t, u)
  BY DEF PServers, SamePages
<1> QED
  BY <1>5, <1>6

LEMMA MasterStatusQueryIs ==
  ASSUME NEW t \in PServers, NEW ok \in BOOLEAN
  PROVE  LET r == MasterStatusQuery(t, ok)
         IN  /\ SamePages(t, r.s)
             /\ IF ok THEN r.ret = "INPROGRESS" /\ r.out = <<Request("list", t.status.step)>>
                ELSE r.ret = "SYS_ERROR" /\ r.out = <<>>
<1>1. PICK n \in Nat : n = NoPlayerInfo
  BY DEF NoPlayerInfo
<1>2. PICK v : v = [t EXCEPT !.nextPlayer = n]
  OBVIOUS
<1>3. SamePages(t, v)
  BY <1>2 DEF PServers, SamePages
<1>4. PICK u : u = CountedMaster(v)
  OBVIOUS
<1>5. SamePages(t, u)
  BY <1>3, <1>4, CountedMasterIs DEF SamePages
<1>6. PICK step \in Nat : step = t.status.step
  BY PFields
<1>7. MasterStatusQuery(t, ok) = IF ok THEN Asks(u, "INPROGRESS", Request("list", step)) ELSE Ends(v, "SYS_ERROR")
  BY <1>1, <1>2, <1>4, <1>6 DEF MasterStatusQuery
<1>8. PICK request : request = Request("list", step)
  OBVIOUS
<1>9. CASE ok
  <2>1. PICK r : r = Asks(u, "INPROGRESS", request)
    OBVIOUS
  <2>2. r.s = u /\ r.ret = "INPROGRESS" /\ r.out = <<request>>
    BY <2>1 DEF Asks
  <2> QED
    BY <1>5, <1>6, <1>7, <1>8, <1>9, <2>1, <2>2
<1>10. CASE ~ok
  <2>1. PICK r : r = Ends(v, "SYS_ERROR")
    OBVIOUS
  <2>2. r.s = v /\ r.ret = "SYS_ERROR" /\ r.out = <<>>
    BY <2>1 DEF Ends
  <2> QED
    BY <1>3, <1>7, <1>10, <2>1, <2>2
<1> QED
  BY <1>9, <1>10

\* A page read.
PageNoted(t, u, page) ==
  /\ u \in PServers /\ u.open = t.open /\ u.found = Append(t.found, page)
  /\ u.numPlayers = t.numPlayers /\ u.status.type = t.status.type /\ u.status.step = page + 1
LEMMA PageIs ==
  ASSUME NEW t \in PServers, NEW m, m.kind = "list", m.page \in Nat, NEW ok \in BOOLEAN
  PROVE  LET r == Page(t, m, ok)
         IN  /\ PageNoted(t, r.s, m.page)
             /\ IF m.last THEN r.ret = "DONE_FORCE" /\ r.s.name = "MASTER" /\ r.out = <<>>
                ELSE r.ret = "INPROGRESS" /\ r.s.name = t.name
                     /\ (r.out = <<>> \/ r.out = <<Request("list", m.page + 1)>>)
<1>1. PICK page \in Nat : page = m.page
  OBVIOUS
<1>2. PICK next \in Nat : next = page + 1
  OBVIOUS
<1>3. PICK list \in Seq(Nat) : list = Append(t.found, page)
  <2>1. t.found \in Seq(Nat)
    BY PFields
  <2>2. PICK found \in Seq(Nat) : found = t.found
    BY <2>1
  <2>3. Append(found, page) \in Seq(Nat)
    OBVIOUS
  <2> QED
    BY <2>2, <2>3
<1>4. PICK status : status = [t.status EXCEPT !.step = next]
  OBVIOUS
<1>5. status \in PStatuses /\ status.step = next /\ status.type = t.status.type
  BY <1>4, PFields DEF PStatuses
<1>6. PICK v : v = [t EXCEPT !.found = list, !.hasFound = TRUE, !.status = status]
  OBVIOUS
<1>7. PageNoted(t, v, page) /\ v.name = t.name /\ v.retry1 = t.retry1 /\ v.status = status
  BY <1>2, <1>3, <1>5, <1>6 DEF PServers, PageNoted
<1>8. [Lists(t, m) EXCEPT !.status.step = IF m.kind = "odd" THEN @ ELSE m.page + 1] = v
  <2>1. PICK w : w = Lists(t, m)
    OBVIOUS
  <2>2. w = [t EXCEPT !.found = list, !.hasFound = TRUE]
    BY <1>1, <1>3, <2>1 DEF Lists
  <2>3. w.status = t.status
    BY <2>2 DEF PServers
  <2>4. [w EXCEPT !.status.step = next] = [w EXCEPT !.status = status]
    BY <1>4, <2>3
  <2>5. [w EXCEPT !.status = status] = v
    BY <1>6, <2>2
  <2> QED
    BY <1>1, <1>2, <2>1, <2>4, <2>5
<1>9. CASE m.last
  <2>1. PICK n \in {"none", "MASTER", "TIMEOUT"} : n = "MASTER"
    OBVIOUS
  <2>2. PICK u : u = [v EXCEPT !.name = n]
    OBVIOUS
  <2>3. PageNoted(t, u, page) /\ u.name = n
    BY <1>7, <2>2 DEF PServers, PageNoted
  <2>4. Page(t, m, ok) = Ends(u, "DONE_FORCE")
    BY <1>8, <1>9, <2>1, <2>2 DEF Page, Listed, IsLast
  <2>5. PICK r : r = Ends(u, "DONE_FORCE")
    OBVIOUS
  <2>6. r.s = u /\ r.ret = "DONE_FORCE" /\ r.out = <<>>
    BY <2>5 DEF Ends
  <2> QED
    BY <1>1, <1>9, <2>1, <2>3, <2>4, <2>5, <2>6
<1>10. CASE ~m.last
  <2>1. PICK tries \in Int : tries = v.retry1 + 1
    BY <1>7, PFields
  <2>2. PICK u : u = [v EXCEPT !.retry1 = tries]
    OBVIOUS
  <2>3. PageNoted(t, u, page) /\ u.name = t.name /\ u.status = status
    BY <1>7, <2>2 DEF PServers, PageNoted
  <2>4. PICK q : q = MasterStatusQuery(u, ok)
    OBVIOUS
  <2>5. u \in PServers
    BY <2>3 DEF PageNoted
  <2>6. SamePages(u, q.s) /\ (q.out = <<>> \/ q.out = <<Request("list", next)>>)
    BY <1>5, <2>3, <2>4, <2>5, MasterStatusQueryIs
  <2>7. q = [s |-> q.s, ret |-> q.ret, out |-> q.out]
    BY <2>4 DEF MasterStatusQuery, Asks, Ends
  <2>8. PICK w, x, o : w = q.s /\ x = q.ret /\ o = q.out
    OBVIOUS
  <2>9. q = [s |-> w, ret |-> x, out |-> o]
    BY <2>7, <2>8
  <2>10. PICK r : r = [q EXCEPT !.ret = "INPROGRESS"]
    OBVIOUS
  <2>11. r.s = w /\ r.ret = "INPROGRESS" /\ r.out = o
    BY <2>9, <2>10
  <2>12. Page(t, m, ok) = r
    BY <1>8, <1>10, <2>1, <2>2, <2>4, <2>10 DEF Page, Returns, IsLast
  <2>13. PageNoted(t, w, page) /\ w.name = t.name
    BY <2>3, <2>6, <2>8 DEF PageNoted, SamePages
  <2> QED
    BY <1>1, <1>2, <1>10, <2>6, <2>8, <2>11, <2>12, <2>13
<1> QED
  BY <1>9, <1>10

\* What a master is asked for next is a page after those it has sent, and each page
\* stands behind the one before it.
Preceded(t, page) == 0 .. page - 1 \subseteq Range(t.found)
InOrder(pages) ==
  \A k \in DOMAIN pages : pages[k] = 0 \/ \E j \in 1 .. k - 1 : pages[j] = pages[k] - 1
PageFine(t, r) == r \in PageRequests /\ Preceded(t, r.challenge)
Collects(g, t) ==
  /\ t \in PServers /\ t.status.type = g.type /\ t.numPlayers = 0
  /\ Range(t.found) \subseteq 0 .. g.parts - 1 /\ Preceded(t, t.status.step) /\ InOrder(t.found)
\* The list is whole.
Whole(g, pages) ==
  /\ Range(pages) = 0 .. g.parts - 1 /\ InOrder(pages) /\ pages[Len(pages)] = g.parts - 1
PagingInv ==
  (setup.type \in Paging /\ "odd" \notin setup.server) =>
    /\ Collects(setup, s)
    /\ asked \in Seq(PageRequests) /\ \A k \in DOMAIN asked : PageFine(s, asked[k])
    /\ main = "start" => s.open /\ ~s.hasFound
    /\ s.open => s.name = "none"
    /\ ~s.open /\ s.name = "MASTER" /\ ~gaveUp => Whole(setup, s.found)

\* A page behind all the pages before it keeps the order.
LEMMA AppendedInOrder ==
  ASSUME NEW pages \in Seq(Nat), NEW page \in Nat, InOrder(pages), 0 .. page - 1 \subseteq Range(pages)
  PROVE  LET longer == Append(pages, page)
         IN  /\ longer \in Seq(Nat) /\ InOrder(longer) /\ longer[Len(longer)] = page
             /\ Range(longer) = Range(pages) \cup {page}
<1>1. PICK longer : longer = Append(pages, page)
  OBVIOUS
<1>2. PICK n \in Nat : n = Len(pages) /\ DOMAIN pages = 1 .. n
  OBVIOUS
<1>3. /\ longer \in Seq(Nat) /\ Len(longer) = n + 1 /\ DOMAIN longer = 1 .. n + 1
      /\ \A k \in 1 .. n : longer[k] = pages[k]
      /\ longer[n + 1] = page
  BY <1>1, <1>2
<1>4. Range(longer) = Range(pages) \cup {page}
  <2>1. Range(longer) = {longer[k] : k \in 1 .. n + 1} /\ Range(pages) = {pages[k] : k \in 1 .. n}
    BY <1>2, <1>3 DEF Range
  <2>2. 1 .. n + 1 = (1 .. n) \cup {n + 1}
    OBVIOUS
  <2>3. {longer[k] : k \in 1 .. n} = {pages[k] : k \in 1 .. n}
    BY <1>3
  <2> QED
    BY <1>3, <2>1, <2>2, <2>3
<1>5. ASSUME NEW k \in 1 .. n + 1
      PROVE  longer[k] = 0 \/ \E j \in 1 .. k - 1 : longer[j] = longer[k] - 1
  <2>1. CASE k \in 1 .. n
    <3>1. pages[k] = 0 \/ \E j \in 1 .. k - 1 : pages[j] = pages[k] - 1
      BY <1>2, <2>1 DEF InOrder
    <3>2. 1 .. k - 1 \subseteq 1 .. n
      BY <2>1
    <3> QED
      BY <1>3, <2>1, <3>1, <3>2
  <2>2. CASE k = n + 1 /\ page # 0
    <3>1. page - 1 \in 0 .. page - 1
      BY <2>2
    <3>2. PICK j \in 1 .. n : pages[j] = page - 1
      BY <1>2, <3>1 DEF Range
    <3> QED
      BY <1>3, <2>2, <3>2
  <2> QED
    BY <1>3, <2>1, <2>2
<1>6. InOrder(longer)
  BY <1>3, <1>5 DEF InOrder
<1> QED
  BY <1>1, <1>3, <1>4, <1>6

LEMMA PagesCloseSays ==
  ASSUME NEW t \in PServers, NEW force \in BOOLEAN
  PROVE  LET u == CleanupOne(t, force)
         IN  IF force \/ t.name = "none"
             THEN /\ u \in PServers /\ ~u.open /\ u.found = t.found /\ u.status = t.status /\ u.numPlayers = t.numPlayers
                  /\ u.name = IF t.name # "none" THEN t.name ELSE IF t.hasFound THEN "MASTER" ELSE "TIMEOUT"
             ELSE TRUE
<1>1. IsMaster(t.status.type)
  BY PFields, PagingSays
<1>2. PICK n \in {"none", "MASTER", "TIMEOUT"} : n = IF t.name # "none" THEN t.name ELSE IF t.hasFound THEN "MASTER" ELSE "TIMEOUT"
  BY PFields
<1>3. PICK none \in Seq(Kept) : none = <<>>
  <2>1. <<>> \in Seq(Kept)
    OBVIOUS
  <2> QED
    BY <2>1
<1>4. ASSUME force \/ t.name = "none"
      PROVE  CleanupOne(t, force) = [t EXCEPT !.name = n, !.open = FALSE, !.saved = none]
  BY <1>1, <1>2, <1>3, <1>4 DEF CleanupOne, MustCloseOne
<1>5. PICK u : u = [t EXCEPT !.name = n, !.open = FALSE, !.saved = none]
  OBVIOUS
<1>6. /\ u \in PServers /\ ~u.open /\ u.found = t.found /\ u.status = t.status /\ u.numPlayers = t.numPlayers
      /\ u.name = n
  BY <1>5 DEF PServers
<1> QED
  BY <1>2, <1>4, <1>5, <1>6

LEMMA NewMaster ==
  ASSUME NEW g \in Setups, g.type \in Paging
  PROVE  LET t == NewServer(g.type, g.want)
         IN  Collects(g, t) /\ t.open /\ ~t.hasFound /\ t.name = "none"
<1>1. PICK want \in SUBSET {"rules", "players"} : want = g.want
  BY SetupIs DEF Details
<1>2. PICK type \in Paging : type = g.type
  OBVIOUS
<1>3. PICK status : status = NewStatus(type)
  OBVIOUS
<1>4. status \in PStatuses /\ status.type = type /\ status.step = 0
  BY <1>3 DEF NewStatus, PStatuses
<1>5. PICK next \in Nat : next = IF "players" \in want /\ HasPacket(type, "player") THEN 0 ELSE NoPlayerInfo
  BY DEF NoPlayerInfo
<1>6. PICK none \in Seq(Kept) : none = <<>>
  <2>1. <<>> \in Seq(Kept)
    OBVIOUS
  <2> QED
    BY <2>1
<1>7. PICK numbers \in Seq(Nat) : numbers = <<>>
  <2>1. <<>> \in Seq(Nat)
    OBVIOUS
  <2> QED
    BY <2>1
<1>8. PICK nothing \in Seq(Nat) : nothing = <<>>
  <2>1. <<>> \in Seq(Nat)
    OBVIOUS
  <2> QED
    BY <2>1
<1>9. PICK rule \in BOOLEAN : rule = ("rules" \in want)
  <2>1. ("rules" \in want) \in BOOLEAN
    OBVIOUS
  <2> QED
    BY <2>1, Zenon
<1>10. PICK n \in {"none", "MASTER", "TIMEOUT"} : n = "none"
  OBVIOUS
<1>11. PICK r \in Nat, wait \in Nat : r = NRetries /\ wait = NRetries + 2
  BY QServerAssumption
<1>12. PICK t : t =
   [name |-> n, open |-> TRUE, retry1 |-> r, retry2 |-> r, retries |-> 0,
    elapsed |-> 0, elapsed2 |-> wait, rule |-> rule, missing |-> FALSE, nextPlayer |-> next,
    numPlayers |-> 0, players |-> numbers, found |-> nothing, hasFound |-> FALSE,
    saved |-> none, want |-> want, status |-> status]
  OBVIOUS
<1>13. /\ t \in PServers /\ t.open /\ ~t.hasFound /\ t.name = n /\ t.numPlayers = 0 /\ t.found = nothing
       /\ t.status = status
  BY <1>4, <1>12 DEF PServers
<1>14. NewServer(type, want) = t
  BY <1>3, <1>5, <1>6, <1>7, <1>8, <1>9, <1>10, <1>11, <1>12 DEF NewServer
<1>15. Collects(g, t)
  <2>1. Range(nothing) = {} /\ InOrder(nothing)
    BY <1>8 DEF Range, InOrder
  <2> QED
    BY <1>2, <1>4, <1>13, <2>1 DEF Collects, Preceded
<1> QED
  BY <1>1, <1>2, <1>10, <1>13, <1>14, <1>15

LEMMA PagingStarts ==
  ASSUME InitQueries
  PROVE  PagingInv
<1>1. ASSUME setup.type \in Paging
      PROVE  Collects(setup, s) /\ s.open /\ ~s.hasFound /\ s.name = "none"
  BY <1>1, NewMaster DEF InitQueries
<1>2. asked \in Seq(PageRequests) /\ DOMAIN asked = {}
  BY DEF InitQueries
<1> QED
  BY <1>1, <1>2 DEF PagingInv

\* The functions the table names.
LEMMA PagingFunctions ==
  ASSUME NEW t \in PServers, NEW ok
  PROVE  /\ StatusQueryFunc(t, ok) = MasterStatusQuery(t, ok)
         /\ RuleQueryFunc(t, ok) = RuleQuery(t, ok)
         /\ \A m : m.kind = "list" => PacketFunc(t, m, ok) = Page(t, m, ok)
<1>1. Query(t) = "qwmaster" /\ Handler(t) = "qwmaster" /\ IsPaging(t) /\ ~MultiResponse(t) /\ t.status.type \in Paging
  BY PFields, PagingSays DEF Query, Handler, IsPaging, MultiResponse
<1>2. StatusQueryFunc(t, ok) = MasterStatusQuery(t, ok)
  BY <1>1 DEF StatusQueryFunc, PlainQueries, HttpQueries, MasterQueries
<1>3. RuleQueryFunc(t, ok) = RuleQuery(t, ok)
  BY <1>1 DEF RuleQueryFunc
<1>4. ASSUME NEW m, m.kind = "list"
      PROVE  PacketFunc(t, m, ok) = Page(t, m, ok)
  <2>1. PacketFunc(t, m, ok) = QWMasterPacket(t, m, ok)
    BY <1>1 DEF PacketFunc, Doom3Handlers, HttpHandlers
  <2>2. t.status.type \notin {"q3m", "rwm", "jk3m"} /\ t.status.type # "efm"
    BY <1>1 DEF Paging
  <2> QED
    BY <1>1, <1>4, <2>1, <2>2 DEF QWMasterPacket
<1> QED
  BY <1>2, <1>3, <1>4

\* A step that leaves such a master keeps the invariant.
PageAsked(t, r) == r.out = <<>> \/ \E page \in Nat : r.out = <<Request("list", page)>> /\ Preceded(t, page)
Settled(g, t) ==
  /\ t.open => t.name = "none"
  /\ ~t.open /\ t.name = "MASTER" /\ ~gaveUp' => Whole(g, t.found)
PagingHolds == setup.type \in Paging /\ "odd" \notin setup.server

LEMMA PageRequestIs ==
  ASSUME NEW page \in Nat
  PROVE  Request("list", page) \in PageRequests /\ Request("list", page).challenge = page
<1>1. PICK none \in SUBSET {"rules", "players"} : none = {}
  OBVIOUS
<1>2. PICK kind \in {"list"} : kind = "list"
  OBVIOUS
<1>3. PICK r : r = [kind |-> kind, challenge |-> page, details |-> none]
  OBVIOUS
<1>4. r \in PageRequests /\ r.challenge = page
  BY <1>3 DEF PageRequests
<1> QED
  BY <1>1, <1>2, <1>3, <1>4 DEF Request

LEMMA PagesSettle ==
  ASSUME PagingInv, PagingHolds, setup' = setup, main' = "work", Collects(setup, s'),
         Range(s.found) \subseteq Range(s'.found), Settled(setup, s'), NEW r, AddsOnly(r), PageAsked(s', r)
  PROVE  PagingInv'
<1>1. asked \in Seq(PageRequests) /\ \A k \in DOMAIN asked : PageFine(s, asked[k])
  BY DEF PagingInv, PagingHolds
<1>2. \A k \in DOMAIN asked : PageFine(s', asked[k])
  BY <1>1 DEF PageFine, Preceded
<1>3. PICK request : /\ r.out = <<>> \/ (r.out = <<request>> /\ request \in PageRequests)
                     /\ r.out = <<request>> => PageFine(s', request)
  <2>1. CASE r.out = <<>>
    <3>1. PICK none : none = <<>>
      OBVIOUS
    <3>2. PICK request : request = Request("list", 0)
      OBVIOUS
    <3>3. PageFine(s', request)
      BY <3>2, PageRequestIs DEF PageFine, Preceded
    <3> QED
      BY <2>1, <3>3
  <2>2. CASE r.out # <<>>
    <3>1. PICK page \in Nat : r.out = <<Request("list", page)>> /\ Preceded(s', page)
      BY <2>2 DEF PageAsked
    <3>2. PICK request : request = Request("list", page)
      OBVIOUS
    <3>3. PageFine(s', request)
      BY <3>1, <3>2, PageRequestIs DEF PageFine
    <3> QED
      BY <3>1, <3>2, <3>3 DEF PageFine
  <2> QED
    BY <2>1, <2>2
<1>4. asked' \in Seq(PageRequests) /\ \A k \in DOMAIN asked' : PageFine(s', asked'[k])
  <2>1. CASE asked' = asked
    BY <1>1, <1>2, <2>1
  <2>2. CASE Sent(r)
    <3>1. /\ asked' \in Seq(PageRequests)
          /\ \A k \in DOMAIN asked' : \/ \E j \in DOMAIN asked : asked'[k] = asked[j]
                                      \/ r.out = <<request>> /\ asked'[k] = request
      BY <1>1, <1>3, <2>2, SentIn
    <3> QED
      BY <1>2, <1>3, <3>1
  <2> QED
    BY <2>1, <2>2 DEF AddsOnly
<1>5. setup'.type \in Paging /\ "odd" \notin setup'.server
  BY DEF PagingHolds
<1> QED
  BY <1>4, <1>5 DEF PagingInv, Settled

\* Sent or not, what asking for a page returns and closes.
LEMMA PageAskedSettles ==
  ASSUME PagingInv, PagingHolds, setup' = setup, main' = "work", s.open, NEW ok \in BOOLEAN,
         s' = Fate(MasterStatusQuery(s, ok)), AddsOnly(MasterStatusQuery(s, ok)),
         ~s'.open => (gaveUp' \/ ~s.hasFound)
  PROVE  PagingInv'
<1>1. Collects(setup, s) /\ s \in PServers /\ s.name = "none" /\ setup = setup
  BY DEF PagingInv, PagingHolds, Collects
<1>2. PICK r : r = MasterStatusQuery(s, ok)
  OBVIOUS
<1>3. /\ SamePages(s, r.s)
      /\ IF ok THEN r.ret = "INPROGRESS" /\ r.out = <<Request("list", s.status.step)>>
         ELSE r.ret = "SYS_ERROR" /\ r.out = <<>>
  BY <1>1, <1>2, MasterStatusQueryIs
<1>4. CASE ok
  <2>1. s' = r.s
    BY <1>2, <1>3, <1>4 DEF Fate, Errors
  <2>2. Collects(setup, s') /\ s'.found = s.found /\ s'.open /\ s'.name = "none"
    BY <1>1, <1>3, <2>1 DEF Collects, SamePages, Preceded
  <2>3. PageAsked(s', r)
    BY <1>1, <1>3, <1>4, <2>2, PFields DEF PageAsked, Collects, Preceded
  <2> QED
    BY <1>2, <2>2, <2>3, PagesSettle DEF Settled
<1>5. CASE ~ok
  <2>1. s' = CleanupOne(r.s, TRUE)
    BY <1>2, <1>3, <1>5 DEF Fate, Errors
  <2>2. r.s \in PServers /\ r.s.found = s.found /\ r.s.status = s.status /\ r.s.numPlayers = s.numPlayers
        /\ r.s.name = "none" /\ r.s.hasFound = s.hasFound
    BY <1>1, <1>3 DEF SamePages
  <2>3. /\ s' \in PServers /\ ~s'.open /\ s'.found = s.found /\ s'.status = s.status /\ s'.numPlayers = s.numPlayers
        /\ s'.name = IF s.hasFound THEN "MASTER" ELSE "TIMEOUT"
    <3>1. PICK v \in PServers : v = r.s
      BY <2>2
    <3>2. PICK u : u = CleanupOne(v, TRUE)
      OBVIOUS
    <3>3. /\ u \in PServers /\ ~u.open /\ u.found = v.found /\ u.status = v.status /\ u.numPlayers = v.numPlayers
          /\ u.name = IF v.name # "none" THEN v.name ELSE IF v.hasFound THEN "MASTER" ELSE "TIMEOUT"
      BY <3>1, <3>2, PagesCloseSays
    <3>4. v.found = s.found /\ v.status = s.status /\ v.numPlayers = s.numPlayers
          /\ v.name = "none" /\ v.hasFound = s.hasFound
      BY <2>2, <3>1
    <3>5. s' = u
      BY <2>1, <3>1, <3>2
    <3> QED
      BY <3>3, <3>4, <3>5
  <2>4. Collects(setup, s')
    BY <1>1, <2>3 DEF Collects, Preceded
  <2>5. Settled(setup, s')
    BY <2>3 DEF Settled
  <2>6. PageAsked(s', r)
    BY <1>3, <1>5 DEF PageAsked
  <2> QED
    BY <1>2, <2>3, <2>4, <2>5, <2>6, PagesSettle
<1> QED
  BY <1>4, <1>5

LEMMA PagingStart ==
  ASSUME Counts, PagingInv, PagingHolds, Start
  PROVE  PagingInv'
<1>1. setup \in Setups
  BY DEF Counts
<1>2. setup.sends \in SUBSET BOOLEAN
  BY <1>1, SetupIs
<1>3. PICK ok \in BOOLEAN : s' = Fate(StatusQueryFunc(s, ok)) /\ Sent(StatusQueryFunc(s, ok))
  BY <1>2 DEF Start
<1>4. s \in PServers /\ s.open /\ ~s.hasFound
  BY DEF Start, PagingInv, PagingHolds, Collects
<1>5. StatusQueryFunc(s, ok) = MasterStatusQuery(s, ok)
  BY <1>4, PagingFunctions
<1>6. setup' = setup /\ main' = "work"
  BY DEF Start
<1> QED
  BY <1>3, <1>4, <1>5, <1>6, PageAskedSettles DEF AddsOnly

LEMMA PagingAsksAgain ==
  ASSUME Counts, PagingInv, PagingHolds, SendPackets, AsksAgain
  PROVE  PagingInv'
<1>1. setup \in Setups
  BY DEF Counts
<1>2. setup.sends \in SUBSET BOOLEAN
  BY <1>1, SetupIs
<1>3. PICK ok \in BOOLEAN : s' = Fate(StatusQueryFunc(s, ok)) /\ Sent(StatusQueryFunc(s, ok))
  BY <1>2 DEF AsksAgain
<1>4. s \in PServers /\ s.open
  BY DEF SendPackets, PagingInv, PagingHolds, Collects
<1>5. StatusQueryFunc(s, ok) = MasterStatusQuery(s, ok)
  BY <1>4, PagingFunctions
<1>6. setup' = setup /\ main' = "work" /\ gaveUp' = ~s'.open
  BY DEF SendPackets, AsksAgain
<1> QED
  BY <1>3, <1>4, <1>5, <1>6, PageAskedSettles DEF AddsOnly

\* What arrives is a page that was asked for.
LEMMA PageComes ==
  ASSUME Counts, PagingInv, PagingHolds, NEW m \in Arrivals
  PROVE  /\ m.kind = "list" /\ m.page \in 0 .. setup.parts - 1 /\ Preceded(s, m.page)
         /\ m.last <=> m.page = setup.parts - 1
<1>1. ~TcpConnect(setup)
  BY PagingSays DEF TcpConnect, PagingHolds
<1>2. GameHandler(setup) = "qwmaster" /\ setup.type \in {"hlm", "stm"}
  BY PagingSays DEF GameHandler, PagingHolds, Paging
<1>3. \A k \in DOMAIN asked : asked[k].kind = "list" /\ Preceded(s, asked[k].challenge)
  BY DEF PagingInv, PagingHolds, PageFine, PageRequests
<1>4. setup.parts \in Nat \ {0}
  BY SetupIs DEF Counts
<1>5. ASSUME NEW k \in DOMAIN asked, NEW r \in Reply(setup, asked[k], k, issued)
      PROVE  /\ r.kind = "list" /\ r.page \in 0 .. setup.parts - 1 /\ Preceded(s, r.page)
             /\ r.last <=> r.page = setup.parts - 1
             /\ "bad" \notin DOMAIN r
  <2>1. r \in MasterReply(setup, asked[k])
    BY <1>2, <1>5 DEF Reply, MasterHandlers, SteppedHandlers
  <2>2. asked[k].kind # "ack"
    BY <1>3
  <2>3. PICK p \in 0 .. setup.parts - 1 : /\ r = [kind |-> "list", page |-> p, last |-> p = setup.parts - 1]
                                          /\ r.page = asked[k].challenge
    BY <1>2, <2>1, <2>2 DEF MasterReply
  <2>4. PICK last : last = (p = setup.parts - 1)
    OBVIOUS
  <2>5. r = [kind |-> "list", page |-> p, last |-> last]
    BY <2>3, <2>4
  <2>6. r.kind = "list" /\ r.page = p /\ r.last = last /\ DOMAIN r = {"kind", "page", "last"}
    BY <2>5
  <2> QED
    BY <1>3, <2>3, <2>4, <2>6
<1>6. PICK replies : replies = UNION {Reply(setup, asked[k], k, issued) : k \in DOMAIN asked}
  OBVIOUS
<1>7. \A r \in replies : /\ r.kind = "list" /\ r.page \in 0 .. setup.parts - 1 /\ Preceded(s, r.page)
                         /\ r.last <=> r.page = setup.parts - 1
                         /\ "bad" \notin DOMAIN r
  BY <1>5, <1>6
<1>8. m \in replies
  <2>1. m \in replies \cup (IF "cut" \in setup.server
                            THEN {[n EXCEPT !.bad = fault] : n \in {r \in replies : "bad" \in DOMAIN r},
                                                             fault \in {"front", "behind"}}
                            ELSE {})
    BY <1>1, <1>6 DEF Arrivals, PagingHolds
  <2>2. {r \in replies : "bad" \in DOMAIN r} = {}
    BY <1>7
  <2> QED
    BY <2>1, <2>2
<1> QED
  BY <1>7, <1>8

LEMMA PagingHandle ==
  ASSUME Counts, PagingInv, PagingHolds, Handle
  PROVE  PagingInv'
<1>1. setup \in Setups /\ setup.sends \in SUBSET BOOLEAN /\ setup.parts \in Nat \ {0}
  BY SetupIs DEF Counts
<1>2. PICK m \in Arrivals, ok \in BOOLEAN : s' = Fate(PacketFunc(s, m, ok)) /\ Sent(PacketFunc(s, m, ok))
  BY <1>1 DEF Handle
<1>3. /\ m.kind = "list" /\ m.page \in 0 .. setup.parts - 1 /\ Preceded(s, m.page)
      /\ m.last <=> m.page = setup.parts - 1
  BY PageComes
<1>4. Collects(setup, s) /\ s \in PServers /\ s.open /\ s.name = "none" /\ main = "work" /\ main' = main /\ setup' = setup
  BY DEF Handle, PagingInv, PagingHolds, Collects
<1>5. PICK r : r = Page(s, m, ok)
  OBVIOUS
<1>6. s' = Fate(r) /\ Sent(r)
  BY <1>2, <1>3, <1>4, <1>5, PagingFunctions
<1>7. PICK page \in 0 .. setup.parts - 1 : page = m.page
  BY <1>3
<1>8. page \in Nat
  BY <1>1, <1>7
<1>9. /\ PageNoted(s, r.s, page)
      /\ IF m.last THEN r.ret = "DONE_FORCE" /\ r.s.name = "MASTER" /\ r.out = <<>>
         ELSE r.ret = "INPROGRESS" /\ r.s.name = s.name
              /\ (r.out = <<>> \/ r.out = <<Request("list", page + 1)>>)
  BY <1>3, <1>4, <1>5, <1>7, <1>8, PageIs
<1>10. PICK u : u = r.s
  OBVIOUS
<1>11. /\ Collects(setup, u) /\ Range(s.found) \subseteq Range(u.found) /\ Preceded(u, page + 1)
       /\ u \in PServers /\ u.open /\ u.found[Len(u.found)] = page
  <2>1. /\ u \in PServers /\ u.open /\ u.found = Append(s.found, page)
        /\ u.numPlayers = 0 /\ u.status.type = setup.type /\ u.status.step = page + 1
    BY <1>4, <1>9, <1>10 DEF PageNoted, Collects
  <2>2. /\ InOrder(u.found) /\ u.found[Len(u.found)] = page /\ Range(u.found) = Range(s.found) \cup {page}
    <3>1. s.found \in Seq(Nat) /\ InOrder(s.found) /\ 0 .. page - 1 \subseteq Range(s.found)
      BY <1>3, <1>4, <1>7, PFields DEF Collects, Preceded
    <3> QED
      BY <1>8, <2>1, <3>1, AppendedInOrder
  <2>3. Preceded(u, page + 1)
    BY <1>3, <1>7, <1>8, <2>2 DEF Preceded
  <2>4. Range(u.found) \subseteq 0 .. setup.parts - 1
    BY <1>4, <2>2 DEF Collects
  <2> QED
    BY <2>1, <2>2, <2>3, <2>4 DEF Collects
<1>12. CASE m.last
  <2>1. s' = CleanupOne(u, TRUE)
    BY <1>6, <1>9, <1>10, <1>12 DEF Fate, Errors
  <2>2. /\ s' \in PServers /\ ~s'.open /\ s'.found = u.found /\ s'.status = u.status /\ s'.numPlayers = u.numPlayers
    BY <1>11, <2>1, PagesCloseSays
  <2>3. Collects(setup, s')
    BY <1>11, <2>2 DEF Collects, Preceded
  <2>4. Whole(setup, s'.found)
    <3>1. page = setup.parts - 1 /\ (page + 1) - 1 = setup.parts - 1
      BY <1>1, <1>3, <1>7, <1>12
    <3>2. 0 .. setup.parts - 1 \subseteq Range(u.found)
      BY <1>11, <3>1 DEF Preceded
    <3>3. Range(u.found) \subseteq 0 .. setup.parts - 1 /\ InOrder(u.found)
      BY <1>11 DEF Collects
    <3> QED
      BY <1>11, <2>2, <3>1, <3>2, <3>3 DEF Whole
  <2>5. PageAsked(s', r)
    BY <1>9, <1>12 DEF PageAsked
  <2> QED
    BY <1>4, <1>6, <1>11, <2>2, <2>3, <2>4, <2>5, PagesSettle DEF Settled, AddsOnly
<1>13. CASE ~m.last
  <2>1. s' = u
    BY <1>6, <1>9, <1>10, <1>13 DEF Fate, Errors
  <2>2. s'.name = "none"
    BY <1>4, <1>9, <1>10, <1>13, <2>1
  <2>3. PageAsked(s', r)
    BY <1>8, <1>9, <1>11, <1>13, <2>1 DEF PageAsked
  <2> QED
    BY <1>4, <1>6, <1>11, <2>1, <2>2, <2>3, PagesSettle DEF Settled, AddsOnly
<1> QED
  BY <1>12, <1>13

\* Giving the master up.
LEMMA PagingGivesUp ==
  ASSUME PagingInv, PagingHolds, SendPackets, GivesUpQuery
  PROVE  PagingInv'
<1>1. Collects(setup, s) /\ s \in PServers /\ s.name = "none" /\ setup' = setup /\ main' = "work"
  BY DEF SendPackets, GivesUpQuery, Nameless, PagingInv, PagingHolds, Collects
<1>2. s' = CleanupOne(s, TRUE) /\ gaveUp' /\ asked' = asked
  BY DEF GivesUpQuery
<1>3. /\ s' \in PServers /\ ~s'.open /\ s'.found = s.found /\ s'.status = s.status /\ s'.numPlayers = s.numPlayers
  BY <1>1, <1>2, PagesCloseSays
<1>4. Collects(setup, s') /\ Settled(setup, s')
  BY <1>1, <1>2, <1>3 DEF Collects, Preceded, Settled
<1>5. PICK r : r = Ends(s, "INPROGRESS")
  OBVIOUS
<1>6. PageAsked(s', r) /\ AddsOnly(r)
  BY <1>2, <1>5 DEF PageAsked, AddsOnly, Ends
<1> QED
  BY <1>1, <1>3, <1>4, <1>6, PagesSettle

\* Steps that change nothing but times and tries.
LEMMA PagingIdle ==
  ASSUME PagingInv, PagingHolds, setup' = setup, main' = "work", s.open, SamePages(s, s'),
         NEW r, AddsOnly(r), r.out = <<>>
  PROVE  PagingInv'
<1>1. Collects(setup, s) /\ s \in PServers /\ s.name = "none"
  BY DEF PagingInv, PagingHolds, Collects
<1>2. Collects(setup, s') /\ Range(s.found) \subseteq Range(s'.found) /\ Settled(setup, s') /\ PageAsked(s', r)
  BY <1>1 DEF SamePages, Collects, Preceded, Settled, PageAsked
<1> QED
  BY <1>2, PagesSettle

LEMMA PagingAsksRules ==
  ASSUME Counts, PagingInv, PagingHolds, SendPackets, AsksRules
  PROVE  PagingInv'
<1>1. setup \in Setups
  BY DEF Counts
<1>2. setup.sends \in SUBSET BOOLEAN
  BY <1>1, SetupIs
<1>3. PICK ok \in BOOLEAN, more \in BOOLEAN :
        LET rules == RuleQueryFunc(s, ok)
            result == After(rules, PlayerStage(rules.s, more))
        IN s' = result.s /\ Sent(result)
  BY <1>2 DEF AsksRules
<1>4. s \in PServers /\ s.open /\ s.numPlayers = 0 /\ main' = "work" /\ setup' = setup
  BY DEF SendPackets, PagingInv, PagingHolds, Collects
<1>5. PICK rules : rules = RuleQuery(s, ok)
  OBVIOUS
<1>6. rules = RuleQueryFunc(s, ok)
  BY <1>4, <1>5, PagingFunctions
<1>7. SamePages(s, rules.s) /\ rules.out = <<>>
  <2>1. PICK v : v = Counted1(s)
    OBVIOUS
  <2>2. SamePages(s, v)
    <3>1. s.retry1 \in Int /\ s.retries \in Nat /\ s.elapsed \in Nat
      BY <1>4, PFields
    <3>2. PICK r \in Int : r = s.retry1 - 1
      BY <3>1
    <3>3. PICK q \in Nat : q = IF s.retry1 # NRetries /\ s.name = "none" THEN s.retries + 1 ELSE s.retries
      BY <3>1
    <3>4. PICK e \in Nat : e = IF s.retry1 = NRetries THEN 0 ELSE s.elapsed
      BY <3>1
    <3> DEFINE u == [s EXCEPT !.elapsed = e, !.retries = q, !.retry1 = r]
    <3>5. v = u
      BY <2>1, <3>2, <3>3, <3>4 DEF Counted1
    <3>6. SamePages(s, u)
      BY <1>4 DEF PServers, SamePages
    <3> QED
      BY <3>5, <3>6
  <2>3. ~HasPacket(s.status.type, "rule")
    BY <1>4, PFields, PagingSays
  <2>4. CASE ok
    <3>1. rules = Ends(v, "DONE_AUTO")
      BY <1>5, <2>1, <2>3, <2>4 DEF RuleQuery
    <3> QED
      BY <2>2, <3>1 DEF Ends
  <2>5. CASE ~ok
    <3>1. rules = Ends(s, "SYS_ERROR")
      BY <1>5, <2>5 DEF RuleQuery
    <3>2. rules.s = s /\ rules.out = <<>>
      BY <3>1 DEF Ends
    <3> QED
      BY <1>4, <3>2 DEF SamePages
  <2> QED
    BY <2>4, <2>5
<1>8. PICK t : t = rules.s
  OBVIOUS
<1>9. PlayerStage(t, more) = Ends(t, "INPROGRESS")
  <2>1. t \in PServers /\ t.numPlayers = 0
    BY <1>4, <1>7, <1>8 DEF SamePages
  <2>2. ~ExpectsPlayers(t)
    BY <2>1, PFields DEF ExpectsPlayers
  <2> QED
    BY <2>2 DEF PlayerStage
<1>10. PICK r : r = After(rules, Ends(t, "INPROGRESS"))
  OBVIOUS
<1>11. r.s = t /\ r.out = <<>>
  <2>1. PICK q : q = Ends(t, "INPROGRESS")
    OBVIOUS
  <2>2. PICK none : none = <<>>
    OBVIOUS
  <2>3. q = [s |-> t, ret |-> "INPROGRESS", out |-> none]
    BY <2>1, <2>2 DEF Ends
  <2>4. rules.out \o none = <<>>
    BY <1>7, <2>2
  <2>5. r = [q EXCEPT !.out = none]
    BY <1>7, <1>10, <2>1, <2>2, <2>3, <2>4 DEF After
  <2> QED
    BY <2>2, <2>3, <2>5
<1>12. s' = r.s /\ Sent(r)
  BY <1>3, <1>6, <1>8, <1>9, <1>10
<1> QED
  BY <1>4, <1>7, <1>8, <1>11, <1>12, PagingIdle DEF AddsOnly

\* What is left of send_packets never happens to a master, or takes a try.
LEMMA PagingRest ==
  ASSUME PagingInv, PagingHolds, SendPackets, GivesUpRules \/ AsksPlayers \/ SendsNothing
  PROVE  PagingInv'
<1>1. s \in PServers /\ s.open /\ s.name = "none" /\ s.numPlayers = 0 /\ main' = "work" /\ setup' = setup
  BY DEF SendPackets, PagingInv, PagingHolds, Collects
<1>2. s.retry1 \in Int
  BY <1>1, PFields
<1>3. ~GivesUpRules /\ ~AsksPlayers
  <2>1. ~GivesUpRules
    BY <1>1, <1>2 DEF GivesUpRules, GivesUpNow, PastStatus, Nameless
  <2>2. ~ExpectsPlayers(s)
    BY <1>1, PFields DEF ExpectsPlayers
  <2> QED
    BY <2>1, <2>2 DEF AsksPlayers
<1>4. SendsNothing
  BY <1>3
<1>5. s.retry1 >= 1
  BY <1>1, <1>2, <1>4 DEF SendsNothing, PastStatus, Nameless, GivesUpNow
<1>6. PICK r \in Int : r = s.retry1 - 1
  BY <1>2
<1>7. s' = [s EXCEPT !.retry1 = r] /\ asked' = asked
  BY <1>4, <1>5, <1>6 DEF SendsNothing
<1>8. PICK u : u = [s EXCEPT !.retry1 = r]
  OBVIOUS
<1>9. SamePages(s, u)
  BY <1>1, <1>8 DEF PServers, SamePages
<1>10. PICK q : q = Ends(s, "INPROGRESS")
  OBVIOUS
<1>11. q.out = <<>> /\ AddsOnly(q)
  BY <1>7, <1>10 DEF AddsOnly, Ends
<1> QED
  BY <1>1, <1>7, <1>8, <1>9, <1>11, PagingIdle

LEMMA PagingTick ==
  ASSUME PagingInv, PagingHolds, Tick
  PROVE  PagingInv'
<1>1. s \in PServers /\ s.open /\ main' = "work" /\ setup' = setup /\ asked' = asked
  BY DEF Tick, PagingInv, PagingHolds, Collects
<1>2. \A retry \in Int : LongAgo(retry) \in Int
  BY MaxOfTwo, QServerAssumption DEF LongAgo
<1>3. \A e \in Nat, l \in Int : Max({e, Min({e + 1, l})}) \in Nat
  BY MaxOfTwo, MinOfTwo
<1>4. s.elapsed \in Nat /\ s.elapsed2 \in Nat /\ s.retry1 \in Int /\ s.retry2 \in Int
  BY <1>1 DEF PServers
<1>5. PICK e \in Nat : e = Max({s.elapsed, Min({s.elapsed + 1, LongAgo(s.retry1)})})
  BY <1>2, <1>3, <1>4
<1>6. PICK f \in Nat : f = Max({s.elapsed2, Min({s.elapsed2 + 1, LongAgo(s.retry2)})})
  BY <1>2, <1>3, <1>4
<1>7. s' = [s EXCEPT !.elapsed = e, !.elapsed2 = f]
  BY <1>5, <1>6 DEF Tick
<1>8. PICK u : u = [s EXCEPT !.elapsed = e, !.elapsed2 = f]
  OBVIOUS
<1>9. SamePages(s, u)
  BY <1>1, <1>8 DEF PServers, SamePages
<1>10. PICK q : q = Ends(s, "INPROGRESS")
  OBVIOUS
<1>11. q.out = <<>> /\ AddsOnly(q)
  BY <1>1, <1>10 DEF AddsOnly, Ends
<1> QED
  BY <1>1, <1>7, <1>8, <1>9, <1>11, PagingIdle

LEMMA PagingSteps ==
  ASSUME Counts, PagingInv, [Next]_all
  PROVE  PagingInv'
<1>1. setup' = setup
  BY CountsSteps
<1>2. CASE ~PagingHolds
  BY <1>1, <1>2 DEF PagingInv, PagingHolds
<1>3. CASE PagingHolds
  <2>1. CASE Start
    BY <1>3, <2>1, PagingStart
  <2>2. CASE Handle
    BY <1>3, <2>2, PagingHandle
  <2>3. CASE SendPackets
    <3>1. GivesUpQuery \/ AsksAgain \/ GivesUpRules \/ AsksRules \/ AsksPlayers \/ SendsNothing
      BY <2>3 DEF SendPackets
    <3> QED
      BY <1>3, <2>3, <3>1, PagingGivesUp, PagingAsksAgain, PagingAsksRules, PagingRest
  <2>4. CASE Tick
    BY <1>3, <2>4, PagingTick
  <2>5. CASE Rotate \/ Over \/ UNCHANGED all
    <3>1. s' = s /\ asked' = asked /\ main' = main /\ gaveUp' = gaveUp
      BY <2>5 DEF Rotate, Over, all, history
    <3> QED
      BY <1>1, <3>1 DEF PagingInv, Collects, PageFine, Preceded, Whole
  <2> QED
    BY <2>1, <2>2, <2>3, <2>4, <2>5 DEF Next
<1> QED
  BY <1>2, <1>3

\* A list that Half-Life's or Steam's master sent page by page is whole when it is
\* taken for complete, whatever was lost, came late or twice, and whatever sends
\* failed: no page is missing, each stands behind the one before it, the last one at
\* the end.  Left out, as in the property, is a master that sends a datagram of no
\* known kind: it is read as a page (qstat.c:6786).
THEOREM ListsWhole == QueriesSpec => []PagesWhole
<1>1. InitQueries => Counts /\ PagingInv
  BY DialogueStarts, PagingStarts
<1>2. Counts /\ PagingInv /\ [Next]_all => Counts' /\ PagingInv'
  BY CountsSteps, PagingSteps
<1>3. PagingInv => PagesWhole
  BY DEF PagingInv, PagesWhole, Paging, Whole, InOrder
<1> QED
  BY <1>1, <1>2, <1>3, PTL DEF QueriesSpec

-----------------------------------------------------------------------------
\* What a2s and fls remember of what was read: have_info and its like are set by
\* the replies of that name, and by nothing else.

DialogueKinds == {"info", "challenge", "rules", "players", "odd", "garbled", "fallback"}
Headed(g, t) ==
  t.name = "server" /\ g.type = "a2s" =>
    /\ t.status.format = IF g.format = 1 THEN 1 ELSE 2
    /\ g.format # 1 /\ g.app >= 128 => t.status.wide
Recalls(g, t, kinds) ==
  /\ kinds \subseteq DialogueKinds
  /\ t.status.haveInfo <=> "info" \in kinds
  /\ t.status.haveInfo <=> t.name = "server"
  /\ t.status.haveRules => "rules" \in kinds
  /\ t.status.havePlayer => "players" \in kinds
  /\ Headed(g, t)

\* How a packet may end the query of a server that is known.
Ended(g, t, ok, r) ==
  /\ r.ret = "DONE_AUTO" =>
       r.s.rule \/ A2SHasAll(r.s) \/ r.s.name = "none" \/ (t.name = "none" /\ ~Expects(t, g.format))
  /\ r.ret = "DONE_FORCE" => r.s.retry1 < 0 \/ r.s.want = {}
  /\ r.ret = "SYS_ERROR" => ~ok
  /\ r.ret = "INPROGRESS" => r.s.rule = t.rule
Heeds(g, t, before, kinds, ok, r) == Recalls(g, r.s, before \cup kinds) /\ Ended(g, t, ok, r)

LEMMA SameRecalls ==
  ASSUME NEW g, NEW t, NEW u, NEW before, NEW kinds, Recalls(g, t, before),
         kinds \subseteq DialogueKinds \ {"info"}, SameHave(t, u), u.name = t.name, SameHeader(t, u)
  PROVE  Recalls(g, u, before \cup kinds)
BY DEF Recalls, Headed, SameHave, SameHeader

LEMMA InfoHeeds ==
  ASSUME NEW g, NEW t \in Servers, NEW n, NEW before, Core(g, t, n), Stage(t), Recalls(g, t, before),
         NEW ok, NEW m \in Message4, m.kind = "info", m.format = g.format, m.app = g.app,
         NEW r, InfoLeft(t, m, r)
  PROVE  Heeds(g, t, before, {"info"}, ok, r)
<1>1. PICK u : u = r.s
  OBVIOUS
<1>2. /\ u.name = "server" /\ u.status.haveInfo
      /\ u.status.haveRules = t.status.haveRules /\ u.status.havePlayer = t.status.havePlayer
      /\ u.rule \/ A2SHasAll(u) \/ ~Expects(t, g.format)
      /\ r.ret = "DONE_AUTO"
  BY <1>1 DEF InfoLeft, InfoRead
<1>3. Headed(g, u)
  BY <1>1 DEF InfoLeft, Headed, Core
<1>4. Recalls(g, u, before \cup {"info"})
  BY <1>2, <1>3 DEF Recalls, DialogueKinds
<1>5. u.rule \/ A2SHasAll(u) \/ (t.name = "none" /\ ~Expects(t, g.format))
  BY <1>2 DEF Expects, Stage, Named
<1> QED
  BY <1>1, <1>2, <1>4, <1>5 DEF Heeds, Ended
LEMMA RulesHeeds ==
  ASSUME NEW g, NEW t \in Servers, NEW before, Stage(t), Recalls(g, t, before), NEW ok,
         NEW r, t.name # "none", RulesLeft(t, r)
  PROVE  Heeds(g, t, before, {"rules"}, ok, r)
<1>1. PICK u : u = r.s
  OBVIOUS
<1>2. /\ Progressed(t, u) /\ SameHeader(t, u) /\ u.name = t.name /\ u.status.haveInfo = t.status.haveInfo
      /\ u.status.havePlayer = t.status.havePlayer /\ r.ret = "DONE_AUTO"
  BY <1>1 DEF RulesLeft, RulesRead
<1>3. Recalls(g, u, before \cup {"rules"})
  BY <1>2 DEF Recalls, Headed, SameHeader, DialogueKinds
<1>4. u.rule \/ A2SHasAll(u)
  BY <1>2 DEF Progressed, Stage, Named
<1>5. Ended(g, t, ok, r)
  BY <1>1, <1>2, <1>4 DEF Ended
<1> QED
  BY <1>1, <1>3, <1>5 DEF Heeds

LEMMA PlayersHeeds ==
  ASSUME NEW g, NEW t \in Servers, NEW before, Stage(t), Recalls(g, t, before), NEW ok,
         NEW r, t.name # "none", PlayersLeft(t, r)
  PROVE  Heeds(g, t, before, {"players"}, ok, r)
<1>1. PICK u : u = r.s
  OBVIOUS
<1>2. /\ Progressed(t, u) /\ SameHeader(t, u) /\ u.name = t.name /\ u.status.haveInfo = t.status.haveInfo
      /\ u.status.haveRules = t.status.haveRules /\ r.ret = "DONE_AUTO"
  BY <1>1 DEF PlayersLeft, PlayersRead
<1>3. Recalls(g, u, before \cup {"players"})
  BY <1>2 DEF Recalls, Headed, SameHeader, DialogueKinds
<1>4. u.rule \/ A2SHasAll(u)
  BY <1>2 DEF Progressed, Stage, Named
<1>5. Ended(g, t, ok, r)
  BY <1>1, <1>2, <1>4 DEF Ended
<1> QED
  BY <1>1, <1>3, <1>5 DEF Heeds

LEMMA A2SChallengeHeeds ==
  ASSUME NEW g, NEW t \in Servers, NEW n, NEW ok \in BOOLEAN, Core(g, t, n), Stage(t), NEW before,
         Recalls(g, t, before), NEW m, Challenge(n, m)
  PROVE  Heeds(g, t, before, {"challenge"}, ok, A2SChallenge(t, m, ok))
<1>1. PICK c \in Int : c = m.challenge /\ c \in 1 .. n
  BY DEF Challenge
<1>2. PICK v : v = [ChallengeUncounted(t) EXCEPT !.status.challenge = c, !.status.haveChallenge = TRUE]
  OBVIOUS
<1>3. Challenged(t, v, c)
  BY <1>2, UncountedIs
<1>4. A2SChallenge(t, m, ok) = A2SRuleQuery(v, ok)
  BY <1>1, <1>2 DEF A2SChallenge
<1>5. v \in Servers /\ Unnamed(v) /\ Named(v) /\ (v.name = "none" => v.status.sentInfo)
  BY <1>1, <1>3, ChallengedCore
<1>6. PICK r : r = A2SRuleQuery(v, ok)
  OBVIOUS
<1>7. \/ /\ (v.want = {} /\ v.status.haveInfo) \/ v.retry1 < 0
         /\ r.ret = "DONE_FORCE" /\ r.s = v
      \/ /\ MoreAsked(v, r.s)
         /\ (ok /\ r.ret = "INPROGRESS") \/ (~ok /\ r.ret = "SYS_ERROR")
  <2>1. ~A2SRestarts(v)
    BY <1>5, NoRestart
  <2> QED
    BY <1>5, <1>6, <2>1, A2SRuleQueryEffect
<1>8. Ended(g, t, ok, r)
  <2>1. r.ret = "INPROGRESS" => r.s.rule = t.rule
    BY <1>3, <1>7 DEF MoreAsked, Challenged
  <2> QED
    BY <1>7, <2>1 DEF Ended
<1>9. SameHave(t, v) /\ v.name = t.name /\ SameHeader(t, v)
  BY <1>3 DEF Challenged, SameFate
<1>10. PICK u : u = r.s
  OBVIOUS
<1>11. u = v \/ (SameHave(v, u) /\ u.name = v.name /\ SameHeader(v, u))
  BY <1>7, <1>10 DEF MoreAsked, SameFate
<1>12. SameHave(t, u) /\ u.name = t.name /\ SameHeader(t, u)
  BY <1>9, <1>11 DEF SameHave, SameHeader
<1>13. Recalls(g, u, before \cup {"challenge"})
  BY <1>12, SameRecalls DEF DialogueKinds
<1> QED
  BY <1>4, <1>6, <1>8, <1>10, <1>13 DEF Heeds

LEMMA FLChallengeHeeds ==
  ASSUME NEW g, NEW t \in Servers, NEW n, NEW ok, Core(g, t, n), Stage(t), NEW before,
         Recalls(g, t, before), NEW m, Challenge(n, m)
  PROVE  Heeds(g, t, before, {"challenge"}, ok, FLChallenge(t, m))
<1>1. PICK c \in Int : c = m.challenge /\ c \in 1 .. n
  BY DEF Challenge
<1>2. PICK v : v = [ChallengeUncounted(t) EXCEPT !.status.challenge = c, !.status.haveChallenge = TRUE]
  OBVIOUS
<1>3. Challenged(t, v, c)
  BY <1>2, UncountedIs
<1>4. FLChallenge(t, m) = FLEnds(v)
  BY <1>1, <1>2 DEF FLChallenge
<1>5. v \in Servers /\ Named(v) /\ v.rule = t.rule /\ v.name = t.name
  BY <1>1, <1>3, ChallengedCore
<1>6. PICK ru \in BOOLEAN : ru = (v.rule /\ ~A2SHasAll(v))
  OBVIOUS
<1>7. PICK u : u = [v EXCEPT !.rule = ru]
  OBVIOUS
<1>8. RuleSet(v, u, ru)
  BY <1>5, <1>7, RuleIs
<1>9. PICK r : r = FLChallenge(t, m)
  OBVIOUS
<1>10. r.s = u /\ r.ret = "DONE_AUTO"
  BY <1>4, <1>6, <1>7, <1>9 DEF FLEnds, Ends
<1>11. u.rule \/ u.name = "none"
  BY <1>5, <1>6, <1>8 DEF RuleSet, SameFate, Named
<1>12. SameHave(t, u) /\ u.name = t.name /\ SameHeader(t, u)
  BY <1>3, <1>8 DEF Challenged, RuleSet, SameFate, SameHave, SameHeader
<1>13. Recalls(g, u, before \cup {"challenge"})
  BY <1>12, SameRecalls DEF DialogueKinds
<1> QED
  BY <1>9, <1>10, <1>11, <1>13 DEF Heeds, Ended

LEMMA WholeHeeds ==
  ASSUME NEW g, NEW t \in Servers, NEW n, NEW ok \in BOOLEAN, Core(g, t, n), Stage(t), NEW before,
         Recalls(g, t, before), NEW m,
         \/ Challenge(n, m) \/ Readable(g, t, m) \/ m.kind \in {"odd", "garbled", "fallback"}
  PROVE  Heeds(g, t, before, {m.kind}, ok, WholeHandler(t, m, ok))
<1>1. CASE Challenge(n, m)
  <2>1. WholeHandler(t, m, ok) = IF t.status.type = "a2s" THEN A2SChallenge(t, m, ok) ELSE FLChallenge(t, m)
    BY <1>1 DEF Challenge, WholeHandler, A2SWhole, FLWhole
  <2>2. m.kind = "challenge"
    BY <1>1 DEF Challenge
  <2> QED
    BY <1>1, <2>1, <2>2, A2SChallengeHeeds, FLChallengeHeeds
<1>2. CASE Readable(g, t, m)
  <2>1. m \in Message4 /\ m.kind \in {"info", "rules", "players"}
    BY <1>2 DEF Readable, Details
  <2>2. PICK r : r = WholeHandler(t, m, ok)
    OBVIOUS
  <2>3. CASE m.kind = "info"
    <3>1. InfoLeft(t, m, r)
      BY <2>1, <2>2, <2>3, InfoEffect
    <3>2. m.format = g.format /\ m.app = g.app
      BY <1>2, <2>3 DEF Readable
    <3> QED
      BY <2>1, <2>2, <2>3, <3>1, <3>2, InfoHeeds
  <2>4. CASE m.kind = "rules"
    <3>1. RulesLeft(t, r) /\ t.name # "none"
      BY <1>2, <2>1, <2>2, <2>4, RulesEffect DEF Readable
    <3> QED
      BY <2>2, <2>4, <3>1, RulesHeeds
  <2>5. CASE m.kind = "players"
    <3>1. PlayersLeft(t, r) /\ t.name # "none"
      BY <1>2, <2>1, <2>2, <2>5, PlayersEffect DEF Readable
    <3> QED
      BY <2>2, <2>5, <3>1, PlayersHeeds
  <2> QED
    BY <2>1, <2>3, <2>4, <2>5
<1>3. CASE m.kind \in {"odd", "garbled", "fallback"}
  <2>1. PICK r : r = WholeHandler(t, m, ok)
    OBVIOUS
  <2>2. r.s = t /\ r.ret = "PKT_ERROR"
    BY <1>3, <2>1 DEF WholeHandler, A2SWhole, FLWhole, Ends
  <2>3. Recalls(g, t, before \cup {m.kind})
    BY <1>3 DEF Recalls, DialogueKinds
  <2> QED
    BY <2>1, <2>2, <2>3 DEF Heeds, Ended
<1> QED
  BY <1>1, <1>2, <1>3

\* The replies a packet lets deal_with_a2s_packet and deal_with_fl_packet read.
Learned(t, m) ==
  IF m.kind # "fragment" THEN {m.kind}
  ELSE IF DialoguePut(t, m).ret = "call" THEN {Reassembled(DialoguePut(t, m).data).kind} ELSE {}

LEMMA PieceHeeds ==
  ASSUME NEW g, NEW t \in Servers, NEW n, NEW spent, NEW ok \in BOOLEAN, Core(g, t, n), Stage(t),
         Tries(t, spent), NEW before, Recalls(g, t, before),
         NEW m, Piece(m), t.name # "none", MessageFine(g, t, m.data.message)
  PROVE  Heeds(g, t, before, Learned(t, m), ok, DialoguePacket(t, m, ok))
<1>1. /\ IndexRead(t, m) \in Nat /\ MaxRead(t, m) \in Nat
      /\ ~Unreadable(t) => DialoguePacket(t, m, ok) = PieceHandler(t, m, DialoguePut(t, m), ok)
  BY PiecePacketIs
<1>2. ~Unreadable(t)
  <2>1. t.name = "server" /\ t.status.type = g.type
    BY DEF Recalls, Stage, Named, Core
  <2> QED
    BY <2>1 DEF Recalls, Headed, Unreadable, ReadsHL1
<1>3. PICK c : c = DialoguePut(t, m)
  OBVIOUS
<1>4. PICK u : u = [t EXCEPT !.saved = c.saved]
  OBVIOUS
<1>5. Stored(g, t, n, spent, c, u)
  BY <1>1, <1>3, <1>4, PieceStored DEF DialoguePut
<1>6. /\ Core(g, u, n) /\ Stage(u) /\ u \in Servers /\ u.name = t.name
      /\ u.status = t.status /\ u.rule = t.rule /\ u.want = t.want
  BY <1>5 DEF Stored, SavedSet, SameRest
<1>7. m.kind = "fragment"
  BY DEF Piece
<1>8. ASSUME NEW kinds, kinds \subseteq DialogueKinds \ {"info"}
      PROVE  Recalls(g, u, before \cup kinds)
  BY <1>6, <1>8, SameRecalls DEF SameHave, SameHeader
<1>9. PICK r : r = PieceHandler(t, m, c, ok)
  OBVIOUS
<1>10. CASE c.ret = "call"
  <2>1. PICK x : x = Reassembled(c.data)
    OBVIOUS
  <2>2. Readable(g, u, x) \/ x.kind \in {"odd", "garbled", "fallback"}
    BY <1>5, <1>10, <2>1 DEF Stored
  <2>3. Recalls(g, u, before)
    <3>1. Recalls(g, u, before \cup {})
      BY <1>8
    <3>2. before \cup {} = before
      OBVIOUS
    <3> QED
      BY <3>1, <3>2
  <2>4. r = WholeHandler(u, x, ok)
    BY <1>4, <1>9, <1>10, <2>1 DEF PieceHandler
  <2>5. Heeds(g, u, before, {x.kind}, ok, r)
    BY <1>6, <2>2, <2>3, <2>4, WholeHeeds
  <2>6. Learned(t, m) = {x.kind}
    BY <1>3, <1>7, <1>10, <2>1 DEF Learned
  <2>7. Heeds(g, t, before, {x.kind}, ok, r)
    BY <1>6, <2>5 DEF Heeds, Ended, Expects
  <2> QED
    BY <1>1, <1>2, <1>3, <1>9, <2>6, <2>7
<1>11. CASE c.ret # "call"
  <2>1. r.s = u /\ r.ret = c.ret
    BY <1>4, <1>9, <1>11 DEF PieceHandler, Ends
  <2>2. Ended(g, t, ok, r)
    BY <1>5, <1>6, <1>11, <2>1 DEF Ended, Stored
  <2>3. Learned(t, m) = {}
    BY <1>3, <1>7, <1>11 DEF Learned
  <2>4. Recalls(g, u, before \cup {})
    BY <1>8
  <2> QED
    BY <1>1, <1>2, <1>3, <1>9, <2>1, <2>2, <2>3, <2>4 DEF Heeds
<1> QED
  BY <1>10, <1>11

LEMMA PacketHeeds ==
  ASSUME NEW g, NEW t \in Servers, NEW n, NEW spent, NEW ok \in BOOLEAN, Core(g, t, n), Stage(t),
         Tries(t, spent), NEW before, Recalls(g, t, before), NEW m, Comes(g, t, n, m)
  PROVE  Heeds(g, t, before, Learned(t, m), ok, DialoguePacket(t, m, ok))
<1>1. CASE Piece(m) /\ t.name # "none" /\ MessageFine(g, t, m.data.message)
  BY <1>1, PieceHeeds
<1>2. CASE m.kind \in {"odd", "fallback"} \/ Challenge(n, m) \/ Readable(g, t, m)
  <2>1. m.kind # "fragment"
    BY <1>2 DEF Challenge, Readable, Details
  <2>2. Learned(t, m) = {m.kind}
    BY <2>1 DEF Learned
  <2>3. Heeds(g, t, before, {m.kind}, ok, WholeHandler(t, m, ok))
    BY <1>2, WholeHeeds
  <2> QED
    BY <2>1, <2>2, <2>3, WholePacketIs
<1> QED
  BY <1>1, <1>2 DEF Comes

\* It is what the history of Queries.tla notes.
LEMMA ReadIs ==
  ASSUME s.status.type \in Dialogues, NEW m, m.kind # "chunk"
  PROVE  Read(m) = Learned(s, m)
<1>1. Handler(s) = IF s.status.type = "a2s" THEN "a2s" ELSE "fl"
  BY TableSays DEF Handler, Dialogues
<1>2. CASE m.kind = "fragment"
  <2>1. ~ReadAlone(m)
    BY <1>1 DEF ReadAlone
  <2>2. FragmentOutcome(m) = IF s.status.type = "a2s" THEN A2SFragment(s, m) ELSE FLFragment(s, m)
    BY <1>1 DEF FragmentOutcome
  <2>3. FragmentOutcome(m) = DialoguePut(s, m)
    BY <2>2 DEF A2SFragment, FLFragment, DialoguePut, Put, IndexRead, MaxRead
  <2>4. Read(m) = FromFragment(m)
    BY <1>2 DEF Read
  <2> QED
    BY <1>2, <2>1, <2>3, <2>4 DEF FromFragment, Learned
<1>3. CASE m.kind # "fragment"
  BY <1>3 DEF Read, Learned
<1> QED
  BY <1>2, <1>3

-----------------------------------------------------------------------------
\* The invariant: what is remembered was read; a server that is closed as answered
\* has sent all it was asked for.

\* A server of fl.c with an old protocol tells no details.
Speaks(g) == g.type = "fls" => g.format > 1
Promised(g, t) == t.name = "none" /\ g.type = "a2s" /\ g.want # {} => t.rule
Fulfilled(g, t, kinds, gave) ==
  ~t.open /\ t.name = "server" /\ t.retry1 >= 0 /\ ~t.missing /\ ~gave => g.want \subseteq kinds
HeardInv ==
  setup.type \in Dialogues =>
    /\ Recalls(setup, s, heard)
    /\ Faultless /\ main = "work" /\ s.open => Promised(setup, s)
    /\ Faultless /\ Speaks(setup) => Fulfilled(setup, s, heard, gaveUp)

LEMMA FateRecalls ==
  ASSUME NEW g, NEW r, r.ret \in Rets, Plain(r.s), NEW kinds, Recalls(g, r.s, kinds)
  PROVE  Recalls(g, Fate(r), kinds) /\ (Fate(r).open => Fate(r) = r.s) /\ Keeps(r.s, Fate(r))
<1>1. PICK u : u = Fate(r)
  OBVIOUS
<1>2. r.s \in Servers /\ (u = r.s \/ Closed(r.s, u))
  BY <1>1, FateIs DEF Plain, Rets
<1>3. CASE u = r.s
  BY <1>1, <1>3 DEF Keeps
<1>4. CASE Closed(r.s, u)
  <2>1. Keeps(r.s, u) /\ ~u.open /\ u.name = IF r.s.name = "none" THEN "TIMEOUT" ELSE r.s.name
    BY <1>2, <1>4, ClosedSays
  <2>2. Recalls(g, u, kinds)
    BY <2>1 DEF Recalls, Headed, Keeps
  <2> QED
    BY <1>1, <2>1, <2>2
<1> QED
  BY <1>2, <1>3, <1>4

\* The first query, and the same again.
LEMMA StatusRecalls ==
  ASSUME NEW g, NEW t \in Servers, NEW n, NEW ok \in BOOLEAN, Core(g, t, n), g.type \in Dialogues, t.name = "none",
         NEW kinds, Recalls(g, t, kinds)
  PROVE  LET u == Fate(StatusQueryOf(t, ok))
         IN  Recalls(g, u, kinds) /\ (ok => Promised(g, u)) /\ u.name # "server"
<1>1. PICK r : r = StatusQueryOf(t, ok)
  OBVIOUS
<1>2. t.status.type = g.type /\ t.want = g.want /\ t.numPlayers = 0 /\ ~t.hasFound
  BY DEF Core
<1>3. /\ r.ret \in Rets /\ Plain(r.s) /\ SameHave(t, r.s) /\ r.s.name = t.name
      /\ ok /\ g.type = "a2s" /\ g.want # {} => r.s.rule
  <2>1. CASE ok
    <3>1. r.ret = "INPROGRESS" /\ InfoAsked(t, r.s) /\ (g.type = "a2s" /\ g.want # {} => r.s.rule)
      BY <1>1, <1>2, <2>1, StatusQueryEffect DEF StatusQueryOf
    <3> QED
      BY <1>2, <3>1 DEF InfoAsked, SameRest, SameFate, Plain, Rets
  <2>2. CASE ~ok
    <3>1. r.ret \in {"DONE_FORCE", "SYS_ERROR"} /\ Spends(t, r.s)
      BY <1>1, <2>2, StatusQueryEffect DEF StatusQueryOf
    <3> QED
      BY <1>2, <2>2, <3>1 DEF Spends, Same, Plain, Rets, SameHave
  <2> QED
    BY <2>1, <2>2
<1>4. Recalls(g, r.s, kinds)
  BY <1>3 DEF Recalls, Headed, SameHave
<1>5. /\ Recalls(g, Fate(r), kinds) /\ Keeps(r.s, Fate(r))
  BY <1>3, <1>4, FateRecalls
<1>6. Fate(r).name # "server"
  BY <1>3, <1>4, <1>5 DEF Recalls, Keeps
<1>7. ok => Promised(g, Fate(r))
  BY <1>3, <1>5 DEF Promised, Keeps
<1> QED
  BY <1>1, <1>5, <1>6, <1>7

LEMMA HeardStarts ==
  ASSUME InitQueries
  PROVE  HeardInv
<1>1. SUFFICES ASSUME setup.type \in Dialogues
               PROVE  Recalls(setup, s, heard) /\ s.open /\ main = "start"
  BY DEF HeardInv, Fulfilled
<1>2. setup.type \in Types /\ setup \in Setups
  BY <1>1 DEF Dialogues, Types, InitQueries
<1>3. Begins(s) /\ heard = {} /\ main = "start"
  BY <1>2, InitialServer DEF InitQueries
<1> QED
  BY <1>3 DEF Begins, HasNone, Recalls, Headed

LEMMA StartHeard ==
  ASSUME Counts, DialogueInv, HeardInv, setup.type \in Dialogues,
         Start \/ (main = "work" /\ s.open /\ setup' = setup /\ heard' = heard /\ AsksAgain)
  PROVE  HeardInv'
<1>1. /\ setup' = setup /\ heard' = heard /\ s.name = "none"
      /\ \E ok \in setup.sends : s' = Fate(StatusQueryFunc(s, ok))
  BY DEF Start, history, AsksAgain, AsksStatus, Nameless, DialogueInv, Begins
<1>2. PICK ok \in setup.sends : s' = Fate(StatusQueryFunc(s, ok))
  BY <1>1
<1>3. ok \in BOOLEAN /\ (Faultless => ok)
  BY <1>2, SetupIs DEF Counts, Faultless
<1>4. Core(setup, s, issued) /\ s \in Servers /\ s.status.type \in Dialogues /\ Recalls(setup, s, heard)
  BY DEF DialogueInv, HeardInv, Core
<1>5. s' = Fate(StatusQueryOf(s, ok))
  BY <1>2, <1>4, FunctionsOf
<1>6. Recalls(setup, s', heard) /\ (ok => Promised(setup, s')) /\ s'.name # "server"
  BY <1>1, <1>3, <1>4, <1>5, StatusRecalls
<1>7. Faultless' = Faultless
  BY <1>1 DEF Faultless
<1> QED
  BY <1>1, <1>3, <1>6, <1>7 DEF HeardInv, Fulfilled

LEMMA HandleHeard ==
  ASSUME Counts, DialogueInv, HeardInv, setup.type \in Dialogues, Handle
  PROVE  HeardInv'
<1>1. setup' = setup /\ main' = "work" /\ main = "work" /\ s.open
  BY DEF Handle
<1>2. PICK m \in Arrivals, ok \in setup.sends :
        /\ s' = Fate(PacketFunc(s, m, ok)) /\ heard' = heard \cup Read(m)
        /\ gaveUp' = (gaveUp \/ PacketFunc(s, m, ok).ret \in Errors)
  BY DEF Handle
<1>3. /\ Core(setup, s, issued) /\ Tries(s, resends + renewals) /\ Stage(s) /\ s \in Servers
      /\ s.status.type \in Dialogues /\ Recalls(setup, s, heard)
  BY <1>1 DEF DialogueInv, HeardInv, Core
<1>4. Comes(setup, s, issued, m) /\ ok \in BOOLEAN /\ (Faultless => ok)
  BY <1>1, <1>2, ArrivesFine, SetupIs DEF Counts, Faultless
<1>5. PICK r : r = DialoguePacket(s, m, ok)
  OBVIOUS
<1>6. s' = Fate(r) /\ gaveUp' = (gaveUp \/ r.ret \in Errors) /\ heard' = heard \cup Learned(s, m)
  <2>1. m.kind # "chunk"
    BY <1>4 DEF Comes, Challenge, Readable, Piece, Details
  <2> QED
    BY <1>2, <1>3, <1>5, <2>1, FunctionsOf, ReadIs
<1>7. Recalls(setup, r.s, heard') /\ Ended(setup, s, ok, r)
  BY <1>3, <1>4, <1>5, <1>6, PacketHeeds DEF Heeds
<1>8. r.ret \in Rets /\ Plain(r.s) /\ r.s.want = setup.want /\ r.s.status.type \in Dialogues /\ r.s.open
  <2>1. PICK spent \in Nat : spent = resends + renewals
    BY DEF Counts
  <2>2. Good(setup, s, issued, spent + Renews(s, m), r)
    BY <1>3, <1>4, <1>5, <2>1, PacketGood DEF Counts
  <2> QED
    BY <1>1, <2>2 DEF Good, Core, Plain
<1>9. /\ Recalls(setup, s', heard') /\ (s'.open => s' = r.s) /\ Keeps(r.s, s')
  BY <1>6, <1>7, <1>8, FateRecalls
<1>10. Faultless' = Faultless
  BY <1>1 DEF Faultless
<1>11. ASSUME Faultless, s'.open
       PROVE  Promised(setup, s')
  <2>1. Promised(setup, s)
    BY <1>1, <1>11 DEF HeardInv
  <2>2. r.s.name = "none" => s.name = "none"
    <3>1. PICK spent \in Nat : spent = resends + renewals
      BY DEF Counts
    <3>2. Good(setup, s, issued, spent + Renews(s, m), r)
      BY <1>3, <1>4, <1>5, <3>1, PacketGood DEF Counts
    <3> QED
      BY <3>2 DEF Good
  <2>3. CASE r.s.name = "none"
    <3>1. r.ret = "INPROGRESS"
      <4>1. Closed(r.s, s') => ~s'.open
        BY <1>8, ClosedSays DEF Plain
      <4> QED
        BY <1>6, <1>8, <1>11, <2>3, <4>1, FateIs
    <3> QED
      BY <1>7, <1>9, <1>11, <2>1, <2>2, <2>3, <3>1 DEF Promised, Ended
  <2> QED
    BY <1>9, <1>11, <2>3 DEF Promised
<1>12. ASSUME Faultless, Speaks(setup), ~s'.open, s'.name = "server", s'.retry1 >= 0, ~s'.missing, ~gaveUp'
       PROVE  setup.want \subseteq heard'
  <2>1. r.ret \notin Errors /\ ok
    BY <1>4, <1>6, <1>12
  <2>2. r.s.retry1 >= 0 /\ r.s.name = "server"
    BY <1>7, <1>9, <1>12 DEF Keeps, Recalls
  <2>3. r.ret \in {"DONE_AUTO", "DONE_FORCE"}
    BY <1>6, <1>8, <1>12, <2>1, FateIs DEF Rets, Errors
  <2>4. CASE r.ret = "DONE_FORCE"
    BY <1>7, <1>8, <2>2, <2>4, Fields DEF Ended, Plain
  <2>5. CASE r.ret = "DONE_AUTO"
    <3>1. ~r.s.rule
      BY <1>6, <1>8, <1>12, <2>2, <2>5, FateIs DEF Dialogues
    <3>2. s.name = "none" => setup.want = {} \/ Expects(s, setup.format)
      BY <1>1, <1>3, <1>12 DEF HeardInv, Promised, Expects, Speaks, Core, Dialogues
    <3>3. setup.want = {} \/ A2SHasAll(r.s)
      BY <1>7, <2>2, <2>5, <3>1, <3>2 DEF Ended
    <3>4. CASE A2SHasAll(r.s)
      BY <1>3, <1>7, <1>8, <3>4, SetupIs DEF A2SHasAll, Recalls, Counts, Details
    <3> QED
      BY <3>3, <3>4
  <2> QED
    BY <2>3, <2>4, <2>5
<1> QED
  BY <1>1, <1>9, <1>10, <1>11, <1>12 DEF HeardInv, Fulfilled

\* The other steps read nothing.
LEMMA UnchangedHeard ==
  ASSUME HeardInv, setup.type \in Dialogues, setup' = setup, main' = main, heard' = heard, gaveUp' = gaveUp,
         s'.name = s.name, s'.open = s.open, s'.status = s.status, s'.rule = s.rule, s'.retry1 = s.retry1,
         s'.missing = s.missing
  PROVE  HeardInv'
<1>1. Recalls(setup, s, heard) /\ Recalls(setup, s', heard')
  BY DEF HeardInv, Recalls, Headed
<1>2. Faultless' = Faultless
  BY DEF Faultless
<1>3. Promised(setup, s) <=> Promised(setup, s')
  BY DEF Promised
<1>4. Fulfilled(setup, s, heard, gaveUp) <=> Fulfilled(setup, s', heard', gaveUp')
  BY DEF Fulfilled
<1> QED
  BY <1>1, <1>2, <1>3, <1>4 DEF HeardInv

LEMMA CleanedUpHeard ==
  ASSUME HeardInv, setup.type \in Dialogues, setup' = setup, heard' = heard, Core(setup, s, issued),
         NEW force \in BOOLEAN, NEW u \in Servers, s' = CleanupOne(u, force), u.status = s.status, u.name = s.name,
         u.numPlayers = s.numPlayers, u.hasFound = s.hasFound, u.name = "none" \/ (u.missing /\ ~u.rule)
  PROVE  HeardInv'
<1>1. Plain(u)
  BY DEF Plain, Core
<1>2. Closed(u, s')
  BY <1>1, CleanupCloses
<1>3. Keeps(u, s') /\ ~s'.open /\ s'.name = IF u.name = "none" THEN "TIMEOUT" ELSE u.name
  BY <1>2, ClosedSays
<1>4. Recalls(setup, s', heard)
  BY <1>3 DEF HeardInv, Recalls, Headed, Keeps
<1>5. s'.name = "server" => s'.missing
  BY <1>3 DEF Keeps
<1> QED
  BY <1>3, <1>4, <1>5 DEF HeardInv, Fulfilled

LEMMA GivesUpHeard ==
  ASSUME Counts, DialogueInv, HeardInv, setup.type \in Dialogues, main = "work", s.open, setup' = setup, heard' = heard,
         GivesUpQuery \/ GivesUpRules
  PROVE  HeardInv'
<1>1. Core(setup, s, issued) /\ s \in Servers
  BY DEF DialogueInv, Core
<1>2. CASE GivesUpQuery
  BY <1>1, <1>2, CleanedUpHeard DEF GivesUpQuery, Nameless
<1>3. CASE GivesUpRules
  <2>1. PICK u : u = [s EXCEPT !.rule = FALSE, !.missing = TRUE]
    OBVIOUS
  <2>2. /\ u \in Servers /\ u.status = s.status /\ u.name = s.name /\ u.missing /\ ~u.rule
        /\ u.numPlayers = s.numPlayers /\ u.hasFound = s.hasFound
    BY <1>1, <2>1 DEF Servers
  <2>3. s' = CleanupOne(u, FALSE)
    BY <1>3, <2>1 DEF GivesUpRules
  <2> QED
    BY <1>1, <2>2, <2>3, CleanedUpHeard
<1> QED
  BY <1>2, <1>3

LEMMA AsksRulesHeard ==
  ASSUME Counts, DialogueInv, HeardInv, setup.type \in Dialogues, main = "work", s.open, setup' = setup, heard' = heard,
         AsksRules
  PROVE  HeardInv'
<1>1. PICK ok \in BOOLEAN, more \in BOOLEAN :
        LET rules == RuleQueryFunc(s, ok) IN s' = After(rules, PlayerStage(rules.s, more)).s
  BY SetupIs DEF AsksRules, Counts
<1>2. /\ Core(setup, s, issued) /\ Stage(s) /\ s \in Servers /\ s.status.type \in Dialogues
      /\ Recalls(setup, s, heard)
  BY DEF DialogueInv, HeardInv, Core
<1>3. s.name # "none" /\ Unnamed(s) /\ Named(s)
  BY <1>2, PastStatusNamed DEF AsksRules, Stage
<1>4. PICK rules : rules = RuleQueryOf(s, ok)
  OBVIOUS
<1>5. rules.s = s \/ MoreAsked(s, rules.s)
  <2>1. ~A2SRestarts(s) /\ ~FLRestarts(s)
    BY <1>3, NoRestart
  <2> QED
    BY <1>2, <1>4, <2>1, A2SRuleQueryEffect, FLRuleQueryEffect DEF RuleQueryOf
<1>6. rules.s \in Servers /\ rules.s.numPlayers = 0 /\ rules.s.open /\ rules.s.name = s.name
      /\ SameHave(s, rules.s) /\ SameHeader(s, rules.s)
  BY <1>2, <1>5 DEF MoreAsked, SameRest, SameFate, SameHave, SameHeader, Core
<1>7. s' = rules.s
  BY <1>1, <1>2, <1>4, <1>6, FunctionsOf, NoPlayerStage DEF After, Ends
<1>8. Recalls(setup, s', heard \cup {})
  BY <1>2, <1>6, <1>7, SameRecalls
<1>9. Recalls(setup, s', heard')
  <2>1. heard \cup {} = heard
    OBVIOUS
  <2> QED
    BY <1>8, <2>1
<1> QED
  BY <1>3, <1>6, <1>7, <1>9 DEF HeardInv, Fulfilled, Promised

LEMMA HeardSteps ==
  ASSUME Counts, DialogueInv, HeardInv, [Next]_all
  PROVE  HeardInv'
<1>1. setup' = setup
  BY CountsSteps
<1>2. CASE setup.type \notin Dialogues
  BY <1>1, <1>2 DEF HeardInv
<1>3. CASE setup.type \in Dialogues
  <2>1. CASE Start
    BY <1>3, <2>1, StartHeard
  <2>2. CASE Handle
    BY <1>3, <2>2, HandleHeard
  <2>3. CASE SendPackets
    <3>1. s.open /\ main = "work" /\ heard' = heard
      BY <2>3 DEF SendPackets
    <3>2. GivesUpQuery \/ AsksAgain \/ GivesUpRules \/ AsksRules
      BY <1>3, <2>3, <3>1, NothingElse DEF SendPackets
    <3> QED
      BY <1>1, <1>3, <3>1, <3>2, GivesUpHeard, StartHeard, AsksRulesHeard
  <2>4. CASE Tick
    <3>1. s \in Servers /\ main' = main /\ heard' = heard /\ gaveUp' = gaveUp
      BY <1>3, <2>4 DEF DialogueInv, Core, Tick, history
    <3> QED
      BY <1>1, <1>3, <2>4, <3>1, TickIs, UnchangedHeard DEF Waited
  <2>5. CASE Rotate \/ Over \/ UNCHANGED all
    BY <1>1, <1>3, <2>5, UnchangedHeard DEF Rotate, Over, all, history
  <2> QED
    BY <2>1, <2>2, <2>3, <2>4, <2>5 DEF Next
<1> QED
  BY <1>2, <1>3

LEMMA HeardHolds == QueriesSpec => [](Counts /\ DialogueInv /\ HeardInv)
<1>1. InitQueries => Counts /\ DialogueInv /\ HeardInv
  BY DialogueStarts, HeardStarts
<1>2. Counts /\ DialogueInv /\ HeardInv /\ [Next]_all => Counts' /\ DialogueInv' /\ HeardInv'
  BY CountsSteps, DialogueSteps, HeardSteps
<1> QED
  BY <1>1, <1>2, PTL DEF QueriesSpec

LEMMA SilentWhenForgotten ==
  ASSUME HeardInv, setup.type \in Dialogues
  PROVE  TimeoutMeansSilence
<1>1. SUFFICES ASSUME s.name = "TIMEOUT"
               PROVE  heard \cap NamesServer = {}
  BY DEF TimeoutMeansSilence
<1>2. heard \subseteq DialogueKinds /\ "info" \notin heard
  BY <1>1 DEF HeardInv, Recalls
<1>3. DialogueKinds \cap NamesServer \subseteq {"info"}
  BY DEF DialogueKinds, NamesServer, Dialogues
<1> QED
  BY <1>2, <1>3

LEMMA AllWhenAnswered ==
  ASSUME HeardInv, Counts, DialogueInv, setup.type \in Dialogues, Speaks(setup), ~gaveUp
  PROVE  AnsweredMeansAll
<1>1. SUFFICES ASSUME Answered, ~UsedUp
               PROVE  Needed \subseteq heard /\ (Needed = {} => heard \cap Sources # {})
  BY DEF AnsweredMeansAll
<1>2. GameHandler(setup) \in {"a2s", "fl"}
  BY TableSays DEF GameHandler, Dialogues
<1>3. Needed = {"info"} \cup setup.want
  <2>1. PICK h : h = GameHandler(setup)
    OBVIOUS
  <2>2. CASE h = "a2s"
    BY <2>1, <2>2 DEF Needed, Dialogues
  <2>3. CASE h = "fl"
    BY <2>1, <2>3 DEF Needed, Dialogues
  <2> QED
    BY <1>2, <2>1, <2>2, <2>3
<1>4. ~(s.retry1 < 0)
  BY <1>1, <1>2 DEF UsedUp
<1>5. s.retry1 >= 0
  BY <1>4 DEF DialogueInv, Core, Servers
<1>6. setup.want \subseteq heard
  BY <1>1, <1>5 DEF HeardInv, Fulfilled, Answered
<1>7. "info" \in heard
  BY <1>1 DEF HeardInv, Recalls, Answered
<1> QED
  BY <1>3, <1>6, <1>7

-----------------------------------------------------------------------------
\* When the pieces of a reply are all there.

Its(saved, id) == {k \in Pending(saved) : saved[k].id = id}
Fits(saved, id, parts) == \A k \in Its(saved, id) : saved[k].max = parts /\ saved[k].index \in 0 .. parts - 1
MissesOne(saved, id, parts) == \E p \in 0 .. parts - 1 : \A k \in Its(saved, id) : saved[k].index # p

LEMMA PendingKept ==
  ASSUME NEW saved \in Seq(Kept), NEW k \in Pending(saved)
  PROVE  /\ k \in DOMAIN saved /\ k \in Nat /\ saved[k].max # 0
         /\ saved[k].id \in Nat /\ saved[k].index \in Nat /\ saved[k].max \in Nat /\ saved[k].data \in Slices
<1>1. k \in DOMAIN saved /\ saved[k].max # 0
  BY DEF Pending
<1>2. saved[k] \in Kept /\ k \in Nat
  BY <1>1
<1> QED
  BY <1>1, <1>2, KeptFields

LEMMA TotalIs ==
  ASSUME NEW saved \in Seq(Kept), NEW parts, NEW id \in ResponseIds(saved), Fits(saved, id, parts)
  PROVE  Total(saved, id) = parts /\ parts \in Nat \ {0} /\ Agreeing(saved, id) = Its(saved, id)
<1>1. PICK k : k = FirstOf(saved, id) /\ k \in Its(saved, id) /\ Total(saved, id) = saved[k].max
  BY FirstIs DEF Its
<1>2. Total(saved, id) = parts
  BY <1>1 DEF Fits
<1>3. Total(saved, id) \in Nat \ {0}
  BY FirstIs
<1>4. Agreeing(saved, id) = Its(saved, id)
  BY <1>2 DEF Agreeing, Its, Fits
<1> QED
  BY <1>2, <1>3, <1>4

\* An index that came is among the segments.
LEMMA SegmentHas ==
  ASSUME NEW saved \in Seq(Kept), NEW parts, NEW id, Fits(saved, id, parts), NEW k \in Its(saved, id)
  PROVE  \E j \in Segments(saved, id) : saved[j].index = saved[k].index
<1>1. id \in ResponseIds(saved)
  BY DEF Its, ResponseIds
<1>2. Agreeing(saved, id) = Its(saved, id)
  BY <1>1, TotalIs
<1> DEFINE same == {j \in Its(saved, id) : saved[j].index = saved[k].index}
<1>3. same \in SUBSET Nat /\ same # {}
  BY PendingKept DEF Its
<1>4. PICK j \in same : \A i \in same : j <= i
  BY <1>3, LeastNumber
<1>5. j \in Segments(saved, id)
  BY <1>2, <1>4 DEF Segments
<1> QED
  BY <1>4, <1>5

\* counts[id] = maxes[id] when no index is missing.
LEMMA CountedIs ==
  ASSUME NEW saved \in Seq(Kept), NEW parts, NEW id \in ResponseIds(saved), Fits(saved, id, parts)
  PROVE  /\ Counted(saved, id) <=> ~MissesOne(saved, id, parts)
         /\ Counted(saved, id) => NoneMissing(saved, id)
<1>1. Total(saved, id) = parts /\ parts \in Nat \ {0} /\ Agreeing(saved, id) = Its(saved, id)
  BY TotalIs
<1>2. PICK segments : segments = Segments(saved, id)
  OBVIOUS
<1>3. PICK places : places = 0 .. parts - 1
  OBVIOUS
<1>4. IsFiniteSet(places) /\ Cardinality(places) = parts
  BY <1>1, <1>3, FS_Interval
<1>5. PICK at : at = [k \in segments |-> saved[k].index]
  OBVIOUS
<1>6. at \in [segments -> places]
  BY <1>1, <1>2, <1>3, <1>5 DEF Segments, Fits
<1>7. \A j, k \in segments : at[j] = at[k] => j = k
  <2>1. SUFFICES ASSUME NEW j \in segments, NEW k \in segments, saved[j].index = saved[k].index
                 PROVE  j = k
    BY <1>5
  <2>2. j <= k /\ k <= j
    BY <1>2, <2>1 DEF Segments
  <2>3. j \in Nat /\ k \in Nat
    BY <1>1, <1>2, PendingKept DEF Segments, Its
  <2> QED
    BY <2>2, <2>3
<1>8. at \in Injection(segments, places)
  BY <1>6, <1>7 DEF Injection, IsInjective
<1>9. Cardinality(segments) = parts <=> at \in Surjection(segments, places)
  BY <1>4, <1>8, FS_Injection
<1>10. at \in Surjection(segments, places) <=> \A p \in places : \E k \in segments : saved[k].index = p
  BY <1>5, <1>6 DEF Surjection
<1>11. ~MissesOne(saved, id, parts) <=> \A p \in places : \E k \in segments : saved[k].index = p
  <2>1. ASSUME NEW p \in places, NEW k \in Its(saved, id), saved[k].index = p
        PROVE  \E j \in segments : saved[j].index = p
    BY <1>2, <2>1, SegmentHas
  <2>2. segments \subseteq Its(saved, id)
    BY <1>1, <1>2 DEF Segments
  <2> QED
    BY <1>3, <2>1, <2>2 DEF MissesOne
<1>12. Counted(saved, id) <=> Cardinality(segments) = parts
  BY <1>1, <1>2 DEF Counted
<1>13. NoneMissing(saved, id) <=> \A p \in places : \E k \in segments : saved[k].index = p
  BY <1>1, <1>2, <1>3 DEF NoneMissing
<1> QED
  BY <1>9, <1>10, <1>11, <1>12, <1>13

\* A new piece is on the list once.
LEMMA InsertOnce ==
  ASSUME NEW saved \in Seq(Kept), NEW f \in Kept
  PROVE  LET more == Insert(saved, f)
         IN  \E new \in DOMAIN more :
               more[new] = f /\ \A k \in DOMAIN more : k # new => \E j \in DOMAIN saved : more[k] = saved[j]
<1>1. CASE saved = <<>>
  <2>1. Insert(saved, f) = <<f>>
    BY <1>1 DEF Insert
  <2>2. DOMAIN <<f>> = {1} /\ <<f>>[1] = f
    OBVIOUS
  <2> QED
    BY <2>1, <2>2
<1>2. CASE saved # <<>>
  <2>1. Insert(saved, f) = <<Head(saved), f>> \o Tail(saved)
    BY <1>2 DEF Insert
  <2>2. PICK rest \in Seq(Kept) : rest = Tail(saved) /\ Len(rest) = Len(saved) - 1
                                  /\ \A k \in 1 .. Len(rest) : rest[k] = saved[k + 1]
    BY <1>2, HeadTailProperties
  <2>3. PICK first \in Kept : first = Head(saved) /\ first = saved[1]
    BY <1>2
  <2>4. PICK more : more = <<first, f>> \o rest
    OBVIOUS
  <2>5. /\ more \in Seq(Kept) /\ Len(more) = Len(saved) + 1 /\ more[1] = saved[1] /\ more[2] = f
        /\ \A k \in 3 .. Len(more) : more[k] = saved[k - 1]
    BY <2>2, <2>3, <2>4
  <2>6. DOMAIN more = 1 .. Len(saved) + 1 /\ DOMAIN saved = 1 .. Len(saved) /\ Len(saved) \in Nat /\ Len(saved) # 0
    BY <1>2, <2>5
  <2>7. ASSUME NEW k \in DOMAIN more, k # 2
        PROVE  \E j \in DOMAIN saved : more[k] = saved[j]
    <3>1. CASE k = 1
      BY <2>5, <2>6, <3>1
    <3>2. CASE k > 2
      <4>1. k - 1 \in DOMAIN saved /\ more[k] = saved[k - 1]
        BY <2>5, <2>6, <3>2
      <4> QED
        BY <4>1
    <3> QED
      BY <2>6, <2>7, <3>1, <3>2
  <2>8. Insert(saved, f) = more /\ 2 \in DOMAIN more
    BY <2>1, <2>2, <2>3, <2>4, <2>6
  <2> HIDE DEF Insert
  <2> QED
    BY <2>5, <2>7, <2>8
<1> QED
  BY <1>1, <1>2

-----------------------------------------------------------------------------
\* What a2s and fls keep: pieces of the replies to what was asked for, each in its
\* place; of every reply that was not read yet one is missing.

Cut(g, ask, f) ==
  /\ f.id \in DOMAIN ask /\ f.index \in 0 .. g.parts - 1 /\ f.max \in {0, g.parts}
  /\ f.data.part = f.index + 1 /\ f.data.parts = g.parts /\ f.data.message = Message(g, ask[f.id].kind)
AllCut(g, ask, saved) == \A k \in DOMAIN saved : Cut(g, ask, saved[k])
Waiting(g, saved) == \A id \in Nat : MissesOne(saved, id, g.parts)
ReadBefore(ask, saved, kinds) == \A k \in DOMAIN saved : saved[k].max = 0 => ask[saved[k].id].kind \in kinds
Filed(g, ask, saved, kinds) == AllCut(g, ask, saved) /\ Waiting(g, saved) /\ ReadBefore(ask, saved, kinds)

LEMMA CutFits ==
  ASSUME NEW g, NEW ask, NEW saved, AllCut(g, ask, saved), NEW id
  PROVE  Fits(saved, id, g.parts)
BY DEF Fits, Its, Pending, AllCut, Cut

\* The pieces of a reply that lacks none make up that reply.
LEMMA CombinedIs ==
  ASSUME NEW g, NEW ask, NEW saved \in Seq(Kept), AllCut(g, ask, saved), NEW id \in Complete(saved),
         g.parts \in Nat \ {0}
  PROVE  Reassembled(Combined(saved, id)) = Message(g, ask[id].kind)
<1>1. id \in ResponseIds(saved) /\ Counted(saved, id) /\ Fits(saved, id, g.parts)
  BY CutFits DEF Complete
<1>2. Total(saved, id) = g.parts /\ NoneMissing(saved, id)
  BY <1>1, TotalIs, CountedIs
<1>3. PICK data : data = Combined(saved, id)
  OBVIOUS
<1>4. DOMAIN data = 1 .. g.parts /\ Len(data) = g.parts /\ 1 \in DOMAIN data
  BY <1>2, <1>3 DEF Combined
<1>5. ASSUME NEW p \in DOMAIN data
      PROVE  data[p].part = p /\ data[p].parts = Len(data) /\ data[p].message = Message(g, ask[id].kind)
  <2>1. PICK k : k = SegmentAt(saved, id, p - 1)
    OBVIOUS
  <2>2. p - 1 \in 0 .. Total(saved, id) - 1 /\ p \in Nat
    BY <1>2, <1>4
  <2>3. k \in Pending(saved) /\ saved[k].id = id /\ saved[k].index = p - 1
    BY <1>1, <1>2, <2>1, <2>2, SegmentIs
  <2>4. data[p] = saved[k].data
    BY <1>2, <1>3, <1>4, <2>1 DEF Combined
  <2>5. Cut(g, ask, saved[k])
    BY <2>3 DEF AllCut, Pending
  <2> QED
    BY <1>4, <2>2, <2>3, <2>4, <2>5 DEF Cut
<1>6. data[1].message = Message(g, ask[id].kind)
  BY <1>4, <1>5
<1> QED
  BY <1>3, <1>5, <1>6 DEF Reassembled

LEMMA HandledFiled ==
  ASSUME NEW g, NEW ask, NEW saved \in Seq(Kept), AllCut(g, ask, saved),
         NEW kinds, ReadBefore(ask, saved, kinds), NEW id, NEW new \in Segments(saved, id),
         \A k \in DOMAIN saved : saved[k].id = id /\ saved[k].max # 0 /\ saved[k].index = saved[new].index => k = new,
         \A other \in Nat : other # id => MissesOne(saved, other, g.parts)
  PROVE  Filed(g, ask, Handled(saved, id), kinds \cup {ask[id].kind})
<1>1. PICK left : left = Handled(saved, id)
  OBVIOUS
<1>2. /\ left \in Seq(Kept) /\ DOMAIN left = DOMAIN saved
      /\ \A k \in DOMAIN saved :
           /\ left[k].id = saved[k].id /\ left[k].index = saved[k].index /\ left[k].data = saved[k].data
           /\ left[k].max = IF k \in Segments(saved, id) THEN 0 ELSE saved[k].max
  BY <1>1, HandledIs
<1>3. AllCut(g, ask, left)
  BY <1>2 DEF AllCut, Cut
<1>4. ReadBefore(ask, left, kinds \cup {ask[id].kind})
  BY <1>2 DEF ReadBefore, Segments, Agreeing
<1>5. ASSUME NEW other \in Nat
      PROVE  MissesOne(left, other, g.parts)
  <2>1. Its(left, other) \subseteq Its(saved, other)
    BY <1>2 DEF Its, Pending
  <2>2. CASE other # id
    <3>1. PICK p \in 0 .. g.parts - 1 : \A k \in Its(saved, other) : saved[k].index # p
      BY <2>2 DEF MissesOne
    <3>2. \A k \in Its(left, other) : left[k].index # p
      BY <1>2, <2>1, <3>1 DEF Its, Pending
    <3> QED
      BY <3>1, <3>2 DEF MissesOne
  <2>3. CASE other = id
    <3>1. new \in DOMAIN saved /\ saved[new].index \in 0 .. g.parts - 1
      BY DEF Segments, Agreeing, Pending, AllCut, Cut
    <3>2. \A k \in Its(left, other) : left[k].index # saved[new].index
      BY <1>2, <2>3 DEF Its, Pending
    <3> QED
      BY <3>1, <3>2 DEF MissesOne
  <2> QED
    BY <2>2, <2>3
<1> QED
  BY <1>1, <1>3, <1>4, <1>5 DEF Filed, Waiting

\* Filing a piece: either something is still missing, or the reply is read.
FilesIt(g, ask, c, kinds, kind) ==
  \/ c.ret = "PKT_ERROR"
  \/ c.ret = "INPROGRESS" /\ Filed(g, ask, c.saved, kinds)
  \/ /\ c.ret = "call" /\ Filed(g, ask, c.saved, kinds \cup {kind})
     /\ Reassembled(c.data) = Message(g, kind)
LEMMA FilesPiece ==
  ASSUME NEW g, g.parts \in Nat \ {0}, NEW ask, NEW saved \in Seq(Kept), NEW kinds, Filed(g, ask, saved, kinds),
         NEW f \in Kept, Cut(g, ask, f), f.max # 0
  PROVE  FilesIt(g, ask, Combine(Insert(saved, f)), kinds, ask[f.id].kind)
<1>1. PICK more : more = Insert(saved, f)
  OBVIOUS
<1>2. more \in Seq(Kept)
  BY <1>1, InsertIs
<1>3. PICK new \in DOMAIN more :
        more[new] = f /\ \A k \in DOMAIN more : k # new => \E j \in DOMAIN saved : more[k] = saved[j]
  BY <1>1, InsertOnce
<1>4. AllCut(g, ask, more)
  BY <1>3 DEF AllCut, Filed
<1>5. ReadBefore(ask, more, kinds)
  BY <1>3 DEF ReadBefore, Filed
<1>6. PICK id \in Nat : id = f.id
  BY KeptFields
<1>7. ASSUME NEW other \in Nat, other # id
      PROVE  MissesOne(more, other, g.parts)
  <2>1. PICK p \in 0 .. g.parts - 1 : \A k \in Its(saved, other) : saved[k].index # p
    BY DEF Filed, Waiting, MissesOne
  <2>2. \A k \in Its(more, other) : more[k].index # p
    BY <1>3, <1>6, <1>7, <2>1 DEF Its, Pending
  <2> QED
    BY <2>2 DEF MissesOne
<1>8. Complete(more) \subseteq {id}
  <2>1. SUFFICES ASSUME NEW other \in Complete(more), other # id
                 PROVE  FALSE
    OBVIOUS
  <2>2. other \in ResponseIds(more) /\ Counted(more, other) /\ Fits(more, other, g.parts)
    BY <1>4, CutFits DEF Complete
  <2>3. other \in Nat
    BY <1>2, <2>2, PendingKept DEF ResponseIds
  <2> QED
    BY <1>2, <1>7, <2>1, <2>2, <2>3, CountedIs
<1>9. PICK c : c = Combine(more)
  OBVIOUS
<1>10. \/ c.ret = "PKT_ERROR"
       \/ /\ c.ret = "INPROGRESS" /\ c.saved = more
          /\ Complete(more) = {} \/ ~NoneMissing(more, Chosen(more))
       \/ /\ c.ret = "call" /\ Chosen(more) \in Complete(more)
          /\ c.saved = Handled(more, Chosen(more)) /\ c.data = Combined(more, Chosen(more))
  BY <1>2, <1>9, CombineIs
<1>11. CASE /\ c.ret = "INPROGRESS" /\ c.saved = more
            /\ Complete(more) = {} \/ ~NoneMissing(more, Chosen(more))
  <2>1. Complete(more) = {}
    <3>1. SUFFICES ASSUME Complete(more) # {}
                   PROVE  FALSE
      OBVIOUS
    <3>2. PICK one \in Complete(more) : one = Chosen(more)
      BY <1>2, <3>1, ChosenIs
    <3>3. one \in ResponseIds(more) /\ Counted(more, one) /\ Fits(more, one, g.parts)
      BY <1>4, CutFits DEF Complete
    <3> QED
      BY <1>2, <1>11, <3>2, <3>3, CountedIs
  <2>2. ASSUME NEW other \in Nat
        PROVE  MissesOne(more, other, g.parts)
    <3>1. CASE other \in ResponseIds(more)
      <4>1. ~Counted(more, other) /\ Fits(more, other, g.parts)
        BY <1>4, <2>1, <3>1, CutFits DEF Complete
      <4> QED
        BY <1>2, <3>1, <4>1, CountedIs
    <3>2. CASE other \notin ResponseIds(more)
      <4>1. Its(more, other) = {}
        BY <3>2 DEF Its, ResponseIds
      <4>2. 0 \in 0 .. g.parts - 1
        OBVIOUS
      <4> QED
        BY <4>1, <4>2 DEF MissesOne
    <3> QED
      BY <3>1, <3>2
  <2> QED
    BY <1>1, <1>4, <1>5, <1>9, <1>11, <2>2 DEF FilesIt, Filed, Waiting
<1>12. CASE /\ c.ret = "call" /\ Chosen(more) \in Complete(more)
            /\ c.saved = Handled(more, Chosen(more)) /\ c.data = Combined(more, Chosen(more))
  <2>1. Chosen(more) = id /\ id \in Complete(more)
    BY <1>8, <1>12
  <2>2. Reassembled(c.data) = Message(g, ask[id].kind)
    BY <1>2, <1>4, <1>12, <2>1, CombinedIs
  <2>3. PICK p \in 0 .. g.parts - 1 : \A k \in Its(saved, id) : saved[k].index # p
    BY DEF Filed, Waiting, MissesOne
  <2>4. id \in ResponseIds(more) /\ Counted(more, id) /\ Fits(more, id, g.parts)
    BY <1>4, <2>1, CutFits DEF Complete
  <2>5. Agreeing(more, id) = Its(more, id) /\ ~MissesOne(more, id, g.parts)
    BY <1>2, <2>4, TotalIs, CountedIs
  <2>6. \E k \in Its(more, id) : more[k].index = p
    BY <2>5 DEF MissesOne
  <2>7. \A k \in Its(more, id) : more[k].index = p => k = new
    BY <1>3, <2>3 DEF Its, Pending
  <2>8. new \in Its(more, id) /\ more[new].index = p
    BY <2>6, <2>7
  <2>9. new \in Segments(more, id)
    <3>1. new \in Nat
      BY <1>2, <1>3
    <3>2. \A j \in Its(more, id) : more[j].index = more[new].index => new <= j
      BY <2>7, <2>8, <3>1
    <3> QED
      BY <2>5, <2>8, <3>2 DEF Segments
  <2>10. \A k \in DOMAIN more : more[k].id = id /\ more[k].max # 0 /\ more[k].index = more[new].index => k = new
    BY <2>7, <2>8 DEF Its, Pending
  <2>11. Filed(g, ask, Handled(more, id), kinds \cup {ask[id].kind})
    BY <1>2, <1>4, <1>5, <1>7, <2>9, <2>10, HandledFiled
  <2> QED
    BY <1>1, <1>6, <1>9, <1>12, <2>1, <2>2, <2>11 DEF FilesIt
<1> QED
  BY <1>1, <1>9, <1>10, <1>11, <1>12 DEF FilesIt

\* What was asked is not forgotten.
Grows(before, after) == DOMAIN before \subseteq DOMAIN after /\ \A k \in DOMAIN before : after[k] = before[k]
LEMMA SentGrows ==
  ASSUME asked \in Seq(Requests), NEW r, Sent(r), NEW request, Adds(r, request)
  PROVE  Grows(asked, asked')
<1>1. CASE asked' = asked
  BY <1>1 DEF Grows
<1>2. CASE asked' # asked
  <2>1. asked' = asked \o r.out
    BY <1>2 DEF Sent
  <2>2. CASE r.out = <<>>
    BY <2>1, <2>2 DEF Grows
  <2>3. CASE r.out = <<request>> /\ request \in Requests
    <3>1. <<request>> \in Seq(Requests) /\ Len(<<request>>) = 1
      BY <2>3
    <3>2. asked' \in Seq(Requests) /\ Len(asked') = Len(asked) + 1 /\ \A k \in 1 .. Len(asked) : asked'[k] = asked[k]
      BY <2>1, <2>3, <3>1
    <3> QED
      BY <3>2 DEF Grows
  <2> QED
    BY <2>2, <2>3 DEF Adds
<1> QED
  BY <1>1, <1>2

\* The functions leave the fragments alone.
LEMMA FateSaved ==
  ASSUME NEW r, r.ret \in Rets, Plain(r.s)
  PROVE  Fate(r).saved \in {r.s.saved, <<>>}
<1>1. PICK u : u = Fate(r)
  OBVIOUS
<1>2. u = r.s \/ Closed(r.s, u)
  BY <1>1, FateIs DEF Rets
<1>3. Closed(r.s, u) => u.saved = <<>>
  BY ClosedSays DEF Plain
<1> QED
  BY <1>1, <1>2, <1>3

LEMMA StatusSaved ==
  ASSUME NEW t \in Servers, NEW ok \in BOOLEAN, t.numPlayers = 0, ~t.hasFound
  PROVE  /\ Fate(StatusQueryOf(t, ok)).saved \in {t.saved, <<>>}
         /\ Adds(StatusQueryOf(t, ok), Info)
<1>1. PICK r : r = StatusQueryOf(t, ok)
  OBVIOUS
<1>2. r.ret \in Rets /\ Plain(r.s) /\ r.s.saved = t.saved /\ r.out \in {<<Info>>, <<>>}
  <2>1. CASE ok
    <3>1. r.ret = "INPROGRESS" /\ InfoAsked(t, r.s) /\ r.out = <<Info>>
      BY <1>1, <2>1, StatusQueryEffect DEF StatusQueryOf
    <3> QED
      BY <3>1 DEF InfoAsked, SameRest, SameFate, Plain, Rets
  <2>2. CASE ~ok
    <3>1. r.ret \in {"DONE_FORCE", "SYS_ERROR"} /\ Spends(t, r.s) /\ r.out = <<>>
      BY <1>1, <2>2, StatusQueryEffect DEF StatusQueryOf
    <3> QED
      BY <3>1 DEF Spends, Same, Plain, Rets
  <2> QED
    BY <2>1, <2>2
<1>3. Info \in Requests
  <2>1. NoChallenge \in Int
    BY DEF NoChallenge
  <2> QED
    BY <2>1, RequestIs DEF Info, Kinds
<1> QED
  BY <1>1, <1>2, <1>3, FateSaved DEF Adds

LEMMA ChallengeSaved ==
  ASSUME NEW g, NEW t \in Servers, NEW n, NEW ok \in BOOLEAN, Core(g, t, n), Stage(t), NEW m, Challenge(n, m)
  PROVE  A2SChallenge(t, m, ok).s.saved = t.saved /\ FLChallenge(t, m).s.saved = t.saved
<1>1. PICK c \in Int : c = m.challenge /\ c \in 1 .. n
  BY DEF Challenge
<1>2. PICK v : v = [ChallengeUncounted(t) EXCEPT !.status.challenge = c, !.status.haveChallenge = TRUE]
  OBVIOUS
<1>3. Challenged(t, v, c)
  BY <1>2, UncountedIs
<1>4. A2SChallenge(t, m, ok) = A2SRuleQuery(v, ok) /\ FLChallenge(t, m) = FLEnds(v)
  BY <1>1, <1>2 DEF A2SChallenge, FLChallenge
<1>5. v \in Servers /\ Unnamed(v) /\ Named(v) /\ (v.name = "none" => v.status.sentInfo) /\ v.saved = t.saved
  BY <1>1, <1>3, ChallengedCore DEF Challenged, SameFate
<1>6. PICK r : r = A2SRuleQuery(v, ok)
  OBVIOUS
<1>7. r.s = v \/ MoreAsked(v, r.s)
  <2>1. ~A2SRestarts(v)
    BY <1>5, NoRestart
  <2> QED
    BY <1>5, <1>6, <2>1, A2SRuleQueryEffect
<1>8. r.s.saved = t.saved
  BY <1>5, <1>7 DEF MoreAsked, SameFate
<1>9. PICK ru \in BOOLEAN : ru = (v.rule /\ ~A2SHasAll(v))
  OBVIOUS
<1>10. PICK u : u = [v EXCEPT !.rule = ru]
  OBVIOUS
<1>11. RuleSet(v, u, ru)
  BY <1>5, <1>10, RuleIs
<1>12. FLEnds(v).s = u
  BY <1>9, <1>10 DEF FLEnds, Ends
<1>13. u.saved = t.saved
  BY <1>5, <1>11 DEF RuleSet, SameFate
<1> QED
  BY <1>4, <1>6, <1>8, <1>12, <1>13

LEMMA WholeSaved ==
  ASSUME NEW g, NEW t \in Servers, NEW n, NEW ok \in BOOLEAN, Core(g, t, n), Stage(t), NEW m,
         \/ Challenge(n, m) \/ Readable(g, t, m) \/ m.kind \in {"odd", "garbled", "fallback"}
  PROVE  WholeHandler(t, m, ok).s.saved = t.saved
<1>1. PICK r : r = WholeHandler(t, m, ok)
  OBVIOUS
<1>2. CASE Challenge(n, m)
  <2>1. WholeHandler(t, m, ok) = IF t.status.type = "a2s" THEN A2SChallenge(t, m, ok) ELSE FLChallenge(t, m)
    BY <1>2 DEF Challenge, WholeHandler, A2SWhole, FLWhole
  <2> QED
    BY <1>2, <2>1, ChallengeSaved
<1>3. CASE Readable(g, t, m)
  <2>1. m \in Message4 /\ m.kind \in {"info", "rules", "players"}
    BY <1>3 DEF Readable, Details
  <2>2. Progressed(t, r.s)
    <3>1. CASE m.kind = "info"
      BY <1>1, <2>1, <3>1, InfoEffect DEF InfoLeft, InfoRead
    <3>2. CASE m.kind = "rules"
      BY <1>1, <1>3, <2>1, <3>2, RulesEffect DEF Readable, RulesLeft, RulesRead
    <3>3. CASE m.kind = "players"
      BY <1>1, <1>3, <2>1, <3>3, PlayersEffect DEF Readable, PlayersLeft, PlayersRead
    <3> QED
      BY <2>1, <3>1, <3>2, <3>3
  <2> QED
    BY <1>1, <2>2 DEF Progressed
<1>4. CASE m.kind \in {"odd", "garbled", "fallback"}
  <2>1. r.s = t
    BY <1>1, <1>4 DEF WholeHandler, A2SWhole, FLWhole, Ends
  <2> QED
    BY <1>1, <2>1
<1> QED
  BY <1>2, <1>3, <1>4

-----------------------------------------------------------------------------
\* The fragments of a2s and fls.

\* Which piece of what a datagram is.
PieceOf(g, ask, m) ==
  /\ m.id \in DOMAIN ask /\ m.index \in 0 .. g.parts - 1 /\ m.max = g.parts /\ m.format = g.format
  /\ m.data.part = m.index + 1 /\ m.data.parts = g.parts /\ m.data.message = Message(g, ask[m.id].kind)
  /\ ask[m.id].kind \in Details

LEMMA PartPlaced ==
  ASSUME NEW g \in Setups, NEW kind \in Details, NEW k \in Nat,
         NEW m \in InParts(g, Message(g, kind), k), m.kind = "fragment"
  PROVE  /\ m.id = k /\ m.index \in 0 .. g.parts - 1 /\ m.max = g.parts /\ m.format = g.format
         /\ m.data.part = m.index + 1 /\ m.data.parts = g.parts /\ m.data.message = Message(g, kind)
<1>1. m # Message(g, kind)
  BY MessageIs DEF Details
<1>2. m \in Fragments(g, Message(g, kind), k)
  BY <1>1 DEF InParts
<1>3. PICK message : message = Message(g, kind)
  OBVIOUS
<1>4. PICK parts \in Nat \ {0}, format \in Nat : parts = g.parts /\ format = g.format
  BY SetupIs
<1>5. PICK p \in 1 .. parts :
        m = [kind |-> "fragment", id |-> k, index |-> p - 1, max |-> parts, final |-> p = parts,
             format |-> format, data |-> [part |-> p, parts |-> parts, message |-> message]]
  BY <1>2, <1>3, <1>4 DEF Fragments
<1>6. PICK index \in Nat : index = p - 1 /\ index + 1 = p /\ index \in 0 .. parts - 1
  BY <1>4, <1>5
<1>7. PICK final : final = (p = parts)
  OBVIOUS
<1>8. PICK data : data = [part |-> p, parts |-> parts, message |-> message]
  OBVIOUS
<1>9. m = [kind |-> "fragment", id |-> k, index |-> index, max |-> parts, final |-> final,
           format |-> format, data |-> data]
  BY <1>5, <1>6, <1>7, <1>8
<1>10. m.id = k /\ m.index = index /\ m.max = parts /\ m.format = format /\ m.data = data
  BY <1>9
<1>11. data.part = p /\ data.parts = parts /\ data.message = message
  BY <1>8
<1> QED
  BY <1>3, <1>4, <1>6, <1>10, <1>11

LEMMA PieceReplied ==
  ASSUME NEW g \in Setups, NEW ask \in Seq(Requests), NEW k \in DOMAIN ask, NEW n \in Nat,
         ask[k].kind \in {"info", "challenge", "rules", "players"},
         NEW m \in ChallengedReply(g, ask[k], k, n), m.kind = "fragment"
  PROVE  PieceOf(g, ask, m)
<1>1. PICK r \in Requests : r = ask[k]
  OBVIOUS
<1>2. k \in Nat
  OBVIOUS
<1>3. ~Challenge(n, m)
  BY DEF Challenge
<1>4. CASE r.kind = "info"
  <2>1. m = Message(g, "info") \/ Challenge(n, m)
    BY <1>1, <1>4, GuardedIs DEF ChallengedReply
  <2> QED
    BY <1>3, <2>1, MessageIs
<1>5. CASE r.kind = "challenge"
  <2>1. m \in {[kind |-> "fallback"]} \/ m \in NewChallenges(n)
    BY <1>1, <1>5 DEF ChallengedReply
  <2>2. m \in {[kind |-> "fallback"]} => m.kind = "fallback"
    OBVIOUS
  <2>3. m \in NewChallenges(n) => m.kind = "challenge"
    BY DEF NewChallenges
  <2> QED
    BY <2>1, <2>2, <2>3
<1>6. CASE r.kind \in {"rules", "players"}
  <2>1. PICK kind \in Details : kind = r.kind
    BY <1>6 DEF Details
  <2>2. PICK details : details = InParts(g, Message(g, kind), k)
    OBVIOUS
  <2>3. m \in details \/ m \in Guarded(r, n, details)
    BY <1>1, <1>6, <2>1, <2>2 DEF ChallengedReply
  <2>4. m \in details
    BY <1>3, <2>3, GuardedIs
  <2> QED
    BY <1>1, <1>2, <2>1, <2>2, <2>4, PartPlaced DEF PieceOf
<1> QED
  BY <1>1, <1>4, <1>5, <1>6

LEMMA ArrivesPlaced ==
  ASSUME Counts, DialogueInv, setup.type \in Dialogues, s.open, NEW m \in Arrivals, m.kind = "fragment"
  PROVE  PieceOf(setup, asked, m)
<1>1. /\ ~TcpConnect(setup)
      /\ \A r, k : Reply(setup, r, k, issued) = ChallengedReply(setup, r, k, issued)
  BY HandlerOf DEF Dialogues, Types
<1> DEFINE replies == UNION {Reply(setup, asked[k], k, issued) : k \in DOMAIN asked}
<1>2. \/ m \in replies
      \/ m \in {[kind |-> "odd"]}
      \/ m \in {[x EXCEPT !.bad = fault] : x \in {r \in replies : "bad" \in DOMAIN r}, fault \in {"front", "behind"}}
  BY <1>1 DEF Arrivals
<1>3. ASSUME NEW x \in replies
      PROVE  /\ x.kind = "fragment" => PieceOf(setup, asked, x)
             /\ "bad" \in DOMAIN x => x \in Message4
  <2>1. PICK k \in DOMAIN asked : x \in ChallengedReply(setup, asked[k], k, issued)
    BY <1>1, <1>3
  <2>2. RequestFine(setup, s, issued, asked[k]) /\ k \in Nat /\ asked \in Seq(Requests)
    BY DEF DialogueInv, AskedFine
  <2>3. "bad" \in DOMAIN x => x \in Message4
    BY <2>1, <2>2, ReplyComes DEF Counts
  <2>4. asked[k].kind \in {"info", "challenge", "rules", "players"}
    BY <2>2 DEF RequestFine, Details
  <2> QED
    BY <2>1, <2>2, <2>3, <2>4, PieceReplied DEF Counts
<1> HIDE DEF replies
<1>4. CASE m \in replies
  BY <1>3, <1>4
<1>5. CASE m \in {[kind |-> "odd"]}
  <2>1. m.kind = "odd"
    BY <1>5
  <2> QED
    BY <2>1
<1>6. CASE m \in {[x EXCEPT !.bad = fault] : x \in {r \in replies : "bad" \in DOMAIN r}, fault \in {"front", "behind"}}
  <2>1. PICK x \in replies, fault \in {"front", "behind"} : "bad" \in DOMAIN x /\ m = [x EXCEPT !.bad = fault]
    BY <1>6
  <2>2. x \in Message4
    BY <1>3, <2>1
  <2>3. m \in Message4
    BY <2>1, <2>2, FaultIs
  <2> QED
    BY <2>3 DEF Message4
<1> QED
  BY <1>2, <1>4, <1>5, <1>6

\* The header is read the way it was written, save that of a Source server whose
\* application id is below 128 (Queries_lowapp).
Numbered(g) == g.type = "a2s" /\ g.format = 2 => g.app >= 128

LEMMA HeaderRead ==
  ASSUME NEW g \in Setups, NEW t \in Servers, NEW n, Core(g, t, n), Stage(t), NEW kinds, Recalls(g, t, kinds),
         t.name # "none", Numbered(g), NEW ask, NEW m, PieceOf(g, ask, m)
  PROVE  IndexRead(t, m) = m.index /\ MaxRead(t, m) = m.max /\ ~Unreadable(t)
<1>1. t.name = "server" /\ t.status.type = g.type /\ m.format = g.format
  BY DEF Recalls, Stage, Named, Core, PieceOf
<1>2. ~Unreadable(t)
  BY <1>1 DEF Recalls, Headed, Unreadable, ReadsHL1
<1>3. CASE g.type # "a2s"
  BY <1>1, <1>2, <1>3 DEF IndexRead, MaxRead
<1>4. CASE g.type = "a2s"
  <2>1. g.format \in Nat
    BY SetupIs
  <2>2. ~(ReadsHL1(t) /\ m.format = 2)
    <3>1. CASE g.format = 2
      BY <1>1, <1>4, <3>1 DEF Recalls, Headed, Numbered, ReadsHL1
    <3>2. CASE g.format # 2
      BY <1>1, <3>2
    <3> QED
      BY <3>1, <3>2
  <2> QED
    BY <1>1, <1>2, <1>4, <2>2 DEF IndexRead, MaxRead, ReadIndex, ReadMax
<1> QED
  BY <1>3, <1>4

LEMMA FiledStill ==
  ASSUME NEW g, NEW ask, NEW after, Grows(ask, after), NEW saved, NEW kinds, NEW more, kinds \subseteq more,
         Filed(g, ask, saved, kinds)
  PROVE  Filed(g, after, saved, more)
<1>1. AllCut(g, after, saved)
  BY DEF Filed, AllCut, Cut, Grows
<1>2. ReadBefore(after, saved, more)
  BY DEF Filed, AllCut, Cut, ReadBefore, Grows
<1> QED
  BY <1>1, <1>2 DEF Filed

LEMMA NothingFiled ==
  ASSUME NEW g, g.parts \in Nat \ {0}, NEW ask, NEW kinds, NEW saved, saved = <<>>
  PROVE  Filed(g, ask, saved, kinds)
<1>1. DOMAIN saved = {}
  OBVIOUS
<1>2. \A id : Its(saved, id) = {}
  BY <1>1 DEF Its, Pending
<1>3. 0 \in 0 .. g.parts - 1
  OBVIOUS
<1>4. Waiting(g, saved)
  BY <1>2, <1>3 DEF Waiting, MissesOne
<1> QED
  BY <1>1, <1>4 DEF Filed, AllCut, ReadBefore

\* What a packet leaves filed.
LeavesFiled(g, ask, before, kinds, r) ==
  /\ "garbled" \notin kinds
  /\ r.ret = "PKT_ERROR" \/ Filed(g, ask, r.s.saved, before \cup kinds)

LEMMA PieceFiles ==
  ASSUME NEW g \in Setups, NEW t \in Servers, NEW n, NEW spent, NEW ok \in BOOLEAN, Core(g, t, n), Stage(t),
         Tries(t, spent), NEW before, Recalls(g, t, before), NEW m, Piece(m), t.name # "none",
         MessageFine(g, t, m.data.message), Numbered(g), NEW ask \in Seq(Requests), PieceOf(g, ask, m),
         Filed(g, ask, t.saved, before)
  PROVE  LeavesFiled(g, ask, before, Learned(t, m), DialoguePacket(t, m, ok))
<1>1. /\ m.index \in Nat /\ m.max \in Nat /\ m.kind = "fragment"
      /\ g.parts \in Nat \ {0} /\ m.max = g.parts /\ t.saved \in Seq(Kept)
  BY SetupIs, Fields DEF Piece, PieceOf
<1>2. IndexRead(t, m) = m.index /\ MaxRead(t, m) = m.max /\ ~Unreadable(t)
  BY HeaderRead
<1>3. PICK f \in Kept : /\ f = Fragment(m.id, m.index, m.max, m.data)
                        /\ f.id = m.id /\ f.index = m.index /\ f.max = m.max /\ f.data = m.data
  BY <1>1, FragmentIs
<1>4. PICK kind : kind = ask[f.id].kind
  OBVIOUS
<1>5. kind \in Details /\ Cut(g, ask, f) /\ f.max # 0
  BY <1>1, <1>3, <1>4 DEF PieceOf, Cut
<1>6. PICK c : c = DialoguePut(t, m)
  OBVIOUS
<1>7. c = Combine(Insert(t.saved, f))
  BY <1>2, <1>3, <1>6 DEF DialoguePut, Put
<1>8. FilesIt(g, ask, c, before, kind)
  BY <1>1, <1>4, <1>5, <1>7, FilesPiece
<1>9. PICK u : u = [t EXCEPT !.saved = c.saved]
  OBVIOUS
<1>10. Stored(g, t, n, spent, c, u)
  BY <1>1, <1>2, <1>6, <1>9, PieceStored DEF DialoguePut
<1>11. /\ Core(g, u, n) /\ Stage(u) /\ u \in Servers /\ u.saved = c.saved
  BY <1>10 DEF Stored, SavedSet
<1>12. PICK r : r = PieceHandler(t, m, c, ok)
  OBVIOUS
<1>13. DialoguePacket(t, m, ok) = r
  BY <1>2, <1>6, <1>12, PiecePacketIs
<1>14. CASE c.ret = "call"
  <2>1. PICK x : x = Reassembled(c.data)
    OBVIOUS
  <2>2. x = Message(g, kind) /\ Filed(g, ask, c.saved, before \cup {kind})
    BY <1>8, <1>14, <2>1 DEF FilesIt
  <2>3. x.kind = kind /\ kind # "garbled"
    BY <1>5, <2>2, MessageIs DEF Details
  <2>4. Readable(g, u, x)
    BY <1>10, <1>14, <2>1, <2>3 DEF Stored
  <2>5. r = WholeHandler(u, x, ok)
    BY <1>9, <1>12, <1>14, <2>1 DEF PieceHandler
  <2>6. r.s.saved = c.saved
    BY <1>11, <2>4, <2>5, WholeSaved
  <2>7. Learned(t, m) = {kind}
    BY <1>1, <1>6, <1>14, <2>1, <2>3 DEF Learned
  <2> QED
    BY <1>13, <2>2, <2>3, <2>6, <2>7 DEF LeavesFiled
<1>15. CASE c.ret # "call"
  <2>1. r.s = u /\ r.ret = c.ret
    BY <1>9, <1>12, <1>15 DEF PieceHandler, Ends
  <2>2. Learned(t, m) = {}
    BY <1>1, <1>6, <1>15 DEF Learned
  <2>3. before \cup {} = before
    OBVIOUS
  <2> QED
    BY <1>8, <1>11, <1>13, <1>15, <2>1, <2>2, <2>3 DEF LeavesFiled, FilesIt
<1> QED
  BY <1>14, <1>15

LEMMA PacketFiles ==
  ASSUME NEW g \in Setups, NEW t \in Servers, NEW n, NEW spent, NEW ok \in BOOLEAN, Core(g, t, n), Stage(t),
         Tries(t, spent), NEW before, Recalls(g, t, before), NEW m, Comes(g, t, n, m), Numbered(g),
         NEW ask \in Seq(Requests), m.kind = "fragment" => PieceOf(g, ask, m), Filed(g, ask, t.saved, before)
  PROVE  LeavesFiled(g, ask, before, Learned(t, m), DialoguePacket(t, m, ok))
<1>1. CASE Piece(m) /\ t.name # "none" /\ MessageFine(g, t, m.data.message)
  <2>1. m.kind = "fragment"
    BY <1>1 DEF Piece
  <2> QED
    BY <1>1, <2>1, PieceFiles
<1>2. CASE m.kind \in {"odd", "fallback"} \/ Challenge(n, m) \/ Readable(g, t, m)
  <2>1. m.kind # "fragment" /\ m.kind # "garbled"
    BY <1>2 DEF Challenge, Readable, Details
  <2>2. Learned(t, m) = {m.kind}
    BY <2>1 DEF Learned
  <2>3. PICK r : r = DialoguePacket(t, m, ok)
    OBVIOUS
  <2>4. r.s.saved = t.saved
    BY <1>2, <2>1, <2>3, WholeSaved, WholePacketIs
  <2>5. Filed(g, ask, r.s.saved, before \cup {m.kind})
    <3>1. Grows(ask, ask)
      BY DEF Grows
    <3> QED
      BY <2>4, <3>1, FiledStill
  <2> QED
    BY <2>1, <2>2, <2>3, <2>5 DEF LeavesFiled
<1> QED
  BY <1>1, <1>2 DEF Comes

\* The invariant: no reply was put together from the wrong pieces, and none is
\* there in full that was not read.
PiecesInv ==
  setup.type \in Dialogues /\ Numbered(setup) =>
    Filed(setup, asked, s.saved, heard) /\ "garbled" \notin heard

LEMMA PiecesStart ==
  ASSUME InitQueries
  PROVE  PiecesInv
<1>1. SUFFICES ASSUME setup.type \in Dialogues
               PROVE  Filed(setup, asked, s.saved, heard) /\ "garbled" \notin heard
  BY DEF PiecesInv
<1>2. setup.type \in Types /\ setup \in Setups
  BY <1>1 DEF Dialogues, Types, InitQueries
<1>3. s.saved = <<>> /\ heard = {} /\ setup.parts \in Nat \ {0}
  BY <1>2, InitialServer, SetupIs DEF InitQueries
<1> QED
  BY <1>3, NothingFiled

\* Steps that read nothing.
LEMMA PiecesStay ==
  ASSUME Counts, PiecesInv, setup' = setup, heard' = heard,
         setup.type \in Dialogues => Grows(asked, asked') /\ s'.saved \in {s.saved, <<>>}
  PROVE  PiecesInv'
<1>1. SUFFICES ASSUME setup.type \in Dialogues, Numbered(setup)
               PROVE  Filed(setup, asked', s'.saved, heard) /\ "garbled" \notin heard
  BY DEF PiecesInv
<1>2. Filed(setup, asked, s.saved, heard) /\ "garbled" \notin heard /\ Grows(asked, asked')
  BY <1>1 DEF PiecesInv
<1>3. CASE s'.saved = s.saved
  BY <1>2, <1>3, FiledStill
<1>4. CASE s'.saved = <<>>
  BY <1>2, <1>4, NothingFiled, SetupIs DEF Counts
<1> QED
  BY <1>1, <1>3, <1>4

LEMMA StatusPieces ==
  ASSUME Counts, DialogueInv, setup.type \in Dialogues, \E ok \in setup.sends :
           s' = Fate(StatusQueryFunc(s, ok)) /\ Sent(StatusQueryFunc(s, ok))
  PROVE  Grows(asked, asked') /\ s'.saved \in {s.saved, <<>>}
<1>1. PICK ok \in BOOLEAN : s' = Fate(StatusQueryFunc(s, ok)) /\ Sent(StatusQueryFunc(s, ok))
  BY SetupIs DEF Counts
<1>2. /\ s \in Servers /\ s.status.type \in Dialogues /\ s.numPlayers = 0 /\ ~s.hasFound
      /\ asked \in Seq(Requests)
  BY DEF DialogueInv, Core, AskedFine
<1>3. PICK r : r = StatusQueryOf(s, ok)
  OBVIOUS
<1>4. s' = Fate(r) /\ Sent(r)
  BY <1>1, <1>2, <1>3, FunctionsOf
<1>5. Fate(r).saved \in {s.saved, <<>>} /\ Adds(r, Info)
  BY <1>2, <1>3, StatusSaved
<1>6. Grows(asked, asked')
  BY <1>2, <1>4, <1>5, SentGrows
<1> QED
  BY <1>4, <1>5, <1>6

LEMMA GivesUpPieces ==
  ASSUME Counts, DialogueInv, setup.type \in Dialogues, GivesUpQuery \/ GivesUpRules
  PROVE  Grows(asked, asked') /\ s'.saved \in {s.saved, <<>>}
<1>1. s \in Servers /\ s.numPlayers = 0 /\ ~s.hasFound
  BY DEF DialogueInv, Core
<1>2. Grows(asked, asked')
  BY DEF GivesUpQuery, GivesUpRules, Grows
<1>3. ASSUME NEW u, Plain(u), u.saved = s.saved, NEW force \in BOOLEAN, s' = CleanupOne(u, force)
      PROVE  s'.saved \in {s.saved, <<>>}
  <2>1. Closed(u, s') \/ s' = u
    BY <1>3, CleanupCloses
  <2> QED
    BY <1>3, <2>1, ClosedSays DEF Plain
<1>4. CASE GivesUpQuery
  BY <1>1, <1>2, <1>3, <1>4 DEF GivesUpQuery, Plain
<1>5. CASE GivesUpRules
  <2>1. PICK u : u = [s EXCEPT !.rule = FALSE, !.missing = TRUE]
    OBVIOUS
  <2>2. Plain(u) /\ u.saved = s.saved
    BY <1>1, <2>1 DEF Servers, Plain
  <2> QED
    BY <1>2, <1>3, <1>5, <2>1, <2>2 DEF GivesUpRules
<1> QED
  BY <1>4, <1>5

LEMMA RulesPieces ==
  ASSUME Counts, DialogueInv, setup.type \in Dialogues, s.open, main = "work", AsksRules
  PROVE  Grows(asked, asked') /\ s'.saved \in {s.saved, <<>>}
<1>1. PICK ok \in BOOLEAN, more \in BOOLEAN :
        LET rules == RuleQueryFunc(s, ok)
            result == After(rules, PlayerStage(rules.s, more))
        IN s' = result.s /\ Sent(result)
  BY SetupIs DEF AsksRules, Counts
<1>2. /\ Core(setup, s, issued) /\ Tries(s, resends + renewals) /\ Stage(s) /\ s \in Servers
      /\ s.status.type \in Dialogues /\ asked \in Seq(Requests)
  BY DEF DialogueInv, Core, AskedFine
<1>3. s.name # "none" /\ s.retry1 >= 1 /\ Unnamed(s) /\ Named(s)
  BY <1>2, PastStatusNamed DEF AsksRules, Stage
<1>4. PICK rules : rules = RuleQueryOf(s, ok)
  OBVIOUS
<1>5. /\ rules.s \in Servers
      /\ \E request : rules.out = <<>> \/ (rules.out = <<request>> /\ RequestFine(setup, rules.s, issued, request))
  <2>1. CASE s.status.type = "a2s"
    BY <1>2, <1>3, <1>4, <2>1, A2SRuleGood DEF RuleQueryOf
  <2>2. CASE s.status.type # "a2s"
    BY <1>2, <1>3, <1>4, <2>2, FLRuleGood DEF RuleQueryOf
  <2> QED
    BY <2>1, <2>2
<1>6. PICK request : Adds(rules, request)
  BY <1>5 DEF Adds, RequestFine
<1>7. rules.s.saved = s.saved /\ rules.s.numPlayers = 0
  <2>1. ~A2SRestarts(s) /\ ~FLRestarts(s)
    BY <1>3, NoRestart
  <2>2. rules.s = s \/ MoreAsked(s, rules.s)
    BY <1>2, <1>4, <2>1, A2SRuleQueryEffect, FLRuleQueryEffect DEF RuleQueryOf
  <2> QED
    BY <1>2, <2>2 DEF MoreAsked, SameRest, SameFate, Core
<1>8. PlayerStage(rules.s, more) = Ends(rules.s, "INPROGRESS")
  BY <1>5, <1>7, NoPlayerStage
<1>9. PICK r : r = After(rules, Ends(rules.s, "INPROGRESS"))
  OBVIOUS
<1>10. r.s = rules.s /\ r.out = rules.out
  BY <1>6, <1>9, AfterIs DEF Adds
<1>11. s' = rules.s /\ Sent(r)
  BY <1>1, <1>2, <1>4, <1>8, <1>9, <1>10, FunctionsOf
<1>12. Adds(r, request)
  BY <1>6, <1>10 DEF Adds
<1> QED
  BY <1>2, <1>7, <1>11, <1>12, SentGrows

LEMMA HandlePieces ==
  ASSUME Counts, DialogueInv, HeardInv, PiecesInv, setup.type \in Dialogues, Numbered(setup), Handle
  PROVE  PiecesInv'
<1>1. setup' = setup /\ main = "work" /\ s.open
  BY DEF Handle
<1>2. PICK m \in Arrivals, ok \in BOOLEAN :
        s' = Fate(PacketFunc(s, m, ok)) /\ Sent(PacketFunc(s, m, ok)) /\ heard' = heard \cup Read(m)
  BY SetupIs DEF Handle, Counts
<1>3. /\ Core(setup, s, issued) /\ Tries(s, resends + renewals) /\ Stage(s) /\ s \in Servers
      /\ s.status.type \in Dialogues /\ Recalls(setup, s, heard) /\ asked \in Seq(Requests)
      /\ Filed(setup, asked, s.saved, heard) /\ "garbled" \notin heard
  BY <1>1 DEF DialogueInv, HeardInv, PiecesInv, Core, AskedFine
<1>4. Comes(setup, s, issued, m) /\ (m.kind = "fragment" => PieceOf(setup, asked, m))
  BY <1>1, <1>2, ArrivesFine, ArrivesPlaced
<1>5. PICK r : r = DialoguePacket(s, m, ok)
  OBVIOUS
<1>6. s' = Fate(r) /\ Sent(r) /\ heard' = heard \cup Learned(s, m)
  <2>1. m.kind # "chunk"
    BY <1>4 DEF Comes, Challenge, Readable, Piece, Details
  <2> QED
    BY <1>2, <1>3, <1>5, <2>1, FunctionsOf, ReadIs
<1>7. LeavesFiled(setup, asked, heard, Learned(s, m), r)
  BY <1>3, <1>4, <1>5, PacketFiles DEF Counts
<1>8. r.ret \in Rets /\ Plain(r.s) /\ \E request : Adds(r, request)
  <2>1. PICK spent \in Nat : spent = resends + renewals
    BY DEF Counts
  <2>2. Good(setup, s, issued, spent + Renews(s, m), r)
    BY <1>3, <1>4, <1>5, <2>1, PacketGood DEF Counts
  <2> QED
    BY <2>2 DEF Good, Core, Plain, Adds, RequestFine
<1>9. Grows(asked, asked')
  BY <1>3, <1>6, <1>8, SentGrows
<1>10. "garbled" \notin heard'
  BY <1>3, <1>6, <1>7 DEF LeavesFiled
<1>11. s'.saved = <<>> \/ (s'.saved = r.s.saved /\ r.ret # "PKT_ERROR")
  <2>1. r.ret = "PKT_ERROR" => s'.saved = <<>>
    BY <1>6, <1>8, FateIs, ClosedSays DEF Plain
  <2> QED
    BY <1>6, <1>8, <2>1, FateSaved
<1>12. Filed(setup, asked', s'.saved, heard')
  <2>1. CASE s'.saved = <<>>
    BY <2>1, NothingFiled, SetupIs DEF Counts
  <2>2. CASE s'.saved = r.s.saved /\ r.ret # "PKT_ERROR"
    <3>1. Filed(setup, asked, s'.saved, heard')
      BY <1>6, <1>7, <2>2 DEF LeavesFiled
    <3> QED
      BY <1>9, <3>1, FiledStill
  <2> QED
    BY <1>11, <2>1, <2>2
<1> QED
  BY <1>1, <1>10, <1>12 DEF PiecesInv

LEMMA PiecesSteps ==
  ASSUME Counts, DialogueInv, HeardInv, PiecesInv, [Next]_all
  PROVE  PiecesInv'
<1>1. setup' = setup
  BY CountsSteps
<1>2. CASE ~(setup.type \in Dialogues /\ Numbered(setup))
  BY <1>1, <1>2 DEF PiecesInv
<1>3. CASE setup.type \in Dialogues /\ Numbered(setup)
  <2>1. CASE Handle
    BY <1>3, <2>1, HandlePieces
  <2>2. CASE Start
    <3>1. heard' = heard
      BY <2>2 DEF Start, history
    <3> QED
      BY <1>1, <1>3, <2>2, <3>1, StatusPieces, PiecesStay DEF Start
  <2>3. CASE SendPackets
    <3>1. s.open /\ main = "work" /\ heard' = heard
      BY <2>3 DEF SendPackets
    <3>2. GivesUpQuery \/ AsksAgain \/ GivesUpRules \/ AsksRules
      BY <1>3, <2>3, <3>1, NothingElse DEF SendPackets
    <3>3. Grows(asked, asked') /\ s'.saved \in {s.saved, <<>>}
      BY <1>3, <3>1, <3>2, GivesUpPieces, StatusPieces, RulesPieces DEF AsksAgain
    <3> QED
      BY <1>1, <3>1, <3>3, PiecesStay
  <2>4. CASE Tick
    <3>1. s \in Servers /\ asked' = asked /\ heard' = heard
      BY <1>3, <2>4 DEF DialogueInv, Core, Tick, history
    <3>2. s'.saved = s.saved
      BY <2>4, <3>1, TickIs DEF Waited
    <3> QED
      BY <1>1, <3>1, <3>2, PiecesStay DEF Grows
  <2>5. CASE Rotate \/ Over \/ UNCHANGED all
    BY <1>1, <2>5, PiecesStay DEF Rotate, Over, all, history, Grows
  <2> QED
    BY <2>1, <2>2, <2>3, <2>4, <2>5 DEF Next
<1> QED
  BY <1>2, <1>3

LEMMA PiecesHold == QueriesSpec => [](Counts /\ DialogueInv /\ PiecesInv)
<1>1. InitQueries => Counts /\ DialogueInv /\ HeardInv /\ PiecesInv
  BY DialogueStarts, HeardStarts, PiecesStart
<1>2. Counts /\ DialogueInv /\ HeardInv /\ PiecesInv /\ [Next]_all
        => Counts' /\ DialogueInv' /\ HeardInv' /\ PiecesInv'
  BY CountsSteps, DialogueSteps, HeardSteps, PiecesSteps
<1> QED
  BY <1>1, <1>2, PTL DEF QueriesSpec

\* A piece that came is read, or another is still missing.
LEMMA PiecesRead ==
  ASSUME Counts, DialogueInv, PiecesInv, setup.type \in Dialogues, Numbered(setup)
  PROVE  FragmentsSuffice
<1>1. SUFFICES ASSUME NEW k \in DOMAIN s.saved, HasAllParts(k)
               PROVE  s.saved[k].data.message.kind \in heard
  BY DEF FragmentsSuffice
<1>2. PICK saved \in Seq(Kept) : saved = s.saved
  BY Fields DEF DialogueInv, Core
<1>3. Filed(setup, asked, saved, heard) /\ setup.parts \in Nat \ {0}
  BY <1>2, SetupIs DEF PiecesInv, Counts
<1>4. PICK f \in Kept : f = saved[k]
  BY <1>1, <1>2
<1>5. Cut(setup, asked, f) /\ f.data \in Slices /\ f.id \in Nat
  BY <1>1, <1>2, <1>3, <1>4, KeptFields DEF Filed, AllCut
<1>6. PICK kind : kind = asked[f.id].kind
  OBVIOUS
<1>7. asked[f.id] \in Requests /\ kind \in {"info", "challenge", "rules", "players"}
  BY <1>5, <1>6 DEF Cut, DialogueInv, AskedFine, RequestFine, Details
<1>8. f.data.message.kind = kind
  <2>1. kind # "challenge" => Message(setup, kind).kind = kind
    BY <1>7, MessageIs DEF Counts
  <2>2. CASE kind = "challenge"
    BY <1>5, <1>6, <2>2 DEF Cut, Message
  <2> QED
    BY <1>5, <1>6, <2>1, <2>2 DEF Cut
<1>9. CASE \E j \in DOMAIN saved : saved[j].id = f.id /\ saved[j].max = 0
  BY <1>2, <1>3, <1>4, <1>6, <1>8, <1>9 DEF Filed, ReadBefore
<1>10. CASE \A j \in DOMAIN saved : saved[j].id = f.id => saved[j].max # 0
  <2>1. PICK p \in 0 .. setup.parts - 1 : \A j \in Its(saved, f.id) : saved[j].index # p
    BY <1>3, <1>5 DEF Filed, Waiting, MissesOne
  <2>2. p + 1 \in 1 .. f.data.parts /\ p + 1 \in Nat
    BY <1>3, <1>5 DEF Cut
  <2>3. PICK j \in DOMAIN saved : saved[j].id = f.id /\ saved[j].data = [f.data EXCEPT !.part = p + 1]
    BY <1>1, <1>2, <1>4, <2>2 DEF HasAllParts
  <2>4. saved[j].data.part = p + 1
    <3>1. PICK d \in Slices, q \in Nat : d = f.data /\ q = p + 1
      BY <1>5, <2>2
    <3>2. [d EXCEPT !.part = q].part = q
      BY DEF Slices
    <3> QED
      BY <2>3, <3>1, <3>2
  <2>5. saved[j].index = p
    <3>1. Cut(setup, asked, saved[j]) /\ saved[j].index \in Nat
      BY <1>3, KeptFields DEF Filed, AllCut
    <3> QED
      BY <2>4, <3>1 DEF Cut
  <2>6. j \in Its(saved, f.id)
    BY <1>10, <2>3 DEF Its, Pending
  <2> QED
    BY <2>1, <2>5, <2>6
<1> QED
  BY <1>9, <1>10

-----------------------------------------------------------------------------
\* The fragments of gs3 and gs4: the total is a guess, the same for all of them,
\* and too low until one of the last two has come.

\* The piece itself, whatever total it is filed under.
GSCut(g, f) ==
  /\ f.id = 0 /\ f.index \in 0 .. g.parts - 1
  /\ f.data.part = f.index + 1 /\ f.data.parts = g.parts /\ f.data.message = Message(g, "all")
GSTotalled(g, saved, total) ==
  /\ total \in 1 .. g.parts
  /\ \A k \in DOMAIN saved :
       GSCut(g, saved[k]) /\ saved[k].max = total /\ (saved[k].index + 2 <= total \/ total = g.parts)
GSFiled(g, saved) == \E total \in Nat : GSTotalled(g, saved, total) /\ MissesOne(saved, 0, total)

LEMMA GSNothingFiled ==
  ASSUME NEW g, g.parts \in Nat \ {0}, NEW saved, saved = <<>>
  PROVE  GSFiled(g, saved)
<1>1. DOMAIN saved = {}
  OBVIOUS
<1>2. Its(saved, 0) = {}
  BY <1>1 DEF Its, Pending
<1>3. 0 \in 0 .. 1 - 1 /\ 1 \in 1 .. g.parts /\ 1 \in Nat
  OBVIOUS
<1>4. GSTotalled(g, saved, 1)
  BY <1>1, <1>3 DEF GSTotalled
<1>5. MissesOne(saved, 0, 1)
  BY <1>2, <1>3 DEF MissesOne
<1> QED
  BY <1>3, <1>4, <1>5 DEF GSFiled

LEMMA RaisedIs ==
  ASSUME NEW saved \in Seq(Kept), NEW max \in Nat
  PROVE  LET more == Raised(saved, max)
         IN  /\ more \in Seq(Kept) /\ DOMAIN more = DOMAIN saved
             /\ \A k \in DOMAIN saved : /\ more[k].id = saved[k].id /\ more[k].index = saved[k].index
                                        /\ more[k].data = saved[k].data /\ more[k].max = max
<1>1. PICK l \in Nat : DOMAIN saved = 1 .. l /\ \A k \in 1 .. l : saved[k] \in Kept
  OBVIOUS
<1>2. ASSUME NEW f \in Kept
      PROVE  LET x == [f EXCEPT !.max = max]
             IN x \in Kept /\ x.id = f.id /\ x.index = f.index /\ x.data = f.data /\ x.max = max
  BY DEF Kept
<1>3. PICK more : more = [k \in 1 .. l |-> [saved[k] EXCEPT !.max = max]]
  OBVIOUS
<1>4. more \in Seq(Kept) /\ DOMAIN more = 1 .. l
  <2>1. \A k \in 1 .. l : [saved[k] EXCEPT !.max = max] \in Kept
    BY <1>1, <1>2
  <2>2. [k \in 1 .. l |-> [saved[k] EXCEPT !.max = max]] \in Seq(Kept)
    BY <2>1
  <2>3. DOMAIN more = 1 .. l
    BY <1>3
  <2> QED
    BY <1>3, <2>2, <2>3
<1>5. ASSUME NEW k \in 1 .. l
      PROVE  /\ more[k].id = saved[k].id /\ more[k].index = saved[k].index
             /\ more[k].data = saved[k].data /\ more[k].max = max
  <2>1. PICK f \in Kept : f = saved[k]
    BY <1>1
  <2>2. more[k] = [f EXCEPT !.max = max]
    BY <1>3, <2>1
  <2> QED
    BY <1>2, <2>1, <2>2
<1>6. Raised(saved, max) = more
  BY <1>1, <1>3 DEF Raised
<1> QED
  BY <1>1, <1>4, <1>5, <1>6

\* The new total is the larger one.
SamePiece(x, f) == x.id = f.id /\ x.index = f.index /\ x.data = f.data
Added(saved, total, f, more, max) ==
  /\ max \in Nat /\ max >= f.max /\ max \in {f.max, total} /\ (saved # <<>> => max >= total)
  /\ more \in Seq(Kept)
  /\ \A k \in DOMAIN more :
       more[k].max = max /\ (SamePiece(more[k], f) \/ \E j \in DOMAIN saved : SamePiece(more[k], saved[j]))
LEMMA AddPacketIs ==
  ASSUME NEW saved \in Seq(Kept), NEW total \in Nat, NEW f \in Kept,
         \A k \in DOMAIN saved : saved[k].max = total
  PROVE  \E max \in Nat : Added(saved, total, f, AddPacket(saved, f), max)
<1>0. PICK mine \in Nat : mine = f.max
  BY KeptFields
<1>1. CASE saved = <<>>
  <2>1. PICK more : more = <<f>>
    OBVIOUS
  <2>2. AddPacket(saved, f) = more
    BY <1>1, <2>1 DEF AddPacket
  <2>3. more \in Seq(Kept) /\ DOMAIN more = {1} /\ more[1] = f
    BY <2>1
  <2>4. \A k \in DOMAIN more : more[k].max = mine /\ SamePiece(more[k], f)
    BY <1>0, <2>3 DEF SamePiece
  <2>5. mine >= mine
    OBVIOUS
  <2>6. Added(saved, total, f, more, mine)
    BY <1>0, <1>1, <2>3, <2>4, <2>5 DEF Added
  <2> QED
    BY <2>2, <2>6
<1>2. CASE saved # <<>>
  <2>2. {saved[k].max : k \in DOMAIN saved} = {total}
    <3>1. DOMAIN saved # {}
      BY <1>2
    <3> QED
      BY <3>1
  <2>3. PICK max \in Nat : max = Max({mine, total}) /\ max = IF mine >= total THEN mine ELSE total
    BY MaxOfTwo
  <2>4. {mine} \cup {total} = {mine, total}
    OBVIOUS
  <2>5. PICK x : x = [f EXCEPT !.max = max]
    OBVIOUS
  <2>51. x \in Kept /\ SamePiece(x, f) /\ x.max = max
    BY <2>5 DEF Kept, SamePiece
  <2>6. PICK raised : raised = Raised(saved, max)
    OBVIOUS
  <2>7. /\ raised \in Seq(Kept) /\ DOMAIN raised = DOMAIN saved
        /\ \A k \in DOMAIN saved : SamePiece(raised[k], saved[k]) /\ raised[k].max = max
    BY <2>6, RaisedIs DEF SamePiece
  <2>8. PICK more : more = Insert(raised, x)
    OBVIOUS
  <2>9. more \in Seq(Kept) /\ \A k \in DOMAIN more : more[k] = x \/ \E j \in DOMAIN raised : more[k] = raised[j]
    BY <2>51, <2>7, <2>8, InsertIs
  <2>10. AddPacket(saved, f) = more
    BY <1>0, <1>2, <2>2, <2>3, <2>4, <2>5, <2>6, <2>8 DEF AddPacket
  <2>11. max >= mine /\ max >= total /\ max \in {mine, total}
    BY <2>3
  <2>12. ASSUME NEW k \in DOMAIN more
         PROVE  more[k].max = max /\ (SamePiece(more[k], f) \/ \E j \in DOMAIN saved : SamePiece(more[k], saved[j]))
    <3>1. CASE more[k] = x
      BY <2>51, <3>1
    <3>2. CASE \E j \in DOMAIN raised : more[k] = raised[j]
      BY <2>7, <3>2
    <3> QED
      BY <2>9, <3>1, <3>2
  <2>13. Added(saved, total, f, more, max)
    BY <1>0, <2>9, <2>11, <2>12 DEF Added
  <2> QED
    BY <2>10, <2>13
<1> QED
  BY <1>1, <1>2

\* A piece and the total it suggests.
GSPieceOf(g, f) == GSCut(g, f) /\ f.max \in 1 .. g.parts /\ (f.index + 2 <= f.max \/ f.max = g.parts)
GSFilesIt(g, c) ==
  \/ c.ret = "PKT_ERROR"
  \/ c.ret = "INPROGRESS" /\ GSFiled(g, c.saved)
  \/ c.ret = "call" /\ Reassembled(c.data) = Message(g, "all")
LEMMA GSFilesPiece ==
  ASSUME NEW g, g.parts \in Nat \ {0}, NEW saved \in Seq(Kept), GSFiled(g, saved), NEW f \in Kept, GSPieceOf(g, f)
  PROVE  GSFilesIt(g, Combine(AddPacket(saved, f)))
<1>1. PICK total \in Nat : GSTotalled(g, saved, total)
  BY DEF GSFiled
<1>2. PICK more : more = AddPacket(saved, f)
  OBVIOUS
<1>30. PICK max \in Nat : Added(saved, total, f, more, max)
  BY <1>1, <1>2, AddPacketIs DEF GSTotalled
<1>3. /\ max >= f.max /\ max \in {f.max, total} /\ (saved # <<>> => max >= total)
      /\ more \in Seq(Kept)
      /\ \A k \in DOMAIN more :
           /\ more[k].max = max
           /\ \/ more[k].id = f.id /\ more[k].index = f.index /\ more[k].data = f.data
              \/ \E j \in DOMAIN saved :
                   more[k].id = saved[j].id /\ more[k].index = saved[j].index /\ more[k].data = saved[j].data
  BY <1>30 DEF Added, SamePiece
<1>4. max \in 1 .. g.parts
  BY <1>1, <1>3 DEF GSTotalled, GSPieceOf
<1>5. ASSUME NEW k \in DOMAIN more
      PROVE  GSCut(g, more[k]) /\ more[k].max = max /\ (more[k].index + 2 <= max \/ max = g.parts)
  <2>1. CASE more[k].id = f.id /\ more[k].index = f.index /\ more[k].data = f.data
    <3>1. GSCut(g, more[k])
      BY <2>1 DEF GSPieceOf, GSCut
    <3>2. f.index \in Nat /\ f.max \in Nat
      BY KeptFields
    <3>3. f.index + 2 <= max \/ max = g.parts
      BY <1>3, <1>4, <3>2 DEF GSPieceOf
    <3> QED
      BY <1>3, <2>1, <3>1, <3>3
  <2>2. CASE \E j \in DOMAIN saved :
               more[k].id = saved[j].id /\ more[k].index = saved[j].index /\ more[k].data = saved[j].data
    <3>1. PICK j \in DOMAIN saved :
            more[k].id = saved[j].id /\ more[k].index = saved[j].index /\ more[k].data = saved[j].data
      BY <2>2
    <3>2. GSCut(g, saved[j]) /\ (saved[j].index + 2 <= total \/ total = g.parts)
      BY <1>1 DEF GSTotalled
    <3>3. GSCut(g, more[k])
      BY <3>1, <3>2 DEF GSCut
    <3>4. max >= total /\ saved[j].index \in Nat
      <4>1. saved # <<>>
        OBVIOUS
      <4> QED
        BY <1>3, <4>1, KeptFields
    <3>5. saved[j].index + 2 <= max \/ max = g.parts
      BY <1>4, <3>2, <3>4
    <3> QED
      BY <1>3, <3>1, <3>3, <3>5
  <2> QED
    BY <1>3, <2>1, <2>2
<1>6. GSTotalled(g, more, max)
  BY <1>4, <1>5 DEF GSTotalled
<1>7. Its(more, 0) = DOMAIN more /\ ResponseIds(more) \subseteq {0}
  <2>1. \A k \in DOMAIN more : more[k].id = 0 /\ more[k].max # 0
    BY <1>4, <1>5 DEF GSCut
  <2> QED
    BY <2>1 DEF Its, Pending, ResponseIds
<1>8. CASE MissesOne(more, 0, max)
  <2>1. GSFiled(g, more)
    BY <1>6, <1>8 DEF GSFiled
  <2>2. Complete(more) = {}
    <3>1. SUFFICES ASSUME NEW id \in Complete(more)
                   PROVE  FALSE
      OBVIOUS
    <3>2. id = 0 /\ id \in ResponseIds(more) /\ Counted(more, id)
      BY <1>7 DEF Complete
    <3>3. Fits(more, id, max)
      <4>1. ASSUME NEW k \in Its(more, id)
            PROVE  more[k].max = max /\ more[k].index \in 0 .. max - 1
        <5>1. k \in DOMAIN more
          BY DEF Its, Pending
        <5>2. GSCut(g, more[k]) /\ more[k].max = max /\ (more[k].index + 2 <= max \/ max = g.parts)
          BY <1>5, <5>1
        <5>3. more[k].index \in 0 .. g.parts - 1
          BY <5>2 DEF GSCut
        <5> QED
          BY <1>4, <5>2, <5>3
      <4> QED
        BY <4>1 DEF Fits
    <3> QED
      BY <1>3, <1>8, <3>2, <3>3, CountedIs
  <2>3. PICK c : c = Combine(more)
    OBVIOUS
  <2>4. c.ret = "PKT_ERROR" \/ (c.ret = "INPROGRESS" /\ c.saved = more)
    BY <1>3, <2>2, <2>3, CombineIs
  <2> QED
    BY <1>2, <2>1, <2>3, <2>4 DEF GSFilesIt
<1>9. CASE ~MissesOne(more, 0, max)
  <2>1. max - 1 \in 0 .. max - 1
    BY <1>4
  <2>2. PICK last \in DOMAIN more : more[last].index = max - 1
    BY <1>7, <1>9, <2>1 DEF MissesOne
  <2>3. max = g.parts
    BY <1>4, <1>5, <2>2
  <2>4. PICK ask : ask = [k \in {0} |-> [kind |-> "all"]]
    OBVIOUS
  <2>5. DOMAIN ask = {0} /\ ask[0].kind = "all"
    BY <2>4
  <2>6. AllCut(g, ask, more)
    <3>1. ASSUME NEW k \in DOMAIN more
          PROVE  Cut(g, ask, more[k])
      BY <1>5, <2>3, <2>5 DEF GSCut, Cut
    <3> QED
      BY <3>1 DEF AllCut
  <2>7. Fits(more, 0, g.parts) /\ 0 \in ResponseIds(more)
    <3>1. 0 \in ResponseIds(more)
      BY <1>7, <2>2 DEF Its, ResponseIds
    <3> QED
      BY <2>6, <3>1, CutFits
  <2>8. Counted(more, 0) /\ NoneMissing(more, 0)
    BY <1>3, <1>9, <2>3, <2>7, CountedIs
  <2>9. 0 \in Complete(more) /\ Complete(more) \subseteq {0}
    BY <1>7, <2>7, <2>8 DEF Complete
  <2>10. Chosen(more) = 0
    BY <1>3, <2>9, ChosenIs
  <2>11. Reassembled(Combined(more, 0)) = Message(g, "all")
    BY <1>3, <2>5, <2>6, <2>9, CombinedIs
  <2>12. PICK c : c = Combine(more)
    OBVIOUS
  <2>13. c.ret = "PKT_ERROR" \/ (c.ret = "call" /\ c.data = Combined(more, 0))
    BY <1>3, <2>8, <2>9, <2>10, <2>12, CombineIs
  <2> QED
    BY <1>2, <2>11, <2>12, <2>13 DEF GSFilesIt
<1> QED
  BY <1>8, <1>9

\* A server that is named has sent the reply, and the other way round.
GSKinds == {"all", "status", "challenge", "fallback", "odd"}
GSRecalls(g, t, kinds) ==
  /\ t.want = g.want /\ kinds \subseteq GSKinds
  /\ t.name = "server" <=> kinds \cap {"all", "status"} # {}
GSAsks(g, out) == \A k \in DOMAIN out : out[k].kind = "status" => g.want = {}
GSHears(g, kinds, r) ==
  /\ GSRecalls(g, r.s, kinds) /\ GSAsks(g, r.out)
  /\ r.ret = "INPROGRESS" => GSFiled(g, r.s.saved)

\* What may arrive; the header of a fragment has no total.
GSPlaced(g, m) ==
  /\ Piece(m) /\ m.kind = "fragment" /\ m.index \in 0 .. g.parts - 1
  /\ Guessed(m) = IF m.index + 1 = g.parts THEN g.parts ELSE m.index + 2
  /\ m.data.part = m.index + 1 /\ m.data.parts = g.parts /\ m.data.message = Message(g, "all")
GSArrives(g, n, m) ==
  \/ m.kind \in {"odd", "fallback"} \/ Challenge(n, m)
  \/ m.kind = "status" /\ g.want = {}
  \/ GSPlaced(g, m)

LEMMA GSPartPlaced ==
  ASSUME NEW g \in Setups, NEW k \in Nat, NEW m \in Fragments(g, Message(g, "all"), k)
  PROVE  GSPlaced(g, m) /\ "bad" \notin DOMAIN m
<1>3. PICK message \in Message4 : message = Message(g, "all")
  BY MessageIs
<1>4. PICK parts \in Nat \ {0}, format \in Nat : parts = g.parts /\ format = g.format
  BY SetupIs
<1>5. PICK p \in 1 .. parts :
        m = [kind |-> "fragment", id |-> k, index |-> p - 1, max |-> parts, final |-> p = parts,
             format |-> format, data |-> [part |-> p, parts |-> parts, message |-> message]]
  BY <1>3, <1>4 DEF Fragments
<1>6. PICK index \in Nat : index = p - 1 /\ index + 1 = p /\ index \in 0 .. parts - 1 /\ p \in Nat
  BY <1>4, <1>5
<1>70. (p = parts) \in BOOLEAN
  OBVIOUS
<1>7. PICK final \in BOOLEAN : final = (p = parts)
  BY <1>70, Zenon
<1>8. PICK data : data = [part |-> p, parts |-> parts, message |-> message]
  OBVIOUS
<1>9. m = [kind |-> "fragment", id |-> k, index |-> index, max |-> parts, final |-> final,
           format |-> format, data |-> data]
  BY <1>5, <1>6, <1>7, <1>8
<1>10. /\ m.kind = "fragment" /\ m.id = k /\ m.index = index /\ m.max = parts /\ m.format = format
       /\ m.data = data /\ m.final = final /\ "bad" \notin DOMAIN m
  BY <1>9
<1>11. data \in Slices /\ data.part = p /\ data.parts = parts /\ data.message = message
  BY <1>6, <1>8 DEF Slices
<1>12. Guessed(m) = IF index + 1 = parts THEN parts ELSE index + 2
  BY <1>6, <1>7, <1>10 DEF Guessed
<1>13. Piece(m)
  BY <1>4, <1>6, <1>10, <1>11 DEF Piece
<1> QED
  BY <1>3, <1>4, <1>6, <1>10, <1>11, <1>12, <1>13 DEF GSPlaced

LEMMA GSReplyArrives ==
  ASSUME NEW g \in Setups, g.type \in GSTypes, NEW n \in Nat, NEW r, GSRequest(g, n, r),
         r.kind = "status" => g.want = {}, NEW k \in Nat, NEW m \in ChallengedReply(g, r, k, n)
  PROVE  GSArrives(g, n, m) /\ ("bad" \in DOMAIN m => m \in Message4 /\ m.kind = "status")
<1>1. r.kind \in {"challenge", "status", "all"}
  BY DEF GSRequest
<1>2. CASE r.kind = "status"
  <2>1. m = Message(g, "status")
    BY <1>2 DEF ChallengedReply
  <2> QED
    BY <1>2, <2>1, MessageIs DEF GSArrives
<1>3. CASE r.kind = "all"
  <2>1. m \in InParts(g, Message(g, "all"), k)
    BY <1>3 DEF ChallengedReply
  <2>2. GameHandler(g) = "gs3"
    BY TableSays DEF GSTypes, GameHandler
  <2>3. m \in Fragments(g, Message(g, "all"), k)
    BY <2>1, <2>2 DEF InParts, AlwaysNumbered
  <2> QED
    BY <2>3, GSPartPlaced DEF GSArrives
<1>4. CASE r.kind = "challenge"
  <2>1. m \in {[kind |-> "fallback"]} \/ m \in NewChallenges(n)
    BY <1>4 DEF ChallengedReply
  <2>2. CASE m \in {[kind |-> "fallback"]}
    <3>1. m = [kind |-> "fallback"]
      BY <2>2
    <3>2. m.kind = "fallback" /\ "bad" \notin DOMAIN m
      BY <3>1
    <3> QED
      BY <3>2 DEF GSArrives
  <2>3. CASE m \in NewChallenges(n)
    <3>1. PICK c \in 1 .. n : m = [kind |-> "challenge", challenge |-> c]
      BY <2>3 DEF NewChallenges
    <3>2. m.kind = "challenge" /\ m.challenge = c /\ "bad" \notin DOMAIN m
      BY <3>1
    <3> QED
      BY <3>2 DEF GSArrives, Challenge
  <2> QED
    BY <2>1, <2>2, <2>3
<1> QED
  BY <1>1, <1>2, <1>3, <1>4

\* What the functions of gs3.c do to the name and to the fragments.
LEMMA GSQueryHears ==
  ASSUME NEW g, NEW t \in Servers, NEW kinds, GSRecalls(g, t, kinds), GSFiled(g, t.saved), NEW ok
  PROVE  GSHears(g, kinds, GS3StatusQuery(t, ok))
<1>1. CASE ok
  <2>1. PICK u : u = RegisterSend(t)
    OBVIOUS
  <2>2. u.name = t.name /\ u.want = t.want /\ u.saved = t.saved
    BY <2>1, RegisterSpends DEF Spends, Same
  <2>3. PICK request : request = GS3Request(t)
    OBVIOUS
  <2>4. PICK r : r = GS3StatusQuery(t, ok)
    OBVIOUS
  <2>5. r.s = u /\ r.out = <<request>>
    BY <1>1, <2>1, <2>3, <2>4, ResultIs DEF GS3StatusQuery, SendPacket
  <2>6. request.kind = "status" => g.want = {}
    BY <2>3 DEF GS3Request, Request, GSRecalls
  <2>7. GSAsks(g, r.out)
    <3>1. \A k \in DOMAIN <<request>> : <<request>>[k] = request
      OBVIOUS
    <3> QED
      BY <2>5, <2>6, <3>1 DEF GSAsks
  <2>8. GSRecalls(g, r.s, kinds)
    BY <2>2, <2>5 DEF GSRecalls
  <2>9. GSFiled(g, r.s.saved)
    BY <2>2, <2>5
  <2> QED
    BY <2>4, <2>7, <2>8, <2>9 DEF GSHears
<1>2. CASE ~ok
  <2>1. PICK r : r = Ends(t, "SYS_ERROR")
    OBVIOUS
  <2>2. GS3StatusQuery(t, ok) = r
    BY <1>2, <2>1 DEF GS3StatusQuery, SendPacket
  <2>3. r.s = t /\ r.ret = "SYS_ERROR" /\ r.out = <<>>
    BY <2>1, EndsIs
  <2>4. GSAsks(g, r.out)
    BY <2>3 DEF GSAsks
  <2> QED
    BY <2>2, <2>3, <2>4 DEF GSHears
<1> QED
  BY <1>1, <1>2

LEMMA GSAgainHears ==
  ASSUME NEW g, NEW t \in Servers, NEW kinds, GSRecalls(g, t, kinds), GSFiled(g, t.saved), NEW ok,
         NEW status \in Statuses, NEW v, v = [t EXCEPT !.status = status]
  PROVE  GSHears(g, kinds, GS3Again(v, ok))
<1>1. PICK again \in Int : again = t.retry1 + 1
  BY Fields
<1>2. v \in Servers /\ v.name = t.name /\ v.want = t.want /\ v.saved = t.saved /\ v.retry1 = t.retry1
  BY DEF Servers
<1>3. PICK u : u = [v EXCEPT !.retry1 = again]
  OBVIOUS
<1>4. u \in Servers /\ u.name = t.name /\ u.want = t.want /\ u.saved = t.saved
  BY <1>2, <1>3 DEF Servers
<1>5. GS3Again(v, ok) = GS3StatusQuery(u, ok)
  BY <1>1, <1>2, <1>3 DEF GS3Again
<1>6. GSRecalls(g, u, kinds)
  BY <1>4 DEF GSRecalls
<1> QED
  BY <1>4, <1>5, <1>6, GSQueryHears

LEMMA GSWholeHears ==
  ASSUME NEW g, NEW t \in Servers, NEW kinds, GSRecalls(g, t, kinds), NEW m,
         m.kind = "all" \/ m.kind = "odd" \/ (m.kind = "status" /\ g.want = {})
  PROVE  GSHears(g, kinds \cup {m.kind}, GS3Whole(t, m))
<1>1. PICK r : r = GS3Whole(t, m)
  OBVIOUS
<1>2. PICK u : u = [t EXCEPT !.name = "server"]
  OBVIOUS
<1>3. u.name = "server" /\ u.want = t.want
  BY <1>2 DEF Servers
<1>4. CASE m.kind = "odd"
  <2>1. r.s = t /\ r.ret = "PKT_ERROR" /\ r.out = <<>>
    BY <1>1, <1>4, EndsIs DEF GS3Whole
  <2>2. GSRecalls(g, t, kinds \cup {m.kind})
    BY <1>4 DEF GSRecalls, GSKinds
  <2> QED
    BY <1>1, <2>1, <2>2 DEF GSHears, GSAsks
<1>5. CASE m.kind # "odd"
  <2>1. r.s = u /\ r.ret = "DONE_FORCE" /\ r.out = <<>>
    BY <1>1, <1>2, <1>5, EndsIs DEF GS3Whole, GSRecalls
  <2>2. GSRecalls(g, u, kinds \cup {m.kind})
    BY <1>3, <1>5 DEF GSRecalls, GSKinds
  <2> QED
    BY <1>1, <2>1, <2>2 DEF GSHears, GSAsks
<1> QED
  BY <1>4, <1>5

GSLearned(t, m) ==
  IF m.kind # "fragment" THEN {m.kind}
  ELSE IF GS3Fragment(t, m).ret = "call" THEN {Reassembled(GS3Fragment(t, m).data).kind} ELSE {}

LEMMA GSPieceHears ==
  ASSUME NEW g \in Setups, NEW t \in Servers, NEW kinds, GSRecalls(g, t, kinds), GSFiled(g, t.saved), NEW ok,
         NEW m, GSPlaced(g, m)
  PROVE  GSHears(g, kinds \cup GSLearned(t, m), GS3Packet(t, m, ok))
<1>1. /\ m.kind = "fragment" /\ m.index \in Nat /\ m.data \in Slices /\ g.parts \in Nat \ {0}
      /\ t.saved \in Seq(Kept)
  BY SetupIs, Fields DEF GSPlaced, Piece
<1>2. PICK total \in Nat : total = Guessed(m) /\ total = IF m.index + 1 = g.parts THEN g.parts ELSE m.index + 2
  BY <1>1 DEF GSPlaced
<1>3. PICK f : f = Fragment(0, m.index, total, m.data)
  OBVIOUS
<1>4. f \in Kept /\ f.id = 0 /\ f.index = m.index /\ f.max = total /\ f.data = m.data
  BY <1>1, <1>3 DEF Fragment, Kept
<1>5. GSPieceOf(g, f)
  <2>1. GSCut(g, f)
    BY <1>4 DEF GSPlaced, GSCut
  <2>2. m.index \in 0 .. g.parts - 1
    BY DEF GSPlaced
  <2>3. total \in 1 .. g.parts /\ (m.index + 2 <= total \/ total = g.parts)
    BY <1>1, <1>2, <2>2
  <2> QED
    BY <1>4, <2>1, <2>3 DEF GSPieceOf
<1>6. PICK c : c = GS3Fragment(t, m)
  OBVIOUS
<1>7. c = Combine(AddPacket(t.saved, f))
  BY <1>2, <1>3, <1>6 DEF GS3Fragment
<1>8. GSFilesIt(g, c)
  BY <1>1, <1>4, <1>5, <1>7, GSFilesPiece
<1>9. c.saved \in Seq(Kept)
  <2>1. PICK more \in Seq(Kept) : more = AddPacket(t.saved, f)
    BY <1>1, <1>4, AddPacketTyped
  <2> QED
    BY <1>7, <2>1, CombineTyped
<1>10. PICK u : u = [t EXCEPT !.saved = c.saved]
  OBVIOUS
<1>11. u \in Servers /\ u.saved = c.saved /\ u.name = t.name /\ u.want = t.want
  BY <1>9, <1>10 DEF Servers
<1>12. GSRecalls(g, u, kinds)
  BY <1>11 DEF GSRecalls
<1>13. PICK r : r = GS3Packet(t, m, ok)
  OBVIOUS
<1>14. CASE c.ret = "call"
  <2>1. PICK x : x = Reassembled(c.data)
    OBVIOUS
  <2>2. x.kind = "all"
    BY <1>8, <1>14, <2>1, MessageIs DEF GSFilesIt
  <2>3. r = GS3Whole(u, x)
    BY <1>1, <1>6, <1>10, <1>13, <1>14, <2>1 DEF GS3Packet
  <2>4. GSLearned(t, m) = {x.kind}
    BY <1>1, <1>6, <1>14, <2>1 DEF GSLearned
  <2> QED
    BY <1>11, <1>12, <1>13, <2>2, <2>3, <2>4, GSWholeHears
<1>15. CASE c.ret # "call"
  <2>1. r = Ends(u, c.ret)
    BY <1>1, <1>6, <1>10, <1>13, <1>15 DEF GS3Packet
  <2>2. r.s = u /\ r.ret = c.ret /\ r.out = <<>>
    BY <2>1, EndsIs
  <2>3. GSLearned(t, m) = {}
    BY <1>1, <1>6, <1>15 DEF GSLearned
  <2>4. kinds \cup GSLearned(t, m) = kinds
    BY <2>3
  <2>5. r.ret = "INPROGRESS" => GSFiled(g, r.s.saved)
    BY <1>8, <1>11, <2>2 DEF GSFilesIt
  <2>6. GSAsks(g, r.out)
    BY <2>2 DEF GSAsks
  <2> QED
    BY <1>12, <1>13, <2>2, <2>4, <2>5, <2>6 DEF GSHears
<1> QED
  BY <1>14, <1>15

LEMMA GSPacketHears ==
  ASSUME NEW g \in Setups, NEW t \in Servers, NEW n \in Nat, NEW kinds, GSRecalls(g, t, kinds), GSFiled(g, t.saved),
         NEW ok, NEW m, GSArrives(g, n, m)
  PROVE  GSHears(g, kinds \cup GSLearned(t, m), GS3Packet(t, m, ok))
<1>1. t.status \in Statuses
  BY Fields
<1>2. CASE m.kind = "fallback"
  <2>1. PICK status : status = [t.status EXCEPT !.type = "gs3"]
    OBVIOUS
  <2>2. status \in Statuses
    BY <1>1, <2>1 DEF Statuses, Types
  <2>3. PICK v : v = [t EXCEPT !.status = status]
    OBVIOUS
  <2>4. GS3Packet(t, m, ok) = GS3Again(v, ok)
    <3>1. [t EXCEPT !.status.type = "gs3"] = v
      BY <1>1, <2>1, <2>3 DEF Servers
    <3> QED
      BY <1>2, <3>1 DEF GS3Packet
  <2>5. GSRecalls(g, t, kinds \cup GSLearned(t, m))
    BY <1>2 DEF GSRecalls, GSKinds, GSLearned
  <2> QED
    BY <2>2, <2>3, <2>4, <2>5, GSAgainHears
<1>3. CASE Challenge(n, m)
  <2>1. PICK c \in 1 .. n : c = m.challenge /\ m.kind = "challenge"
    BY <1>3 DEF Challenge
  <2>2. PICK status : status = [t.status EXCEPT !.challenge = c]
    OBVIOUS
  <2>3. status \in Statuses
    BY <1>1, <2>1, <2>2 DEF Statuses
  <2>4. PICK v : v = [t EXCEPT !.status = status]
    OBVIOUS
  <2>5. GS3Packet(t, m, ok) = GS3Again(v, ok)
    <3>1. [t EXCEPT !.status.challenge = c] = v
      BY <1>1, <2>2, <2>4 DEF Servers
    <3> QED
      BY <2>1, <3>1 DEF GS3Packet
  <2>6. GSRecalls(g, t, kinds \cup GSLearned(t, m))
    BY <2>1 DEF GSRecalls, GSKinds, GSLearned
  <2> QED
    BY <2>3, <2>4, <2>5, <2>6, GSAgainHears
<1>4. CASE GSPlaced(g, m)
  BY <1>4, GSPieceHears
<1>5. CASE m.kind = "odd" \/ (m.kind = "status" /\ g.want = {})
  <2>1. GS3Packet(t, m, ok) = GS3Whole(t, m) /\ GSLearned(t, m) = {m.kind}
    BY <1>5 DEF GS3Packet, GSLearned
  <2> QED
    BY <1>5, <2>1, GSWholeHears
<1> QED
  BY <1>2, <1>3, <1>4, <1>5 DEF GSArrives

\* The invariant: as for the dialogues, a server that is named was heard, and a
\* fragment that would complete the reply is missing.
GSStatusPlain == \A k \in DOMAIN asked : asked[k].kind = "status" => setup.want = {}
GSHeard ==
  setup.type \in GSTypes => GSRecalls(setup, s, heard) /\ GSFiled(setup, s.saved) /\ GSStatusPlain

LEMMA GSHeardStarts ==
  ASSUME InitQueries
  PROVE  GSHeard
<1> SUFFICES ASSUME setup.type \in GSTypes
             PROVE  GSRecalls(setup, s, heard) /\ GSFiled(setup, s.saved) /\ GSStatusPlain
  BY DEF GSHeard
<1>1. setup.type \in Types /\ setup \in Setups
  BY DEF GSTypes, Types, InitQueries
<1>2. s.saved = <<>> /\ s.name = "none" /\ s.want = setup.want /\ setup.parts \in Nat \ {0}
  BY <1>1, InitialServer, SetupIs DEF InitQueries, Begins
<1>3. heard = {} /\ asked = <<>>
  BY DEF InitQueries
<1>4. GSRecalls(setup, s, heard)
  BY <1>2, <1>3 DEF GSRecalls
<1>5. GSFiled(setup, s.saved)
  BY <1>2, GSNothingFiled
<1> QED
  BY <1>3, <1>4, <1>5 DEF GSStatusPlain

LEMMA GSArrivesHeard ==
  ASSUME Counts, GSInv, GSHeard, setup.type \in GSTypes, NEW m \in Arrivals
  PROVE  GSArrives(setup, issued, m)
<1>1. /\ ~TcpConnect(setup)
      /\ \A r, k : Reply(setup, r, k, issued) = ChallengedReply(setup, r, k, issued)
  BY HandlerOf DEF GSTypes, Types
<1> DEFINE replies == UNION {Reply(setup, asked[k], k, issued) : k \in DOMAIN asked}
<1>2. ASSUME NEW x \in replies
      PROVE  /\ GSArrives(setup, issued, x)
             /\ "bad" \in DOMAIN x => x \in Message4 /\ x.kind = "status" /\ setup.want = {}
  <2>1. PICK k \in DOMAIN asked : x \in ChallengedReply(setup, asked[k], k, issued)
    BY <1>1, <1>2
  <2>2. GSRequest(setup, issued, asked[k]) /\ k \in Nat /\ (asked[k].kind = "status" => setup.want = {})
    BY DEF GSInv, GSAskedFine, GSHeard, GSStatusPlain
  <2>3. GSArrives(setup, issued, x) /\ ("bad" \in DOMAIN x => x \in Message4 /\ x.kind = "status")
    BY <2>1, <2>2, GSReplyArrives DEF Counts
  <2> QED
    BY <2>3 DEF GSArrives, Challenge, GSPlaced
<1>3. \/ m \in replies
      \/ m \in {[kind |-> "odd"]}
      \/ m \in {[x EXCEPT !.bad = fault] : x \in {r \in replies : "bad" \in DOMAIN r}, fault \in {"front", "behind"}}
  BY <1>1 DEF Arrivals
<1> HIDE DEF replies
<1>4. CASE m \in replies
  BY <1>2, <1>4
<1>5. CASE m \in {[kind |-> "odd"]}
  <2>1. m.kind = "odd"
    BY <1>5
  <2> QED
    BY <2>1 DEF GSArrives
<1>6. CASE m \in {[x EXCEPT !.bad = fault] : x \in {r \in replies : "bad" \in DOMAIN r}, fault \in {"front", "behind"}}
  <2>1. PICK x \in replies, fault \in {"front", "behind"} : "bad" \in DOMAIN x /\ m = [x EXCEPT !.bad = fault]
    BY <1>6
  <2>2. x \in Message4 /\ x.kind = "status" /\ setup.want = {}
    BY <1>2, <2>1
  <2>3. m.kind = "status"
    BY <2>1, <2>2, FaultIs
  <2> QED
    BY <2>2, <2>3 DEF GSArrives
<1> QED
  BY <1>3, <1>4, <1>5, <1>6

\* It is what the history of Queries.tla notes.
LEMMA GSReadIs ==
  ASSUME s.status.type \in GSTypes, NEW m, m.kind # "chunk"
  PROVE  Read(m) = GSLearned(s, m)
<1>1. Handler(s) = "gs3"
  BY TableSays DEF Handler, GSTypes
<1>2. CASE m.kind = "fragment"
  <2>1. ~ReadAlone(m)
    BY <1>1 DEF ReadAlone
  <2>2. FragmentOutcome(m) = GS3Fragment(s, m)
    BY <1>1 DEF FragmentOutcome
  <2>3. Read(m) = FromFragment(m)
    BY <1>2 DEF Read
  <2> QED
    BY <1>2, <2>1, <2>2, <2>3 DEF FromFragment, GSLearned
<1>3. CASE m.kind # "fragment"
  BY <1>3 DEF Read, GSLearned
<1> QED
  BY <1>2, <1>3

LEMMA GSHeardOutcome ==
  ASSUME Counts, GSInv, GSHeard, setup.type \in GSTypes, setup' = setup,
         NEW r, GSGood(setup, issued, r), AddsOnly(r), s' = Fate(r), GSHears(setup, heard', r)
  PROVE  GSHeard'
<1>1. GSRecalls(setup, r.s, heard') /\ GSAsks(setup, r.out) /\ (r.ret = "INPROGRESS" => GSFiled(setup, r.s.saved))
  BY DEF GSHears
<1>2. Plain(r.s) /\ r.s \in Servers /\ r.ret \in Rets /\ r.ret # "DONE_AUTO"
  BY DEF GSGood, GSCore, Plain
<1>3. GSRecalls(setup, s', heard') /\ GSFiled(setup, s'.saved)
  <2>1. CASE r.ret = "INPROGRESS"
    BY <1>1, <1>2, <2>1, FateIs
  <2>2. CASE r.ret # "INPROGRESS"
    <3>1. PICK u : u = s' /\ Closed(r.s, u)
      BY <1>2, <2>2, FateIs
    <3>2. Keeps(r.s, u) /\ u.saved = <<>> /\ u.name = IF r.s.name = "none" THEN "TIMEOUT" ELSE r.s.name
      BY <1>2, <3>1, ClosedSays
    <3>3. GSFiled(setup, u.saved)
      BY <3>2, GSNothingFiled, SetupIs DEF Counts
    <3>4. GSRecalls(setup, u, heard')
      BY <1>1, <3>2 DEF GSRecalls, Keeps
    <3> QED
      BY <3>1, <3>3, <3>4
  <2> QED
    BY <2>1, <2>2
<1>4. GSStatusPlain'
  <2>1. GSStatusPlain
    BY DEF GSHeard
  <2>2. CASE Sent(r)
    <3>1. PICK request : r.out = <<>> \/ (r.out = <<request>> /\ GSRequest(setup, issued, request))
      BY DEF GSGood
    <3>2. Adds(r, request)
      BY <3>1 DEF Adds, GSRequest
    <3>3. \A k \in DOMAIN asked' : \/ \E j \in DOMAIN asked : asked'[k] = asked[j]
                                   \/ r.out = <<request>> /\ asked'[k] = request
      BY <2>2, <3>2, SentIs DEF GSInv, GSAskedFine
    <3>4. r.out = <<request>> => (request.kind = "status" => setup.want = {})
      <4>1. DOMAIN <<request>> = {1} /\ <<request>>[1] = request
        OBVIOUS
      <4> QED
        BY <1>1, <4>1 DEF GSAsks
    <3> QED
      BY <2>1, <3>3, <3>4 DEF GSStatusPlain
  <2>3. CASE asked' = asked
    BY <2>1, <2>3 DEF GSStatusPlain
  <2> QED
    BY <2>2, <2>3 DEF AddsOnly
<1> QED
  BY <1>3, <1>4 DEF GSHeard

LEMMA GSHeardSteps ==
  ASSUME Counts, GSInv, GSHeard, [Next]_all
  PROVE  GSHeard'
<1>0. setup' = setup
  BY CountsSteps
<1> SUFFICES ASSUME setup.type \in GSTypes
             PROVE  GSHeard'
  BY <1>0 DEF GSHeard
<1>1. /\ GSCore(setup, s, issued) /\ s \in Servers /\ s.status.type \in GSTypes /\ setup \in Setups
      /\ issued \in Nat /\ GSRecalls(setup, s, heard) /\ GSFiled(setup, s.saved) /\ GSStatusPlain
  BY DEF GSInv, GSCore, GSHeard, Counts
<1>2. ASSUME NEW ok \in BOOLEAN, s' = Fate(StatusQueryFunc(s, ok)), Sent(StatusQueryFunc(s, ok)),
             s.name = "none", s.retry1 <= NRetries, heard' = heard
      PROVE  GSHeard'
  <2>1. PICK r : r = GS3StatusQuery(s, ok)
    OBVIOUS
  <2>2. GSGood(setup, issued, r) /\ AddsOnly(r) /\ s' = Fate(r)
    BY <1>1, <1>2, <2>1, GSStatusGood, GSFunctionsOf DEF AddsOnly
  <2>3. GSHears(setup, heard', r)
    BY <1>1, <1>2, <2>1, GSQueryHears
  <2> QED
    BY <1>0, <2>2, <2>3, GSHeardOutcome
<1>3. CASE Start
  <2>1. main = "start" /\ heard' = heard
    BY <1>3 DEF Start, history
  <2>2. PICK ok \in BOOLEAN : s' = Fate(StatusQueryFunc(s, ok)) /\ Sent(StatusQueryFunc(s, ok))
    BY <1>3, SetupIs DEF Start, Counts
  <2>3. s.name = "none" /\ s.retry1 <= NRetries
    BY <2>1, QServerAssumption DEF GSInv
  <2> QED
    BY <1>2, <2>1, <2>2, <2>3
<1>4. CASE Handle
  <2>1. main = "work" /\ s.open
    BY <1>4 DEF Handle
  <2>2. PICK m \in Arrivals, ok \in BOOLEAN :
          s' = Fate(PacketFunc(s, m, ok)) /\ Sent(PacketFunc(s, m, ok)) /\ heard' = heard \cup Read(m)
    BY <1>4, SetupIs DEF Handle, Counts
  <2>3. GSComes(setup, issued, m) /\ GSStage(s) /\ GSArrives(setup, issued, m)
    BY <2>1, GSArrivesFine, GSArrivesHeard DEF GSInv
  <2>4. PICK r : r = GS3Packet(s, m, ok)
    OBVIOUS
  <2>5. GSGood(setup, issued, r) /\ AddsOnly(r) /\ s' = Fate(r)
    BY <1>1, <2>2, <2>3, <2>4, GSPacketGood, GSFunctionsOf DEF AddsOnly
  <2>6. m.kind # "chunk"
    BY <2>3 DEF GSArrives, Challenge, GSPlaced
  <2>7. heard' = heard \cup GSLearned(s, m)
    BY <1>1, <2>2, <2>6, GSReadIs
  <2>8. GSHears(setup, heard', r)
    BY <1>1, <2>3, <2>4, <2>7, GSPacketHears
  <2> QED
    BY <1>0, <2>5, <2>8, GSHeardOutcome
<1>5. CASE SendPackets
  <2>1. main = "work" /\ s.open /\ heard' = heard
    BY <1>5 DEF SendPackets
  <2>2. GSStage(s)
    BY <2>1 DEF GSInv
  <2>3. ~PastStatus
    BY <1>1, <2>2, PastStatusNamed DEF GSStage
  <2>4. GivesUpQuery \/ AsksAgain
    BY <1>5, <2>3 DEF SendPackets, GivesUpRules, AsksRules, AsksPlayers, SendsNothing
  <2>5. CASE GivesUpQuery
    <3>1. PICK r : r = Ends(s, "DONE_FORCE")
      OBVIOUS
    <3>2. r.s = s /\ r.ret = "DONE_FORCE" /\ r.out = <<>>
      BY <3>1, EndsIs
    <3>3. asked' = asked /\ s' = Fate(r)
      BY <2>5, <3>2 DEF GivesUpQuery, Fate, Errors
    <3>4. GSGood(setup, issued, r)
      BY <1>1, <3>2 DEF GSGood, Rets
    <3>5. GSHears(setup, heard', r)
      BY <1>1, <2>1, <3>2 DEF GSHears, GSAsks
    <3> QED
      BY <1>0, <3>3, <3>4, <3>5, GSHeardOutcome DEF AddsOnly
  <2>6. CASE AsksAgain
    <3>1. PICK ok \in BOOLEAN : s' = Fate(StatusQueryFunc(s, ok)) /\ Sent(StatusQueryFunc(s, ok))
      BY <2>6, SetupIs DEF AsksAgain, Counts
    <3>2. s.name = "none" /\ s.retry1 <= NRetries
      BY <1>1, <2>2, Fields, QServerAssumption DEF GSStage
    <3> QED
      BY <1>2, <2>1, <3>1, <3>2
  <2> QED
    BY <2>4, <2>5, <2>6
<1>6. CASE Tick
  <2>1. asked' = asked /\ heard' = heard
    BY <1>6 DEF Tick, history
  <2>2. PICK u : u = s' /\ Waited(s, u)
    BY <1>1, <1>6, TickIs
  <2>3. GSRecalls(setup, u, heard) /\ GSFiled(setup, u.saved)
    BY <1>1, <2>2 DEF Waited, GSRecalls
  <2> QED
    BY <1>0, <1>1, <2>1, <2>2, <2>3 DEF GSHeard, GSStatusPlain
<1>7. CASE Rotate \/ Over \/ UNCHANGED all
  <2>1. s' = s /\ asked' = asked /\ heard' = heard
    BY <1>7 DEF Rotate, Over, all, history
  <2> QED
    BY <1>0, <1>1, <2>1 DEF GSHeard, GSStatusPlain
<1> QED
  BY <1>3, <1>4, <1>5, <1>6, <1>7 DEF Next

LEMMA GSHeardHolds == QueriesSpec => [](Counts /\ GSInv /\ GSHeard)
<1>1. InitQueries => Counts /\ GSInv /\ GSHeard
  BY DialogueStarts, GSStarts, GSHeardStarts
<1>2. Counts /\ GSInv /\ GSHeard /\ [Next]_all => Counts' /\ GSInv' /\ GSHeard'
  BY CountsSteps, GSSteps, GSHeardSteps
<1> QED
  BY <1>1, <1>2, PTL DEF QueriesSpec

LEMMA GSAnswered ==
  ASSUME GSHeard, setup.type \in GSTypes
  PROVE  TimeoutMeansSilence /\ AnsweredMeansAll /\ RepliesWhole
<1>1. GSRecalls(setup, s, heard)
  BY DEF GSHeard
<1>2. TimeoutMeansSilence
  <2>1. s.name = "TIMEOUT" => heard \cap {"all", "status"} = {} /\ heard \subseteq GSKinds
    BY <1>1 DEF GSRecalls
  <2>2. GSKinds \cap NamesServer \subseteq {"all", "status"}
    BY DEF GSKinds, NamesServer, GSTypes
  <2> QED
    BY <2>1, <2>2 DEF TimeoutMeansSilence
<1>3. AnsweredMeansAll
  <2>1. PICK h : h = GameHandler(setup) /\ h = "gs3"
    BY TableSays DEF GameHandler, GSTypes
  <2>2. Needed = {}
    BY <2>1 DEF Needed, GSTypes
  <2>3. Answered => heard \cap Sources # {}
    BY <1>1 DEF Answered, GSRecalls, Sources
  <2> QED
    BY <2>2, <2>3 DEF AnsweredMeansAll
<1>4. RepliesWhole
  BY <1>1 DEF GSRecalls, GSKinds, RepliesWhole
<1> QED
  BY <1>2, <1>3, <1>4

LEMMA GSPiecesRead ==
  ASSUME Counts, GSInv, GSHeard, setup.type \in GSTypes
  PROVE  FragmentsSuffice
<1>1. SUFFICES ASSUME NEW k \in DOMAIN s.saved, HasAllParts(k)
               PROVE  FALSE
  BY DEF FragmentsSuffice
<1>2. PICK saved \in Seq(Kept) : saved = s.saved
  BY Fields DEF GSInv, GSCore
<1>3. PICK total \in Nat : GSTotalled(setup, saved, total) /\ MissesOne(saved, 0, total)
  BY <1>2 DEF GSHeard, GSFiled
<1>4. PICK f \in Kept : f = saved[k]
  BY <1>1, <1>2
<1>5. PICK parts \in Nat \ {0} : parts = setup.parts
  BY SetupIs DEF Counts
<1>6. f.data \in Slices /\ f.id = 0 /\ f.data.parts = parts
  BY <1>1, <1>2, <1>3, <1>4, <1>5, KeptFields DEF GSTotalled, GSCut
<1>7. ASSUME NEW p \in 1 .. parts
      PROVE  \E j \in Its(saved, 0) : saved[j].index = p - 1
  <2>1. PICK j \in DOMAIN saved : saved[j].id = f.id /\ saved[j].data = [f.data EXCEPT !.part = p]
    BY <1>1, <1>2, <1>4, <1>6 DEF HasAllParts
  <2>2. saved[j].data.part = p
    <3>1. PICK d \in Slices : d = f.data
      BY <1>6
    <3>2. [d EXCEPT !.part = p].part = p
      BY DEF Slices
    <3> QED
      BY <2>1, <3>1, <3>2
  <2>3. GSCut(setup, saved[j]) /\ saved[j].max = total /\ total # 0 /\ saved[j].index \in Nat
    BY <1>3, KeptFields DEF GSTotalled
  <2>4. saved[j].index = p - 1
    BY <2>2, <2>3 DEF GSCut
  <2>5. j \in Its(saved, 0)
    BY <1>6, <2>1, <2>3 DEF Its, Pending
  <2> QED
    BY <2>4, <2>5
<1>8. total = parts
  <2>1. PICK j \in Its(saved, 0) : saved[j].index = parts - 1
    BY <1>5, <1>7
  <2>2. j \in DOMAIN saved
    BY DEF Its, Pending
  <2> QED
    BY <1>3, <1>5, <2>1, <2>2 DEF GSTotalled
<1>9. PICK q \in 0 .. total - 1 : \A j \in Its(saved, 0) : saved[j].index # q
  BY <1>3 DEF MissesOne
<1>10. q + 1 \in 1 .. parts /\ (q + 1) - 1 = q
  BY <1>8, <1>9
<1> QED
  BY <1>7, <1>9, <1>10

\* A Half-Life, 7DFPS or Gamespy server shown as TIMEOUT never said who it is,
\* whatever arrived: the name a reply gave is not thrown away by cleanup_qserver.
THEOREM SilentTimeouts == QueriesSpec => [](setup.type \in Types => TimeoutMeansSilence)
<1>1. HeardInv /\ GSHeard => (setup.type \in Types => TimeoutMeansSilence)
  BY SilentWhenForgotten, GSAnswered DEF Types, Dialogues, GSTypes
<1> QED
  BY <1>1, HeardHolds, GSHeardHolds, PTL

\* Such a server shown as answered, with nothing noted as missing, has sent its
\* info and whatever was asked for (next_rule and the have_ bits), or for Gamespy
\* the reply it is displayed from.  Left aside, for Half-Life and 7DFPS: servers of
\* the old 7DFPS protocol, which tell no details (fl.c:236), and queries a handler
\* ended with an error.
THEOREM AnsweredInFull ==
  QueriesSpec =>
    [](\/ setup.type \in Dialogues /\ Speaks(setup) /\ ~gaveUp
       \/ setup.type \in GSTypes
         => AnsweredMeansAll)
<1>1. HeardInv /\ Counts /\ DialogueInv /\ GSHeard =>
        (\/ setup.type \in Dialogues /\ Speaks(setup) /\ ~gaveUp
         \/ setup.type \in GSTypes
           => AnsweredMeansAll)
  BY AllWhenAnswered, GSAnswered
<1> QED
  BY <1>1, HeardHolds, GSHeardHolds, PTL

\* The fragments of a server of these types are put together into the reply they
\* were cut from only, in whatever order and however often they came and whatever
\* else was asked (combine_packets), with the totals of gs3.c only guessed.  Left
\* aside: Source servers with an application id below 128, whose headers are
\* misread (a2s.c:202).
THEOREM RepliesAreWhole ==
  QueriesSpec => [](setup.type \in Types /\ Numbered(setup) => RepliesWhole)
<1>1. PiecesInv /\ GSHeard => (setup.type \in Types /\ Numbered(setup) => RepliesWhole)
  BY GSAnswered DEF PiecesInv, RepliesWhole, Types, Dialogues, GSTypes
<1> QED
  BY <1>1, PiecesHold, GSHeardHolds, PTL

\* Such a reply is read as soon as all its fragments are there.
THEOREM PiecesSuffice ==
  QueriesSpec => [](setup.type \in Types /\ Numbered(setup) => FragmentsSuffice)
<1>1. Counts /\ DialogueInv /\ PiecesInv /\ GSInv /\ GSHeard =>
        (setup.type \in Types /\ Numbered(setup) => FragmentsSuffice)
  BY PiecesRead, GSPiecesRead DEF Types, Dialogues, GSTypes
<1> QED
  BY <1>1, PiecesHold, GSHeardHolds, PTL
=============================================================================

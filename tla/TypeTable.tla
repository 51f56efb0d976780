----------------------------- MODULE TypeTable -----------------------------
(***************************************************************************)
(* builtin_types, the table every handler is called through: for each type *)
(* of server what may be sent to it, how it is first asked, who reads the  *)
(* answer, and for a master the type of the servers it lists.              *)
(*                                                                         *)
(* Types are called by their type_string.  Of the flags those are kept     *)
(* that decide about queries; ports, names and display functions are not.  *)
(***************************************************************************)
EXTENDS FiniteSets

\* struct _server_type: packets are those that are not NULL, query and handler
\* the names of status_query_func and packet_func.
R(type, master, flags, packets, query, handler) ==
  [type |-> type, master |-> master, flags |-> flags, packets |-> packets, query |-> query,
   handler |-> handler]

QuakeTypes ==
  { R("qs", "none", {}, {"status", "player", "rule"}, "qserver", "q"),
    R("h2s", "none", {}, {"status", "player", "rule"}, "qserver", "q"),
    R("qws", "none", {"SINGLE_QUERY"}, {"status"}, "qwserver", "qw"),
    R("hws", "none", {"SINGLE_QUERY"}, {"status"}, "qwserver", "qw") }

Quake3Types ==
  { R("q2s", "none", {"SINGLE_QUERY"}, {"status"}, "qwserver", "qw"),
    R("q3s", "none", {}, {"status", "rule"}, "qwserver", "qw"),
    R("dm3s", "none", {}, {"status"}, "qwserver", "doom3"),
    R("hl2s", "none", {}, {"status", "player", "rule"}, "hl2", "hl2") }

Quake3GameTypes ==
  { R("rws", "none", {}, {"status", "rule"}, "qwserver", "qw"),
    R("efs", "none", {}, {"status", "rule"}, "qwserver", "qw"),
    R("jk3s", "none", {}, {"status", "rule"}, "qwserver", "qw"),
    R("ut2s", "none", {}, {"status", "rule"}, "ut2003", "ut2003") }

HalfLifeEraTypes ==
  { R("uns", "none", {"SINGLE_QUERY"}, {"status"}, "gps", "gps"),
    R("hls", "none", {}, {"status", "player", "rule"}, "qwserver", "halflife"),
    R("sns", "none", {"SINGLE_QUERY"}, {"status"}, "qwserver", "qw"),
    R("sgs", "none", {}, {"status"}, "gps", "gps") }

TribesEraTypes ==
  { R("tbs", "none", {"SINGLE_QUERY"}, {"status", "player", "rule"}, "tribes", "tribes"),
    R("bfs", "none", {"TCP_CONNECT"}, {}, "bfris", "bfris"),
    R("kps", "none", {"SINGLE_QUERY"}, {"status"}, "qwserver", "qw"),
    R("hrs", "none", {"SINGLE_QUERY"}, {"status"}, "qwserver", "qw") }

GamespyEraTypes ==
  { R("sfs", "none", {"SINGLE_QUERY"}, {"status"}, "qwserver", "qw"),
    R("gps", "none", {"SINGLE_QUERY"}, {"status"}, "gps", "gps"),
    R("t2s", "none", {}, {"status", "player"}, "tribes2", "tribes2"),
    R("d3g", "none", {"SINGLE_QUERY"}, {"status"}, "gps", "gps") }

DescentEraTypes ==
  { R("d3s", "none", {}, {"status", "player"}, "gps", "descent3"),
    R("d3p", "none", {}, {"status", "player"}, "gps", "descent3"),
    R("grs", "none", {"QUERY_ARG"}, {"status"}, "qserver", "ghostrecon"),
    R("eye", "none", {"SINGLE_QUERY"}, {"status"}, "qserver", "eye") }

Gamespy2EraTypes ==
  { R("gs2", "none", {"SINGLE_QUERY"}, {"status"}, "gs2", "gs2"),
    R("ams", "none", {"SINGLE_QUERY"}, {"status"}, "gs2", "gs2"),
    R("rss", "none", {"QUERY_ARG"}, {"status"}, "qserver", "ravenshield"),
    R("sas", "none", {"QUERY_ARG"}, {"status", "player"}, "savage", "savage") }

QuakeMasterTypes ==
  { R("fcs", "none", {"QUERY_ARG"}, {"status"}, "farcry", "farcry"),
    R("qwm", "qws", {"SINGLE_QUERY"}, {"master"}, "qwmaster", "qwmaster"),
    R("hwm", "hws", {"SINGLE_QUERY"}, {"master"}, "qwmaster", "qwmaster"),
    R("q2m", "q2s", {"SINGLE_QUERY"}, {"master"}, "qwmaster", "qwmaster") }

Quake3MasterTypes ==
  { R("q3m", "q3s", {"QUERY_ARG"}, {"master"}, "qwmaster", "qwmaster"),
    R("dm3m", "dm3s", {"QUERY_ARG"}, {}, "doom3master", "doom3master"),
    R("rwm", "rws", {"QUERY_ARG"}, {"master"}, "qwmaster", "qwmaster"),
    R("efm", "efs", {"QUERY_ARG"}, {"master"}, "qwmaster", "qwmaster") }

PagingMasterTypes ==
  { R("jk3m", "jk3s", {"QUERY_ARG"}, {"master"}, "qwmaster", "qwmaster"),
    R("hlm", "hls", {"SINGLE_QUERY", "QUERY_ARG"}, {"master"}, "qwmaster", "qwmaster"),
    R("tbm", "tbs", {}, {"master"}, "qwmaster", "tribesmaster"),
    R("gsm", "gps", {"TCP_CONNECT", "QUERY_ARG", "QUERY_ARG_REQUIRED"}, {"status", "master"}, "gamespy_master", "gamespy_master") }

OtherMasterTypes ==
  { R("t2m", "t2s", {"QUERY_ARG"}, {"master"}, "tribes2master", "tribes2master"),
    R("d3m", "d3p", {"MASTER_MULTI_RESPONSE"}, {"master"}, "qwmaster", "descent3master"),
    R("stm", "a2s", {"SINGLE_QUERY", "QUERY_ARG", "MASTER_STEAM"}, {"master"}, "qwmaster", "qwmaster"),
    R("ut2004m", "ut2s", {"QUERY_ARG", "TCP_CONNECT"}, {}, "ut2004master", "ut2004master") }

SourceEraTypes ==
  { R("a2s", "none", {}, {}, "a2s", "a2s"),
    R("prs", "none", {}, {"status"}, "ut2003", "ut2003"),
    R("gs3", "none", {"SINGLE_QUERY"}, {"status", "player"}, "gs3", "gs3"),
    R("ts2", "none", {"TCP_CONNECT", "QUERY_ARG_REQUIRED", "QUERY_ARG"}, {}, "ts2", "ts2") }

Quake4EraTypes ==
  { R("q4s", "none", {}, {"status"}, "qwserver", "quake4"),
    R("q4m", "q4s", {"QUERY_ARG"}, {}, "quake4master", "doom3master"),
    R("gs4", "none", {"SINGLE_QUERY"}, {"status", "player"}, "gs3", "gs3"),
    R("preys", "none", {}, {"status"}, "qwserver", "prey") }

TrackmaniaEraTypes ==
  { R("tm", "none", {"TCP_CONNECT", "QUERY_ARG"}, {}, "tm", "tm"),
    R("etqws", "none", {}, {"status"}, "qwserver", "etqw"),
    R("hazes", "none", {"SINGLE_QUERY"}, {"status", "player"}, "haze", "haze"),
    R("wics", "none", {"TCP_CONNECT", "QUERY_ARG_REQUIRED", "QUERY_ARG"}, {}, "wic", "wic") }

OpenTTDEraTypes ==
  { R("ottds", "none", {}, {"status", "rule"}, "ottd", "ottd"),
    R("ottdm", "ottds", {"QUERY_ARG"}, {"master"}, "ottdmaster", "ottdmaster"),
    R("fls", "none", {}, {}, "fl", "fl"),
    R("wolfs", "none", {}, {"status"}, "qwserver", "wolf") }

TeamspeakEraTypes ==
  { R("tees", "none", {}, {}, "teeserver", "teeserver"),
    R("ts3", "none", {"TCP_CONNECT", "QUERY_ARG_REQUIRED", "QUERY_ARG"}, {}, "ts3", "ts3"),
    R("bfbc2", "none", {"TCP_CONNECT"}, {}, "bfbc2", "bfbc2"),
    R("ventrilo", "none", {}, {}, "ventrilo", "ventrilo") }

Cube2EraTypes ==
  { R("cube2", "none", {}, {"status"}, "cube2", "cube2"),
    R("mumble", "none", {}, {"status"}, "mumble", "mumble"),
    R("terraria", "none", {"TCP_CONNECT"}, {"status"}, "mumble", "terraria"),
    R("crysis", "none", {"TCP_CONNECT", "QUERY_ARG_REQUIRED", "QUERY_ARG"}, {}, "crysis", "crysis") }

WebTypes ==
  { R("dirtybomb", "none", {}, {}, "dirtybomb", "dirtybomb"),
    R("starmade", "none", {"TCP_CONNECT"}, {}, "starmade", "starmade"),
    R("farmsim", "none", {"TCP_CONNECT", "QUERY_ARG_REQUIRED", "QUERY_ARG"}, {}, "farmsim", "farmsim"),
    R("ksp", "none", {"TCP_CONNECT"}, {}, "ksp", "ksp") }

LastTypes ==
  { R("tf", "none", {"QUERY_ARG"}, {}, "tf", "tf"),
    R("teem", "tees", {}, {}, "teemaster", "teemaster") }

BuiltinTypes ==
  UNION { QuakeTypes, Quake3Types, Quake3GameTypes, HalfLifeEraTypes, TribesEraTypes,
          GamespyEraTypes, DescentEraTypes, Gamespy2EraTypes, QuakeMasterTypes,
          Quake3MasterTypes, PagingMasterTypes, OtherMasterTypes,
          SourceEraTypes, Quake4EraTypes, TrackmaniaEraTypes, OpenTTDEraTypes,
          TeamspeakEraTypes, Cube2EraTypes, WebTypes, LastTypes }

TypeStrings == {row.type : row \in BuiltinTypes}
ServerType == [type \in TypeStrings |-> CHOOSE row \in BuiltinTypes : row.type = type]

\* server->type->flags, and which of the type's packets there are.
HasFlag(type, flag) == flag \in ServerType[type].flags
HasPacket(type, packet) == packet \in ServerType[type].packets
IsMaster(type) == ServerType[type].master # "none"
=============================================================================

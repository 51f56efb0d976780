------------------------------ MODULE Handlers ------------------------------
(***************************************************************************)
(* The functions the type table names: status_query_func, rule_query_func  *)
(* and packet_func of each type, as the engine calls them.                 *)
(***************************************************************************)
EXTENDS FL, GS3, Dialogues, Fragmented, Unreal, OneReply, Masters

Query(s) == ServerType[s.status.type].query
Handler(s) == ServerType[s.status.type].handler

PlainQueries == {"qserver", "tribes", "hl2", "cube2", "mumble"}
HttpQueries == {"ksp", "farmsim"}
MasterQueries == {"qwmaster", "doom3master", "quake4master"}

\* (*server->type->status_query_func)(server); ok tells whether send succeeds.
StatusQueryFunc(s, ok) ==
  CASE Query(s) \in PlainQueries  -> PlainStatusQuery(s, ok)
    [] Query(s) \in HttpQueries   -> KspStatusQuery(s, ok)
    [] Query(s) \in MasterQueries -> MasterStatusQuery(s, ok)
    [] Query(s) = "a2s"       -> A2SStatusQuery(s, ok)
    [] Query(s) = "bfbc2"     -> Bfbc2StatusQuery(s, ok)
    [] Query(s) = "bfris"     -> BfrisStatusQuery(s)
    [] Query(s) = "crysis"    -> CrysisStatusQuery(s, ok)
    [] Query(s) = "dirtybomb" -> DirtybombStatusQuery(s, ok)
    [] Query(s) = "fl"        -> FLStatusQuery(s, ok)
    [] Query(s) = "gamespy_master" -> GamespyMasterStatusQuery(s, ok)
    [] Query(s) = "gps"       -> GpsStatusQuery(s, ok)
    [] Query(s) = "gs2"       -> GS2StatusQuery(s, ok)
    [] Query(s) = "gs3"       -> GS3StatusQuery(s, ok)
    [] Query(s) = "haze"      -> HazeStatusQuery(s, ok)
    [] Query(s) = "ottd"      -> OttdStatusQuery(s, ok)
    [] Query(s) = "ottdmaster" -> OttdMasterStatusQuery(s, ok)
    [] Query(s) = "qwserver"  -> QWStatusQuery(s, ok)
    [] Query(s) \in {"savage", "farcry"} -> EitherStatusQuery(s, ok)
    [] Query(s) = "starmade"  -> StarmadeStatusQuery(s, ok)
    [] Query(s) = "teemaster" -> TeeMasterStatusQuery(s, ok)
    [] Query(s) = "teeserver" -> TeeStatusQuery(s, ok)
    [] Query(s) = "tf"        -> TfStatusQuery(s, ok)
    [] Query(s) = "tm"        -> TmStatusQuery(s, ok)
    [] Query(s) = "tribes2"   -> Tribes2StatusQuery(s, ok)
    [] Query(s) = "tribes2master" -> Tribes2MasterStatusQuery(s, ok)
    [] Query(s) = "ts2"       -> Ts2StatusQuery(s, ok)
    [] Query(s) = "ts3"       -> Ts3StatusQuery(s, ok)
    [] Query(s) = "ut2003"    -> UT2003StatusQuery(s, ok)
    [] Query(s) = "ut2004master" -> UT2004MasterStatusQuery(s)
    [] Query(s) = "ventrilo"  -> VentriloStatusQuery(s, ok)
    [] Query(s) = "wic"       -> WicStatusQuery(s, ok)

\* send_rule_request_packet: rule_query_func if the type has one.
RuleQueryFunc(s, ok) ==
  CASE Query(s) = "a2s" -> A2SRuleQuery(s, ok)
    [] Query(s) = "fl"  -> FLRuleQuery(s, ok)
    [] OTHER            -> RuleQuery(s, ok)

Doom3Handlers == {"doom3", "quake4", "prey", "etqw", "wolf"}
HttpHandlers == {"ksp", "farmsim"}

\* (*server->type->packet_func)(server, m)
PacketFunc(s, m, ok) ==
  CASE Handler(s) \in Doom3Handlers    -> Doom3Packet(s, m)
    [] Handler(s) \in HttpHandlers     -> KspPacket(s, m)
    [] Handler(s) = "a2s"       -> A2SPacket(s, m, ok)
    [] Handler(s) = "bfbc2"     -> Bfbc2Packet(s, m, ok)
    [] Handler(s) = "bfris"     -> BfrisPacket(s, m)
    [] Handler(s) = "crysis"    -> CrysisPacket(s, m, ok)
    [] Handler(s) = "cube2"     -> Cube2Packet(s, m)
    [] Handler(s) = "descent3"  -> Descent3Packet(s, m, ok)
    [] Handler(s) = "descent3master" -> Descent3MasterPacket(s, m, ok)
    [] Handler(s) = "dirtybomb" -> DirtybombPacket(s, m)
    [] Handler(s) = "doom3master" -> Doom3MasterPacket(s, m)
    [] Handler(s) = "eye"       -> EyePacket(s, m)
    [] Handler(s) = "farcry"    -> FarCryPacket(s, m)
    [] Handler(s) = "fl"        -> FLPacket(s, m)
    [] Handler(s) = "gamespy_master" -> GamespyMasterPacket(s, m)
    [] Handler(s) = "ghostrecon" -> GhostReconPacket(s, m)
    [] Handler(s) = "gps"       -> GpsPacket(s, m)
    [] Handler(s) = "gs2"       -> GS2Packet(s, m)
    [] Handler(s) = "gs3"       -> GS3Packet(s, m, ok)
    [] Handler(s) = "halflife"  -> HalfLifePacket(s, m, ok)
    [] Handler(s) = "haze"      -> HazePacket(s, m, ok)
    [] Handler(s) = "hl2"       -> HL2Packet(s, m, ok)
    [] Handler(s) = "mumble"    -> MumblePacket(s, m)
    [] Handler(s) = "ottd"      -> OttdPacket(s, m)
    [] Handler(s) = "ottdmaster" -> OttdMasterPacket(s, m)
    [] Handler(s) = "q"         -> QPacket(s, m, ok)
    [] Handler(s) = "qw"        -> QWPacket(s, m, ok)
    [] Handler(s) = "qwmaster"  -> QWMasterPacket(s, m, ok)
    [] Handler(s) = "ravenshield" -> RavenShieldPacket(s, m)
    [] Handler(s) = "savage"    -> SavagePacket(s, m)
    [] Handler(s) = "starmade"  -> StarmadePacket(s, m)
    [] Handler(s) = "teemaster" -> TeeMasterPacket(s, m)
    [] Handler(s) = "teeserver" -> TeePacket(s, m)
    [] Handler(s) = "terraria"  -> TerrariaPacket(s, m)
    [] Handler(s) = "tf"        -> TfPacket(s, m)
    [] Handler(s) = "tm"        -> TmPacket(s, m, ok)
    [] Handler(s) = "tribes"    -> TribesPacket(s, m)
    [] Handler(s) = "tribes2"   -> Tribes2Packet(s, m, ok)
    [] Handler(s) = "tribes2master" -> Tribes2MasterPacket(s, m)
    [] Handler(s) = "tribesmaster" -> TribesMasterPacket(s, m)
    [] Handler(s) = "ts2"       -> Ts2Packet(s, m)
    [] Handler(s) = "ts3"       -> Ts3Packet(s, m, ok)
    [] Handler(s) = "ut2003"    -> UT2003Packet(s, m, ok)
    [] Handler(s) = "ut2004master" -> UT2004MasterPacket(s, m, ok)
    [] Handler(s) = "ventrilo"  -> VentriloPacket(s, m)
    [] Handler(s) = "wic"       -> WicPacket(s, m)
=============================================================================

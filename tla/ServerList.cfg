SPECIFICATION ListSpec
CONSTANTS
  CmdLines <- MCCmdLines
  Discovered <- MCDiscovered
  GamePorts = {1, 2}
  Types = {"q"}
  MaxIp = 2
  MaxPort = 3
  UIntMax = 7
  HashLength = 2
  MaxServers = 3
  ShowGamePort = FALSE
  Options <- MCOptions
  RunTimeout = TRUE
INVARIANTS
  TypeOK
  ListWellFormed
  CursorsLive
  HashIndexesLive
  ShownOnce
  FinishShows
  SortArrayExact
PROPERTIES
  NoDuplicateAdd
  RangeRegistered
  ImplementsRegistry
  LoopsEnd

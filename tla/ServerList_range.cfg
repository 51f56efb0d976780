SPECIFICATION ListSpec
CONSTANTS
  CmdLines <- UnresolvedCmdLines
  Discovered <- MCDiscovered
  GamePorts = {1, 2}
  Types = {"q"}
  MaxIp = 2
  MaxPort = 3
  UIntMax = 7
  HashLength = 2
  MaxServers = 4
  ShowGamePort = FALSE
  Options <- DefaultOptions
  RunTimeout = TRUE
INVARIANTS
  NoLoop

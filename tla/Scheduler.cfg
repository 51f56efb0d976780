SPECIFICATION SchedulerSpec
CONSTANTS
  CmdLines <- MCCmdLines
  Discovered <- MCDiscovered
  GamePorts <- MCGamePorts
  Types <- MCTypes
  MaxIp = 4
  MaxPort = 3
  UIntMax = 5
  HashLength = 3
  MaxServers = 4
  Options <- MCOptions
  ShowGamePort = FALSE
  RunTimeout = FALSE
  MaxSimultaneous = 2
  NRetries = 2
  TcpTypes = {"tcp"}
  SingleTypes = {"q2"}
  MasterTypes = {"qwm", "q3m"}
  MultiMasters = {"q3m"}
  Q1Types = {"q1"}
  Q3Types = {"q3"}
  BroadcastIps = {4}
  MaxPlayers = 2
  MaxReport = 1
  Scenarios <- MCScenarios
INVARIANTS
  SchedulerTypeOK
  SocketsCounted
  SocketLimit
  PointersLive
  MastersFirst
  CountedOnce
  RetriesBounded
  ReportsUsed
PROPERTIES
  GivesUpLast
  NobodyForgotten
  WorkEnds
  ListSafety

SPECIFICATION QueriesSpec
CONSTANTS
  MaxFragments = 8
  MaxPackets = 8
  NRetries = 2
  Setups <- MCHandlers
INVARIANTS
  AnsweredMeansAll
  TimeoutMeansSilence
  PlayersExact
  PagesWhole
PROPERTIES
  QueryEnds

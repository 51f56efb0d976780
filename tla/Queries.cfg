SPECIFICATION QueriesSpec
CONSTANTS
  MaxFragments = 8
  MaxPackets = 8
  NRetries = 2
  Setups <- MCSetups
INVARIANTS
  QueryTypeOK
  AnsweredMeansAll
  RetriesAreResends
  RepliesWhole
  FragmentsSuffice
  ChallengeFirst
PROPERTIES
  QueryEnds

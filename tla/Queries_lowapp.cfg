SPECIFICATION QueriesSpec
CONSTANTS
  MaxFragments = 8
  MaxPackets = 8
  NRetries = 2
  Setups <- MCLowApp
INVARIANTS
  FragmentsSuffice

SPECIFICATION HostCacheSpec
CONSTANTS
  Hosts <- MCHosts
  Addresses <- MCAddresses
  Resolvers <- MCResolvers
  Files <- MCFiles
  MaxHostNames = 2
  FirstEntries = 100
  MaxEntries = 5
  MaxRuns = 3
INVARIANTS
  HostCacheTypeOK
  AnswersAsResolved
  FileKeeps

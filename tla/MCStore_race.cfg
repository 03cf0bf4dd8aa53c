CONSTANTS
  p1 = p1
  p2 = p2
  Procs = {p1, p2}
  Stamps = {0, 1, 4, 12, 13}
  NewVersion = 13
  MaxOpens = 3
  MaxRows = 2
  Sources <- MCSources
  Dumped = {1, 4, 6, 11, 12, 13}
  MaxRestores = 2
  Symbols <- MCSymbols
  SiteSets <- MCSiteSets
  DoorSets <- MCDoorSets
  DepthBound = 2
  MaxRounds = 2
  TreeFiles <- MCTreeFiles
  Secrets <- MCSecrets
  Indexable <- MCIndexable
  Parsed <- MCParsed
  BuiltIn <- MCBuiltIn
  WrittenRules <- MCWrittenRules
  MaxRules = 2
  CallSites <- MCCallSites
  NoCommit = NoCommit
  Repository <- MCRepository
  Measured <- MCMeasured
  Artifacts <- MCArtifacts
  Reruns <- MCReruns
  Provenances <- MCProvenances
  MaxImports = 2
SPECIFICATION Spec
INVARIANT FileOpensAfterwards
CHECK_DEADLOCK FALSE

CONSTANTS
  w1 = w1
  w2 = w2
  A = A
  B = B
  X = X
  NoText = NoText
  Blank = Blank
  Writers = {w1, w2}
  Texts = {A, B, X}
  Invalid = {X}
  MaxEdits = 1
  MaxJobs = 2
  MaxProposals = 2
  MaxEvidence = 1
  Targets <- MCTargets
  Merged = {"mcp", "digest"}
  Registration = "mcp"
  Absent = Absent
  MaxTouches = 1
  MaxFaults = 2
  Prds = {"d"}
  PrdTexts <- MCPrdTexts
  NoPrd = NoPrd
  CitablePaths = {"p"}
  AnchorsOf <- MCAnchorsOf
  Claimable = {"c"}
  MaxCited = 1
  MaxHandedIn = 2
  MaxAssessed = 2
  MaxChanges = 1
SYMMETRY Symmetry
SPECIFICATION Spec
INVARIANT NoLeftovers
INVARIANT RegistryFollowsTheFile
INVARIANT InstallsAllOrNothing
INVARIANT AssessmentsAreGrounded
PROPERTY WritesWhatWasShown
CHECK_DEADLOCK FALSE

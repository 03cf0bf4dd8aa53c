CONSTANTS
  p1 = p1
  p2 = p2
  A = A
  B = B
  q1 = q1
  q2 = q2
  title = title
  elsewhere = elsewhere
  Blank = Blank
  ann = ann
  bob = bob
  M1 = M1
  M2 = M2
  M3 = M3
  NoModel = NoModel
  People = {p1, p2}
  Prose = {title}
  Required = {title}
  Questions = {q1, q2}
  HandedIn <- MCHandedIn
  Missing = elsewhere
  Words = {A, B}
  MaxRows = 3
  MaxClock = 1
  MaxSetBacks = 1
  Authors = {ann, bob}
  Models = {M1, M2, M3}
  MaxSaves = 4
  f = f
  g = g
  was = was
  names = names
  other = other
  Gone = Gone
  Unhashed = Unhashed
  NoHash = NoHash
  Ghost = Ghost
  Dashed = {other}
  Files = {f, g}
  Lines = {was, names, other}
  Naming = {was, names}
  Originals <- MCOriginals
  Citable <- MCCitable
  MaxLength = 2
  Window = 1
  MaxEdits = 2
  MaxChecks = 1
  Comparable <- MCComparable
  Alike <- MCAlike
  Sketches <- MCSketches
  RegistryIds = {"pay"}
  ModuleNamed <- MCModuleNamed
  Paths <- MCPaths
  WordsOf <- MCWordsOf
  Layers = {"lib"}
  Doors <- MCPaths
  MaxAnswers = 2
  MaxPlans = 1
  MaxWrites = 2
  RowIds = {1, 2, 3, 4}
  Unkept = 9
  Dates = {1, 2}
  Elements = {"a", "b", "c"}
  Matches <- MCMatches
  RuleSets <- MCRuleSets
  Indexes <- MCIndexes
  Traffics <- MCTraffics
  Projects <- MCProjects
SYMMETRY Symmetry
SPECIFICATION Spec
INVARIANT OriginalIsWhatWasServed
INVARIANT ServedIsCurrent
INVARIANT OnlyEscalates
INVARIANT VouchedForIsThere
INVARIANT EditedEvidenceIsReported
INVARIANT PairingIsMutual
INVARIANT NothingIsDropped
INVARIANT PlannedModuleBecomesReal
INVARIANT UnaskedMeansUncited
INVARIANT NoAnswerIsSwallowed
INVARIANT ListsAgree
INVARIANT CyclesAreMutual
PROPERTY RevisionsStand
CHECK_DEADLOCK FALSE

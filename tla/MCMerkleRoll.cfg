SPECIFICATION Spec
CONSTANTS
  MAX_DEPTH = 2
  MAX_BUFFER_SIZE = 2
  Leaf = {a, b}
  MaxVersions = 4
  Prefills = {1, 3}
SYMMETRY Symmetry
INVARIANTS
  TypeOK
  LogsReplayHistory
  ChangeLogsAreHistory
  RightmostProofIsCurrent
  FreshProofsDecide
  OnlyCurrentLeavesAccepted
  FillTakesEmptyLeafOrAppends
PROPERTY
  ImplementsLeafArray

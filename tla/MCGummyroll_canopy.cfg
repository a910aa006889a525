SPECIFICATION GummyrollSpec
CONSTANTS
  MAX_DEPTH = 3
  MAX_BUFFER_SIZE = 4
  CANOPY_DEPTH = 2
  Leaf = {a}
  Key = {k1, k2}
  DefaultKey = DefaultKey
  MaxVersions = 5
  Prefills = {}
SYMMETRY Symmetry
INVARIANTS
  CanopyIsCurrent
  CanopyProofsDecide
  EventsRebuildTree

SPECIFICATION GummyrollSpec
CONSTANTS
  MAX_DEPTH = 2
  MAX_BUFFER_SIZE = 2
  CANOPY_DEPTH = 0
  Leaf = {a}
  Key = {k1, k2}
  DefaultKey = DefaultKey
  MaxVersions = 4
  Prefills = {3, 4}
SYMMETRY Symmetry
INVARIANTS
  GummyrollTypeOK
  CanopyProofsDecide

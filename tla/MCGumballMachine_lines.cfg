CONSTANTS
  MAX_ITEMS = 3
  ExtensionLens = {0, 2}
  CHUNK = 2
  TreeSize = 3
  Key = {"alice"}
  Line <- TwoByteLines
  EncodeMethod = {"UTF8"}
  Price = {1}
  Date = {0, 1}
  Funds = 2
SPECIFICATION Spec
INVARIANT LinesAreStored
CHECK_DEADLOCK FALSE

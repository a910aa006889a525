CONSTANTS
  oak = oak
  elm = elm
  NoTree = NoTree
  Tree = {oak}
  MaxSeq = 3
  MaxInsert = 3
  MaxError = 0
SPECIFICATION Spec
INVARIANT FlaggedUntilChecked
CHECK_DEADLOCK FALSE

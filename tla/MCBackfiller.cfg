CONSTANTS
  oak = oak
  elm = elm
  NoTree = NoTree
  Tree = {oak, elm}
  MaxSeq = 3
  MaxInsert = 3
  MaxError = 2
SPECIFICATION Spec
INVARIANTS TypeOK TreeKeepsRow GapsStayInRange
PROPERTY TreesAreTidied
CHECK_DEADLOCK FALSE

CONSTANTS
  Node = {a, b}
  MaxSeq = 3
  BlockSize = 2
  LateTx = TRUE
  None = None
SPECIFICATION Spec
SYMMETRY NodeSymmetry
INVARIANTS TypeOK StampOfItsFrame RecentTxKept
PROPERTIES ImplementsLastHeard
CHECK_DEADLOCK FALSE

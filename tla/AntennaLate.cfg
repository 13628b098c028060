CONSTANTS
  Node = {a, b}
  MaxSeq = 1
  BlockSize = 2
  LateTx = TRUE
  None = None
SPECIFICATION FairSpec
PROPERTY SendCompletes
CHECK_DEADLOCK FALSE

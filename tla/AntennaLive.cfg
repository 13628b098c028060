CONSTANTS
  Node = {a, b}
  MaxSeq = 3
  BlockSize = 2
  LateTx = FALSE
  None = None
SPECIFICATION FairSpec
PROPERTY DueIsSent

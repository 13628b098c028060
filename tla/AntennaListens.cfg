CONSTANTS
  Node = {a, b, c}
  MaxSeq = 2
  BlockSize = 2
  LateTx = FALSE
  None = None
SPECIFICATION Spec
INVARIANT ListensWhilePolling

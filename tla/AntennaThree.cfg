CONSTANTS
  Node = {a, b, c}
  MaxSeq = 3
  BlockSize = 2
  LateTx = FALSE
  None = None
SPECIFICATION Spec
SYMMETRY NodeSymmetry
CONSTRAINT FewTransmissions
INVARIANTS StampOfItsFrame TxLineBeforeItsEcho
PROPERTY EchoesOnlyGrow

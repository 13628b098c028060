SPECIFICATION FairSpec
CONSTANTS
  DoubleBuffer = FALSE
  AutoAck = FALSE
  Edge = TRUE
  Prompt = FALSE
  Answers = FALSE
  MaxFrames = 2
  MaxTx = 1
PROPERTY LineFalls
CHECK_DEADLOCK FALSE

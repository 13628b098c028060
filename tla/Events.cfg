SPECIFICATION Suite

CONSTANTS
  DoubleBuffer = TRUE
  AutoAck = FALSE
  Edge = FALSE
  Answers = FALSE
  Prompt = FALSE
  MaxFrames = 5
  MaxTx = 3
  Connections <- TwoBoards
  Lines <- LinesOfBoth

INVARIANTS OldestFirst NothingForgotten AsTold RecordedInOrder
PROPERTIES LineFalls WrittenIsRecorded

CHECK_DEADLOCK FALSE

SPECIFICATION Suite

CONSTANTS
  beacon = beacon
  data = data
  fast = fast
  slow = slow
  v1 = v1
  cleared = cleared
  FrameTypes = {beacon}
  Configs <- BothConfigs
  Frames <- TwoFrames
  ResetLen <- Twelve
  Times = {0, 1, 2}
  Plain <- Nothing
  Events <- Nothing
  Values = {v1}
  Cleared = cleared
  Ops <- PmscCalls
  Nested <- ReadingsAndResets
  SleepModes <- NoModeOrOne
  Wakes <- SomeWakes
  Curves <- ThreeCurves
  Delays <- ThreeDelays
  Powers <- TwoPowers
  Drifts <- SomeDrifts
  Channels <- ThreeChannels
  Bits <- ThreeBits
  Writes <- FiveWrites
  Reads <- OneRead
  IsrWrites <- IsrWrite
  IsrReads <- IsrRead
  Ports <- TwoPorts
  Cells <- SomeCells
  BufferSize = 9
  Pointers = {"p", "q"}
  Targets = {"a", "b", "c"}
  MaxPointers = 2
  MaxTests = 2

INVARIANTS AsAsked CopiesExact
INVARIANTS Clocked AsLeft WokenReady SleepsToWake Closest PowerAsAsked AccessesExact WrittenIsKept
INVARIANTS CountsRight PointersRestored WorkflowSound VerdictsRight
PROPERTY BiasInTable

CHECK_DEADLOCK FALSE

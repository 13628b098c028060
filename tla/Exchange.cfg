SPECIFICATION Suite

CONSTANTS
  Low = 4
  High = 44
  Processing = 9
  AntennaDelay = 17
  Ids = {1, 2, 3}
  Start <- Starts
  Flight <- Flights
  Interval = 37
  MaxSent = 4
  MaxRestarts = 1
  ReachAll = FALSE
  Radix = 6
  Participants = 13
  Self = 1
  BlockSize = 4
  NumMax = 64
  Sizes = {90}
  Times = {3279}
  Numbers <- AboutTheWrap

CONSTRAINT Heard

INVARIANTS RoundTrip SizeRespected FrameFits
INVARIANTS ExactIfRight RightIfRecent

CHECK_DEADLOCK FALSE

CONSTANTS
  Order <- Three
  Exchanges = 2
  Interval = 30
  clock_err <- Rates
  clock_offset <- Offsets
  Flight <- Triangle
  MaxLost = 2
SPECIFICATION Spec
INVARIANT RangesFromEveryEcho
CHECK_DEADLOCK FALSE

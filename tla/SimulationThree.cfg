CONSTANTS
  Order <- Three
  Exchanges = 3
  Interval = 30
  clock_err <- Rates
  clock_offset <- Offsets
  Flight <- Triangle
  MaxLost = 5
SPECIFICATION Spec
INVARIANTS TypeOK ActiveExact PassiveExact LosslessComplete NeverRaises
CHECK_DEADLOCK FALSE

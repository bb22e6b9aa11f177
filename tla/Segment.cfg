\* Two segments, nested three deep, scaled windows: between one and three times
\* the minimum, so that halving one can end above, at and below the minimum and
\* give a unit above, at and below its minimum.
CONSTANTS
  MAX_SEGMENT = 2
  MAX_DEPTH = 3
  DEFAULT_REORDER = 4
  MIN_REORDER = 4
  DEFAULT_ADJUST_UNIT = 2
  MIN_ADJUST_UNIT = 1
  UnitDivisor = 3
  MaxWindow = 12
SPECIFICATION Spec
INVARIANTS
  NestingMatches
  WaitsAreSeen
  WindowsUsable

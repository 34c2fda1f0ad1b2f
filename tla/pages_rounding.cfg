SPECIFICATION RequestSpec
CONSTANTS
  PageSize = 4
  Pages = 16
  Mantissa = 4
  Narrow = 6
  Shifts <- MCShifts
  SizeBits = 12
  Counts = {1, 3, 7}
  MaxSize = 2000
INVARIANT BlockHoldsRequest
CHECK_DEADLOCK FALSE

SPECIFICATION Spec
CONSTANTS
  S = 2
  K = 2
  Items = 3
  Bases = {0, 5}
  MaxItems = 12
INVARIANT HeaderFound
CHECK_DEADLOCK FALSE

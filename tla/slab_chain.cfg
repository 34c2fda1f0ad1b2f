SPECIFICATION Spec
CONSTANTS
  S = 2
  K = 3
  Items = 3
  Bases = {0, 6, 9}
  MaxItems = 11
INVARIANTS ListsExact RefcountExact ItemsExact ReportsExact DestroyUnmapsAll
CHECK_DEADLOCK FALSE

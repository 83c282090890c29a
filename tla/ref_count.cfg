SPECIFICATION RefSpec
CONSTANTS
  Handles = {p1, p2, p3, p4, p5, p6}
  INVALID = 15
  MaxConversions = 2
INVARIANTS Lifetime NothingLeaks
CHECK_DEADLOCK FALSE

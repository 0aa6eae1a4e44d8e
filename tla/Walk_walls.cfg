\* Profile 2, in units of 5 cm; the tag at 0.5 m, 1 m and 1.5 m.
SPECIFICATION Spec
CONSTANTS
  Unit = 5
  Where = 2
  Step = 2
  Heights = {10, 20, 30}
INVARIANT SeenMeansOutside
CHECK_DEADLOCK FALSE

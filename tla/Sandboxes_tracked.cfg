SPECIFICATION Spec
CONSTANTS
  x1 = x1  x2 = x2  i1 = i1  k1 = k1  None = None
  Sandboxes = {x1, x2}
  Ids = {i1}
  IdOf <- MCIdOf
  Stops = {k1}
  MaxCrashes = 0
INVARIANTS
  RunningIsTracked
CHECK_DEADLOCK FALSE

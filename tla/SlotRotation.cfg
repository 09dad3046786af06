SPECIFICATION Spec
CONSTANTS
  Owners = {o1}
  Calls = {c1, c2}
  Addresses = {a1}
  Cap = 1
  None = None

INVARIANT LifetimeCap
CHECK_DEADLOCK FALSE

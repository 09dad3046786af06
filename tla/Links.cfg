SPECIFICATION Spec
CONSTANTS
  Owners = {o1, o2}
  Calls = {c1, c2}
  Addresses = {a1}
  Cap = 1
  None = None
SYMMETRY Symmetric
INVARIANTS FreeCap AddressKept RefusedLeavesNothing
CHECK_DEADLOCK FALSE

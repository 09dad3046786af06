SPECIFICATION Spec
CONSTANTS
  Drafts = {d1, d2}
  Threads = {x1, x2}
  Texts = {slot, t1}
  Slot = {slot}
  Nonces = {n1, n2}
  Messages = {m1, m2}
  Handlers = {h1, h2}
  Cap = 1
  None = None
SYMMETRY Symmetry
INVARIANTS ApprovedOnly OneRequestPerTap PostedIsReal ReservationsCapped
CHECK_DEADLOCK FALSE

SPECIFICATION Spec
CONSTANTS
  Txs = {t1}
  Decisions = {d1, d2}
  Callbacks = {c1, c2}
  Revokers = {r1, r2}
  MaxKeys = 2
  None = None
INVARIANTS TypeOK OneGrantPerKey RecordedGone
CHECK_DEADLOCK FALSE

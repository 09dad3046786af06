SPECIFICATION DocumentsSpec
CONSTANTS
  Ops = {o1, o2, o3}
  Files = {f1, f2}
  MaxFiles = 2
  Null = Null
SYMMETRY Symmetric
INVARIANTS DocumentsTypes ScoreIsServed ToldIsReadable
PROPERTIES FileKept
CHECK_DEADLOCK FALSE

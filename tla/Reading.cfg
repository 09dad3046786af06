SPECIFICATION FairReading
CONSTANTS
  Sections = {s1, s2}
  Idle = 1
  Warmup = 1
  Beat = 2
  Longest = 2
  Qualified = 3
  Views = {{}, {s1, s2}}
  MaxScroll = 0
  MaxSessions = 1
  MaxTime = 3
  Null = Null
PROPERTIES ReadingArrives
INVARIANTS ReadingTypes HiddenNeverCounted DwellIsAttention
CHECK_DEADLOCK FALSE

SPECIFICATION FairSpec
CONSTANTS
  Accounts = {a1}
  Subscriptions = {s1}
  Handlers = {h1}
  Runs = {r1}
  Periods = {1, 2}
  Grace = 0
  MaxEvents = 2
  MaxTime = 2
  None = None
INVARIANTS FollowsPolar AckedIsApplied
PROPERTIES CompedUntouched LapseEnds
CHECK_DEADLOCK FALSE

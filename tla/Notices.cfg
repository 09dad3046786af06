SPECIFICATION FairSpec
CONSTANTS
  Shares = {s1, s2, s3}
  People = {ann, owner}
  Owner = owner
  Quiet = {s3}
  Calls = {c1, c2}
  Patience = 1
  Keep = 1
  MaxMails = 3
  MaxTime = 2
  None = None
INVARIANTS OnceForEachShare NobodyMissed
PROPERTIES LedgerKept EverythingSettles
CHECK_DEADLOCK FALSE

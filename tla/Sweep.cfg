SPECIFICATION ReclaimSpec
CONSTANTS
  Owners = {o1, o2}
  Hostnames = {h1}
  Domains = {d1, d2}
  Certs = {c1, c2}
  Stamps = {1, 2, 3, 4}
  Requests = {q1}
  Runs = {m1}
  FailuresToDisconnect = 2
  Ops = {"connect", "check", "settle", "disconnect", "sweep", "tier", "delete", "approve"}
  None = None
  Former = o2
  FormerRow = d2
INVARIANTS SweptIsGone DefaultOwnAndEntitled
PROPERTIES EventuallySwept TwoStrikes RetiredUntouched
CHECK_DEADLOCK FALSE

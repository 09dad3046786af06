SPECIFICATION HostSpec
CONSTANTS
  Owners = {o1, o2}
  Hostnames = {h1}
  Domains = {d1, d2}
  Certs = {c1}
  Stamps = {1, 2, 3, 4}
  Requests = {q1}
  Runs = {}
  FailuresToDisconnect = 2
  Ops = {"connect", "check", "disconnect", "approve"}
  Shares = {s1}
  Visits = {v1}
  HandleLinks = TRUE
  None = None
SYMMETRY Symmetry
INVARIANTS SharesOnOwnDomain TakeoverApproved
PROPERTY ServedOnlyByHolder
CHECK_DEADLOCK FALSE

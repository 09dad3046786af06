SPECIFICATION LinkSpec
CONSTANTS
  Browsers = {b1}
  Emails = {"ann", "ben"}
  Domain <- MCDomain
  Forms <- MCForms
  Requests = {r1}
  Mixes <- MCMixes
  Edits = {"edit", "toggle", "delete", "document", "attachment"}
  Ttl = 1
  Short = 1
  MaxEdits = 2
  MaxTime = 2
  None = None
  Calls = {c1, c2, c3}
  Tabs = {t1, t2}
  Cooldown = 2
  MaxClock = 3
  MaxSaves = 2
  Never = Never
SYMMETRY MCSymmetry
INVARIANTS ServedUnderRules OncePerCooldown OneStray
CHECK_DEADLOCK FALSE

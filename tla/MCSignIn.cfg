SPECIFICATION Spec
CONSTANTS
  Calls = {c1, c2}
  Emails = {e1, e2}
  Threshold = 2
  MaxEvents = 1
  CreateUsers = TRUE
  Tenant = tenant
  Null = null
  Old = old
SYMMETRY Symmetric
INVARIANTS EndedSessionsStayEnded UsedOnce
PROPERTIES LockoutHolds ConnectionsFit
CHECK_DEADLOCK FALSE

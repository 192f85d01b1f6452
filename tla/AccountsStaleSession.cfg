SPECIFICATION Spec
CONSTANTS
  r1 = r1
  r2 = r2
  r3 = r3
  r4 = r4
  Admins = {ann}
  Passwords = {short, long}
  Unhashable = {long}
  Requests = {r1, r2, r3, r4}
  None = None
  MailConfigured = TRUE
  StatementsMayFail = FALSE
INVARIANTS
  SessionsFollowPassword
\* An idle server that receives no more requests rests
CHECK_DEADLOCK FALSE

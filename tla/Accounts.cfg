\* Two operators, four requests, faults allowed.
SPECIFICATION Spec
CONSTANTS
  r1 = r1
  r2 = r2
  r3 = r3
  r4 = r4
  Admins = {ann, bob}
  Passwords = {short, long}
  Unhashable = {long}
  Requests = {r1, r2, r3, r4}
  None = None
  MailConfigured = TRUE
  StatementsMayFail = TRUE
SYMMETRY RequestSymmetry
INVARIANTS
  IInv
  LinkSpentOnce
  StaleSessionsCrossed
  RevokedOnSuccess
PROPERTIES
  OnlyEntitledWrites
  LinksArePromised
\* An idle server that receives no more requests rests
CHECK_DEADLOCK FALSE

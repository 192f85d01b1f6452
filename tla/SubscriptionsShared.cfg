\* Two users whose apps can both present one subscription.
SPECIFICATION Spec
CONSTANTS
  yui = yui
  ken = ken
  tx = tx
  r1 = r1
  r2 = r2
  r3 = r3
  Users = {yui, ken}
  Originals = {tx}
  Devices <- Shared
  Requests = {r1, r2, r3}
  None = None
  StatementsMayFail = TRUE
  MaxSigned = 2
  MaxTime = 2
SYMMETRY RequestSymmetry
INVARIANTS TypeOK WebhookReachesOwner ActiveWasSigned InSync
PROPERTIES AccessIsPromised
\* Every request may have been answered: nothing is left to do.
CHECK_DEADLOCK FALSE

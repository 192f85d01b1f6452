\* Payloads of one subscription, handled one at a time in any order.
SPECIFICATION SerialSpec
CONSTANTS
  yui = yui
  ken = ken
  tx = tx
  r1 = r1
  r2 = r2
  r3 = r3
  Users = {yui}
  Originals = {tx}
  Devices <- Only
  Requests = {r1, r2, r3}
  None = None
  StatementsMayFail = FALSE
  MaxSigned = 2
  MaxTime = 2
PROPERTIES LatestStateWins
\* Every request may have been answered: nothing is left to do.
CHECK_DEADLOCK FALSE

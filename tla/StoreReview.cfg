\* Three stores, one partner, faults allowed.
SPECIFICATION Spec
CONSTANTS
  s1 = s1
  s2 = s2
  s3 = s3
  Emails = {"mei"}
  Items = {"udon"}
  Requests = {s1, s2, s3}
  None = None
  LongPasswords = TRUE
  StatementsMayFail = TRUE
  MaxClock = 2
SYMMETRY RequestSymmetry
INVARIANTS TypeOK NoDangling PartnersKeepStores StampImpliesApproved
PROPERTIES StampKept MenuScoped
\* Every store may have been created and deleted again: nothing is left to do.
CHECK_DEADLOCK FALSE

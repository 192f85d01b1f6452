\* Two requests, each an import or a discovery, with faults, stores edited and deleted.
SPECIFICATION FairSpec
CONSTANTS
  r1 = r1
  r2 = r2
  Candidates <- Named
  Wards <- Shibuya
  Pages <- AllPages
  Web <- TheWeb
  Searches <- SomeSearches
  Files <- SomeFiles
  Forms <- SomeForms
  Requests = {r1, r2}
  None = None
  Limit = 2
  MaxFetches = 3
  MaxErrors = 1
  StatementsMayFail = TRUE
INVARIANTS TypeOK NoDuplicateDrafts BatchesBringNew
PROPERTIES BatchesEnd
\* Every request may have been answered and every store deleted.
CHECK_DEADLOCK FALSE

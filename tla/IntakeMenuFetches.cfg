\* One discovery over the guide and its entries, nothing fails.
SPECIFICATION FairSpec
CONSTANTS
  r1 = r1
  r2 = r2
  Candidates <- Named
  Wards <- Shibuya
  Pages <- AllPages
  Web <- TheWeb
  Searches <- SomeSearches
  Files <- SomeFiles
  Forms <- SomeForms
  Requests = {r1}
  None = None
  Limit = 2
  MaxFetches = 3
  MaxErrors = 1
  StatementsMayFail = FALSE
INVARIANTS FetchesAreBounded
CHECK_DEADLOCK FALSE

\* Three stores in two wards, pages of two, one walk, one request for a store.
SPECIFICATION FairSpec
CONSTANTS
  Stores = {1, 2, 3}
  Wards = {"Shibuya", "Minato"}
  Walks = {"walk"}
  Users = {"yui"}
  Asks = {"ask"}
  PageLimit = 2
  None = None
INVARIANTS TypeOK AnswersAreDue
PROPERTIES NothingTwice ListIsPromised WalksEnd
\* Every store may have been deleted and every request answered.
CHECK_DEADLOCK FALSE

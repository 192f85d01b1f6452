\* Three stores, batches of two, a backfill and a lookup.
SPECIFICATION RepeatedSpec
CONSTANTS
  Stores = {1, 2, 3}
  Addresses = {"mitaka", "nishiku", "ichikawa", "blank"}
  Title <- CommonTitles
  Centroids = {"nishiku", "ichikawa"}
  Marked = {"ichikawa"}
  Blank = {"blank"}
  Asked = {"mitaka", "blank"}
  Backfills = {"backfill"}
  Lookups = {"lookup"}
  Limit = 2
  MaxChanges = 1
  None = None
INVARIANTS TypeOK PinsAreVouched PinsAreOwn TurnsAreSpaced
PROPERTIES HandPinsStay RequestsEnd QueueAdvances
\* Nothing may be left to place and nobody need ask for anything.
CHECK_DEADLOCK FALSE

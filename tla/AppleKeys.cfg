\* Two verifications at a time, two keys, two rotations, two failures.
SPECIFICATION FairSpec
CONSTANTS
  Verifiers = {"v1", "v2"}
  Keys = {"k1", "k2"}
  TTL = 2
  MaxRotations = 2
  MaxFaults = 2
  None = None
INVARIANTS TypeOK PublishedKeysPass
PROPERTIES WithdrawnKeysFade VerificationsEnd

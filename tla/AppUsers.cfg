\* Two persons, one with an address that is also registered with a password.
SPECIFICATION FairSpec
CONSTANTS
  Clients = {"device1", "device2"}
  Persons = {"p1", "p2"}
  Emails = {"aiko", "Aiko", "ben", "relay1", "relay2"}
  Lower <- MCLower
  Address <- MCAddress
  Relay <- MCRelay
  Passwords = {"pw1", "pw2"}
  MaxFaults = 2
  None = None
INVARIANTS TypeOK SessionsAreOwn
PROPERTIES GetsIn

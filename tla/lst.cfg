CONSTANTS
  NameSize = 4
  MaxClients = 3
  Characters = {"i", "p", "b", "o", "y", ",", "0"}
  Comma = ","
  Nul = "0"
  Addresses <- ShortAddresses
  Users <- SomeUsers
SPECIFICATION Spec
INVARIANTS StaysInside ShowsTheList
CHECK_DEADLOCK FALSE

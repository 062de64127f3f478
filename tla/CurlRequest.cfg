SPECIFICATION FairSpec
CONSTANTS
  Methods = {"GET", "POST", "SYNC"}
  Trusts = {"SYSTEM", "ULTIMATE", "APPLICATION"}
  Stores = {TRUE, FALSE}
  Limits = {2, 7}
  SizeMax = 7
  ItemSizes = {1, 4}
  ItemCounts = {0, 1, 2}
  MaxConnections = 2
  Faults = {"setopt"}
INVARIANTS
  FreeWaitsForWorker
  NoDataFromUntrustedPeer
PROPERTIES
  ResultIsFrozen
  StoredWithinLimit
  CallsComplete
CHECK_DEADLOCK FALSE

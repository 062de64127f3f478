SPECIFICATION Spec
CONSTANTS
  Methods = {"POST"}
  Trusts = {"SYSTEM"}
  Stores = {FALSE}
  Limits = {2, 7}
  SizeMax = 7
  ItemSizes = {1, 4}
  ItemCounts = {0, 1, 2}
  MaxConnections = 2
  Faults = {}
INVARIANTS
  NoUseAfterFree

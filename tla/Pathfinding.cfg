SPECIFICATION MCSpec
CONSTANTS
  State = {1, 2, 3, 4}
  Start = 1
  NONE = 0
  UINT64_MAX = 100
  Adapters <- MCAdapters
  Options <- MCOptions
  Faults = {}
INVARIANTS
  RoutesAreReal
  NoPathIsTrue
  FoundIsOptimal
  BudgetsHold
  PartialIsBest
PROPERTIES
  SearchEnds

SPECIFICATION LibSpec
CONSTANTS
  Exps = {0, 1}
  ExpandSize <- SmallPools
  MaxBlocks = 5
  String <- SomeStrings
  Slot <- Slots4
  Entry = {1, 2, 3, 4}
  NULL = NULL
  NOWHERE = NOWHERE
  Colliding = {a, b}
  Apart = {c, d}
  MaxHeld = 2
  Place <- ThreePlaces
  StartPlace = 1
  Successors <- SmallGraphs
  Budgets <- SmallBudgets
  Api <- SomeApis
  DependsOn <- Depends
  Imports <- ImportsOf
  MaxImports = 2
  Texts <- BufferTexts
  MaxBuf = 2
  MaxText = 5
  Alphabet = {"/", ".", "a", " ", ":"}
  MaxLength = 5
  MaxKeys = 6
  Width = 3
  MaxNumber = 70
  RoomAtFirst = 1
  MaxLines = 3
  Worker = {"w1", "w2"}
  Tagged = {1, 2}
  MaxVersion = 3
  MaxRequests = 3
  MaxCrashes = 1
  MaxGiven = 3
  Definitions <- OptionDefinitions
  Tokens <- OptionTokens
  Files <- ConfigFiles
  Contents <- FileContents
  Categories = {"NONE", "A"}
INVARIANTS
  PoolIsExact
  ReachableIsExact
  InternedOnce
  BufferHoldsText
  FunctionsAgree
  DependenciesOutlive
  LinesHandledInOrder
  CacheIsSound
  OptionsAreSound
PROPERTIES
  FrontierImplementsQueue
SYMMETRY SameHash
CHECK_DEADLOCK FALSE

SPECIFICATION Spec
CONSTANTS
  Radix = 4
  PayloadMax = 9
  Sizes = {0, 1, 4}
  Limits = {3, 6, 12}
  Fields <- MCFields
  MaxFields = 3
  Reader = {r1, r2}
  Blocks = {"whole", "part"}
  BlockLen <- MCBlockLen
  MaxScopes = 2
  MaxTake = 2
  PathSize = 3
  DigestSize = 2
  MaxSize = 300
  AssetSizes = {0, 1, 300, 301}
  Flags = {0, 1, 2, 3}
  Statuses = {0, 1, 2, 3, 4, 5}
  WidthLimit = 2
  HeightLimit = 1
  MaxLevels = 2
  MaxCells = 1
INVARIANTS
  PacketIsSound
  VerdictIsRight
  CodecsAgree
PROPERTIES
  FailureSticks
SYMMETRY ReaderSymmetry
CHECK_DEADLOCK FALSE

SPECIFICATION Spec
CONSTANTS
  Order <- TwoProcesses
  PacketLen = 2
  PipeSize = 1
  MaxSends = 2
  MaxStarts = 2
  MaxOutput = 1
  Restarts = {TRUE}
  Calls = {"stop", "free", "deinit"}
  CallbackCalls = {"send", "start"}
INVARIANTS
  NothingDroppedOrRepeated
  ChildrenAreKnown

SPECIFICATION Spec
CONSTANTS
  Order <- OneProcess
  PacketLen = 2
  PipeSize = 3
  MaxSends = 3
  MaxStarts = 1
  MaxOutput = 0
  Restarts = {}
  Calls = {}
  CallbackCalls = {}
INVARIANTS
  ChildReadsPackets

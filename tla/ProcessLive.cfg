SPECIFICATION FairSpec
CONSTANTS
  Order <- OneProcess
  PacketLen = 2
  PipeSize = 3
  MaxSends = 2
  MaxStarts = 2
  MaxOutput = 1
  Restarts = {TRUE, FALSE}
  Calls = {"stop", "deinit"}
  CallbackCalls = {"send"}
PROPERTIES
  ChildIsServed

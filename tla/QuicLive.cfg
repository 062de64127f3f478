SPECIFICATION LiveSpec
CONSTANTS
  Stream = {s1, s2, s3}
  NONE = NONE
  Size = 2
  PendingMax = 1
  Peer = {"dup"}
  IdleTimeout = 3
  Maximum = 9
  NEVER = 9
  MaxQueued = 2
PROPERTIES
  StreamsAreServed
  NothingIsMissed
CHECK_DEADLOCK FALSE

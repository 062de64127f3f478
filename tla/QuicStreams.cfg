SPECIFICATION Spec
CONSTANTS
  Stream = {s1, s2, s3}
  NONE = NONE
  Size = 2
  PendingMax = 2
  Peer = {"bad", "dup", "reset"}
INVARIANTS
  StreamsAreSound
SYMMETRY StreamSymmetry

SPECIFICATION Spec
CONSTANTS
  Address = {a1, a2, a3}
  NoAddress = NoAddress
  Capacity = 2
  MaxJobs = 2
  PunchCount = 2
  Interval = 1
  DrainMax = 1
  Deadline = 1
  BufferParts = 2
  LanAddress = {a3}
  MaxQueue = 1
  MaxTime = 1
INVARIANTS
  ListIsSound
  CandidatesArePunched
PROPERTIES
  SilenceEndsCall

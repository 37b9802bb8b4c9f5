CONSTANTS
  NumChannels = 2
  MaxPct = 1
  FirmwarePct = 0
  Deadband = 1
  AuthorityTolerance = 0
  FailureLimit = 2
  Writable <- AllChannels
  Faults <- HardwareFaults
  Timed <- FirstChannel
  Shadow <- NoChannel
SPECIFICATION FairSpec
INVARIANTS
  HeldFanIsRecorded
  CleanExitRestores
  LoopStartsWithCleanSidecar
PROPERTIES
  CustodySpec
  AbandonedFanIsReleased

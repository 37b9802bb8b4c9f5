CONSTANTS
  NumChannels = 2
  MaxPct = 1
  FirmwarePct = 0
  Deadband = 1
  AuthorityTolerance = 0
  FailureLimit = 1
  Writable <- AllChannels
  Faults <- SidecarFaults
  Timed <- FirstChannel
  Shadow <- NoChannel
SPECIFICATION FairSpec
INVARIANTS
  TypeOK
  MissingRecordIsFlagged
PROPERTY
  StopEndsTheProcess

CONSTANTS
  NumChannels = 1
  MaxPct = 1
  FirmwarePct = 0
  Deadband = 1
  AuthorityTolerance = 0
  FailureLimit = 2
  Writable <- AllChannels
  Faults <- TornWrites
  Timed <- NoChannel
  Shadow <- NoChannel
SPECIFICATION Spec
INVARIANTS
  CleanExitRestores

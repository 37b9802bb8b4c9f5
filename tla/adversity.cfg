CONSTANTS
  NumChannels = 2
  MaxPct = 1
  FirmwarePct = 0
  Deadband = 1
  AuthorityTolerance = 0
  FailureLimit = 1
  Writable <- FirstChannel
  Faults <- FaultKinds
  Timed <- FirstChannel
  Shadow <- NoChannel
SPECIFICATION Spec
INVARIANTS
  CleanCacheCoversDisk
  CleanShutdownReleases
PROPERTY
  LifecycleSpec

CONSTANTS
  None = None
  p1 = p1
  p2 = p2
  w1 = w1
  w2 = w2
  w3 = w3
  w4 = w4
  c1 = c1
  Worker <- FourWorkers
  Client <- OneClient
  Profile <- TwoProfiles
  Rejected <- NoProfile
  Commands <- AllCommands
  Faults <- FaultKinds
SPECIFICATION Spec
SYMMETRY Symmetry
INVARIANTS
  UnprovenProfileCanRevert
  NoStaleCycleRequest
PROPERTIES
  StoppedMeansStopped
  OnlyStopEndsTheRuntime
  LifecycleSpec

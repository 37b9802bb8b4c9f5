CONSTANTS
  None = None
  p1 = p1
  p2 = p2
  w1 = w1
  w2 = w2
  w3 = w3
  w4 = w4
  c1 = c1
  Worker <- ThreeWorkers
  Client <- OneClient
  Profile <- TwoProfiles
  Rejected <- OneProfile
  Commands <- NoRestart
  Faults <- WorkerFaults
SPECIFICATION FairSpec
PROPERTIES
  StopEndsTheRuntime
  CommittedSwitchEnds

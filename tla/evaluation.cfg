CONSTANTS
  MaxTemp = 2
  Full = 3
  SensorLimit = 3
  FailureLimit = 1
  ProbeBackoff = 2
  ReassertCooldown = 1
  Horizon = 2
  Configs <- Blended
SPECIFICATION FairSpec
PROPERTIES
  SafeModeFollowsTheInput
  SlewIsBounded
  SafeModeReachesFull
  CoolingReachesDemand

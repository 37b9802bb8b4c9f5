CONSTANTS
  Home = {"first", "second"}
  Output = {"fan", "pump"}
  Profile = {desk}
  Control = control
  Contents <- Moved
  Machines <- TwoMachines
  MaxEdits = 0
  Missing = Missing
SPECIFICATION ConfigSpec
PROPERTY
  StopReachesTheWorker
CHECK_DEADLOCK FALSE

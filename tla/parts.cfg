CONSTANTS
  MaxTemp = 2
  Full = 3
  SensorLimit = 3
  FailureLimit = 1
  ProbeBackoff = 2
  ReassertCooldown = 1
  Horizon = 2
  Configs <- PidConfigs
  MaxDt = 2
  LbTemp <- Temps
  LbCpu <- CpuBand
  LbGpu <- GpuBand
  MaxDebt = 4
  DebtRise = 1
  DebtFall = 1
  BoostRise = 1
  BoostFall = 1
  Spacing = 3
  LbChannels <- TwoStages
  Wrap <- Widths
  MaxRate <- Rates
  CadenceTime = 1
  DtCap = 2
  Ceiling = 1
  RatioCap = 1
  OpenAttempts = 2
  MaxId = 2
  NoValue = NoValue
  Cores = 2
  MaxSweeps = 3
  Degrees = {1, 2}
  Loads = {l1, l2}
  Refresh = 2
  Undefined = Undefined
  Rejected = Rejected
  Unread = Unread
  NumChannels = 3
  MaxPct = 1
  FirmwarePct = 1
  Writable = {1, 2}
  Faults <- OneShotFaults
  NumSteps = 2
  Poll = 2
  Floor = 1
  Relax = 1
  StatusEvery = 2
  StaleAfter = 5
  MaxWork = 1
  HbFaults <- AllHbFaults
  StaleLimit = 3
  PollTime = {1, 2}
  HasMirror = TRUE
  Home = {"first"}
  Output = {"fan", "pump"}
  Profile = {desk, quiet}
  Control = control
  Contents <- Shared
  Machines <- TwoMachines
  MaxEdits = 1
  Missing = Missing
SPECIFICATION PartsSpec
INVARIANTS
  NoWindup
  ReportedWindowsAreTrue
  RowsSpanOneSweep
  InputsAreOfThisTick
  SuccessMeansReleased
  SoundWorkerIsSpared
  UnflaggedDataIsFresh
  DrivenWithinTheMachine
  WorkerRunsTheActiveProfile
PROPERTIES
  RunCustodySpec
  ActivationIsEarned
  LowBandIsReleased
  SilentWorkerIsReplaced
CHECK_DEADLOCK FALSE

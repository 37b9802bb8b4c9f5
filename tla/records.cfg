CONSTANTS
  MaxChunks = 2
  MaxRows = 2
  FlushInterval = 3
  ManifestInterval = 2
  Missing = Missing
  LogFaults <- FailingArchive
  Kinds <- AllJobs
  DbFaults <- AnyFault
  EvProcs = {worker, command}
  Logs = {main}
  LogOf <- SharedLog
  Rotators = {worker}
  Event = {e1, e2}
  MaxArchives = 1
  EvFaults <- AllEvFaults
  NoFile = NoFile
SPECIFICATION RecordsSpec
INVARIANTS
  RunningManifestIsCovered
  OneRunPerSession
  EndedRunsAreComplete
  OldReportsAreCleared
  EventsAreKept
CHECK_DEADLOCK FALSE

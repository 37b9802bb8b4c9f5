CONSTANTS
  MaxChunks = 2
  MaxRows = 1
  FlushInterval = 1
  ManifestInterval = 1
  Missing = Missing
  LogFaults <- NoFaults
  Kinds <- Routine
  DbFaults <- NoFaults
  EvProcs = {worker, command}
  Logs = {main}
  LogOf <- SharedLog
  Rotators = {worker}
  Event = {e1}
  MaxArchives = 1
  EvFaults <- NoFaults
  NoFile = NoFile
SPECIFICATION RecordsSpec
PROPERTY
  PrunedChunksAreAbsorbed
CHECK_DEADLOCK FALSE

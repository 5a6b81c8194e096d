SPECIFICATION NightlySpec
CONSTANTS
  a = a
  b = b
  cron = cron
  admin = admin
  server = server
  worker = worker
  NoSource = NoSource
  NoCaller = NoCaller
  NoState = NoState
  Sources = {"tor"}
  CustomFeeds = {}
  Values <- AB
  Contents <- Growing
  Processes = {server, worker}
  Callers = {cron}
  Administrators = {}
  ProcessOf <- RunsIn
  IdChunk = 1
  BatchSize = 1
  MaxRows = 8
  Scenarios <- CutShort
INVARIANTS
  NeverAbsent

SPECIFICATION NightlySpec
CONSTANTS
  a = a
  b = b
  cron = cron
  admin = admin
  server = server
  worker = worker
  NoSource = NoSource
  NoCaller = NoCaller
  NoState = NoState
  Sources = {"tor", "mine"}
  CustomFeeds = {"mine"}
  Values <- AB
  Contents <- Growing
  Processes = {server, worker}
  Callers = {cron, admin}
  Administrators = {admin}
  ProcessOf <- RunsIn
  IdChunk = 1
  BatchSize = 1
  MaxRows = 8
  Scenarios <- Everything
INVARIANTS
  OneSyncAtATime
  SwapExact
  NoGuardLeftBehind
  SkipIsRightLocked
  NeverAbsentUncut
  RemovedFeedLeaves
PROPERTIES
  Converges

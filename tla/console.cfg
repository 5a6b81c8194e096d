SPECIFICATION Spec
CONSTANTS
  r1 = r1
  r3 = r3
  Processes = {"server", "worker"}
  Readers = {r1, r3}
  HomeOf <- Home
  Forms <- SomeForms
  Bodies <- SomeBodies
  Ttl = 2
  QueryTime = 1
  LastTick = 5
  MaxSaves = 1
  MaxQueryFaults = 1
  Hosting = {"server", "worker"}
  Server = "server"
  LicenceKeys = {k1, k2}
  EnvKeys = {k1, none}
  NoKey = none
  Requests = {q1, q2}
  MaxLicenceTrouble = 2
  Shops = {"shop", "outlet"}
  QueueCases = {"case 1", "case 2"}
  MaxAsked = 2
  Attempts = 2
  MaxClicks = 2
  PageOrders = {o1, o2}
  NoOrder = none
  MaxLoads = 2
  Admins = {"amy"}
  Hooks = {"slack"}
  MaxRewrites = 1
  Stories = {"memo", "licence", "claim", "update", "queue", "texts", "edits", "panel", "messages"}
INVARIANTS
  StaleForBoundedTime
  ThresholdsOrdered
  SurvivesRestart
  ScreensKeepTrack
  ToldWhatHappened
PROPERTIES
  WordsStayInChannel
  PollsEnd
  EachAnswers
CHECK_DEADLOCK FALSE

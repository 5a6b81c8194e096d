SPECIFICATION Spec
CONSTANTS
  q1 = q1
  q2 = q2
  d1 = d1
  d2 = d2
  V4Bits = 3
  OctetBits = 2
  V6Bits = 5
  MappedHigh = 3
  DotInsensitive <- DotFree
  Emails <- AllEmails
  Clients <- AllClients
  Ranges <- AllRanges
  Rejections = {q1, q2}
  EmailOf <- RejectedMail
  ClientOf <- RejectedFrom
  FeedRows <- FromFeeds
  MaxRows = 3
  RangeLimit = 2
  Crowd <- SomeRanges
  MaxListFaults = 1
  Orders = {1, 2, 3}
  FewOrders = {1, 2}
  HostsOf <- EitherForm
  FailingHosts <- PlainHost
  MailboxesOf <- FirstOrOwn
  Limits <- TwoAnHour
  Hour = 1
  Day = 2
  GuardMemory = 1
  BurstTicks = 1
  FailureTicks = 1
  MaxFailures = 1
  Askers = {d1, d2}
  Ips = {"ip"}
  Domains = {"mail", "post"}
  Capacity = 2
  NegativeTtl = 2
  IntelTtl = 2
  MxTtl = 2
  MxCapacity = 1
  LastMoment = 2
  Stories = {"lists", "ranges", "bursts", "failures", "addresses", "domains", "scoring", "cards"}
  Payments <- UpToTwo
  Resolvers <- HostSays
  Channel = "shop"
  Configs <- BothConfigs
  Typed <- ListedMails
  TypedIps <- ListedIps
  MaxDoubts = 3
INVARIANTS
  AliasesShareFate
  StoppedAtTheDoor
  ListedRangesFound
  RateBounded
  ChecksWereTold
PROPERTIES
  BurstCaught
  FailuresCounted
  WorseNeverHelps
  OnlyWhatWasTold
  LookupsReturn
CHECK_DEADLOCK FALSE

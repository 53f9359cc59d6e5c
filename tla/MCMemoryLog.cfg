SPECIFICATION FairSpec
CONSTANTS
  t1 = t1
  t2 = t2
  c1 = c1
  c2 = c2
  x = x
  y = y
  NoOne = NoOne
  Rewritten = Rewritten
  NoChain = NoChain
  BadEvent = BadEvent
  BadSnapshot = BadSnapshot
  Collisions = {}
  Callers = {t1, t2}
  Chains = {c1, c2}
  Contents = {x}
  Unstable = {x}
  HasBus = TRUE
  Ops = {"Record", "SubscriberRecord", "RecordChange", "Verify", "Query", "GetEntry", "LatestEntryID", "Close"}
  Ranges <- WholeRanges
  Filters <- SomeFilters
  MaxCalls = 3
INVARIANTS
  TypeOK
  ChainsIntact
  EveryEntryOwned
  PublishedOnce
  AlarmsOnlyOnChange
  ReadsSeeAcked
PROPERTIES
  QuiescentAfterClose
  ImplementsAuditLog
  EveryCallReturns

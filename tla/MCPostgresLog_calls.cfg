SPECIFICATION FairSpec
CONSTANTS
  t1 = t1
  t2 = t2
  c1 = c1
  c2 = c2
  x = x
  NoChain = NoChain
  BadEvent = BadEvent
  BadSnapshot = BadSnapshot
  Collisions = {}
  Callers = {t1, t2}
  Chains = {c1}
  Contents = {x}
  Unstable = {}
  HasBus = TRUE
  Ops = {"RecordChange", "SubscriberRecord", "Verify", "Query", "GetEntry", "LatestEntryID", "Close"}
  Environments <- Faulty
  MaxConns = 1
  Ranges <- WholeChain
  Filters <- FirstMatch
  MaxCalls = 3
INVARIANTS
  VerifyFromStartValid
  ReadsSeeAcked
PROPERTIES
  EveryCallReturns
  CloseReturns

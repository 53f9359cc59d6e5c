SPECIFICATION FairSpec
CONSTANTS
  t1 = t1
  t2 = t2
  c1 = c1
  x = x
  NoChain = NoChain
  BadEvent = BadEvent
  BadSnapshot = BadSnapshot
  Collisions = {}
  probeDocID = probeDocID
  Callers = {t1, t2}
  Chains = {c1}
  Contents = {x}
  Unstable = {x}
  HasBus = FALSE
  Ops = {"Record", "Verify", "Query", "LatestEntryID", "Close"}
  Environments <- AllDeployments
  Ranges <- WholeChain
  Filters <- FirstMatch
  MaxCalls = 3
INVARIANTS
  TypeOK
  ChainsIntact
  StateAgreesWithEntries
  RecordedByCommit
  HealthyCallsSucceed
  ClientReleased
  ReadsSeeEntries
PROPERTIES
  ImplementsAuditLog
  EveryCallReturns

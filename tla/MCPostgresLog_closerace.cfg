SPECIFICATION Spec
CONSTANTS
  t1 = t1
  t2 = t2
  c1 = c1
  c2 = c2
  x = x
  NoChain = NoChain
  BadEvent = BadEvent
  BadSnapshot = BadSnapshot
  Collisions = {}
  Callers = {t1, t2}
  Chains = {c1, c2}
  Contents = {x}
  Unstable = {}
  HasBus = TRUE
  Ops = {"Record", "Close"}
  Environments <- HealthyServer
  MaxConns = 2
  Ranges <- NoRanges
  Filters <- NoFilters
  MaxCalls = 3
INVARIANTS
  InFlightCallsSucceed

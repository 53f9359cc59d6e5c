SPECIFICATION Spec
CONSTANTS
  t1 = t1
  t2 = t2
  c1 = c1
  c2 = c2
  x = x
  y = y
  NoOne = NoOne
  Rewritten = Rewritten
  NoChain = NoChain
  BadEvent = BadEvent
  BadSnapshot = BadSnapshot
  Collisions = {}
  Callers = {t1, t2}
  Chains = {c1}
  Contents = {x, y}
  Unstable = {}
  HasBus = FALSE
  Ops = {"Record", "Verify", "Close"}
  Ranges <- SubRanges
  Filters <- NoFilters
  MaxCalls = 4
INVARIANTS
  VerifySubrangeValid

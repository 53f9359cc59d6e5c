SPECIFICATION Spec
CONSTANTS
  t1 = t1
  t2 = t2
  c1 = c1
  x = x
  NoChain = NoChain
  BadEvent = BadEvent
  BadSnapshot = BadSnapshot
  Collisions = {}
  probeDocID = probeDocID
  Callers = {t1, t2}
  Chains = {probeDocID}
  Contents = {x}
  Unstable = {x}
  HasBus = FALSE
  Ops = {"Record", "Close"}
  Environments <- LossyDeployment
  Ranges <- WholeChain
  Filters <- FirstMatch
  MaxCalls = 3
INVARIANT
  ProbeNeverCollides

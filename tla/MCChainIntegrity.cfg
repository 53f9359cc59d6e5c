SPECIFICATION Spec
CONSTANTS
  a = a
  a1 = a1
  x = x
  y = y
  z = z
  NoChain = NoChain
  BadEvent = BadEvent
  BadSnapshot = BadSnapshot
  Collisions <- SomeCollisions
  Chains = {a, a1}
  Contents = {x, y, z}
  IDBits = 5
  Positions <- SomePositions
  MaxRecords = 3
  MaxDamages = 2
CHECK_DEADLOCK FALSE
SYMMETRY Symmetric
INVARIANTS
  TypeOK
  ValidMeansAsRecorded
  BrokenAtFirstDamage
  DamageContained
  PrefixesAgree
  InteriorRemovalDetected
PROPERTIES
  RecordHidesNothing

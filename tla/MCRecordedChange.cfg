SPECIFICATION Spec
CONSTANTS
  Snapshots <- SomeSnapshots
  ByteOrder <- Sorted
  LengthOrder <- ByLength
  Exponents <- WithExponent
  Micro = 2
  Milli = 4
  Times = {3, 4}
  Strings <- SomeStrings
  Arguments <- SomeArguments
CHECK_DEADLOCK FALSE
INVARIANTS
  DiffExact
  StoredEntryVerifies
  AlteredColumnDetected

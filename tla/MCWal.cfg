CONSTANTS
  v = v
  Value = {v}
  Noop = Noop
  SnapshotEvery = 3
  MaxIndex = 7
  MaxCrashes = 4
  MaxTears = 2
SPECIFICATION Spec
CHECK_DEADLOCK FALSE
INVARIANTS RecoveredIsPrefix UntornKeepsAcked

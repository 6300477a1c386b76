CONSTANTS
  n1 = n1
  n2 = n2
  n3 = n3
  v = v
  First = n1
  Lagging = n3
  Node = {n1, n2, n3}
  Value = {v}
  Noop = Noop
  None = None
  SnapshotEvery = 1
  MaxTerm = 1
  MaxIndex = 3
  MaxRestarts = 0
  MaxHeartbeats = 2
SPECIFICATION LaggardSpec
VIEW View
CHECK_DEADLOCK FALSE
INVARIANTS ReplicasAgree

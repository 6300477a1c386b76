CONSTANTS
  n1 = n1
  n2 = n2
  n3 = n3
  v = v
  Node = {n1, n2}
  Value = {v}
  Noop = Noop
  None = None
  SnapshotEvery = 2
  MaxTerm = 1
  MaxIndex = 3
  MaxRestarts = 0
  MaxHeartbeats = 1
SPECIFICATION Spec
SYMMETRY Symmetry
VIEW View
CHECK_DEADLOCK FALSE
PROPERTIES CommittedEntriesKept

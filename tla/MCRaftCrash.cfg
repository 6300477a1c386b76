CONSTANTS
  n1 = n1
  n2 = n2
  n3 = n3
  v = v
  w = w
  Node = {n1, n2, n3}
  Value = {v, w}
  Noop = Noop
  None = None
  SnapshotEvery = 1
  MaxTerm = 2
  MaxIndex = 2
  MaxRestarts = 1
  MaxHeartbeats = 0
SPECIFICATION Spec
SYMMETRY Symmetry
VIEW View
CHECK_DEADLOCK FALSE
INVARIANTS ElectionSafety AckedSurvives SnapshotFaithful
PROPERTIES OneVotePerTerm IsReplicatedLog

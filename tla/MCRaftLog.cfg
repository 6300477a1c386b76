CONSTANTS
  n1 = n1
  n2 = n2
  n3 = n3
  v = v
  w = w
  Node = {n1, n2, n3}
  Value = {v, w}
  Noop = Noop
  None = None
  SnapshotEvery = 9
  MaxTerm = 3
  MaxIndex = 2
  MaxRestarts = 0
  MaxHeartbeats = 1
SPECIFICATION Spec
SYMMETRY Symmetry
VIEW ReturnView
ACTION_CONSTRAINT Returns
CHECK_DEADLOCK FALSE
INVARIANTS LogMatching ReplicasAgree
  MatchIndexHonest WaitersOwned

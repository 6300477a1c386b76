SPECIFICATION MCSpec
CONSTANTS
  Request = {r1, r2}
  Operation <- MCOperation
  Finalized = {FALSE, TRUE}
  Replicas = 3
  MaxUnavailable = 50
  Strategy = "RollingUpdate"
  None = None
  MaxRequests = 2
INVARIANTS OnePodPerReplica DeletionCascades
PROPERTIES BystandersKept
CONSTRAINT Uncrossed
SYMMETRY Symmetry
CHECK_DEADLOCK FALSE

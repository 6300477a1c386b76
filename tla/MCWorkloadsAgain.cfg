SPECIFICATION MCSpec
CONSTANTS
  Request = {r1, r2}
  Operation <- Deploying
  Finalized = {FALSE, TRUE}
  Replicas = 1
  MaxUnavailable = 50
  Strategy = "RollingUpdate"
  None = None
  MaxRequests = 3
INVARIANTS OnePodPerReplica DeletionCascades
CONSTRAINT Uncrossed
SYMMETRY Symmetry
CHECK_DEADLOCK FALSE

CONSTANTS
  Sender = Sender
  Peer = Peer
  Other = Other
  Third = Third
  Fourth = Fourth
  v = v
  Node = {Sender, Peer, Other, Third, Fourth}
  Value = {v}
  Noop = Noop
  None = None
  SnapshotEvery = 9
  MaxTerm = 3
  MaxIndex = 3
  MaxRestarts = 0
  MaxHeartbeats = 0
SPECIFICATION LateSpec
CHECK_DEADLOCK FALSE
INVARIANTS CommittedOnQuorum

CONSTANTS
  LastKey = 2
  Txn <- Commands
  Span <- Spans
  Start = {0, 1, 3, 7}
  Seed = {5}
  LeaseName = {0}
  None = None
  MaxApplied = 5
  MaxWatches = 1
SPECIFICATION Spec
CHECK_DEADLOCK FALSE
INVARIANTS EventsMatchChains WatchComplete LeaseKeysExact
PROPERTIES ReadsStable RejectedChangesNothing

SPECIFICATION FairSpec
CONSTANTS
  Pod = {a, b}
  NameOf <- MCNameOf
  Inits = 1
  None = None
  MaxOutside = 2
INVARIANTS UnboundNeverRuns RunningIsOwn
PROPERTIES FinalPhaseStays BoundStarts
CHECK_DEADLOCK FALSE

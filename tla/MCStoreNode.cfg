SPECIFICATION FairSpec
CONSTANTS
  a = a  b = b  None = None
  n1 = n1  n2 = n2
  Node = {n1, n2}
  First = n1
  Client = {a, b}
  Home <- MCHome
  Plans <- MCPlans
  MaxHops <- MCHops
  TTL = 1
  MaxTime = 1
  MaxReigns = 1
INVARIANTS AnsweredFromLog FollowerReadsFresh SwapsTakeTurns
PROPERTIES CallsEnd ExpiredGoes
CHECK_DEADLOCK FALSE

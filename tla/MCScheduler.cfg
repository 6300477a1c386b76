SPECIFICATION FairSpec
CONSTANTS
  p1 = p1  p2 = p2  n1 = n1  n2 = n2  None = None
  Pod = {p1, p2}
  NodeName = {n1, n2}
  Foreign = {}
  Early = {p2}
  Tick = {t1}
  Client = {c1}
  MaxOutside = 1
  PodSpec <- MCPodSpec
  Number <- MCNumber
  Zone <- MCZone
  Capacity <- MCCapacity
  Variants <- MCVariants
INVARIANTS OnePlacement
PROPERTIES FitsUnlessCrossed NoneLeftPlaceable
CHECK_DEADLOCK FALSE

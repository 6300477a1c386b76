SPECIFICATION FairSpec
CONSTANTS
  a = a  b = b  web = web  http = http  h1 = h1  h2 = h2  None = None
  Pod = {a, b}
  Service = {web}
  Rank <- MCRank
  ServiceSpec <- MCServiceSpec
  Matches <- MCMatches
  Target <- MCTarget
  Named <- MCNamed
  Number <- MCNumber
  Worker = {w}
  Tick = {t}
  MaxOutside = 3
PROPERTIES Converges Quiet
ACTION_CONSTRAINT PostedAlike
CHECK_DEADLOCK FALSE

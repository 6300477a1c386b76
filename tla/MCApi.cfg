CONSTANTS
  Client = {c1, c2}
  Watcher = {w1}
  Name = {n1}
  Issued = {0}
  MaxVersion = 3
SPECIFICATION Spec
SYMMETRY Symmetry
VIEW View
CHECK_DEADLOCK FALSE
INVARIANTS VersionIdentifies WatchMissesNothing
PROPERTIES ListCoversItems

CONSTANTS
  Schema <- Model
  Posts <- AllPosts
  Replicas = 2
  MaxPosts = 1
  MaxPuts = 1
  MaxDocs = 4
SPECIFICATION Spec
VIEW View
INVARIANTS TemplateArrives PodsTraceable
PROPERTIES StartsAsAsked ReplacedStaysItself
CHECK_DEADLOCK FALSE

SPECIFICATION Spec
CONSTANTS
  Nodes = {1, 2, 3}
  Ids = {11, 21, 22, 31}
  NodeOf <- MCNodeOf
  Links <- MCLinks
  Founders <- CrossingFounders
  Roots = {1}
  Legacy = {}
  MaxChain = 8
  MaxGraph = 2
  MaxMaterial = 2
  FormSize = 1
  MaxReleased = 1
  MaxRequests = 0
  Unborn = Unborn
  Gone = Gone
  None = None
INVARIANTS DownstreamFirst
CHECK_DEADLOCK FALSE

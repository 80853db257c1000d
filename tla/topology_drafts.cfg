SPECIFICATION Spec
CONSTANTS
  Nodes = {1, 2, 3}
  Ids = {11, 21, 22, 31}
  NodeOf <- MCNodeOf
  Links <- MCLinks
  Founders <- MCFounders
  Roots = {2}
  Legacy = {2}
  MaxChain = 8
  MaxGraph = 2
  MaxMaterial = 2
  FormSize = 1
  MaxReleased = 1
  MaxRequests = 1
  Unborn = Unborn
  Gone = Gone
  None = None
INVARIANTS NeverReenters OnePlaceDownstreamFirst
PROPERTIES ReleaseIsOneState SimpleDeployIsCurrent
CHECK_DEADLOCK FALSE

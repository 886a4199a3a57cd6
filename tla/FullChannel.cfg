SPECIFICATION FairSpec
CONSTANTS
  p1 = p1
  p2 = p2
  n1 = n1
  n2 = n2
  None = None
  Pods = {p1, p2}
  Nodes = {n1}
  NodeOf <- OneNode
  Recommenders = {r1}
  Managers = {m1}
  Updaters = {u1}
  Capacity <- MCCapacity
  Room = 22
  Demands = {10, 12}
  Lower = 5
  Upper = 30
  Default = 10
  Requested = 12
  Requests <- MCRequests
  Precision = 1000
  ZeroSize = 1
  Sidecars = {}
  Unscalable = {}
  ChannelCap = 1
  Versions = {1, 2}
  Rounds = 2
  Touches = 1
  Patches = 0
  Gaps = 0
  Faults = 0
  Crashes = 0
  Removals = 0
  Limits <- MCLimits
PROPERTIES RequeueCompletes
CHECK_DEADLOCK FALSE

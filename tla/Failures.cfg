SPECIFICATION Spec
CONSTANTS
  p1 = p1
  p2 = p2
  n1 = n1
  n2 = n2
  None = None
  Pods = {p1, p2}
  Nodes = {n1, n2}
  NodeOf <- TwoNodes
  Recommenders = {r1}
  Managers = {m1}
  Updaters = {u1, u2}
  Capacity <- MCCapacity
  Room = 22
  Demands = {6, 20}
  Lower = 5
  Upper = 30
  Default = 10
  Requested = 12
  Requests <- MCRequests
  Precision = 1000
  ZeroSize = 1
  Sidecars = {p1}
  Unscalable = {p2}
  ChannelCap = 1
  Versions = {1, 2}
  Rounds = 2
  Touches = 2
  Patches = 2
  Gaps = 1
  Faults = 2
  Crashes = 1
  Removals = 2
  Limits <- MCLimits
SYMMETRY Workers
CONSTRAINT TwoDisturbances
INVARIANTS VersionsSound
PROPERTIES GrowthLimited SidecarUndisturbed StoreImplemented
CHECK_DEADLOCK FALSE

SPECIFICATION Spec
CONSTANTS
  Pods = {p1, p2, p3}
  MaxScales = 3
  MaxPods = 2
  Caps = {1, 5}
  Requests = {1, 3}
  Capacities = {2, 7}
  Precision = 8
  Amount <- MCAmount
  PodLists <- MCPodLists
  Messages <- MCMessages
INVARIANTS TypeOK NeverOversubscribed CutOnlyWhenShort EveryPodAccounted
CHECK_DEADLOCK FALSE
SYMMETRY PodSymmetry

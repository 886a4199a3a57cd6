SPECIFICATION FairSpec
CONSTANTS
  a1 = a1
  a2 = a2
  s1 = s1
  s2 = s2
  p1 = p1
  p2 = p2
  x1 = x1
  x2 = x2
  None = None
  SLAs = {a1, a2}
  Services = {s1, s2}
  Pods = {p1, p2}
  Nodes = {n1}
  Workers = {w1, w2}
  Labels = {x1, x2}
  Selector <- OneEach
  PodLabels <- Labelled
  Unsupported = {}
  Clusters <- SyncAndHandover
INVARIANTS TypeOK
PROPERTIES WantedScaled SubjectsSettle CleansUp
CHECK_DEADLOCK FALSE

SPECIFICATION FairSpec
CONSTANTS
  a1 = a1
  a2 = a2
  s1 = s1
  s2 = s2
  p1 = p1
  p2 = p2
  x1 = x1
  x2 = x2
  None = None
  SLAs = {a1}
  Services = {s1}
  Pods = {p1}
  Nodes = {n1}
  Workers = {w1}
  Labels = {x1, x2}
  Selector <- OneEach
  PodLabels <- Labelled
  Unsupported = {}
  Clusters <- LabelRefused
PROPERTIES NoLeftovers
CHECK_DEADLOCK FALSE

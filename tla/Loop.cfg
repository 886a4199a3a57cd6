SPECIFICATION FairSpec
CONSTANTS
  p1 = p1
  p2 = p2
  None = None
  Pods = {p1, p2}
  Followed = {p1}
  Loads <- MCLoads
  Scale = 49995
  SetPoint = 1000
  Lower = 7
  Upper = 10
  Default = 8
  Shares = {1}
  Gains = {10, 100}
  Pending = 1
  Disturbances = 2
INVARIANTS TypeOK
PROPERTIES ActsOnAnswers ServiceAmongPods LoopSettles
CHECK_DEADLOCK FALSE

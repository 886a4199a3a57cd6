SPECIFICATION FairSpec
CONSTANTS
  Clients = {c1}
  Plain = {c1}
  Requests = 3
  Faults = 0
  Limits <- MCLimits
PROPERTIES ScalesFromZero
CHECK_DEADLOCK FALSE

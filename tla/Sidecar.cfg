SPECIFICATION FairSpec
CONSTANTS
  Clients = {c1, c2}
  Plain = {c1}
  Requests = 5
  Faults = 1
  Limits <- MCLimits
INVARIANTS TypeOK RequestsCounted NoTimerOverRequests
PROPERTIES ScalesUnlessOverlapped
CHECK_DEADLOCK FALSE

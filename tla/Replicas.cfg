SPECIFICATION FairSpec
CONSTANTS
  None = None
  SLAs = {s1}
  Apps = {a1}
  Covers <- CoverAll
  MinReplicas = 2
  MaxReplicas = 4
  UpPeriod = 1
  DownPeriod = 2
  StabilizePeriod = 3
  CallTime = 1
  Loads = {0, 50, 100, 300}
  Sizes = {0, 1, 3, 6}
  Outside = 1
  Touches = 1
  Faults = 1
  Crashes = 1
  Removals = 1
  Limits <- MCLimits
INVARIANTS TypeOK
PROPERTIES PolicyImplemented BoundsRestored

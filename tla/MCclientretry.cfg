SPECIFICATION FairSpec
CONSTANTS
  r1 = r1
  r2 = r2
  r3 = r3
  Callers <- OneCaller
  None = None
  MaxRotations = 1
  MaxOutages = 1
  MaxRestarts = 0
CHECK_DEADLOCK FALSE
PROPERTIES
  ClientRetried

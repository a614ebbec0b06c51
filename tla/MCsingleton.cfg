SPECIFICATION FairSpec
CONSTANTS
  r1 = r1
  r2 = r2
  r3 = r3
  Callers <- ThreeCallers
  None = None
  MaxRotations = 1
  MaxOutages = 1
  MaxRestarts = 1
CHECK_DEADLOCK FALSE
INVARIANTS
  TypeOK
  OneStart
  NoneHalfStarted
  LockIsGivenBack
PROPERTIES
  EveryCallReturns
  HonoursLifecycle

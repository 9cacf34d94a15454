\* Three calls on two connections against a daily and a monthly cap.
CONSTANTS
  r1 = r1
  r2 = r2
  r3 = r3
  Absent = Absent
  Requests = {r1, r2, r3}
  Capped = {"daily", "monthly"}
  Limit <- SmallLimits
  PoolSize = 2
SPECIFICATION FairSpec
INVARIANTS
  CounterBounded
PROPERTIES
  DriftHasCause
  EveryCheckEnds
CHECK_DEADLOCK FALSE

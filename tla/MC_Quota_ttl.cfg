\* A counter that expires between GET and INCR comes back without an expiry.
CONSTANTS
  r1 = r1
  r2 = r2
  r3 = r3
  Absent = Absent
  Requests = {r1}
  Capped = {"daily", "monthly"}
  Limit <- SmallLimits
  PoolSize = 2
SPECIFICATION Spec
INVARIANTS
  CountersExpire
CHECK_DEADLOCK FALSE

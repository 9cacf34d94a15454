\* Five requests, two per window of three, delays of up to one.
CONSTANTS
  Requests = {r1, r2, r3, r4, r5}
  Limit = 2
  Window = 3
  Slack = 1
  MaxDelay = 1
  MaxTime = 8
SPECIFICATION Spec
INVARIANTS
  WindowBounded
  RejectionJustified
SYMMETRY RequestSymmetry
CHECK_DEADLOCK FALSE

SPECIFICATION Spec
CONSTANTS
  Caller = {a, b}
  Cost = 2
  Burst = 4
  Idle = 6
  Period = 3
  Stall = 1
  MaxTime = 11
  None = None
SYMMETRY Callers
INVARIANTS
  RateHonoured
  DenialsEarned
  BucketsExpire
CHECK_DEADLOCK FALSE

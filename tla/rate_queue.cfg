SPECIFICATION FairSpec
CONSTANTS
  t1 = t1
  t2 = t2
  t3 = t3
  child1 = child1
  Free = Free
  Threads = {t1, t2, t3}
  ProcessOf <- OneChild
  MaxConcurrency = 2
  MinInterval = 1
  MaxRetryAfter = 1
  MaxAttempts = 2
  PollInterval = 1
  PollTimeout = 2
  MaxCalls = 1
  KindsOf <- Mixed
CHECK_DEADLOCK FALSE
INVARIANTS LimiterInv
PROPERTIES StartsAreSpaced PenaltyIsServed CallsEnd

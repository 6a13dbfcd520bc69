CONSTANTS
  q = q  w1 = w1  k = k  b1 = b1  b2 = b2
  s1 = s1  s2 = s2  s3 = s3
  t1 = t1  t2 = t2  t3 = t3  t4 = t4
  NULL = NULL
  Queues = {q}  Workers = {w1}  Keys = {k}  Bodies = {b1, b2}
  Ids = {1, 2}
  Sessions = {s1, s2}
  Tokens = {t1, t2, t3}
  Operations = {"Enqueue", "Claim"}
  Requests <- QueueRequests
  RetryDelays <- BoundaryDelays
  LeaseDurations <- BoundaryDurations
  MaxTime = 2
  SweepLimit = 1
  MinLeaseDuration = 1
  MaxLeaseDuration = 1
  MaxRetryDelay = 1
  MaxAttempts = 2
SYMMETRY FullSymmetry
SPECIFICATION Spec
INVARIANTS
  ConstraintsNeverFire
  PendingWritesCurrent
  AttemptsCountGrants
PROPERTY
  ImplementsLifecycle
CHECK_DEADLOCK FALSE

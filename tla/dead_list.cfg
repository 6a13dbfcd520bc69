CONSTANTS
  q = q  w1 = w1  t1 = t1  b = b
  NULL = NULL
  Ids = {1, 2, 3}  Queues = {q}  Keys = {}  Bodies = {b}  Workers = {w1}
  Tokens = {t1}
  MaxAttempts = 1
  MinLeaseDuration = 1
  MaxLeaseDuration = 3
  MaxRetryDelay = 0
  Queue = q
  Lease = t1
  Limits = {0, 1, 2, 3}
  MaxDeadPage = 2
  MaxTime = 1
SPECIFICATION Spec
INVARIANTS WalkComplete WalkOrdered WalkReadable
CHECK_DEADLOCK FALSE

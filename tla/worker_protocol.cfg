CONSTANTS
  q = q  q2 = q2  w1 = w1  w2 = w2  t1 = t1
  NULL = NULL
  Ids = {1}  Queues = {q, q2}  Keys = {}  Bodies = {}  Workers = {w1, w2}
  Tokens = {t1}
  MaxAttempts = 3
  MinLeaseDuration = 1
  MaxLeaseDuration = 3
  MaxRetryDelay = 2
  WordBits = 4
  Microsecond = 2
  Configs <- SomeConfigs
  StoreJobs <- SomeJobs
  Queue = q
  WorkerID = w1
  Minute = 2
SPECIFICATION FairSpec
INVARIANTS
  TypeOK
  HeartbeatJoined
  UnknownSurfaces
  InterruptedNotAcknowledged
  AcknowledgesWhatHappened
  HandlesOwnLease
PROPERTIES
  NothingAfterDoubt
  ShutdownReturns
  LossEndsAttempt
CHECK_DEADLOCK FALSE

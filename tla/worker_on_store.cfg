CONSTANTS
  q = q  q2 = q2  w1 = w1  w2 = w2  t1 = t1  t2 = t2  t3 = t3  b = b
  NULL = NULL
  Ids = {1}  Queues = {q}  Keys = {}  Bodies = {b}  Workers = {w1, w2}
  Tokens = {t1, t2, t3}
  MaxAttempts = 3
  MinLeaseDuration = 1
  MaxLeaseDuration = 3
  MaxRetryDelay = 2
  WordBits = 4
  Microsecond = 2
  Configs <- SomeConfigs
  StoreJobs <- OneJob
  Queue = q
  WorkerID = w1
  Minute = 2
  Budget = 2
  Disruptions = 2
SPECIFICATION SystemSpec
SYMMETRY TokenSymmetry
INVARIANTS SettledBeforeNext NeverInvalid
PROPERTY SucceededMeansHandled

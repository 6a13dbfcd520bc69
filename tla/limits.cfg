CONSTANTS
  NULL = NULL
  Ids = {}  Queues = {}  Keys = {}  Bodies = {}  Workers = {}  Tokens = {}
  MaxAttempts = 1
  MinLeaseDuration = 1
  MaxLeaseDuration = 12
  MaxRetryDelay = 4
  WordBits = 5
  Microsecond = 3
  LastAttempt = 7
  Configs <- AllConfigs
  Minute = 1
  MaxLatency = 4
  MaxFailureBytes = 7
  LongestText = 9
  Base = 2
  WordBytes = 3
  NanoBytes = 1
  LongestName = 2
  LongestPayload = 2
  Budgets = {1, 2}
SPECIFICATION LimitsSpec
INVARIANTS
  DelaySaturates
  DelayAlwaysRecordable
  FailureAccepted
  CutsAreMarked
  FingerprintBinds
  LeaseKept
CHECK_DEADLOCK FALSE

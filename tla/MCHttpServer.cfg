SPECIFICATION HttpFairSpec
CONSTANTS
  l = l
  s1 = s1
  s2 = s2
  NULL = NULL
  Listener <- MCListener
  Stream <- MCStream
  Watcher <- MCWatcher
  fdOf <- MCfdOf
  FDTABLE_MAX = 4
  READY_MAX = 3
  READ_BUFFER = 4
  RESPONSE_LEN = 2
  Loads <- MCLoads
  MaxAccepted = 2
INVARIANTS OneStepPending AnsweredOnce HandlersMatchTable HttpStops
PROPERTIES ServedUnlessStalled
CHECK_DEADLOCK FALSE

\* Two requests and the two models; nothing is ingested.  The requests end: no deadlock check.
SPECIFICATION Spec
CONSTANTS
  r1 = r1
  r2 = r2
  r3 = r3
  Nobody = Nobody
  Requests <- MCTwoRequests
  Accessors = 2
  Threads = 1
  PoolSize = 2
  Attempts <- MCOne
  Names <- MCOne
  Hashes <- MCOne
INVARIANT OneInstance
CHECK_DEADLOCK FALSE

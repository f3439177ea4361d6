\* Three requests, one accessor, a pool of two connections, one thread: connections and
\* the thread run out.  The requests end: no deadlock check.
SPECIFICATION FairSpec
CONSTANTS
  r1 = r1
  r2 = r2
  r3 = r3
  Nobody = Nobody
  Requests <- MCRequests
  Accessors = 1
  Threads = 1
  PoolSize = 2
  Attempts <- MCOne
  Names <- MCOne
  Hashes <- MCOne
INVARIANT TypeOK
INVARIANT ConnectionsAreInUse
INVARIANT OneJobPerWait
INVARIANT InstancesAreBuilt
INVARIANT SomebodyCanGoOn
PROPERTY SharedInstancesStay
PROPERTY RequestsGoForward
PROPERTY ImplementsService
PROPERTY EveryRequestEnds
CHECK_DEADLOCK FALSE

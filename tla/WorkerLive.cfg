SPECIFICATION WorkerFair
CONSTANTS
  Addrs = {}
  MAX_SHARED_LOCK = 254
  MaxHolders = 254
  Parts = {"cache", "nodes", "fence", "range"}
  Ops = {"READ", "WRITE", "MFENCE", "SFENCE", "RLOCK"}
  Peers = {}
  FenceCalls = 3
  LockedRanges <- ThreeRanges
  RangeCalls = 1
  MallocCalls = 2
  Blocks = {"b1", "b2"}
  Lists = {"l1", "l2"}
  max_cache_mem = 1
  LineCalls = 3
  Threads = {"t1"}
  RemoteOps = {"INVALIDATE", "FETCH_AND_SHARED"}
  TryLocks = FALSE
  Garbage = {0}
  eviction_period = 2
  Second = 5
  Aheads = {11, 20}
  SetAnyTime = FALSE
  MaxGap = 5
  MaxReal = 36
  Capacity = 4
  cache_size = 2
  ghost_th = 1
  MallocFlags = {"REMOTE"}
CHECK_DEADLOCK FALSE
INVARIANTS Evictable
PROPERTIES CallsStart RangeCallsReturn MallocReturns AgentsReturn Shrinks

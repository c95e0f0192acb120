SPECIFICATION WorkerSpec
CONSTANTS
  Addrs = {a1, a2}
  MAX_SHARED_LOCK = 254
  MaxHolders = 254
  Parts = {"word", "table", "slabs", "cache", "nodes", "busy", "scarce", "client", "array", "fence", "range", "timer"}
  Ops = {"READ", "WRITE", "MFENCE", "SFENCE", "WLOCK", "UNLOCK"}
  Peers = {"peer"}
  FenceCalls = 4
  LockedRanges <- TwoRanges
  RangeCalls = 2
  MallocCalls = 2
  Blocks = {"b1", "b2"}
  Lists = {"l1", "l2"}
  max_cache_mem = 1
  LineCalls = 1
  Threads = {"t1", "t2"}
  RemoteOps = {"INVALIDATE", "FETCH_AND_SHARED", "FETCH_AND_INVALIDATE"}
  TryLocks = TRUE
  Garbage = {0, 1}
  \* The period is shorter than a second.  A step back by 11 is the longest that
  \* may go unnoticed, one by 20 never does.
  eviction_period = 2
  Second = 5
  Aheads = {11, 20}
  SetAnyTime = FALSE
  MaxGap = 5
  MaxReal = 36
  Capacity = 10
  cache_size = 0
  ghost_th = 0
  MallocFlags = {"LOCAL", "REMOTE", "RANDOM", "BASE"}
CHECK_DEADLOCK FALSE
INVARIANTS LockCount Exclusion TableSound SlabsSound CacheSound EvictsOnlyQuiet MemoryAccounted ArraySound FenceSound
  RangeSound EvictorOnTime
PROPERTIES ItemsStay ImplementsOrder

SPECIFICATION NetworkFair
CONSTANTS
  max_pending_msg = 3
  MAX_UNSIGNALED_MSG = 2
  MaxSubmits = 8
  Parts = {"send", "recv", "join", "board", "tasks"}
  Joining = {w1, w2}
  Master = master
  CacheOnly = {w2}
  unsynced_th = 1
  Workers = {1, 2}
  Threads <- BoardThreads
  Keys = {"a", "b"}
  MaxPuts = 1
  LongestRequest = 11
  MaxRequests = 1
  MaxMessages = 7
  Calls <- OneOfEach
  core_num = 2
  MaxTasks = 3
  MaxFailures = 1
CHECK_DEADLOCK FALSE
PROPERTIES RequestsArrive AllKnown GetsReturn

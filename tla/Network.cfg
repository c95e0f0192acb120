SPECIFICATION NetworkSpec
CONSTANTS
  max_pending_msg = 3
  MAX_UNSIGNALED_MSG = 2
  MaxSubmits = 8
  Parts = {"send", "recv", "message", "join", "board", "tasks"}
  Joining = {w1, w2, w3}
  Master = master
  CacheOnly = {w3}
  unsynced_th = 1
  Workers = {1, 2}
  Threads <- BoardThreads
  Keys = {"a", "b"}
  MaxPuts = 2
  LongestRequest = 11
  MaxRequests = 3
  MaxMessages = 7
  Calls <- AllCalls
  core_num = 3
  MaxTasks = 3
  MaxFailures = 1
CHECK_DEADLOCK FALSE
INVARIANTS IInv RecvSound MessagesWhole JoinSound BoardSound TasksSound
PROPERTIES PostedInOrder NeverOlder

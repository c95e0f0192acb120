----------------------------- MODULE MCNetwork ------------------------------
(***************************************************************************)
(* What is between the nodes: the send window of a queue pair              *)
(* (RdmaContext), the receive slots of a node, the format of messages, the *)
(* joining of workers, the key-value board of the master, and tasks of the *)
(* MCS runtime.  They share no variable, so what one of them does depends  *)
(* on its own steps alone: in a behaviour only one part moves.             *)
(***************************************************************************)
EXTENDS RdmaContext, KeyValue, Membership

CONSTANTS
  Parts,                                \* the parts looked at
  LongestRequest, MaxRequests,          \* of Message
  MaxMessages,                          \* of RecvSlots
  Calls, core_num, MaxTasks, MaxFailures   \* of Tasks

VARIABLES
  part,
  slots, slot_inuse, recv_head, recv_posted, srq, cq, connecting,    \* recv
  asked, handling, slot, connections, arrived, handled,
  wire, memory, ready, completed, consumed, sent, delivered,          \* message
  cores, task_status, queue, pool, ran, app, got, called,             \* tasks
  jobs, failed, dead

RecvVars ==
  <<slots, slot_inuse, recv_head, recv_posted, srq, cq, connecting, asked, handling,
    slot, connections, arrived, handled>>
MessageVars == <<wire, memory, ready, completed, consumed, sent, delivered>>
TaskVars ==
  <<cores, task_status, queue, pool, jobs, ran, app, got, called, failed, dead>>

Recv == INSTANCE RecvSlots WITH
  rx_depth <- 9, max_pending_msg <- 3, RECV_SLOT_STEP <- 4, MaxConnections <- 3,
  slot_head <- recv_head, serving <- handling, sent <- arrived

\* One operation of every row of the tables of Ser and Deser.
Letter == <<"byte", 2>>
Zero == <<"byte", 0>>
Format == INSTANCE Message WITH
  MAX_REQUEST_SIZE <- 12, Slots <- 2, posted <- ready,
  Ops <- {"BROADCAST_MEM_STATS", "PUT", "WRITE", "READ", "READ_FORWARD",
          "WRITE_BACK", "UPDATE_MEM_STATS", "GET", "FETCH_MEM_STATS", "MALLOC",
          "MALLOC_REPLY", "FREE", "READ_REPLY", "WRITE_REPLY"},
  Payloads <- {<<>>, <<Letter>>, <<Zero, Letter>>, <<Letter, Zero>>}

\* The threads that use the board: two of one worker and one of another.
BoardThreads == {<<1, 1>>, <<1, 2>>, <<2, 1>>}

\* Calls of a function that the server has, and of one it does not have.
OneOfEach == {[args |-> <<1, 127>>, registered |-> r] : r \in BOOLEAN}
AllCalls == OneOfEach \cup {[args |-> <<5>>, registered |-> TRUE]}

Task == INSTANCE Tasks WITH
  PoolThreads <- {"p1", "p2"}, ServerThreads <- 1, CharMod <- 256

ASSUME
  /\ Recv!RecvSlotsAssumption /\ Format!MessageAssumption
  /\ Task!TasksAssumption

NetworkInit ==
  /\ part \in Parts
  /\ Init /\ Recv!Init /\ Format!Init /\ JoinInit /\ BoardInit /\ Task!Init

\* The part p moves, and the others do not.
Only(p) ==
  /\ part = p /\ UNCHANGED part
  /\ p # "send" => UNCHANGED vars
  /\ p # "recv" => UNCHANGED RecvVars
  /\ p # "message" => UNCHANGED MessageVars
  /\ p # "join" => UNCHANGED JoinVars
  /\ p # "board" => UNCHANGED BoardVars
  /\ p # "tasks" => UNCHANGED TaskVars

NetworkNext ==
  \/ Only("send") /\ Next
  \/ Only("recv") /\ Recv!Next
  \/ Only("message") /\ Format!Next
  \/ Only("join") /\ JoinNext
  \/ Only("board") /\ BoardNext
  \/ Only("tasks") /\ Task!Next

NetworkVars == <<part, vars, RecvVars, MessageVars, JoinVars, BoardVars, TaskVars>>

NetworkSpec == NetworkInit /\ [][NetworkNext]_NetworkVars

\* The fairness of each part, while it is the one that moves: completions are
\* polled, accepted connections are set up, and pool threads and server run on.
NetworkFair ==
  /\ NetworkSpec
  /\ WF_vars(part = "send" /\ SendComp)
  /\ WF_vars(part = "send" /\ ProcessPendingRequests)
  /\ WF_RecvVars(part = "recv" /\ (Recv!PostRecv \/ Recv!PostFree \/ Recv!CountPosted))
  /\ WF_RecvVars(part = "recv" /\ Recv!Serve)
  /\ WF_RecvVars(part = "recv" /\ Recv!Deliver)
  /\ \A w \in Joining : /\ WF_JoinVars(part = "join" /\ Constructor(w))
                        /\ WF_JoinVars(part = "join" /\ ProcessRemoteMemStat(w))
  /\ \A s \in Servers : WF_JoinVars(part = "join" /\ AcceptTcpClientHandle(s))
  /\ WF_JoinVars(part = "join" /\ MasterLoop)
  /\ \A w \in Workers : /\ WF_BoardVars(part = "board" /\ ProcessRequest(w))
                        /\ WF_BoardVars(part = "board" /\ ProcessRemoteGetReply(w))
  /\ WF_TaskVars(part = "tasks" /\ Task!GetReturn)
  /\ \A p \in {"p1", "p2"} : WF_TaskVars(part = "tasks" /\ Task!PoolThread(p))
  /\ \A i \in 1..MaxTasks : WF_TaskVars(part = "tasks" /\ Task!Serve(i))

-----------------------------------------------------------------------------

\* No receive slot is posted twice or while a message is in it; recv_posted is
\* exact; no slot is lost between RecvComp and PostRecvSlot.
RecvSound == part = "recv" => Recv!SlotsApart /\ Recv!PostedCounted /\ Recv!NoneLost

\* A request that waits in pending_requests is posted, and a message that was
\* sent is handled: neither the send window nor the receive queue runs dry.
RequestsArrive == EveryRequestPosted /\ Recv!EveryMessageHandled

\* ProcessRdmaRequest hands over the requests that were made, whole, once and
\* in order, and consumes exactly what arrived.
MessagesWhole == part = "message" => Format!DeliveredAsSent /\ Format!LoopEndsAtLength

\* Everyone joins and gets to know every worker that gives memory, and no other.
AllKnown == part = "join" => EveryoneKnown

\* A task runs at most once and with its arguments, also when its call times out
\* while it runs; and before the Get for it returns, when the call has not failed.
TasksSound == part = "tasks" => Task!RunsOnce /\ Task!ArgumentsArrive /\ Task!RunBeforeGet

\* GAlloc::Get returns once its key is put, and mcs::Get for a task that got a
\* core, also when calls fail, unless the node cannot be connected to.
GetsReturn == GetReturns /\ Task!PostedReturn
=============================================================================

-------------------------------- MODULE Tasks --------------------------------
(***************************************************************************)
(* Remote tasks of the MCS runtime: mcs::Task(f).Remote(args) posts a call *)
(* to the thread pool, a pool thread sends it to the one node of the       *)
(* configuration and marks the task, mcs::Get polls the mark.  The server  *)
(* is a process of its own: what it does with a request does not depend on *)
(* whether the client still waits for the answer.                          *)
(*                                                                         *)
(* An argument is a slice <<offset, length>> of the concatenated bytes.    *)
(* One application thread; the status map is updated in one step.          *)
(***************************************************************************)
EXTENDS Integers, Sequences, FiniteSets, SequencesExt

CONSTANTS
  Calls,        \* the calls of tasks: the sizes of the arguments, and whether the
                \* server has a function of that name
  core_num,     \* cores of the node at the start (config_internal.h: 10)
  PoolThreads,  \* the threads of thread_pool_ (10)
  ServerThreads,\* how many calls the WorkPool of the server runs at once (8)
  CharMod,      \* values of a char
  MaxTasks,     \* bound on the tasks submitted
  MaxFailures   \* bound on calls that fail

TasksAssumption ==
  /\ core_num \in Nat /\ ServerThreads \in Nat \ {0} /\ CharMod \in Nat \ {0}
  /\ MaxTasks \in Nat /\ MaxFailures \in Nat
  /\ \A c \in Calls : c.registered \in BOOLEAN /\ \A i \in DOMAIN c.args : c.args[i] \in Nat

VARIABLES
  cores,        \* NodeResource::core_num
  task_status,  \* task_status_map_, keyed by the ids 1, 2, ... in order
  queue,        \* posted and not yet taken by a pool thread
  pool,         \* what each pool thread is doing
  jobs,         \* where the request of each task is
  ran,          \* <<task, slices>>: the functions the server has run
  app,          \* the task that the application waits for in Get, or 0
  got,          \* tasks for which Get has returned
  called,       \* the call of each task
  failed,       \* tasks whose call has failed
  dead          \* the process of the application has ended

vars == <<cores, task_status, queue, pool, jobs, ran, app, got, called, failed, dead>>

Idle == [at |-> "idle"]

Init ==
  /\ cores = core_num
  /\ task_status = <<>>
  /\ queue = <<>>
  /\ pool = [p \in PoolThreads |-> Idle]
  /\ jobs = <<>>
  /\ ran = <<>>
  /\ app = 0
  /\ got = {}
  /\ called = <<>>
  /\ failed = {}
  /\ dead = FALSE

-----------------------------------------------------------------------------
(* Arguments *)

Sum(sizes) == FoldLeft(+, 0, sizes)

\* A size put in a std::vector<char>: what the char holds, sign included.
char(n) == LET m == n % CharMod IN IF 2 * m >= CharMod THEN m - CharMod ELSE m

\* McsClient::rpc_resister: the bytes one after the other, the sizes as chars.
Request(sizes) == [length |-> Sum(sizes), args_size |-> [i \in DOMAIN sizes |-> char(sizes[i])]]

\* Mutant of Slices: every argument is taken from the start.
SlicesFromStart(req) == [i \in DOMAIN req.args_size |-> <<0, req.args_size[i]>>]

\* McsServer::do_rpc_service: what it takes for the arguments.
Slices(req) ==
  [i \in DOMAIN req.args_size |->
     <<IF i = 1 THEN 0 ELSE req.args_size[i - 1], req.args_size[i]>>]

\* The arguments that the caller gave.
Given(sizes) == [i \in DOMAIN sizes |-> <<Sum(SubSeq(sizes, 1, i - 1)), sizes[i]>>]

-----------------------------------------------------------------------------
(* The application *)

\* Remote, SubmitTask: posted if the node has a core, which is never returned.
\* RemoteFunctionHolder has refused an empty name.
SubmitTask(call) ==
  /\ ~dead /\ app = 0 /\ Len(called) < MaxTasks
  /\ called' = Append(called, call)
  /\ task_status' = Append(task_status, FALSE)
  /\ jobs' = Append(jobs, "none")
  /\ IF cores > 0
     THEN /\ cores' = cores - 1
          /\ queue' = Append(queue, Len(called) + 1)
     ELSE UNCHANGED <<cores, queue>>
  /\ UNCHANGED <<pool, ran, app, got, failed, dead>>

\* Get: polls the mark of its task.
Get(i) ==
  /\ ~dead /\ app = 0
  /\ app' = i
  /\ UNCHANGED <<cores, task_status, queue, pool, jobs, ran, got, called, failed, dead>>

GetReturn ==
  /\ ~dead /\ app # 0 /\ task_status[app]
  /\ app' = 0
  /\ got' = got \cup {app}
  /\ UNCHANGED <<cores, task_status, queue, pool, jobs, ran, called, failed, dead>>

-----------------------------------------------------------------------------
(* A pool thread *)

\* Mutant of Take: the task stays in the queue.
TakeKeeping(p) ==
  /\ ~dead /\ pool[p] = Idle /\ queue # <<>>
  /\ pool' = [pool EXCEPT ![p] = [at |-> "connect", task |-> Head(queue)]]
  /\ UNCHANGED <<cores, task_status, queue, jobs, ran, app, got, called, failed, dead>>

Take(p) ==
  /\ ~dead /\ pool[p] = Idle /\ queue # <<>>
  /\ pool' = [pool EXCEPT ![p] = [at |-> "connect", task |-> Head(queue)]]
  /\ queue' = Tail(queue)
  /\ UNCHANGED <<cores, task_status, jobs, ran, app, got, called, failed, dead>>

\* get_stub connects, and call sends the request.
Connect(p) ==
  /\ ~dead /\ pool[p].at = "connect"
  /\ pool' = [pool EXCEPT ![p].at = "call"]
  /\ jobs' = [jobs EXCEPT ![pool[p].task] = "sent"]
  /\ UNCHANGED <<cores, task_status, queue, ran, app, got, called, failed, dead>>

\* The node does not accept within a second.  rpc_resister uses the null stub, the
\* test of which is commented out, and the process ends.
NullStub(p) ==
  /\ ~dead /\ pool[p].at = "connect" /\ Cardinality(failed) < MaxFailures
  /\ failed' = failed \cup {pool[p].task}
  /\ dead' = TRUE
  /\ UNCHANGED <<cores, task_status, queue, pool, jobs, ran, app, got, called>>

\* call returns -1, which rpc_resister does not look at.  Either five seconds have
\* passed or the connection is gone, and the request goes its way at the server;
\* or it never gets there.
Fail(p) ==
  /\ ~dead /\ pool[p].at = "call" /\ Cardinality(failed) < MaxFailures
  /\ failed' = failed \cup {pool[p].task}
  /\ pool' = [pool EXCEPT ![p].at = "failed"]
  /\ \/ UNCHANGED jobs
     \/ /\ jobs[pool[p].task] = "sent"
        /\ jobs' = [jobs EXCEPT ![pool[p].task] = "none"]
  /\ UNCHANGED <<cores, task_status, queue, ran, app, got, called, dead>>

\* The call has returned.
Returned(p) ==
  \/ pool[p].at = "failed"
  \/ pool[p].at = "call" /\ jobs[pool[p].task] = "answered"

\* Mutant of ChangeTaskStatus: marked before the call.
ChangeTaskStatusEarly(p) ==
  /\ ~dead /\ pool[p].at # "idle"
  /\ task_status' = [task_status EXCEPT ![pool[p].task] = TRUE]
  /\ pool' = IF Returned(p) THEN [pool EXCEPT ![p] = Idle] ELSE pool
  /\ UNCHANGED <<cores, queue, jobs, ran, app, got, called, failed, dead>>

\* Mutant of ChangeTaskStatus: not marked.
ChangeTaskStatusNever(p) ==
  /\ ~dead /\ Returned(p)
  /\ pool' = [pool EXCEPT ![p] = Idle]
  /\ UNCHANGED <<cores, task_status, queue, jobs, ran, app, got, called, failed, dead>>

ChangeTaskStatus(p) ==
  /\ ~dead /\ Returned(p)
  /\ task_status' = [task_status EXCEPT ![pool[p].task] = TRUE]
  /\ pool' = [pool EXCEPT ![p] = Idle]
  /\ UNCHANGED <<cores, queue, jobs, ran, app, got, called, failed, dead>>

-----------------------------------------------------------------------------
(* The server *)

\* The request reaches a thread of the WorkPool ...
Accept(i) ==
  /\ jobs[i] = "sent"
  /\ Cardinality({j \in DOMAIN jobs : jobs[j] = "running"}) < ServerThreads
  /\ jobs' = [jobs EXCEPT ![i] = "running"]
  /\ UNCHANGED <<cores, task_status, queue, pool, ran, app, got, called, failed, dead>>

\* ... TaskExecutionHandler runs the function, and the answer is sent.  When there
\* is no function of the name, the answer is the text of the error.
Run(i) ==
  /\ jobs[i] = "running"
  /\ jobs' = [jobs EXCEPT ![i] = "answered"]
  /\ ran' = IF called[i].registered
            THEN Append(ran, <<i, Slices(Request(called[i].args))>>) ELSE ran
  /\ UNCHANGED <<cores, task_status, queue, pool, app, got, called, failed, dead>>

-----------------------------------------------------------------------------
PoolThread(p) == Take(p) \/ Connect(p) \/ ChangeTaskStatus(p)
Serve(i) == i \in DOMAIN jobs /\ (Accept(i) \/ Run(i))

Next ==
  \/ \E call \in Calls : SubmitTask(call)
  \/ \E i \in DOMAIN called : Get(i)
  \/ GetReturn
  \/ \E p \in PoolThreads : PoolThread(p) \/ NullStub(p) \/ Fail(p)
  \/ \E i \in 1..MaxTasks : Serve(i)

Spec == Init /\ [][Next]_vars

\* The polling loop and the pool threads run, the server takes requests in turn,
\* and functions return.
FairSpec == /\ Spec /\ WF_vars(GetReturn)
            /\ \A p \in PoolThreads : WF_vars(PoolThread(p))
            /\ \A i \in 1..MaxTasks : WF_vars(Serve(i))

-----------------------------------------------------------------------------
(* Properties *)

HasRun(i) == \E k \in DOMAIN ran : ran[k][1] = i

\* A Get that has returned was for a task whose function had run, unless the
\* call failed or the server has no such function (abstract_mcs_runtime.cpp
\* 97-107 against local_mode_task_submitter.cpp 56-57).
RunBeforeGet == \A i \in got : HasRun(i) \/ i \in failed \/ ~called[i].registered

\* "It blocks until the object is obtained" (api.h 24, in Chinese), without these
\* exceptions.
GetMeansRun == \A i \in got : HasRun(i)

\* No task runs twice, whichever pool threads and server threads handle it, and
\* also when its caller has given up waiting.
RunsOnce == \A j, k \in DOMAIN ran : ran[j][1] = ran[k][1] => j = k

\* The function is called with the arguments of the call (function_manager.h
\* 44-45; client.cpp 15-21 against server.cpp 26-36).
ArgumentsArrive == \A k \in DOMAIN ran : ran[k][2] = Given(called[ran[k][1]].args)

\* A Get returns: the task it waits for is run in the end.
GetReturns == \A i \in 1..MaxTasks : app = i ~> app = 0

\* The same for the tasks that got a core, whatever becomes of the tasks that got
\* none, and whether or not their calls are answered, as long as the node can be
\* connected to (local_mode_task_submitter.cpp 38-57, client.cpp 28-31).
PostedReturn == \A i \in 1..core_num : app = i ~> (app = 0 \/ dead)
=============================================================================

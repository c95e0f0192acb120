-------------------------------- MODULE Fence --------------------------------
(***************************************************************************)
(* The fence of one application thread (struct Fence, worker.h): the calls *)
(* of the thread run ProcessLocalRead/Write/RLock/WLock/UnLock/MFence, and *)
(* whoever completes one of its asynchronous writes runs Notify and        *)
(* ProcessFenced.  A write is completed by the thread itself (a hit), by   *)
(* the service thread (a reply), or, when it waited in the to-serve queue  *)
(* of its block, by the service thread or by another application thread    *)
(* whose unlock drains that queue.                                         *)
(*                                                                         *)
(* What a started call does in the caches and directories is the business  *)
(* of Coherence; here a call that is no write ends when it starts.         *)
(***************************************************************************)
EXTENDS Naturals, FiniteSets, Sequences

CONSTANTS
  Ops,          \* the operations the thread calls
  FenceCalls,     \* bound: the calls of the thread
  Peers         \* the other application threads of the worker

VARIABLES
  prog,           \* the calls issued so far, in program order
  order,          \* history: the started calls, in the order they started
  mfenced, sfenced, pending_writes, in_process,
  pending_works,  \* queue of call indexes
  lock,           \* the agent that holds Fence::lock_
  outstanding,    \* started writes not completed: index -> where it waits
  pc,             \* where each agent is in its call, in Notify or ProcessFenced
  fenced          \* the local variable of ProcessFenced, of the agent draining

FenceVars == <<prog, order, mfenced, sfenced, pending_writes, in_process,
          pending_works, lock, outstanding, pc, fenced>>

App == "app"
ServiceThread == "service"
FenceAgents == {App, ServiceThread} \cup Peers
Free == "free"

ASSUME FenceAssumption == App \notin Peers /\ Free \notin FenceAgents /\ FenceCalls \in Nat

LockOps == {"RLOCK", "WLOCK", "UNLOCK"}
SyncOps == {"READ", "RLOCK", "WLOCK"}

Places == {"hit", "remote", "to_serve"}

\* Who completes a write that waits there.
Completers(place) ==
  CASE place = "hit" -> {App}
    [] place = "remote" -> {ServiceThread}
    [] place = "to_serve" -> {ServiceThread} \cup Peers

FenceInit ==
  /\ prog = <<>> /\ order = <<>>
  /\ mfenced = FALSE /\ sfenced = FALSE /\ in_process = FALSE /\ fenced = FALSE
  /\ pending_writes = 0
  /\ pending_works = <<>>
  /\ lock = Free
  /\ outstanding = <<>>
  /\ pc = [a \in FenceAgents |-> "idle"]

Cur == Len(prog)
CurOp == prog[Cur]
Goto(a, l) == pc' = [pc EXCEPT ![a] = l]

\* A synchronous call spins on notify_buf until its request has been processed.
Waiting == \E k \in 1..Len(pending_works) : prog[pending_works[k]] \in SyncOps

-----------------------------------------------------------------------------
(* The calling thread.                                                      *)

\* The thread calls WorkerHandle::SendRequest.
SendRequest(op) ==
  /\ pc[App] = "idle" /\ ~Waiting /\ Len(prog) < FenceCalls
  /\ prog' = Append(prog, op)
  /\ Goto(App, "enter")
  /\ UNCHANGED <<order, mfenced, sfenced, pending_writes, in_process,
                 pending_works, lock, outstanding, fenced>>

IsFenced == mfenced \/ sfenced
IsMFenced == mfenced

\* Between fence->lock() and fence->unlock() the prologue of a call is one step.
Prologue(op) ==
  /\ pc[App] = "enter" /\ CurOp = op /\ lock = Free
  /\ UNCHANGED <<prog, pending_writes, in_process, lock, outstanding, fenced>>

AddToFence ==
  /\ pending_works' = Append(pending_works, Cur)
  /\ Goto(App, "idle")
  /\ UNCHANGED order

Pass(l) ==
  /\ order' = Append(order, Cur)
  /\ Goto(App, l)
  /\ UNCHANGED <<mfenced, sfenced, pending_works>>

ProcessLocalRead ==
  /\ Prologue("READ")
  /\ \/ IsMFenced /\ AddToFence /\ UNCHANGED <<mfenced, sfenced>>
     \/ ~IsMFenced /\ Pass("idle")

ProcessLocalWrite ==
  /\ Prologue("WRITE")
  /\ \/ IsFenced /\ AddToFence /\ UNCHANGED <<mfenced, sfenced>>
     \/ ~IsFenced /\ Pass("count")

\* Mutant of ProcessLocalLock: a lock operation does not fence itself.
LockUnfenced(op) ==
  /\ op \in LockOps
  /\ Prologue(op)
  /\ \/ IsFenced /\ AddToFence /\ UNCHANGED <<mfenced, sfenced>>
     \/ ~IsFenced /\ Pass("idle")

\* The three lock operations begin alike: "fence for every lock".
ProcessLocalLock(op) ==
  /\ op \in LockOps
  /\ Prologue(op)
  /\ \/ IsFenced /\ AddToFence /\ UNCHANGED <<mfenced, sfenced>>
     \/ ~IsFenced /\ pending_writes # 0
        /\ mfenced' = TRUE /\ AddToFence /\ UNCHANGED sfenced
     \/ ~IsFenced /\ pending_writes = 0 /\ Pass("idle")

ProcessLocalMFence ==
  /\ Prologue("MFENCE")
  /\ \/ IsFenced /\ AddToFence /\ UNCHANGED <<mfenced, sfenced>>
     \/ /\ ~IsFenced
        /\ mfenced' = (pending_writes # 0)
        /\ Goto(App, "idle")
        /\ UNCHANGED <<order, sfenced, pending_works>>

ProcessLocalSFence ==
  /\ Prologue("SFENCE")
  /\ \/ IsFenced /\ AddToFence /\ UNCHANGED <<mfenced, sfenced>>
     \/ /\ ~IsFenced
        /\ sfenced' = (pending_writes # 0)
        /\ Goto(App, "idle")
        /\ UNCHANGED <<order, mfenced, pending_works>>

\* The write has passed the fence: it is counted with no lock held, then it
\* hits, or is sent, or waits for its block to leave a transition.
CountWrite ==
  /\ pc[App] = "count"
  /\ pending_writes' = pending_writes + 1
  /\ \E place \in Places :
        outstanding' = [i \in DOMAIN outstanding \cup {Cur} |->
                          IF i = Cur THEN place ELSE outstanding[i]]
  /\ Goto(App, IF outstanding'[Cur] = "hit" THEN "hit" ELSE "idle")
  /\ UNCHANGED <<prog, order, mfenced, sfenced, in_process, pending_works,
                 lock, fenced>>

-----------------------------------------------------------------------------
(* The completing thread.                                                   *)

\* Notify of an asynchronous write, up to its call of ProcessFenced.
Notify(a, i) ==
  /\ a \in Completers(outstanding[i])
  /\ pc[a] = IF a = App THEN "hit" ELSE "idle"
  /\ pending_writes' = pending_writes - 1
  /\ outstanding' = [j \in DOMAIN outstanding \ {i} |-> outstanding[j]]
  /\ Goto(a, "test")
  /\ UNCHANGED <<prog, order, mfenced, sfenced, in_process, pending_works,
                 lock, fenced>>

\* in_process is read before the lock is taken.
TestInProcess(a) ==
  /\ pc[a] = "test"
  /\ Goto(a, IF in_process THEN "idle" ELSE "lock")
  /\ UNCHANGED <<prog, order, mfenced, sfenced, pending_writes, in_process,
                 pending_works, lock, outstanding, fenced>>

\* Mutant of OpenFence: only an MFENCE is opened.
OpenMFence(a) ==
  /\ pc[a] = "lock" /\ lock = Free
  /\ \/ /\ pending_writes = 0 /\ IsMFenced
        /\ lock' = a /\ in_process' = TRUE /\ fenced' = FALSE
        /\ Goto(a, "drain")
     \/ /\ ~(pending_writes = 0 /\ IsMFenced)
        /\ Goto(a, "idle")
        /\ UNCHANGED <<lock, in_process, fenced>>
  /\ UNCHANGED <<prog, order, mfenced, sfenced, pending_writes, pending_works,
                 outstanding>>

\* The lock, and the two tests behind it.
OpenFence(a) ==
  /\ pc[a] = "lock" /\ lock = Free
  /\ \/ /\ pending_writes = 0 /\ IsFenced
        /\ lock' = a /\ in_process' = TRUE /\ fenced' = FALSE
        /\ Goto(a, "drain")
     \/ /\ ~(pending_writes = 0 /\ IsFenced)
        /\ Goto(a, "idle")
        /\ UNCHANGED <<lock, in_process, fenced>>
  /\ UNCHANGED <<prog, order, mfenced, sfenced, pending_writes, pending_works,
                 outstanding>>

\* The loop closes the fence again and leaves.
Refence(a, m, s, works) ==
  /\ mfenced' = m /\ sfenced' = s /\ fenced' = TRUE
  /\ pending_works' = works
  /\ Goto(a, "close")
  /\ UNCHANGED <<order, pending_writes, outstanding>>

\* Mutant of RunFenced: a write that waited behind the fence is not counted.
RunFencedUncounted(i) ==
  /\ pending_works' = Tail(pending_works)
  /\ order' = Append(order, i)
  /\ \/ /\ prog[i] = "WRITE"
        /\ \E place \in Places \ {"hit"} :
              outstanding' = [j \in DOMAIN outstanding \cup {i} |->
                                IF j = i THEN place ELSE outstanding[j]]
     \/ UNCHANGED outstanding
  /\ UNCHANGED <<mfenced, sfenced, pending_writes, pc, fenced>>

\* The loop runs ProcessLocalRequest on a queued request that carries FENCE.
\* A write is counted; when it hits, its Notify counts it down again and
\* leaves ProcessFenced at once, in_process being set.
RunFenced(i) ==
  /\ pending_works' = Tail(pending_works)
  /\ order' = Append(order, i)
  /\ \/ /\ prog[i] = "WRITE"
        /\ \E place \in Places \ {"hit"} :
              outstanding' = [j \in DOMAIN outstanding \cup {i} |->
                                IF j = i THEN place ELSE outstanding[j]]
        /\ pending_writes' = pending_writes + 1
     \/ UNCHANGED <<pending_writes, outstanding>>
  /\ UNCHANGED <<mfenced, sfenced, pc, fenced>>

DrainStep(a) ==
  LET i == Head(pending_works)
      op == prog[i]
      rest == Tail(pending_works)
  IN
  /\ pc[a] = "drain" /\ pending_works # <<>>
  /\ \/ op = "MFENCE" /\ pending_writes # 0 /\ Refence(a, TRUE, FALSE, rest)
     \/ op = "SFENCE" /\ pending_writes # 0 /\ Refence(a, FALSE, TRUE, rest)
     \/ /\ op \in {"MFENCE", "SFENCE"} /\ pending_writes = 0
        /\ pending_works' = rest
        /\ UNCHANGED <<order, mfenced, sfenced, pending_writes, outstanding, pc,
                       fenced>>
     \/ op \in LockOps /\ pending_writes # 0
        /\ Refence(a, TRUE, FALSE, pending_works)
     \/ /\ op \notin {"MFENCE", "SFENCE"}
        /\ ~(op \in LockOps /\ pending_writes # 0)
        /\ RunFenced(i)
  /\ UNCHANGED <<prog, in_process, lock>>

\* Mutant of CloseDrain: the flags are cleared over a queue that is not empty.
CloseDrainOpen(a) ==
  /\ \/ pc[a] = "close"
     \/ pc[a] = "drain" /\ pending_works = <<>>
  /\ mfenced' = FALSE /\ sfenced' = FALSE /\ in_process' = FALSE
  /\ lock' = Free
  /\ Goto(a, "idle")
  /\ UNCHANGED <<prog, order, pending_writes, pending_works, outstanding, fenced>>

\* "we must not change the fenced status until last"
CloseDrain(a) ==
  /\ \/ pc[a] = "close"
     \/ pc[a] = "drain" /\ pending_works = <<>>
  /\ mfenced' = (mfenced /\ fenced)
  /\ sfenced' = (sfenced /\ fenced)
  /\ in_process' = FALSE
  /\ lock' = Free
  /\ Goto(a, "idle")
  /\ UNCHANGED <<prog, order, pending_writes, pending_works, outstanding, fenced>>

-----------------------------------------------------------------------------
AppStep ==
  \/ ProcessLocalRead \/ ProcessLocalWrite
  \/ ProcessLocalMFence \/ ProcessLocalSFence
  \/ \E op \in LockOps : ProcessLocalLock(op)
  \/ CountWrite

AgentStep(a) ==
  TestInProcess(a) \/ OpenFence(a) \/ DrainStep(a) \/ CloseDrain(a)

CompleteWrite(i) == \E a \in FenceAgents : Notify(a, i)

FenceNext ==
  \/ \E op \in Ops : SendRequest(op)
  \/ AppStep
  \/ \E a \in FenceAgents : AgentStep(a)
  \/ \E i \in DOMAIN outstanding : CompleteWrite(i)

FenceSpec == FenceInit /\ [][FenceNext]_FenceVars

\* Threads run, and Coherence answers every write: a call or a drain under way
\* goes on and an outstanding write is completed in the end.
FenceFair ==
  /\ FenceSpec
  /\ WF_FenceVars(AppStep)
  /\ \A a \in FenceAgents : WF_FenceVars(AgentStep(a))
  /\ \A i \in 1..FenceCalls : WF_FenceVars(i \in DOMAIN outstanding /\ CompleteWrite(i))

-----------------------------------------------------------------------------
FenceTypeOK ==
  /\ prog \in Seq(Ops) /\ Len(prog) <= FenceCalls
  /\ order \in Seq(1..Len(prog))
  /\ {mfenced, sfenced, in_process, fenced} \subseteq BOOLEAN
  /\ pending_writes \in 0..FenceCalls
  /\ pending_works \in Seq(1..Len(prog))
  /\ lock \in FenceAgents \cup {Free}
  /\ DOMAIN outstanding \subseteq 1..Len(prog)
  /\ \A i \in DOMAIN outstanding : outstanding[i] \in Places
  /\ pc \in [FenceAgents -> {"idle", "enter", "count", "hit", "test", "lock",
                             "drain", "close"}]

\* The completed writes: the started ones that are not outstanding any more.
\* A write that passed the fence and is not counted yet has not completed.
Done ==
  {i \in {order[k] : k \in 1..Len(order)} :
     /\ prog[i] = "WRITE" /\ i \notin DOMAIN outstanding
     /\ ~(pc[App] = "count" /\ i = Cur)}

\* pending_writes is decremented with no lock held, by threads the caller does
\* not know of, and a request may be run twice (TO_SERVE, FENCE): it still
\* counts exactly the writes between their start and their Notify, so it never
\* goes below zero (worker.cc:722) and reaches zero only when all are done.
PendingCounted == pending_writes = Cardinality(DOMAIN outstanding)

\* A request waits in pending_works only behind a raised flag: ProcessFenced
\* clears mfenced and sfenced only over an empty queue, so a new call can not
\* overtake a queued one ("which will cause re-ordering of request
\* processing", worker.cc:671).
QueueBehindFence == pending_works # <<>> => IsFenced

\* The counter and the flags of the fence say what they are read for.
FenceSound == FenceTypeOK /\ PendingCounted /\ QueueBehindFence

\* The fence implements its abstract specification: calls start in program
\* order and nothing behind an MFENCE or a lock operation starts before every
\* earlier write has completed.
Abstract == INSTANCE FenceOrder WITH done <- Done
ImplementsOrder == Abstract!Spec

\* A call, once issued, is started: with one application thread on the worker
\* no request stays in pending_works for good.
CallsStart ==
  \A i \in 1..FenceCalls :
    (i <= Len(prog) /\ prog[i] \notin {"MFENCE", "SFENCE"})
      ~> (\E k \in 1..Len(order) : order[k] = i)

\* A read behind a fence returns, also when other threads complete writes of
\* this one: "issue a fence and a read request to the last address to ensure
\* all previous op have been done" (test/benchmark.cc:413).
FencedReadReturns ==
  \A i \in 1..FenceCalls :
    (i <= Len(prog) /\ prog[i] = "READ")
      ~> (\E k \in 1..Len(order) : order[k] = i)
=============================================================================

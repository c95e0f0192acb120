------------------------------ MODULE Coherence ------------------------------
(***************************************************************************)
(* The cache coherence protocol of GAM for one block of global memory: the *)
(* home worker with its directory entry and memory, the caches of the      *)
(* other workers, the application threads of every worker and the RDMA     *)
(* channels between them (gam/src/cache.cc, local_request_cache.cc,        *)
(* remote_request_cache.cc, pending_request.cc, worker.cc).                *)
(*                                                                         *)
(* Steps.  A handler runs under the lock of the block, so it is one step.  *)
(* A worker has one service thread that takes messages, and application    *)
(* threads that run ProcessLocalRequest themselves (MULTITHREAD).  When a  *)
(* handler ends in ProcessToServeRequest, its thread re-processes the      *)
(* queued requests one step at a time, interleaved with the other threads  *)
(* and with the network, and does nothing else until it is through.        *)
(*                                                                         *)
(* Data.  Every write goes to a word of its own, and the content of a copy *)
(* of the block is the set of the writes it holds: an older copy that      *)
(* replaces a newer one is seen as writes that are missing.                *)
(***************************************************************************)
EXTENDS Directory, Sequences, FiniteSets

CONSTANTS
  Home,        \* the worker whose memory holds the block
  Remote,      \* the other workers, which may cache it
  Thread,      \* the application threads
  At,          \* At[t]: the worker of thread t
  Calls,       \* Calls[t][k]: the <<operation, is a try>> calls that thread t
               \* makes while it holds lock k
  Evicting,    \* the workers whose cache is over its limit
  MaxWrites    \* bound on the number of writes issued

Node == {Home} \cup Remote

Write == 1 .. MaxWrites

Data == SUBSET Write

Actor == Node \cup Thread   \* n is the service thread of worker n

NodeOf(a) == IF a \in Thread THEN At[a] ELSE a

Lock == {"NONE", "RLOCK", "WLOCK"}

ASSUME CoherenceAssumption ==
  /\ IsFiniteSet(Remote) /\ Home \notin Remote
  /\ Node \cap Thread = {}
  /\ At \in [Thread -> Node]
  /\ Calls \in [Thread -> [Lock -> SUBSET ({"READ", "WRITE", "RLOCK", "WLOCK"} \X BOOLEAN)]]
  /\ MaxWrites \in Nat

VARIABLES
  dir,       \* directory entry of the block at Home
  mem,       \* content of the block in the memory of Home
  cache,     \* cache[n]: the line of the block in the cache of n
  pend,      \* pend[n]: the pending work of n for the block
  chan,      \* chan[s][d]: what s has posted to d and d has not taken, in order
  local,     \* local[n]: to_serve_local_requests of n
  remote,    \* remote[n]: to_serve_requests of n
  serving,   \* serving[a]: what actor a still has to re-process
  waiting,   \* waiting[t]: thread t spins on the outcome of its call
  held,      \* held[t]: the lock thread t holds on the block
  seen,      \* seen[t]: the writes that thread t knows to have happened
  done,      \* the writes that have been performed
  issued     \* issued[t]: the writes of thread t

vars == <<dir, mem, cache, pend, chan, local, remote, serving, waiting, held, seen, done, issued>>

threads == <<waiting, held, seen>>

-----------------------------------------------------------------------------
(* Requests of the application, pending works, messages *)

\* w is the write that a WRITE makes, 0 in every other request.
Request == {r \in [t : Thread, op : {"READ", "WRITE", "RLOCK", "WLOCK"}, try : BOOLEAN,
                   w : Write \cup {0}] : r.op = "WRITE" <=> r.w # 0}

ReadWork == {"READ", "FETCH_AND_SHARED"}

WriteWork == {"WRITE", "WRITE_PERMISSION_ONLY", "FETCH_AND_INVALIDATE", "INVALIDATE"}

\* A pending work for a call of the own application, one for another worker's
\* request that Home has passed on, one of the cache itself, or none.
Work == [op : ReadWork \cup WriteWork, req : Request, counter : Int, failed : BOOLEAN]
        \cup [op : {"READ_FORWARD", "WRITE_FORWARD", "INVALIDATE_FORWARD"}, pwid : Remote,
              parent : {"READ", "WRITE", "WRITE_PERMISSION_ONLY"}, counter : Int,
              failed : BOOLEAN]
        \cup [op : {"WRITE_BACK", "PENDING_INVALIDATE", "NONE"}]

NoWork == [op |-> "NONE"]

OwnWork(op, r, count) == [op |-> op, req |-> r, counter |-> count, failed |-> FALSE]

\* Mutant: pwid is not set from the client that asks.
ForwardWorkNoPwid(op, m, s, count) ==
  [op |-> op, pwid |-> Home, parent |-> m.op, counter |-> count, failed |-> FALSE]

ForwardWork(op, m, s, count) ==
  [op |-> op, pwid |-> s, parent |-> m.op, counter |-> count, failed |-> FALSE]

ToHome == {"READ", "WRITE", "WRITE_PERMISSION_ONLY", "ACTIVE_INVALIDATE", "WRITE_BACK"}

ToCache == {"FETCH_AND_SHARED", "READ_FORWARD", "FETCH_AND_INVALIDATE", "INVALIDATE",
            "INVALIDATE_FORWARD", "WRITE_FORWARD"}

\* IMM is the immediate value of a WriteWithImm: the id of the work it answers.
Reply == {"IMM", "READ_REPLY", "WRITE_REPLY"}

Message(ops) == [op : ops, try : BOOLEAN, pwid : Node, ok : BOOLEAN, data : Data]

\* The requests that worker n serves, and what its queue pairs deliver.
ServedBy(n) == IF n = Home THEN ToHome ELSE ToCache

Inbox(n) == Message(ServedBy(n) \cup Reply \cup {"RDMA_WRITE"})

Queued(n) == [from : IF n = Home THEN Remote ELSE Node, msg : Message(ServedBy(n))]

Msg(op) == [op |-> op, try |-> FALSE, pwid |-> Home, ok |-> TRUE, data |-> {}]

Ask(op, try) == [Msg(op) EXCEPT !.try = try]

Forward(op, m, s) == [Msg(op) EXCEPT !.try = m.try, !.pwid = s]

Refuse(op) == [Msg(op) EXCEPT !.ok = FALSE]

\* Mutant: the completion overtakes the data.
ImmData(d) == <<Msg("IMM"), [Msg("RDMA_WRITE") EXCEPT !.data = d]>>

\* Data and, behind it in the same queue pair, the completion that announces it.
DataImm(d) == <<[Msg("RDMA_WRITE") EXCEPT !.data = d], Msg("IMM")>>

Post(c, s, d, ms) == [c EXCEPT ![s][d] = @ \o ms]

PostAll(c, s, D, m) ==
  [c EXCEPT ![s] = [d \in Node |-> IF d \in D THEN Append(@[d], m) ELSE @[d]]]
-----------------------------------------------------------------------------
(* Cache lines and threads *)

CacheState == {"NOT_EXIST", "SHARED", "DIRTY", "TO_INVALID", "TO_SHARED", "TO_DIRTY"}

Line == [state : CacheState, data : Data, lock : Int, lru : BOOLEAN]

NoLine == [state |-> "NOT_EXIST", data |-> {}, lock |-> 0, lru |-> FALSE]

CacheInTransition(l) == l.state \in {"TO_INVALID", "TO_SHARED", "TO_DIRTY"}

\* Mutant: only a write lock counts (IsBlockWLocked for IsBlockLocked).
CacheBlockWLockedOnly(l) == l.lock = EXCLUSIVE_LOCK_TAG

CacheBlockLocked(l) == l.lock # 0

CacheWLocked(l) == l.lock = EXCLUSIVE_LOCK_TAG

\* SetCLine, then ToToShared or ToToDirty: a fresh line that waits for its data.
NewLine(state) == [NoLine EXCEPT !.state = state]

CacheToShared(l) == [l EXCEPT !.state = "SHARED", !.lru = @ \/ l.state = "TO_SHARED"]

CacheToDirty(l) == [l EXCEPT !.state = "DIRTY", !.lru = TRUE]

CacheToToInvalid(l) == [l EXCEPT !.state = "TO_INVALID"]

CacheToToDirty(l) == [l EXCEPT !.state = "TO_DIRTY", !.lru = FALSE]

CacheUndoShared(l) == [l EXCEPT !.state = "SHARED"]

\* A hit moves the line to the front of its LRU list; one in transition stays put.
CacheTouch(l) == [l EXCEPT !.lru = @ \/ l.state \in {"SHARED", "DIRTY"}]

CacheRLock(l) == [l EXCEPT !.lock = @ + 1]

CacheWLock(l) == [l EXCEPT !.lock = EXCLUSIVE_LOCK_TAG]

CacheUnLock(l) == [l EXCEPT !.lock = IF CacheWLocked(l) THEN 0 ELSE @ - 1]

\* The writes of t that fence the locks and unlocks of t (Fence::pending_writes).
PendingWrites(t) == issued[t] \ done

Busy(a) == serving[a].todo # "NONE" \/ serving[a].rq # <<>>

Idle == [todo |-> "NONE", lq |-> <<>>, rq |-> <<>>]

\* Notify: the call is over.  GAlloc::Write is asynchronous, no thread waits for it.
Notify(r, ok, d) ==
  /\ waiting' = IF r.op = "WRITE" THEN waiting ELSE [waiting EXCEPT ![r.t] = FALSE]
  /\ held' = IF ok /\ r.op \in {"RLOCK", "WLOCK"} THEN [held EXCEPT ![r.t] = r.op] ELSE held
  /\ seen' = [seen EXCEPT ![r.t] = CASE r.op = "READ" -> d
                                     [] r.op = "WRITE" -> @ \cup {r.w}
                                     [] OTHER -> @]

\* The call is not over: its thread spins, unless the call is asynchronous.
Suspend(r) ==
  /\ waiting' = IF r.op = "WRITE" THEN waiting ELSE [waiting EXCEPT ![r.t] = TRUE]
  /\ UNCHANGED <<held, seen>>

AddToServeLocalRequest(n, r) ==
  /\ local' = [local EXCEPT ![n] = Append(@, r)]
  /\ Suspend(r)
  /\ UNCHANGED <<dir, mem, cache, pend, chan, done>>

\* The lock is taken: a try fails, a blocking call is queued.
LockFailed(n, r) ==
  IF r.try THEN Notify(r, FALSE, {}) /\ UNCHANGED <<dir, mem, cache, pend, chan, local, done>>
           ELSE AddToServeLocalRequest(n, r)

\* ProcessToServeRequest: from its next step on, actor a re-processes what is
\* queued for the block, the local requests before the remote ones.
ProcessToServeRequest(a) == serving' = [serving EXCEPT ![a].todo = "LOCAL"]

-----------------------------------------------------------------------------
(* Calls of the application at Home *)

\* A request from Home to the caches that hold a copy, on behalf of call r.  The
\* answers to an invalidation are counted; a read waits for its one answer.
AskCaches(op, r, d) ==
  /\ pend' = [pend EXCEPT ![Home] = OwnWork(op, r, Cardinality(dir.shared))]
  /\ chan' = PostAll(chan, Home, dir.shared, Ask(op, r.try))
  /\ dir' = d
  /\ Suspend(r)
  /\ UNCHANGED <<mem, cache, local, done>>

ProcessLocalRead(r) ==
  \/ DirInTransition(dir) /\ AddToServeLocalRequest(Home, r)
  \/ dir.state = "DIRTY" /\ AskCaches("FETCH_AND_SHARED", r, DirToToShared(dir))
  \/ /\ dir.state \in {"UNSHARED", "SHARED"}
     /\ Notify(r, TRUE, mem)
     /\ UNCHANGED <<dir, mem, cache, pend, chan, local, done>>

ProcessLocalWrite(r) ==
  \/ DirInTransition(dir) /\ AddToServeLocalRequest(Home, r)
  \/ dir.state = "DIRTY" /\ AskCaches("FETCH_AND_INVALIDATE", r, DirToToUnShared(dir))
  \/ dir.state = "SHARED" /\ AskCaches("INVALIDATE", r, DirToToUnShared(dir))
  \/ /\ dir.state = "UNSHARED"
     /\ mem' = mem \cup {r.w}
     /\ done' = done \cup {r.w}
     /\ Notify(r, TRUE, {})
     /\ UNCHANGED <<dir, cache, pend, chan, local>>

ProcessLocalRLock(r) ==
  \/ DirInTransition(dir) /\ AddToServeLocalRequest(Home, r)
  \/ dir.state = "DIRTY" /\ AskCaches("FETCH_AND_SHARED", r, DirToToShared(dir))
  \/ /\ dir.state \in {"UNSHARED", "SHARED"}
     /\ IF DirCanRLock(dir)
        THEN /\ dir' = DirRLock(dir)
             /\ Notify(r, TRUE, {})
             /\ UNCHANGED <<mem, cache, pend, chan, local, done>>
        ELSE LockFailed(Home, r)

ProcessLocalWLock(r) ==
  \/ DirInTransition(dir) /\ AddToServeLocalRequest(Home, r)
  \/ dir.state = "DIRTY" /\ AskCaches("FETCH_AND_INVALIDATE", r, DirToToUnShared(dir))
  \/ dir.state = "SHARED" /\ AskCaches("INVALIDATE", r, DirToToUnShared(dir))
  \/ /\ dir.state = "UNSHARED"
     /\ IF DirCanWLock(dir)
        THEN /\ dir' = DirWLock(dir)
             /\ Notify(r, TRUE, {})
             /\ UNCHANGED <<mem, cache, pend, chan, local, done>>
        ELSE LockFailed(Home, r)

-----------------------------------------------------------------------------
(* Calls of the application at a worker that caches the block *)

\* No line: one is allocated and the request goes to Home.
Miss(n, r, state, op) ==
  /\ cache' = [cache EXCEPT ![n] = NewLine(state)]
  /\ pend' = [pend EXCEPT ![n] = OwnWork(op, r, 0)]
  /\ chan' = Post(chan, n, Home, <<Ask(op, r.try)>>)
  /\ Suspend(r)
  /\ UNCHANGED <<dir, mem, local, done>>

\* A shared line to be written or write-locked: only the permission is asked
\* for.  A write is copied into the line before the permission is there.
Upgrade(n, r) ==
  /\ LET data == IF r.op = "WRITE" THEN cache[n].data \cup {r.w} ELSE cache[n].data
     IN  cache' = [cache EXCEPT ![n] = [CacheToToDirty(cache[n]) EXCEPT !.data = data]]
  /\ pend' = [pend EXCEPT ![n] = OwnWork("WRITE_PERMISSION_ONLY", r, 0)]
  /\ chan' = Post(chan, n, Home, <<Ask("WRITE_PERMISSION_ONLY", r.try)>>)
  /\ Suspend(r)
  /\ UNCHANGED <<dir, mem, local, done>>

\* Mutant: reads do not wait for a line in transition.
CacheReadableAlways(l) == l.state # "NOT_EXIST"

\* A line on its way out, and a locked one on its way to dirty, still serve reads.
CacheReadable(l) ==
  \/ l.state \in {"SHARED", "DIRTY", "TO_INVALID"}
  \/ l.state = "TO_DIRTY" /\ CacheBlockLocked(l)

CacheRead(n, r) ==
  \/ cache[n].state = "NOT_EXIST" /\ Miss(n, r, "TO_SHARED", "READ")
  \/ /\ CacheReadable(cache[n])
     /\ Notify(r, TRUE, cache[n].data)
     /\ cache' = [cache EXCEPT ![n] = CacheTouch(@)]
     /\ UNCHANGED <<dir, mem, pend, chan, local, done>>
  \/ /\ CacheInTransition(cache[n]) /\ ~CacheReadable(cache[n])
     /\ AddToServeLocalRequest(n, r)

CacheWrite(n, r) ==
  \/ cache[n].state = "NOT_EXIST" /\ Miss(n, r, "TO_DIRTY", "WRITE")
  \/ cache[n].state = "SHARED" /\ Upgrade(n, r)
  \/ /\ cache[n].state = "DIRTY"
     /\ cache' = [cache EXCEPT ![n].data = @ \cup {r.w}]
     /\ done' = done \cup {r.w}
     /\ Notify(r, TRUE, {})
     /\ UNCHANGED <<dir, mem, pend, chan, local>>
  \/ CacheInTransition(cache[n]) /\ AddToServeLocalRequest(n, r)

CacheRLockCall(n, r) ==
  \/ cache[n].state = "NOT_EXIST" /\ Miss(n, r, "TO_SHARED", "READ")
  \/ /\ cache[n].state \in {"SHARED", "DIRTY"}
     /\ IF ~CacheWLocked(cache[n])
        THEN /\ cache' = [cache EXCEPT ![n] = CacheRLock(CacheTouch(@))]
             /\ Notify(r, TRUE, {})
             /\ UNCHANGED <<dir, mem, pend, chan, local, done>>
        ELSE LockFailed(n, r)
  \/ CacheInTransition(cache[n]) /\ AddToServeLocalRequest(n, r)

CacheWLockCall(n, r) ==
  \/ cache[n].state = "NOT_EXIST" /\ Miss(n, r, "TO_DIRTY", "WRITE")
  \/ cache[n].state = "SHARED" /\ Upgrade(n, r)
  \/ /\ cache[n].state = "DIRTY"
     /\ IF ~CacheBlockLocked(cache[n])
        THEN /\ cache' = [cache EXCEPT ![n] = CacheWLock(@)]
             /\ Notify(r, TRUE, {})
             /\ UNCHANGED <<dir, mem, pend, chan, local, done>>
        ELSE LockFailed(n, r)
  \/ CacheInTransition(cache[n]) /\ AddToServeLocalRequest(n, r)

ProcessLocalRequest(n, r) ==
  CASE r.op = "READ"  -> IF n = Home THEN ProcessLocalRead(r)  ELSE CacheRead(n, r)
    [] r.op = "WRITE" -> IF n = Home THEN ProcessLocalWrite(r) ELSE CacheWrite(n, r)
    [] r.op = "RLOCK" -> IF n = Home THEN ProcessLocalRLock(r) ELSE CacheRLockCall(n, r)
    [] r.op = "WLOCK" -> IF n = Home THEN ProcessLocalWLock(r) ELSE CacheWLockCall(n, r)
-----------------------------------------------------------------------------
(* Requests from other workers.  c is chan without the message m from s. *)

AddToServeRemoteRequest(n, s, m, c) ==
  /\ remote' = [remote EXCEPT ![n] = Append(@, [from |-> s, msg |-> m])]
  /\ chan' = c
  /\ UNCHANGED <<dir, cache, pend>>

Answer(c, n, s, ms) == chan' = Post(c, n, s, ms) /\ UNCHANGED <<pend, remote>>

\* READ of s at Home
ProcessRemoteRead(s, m, c) ==
  \/ /\ DirInTransition(dir)
     /\ AddToServeRemoteRequest(Home, s, m, c)
  \/ /\ dir.state \in {"UNSHARED", "SHARED"} /\ DirBlockWLocked(dir)
     /\ IF m.try THEN Answer(c, Home, s, <<Refuse("READ_REPLY")>>) /\ UNCHANGED <<dir, cache>>
                 ELSE AddToServeRemoteRequest(Home, s, m, c)
  \/ /\ dir.state \in {"UNSHARED", "SHARED"} /\ ~DirBlockWLocked(dir)
     /\ Answer(c, Home, s, DataImm(mem))
     /\ dir' = DirToShared(dir, s)
     /\ UNCHANGED cache
  \/ /\ dir.state = "DIRTY"
     /\ chan' = PostAll(c, Home, dir.shared, Forward("READ_FORWARD", m, s))
     /\ dir' = DirToToShared(dir)
     /\ pend' = [pend EXCEPT ![Home] = ForwardWork("READ_FORWARD", m, s, 0)]
     /\ UNCHANGED <<cache, remote>>

\* The block goes to s: with the data unless s is the only sharer.
Grant(c, s) ==
  LET data == [Msg("RDMA_WRITE") EXCEPT !.data = mem]
  IN  /\ chan' = Post(c, Home, s, IF dir.state = "UNSHARED" THEN <<data, Msg("WRITE_REPLY")>>
                                                           ELSE <<Msg("WRITE_REPLY")>>)
      /\ dir' = DirToDirty(dir, s)
      /\ UNCHANGED <<cache, pend, remote>>

\* WRITE or WRITE_PERMISSION_ONLY of s at Home
ProcessRemoteWrite(s, m, c) ==
  LET others == dir.shared \ {s}
  IN  \/ /\ DirInTransition(dir)
         /\ AddToServeRemoteRequest(Home, s, m, c)
      \/ /\ dir.state \in {"UNSHARED", "SHARED"} /\ DirBlockLocked(dir)
         /\ IF m.try THEN Answer(c, Home, s, <<Refuse("WRITE_REPLY")>>) /\ UNCHANGED <<dir, cache>>
                     ELSE AddToServeRemoteRequest(Home, s, m, c)
      \/ /\ dir.state = "SHARED" /\ ~DirBlockLocked(dir) /\ others # {}
         /\ chan' = PostAll(c, Home, others, Forward("INVALIDATE_FORWARD", m, s))
         /\ dir' = DirToToDirty(dir)
         /\ pend' = [pend EXCEPT ![Home] =
                       ForwardWork("INVALIDATE_FORWARD", m, s, Cardinality(others))]
         /\ UNCHANGED <<cache, remote>>
      \/ /\ dir.state \in {"UNSHARED", "SHARED"} /\ ~DirBlockLocked(dir) /\ others = {}
         /\ Grant(c, s)
      \/ /\ dir.state = "DIRTY"
         /\ chan' = PostAll(c, Home, dir.shared, Forward("WRITE_FORWARD", m, s))
         /\ dir' = DirToToDirty(dir)
         /\ pend' = [pend EXCEPT ![Home] = ForwardWork("WRITE_FORWARD", m, s, 0)]
         /\ UNCHANGED <<cache, remote>>

\* ACTIVE_INVALIDATE of s at Home
ProcessRemoteEvictShared(s, m, c) ==
  IF DirInTransition(dir) THEN AddToServeRemoteRequest(Home, s, m, c)
  ELSE /\ dir' = DirClear(dir, s)
       /\ chan' = c
       /\ UNCHANGED <<cache, pend, remote>>

\* WRITE_BACK of s at Home; its data has come ahead of it
ProcessRemoteEvictDirty(s, m, c) ==
  IF DirInTransition(dir) THEN AddToServeRemoteRequest(Home, s, m, c)
  ELSE /\ dir' = DirClear(dir, s)
       /\ Answer(c, Home, s, <<Msg("IMM")>>)
       /\ UNCHANGED cache

\* A refusal goes to Home and, when the request was forwarded, to the requester.
RefuseBoth(c, n, m, op, forward) ==
  Answer(IF m.op = forward THEN Post(c, n, m.pwid, <<Refuse(op)>>) ELSE c,
         n, Home, <<Refuse(op)>>)

\* FETCH_AND_SHARED or READ_FORWARD at n, which holds the block
ProcessRemoteReadCache(n, m, c) ==
  LET l == cache[n]
      leaving == CacheInTransition(l)
  IN  \/ /\ l.state = "TO_DIRTY"
         /\ AddToServeRemoteRequest(n, Home, m, c)
      \/ /\ l.state \notin {"NOT_EXIST", "TO_DIRTY"} /\ CacheWLocked(l)
         /\ IF m.try THEN /\ RefuseBoth(c, n, m, "READ_REPLY", "READ_FORWARD")
                          /\ UNCHANGED <<dir, cache>>
                     ELSE AddToServeRemoteRequest(n, Home, m, c)
      \/ /\ l.state \notin {"NOT_EXIST", "TO_DIRTY"} /\ ~CacheWLocked(l)
         /\ Answer(IF m.op = "READ_FORWARD" THEN Post(c, n, m.pwid, DataImm(l.data)) ELSE c,
                   n, Home, DataImm(l.data))
         /\ cache' = IF leaving THEN cache ELSE [cache EXCEPT ![n] = CacheToShared(@)]
         /\ UNCHANGED dir

\* The requests that find a line on its way out, and the invalidations that
\* find one on its way to dirty, must not wait for it ("deadlock" in the code).
MustNotWait(l, m) ==
  \/ l.state = "TO_INVALID"
  \/ l.state = "TO_DIRTY" /\ m.op \in {"INVALIDATE", "INVALIDATE_FORWARD"}

\* Mutant: the line is kept shared (ToShared for ToToInvalid).
GiveAwayShared(n, leaving) ==
  /\ cache' = IF leaving THEN cache ELSE [cache EXCEPT ![n].state = "SHARED"]
  /\ UNCHANGED pend

\* The line has been given away: it is kept until the data has been sent.
GiveAway(n, leaving) ==
  IF leaving THEN UNCHANGED <<cache, pend>>
  ELSE /\ cache' = [cache EXCEPT ![n] = CacheToToInvalid(@)]
       /\ pend' = [pend EXCEPT ![n] = [op |-> "PENDING_INVALIDATE"]]

\* INVALIDATE, INVALIDATE_FORWARD, FETCH_AND_INVALIDATE or WRITE_FORWARD at n
ProcessRemoteWriteCache(n, m, c) ==
  LET l == cache[n]
      free == l.state # "NOT_EXIST" /\ (CacheInTransition(l) => MustNotWait(l, m))
      locked == CacheBlockLocked(l)
  IN  \/ /\ l.state = "NOT_EXIST" /\ m.op \in {"INVALIDATE", "INVALIDATE_FORWARD"}
         /\ Answer(c, n, Home, <<Msg("IMM")>>) /\ UNCHANGED <<dir, cache>>
      \/ /\ CacheInTransition(l) /\ ~free
         /\ AddToServeRemoteRequest(n, Home, m, c)
      \/ /\ free /\ locked /\ m.try
         /\ RefuseBoth(c, n, m, "WRITE_REPLY", "WRITE_FORWARD") /\ UNCHANGED <<dir, cache>>
      \/ /\ free /\ locked /\ ~m.try /\ ~CacheInTransition(l)
         /\ AddToServeRemoteRequest(n, Home, m, c)
      \/ /\ free /\ (locked => ~m.try /\ CacheInTransition(l))
         /\ UNCHANGED <<dir, remote>>
         /\ CASE m.op \in {"INVALIDATE", "INVALIDATE_FORWARD"} ->
                   /\ chan' = Post(c, n, Home, <<Msg("IMM")>>)
                   /\ cache' = IF CacheInTransition(l) THEN cache
                                                       ELSE [cache EXCEPT ![n] = NoLine]
                   /\ UNCHANGED pend
              [] m.op = "FETCH_AND_INVALIDATE" ->
                   /\ chan' = Post(c, n, Home, DataImm(l.data))
                   /\ GiveAway(n, CacheInTransition(l))
              [] m.op = "WRITE_FORWARD" ->
                   /\ chan' = Post(Post(c, n, m.pwid, DataImm(l.data)), n, Home, <<Msg("IMM")>>)
                   /\ GiveAway(n, CacheInTransition(l))

ProcessRequest(n, s, m, c) ==
  /\ CASE m.op = "READ" -> ProcessRemoteRead(s, m, c)
       [] m.op \in {"WRITE", "WRITE_PERMISSION_ONLY"} -> ProcessRemoteWrite(s, m, c)
       [] m.op = "ACTIVE_INVALIDATE" -> ProcessRemoteEvictShared(s, m, c)
       [] m.op = "WRITE_BACK" -> ProcessRemoteEvictDirty(s, m, c)
       [] m.op \in {"FETCH_AND_SHARED", "READ_FORWARD"} -> ProcessRemoteReadCache(n, m, c)
       [] OTHER -> ProcessRemoteWriteCache(n, m, c)
  /\ UNCHANGED <<mem, local, threads, done, issued>>

-----------------------------------------------------------------------------
(* Replies, taken by the service thread of n, which then re-processes the  *)
(* queued requests.                                                        *)

EndWork(n) == pend' = [pend EXCEPT ![n] = NoWork]

ProcessRemoteReadReply(n, c) ==
  LET w == pend[n]
  IN  /\ w.op \in ReadWork \cup {"READ_FORWARD"}
      /\ IF w.op = "READ" THEN cache' = [cache EXCEPT ![n] = NoLine] /\ UNCHANGED dir
                          ELSE dir' = DirUndoDirty(dir) /\ UNCHANGED cache
      /\ IF w.op = "READ_FORWARD" THEN UNCHANGED threads ELSE Notify(w.req, FALSE, {})
      /\ EndWork(n)
      /\ chan' = c
      /\ ProcessToServeRequest(n)
      /\ UNCHANGED <<mem, local, remote, done, issued>>

\* The data of a READ or FETCH_AND_SHARED is there.
ProcessPendingRead(n, c) ==
  LET r == pend[n].req
  IN  /\ pend[n].op \in ReadWork
      /\ IF n = Home
         THEN /\ dir' = IF r.op = "RLOCK" THEN DirRLock(DirOwnerToShared(dir))
                                          ELSE DirOwnerToShared(dir)
              /\ Notify(r, TRUE, mem)
              /\ UNCHANGED cache
         ELSE /\ cache' = [cache EXCEPT ![n] = IF r.op = "RLOCK" THEN CacheRLock(CacheToShared(@))
                                                                 ELSE CacheToShared(@)]
              /\ Notify(r, TRUE, cache[n].data)
              /\ UNCHANGED dir
      /\ EndWork(n)
      /\ chan' = c
      /\ ProcessToServeRequest(n)
      /\ UNCHANGED <<mem, local, remote, done, issued>>

\* Mutant: the requests that queued up behind the block are not re-processed.
ReadForwardOnly(c) ==
  /\ pend[Home].op = "READ_FORWARD"
  /\ dir' = DirToShared(DirOwnerToShared(dir), pend[Home].pwid)
  /\ EndWork(Home)
  /\ chan' = c
  /\ UNCHANGED <<mem, cache, local, remote, serving, threads, done, issued>>

ProcessPendingReadForward(c) ==
  /\ pend[Home].op = "READ_FORWARD"
  /\ dir' = DirToShared(DirOwnerToShared(dir), pend[Home].pwid)
  /\ EndWork(Home)
  /\ chan' = c
  /\ ProcessToServeRequest(Home)
  /\ UNCHANGED <<mem, cache, local, remote, threads, done, issued>>

\* Mutant: the first answer erases the pending work.
KeepNoWork(n, w, d, c) ==
  /\ pend' = [pend EXCEPT ![n] = NoWork]
  /\ dir' = d
  /\ chan' = c
  /\ UNCHANGED <<mem, cache, local, remote, serving, threads, done, issued>>

\* The work stays, with d the new directory entry.
KeepWork(n, w, d, c) ==
  /\ pend' = [pend EXCEPT ![n] = w]
  /\ dir' = d
  /\ chan' = c
  /\ UNCHANGED <<mem, cache, local, remote, serving, threads, done, issued>>

\* A try lock was refused: the work w undoes its change once all have answered.
WriteFailed(n, w, d, c) ==
  IF w.counter # 0 THEN KeepWork(n, w, d, c)
  ELSE /\ dir' = CASE w.op = "FETCH_AND_INVALIDATE" -> DirUndoDirty(d)
                   [] w.op = "INVALIDATE" -> DirUndoShared(d)
                   [] OTHER -> d
       /\ cache' = CASE w.op = "WRITE" -> [cache EXCEPT ![n] = NoLine]
                     [] w.op = "WRITE_PERMISSION_ONLY" -> [cache EXCEPT ![n] = CacheUndoShared(@)]
                     [] OTHER -> cache
       /\ Notify(w.req, FALSE, {})
       /\ EndWork(n)
       /\ chan' = c
       /\ ProcessToServeRequest(n)
       /\ UNCHANGED <<mem, local, remote, done, issued>>

\* All have answered: the write, or the write lock, of w is done.
WriteDone(n, w, d, c) ==
  LET r    == w.req
      new  == IF r.op = "WRITE" THEN {r.w} ELSE {}
      line == [CacheToDirty(cache[n]) EXCEPT !.data = @ \cup new]
      ent  == DirToUnShared(d)
      lock == r.op = "WLOCK"
      can  == IF n = Home THEN DirCanWLock(ent) ELSE ~CacheBlockLocked(line)
  IN  /\ IF n = Home
         THEN /\ dir' = IF lock /\ can THEN DirWLock(ent) ELSE ent
              /\ mem' = mem \cup new
              /\ UNCHANGED cache
         ELSE /\ cache' = [cache EXCEPT ![n] = IF lock /\ can THEN CacheWLock(line) ELSE line]
              /\ UNCHANGED <<dir, mem>>
      /\ done' = done \cup new
      /\ IF lock /\ ~can THEN Suspend(r) ELSE Notify(r, TRUE, {})
      /\ EndWork(n)
      /\ chan' = c
      /\ ProcessToServeRequest(n)
      /\ local' = IF lock /\ ~can THEN [local EXCEPT ![n] = Append(@, r)] ELSE local
      /\ UNCHANGED <<remote, issued>>

\* An acknowledgement from s for a write or write lock of n.  A forwarded write
\* is answered twice, by Home (+1) and by the old owner (-1), in any order.
ProcessPendingWrite(n, s, c) ==
  LET w == [pend[n] EXCEPT !.counter = IF s = Home THEN @ + 1 ELSE @ - 1]
      d == IF n = Home THEN DirRemove(dir, s) ELSE dir
  IN  /\ pend[n].op \in WriteWork
      /\ IF w.failed THEN WriteFailed(n, w, d, c)
         ELSE IF w.counter = 0 THEN WriteDone(n, w, d, c)
         ELSE KeepWork(n, w, d, c)

\* The old owner has sent the block to the new one.
ProcessPendingWriteForward(c) ==
  /\ pend[Home].op = "WRITE_FORWARD"
  /\ dir' = DirToDirty(dir, pend[Home].pwid)
  /\ chan' = Post(c, Home, pend[Home].pwid, <<Msg("IMM")>>)
  /\ EndWork(Home)
  /\ ProcessToServeRequest(Home)
  /\ UNCHANGED <<mem, cache, local, remote, threads, done, issued>>

ProcessPendingEvictDirty(n, c) ==
  /\ pend[n].op = "WRITE_BACK"
  /\ cache' = [cache EXCEPT ![n] = NoLine]
  /\ EndWork(n)
  /\ chan' = c
  /\ ProcessToServeRequest(n)
  /\ UNCHANGED <<dir, mem, local, remote, threads, done, issued>>

\* Home gives up the invalidation for w.pwid, whose try lock some sharer refused.
InvalidateForwardFailed(w, d, c) ==
  IF w.counter # 0 THEN KeepWork(Home, w, d, c)
  ELSE /\ dir' = DirUndoShared(d)
       /\ chan' = Post(c, Home, w.pwid, <<Refuse("WRITE_REPLY")>>)
       /\ EndWork(Home)
       /\ ProcessToServeRequest(Home)
       /\ UNCHANGED <<mem, cache, local, remote, threads, done, issued>>

\* Sharer s has invalidated its copy for the write of w.pwid.  The last one lets
\* Home grant the block, with the data unless the requester still has it.
ProcessPendingInvalidateForward(s, c) ==
  LET w == [pend[Home] EXCEPT !.counter = @ - 1]
      d == DirRemove(dir, s)
      data == [Msg("RDMA_WRITE") EXCEPT !.data = mem]
  IN  /\ pend[Home].op = "INVALIDATE_FORWARD"
      /\ IF w.failed THEN InvalidateForwardFailed(w, d, c)
         ELSE IF w.counter # 0 THEN KeepWork(Home, w, d, c)
         ELSE /\ dir' = DirToDirty(d, w.pwid)
              /\ chan' = Post(c, Home, w.pwid,
                              IF w.parent = "WRITE" \/ d.state = "UNSHARED"
                              THEN <<data, Msg("WRITE_REPLY")>> ELSE <<Msg("WRITE_REPLY")>>)
              /\ EndWork(Home)
              /\ ProcessToServeRequest(Home)
              /\ UNCHANGED <<mem, cache, local, remote, threads, done, issued>>

ProcessRemoteWriteReply(n, s, m, c) ==
  LET w == [pend[n] EXCEPT !.failed = TRUE,
                           !.counter = IF s = Home THEN 0 ELSE @ - 1]
  IN  \/ /\ m.ok /\ pend[n].op \in WriteWork
         /\ IF pend[n].counter = 0 THEN WriteDone(n, pend[n], dir, c)
                                   ELSE KeepWork(n, pend[n], dir, c)
      \/ /\ ~m.ok /\ pend[n].op \in WriteWork
         /\ WriteFailed(n, w, dir, c)
      \/ /\ ~m.ok /\ pend[n].op = "INVALIDATE_FORWARD"
         /\ InvalidateForwardFailed(w, dir, c)
      \/ /\ ~m.ok /\ pend[n].op = "WRITE_FORWARD"
         /\ dir' = DirUndoDirty(dir)
         /\ chan' = Post(c, n, pend[n].pwid, <<Msg("IMM")>>)
         /\ EndWork(n)
         /\ ProcessToServeRequest(n)
         /\ UNCHANGED <<mem, cache, local, remote, threads, done, issued>>

ProcessReply(n, s, m, c) ==
  CASE m.op = "READ_REPLY" -> ProcessRemoteReadReply(n, c)
    [] m.op = "WRITE_REPLY" -> ProcessRemoteWriteReply(n, s, m, c)
    [] m.op = "IMM" -> \/ ProcessPendingRead(n, c)
                       \/ n = Home /\ ProcessPendingReadForward(c)
                       \/ ProcessPendingWrite(n, s, c)
                       \/ n = Home /\ ProcessPendingWriteForward(c)
                       \/ ProcessPendingEvictDirty(n, c)
                       \/ n = Home /\ ProcessPendingInvalidateForward(s, c)

-----------------------------------------------------------------------------
(* The specification *)

\* Thread t makes a call.  Locks wait for the writes that t has in flight.
Call(t) ==
  /\ ~waiting[t] /\ ~Busy(t)
  /\ \E call \in Calls[t][held[t]] :
       LET w == IF call[1] = "WRITE" THEN Cardinality(UNION {issued[u] : u \in Thread}) + 1 ELSE 0
       IN  /\ call[1] = "WRITE" => w <= MaxWrites
           /\ call[1] \in {"RLOCK", "WLOCK"} => PendingWrites(t) = {}
           /\ ProcessLocalRequest(At[t], [t |-> t, op |-> call[1], try |-> call[2], w |-> w])
           /\ issued' = IF w = 0 THEN issued ELSE [issued EXCEPT ![t] = @ \cup {w}]
  /\ UNCHANGED <<remote, serving>>

\* Mutant: the requests that wait for the lock are not re-processed.
UnLockOnly(t) ==
  LET n == At[t]
  IN  /\ ~waiting[t] /\ ~Busy(t) /\ held[t] # "NONE" /\ PendingWrites(t) = {}
      /\ held' = [held EXCEPT ![t] = "NONE"]
      /\ IF n = Home THEN dir' = DirUnLock(dir) /\ UNCHANGED cache
                     ELSE cache' = [cache EXCEPT ![n] = CacheUnLock(@)] /\ UNCHANGED dir
      /\ UNCHANGED <<mem, pend, chan, local, remote, serving, waiting, seen, done, issued>>

UnLock(t) ==
  LET n == At[t]
  IN  /\ ~waiting[t] /\ ~Busy(t) /\ held[t] # "NONE" /\ PendingWrites(t) = {}
      /\ held' = [held EXCEPT ![t] = "NONE"]
      /\ IF n = Home THEN dir' = DirUnLock(dir) /\ UNCHANGED cache
                     ELSE cache' = [cache EXCEPT ![n] = CacheUnLock(@)] /\ UNCHANGED dir
      /\ ProcessToServeRequest(t)
      /\ UNCHANGED <<mem, pend, chan, local, remote, waiting, seen, done, issued>>

\* The service thread of n takes the next message from s.
Receive(n, s) ==
  /\ ~Busy(n) /\ chan[s][n] # <<>>
  /\ LET m == Head(chan[s][n])
         c == [chan EXCEPT ![s][n] = Tail(@)]
     IN  \/ m.op \in ToHome \cup ToCache /\ ProcessRequest(n, s, m, c) /\ UNCHANGED serving
         \/ m.op \in Reply /\ ProcessReply(n, s, m, c)

\* The network card of n writes the data from s into the block.
RdmaWrite(n, s) ==
  /\ chan[s][n] # <<>> /\ Head(chan[s][n]).op = "RDMA_WRITE"
  /\ LET d == Head(chan[s][n]).data
     IN  IF n = Home THEN mem' = d /\ UNCHANGED cache
                     ELSE cache' = [cache EXCEPT ![n].data = d] /\ UNCHANGED mem
  /\ chan' = [chan EXCEPT ![s][n] = Tail(@)]
  /\ UNCHANGED <<dir, pend, local, remote, serving, threads, done, issued>>

\* CompletionCheck: the line that n gave away has been sent.
CompletionCheck(n) ==
  /\ ~Busy(n) /\ pend[n].op = "PENDING_INVALIDATE"
  /\ cache' = [cache EXCEPT ![n] = NoLine]
  /\ EndWork(n)
  /\ ProcessToServeRequest(n)
  /\ UNCHANGED <<dir, mem, chan, local, remote, threads, done, issued>>

\* Mutant: a dirty line leaves like a shared one, without its data.
EvictClean(n) ==
  /\ n \in Evicting /\ cache[n].lru /\ ~CacheBlockLocked(cache[n])
  /\ cache[n].state \in {"SHARED", "DIRTY"}
  /\ cache' = [cache EXCEPT ![n] = NoLine]
  /\ chan' = Post(chan, n, Home, <<Msg("ACTIVE_INVALIDATE")>>)
  /\ UNCHANGED <<dir, mem, pend, local, remote, serving, threads, done, issued>>

\* An unlocked line leaves the cache of n: at once, or after its data is home.
Evict(n) ==
  /\ n \in Evicting /\ cache[n].lru /\ ~CacheBlockLocked(cache[n])
  /\ \/ /\ cache[n].state = "SHARED"
        /\ cache' = [cache EXCEPT ![n] = NoLine]
        /\ chan' = Post(chan, n, Home, <<Msg("ACTIVE_INVALIDATE")>>)
        /\ UNCHANGED pend
     \/ /\ cache[n].state = "DIRTY"
        /\ cache' = [cache EXCEPT ![n] = CacheToToInvalid(@)]
        /\ chan' = Post(chan, n, Home, <<[Msg("RDMA_WRITE") EXCEPT !.data = cache[n].data],
                                         Msg("WRITE_BACK")>>)
        /\ pend' = [pend EXCEPT ![n] = [op |-> "WRITE_BACK"]]
  /\ UNCHANGED <<dir, mem, local, remote, serving, threads, done, issued>>

CopyLocal(a) ==
  /\ serving[a].todo = "LOCAL"
  /\ serving' = [serving EXCEPT ![a].todo = "REMOTE", ![a].lq = local[NodeOf(a)]]
  /\ local' = [local EXCEPT ![NodeOf(a)] = <<>>]
  /\ UNCHANGED <<dir, mem, cache, pend, chan, remote, threads, done, issued>>

ServeLocal(a) ==
  /\ serving[a].lq # <<>>
  /\ ProcessLocalRequest(NodeOf(a), Head(serving[a].lq))
  /\ serving' = [serving EXCEPT ![a].lq = Tail(@)]
  /\ UNCHANGED <<remote, issued>>

CopyRemote(a) ==
  /\ serving[a].todo = "REMOTE" /\ serving[a].lq = <<>>
  /\ serving' = [serving EXCEPT ![a].todo = "NONE", ![a].rq = remote[NodeOf(a)]]
  /\ remote' = [remote EXCEPT ![NodeOf(a)] = <<>>]
  /\ UNCHANGED <<dir, mem, cache, pend, chan, local, threads, done, issued>>

ServeRemote(a) ==
  /\ serving[a].rq # <<>>
  /\ LET q == Head(serving[a].rq)
     IN  ProcessRequest(NodeOf(a), q.from, q.msg, chan)
  /\ serving' = [serving EXCEPT ![a].rq = Tail(@)]

Init ==
  /\ dir = NoEntry
  /\ mem = {}
  /\ cache = [n \in Remote |-> NoLine]
  /\ pend = [n \in Node |-> NoWork]
  /\ chan = [s \in Node |-> [d \in Node |-> <<>>]]
  /\ local = [n \in Node |-> <<>>]
  /\ remote = [n \in Node |-> <<>>]
  /\ serving = [a \in Actor |-> Idle]
  /\ waiting = [t \in Thread |-> FALSE]
  /\ held = [t \in Thread |-> "NONE"]
  /\ seen = [t \in Thread |-> {}]
  /\ done = {}
  /\ issued = [t \in Thread |-> {}]

Next ==
  \/ \E t \in Thread : Call(t) \/ UnLock(t)
  \/ \E n, s \in Node : Receive(n, s) \/ RdmaWrite(n, s)
  \/ \E n \in Remote : CompletionCheck(n) \/ Evict(n)
  \/ \E a \in Actor : CopyLocal(a) \/ ServeLocal(a) \/ CopyRemote(a) \/ ServeRemote(a)

Spec == Init /\ [][Next]_vars

-----------------------------------------------------------------------------
(* Properties *)

\* Queue pairs join different workers and deliver what their receiver serves.
ChanOK(c) ==
  /\ DOMAIN c = Node /\ \A s \in Node : DOMAIN c[s] = Node
  /\ \A s, n \in Node : c[s][n] \in Seq(Inbox(n))
  /\ c[Home][Home] = <<>>

\* Every variable has its type.
TypeOK ==
  /\ dir \in Entry(Remote)
  /\ mem \in Data
  /\ cache \in [Remote -> Line]
  /\ pend \in [Node -> Work]
  /\ ChanOK(chan)
  /\ local \in [Node -> Seq(Request)]
  /\ DOMAIN remote = Node /\ \A n \in Node : remote[n] \in Seq(Queued(n))
  /\ DOMAIN serving = Actor
  /\ \A a \in Actor :
       serving[a] \in [todo : {"NONE", "LOCAL", "REMOTE"}, lq : Seq(Request),
                      rq : Seq(Queued(NodeOf(a)))]
  /\ waiting \in [Thread -> BOOLEAN]
  /\ held \in [Thread -> Lock]
  /\ seen \in [Thread -> Data]
  /\ done \in Data
  /\ issued \in [Thread -> Data]

Copy(n) == cache[n].state \in {"SHARED", "DIRTY"}

\* A worker that may write its copy is alone: no other cache has a copy, and the
\* home worker neither reads nor writes its memory.  A dirty entry has one owner,
\* the one that requests for the block are forwarded to.
SingleWriter ==
  /\ dir.state = "DIRTY" => Cardinality(dir.shared) = 1
  /\ \A n \in Remote : cache[n].state = "DIRTY" =>
       /\ \A o \in Remote \ {n} : ~Copy(o)
       /\ dir.state \notin {"UNSHARED", "SHARED"}

\* Whatever may be read holds every write performed so far: a copy in a cache,
\* and the memory of the home worker while its directory lets it be used.
CopiesCurrent ==
  /\ \A n \in Remote : Copy(n) => cache[n].data = done
  /\ dir.state \in {"UNSHARED", "SHARED"} => mem = done

\* The directory knows every copy, so that every copy can be invalidated; one
\* that the owner has just sent on the directory's behalf is about to be listed.
DirectoryComplete ==
  \A n \in Remote : Copy(n) =>
    \/ n \in dir.shared
    \/ pend[Home].op = "READ_FORWARD" /\ pend[Home].pwid = n

\* A write lock excludes every other lock, wherever the threads run.
LockExclusion ==
  \A t, u \in Thread : t # u /\ held[t] = "WLOCK" => held[u] = "NONE"

\* What the holder of a lock reads is current, even while its line is in transition.
HolderCurrent ==
  \A t \in Thread : held[t] # "NONE" =>
    done \subseteq (IF At[t] = Home THEN mem ELSE cache[At[t]].data)

\* An answer finds the pending work it is for, of a kind it can answer.
AnswerExpected ==
  \A s, n \in Node : \A i \in DOMAIN chan[s][n] :
    CASE chan[s][n][i].op = "READ_REPLY" -> pend[n].op \in ReadWork \cup {"READ_FORWARD"}
      [] chan[s][n][i].op = "WRITE_REPLY" ->
           pend[n].op \in WriteWork \cup {"WRITE_FORWARD", "INVALIDATE_FORWARD"}
      [] chan[s][n][i].op = "IMM" -> pend[n].op \notin {"NONE", "PENDING_INVALIDATE"}
      [] OTHER -> TRUE

\* A request for the data of the block that is sent to a cache finds a line there,
\* on arrival and when it had to wait.
RequestFindsLine ==
  LET Wanted(m) == m.op \in ToCache \ {"INVALIDATE", "INVALIDATE_FORWARD"}
  IN  /\ \A n \in Remote : cache[n].state = "NOT_EXIST" =>
           /\ \A i \in DOMAIN chan[Home][n] : ~Wanted(chan[Home][n][i])
           /\ \A i \in DOMAIN remote[n] : ~Wanted(remote[n][i].msg)
      /\ \A a \in Actor : \A i \in DOMAIN serving[a].rq :
           Wanted(serving[a].rq[i].msg) => cache[NodeOf(a)].state # "NOT_EXIST"

\* One-sided writes land where nobody reads: in a line that waits for its data,
\* or in the home memory while another worker owns the block.
DataLandsUnseen ==
  \A s, n \in Node : \A i \in DOMAIN chan[s][n] : chan[s][n][i].op = "RDMA_WRITE" =>
    IF n = Home THEN dir.state \notin {"UNSHARED", "SHARED"}
                ELSE cache[n].state \in {"TO_SHARED", "TO_DIRTY"}

\* The home worker never lists a worker twice: who asks to read is not listed.
ListedOnce ==
  /\ \A n \in Remote : (~Busy(Home) /\ chan[n][Home] # <<>> /\ Head(chan[n][Home]).op = "READ"
                        /\ ~DirInTransition(dir)) => n \notin dir.shared
  /\ \A a \in Actor : (serving[a].rq # <<>> /\ Head(serving[a].rq).msg.op = "READ"
                       /\ ~DirInTransition(dir)) => Head(serving[a].rq).from \notin dir.shared
  /\ pend[Home].op = "READ_FORWARD" => pend[Home].pwid \notin dir.shared

\* ToShared asserts that the worker whose READ is served is not the first one in
\* the list already (directory.cc:47-53).
ReaderNotInFront ==
  \A n \in Remote :
    (/\ ~Busy(Home) /\ chan[n][Home] # <<>> /\ Head(chan[n][Home]).op = "READ"
     /\ dir.state \in {"UNSHARED", "SHARED"} /\ ~DirBlockWLocked(dir)) => dir.shared # {n}

\* A cache that lets a request of Home wait is not itself waiting for Home: the two
\* causes of deadlock that ProcessRemoteWriteCache names are the only ones.
NoMutualWait ==
  \A n \in Remote :
    ~ (/\ remote[n] # <<>> /\ DirInTransition(dir)
       /\ \E i \in DOMAIN remote[Home] : remote[Home][i].from = n /\ remote[Home][i].msg.op = "READ")

Abstract == INSTANCE BlockMemory WITH block <- done, view <- seen

\* What the application threads see is a block memory: writes, reads and locks
\* take effect one at a time, wherever the threads run and the copies are.
ImplementsBlockMemory == Abstract!AbstractSpec

\* The work of worker n that no application thread does: its network card lands
\* data, and its service thread takes completions and re-processes requests.
Service(n) ==
  \/ \E s \in Node : Receive(n, s) \/ RdmaWrite(n, s)
  \/ n \in Remote /\ CompletionCheck(n)
  \/ CopyLocal(n) \/ ServeLocal(n) \/ CopyRemote(n) \/ ServeRemote(n)

\* Service threads poll forever.
FairSpec == Spec /\ \A n \in Node : WF_vars(Service(n))

\* Every blocking call returns, and every asynchronous write is performed in the end.
CallsReturn ==
  \A t \in Thread : /\ waiting[t] ~> ~waiting[t]
                    /\ PendingWrites(t) # {} ~> PendingWrites(t) = {}
=============================================================================

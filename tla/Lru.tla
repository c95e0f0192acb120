---------------------------------- MODULE Lru ----------------------------------
(***************************************************************************)
(* The cache of one worker as a bounded resource: the LRU lists, the       *)
(* counters used_bytes and to_evicted, and eviction (cache.cc, cache.h).   *)
(* Every agent takes the mutex of a block and, under it, the mutex of a    *)
(* list; eviction takes them in the other order and only tries the second. *)
(*                                                                         *)
(* What the states mean to the other workers is the subject of Coherence:  *)
(* here the answers of the home worker and its requests come in any order  *)
(* that the state of the line admits.  A critical section on a list mutex  *)
(* is one step, except the one of the evicting agent, which holds the list *)
(* while it tries the block.  Memory is counted in lines.                  *)
(***************************************************************************)
EXTENDS Integers, Sequences, FiniteSets

CONSTANTS
  Threads,        \* application threads
  Blocks,         \* blocks whose home is another worker
  Lists,          \* the LRU_NUM lists
  max_cache_mem,  \* in lines
  RemoteOps,      \* what the home worker asks of this one
  TryLocks,       \* whether the applications use Try_RLock and Try_WLock
  Garbage,        \* what the counters may hold before they are first used
  LineCalls       \* bound on the calls of each thread

Service == "service"
Timer == "timer"
NoList == "none"
Nobody == "nobody"
Agents == Threads \cup {Service, Timer}

ASSUME LruAssumption ==
  /\ max_cache_mem \in Nat /\ LineCalls \in Nat /\ Garbage \subseteq Int
  /\ RemoteOps \subseteq {"INVALIDATE", "FETCH_AND_SHARED", "FETCH_AND_INVALIDATE"}
  /\ TryLocks \in BOOLEAN
  /\ NoList \notin Lists /\ Nobody \notin Agents
  /\ IsFiniteSet(Threads) /\ IsFiniteSet(Blocks)

VARIABLES
  state,       \* CacheLine::state; INVALID when the block has no line
  pos,         \* CacheLine::pos
  lists,       \* the lists, heads first
  locked,      \* the lines with a non-empty CacheLine::locks
  pending,     \* the request of a line that awaits its answer
  used_bytes, to_evicted, garbage,
  mutex,       \* who holds the mutex of a block
  lru_locks,   \* who holds the mutex of a list
  agent,       \* what each agent is doing
  calls

CacheVars ==
  <<state, pos, lists, locked, pending, used_bytes, to_evicted, garbage, mutex,
    lru_locks, agent, calls>>

lines == <<state, locked, pending>>
counters == <<used_bytes, to_evicted, garbage>>

Idle == [at |-> "idle"]
None == [op |-> "none"]
InTransitionState(b) == state[b] \in {"TO_SHARED", "TO_DIRTY", "TO_INVALID"}

\* Cache() leaves both counters uninitialized.
CacheInit ==
  /\ state = [b \in Blocks |-> "INVALID"]
  /\ pos = [b \in Blocks |-> NoList]
  /\ lists = [i \in Lists |-> <<>>]
  /\ locked = {}
  /\ pending = [b \in Blocks |-> None]
  /\ garbage \in Garbage \X Garbage
  /\ used_bytes = garbage[1] /\ to_evicted = garbage[2]
  /\ mutex = [b \in Blocks |-> Nobody]
  /\ lru_locks = [i \in Lists |-> Nobody]
  /\ agent = [a \in Agents |-> Idle]
  /\ calls = [t \in Threads |-> 0]

-----------------------------------------------------------------------------
(* The lists *)

\* The line b is on the list s.
Listed(s, b) == \E k \in 1 .. Len(s) : s[k] = b

\* The list s without the line b, if b is on it.
Unlinked(s, b) ==
  IF Listed(s, b)
  THEN LET k == CHOOSE k \in 1 .. Len(s) : s[k] = b
       IN  [j \in 1 .. (Len(s) - 1) |-> IF j < k THEN s[j] ELSE s[j + 1]]
  ELSE s

\* UnLinkLRU(cline) up to its list mutex: pos is reset first.  A line on no
\* list skips the rest.  n: lines an evicting agent still wants, else 0.
UnLinkLRU(a, b, then, n) ==
  /\ mutex' = [mutex EXCEPT ![b] = a]
  /\ pos' = [pos EXCEPT ![b] = NoList]
  /\ agent' = [agent EXCEPT ![a] =
       [at |-> IF pos[b] = NoList THEN then ELSE "unlink",
        b |-> b, i |-> pos[b], then |-> then, n |-> n]]

\* UnLinkLRU(cline, i) under the mutex of list i.  A line that the evicting
\* agent has already taken off is not found, and nothing happens.
Unlink(a) ==
  LET g == agent[a] IN
  /\ g.at = "unlink" /\ lru_locks[g.i] = Nobody
  /\ lists' = [lists EXCEPT ![g.i] = Unlinked(@, g.b)]
  /\ agent' = [agent EXCEPT ![a].at = g.then]
  /\ UNCHANGED <<lines, counters, pos, mutex, lru_locks, calls>>

\* Mutant of LinkLRU: the position is not recorded.
LinkLost(a) ==
  LET g == agent[a] IN
  /\ g.at = "link"
  /\ \E i \in Lists :
       /\ lru_locks[i] = Nobody
       /\ lists' = [lists EXCEPT ![i] = <<g.b>> \o @]
  /\ mutex' = [mutex EXCEPT ![g.b] = Nobody]
  /\ agent' = [agent EXCEPT ![a] = Idle]
  /\ UNCHANGED <<lines, counters, pos, lru_locks, calls>>

\* LinkLRU at the head of some list, then the handler gives the block back.
LinkLRU(a) ==
  LET g == agent[a] IN
  /\ g.at = "link"
  /\ \E i \in Lists :
       /\ lru_locks[i] = Nobody
       /\ lists' = [lists EXCEPT ![i] = <<g.b>> \o @]
       /\ pos' = [pos EXCEPT ![g.b] = i]
  /\ mutex' = [mutex EXCEPT ![g.b] = Nobody]
  /\ agent' = [agent EXCEPT ![a] = Idle]
  /\ UNCHANGED <<lines, counters, lru_locks, calls>>

\* The handler of an upgrade gives the block back.
Release(a) ==
  /\ agent[a].at = "release"
  /\ mutex' = [mutex EXCEPT ![agent[a].b] = Nobody]
  /\ agent' = [agent EXCEPT ![a] = Idle]
  /\ UNCHANGED <<lines, counters, pos, lists, lru_locks, calls>>

\* Mutant of ToInvalid: the memory is not counted as free.
ToInvalidUncounted(a, b, n) ==
  /\ used_bytes' = used_bytes
  /\ UnLinkLRU(a, b, "erase", n)

\* ToInvalid: the memory goes first, then the list, then the line.
ToInvalid(a, b, n) ==
  /\ used_bytes' = used_bytes - 1
  /\ UnLinkLRU(a, b, "erase", n)

Erase(a) ==
  LET g == agent[a] IN
  /\ g.at = "erase"
  /\ state' = [state EXCEPT ![g.b] = "INVALID"]
  /\ mutex' = [mutex EXCEPT ![g.b] = Nobody]
  /\ agent' = [agent EXCEPT ![a] =
       IF g.n = 0 THEN Idle ELSE [at |-> "pick", n |-> g.n - 1]]
  /\ UNCHANGED <<counters, pos, lists, locked, pending, lru_locks, calls>>

-----------------------------------------------------------------------------
(* Calls of the application: ReadWrite and Lock *)

Call(t, b) ==
  /\ agent[t] = Idle /\ calls[t] < LineCalls /\ mutex[b] = Nobody
  /\ calls' = [calls EXCEPT ![t] = @ + 1]

\* No line: SetCLine, the request to the home worker, then Evict(newcline).
Miss(t, b) ==
  /\ Call(t, b) /\ state[b] = "INVALID"
  /\ \E op \in {"READ", "WRITE"}, lock \in BOOLEAN :
       /\ state' = [state EXCEPT ![b] = IF op = "READ" THEN "TO_SHARED" ELSE "TO_DIRTY"]
       /\ pending' = [pending EXCEPT ![b] = [op |-> op, lock |-> lock]]
  /\ used_bytes' = used_bytes + 1
  /\ agent' = [agent EXCEPT ![t] = [at |-> "evict", n |-> 1]]
  /\ UNCHANGED <<pos, lists, locked, to_evicted, garbage, mutex, lru_locks>>

\* A read, a write or a lock that the line can serve moves it to a new place.
Hit(t, b) ==
  /\ Call(t, b) /\ state[b] \in {"SHARED", "DIRTY"}
  /\ locked' \in {locked, locked \cup {b}}
  /\ UnLinkLRU(t, b, "link", 0)
  /\ UNCHANGED <<state, pending, counters, lists, lru_locks>>

\* A write or a WLOCK of a shared line.
Upgrade(t, b) ==
  /\ Call(t, b) /\ state[b] = "SHARED"
  /\ state' = [state EXCEPT ![b] = "TO_DIRTY"]
  /\ \E lock \in BOOLEAN :
       pending' = [pending EXCEPT ![b] = [op |-> "WRITE_PERMISSION_ONLY", lock |-> lock]]
  /\ UnLinkLRU(t, b, "release", 0)
  /\ UNCHANGED <<locked, counters, lists, lru_locks>>

UnLock(t, b) ==
  /\ agent[t] = Idle /\ mutex[b] = Nobody
  /\ b \in locked
  /\ locked' = locked \ {b}
  /\ UNCHANGED <<state, pending, counters, pos, lists, mutex, lru_locks, agent, calls>>

-----------------------------------------------------------------------------
(* The service thread: answers, requests of the home worker, completions *)

Serve(b) == agent[Service] = Idle /\ mutex[b] = Nobody

\* Mutant of Granted: ToShared and ToDirty do not link the line.
GrantedUnlinked(b) ==
  /\ Serve(b) /\ state[b] \in {"TO_SHARED", "TO_DIRTY"}
  /\ state' = [state EXCEPT ![b] = IF @ = "TO_SHARED" THEN "SHARED" ELSE "DIRTY"]
  /\ locked' = IF pending[b].lock THEN locked \cup {b} ELSE locked
  /\ pending' = [pending EXCEPT ![b] = None]
  /\ UNCHANGED <<counters, pos, lists, mutex, lru_locks, agent, calls>>

\* ProcessPendingRead and ProcessPendingWrite: ToShared or ToDirty link the line.
Granted(b) ==
  /\ Serve(b) /\ state[b] \in {"TO_SHARED", "TO_DIRTY"}
  /\ state' = [state EXCEPT ![b] = IF @ = "TO_SHARED" THEN "SHARED" ELSE "DIRTY"]
  /\ locked' = IF pending[b].lock THEN locked \cup {b} ELSE locked
  /\ pending' = [pending EXCEPT ![b] = None]
  /\ mutex' = [mutex EXCEPT ![b] = Service]
  /\ agent' = [agent EXCEPT ![Service] =
       [at |-> "link", b |-> b, i |-> NoList, then |-> "link", n |-> 0]]
  /\ UNCHANGED <<counters, pos, lists, lru_locks, calls>>

\* A try that is refused: UndoShared for an upgrade, else ToInvalid.
RefusedTry(b) ==
  /\ Serve(b) /\ state[b] \in {"TO_SHARED", "TO_DIRTY"}
  /\ TryLocks /\ pending[b].lock
  /\ pending' = [pending EXCEPT ![b] = None]
  /\ IF pending[b].op = "WRITE_PERMISSION_ONLY"
     THEN /\ state' = [state EXCEPT ![b] = "SHARED"]
          /\ UNCHANGED <<used_bytes, pos, mutex, agent>>
     ELSE ToInvalid(Service, b, 0) /\ UNCHANGED state
  /\ UNCHANGED <<locked, to_evicted, garbage, lists, lru_locks, calls>>

\* INVALIDATE of a shared line.
Invalidate(b) ==
  /\ "INVALIDATE" \in RemoteOps
  /\ Serve(b) /\ state[b] = "SHARED" /\ b \notin locked
  /\ ToInvalid(Service, b, 0)
  /\ UNCHANGED <<lines, to_evicted, garbage, lists, lru_locks, calls>>

\* The home worker or a reader fetches a dirty line, which stays in its place.
FetchAndShared(b) ==
  /\ "FETCH_AND_SHARED" \in RemoteOps
  /\ Serve(b) /\ state[b] = "DIRTY" /\ b \notin locked
  /\ state' = [state EXCEPT ![b] = "SHARED"]
  /\ UNCHANGED <<locked, pending, counters, pos, lists, mutex, lru_locks, agent, calls>>

\* Cache::ToToInvalid
ToToInvalid(b, op) ==
  /\ state' = [state EXCEPT ![b] = "TO_INVALID"]
  /\ pending' = [pending EXCEPT ![b] = [op |-> op]]
  /\ to_evicted' = to_evicted + 1

\* FETCH_AND_INVALIDATE or WRITE_FORWARD of a dirty line: the line stays on
\* its list until the data has left.
FetchAndInvalidate(b) ==
  /\ "FETCH_AND_INVALIDATE" \in RemoteOps
  /\ Serve(b) /\ state[b] = "DIRTY" /\ b \notin locked
  /\ ToToInvalid(b, "PENDING_INVALIDATE")
  /\ UNCHANGED <<locked, used_bytes, garbage, pos, lists, mutex, lru_locks, agent, calls>>

\* CompletionCheck: the data of FetchAndInvalidate has left.
CompletionCheck(b) ==
  /\ Serve(b) /\ pending[b].op = "PENDING_INVALIDATE"
  /\ pending' = [pending EXCEPT ![b] = None]
  /\ ToInvalid(Service, b, 0)
  /\ UNCHANGED <<state, locked, to_evicted, garbage, lists, lru_locks, calls>>

\* Mutant of ProcessPendingEvictDirty: the count is not taken back.
EvictDirtyUncounted(b) ==
  /\ agent[Service] = Idle /\ pending[b].op = "WRITE_BACK"
  /\ pending' = [pending EXCEPT ![b] = None]
  /\ agent' = [agent EXCEPT ![Service] = [at |-> "written", b |-> b]]
  /\ UNCHANGED <<state, locked, used_bytes, to_evicted, garbage, pos, lists, mutex,
                 lru_locks, calls>>

\* The home worker has the data of an evicted line; to_evicted first ...
ProcessPendingEvictDirty(b) ==
  /\ agent[Service] = Idle /\ pending[b].op = "WRITE_BACK"
  /\ pending' = [pending EXCEPT ![b] = None]
  /\ to_evicted' = to_evicted - 1
  /\ agent' = [agent EXCEPT ![Service] = [at |-> "written", b |-> b]]
  /\ UNCHANGED <<state, locked, used_bytes, garbage, pos, lists, mutex, lru_locks, calls>>

\* ... and then, under the mutex of the block, the line.
DropEvicted ==
  LET g == agent[Service] IN
  /\ g.at = "written" /\ mutex[g.b] = Nobody
  /\ ToInvalid(Service, g.b, 0)
  /\ UNCHANGED <<lines, to_evicted, garbage, lists, lru_locks, calls>>

-----------------------------------------------------------------------------
(* Eviction *)

Over == used_bytes - to_evicted - max_cache_mem

\* CacheEvictor, the periodic event: Evict().
CacheEvictor ==
  /\ agent[Timer] = Idle
  /\ used_bytes - to_evicted > 0 /\ Over > 0
  /\ agent' = [agent EXCEPT ![Timer] = [at |-> "evict", n |-> Over]]
  /\ UNCHANGED <<lines, counters, pos, lists, mutex, lru_locks, calls>>

\* Evict(int): the test and the number of lines, at most 16 (more than Blocks).
Evict(a) ==
  /\ agent[a].at = "evict"
  /\ agent' = [agent EXCEPT ![a] =
       IF used_bytes - to_evicted < 0 \/ Over <= 0 THEN Idle
       ELSE [at |-> "pick", n |-> IF agent[a].n > Over THEN Over ELSE agent[a].n]]
  /\ UNCHANGED <<lines, counters, pos, lists, mutex, lru_locks, calls>>

\* One turn of its loop: a random list, if its mutex is free.
Pick(a, i) ==
  LET g == agent[a] IN
  /\ g.at = "pick" /\ g.n > 0
  /\ IF lru_locks[i] # Nobody
     THEN agent' = [agent EXCEPT ![a].n = @ - 1] /\ UNCHANGED lru_locks
     ELSE IF lists[i] = <<>>
     THEN agent' = [agent EXCEPT ![a] = Idle] /\ UNCHANGED lru_locks
     ELSE /\ agent' = [agent EXCEPT ![a] =
               [at |-> "tail", b |-> lists[i][Len(lists[i])], i |-> i, n |-> g.n]]
          /\ lru_locks' = [lru_locks EXCEPT ![i] = a]
  /\ UNCHANGED <<lines, counters, pos, lists, mutex, calls>>

EvictDone(a) ==
  /\ agent[a].at = "pick" /\ agent[a].n = 0
  /\ agent' = [agent EXCEPT ![a] = Idle]
  /\ UNCHANGED <<lines, counters, pos, lists, mutex, lru_locks, calls>>

\* Mutant of TryTail: waits for the block instead of trying it.
TailWaits(a) ==
  LET g == agent[a]
      taken == g.b \notin locked /\ ~InTransitionState(g.b) IN
  /\ g.at = "tail" /\ mutex[g.b] = Nobody
  /\ lru_locks' = [lru_locks EXCEPT ![g.i] = Nobody]
  /\ IF taken
     THEN /\ mutex' = [mutex EXCEPT ![g.b] = a]
          /\ lists' = [lists EXCEPT ![g.i] = Unlinked(@, g.b)]
          /\ agent' = [agent EXCEPT ![a].at = "victim"]
     ELSE /\ agent' = [agent EXCEPT ![a] = [at |-> "pick", n |-> g.n - 1]]
          /\ UNCHANGED <<mutex, lists>>
  /\ UNCHANGED <<lines, counters, pos, calls>>

\* Mutant of TryTail: the locks of the line are not looked at.
TailUnlocked(a) ==
  LET g == agent[a]
      taken == mutex[g.b] = Nobody /\ ~InTransitionState(g.b) IN
  /\ g.at = "tail"
  /\ lru_locks' = [lru_locks EXCEPT ![g.i] = Nobody]
  /\ IF taken
     THEN /\ mutex' = [mutex EXCEPT ![g.b] = a]
          /\ lists' = [lists EXCEPT ![g.i] = Unlinked(@, g.b)]
          /\ agent' = [agent EXCEPT ![a].at = "victim"]
     ELSE /\ agent' = [agent EXCEPT ![a] = [at |-> "pick", n |-> g.n - 1]]
          /\ UNCHANGED <<mutex, lists>>
  /\ UNCHANGED <<lines, counters, pos, calls>>

\* The tail of the list, if its block can be had at once and the line is
\* neither locked nor in transition; pos keeps its value.
TryTail(a) ==
  LET g == agent[a]
      taken == mutex[g.b] = Nobody /\ g.b \notin locked /\ ~InTransitionState(g.b) IN
  /\ g.at = "tail"
  /\ lru_locks' = [lru_locks EXCEPT ![g.i] = Nobody]
  /\ IF taken
     THEN /\ mutex' = [mutex EXCEPT ![g.b] = a]
          /\ lists' = [lists EXCEPT ![g.i] = Unlinked(@, g.b)]
          /\ agent' = [agent EXCEPT ![a].at = "victim"]
     ELSE /\ agent' = [agent EXCEPT ![a] = [at |-> "pick", n |-> g.n - 1]]
          /\ UNCHANGED <<mutex, lists>>
  /\ UNCHANGED <<lines, counters, pos, calls>>

\* Evict(CacheLine*): ACTIVE_INVALIDATE or WRITE_BACK.
EvictLine(a) ==
  LET g == agent[a] IN
  /\ g.at = "victim"
  /\ IF state[g.b] = "SHARED"
     THEN ToInvalid(a, g.b, g.n) /\ UNCHANGED <<state, pending, to_evicted>>
     ELSE /\ ToToInvalid(g.b, "WRITE_BACK")
          /\ mutex' = [mutex EXCEPT ![g.b] = Nobody]
          /\ agent' = [agent EXCEPT ![a] = [at |-> "pick", n |-> g.n - 1]]
          /\ UNCHANGED <<used_bytes, pos>>
  /\ UNCHANGED <<locked, garbage, lists, lru_locks, calls>>

-----------------------------------------------------------------------------
Running(a) ==
  \/ Unlink(a) \/ LinkLRU(a) \/ Release(a) \/ Erase(a)
  \/ Evict(a) \/ EvictDone(a) \/ TryTail(a) \/ EvictLine(a)

Application(t) == \E b \in Blocks : Miss(t, b) \/ Hit(t, b) \/ Upgrade(t, b)

Answer(b) ==
  Granted(b) \/ RefusedTry(b) \/ CompletionCheck(b) \/ ProcessPendingEvictDirty(b)

Asked(b) == Invalidate(b) \/ FetchAndShared(b) \/ FetchAndInvalidate(b)

CacheNext ==
  \/ \E a \in Agents : Running(a) \/ \E i \in Lists : Pick(a, i)
  \/ \E t \in Threads : Application(t) \/ \E b \in Blocks : UnLock(t, b)
  \/ \E b \in Blocks : Answer(b) \/ Asked(b)
  \/ DropEvicted \/ CacheEvictor

CacheSpec == CacheInit /\ [][CacheNext]_CacheVars

\* Every thread runs and gets the list mutexes it waits for, which are held
\* for a moment only; every request is answered; the event comes again and
\* again, and its random choice of a list leaves none out.  The application
\* owes nothing: it need not call, nor give a lock back.
CacheFair ==
  /\ CacheSpec
  /\ \A a \in Agents : WF_CacheVars(Running(a) \/ \E i \in Lists : Pick(a, i))
  /\ \A a \in Agents \ {Timer} : SF_CacheVars(Unlink(a) \/ LinkLRU(a))
  /\ \A i \in Lists : SF_CacheVars(Pick(Timer, i))
  /\ WF_CacheVars(\E b \in Blocks : Answer(b))
  /\ WF_CacheVars(DropEvicted) /\ WF_CacheVars(CacheEvictor)

-----------------------------------------------------------------------------
(* Properties *)

Jobs ==
  [at : {"idle"}] \cup [at : {"evict", "pick"}, n : Int]
    \cup [at : {"written"}, b : Blocks]
    \cup [at : {"tail", "victim"}, b : Blocks, i : Lists, n : Int]
    \cup [at : {"unlink", "link", "release", "erase"}, b : Blocks,
          i : Lists \cup {NoList}, then : {"link", "release", "erase"}, n : Int]

Requests ==
  [op : {"none", "PENDING_INVALIDATE", "WRITE_BACK"}]
    \cup [op : {"READ", "WRITE", "WRITE_PERMISSION_ONLY"}, lock : BOOLEAN]

CacheTypeOK ==
  /\ state \in [Blocks -> {"INVALID", "TO_SHARED", "SHARED", "TO_DIRTY", "DIRTY",
                           "TO_INVALID"}]
  /\ pos \in [Blocks -> Lists \cup {NoList}] /\ lists \in [Lists -> Seq(Blocks)]
  /\ locked \subseteq Blocks /\ pending \in [Blocks -> Requests]
  /\ used_bytes \in Int /\ to_evicted \in Int /\ garbage \in Int \X Int
  /\ mutex \in [Blocks -> Agents \cup {Nobody}]
  /\ lru_locks \in [Lists -> Agents \cup {Nobody}]
  /\ agent \in [Agents -> Jobs] /\ calls \in [Threads -> Nat]

Linked(b, i) == Listed(lists[i], b)

\* No line is on the list s twice.
Once(s) == \A j, k \in 1 .. Len(s) : s[j] = s[k] => j = k

\* A line is on a list once, and on the list that its pos names unless its
\* handler is about to unlink it; the lists hold no line that is gone (the
\* pointers of LinkLRU and UnLinkLRU, cache.cc 559-656).
ListsSound ==
  /\ \A i \in Lists : Once(lists[i])
  /\ \A b \in Blocks, i \in Lists : Linked(b, i) =>
       /\ state[b] \in {"SHARED", "DIRTY", "TO_INVALID"} \/ mutex[b] # Nobody
       /\ state[b] # "INVALID"
       /\ \A j \in Lists \ {i} : ~Linked(b, j)
       /\ mutex[b] = Nobody => pos[b] = i

\* Eviction never takes a line that is locked or awaits an answer, although
\* it tests one thread's choice while others run (cache.cc 701-743).
EvictsOnlyQuiet ==
  \A a \in Agents : agent[a].at = "victim" =>
    /\ agent[a].b \notin locked
    /\ state[agent[a].b] \in {"SHARED", "DIRTY"}
    /\ pending[agent[a].b] = None

\* used_bytes counts the lines, from whatever it started with, except those
\* whose memory ToInvalid has already given back (cache.cc 806, 862).
UsedExact ==
  used_bytes - garbage[1] =
    Cardinality({b \in Blocks : state[b] # "INVALID"})
      - Cardinality({a \in Agents : /\ agent[a].at \in {"unlink", "erase"}
                                    /\ agent[a].then = "erase"})

\* The lists and the count of the lines are right, together (cache.cc 559-656,
\* 806, 862).
CacheSound == CacheTypeOK /\ ListsSound /\ UsedExact

\* Whatever holds the two kinds of mutex, every agent gets on with its work
\* (cache.cc 624-656 against 701-743).
AgentsReturn == \A a \in Agents : agent[a] # Idle ~> agent[a] = Idle

\* Once the calls stop the cache is back within "max cache lines"
\* (worker.cc 115), unless lines stay locked.
Shrinks ==
  <>[](Cardinality({b \in Blocks : state[b] # "INVALID"}) <= max_cache_mem \/ locked # {})

\* A line that could be evicted is on a list: it is only unlinked "to avoid it
\* is evicted before the reply comes back" (cache.cc 423-425).
Evictable ==
  \A b \in Blocks :
    state[b] \in {"SHARED", "DIRTY"} /\ mutex[b] = Nobody => \E i \in Lists : Linked(b, i)
=============================================================================

----------------------------- MODULE Allocation -----------------------------
(***************************************************************************)
(* Where memory is allocated: ProcessLocalMalloc, ProcessLocalFree, their  *)
(* remote counterparts, and the statistics by which a worker chooses       *)
(* another one (local_request.cc, remote_request.cc, worker.cc, client.h). *)
(*                                                                         *)
(* Each worker has an application thread and a service thread, which run   *)
(* the same allocation code.  A region takes a chunk of its size class,    *)
(* and an allocation fails when less than that is available; the slab      *)
(* allocator itself is in Slabs.  The master passes statistics on in the   *)
(* order it gets them (Membership): a report is put at once on the way to  *)
(* every other worker, where it may stay as long as it likes.  What a      *)
(* worker is told of itself is never used.                                 *)
(***************************************************************************)
EXTENDS Integers, Sequences, FiniteSets, FiniteSetsExt, SequencesExt

CONSTANTS
  Workers,
  Capacity,     \* Conf::size
  cache_size,   \* Conf::size * Conf::cache_th
  CacheOnly,    \* workers whose Conf::cache_th is 1
  ghost_th,     \* Conf::ghost_th
  BLOCK_SIZE,
  Classes,      \* chunk sizes of the slab classes
  Asks,         \* what is asked for: the size, and whether the flag ALIGNED is set
  Flags,        \* kinds of placement in use, of Placements
  IntMod,       \* number of values of an int
  SizeMod,      \* number of values of a Size
  MaxMallocs    \* bound on the calls of malloc

\* "BASE": an address is given, and the region is to be where that is.
Placements == {"LOCAL", "REMOTE", "RANDOM", "BASE"}

AllocationAssumption ==
  /\ Capacity \in Nat /\ cache_size \in 0..(Capacity - 1) /\ ghost_th \in Nat
  /\ CacheOnly \subseteq Workers
  /\ Classes \subseteq Nat \ {0} /\ BLOCK_SIZE \in Classes
  /\ \A ask \in Asks : ask.size \in 1..Max(Classes) /\ ask.aligned \in BOOLEAN
  /\ Flags \subseteq Placements
  /\ IntMod \in Nat \ {0} /\ SizeMod \in Nat \ {0} /\ MaxMallocs \in Nat

Agents == Workers \X {"app", "service"}
Idle == [pc |-> "idle"]

VARIABLES
  avail,       \* sb.get_avail()
  used,        \* cache.GetUsedBytes()
  ghost_size,
  free,        \* free[w][v]: Client::free of v at w, for v in its widCliMapWorker
  job,         \* what each agent is doing
  held,        \* regions an application has
  net,         \* net[w][v]: requests on the queue pair from w to v
  stats,       \* statistics on the way to each worker
  told,        \* history: the free memory of w in its latest report
  mallocs      \* calls of malloc so far

vars == <<avail, used, ghost_size, free, job, held, net, stats, told, mallocs>>

\* SetMemStat takes an int and stores a Size.
Narrow(x) ==
  LET i == x % IntMod
  IN  IF 2 * i < IntMod THEN i ELSE (i - IntMod) % SizeMod

\* A region: where it is, what was asked for, and its number.
Region(v, ask) ==
  [home |-> v, size |-> ask.size, aligned |-> ask.aligned, number |-> mallocs + 1]

\* The size that the slab allocator notes: sb_aligned_malloc rounds it up.
ItemSize(r) ==
  IF r.aligned THEN ((r.size + BLOCK_SIZE - 1) \div BLOCK_SIZE) * BLOCK_SIZE ELSE r.size

\* What the region takes from get_avail.
Chunk(r) == Min({c \in Classes : ItemSize(r) <= c})

CacheSize(w) == IF w \in CacheOnly THEN Capacity ELSE cache_size

\* At the start every worker has reported that gives memory.
Init ==
  /\ avail = [w \in Workers |-> Capacity]
  /\ used = [w \in Workers |-> 0]
  /\ ghost_size = [w \in Workers |-> 0]
  /\ free = [w \in Workers |->
               [v \in Workers \ CacheOnly |-> Narrow((Capacity - cache_size) % SizeMod)]]
  /\ job = [a \in Agents |-> Idle]
  /\ held = [w \in Workers |-> {}]
  /\ net = [w \in Workers |-> [v \in Workers |-> <<>>]]
  /\ stats = [w \in Workers |-> <<>>]
  /\ told = [w \in Workers |-> Capacity - CacheSize(w)]
  /\ mallocs = 0

Send(w, v, m) == net' = [net EXCEPT ![w][v] = Append(@, m)]
Goto(a, pc) == job' = [job EXCEPT ![a].pc = pc]

\* What a worker could still allocate without touching the part of the cache.
Free(w) == avail[w] + used[w] - CacheSize(w)

-----------------------------------------------------------------------------
(* The allocation code, on either thread of a worker.                      *)

\* sb_malloc or sb_aligned_malloc, and memset on its result: of a null pointer, when it failed.
sb_malloc(a) ==
  LET w == a[1] IN
  /\ job[a].pc = "malloc"
  /\ IF Chunk(job[a].region) <= avail[w]
     THEN /\ avail' = [avail EXCEPT ![w] = @ - Chunk(job[a].region)]
          /\ Goto(a, "count")
     ELSE Goto(a, "null address") /\ UNCHANGED avail
  /\ UNCHANGED <<used, ghost_size, free, held, net, stats, told, mallocs>>

\* Mutant of sb_free: what is freed does not become available.
sb_free_lost(a) ==
  /\ job[a].pc = "free"
  /\ job' = [job EXCEPT ![a].pc = "count", ![a].sign = -1]
  /\ UNCHANGED <<avail, used, ghost_size, free, held, net, stats, told, mallocs>>

sb_free(a) ==
  LET w == a[1] IN
  /\ job[a].pc = "free"
  /\ avail' = [avail EXCEPT ![w] = @ + Chunk(job[a].region)]
  /\ job' = [job EXCEPT ![a].pc = "count", ![a].sign = -1]
  /\ UNCHANGED <<used, ghost_size, free, held, net, stats, told, mallocs>>

\* ghost_size is unsigned.  It grows by the size that was asked for and shrinks by
\* the one sb_free returns; neither is what get_avail has moved by.
CountGhost(a) ==
  LET w == a[1]
      moved == IF job[a].sign = 1 THEN job[a].region.size ELSE -ItemSize(job[a].region)
  IN
  /\ job[a].pc = "count"
  /\ ghost_size' = [ghost_size EXCEPT ![w] = (@ + moved) % SizeMod]
  /\ Goto(a, "test")
  /\ UNCHANGED <<avail, used, free, held, net, stats, told, mallocs>>

\* Mutant of TestGhost: the threshold is never passed.
TestGhostNever(a) ==
  /\ job[a].pc = "test"
  /\ Goto(a, "done")
  /\ UNCHANGED <<avail, used, ghost_size, free, held, net, stats, told, mallocs>>

TestGhost(a) ==
  /\ job[a].pc = "test"
  /\ Goto(a, IF ghost_size[a[1]] > ghost_th THEN "report" ELSE "done")
  /\ UNCHANGED <<avail, used, ghost_size, free, held, net, stats, told, mallocs>>

Report(w) ==
  /\ stats' = [v \in Workers |->
       IF v = w THEN stats[v]
       ELSE Append(stats[v], [wid |-> w, free |-> Narrow(Free(w) % SizeMod)])]
  /\ told' = [told EXCEPT ![w] = Free(w)]

\* Mutant of SyncMaster: a cache-only worker offers what it has.
SyncMasterAlways(a) ==
  /\ job[a].pc = "report"
  /\ Report(a[1]) /\ Goto(a, "reset")
  /\ UNCHANGED <<avail, used, ghost_size, free, held, net, mallocs>>

\* SyncMaster: the report, in which the free memory is unsigned.  A cache-only
\* worker sends none, and its count stays ...
SyncMaster(a) ==
  /\ job[a].pc = "report"
  /\ \/ a[1] \notin CacheOnly /\ Report(a[1]) /\ Goto(a, "reset")
     \/ a[1] \in CacheOnly /\ Goto(a, "done") /\ UNCHANGED <<stats, told>>
  /\ UNCHANGED <<avail, used, ghost_size, free, held, net, mallocs>>

\* ... and then the count is reset.
ResetGhost(a) ==
  /\ job[a].pc = "reset"
  /\ ghost_size' = [ghost_size EXCEPT ![a[1]] = 0]
  /\ Goto(a, "done")
  /\ UNCHANGED <<avail, used, free, held, net, stats, told, mallocs>>

\* The end of ProcessLocalMalloc and of ProcessLocalFree.
LocalDone(w) ==
  LET a == <<w, "app">> IN
  /\ job[a].pc = "done"
  /\ held' = [held EXCEPT ![w] = IF job[a].sign = 1 THEN @ \cup {job[a].region} ELSE @]
  /\ job' = [job EXCEPT ![a] = Idle]
  /\ UNCHANGED <<avail, used, ghost_size, free, net, stats, told, mallocs>>

\* Mutant of RemoteDone: no answer is sent.
RemoteDoneSilent(w) ==
  LET a == <<w, "service">> IN
  /\ job[a].pc = "done"
  /\ job' = [job EXCEPT ![a] = Idle]
  /\ UNCHANGED <<avail, used, ghost_size, free, held, net, stats, told, mallocs>>

\* The end of ProcessRemoteMalloc, with its answer, and of FREE.
RemoteDone(w) ==
  LET a == <<w, "service">> IN
  /\ job[a].pc = "done"
  /\ IF job[a].sign = 1
     THEN Send(w, job[a].client, [op |-> "MALLOC_REPLY", region |-> job[a].region])
     ELSE UNCHANGED net
  /\ job' = [job EXCEPT ![a] = Idle]
  /\ UNCHANGED <<avail, used, ghost_size, free, held, stats, told, mallocs>>

Allocate(a) ==
  sb_malloc(a) \/ sb_free(a) \/ CountGhost(a) \/ TestGhost(a) \/ SyncMaster(a)
    \/ ResetGhost(a)

-----------------------------------------------------------------------------
(* Application threads.                                                    *)

\* GetClient(0): a worker with the most free memory, none if all have 0.
GetClient(w) ==
  LET others == DOMAIN free[w] \ {w}
  IN  {v \in others : free[w][v] > 0 /\ \A u \in others : free[w][u] <= free[w][v]}

\* The request goes to v, whose free memory is taken to be that much smaller;
\* nobody looks at it when v is not in widCliMapWorker.
AllocateAt(w, v, ask) ==
  /\ Send(w, v, [op |-> "MALLOC", region |-> Region(v, ask)])
  /\ free' = IF v \in DOMAIN free[w]
             THEN [free EXCEPT ![w][v] = Narrow((@ - ask.size) % SizeMod)] ELSE free
  /\ job' = [job EXCEPT ![<<w, "app">>] = [pc |-> "waiting", region |-> Region(v, ask)]]

\* The local part: under pressure the request goes to another worker, through
\* a pointer that is null if there is none.
AllocateLocally(w, ask) ==
  LET pressure == used[w] + avail[w] < CacheSize(w)
      start(pc) == [job EXCEPT ![<<w, "app">>] =
                      [pc |-> pc, region |-> Region(w, ask), sign |-> 1]]
  IN
  \/ pressure /\ \E v \in GetClient(w) : AllocateAt(w, v, ask)
  \/ /\ pressure /\ GetClient(w) = {}
     /\ job' = start("null client") /\ UNCHANGED <<free, net>>
  \/ ~pressure /\ job' = start("malloc") /\ UNCHANGED <<free, net>>

\* RANDOM draws workers of widCliMapWorker until it draws itself or one with
\* enough memory, and falls back on GetClient when its draws are used up.
RandomClient(w, size) ==
  LET others == DOMAIN free[w] \ {w}
      fits == {v \in others : size <= free[w][v]}
  IN  fits \cup (IF fits = others THEN {} ELSE GetClient(w))

\* It draws itself, or there is nobody to fall back on.
RandomLocal(w) == w \in DOMAIN free[w] \/ GetClient(w) = {}

ProcessLocalMalloc(w, ask, flag) ==
  /\ job[<<w, "app">>] = Idle /\ mallocs < MaxMallocs
  /\ mallocs' = mallocs + 1
  /\ \/ flag = "REMOTE" /\ \E v \in GetClient(w) : AllocateAt(w, v, ask)
     \/ flag = "REMOTE" /\ GetClient(w) = {} /\ AllocateLocally(w, ask)
     \/ flag = "RANDOM" /\ \E v \in RandomClient(w, ask.size) : AllocateAt(w, v, ask)
     \/ flag = "RANDOM" /\ RandomLocal(w) /\ AllocateLocally(w, ask)
     \/ flag = "BASE" /\ \E r \in held[w] : r.home # w /\ AllocateAt(w, r.home, ask)
     \/ flag = "BASE" /\ (\E r \in held[w] : r.home = w) /\ AllocateLocally(w, ask)
     \/ flag = "LOCAL" /\ AllocateLocally(w, ask)
  /\ UNCHANGED <<avail, used, ghost_size, held, stats, told>>

\* A remote region is freed by a message nobody waits for.
ProcessLocalFree(w, region) ==
  /\ job[<<w, "app">>] = Idle /\ region \in held[w]
  /\ held' = [held EXCEPT ![w] = @ \ {region}]
  /\ IF region.home = w
     THEN /\ job' = [job EXCEPT ![<<w, "app">>] =
                [pc |-> "free", region |-> region, sign |-> -1]]
          /\ UNCHANGED net
     ELSE /\ Send(w, region.home, [op |-> "FREE", region |-> region])
          /\ UNCHANGED job
  /\ UNCHANGED <<avail, used, ghost_size, free, stats, told, mallocs>>

-----------------------------------------------------------------------------
(* Service threads.                                                        *)

\* ProcessRemoteMallocReply: the region is handed to the waiting thread.
ProcessRemoteMallocReply(w, m) ==
  /\ held' = [held EXCEPT ![w] = @ \cup {m.region}]
  /\ job' = [job EXCEPT ![<<w, "app">>] = Idle]

\* ProcessRemoteRequest: a request from v.
ProcessRemoteRequest(w, v) ==
  LET m == Head(net[v][w]) IN
  /\ job[<<w, "service">>] = Idle /\ net[v][w] # <<>>
  /\ net' = [net EXCEPT ![v][w] = Tail(@)]
  /\ \/ m.op = "MALLOC_REPLY" /\ ProcessRemoteMallocReply(w, m)
     \/ /\ m.op = "MALLOC" /\ UNCHANGED held
        /\ job' = [job EXCEPT ![<<w, "service">>] =
             [pc |-> "malloc", region |-> m.region, sign |-> 1, client |-> v]]
     \/ /\ m.op = "FREE" /\ UNCHANGED held
        /\ job' = [job EXCEPT ![<<w, "service">>] =
             [pc |-> "free", region |-> m.region, sign |-> -1]]
  /\ UNCHANGED <<avail, used, ghost_size, free, stats, told, mallocs>>

ProcessRemoteMemStat(w) ==
  /\ job[<<w, "service">>] = Idle /\ stats[w] # <<>>
  /\ LET m == Head(stats[w])
     IN  free' = [free EXCEPT ![w] = [v \in DOMAIN @ \cup {m.wid} |->
                    IF v = m.wid THEN Narrow(m.free) ELSE @[v]]]
  /\ stats' = [stats EXCEPT ![w] = Tail(@)]
  /\ UNCHANGED <<avail, used, ghost_size, job, held, net, told, mallocs>>

\* The cache takes a line from the same memory, up to its limit, or gives one
\* back.
CacheLine(w) ==
  /\ \/ /\ avail[w] >= BLOCK_SIZE /\ used[w] + BLOCK_SIZE <= CacheSize(w)
        /\ avail' = [avail EXCEPT ![w] = @ - BLOCK_SIZE]
        /\ used' = [used EXCEPT ![w] = @ + BLOCK_SIZE]
     \/ /\ used[w] > 0
        /\ avail' = [avail EXCEPT ![w] = @ + BLOCK_SIZE]
        /\ used' = [used EXCEPT ![w] = @ - BLOCK_SIZE]
  /\ UNCHANGED <<ghost_size, free, job, held, net, stats, told, mallocs>>

\* A worker runs until one of its threads has met a null pointer.
Running(w) ==
  \A a \in Agents : a[1] = w => job[a].pc \notin {"null client", "null address"}

Service(w) ==
  /\ Running(w)
  /\ \/ RemoteDone(w) \/ ProcessRemoteMemStat(w)
     \/ \E v \in Workers : ProcessRemoteRequest(w, v)
     \/ Allocate(<<w, "service">>)

Application(w) == Running(w) /\ (LocalDone(w) \/ Allocate(<<w, "app">>))

Call(w) ==
  \/ \E ask \in Asks, flag \in Flags : ProcessLocalMalloc(w, ask, flag)
  \/ \E region \in held[w] : ProcessLocalFree(w, region)

Next ==
  \E w \in Workers :
    Service(w) \/ Application(w) \/ (Running(w) /\ (Call(w) \/ CacheLine(w)))

Spec == Init /\ [][Next]_vars

\* Threads that can go on do.  Calls and the cache are up to the application.
FairSpec == Spec /\ \A w \in Workers : WF_vars(Service(w)) /\ WF_vars(Application(w))

-----------------------------------------------------------------------------
Middle == {"count", "test", "report", "reset", "done"}

\* The regions that are allocated: an application has them, or they are in a
\* message or with a thread that has allocated or not yet freed them.
Regions ==
  UNION {held[w] : w \in Workers}
    \cup UNION {{net[w][v][i].region : i \in {j \in DOMAIN net[w][v] :
                    net[w][v][j].op \in {"MALLOC_REPLY", "FREE"}}} :
                  w \in Workers, v \in Workers}
    \cup {job[a].region : a \in {b \in Agents :
             \/ job[b].pc = "free"
             \/ job[b].pc \in Middle /\ job[b].sign = 1}}

\* No memory is lost or given out twice on the way between workers: at every
\* home, what is available, what the cache has and the regions that exist make
\* up the whole.
MemoryConserved ==
  \A w \in Workers :
    avail[w] + used[w]
      + MapThenSumSet(Chunk, {r \in Regions : r.home = w}) = Capacity

Quiet(w) == \A a \in Agents : a[1] = w => job[a].pc \notin Middle

\* What a worker last reported is off by a bounded amount when neither of its
\* threads is in the middle, as long as one size is asked for and not rounded up.
\* ghost_size counts bytes that were asked for, so a report is due after so many
\* requests, each of which has taken a chunk.  What is allocated or freed between
\* the report and the reset of ghost_size is not counted, but there too the count
\* starts the next report before as many requests have been made again.
DriftBounded ==
  \A w \in Workers \ CacheOnly :
    Quiet(w) =>
      LET drift == told[w] - Free(w)
          bound == 2 * Max({(ghost_th \div ask.size + 1) * Chunk(ask) : ask \in Asks})
      IN  drift \in -bound..bound

\* "epicAssert(WID(gaddr) != 3)" of the worker with cache_th = 1
\* (test/cs_test.cc:71): nobody asks a cache-only worker for memory, although it
\* allocates from its own, counts it, and passes the threshold of a report.
ServersOnly ==
  \A v \in CacheOnly : \A w \in Workers : \A i \in DOMAIN net[w][v] :
    net[w][v][i].op # "MALLOC"

\* A malloc that waits for another worker returns, unless that worker has met
\* a null pointer.
MallocReturns ==
  \A w \in Workers : \A v \in Workers \ {w} :
    (job[<<w, "app">>].pc = "waiting" /\ job[<<w, "app">>].region.home = v)
      ~> (job[<<w, "app">>].pc # "waiting" \/ ~Running(w) \/ ~Running(v))

-----------------------------------------------------------------------------
(* What comments say and the code does not do.                             *)

\* "the locally allocated size that is not synced with Master"
\* (worker.h:149, of ghost_size).
GhostExact ==
  \A w \in Workers \ CacheOnly : Quiet(w) => ghost_size[w] = (told[w] - Free(w)) % SizeMod

\* "no remote worker, we have no choice expect allocate locally"
\* (local_request.cc:108).
FallsBack == \A a \in Agents : job[a].pc # "null client"

\* "we reserve a minimum conf->cache_th size for cache" (local_request.cc:96):
\* the last allocation may start above the limit and end below it.
CacheReserved == \A w \in Workers : Free(w) >= -Max(Classes)

\* "select the server with most free memory to allocate" (worker.cc:484): when
\* what w knows is all up to date, its REMOTE allocation goes to a worker with
\* the most free memory.
UpToDate(w) ==
  /\ stats[w] = <<>>
  /\ \A v \in Workers \ CacheOnly : Quiet(v) /\ told[v] = Free(v) /\ net[w][v] = <<>>

MostFree ==
  [][\A w \in Workers :
       UpToDate(w) =>
         \A v \in Workers \ {w} :
           Len(net'[w][v]) > Len(net[w][v]) /\ Head(net'[w][v]).op = "MALLOC" =>
             \A u \in Workers \ (CacheOnly \cup {w}) : Free(u) <= Free(v)]_vars
=============================================================================

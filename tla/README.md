# GAM: a verification project

GAM is a distributed shared memory: every node runs a *worker* that owns a part
of a global address space, and caches blocks of the memory of other workers.
Workers talk over RDMA queue pairs. A directory at the worker that owns a block
(its *home*) keeps the cached copies coherent. The repository also holds a small
task runtime (`src/src/mcs`) that uses GAM.

This directory models the core of that system in TLA+, checks it with TLC on
small instances, and proves with TLAPS what the provers can prove for every size.

## The parts of the system

| Part | Source (under `src/gam/src` unless said otherwise) | Module |
| --- | --- | --- |
| directory entry of a block | `directory.cc` | `Directory`, `LockWord` |
| cache lines, hits, misses, locks, eviction | `cache.cc` | `Coherence`, `LockWord` |
| calls of the application | `local_request_cache.cc` | `Coherence` |
| requests of other workers | `remote_request_cache.cc`, `remote_request.cc` | `Coherence` |
| answers and pending works | `pending_request.cc` | `Coherence` |
| queues of waiting requests, send completions | `worker.cc` | `Coherence` |
| what the protocol promises | - | `BlockMemory` |
| LRU lists, evicting threads, size of the cache | `cache.cc`, `../include/cache.h` | `Lru` |
| fences | `worker.cc`, `local_request*.cc` | `Fence`, `FenceOrder` |
| send window of a queue pair | `rdma.cc` | `RdmaContext` |
| receive slots of a node | `rdma.cc`, `server.cc` | `RecvSlots` |
| format of messages, merged messages | `workrequest.cc`, `server.cc`, `rdma.cc` | `Message` |
| joining, master, memory statistics | `worker.cc`, `client.cc`, `tcp.cc`, `server.cc`, `master.cc` | `Membership` |
| key-value board | `master.cc`, `local_request.cc`, `gallocator.cc` | `KeyValue` |
| slab allocator | `slabs.cc` | `SlabClasses`, `SlabTable`, `Slabs` |
| where memory is allocated | `local_request.cc`, `remote_request.cc`, `worker.cc` | `Allocation` |
| locks of a range of blocks | `gallocator.cc` | `RangeLock` |
| global array | `../include/garray.h` | `GArray` |
| event loop and the evictor's timer | `ae.cc`, `ae_epoll.cc` | `EventLoop` |
| task runtime | `src/src/mcs` | `Tasks` |
| log of writes, no-cache mode, wrappers, libraries | see "Not modelled" | - |

How they meet. `Coherence` uses a fence as a guard on locks, and `Fence` with
`FenceOrder` shows that guard. `Coherence` has channels that keep their order, and
`RdmaContext`, `RecvSlots` and `Message` show order, no loss and no mixing up.
`Coherence` lets any line leave at any time, and `Lru` shows which line leaves and
when. `RangeLock` and `GArray` build on single-block locks, reads and writes, which
`Coherence` with `BlockMemory` provides. `Allocation` takes classes and chunks from
`Slabs`, and the way statistics travel from `Membership`.

The models follow the build of `src/gam/src/Makefile` and
`include/settings.h`: several threads, LRU eviction, asynchronous unlock, merged
RDMA requests, and assertions compiled out (`NDEBUG`).

## Modules

### `Directory`

Operators on the record that stands for a directory entry. Each is one method
of class `Directory`. The list of sharers is a set, because a worker is listed
once; property `ListedOnce` checks that.

### `Coherence`

One block, its home worker, any number of caching workers, and any number of
application threads.

| Variable | Code |
| --- | --- |
| `dir`, `mem` | the directory entry, and the block in the home memory |
| `cache[n]` | the `CacheLine` of the block at worker n: state, data, lock word, linked in an LRU list or not |
| `pend[n]` | the entry of `pending_works` for the block |
| `chan[s][d]` | what s has posted to d, in order: requests, answers, immediate values, one-sided data |
| `local[n]`, `remote[n]` | `to_serve_local_requests`, `to_serve_requests` |
| `serving[a]` | what a thread inside `ProcessToServeRequest` has still to process |
| `waiting[t]`, `held[t]`, `seen[t]` | thread t: blocked, its lock, the writes it has been shown |
| `done`, `issued[t]` | history: writes performed, writes issued by t |

How code becomes steps:

- A handler holds the lock of its block, so it is one step. That includes the
  messages it sends and the notification of the caller.
- `ProcessToServeRequest` runs after that lock is released. It is a series of
  steps of its thread: copy the local queue, process its requests one by one,
  copy the remote queue, process its requests one by one. The thread is the
  service thread, or the application thread of an UNLOCK. Everything else
  interleaves.
- Application threads run `ProcessLocalRequest` themselves (`MULTITHREAD`).
- Data moves by one-sided writes. They are entries of a channel that the
  receiving network card lands, with no thread of the receiver involved.
- A queue pair delivers in order. `RdmaContext` shows that the sender keeps the
  order even when its window is full.
- A send completion (`CompletionCheck`) comes at any time after the send.
- Writes are asynchronous, as in `GAlloc::Write`. Lock and unlock wait for the
  writes of their own thread: the fence that the code sets up is that guard.

What is abstracted:

- The content of a copy is the set of writes it holds. Every write goes to a
  word of its own. A stale copy is one that misses a write.
- Addresses, sizes and identifiers are gone. A worker has at most one pending
  work per block, so an answer needs no identifier; `AnswerExpected` checks that
  it meets a work of the right kind.
- A block has one lockable address.
- Data is captured when it is posted.
- Room in a cache is a fixed set `Evicting` of workers that may evict at any time.
- A pending work that failed is erased at once. The code erases it a little
  later, after its queue is drained, and nobody answers it in between.
- The branch "cannot find an updated copy" ends the program. It is left out, and
  `RequestFindsLine` checks that a request for data never takes it.

### `BlockMemory`

What the protocol promises to threads about one block. The block grows write by
write. No thread sees it shrink. Locks exclude each other. The holder of a lock
reads the current block. A thread without a lock may be shown an older state,
since the code lets it read a line that is on its way out. `Coherence` implements
it with `block <- done` and `view <- seen`.

### `RdmaContext`

The send side of a queue pair: the window, the ring of registered slots, the
queue of requests that do not fit, and the counters that tell what a completion
gives back. The lock of a context is held from `GetFreeSlot` to `Send`, so the two
are one step. `ProcessPendingRequests` is one step per queued request with the
lock held. Whether a queued send is merged depends on sizes, so the model allows
both. The variables `submitted`, `posted` and `freed` are history. The 16-bit
counters cannot overflow: they are bounded by the window, which the code limits
to 16351. A failing `ibv_post_send`, RDMA READ and compare-and-swap are left out.

### `RecvSlots` and `Message`

`RecvSlots` is the other end: the slots, the shared receive queue and the count
`recv_posted`. The thread that accepts connections and the service thread use
them without a lock, so steps are cut at every read and write of the count. A post
that does not fit clears the slots from the first refused one up to the head, as the
code does, and not only those it was about to post.

`Message` is what is in a slot. `SerFields` and `DeserFields` are two tables,
written from `WorkRequest::Ser` and `Deser`. A field is one cell whatever its width.
Slots lie next to each other and keep the rests of older messages, which the
receive loop must not read.

### `Membership`, `KeyValue` and `Allocation`

`Membership` has one process per constructor of a worker, per event loop and per
service thread, and the one thread of the master. Statistics are kept as the tokens
that `Split` makes of their text, so a missing separator is a merged token.
The master's loop over an unordered map takes the ids in one order, `MapOrder`; the
proof uses nothing of it but that it lists ids of the map. A worker of `CacheOnly`
(`cache_th = 1`) never reports, so it is in nobody's `widCliMapWorker`. If it asks for
statistics before anyone has reported, the master answers with a count of 0 and a
buffer it has not written (`Leftover`).

`KeyValue` has the calls of several threads, their requests, and the PUT and GET
cases of the master with its queue of waiting GETs. The n-th Put puts the value n.

`Allocation` has an application and a service thread per worker. Each allocation
is several steps: the test, `sb_malloc`, the count in `ghost_size`, the test of the
threshold, the report, the reset. Reports travel at their own pace. Three sizes are
kept apart: what was asked for, which `malloc` adds to `ghost_size`; that size rounded
up to blocks if the request is aligned, which `free` subtracts; and the chunk of the
class, by which `get_avail` moves. A request goes where its flag says, or to the
worker of a base address (`"BASE"`).

### `SlabClasses`, `SlabTable` and `Slabs`

`SlabClasses` has the loop of `slabs_init` and the look-up of a class. `SlabTable`
runs that loop with the sizes of the code and asks for every multiple of a block.
`Slabs` is the allocator with small sizes: pages, free lists, statistics. Every
operation is under one lock and is one step.

### `Fence` and `FenceOrder`

`Fence` is one application thread with its fence, the service thread, and other
application threads that complete its writes. Steps are cut where `Fence::lock_`
is taken and released and at the reads outside of it. `FenceOrder` is what fences
promise: calls start in program order, and a call behind a barrier starts after the
writes before the barrier are done. `Fence` implements it, with `done` being the
started writes that are not outstanding.

### `Lru` and `LockWord`

`Lru` is the cache as a bounded resource: lists, positions, the two counters, the
mutexes of blocks and lists, and the agents that take them in two orders. What the
protocol does is reduced to its effect on the lines. `LockWord` is the word of an
address with its tag for a writer; who holds it is history.

### `RangeLock`, `GArray`, `EventLoop`, `Tasks`

`RangeLock`: `GAlloc::Lock` over several blocks, with the undo of a failed try.
`GArray`: the tree of buckets, `Resize` one bucket a step, and accesses that take no
lock. The sleep of a shrinking `Resize` takes a fixed time and waits for nobody: an
access that is still on its way with the old header is then `late`. A late write that
lands in a live bucket may overwrite addresses, which `spoilt` records. `EventLoop`: one round of the loop with the one timer a worker has, and two
clocks: real time, on which `epoll_wait` sleeps, and the wall clock, which is right
or ahead by an amount chosen at the start and may be set from the one to the other
while the loop sleeps. `Tasks`: submission, pool threads, the connection, the call with
its argument slices, and the status that `Get` polls. The server is a process of its
own, so a function goes on running when its caller has given up after five seconds. A
call can also be lost, or name a function the server does not have; a connection that
is not made ends the process through a null pointer.

### The modules that TLC runs

`MCCoherence` names threads and the calls they make. `MCRaces` adds a variable
that selects one of three races for a behaviour: `evict`, plain reads and writes
with eviction; `lock`, blocking locks at all three workers, whose holders write;
`try`, locks that are only tried. Its symmetry exchanges the two caching workers
together with their threads. The specification and its properties treat the two
alike, and no liveness is checked with it.

`MCWorker` and `MCNetwork` each put several components side by side. The components
share no variable, so the steps of one neither enable nor disable those of another.
A behaviour of all of them is an interleaving of behaviours of each, and a property
of one component depends on that one's steps. So a variable `part` selects, in the
initial state, the component that moves. `Only(p)` keeps the others as they are.
This is the sum of the state spaces instead of their product. A component with
theorems is EXTENDed, so the runs and the theorems use the very same definitions;
its names carry a prefix there (`CacheInit`, `FenceNext`, `TimerSpec`, `BoardVars`,
`JoinSpec`). The others are instances with fixed constants. A property of an
extended component is checked in every part: where the component does not move, it
is checked of its initial states.

## Runs

| Run | Configuration | Question |
| --- | --- | --- |
| `progress` | `CoherenceLive.cfg` | Plain reads and writes: does every call return, and every write get performed? |
| `locks_and_eviction` | `CoherenceEvictLock.cfg` | Locks at two workers whose lines are evicted, and a home that writes: do locks exclude each other, and do threads see a block memory? |
| `races` | `Races.cfg` | Eviction, locks at all workers, and refused tries: is a write lost, does a message miss its target, do locks wait for each other, does data land in a line in use? |
| `worker` | `Worker.cfg` | Safety of the parts inside a worker. |
| `worker_live` | `WorkerLive.cfg` | Do fenced calls start, range locks and remote allocations return, list mutexes come free, and does the cache shrink? |
| `network` | `Network.cfg` | Safety of the parts between nodes. |
| `network_live` | `NetworkLive.cfg` | Are requests posted and handled, do all workers get known, do both kinds of Get return? |

What the parts of `worker` and `worker_live` check:

| Part | Safety | Liveness |
| --- | --- | --- |
| `word`: `LockWord` | `LockCount`, `Exclusion` | |
| `table`: `SlabTable` | `TableSound`: the table grows, and a multiple of a block gets an aligned class | |
| `slabs`: `Slabs` | `SlabsSound`: disjoint, none lost, statistics exact, aligned | |
| `cache`: `Lru` | `CacheSound` (lists and `used_bytes`), `EvictsOnlyQuiet`, `Evictable` | `AgentsReturn`, `Shrinks` |
| `nodes`, `busy`, `scarce`, `client`: `Allocation` | `MemoryAccounted`: nothing lost or given out twice; reports off by a bounded amount (`nodes`, `busy`); nobody asks a cache-only worker (`client`) | `MallocReturns` |
| `array`: `GArray` | `ArraySound`: every index has a place in the middle of a Resize, accesses in time land there, no bucket leaks; `ItemsStay` | |
| `fence`: `Fence` | `FenceSound`, `ImplementsOrder` (refinement of `FenceOrder`) | `CallsStart` |
| `range`: `RangeLock` | `RangeSound`: an undo gives back its own locks and no other | `RangeCallsReturn` |
| `timer`: `EventLoop` | `EvictorOnTime` | |

And of `network` and `network_live`:

| Part | Safety | Liveness |
| --- | --- | --- |
| `send`: `RdmaContext` | `IInv`, `PostedInOrder` | `RequestsArrive` |
| `recv`: `RecvSlots` | `RecvSound` | `RequestsArrive` |
| `message`: `Message` | `MessagesWhole` | |
| `join`: `Membership` | `JoinSound` | `AllKnown` |
| `board`: `KeyValue` | `BoardSound`, `NeverOlder` | `GetsReturn` |
| `tasks`: `Tasks` | `TasksSound` | `GetsReturn` |

A property named `...Sound` is a conjunction of invariants of its module. Each of
them is stated and explained there.

### Bounds

The protocol runs have a home worker, two caching workers and three threads. Two
caching workers are the fewest with which requests are forwarded from one cache to
another and several acknowledgements are counted. `MaxWrites` bounds the writes
issued in a behaviour; reads, locks and evictions are not bounded. Two writes are
enough for a lost write to be noticed while another is performed. Where locks are
taken there is one write, because the lock traffic multiplies the states, and none
where locks are only tried: TLC has also shown that in race `try` a thread with a
write lock is at a worker where the block is DIRTY, or UNSHARED at home, so its write
would be a hit, and no guard depends on the data that it changes. Blocking
locks at all workers have also been run with two writes and with reads under the
locks (25.8 million states), and `progress` with three
writes together with `SingleWriter`, `CopiesCurrent`, `DirectoryComplete` and
`ImplementsBlockMemory` (0.6 million states). Race `evict` includes every behaviour
of `progress`, since no line has to be evicted.

In the other runs:

- `send`: three slots, every second request signaled, so that the ring wraps, the
  queue fills and signaled requests overlap. Eight requests go around the ring
  more than twice.
- `recv`: three connections of three slots each fill the queue of nine. Slots are
  allocated in steps of four, so a step is shared by connections.
- `message`: three requests, alone or merged, two slots, so a slot is used again.
  One operation of every row of the two tables, and payloads with a zero byte.
- `join`: three workers of which one is cache-only, two for liveness. The third meets
  two workers that joined before, in every stage of each. The cache-only one may be
  the first, the second or the last.
- `board`: two workers, three threads, two keys and two Puts, one for liveness.
- `tasks`: three tasks with one or two arguments, of a known or an unknown function,
  two pool threads, and a server that runs one call at a time. One call fails in any
  of the ways. The liveness run has one core too few.
- `word`: the 254 readers that the code allows, at two addresses.
- `table`: the sizes of the code. `slabs`: four classes, three live allocations.
- `cache`: two blocks, two lists, room for one line, two threads with a call each
  in the safety run, one thread with three calls in the liveness run. Three are
  needed for a line to leave, another to come, and the counters to matter again.
  The safety run starts with two different values in the uninitialised fields; the
  proofs in `LruProofs` cover every start.
- `nodes`: two workers, two calls of one byte with every placement; `busy`: three
  calls to the other worker; `scarce`: workers with room for one region beside the
  cache, with plain requests and aligned ones; `client`: a worker and a cache-only one
  that allocates from its own memory. A byte takes a chunk of two, so that the sizes
  differ.
- `array`: two items and two addresses in a bucket, sizes from one bucket to four
  layers, three Resizes by two clones. Of the twelve places for buckets
  these sizes use eleven at most, unless a late write has lost some.
- `fence`: four calls and a second draining thread; three calls for liveness. The
  proofs in `FenceProofs` are for any number of calls and of draining threads.
- `range`: two threads over three blocks: two overlapping ranges and two calls each
  in the safety run, three ranges and one call each for liveness.
- `timer`: thirty-six ticks, a period of two and a second of five, so that the bound
  of two periods and three seconds (nineteen) can be passed. A clock that is ahead
  by eleven is the farthest whose step back may go unnoticed; one by twenty never
  does.

Deadlock checking is off where calls are bounded and the system stops, and in
`locks_and_eviction` and `races`, where the mutual wait shown by `evicted_reread` is
a deadlock of the code. It is on in `progress`. Race `lock` has no eviction, and
`LocksNeverStuck` states there what deadlock checking would.

### Fairness

- `progress`: weak fairness of the service of each worker. Its thread polls the
  completion queue in an endless loop, and its network card lands what has arrived.
  Nothing is assumed about application threads. There are no locks in this run: a
  blocked lock waits for the application to unlock, and the code does not order
  waiting writers and readers.
- `send`, `recv`: completions are polled, and the loops over queued requests and
  over slots to post go on.
- `join`: constructors, accepting loops and the master go on. `board`: the master
  and the service threads go on; nothing is assumed about Put, so `GetReturns` says
  that a Get returns if its key is there.
- `tasks`: pool threads go on, and the server takes requests in turn and its functions
  return. Nothing is assumed about whether calls fail.
- `fence`, `range`, `nodes`: every thread inside a call goes on.
- `cache`: every agent goes on. An agent that waits for a list mutex is strongly
  fair, because the mutex is held for a moment only. The timer comes again and
  again, and strong fairness per list stands for its random choice of a list.

### Disagreements between the code and what it says

Five runs show a behaviour of the code that contradicts a comment or an assertion.

- `refused_try`. A refused try write lock puts its line back to SHARED although
  the line has acknowledged an invalidation meanwhile. The copy is stale.
- `upgrade_under_read_lock`. A line that one thread has read-locked and another
  is upgrading acknowledges an invalidation. The comment calls that safe because
  the transition blocks other requests, but the read lock is still held when the
  remote write lock is granted. It needs two threads at one worker.
- `evicted_reread`. A comment lists two causes of a deadlock between a cache and
  its home. A line that is evicted and read again is a third.
- `home_unlock_reorders`. Two threads of the home worker drain the queues of one
  block and change the order of the requests of one worker. The assertion in
  `Directory::ToShared` would fail.
- `fence_lost_wake_up`. `ProcessFenced` skips a fence whose `in_process` is set. If
  the skipped completion was the last one and the draining thread fences again, the
  fence stays closed with no write pending. It needs a second application thread.

The passing runs stay clear of these behaviours. `locks_and_eviction` and `races`
have one thread per worker. Race `try` does not claim that copies are current. The
runs with eviction have deadlock checking off, and take no lock at home.
`CallsStart` is checked with one application thread.

The models show more such behaviours under other constants. They are stated as
definitions of their modules, and are not kept as runs:

| Definition | Constants that show it | What happens |
| --- | --- | --- |
| `Membership!StatsWhole` | `unsynced_th = 2` | the broadcast (`master.cc:118`) has no separator between entries, which `remote_request.cc:84` asserts |
| `Membership!EmptyStatsWhole` | a cache-only worker joins first | it asks when nobody has reported, and parses a buffer the master has not written (`master.cc:140`) |
| `Allocation!GhostExact` | capacity 6, cache 1, threshold 1, four mallocs | an allocation between the report and the reset of `ghost_size` is forgotten (`worker.cc:447`) |
| `Allocation!FallsBack` | one worker, capacity 4, cache 2, LOCAL | the client is locked before the null test (`local_request.cc:99`) |
| `Allocation!CacheReserved` | capacity 4, cache 2, six mallocs | memory of the cache's part is given to other workers (`remote_request.cc:112`) |
| `Allocation!MostFree` | three workers, capacity 3, cache 2, threshold 0, a size of 2 | the reported difference is negative and unsigned (`worker.cc:443`) |
| `Allocation!MostFree` | three workers, capacity 66, `IntMod = 64` | the report is narrowed to an int (`client.h:48`) |
| `Lru!Shrinks` | four calls, `FETCH_AND_INVALIDATE` | `to_evicted` is not counted down for a line given away (`worker.cc:576`) |
| `Lru!Evictable` | `TryLocks = TRUE` | `UndoShared` does not link the line again (`cache.h:309`) |
| `LockWord!LockCount` | `MaxHolders = 255` | the 255th reader makes the word the tag of a writer (`directory.cc:275`) |
| `Tasks!GetReturns` | one core, two tasks | a task without a core is posted nowhere (`local_mode_task_submitter.cpp:40`) |
| `Tasks!GetMeansRun` | `MaxFailures = 1` | a call that is lost, or still runs after five seconds, marks its task as finished (`client.cpp:31`) |
| `Tasks!GetMeansRun` | a function the server does not have | the error is dropped, and the task is marked as finished (`task_executor.cpp:38`) |
| `Tasks!ArgumentsArrive` | three arguments | the third is taken from a wrong offset (`server.cpp:31`) |
| `Tasks!ArgumentsArrive` | an argument of 128 bytes | its size is stored in a char as -128 (`client.cpp:21`) |
| `GArray!SleepEnough` | those of `MCWorker` | an access that takes longer than the sleep walks through freed buckets (`garray.h:257`) |
| `GArray!LocatesWhole` | `Sizes = {1, 3, 5}` | shrinking to a small part of a bucket loses the root (`garray.h:247`) |
| `Message!DeliveredAsSent` | `LongestRequest = 12` | the terminator of a full slot is written into the next (`server.cc:75`) |
| `RecvSlots!RoomNotNegative` | `rx_depth = 3`, three connections of two slots | a slot between two posts counts as room (`rdma.cc:213`) |
| `RecvSlots!NoneLost` | the same | a slot that finds the queue full is not posted again and not given back (`rdma.cc:182`) |
| `EventLoop!EvictorOnTime` | `SetAnyTime = TRUE` | a clock set back before the poll delays the evictor (`ae.cc:385`) |
| `EventLoop!OverdueNotDelayed` | those of `Worker.cfg` | an overdue timer still sleeps the rest of a second (`ae.cc:392`) |

The passing runs use constants on the other side of each of these limits, or check a
property that names the case it excludes: they say up to where the code is right.
`RunBeforeGet` is `GetMeansRun` without failed calls and unknown functions, `WalkLands`
is `SleepEnough` without late accesses, and `StatsWhole` is `EmptyStatsWhole` without
empty statistics.

`DriftBounded` is for requests of one size. With two sizes of one class no bound
exists: as many small requests as make up the threshold, and then the free of one
region of that many bytes, bring `ghost_size` back to where it was, while several
chunks were taken and one was given back. This can go on as long as there are such
regions, and nothing is reported (`local_request.cc:127,161`).

## Proofs

### `RdmaContextProofs`

For every window size and signaling distance:

- `ContextInvariant`: `Spec => []IInv`. `IInv` joins the types, the bound of the
  window, the slots in use (`SlotsCounted`), when requests may wait
  (`WaitOnlyIfFull`), what completions give back (`Accounting`), how far signaled
  requests are apart (`Signaling`), and the order of the queue (`InOrder`). None is
  inductive alone. For example, that the tail does not overtake the head needs
  `Accounting`: the completions in flight give back no more than was posted.
- `SlotsAreCounted`, `SlotIsGuaranteed`, `QueueNeverStalls`: consequences of `IInv`.
- `RequestsArePostedInOrder`: an action property, from `IInv` in the state before
  the step. It is why the channels of `Coherence` are sequences.

The assumption is `RdmaAssumption`: the window and the distance are positive.

### `CoherenceProofs`

For any finite set of caching workers and any number of threads and writes:

- `TypeCorrect`: `Spec => []TypeOK`. The content is in who may receive what: home
  is never sent a request for a cache, a cache never one for home, a forwarded
  request names a caching worker, and a pending work has the fields that the
  handler of its answer reads. The proof goes through one lemma per handler.

The assumption is `CoherenceAssumption`: home is not a caching worker, the caching
workers are finitely many, and every thread runs at a worker.

### `LockWordProofs`

For any number of addresses and any `MAX_SHARED_LOCK`, as long as no address has
more than `MAX_SHARED_LOCK` holders:

- `WordCountsHolders`: `Spec => []LockCount`. The word is the number of readers, or
  the tag of one writer.
- `WriterAlone`: `Spec => []Exclusion`.

Neither is inductive alone. `IInv` joins them with the types and the bound on the
holders. The bound keeps a count of readers from being the tag.

### `KeyValueProofs`

For any workers, threads, keys and number of Puts (`KeyValueAssumption`: a thread
belongs to a worker, and "no Get" is not a key):

- `BoardIsSound`: `BoardSpec => []BoardSound`. A thread waits in Get exactly as long
  as one request or answer for it is at one place, and a GET is set aside only while
  its key is absent.
- `ValuesNeverOlder`: `BoardSpec => NeverOlder`, an action property: no answer is
  older than what its thread has put or got before.

The properties count requests in three places; a count does not say which request
a step takes. `IInv` says it by positions: what is under way for a thread is for the
key it waits for (`Expected`), a GET is the last of its thread's requests, and is
nowhere else (`Single`, `Present`). For the second, the board holds the
latest of a log in which every value is once (`Logged`), what a thread has seen is
in the log or on its way (`SeenKnown`), and an answer carries a logged value behind
which its receiver has seen none (`Newest`).

### `FenceProofs`

For any calls, any number of them and any set of completing threads:

- `FenceIsSound`: `FenceSpec => []FenceSound`.
- `FenceImplementsOrder`: `FenceSpec => ImplementsOrder`, the refinement of
  `FenceOrder`: the initial states map to initial states, and every step to a step
  or a stutter.

`IInv` adds who holds the lock and with which flag (`Locked`), that the queue is in
program order and holds exactly the calls that have not started (`Waits`), where a
write is before it is counted (`Known`), and that a barrier that has passed an
outstanding write has left its flag raised (`Raised`). `Raised` is the argument: it
makes a later call wait until the writes before the barrier are done.

### `EventLoopProofs`

- `EvictorIsOnTime`: for every period, every length of a second and every amount by
  which the clock is ahead, `TimerSpec => []EvictorOnTime`, where the clock is set
  only while the loop sleeps (`~SetAnyTime`).

A clock that is set back within the second in which the loop last looked is not
noticed, so the bound is two periods and three seconds and not one period. `IInv`
bounds the time at which the loop wakes (`Limit`) by what such a step can hide. The
theorem is false for `SetAnyTime`, as the table above says.

### `LruProofs`

For any finite sets of threads and blocks and any set of lists:

- `CacheIsSound`: `CacheSpec => []CacheSound`. A line is on one list at most, the one
  its `pos` names; no list holds a line that is gone; `used_bytes` is exact.
- `EvictionIsQuiet`: `CacheSpec => []EvictsOnlyQuiet`.
- `LinesAreEvictable`: without tries (`~TryLocks`), `CacheSpec => []Evictable`. With
  them it is false, as the table above says.

Between two steps of a handler a list and a `pos` may disagree. `IInv` says who may
see that: the holder of a mutex is the agent at work (`Mutexes`), a line on a list is
quiet or about to be unlinked from that list by the holder (`Places`), and the state
of the line fits what its agent has still to do (`Phases`, `Asking`). `UsedExact`
counts, so its steps rest on cardinalities of the lines and of the agents that erase
one.

### `MembershipProofs`

- `JoinIsSound`: for any finite set of workers and any of them cache-only,
  `JoinSpec => []JoinSound`, where updates are broadcast one at a time
  (`unsynced_th = 1`, the default of `Conf`). With two at a time it is false, as the
  table above says.

`JoinInv` follows the joining. The master serves one connection until it has the
address, so its list names the workers in the order of their ids (`InOrder`,
`Served`, `Phases`). A worker works off the list it was sent, and that list holds
all smaller ids and no other (`Ascending`, `Downward`). Whoever is connected is
stored at both ends (`Mapped`, `OwnId`). A worker sends its first update when its
list is empty, so statistics name workers that have connected to all earlier ones
(`FromJoined`, `Delivered`). Of two workers, the receiver and the one that is named,
the later has therefore connected to the earlier.

### What is only model-checked

- The safety of the protocol beyond its types: `SingleWriter`, `CopiesCurrent`,
  `LockExclusion` and the others, and that `Coherence` implements `BlockMemory`. They
  are not theorems of `Coherence`: `refused_try` and `upgrade_under_read_lock` violate
  them for some constants, so a proof needs assumptions on `Calls` and `At`, and an
  invariant of the messages in flight that this project does not have.
- Liveness, and `LocksNeverStuck`: fairness and ENABLED are out of the reach of the
  prover.
- `RecvSlots`, `Message`, `SlabTable`, `Slabs`, `Allocation`, `RangeLock`, `GArray` and
  `Tasks`. Most of their properties are about what recursion, folds, sums or
  filtered sequences compute for every input: induction over data is out of its
  reach too.

## Not modelled

- The log of writes (`logging.cc`). Every call of it is commented out.
- The no-cache mode (`*_nocache.cc`). The build does not define `NOCACHE`.
- Sockets, `zmalloc`, logging, hashing, text helpers, and the event-loop back ends
  that are not compiled: thin wrappers of the system.
- Remote functions (`gfunc.cc`) compute on the bytes of one write. `map.h` and
  `hashtable.h` wrap library containers.
- Data races inside library containers: `comm_buf` and `slots` (`rdma.cc`),
  `widCliMapWorker` (`worker.cc`), `task_status_map_` (`abstract_mcs_runtime.cpp`).
  The models take an operation of a container as one step.
- `sb_calloc` and `sb_realloc`: nothing calls them.
- RDMA device set-up, and failures of verbs.
- Template code of the task runtime that packs arguments, and its logging.
- Tests and benchmarks.
- Third-party code: JSON, MessagePack, spdlog and libcuckoo are vendored and are by
  far the most of the lines under `src/`. Their interfaces are taken as what they
  say.

## Next

1. Proofs of `SingleWriter` and `DirectoryComplete` without eviction and try locks,
   then of the implementation of `BlockMemory`.
2. Proofs about `RecvSlots` (`SlotsApart`) and `Allocation` (`MemoryConserved`).
3. `Coherence` with two blocks below `RangeLock`.

## Running

`tlc -config Races.cfg MCRaces` checks a run; the table of runs names the
configuration, and the module is `MCCoherence`, `MCRaces`, `MCWorker`, `MCNetwork`,
or `Fence` for `FenceLostWakeUp.cfg`. `Parts` in a configuration can be cut down to
look at one component. `tlapm CoherenceProofs.tla` checks the proofs of a module,
and so on for the other modules named `...Proofs`. Definitions marked *Mutant*
change one operation the way a slip in the code would; each property is violated by
one.

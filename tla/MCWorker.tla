------------------------------ MODULE MCWorker ------------------------------
(***************************************************************************)
(* What is inside a worker: the lock words of a block (LockWord), the      *)
(* class table and the lists of the slab allocator, the LRU lists of the   *)
(* cache, allocation across workers, a global array, the fence of a        *)
(* thread, locks of ranges and the evictor's timer.  They share no         *)
(* variable, so what one of them does depends on its own steps alone: in a *)
(* behaviour only one part moves.                                          *)
(***************************************************************************)
EXTENDS LockWord, Lru, Fence, EventLoop

CONSTANTS
  Parts,                              \* the parts looked at
  LockedRanges,                       \* of RangeLock
  RangeCalls, MallocCalls,            \* bounds on calls, of RangeLock and Allocation
  Capacity, cache_size, ghost_th, MallocFlags   \* others of Allocation

VARIABLES
  part,
  acc, request,                                              \* table
  slots, slabs, stats_map, mem_current, mem_avail,           \* slabs
  mem_malloced, mem_free, aligned,
  avail, used, ghost_size, free, job, held, net, stats,      \* nodes
  told, mallocs,
  mem, header, owner, h, script, walk, resizes, spoilt,      \* array
  call, owned, unlocks, made                                 \* range

TableVars == <<acc, request>>
SlabVars ==
  <<slots, slabs, stats_map, mem_current, mem_avail, mem_malloced, mem_free, aligned>>
NodesVars == <<avail, used, ghost_size, free, job, held, net, stats, told, mallocs>>
ArrayVars == <<mem, header, owner, h, script, walk, resizes, spoilt>>
RangeVars == <<call, owned, unlocks, made>>

Table == INSTANCE SlabTable WITH
  chunk_size <- 48, CHUNK_ALIGN_BYTES <- 8, BLOCK_SIZE <- 512,
  item_size_max <- 1048576, FactorNum <- 5, FactorDen <- 4, POWER_LARGEST <- 200

Slab == INSTANCE Slabs WITH
  chunk_size <- 3, CHUNK_ALIGN_BYTES <- 1, BLOCK_SIZE <- 4, item_size_max <- 12,
  FactorNum <- 5, FactorDen <- 3, POWER_LARGEST <- 10, mem_limit <- 66,
  Sizes <- {3, 5, 11, 13}, MaxLive <- 3

\* A byte takes a chunk of two.
AByte == {[size |-> 1, aligned |-> FALSE]}
Nodes == INSTANCE Allocation WITH
  Workers <- {1, 2}, CacheOnly <- {}, BLOCK_SIZE <- 2, Classes <- {2, 4}, Asks <- AByte,
  Flags <- MallocFlags, IntMod <- 64, SizeMod <- 256, MaxMallocs <- MallocCalls

\* The same workers with more calls that all go to the other worker; with so
\* little memory that calls are refused, and with sizes that are rounded up in
\* different ways; and with a worker that gives no memory.
Busy == INSTANCE Allocation WITH
  Workers <- {1, 2}, CacheOnly <- {}, BLOCK_SIZE <- 2, Classes <- {2, 4}, Asks <- AByte,
  Flags <- {"REMOTE"}, IntMod <- 64, SizeMod <- 256, MaxMallocs <- MallocCalls + 1
Scarce == INSTANCE Allocation WITH
  Workers <- {1, 2}, CacheOnly <- {}, Capacity <- 4, cache_size <- 2, ghost_th <- 1,
  BLOCK_SIZE <- 2, Classes <- {2, 4},
  Asks <- AByte \cup {[size |-> 3, aligned |-> TRUE]},
  Flags <- MallocFlags, IntMod <- 64, SizeMod <- 256, MaxMallocs <- MallocCalls
Client == INSTANCE Allocation WITH
  Workers <- {1, 2}, CacheOnly <- {2}, Capacity <- 4, cache_size <- 2, ghost_th <- 0,
  BLOCK_SIZE <- 2, Classes <- {2, 4}, Asks <- AByte, Flags <- MallocFlags, IntMod <- 64,
  SizeMod <- 256, MaxMallocs <- MallocCalls

AllocationParts == {"nodes", "busy", "scarce", "client"}

Array == INSTANCE GArray WITH
  Clones <- {"c1", "c2"}, Creator <- "c1", items_per_bucket <- 2,
  gaddrs_per_bucket <- 2, Sizes <- {2, 3, 4, 9}, RoundedUp <- {4},
  MaxBlocks <- 12, MaxResizes <- 3

\* Three blocks of four addresses; ranges that overlap wholly or but for their
\* first block, and one that overlaps these in its last block.
TwoRanges == {<<1, 8>>, <<4, 5>>}
ThreeRanges == TwoRanges \cup {<<0, 5>>}
Range == INSTANCE RangeLock WITH
  Threads <- {"r1", "r2"}, Ranges <- LockedRanges, BLOCK_SIZE <- 4,
  MaxCalls <- RangeCalls, held <- owned, calls <- made

ASSUME
  /\ Slab!EnoughForPreallocation /\ Nodes!AllocationAssumption
  /\ Scarce!AllocationAssumption /\ Client!AllocationAssumption
  /\ Array!GArrayAssumption /\ Range!RangeLockAssumption

WorkerInit ==
  /\ part \in Parts
  /\ Init /\ Table!Init /\ Slab!Init /\ CacheInit /\ Array!Init
  /\ CASE part = "scarce" -> Scarce!Init
       [] part = "client" -> Client!Init
       [] OTHER -> Nodes!Init
  /\ FenceInit /\ Range!Init /\ TimerInit
  /\ IF part = "cache" THEN garbage[1] # garbage[2] \/ Garbage = {0} ELSE garbage = <<0, 0>>
  /\ part = "array" \/ h["c1"].size = 2
  /\ part = "timer" \/ (offset = 0 /\ ahead = 20)

\* The part p moves, and the others do not.
Only(p) ==
  /\ part = p /\ UNCHANGED part
  /\ p # "word" => UNCHANGED vars
  /\ p # "table" => UNCHANGED TableVars
  /\ p # "slabs" => UNCHANGED SlabVars
  /\ p # "cache" => UNCHANGED CacheVars
  /\ p \notin AllocationParts => UNCHANGED NodesVars
  /\ p # "array" => UNCHANGED ArrayVars
  /\ p # "fence" => UNCHANGED FenceVars
  /\ p # "range" => UNCHANGED RangeVars
  /\ p # "timer" => UNCHANGED TimerVars

WorkerNext ==
  \/ Only("word") /\ Next
  \/ Only("table") /\ Table!Next
  \/ Only("slabs") /\ Slab!Next
  \/ Only("cache") /\ CacheNext
  \/ Only("nodes") /\ Nodes!Next
  \/ Only("busy") /\ Busy!Next
  \/ Only("scarce") /\ Scarce!Next
  \/ Only("client") /\ Client!Next
  \/ Only("array") /\ Array!Next
  \/ Only("fence") /\ FenceNext
  \/ Only("range") /\ Range!Next
  \/ Only("timer") /\ TimerNext

WorkerVars ==
  <<part, vars, TableVars, SlabVars, CacheVars, NodesVars, ArrayVars, FenceVars,
    RangeVars, TimerVars>>

WorkerSpec == WorkerInit /\ [][WorkerNext]_WorkerVars

\* The fairness of each part, while it is the one that moves: the agents of a
\* fence and of the cache run on, and so do the service threads and the calls.
WorkerFair ==
  /\ WorkerSpec
  /\ WF_FenceVars(part = "fence" /\ AppStep)
  /\ \A a \in FenceAgents : WF_FenceVars(part = "fence" /\ AgentStep(a))
  /\ \A i \in 1..FenceCalls :
       WF_FenceVars(part = "fence" /\ i \in DOMAIN outstanding /\ CompleteWrite(i))
  /\ \A t \in {"r1", "r2"} : /\ WF_RangeVars(part = "range" /\ Range!Step(t))
                             /\ WF_RangeVars(part = "range" /\ Range!Unlocked(t))
  /\ \A w \in {1, 2} : /\ WF_NodesVars(part = "nodes" /\ Nodes!Service(w))
                       /\ WF_NodesVars(part = "nodes" /\ Nodes!Application(w))
  /\ \A a \in Agents :
       WF_CacheVars(part = "cache" /\ (Running(a) \/ \E i \in Lists : Pick(a, i)))
  /\ \A a \in Agents \ {Timer} :
       SF_CacheVars(part = "cache" /\ (Unlink(a) \/ LinkLRU(a)))
  /\ \A i \in Lists : SF_CacheVars(part = "cache" /\ Pick(Timer, i))
  /\ WF_CacheVars(part = "cache" /\ \E b \in Blocks : Answer(b))
  /\ WF_CacheVars(part = "cache" /\ DropEvicted)
  /\ WF_CacheVars(part = "cache" /\ CacheEvictor)

-----------------------------------------------------------------------------

\* The table that slabs_init fills grows and stays in its array, and every
\* multiple of a block falls in a class that is one.
TableSound == part = "table" => Table!TableGrows /\ Table!RequestAligned

\* Live allocations share no byte; no chunk is lost or handed out twice; the
\* statistics of sb_malloc and sb_free are exact; sb_aligned_malloc aligns.
SlabsSound ==
  part = "slabs" =>
    Slab!LiveDisjoint /\ Slab!ChunksKept /\ Slab!FreeAccounted /\ Slab!AlignedLive

\* ProcessLocalMalloc, ProcessRemoteMalloc and the frees lose no memory and
\* give none out twice; what a worker last told the others of its free memory is
\* off by a bounded amount; and nobody asks a cache-only worker for memory.
MemoryAccounted ==
  /\ part = "scarce" => Scarce!MemoryConserved
  /\ part = "client" => Client!MemoryConserved /\ Client!ServersOnly
  /\ part \in {"nodes", "busy"} => Nodes!MemoryConserved /\ Nodes!DriftBounded

\* A malloc that waits for another worker returns.
MallocReturns == Nodes!MallocReturns

\* In the middle of a Resize every index of a global array has a live place of
\* its own; a walk that the sleep of shrink has outlasted lands in it; nothing
\* leaks.
ArraySound ==
  part = "array" => Array!LocatesWhole /\ Array!WalkLands /\ Array!NothingLeaked

\* A Resize moves no item that is there before and after.
ItemsStay == Array!ItemsStay

\* Taking back a failed Lock of a range releases what the call locked and
\* nothing else; between calls nothing is held; every Lock returns.
RangeSound == part = "range" => Range!ReleasesOwn /\ Range!HeldAccounted
RangeCallsReturn == Range!CallsReturn
=============================================================================

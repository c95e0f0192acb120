-------------------------------- MODULE Slabs --------------------------------
(***************************************************************************)
(* The slab allocator of a worker (slabs.cc, slabs.h).  Global memory and  *)
(* cache lines come from it.  slabs_init fixes the chunk sizes of the      *)
(* classes; a class takes whole pages of item_size_max bytes and keeps its *)
(* free chunks in a list.  Every operation runs under one lock, so each is *)
(* one step.  Sizes and addresses are in bytes from mem_base, which        *)
(* mmap_malloc aligns to a block.                                          *)
(***************************************************************************)
EXTENDS SlabClasses, FiniteSets

CONSTANTS
  mem_limit,            \* size of the memory
  Sizes,                \* the sizes that are asked for
  MaxLive               \* bound: allocations alive at a time

\* slabs_init: the chunk sizes, the smallest first.
Turns[i \in 0..POWER_LARGEST] ==
  IF i = 0 THEN FirstTurn ELSE ClassesFrom(Turns[i - 1])

slabclass == Complete(Turns[POWER_LARGEST])
slabs_clsid(size) == clsid(slabclass, size)
power_largest == Len(slabclass)
Classes == 1..power_largest
perslab(id) == item_size_max \div slabclass[id]

VARIABLES
  slots,          \* class -> the addresses of its free chunks, last freed first
  slabs,          \* class -> the number of its pages
  stats_map,      \* address of a chunk -> its class while allocated (0: free), size
  mem_current, mem_avail, mem_malloced, mem_free,
  aligned         \* history: live chunks that sb_aligned_malloc returned

vars == <<slots, slabs, stats_map, mem_current, mem_avail, mem_malloced,
          mem_free, aligned>>

\* Mutant of PageChunks: the split writes one chunk past the page.
PageChunksOver(ptr, id) ==
  [x \in 1..(perslab(id) + 1) |-> ptr + (perslab(id) + 1 - x) * slabclass[id]]

\* The chunks of a page, in the order split_slab_page_into_freelist frees them,
\* each pushed on the front of the list.
PageChunks(ptr, id) ==
  [x \in 1..perslab(id) |-> ptr + (perslab(id) - x) * slabclass[id]]

\* slabs_preallocate has given every class its first page.
Preallocated(id) == PageChunks((id - 1) * item_size_max, id)

EnoughForPreallocation == power_largest * item_size_max <= mem_limit

NewItems(chunks) ==
  [a \in ToSet(chunks) |-> [slabs_clsid |-> 0, size |-> 0]]

Init ==
  /\ slots = [id \in Classes |-> Preallocated(id)]
  /\ slabs = [id \in Classes |-> 1]
  /\ stats_map = [a \in UNION {ToSet(Preallocated(id)) : id \in Classes} |->
                    [slabs_clsid |-> 0, size |-> 0]]
  /\ mem_current = power_largest * item_size_max
  /\ mem_avail = mem_limit - power_largest * item_size_max
  /\ mem_malloced = power_largest * item_size_max
  /\ mem_free = mem_limit
  /\ aligned = {}

\* do_slabs_newslab gets a page: within the limit and within what is left.
\* slab_reassign is set, so a page is item_size_max long for every class.
CanGrow(id) ==
  /\ ~(mem_malloced + item_size_max > mem_limit /\ slabs[id] > 0)
  /\ item_size_max <= mem_avail

\* do_slabs_newslab, when it succeeds; the first chunk is then allocated.
NewSlab(id) ==
  /\ CanGrow(id)
  /\ slabs' = [slabs EXCEPT ![id] = @ + 1]
  /\ mem_current' = mem_current + item_size_max
  /\ mem_avail' = mem_avail - item_size_max
  /\ mem_malloced' = mem_malloced + item_size_max

\* do_slabs_alloc: off the free list, after a new page when it is empty.
do_slabs_alloc(size, id) ==
  LET chunks == IF slots[id] # <<>> THEN slots[id] ELSE PageChunks(mem_current, id)
      items == IF slots[id] # <<>> THEN stats_map ELSE NewItems(chunks) @@ stats_map
  IN
  /\ \/ slots[id] # <<>> /\ UNCHANGED <<slabs, mem_current, mem_avail, mem_malloced>>
     \/ slots[id] = <<>> /\ NewSlab(id)
  /\ slots' = [slots EXCEPT ![id] = Tail(chunks)]
  /\ stats_map' = [items EXCEPT ![Head(chunks)] = [slabs_clsid |-> id, size |-> size]]
  /\ mem_free' = mem_free - slabclass[id]

sb_malloc(size) ==
  /\ slabs_clsid(size) # 0
  /\ do_slabs_alloc(size, slabs_clsid(size))
  /\ UNCHANGED aligned

sb_aligned_malloc(size) ==
  LET newsize == ALIGN(size, BLOCK_SIZE)
      id == slabs_clsid(newsize)
  IN
  /\ id # 0
  /\ do_slabs_alloc(newsize, id)
  /\ aligned' = aligned \cup {a \in DOMAIN stats_map' :
                                stats_map'[a].slabs_clsid # 0
                                /\ (a \in DOMAIN stats_map =>
                                      stats_map[a].slabs_clsid = 0)}

\* The request fits no class, or its class has no chunk and gets no page:
\* nullptr, and nothing has changed.
Refused(size) ==
  /\ slabs_clsid(size) # 0 =>
        slots[slabs_clsid(size)] = <<>> /\ ~CanGrow(slabs_clsid(size))
  /\ UNCHANGED vars

\* Mutant of do_slabs_free: the requested size is given back.
FreeRequested(a, size, id) ==
  /\ slots' = [slots EXCEPT ![id] = <<a>> \o @]
  /\ mem_free' = mem_free + size

\* The chunk goes to the front of its list.
do_slabs_free(a, size, id) ==
  /\ slots' = [slots EXCEPT ![id] = <<a>> \o @]
  /\ mem_free' = mem_free + slabclass[id]

\* Mutant of sb_free: the class of a freed chunk is kept.
FreeKeepingClass(a) ==
  /\ stats_map[a].slabs_clsid # 0
  /\ stats_map' = [stats_map EXCEPT ![a].size = 0]
  /\ do_slabs_free(a, stats_map[a].size, stats_map[a].slabs_clsid)
  /\ aligned' = aligned \ {a}
  /\ UNCHANGED <<slabs, mem_current, mem_avail, mem_malloced>>

\* A chunk whose class is 0 is free already: do_slabs_free returns at once.
sb_free(a) ==
  /\ stats_map' = [stats_map EXCEPT ![a] = [slabs_clsid |-> 0, size |-> 0]]
  /\ \/ /\ stats_map[a].slabs_clsid # 0
        /\ do_slabs_free(a, stats_map[a].size, stats_map[a].slabs_clsid)
     \/ stats_map[a].slabs_clsid = 0 /\ UNCHANGED <<slots, mem_free>>
  /\ aligned' = aligned \ {a}
  /\ UNCHANGED <<slabs, mem_current, mem_avail, mem_malloced>>

Live == {a \in DOMAIN stats_map : stats_map[a].slabs_clsid # 0}

Next ==
  \/ /\ Cardinality(Live) < MaxLive
     /\ \E size \in Sizes :
          sb_malloc(size) \/ sb_aligned_malloc(size)
          \/ Refused(size) \/ Refused(ALIGN(size, BLOCK_SIZE))
  \/ \E a \in DOMAIN stats_map : sb_free(a)

Spec == Init /\ [][Next]_vars

-----------------------------------------------------------------------------
ClassOf(a) == slabclass[stats_map[a].slabs_clsid]

\* An allocation is at least as large as what was asked for, lies within the
\* memory, and shares no byte with another one, whatever mix of classes, new
\* pages and freed chunks produced them.
LiveDisjoint ==
  \A a \in Live :
    /\ stats_map[a].size <= ClassOf(a)
    /\ a + ClassOf(a) <= mem_limit
    /\ \A b \in Live \ {a} : a + ClassOf(a) <= b \/ b + ClassOf(b) <= a

\* No chunk is lost or handed out twice: the chunks of the pages a class has
\* taken are its free and its live chunks, each once, also when an address is
\* freed a second time (sb_free clears slabs_clsid).
ChunksKept ==
  \A id \in Classes :
    LET live == {a \in Live : stats_map[a].slabs_clsid = id} IN
    /\ Len(slots[id]) + Cardinality(live) = slabs[id] * perslab(id)
    /\ Cardinality(ToSet(slots[id])) = Len(slots[id])
    /\ ToSet(slots[id]) \cap Live = {}

\* get_avail, on which the worker decides where to allocate and what it tells
\* the master, is the memory less the chunks of live allocations.
FreeAccounted ==
  mem_free = mem_limit - FoldSet(LAMBDA a, sum : ClassOf(a) + sum, 0, Live)

\* What sb_aligned_malloc returns is aligned to a block (the assertion at
\* slabs.cc:433): its class is a multiple of the block whatever the factor.
AlignedLive == \A a \in aligned : a % BLOCK_SIZE = 0
=============================================================================

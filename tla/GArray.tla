------------------------------- MODULE GArray -------------------------------
(***************************************************************************)
(* The global array (include/garray.h): a tree of equal buckets in global  *)
(* memory.  The buckets of the last layer hold the items, those above hold *)
(* the addresses of the layer below, and a header block that every clone   *)
(* of the array shares holds the root, the size, the capacity and the      *)
(* number of layers.  Resize grows or shrinks the tree in place under the  *)
(* header's lock, one bucket at a time, while Read and Write of other      *)
(* clones take no lock: they copy the header and then walk down.           *)
(*                                                                         *)
(* A bucket is the function from its slots to the addresses written there. *)
(* What the code reads as an address where none was written (an item, a    *)
(* fresh or a freed bucket) is Wild.  Reads and writes of global memory    *)
(* are single steps, which is what the coherence protocol provides; the    *)
(* items themselves are left out, their places are what is checked.        *)
(*                                                                         *)
(* Shrinking syncs the header and sleeps a fixed time before it frees.  A  *)
(* Read or Write that is still on its way then is late: it may meet freed  *)
(* buckets, and what it writes may land on addresses.                      *)
(***************************************************************************)
EXTENDS Integers, SequencesExt

CONSTANTS Clones, Creator,
          items_per_bucket, gaddrs_per_bucket,
          Sizes,           \* the sizes the constructor and Resize are given
          RoundedUp,       \* sizes whose quotient of logarithms is rounded up
          MaxBlocks,       \* bound: buckets alive at a time
          MaxResizes       \* bound: calls of Resize

GArrayAssumption ==
    /\ Creator \in Clones
    /\ items_per_bucket \in Nat \ {0} /\ gaddrs_per_bucket \in Nat \ {0, 1}
    /\ Sizes \subseteq Nat \ {0}
    /\ \A n \in RoundedUp : \E k \in 1 .. n :
           n = items_per_bucket * gaddrs_per_bucket ^ k

VARIABLES mem,      \* the live buckets: address -> slot -> address or Wild
          header,   \* the header block, NoHeader before Globalize
          owner,    \* the clone holding the header's write lock, or Nobody
          h,        \* each clone's copy of the header
          script,   \* what is left of the clone's constructor or Resize
          walk,     \* the clone's Read or Write: index, bucket, layers passed,
                    \* and whether it is late
          resizes,  \* calls of Resize so far
          spoilt    \* history: a late Write has landed in a live bucket
vars == <<mem, header, owner, h, script, walk, resizes, spoilt>>

Wild == 0
Places == 1 .. MaxBlocks
Nobody == "nobody"
NoHeader == [root |-> Wild, size |-> 0, capacity |-> 0, layer |-> 0]
Idle == [idx |-> -1, at |-> Wild, passed |-> 0, late |-> FALSE]

ceil_divide(a, b) == (a + b - 1) \div b

\* ceil(log(size / items_per_bucket) / log(gaddrs_per_bucket)) + 1: negative
\* powers when the size is a small part of a bucket.
Layers(size) ==
    IF size > items_per_bucket
    THEN LET up == CHOOSE k \in 1 .. size :
                      /\ size <= items_per_bucket * gaddrs_per_bucket ^ k
                      /\ size > items_per_bucket * gaddrs_per_bucket ^ (k - 1)
         IN  1 + up + (IF size \in RoundedUp THEN 1 ELSE 0)
    ELSE LET down == CHOOSE k \in 0 .. items_per_bucket :
                      /\ size * gaddrs_per_bucket ^ k <= items_per_bucket
                      /\ size * gaddrs_per_bucket ^ (k + 1) > items_per_bucket
         IN  1 - down

CapacityFor(size) == ceil_divide(size, items_per_bucket) * items_per_bucket

\* The number of buckets in each of the layers 0 .. layer - 1.
CalLayers(size, layer) ==
    [i \in 0 .. layer - 1 |->
        ceil_divide(ceil_divide(size, items_per_bucket),
                    gaddrs_per_bucket ^ (layer - 1 - i))]

-----------------------------------------------------------------------------
(* Walking the tree *)

ReadPointer(addr, slot) == IF addr \in DOMAIN mem THEN mem[addr][slot] ELSE Wild

Descend(root, offs) == FoldLeft(ReadPointer, root, offs)

\* The slots passed on the way to the idx-th entry of layer n (from 1).
Path(n, idx) ==
    [k \in 1 .. n |-> (idx \div gaddrs_per_bucket ^ (n - k)) % gaddrs_per_bucket]

\* Locate: the bucket and the slot of item off, seen from a copy of the header.
Locate(hd, off) ==
    <<Descend(hd.root, Path(hd.layer - 1, off \div items_per_bucket)),
      off % items_per_bucket>>

\* LocateInternal: the bucket and the slot in layer n that hold the address
\* of the idx-th bucket of layer n + 1.
LocateInternal(root, n, idx) ==
    LET p == Path(n, idx) IN <<Descend(root, Front(p)), Last(p)>>

Fresh(m) == CHOOSE a \in Places : a \notin DOMAIN m /\ \A b \in Places \ DOMAIN m : a <= b

Bucket == [s \in 0 .. gaddrs_per_bucket - 1 |-> Wild]

AlignedMalloc(m) == [a \in DOMAIN m \cup {Fresh(m)} |->
                        IF a \in DOMAIN m THEN m[a] ELSE Bucket]

\* A write of an address into a slot; through a wild address it is lost.
WritePointer(m, place, addr) ==
    IF place[1] \in DOMAIN m
    THEN [m EXCEPT ![place[1]] = [@ EXCEPT ![place[2]] = addr]]
    ELSE m

\* The slots for addresses that an item overlaps, were its bucket one of addresses.
Overlapped(off) ==
    {s \in 0 .. gaddrs_per_bucket - 1 :
        /\ off * gaddrs_per_bucket < (s + 1) * items_per_bucket
        /\ s * items_per_bucket < (off + 1) * gaddrs_per_bucket}

\* A write of an item into a bucket.
WriteItem(m, place) ==
    IF place[1] \in DOMAIN m
    THEN [m EXCEPT ![place[1]] =
             [s \in DOMAIN @ |-> IF s \in Overlapped(place[2]) THEN Wild ELSE @[s]]]
    ELSE m

-----------------------------------------------------------------------------
(* What the constructor and Resize do, as the list of their steps *)

Insert(n, idx) == [op |-> "insert", layer |-> n, idx |-> idx, root |-> Wild]
PutRoot(n, root) == [op |-> "put", layer |-> n, idx |-> 0, root |-> root]
SyncTo == [op |-> "sync", layer |-> 0, idx |-> 0, root |-> Wild]
USleep == [op |-> "sleep", layer |-> 0, idx |-> 0, root |-> Wild]
FreeBlock(n, idx, root) == [op |-> "free", layer |-> n, idx |-> idx, root |-> root]
FreeRoot(root) == [op |-> "free root", layer |-> 0, idx |-> 0, root |-> root]

\* One new bucket for each of the entries first .. last - 1 of layer n.
InsertRow(n, first, last) ==
    [k \in 1 .. (IF last > first THEN last - first ELSE 0) |-> Insert(n, first + k - 1)]

Construct(size) ==
    LET layer == IF size <= items_per_bucket THEN 1 ELSE Layers(size)
    IN  FlattenSeq([n \in 1 .. layer - 1 |-> InsertRow(n, 0, CalLayers(size, layer)[n])])
          \o <<SyncTo>>

\* Mutant: forgets that the old root already fills the first entry.
FirstNewZero(d, old, i) == IF i <= d THEN 0 ELSE old[i - d]

\* The first entry of layer i that Resize fills, d layers having been added:
\* the layers above the old root are new, the old root is the first bucket
\* of its layer, and the layers below it go on where they ended.
FirstNew(d, old, i) ==
    IF i < d THEN 0 ELSE IF i = d THEN 1 ELSE old[i - d]

Inserts(hd, n) ==
    LET layer == Layers(n)
        d     == layer - hd.layer
        old   == CalLayers(hd.size, hd.layer)
        new   == CalLayers(n, layer)
        Row(i) == (IF i = d THEN <<PutRoot(i, hd.root)>> ELSE <<>>)
                     \o InsertRow(i, FirstNew(d, old, i), new[i])
    IN  IF n <= hd.capacity THEN <<>>
        ELSE FlattenSeq([i \in 1 .. layer - 1 |-> Row(i)])

\* Mutant: shows the new size before the buckets are there.
EnlargeSyncFirst(hd, n) == <<SyncTo>> \o Inserts(hd, n)

Enlarge(hd, n) == Inserts(hd, n) \o <<SyncTo>>

\* The buckets of each layer that the shrunk array keeps: none above its root.
Kept(hd, n, i) ==
    IF i < hd.layer - Layers(n) /\ i < hd.layer - 1 THEN 0 ELSE CalLayers(n, hd.layer)[i]

\* The frees, bottom layer first and from the last bucket of each layer.
Frees(hd, n) ==
    FlattenSeq([m \in 1 .. hd.layer - 1 |->
        LET i    == hd.layer - m
            last == CalLayers(hd.size, hd.layer)[i]
        IN  [k \in 1 .. last - Kept(hd, n, i) |-> FreeBlock(i, last - k, hd.root)]])
      \o (IF Layers(n) < hd.layer THEN <<FreeRoot(hd.root)>> ELSE <<>>)

\* Mutant: frees the buckets before the other clones can see the new size.
ShrinkFreeFirst(hd, n) == Frees(hd, n) \o <<SyncTo, USleep>>

\* Mutant: forgets the old root.
ShrinkKeepRoot(hd, n) ==
    <<SyncTo, USleep>> \o SelectSeq(Frees(hd, n), LAMBDA s : s.op = "free")

Shrink(hd, n) == <<SyncTo, USleep>> \o Frees(hd, n)

-----------------------------------------------------------------------------
Init ==
    /\ \E size \in Sizes :
          /\ h = [c \in Clones |-> IF c # Creator THEN NoHeader ELSE
                   [root |-> 1, size |-> size,
                    capacity |-> CapacityFor(size),
                    layer |-> IF size <= items_per_bucket THEN 1 ELSE Layers(size)]]
          /\ script = [c \in Clones |-> IF c = Creator THEN Construct(size) ELSE <<>>]
    /\ mem = [a \in {1} |-> Bucket]
    /\ header = NoHeader /\ owner = Nobody
    /\ walk = [c \in Clones |-> Idle]
    /\ resizes = 0
    /\ spoilt = FALSE

Free(c) == header # NoHeader /\ script[c] = <<>> /\ walk[c] = Idle /\ owner # c

\* Resize up to its first write of shared memory: the lock, the copy of the
\* header, the new header fields and, when layers are added, the new root.
Resize(c, n) ==
    LET layer == Layers(n)
        grows == n > header.capacity
        taller == grows /\ layer > header.layer
    IN
    /\ Free(c) /\ owner = Nobody /\ resizes < MaxResizes
    /\ owner' = c /\ resizes' = resizes + 1
    /\ \/ /\ n > header.size
          /\ taller => DOMAIN mem # Places
          /\ script' = [script EXCEPT ![c] = Enlarge(header, n)]
          /\ h' = [h EXCEPT ![c] =
                     [root |-> IF taller THEN Fresh(mem) ELSE header.root, size |-> n,
                      capacity |-> IF grows THEN CapacityFor(n) ELSE header.capacity,
                      layer |-> IF taller THEN layer ELSE header.layer]]
          /\ mem' = IF taller THEN AlignedMalloc(mem) ELSE mem
       \/ /\ n < header.size
          /\ script' = [script EXCEPT ![c] = Shrink(header, n)]
          /\ h' = [h EXCEPT ![c] =
                     [root |-> Descend(header.root, [k \in 1 .. header.layer - layer |-> 0]),
                      size |-> n, capacity |-> CapacityFor(n), layer |-> layer]]
          /\ UNCHANGED mem
       \/ /\ n = header.size
          /\ h' = [h EXCEPT ![c] = header]
          /\ UNCHANGED <<mem, script>>
    /\ UNCHANGED <<header, walk, spoilt>>

\* The next step of the constructor or of Resize.
Step(c) ==
    /\ script[c] # <<>>
    /\ LET s == Head(script[c])
           place == LocateInternal(h[c].root, s.layer, s.idx)
           Drop(a) == [b \in DOMAIN mem \ {a} |-> mem[b]]
       IN
       \/ /\ s.op = "insert" /\ DOMAIN mem # Places
          /\ mem' = WritePointer(AlignedMalloc(mem), place, Fresh(mem))
          /\ UNCHANGED <<header, walk>>
       \/ /\ s.op = "put"
          /\ mem' = WritePointer(mem, place, s.root)
          /\ UNCHANGED <<header, walk>>
       \/ /\ s.op = "sync"
          /\ header' = h[c]
          /\ UNCHANGED <<mem, walk>>
       \* It ends whether or not the reads and writes on their way have.
       \/ /\ s.op = "sleep"
          /\ walk' = [d \in Clones |-> [walk[d] EXCEPT !.late =
                         @ \/ (walk[d] # Idle /\ h[d] # header)]]
          /\ UNCHANGED <<mem, header>>
       \/ /\ s.op = "free"
          /\ mem' = LET up == LocateInternal(s.root, s.layer, s.idx)
                    IN  Drop(ReadPointer(up[1], up[2]))
          /\ UNCHANGED <<header, walk>>
       \/ /\ s.op = "free root"
          /\ mem' = Drop(s.root)
          /\ UNCHANGED <<header, walk>>
    /\ script' = [script EXCEPT ![c] = Tail(@)]
    /\ UNCHANGED <<owner, h, resizes, spoilt>>

UnLockHeader(c) ==
    /\ owner = c /\ script[c] = <<>>
    /\ owner' = Nobody
    /\ UNCHANGED <<mem, header, h, script, walk, resizes, spoilt>>

\* Read and Write: the copy of the header, one pointer at a time, the item.
ReadWrite(c, idx) ==
    /\ Free(c) /\ idx < header.size
    /\ h' = [h EXCEPT ![c] = header]
    /\ walk' = [walk EXCEPT ![c] =
           [idx |-> idx, at |-> header.root, passed |-> 0, late |-> FALSE]]
    /\ UNCHANGED <<mem, header, owner, script, resizes, spoilt>>

Walk(c) ==
    LET w == walk[c] IN
    /\ w # Idle /\ w.passed < h[c].layer - 1
    /\ walk' = [walk EXCEPT ![c] =
           [@ EXCEPT !.at = ReadPointer(w.at,
                Path(h[c].layer - 1, w.idx \div items_per_bucket)[w.passed + 1]),
                     !.passed = w.passed + 1]]
    /\ UNCHANGED <<mem, header, owner, h, script, resizes, spoilt>>

\* The item is read, or it is written.
Access(c) ==
    LET w == walk[c] IN
    /\ w # Idle /\ w.passed >= h[c].layer - 1
    /\ walk' = [walk EXCEPT ![c] = Idle]
    /\ \/ UNCHANGED <<mem, spoilt>>
       \/ /\ mem' = WriteItem(mem, <<w.at, w.idx % items_per_bucket>>)
          /\ spoilt' = (spoilt \/ (w.late /\ w.at \in DOMAIN mem))
    /\ UNCHANGED <<header, owner, h, script, resizes>>

Next ==
    \E c \in Clones :
        \/ \E n \in Sizes : Resize(c, n)
        \/ Step(c)
        \/ UnLockHeader(c)
        \/ \E n \in Sizes : ReadWrite(c, n - 1)
        \/ Walk(c)
        \/ Access(c)

Spec == Init /\ [][Next]_vars

-----------------------------------------------------------------------------
(* Properties *)

\* Every index below the size in the header leads to a live bucket, and no
\* two to the same place: at every moment, the middle of a Resize included,
\* since enlarging allocates before it syncs and shrinking syncs before it
\* frees.  As long as no late Write has landed.
LocatesWhole ==
    LET placed == [i \in 0 .. header.size - 1 |-> Locate(header, i)]
    IN  ~spoilt => /\ \A i \in DOMAIN placed : placed[i][1] \in DOMAIN mem
                   /\ \A i, j \in DOMAIN placed : placed[i] = placed[j] => i = j

\* The walk of a Read or Write ends in a live bucket, and in the one where the
\* header now places its item.
Lands(c) ==
    (walk[c] # Idle /\ walk[c].passed >= h[c].layer - 1) =>
        /\ walk[c].at \in DOMAIN mem
        /\ walk[c].idx < header.size => walk[c].at = Locate(header, walk[c].idx)[1]

\* A Read or Write that started under an earlier header still lands, if the sleep
\* of each Resize that has shrunk the array since has outlasted it.
WalkLands == ~spoilt => \A c \in Clones : ~walk[c].late => Lands(c)

\* The same of every Read and Write: "wait for enough time before an in-process
\* array read/write" (garray.h:255).  It fails; "add re-do check if the process
\* time exceed this time" is still to be done (garray.h:256).
SleepEnough == \A c \in Clones : Lands(c)

\* Between two calls of Resize the live buckets are those the size calls
\* for, layer by layer: shrinking frees every other one, once.
NothingLeaked ==
    (header # NoHeader /\ ~spoilt /\ \A c \in Clones : script[c] = <<>>) =>
        DOMAIN mem = UNION {
            {Descend(header.root, Path(i, j)) :
                j \in 0 .. CalLayers(header.size, header.layer)[i] - 1} :
                    i \in 0 .. header.layer - 1}

\* No step of Resize moves an item that both sizes have.
ItemsStay ==
    [][<<mem, header>>' # <<mem, header>> /\ ~spoilt' =>
          \A i \in 0 .. header.size - 1 :
              i < header'.size => Locate(header, i) = Locate(header, i)']_vars

=============================================================================

----------------------------- MODULE SlabClasses -----------------------------
(***************************************************************************)
(* The size classes of the slab allocator: the table that slabs_init fills *)
(* and the look-up of a size in it (slabs.cc).                             *)
(***************************************************************************)
EXTENDS Naturals, Sequences, SequencesExt

CONSTANTS
  chunk_size,           \* size of the smallest class
  CHUNK_ALIGN_BYTES,
  BLOCK_SIZE,
  item_size_max,        \* size of a page and of the largest class
  FactorNum, FactorDen, \* growth factor of the classes
  POWER_LARGEST         \* the last index of the table

ALIGN(x, a) == ((x + a - 1) \div a) * a

\* The loop of slabs_init goes on: the table has room, and the next class is
\* not past the largest.
MoreClasses(acc) ==
  /\ Len(acc.sizes) + 1 < POWER_LARGEST
  /\ acc.size * FactorNum <= item_size_max * FactorDen

AddClasses(acc, sizes, size) ==
  [sizes |-> acc.sizes \o sizes, pre_size |-> size,
   size |-> (size * FactorNum) \div FactorDen]

\* Mutant of ClassesFrom: no class is added where the sizes cross a block.
PlainClassesFrom(acc) ==
  LET size == ALIGN(acc.size, CHUNK_ALIGN_BYTES) IN
  IF MoreClasses(acc) THEN AddClasses(acc, <<size>>, size) ELSE acc

\* Mutant of ClassesFrom: the class that was crossed comes after.
SwappedClassesFrom(acc) ==
  LET size == ALIGN(acc.size, CHUNK_ALIGN_BYTES)
      crosses == /\ acc.pre_size \div BLOCK_SIZE < size \div BLOCK_SIZE
                 /\ size % BLOCK_SIZE # 0
      crossed == IF crosses THEN <<(size \div BLOCK_SIZE) * BLOCK_SIZE>> ELSE <<>>
  IN
  IF MoreClasses(acc) THEN AddClasses(acc, <<size>> \o crossed, size) ELSE acc

\* One turn of the loop: the class of the current size, and before it, when
\* the sizes have crossed a multiple of the block, a class of that multiple.
ClassesFrom(acc) ==
  LET size == ALIGN(acc.size, CHUNK_ALIGN_BYTES)
      crosses == /\ acc.pre_size \div BLOCK_SIZE < size \div BLOCK_SIZE
                 /\ size % BLOCK_SIZE # 0
      crossed == IF crosses THEN <<(size \div BLOCK_SIZE) * BLOCK_SIZE>> ELSE <<>>
  IN
  IF MoreClasses(acc) THEN AddClasses(acc, crossed \o <<size>>, size) ELSE acc

FirstTurn == [sizes |-> <<>>, pre_size |-> chunk_size, size |-> chunk_size]

\* What the loop leaves: the last class is the largest item.
Complete(acc) == Append(acc.sizes, item_size_max)

\* The first class of the table that fits, 0 when there is none.
clsid(table, size) ==
  LET fits == {id \in 1..Len(table) : size <= table[id]} IN
  IF size = 0 \/ fits = {} THEN 0
  ELSE CHOOSE id \in fits : \A other \in fits : id <= other
=============================================================================

------------------------------ MODULE SlabTable ------------------------------
(* The class table with the sizes of the code: the loop of slabs_init, one   *)
(* turn a step, and then a request for every multiple of a block up to the   *)
(* largest class.                                                            *)
EXTENDS SlabClasses

VARIABLES acc, request

Init == acc = FirstTurn /\ request = 0

Turn == MoreClasses(acc) /\ acc' = ClassesFrom(acc) /\ UNCHANGED request

Request ==
  /\ ~MoreClasses(acc) /\ request < item_size_max
  /\ request' = request + BLOCK_SIZE
  /\ UNCHANGED acc

vars == <<acc, request>>

Next == Turn \/ Request

Spec == Init /\ [][Next]_vars

\* Every multiple of the block up to item_size_max falls in a class whose size
\* is itself a multiple of the block.  Pages start at multiples of a block, so
\* every chunk of that class does, and sb_aligned_malloc keeps its assertion
\* "(uint64_t )ret % block == 0" (slabs.cc:433).
RequestAligned ==
  LET table == Complete(acc)
      id == clsid(table, request)
  IN  request > 0 => id # 0 /\ table[id] % BLOCK_SIZE = 0

\* The table grows strictly and stays within its array, so that the first
\* class that fits is the tightest one.
TableGrows ==
  LET table == Complete(acc) IN
  /\ Len(table) <= POWER_LARGEST
  /\ \A id \in 1..(Len(table) - 1) : table[id] < table[id + 1]
=============================================================================

------------------------------ MODULE Directory ------------------------------
(***************************************************************************)
(* The home node's directory entry of one block (gam/src/directory.cc,     *)
(* gam/include/directory.h), as operators on a record                      *)
(*                                                                         *)
(*   state   DirState without its DIR_ prefix                              *)
(*   shared  the nodes that hold a copy: the only element is the owner     *)
(*           when the state is DIRTY                                       *)
(*   lock    the lock word of the block's lockable address: the number of  *)
(*           readers, or EXCLUSIVE_LOCK_TAG                                *)
(*                                                                         *)
(* A block without an entry is UNSHARED (GetState), unshared and unlocked, *)
(* so the absent entry is the record NoEntry.  The list holds at most one  *)
(* address per node (the coherence runs check it), hence a set of nodes.   *)
(***************************************************************************)
EXTENDS Integers

EXCLUSIVE_LOCK_TAG == 255

DirState == {"UNSHARED", "SHARED", "DIRTY", "TO_DIRTY", "TO_SHARED", "TO_UNSHARED"}

Entry(Nodes) == [state : DirState, shared : SUBSET Nodes, lock : Int]

NoEntry == [state |-> "UNSHARED", shared |-> {}, lock |-> 0]

DirInTransition(d) == d.state \in {"TO_DIRTY", "TO_SHARED", "TO_UNSHARED"}

\* A copy for n joins the list (ToShared with an address).
DirToShared(d, n) == [d EXCEPT !.state = "SHARED", !.shared = @ \cup {n}]

\* The owner keeps its copy, now shared with the home (ToShared with Gnullptr).
DirOwnerToShared(d) == [d EXCEPT !.state = "SHARED"]

DirToDirty(d, n) == [d EXCEPT !.state = "DIRTY", !.shared = {n}]

DirUndoDirty(d) == [d EXCEPT !.state = "DIRTY"]

DirUndoShared(d) == [d EXCEPT !.state = "SHARED"]

DirToToShared(d) == [d EXCEPT !.state = "TO_SHARED"]

DirToToDirty(d) == [d EXCEPT !.state = "TO_DIRTY"]

DirToToUnShared(d) == [d EXCEPT !.state = "TO_UNSHARED"]

DirBlockLocked(d) == d.lock # 0

DirBlockWLocked(d) == d.lock = EXCLUSIVE_LOCK_TAG

\* A locked entry is kept, an unlocked one is erased; no entry, no change.
DirToUnShared(d) ==
  IF DirBlockLocked(d) THEN [d EXCEPT !.state = "UNSHARED", !.shared = {}] ELSE NoEntry

\* Drops n from the list; the last one takes an unlocked entry with it.
DirRemove(d, n) ==
  LET left == d.shared \ {n}
  IN  IF left = {} /\ ~DirBlockLocked(d) THEN NoEntry ELSE [d EXCEPT !.shared = left]

\* Mutant: nobody is dropped.
DirClearNone(d, n) == d

\* n gave its copy up (Clear): ignored when another node has become the owner.
DirClear(d, n) ==
  LET left == d.shared \ {n}
  IN  IF left # {} THEN [d EXCEPT !.shared = left]
      ELSE IF DirBlockLocked(d) THEN [d EXCEPT !.state = "UNSHARED", !.shared = {}]
      ELSE NoEntry

DirCanRLock(d) == ~(d.state = "UNSHARED" /\ DirBlockWLocked(d))

DirRLock(d) == [d EXCEPT !.lock = @ + 1]

DirCanWLock(d) == DirCanRLock(d) /\ d.lock \in {0, EXCLUSIVE_LOCK_TAG}

DirWLock(d) == [d EXCEPT !.lock = EXCLUSIVE_LOCK_TAG]

DirUnLock(d) ==
  [d EXCEPT !.lock = IF d.state = "UNSHARED" /\ DirBlockWLocked(d) THEN 0 ELSE @ - 1]
==============================================================================

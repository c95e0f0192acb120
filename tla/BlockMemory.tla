----------------------------- MODULE BlockMemory -----------------------------
(***************************************************************************)
(* What the cache coherence protocol of GAM promises to the application    *)
(* threads about one block: the block grows write by write, a thread never *)
(* sees it shrink, locks exclude each other across all workers, and the    *)
(* holder of a lock reads the block as it is.  A thread without a lock may *)
(* still be shown an older state, from a line that is on its way out.      *)
(***************************************************************************)
EXTENDS Naturals

CONSTANTS Thread, Write

VARIABLES
  block,   \* the writes the block holds
  view,    \* view[t]: the writes that t knows the block to hold
  held     \* held[t]: the lock that t has on the block

AbstractVars == <<block, view, held>>

AbstractInit ==
  /\ block = {}
  /\ view = [t \in Thread |-> {}]
  /\ held = [t \in Thread |-> "NONE"]

Perform(t, w) ==
  /\ w \notin block
  /\ block' = block \cup {w}
  /\ view' = [view EXCEPT ![t] = @ \cup {w}]
  /\ UNCHANGED held

Read(t) ==
  /\ \E seen \in SUBSET block :
       /\ view[t] \subseteq seen
       /\ held[t] # "NONE" => seen = block
       /\ view' = [view EXCEPT ![t] = seen]
  /\ UNCHANGED <<block, held>>

RLock(t) ==
  /\ held[t] = "NONE" /\ \A u \in Thread : held[u] # "WLOCK"
  /\ held' = [held EXCEPT ![t] = "RLOCK"]
  /\ UNCHANGED <<block, view>>

WLock(t) ==
  /\ \A u \in Thread : held[u] = "NONE"
  /\ held' = [held EXCEPT ![t] = "WLOCK"]
  /\ UNCHANGED <<block, view>>

Release(t) ==
  /\ held[t] # "NONE"
  /\ held' = [held EXCEPT ![t] = "NONE"]
  /\ UNCHANGED <<block, view>>

AbstractNext ==
  \E t \in Thread :
    \/ \E w \in Write : Perform(t, w)
    \/ Read(t) \/ RLock(t) \/ WLock(t) \/ Release(t)

AbstractSpec == AbstractInit /\ [][AbstractNext]_AbstractVars
==============================================================================

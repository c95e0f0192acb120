------------------------------ MODULE LockWord ------------------------------
(***************************************************************************)
(* The lock word of an address, in a CacheLine and in a DirEntry: a count  *)
(* of readers, or the tag of the writer, in one int.  The word does not    *)
(* say who holds it; readers and writer do, for the properties.            *)
(***************************************************************************)
EXTENDS Integers

CONSTANTS
  Addrs,            \* lockable addresses of one block
  MAX_SHARED_LOCK,
  MaxHolders        \* bound on the locks of one address held at a time

\* settings.h
EXCLUSIVE_LOCK_TAG == MAX_SHARED_LOCK + 1

ASSUME LockWordAssumption == MAX_SHARED_LOCK \in Nat /\ MaxHolders \in Nat

VARIABLES
  locks,    \* the word; 0 stands for no entry in the map
  readers,  \* read locks of the address that callers hold
  writers   \* write locks of the address that callers hold

vars == <<locks, readers, writers>>

Init ==
  /\ locks = [a \in Addrs |-> 0]
  /\ readers = [a \in Addrs |-> 0]
  /\ writers = [a \in Addrs |-> 0]

IsWLocked(a) == locks[a] = EXCLUSIVE_LOCK_TAG
IsRLocked(a) == locks[a] # 0 /\ locks[a] # EXCLUSIVE_LOCK_TAG
Holders(a) == readers[a] + writers[a]

\* RLock; a refusal changes nothing.
RLock(a) ==
  /\ Holders(a) < MaxHolders
  /\ ~IsWLocked(a)
  /\ locks' = [locks EXCEPT ![a] = @ + 1]
  /\ readers' = [readers EXCEPT ![a] = @ + 1]
  /\ UNCHANGED writers

\* Mutant of WLock: the readers are not looked at.
WLockOver(a) ==
  /\ Holders(a) < MaxHolders
  /\ ~IsWLocked(a)
  /\ locks' = [locks EXCEPT ![a] = EXCLUSIVE_LOCK_TAG]
  /\ writers' = [writers EXCEPT ![a] = @ + 1]
  /\ UNCHANGED readers

\* WLock
WLock(a) ==
  /\ Holders(a) < MaxHolders
  /\ ~IsWLocked(a) /\ ~IsRLocked(a)
  /\ locks' = [locks EXCEPT ![a] = EXCLUSIVE_LOCK_TAG]
  /\ writers' = [writers EXCEPT ![a] = @ + 1]
  /\ UNCHANGED readers

\* Mutant of Released: the tag is counted down like a reader.
ReleasedByOne(a) == [locks EXCEPT ![a] = @ - 1]

\* The word after UnLock: the tag goes at once, a count by one.
Released(a) == [locks EXCEPT ![a] = IF @ = EXCLUSIVE_LOCK_TAG THEN 0 ELSE @ - 1]

\* UnLock by a caller that holds a read lock, and by one that holds a write lock.
UnLockReader(a) ==
  /\ readers[a] > 0
  /\ locks' = Released(a)
  /\ readers' = [readers EXCEPT ![a] = @ - 1]
  /\ UNCHANGED writers

UnLockWriter(a) ==
  /\ writers[a] > 0
  /\ locks' = Released(a)
  /\ writers' = [writers EXCEPT ![a] = @ - 1]
  /\ UNCHANGED readers

Next == \E a \in Addrs : RLock(a) \/ WLock(a) \/ UnLockReader(a) \/ UnLockWriter(a)

Spec == Init /\ [][Next]_vars

-----------------------------------------------------------------------------
(* Properties *)

\* "if lock == 0, no one is holding the lock. otherwise, there are #lock ones
\* holding the lock but if lock = EXCLUSIVE_LOCK_TAG, it is a exclusive lock"
\* (directory.h 26-27).
LockCount ==
  \A a \in Addrs :
    locks[a] = IF writers[a] > 0 THEN EXCLUSIVE_LOCK_TAG ELSE readers[a]

\* A writer of an address holds it alone, whatever was locked and unlocked
\* before (RLock, WLock and UnLock of cache.h and directory.cc).
Exclusion ==
  \A a \in Addrs : writers[a] > 0 => writers[a] = 1 /\ readers[a] = 0
=============================================================================

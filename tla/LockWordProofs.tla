--------------------------- MODULE LockWordProofs ---------------------------
(***************************************************************************)
(* The lock word tells its holders apart for every limit and every set of  *)
(* addresses, as long as no address has more holders than the limit.       *)
(***************************************************************************)
EXTENDS LockWord, TLAPS

\* The word, the counts and their bound, together inductive.
IInv ==
  /\ locks \in [Addrs -> Nat] /\ readers \in [Addrs -> Nat] /\ writers \in [Addrs -> Nat]
  /\ \A a \in Addrs : Holders(a) <= MaxHolders
  /\ LockCount
  /\ Exclusion

\* Nobody holds anything at first.
LEMMA InitIInv == Init => IInv
  BY LockWordAssumption DEF Init, IInv, Holders, LockCount, Exclusion

\* Below the limit a count of readers is never the tag, so every test of the
\* word sees what is held.
LEMMA NextIInv ==
  ASSUME MaxHolders <= MAX_SHARED_LOCK
  PROVE  IInv /\ [Next]_vars => IInv'
<1> SUFFICES ASSUME IInv, [Next]_vars
             PROVE  IInv'
  OBVIOUS
<1> USE LockWordAssumption DEF IInv, Holders, EXCLUSIVE_LOCK_TAG
<1>a. \A b \in Addrs : /\ locks[b] = IF writers[b] > 0 THEN EXCLUSIVE_LOCK_TAG ELSE readers[b]
                       /\ writers[b] > 0 => writers[b] = 1 /\ readers[b] = 0
  BY DEF LockCount, Exclusion
<1>1. CASE UNCHANGED vars
  BY <1>1 DEF vars, LockCount, Exclusion
<1>2. ASSUME NEW a \in Addrs, RLock(a)
      PROVE  IInv'
  <2>1. writers[a] = 0
    BY <1>a, <1>2 DEF RLock, IsWLocked
  <2>2. readers[a] + 1 <= MaxHolders
    BY <2>1, <1>2 DEF RLock
  <2>3. /\ locks' \in [Addrs -> Nat] /\ readers' \in [Addrs -> Nat] /\ writers' \in [Addrs -> Nat]
        /\ \A b \in Addrs : Holders(b)' <= MaxHolders
    BY <1>2, <2>1, <2>2 DEF RLock
  <2>. QED BY <1>a, <1>2, <2>1, <2>2, <2>3 DEF RLock, LockCount, Exclusion
<1>3. ASSUME NEW a \in Addrs, WLock(a)
      PROVE  IInv'
  <2>1. writers[a] = 0 /\ readers[a] = 0
    BY <1>a, <1>3 DEF WLock, IsWLocked, IsRLocked
  <2>2. /\ locks' \in [Addrs -> Nat] /\ readers' \in [Addrs -> Nat] /\ writers' \in [Addrs -> Nat]
        /\ \A b \in Addrs : Holders(b)' <= MaxHolders
    BY <1>3, <2>1 DEF WLock
  <2>. QED BY <1>a, <1>3, <2>1, <2>2 DEF WLock, LockCount, Exclusion
<1>4. ASSUME NEW a \in Addrs, UnLockReader(a)
      PROVE  IInv'
  <2>1. writers[a] = 0 /\ locks[a] = readers[a] /\ locks[a] # EXCLUSIVE_LOCK_TAG
    BY <1>a, <1>4 DEF UnLockReader
  <2>2. locks' = [locks EXCEPT ![a] = locks[a] - 1]
    BY <1>4, <2>1 DEF UnLockReader, Released
  <2>3. /\ locks' \in [Addrs -> Nat] /\ readers' \in [Addrs -> Nat] /\ writers' \in [Addrs -> Nat]
        /\ \A b \in Addrs : Holders(b)' <= MaxHolders
    BY <1>4, <2>1, <2>2 DEF UnLockReader
  <2>. QED BY <1>a, <1>4, <2>1, <2>2, <2>3 DEF UnLockReader, LockCount, Exclusion
<1>5. ASSUME NEW a \in Addrs, UnLockWriter(a)
      PROVE  IInv'
  <2>1. writers[a] = 1 /\ readers[a] = 0 /\ locks[a] = EXCLUSIVE_LOCK_TAG
    BY <1>a, <1>5 DEF UnLockWriter
  <2>2. locks' = [locks EXCEPT ![a] = 0]
    BY <1>5, <2>1 DEF UnLockWriter, Released
  <2>3. /\ locks' \in [Addrs -> Nat] /\ readers' \in [Addrs -> Nat] /\ writers' \in [Addrs -> Nat]
        /\ \A b \in Addrs : Holders(b)' <= MaxHolders
    BY <1>5, <2>1, <2>2 DEF UnLockWriter
  <2>. QED BY <1>a, <1>5, <2>1, <2>2, <2>3 DEF UnLockWriter, LockCount, Exclusion
<1>. QED BY <1>1, <1>2, <1>3, <1>4, <1>5 DEF Next

\* The comment of directory.h 26-27 is true of RLock, WLock and UnLock while no
\* address has more than MAX_SHARED_LOCK holders, for every MAX_SHARED_LOCK.
THEOREM WordCountsHolders ==
  ASSUME MaxHolders <= MAX_SHARED_LOCK
  PROVE  Spec => []LockCount
<1>1. IInv => LockCount
  BY DEF IInv
<1>. QED BY InitIInv, NextIInv, <1>1, PTL DEF Spec

\* Under the same condition a writer holds its address alone.
THEOREM WriterAlone ==
  ASSUME MaxHolders <= MAX_SHARED_LOCK
  PROVE  Spec => []Exclusion
<1>1. IInv => Exclusion
  BY DEF IInv
<1>. QED BY InitIInv, NextIInv, <1>1, PTL DEF Spec
=============================================================================

------------------------------ MODULE RangeLock ------------------------------
(***************************************************************************)
(* Locks on a range of addresses: GAlloc::Lock splits a range into one     *)
(* request for its first address and one for the start of every further    *)
(* block, in ascending order, and takes them back when a try fails         *)
(* (gallocator.cc).  The locks themselves are those of Coherence; here a   *)
(* request is granted in one step.  An UNLOCK is asynchronous: the call    *)
(* goes on while the request is on its way.                                *)
(***************************************************************************)
EXTENDS Naturals, Sequences, FiniteSets, SequencesExt

CONSTANTS
  Threads,
  Ranges,      \* pairs <<addr, count>> that the application locks
  BLOCK_SIZE,
  MaxCalls     \* bound on the calls of each thread

RangeLockAssumption ==
  /\ BLOCK_SIZE \in Nat \ {0} /\ MaxCalls \in Nat
  /\ \A r \in Ranges : r[1] \in Nat /\ r[2] \in Nat \ {0}

VARIABLES
  call,     \* the call of a thread: its phase, addresses, requests done
  held,     \* held[t]: the addresses t holds, each with RLOCK or WLOCK
  unlocks,  \* UNLOCK requests of t on their way
  calls     \* calls each thread has made

vars == <<call, held, unlocks, calls>>

TOBLOCK(addr) == (addr \div BLOCK_SIZE) * BLOCK_SIZE

\* Mutant of Requests: the first address comes last.
RequestsLast(r) ==
  LET blocks == {b \in (TOBLOCK(r[1]) + 1)..TOBLOCK(r[1] + r[2] - 1) : TOBLOCK(b) = b}
  IN  SetToSortSeq(blocks, <) \o <<r[1]>>

\* The addresses that a call locks, in its order.
Requests(r) ==
  LET blocks == {b \in (TOBLOCK(r[1]) + 1)..TOBLOCK(r[1] + r[2] - 1) : TOBLOCK(b) = b}
  IN  <<r[1]>> \o SetToSortSeq(blocks, <)

Idle == [phase |-> "idle"]

Init ==
  /\ call = [t \in Threads |-> Idle]
  /\ held = [t \in Threads |-> {}]
  /\ unlocks = [t \in Threads |-> <<>>]
  /\ calls = [t \in Threads |-> 0]

\* RLock, WLock, Try_RLock and Try_WLock.
Lock(t, op, r, try) ==
  /\ call[t] = Idle /\ calls[t] < MaxCalls
  /\ calls' = [calls EXCEPT ![t] = @ + 1]
  /\ call' = [call EXCEPT ![t] =
       [phase |-> "locking", op |-> op, addrs |-> Requests(r), try |-> try, i |-> 0]]
  /\ UNCHANGED <<held, unlocks>>

Address(t) == call[t].addrs[call[t].i + 1]
Finished(t) == call[t].i = Len(call[t].addrs)

Compatible(t, a, op) ==
  \A u \in Threads \ {t}, other \in {"RLOCK", "WLOCK"} :
    <<a, other>> \in held[u] => op = "RLOCK" /\ other = "RLOCK"

\* A lock request that succeeds.  A block keeps the requests of a thread in
\* order, so an UNLOCK of the same address has been served before it.
Granted(t) ==
  /\ call[t].phase = "locking" /\ ~Finished(t)
  /\ Address(t) \notin Range(unlocks[t])
  /\ Compatible(t, Address(t), call[t].op)
  /\ held' = [held EXCEPT ![t] = @ \cup {<<Address(t), call[t].op>>}]
  /\ call' = [call EXCEPT ![t].i = @ + 1]
  /\ UNCHANGED <<unlocks, calls>>

\* A request with TRY_LOCK that fails at the i-th address.
Refused(t) ==
  /\ call[t].phase = "locking" /\ ~Finished(t) /\ call[t].try
  /\ Address(t) \notin Range(unlocks[t])
  /\ ~Compatible(t, Address(t), call[t].op)
  /\ call' = [call EXCEPT ![t] =
       [phase |-> "undoing", op |-> @.op, addrs |-> @.addrs, i |-> @.i, j |-> 0]]
  /\ UNCHANGED <<held, unlocks, calls>>

Succeeded(t) ==
  /\ call[t].phase = "locking" /\ Finished(t)
  /\ call' = [call EXCEPT ![t] = [phase |-> "holding", op |-> @.op, addrs |-> @.addrs]]
  /\ UNCHANGED <<held, unlocks, calls>>

\* Mutant of Undo: the request that failed is taken back too.
UndoOver(t) ==
  /\ call[t].phase = "undoing" /\ call[t].j <= call[t].i
  /\ unlocks' = [unlocks EXCEPT ![t] =
       Append(@, call[t].addrs[call[t].j + 1])]
  /\ call' = [call EXCEPT ![t].j = @ + 1]
  /\ UNCHANGED <<held, calls>>

\* Mutant of Undo: the first address is left out.
UndoRest(t) ==
  /\ call[t].phase = "undoing" /\ call[t].j < call[t].i
  /\ unlocks' = [unlocks EXCEPT ![t] =
       IF call[t].j = 0 THEN @ ELSE Append(@, call[t].addrs[call[t].j + 1])]
  /\ call' = [call EXCEPT ![t].j = @ + 1]
  /\ UNCHANGED <<held, calls>>

\* The requests that succeeded before the failure are taken back, one by one.
Undo(t) ==
  /\ call[t].phase = "undoing" /\ call[t].j < call[t].i
  /\ unlocks' = [unlocks EXCEPT ![t] =
       Append(@, call[t].addrs[call[t].j + 1])]
  /\ call' = [call EXCEPT ![t].j = @ + 1]
  /\ UNCHANGED <<held, calls>>

\* Lock returns -1.
Failed(t) ==
  /\ call[t].phase = "undoing" /\ call[t].j >= call[t].i
  /\ call' = [call EXCEPT ![t] = Idle]
  /\ UNCHANGED <<held, unlocks, calls>>

\* UnLock, with the range of the lock, and its loop over the blocks.
UnLock(t) ==
  \/ /\ call[t].phase = "holding"
     /\ call' = [call EXCEPT ![t] = [phase |-> "unlocking", addrs |-> @.addrs, i |-> 0]]
     /\ UNCHANGED <<held, unlocks, calls>>
  \/ /\ call[t].phase = "unlocking" /\ ~Finished(t)
     /\ unlocks' = [unlocks EXCEPT ![t] = Append(@, Address(t))]
     /\ call' = [call EXCEPT ![t].i = @ + 1]
     /\ UNCHANGED <<held, calls>>
  \/ /\ call[t].phase = "unlocking" /\ Finished(t)
     /\ call' = [call EXCEPT ![t] = Idle]
     /\ UNCHANGED <<held, unlocks, calls>>

\* An UNLOCK takes effect; those of different blocks in any order.
Unlocked(t) ==
  \E i \in DOMAIN unlocks[t] :
    /\ held' = [held EXCEPT ![t] = {h \in @ : h[1] # unlocks[t][i]}]
    /\ unlocks' = [unlocks EXCEPT ![t] = RemoveAt(@, i)]
    /\ UNCHANGED <<call, calls>>

Step(t) ==
  Granted(t) \/ Refused(t) \/ Succeeded(t) \/ Undo(t) \/ Failed(t) \/ UnLock(t)

Next ==
  \E t \in Threads :
    \/ \E op \in {"RLOCK", "WLOCK"}, r \in Ranges, try \in BOOLEAN : Lock(t, op, r, try)
    \/ Step(t) \/ Unlocked(t)

Spec == Init /\ [][Next]_vars

FairSpec == Spec /\ \A t \in Threads : WF_vars(Step(t)) /\ WF_vars(Unlocked(t))

-----------------------------------------------------------------------------
\* Every UNLOCK on its way is for an address that its thread still holds, and
\* is there once: taking back a failed try, and unlocking, never release a lock
\* that is not the thread's own ("epicAssert(!ret)", gallocator.cc:240, 253).
ReleasesOwn ==
  \A t \in Threads :
    /\ \A i \in DOMAIN unlocks[t] : \E op \in {"RLOCK", "WLOCK"} :
         <<unlocks[t][i], op>> \in held[t]
    /\ IsInjective(unlocks[t])

\* A thread that is in no call, a failed try included, holds nothing but what
\* is about to be unlocked; one that holds a range has every address of it.
HeldAccounted ==
  \A t \in Threads :
    LET own == {h \in held[t] : h[1] \notin Range(unlocks[t])} IN
    /\ call[t] = Idle => own = {}
    /\ call[t].phase = "holding" =>
         own = {<<a, call[t].op>> : a \in Range(call[t].addrs)}

\* Every call returns: no cycle of threads each holding the head of a range
\* that the next one wants, because all of them ascend.
CallsReturn ==
  \A t \in Threads :
    (call[t].phase = "locking") ~> (call[t].phase \in {"holding", "idle"})
=============================================================================

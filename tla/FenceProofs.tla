----------------------------- MODULE FenceProofs -----------------------------
(***************************************************************************)
(* Proofs about Fence, for any calls of the thread, any number of them and *)
(* any number of other threads that complete its writes.                   *)
(***************************************************************************)
EXTENDS Fence, FiniteSetTheorems, TLAPS

-----------------------------------------------------------------------------
(* The inductive invariant *)

In(x, s) == \E k \in 1..Len(s) : s[k] = x

Increasing(s) == \A k, l \in 1..Len(s) : k < l => s[k] < s[l]

\* The call that has not passed its prologue.
Entering(i) == pc[App] = "enter" /\ i = Len(prog)

\* A call that is neither in its prologue nor in pending_works has passed the
\* fence.
Passed(i) == ~ Entering(i) /\ ~ In(i, pending_works)

\* The lock is held by the one agent that drains, with a flag raised, and no
\* write passes the fence meanwhile.
Locked ==
  /\ \A a \in FenceAgents : pc[a] \in {"drain", "close"} <=> lock = a
  /\ in_process <=> lock # Free
  /\ lock # Free => IsFenced
  /\ pc[App] \in {"count", "hit"} => lock = Free /\ ~IsFenced
  /\ \A a \in FenceAgents : a # App => pc[a] \notin {"enter", "count", "hit"}
  /\ \A a \in FenceAgents : (pc[a] = "close" => fenced) /\ (pc[a] = "drain" => ~fenced)

\* pending_works holds calls that have not started, in program order, and every
\* other call that is no fence has started.
Waits ==
  /\ Increasing(pending_works)
  /\ \A i \in 1..Len(prog) : In(i, pending_works) => ~ In(i, order) /\ ~ Entering(i)
  /\ \A i \in 1..Len(prog) : Entering(i) => ~ In(i, order)
  /\ \A i \in 1..Len(prog) :
       Passed(i) /\ prog[i] \notin {"MFENCE", "SFENCE"} => In(i, order)

\* An outstanding write has started; one that is not counted yet will be.
Known ==
  /\ \A i \in DOMAIN outstanding : In(i, order) /\ prog[i] = "WRITE"
  /\ pc[App] \in {"enter", "count"} => Len(prog) > 0
  /\ pc[App] = "count" =>
       /\ In(Len(prog), order) /\ prog[Len(prog)] = "WRITE"
       /\ Len(prog) \notin DOMAIN outstanding

Barriers == {"MFENCE", "SFENCE"} \cup LockOps

\* A fence that has passed over an outstanding write has left its flag raised; a
\* barrier behind a queued call is queued too.
Raised ==
  /\ \A j \in DOMAIN outstanding, b \in 1..Len(prog) :
       j < b /\ prog[b] \in Barriers /\ Passed(b) =>
         /\ IsFenced /\ (prog[b] # "SFENCE" => mfenced)
         /\ \A a \in FenceAgents : pc[a] # "drain"
  /\ \A i, b \in 1..Len(prog) :
       In(i, pending_works) /\ i < b /\ prog[b] \in Barriers => ~ Passed(b)
  /\ sfenced => \E b \in 1..Len(prog) : prog[b] = "SFENCE" /\ ~ Entering(b)

IInv == FenceSound /\ Locked /\ Waits /\ Known /\ Raised

-----------------------------------------------------------------------------
(* Facts about queues and the set of outstanding writes *)

\* A call is added at the end of a queue.
LEMMA Appended ==
  ASSUME NEW S, NEW s \in Seq(S), NEW e \in S
  PROVE  /\ Append(s, e) \in Seq(S)
         /\ \A x : In(x, Append(s, e)) <=> In(x, s) \/ x = e
         /\ (S \subseteq Nat /\ Increasing(s) /\ \A x \in S : In(x, s) => x < e)
              => Increasing(Append(s, e))
<1> DEFINE r == Append(s, e)
<1>1. /\ r \in Seq(S) /\ Len(s) \in Nat /\ Len(r) = Len(s) + 1 /\ r[Len(s) + 1] = e
      /\ \A k \in 1..Len(s) : r[k] = s[k] /\ s[k] \in S
  OBVIOUS
<1> HIDE DEF r
<1>2. ASSUME NEW x, In(x, r) PROVE In(x, s) \/ x = e
  <2>1. PICK k \in 1..Len(r) : r[k] = x
    BY Zenon, <1>2 DEF In
  <2>2. k \in 1..Len(s) \/ k = Len(s) + 1
    BY <1>1
  <2> QED
    BY Zenon, <1>1, <2>1, <2>2 DEF In
<1>3. ASSUME NEW x, In(x, s) PROVE In(x, r)
  <2>1. PICK k \in 1..Len(s) : s[k] = x
    BY Zenon, <1>3 DEF In
  <2>2. k \in 1..Len(r) /\ r[k] = x
    BY <1>1, <2>1
  <2> QED
    BY Zenon, <2>2 DEF In
<1>4. In(e, r)
  <2>1. Len(s) + 1 \in 1..Len(r)
    BY <1>1
  <2> QED
    BY Zenon, <1>1, <2>1 DEF In
<1>5. ASSUME S \subseteq Nat, Increasing(s), \A x \in S : In(x, s) => x < e
      PROVE  Increasing(r)
  <2> SUFFICES ASSUME NEW k \in 1..Len(r), NEW l \in 1..Len(r), k < l PROVE r[k] < r[l]
    BY Zenon DEF Increasing
  <2>1. CASE l \in 1..Len(s)
    <3>1. k \in 1..Len(s)
      BY <1>1, <2>1
    <3> QED
      BY ZenonT(60), <1>1, <1>5, <2>1, <3>1 DEF Increasing
  <2>2. CASE l = Len(s) + 1
    <3>1. k \in 1..Len(s)
      BY <1>1, <2>2
    <3>2. s[k] \in S /\ In(s[k], s)
      BY Zenon, <1>1, <3>1 DEF In
    <3> QED
      BY ZenonT(60), <1>1, <1>5, <2>2, <3>1, <3>2
  <2> QED
    BY <1>1, <2>1, <2>2
<1>6. \A x : In(x, r) <=> In(x, s) \/ x = e
  BY Zenon, <1>2, <1>3, <1>4
<1> QED
  BY Zenon, <1>1, <1>5, <1>6 DEF r

\* The first call of an increasing queue is the least, and is taken.
LEMMA Dropped ==
  ASSUME NEW S \in SUBSET Nat, NEW s \in Seq(S), s # <<>>, Increasing(s)
  PROVE  /\ Tail(s) \in Seq(S) /\ Increasing(Tail(s))
         /\ Head(s) \in S /\ In(Head(s), s)
         /\ \A x : In(x, s) => x \in S /\ Head(s) <= x
         /\ \A x : In(x, Tail(s)) <=> In(x, s) /\ x # Head(s)
<1> DEFINE r == Tail(s)
           h == Head(s)
<1>1. /\ r \in Seq(S) /\ Len(s) \in Nat \ {0} /\ Len(r) = Len(s) - 1
      /\ h \in S /\ h = s[1] /\ \A k \in 1..Len(s) : s[k] \in S
      /\ \A k \in 1..Len(r) : r[k] = s[k + 1]
  OBVIOUS
<1> HIDE DEF r, h
<1>2. In(h, s)
  <2>1. 1 \in 1..Len(s)
    BY <1>1
  <2> QED
    BY Zenon, <1>1, <2>1 DEF In
<1>3. \A k \in 1..Len(s) : k # 1 => h < s[k]
  BY <1>1 DEF Increasing
<1>4. Increasing(r)
  <2> SUFFICES ASSUME NEW k \in 1..Len(r), NEW l \in 1..Len(r), k < l PROVE r[k] < r[l]
    BY Zenon DEF Increasing
  <2>1. k + 1 \in 1..Len(s) /\ l + 1 \in 1..Len(s) /\ k + 1 < l + 1
    BY <1>1
  <2> QED
    BY Zenon, <1>1, <2>1 DEF Increasing
<1>5. ASSUME NEW x, In(x, s) PROVE x \in S /\ h <= x /\ (x # h => In(x, r))
  <2>1. PICK k \in 1..Len(s) : s[k] = x
    BY Zenon, <1>5 DEF In
  <2>2. x \in S /\ h <= x
    <3>1. CASE k = 1
      BY <1>1, <2>1, <3>1
    <3>2. CASE k # 1
      <4>1. x \in Nat /\ h \in Nat /\ h < x
        BY ZenonT(60), <1>1, <1>3, <2>1, <3>2
      <4> QED
        BY <1>1, <2>1, <4>1
    <3> QED
      BY ZenonT(60), <3>1, <3>2
  <2>3. CASE x # h
    <3>1. k - 1 \in 1..Len(r) /\ (k - 1) + 1 = k
      BY <1>1, <2>1, <2>3
    <3>2. r[k - 1] = x
      BY ZenonT(60), <1>1, <2>1, <3>1
    <3> QED
      BY ZenonT(60), <2>2, <3>1, <3>2 DEF In
  <2> QED
    BY Zenon, <2>2, <2>3
<1>6. ASSUME NEW x, In(x, r) PROVE In(x, s) /\ x # h
  <2>1. PICK k \in 1..Len(r) : r[k] = x
    BY Zenon, <1>6 DEF In
  <2>2. k + 1 \in 1..Len(s) /\ k + 1 # 1 /\ s[k + 1] = x
    BY <1>1, <2>1
  <2>3. h < x /\ h \in Nat /\ x \in Nat
    BY ZenonT(60), <1>1, <1>3, <2>2
  <2>4. In(x, s)
    BY Zenon, <2>2 DEF In
  <2> QED
    BY <2>3, <2>4
<1> QED
  BY ZenonT(60), <1>1, <1>2, <1>4, <1>5, <1>6 DEF r, h

\* Nothing is in the empty queue.
LEMMA NoneIn == \A x : ~ In(x, <<>>)
  BY DEF In

\* The number of outstanding writes, when one more is started or one completes.
LEMMA Counting ==
  ASSUME NEW n \in Nat, NEW D \in SUBSET (1..n)
  PROVE  /\ Cardinality(D) \in 0..n
         /\ Cardinality(D) = 0 <=> D = {}
         /\ \A i \in 1..n : i \notin D => Cardinality(D \cup {i}) = Cardinality(D) + 1
         /\ \A i \in D : Cardinality(D \ {i}) = Cardinality(D) - 1
<1>1. IsFiniteSet(1..n) /\ Cardinality(1..n) = n
  BY FS_Interval
<1>2. IsFiniteSet(D) /\ Cardinality(D) <= n
  BY ZenonT(60), <1>1, FS_Subset
<1>3. Cardinality(D) \in Nat /\ (Cardinality(D) = 0 <=> D = {})
  BY ZenonT(60), <1>2, FS_CardinalityType, FS_EmptySet
<1>4. \A i \in 1..n : i \notin D => Cardinality(D \cup {i}) = Cardinality(D) + 1
  BY Zenon, <1>2, FS_AddElement
<1>5. \A i \in D : Cardinality(D \ {i}) = Cardinality(D) - 1
  BY Zenon, <1>2, FS_RemoveElement
<1> QED
  BY <1>2, <1>3, <1>4, <1>5

-----------------------------------------------------------------------------
(* Every step preserves the invariant *)

\* Where an agent goes, and where the others stay.
LEMMA Went ==
  ASSUME FenceTypeOK, NEW a \in FenceAgents,
         NEW l \in {"idle", "enter", "count", "hit", "test", "lock", "drain", "close"},
         Goto(a, l)
  PROVE  /\ pc' \in [FenceAgents -> {"idle", "enter", "count", "hit", "test", "lock", "drain", "close"}]
         /\ pc'[a] = l /\ \A b \in FenceAgents : b # a => pc'[b] = pc[b]
  BY Zenon DEF FenceTypeOK, Goto

\* What the types say of the queues.
LEMMA Calls ==
  ASSUME FenceTypeOK
  PROVE  /\ Len(prog) \in Nat /\ 1..Len(prog) \in SUBSET Nat
         /\ \A x : In(x, pending_works) => x \in 1..Len(prog)
         /\ \A x : In(x, order) => x \in 1..Len(prog)
<1>1. ASSUME NEW s \in Seq(1..Len(prog)), NEW x, In(x, s) PROVE x \in 1..Len(prog)
  BY <1>1 DEF In
<1> QED
  BY <1>1 DEF FenceTypeOK

\* The invariant holds before the first call.
LEMMA InitIInv == ASSUME FenceInit PROVE IInv
<1>1. App \in FenceAgents /\ Free \notin FenceAgents /\ FenceCalls \in Nat
  BY Zenon, FenceAssumption DEF FenceAgents
<1>2. DOMAIN outstanding = {} /\ Len(prog) = 0 /\ 1..0 = {}
  BY DEF FenceInit
<1>3. FenceTypeOK
  <2>1. /\ prog \in Seq(Ops) /\ order \in Seq(1..Len(prog)) /\ pending_works \in Seq(1..Len(prog))
        /\ Len(prog) <= FenceCalls /\ pending_writes \in 0..FenceCalls
    BY <1>1, <1>2 DEF FenceInit
  <2>2. /\ lock \in FenceAgents \cup {Free}
        /\ pc \in [FenceAgents -> {"idle", "enter", "count", "hit", "test", "lock", "drain", "close"}]
        /\ {mfenced, sfenced, in_process, fenced} \subseteq BOOLEAN
    BY ZenonT(60) DEF FenceInit
  <2> QED
    BY Zenon, <1>2, <2>1, <2>2 DEF FenceTypeOK
<1>4. PendingCounted /\ QueueBehindFence
  BY Zenon, <1>2, FS_EmptySet DEF FenceInit, PendingCounted, QueueBehindFence
<1>5. Locked
  BY Zenon, <1>1 DEF FenceInit, Locked
<1>6. Waits
  BY Zenon, <1>2 DEF FenceInit, Waits, Increasing
<1>7. Known
  BY Zenon, <1>1, <1>2 DEF FenceInit, Known
<1>8. Raised
  BY Zenon, <1>2 DEF FenceInit, Raised
<1> QED
  BY Zenon, <1>3, <1>4, <1>5, <1>6, <1>7, <1>8 DEF IInv, FenceSound

\* A new call of the thread preserves the invariant: it has passed nothing.
LEMMA SendStep ==
  ASSUME IInv, NEW op \in Ops, SendRequest(op)
  PROVE  IInv'
<1> DEFINE n == Len(prog)
<1>1. FenceTypeOK /\ PendingCounted /\ QueueBehindFence /\ Locked /\ Waits /\ Known /\ Raised
  BY Zenon DEF IInv, FenceSound
<1>2. /\ pc[App] = "idle" /\ n < FenceCalls /\ Goto(App, "enter") /\ App \in FenceAgents
      /\ UNCHANGED <<order, mfenced, sfenced, pending_writes, in_process,
                     pending_works, lock, outstanding, fenced>>
  BY Zenon DEF SendRequest, FenceAgents
<1>3. /\ prog' \in Seq(Ops) /\ Len(prog') = n + 1 /\ n \in Nat /\ n + 1 <= FenceCalls
      /\ \A i \in 1..n : prog'[i] = prog[i]
      /\ 1..n \subseteq 1..(n + 1) /\ \A i \in 1..(n + 1) : i \in 1..n \/ i = n + 1
      /\ n + 1 \notin 1..n
  BY FenceAssumption, <1>1, <1>2 DEF SendRequest, FenceTypeOK
<1>4. /\ pc' \in [FenceAgents -> {"idle", "enter", "count", "hit", "test", "lock", "drain", "close"}]
      /\ pc'[App] = "enter" /\ \A b \in FenceAgents : b # App => pc'[b] = pc[b]
  BY Zenon, <1>1, <1>2, Went
<1>5. /\ \A x : In(x, pending_works) => x \in 1..n
      /\ \A x : In(x, order) => x \in 1..n
  BY Zenon, <1>1, Calls
<1>6. \A i : /\ Entering(i)' <=> i = n + 1
             /\ ~ Entering(i)
  BY Zenon, <1>2, <1>3, <1>4 DEF Entering
<1>7. \A i \in 1..n : Passed(i)' <=> Passed(i)
  BY Zenon, <1>2, <1>3, <1>6 DEF Passed
<1> HIDE DEF n
<1>8. FenceTypeOK' /\ PendingCounted' /\ QueueBehindFence'
  <2>1. order \in Seq(1..(n + 1)) /\ pending_works \in Seq(1..(n + 1))
    BY <1>1, <1>3 DEF FenceTypeOK, n
  <2> QED
    BY Zenon, <1>1, <1>2, <1>3, <1>4, <2>1 DEF FenceTypeOK, PendingCounted, QueueBehindFence, IsFenced, n
<1>9. Locked'
  BY Zenon, <1>1, <1>2, <1>4 DEF Locked, IsFenced
<1>10. Waits'
  BY Zenon, <1>1, <1>2, <1>3, <1>5, <1>6, <1>7 DEF Waits, Passed, n
<1>11. Known'
  BY <1>1, <1>2, <1>3, <1>4, <1>5 DEF Known, n
<1>12. Raised'
  BY ZenonT(60), <1>1, <1>2, <1>3, <1>4, <1>5, <1>6, <1>7 DEF Raised, IsFenced, Passed, FenceTypeOK, n
<1> QED
  BY Zenon, <1>8, <1>9, <1>10, <1>11, <1>12 DEF IInv, FenceSound

\* A call whose prologue finds the fence closed, or closes it, waits.
LEMMA QueueStep ==
  ASSUME IInv, pc[App] = "enter", lock = Free, AddToFence,
         mfenced' \in BOOLEAN, mfenced => mfenced', sfenced' = sfenced, mfenced' \/ sfenced',
         UNCHANGED <<prog, pending_writes, in_process, lock, outstanding, fenced>>
  PROVE  IInv'
<1> DEFINE n == Len(prog)
<1>1. FenceTypeOK /\ PendingCounted /\ QueueBehindFence /\ Locked /\ Waits /\ Known /\ Raised
  BY Zenon DEF IInv, FenceSound
<1>2. /\ pending_works' = Append(pending_works, n) /\ Goto(App, "idle") /\ order' = order
      /\ App \in FenceAgents
  BY Zenon DEF AddToFence, Cur, FenceAgents
<1>3. /\ pc' \in [FenceAgents -> {"idle", "enter", "count", "hit", "test", "lock", "drain", "close"}]
      /\ pc'[App] = "idle" /\ \A b \in FenceAgents : b # App => pc'[b] = pc[b]
  BY Zenon, <1>1, <1>2, Went
<1>4. /\ n \in Nat /\ n \in 1..n /\ 1..n \in SUBSET Nat
      /\ \A x : In(x, pending_works) => x \in 1..n
  BY <1>1, Calls DEF Known
<1>5. \A x \in 1..n : In(x, pending_works) => x < n
  BY <1>1, <1>4 DEF Waits, Entering
<1>6. /\ pending_works' \in Seq(1..n) /\ Increasing(pending_works')
      /\ \A x : In(x, pending_works') <=> In(x, pending_works) \/ x = n
  <2>1. pending_works \in Seq(1..n) /\ Increasing(pending_works) /\ 1..n \subseteq Nat
    BY Zenon, <1>1, <1>4 DEF FenceTypeOK, Waits
  <2> QED
    BY ZenonT(60), <1>2, <1>4, <1>5, <2>1, Appended
<1>7. \A i : ~ Entering(i)' /\ (Entering(i) <=> i = n)
  BY Zenon, <1>3 DEF Entering
<1>8. \A i : Passed(i)' <=> Passed(i)
  BY Zenon, <1>6, <1>7 DEF Passed
<1>9. FenceTypeOK' /\ PendingCounted' /\ QueueBehindFence'
  BY Zenon, <1>1, <1>2, <1>3, <1>6 DEF FenceTypeOK, PendingCounted, QueueBehindFence, IsFenced
<1>10. Locked'
  BY Zenon, <1>1, <1>3 DEF Locked, IsFenced
<1>11. Waits'
  BY Zenon, <1>1, <1>2, <1>6, <1>7, <1>8 DEF Waits
<1>12. Known'
  BY Zenon, <1>1, <1>2, <1>3 DEF Known
<1>13. Raised'
  <2>1. \A a \in FenceAgents : pc'[a] # "drain"
    BY ZenonT(60), FenceAssumption, <1>1, <1>3 DEF Locked
  <2>2. \A i, b \in 1..n :
          In(i, pending_works') /\ i < b /\ prog[b] \in Barriers => ~ Passed(b)'
    BY <1>1, <1>4, <1>6, <1>8 DEF Raised
  <2>3. sfenced => \E b \in 1..n : prog[b] = "SFENCE"
    BY Zenon, <1>1 DEF Raised
  <2> QED
    BY Zenon, <1>1, <1>7, <1>8, <2>1, <2>2, <2>3 DEF Raised, IsFenced
<1> QED
  BY Zenon, <1>9, <1>10, <1>11, <1>12, <1>13 DEF IInv, FenceSound

\* A call that passes the fence starts: all calls before it have, but for a read
\* in front of which there is a queue behind an SFENCE.
LEMMA PassStep ==
  ASSUME IInv, pc[App] = "enter", lock = Free,
         NEW l \in {"idle", "count"}, Pass(l),
         prog[Len(prog)] \notin {"MFENCE", "SFENCE"},
         l = "count" => prog[Len(prog)] = "WRITE" /\ ~IsFenced,
         prog[Len(prog)] \in LockOps => pending_writes = 0 /\ ~IsFenced,
         UNCHANGED <<prog, pending_writes, in_process, lock, outstanding, fenced>>
  PROVE  IInv'
<1> DEFINE n == Len(prog)
<1>1. FenceTypeOK /\ PendingCounted /\ QueueBehindFence /\ Locked /\ Waits /\ Known /\ Raised
  BY Zenon DEF IInv, FenceSound
<1>2. /\ order' = Append(order, n) /\ Goto(App, l) /\ App \in FenceAgents
      /\ UNCHANGED <<mfenced, sfenced, pending_works>>
  BY Zenon DEF Pass, Cur, FenceAgents
<1>3. /\ pc' \in [FenceAgents -> {"idle", "enter", "count", "hit", "test", "lock", "drain", "close"}]
      /\ pc'[App] = l /\ \A b \in FenceAgents : b # App => pc'[b] = pc[b]
  BY Zenon, <1>1, <1>2, Went
<1>4. /\ n \in Nat /\ n \in 1..n
      /\ \A x : In(x, pending_works) => x \in 1..n
      /\ ~ In(n, pending_works) /\ ~ In(n, order)
  BY <1>1, Calls DEF Known, Waits, Entering
<1>5. order' \in Seq(1..n) /\ \A x : In(x, order') <=> In(x, order) \/ x = n
  <2>1. order \in Seq(1..n)
    BY Zenon, <1>1 DEF FenceTypeOK
  <2> QED
    BY <1>2, <1>4, <2>1, Appended
<1>6. \A i : ~ Entering(i)' /\ (Entering(i) <=> i = n)
  BY Zenon, <1>3 DEF Entering
<1>7. \A i : Passed(i)' <=> Passed(i) \/ i = n
  BY Zenon, <1>2, <1>4, <1>6 DEF Passed
<1>8. FenceTypeOK' /\ PendingCounted' /\ QueueBehindFence'
  BY Zenon, <1>1, <1>2, <1>3, <1>5 DEF FenceTypeOK, PendingCounted, QueueBehindFence, IsFenced
<1>9. Locked'
  BY Zenon, <1>1, <1>2, <1>3 DEF Locked, IsFenced
<1>10. Waits'
  BY Zenon, <1>1, <1>2, <1>4, <1>5, <1>6, <1>7 DEF Waits
<1>11. Known'
  <2>1. n \notin DOMAIN outstanding
    BY Zenon, <1>1, <1>4 DEF Known
  <2> QED
    BY Zenon, <1>1, <1>3, <1>4, <1>5, <2>1 DEF Known
<1>12. Raised'
  <2>1. prog[n] \in Barriers => DOMAIN outstanding = {} /\ pending_works = <<>>
    <3>1. CASE prog[n] \in LockOps
      BY ZenonT(60), <1>1, <1>4, <3>1, Counting DEF PendingCounted, FenceTypeOK, QueueBehindFence
    <3> QED
      BY Zenon, <3>1 DEF Barriers
  <2>2. \A i, b \in 1..n :
          In(i, pending_works) /\ i < b /\ prog[b] \in Barriers => ~ Passed(b)'
    BY Zenon, <1>1, <1>7, <2>1, NoneIn DEF Raised
  <2>3. \A j \in DOMAIN outstanding, b \in 1..n :
          j < b /\ prog[b] \in Barriers /\ Passed(b)' => Passed(b)
    BY Zenon, <1>7, <2>1
  <2>4. \A a \in FenceAgents : pc'[a] # "drain"
    BY Zenon, FenceAssumption, <1>1, <1>3 DEF Locked
  <2> QED
    BY Zenon, <1>1, <1>2, <1>6, <2>2, <2>3, <2>4 DEF Raised, IsFenced
<1> QED
  BY Zenon, <1>8, <1>9, <1>10, <1>11, <1>12 DEF IInv, FenceSound

\* A fence that finds no other raises its flag over the outstanding writes.
LEMMA FenceStep ==
  ASSUME IInv, pc[App] = "enter", lock = Free, ~IsFenced,
         NEW op \in {"MFENCE", "SFENCE"}, prog[Len(prog)] = op,
         mfenced' = (op = "MFENCE" /\ pending_writes # 0),
         sfenced' = (op = "SFENCE" /\ pending_writes # 0),
         Goto(App, "idle"),
         UNCHANGED <<prog, order, pending_works, pending_writes, in_process, lock,
                     outstanding, fenced>>
  PROVE  IInv'
<1> DEFINE n == Len(prog)
<1>1. FenceTypeOK /\ PendingCounted /\ QueueBehindFence /\ Locked /\ Waits /\ Known /\ Raised
  BY Zenon DEF IInv, FenceSound
<1>2. App \in FenceAgents
  BY Zenon DEF FenceAgents
<1>3. /\ pc' \in [FenceAgents -> {"idle", "enter", "count", "hit", "test", "lock", "drain", "close"}]
      /\ pc'[App] = "idle" /\ \A b \in FenceAgents : b # App => pc'[b] = pc[b]
  BY Zenon, <1>1, <1>2, Went
<1>4. pending_works = <<>> /\ \A x : ~ In(x, pending_works)
  BY Zenon, <1>1, NoneIn DEF QueueBehindFence
<1>5. n \in Nat /\ n \in 1..n
  BY <1>1, Calls DEF Known
<1>6. \A i : ~ Entering(i)' /\ (Entering(i) <=> i = n)
  BY Zenon, <1>3 DEF Entering
<1>7. \A i : Passed(i)' /\ (Passed(i) <=> i # n)
  BY <1>4, <1>6 DEF Passed
<1>8. FenceTypeOK' /\ PendingCounted' /\ QueueBehindFence'
  BY Zenon, <1>1, <1>3, <1>4 DEF FenceTypeOK, PendingCounted, QueueBehindFence
<1>9. Locked'
  BY Zenon, <1>1, <1>3 DEF Locked, IsFenced
<1>10. Waits'
  BY Zenon, <1>1, <1>4, <1>6, <1>7 DEF Waits
<1>11. Known'
  BY Zenon, <1>1, <1>3 DEF Known
<1>12. Raised'
  <2>1. DOMAIN outstanding # {} => pending_writes # 0
    BY Zenon, <1>1, <1>5, Counting DEF PendingCounted, FenceTypeOK
  <2>2. \A a \in FenceAgents : pc'[a] # "drain"
    BY Zenon, FenceAssumption, <1>1, <1>3 DEF Locked
  <2>3. ASSUME NEW j \in DOMAIN outstanding, NEW b \in 1..n, j < b, prog[b] \in Barriers
        PROVE  b = n
    BY Zenon, <1>1, <1>7, <2>3 DEF Raised
  <2>4. ASSUME NEW j \in DOMAIN outstanding, NEW b \in 1..n, j < b, prog[b] \in Barriers
        PROVE  IsFenced' /\ (prog[b] # "SFENCE" => mfenced')
    BY ZenonT(60), <2>1, <2>3, <2>4 DEF IsFenced
  <2>5. sfenced' => \E b \in 1..n : prog[b] = "SFENCE"
    BY ZenonT(60), <1>5
  <2> QED
    BY Zenon, <1>4, <1>6, <2>2, <2>4, <2>5 DEF Raised
<1> QED
  BY Zenon, <1>8, <1>9, <1>10, <1>11, <1>12 DEF IInv, FenceSound

\* Counting a write that has passed preserves the invariant.
LEMMA CountStep == ASSUME IInv, CountWrite PROVE IInv'
<1> DEFINE n == Len(prog)
<1>1. FenceTypeOK /\ PendingCounted /\ QueueBehindFence /\ Locked /\ Waits /\ Known /\ Raised
  BY Zenon DEF IInv, FenceSound
<1>2. /\ pc[App] = "count" /\ pending_writes' = pending_writes + 1 /\ App \in FenceAgents
      /\ UNCHANGED <<prog, order, mfenced, sfenced, in_process, pending_works, lock, fenced>>
  BY Zenon DEF CountWrite, FenceAgents
<1>3. /\ DOMAIN outstanding' = DOMAIN outstanding \cup {n}
      /\ \A i \in DOMAIN outstanding' : outstanding'[i] \in Places
  BY Zenon, <1>1 DEF CountWrite, FenceTypeOK, Cur
<1>4. PICK l \in {"hit", "idle"} : Goto(App, l)
  BY Zenon DEF CountWrite
<1>5. /\ pc' \in [FenceAgents -> {"idle", "enter", "count", "hit", "test", "lock", "drain", "close"}]
      /\ pc'[App] = l /\ \A b \in FenceAgents : b # App => pc'[b] = pc[b]
  BY Zenon, <1>1, <1>2, <1>4, Went
<1>6. /\ n \in Nat /\ n \in 1..n /\ In(n, order) /\ prog[n] = "WRITE"
      /\ n \notin DOMAIN outstanding /\ DOMAIN outstanding \in SUBSET (1..n)
      /\ lock = Free /\ ~IsFenced
  BY Zenon, <1>1, <1>2, Calls DEF Known, Locked, FenceTypeOK
<1>7. /\ Cardinality(DOMAIN outstanding') = Cardinality(DOMAIN outstanding) + 1
      /\ DOMAIN outstanding' \in SUBSET (1..n)
      /\ Cardinality(DOMAIN outstanding') \in 0..n
  <2>1. DOMAIN outstanding' \in SUBSET (1..n)
    BY Zenon, <1>3, <1>6
  <2>2. Cardinality(DOMAIN outstanding') \in 0..n
    BY Zenon, <1>6, <2>1, Counting
  <2>3. Cardinality(DOMAIN outstanding \cup {n}) = Cardinality(DOMAIN outstanding) + 1
    BY ZenonT(60), <1>6, Counting
  <2> QED
    BY <1>3, <2>1, <2>2, <2>3, Zenon
<1>8. \A i : ~ Entering(i)' /\ ~ Entering(i) /\ (Passed(i)' <=> Passed(i))
  BY Zenon, <1>2, <1>5 DEF Entering, Passed
<1>9. FenceTypeOK' /\ PendingCounted' /\ QueueBehindFence'
  <2>1. pending_writes' \in 0..FenceCalls /\ PendingCounted'
    BY FenceAssumption, <1>1, <1>2, <1>6, <1>7 DEF PendingCounted, FenceTypeOK
  <2> QED
    BY Zenon, <1>1, <1>2, <1>3, <1>5, <1>7, <2>1 DEF FenceTypeOK, QueueBehindFence, IsFenced
<1>10. Locked'
  BY Zenon, <1>1, <1>2, <1>5, <1>6 DEF Locked, IsFenced
<1>11. Waits'
  BY Zenon, <1>1, <1>2, <1>8 DEF Waits
<1>12. Known'
  BY Zenon, <1>1, <1>2, <1>3, <1>5, <1>6 DEF Known
<1>13. Raised'
  <2>1. \A j \in DOMAIN outstanding', b \in 1..n : j < b => j \in DOMAIN outstanding
    BY <1>3, <1>6
  <2>2. \A a \in FenceAgents : pc'[a] # "drain"
    BY Zenon, FenceAssumption, <1>1, <1>5, <1>6 DEF Locked
  <2> QED
    BY ZenonT(60), <1>1, <1>2, <1>8, <2>1, <2>2 DEF Raised, IsFenced
<1> QED
  BY Zenon, <1>9, <1>10, <1>11, <1>12, <1>13 DEF IInv, FenceSound

\* The completion of a write preserves the invariant.
LEMMA NotifyStep ==
  ASSUME IInv, NEW a \in FenceAgents, NEW i \in DOMAIN outstanding, Notify(a, i)
  PROVE  IInv'
<1> DEFINE n == Len(prog)
<1>1. FenceTypeOK /\ PendingCounted /\ QueueBehindFence /\ Locked /\ Waits /\ Known /\ Raised
  BY Zenon DEF IInv, FenceSound
<1>2. /\ pc[a] = IF a = App THEN "hit" ELSE "idle"
      /\ pending_writes' = pending_writes - 1 /\ Goto(a, "test") /\ App \in FenceAgents
      /\ UNCHANGED <<prog, order, mfenced, sfenced, in_process, pending_works, lock, fenced>>
  BY Zenon DEF Notify, FenceAgents
<1>3. /\ DOMAIN outstanding' = DOMAIN outstanding \ {i}
      /\ \A j \in DOMAIN outstanding' : outstanding'[j] \in Places
  BY Zenon, <1>1 DEF Notify, FenceTypeOK
<1>4. /\ pc' \in [FenceAgents -> {"idle", "enter", "count", "hit", "test", "lock", "drain", "close"}]
      /\ pc'[a] = "test" /\ \A b \in FenceAgents : b # a => pc'[b] = pc[b]
  BY Zenon, <1>1, <1>2, Went
<1>5. /\ n \in Nat /\ DOMAIN outstanding \in SUBSET (1..n)
  BY Zenon, <1>1, Calls DEF FenceTypeOK
<1>6. /\ Cardinality(DOMAIN outstanding') = Cardinality(DOMAIN outstanding) - 1
      /\ DOMAIN outstanding' \in SUBSET (1..n)
      /\ Cardinality(DOMAIN outstanding') \in 0..n
  BY ZenonT(60), <1>3, <1>5, Counting
<1>7. \A x : (Entering(x)' <=> Entering(x)) /\ (Passed(x)' <=> Passed(x))
  BY Zenon, <1>2, <1>4 DEF Entering, Passed
<1>8. FenceTypeOK' /\ PendingCounted' /\ QueueBehindFence'
  <2>1. pending_writes' \in 0..FenceCalls /\ PendingCounted'
    BY FenceAssumption, <1>1, <1>2, <1>5, <1>6 DEF PendingCounted, FenceTypeOK
  <2> QED
    BY Zenon, <1>1, <1>2, <1>3, <1>4, <1>6, <2>1 DEF FenceTypeOK, QueueBehindFence, IsFenced
<1>9. Locked'
  BY Zenon, <1>1, <1>2, <1>4 DEF Locked, IsFenced
<1>10. Waits'
  BY Zenon, <1>1, <1>2, <1>7 DEF Waits
<1>11. Known'
  BY Zenon, <1>1, <1>2, <1>3, <1>4 DEF Known
<1>12. Raised'
  <2>1. \A b \in FenceAgents : pc'[b] = "drain" => pc[b] = "drain"
    BY Zenon, <1>4
  <2> QED
    BY Zenon, <1>1, <1>2, <1>3, <1>7, <2>1 DEF Raised, IsFenced
<1> QED
  BY Zenon, <1>8, <1>9, <1>10, <1>11, <1>12 DEF IInv, FenceSound

\* ProcessFenced leaves at once when a drain is under way.
LEMMA TestStep ==
  ASSUME IInv, NEW a \in FenceAgents, TestInProcess(a)
  PROVE  IInv'
<1>1. FenceTypeOK /\ PendingCounted /\ QueueBehindFence /\ Locked /\ Waits /\ Known /\ Raised
  BY Zenon DEF IInv, FenceSound
<1>2. /\ pc[a] = "test" /\ App \in FenceAgents
      /\ UNCHANGED <<prog, order, mfenced, sfenced, pending_writes, in_process,
                     pending_works, lock, outstanding, fenced>>
  BY Zenon DEF TestInProcess, FenceAgents
<1>3. PICK l \in {"idle", "lock"} : Goto(a, l)
  BY Zenon DEF TestInProcess
<1>4. /\ pc' \in [FenceAgents -> {"idle", "enter", "count", "hit", "test", "lock", "drain", "close"}]
      /\ pc'[a] = l /\ \A b \in FenceAgents : b # a => pc'[b] = pc[b]
  BY Zenon, <1>1, <1>3, Went
<1>5. \A x : (Entering(x)' <=> Entering(x)) /\ (Passed(x)' <=> Passed(x))
  BY Zenon, <1>2, <1>4 DEF Entering, Passed
<1>6. FenceTypeOK' /\ PendingCounted' /\ QueueBehindFence'
  BY Zenon, <1>1, <1>2, <1>4 DEF FenceTypeOK, PendingCounted, QueueBehindFence, IsFenced
<1>7. Locked'
  BY Zenon, <1>1, <1>2, <1>4 DEF Locked, IsFenced
<1>8. Waits' /\ Known'
  BY Zenon, <1>1, <1>2, <1>4, <1>5 DEF Waits, Known
<1>9. Raised'
  <2>1. \A b \in FenceAgents : pc'[b] = "drain" => pc[b] = "drain"
    BY Zenon, <1>4
  <2> QED
    BY Zenon, <1>1, <1>2, <1>5, <2>1 DEF Raised, IsFenced
<1> QED
  BY Zenon, <1>6, <1>7, <1>8, <1>9 DEF IInv, FenceSound

\* A drain begins with no write outstanding, and no write passes before it ends.
LEMMA OpenStep ==
  ASSUME IInv, NEW a \in FenceAgents, OpenFence(a)
  PROVE  IInv'
<1>1. FenceTypeOK /\ PendingCounted /\ QueueBehindFence /\ Locked /\ Waits /\ Known /\ Raised
  BY Zenon DEF IInv, FenceSound
<1>2. /\ pc[a] = "lock" /\ lock = Free /\ App \in FenceAgents
      /\ UNCHANGED <<prog, order, mfenced, sfenced, pending_writes, pending_works, outstanding>>
  BY Zenon DEF OpenFence, FenceAgents
<1>3. CASE Goto(a, "idle") /\ UNCHANGED <<lock, in_process, fenced>>
  <2>1. /\ pc' \in [FenceAgents -> {"idle", "enter", "count", "hit", "test", "lock", "drain", "close"}]
        /\ pc'[a] = "idle" /\ \A b \in FenceAgents : b # a => pc'[b] = pc[b]
    BY Zenon, <1>1, <1>3, Went
  <2>2. \A x : (Entering(x)' <=> Entering(x)) /\ (Passed(x)' <=> Passed(x))
    BY Zenon, <1>2, <2>1 DEF Entering, Passed
  <2>3. FenceTypeOK' /\ PendingCounted' /\ QueueBehindFence'
    BY Zenon, <1>1, <1>2, <1>3, <2>1 DEF FenceTypeOK, PendingCounted, QueueBehindFence, IsFenced
  <2>4. Locked'
    BY Zenon, <1>1, <1>2, <1>3, <2>1 DEF Locked, IsFenced
  <2>5. Waits' /\ Known'
    BY Zenon, <1>1, <1>2, <2>1, <2>2 DEF Waits, Known
  <2>6. Raised'
    <3>1. \A b \in FenceAgents : pc'[b] = "drain" => pc[b] = "drain"
      BY Zenon, <2>1
    <3> QED
      BY Zenon, <1>1, <1>2, <2>2, <3>1 DEF Raised, IsFenced
  <2> QED
    BY Zenon, <2>3, <2>4, <2>5, <2>6 DEF IInv, FenceSound
<1>4. CASE /\ pending_writes = 0 /\ IsFenced
           /\ lock' = a /\ in_process' = TRUE /\ fenced' = FALSE /\ Goto(a, "drain")
  <2>1. /\ pc' \in [FenceAgents -> {"idle", "enter", "count", "hit", "test", "lock", "drain", "close"}]
        /\ pc'[a] = "drain" /\ \A b \in FenceAgents : b # a => pc'[b] = pc[b]
    BY Zenon, <1>1, <1>4, Went
  <2>2. \A x : (Entering(x)' <=> Entering(x)) /\ (Passed(x)' <=> Passed(x))
    BY Zenon, <1>2, <2>1 DEF Entering, Passed
  <2>3. FenceTypeOK' /\ PendingCounted' /\ QueueBehindFence'
    BY ZenonT(60), <1>1, <1>2, <1>4, <2>1 DEF FenceTypeOK, PendingCounted, QueueBehindFence, IsFenced
  <2>4. Locked'
    BY ZenonT(60), FenceAssumption, <1>1, <1>2, <1>4, <2>1 DEF Locked, IsFenced
  <2>5. Waits' /\ Known'
    BY Zenon, <1>1, <1>2, <2>1, <2>2 DEF Waits, Known
  <2>6. DOMAIN outstanding' = {}
    BY ZenonT(60), <1>1, <1>2, <1>4, Counting, Calls DEF PendingCounted, FenceTypeOK
  <2>7. Raised'
    BY ZenonT(60), <1>1, <1>2, <2>2, <2>6 DEF Raised
  <2> QED
    BY Zenon, <2>3, <2>4, <2>5, <2>7 DEF IInv, FenceSound
<1> QED
  BY ZenonT(60), <1>3, <1>4 DEF OpenFence

\* The drain that meets a barrier with writes outstanding leaves its flag raised.
LEMMA RefenceStep ==
  ASSUME IInv, NEW a \in FenceAgents, pc[a] = "drain", pending_works # <<>>,
         NEW m \in BOOLEAN, NEW works, Refence(a, m, ~m, works),
         \/ /\ works = Tail(pending_works)
            /\ prog[Head(pending_works)] = IF m THEN "MFENCE" ELSE "SFENCE"
         \/ works = pending_works /\ m,
         UNCHANGED <<prog, in_process, lock>>
  PROVE  IInv'
<1> DEFINE n == Len(prog)
           h == Head(pending_works)
<1>1. FenceTypeOK /\ PendingCounted /\ QueueBehindFence /\ Locked /\ Waits /\ Known /\ Raised
  BY Zenon DEF IInv, FenceSound
<1>2. /\ mfenced' = m /\ sfenced' = ~m /\ fenced' = TRUE /\ pending_works' = works
      /\ Goto(a, "close") /\ UNCHANGED <<order, pending_writes, outstanding>> /\ App \in FenceAgents
  BY Zenon DEF Refence, FenceAgents
<1>3. /\ pc' \in [FenceAgents -> {"idle", "enter", "count", "hit", "test", "lock", "drain", "close"}]
      /\ pc'[a] = "close" /\ \A b \in FenceAgents : b # a => pc'[b] = pc[b]
  BY Zenon, <1>1, <1>2, Went
<1>4. \A x : Entering(x)' <=> Entering(x)
  BY Zenon, <1>2, <1>3 DEF Entering
<1>5. /\ pending_works \in Seq(1..n) /\ 1..n \in SUBSET Nat /\ Increasing(pending_works)
      /\ \A x : In(x, pending_works) => x \in 1..n
  BY Zenon, <1>1, Calls DEF FenceTypeOK, Waits
<1>6. /\ Tail(pending_works) \in Seq(1..n) /\ Increasing(Tail(pending_works))
      /\ h \in 1..n /\ In(h, pending_works)
      /\ \A x : In(x, pending_works) => h <= x
      /\ \A x : In(x, Tail(pending_works)) <=> In(x, pending_works) /\ x # h
  BY <1>5, Dropped, Zenon
<1> HIDE DEF h
\* Only the fence at the head passes.
<1>7. /\ works \in Seq(1..n) /\ Increasing(works)
      /\ \A x : In(x, works) => In(x, pending_works)
      /\ \A x : Passed(x)' => Passed(x) \/ (x = h /\ prog[h] = IF m THEN "MFENCE" ELSE "SFENCE")
      /\ \A x : Passed(x) => Passed(x)'
  BY ZenonT(60), <1>2, <1>4, <1>5, <1>6 DEF Passed, h
<1>8. FenceTypeOK' /\ PendingCounted' /\ QueueBehindFence'
  BY Zenon, <1>1, <1>2, <1>3, <1>7 DEF FenceTypeOK, PendingCounted, QueueBehindFence, IsFenced
<1>9. lock = a /\ \A b \in FenceAgents : b # a => pc[b] \notin {"drain", "close"}
  BY Zenon, <1>1 DEF Locked
<1>10. Locked'
  BY ZenonT(60), FenceAssumption, <1>1, <1>2, <1>3, <1>9 DEF Locked, IsFenced
<1>11. Waits'
  BY Zenon, <1>1, <1>2, <1>4, <1>7 DEF Waits
<1>12. Known'
  BY Zenon, <1>1, <1>2, <1>3 DEF Known
<1>13. Raised'
  <2>1. \A b \in FenceAgents : pc'[b] # "drain"
    BY Zenon, <1>3, <1>9
  <2>2. ASSUME NEW j \in DOMAIN outstanding, NEW b \in 1..n, j < b, prog[b] \in Barriers, Passed(b)'
        PROVE  b = h /\ prog[h] = IF m THEN "MFENCE" ELSE "SFENCE"
    BY Zenon, <1>1, <1>7, <2>2 DEF Raised
  <2>3. ASSUME NEW i \in 1..n, NEW b \in 1..n, In(i, works), i < b, prog[b] \in Barriers
        PROVE  ~ Passed(b)'
    <3>1. In(i, pending_works) /\ h <= i /\ ~ Passed(b)
      BY ZenonT(60), <1>1, <1>6, <1>7, <2>3 DEF Raised
    <3>2. b # h
      BY <1>5, <1>6, <2>3, <3>1
    <3> QED
      BY Zenon, <1>7, <3>1, <3>2
  <2>4. ~m => prog[h] = "SFENCE" /\ ~ Entering(h)
    BY Zenon, <1>1, <1>6 DEF Waits, h
  <2> QED
    BY ZenonT(60), <1>2, <1>4, <1>6, <2>1, <2>2, <2>3, <2>4 DEF Raised, IsFenced
<1> QED
  BY ZenonT(60), <1>8, <1>10, <1>11, <1>12, <1>13 DEF IInv, FenceSound

\* The drain drops a fence when no write is outstanding.
LEMMA SkipStep ==
  ASSUME IInv, NEW a \in FenceAgents, pc[a] = "drain", pending_works # <<>>,
         pending_writes = 0, prog[Head(pending_works)] \in {"MFENCE", "SFENCE"},
         pending_works' = Tail(pending_works),
         UNCHANGED <<prog, order, mfenced, sfenced, pending_writes, in_process, lock,
                     outstanding, pc, fenced>>
  PROVE  IInv'
<1> DEFINE n == Len(prog)
           h == Head(pending_works)
<1>1. FenceTypeOK /\ PendingCounted /\ QueueBehindFence /\ Locked /\ Waits /\ Known /\ Raised
  BY Zenon DEF IInv, FenceSound
<1>2. \A x : Entering(x)' <=> Entering(x)
  BY Zenon DEF Entering
<1>3. /\ pending_works \in Seq(1..n) /\ 1..n \in SUBSET Nat /\ Increasing(pending_works)
      /\ \A x : In(x, pending_works) => x \in 1..n
  BY Zenon, <1>1, Calls DEF FenceTypeOK, Waits
<1>4. /\ Tail(pending_works) \in Seq(1..n) /\ Increasing(Tail(pending_works))
      /\ h \in 1..n /\ In(h, pending_works)
      /\ \A x : In(x, pending_works) => h <= x
      /\ \A x : In(x, Tail(pending_works)) <=> In(x, pending_works) /\ x # h
  BY <1>3, Dropped, Zenon
<1>5. prog[h] \in {"MFENCE", "SFENCE"}
  BY Zenon
<1> HIDE DEF h
<1>6. \A x : Passed(x)' => Passed(x) \/ x = h
  BY Zenon, <1>2, <1>4 DEF Passed
<1>7. FenceTypeOK' /\ PendingCounted' /\ QueueBehindFence'
  BY Zenon, <1>1, <1>4 DEF FenceTypeOK, PendingCounted, QueueBehindFence, IsFenced
<1>8. Locked' /\ Known'
  BY Zenon, <1>1 DEF Locked, Known, IsFenced
<1>9. Waits'
  BY Zenon, <1>1, <1>2, <1>4, <1>5, <1>6 DEF Waits
<1>10. Raised'
  <2>1. DOMAIN outstanding = {}
    BY ZenonT(60), <1>1, Counting, Calls DEF PendingCounted, FenceTypeOK
  <2>2. ASSUME NEW i \in 1..n, NEW b \in 1..n, In(i, pending_works'), i < b, prog[b] \in Barriers
        PROVE  ~ Passed(b)'
    <3>1. In(i, pending_works) /\ h <= i /\ ~ Passed(b)
      BY Zenon, <1>1, <1>4, <2>2 DEF Raised
    <3>2. b # h
      BY <1>3, <1>4, <2>2, <3>1
    <3> QED
      BY Zenon, <1>6, <3>1, <3>2
  <2> QED
    BY Zenon, <1>1, <1>2, <2>1, <2>2 DEF Raised
<1> QED
  BY Zenon, <1>7, <1>8, <1>9, <1>10 DEF IInv, FenceSound

\* The drain starts the call at the head of pending_works: a lock operation only
\* when no write is outstanding.
LEMMA RunStep ==
  ASSUME IInv, NEW a \in FenceAgents, pc[a] = "drain", pending_works # <<>>,
         prog[Head(pending_works)] \notin {"MFENCE", "SFENCE"},
         ~(prog[Head(pending_works)] \in LockOps /\ pending_writes # 0),
         RunFenced(Head(pending_works)),
         UNCHANGED <<prog, in_process, lock>>
  PROVE  IInv'
<1> DEFINE n == Len(prog)
           h == Head(pending_works)
<1>1. FenceTypeOK /\ PendingCounted /\ QueueBehindFence /\ Locked /\ Waits /\ Known /\ Raised
  BY Zenon DEF IInv, FenceSound
<1>2. /\ pending_works' = Tail(pending_works) /\ order' = Append(order, h)
      /\ UNCHANGED <<mfenced, sfenced, pc, fenced>>
  BY Zenon DEF RunFenced
<1>3. \A x : Entering(x)' <=> Entering(x)
  BY Zenon, <1>2 DEF Entering
<1>4. /\ pending_works \in Seq(1..n) /\ n \in Nat /\ 1..n \in SUBSET Nat
      /\ Increasing(pending_works) /\ \A x : In(x, pending_works) => x \in 1..n
      /\ order \in Seq(1..n) /\ DOMAIN outstanding \in SUBSET (1..n)
  BY Zenon, <1>1, Calls DEF FenceTypeOK, Waits
<1>5. /\ Tail(pending_works) \in Seq(1..n) /\ Increasing(Tail(pending_works))
      /\ h \in 1..n /\ In(h, pending_works)
      /\ \A x : In(x, pending_works) => h <= x
      /\ \A x : In(x, Tail(pending_works)) <=> In(x, pending_works) /\ x # h
  BY <1>4, Dropped, Zenon
<1>6. /\ prog[h] \notin {"MFENCE", "SFENCE"}
      /\ prog[h] \in LockOps => pending_writes = 0
  BY Zenon
\* A write may become outstanding; one that hits has completed already.
<1>7. \/ UNCHANGED <<pending_writes, outstanding>>
      \/ /\ prog[h] = "WRITE" /\ pending_writes' = pending_writes + 1
         /\ DOMAIN outstanding' = DOMAIN outstanding \cup {h}
         /\ \A i \in DOMAIN outstanding' : outstanding'[i] \in Places
  BY ZenonT(60), <1>1 DEF RunFenced, FenceTypeOK
<1> HIDE DEF h
<1>8. /\ ~ In(h, order) /\ ~ Entering(h) /\ h \notin DOMAIN outstanding
  BY Zenon, <1>1, <1>5 DEF Waits, Known
<1>9. order' \in Seq(1..n) /\ \A x : In(x, order') <=> In(x, order) \/ x = h
  <2>1. Append(order, h) \in Seq(1..n) /\ \A x : In(x, Append(order, h)) <=> In(x, order) \/ x = h
    <3>1. order \in Seq(1..n) /\ h \in 1..n
      BY Zenon, <1>4, <1>5
    <3> QED
      BY <3>1, Appended
  <2> QED
    BY Zenon, <1>2, <2>1 DEF h
<1>10. \A x : Passed(x)' <=> Passed(x) \/ x = h
  BY Zenon, <1>2, <1>3, <1>5, <1>8 DEF Passed
<1>11. FenceTypeOK' /\ PendingCounted' /\ QueueBehindFence'
  <2>1. CASE UNCHANGED <<pending_writes, outstanding>>
    BY Zenon, <1>1, <1>2, <1>5, <1>9, <2>1 DEF FenceTypeOK, PendingCounted, QueueBehindFence, IsFenced
  <2>2. CASE /\ prog[h] = "WRITE" /\ pending_writes' = pending_writes + 1
             /\ DOMAIN outstanding' = DOMAIN outstanding \cup {h}
             /\ \A i \in DOMAIN outstanding' : outstanding'[i] \in Places
    <3> DEFINE D == DOMAIN outstanding
               E == DOMAIN outstanding'
    <3>1. E = D \cup {h} /\ D \in SUBSET (1..n) /\ E \in SUBSET (1..n) /\ h \notin D
      BY Zenon, <1>4, <1>5, <1>8, <2>2
    <3> HIDE DEF D, E
    <3>2. Cardinality(E) \in 0..n
      BY Zenon, <1>4, <3>1, Counting
    <3>3. Cardinality(E) = Cardinality(D) + 1
      BY ZenonT(60), <1>4, <1>5, <3>1, Counting
    <3>4. pending_writes' \in 0..FenceCalls /\ PendingCounted' /\ E \in SUBSET (1..n)
      BY SMTT(60), FenceAssumption, <1>1, <1>4, <2>2, <3>1, <3>2, <3>3 DEF PendingCounted,
        FenceTypeOK, D, E
    <3> QED
      BY ZenonT(60), <1>1, <1>2, <1>5, <1>9, <2>2, <3>4 DEF FenceTypeOK, QueueBehindFence, IsFenced, E
  <2> QED
    BY Zenon, <1>7, <2>1, <2>2
<1>12. Locked'
  BY Zenon, <1>1, <1>2 DEF Locked, IsFenced
<1>13. Waits'
  BY ZenonT(60), <1>1, <1>2, <1>3, <1>5, <1>8, <1>9, <1>10 DEF Waits
<1>14. Known'
  <2>1. \A i \in DOMAIN outstanding' : In(i, order') /\ prog[i] = "WRITE"
    BY Zenon, <1>1, <1>7, <1>9 DEF Known
  <2>2. pc[App] # "count"
    BY Zenon, FenceAssumption, <1>1 DEF Locked
  <2> QED
    BY Zenon, <1>1, <1>2, <2>1, <2>2 DEF Known
<1>15. Raised'
  <2>1. ASSUME NEW i \in 1..n, NEW b \in 1..n, In(i, pending_works), i < b, prog[b] \in Barriers
        PROVE  ~ Passed(b)'
    <3>1. h <= i /\ ~ Passed(b)
      BY Zenon, <1>1, <1>5, <2>1 DEF Raised
    <3>2. b # h
      BY <1>4, <1>5, <2>1, <3>1
    <3> QED
      BY Zenon, <1>10, <3>1, <3>2
  <2>2. ASSUME NEW j \in DOMAIN outstanding', NEW b \in 1..n, j < b,
               prog[b] \in Barriers, Passed(b)'
        PROVE  FALSE
    <3>1. CASE j = h
      BY Zenon, <1>5, <2>1, <2>2, <3>1
    <3>2. CASE j # h
      <4>1. j \in DOMAIN outstanding
        BY Zenon, <1>7, <2>2, <3>2
      <4>2. ~ Passed(b)
        BY Zenon, <1>1, <2>2, <4>1 DEF Raised
      <4>3. b = h /\ prog[h] \in LockOps
        BY Zenon, <1>6, <1>10, <2>2, <4>2 DEF Barriers
      <4>4. DOMAIN outstanding = {}
        BY ZenonT(60), <1>1, <1>4, <1>6, <4>3, Counting DEF PendingCounted
      <4> QED
        BY Zenon, <4>1, <4>4
    <3> QED
      BY Zenon, <3>1, <3>2
  <2>3. \A i : In(i, pending_works') => In(i, pending_works)
    BY Zenon, <1>2, <1>5
  <2> QED
    BY ZenonT(60), <1>1, <1>2, <1>3, <2>1, <2>2, <2>3 DEF Raised
<1> QED
  BY Zenon, <1>11, <1>12, <1>13, <1>14, <1>15 DEF IInv, FenceSound

\* At the end of a drain the flags are dropped only over an empty queue.
LEMMA CloseStep ==
  ASSUME IInv, NEW a \in FenceAgents, CloseDrain(a)
  PROVE  IInv'
<1>1. FenceTypeOK /\ PendingCounted /\ QueueBehindFence /\ Locked /\ Waits /\ Known /\ Raised
  BY Zenon DEF IInv, FenceSound
<1>2. /\ pc[a] \in {"drain", "close"} /\ (pc[a] = "drain" => pending_works = <<>>)
      /\ in_process' = FALSE /\ lock' = Free /\ Goto(a, "idle") /\ App \in FenceAgents
      /\ UNCHANGED <<prog, order, pending_writes, pending_works, outstanding, fenced>>
  BY Zenon DEF CloseDrain, FenceAgents
<1>3. /\ pc[a] = "close" => UNCHANGED <<mfenced, sfenced>>
      /\ pc[a] = "drain" => mfenced' = FALSE /\ sfenced' = FALSE
      /\ mfenced' \in BOOLEAN /\ sfenced' \in BOOLEAN /\ (sfenced' => sfenced)
  BY Zenon, <1>1 DEF CloseDrain, Locked, FenceTypeOK
<1>4. /\ pc' \in [FenceAgents -> {"idle", "enter", "count", "hit", "test", "lock", "drain", "close"}]
      /\ pc'[a] = "idle" /\ \A b \in FenceAgents : b # a => pc'[b] = pc[b]
  BY Zenon, <1>1, <1>2, Went
<1>5. lock = a /\ \A b \in FenceAgents : b # a => pc[b] \notin {"drain", "close"}
  BY Zenon, <1>1, <1>2 DEF Locked
<1>6. \A x : (Entering(x)' <=> Entering(x)) /\ (Passed(x)' <=> Passed(x))
  BY Zenon, <1>2, <1>4 DEF Entering, Passed
<1>7. FenceTypeOK' /\ PendingCounted' /\ QueueBehindFence'
  <2>1. {mfenced', sfenced', in_process', fenced'} \subseteq BOOLEAN
    BY ZenonT(60), <1>1, <1>2, <1>3 DEF FenceTypeOK
  <2>2. QueueBehindFence'
    BY <1>1, <1>2, <1>3 DEF QueueBehindFence, IsFenced
  <2> QED
    BY Zenon, <1>1, <1>2, <1>4, <2>1, <2>2 DEF FenceTypeOK, PendingCounted
<1>8. Locked'
  <2>1. pc'[App] \notin {"count", "hit"}
    BY Zenon, FenceAssumption, <1>1, <1>2, <1>4, <1>5 DEF Locked
  <2> QED
    BY ZenonT(60), FenceAssumption, <1>1, <1>2, <1>4, <1>5, <2>1 DEF Locked
<1>9. Waits' /\ Known'
  BY Zenon, <1>1, <1>2, <1>4, <1>6 DEF Waits, Known
<1>10. Raised'
  <2>1. \A b \in FenceAgents : pc'[b] # "drain"
    BY Zenon, <1>4, <1>5
  <2> QED
    BY <1>1, <1>2, <1>3, <1>6, <2>1 DEF Raised, IsFenced
<1> QED
  BY Zenon, <1>7, <1>8, <1>9, <1>10 DEF IInv, FenceSound

\* The prologue of every call, and the count behind it, preserve the invariant.
LEMMA AppPreserves == ASSUME IInv, AppStep PROVE IInv'
<1>0. mfenced \in BOOLEAN /\ sfenced \in BOOLEAN
  BY Zenon DEF IInv, FenceSound, FenceTypeOK
<1>1. CASE ProcessLocalRead
  <2>1. /\ pc[App] = "enter" /\ prog[Len(prog)] = "READ" /\ lock = Free
        /\ UNCHANGED <<prog, pending_writes, in_process, lock, outstanding, fenced>>
    BY Zenon, <1>1 DEF ProcessLocalRead, Prologue, CurOp, Cur
  <2>2. CASE IsMFenced /\ AddToFence /\ UNCHANGED <<mfenced, sfenced>>
    BY Zenon, <2>1, <2>2, QueueStep DEF IsMFenced
  <2>3. CASE ~IsMFenced /\ Pass("idle")
    BY Zenon, <2>1, <2>3, PassStep DEF LockOps
  <2> QED
    BY Zenon, <1>1, <2>2, <2>3 DEF ProcessLocalRead
<1>2. CASE ProcessLocalWrite
  <2>1. /\ pc[App] = "enter" /\ prog[Len(prog)] = "WRITE" /\ lock = Free
        /\ UNCHANGED <<prog, pending_writes, in_process, lock, outstanding, fenced>>
    BY Zenon, <1>2 DEF ProcessLocalWrite, Prologue, CurOp, Cur
  <2>2. CASE IsFenced /\ AddToFence /\ UNCHANGED <<mfenced, sfenced>>
    BY Zenon, <1>0, <2>1, <2>2, QueueStep DEF IsFenced
  <2>3. CASE ~IsFenced /\ Pass("count")
    BY Zenon, <2>1, <2>3, PassStep DEF LockOps
  <2> QED
    BY Zenon, <1>2, <2>2, <2>3 DEF ProcessLocalWrite
<1>3. CASE ProcessLocalMFence
  <2>1. /\ pc[App] = "enter" /\ prog[Len(prog)] = "MFENCE" /\ lock = Free
        /\ UNCHANGED <<prog, pending_writes, in_process, lock, outstanding, fenced>>
    BY Zenon, <1>3 DEF ProcessLocalMFence, Prologue, CurOp, Cur
  <2>2. CASE IsFenced /\ AddToFence /\ UNCHANGED <<mfenced, sfenced>>
    BY Zenon, <1>0, <2>1, <2>2, QueueStep DEF IsFenced
  <2>3. CASE /\ ~IsFenced /\ mfenced' = (pending_writes # 0)
             /\ Goto(App, "idle") /\ UNCHANGED <<order, sfenced, pending_works>>
    <3>1. /\ mfenced' = ("MFENCE" = "MFENCE" /\ pending_writes # 0)
          /\ sfenced' = ("MFENCE" = "SFENCE" /\ pending_writes # 0)
      BY Zenon, <1>0, <2>3 DEF IsFenced
    <3> QED
      BY Zenon, <2>1, <2>3, <3>1, FenceStep
  <2> QED
    BY Zenon, <1>3, <2>2, <2>3 DEF ProcessLocalMFence
<1>4. CASE ProcessLocalSFence
  <2>1. /\ pc[App] = "enter" /\ prog[Len(prog)] = "SFENCE" /\ lock = Free
        /\ UNCHANGED <<prog, pending_writes, in_process, lock, outstanding, fenced>>
    BY Zenon, <1>4 DEF ProcessLocalSFence, Prologue, CurOp, Cur
  <2>2. CASE IsFenced /\ AddToFence /\ UNCHANGED <<mfenced, sfenced>>
    BY Zenon, <1>0, <2>1, <2>2, QueueStep DEF IsFenced
  <2>3. CASE /\ ~IsFenced /\ sfenced' = (pending_writes # 0)
             /\ Goto(App, "idle") /\ UNCHANGED <<order, mfenced, pending_works>>
    <3>1. /\ mfenced' = ("SFENCE" = "MFENCE" /\ pending_writes # 0)
          /\ sfenced' = ("SFENCE" = "SFENCE" /\ pending_writes # 0)
      BY Zenon, <1>0, <2>3 DEF IsFenced
    <3> QED
      BY Zenon, <2>1, <2>3, <3>1, FenceStep
  <2> QED
    BY Zenon, <1>4, <2>2, <2>3 DEF ProcessLocalSFence
<1>5. ASSUME NEW op \in LockOps, ProcessLocalLock(op) PROVE IInv'
  <2>1. /\ pc[App] = "enter" /\ prog[Len(prog)] = op /\ lock = Free
        /\ UNCHANGED <<prog, pending_writes, in_process, lock, outstanding, fenced>>
    BY Zenon, <1>5 DEF ProcessLocalLock, Prologue, CurOp, Cur
  <2>2. CASE IsFenced /\ AddToFence /\ UNCHANGED <<mfenced, sfenced>>
    BY Zenon, <1>0, <2>1, <2>2, QueueStep DEF IsFenced
  <2>3. CASE ~IsFenced /\ mfenced' = TRUE /\ AddToFence /\ UNCHANGED sfenced
    BY Zenon, <2>1, <2>3, QueueStep
  <2>4. CASE ~IsFenced /\ pending_writes = 0 /\ Pass("idle")
    <3>1. prog[Len(prog)] \notin {"MFENCE", "SFENCE"}
      BY Zenon, <2>1 DEF LockOps
    <3> QED
      BY Zenon, <2>1, <2>4, <3>1, PassStep
  <2> QED
    BY ZenonT(60), <1>5, <2>2, <2>3, <2>4 DEF ProcessLocalLock
<1> QED
  BY Zenon, <1>1, <1>2, <1>3, <1>4, <1>5, CountStep DEF AppStep

\* A step of the drain preserves the invariant, whatever is at the head of the queue.
LEMMA DrainPreserves ==
  ASSUME IInv, NEW a \in FenceAgents, DrainStep(a)
  PROVE  IInv'
<1> DEFINE op == prog[Head(pending_works)]
<1>1. pc[a] = "drain" /\ pending_works # <<>> /\ UNCHANGED <<prog, in_process, lock>>
  BY Zenon DEF DrainStep
<1>2. CASE op = "MFENCE" /\ Refence(a, TRUE, FALSE, Tail(pending_works))
  <2>1. Refence(a, TRUE, ~TRUE, Tail(pending_works))
    BY ZenonT(60), <1>2 DEF Refence
  <2> QED
    BY ZenonT(60), <1>1, <1>2, <2>1, RefenceStep
<1>3. CASE op = "SFENCE" /\ Refence(a, FALSE, TRUE, Tail(pending_works))
  <2>1. Refence(a, FALSE, ~FALSE, Tail(pending_works))
    BY ZenonT(60), <1>3 DEF Refence
  <2> QED
    BY ZenonT(60), <1>1, <1>3, <2>1, RefenceStep
<1>4. CASE /\ op \in {"MFENCE", "SFENCE"} /\ pending_writes = 0
           /\ pending_works' = Tail(pending_works)
           /\ UNCHANGED <<order, mfenced, sfenced, pending_writes, outstanding, pc, fenced>>
  BY Zenon, <1>1, <1>4, SkipStep
<1>5. CASE Refence(a, TRUE, FALSE, pending_works)
  <2>1. Refence(a, TRUE, ~TRUE, pending_works)
    BY ZenonT(60), <1>5 DEF Refence
  <2> QED
    BY ZenonT(60), <1>1, <2>1, RefenceStep
<1>6. CASE /\ op \notin {"MFENCE", "SFENCE"} /\ ~(op \in LockOps /\ pending_writes # 0)
           /\ RunFenced(Head(pending_works))
  BY Zenon, <1>1, <1>6, RunStep
<1> QED
  BY ZenonT(60), <1>2, <1>3, <1>4, <1>5, <1>6 DEF DrainStep

\* The inductive invariant holds in every reachable state.
LEMMA Invariance == FenceSpec => []IInv
<1>1. FenceInit => IInv
  BY Zenon, InitIInv
<1>2. IInv /\ [FenceNext]_FenceVars => IInv'
  <2> SUFFICES ASSUME IInv, [FenceNext]_FenceVars PROVE IInv'
    BY Zenon
  <2>1. CASE UNCHANGED FenceVars
    <3>1. \A x : (Entering(x)' <=> Entering(x)) /\ (Passed(x)' <=> Passed(x))
      BY Zenon, <2>1 DEF Entering, Passed, FenceVars
    <3>2. Locked' /\ FenceSound'
      BY Zenon, <2>1 DEF IInv, Locked, FenceSound, FenceTypeOK, PendingCounted, QueueBehindFence, IsFenced, FenceVars
    <3>3. Waits' /\ Known' /\ Raised'
      BY Zenon, <2>1, <3>1 DEF IInv, Waits, Known, Raised, IsFenced, FenceVars
    <3> QED
      BY Zenon, <3>2, <3>3 DEF IInv
  <2>2. ASSUME NEW op \in Ops, SendRequest(op) PROVE IInv'
    BY Zenon, <2>2, SendStep
  <2>3. CASE AppStep
    BY Zenon, <2>3, AppPreserves
  <2>4. ASSUME NEW a \in FenceAgents, AgentStep(a) PROVE IInv'
    BY Zenon, <2>4, TestStep, OpenStep, DrainPreserves, CloseStep DEF AgentStep
  <2>5. ASSUME NEW i \in DOMAIN outstanding, CompleteWrite(i) PROVE IInv'
    BY Zenon, <2>5, NotifyStep DEF CompleteWrite
  <2> QED
    BY ZenonT(60), <2>1, <2>2, <2>3, <2>4, <2>5 DEF FenceNext
<1> QED
  BY <1>1, <1>2, PTL DEF FenceSpec

\* pending_writes counts exactly the writes between their start and their Notify,
\* whoever completes them, and a call waits in pending_works only behind a raised
\* flag (Notify and ProcessFenced of worker.cc).
THEOREM FenceIsSound == FenceSpec => []FenceSound
<1>1. IInv => FenceSound
  BY Zenon DEF IInv
<1> QED
  BY <1>1, Invariance, PTL

-----------------------------------------------------------------------------
(* The fence implements FenceOrder *)

\* The completed writes, in the terms of the invariant.
LEMMA InDone ==
  \A i : i \in Done <=> /\ In(i, order) /\ prog[i] = "WRITE" /\ i \notin DOMAIN outstanding
                        /\ ~(pc[App] = "count" /\ i = Len(prog))
  BY Zenon DEF Done, In, Cur

\* The same after a step.
LEMMA InDoneNext ==
  \A i : i \in Done' <=> /\ In(i, order') /\ prog'[i] = "WRITE" /\ i \notin DOMAIN outstanding'
                         /\ ~(pc'[App] = "count" /\ i = Len(prog'))
  BY Zenon DEF Done, In, Cur

\* A call may start when all before it have passed the fence and no write before a
\* barrier up to it is outstanding.
LEMMA MayStart ==
  ASSUME IInv, NEW i \in 1..Len(prog), \A j \in 1..(i - 1) : Passed(j),
         \A j \in DOMAIN outstanding, b \in 1..i : j < b => prog[b] \notin Barriers
  PROVE  Abstract!MayStart(i)
<1>1. FenceTypeOK /\ Waits /\ Known /\ Len(prog) \in Nat
  BY Zenon, Calls DEF IInv, FenceSound
<1>2. ASSUME NEW j \in 1..(i - 1)
      PROVE  /\ Abstract!Starts(j) => Abstract!Started(j)
             /\ prog[j] = "WRITE" /\ (\E b \in j..i : prog[b] \in Abstract!Barriers) => j \in Done
  <2>1. j \in 1..Len(prog) /\ j # Len(prog) /\ Passed(j)
    BY <1>1, <1>2
  <2>2. prog[j] \notin {"MFENCE", "SFENCE"} => In(j, order)
    BY Zenon, <1>1, <2>1 DEF Waits
  <2>3. Abstract!Starts(j) => Abstract!Started(j)
    BY Zenon, <2>2 DEF Abstract!Starts, Abstract!Fences, Abstract!Started, In
  <2>4. ASSUME prog[j] = "WRITE", NEW b \in j..i, prog[b] \in Abstract!Barriers
        PROVE  j \in Done
    <3>1. In(j, order)
      BY Zenon, <2>2, <2>4
    <3>2. prog[b] \in Barriers
      BY Zenon, <2>4 DEF Abstract!Barriers, Abstract!Fences, Barriers, LockOps
    <3>3. b \in 1..i /\ b # j
      BY <1>1, <2>1, <2>4, <3>2 DEF Barriers, LockOps
    <3>4. j < b
      BY <1>1, <2>1, <3>3
    <3>5. j \notin DOMAIN outstanding
      BY Zenon, <3>2, <3>3, <3>4
    <3> QED
      BY ZenonT(60), <2>1, <2>4, <3>1, <3>5, InDone
  <2> QED
    BY Zenon, <2>3, <2>4
<1> QED
  BY Zenon, <1>2 DEF Abstract!MayStart

\* A call whose prologue passes may start.
LEMMA MayPass ==
  ASSUME IInv, pc[App] = "enter",
         \/ prog[Len(prog)] = "READ" /\ ~mfenced
         \/ prog[Len(prog)] = "WRITE" /\ ~IsFenced
         \/ prog[Len(prog)] \in LockOps /\ ~IsFenced /\ pending_writes = 0
  PROVE  Abstract!MayStart(Len(prog))
<1> DEFINE n == Len(prog)
<1>1. FenceTypeOK /\ PendingCounted /\ QueueBehindFence /\ Locked /\ Waits /\ Known /\ Raised
  BY Zenon DEF IInv, FenceSound
<1>2. n \in Nat /\ n \in 1..n
  BY <1>1, Calls DEF Known
<1>3. CASE prog[n] = "READ" /\ sfenced
  <2>1. PICK b \in 1..n : prog[b] = "SFENCE" /\ ~ Entering(b)
    BY Zenon, <1>1, <1>3 DEF Raised
  <2>2. b \in 1..(n - 1)
    BY <1>2, <2>1 DEF Entering
  <2> QED
    BY Zenon, <1>3, <2>1, <2>2 DEF Abstract!MayStart, Abstract!Unordered
<1>4. CASE ~IsFenced
  <2>1. \A x : ~ In(x, pending_works)
    BY Zenon, <1>1, <1>4, NoneIn DEF QueueBehindFence
  <2>2. \A j \in 1..(n - 1) : Passed(j)
    BY <1>2, <2>1 DEF Passed, Entering
  <2>3. ASSUME NEW j \in DOMAIN outstanding, NEW b \in 1..n, j < b, prog[b] \in Barriers
        PROVE  FALSE
    <3>1. CASE b \in 1..(n - 1)
      BY ZenonT(60), <1>1, <1>4, <2>2, <2>3, <3>1 DEF Raised
    <3>2. CASE b = n
      <4>1. pending_writes = 0
        BY Zenon, <2>3, <3>2 DEF Barriers, LockOps
      <4>2. DOMAIN outstanding = {}
        BY ZenonT(60), <1>1, <1>2, <4>1, Counting DEF PendingCounted, FenceTypeOK
      <4> QED
        BY Zenon, <4>2
    <3> QED
      BY <1>2, <3>1, <3>2
  <2> QED
    BY Zenon, <1>2, <2>2, <2>3, MayStart
<1> QED
  BY Zenon, <1>3, <1>4 DEF IsFenced, LockOps

\* The call at the head of pending_works may start when the drain runs it.
LEMMA MayRun ==
  ASSUME IInv, NEW a \in FenceAgents, pc[a] = "drain", pending_works # <<>>,
         prog[Head(pending_works)] \in LockOps => pending_writes = 0,
         prog[Head(pending_works)] \notin {"MFENCE", "SFENCE"}
  PROVE  /\ Abstract!MayStart(Head(pending_works))
         /\ Head(pending_works) \in 1..Len(prog) /\ ~ In(Head(pending_works), order)
<1> DEFINE n == Len(prog)
           h == Head(pending_works)
<1>1. FenceTypeOK /\ PendingCounted /\ Locked /\ Waits /\ Known /\ Raised
  BY Zenon DEF IInv, FenceSound
<1>2. /\ pending_works \in Seq(1..n) /\ n \in Nat /\ 1..n \in SUBSET Nat
      /\ Increasing(pending_works)
  BY Zenon, <1>1, Calls DEF FenceTypeOK, Waits
<1>3. h \in 1..n /\ In(h, pending_works) /\ \A x : In(x, pending_works) => h <= x
  BY ZenonT(60), <1>2, Dropped
<1>4. prog[h] \notin {"MFENCE", "SFENCE"} /\ (prog[h] \in LockOps => pending_writes = 0)
  BY Zenon
<1> HIDE DEF h
<1>5. ~ In(h, order) /\ ~ Entering(h)
  BY Zenon, <1>1, <1>3 DEF Waits
<1>6. ASSUME NEW j \in 1..(h - 1) PROVE Passed(j) /\ j \in 1..n
  <2>1. j \in 1..n /\ j # n /\ ~(h <= j)
    BY <1>2, <1>3
  <2> QED
    BY Zenon, <1>3, <2>1 DEF Passed, Entering
<1>7. ASSUME NEW j \in DOMAIN outstanding, NEW b \in 1..h, j < b, prog[b] \in Barriers
      PROVE  FALSE
  <2>1. CASE b \in 1..(h - 1)
    BY ZenonT(60), <1>1, <1>6, <1>7, <2>1 DEF Raised
  <2>2. CASE b = h
    <3>1. pending_writes = 0
      BY ZenonT(60), <1>4, <1>7, <2>2 DEF Barriers
    <3>2. DOMAIN outstanding = {}
      BY ZenonT(60), <1>1, <1>2, <3>1, Counting DEF PendingCounted, FenceTypeOK
    <3> QED
      BY Zenon, <3>2
  <2> QED
    BY <1>2, <1>3, <2>1, <2>2
<1>8. Abstract!MayStart(h)
  BY ZenonT(60), <1>3, <1>6, <1>7, MayStart
<1> QED
  BY Zenon, <1>3, <1>5, <1>8 DEF h

\* A call that passes its prologue starts there; a write completes later.
LEMMA PassImplements ==
  ASSUME IInv, pc[App] = "enter", NEW l \in {"idle", "count"}, Pass(l),
         l = "count" <=> prog[Len(prog)] = "WRITE",
         \/ prog[Len(prog)] = "READ" /\ ~mfenced
         \/ prog[Len(prog)] = "WRITE" /\ ~IsFenced
         \/ prog[Len(prog)] \in LockOps /\ ~IsFenced /\ pending_writes = 0,
         UNCHANGED <<prog, outstanding>>
  PROVE  Abstract!Next
<1> DEFINE n == Len(prog)
<1>1. FenceTypeOK /\ Waits /\ Known /\ App \in FenceAgents
  BY Zenon DEF IInv, FenceSound, FenceAgents
<1>2. order' = Append(order, n) /\ pc'[App] = l
  BY ZenonT(60), <1>1, Went DEF Pass, Cur
<1>3. n \in 1..n /\ ~ In(n, order) /\ order \in Seq(1..n)
  BY SMTT(60), <1>1, Calls DEF Known, Waits, Entering, FenceTypeOK
<1>4. \A x : In(x, order') <=> In(x, order) \/ x = n
  BY <1>2, <1>3, Appended
<1>5. \A i : i \in Done' <=> i \in Done
  <2> SUFFICES ASSUME NEW i PROVE i \in Done' <=> i \in Done
    BY Zenon
  <2>1. CASE i = n
    BY ZenonT(60), <1>2, <1>3, <2>1, InDone, InDoneNext
  <2>2. CASE i # n
    BY Zenon, <1>2, <1>4, <2>2, InDone, InDoneNext
  <2> QED
    BY Zenon, <2>1, <2>2
<1>6. Abstract!Starts(n) /\ ~ Abstract!Started(n)
  BY Zenon, <1>3 DEF Abstract!Starts, Abstract!Fences, Abstract!Started, In, LockOps
<1>7. Abstract!Start(n)
  <2>1. Done' = Done
    BY ZenonT(60), <1>5
  <2> QED
    BY ZenonT(60), <1>2, <1>6, <2>1, MayPass DEF Abstract!Start
<1> QED
  BY Zenon, <1>3, <1>7 DEF Abstract!Next

\* A step that starts and completes nothing.
LEMMA NothingHappens ==
  ASSUME UNCHANGED <<prog, order, outstanding>>, pc'[App] = "count" <=> pc[App] = "count"
  PROVE  UNCHANGED <<prog, order, Done>>
<1>1. \A i : i \in Done' <=> i \in Done
  BY Zenon, InDone, InDoneNext
<1> QED
  BY Zenon, <1>1

\* Every prologue starts the call, or leaves it to the drain.
LEMMA AppImplements ==
  ASSUME IInv, AppStep
  PROVE  Abstract!Next \/ UNCHANGED <<prog, order, Done>>
<1>1. FenceTypeOK /\ Known /\ App \in FenceAgents
  BY Zenon DEF IInv, FenceSound, FenceAgents
<1>2. ASSUME pc[App] = "enter", Goto(App, "idle"), UNCHANGED <<prog, order, outstanding>>
      PROVE  UNCHANGED <<prog, order, Done>>
  <2>1. pc'[App] = "idle"
    BY Zenon, <1>1, <1>2, Went
  <2> QED
    BY Zenon, <1>2, <2>1, NothingHappens
<1>3. CASE ProcessLocalRead
  <2>1. /\ pc[App] = "enter" /\ prog[Len(prog)] = "READ" /\ UNCHANGED <<prog, outstanding>>
    BY Zenon, <1>3 DEF ProcessLocalRead, Prologue, CurOp, Cur
  <2>2. CASE AddToFence
    BY Zenon, <1>2, <2>1, <2>2 DEF AddToFence
  <2>3. CASE ~IsMFenced /\ Pass("idle")
    BY Zenon, <2>1, <2>3, PassImplements DEF IsMFenced
  <2> QED
    BY Zenon, <1>3, <2>2, <2>3 DEF ProcessLocalRead
<1>4. CASE ProcessLocalWrite
  <2>1. /\ pc[App] = "enter" /\ prog[Len(prog)] = "WRITE" /\ UNCHANGED <<prog, outstanding>>
    BY Zenon, <1>4 DEF ProcessLocalWrite, Prologue, CurOp, Cur
  <2>2. CASE AddToFence
    BY Zenon, <1>2, <2>1, <2>2 DEF AddToFence
  <2>3. CASE ~IsFenced /\ Pass("count")
    BY Zenon, <2>1, <2>3, PassImplements
  <2> QED
    BY Zenon, <1>4, <2>2, <2>3 DEF ProcessLocalWrite
<1>5. CASE ProcessLocalMFence
  <2>1. /\ pc[App] = "enter" /\ Goto(App, "idle") /\ UNCHANGED <<prog, order, outstanding>>
    BY Zenon, <1>5 DEF ProcessLocalMFence, Prologue, AddToFence
  <2> QED
    BY Zenon, <1>2, <2>1
<1>6. CASE ProcessLocalSFence
  <2>1. /\ pc[App] = "enter" /\ Goto(App, "idle") /\ UNCHANGED <<prog, order, outstanding>>
    BY Zenon, <1>6 DEF ProcessLocalSFence, Prologue, AddToFence
  <2> QED
    BY Zenon, <1>2, <2>1
<1>7. ASSUME NEW op \in LockOps, ProcessLocalLock(op)
      PROVE  Abstract!Next \/ UNCHANGED <<prog, order, Done>>
  <2>1. /\ pc[App] = "enter" /\ prog[Len(prog)] = op /\ UNCHANGED <<prog, outstanding>>
    BY Zenon, <1>7 DEF ProcessLocalLock, Prologue, CurOp, Cur
  <2>2. CASE AddToFence
    BY Zenon, <1>2, <2>1, <2>2 DEF AddToFence
  <2>3. CASE ~IsFenced /\ pending_writes = 0 /\ Pass("idle")
    <3>1. prog[Len(prog)] # "WRITE"
      BY Zenon, <2>1 DEF LockOps
    <3> QED
      BY ZenonT(60), <2>1, <2>3, <3>1, PassImplements
  <2> QED
    BY Zenon, <1>7, <2>2, <2>3 DEF ProcessLocalLock
<1>8. CASE CountWrite
  <2>1. /\ pc[App] = "count" /\ UNCHANGED <<prog, order>>
        /\ DOMAIN outstanding' = DOMAIN outstanding \cup {Len(prog)}
    BY Zenon, <1>8 DEF CountWrite, Cur
  <2>2. pc'[App] # "count"
    <3>1. PICK l \in {"hit", "idle"} : Goto(App, l)
      BY Zenon, <1>8 DEF CountWrite
    <3> QED
      BY Zenon, <1>1, <3>1, Went
  <2>3. \A i : i \in Done' <=> i \in Done
    BY Zenon, <2>1, <2>2, InDone, InDoneNext
  <2> QED
    BY ZenonT(60), <2>1, <2>3
<1> QED
  BY ZenonT(60), <1>3, <1>4, <1>5, <1>6, <1>7, <1>8 DEF AppStep

\* The drain starts the calls of the queue; a write that hits completes at once.
LEMMA RunImplements ==
  ASSUME IInv, NEW a \in FenceAgents, pc[a] = "drain", pending_works # <<>>,
         prog[Head(pending_works)] \notin {"MFENCE", "SFENCE"},
         ~(prog[Head(pending_works)] \in LockOps /\ pending_writes # 0),
         RunFenced(Head(pending_works)), prog' = prog
  PROVE  Abstract!Next
<1> DEFINE n == Len(prog)
           h == Head(pending_works)
<1>1. FenceTypeOK /\ Waits /\ Known /\ Locked /\ App \in FenceAgents
  BY Zenon DEF IInv, FenceSound, FenceAgents
<1>2. order' = Append(order, h) /\ pc' = pc /\ order \in Seq(1..n)
  BY Zenon, <1>1 DEF RunFenced, FenceTypeOK
<1>3. Abstract!MayStart(h) /\ h \in 1..n /\ ~ In(h, order)
  BY Zenon, MayRun
<1>4. prog[h] \notin {"MFENCE", "SFENCE"} /\ pc[App] # "count" /\ h \notin DOMAIN outstanding
  BY Zenon, FenceAssumption, <1>1, <1>3 DEF Locked, Known
<1>5. \/ outstanding' = outstanding
      \/ prog[h] = "WRITE" /\ DOMAIN outstanding' = DOMAIN outstanding \cup {h}
  BY ZenonT(60) DEF RunFenced
<1> HIDE DEF h
<1>6. \A x : In(x, order') <=> In(x, order) \/ x = h
  BY <1>2, <1>3, Appended
<1>7. Abstract!Starts(h) /\ ~ Abstract!Started(h)
  BY Zenon, <1>3, <1>4 DEF Abstract!Starts, Abstract!Fences, Abstract!Started, In
<1>8. CASE prog[h] = "WRITE" /\ outstanding' = outstanding
  <2>1. \A i : i \in Done' <=> i \in Done \/ i = h
    BY ZenonT(60), <1>2, <1>4, <1>6, <1>8, InDone, InDoneNext
  <2>2. Done' = Done \cup {h}
    BY Zenon, <2>1
  <2>3. Abstract!StartAndComplete(h)
    BY ZenonT(60), <1>2, <1>3, <1>7, <1>8, <2>2 DEF Abstract!StartAndComplete
  <2> QED
    BY Zenon, <1>3, <2>3 DEF Abstract!Next
<1>9. CASE ~(prog[h] = "WRITE" /\ outstanding' = outstanding)
  <2>1. \A i : i \in Done' <=> i \in Done
    BY ZenonT(60), <1>2, <1>3, <1>4, <1>5, <1>6, <1>9, InDone, InDoneNext
  <2>2. Done' = Done
    BY ZenonT(60), <2>1
  <2>3. Abstract!Start(h)
    BY Zenon, <1>2, <1>3, <1>7, <2>2 DEF Abstract!Start
  <2> QED
    BY Zenon, <1>3, <2>3 DEF Abstract!Next
<1> QED
  BY ZenonT(60), <1>8, <1>9

\* Calls start in program order, and nothing behind a fence or a lock operation
\* starts before every earlier write has completed: ProcessLocalRead, Write, RLock,
\* WLock, UnLock and MFence, Notify and ProcessFenced implement FenceOrder.
THEOREM FenceImplementsOrder == FenceSpec => ImplementsOrder
<1>1. FenceInit => Abstract!Init
  <2> SUFFICES ASSUME FenceInit PROVE Abstract!Init
    BY Zenon
  <2>1. prog = <<>> /\ order = <<>>
    BY Zenon DEF FenceInit
  <2>2. \A i : i \notin Done
    BY Zenon, <2>1, InDone, NoneIn
  <2> QED
    BY Zenon, <2>1, <2>2 DEF Abstract!Init
<1>2. IInv /\ [FenceNext]_FenceVars => [Abstract!Next]_(Abstract!abstractVars)
  <2> SUFFICES ASSUME IInv, [FenceNext]_FenceVars
               PROVE  Abstract!Next \/ UNCHANGED <<prog, order, Done>>
    BY Zenon DEF Abstract!abstractVars
  <2>1. FenceTypeOK /\ Known /\ Locked /\ App \in FenceAgents
    BY Zenon DEF IInv, FenceSound, FenceAgents
  <2>2. CASE UNCHANGED FenceVars
    BY Zenon, <2>2, NothingHappens DEF FenceVars
  <2>3. ASSUME NEW op \in Ops, SendRequest(op) PROVE Abstract!Next
    <3>1. /\ pc[App] = "idle" /\ prog' = Append(prog, op) /\ UNCHANGED <<order, outstanding>>
          /\ pc'[App] = "enter"
      BY ZenonT(60), <2>1, <2>3, Went DEF SendRequest
    <3>2. \A i : In(i, order) => i \in 1..Len(prog) /\ prog'[i] = prog[i]
      BY <2>1, <3>1, Calls DEF FenceTypeOK
    <3>3. \A i : i \in Done' <=> i \in Done
      BY Zenon, <3>1, <3>2, InDone, InDoneNext
    <3>4. Done' = Done
      BY ZenonT(60), <3>3
    <3> QED
      BY Zenon, <3>1, <3>4 DEF Abstract!Next, Abstract!Issue
  <2>4. CASE AppStep
    BY Zenon, <2>4, AppImplements
  <2>5. ASSUME NEW a \in FenceAgents, AgentStep(a)
        PROVE  Abstract!Next \/ UNCHANGED <<prog, order, Done>>
    <3>1. ASSUME NEW l \in {"idle", "lock", "drain", "close"}, pc[a] # "count", Goto(a, l),
                 UNCHANGED <<prog, order, outstanding>>
          PROVE  UNCHANGED <<prog, order, Done>>
      <4>1. pc'[App] = "count" <=> pc[App] = "count"
        BY Zenon, <2>1, <3>1, Went
      <4> QED
        BY Zenon, <3>1, <4>1, NothingHappens
    <3>2. CASE TestInProcess(a)
      <4>1. pc[a] = "test" /\ UNCHANGED <<prog, order, outstanding>>
        BY Zenon, <3>2 DEF TestInProcess
      <4>2. PICK l \in {"idle", "lock"} : Goto(a, l)
        BY Zenon, <3>2 DEF TestInProcess
      <4> QED
        BY Zenon, <3>1, <4>1, <4>2
    <3>3. CASE OpenFence(a)
      BY Zenon, <3>1, <3>3 DEF OpenFence
    <3>4. CASE CloseDrain(a)
      BY Zenon, <3>1, <3>4 DEF CloseDrain
    <3>5. CASE DrainStep(a)
      <4> DEFINE op == prog[Head(pending_works)]
      <4>1. pc[a] = "drain" /\ pending_works # <<>> /\ prog' = prog
        BY Zenon, <3>5 DEF DrainStep
      <4>2. ASSUME NEW m, NEW s, NEW works, Refence(a, m, s, works)
            PROVE  UNCHANGED <<prog, order, Done>>
        BY Zenon, <3>1, <4>1, <4>2 DEF Refence
      <4>3. CASE UNCHANGED <<order, outstanding, pc>>
        BY Zenon, <4>1, <4>3, NothingHappens
      <4>4. CASE /\ op \notin {"MFENCE", "SFENCE"} /\ ~(op \in LockOps /\ pending_writes # 0)
                 /\ RunFenced(Head(pending_works))
        BY Zenon, <4>1, <4>4, RunImplements
      <4> QED
        BY ZenonT(60), <3>5, <4>2, <4>3, <4>4 DEF DrainStep
    <3> QED
      BY ZenonT(60), <2>5, <3>2, <3>3, <3>4, <3>5 DEF AgentStep
  <2>6. ASSUME NEW i \in DOMAIN outstanding, CompleteWrite(i) PROVE Abstract!Next
    <3>1. PICK a \in FenceAgents : Notify(a, i)
      BY Zenon, <2>6 DEF CompleteWrite
    <3>2. /\ UNCHANGED <<prog, order>> /\ Goto(a, "test") /\ pc[a] # "count"
          /\ DOMAIN outstanding' = DOMAIN outstanding \ {i}
      BY Zenon, <3>1 DEF Notify
    <3>3. pc'[App] = "count" <=> pc[App] = "count"
      BY Zenon, <2>1, <3>2, Went
    <3>4. /\ In(i, order) /\ prog[i] = "WRITE" /\ i \in 1..Len(prog)
          /\ ~(pc[App] = "count" /\ i = Len(prog))
      BY Zenon, <2>1, Calls DEF Known
    <3>5. i \notin Done /\ \A j : j \in Done' <=> j \in Done \/ j = i
      BY Zenon, <3>2, <3>3, <3>4, InDone, InDoneNext
    <3>6. Done' = Done \cup {i}
      BY Zenon, <3>5
    <3>7. Abstract!Complete(i)
      BY Zenon, <3>2, <3>4, <3>5, <3>6 DEF Abstract!Complete, Abstract!Started, In
    <3> QED
      BY Zenon, <3>4, <3>7 DEF Abstract!Next
  <2> QED
    BY Zenon, <2>2, <2>3, <2>4, <2>5, <2>6 DEF FenceNext
<1> QED
  BY <1>1, <1>2, Invariance, PTL DEF FenceSpec, ImplementsOrder, Abstract!Spec
=============================================================================

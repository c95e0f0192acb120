---------------------------- MODULE MCCoherence ----------------------------
EXTENDS Coherence, TLC

CONSTANTS h, a, b, ht, at, bt

\* One thread at every worker; two of the three at the same caching worker
OneEach == (ht :> h) @@ (at :> a) @@ (bt :> b)

TwoTogether == (ht :> a) @@ (at :> a) @@ (bt :> b)

Plain(S) == S \X {FALSE}

Try(S) == S \X {TRUE}

\* Threads that use no locks
Unlocked == [t \in Thread |-> [k \in Lock |-> Plain({"READ", "WRITE"})]]

\* Threads that write under a write lock and read under any, given the lock calls
Disciplined(calls) ==
  [k \in Lock |-> CASE k = "NONE"  -> calls
                    [] k = "RLOCK" -> Plain({"READ"})
                    [] k = "WLOCK" -> Plain({"READ", "WRITE"})]

Blocking == [t \in Thread |-> Disciplined(Plain({"RLOCK", "WLOCK"}))]

\* Locks are only taken by the threads of the workers that cache the block, while
\* the home thread writes without one
BlockingAway == [Blocking EXCEPT ![ht] = [k \in Lock |-> Plain({"WRITE"})]]

\* Threads that only write when they have a write lock, given the lock calls
Writing(calls) ==
  [t \in Thread |-> [k \in Lock |-> CASE k = "NONE"  -> calls
                                       [] k = "RLOCK" -> {}
                                       [] k = "WLOCK" -> Plain({"WRITE"})]]

Locking == Writing(Plain({"RLOCK", "WLOCK"}))

Trying == Writing(Try({"RLOCK", "WLOCK"}))
=============================================================================

------------------------------ MODULE MCRaces ------------------------------
(***************************************************************************)
(* Three ways to race the protocol, one per behaviour: lines are evicted   *)
(* under plain reads and writes, blocking locks are taken at all workers,  *)
(* the home worker included, and locks are only tried.                     *)
(***************************************************************************)
EXTENDS MCCoherence

VARIABLE race

Locks == INSTANCE Coherence WITH Calls <- Locking, MaxWrites <- 1, Evicting <- {}

\* A thread that may write has its write lock, and its worker has the block
\* writable: the write would be a hit that changes only data, and is left out.
Tries == INSTANCE Coherence WITH Calls <- Trying, MaxWrites <- 0, Evicting <- {}

\* The two caching workers may be exchanged, together with their threads.
Mirror == {p \in Permutations({a, b, at, bt}) :
             \A t \in {at, bt} : p[t] \in {at, bt} /\ OneEach[p[t]] = p[OneEach[t]]}

RacesInit == Init /\ race \in {"evict", "lock", "try"}

RacesNext ==
  /\ UNCHANGED race
  /\ \/ race = "evict" /\ Next
     \/ race = "lock" /\ Locks!Next
     \/ race = "try" /\ Tries!Next

RacesSpec == RacesInit /\ [][RacesNext]_<<vars, race>>

\* Whatever is evicted or locked, a writable copy is alone, every
\* copy holds every performed write, the directory lists every copy, and the
\* holder of a lock has it rightly and reads current data.  Not claimed where
\* tries are refused: UndoShared leaves a stale copy there.
RacesCoherent ==
  race # "try" =>
    SingleWriter /\ CopiesCurrent /\ DirectoryComplete /\ LockExclusion /\ HolderCurrent

\* Every answer meets a pending work of its kind, and a request for data that
\* home forwards finds the line, whatever is refused or evicted meanwhile.
MessagesExpected == AnswerExpected /\ RequestFindsLine

\* Where threads only take locks, read and write under them and release them, some
\* step is always possible: no chain of queued lock requests, forwards and works
\* in progress waits for itself.
LocksNeverStuck == race = "lock" => ENABLED Locks!Next

\* And what the threads do and see is what a block memory allows.
RacesImplementBlockMemory ==
  /\ Abstract!AbstractInit
  /\ [][race = "try" \/ Abstract!AbstractNext]_(Abstract!AbstractVars)
=============================================================================

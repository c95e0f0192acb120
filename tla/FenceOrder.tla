----------------------------- MODULE FenceOrder -----------------------------
(***************************************************************************)
(* What the fences of one application thread promise, with no flag, queue  *)
(* or lock in sight: the thread issues calls one after another, a call     *)
(* starts once, in program order, and a call behind a barrier starts only  *)
(* after every write issued before that barrier has completed.  A barrier  *)
(* is a fence, or a lock operation, which fences itself.  Reads issued     *)
(* after the thread's first SFENCE are promised nothing ("SFENCE is not    *)
(* supported for now!", local_request.cc:227).                             *)
(***************************************************************************)
EXTENDS Naturals, Sequences

CONSTANTS
  Ops           \* the operations a thread may call

VARIABLES
  prog,         \* the calls issued so far, in program order
  order,        \* the indexes of the started calls, in the order they started
  done          \* the indexes of the completed writes

abstractVars == <<prog, order, done>>

Fences == {"MFENCE", "SFENCE"}
Barriers == Fences \cup {"RLOCK", "WLOCK", "UNLOCK"}

Started(i) == \E k \in 1..Len(order) : order[k] = i

\* Every call but a fence starts; a fence only separates what is around it.
Starts(i) == prog[i] \notin Fences

Unordered(i) == prog[i] = "READ" /\ \E b \in 1..(i - 1) : prog[b] = "SFENCE"

MayStart(i) ==
  \/ Unordered(i)
  \/ \A j \in 1..(i - 1) :
        /\ Starts(j) => Started(j)
        /\ prog[j] = "WRITE" /\ (\E b \in j..i : prog[b] \in Barriers)
             => j \in done

Init ==
  /\ prog = <<>>
  /\ order = <<>>
  /\ done = {}

Issue(op) ==
  /\ prog' = Append(prog, op)
  /\ UNCHANGED <<order, done>>

Start(i) ==
  /\ Starts(i) /\ ~Started(i) /\ MayStart(i)
  /\ order' = Append(order, i)
  /\ UNCHANGED <<prog, done>>

\* A write completes after it has started; a hit starts and completes at once.
Complete(i) ==
  /\ prog[i] = "WRITE" /\ Started(i) /\ i \notin done
  /\ done' = done \cup {i}
  /\ UNCHANGED <<prog, order>>

StartAndComplete(i) ==
  /\ prog[i] = "WRITE" /\ ~Started(i) /\ MayStart(i)
  /\ order' = Append(order, i)
  /\ done' = done \cup {i}
  /\ UNCHANGED prog

Next ==
  \/ \E op \in Ops : Issue(op)
  \/ \E i \in 1..Len(prog) : Start(i) \/ Complete(i) \/ StartAndComplete(i)

Spec == Init /\ [][Next]_abstractVars
=============================================================================

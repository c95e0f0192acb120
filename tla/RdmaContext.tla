----------------------------- MODULE RdmaContext -----------------------------
(***************************************************************************)
(* The send side of one queue pair (class RdmaContext, gam/src/rdma.cc):   *)
(* a window of max_pending_msg posted work requests, a ring of as many     *)
(* registered slots for SENDs, a queue for the requests that do not fit,   *)
(* and the counters that tell how much a completion gives back.  Only some *)
(* work requests are signaled: the completion of one of them stands for    *)
(* all the work requests posted since the signaled one before it.          *)
(*                                                                         *)
(* Every operation holds the lock of the context.  ProcessPendingRequests  *)
(* is a loop that SendComp runs before it lets the lock go: one step per   *)
(* queued request, and no other step in between.                           *)
(***************************************************************************)
EXTENDS Integers, Sequences

CONSTANTS
  max_pending_msg,      \* size of the window and of the ring of slots
  MAX_UNSIGNALED_MSG,   \* wanted distance of signaled work requests
  MaxSubmits            \* bound on the number of requests

ASSUME RdmaAssumption ==
  /\ max_pending_msg \in Nat \ {0}
  /\ MAX_UNSIGNALED_MSG \in Nat \ {0}
  /\ MaxSubmits \in Nat

max_unsignaled_msg ==
  IF MAX_UNSIGNALED_MSG > max_pending_msg THEN max_pending_msg ELSE MAX_UNSIGNALED_MSG

VARIABLES
  pending_msg,            \* work requests posted and not known to be complete
  pending_send_msg,       \* those of them that are SENDs
  to_signaled_send_msg,   \* SENDs among them that a signaled one accounts for
  to_signaled_w_r_msg,    \* and the others
  slot_head, slot_tail,   \* next slot to hand out, oldest slot in use
  full,                   \* head has caught up with tail
  pending_requests,       \* requests that wait for the window
  inflight,               \* signaled work requests the card has not completed
  left,                   \* work requests that the running loop may still post
  prev_op,                \* operation of its latest work request
  locked,                 \* the loop is running
  submitted, posted,      \* history: last request asked for, last one posted
  freed                   \* history: SENDs and others given back so far

counters == <<pending_msg, pending_send_msg, to_signaled_send_msg, to_signaled_w_r_msg, inflight>>

ring == <<slot_head, slot_tail, full>>

loop == <<left, prev_op, locked>>

vars == <<counters, ring, loop, pending_requests, submitted, posted, freed>>

Request == [id : Nat, op : {"SEND", "WRITE"}, signaled : BOOLEAN]

\* The wr_id of a signaled work request holds what its completion gives back;
\* upto is history: the totals once it has.
Signaled == [send : Nat, w_r : Nat, upto : [send : Nat, w_r : Nat]]

Init ==
  /\ pending_msg = 0 /\ pending_send_msg = 0
  /\ to_signaled_send_msg = 0 /\ to_signaled_w_r_msg = 0
  /\ inflight = <<>>
  /\ slot_head = 0 /\ slot_tail = 0 /\ full = FALSE
  /\ pending_requests = <<>>
  /\ left = 0 /\ prev_op = "NONE" /\ locked = FALSE
  /\ submitted = 0 /\ posted = 0
  /\ freed = [send |-> 0, w_r |-> 0]

-----------------------------------------------------------------------------
(* Slots *)

\* RMINUS
Minus(i, j) == IF i >= j THEN i - j ELSE i + max_pending_msg - j

Avail ==
  LET room == Minus(slot_tail, slot_head)
  IN  IF room = 0 /\ ~full THEN max_pending_msg ELSE room

\* Mutant: the head runs past the end of the ring.
NextSlotPastEnd(i) == i + 1

NextSlot(i) == IF i + 1 = max_pending_msg THEN 0 ELSE i + 1

GetFreeSlot_ ==
  /\ slot_head' = NextSlot(slot_head)
  /\ full' = (full \/ NextSlot(slot_head) = slot_tail)
  /\ UNCHANGED slot_tail

-----------------------------------------------------------------------------
(* Posting *)

\* Mutant: only the requests that ask for it are signaled.
SignalOnDemand(signaled, sends, others) == signaled

Signal(signaled, sends, others) == signaled \/ sends + others = max_unsignaled_msg

\* One more work request: every max_unsignaled_msg-th one is signaled, and one
\* that is signaled accounts for those before it.
Count(op, signaled) ==
  LET send   == IF op = "SEND" THEN 1 ELSE 0
      sends  == pending_send_msg + send - to_signaled_send_msg
      others == pending_msg + 1 - (pending_send_msg + send) - to_signaled_w_r_msg
      sig    == Signal(signaled, sends, others)
  IN  /\ pending_msg' = pending_msg + 1
      /\ pending_send_msg' = pending_send_msg + send
      /\ to_signaled_send_msg' = IF sig THEN to_signaled_send_msg + sends ELSE to_signaled_send_msg
      /\ to_signaled_w_r_msg' = IF sig THEN to_signaled_w_r_msg + others ELSE to_signaled_w_r_msg
      /\ inflight' =
           IF ~sig THEN inflight
           ELSE Append(inflight, [send |-> sends, w_r |-> others,
                  upto |-> [send |-> freed.send + to_signaled_send_msg + sends,
                            w_r |-> freed.w_r + to_signaled_w_r_msg + others]])

\* Mutant: one too many.
WindowFullLate == pending_msg > max_pending_msg

WindowFull == pending_msg >= max_pending_msg

Enqueue(r) ==
  /\ pending_requests' = Append(pending_requests, r)
  /\ UNCHANGED <<counters, ring, posted>>

\* Worker::SubmitRequest takes a slot, or a buffer of its own when there is none,
\* and calls Send.  A SEND from a buffer of its own goes inline, without a slot.
Send ==
  LET r == [id |-> submitted + 1, op |-> "SEND", signaled |-> FALSE]
  IN  /\ ~locked /\ submitted < MaxSubmits
      /\ submitted' = r.id
      /\ \/ WindowFull /\ Enqueue(r)
         \/ /\ ~WindowFull
            /\ IF Avail > 0 THEN GetFreeSlot_ /\ Count("SEND", FALSE)
                            ELSE Count("WRITE", FALSE) /\ UNCHANGED ring
            /\ posted' = r.id
            /\ UNCHANGED pending_requests
      /\ UNCHANGED <<loop, freed>>

\* Write and WriteWithImm
WriteWithImm(signaled) ==
  LET r == [id |-> submitted + 1, op |-> "WRITE", signaled |-> signaled]
  IN  /\ ~locked /\ submitted < MaxSubmits
      /\ submitted' = r.id
      /\ \/ WindowFull /\ Enqueue(r)
         \/ /\ ~WindowFull
            /\ Count("WRITE", signaled)
            /\ posted' = r.id
            /\ UNCHANGED <<ring, pending_requests>>
      /\ UNCHANGED <<loop, freed>>

-----------------------------------------------------------------------------
(* Completions *)

\* Mutant: one completion makes room for one request.
RoomForOne(wr) == 1

RoomFor(wr) == wr.send + wr.w_r

\* Mutant: the tail does not wrap.
AdvanceTailPastEnd(n) == slot_tail + n

AdvanceTail(n) ==
  IF slot_tail + n >= max_pending_msg THEN slot_tail + n - max_pending_msg ELSE slot_tail + n

\* SendComp, also called for the completion of a write, up to its loop
SendComp ==
  LET wr == Head(inflight)
  IN  /\ ~locked /\ inflight # <<>>
      /\ inflight' = Tail(inflight)
      /\ pending_msg' = pending_msg - (wr.send + wr.w_r)
      /\ pending_send_msg' = pending_send_msg - wr.send
      /\ to_signaled_send_msg' = to_signaled_send_msg - wr.send
      /\ to_signaled_w_r_msg' = to_signaled_w_r_msg - wr.w_r
      /\ slot_tail' = AdvanceTail(wr.send)
      /\ full' = (full /\ wr.send = 0)
      /\ freed' = wr.upto
      /\ locked' = TRUE /\ left' = RoomFor(wr) /\ prev_op' = "NONE"
      /\ UNCHANGED <<slot_head, pending_requests, submitted, posted>>

Dequeue ==
  /\ posted' = Head(pending_requests).id
  /\ pending_requests' = Tail(pending_requests)
  /\ UNCHANGED <<submitted, freed, slot_tail, locked>>

\* The next request shares the buffer of the SEND before it, when it fits there.
MergeRequest ==
  /\ locked /\ pending_requests # <<>>
  /\ Head(pending_requests).op = "SEND" /\ ~Head(pending_requests).signaled /\ prev_op = "SEND"
  /\ Dequeue
  /\ UNCHANGED <<counters, slot_head, full, left, prev_op>>

\* The next request becomes a work request of its own.
PostRequest ==
  /\ locked /\ pending_requests # <<>> /\ left > 0
  /\ LET r == Head(pending_requests)
     IN  /\ IF r.op = "SEND" THEN GetFreeSlot_ ELSE UNCHANGED ring
         /\ Count(r.op, r.signaled)
         /\ prev_op' = r.op
  /\ left' = left - 1
  /\ Dequeue

EndRequests ==
  /\ locked /\ (pending_requests = <<>> \/ left = 0)
  /\ locked' = FALSE /\ left' = 0 /\ prev_op' = "NONE"
  /\ UNCHANGED <<counters, ring, pending_requests, submitted, posted, freed>>

ProcessPendingRequests == MergeRequest \/ PostRequest \/ EndRequests

Next == Send \/ (\E signaled \in BOOLEAN : WriteWithImm(signaled)) \/ SendComp \/ ProcessPendingRequests

Spec == Init /\ [][Next]_vars

\* The service thread polls for completions.
FairSpec == Spec /\ WF_vars(SendComp) /\ WF_vars(ProcessPendingRequests)

-----------------------------------------------------------------------------
(* Properties *)

\* Every variable has its type.
TypeOK ==
  /\ pending_msg \in Nat /\ pending_send_msg \in Nat
  /\ to_signaled_send_msg \in Nat /\ to_signaled_w_r_msg \in Nat
  /\ inflight \in Seq(Signaled)
  /\ slot_head \in 0 .. max_pending_msg - 1 /\ slot_tail \in 0 .. max_pending_msg - 1
  /\ full \in BOOLEAN
  /\ pending_requests \in Seq(Request)
  /\ left \in Nat /\ prev_op \in {"NONE", "SEND", "WRITE"} /\ locked \in BOOLEAN
  /\ submitted \in Nat /\ posted \in Nat
  /\ freed \in [send : Nat, w_r : Nat]

\* What the card and its completions have not given back fits into the window, the
\* queue pair is created for no more.
WindowBound == pending_msg + left <= max_pending_msg

\* No slot is handed out twice: the slots in use are those from tail to head, one for
\* every SEND that is not known to be complete.
SlotsCounted ==
  /\ slot_head = (IF slot_tail + pending_send_msg < max_pending_msg
                  THEN slot_tail + pending_send_msg
                  ELSE slot_tail + pending_send_msg - max_pending_msg)
  /\ full <=> pending_send_msg = max_pending_msg

\* While the window has room there is a slot, so a SEND never goes out from an
\* unregistered buffer, and the loop is "guaranteed to get a free slot".
SlotGuaranteed ==
  (~WindowFull /\ (locked => left > 0)) => Avail > 0

\* Requests only wait while the window is full; in the loop, while it is being filled.
WaitOnlyIfFull ==
  pending_requests # <<>> => pending_msg + left = max_pending_msg

\* The completions in flight, one after the other, give back exactly what is signaled.
Accounting ==
  LET last == IF inflight = <<>> THEN freed ELSE inflight[Len(inflight)].upto
  IN  /\ \A i \in 1 .. Len(inflight) :
           LET before == IF i = 1 THEN freed ELSE inflight[i - 1].upto
           IN  /\ inflight[i].upto.send = before.send + inflight[i].send
               /\ inflight[i].upto.w_r = before.w_r + inflight[i].w_r
      /\ \A i, j \in 1 .. Len(inflight) : i <= j =>
           /\ inflight[i].upto.send <= inflight[j].upto.send
           /\ inflight[i].upto.w_r <= inflight[j].upto.w_r
      /\ last.send = freed.send + to_signaled_send_msg
      /\ last.w_r = freed.w_r + to_signaled_w_r_msg

\* What is signaled has been posted, and fewer than max_unsignaled_msg work requests
\* have been posted since.
Signaling ==
  /\ to_signaled_send_msg <= pending_send_msg
  /\ pending_send_msg + to_signaled_w_r_msg <= pending_msg
  /\ pending_msg < to_signaled_send_msg + to_signaled_w_r_msg + max_unsignaled_msg

\* A request never waits for a completion that will not come: while one waits, a
\* signaled work request is in flight whose completion runs the loop.
NoStall == ~locked /\ pending_requests # <<>> => inflight # <<>>

\* The queue holds the requests that follow the last one posted, in the order they
\* were made.
InOrder ==
  /\ submitted = posted + Len(pending_requests)
  /\ \A i \in 1 .. Len(pending_requests) : pending_requests[i].id = posted + i

\* The card gets every request once and in the order of the calls, whether it was
\* posted at once or had to wait: the channels of the coherence protocol are FIFO.
PostedInOrder == [][posted' \in {posted, posted + 1}]_vars

\* Every request that is made reaches the card in the end.
EveryRequestPosted == \A k \in 1 .. MaxSubmits : submitted >= k ~> posted >= k

\* The inductive invariant: all of the above that are about a state.
IInv ==
  /\ TypeOK /\ WindowBound /\ SlotsCounted /\ WaitOnlyIfFull /\ Accounting /\ Signaling
  /\ InOrder
  /\ ~locked => left = 0
=============================================================================

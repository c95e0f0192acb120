----------------------------- MODULE RecvSlots ------------------------------
(***************************************************************************)
(* The receive side of a node (class RdmaResource, src/rdma.cc): the slots *)
(* into which the card writes what other nodes SEND, the shared receive    *)
(* queue they are posted to, and the count of the posted ones.  Every new  *)
(* connection registers slots of its own and posts as many as still fit    *)
(* into the queue; whoever has handled a message posts its slot again.     *)
(*                                                                         *)
(* In a worker two threads do this without a lock: the event loop, which   *)
(* accepts connections, and the service thread, which polls for messages.  *)
(* Steps are cut where one thread can see what the other has done: at the  *)
(* reads and writes of recv_posted and at the posts.                       *)
(***************************************************************************)
EXTENDS Integers, SequencesExt

CONSTANTS rx_depth,          \* capacity of the shared receive queue
          max_pending_msg,   \* slots a connection asks for
          RECV_SLOT_STEP,    \* slots are allocated in steps of so many
          MaxConnections,    \* bound: connections
          MaxMessages        \* bound: messages

RecvSlotsAssumption ==
    /\ rx_depth \in Nat /\ max_pending_msg \in Nat \ {0}
    /\ RECV_SLOT_STEP \in Nat \ {0}

VARIABLES slots,         \* the state of the allocated slots: TRUE when occupied
          slot_inuse,    \* slots registered
          slot_head,     \* where the search for a free slot goes on
          recv_posted,   \* the count
          srq,           \* the receive queue: posted slots in order
          cq,            \* completions: slots with a message not yet looked at
          connecting,    \* the event loop's step of a new connection
          asked,         \* its n
          serving,       \* the service thread's step
          slot,          \* its slot
          connections, sent, handled   \* so far

queues == <<srq, cq, slots, slot_head>>
vars == <<queues, slot_inuse, recv_posted, connecting, asked, serving, slot,
          connections, sent, handled>>

Init ==
    /\ slots = [s \in {} |-> FALSE] /\ slot_inuse = 0 /\ slot_head = 0
    /\ recv_posted = 0
    /\ srq = <<>> /\ cq = <<>>
    /\ connecting = "idle" /\ asked = 0
    /\ serving = "idle" /\ slot = -1
    /\ connections = 0 /\ sent = 0 /\ handled = 0

-----------------------------------------------------------------------------
(* The event loop: a new connection *)

\* The number of slots once some more have been registered.
Allocated(inuse) ==
    LET size == Cardinality(DOMAIN slots)
    IN  IF inuse <= size THEN size
        ELSE size + RECV_SLOT_STEP * ((inuse - size + RECV_SLOT_STEP - 1) \div RECV_SLOT_STEP)

RegCommSlot ==
    /\ connecting = "idle" /\ connections < MaxConnections
    /\ connections' = connections + 1
    /\ slot_inuse' = slot_inuse + max_pending_msg
    /\ slots' = [s \in 0 .. Allocated(slot_inuse') - 1 |-> s \in DOMAIN slots /\ slots[s]]
    /\ connecting' = "registered"
    /\ UNCHANGED <<srq, cq, slot_head, recv_posted, asked, serving, slot, sent, handled>>

\* PostRecv reads how many fit.
PostRecv ==
    /\ connecting = "registered"
    /\ asked' = IF max_pending_msg > rx_depth - recv_posted
                THEN rx_depth - recv_posted ELSE max_pending_msg
    /\ connecting' = IF asked' = 0 THEN "idle" ELSE "asked"
    /\ UNCHANGED <<queues, slot_inuse, recv_posted, serving, slot, connections, sent, handled>>

\* Mutant: takes the slots from the head on, free or not.
FreeSlotsAny(n) == [k \in 1 .. n |-> (slot_head + k - 1) % slot_inuse]

\* The next n free slots from the head on, round the ring.
FreeSlots(n) ==
    LET ring == [k \in 1 .. slot_inuse |-> (slot_head + k - 1) % slot_inuse]
        free == SelectSeq(ring, LAMBDA s : ~slots[s])
    IN  SubSeq(free, 1, IF n <= Len(free) THEN n ELSE Len(free))

\* It marks them and posts them.  A search that finds too few ends where it began.
\* When the queue has no room for one of them, every slot from that one up to the
\* head is marked free, also one that was occupied before.
PostFree ==
    /\ connecting = "asked"
    /\ LET found   == FreeSlots(asked)
           room    == rx_depth - Len(srq)
           posts   == SubSeq(found, 1, IF Len(found) <= room THEN Len(found) ELSE room)
           head    == IF found = <<>> \/ Len(found) < asked THEN slot_head
                      ELSE (Last(found) + 1) % slot_inuse
           bad     == found[room + 1]
           cleared == IF Len(found) <= room THEN {}
                      ELSE {(bad + k) % slot_inuse : k \in 0 .. ((head - bad) % slot_inuse) - 1}
       IN  /\ srq' = srq \o posts
           /\ slots' = [s \in DOMAIN slots |->
                          (slots[s] \/ Contains(found, s)) /\ s \notin cleared]
           /\ slot_head' = head
    /\ connecting' = "posted"
    /\ UNCHANGED <<cq, slot_inuse, recv_posted, asked, serving, slot, connections, sent, handled>>

\* It counts what it meant to post.
CountPosted ==
    /\ connecting = "posted"
    /\ recv_posted' = recv_posted + asked
    /\ connecting' = "idle" /\ asked' = 0
    /\ UNCHANGED <<queues, slot_inuse, serving, slot, connections, sent, handled>>

-----------------------------------------------------------------------------
(* External: peers send on their connections; the card takes the slot at   *)
(* the head of the queue, and waits when there is none (rnr_retry = 7).    *)

PeerSend ==
    /\ connections > 0 /\ sent < MaxMessages
    /\ sent' = sent + 1
    /\ UNCHANGED <<queues, slot_inuse, recv_posted, connecting, asked, serving, slot,
                   connections, handled>>

Waiting == sent - handled - Len(cq) - (IF serving = "handling" THEN 1 ELSE 0)

Deliver ==
    /\ Waiting > 0 /\ srq # <<>>
    /\ srq' = Tail(srq) /\ cq' = Append(cq, Head(srq))
    /\ UNCHANGED <<slots, slot_head, slot_inuse, recv_posted, connecting, asked, serving, slot,
                   connections, sent, handled>>

-----------------------------------------------------------------------------
(* The service thread *)

\* RecvComp and GetSlot; the slot stays occupied.
RecvComp ==
    /\ serving = "idle" /\ cq # <<>>
    /\ slot' = Head(cq) /\ cq' = Tail(cq)
    /\ recv_posted' = recv_posted - 1
    /\ serving' = "handling"
    /\ UNCHANGED <<srq, slots, slot_head, slot_inuse, connecting, asked, connections, sent, handled>>

\* The message is handled, then PostRecvSlot looks at the count.
PostRecvSlot ==
    /\ serving = "handling"
    /\ handled' = handled + 1
    /\ serving' = IF rx_depth = recv_posted THEN "idle" ELSE "posting"
    /\ slot' = IF rx_depth = recv_posted THEN -1 ELSE slot
    /\ UNCHANGED <<queues, slot_inuse, recv_posted, connecting, asked, connections, sent>>

\* Mutant: counts and does not post.
RePostNone ==
    /\ serving = "posting"
    /\ recv_posted' = recv_posted + 1
    /\ serving' = "idle" /\ slot' = -1
    /\ UNCHANGED <<queues, slot_inuse, connecting, asked, connections, sent, handled>>

\* Mutant: posts and does not count.
RePostUncounted ==
    /\ serving = "posting"
    /\ srq' = Append(srq, slot)
    /\ serving' = "idle" /\ slot' = -1
    /\ UNCHANGED <<cq, slots, slot_head, recv_posted, slot_inuse, connecting, asked, connections,
                   sent, handled>>

\* It counts the slot and posts it; when the queue has no room the slot is
\* free again and stays counted.
RePost ==
    /\ serving = "posting"
    /\ recv_posted' = recv_posted + 1
    /\ srq' = IF Len(srq) < rx_depth THEN Append(srq, slot) ELSE srq
    /\ slots' = [slots EXCEPT ![slot] = Len(srq) < rx_depth]
    /\ serving' = "idle" /\ slot' = -1
    /\ UNCHANGED <<cq, slot_head, slot_inuse, connecting, asked, connections, sent, handled>>

-----------------------------------------------------------------------------
Accept == RegCommSlot \/ PostRecv \/ PostFree \/ CountPosted
Serve == RecvComp \/ PostRecvSlot \/ RePost

Next == Accept \/ PeerSend \/ Deliver \/ Serve

Spec == Init /\ [][Next]_vars

\* The event loop and the service thread keep running, and the card delivers.
FairSpec == Spec /\ WF_vars(PostRecv \/ PostFree \/ CountPosted)
                 /\ WF_vars(Serve) /\ WF_vars(Deliver)

-----------------------------------------------------------------------------
(* Properties *)

\* No slot is posted twice, and the slot of a message that has arrived or is
\* being handled is not posted: the card never writes into it.
SlotsApart ==
    LET used == srq \o cq \o (IF slot = -1 THEN <<>> ELSE <<slot>>)
    IN  /\ IsInjective(used)
        /\ \A i \in DOMAIN used : slots[used[i]]

\* recv_posted is the number of receives posted and not yet looked at, up to
\* those the event loop is just counting.
PostedCounted ==
    recv_posted + (IF connecting = "posted" THEN asked ELSE 0) = Len(srq) + Len(cq)

\* No slot is lost: one that is occupied is in the queue, holds a message, or
\* is in the hands of the service thread.
NoneLost ==
    \A s \in DOMAIN slots : slots[s] => Contains(srq, s) \/ Contains(cq, s) \/ s = slot

\* epicAssert(n >= 0) in PostRecv: the count never passes the capacity, so
\* there is never a negative number of receives to post.
RoomNotNegative == asked >= 0

\* Every message that is sent is handled in the end.
EveryMessageHandled == \A k \in 1 .. MaxMessages : sent >= k ~> handled >= k
=============================================================================

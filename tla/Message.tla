------------------------------ MODULE Message -------------------------------
(***************************************************************************)
(* The wire format of a work request (src/workrequest.cc) and the receive  *)
(* loop that takes merged requests apart again (Server::ProcessRdmaRequest *)
(* in src/server.cc).  A SEND carries one request, or several that         *)
(* ProcessPendingRequests (src/rdma.cc) put behind one another with a zero *)
(* byte between them.  There is no length in front of a request: the       *)
(* receiver knows where one ends from its operation alone, or, for the     *)
(* memory statistics, from the first zero byte.  The card writes into      *)
(* receive slots that lie next to each other and are used again and again, *)
(* so behind a request lie the rests of older ones.                        *)
(*                                                                         *)
(* The unit is a cell: one field of any width, or one byte of a payload.   *)
(* A cell is its kind and its value; Ser and Deser are two separate tables *)
(* of fields, as they are two functions in the code.                       *)
(***************************************************************************)
EXTENDS Integers, SequencesExt

CONSTANTS MAX_REQUEST_SIZE,   \* cells of a slot
          LongestRequest,     \* cells of the longest single request
          Slots,              \* receive slots posted
          Ops, Payloads,      \* the requests made
          MaxRequests         \* bound: requests sent

MessageAssumption ==
    /\ MAX_REQUEST_SIZE \in Nat /\ LongestRequest \in 1 .. MAX_REQUEST_SIZE
    /\ Slots \in Nat \ {0, 1}

VARIABLES wire,       \* the SENDs on their way, each a sequence of cells
          memory,     \* the receive slots and the cell behind the last
          posted,     \* the slots the card may fill, in the order posted
          completed,  \* completions not yet handled: slot and byte_len
          consumed,   \* consumed_len of the loop, -1 outside of it
          sent, delivered   \* history: requests made, requests handled

vars == <<wire, memory, posted, completed, consumed, sent, delivered>>

Zero == <<"byte", 0>>

TextOps    == {"FETCH_MEM_STATS_REPLY", "BROADCAST_MEM_STATS"}
BinaryOps  == {"PUT", "GET_REPLY"}
WriteOps   == {"WRITE", "WRITE_PERMISSION_ONLY"}
ReadOps    == {"READ", "FETCH_AND_SHARED", "FETCH_AND_INVALIDATE", "INVALIDATE"}
ForwardOps == {"READ_FORWARD", "WRITE_FORWARD", "INVALIDATE_FORWARD",
               "WRITE_PERMISSION_ONLY_FORWARD"}
BackOps    == {"ACTIVE_INVALIDATE", "WRITE_BACK"}

\* The fields Ser appends behind the operation, in order.
SerFields(op) ==
    CASE op = "UPDATE_MEM_STATS" -> <<"wid", "size", "free">>
      [] op \in TextOps          -> <<"size">>
      [] op = "GET"              -> <<"id", "wid", "key">>
      [] op \in BinaryOps        -> <<"id", "wid", "key", "size">>
      [] op = "FETCH_MEM_STATS"  -> <<"wid">>
      [] op = "MALLOC"           -> <<"id", "wid", "size", "flag">>
      [] op = "MALLOC_REPLY"     -> <<"id", "wid", "addr", "status">>
      [] op = "FREE"             -> <<"id", "wid", "addr">>
      [] op \in WriteOps         -> <<"id", "wid", "addr", "size", "ptr", "flag", "gid", "arg">>
      [] op \in ReadOps          -> <<"id", "wid", "addr", "size", "ptr", "flag">>
      [] op \in ForwardOps       -> <<"id", "wid", "addr", "size", "ptr", "flag", "pid", "pwid">>
      [] op = "READ_REPLY"       -> <<"id", "wid", "status">>
      [] op = "WRITE_REPLY"      -> <<"id", "wid", "status", "counter">>
      [] op \in BackOps          -> <<"id", "wid", "addr", "ptr">>

\* The fields Deser reads behind the operation, in order.
DeserFields(op) ==
    CASE op = "UPDATE_MEM_STATS" -> <<"wid", "size", "free">>
      [] op \in TextOps          -> <<"size">>
      [] op = "GET"              -> <<"id", "wid", "key">>
      [] op \in BinaryOps        -> <<"id", "wid", "key", "size">>
      [] op = "FETCH_MEM_STATS"  -> <<"wid">>
      [] op = "MALLOC"           -> <<"id", "wid", "size", "flag">>
      [] op = "MALLOC_REPLY"     -> <<"id", "wid", "addr", "status">>
      [] op = "FREE"             -> <<"id", "wid", "addr">>
      [] op \in WriteOps         -> <<"id", "wid", "addr", "size", "ptr", "flag", "gid", "arg">>
      [] op \in ReadOps          -> <<"id", "wid", "addr", "size", "ptr", "flag">>
      [] op \in ForwardOps       -> <<"id", "wid", "addr", "size", "ptr", "flag", "pid", "pwid">>
      [] op = "READ_REPLY"       -> <<"id", "wid", "status">>
      [] op = "WRITE_REPLY"      -> <<"id", "wid", "status", "counter">>
      [] op \in BackOps          -> <<"id", "wid", "addr", "ptr">>

-----------------------------------------------------------------------------
(* Requests.  Request n has the value n in every field, except that size is *)
(* the length of the payload where there is one.                            *)

Carries(op, payload) ==
    \/ op \in BinaryOps
    \/ op \in TextOps /\ payload # <<>> /\ ~Contains(payload, Zero)
    \/ op \notin BinaryOps \cup TextOps /\ payload = <<>>

Request(n, op, payload) ==
    [op |-> op,
     fields |-> [k \in DOMAIN SerFields(op) |->
                    <<SerFields(op)[k],
                      IF SerFields(op)[k] = "size" /\ op \in BinaryOps THEN Len(payload) ELSE n>>],
     payload |-> payload]

Ser(r) == <<<<"op", r.op>>>> \o r.fields \o r.payload

-----------------------------------------------------------------------------
Init ==
    /\ wire = <<>>
    /\ memory = [i \in 0 .. Slots * MAX_REQUEST_SIZE |->
                    IF i < Slots * MAX_REQUEST_SIZE THEN <<"byte", 1>> ELSE Zero]
    /\ posted = [i \in 1 .. Slots |-> i - 1]
    /\ completed = <<>>
    /\ consumed = -1
    /\ sent = <<>> /\ delivered = <<>>

\* A SEND of its own.
Send(op, payload) ==
    LET r == Request(Len(sent) + 1, op, payload) IN
    /\ Len(sent) < MaxRequests
    /\ Carries(op, payload) /\ Len(Ser(r)) <= LongestRequest
    /\ wire' = Append(wire, Ser(r))
    /\ sent' = Append(sent, r)
    /\ UNCHANGED <<memory, posted, completed, consumed, delivered>>

Joined(buf, cells) == buf \o <<Zero>> \o cells

\* One that ProcessPendingRequests merges with the SEND before it: both are
\* still in the queue, and there is room for it and two zero bytes.
Merge(op, payload) ==
    LET r == Request(Len(sent) + 1, op, payload) IN
    /\ Len(sent) < MaxRequests /\ wire # <<>>
    /\ Carries(op, payload) /\ Len(Ser(r)) <= LongestRequest
    /\ Len(Last(wire)) + Len(Ser(r)) + 1 + 1 <= MAX_REQUEST_SIZE
    /\ wire' = [wire EXCEPT ![Len(wire)] = Joined(@, Ser(r))]
    /\ sent' = Append(sent, r)
    /\ UNCHANGED <<memory, posted, completed, consumed, delivered>>

BOFF(slot) == slot * MAX_REQUEST_SIZE

\* External: the card fills the next slot; what the slot held beyond stays.
Receive ==
    /\ wire # <<>> /\ posted # <<>>
    /\ LET cells == Head(wire)
           base  == BOFF(Head(posted))
       IN  /\ memory' = [i \in DOMAIN memory |->
                            IF i - base \in 0 .. Len(cells) - 1
                            THEN cells[i - base + 1] ELSE memory[i]]
           /\ completed' = Append(completed, [slot |-> Head(posted), byte_len |-> Len(cells)])
    /\ wire' = Tail(wire) /\ posted' = Tail(posted)
    /\ UNCHANGED <<consumed, sent, delivered>>

\* Mutant: what lies behind the SEND stays as it is.
UnTerminated(wc) == memory

\* data[wc.byte_len] = '\0', in the next slot when this one is full.
Terminated(wc) ==
    [i \in DOMAIN memory |->
        IF i = BOFF(wc.slot) + wc.byte_len THEN Zero ELSE memory[i]]

\* A completion of a receive, up to the loop.
RecvComp ==
    /\ completed # <<>> /\ consumed = -1
    /\ memory' = Terminated(Head(completed))
    /\ consumed' = 0
    /\ UNCHANGED <<wire, posted, completed, sent, delivered>>

\* Where the payload that starts at position p ends.
PayloadEnd(op, size, p) ==
    IF op \in TextOps
    THEN p + (CHOOSE n \in 0 .. Slots * MAX_REQUEST_SIZE - p :
                 /\ memory[p + n] = Zero
                 /\ \A k \in 0 .. n - 1 : memory[p + k] # Zero)
    ELSE p + size

\* What Deser makes of the cells from position p on: the request, and the
\* position behind it.  Of an operation the switch does not know it reads
\* nothing but the operation.
Deser(p) ==
    LET known  == memory[p][1] = "op"
        op     == IF known THEN memory[p][2] ELSE "UNKNOWN"
        fields == IF known THEN DeserFields(op) ELSE <<>>
        start  == p + Len(fields) + 1
        size   == IF op \in BinaryOps THEN memory[start - 1][2] ELSE 0
        end    == PayloadEnd(op, size, start)
    IN  [request |-> [op |-> op,
                      fields |-> [k \in DOMAIN fields |-> <<fields[k], memory[p + k][2]>>],
                      payload |-> [k \in 1 .. end - start |-> memory[start + k - 1]]],
         next    |-> end]

\* Mutant: stays on the separator.
BehindOnIt(p) == p

Behind(p) == p + 1

\* One turn of the loop.
DeserNext ==
    LET base == BOFF(Head(completed).slot)
        d    == Deser(base + consumed)
    IN
    /\ completed # <<>> /\ consumed \in 0 .. Head(completed).byte_len - 1
    /\ delivered' = Append(delivered, d.request)
    /\ consumed' = Behind(d.next - base)
    /\ UNCHANGED <<wire, memory, posted, completed, sent>>

\* The end of the loop: the slot is posted again.
PostRecvSlot ==
    /\ completed # <<>> /\ consumed >= Head(completed).byte_len
    /\ posted' = Append(posted, Head(completed).slot)
    /\ completed' = Tail(completed)
    /\ consumed' = -1
    /\ UNCHANGED <<wire, memory, sent, delivered>>

Next ==
    \/ \E op \in Ops, payload \in Payloads : Send(op, payload) \/ Merge(op, payload)
    \/ Receive \/ RecvComp \/ DeserNext \/ PostRecvSlot

Spec == Init /\ [][Next]_vars

-----------------------------------------------------------------------------
(* Properties *)

\* The handlers get the requests that were made, whole, once and in order,
\* however they were merged and whatever an earlier use left in the slot.
DeliveredAsSent == IsPrefix(delivered, sent)

\* When the loop ends it has consumed exactly what arrived: it stands one
\* behind the last cell, where the next separator would have been.
LoopEndsAtLength ==
    (completed # <<>> /\ consumed >= Head(completed).byte_len) =>
        consumed = Head(completed).byte_len + 1
=============================================================================

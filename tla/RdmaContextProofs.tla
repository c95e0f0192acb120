-------------------------- MODULE RdmaContextProofs --------------------------
(***************************************************************************)
(* Proofs about RdmaContext, for every size of the window, every signaling *)
(* distance and every number of requests.                                  *)
(***************************************************************************)
EXTENDS RdmaContext, TLAPS

\* The signaling distance is positive and within the window (rdma.cc:389-391).
LEMMA UnsignaledBound == max_unsignaled_msg \in 1 .. max_pending_msg
BY RdmaAssumption DEF max_unsignaled_msg

\* A context starts empty (the constructor of RdmaContext).
LEMMA InitIInv == Init => IInv
<1> SUFFICES ASSUME Init PROVE IInv
  BY Zenon
<1> USE RdmaAssumption, UnsignaledBound
<1>1. TypeOK
  <2>1. inflight \in Seq(Signaled) /\ pending_requests \in Seq(Request)
    BY DEF Init
  <2>2. slot_head \in 0 .. max_pending_msg - 1 /\ slot_tail \in 0 .. max_pending_msg - 1
    BY DEF Init
  <2>3. full \in BOOLEAN /\ locked \in BOOLEAN
    BY Zenon DEF Init
  <2>4. freed \in [send : Nat, w_r : Nat]
    BY Zenon DEF Init
  <2> QED
    BY Zenon, <2>1, <2>2, <2>3, <2>4 DEF Init, TypeOK
<1>2. WindowBound /\ WaitOnlyIfFull /\ InOrder /\ (~locked => left = 0)
  BY DEF Init, WindowBound, WaitOnlyIfFull, InOrder
<1>3. SlotsCounted
  BY DEF Init, SlotsCounted
<1>4. Accounting /\ Signaling
  BY DEF Init, Accounting, Signaling
<1> QED
  BY Zenon, <1>1, <1>2, <1>3, <1>4 DEF IInv
-----------------------------------------------------------------------------
(* Posting a work request *)

\* Count adds one to the window, and to the SENDs if it is one.
LEMMA CountTypes ==
  ASSUME TypeOK, Signaling, NEW op \in {"SEND", "WRITE"}, NEW signaled, Count(op, signaled)
  PROVE  /\ pending_msg' = pending_msg + 1
         /\ pending_send_msg' = pending_send_msg + (IF op = "SEND" THEN 1 ELSE 0)
         /\ to_signaled_send_msg' \in Nat /\ to_signaled_w_r_msg' \in Nat
         /\ inflight' \in Seq(Signaled)
<1> DEFINE send   == IF op = "SEND" THEN 1 ELSE 0
           sends  == pending_send_msg + send - to_signaled_send_msg
           others == pending_msg + 1 - (pending_send_msg + send) - to_signaled_w_r_msg
           wr     == [send |-> sends, w_r |-> others,
                      upto |-> [send |-> freed.send + to_signaled_send_msg + sends,
                                w_r |-> freed.w_r + to_signaled_w_r_msg + others]]
<1>1. sends \in Nat /\ others \in Nat
  BY DEF TypeOK, Signaling
<1>2. wr \in Signaled
  <2> HIDE DEF sends, others
  <2> QED BY SMTT(60), <1>1 DEF TypeOK, Signaled
<1>3. inflight' \in {inflight, Append(inflight, wr)}
  BY Zenon DEF Count
<1>4. inflight' \in Seq(Signaled)
  <2> HIDE DEF wr
  <2> QED BY SMTT(60), <1>2, <1>3 DEF TypeOK
<1>5. to_signaled_send_msg' \in Nat /\ to_signaled_w_r_msg' \in Nat
  BY SMTT(60), <1>1 DEF Count, TypeOK
<1> QED
  BY Zenon, <1>4, <1>5 DEF Count
\* Count signals in time.
LEMMA CountSignaling ==
  ASSUME TypeOK, Signaling, NEW op \in {"SEND", "WRITE"}, NEW signaled, Count(op, signaled)
  PROVE  Signaling'
BY SMTT(60), UnsignaledBound, RdmaAssumption DEF TypeOK, Signaling, Count, Signal

\* A signaled work request continues the chain of completions.
LEMMA CountAccounting ==
  ASSUME TypeOK, Signaling, Accounting, NEW op \in {"SEND", "WRITE"}, NEW signaled,
         Count(op, signaled), freed' = freed
  PROVE  Accounting'
<1> DEFINE send   == IF op = "SEND" THEN 1 ELSE 0
           sends  == pending_send_msg + send - to_signaled_send_msg
           others == pending_msg + 1 - (pending_send_msg + send) - to_signaled_w_r_msg
           wr     == [send |-> sends, w_r |-> others,
                      upto |-> [send |-> freed.send + to_signaled_send_msg + sends,
                                w_r |-> freed.w_r + to_signaled_w_r_msg + others]]
<1>1. sends \in Nat /\ others \in Nat
  BY DEF TypeOK, Signaling
<1>2. CASE /\ inflight' = inflight
           /\ to_signaled_send_msg' = to_signaled_send_msg
           /\ to_signaled_w_r_msg' = to_signaled_w_r_msg
  BY Zenon, <1>2 DEF Accounting
<1>3. CASE /\ inflight' = Append(inflight, wr)
           /\ to_signaled_send_msg' = to_signaled_send_msg + sends
           /\ to_signaled_w_r_msg' = to_signaled_w_r_msg + others
  <2> HIDE DEF sends, others
  <2> DEFINE n == Len(inflight)
             last == IF inflight = <<>> THEN freed ELSE inflight[n].upto
  <2>1. n \in Nat /\ (inflight = <<>> <=> n = 0) /\ \A i \in 1 .. n : inflight[i] \in Signaled
    BY DEF TypeOK
  <2>2. /\ Len(inflight') = n + 1
        /\ inflight'[n + 1] = wr
        /\ \A i \in 1 .. n : inflight'[i] = inflight[i]
        /\ inflight' # <<>>
    BY SMTT(60), <1>3, <2>1 DEF TypeOK
  <2>3. last.send = freed.send + to_signaled_send_msg /\ last.w_r = freed.w_r + to_signaled_w_r_msg
    BY Zenon DEF Accounting
  <2>4. \A i \in 1 .. n :
          LET before == IF i = 1 THEN freed ELSE inflight[i - 1].upto
          IN  /\ inflight[i].upto.send = before.send + inflight[i].send
              /\ inflight[i].upto.w_r = before.w_r + inflight[i].w_r
    BY Zenon DEF Accounting
  <2>5. \A i, j \in 1 .. n : i <= j =>
          /\ inflight[i].upto.send <= inflight[j].upto.send
          /\ inflight[i].upto.w_r <= inflight[j].upto.w_r
    BY Zenon DEF Accounting
  <2>6. /\ wr.upto.send = last.send + sends /\ wr.upto.w_r = last.w_r + others
        /\ wr.send = sends /\ wr.w_r = others
        /\ wr.upto.send = freed.send + to_signaled_send_msg'
        /\ wr.upto.w_r = freed.w_r + to_signaled_w_r_msg'
    <3>1. /\ wr.upto.send = freed.send + to_signaled_send_msg + sends
          /\ wr.upto.w_r = freed.w_r + to_signaled_w_r_msg + others
          /\ wr.send = sends /\ wr.w_r = others
      BY Zenon
    <3>2. freed.send \in Nat /\ freed.w_r \in Nat
      BY Zenon DEF TypeOK
    <3> HIDE DEF wr, last
    <3> QED BY SMTT(60), <1>1, <1>3, <2>3, <3>1, <3>2 DEF TypeOK
  <2>7. /\ last = (IF n = 0 THEN freed ELSE inflight[n].upto)
        /\ last.send \in Nat /\ last.w_r \in Nat
    <3>1. n # 0 => inflight[n] \in Signaled
      BY <2>1
    <3>2. n # 0 => inflight[n].upto \in [send : Nat, w_r : Nat]
      BY Zenon, <3>1 DEF Signaled
    <3>3. last \in [send : Nat, w_r : Nat]
      BY Zenon, <3>2, <2>1 DEF TypeOK
    <3> QED BY Zenon, <2>1, <3>3
  <2> HIDE DEF wr, last, n
  <2>8. \A i \in 1 .. n + 1 :
          LET before == IF i = 1 THEN freed ELSE inflight'[i - 1].upto
          IN  /\ inflight'[i].upto.send = before.send + inflight'[i].send
              /\ inflight'[i].upto.w_r = before.w_r + inflight'[i].w_r
    <3> TAKE i \in 1 .. n + 1
    <3>1. CASE i = n + 1
      BY <3>1, <2>1, <2>2, <2>6, <2>7
    <3>2. CASE i # n + 1
      <4>1. i \in 1 .. n /\ (i # 1 => i - 1 \in 1 .. n)
        BY <3>2, <2>1
      <4> QED BY Zenon, <4>1, <2>2, <2>4
    <3> QED BY Zenon, <3>1, <3>2
  <2>9. \A i, j \in 1 .. n + 1 : i <= j =>
          /\ inflight'[i].upto.send <= inflight'[j].upto.send
          /\ inflight'[i].upto.w_r <= inflight'[j].upto.w_r
    <3> SUFFICES ASSUME NEW i \in 1 .. n + 1, NEW j \in 1 .. n + 1, i <= j
                 PROVE  /\ inflight'[i].upto.send <= inflight'[j].upto.send
                        /\ inflight'[i].upto.w_r <= inflight'[j].upto.w_r
      BY Zenon
    <3>1. CASE j \in 1 .. n
      <4>1. i \in 1 .. n
        BY <3>1, <2>1
      <4> QED BY Zenon, <3>1, <4>1, <2>2, <2>5
    <3>2. CASE j = n + 1 /\ i \in 1 .. n
      <4>1. /\ inflight[i].upto.send <= inflight[n].upto.send
            /\ inflight[i].upto.w_r <= inflight[n].upto.w_r
            /\ inflight[i].upto.send \in Nat /\ inflight[i].upto.w_r \in Nat
        BY <3>2, <2>1, <2>5 DEF Signaled
      <4>2. last = inflight[n].upto
        BY <3>2, <2>1, <2>7
      <4>3. last.send <= wr.upto.send /\ last.w_r <= wr.upto.w_r
        BY <2>6, <2>7, <1>1
      <4>4. wr.upto.send \in Nat /\ wr.upto.w_r \in Nat
        BY <2>6, <2>7, <1>1
      <4>5. inflight'[i] = inflight[i] /\ inflight'[j] = wr
        BY Zenon, <3>2, <2>2
      <4> QED BY <4>1, <4>2, <4>3, <4>4, <4>5, <2>7
    <3>3. CASE j = n + 1 /\ i = n + 1
      <4>1. wr.upto.send \in Nat /\ wr.upto.w_r \in Nat
        BY <2>6, <2>7, <1>1
      <4>2. inflight'[i] = wr /\ inflight'[j] = wr
        BY Zenon, <3>3, <2>2
      <4> QED BY <4>1, <4>2
    <3> QED BY <3>1, <3>2, <3>3, <2>1
  <2> QED
    BY Zenon, <2>1, <2>2, <2>6, <2>8, <2>9 DEF Accounting
<1> QED
  BY Zenon, <1>2, <1>3 DEF Count
-----------------------------------------------------------------------------
(* The ring of slots *)

\* There are as many free slots as the SENDs in use leave.
LEMMA AvailSlots ==
  ASSUME TypeOK, SlotsCounted, pending_send_msg <= max_pending_msg
  PROVE  Avail = max_pending_msg - pending_send_msg
<1>1. CASE full
  BY <1>1, RdmaAssumption DEF TypeOK, SlotsCounted, Avail, Minus
<1>2. CASE ~full
  BY <1>2, RdmaAssumption DEF TypeOK, SlotsCounted, Avail, Minus
<1> QED BY Zenon, <1>1, <1>2

\* Taking a slot for one more SEND.
LEMMA TakeSlot ==
  ASSUME TypeOK, SlotsCounted, pending_send_msg < max_pending_msg, GetFreeSlot_,
         pending_send_msg' = pending_send_msg + 1
  PROVE  /\ SlotsCounted'
         /\ slot_head' \in 0 .. max_pending_msg - 1 /\ slot_tail' \in 0 .. max_pending_msg - 1
         /\ full' \in BOOLEAN
<1> USE RdmaAssumption
<1>1. slot_head' \in 0 .. max_pending_msg - 1 /\ slot_tail' \in 0 .. max_pending_msg - 1
  BY DEF TypeOK, GetFreeSlot_, NextSlot
<1>2. slot_head' = (IF slot_tail' + pending_send_msg' < max_pending_msg
                    THEN slot_tail' + pending_send_msg'
                    ELSE slot_tail' + pending_send_msg' - max_pending_msg)
  BY DEF TypeOK, SlotsCounted, GetFreeSlot_, NextSlot
<1>3. ~full
  BY DEF TypeOK, SlotsCounted
<1>4. NextSlot(slot_head) = slot_tail <=> pending_send_msg' = max_pending_msg
  BY DEF TypeOK, SlotsCounted, NextSlot
<1>5. full' <=> pending_send_msg' = max_pending_msg
  BY Zenon, <1>3, <1>4 DEF GetFreeSlot_
<1>6. full' \in BOOLEAN
  BY Zenon DEF GetFreeSlot_
<1> QED BY Zenon, <1>1, <1>2, <1>5, <1>6 DEF SlotsCounted

\* Giving the slots of n SENDs back.
LEMMA FreeSlots ==
  ASSUME TypeOK, SlotsCounted, pending_send_msg <= max_pending_msg,
         NEW n \in 0 .. pending_send_msg, slot_tail' = AdvanceTail(n), slot_head' = slot_head,
         full' = (full /\ n = 0), pending_send_msg' = pending_send_msg - n
  PROVE  /\ SlotsCounted'
         /\ slot_head' \in 0 .. max_pending_msg - 1 /\ slot_tail' \in 0 .. max_pending_msg - 1
         /\ full' \in BOOLEAN
<1> USE RdmaAssumption
<1>1. slot_head' \in 0 .. max_pending_msg - 1 /\ slot_tail' \in 0 .. max_pending_msg - 1
  BY DEF TypeOK, AdvanceTail
<1>2. slot_head' = (IF slot_tail' + pending_send_msg' < max_pending_msg
                    THEN slot_tail' + pending_send_msg'
                    ELSE slot_tail' + pending_send_msg' - max_pending_msg)
  BY DEF TypeOK, SlotsCounted, AdvanceTail
<1>3. pending_send_msg' = max_pending_msg <=> pending_send_msg = max_pending_msg /\ n = 0
  BY DEF TypeOK
<1>4. full' <=> pending_send_msg' = max_pending_msg
  BY Zenon, <1>3 DEF SlotsCounted
<1> QED BY Zenon, <1>1, <1>2, <1>4 DEF SlotsCounted
-----------------------------------------------------------------------------
(* Completions *)

\* A completion gives back no more than has been signaled.
LEMMA CompletionBound ==
  ASSUME TypeOK, Accounting, inflight # <<>>
  PROVE  LET wr == Head(inflight)
         IN  /\ wr = inflight[1] /\ wr \in Signaled
             /\ wr.send \in Nat /\ wr.w_r \in Nat /\ wr.upto \in [send : Nat, w_r : Nat]
             /\ wr.upto.send = freed.send + wr.send /\ wr.upto.w_r = freed.w_r + wr.w_r
             /\ wr.send <= to_signaled_send_msg /\ wr.w_r <= to_signaled_w_r_msg
<1> DEFINE n == Len(inflight)
           wr == inflight[1]
           lst == inflight[n]
<1>1. n \in Nat \ {0} /\ wr = Head(inflight) /\ wr \in Signaled /\ lst \in Signaled
  BY DEF TypeOK
<1>2. 1 \in 1 .. n /\ n \in 1 .. n
  BY <1>1
<1>3. /\ wr.send \in Nat /\ wr.w_r \in Nat /\ wr.upto \in [send : Nat, w_r : Nat]
      /\ lst.upto \in [send : Nat, w_r : Nat] /\ freed \in [send : Nat, w_r : Nat]
  BY Zenon, <1>1 DEF Signaled, TypeOK
<1>4. wr.upto.send = freed.send + wr.send /\ wr.upto.w_r = freed.w_r + wr.w_r
  BY Zenon, <1>2 DEF Accounting
<1>5. wr.upto.send <= lst.upto.send /\ wr.upto.w_r <= lst.upto.w_r
  BY <1>1, <1>2 DEF Accounting
<1>6. /\ lst.upto.send = freed.send + to_signaled_send_msg
      /\ lst.upto.w_r = freed.w_r + to_signaled_w_r_msg
  BY Zenon DEF Accounting
<1>7. /\ wr.upto.send \in Nat /\ wr.upto.w_r \in Nat /\ lst.upto.send \in Nat
      /\ lst.upto.w_r \in Nat /\ freed.send \in Nat /\ freed.w_r \in Nat
      /\ wr.send \in Nat /\ wr.w_r \in Nat
      /\ to_signaled_send_msg \in Nat /\ to_signaled_w_r_msg \in Nat
  BY Zenon, <1>3 DEF TypeOK
<1> HIDE DEF wr, lst, n
<1>8. \A u, l, f, k, m \in Nat : u = f + k /\ u <= l /\ l = f + m => k <= m
  OBVIOUS
<1>9. wr.send <= to_signaled_send_msg
  BY Zenon, <1>4, <1>5, <1>6, <1>7, <1>8
<1>10. wr.w_r <= to_signaled_w_r_msg
  BY Zenon, <1>4, <1>5, <1>6, <1>7, <1>8
<1> QED
  BY Zenon, <1>1, <1>3, <1>4, <1>9, <1>10 DEF wr

\* The rest of the chain starts from what has been given back by then.
LEMMA CompletionAccounting ==
  ASSUME TypeOK, Accounting, SendComp
  PROVE  Accounting' /\ inflight' \in Seq(Signaled)
<1> DEFINE n == Len(inflight)
           wr == inflight[1]
<1>1. /\ inflight # <<>> /\ inflight' = Tail(inflight) /\ freed' = Head(inflight).upto
      /\ to_signaled_send_msg' = to_signaled_send_msg - Head(inflight).send
      /\ to_signaled_w_r_msg' = to_signaled_w_r_msg - Head(inflight).w_r
  BY Zenon DEF SendComp
<1>2. /\ wr = Head(inflight) /\ wr.send \in Nat /\ wr.w_r \in Nat
      /\ wr.upto \in [send : Nat, w_r : Nat]
      /\ wr.upto.send = freed.send + wr.send /\ wr.upto.w_r = freed.w_r + wr.w_r
  BY Zenon, <1>1, CompletionBound
<1>3. /\ n \in Nat \ {0} /\ inflight' \in Seq(Signaled) /\ Len(inflight') = n - 1
      /\ \A i \in 1 .. n - 1 : inflight'[i] = inflight[i + 1]
      /\ inflight' = <<>> <=> n = 1
  <2>1. n \in Nat \ {0}
    BY <1>1 DEF TypeOK
  <2>2. inflight' \in Seq(Signaled) /\ Len(inflight') = n - 1
    BY <1>1 DEF TypeOK
  <2>3. \A i \in 1 .. n - 1 : inflight'[i] = inflight[i + 1]
    BY <1>1 DEF TypeOK
  <2>4. inflight' = <<>> <=> Len(inflight') = 0
    BY SMTT(60), <2>2
  <2> QED BY <2>1, <2>2, <2>3, <2>4
<1>4. \A i \in 1 .. n - 1 :
        LET before == IF i = 1 THEN freed' ELSE inflight'[i - 1].upto
        IN  /\ inflight'[i].upto.send = before.send + inflight'[i].send
            /\ inflight'[i].upto.w_r = before.w_r + inflight'[i].w_r
  <2> TAKE i \in 1 .. n - 1
  <2>1. i + 1 \in 1 .. n /\ i + 1 # 1 /\ (i + 1) - 1 = i
    BY <1>3
  <2>2. /\ inflight[i + 1].upto.send = inflight[i].upto.send + inflight[i + 1].send
        /\ inflight[i + 1].upto.w_r = inflight[i].upto.w_r + inflight[i + 1].w_r
    BY Zenon, <2>1 DEF Accounting
  <2>3. inflight[i].upto = (IF i = 1 THEN freed' ELSE inflight'[i - 1].upto)
    <3>1. CASE i = 1
      BY Zenon, <3>1, <1>1, <1>2
    <3>2. CASE i # 1
      <4>1. i - 1 \in 1 .. n - 1 /\ (i - 1) + 1 = i
        BY <3>2, <1>3
      <4> QED BY Zenon, <3>2, <4>1, <1>3
    <3> QED BY Zenon, <3>1, <3>2
  <2> QED BY Zenon, <2>2, <2>3, <1>3
<1>5. \A i, j \in 1 .. n - 1 : i <= j =>
        /\ inflight'[i].upto.send <= inflight'[j].upto.send
        /\ inflight'[i].upto.w_r <= inflight'[j].upto.w_r
  <2> SUFFICES ASSUME NEW i \in 1 .. n - 1, NEW j \in 1 .. n - 1, i <= j
               PROVE  /\ inflight'[i].upto.send <= inflight'[j].upto.send
                      /\ inflight'[i].upto.w_r <= inflight'[j].upto.w_r
    BY Zenon
  <2>1. i + 1 \in 1 .. n /\ j + 1 \in 1 .. n /\ i + 1 <= j + 1
    BY <1>3
  <2> QED BY Zenon, <2>1, <1>3 DEF Accounting
<1>6. LET last == IF inflight' = <<>> THEN freed' ELSE inflight'[n - 1].upto
      IN  /\ last.send = freed'.send + to_signaled_send_msg'
          /\ last.w_r = freed'.w_r + to_signaled_w_r_msg'
  <2>1. inflight[n].upto = (IF inflight' = <<>> THEN freed' ELSE inflight'[n - 1].upto)
    <3>1. CASE n = 1
      BY Zenon, <3>1, <1>1, <1>2, <1>3
    <3>2. CASE n # 1
      <4>1. n - 1 \in 1 .. n - 1 /\ (n - 1) + 1 = n
        BY <3>2, <1>3
      <4> QED BY Zenon, <3>2, <4>1, <1>3
    <3> QED BY Zenon, <3>1, <3>2
  <2>2. /\ inflight[n].upto.send = freed.send + to_signaled_send_msg
        /\ inflight[n].upto.w_r = freed.w_r + to_signaled_w_r_msg
    BY Zenon, <1>1 DEF Accounting
  <2>3. /\ freed.send \in Nat /\ freed.w_r \in Nat
        /\ to_signaled_send_msg \in Nat /\ to_signaled_w_r_msg \in Nat
        /\ wr.send \in Nat /\ wr.w_r \in Nat
    BY Zenon, <1>2 DEF TypeOK
  <2>4. freed'.send = freed.send + wr.send /\ freed'.w_r = freed.w_r + wr.w_r
    BY Zenon, <1>1, <1>2
  <2>5. /\ to_signaled_send_msg' = to_signaled_send_msg - wr.send
        /\ to_signaled_w_r_msg' = to_signaled_w_r_msg - wr.w_r
    BY Zenon, <1>1, <1>2
  <2> HIDE DEF wr
  <2>6. /\ freed'.send + to_signaled_send_msg' = freed.send + to_signaled_send_msg
        /\ freed'.w_r + to_signaled_w_r_msg' = freed.w_r + to_signaled_w_r_msg
    BY <2>3, <2>4, <2>5
  <2> QED BY Zenon, <2>1, <2>2, <2>6
<1> QED
  BY Zenon, <1>3, <1>4, <1>5, <1>6 DEF Accounting
-----------------------------------------------------------------------------
(* The queue *)

\* A request that is queued comes after all others.
LEMMA EnqueueOrder ==
  ASSUME TypeOK, InOrder, NEW op \in {"SEND", "WRITE"}, NEW signaled \in BOOLEAN,
         submitted' = submitted + 1, posted' = posted,
         pending_requests' =
           Append(pending_requests, [id |-> submitted + 1, op |-> op, signaled |-> signaled])
  PROVE  InOrder' /\ pending_requests' \in Seq(Request)
<1> DEFINE r == [id |-> submitted + 1, op |-> op, signaled |-> signaled]
<1>1. r \in Request /\ r.id = submitted + 1
  BY DEF TypeOK, Request
<1> HIDE DEF r
<1>2. pending_requests' = Append(pending_requests, r)
  BY Zenon DEF r
<1>3. pending_requests \in Seq(Request)
  BY Zenon DEF TypeOK
<1>4. /\ pending_requests' \in Seq(Request)
      /\ Len(pending_requests') = Len(pending_requests) + 1
      /\ pending_requests'[Len(pending_requests) + 1] = r
      /\ \A i \in 1 .. Len(pending_requests) : pending_requests'[i] = pending_requests[i]
  BY <1>1, <1>2, <1>3
<1>5. submitted' = posted' + Len(pending_requests')
  BY <1>4 DEF TypeOK, InOrder
<1>6. \A i \in 1 .. Len(pending_requests') : pending_requests'[i].id = posted' + i
  <2> TAKE i \in 1 .. Len(pending_requests')
  <2>1. CASE i \in 1 .. Len(pending_requests)
    BY Zenon, <2>1, <1>4 DEF InOrder
  <2>2. CASE i = Len(pending_requests) + 1
    BY <2>2, <1>1, <1>4 DEF TypeOK, InOrder
  <2> QED BY <2>1, <2>2, <1>3, <1>4
<1> QED BY Zenon, <1>4, <1>5, <1>6 DEF InOrder

\* The loop takes the request that is next.
LEMMA DequeueOrder ==
  ASSUME TypeOK, InOrder, pending_requests # <<>>, Dequeue
  PROVE  /\ InOrder' /\ pending_requests' \in Seq(Request)
         /\ posted' = posted + 1
         /\ Head(pending_requests) \in Request
<1>1. /\ pending_requests \in Seq(Request) /\ posted \in Nat
      /\ Len(pending_requests) \in Nat \ {0}
      /\ Head(pending_requests) = pending_requests[1]
  BY DEF TypeOK
<1>2. posted' = posted + 1
  BY <1>1 DEF InOrder, Dequeue
<1>3. /\ pending_requests' \in Seq(Request)
      /\ Len(pending_requests') = Len(pending_requests) - 1
      /\ \A i \in 1 .. Len(pending_requests) - 1 : pending_requests'[i] = pending_requests[i + 1]
  BY <1>1 DEF Dequeue
<1>4. submitted' = posted' + Len(pending_requests')
  BY <1>1, <1>2, <1>3 DEF InOrder, Dequeue
<1>5. \A i \in 1 .. Len(pending_requests') : pending_requests'[i].id = posted' + i
  <2> TAKE i \in 1 .. Len(pending_requests')
  <2>1. i + 1 \in 1 .. Len(pending_requests) /\ pending_requests'[i] = pending_requests[i + 1]
    BY <1>1, <1>3
  <2>2. pending_requests[i + 1].id = posted + (i + 1)
    BY Zenon, <2>1 DEF InOrder
  <2> QED BY <2>1, <2>2, <1>1, <1>2
<1>6. Head(pending_requests) \in Request
  BY <1>1
<1> QED BY Zenon, <1>2, <1>3, <1>4, <1>5, <1>6 DEF InOrder
-----------------------------------------------------------------------------
(* Every step keeps the invariant *)

\* With room in the window nothing waits, so that a request may be posted at once.
LEMMA NothingWaits ==
  ASSUME IInv, ~locked, ~WindowFull
  PROVE  /\ pending_requests = <<>> /\ submitted = posted /\ left = 0
         /\ pending_send_msg < max_pending_msg
<1>1. left = 0 /\ pending_msg < max_pending_msg /\ pending_msg \in Nat
  BY RdmaAssumption DEF IInv, TypeOK, WindowFull
<1>2. pending_requests = <<>>
  BY <1>1, RdmaAssumption DEF IInv, WaitOnlyIfFull
<1>3. submitted = posted
  BY <1>2 DEF IInv, InOrder, TypeOK
<1>4. pending_send_msg < max_pending_msg
  BY <1>1, RdmaAssumption DEF IInv, TypeOK, Signaling
<1> QED BY Zenon, <1>1, <1>2, <1>3, <1>4

\* A full window queues the request.
LEMMA EnqueueStep ==
  ASSUME IInv, WindowFull, ~locked, NEW op \in {"SEND", "WRITE"}, NEW signaled \in BOOLEAN,
         submitted' = submitted + 1, UNCHANGED <<loop, freed>>,
         Enqueue([id |-> submitted + 1, op |-> op, signaled |-> signaled])
  PROVE  IInv'
<1>1. /\ UNCHANGED <<counters, ring, loop, posted, freed>>
      /\ pending_requests' =
           Append(pending_requests, [id |-> submitted + 1, op |-> op, signaled |-> signaled])
  BY Zenon DEF Enqueue
<1>2. InOrder' /\ pending_requests' \in Seq(Request)
  BY Zenon, <1>1, EnqueueOrder DEF IInv
<1>3. TypeOK'
  BY <1>1, <1>2 DEF IInv, TypeOK, counters, ring, loop
<1>4. pending_msg = max_pending_msg /\ left = 0
  BY RdmaAssumption DEF IInv, WindowBound, WindowFull, TypeOK
<1>5. WindowBound' /\ WaitOnlyIfFull' /\ Signaling' /\ (~locked' => left' = 0)
  BY SMTT(60), <1>1, <1>4, RdmaAssumption
     DEF IInv, WindowBound, WaitOnlyIfFull, Signaling, counters, loop
<1>6. SlotsCounted' /\ Accounting'
  BY ZenonT(60), <1>1 DEF IInv, SlotsCounted, Accounting, counters, ring
<1> QED BY Zenon, <1>2, <1>3, <1>5, <1>6 DEF IInv

\* A work request with (SEND) or without a slot is posted at once.
LEMMA PostStep ==
  ASSUME IInv, ~locked, ~WindowFull, NEW op \in {"SEND", "WRITE"}, NEW signaled \in BOOLEAN,
         IF op = "SEND" THEN GetFreeSlot_ ELSE UNCHANGED ring,
         Count(op, signaled), submitted' = submitted + 1, posted' = submitted + 1,
         UNCHANGED <<pending_requests, loop, freed>>
  PROVE  IInv'
<1>1. TypeOK /\ Signaling /\ Accounting /\ SlotsCounted
  BY Zenon DEF IInv
<1>2. /\ pending_requests = <<>> /\ submitted = posted /\ left = 0
      /\ pending_send_msg < max_pending_msg
  BY Zenon, NothingWaits
<1>3. /\ pending_msg' = pending_msg + 1
      /\ pending_send_msg' = pending_send_msg + (IF op = "SEND" THEN 1 ELSE 0)
      /\ to_signaled_send_msg' \in Nat /\ to_signaled_w_r_msg' \in Nat
      /\ inflight' \in Seq(Signaled)
  BY Zenon, <1>1, CountTypes
<1>4. /\ SlotsCounted'
      /\ slot_head' \in 0 .. max_pending_msg - 1 /\ slot_tail' \in 0 .. max_pending_msg - 1
      /\ full' \in BOOLEAN
  <2>1. CASE op = "SEND"
    BY Zenon, <2>1, <1>1, <1>2, <1>3, TakeSlot
  <2>2. CASE op = "WRITE"
    <3>1. pending_send_msg' = pending_send_msg /\ UNCHANGED ring
      BY <2>2, <1>1, <1>3 DEF TypeOK
    <3> QED BY Zenon, <3>1, <1>1 DEF SlotsCounted, TypeOK, ring
  <2> QED BY Zenon, <2>1, <2>2
<1>5. Signaling' /\ Accounting'
  BY Zenon, <1>1, CountSignaling, CountAccounting
<1>6. InOrder'
  BY <1>1, <1>2 DEF InOrder, TypeOK
<1>7. WindowBound' /\ WaitOnlyIfFull' /\ (~locked' => left' = 0)
  BY <1>1, <1>2, <1>3, RdmaAssumption
     DEF WindowBound, WaitOnlyIfFull, WindowFull, TypeOK, loop
<1>8. TypeOK'
  BY <1>1, <1>3, <1>4 DEF TypeOK, loop
<1> QED BY Zenon, <1>4, <1>5, <1>6, <1>7, <1>8 DEF IInv
\* Send keeps the invariant.
LEMMA SendStep == IInv /\ Send => IInv'
<1> SUFFICES ASSUME IInv, Send PROVE IInv'
  BY Zenon
<1>1. CASE WindowFull
  BY Zenon, <1>1, EnqueueStep DEF Send
<1>2. CASE ~WindowFull
  <2>1. ~locked
    BY Zenon DEF Send
  <2>2. pending_send_msg < max_pending_msg
    BY Zenon, <1>2, <2>1, NothingWaits
  <2>3. Avail > 0
    BY <2>2, AvailSlots, RdmaAssumption DEF IInv, TypeOK
  <2>4. /\ GetFreeSlot_ /\ Count("SEND", FALSE)
        /\ submitted' = submitted + 1 /\ posted' = submitted + 1
        /\ UNCHANGED <<pending_requests, loop, freed>>
    BY Zenon, <1>2, <2>3 DEF Send
  <2> QED BY Zenon, <1>2, <2>1, <2>4, PostStep
<1> QED BY Zenon, <1>1, <1>2

\* So do Write and WriteWithImm.
LEMMA WriteStep == ASSUME NEW signaled \in BOOLEAN PROVE IInv /\ WriteWithImm(signaled) => IInv'
<1> SUFFICES ASSUME IInv, WriteWithImm(signaled) PROVE IInv'
  BY Zenon
<1>1. CASE WindowFull
  BY Zenon, <1>1, EnqueueStep DEF WriteWithImm
<1>2. CASE ~WindowFull
  <2>1. /\ ~locked /\ UNCHANGED ring /\ Count("WRITE", signaled)
        /\ submitted' = submitted + 1 /\ posted' = submitted + 1
        /\ UNCHANGED <<pending_requests, loop, freed>>
    BY Zenon, <1>2 DEF WriteWithImm
  <2> QED BY Zenon, <1>2, <2>1, PostStep
<1> QED BY Zenon, <1>1, <1>2

\* SendComp gives back what the signaled work request accounts for.
LEMMA SendCompStep == IInv /\ SendComp => IInv'
<1> SUFFICES ASSUME IInv, SendComp PROVE IInv'
  BY Zenon
<1> DEFINE wr == Head(inflight)
<1>1. TypeOK /\ Signaling /\ Accounting /\ SlotsCounted /\ ~locked /\ left = 0 /\ inflight # <<>>
  BY Zenon DEF IInv, SendComp
<1>2. wr.upto \in [send : Nat, w_r : Nat]
  BY Zenon, <1>1, CompletionBound
<1>3. /\ wr.send \in Nat /\ wr.w_r \in Nat
      /\ wr.send <= to_signaled_send_msg /\ wr.w_r <= to_signaled_w_r_msg
  BY Zenon, <1>1, CompletionBound
<1>4. /\ pending_msg' = pending_msg - (wr.send + wr.w_r)
      /\ pending_send_msg' = pending_send_msg - wr.send
      /\ to_signaled_send_msg' = to_signaled_send_msg - wr.send
      /\ to_signaled_w_r_msg' = to_signaled_w_r_msg - wr.w_r
      /\ slot_tail' = AdvanceTail(wr.send) /\ full' = (full /\ wr.send = 0)
      /\ freed' = wr.upto /\ locked' = TRUE /\ left' = wr.send + wr.w_r /\ prev_op' = "NONE"
      /\ UNCHANGED <<slot_head, pending_requests, submitted, posted>>
  BY Zenon DEF SendComp, RoomFor
<1> HIDE DEF wr
<1>5. /\ pending_msg \in Nat /\ pending_send_msg \in Nat
      /\ to_signaled_send_msg \in Nat /\ to_signaled_w_r_msg \in Nat
      /\ to_signaled_send_msg <= pending_send_msg
      /\ pending_send_msg + to_signaled_w_r_msg <= pending_msg
      /\ pending_msg < to_signaled_send_msg + to_signaled_w_r_msg + max_unsignaled_msg
  BY Zenon, <1>1 DEF TypeOK, Signaling
<1>6. /\ pending_msg' = pending_msg - (wr.send + wr.w_r)
      /\ pending_send_msg' = pending_send_msg - wr.send
      /\ to_signaled_send_msg' = to_signaled_send_msg - wr.send
      /\ to_signaled_w_r_msg' = to_signaled_w_r_msg - wr.w_r
      /\ left' = wr.send + wr.w_r
  BY Zenon, <1>4
<1>7. Accounting' /\ inflight' \in Seq(Signaled)
  BY Zenon, <1>1, CompletionAccounting
<1>8. /\ pending_msg' \in Nat /\ pending_send_msg' \in Nat /\ to_signaled_send_msg' \in Nat
      /\ to_signaled_w_r_msg' \in Nat /\ left' \in Nat /\ pending_msg' + left' = pending_msg
      /\ wr.send \in 0 .. pending_send_msg /\ pending_send_msg <= max_pending_msg
  <2>1. pending_send_msg <= pending_msg /\ pending_msg <= max_pending_msg
    BY <1>1, RdmaAssumption DEF IInv, WindowBound, TypeOK, Signaling
  <2> QED BY <1>5, <1>3, <1>6, <2>1, RdmaAssumption
<1>9. Signaling'
  BY <1>5, <1>3, <1>6, UnsignaledBound, RdmaAssumption DEF Signaling
<1>10. /\ SlotsCounted'
      /\ slot_head' \in 0 .. max_pending_msg - 1 /\ slot_tail' \in 0 .. max_pending_msg - 1
      /\ full' \in BOOLEAN
  BY Zenon, <1>1, <1>4, <1>8, FreeSlots
<1>11. TypeOK'
  BY Zenon, <1>2, <1>1, <1>4, <1>7, <1>8, <1>10 DEF TypeOK
<1>12. WindowBound' /\ WaitOnlyIfFull'
  <2>1. left = 0 /\ pending_msg \in Nat /\ pending_msg' + left' = pending_msg
    BY Zenon, <1>1, <1>5, <1>8
  <2>2. pending_msg' + left' = pending_msg + left
    BY <2>1
  <2> QED BY Zenon, <2>2, <1>4 DEF IInv, WindowBound, WaitOnlyIfFull
<1>13. InOrder' /\ (~locked' => left' = 0)
  BY Zenon, <1>4 DEF IInv, InOrder
<1> QED BY Zenon, <1>7, <1>9, <1>10, <1>11, <1>12, <1>13 DEF IInv
\* A request that is merged into the SEND before it (ProcessPendingRequests).
LEMMA MergeStep == IInv /\ MergeRequest => IInv'
<1> SUFFICES ASSUME IInv, MergeRequest PROVE IInv'
  BY Zenon
<1>1. /\ TypeOK /\ InOrder /\ pending_requests # <<>> /\ Dequeue
      /\ UNCHANGED <<counters, slot_head, slot_tail, full, left, prev_op, locked, freed, submitted>>
  BY Zenon DEF IInv, MergeRequest, Dequeue
<1>2. InOrder' /\ pending_requests' \in Seq(Request) /\ posted' = posted + 1
  BY Zenon, <1>1, DequeueOrder
<1>3. TypeOK'
  BY <1>1, <1>2 DEF TypeOK, counters
<1>4. WindowBound' /\ WaitOnlyIfFull' /\ (~locked' => left' = 0)
  BY Zenon, <1>1 DEF IInv, WindowBound, WaitOnlyIfFull, counters
<1>5. SlotsCounted' /\ Signaling' /\ Accounting'
  BY Zenon, <1>1 DEF IInv, SlotsCounted, Signaling, Accounting, counters
<1> QED BY Zenon, <1>2, <1>3, <1>4, <1>5 DEF IInv

\* A queued request that becomes a work request (ProcessPendingRequests).
LEMMA PostRequestStep == IInv /\ PostRequest => IInv'
<1> SUFFICES ASSUME IInv, PostRequest PROVE IInv'
  BY Zenon
<1> DEFINE r == Head(pending_requests)
<1>1. /\ TypeOK /\ InOrder /\ Signaling /\ Accounting /\ SlotsCounted
      /\ pending_requests # <<>> /\ Dequeue
      /\ UNCHANGED <<locked, freed, submitted>> /\ left' = left - 1
      /\ IF r.op = "SEND" THEN GetFreeSlot_ ELSE UNCHANGED ring
      /\ Count(r.op, r.signaled) /\ prev_op' = r.op
  BY Zenon DEF IInv, PostRequest, Dequeue
<1>2. locked /\ left > 0 /\ left \in Nat /\ pending_msg \in Nat /\ pending_send_msg \in Nat
  BY Zenon DEF IInv, TypeOK, PostRequest
<1>3. /\ InOrder' /\ pending_requests' \in Seq(Request) /\ posted' = posted + 1
      /\ r \in Request
  BY Zenon, <1>1, DequeueOrder
<1>4. r.op \in {"SEND", "WRITE"}
  BY Zenon, <1>3 DEF Request
<1> HIDE DEF r
<1>5. pending_msg + left = max_pending_msg
  BY Zenon, <1>1 DEF IInv, WaitOnlyIfFull
<1>6. pending_send_msg < max_pending_msg
  <2>1. pending_send_msg <= pending_msg
    BY <1>1 DEF TypeOK, Signaling
  <2> QED BY <1>2, <1>5, <2>1, RdmaAssumption
<1>7. /\ pending_msg' = pending_msg + 1
      /\ pending_send_msg' = pending_send_msg + (IF r.op = "SEND" THEN 1 ELSE 0)
      /\ to_signaled_send_msg' \in Nat /\ to_signaled_w_r_msg' \in Nat
      /\ inflight' \in Seq(Signaled)
  BY Zenon, <1>1, <1>4, CountTypes
<1>8. /\ SlotsCounted'
      /\ slot_head' \in 0 .. max_pending_msg - 1 /\ slot_tail' \in 0 .. max_pending_msg - 1
      /\ full' \in BOOLEAN
  <2>1. CASE r.op = "SEND"
    BY Zenon, <2>1, <1>1, <1>6, <1>7, TakeSlot
  <2>2. CASE r.op = "WRITE"
    <3>1. pending_send_msg' = pending_send_msg /\ UNCHANGED ring
      BY <2>2, <1>1, <1>2, <1>7
    <3> QED BY Zenon, <3>1, <1>1 DEF SlotsCounted, TypeOK, ring
  <2> QED BY Zenon, <2>1, <2>2, <1>4
<1>9. Signaling' /\ Accounting'
  BY Zenon, <1>1, <1>4, CountSignaling, CountAccounting
<1>10. WindowBound' /\ WaitOnlyIfFull'
  <2>1. pending_msg' + left' = pending_msg + left
    BY <1>1, <1>2, <1>7
  <2> QED BY <2>1, <1>5, RdmaAssumption DEF WindowBound, WaitOnlyIfFull
<1>11. ~locked' => left' = 0
  BY Zenon, <1>1, <1>2
<1>12. pending_msg' \in Nat /\ pending_send_msg' \in Nat /\ left' \in Nat
  BY <1>1, <1>2, <1>7
<1>13. prev_op' \in {"NONE", "SEND", "WRITE"} /\ posted' \in Nat /\ submitted' \in Nat
  BY <1>1, <1>3, <1>4 DEF TypeOK
<1>14. TypeOK'
  BY Zenon, <1>1, <1>3, <1>7, <1>8, <1>12, <1>13 DEF TypeOK
<1> QED BY Zenon, <1>3, <1>8, <1>9, <1>10, <1>11, <1>14 DEF IInv

\* The loop of ProcessPendingRequests ends.
LEMMA EndStep == IInv /\ EndRequests => IInv'
<1> SUFFICES ASSUME IInv, EndRequests PROVE IInv'
  BY Zenon
<1>1. /\ UNCHANGED <<counters, ring, pending_requests, submitted, posted, freed>>
      /\ locked' = FALSE /\ left' = 0 /\ prev_op' = "NONE"
      /\ pending_requests = <<>> \/ left = 0
  BY Zenon DEF EndRequests
<1>2. TypeOK'
  BY Zenon, <1>1 DEF IInv, TypeOK, counters, ring
<1>3. pending_msg' = pending_msg /\ pending_msg \in Nat /\ left \in Nat
  BY Zenon, <1>1 DEF IInv, TypeOK, counters
<1>4. WindowBound'
  BY <1>1, <1>3, RdmaAssumption DEF IInv, WindowBound
<1>5. WaitOnlyIfFull'
  BY Zenon, <1>1, <1>3 DEF IInv, WaitOnlyIfFull
<1>6. SlotsCounted' /\ Signaling' /\ Accounting' /\ InOrder'
  BY Zenon, <1>1 DEF IInv, SlotsCounted, Signaling, Accounting, InOrder, counters, ring
<1> QED BY Zenon, <1>1, <1>2, <1>4, <1>5, <1>6 DEF IInv

\* Every step keeps the invariant.
LEMMA NextIInv == IInv /\ [Next]_vars => IInv'
<1> SUFFICES ASSUME IInv, [Next]_vars PROVE IInv'
  BY Zenon
<1>1. CASE Send
  BY Zenon, <1>1, SendStep
<1>2. CASE \E signaled \in BOOLEAN : WriteWithImm(signaled)
  BY Zenon, <1>2, WriteStep
<1>3. CASE SendComp
  BY Zenon, <1>3, SendCompStep
<1>4. CASE MergeRequest
  BY Zenon, <1>4, MergeStep
<1>5. CASE PostRequest
  BY Zenon, <1>5, PostRequestStep
<1>6. CASE EndRequests
  BY Zenon, <1>6, EndStep
<1>7. CASE UNCHANGED vars
  <2>1. UNCHANGED <<counters, ring, loop, pending_requests, submitted, posted, freed>>
    BY Zenon, <1>7 DEF vars
  <2> QED
    BY Zenon, <2>1 DEF IInv, TypeOK, WindowBound, SlotsCounted, WaitOnlyIfFull, Accounting, Signaling,
                InOrder, counters, ring, loop
<1> QED
  BY Zenon, <1>1, <1>2, <1>3, <1>4, <1>5, <1>6, <1>7 DEF Next, ProcessPendingRequests
-----------------------------------------------------------------------------
(* The theorems *)

\* The counters, the ring, the window and the queue of a context agree in every
\* reachable state.
THEOREM ContextInvariant == Spec => []IInv
BY InitIInv, NextIInv, PTL DEF Spec

\* No slot is used for two SENDs at a time (GetFreeSlot_, SendComp).
THEOREM SlotsAreCounted == Spec => []SlotsCounted
<1>1. IInv => SlotsCounted
  BY Zenon DEF IInv
<1> QED BY <1>1, ContextInvariant, PTL

\* Whenever the window has room there is a slot for a SEND: the loop is "guaranteed
\* to get a free slot" (rdma.cc:790) and Rdma never posts an unregistered buffer.
THEOREM SlotIsGuaranteed == Spec => []SlotGuaranteed
<1>1. IInv => SlotGuaranteed
  <2> SUFFICES ASSUME IInv, ~WindowFull PROVE Avail > 0
    BY Zenon DEF SlotGuaranteed
  <2>1. pending_send_msg < max_pending_msg
    BY RdmaAssumption DEF IInv, TypeOK, Signaling, WindowFull
  <2> QED
    BY <2>1, AvailSlots, RdmaAssumption DEF IInv, TypeOK
<1> QED BY <1>1, ContextInvariant, PTL

\* While a request waits in pending_requests, a completion that will run
\* ProcessPendingRequests is under way.
THEOREM QueueNeverStalls == Spec => []NoStall
<1>1. IInv => NoStall
  <2> SUFFICES ASSUME IInv, ~locked, pending_requests # <<>>, inflight = <<>> PROVE FALSE
    BY Zenon DEF NoStall
  <2>1. pending_msg = max_pending_msg
    BY RdmaAssumption DEF IInv, TypeOK, WaitOnlyIfFull
  <2>2. to_signaled_send_msg = 0 /\ to_signaled_w_r_msg = 0
    <3>1. /\ freed.send = freed.send + to_signaled_send_msg
          /\ freed.w_r = freed.w_r + to_signaled_w_r_msg
      BY Zenon DEF IInv, Accounting
    <3> QED BY <3>1 DEF IInv, TypeOK
  <2> QED
    BY <2>1, <2>2, UnsignaledBound, RdmaAssumption DEF IInv, Signaling
<1> QED BY <1>1, ContextInvariant, PTL

\* Requests are posted once and in the order of the calls to Send, Write and
\* WriteWithImm, also when some of them had to wait (Rdma, ProcessPendingRequests).
THEOREM RequestsArePostedInOrder == Spec => PostedInOrder
<1>1. IInv /\ [Next]_vars => [posted' \in {posted, posted + 1}]_vars
  <2> SUFFICES ASSUME IInv, Next PROVE posted' \in {posted, posted + 1}
    BY Zenon
  <2>1. CASE Send
    <3>1. CASE WindowFull
      BY Zenon, <2>1, <3>1 DEF Send, Enqueue
    <3>2. CASE ~WindowFull
      BY Zenon, <2>1, <3>2, NothingWaits DEF Send
    <3> QED BY Zenon, <3>1, <3>2
  <2>2. CASE \E signaled \in BOOLEAN : WriteWithImm(signaled)
    <3>1. CASE WindowFull
      BY Zenon, <2>2, <3>1 DEF WriteWithImm, Enqueue
    <3>2. CASE ~WindowFull
      BY Zenon, <2>2, <3>2, NothingWaits DEF WriteWithImm
    <3> QED BY Zenon, <3>1, <3>2
  <2>3. CASE SendComp
    BY Zenon, <2>3 DEF SendComp
  <2>4. CASE MergeRequest
    BY Zenon, <2>4, DequeueOrder DEF IInv, MergeRequest
  <2>5. CASE PostRequest
    BY Zenon, <2>5, DequeueOrder DEF IInv, PostRequest
  <2>6. CASE EndRequests
    BY Zenon, <2>6 DEF EndRequests
  <2> QED
    BY Zenon, <2>1, <2>2, <2>3, <2>4, <2>5, <2>6 DEF Next, ProcessPendingRequests
<1> QED BY <1>1, ContextInvariant, PTL DEF Spec, PostedInOrder
==============================================================================

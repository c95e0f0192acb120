--------------------------- MODULE CoherenceProofs ---------------------------
(***************************************************************************)
(* Proofs about Coherence, for any number of workers, threads and writes.  *)
(***************************************************************************)
EXTENDS Coherence, FiniteSetTheorems, TLAPS

-----------------------------------------------------------------------------
(* The directory entry *)

\* Every operation on an entry returns an entry (directory.cc).
LEMMA DirTypes ==
  ASSUME NEW d \in Entry(Remote)
  PROVE  /\ NoEntry \in Entry(Remote) /\ DirOwnerToShared(d) \in Entry(Remote)
         /\ DirUndoDirty(d) \in Entry(Remote) /\ DirUndoShared(d) \in Entry(Remote)
         /\ DirToToShared(d) \in Entry(Remote) /\ DirToToDirty(d) \in Entry(Remote)
         /\ DirToToUnShared(d) \in Entry(Remote)
         /\ DirRLock(d) \in Entry(Remote) /\ DirWLock(d) \in Entry(Remote)
BY DEF Entry, DirState, NoEntry, DirOwnerToShared, DirUndoDirty, DirUndoShared, DirToToShared,
       DirToToDirty, DirToToUnShared, DirRLock, DirWLock, EXCLUSIVE_LOCK_TAG

\* A worker joins the list of an entry or becomes its owner (ToShared, ToDirty).
LEMMA DirShareTypes ==
  ASSUME NEW d \in Entry(Remote), NEW n \in Remote
  PROVE  DirToShared(d, n) \in Entry(Remote) /\ DirToDirty(d, n) \in Entry(Remote)
BY Zenon DEF Entry, DirState, DirToShared, DirToDirty

\* A worker or all of them leave an entry, and a lock is released (Remove, Clear, ToUnShared, UnLock).
LEMMA DirDropTypes ==
  ASSUME NEW d \in Entry(Remote), NEW n
  PROVE  /\ DirToUnShared(d) \in Entry(Remote) /\ DirRemove(d, n) \in Entry(Remote)
         /\ DirClear(d, n) \in Entry(Remote) /\ DirUnLock(d) \in Entry(Remote)
<1>1. NoEntry \in Entry(Remote)
  BY DEF Entry, NoEntry, DirState
<1>2. d.shared \ {n} \in SUBSET Remote
  BY Zenon DEF Entry
<1>3. DirRemove(d, n) \in Entry(Remote) /\ DirClear(d, n) \in Entry(Remote)
  BY Zenon, <1>1, <1>2 DEF Entry, DirState, DirRemove, DirClear
<1>4. DirToUnShared(d) \in Entry(Remote)
  BY Zenon, <1>1 DEF Entry, DirState, DirToUnShared
<1>5. DirUnLock(d) \in Entry(Remote)
  <2>1. d.lock \in Int /\ d.lock - 1 \in Int /\ 0 \in Int
    BY DEF Entry
  <2> QED BY Zenon, <2>1 DEF Entry, DirUnLock
<1> QED BY Zenon, <1>3, <1>4, <1>5

-----------------------------------------------------------------------------
(* Cache lines *)

\* Every operation on a line returns a line (cache.h, cache.cc).
LEMMA LineTypes ==
  ASSUME NEW l \in Line
  PROVE  /\ NoLine \in Line /\ CacheToShared(l) \in Line /\ CacheToDirty(l) \in Line
         /\ CacheToToInvalid(l) \in Line /\ CacheToToDirty(l) \in Line
         /\ CacheUndoShared(l) \in Line /\ CacheTouch(l) \in Line
         /\ CacheRLock(l) \in Line /\ CacheWLock(l) \in Line /\ CacheUnLock(l) \in Line
         /\ \A d \in Data : [l EXCEPT !.data = d] \in Line
<1>1. NoLine \in Line
  BY DEF Line, CacheState, NoLine, Data
<1>2. CacheToShared(l) \in Line /\ CacheTouch(l) \in Line
  BY Zenon DEF Line, CacheState, CacheToShared, CacheTouch
<1>3. /\ CacheToDirty(l) \in Line /\ CacheToToInvalid(l) \in Line /\ CacheToToDirty(l) \in Line
      /\ CacheUndoShared(l) \in Line
  BY Zenon DEF Line, CacheState, CacheToDirty, CacheToToInvalid, CacheToToDirty, CacheUndoShared
<1>4. CacheRLock(l) \in Line /\ CacheWLock(l) \in Line /\ CacheUnLock(l) \in Line
  BY DEF Line, CacheRLock, CacheWLock, CacheUnLock, EXCLUSIVE_LOCK_TAG
<1>5. \A d \in Data : [l EXCEPT !.data = d] \in Line
  BY Zenon DEF Line
<1> QED BY Zenon, <1>1, <1>2, <1>3, <1>4, <1>5

\* A line allocated by a miss is a line (SetCLine).
LEMMA NewLineTypes == NewLine("TO_SHARED") \in Line /\ NewLine("TO_DIRTY") \in Line
<1>1. NoLine \in Line
  BY DEF Line, CacheState, NoLine, Data
<1> QED BY Zenon, <1>1 DEF Line, CacheState, NewLine

-----------------------------------------------------------------------------
(* Messages and channels *)

\* The messages that handlers put together are messages of their kind.
LEMMA MsgTypes ==
  ASSUME NEW op, NEW ops, op \in ops, NEW try \in BOOLEAN, NEW s \in Node, NEW d \in Data
  PROVE  /\ Msg(op) \in Message(ops) /\ Ask(op, try) \in Message(ops)
         /\ Refuse(op) \in Message(ops)
         /\ [Msg(op) EXCEPT !.data = d] \in Message(ops)
         /\ [Msg(op) EXCEPT !.try = try, !.pwid = s] \in Message(ops)
<1>1. Msg(op) \in Message(ops)
  BY Zenon DEF Message, Msg, Node, Data
<1>2. Ask(op, try) \in Message(ops) /\ Refuse(op) \in Message(ops)
  BY Zenon, <1>1 DEF Message, Ask, Refuse
<1>3. [Msg(op) EXCEPT !.data = d] \in Message(ops)
  BY Zenon, <1>1 DEF Message
<1>4. [Msg(op) EXCEPT !.try = try, !.pwid = s] \in Message(ops)
  BY Zenon, <1>1 DEF Message
<1> QED BY ZenonT(60), <1>1, <1>2, <1>3, <1>4

\* A handler posts one message, or data and the message behind it.
LEMMA OneAndTwo ==
  ASSUME NEW S, NEW x \in S, NEW y \in S
  PROVE  <<x>> \in Seq(S) /\ <<x, y>> \in Seq(S)
OBVIOUS

\* Completions, refusals and data may be sent to every worker.
LEMMA ReplyTypes ==
  ASSUME NEW n \in Node, NEW d \in Data
  PROVE  /\ \A op \in Reply : <<Msg(op)>> \in Seq(Inbox(n)) /\ <<Refuse(op)>> \in Seq(Inbox(n))
         /\ DataImm(d) \in Seq(Inbox(n))
         /\ <<[Msg("RDMA_WRITE") EXCEPT !.data = d], Msg("WRITE_REPLY")>> \in Seq(Inbox(n))
<1> DEFINE ops == ServedBy(n) \cup Reply \cup {"RDMA_WRITE"}
<1>1. \A op \in ops : Msg(op) \in Inbox(n) /\ Refuse(op) \in Inbox(n)
                       /\ [Msg(op) EXCEPT !.data = d] \in Inbox(n)
  <2> TAKE op \in ops
  <2>1. TRUE \in BOOLEAN
    BY Zenon
  <2> QED BY Zenon, <2>1, MsgTypes DEF Inbox
<1>2. "RDMA_WRITE" \in ops /\ \A op \in Reply : op \in ops
  BY Zenon
<1>3. "IMM" \in ops /\ "WRITE_REPLY" \in ops
  BY Zenon DEF Reply
<1> HIDE DEF ops
<1>4. \A op \in Reply : <<Msg(op)>> \in Seq(Inbox(n)) /\ <<Refuse(op)>> \in Seq(Inbox(n))
  BY Zenon, <1>1, <1>2, OneAndTwo
<1>5. DataImm(d) \in Seq(Inbox(n))
  BY ZenonT(60), <1>1, <1>2, <1>3, OneAndTwo DEF DataImm
<1>6. <<[Msg("RDMA_WRITE") EXCEPT !.data = d], Msg("WRITE_REPLY")>> \in Seq(Inbox(n))
  BY ZenonT(60), <1>1, <1>2, <1>3, OneAndTwo
<1> QED BY Zenon, <1>4, <1>5, <1>6

\* Posting what the receiver serves keeps the channels well formed (SubmitRequest, WriteWithImm).
LEMMA PostTypes ==
  ASSUME NEW c, ChanOK(c), NEW s \in Node, NEW d \in Node, s # Home \/ d # Home,
         NEW ms \in Seq(Inbox(d))
  PROVE  ChanOK(Post(c, s, d, ms))
<1> DEFINE e == Post(c, s, d, ms)
<1>1. DOMAIN e = Node /\ \A x \in Node : DOMAIN e[x] = Node
  BY Zenon DEF Post, ChanOK
<1>2. \A x, y \in Node : e[x][y] = (IF x = s /\ y = d THEN c[s][d] \o ms ELSE c[x][y])
  BY Zenon DEF Post, ChanOK
<1>3. c[s][d] \o ms \in Seq(Inbox(d))
  BY DEF ChanOK
<1> HIDE DEF e
<1>4. \A x, y \in Node : e[x][y] \in Seq(Inbox(y))
  <2> TAKE x, y \in Node
  <2>1. c[x][y] \in Seq(Inbox(y))
    BY Zenon DEF ChanOK
  <2>2. CASE x = s /\ y = d
    BY ZenonT(60), <1>2, <1>3, <2>2
  <2>3. CASE ~(x = s /\ y = d)
    BY ZenonT(60), <1>2, <2>1, <2>3
  <2> QED BY Zenon, <2>2, <2>3
<1>5. e[Home][Home] = <<>>
  BY Zenon, <1>2 DEF ChanOK, Node
<1> QED BY ZenonT(60), <1>1, <1>4, <1>5 DEF ChanOK, e

\* So does posting one request to every sharer (ProcessLocalWrite, ProcessRemoteWrite).
LEMMA PostAllTypes ==
  ASSUME NEW c, ChanOK(c), NEW D \in SUBSET Remote, NEW m, \A d \in D : m \in Inbox(d)
  PROVE  ChanOK(PostAll(c, Home, D, m))
<1> DEFINE e == PostAll(c, Home, D, m)
<1>1. DOMAIN e = Node /\ \A x \in Node : DOMAIN e[x] = Node
  BY Zenon DEF PostAll, ChanOK
<1>2. \A x, y \in Node : e[x][y] = (IF x = Home /\ y \in D THEN Append(c[x][y], m) ELSE c[x][y])
  BY Zenon DEF PostAll, ChanOK
<1>3. \A y \in D : y \in Node /\ Append(c[Home][y], m) \in Seq(Inbox(y))
  <2> TAKE y \in D
  <2>1. y \in Node /\ Home \in Node
    BY Zenon DEF Node
  <2>2. c[Home][y] \in Seq(Inbox(y)) /\ m \in Inbox(y)
    BY Zenon, <2>1 DEF ChanOK
  <2> QED BY <2>1, <2>2
<1> HIDE DEF e
<1>4. \A x, y \in Node : e[x][y] \in Seq(Inbox(y))
  <2> TAKE x, y \in Node
  <2>1. c[x][y] \in Seq(Inbox(y))
    BY Zenon DEF ChanOK
  <2>2. CASE x = Home /\ y \in D
    BY ZenonT(60), <1>2, <1>3, <2>2
  <2>3. CASE ~(x = Home /\ y \in D)
    BY ZenonT(60), <1>2, <2>1, <2>3
  <2> QED BY Zenon, <2>2, <2>3
<1>5. e[Home][Home] = <<>>
  BY Zenon, <1>2, CoherenceAssumption DEF ChanOK, Node
<1> QED BY ZenonT(60), <1>1, <1>4, <1>5 DEF ChanOK, e

\* What a worker takes from a queue pair, and what is left of it.
LEMMA TakeTypes ==
  ASSUME ChanOK(chan), NEW n \in Node, NEW s \in Node, chan[s][n] # <<>>
  PROVE  /\ Head(chan[s][n]) \in Inbox(n) /\ (n = Home => s \in Remote)
         /\ ChanOK([chan EXCEPT ![s][n] = Tail(@)])
<1> DEFINE e == [chan EXCEPT ![s][n] = Tail(@)]
<1>1. DOMAIN e = Node /\ \A x \in Node : DOMAIN e[x] = Node
  BY Zenon DEF ChanOK
<1>2. \A x, y \in Node : e[x][y] = (IF x = s /\ y = n THEN Tail(chan[s][n]) ELSE chan[x][y])
  BY Zenon DEF ChanOK
<1>3. Tail(chan[s][n]) \in Seq(Inbox(n)) /\ Head(chan[s][n]) \in Inbox(n)
  BY DEF ChanOK
<1>4. n = Home => s \in Remote
  BY Zenon DEF ChanOK, Node
<1> HIDE DEF e
<1>5. \A x, y \in Node : e[x][y] \in Seq(Inbox(y))
  <2> TAKE x, y \in Node
  <2>1. chan[x][y] \in Seq(Inbox(y))
    BY Zenon DEF ChanOK
  <2>2. CASE x = s /\ y = n
    BY ZenonT(60), <1>2, <1>3, <2>2
  <2>3. CASE ~(x = s /\ y = n)
    BY Zenon, <1>2, <2>1, <2>3
  <2> QED BY ZenonT(60), <2>2, <2>3
<1>6. e[Home][Home] = <<>>
  BY ZenonT(60), <1>2, <1>4, CoherenceAssumption DEF ChanOK, Node
<1> QED BY ZenonT(60), <1>1, <1>3, <1>4, <1>5, <1>6 DEF ChanOK, e

-----------------------------------------------------------------------------
(* Pending works, and the variables of the threads *)

ThreadsOK ==
  waiting \in [Thread -> BOOLEAN] /\ held \in [Thread -> Lock] /\ seen \in [Thread -> Data]

\* What the handlers of requests change, apart from the queues of remote requests.
BlockOK ==
  /\ dir \in Entry(Remote) /\ mem \in Data /\ cache \in [Remote -> Line]
  /\ pend \in [Node -> Work] /\ ChanOK(chan)

LocalOK == BlockOK /\ ThreadsOK /\ done \in Data /\ local \in [Node -> Seq(Request)]

\* Notify keeps the state of the threads well formed.
LEMMA NotifyTypes ==
  ASSUME ThreadsOK, NEW r \in Request, NEW ok \in BOOLEAN, NEW d \in Data, Notify(r, ok, d)
  PROVE  ThreadsOK'
<1>1. r.t \in Thread /\ (r.op = "WRITE" => r.w \in Write)
  BY Zenon DEF Request
<1>2. waiting' \in [Thread -> BOOLEAN]
  BY Zenon, <1>1 DEF Notify, ThreadsOK
<1>3. held' \in [Thread -> Lock]
  BY Zenon, <1>1 DEF Notify, ThreadsOK, Lock
<1>4. seen' \in [Thread -> Data]
  <2>1. r.op = "WRITE" => seen[r.t] \cup {r.w} \in Data
    BY Zenon, <1>1 DEF ThreadsOK, Data
  <2>2. seen[r.t] \in Data
    BY Zenon, <1>1 DEF ThreadsOK
  <2>3. CASE r.op = "READ"
    BY ZenonT(60), <1>1, <2>3 DEF Notify, ThreadsOK
  <2>4. CASE r.op = "WRITE"
    BY ZenonT(60), <1>1, <2>1, <2>4 DEF Notify, ThreadsOK
  <2>5. CASE r.op \notin {"READ", "WRITE"}
    BY Zenon, <1>1, <2>2, <2>5 DEF Notify, ThreadsOK
  <2> QED BY ZenonT(60), <2>3, <2>4, <2>5
<1> QED BY ZenonT(60), <1>2, <1>3, <1>4 DEF ThreadsOK

\* A call that is not over keeps the state of the threads well formed.
LEMMA SuspendTypes ==
  ASSUME ThreadsOK, NEW r \in Request, Suspend(r)
  PROVE  ThreadsOK'
<1>1. r.t \in Thread
  BY Zenon DEF Request
<1> QED BY Zenon, <1>1 DEF Suspend, ThreadsOK

\* AddToServeLocalRequest queues a request and leaves the block alone.
LEMMA AddToServeLocalTypes ==
  ASSUME LocalOK, NEW n \in Node, NEW r \in Request, AddToServeLocalRequest(n, r)
  PROVE  LocalOK'
<1>1. ThreadsOK'
  BY Zenon, SuspendTypes DEF LocalOK, AddToServeLocalRequest
<1>2. local' \in [Node -> Seq(Request)]
  <2>1. Append(local[n], r) \in Seq(Request)
    BY DEF LocalOK
  <2> QED BY Zenon, <2>1 DEF LocalOK, AddToServeLocalRequest
<1> QED BY Zenon, <1>1, <1>2 DEF LocalOK, BlockOK, AddToServeLocalRequest

\* A refused lock ends the call of a try, or queues the call (ProcessLocalRLock).
LEMMA LockFailedTypes ==
  ASSUME LocalOK, NEW n \in Node, NEW r \in Request, LockFailed(n, r)
  PROVE  LocalOK'
<1>1. CASE r.try
  <2>1. FALSE \in BOOLEAN /\ {} \in Data
    BY Zenon DEF Data
  <2>2. ThreadsOK'
    BY Zenon, <1>1, <2>1, NotifyTypes DEF LocalOK, LockFailed
  <2> QED BY Zenon, <1>1, <2>2 DEF LockFailed, LocalOK, BlockOK
<1>2. CASE ~r.try
  BY Zenon, <1>2, AddToServeLocalTypes DEF LockFailed
<1> QED BY Zenon, <1>1, <1>2

\* A call that is over and leaves the block as it was, but for a changed entry or line.
LEMMA NotifiedTypes ==
  ASSUME LocalOK, NEW r \in Request, NEW d \in Data, Notify(r, TRUE, d),
         dir' \in Entry(Remote), cache' \in [Remote -> Line],
         UNCHANGED <<mem, pend, chan, local, done>>
  PROVE  LocalOK'
<1>1. ThreadsOK'
  <2>1. TRUE \in BOOLEAN
    BY Zenon
  <2> QED BY Zenon, <2>1, NotifyTypes DEF LocalOK
<1> QED BY Zenon, <1>1 DEF LocalOK, BlockOK

-----------------------------------------------------------------------------
(* Calls of the application *)

\* The number of sharers, which a pending work counts down, is an integer.
LEMMA SharersCounted ==
  ASSUME NEW D \in SUBSET Remote
  PROVE  Cardinality(D) \in Int
<1>1. IsFiniteSet(D)
  BY Zenon, CoherenceAssumption, FS_Subset
<1> QED BY <1>1, FS_CardinalityType

\* The home worker asks the caches on behalf of a call (ProcessLocalRead, ProcessLocalWrite).
LEMMA AskCachesTypes ==
  ASSUME LocalOK, NEW op \in {"FETCH_AND_SHARED", "FETCH_AND_INVALIDATE", "INVALIDATE"},
         NEW r \in Request, NEW d \in Entry(Remote), AskCaches(op, r, d)
  PROVE  LocalOK'
<1>1. dir.shared \in SUBSET Remote
  BY Zenon DEF LocalOK, BlockOK, Entry
<1>2. pend' \in [Node -> Work]
  <2>1. op \in ReadWork \cup WriteWork
    BY Zenon DEF ReadWork, WriteWork
  <2>2. OwnWork(op, r, Cardinality(dir.shared)) \in Work
    BY Zenon, <1>1, <2>1, SharersCounted DEF OwnWork, Work
  <2> QED BY Zenon, <2>2 DEF AskCaches, LocalOK, BlockOK
<1>3. ChanOK(chan')
  <2>1. \A n \in dir.shared : Ask(op, r.try) \in Inbox(n)
    <3> TAKE n \in dir.shared
    <3>1. op \in ServedBy(n) \cup Reply \cup {"RDMA_WRITE"}
      BY Zenon, <1>1, CoherenceAssumption DEF ServedBy, ToCache
    <3>2. r.try \in BOOLEAN
      BY Zenon DEF Request
    <3>3. Home \in Node /\ {} \in Data
      BY Zenon DEF Node, Data
    <3> QED BY Zenon, <3>1, <3>2, <3>3, MsgTypes DEF Inbox
  <2> QED BY Zenon, <1>1, <2>1, PostAllTypes DEF AskCaches, LocalOK, BlockOK
<1>4. ThreadsOK'
  BY Zenon, SuspendTypes DEF AskCaches, LocalOK
<1> QED BY Zenon, <1>2, <1>3, <1>4 DEF AskCaches, LocalOK, BlockOK

\* A write that is performed at once, in the memory or in the line.
LEMMA WrittenTypes ==
  ASSUME LocalOK, NEW r \in Request, r.op = "WRITE", Notify(r, TRUE, {}),
         mem' \in Data, cache' \in [Remote -> Line], done' = done \cup {r.w},
         UNCHANGED <<dir, pend, chan, local>>
  PROVE  LocalOK'
<1>1. TRUE \in BOOLEAN /\ {} \in Data
  BY Zenon DEF Data
<1>2. ThreadsOK'
  BY Zenon, <1>1, NotifyTypes DEF LocalOK
<1>3. done' \in Data
  BY Zenon DEF LocalOK, Data, Request
<1> QED BY Zenon, <1>2, <1>3 DEF LocalOK, BlockOK

\* Every call at the home worker keeps the types (local_request_cache.cc).
LEMMA HomeCallTypes ==
  ASSUME LocalOK, NEW r \in Request, ProcessLocalRequest(Home, r)
  PROVE  LocalOK'
<1> USE DEF LocalOK, BlockOK
<1>1. Home \in Node /\ {} \in Data /\ dir \in Entry(Remote)
  BY Zenon DEF Node, Data
<1>2. /\ DirToToShared(dir) \in Entry(Remote) /\ DirToToUnShared(dir) \in Entry(Remote)
      /\ DirRLock(dir) \in Entry(Remote) /\ DirWLock(dir) \in Entry(Remote)
  BY Zenon, <1>1, DirTypes
<1>3. ASSUME AddToServeLocalRequest(Home, r) \/ LockFailed(Home, r)
      PROVE  LocalOK'
  BY Zenon, <1>1, <1>3, AddToServeLocalTypes, LockFailedTypes DEF LocalOK
<1>4. ASSUME \/ AskCaches("FETCH_AND_SHARED", r, DirToToShared(dir))
             \/ AskCaches("FETCH_AND_INVALIDATE", r, DirToToUnShared(dir))
             \/ AskCaches("INVALIDATE", r, DirToToUnShared(dir))
      PROVE  LocalOK'
  BY Zenon, <1>2, <1>4, AskCachesTypes
<1>5. ASSUME dir' \in Entry(Remote), NEW d \in Data, Notify(r, TRUE, d),
             UNCHANGED <<mem, cache, pend, chan, local, done>>
      PROVE  LocalOK'
  BY Zenon, <1>5, NotifiedTypes
<1>6. CASE r.op = "READ"
  BY Zenon, <1>1, <1>3, <1>4, <1>5, <1>6 DEF ProcessLocalRequest, ProcessLocalRead
<1>7. CASE r.op = "WRITE"
  <2>1. mem \cup {r.w} \in Data
    BY Zenon, <1>7 DEF Data, Request
  <2> QED BY Zenon, <1>3, <1>4, <1>7, <2>1, WrittenTypes DEF ProcessLocalRequest, ProcessLocalWrite
<1>8. CASE r.op = "RLOCK"
  BY Zenon, <1>1, <1>2, <1>3, <1>4, <1>5, <1>8 DEF ProcessLocalRequest, ProcessLocalRLock
<1>9. CASE r.op = "WLOCK"
  BY Zenon, <1>1, <1>2, <1>3, <1>4, <1>5, <1>9 DEF ProcessLocalRequest, ProcessLocalWLock
<1> QED BY Zenon, <1>6, <1>7, <1>8, <1>9 DEF Request

\* The caching workers are workers, and none of them is Home.
LEMMA RemoteIsNode == Home \in Node /\ \A n \in Remote : n \in Node /\ n # Home
BY Zenon, CoherenceAssumption DEF Node

\* A miss or an upgrade asks the home worker (Cache::ReadWrite).
LEMMA AskHomeTypes ==
  ASSUME LocalOK, NEW n \in Remote, NEW r \in Request, NEW l \in Line,
         NEW op \in {"READ", "WRITE", "WRITE_PERMISSION_ONLY"},
         cache' = [cache EXCEPT ![n] = l],
         pend' = [pend EXCEPT ![n] = OwnWork(op, r, 0)],
         chan' = Post(chan, n, Home, <<Ask(op, r.try)>>),
         Suspend(r), UNCHANGED <<dir, mem, local, done>>
  PROVE  LocalOK'
<1>1. n \in Node /\ Home \in Node /\ n # Home
  BY Zenon, RemoteIsNode
<1>2. OwnWork(op, r, 0) \in Work
  BY DEF OwnWork, Work, ReadWork, WriteWork
<1>3. <<Ask(op, r.try)>> \in Seq(Inbox(Home))
  <2>1. op \in ServedBy(Home) \cup Reply \cup {"RDMA_WRITE"}
    BY Zenon DEF ServedBy, ToHome
  <2>2. r.try \in BOOLEAN /\ {} \in Data
    BY Zenon DEF Request, Data
  <2>3. Ask(op, r.try) \in Inbox(Home)
    BY Zenon, <1>1, <2>1, <2>2, MsgTypes DEF Inbox
  <2> QED BY <2>3
<1>4. ChanOK(chan')
  BY Zenon, <1>1, <1>3, PostTypes DEF LocalOK, BlockOK
<1>5. ThreadsOK'
  BY Zenon, SuspendTypes DEF LocalOK
<1>6. pend' \in [Node -> Work] /\ cache' \in [Remote -> Line]
  BY Zenon, <1>1, <1>2 DEF LocalOK, BlockOK
<1> QED BY Zenon, <1>4, <1>5, <1>6 DEF LocalOK, BlockOK

\* Every call at a caching worker keeps the types (cache.cc).
LEMMA CacheCallTypes ==
  ASSUME LocalOK, NEW n \in Remote, NEW r \in Request, ProcessLocalRequest(n, r)
  PROVE  LocalOK'
<1> DEFINE l == cache[n]
<1>1. n \in Node /\ n # Home /\ {} \in Data /\ l \in Line /\ l.data \in Data
  BY Zenon, RemoteIsNode DEF LocalOK, BlockOK, Data, Line
<1>2. ASSUME AddToServeLocalRequest(n, r) \/ LockFailed(n, r)
      PROVE  LocalOK'
  BY Zenon, <1>1, <1>2, AddToServeLocalTypes, LockFailedTypes
<1>3. ASSUME Miss(n, r, "TO_SHARED", "READ") \/ Miss(n, r, "TO_DIRTY", "WRITE")
      PROVE  LocalOK'
  BY Zenon, <1>3, AskHomeTypes, NewLineTypes DEF Miss
<1>4. ASSUME Upgrade(n, r)
      PROVE  LocalOK'
  <2> DEFINE data == IF r.op = "WRITE" THEN l.data \cup {r.w} ELSE l.data
             new == [CacheToToDirty(l) EXCEPT !.data = data]
  <2>1. CacheToToDirty(l) \in Line /\ data \in Data
    <3>1. CacheToToDirty(l) \in Line
      BY Zenon, <1>1, LineTypes
    <3>2. data \in Data
      BY Zenon, <1>1 DEF Data, Request
    <3> QED BY Zenon, <3>1, <3>2
  <2>2. new \in Line
    BY ZenonT(60), <2>1, LineTypes
  <2>3. cache' = [cache EXCEPT ![n] = new]
    BY Zenon, <1>4 DEF Upgrade
  <2> HIDE DEF new
  <2> QED BY Zenon, <1>4, <2>2, <2>3, AskHomeTypes DEF Upgrade
<1>5. ASSUME NEW k \in Line, cache' = [cache EXCEPT ![n] = k], NEW d \in Data, Notify(r, TRUE, d),
             UNCHANGED <<dir, mem, pend, chan, local, done>>
      PROVE  LocalOK'
  <2>1. cache' \in [Remote -> Line] /\ dir' \in Entry(Remote)
    BY Zenon, <1>5 DEF LocalOK, BlockOK
  <2> QED BY Zenon, <1>5, <2>1, NotifiedTypes
<1>6. /\ CacheTouch(l) \in Line /\ CacheRLock(CacheTouch(l)) \in Line /\ CacheWLock(l) \in Line
  BY Zenon, <1>1, LineTypes
<1>7. CASE r.op = "READ"
  BY Zenon, <1>1, <1>2, <1>3, <1>5, <1>6, <1>7 DEF ProcessLocalRequest, CacheRead
<1>8. CASE r.op = "WRITE"
  <2>1. ASSUME cache' = [cache EXCEPT ![n].data = @ \cup {r.w}], done' = done \cup {r.w},
               Notify(r, TRUE, {}), UNCHANGED <<dir, mem, pend, chan, local>>
        PROVE  LocalOK'
    <3>1. l.data \cup {r.w} \in Data
      BY Zenon, <1>1, <1>8 DEF Data, Request
    <3>2. [l EXCEPT !.data = l.data \cup {r.w}] \in Line
      BY Zenon, <1>1, <3>1, LineTypes
    <3>3. cache' = [cache EXCEPT ![n] = [l EXCEPT !.data = l.data \cup {r.w}]]
      BY Zenon, <2>1
    <3>4. cache' \in [Remote -> Line] /\ mem' \in Data
      BY Zenon, <2>1, <3>2, <3>3 DEF LocalOK, BlockOK
    <3> QED BY Zenon, <1>8, <2>1, <3>4, WrittenTypes
  <2> QED BY Zenon, <1>1, <1>2, <1>3, <1>4, <1>8, <2>1 DEF ProcessLocalRequest, CacheWrite
<1>9. CASE r.op = "RLOCK"
  BY Zenon, <1>1, <1>2, <1>3, <1>5, <1>6, <1>9 DEF ProcessLocalRequest, CacheRLockCall
<1>10. CASE r.op = "WLOCK"
  BY Zenon, <1>1, <1>2, <1>3, <1>4, <1>5, <1>6, <1>10 DEF ProcessLocalRequest, CacheWLockCall
<1> QED BY Zenon, <1>7, <1>8, <1>9, <1>10 DEF Request

\* ProcessLocalRequest keeps the types, wherever it runs.
LEMMA LocalRequestTypes ==
  ASSUME LocalOK, NEW n \in Node, NEW r \in Request, ProcessLocalRequest(n, r)
  PROVE  LocalOK'
BY Zenon, HomeCallTypes, CacheCallTypes DEF Node

-----------------------------------------------------------------------------
(* Requests from other workers *)

RemoteOK == DOMAIN remote = Node /\ \A n \in Node : remote[n] \in Seq(Queued(n))

\* AddToServeRemoteRequest queues a request that its worker serves.
LEMMA AddToServeRemoteTypes ==
  ASSUME BlockOK, RemoteOK, UNCHANGED mem, NEW n \in Node, NEW s, NEW m, NEW c, ChanOK(c),
         [from |-> s, msg |-> m] \in Queued(n), AddToServeRemoteRequest(n, s, m, c)
  PROVE  BlockOK' /\ RemoteOK'
<1>1. Append(remote[n], [from |-> s, msg |-> m]) \in Seq(Queued(n))
  BY DEF RemoteOK
<1>2. RemoteOK'
  <2>1. DOMAIN remote' = Node
    BY Zenon DEF AddToServeRemoteRequest, RemoteOK
  <2>2. \A k \in Node : remote'[k] \in Seq(Queued(k))
    <3> TAKE k \in Node
    <3>1. CASE k = n
      BY Zenon, <1>1, <3>1 DEF AddToServeRemoteRequest, RemoteOK
    <3>2. CASE k # n
      BY Zenon, <3>2 DEF AddToServeRemoteRequest, RemoteOK
    <3> QED BY Zenon, <3>1, <3>2
  <2> QED BY Zenon, <2>1, <2>2 DEF RemoteOK
<1> QED BY Zenon, <1>2 DEF BlockOK, AddToServeRemoteRequest

\* An answer to a caching worker keeps the channels well formed.
LEMMA AnswerTypes ==
  ASSUME BlockOK, RemoteOK, UNCHANGED mem, dir' \in Entry(Remote), cache' \in [Remote -> Line],
         NEW n \in Node, NEW s \in Node, n # Home \/ s # Home, NEW c, ChanOK(c),
         NEW ms \in Seq(Inbox(s)), Answer(c, n, s, ms)
  PROVE  BlockOK' /\ RemoteOK'
<1>1. ChanOK(chan')
  BY Zenon, PostTypes DEF Answer
<1> QED BY Zenon, <1>1 DEF BlockOK, RemoteOK, Answer

\* Home passes the request m of s on to the workers D.
LEMMA ForwardTypes ==
  ASSUME BlockOK, RemoteOK, UNCHANGED <<mem, cache, remote>>, dir' \in Entry(Remote),
         NEW s \in Remote, NEW m \in Message({"READ", "WRITE", "WRITE_PERMISSION_ONLY"}),
         NEW c, ChanOK(c), NEW D \in SUBSET Remote, NEW k \in Int,
         NEW op \in {"READ_FORWARD", "WRITE_FORWARD", "INVALIDATE_FORWARD"},
         chan' = PostAll(c, Home, D, Forward(op, m, s)),
         pend' = [pend EXCEPT ![Home] = ForwardWork(op, m, s, k)]
  PROVE  BlockOK' /\ RemoteOK'
<1>1. \A n \in D : Forward(op, m, s) \in Inbox(n)
  <2> TAKE n \in D
  <2>1. op \in ServedBy(n) \cup Reply \cup {"RDMA_WRITE"}
    BY Zenon, RemoteIsNode DEF ServedBy, ToCache
  <2>2. m.try \in BOOLEAN /\ s \in Node /\ {} \in Data
    BY Zenon, RemoteIsNode DEF Message, Data
  <2> QED BY Zenon, <2>1, <2>2, MsgTypes DEF Inbox, Forward
<1>2. ChanOK(chan')
  BY Zenon, <1>1, PostAllTypes
<1>3. ForwardWork(op, m, s, k) \in Work
  BY Zenon DEF ForwardWork, Work, Message
<1>4. pend' \in [Node -> Work]
  BY Zenon, <1>3 DEF BlockOK
<1> QED BY Zenon, <1>2, <1>4 DEF BlockOK, RemoteOK

\* Every request that Home serves keeps the types (remote_request_cache.cc, remote_request.cc).
LEMMA HomeRequestTypes ==
  ASSUME BlockOK, RemoteOK, NEW s \in Remote, NEW m \in Message(ToHome), NEW c, ChanOK(c),
         ProcessRequest(Home, s, m, c)
  PROVE  BlockOK' /\ RemoteOK'
<1>1. /\ Home \in Node /\ s \in Node /\ s # Home /\ mem \in Data /\ dir \in Entry(Remote)
      /\ cache \in [Remote -> Line] /\ 0 \in Int /\ mem' = mem
  BY RemoteIsNode DEF BlockOK, ProcessRequest
<1>2. [from |-> s, msg |-> m] \in Queued(Home)
  BY Zenon DEF Queued, ServedBy
<1>3. ASSUME AddToServeRemoteRequest(Home, s, m, c)
      PROVE  BlockOK' /\ RemoteOK'
  BY Zenon, <1>1, <1>2, <1>3, AddToServeRemoteTypes
<1>4. /\ <<Refuse("READ_REPLY")>> \in Seq(Inbox(s)) /\ <<Refuse("WRITE_REPLY")>> \in Seq(Inbox(s))
      /\ <<Msg("WRITE_REPLY")>> \in Seq(Inbox(s)) /\ <<Msg("IMM")>> \in Seq(Inbox(s))
      /\ DataImm(mem) \in Seq(Inbox(s))
      /\ <<[Msg("RDMA_WRITE") EXCEPT !.data = mem], Msg("WRITE_REPLY")>> \in Seq(Inbox(s))
  BY Zenon, <1>1, ReplyTypes DEF Reply
<1>5. ASSUME NEW ms \in Seq(Inbox(s)), Answer(c, Home, s, ms), dir' \in Entry(Remote),
             UNCHANGED cache
      PROVE  BlockOK' /\ RemoteOK'
  <2>1. cache' \in [Remote -> Line]
    BY Zenon, <1>1, <1>5
  <2> QED BY Zenon, <1>1, <1>5, <2>1, AnswerTypes
<1>6. /\ DirToShared(dir, s) \in Entry(Remote) /\ DirToToShared(dir) \in Entry(Remote)
      /\ DirToDirty(dir, s) \in Entry(Remote) /\ DirToToDirty(dir) \in Entry(Remote)
      /\ DirClear(dir, s) \in Entry(Remote)
  BY Zenon, <1>1, DirTypes, DirShareTypes, DirDropTypes
<1>7. dir.shared \in SUBSET Remote /\ dir.shared \ {s} \in SUBSET Remote
  BY Zenon, <1>1 DEF Entry
<1>8. CASE m.op = "READ"
  <2>1. m \in Message({"READ", "WRITE", "WRITE_PERMISSION_ONLY"})
    BY Zenon, <1>8 DEF Message
  <2>2. ProcessRemoteRead(s, m, c)
    BY Zenon, <1>8 DEF ProcessRequest
  <2>3. ASSUME chan' = PostAll(c, Home, dir.shared, Forward("READ_FORWARD", m, s)),
               dir' = DirToToShared(dir),
               pend' = [pend EXCEPT ![Home] = ForwardWork("READ_FORWARD", m, s, 0)],
               UNCHANGED <<cache, remote>>
        PROVE  BlockOK' /\ RemoteOK'
    BY Zenon, <1>1, <1>6, <1>7, <2>1, <2>3, ForwardTypes
  <2> QED BY Zenon, <1>1, <1>3, <1>4, <1>5, <1>6, <2>2, <2>3 DEF ProcessRemoteRead
<1>9. CASE m.op \in {"WRITE", "WRITE_PERMISSION_ONLY"}
  <2>1. m \in Message({"READ", "WRITE", "WRITE_PERMISSION_ONLY"})
    BY Zenon, <1>9 DEF Message
  <2>2. ProcessRemoteWrite(s, m, c)
    BY Zenon, <1>9 DEF ProcessRequest
  <2>3. ASSUME NEW D \in SUBSET Remote, NEW k \in Int,
               NEW op \in {"WRITE_FORWARD", "INVALIDATE_FORWARD"},
               chan' = PostAll(c, Home, D, Forward(op, m, s)), dir' = DirToToDirty(dir),
               pend' = [pend EXCEPT ![Home] = ForwardWork(op, m, s, k)],
               UNCHANGED <<cache, remote>>
        PROVE  BlockOK' /\ RemoteOK'
    BY Zenon, <1>1, <1>6, <2>1, <2>3, ForwardTypes
  <2>4. ASSUME Grant(c, s)
        PROVE  BlockOK' /\ RemoteOK'
    BY Zenon, <1>4, <1>5, <1>6, <2>4 DEF Grant, Answer
  <2>5. Cardinality(dir.shared \ {s}) \in Int
    BY Zenon, <1>7, SharersCounted
  <2> QED BY ZenonT(60), <1>1, <1>3, <1>4, <1>5, <1>7, <2>2, <2>3, <2>4, <2>5 DEF ProcessRemoteWrite
<1>10. CASE m.op = "ACTIVE_INVALIDATE"
  <2>1. ProcessRemoteEvictShared(s, m, c)
    BY Zenon, <1>10 DEF ProcessRequest
  <2> QED BY Zenon, <1>1, <1>3, <1>6, <2>1 DEF ProcessRemoteEvictShared, BlockOK, RemoteOK
<1>11. CASE m.op = "WRITE_BACK"
  <2>1. ProcessRemoteEvictDirty(s, m, c)
    BY Zenon, <1>11 DEF ProcessRequest
  <2> QED BY Zenon, <1>3, <1>4, <1>5, <1>6, <2>1 DEF ProcessRemoteEvictDirty
<1> QED BY Zenon, <1>8, <1>9, <1>10, <1>11 DEF Message, ToHome

\* n answers to the worker w, if the request was forwarded for it, and to Home.
LEMMA AnswerBothTypes ==
  ASSUME BlockOK, RemoteOK, UNCHANGED mem, dir' \in Entry(Remote), cache' \in [Remote -> Line],
         pend' \in [Node -> Work], UNCHANGED remote, NEW n \in Remote, NEW w \in Node,
         NEW c, ChanOK(c), NEW ms, ms \in Seq(Inbox(w)), NEW hs \in Seq(Inbox(Home)),
         \/ chan' = Post(c, n, Home, hs)
         \/ chan' = Post(Post(c, n, w, ms), n, Home, hs)
  PROVE  BlockOK' /\ RemoteOK'
<1>1. n \in Node /\ Home \in Node /\ n # Home
  BY Zenon, RemoteIsNode
<1>2. ChanOK(Post(c, n, w, ms))
  BY Zenon, <1>1, PostTypes
<1>3. ChanOK(chan')
  BY Zenon, <1>1, <1>2, PostTypes
<1> QED BY Zenon, <1>3 DEF BlockOK, RemoteOK

\* A line that is given away stays a line (ProcessRemoteWriteCache).
LEMMA GiveAwayTypes ==
  ASSUME BlockOK, NEW n \in Remote, NEW b, GiveAway(n, b)
  PROVE  cache' \in [Remote -> Line] /\ pend' \in [Node -> Work]
<1>1. CacheToToInvalid(cache[n]) \in Line
  BY Zenon, LineTypes DEF BlockOK
<1>2. [op |-> "PENDING_INVALIDATE"] \in Work
  BY Zenon DEF Work
<1> QED BY Zenon, <1>1, <1>2, RemoteIsNode DEF BlockOK, GiveAway

\* Every request that a cache serves keeps the types (ProcessRemoteReadCache, ProcessRemoteWriteCache).
LEMMA CacheRequestTypes ==
  ASSUME BlockOK, RemoteOK, NEW n \in Remote, NEW m \in Message(ToCache), NEW c, ChanOK(c),
         NEW s, ProcessRequest(n, s, m, c)
  PROVE  BlockOK' /\ RemoteOK'
<1> DEFINE l == cache[n]
<1>1. /\ n \in Node /\ Home \in Node /\ n # Home /\ l \in Line /\ l.data \in Data
      /\ dir \in Entry(Remote) /\ cache \in [Remote -> Line] /\ pend \in [Node -> Work]
      /\ mem' = mem /\ m.pwid \in Node
  BY Zenon, RemoteIsNode DEF BlockOK, Line, ProcessRequest, Message
<1>2. ASSUME AddToServeRemoteRequest(n, Home, m, c)
      PROVE  BlockOK' /\ RemoteOK'
  <2>1. [from |-> Home, msg |-> m] \in Queued(n)
    BY Zenon, <1>1 DEF Queued, ServedBy
  <2> QED BY Zenon, <1>1, <1>2, <2>1, AddToServeRemoteTypes
<1>3. /\ \A k \in Node : /\ <<Refuse("READ_REPLY")>> \in Seq(Inbox(k))
                         /\ <<Refuse("WRITE_REPLY")>> \in Seq(Inbox(k))
                         /\ <<Msg("IMM")>> \in Seq(Inbox(k)) /\ DataImm(l.data) \in Seq(Inbox(k))
  BY Zenon, <1>1, ReplyTypes DEF Reply
<1>4. ASSUME NEW op \in {"READ_REPLY", "WRITE_REPLY"}, NEW f, RefuseBoth(c, n, m, op, f),
             UNCHANGED <<dir, cache>>
      PROVE  BlockOK' /\ RemoteOK'
  <2>1. <<Refuse(op)>> \in Seq(Inbox(m.pwid)) /\ <<Refuse(op)>> \in Seq(Inbox(Home))
    BY Zenon, <1>1, <1>3
  <2>2. /\ dir' \in Entry(Remote) /\ cache' \in [Remote -> Line] /\ pend' \in [Node -> Work]
        /\ UNCHANGED remote
    BY Zenon, <1>1, <1>4 DEF RefuseBoth, Answer
  <2>3. \/ chan' = Post(c, n, Home, <<Refuse(op)>>)
        \/ chan' = Post(Post(c, n, m.pwid, <<Refuse(op)>>), n, Home, <<Refuse(op)>>)
    BY Zenon, <1>4 DEF RefuseBoth, Answer
  <2> QED BY ZenonT(60), <1>1, <2>1, <2>2, <2>3, AnswerBothTypes
<1>5. CASE m.op \in {"FETCH_AND_SHARED", "READ_FORWARD"}
  <2>1. ProcessRemoteReadCache(n, m, c)
    BY Zenon, <1>5 DEF ProcessRequest
  <2>2. ASSUME Answer(IF m.op = "READ_FORWARD" THEN Post(c, n, m.pwid, DataImm(l.data)) ELSE c,
                      n, Home, DataImm(l.data)),
               cache' = IF CacheInTransition(l) THEN cache
                                                ELSE [cache EXCEPT ![n] = CacheToShared(@)],
               UNCHANGED dir
        PROVE  BlockOK' /\ RemoteOK'
    <3>1. CacheToShared(l) \in Line
      BY Zenon, <1>1, LineTypes
    <3>2. /\ dir' \in Entry(Remote) /\ cache' \in [Remote -> Line] /\ pend' \in [Node -> Work]
          /\ UNCHANGED remote
      BY Zenon, <1>1, <2>2, <3>1 DEF Answer
    <3>3. \/ chan' = Post(c, n, Home, DataImm(l.data))
          \/ chan' = Post(Post(c, n, m.pwid, DataImm(l.data)), n, Home, DataImm(l.data))
      BY Zenon, <2>2 DEF Answer
    <3> QED BY Zenon, <1>1, <1>3, <3>2, <3>3, AnswerBothTypes
  <2> QED BY Zenon, <1>2, <1>4, <2>1, <2>2 DEF ProcessRemoteReadCache
<1>6. CASE m.op \in {"INVALIDATE", "INVALIDATE_FORWARD", "FETCH_AND_INVALIDATE", "WRITE_FORWARD"}
  <2>1. ProcessRemoteWriteCache(n, m, c)
    BY Zenon, <1>6 DEF ProcessRequest
  <2>2. ASSUME chan' = Post(c, n, Home, <<Msg("IMM")>>), UNCHANGED <<dir, pend, remote>>,
               cache' = cache \/ cache' = [cache EXCEPT ![n] = NoLine]
        PROVE  BlockOK' /\ RemoteOK'
    <3>1. NoLine \in Line
      BY Zenon, <1>1, LineTypes
    <3>2. dir' \in Entry(Remote) /\ cache' \in [Remote -> Line] /\ pend' \in [Node -> Work]
      BY Zenon, <1>1, <2>2, <3>1
    <3> QED BY Zenon, <1>1, <1>3, <2>2, <3>2, AnswerBothTypes
  <2>3. ASSUME NEW hs, hs = DataImm(l.data) \/ hs = <<Msg("IMM")>>,
               \/ chan' = Post(c, n, Home, hs)
               \/ chan' = Post(Post(c, n, m.pwid, DataImm(l.data)), n, Home, hs),
               GiveAway(n, CacheInTransition(l)), UNCHANGED <<dir, remote>>
        PROVE  BlockOK' /\ RemoteOK'
    <3>1. dir' \in Entry(Remote) /\ cache' \in [Remote -> Line] /\ pend' \in [Node -> Work]
      BY Zenon, <1>1, <2>3, GiveAwayTypes
    <3> QED BY ZenonT(60), <1>1, <1>3, <2>3, <3>1, AnswerBothTypes
  <2>4. CASE m.op \in {"INVALIDATE", "INVALIDATE_FORWARD"}
    BY Zenon, <1>2, <1>4, <2>1, <2>2, <2>4 DEF ProcessRemoteWriteCache, Answer
  <2>5. CASE m.op = "FETCH_AND_INVALIDATE"
    BY Zenon, <1>2, <1>4, <2>1, <2>3, <2>5 DEF ProcessRemoteWriteCache
  <2>6. CASE m.op = "WRITE_FORWARD"
    BY Zenon, <1>2, <1>4, <2>1, <2>3, <2>6 DEF ProcessRemoteWriteCache
  <2> QED BY Zenon, <1>6, <2>4, <2>5, <2>6
<1> QED BY Zenon, <1>5, <1>6 DEF Message, ToCache

\* ProcessRequest keeps the types, wherever it runs.
LEMMA RequestTypes ==
  ASSUME BlockOK, RemoteOK, NEW n \in Node, NEW s, n = Home => s \in Remote,
         NEW m \in Message(ServedBy(n)), NEW c, ChanOK(c), ProcessRequest(n, s, m, c)
  PROVE  BlockOK' /\ RemoteOK'
<1>1. CASE n = Home
  BY Zenon, <1>1, HomeRequestTypes DEF ServedBy
<1>2. CASE n # Home
  BY Zenon, <1>2, CacheRequestTypes DEF ServedBy, Node
<1> QED BY Zenon, <1>1, <1>2

-----------------------------------------------------------------------------
(* Replies *)

ServingOK ==
  /\ DOMAIN serving = Actor
  /\ \A a \in Actor :
       serving[a] \in [todo : {"NONE", "LOCAL", "REMOTE"}, lq : Seq(Request),
                      rq : Seq(Queued(NodeOf(a)))]

\* The type invariant, by who changes what.
LEMMA TypeParts == TypeOK <=> LocalOK /\ RemoteOK /\ ServingOK /\ issued \in [Thread -> Data]
BY Zenon DEF TypeOK, LocalOK, BlockOK, ThreadsOK, RemoteOK, ServingOK

\* ProcessToServeRequest sets the task of its thread and nothing else.
LEMMA ToServeTypes ==
  ASSUME ServingOK, NEW a \in Actor, ProcessToServeRequest(a)
  PROVE  ServingOK'
BY Zenon DEF ServingOK, ProcessToServeRequest

\* A line is changed in place; the cache of Home has none.
LEMMA SetLineTypes ==
  ASSUME cache \in [Remote -> Line], NEW n \in Node, NEW l, n \in Remote => l \in Line
  PROVE  [cache EXCEPT ![n] = l] \in [Remote -> Line]
BY Zenon

\* The operation of a pending work tells which of its fields exist.
LEMMA WorkKinds ==
  ASSUME NEW w \in Work
  PROVE  /\ w.op \in ReadWork \cup WriteWork =>
              w.req \in Request /\ w.counter \in Int /\ w.failed \in BOOLEAN
         /\ w.op \in {"READ_FORWARD", "WRITE_FORWARD", "INVALIDATE_FORWARD"} =>
              w.pwid \in Remote /\ w.counter \in Int /\ w.failed \in BOOLEAN
BY Zenon DEF Work, ReadWork, WriteWork

\* Counting down and marking as failed keep a pending work well formed.
LEMMA WorkChanges ==
  ASSUME NEW w \in Work, w.op \in WriteWork \cup {"INVALIDATE_FORWARD"}, NEW k \in Int
  PROVE  /\ [w EXCEPT !.counter = k] \in Work /\ [w EXCEPT !.counter = k].op = w.op
         /\ [w EXCEPT !.failed = TRUE, !.counter = k] \in Work
         /\ [w EXCEPT !.failed = TRUE, !.counter = k].op = w.op
<1>1. CASE w.op \in WriteWork
  <2>1. w \in [op : ReadWork \cup WriteWork, req : Request, counter : Int, failed : BOOLEAN]
    BY Zenon, <1>1 DEF Work, WriteWork
  <2>2. [w EXCEPT !.counter = k].op = w.op /\ [w EXCEPT !.failed = TRUE, !.counter = k].op = w.op
    BY Zenon, <2>1
  <2>3. [w EXCEPT !.counter = k] \in Work
    BY Zenon, <2>1 DEF Work
  <2>4. [w EXCEPT !.failed = TRUE, !.counter = k] \in Work
    BY Zenon, <2>1 DEF Work
  <2> QED BY Zenon, <2>2, <2>3, <2>4
<1>2. CASE w.op = "INVALIDATE_FORWARD"
  <2>1. w \in [op : {"READ_FORWARD", "WRITE_FORWARD", "INVALIDATE_FORWARD"}, pwid : Remote,
               parent : {"READ", "WRITE", "WRITE_PERMISSION_ONLY"}, counter : Int,
               failed : BOOLEAN]
    BY Zenon, <1>2 DEF Work, ReadWork, WriteWork
  <2>2. [w EXCEPT !.counter = k].op = w.op /\ [w EXCEPT !.failed = TRUE, !.counter = k].op = w.op
    BY Zenon, <2>1
  <2>3. [w EXCEPT !.counter = k] \in Work
    BY Zenon, <2>1 DEF Work
  <2>4. [w EXCEPT !.failed = TRUE, !.counter = k] \in Work
    BY Zenon, <2>1 DEF Work
  <2> QED BY Zenon, <2>2, <2>3, <2>4
<1> QED BY Zenon, <1>1, <1>2

\* The work of n is over and n goes on to the queued requests.
LEMMA EndedTypes ==
  ASSUME TypeOK, NEW n \in Node, dir' \in Entry(Remote), mem' \in Data,
         cache' \in [Remote -> Line], ChanOK(chan'), ThreadsOK', done' \in Data,
         local' \in [Node -> Seq(Request)],
         EndWork(n), ProcessToServeRequest(n), UNCHANGED <<remote, issued>>
  PROVE  TypeOK'
<1>1. pend' \in [Node -> Work]
  BY Zenon DEF EndWork, NoWork, Work, TypeOK
<1>2. ServingOK'
  BY Zenon, TypeParts, ToServeTypes DEF Actor
<1>3. RemoteOK' /\ issued' \in [Thread -> Data]
  BY Zenon, TypeParts DEF RemoteOK
<1> QED BY Zenon, <1>1, <1>2, <1>3 DEF TypeOK, ThreadsOK, RemoteOK, ServingOK

\* A work that still misses answers is kept (ProcessPendingWrite).
LEMMA KeepTypes ==
  ASSUME TypeOK, NEW n \in Node, NEW w \in Work, NEW d \in Entry(Remote), NEW c, ChanOK(c),
         KeepWork(n, w, d, c)
  PROVE  TypeOK'
BY Zenon DEF TypeOK, KeepWork, threads

\* The failed case of a write (ProcessPendingWrite, ProcessRemoteWriteReply).
LEMMA WriteFailedTypes ==
  ASSUME TypeOK, NEW n \in Node, NEW w \in Work, w.op \in WriteWork, NEW d \in Entry(Remote),
         NEW c, ChanOK(c), WriteFailed(n, w, d, c)
  PROVE  TypeOK'
<1>1. CASE w.counter # 0
  BY Zenon, <1>1, KeepTypes DEF WriteFailed
<1>2. CASE w.counter = 0
  <2>1. dir' \in Entry(Remote)
    BY Zenon, <1>2, DirTypes DEF WriteFailed
  <2>2. cache' \in [Remote -> Line]
    <3>1. NoLine \in Line /\ (n \in Remote => CacheUndoShared(cache[n]) \in Line)
      BY LineTypes DEF TypeOK, Line, CacheState, NoLine, Data
    <3> QED BY ZenonT(60), <1>2, <3>1, SetLineTypes DEF WriteFailed, TypeOK
  <2>3. ThreadsOK'
    <3>1. w.req \in Request /\ FALSE \in BOOLEAN /\ {} \in Data
      BY Zenon, WorkKinds DEF Data
    <3> QED BY Zenon, <1>2, <3>1, NotifyTypes, TypeParts DEF WriteFailed, LocalOK
  <2> QED BY ZenonT(60), <1>2, <2>1, <2>2, <2>3, EndedTypes DEF WriteFailed, TypeOK
<1> QED BY Zenon, <1>1, <1>2

\* A write or a write lock that has all its answers (ProcessPendingWrite).
LEMMA WriteDoneTypes ==
  ASSUME TypeOK, NEW n \in Node, NEW w \in Work, w.op \in WriteWork, NEW d \in Entry(Remote),
         NEW c, ChanOK(c), WriteDone(n, w, d, c)
  PROVE  TypeOK'
<1> DEFINE r    == w.req
           new  == IF r.op = "WRITE" THEN {r.w} ELSE {}
           line == [CacheToDirty(cache[n]) EXCEPT !.data = @ \cup new]
           ent  == DirToUnShared(d)
           lock == r.op = "WLOCK"
           can  == IF n = Home THEN DirCanWLock(ent) ELSE ~CacheBlockLocked(line)
<1>1. r \in Request /\ TRUE \in BOOLEAN /\ {} \in Data
  BY Zenon, WorkKinds DEF Data
<1>2. new \in Data
  BY Zenon, <1>1 DEF Data, Request
<1>3. ent \in Entry(Remote) /\ DirWLock(ent) \in Entry(Remote)
  BY Zenon, DirDropTypes, DirTypes
<1>4. n \in Remote => line \in Line /\ CacheWLock(line) \in Line
  <2> SUFFICES ASSUME n \in Remote
               PROVE  line \in Line /\ CacheWLock(line) \in Line
    BY Zenon
  <2>1. CacheToDirty(cache[n]) \in Line
    BY Zenon, LineTypes DEF TypeOK
  <2>2. CacheToDirty(cache[n]).data \cup new \in Data
    BY Zenon, <1>2, <2>1 DEF Line, Data
  <2>3. line \in Line
    BY Zenon, <2>1, <2>2, LineTypes
  <2> QED BY Zenon, <2>3, LineTypes
<1>5. /\ IF n = Home
         THEN /\ dir' = IF lock /\ can THEN DirWLock(ent) ELSE ent
              /\ mem' = mem \cup new
              /\ UNCHANGED cache
         ELSE /\ cache' = [cache EXCEPT ![n] = IF lock /\ can THEN CacheWLock(line) ELSE line]
              /\ UNCHANGED <<dir, mem>>
      /\ done' = done \cup new
      /\ IF lock /\ ~can THEN Suspend(r) ELSE Notify(r, TRUE, {})
      /\ EndWork(n)
      /\ chan' = c
      /\ ProcessToServeRequest(n)
      /\ local' = IF lock /\ ~can THEN [local EXCEPT ![n] = Append(@, r)] ELSE local
      /\ UNCHANGED <<remote, issued>>
  BY Zenon DEF WriteDone
<1> HIDE DEF r, new, line, ent, lock, can
<1>6. dir' \in Entry(Remote) /\ cache' \in [Remote -> Line]
  <2>1. CASE n = Home
    BY Zenon, <1>3, <1>5, <2>1 DEF TypeOK
  <2>2. CASE n # Home
    BY ZenonT(60), <1>4, <1>5, <2>2 DEF TypeOK, Node
  <2> QED BY Zenon, <2>1, <2>2
<1>7. mem' \in Data /\ done' \in Data
  BY Zenon, <1>2, <1>5 DEF TypeOK, Data
<1>8. ThreadsOK'
  BY ZenonT(60), <1>1, <1>5, NotifyTypes, SuspendTypes, TypeParts DEF LocalOK
<1>9. local' \in [Node -> Seq(Request)]
  <2>1. Append(local[n], r) \in Seq(Request)
    BY <1>1 DEF TypeOK
  <2> QED BY Zenon, <1>5, <2>1 DEF TypeOK
<1> QED BY ZenonT(60), <1>5, <1>6, <1>7, <1>8, <1>9, EndedTypes

\* A refused invalidation on behalf of another worker (ProcessRemoteWriteReply).
LEMMA InvalidateForwardFailedTypes ==
  ASSUME TypeOK, NEW w \in Work, w.op = "INVALIDATE_FORWARD", NEW d \in Entry(Remote),
         NEW c, ChanOK(c), InvalidateForwardFailed(w, d, c)
  PROVE  TypeOK'
<1>1. Home \in Node /\ w.pwid \in Node /\ w.pwid # Home
  BY Zenon, WorkKinds, RemoteIsNode
<1>2. CASE w.counter # 0
  BY Zenon, <1>1, <1>2, KeepTypes DEF InvalidateForwardFailed
<1>3. CASE w.counter = 0
  <2>1. dir' \in Entry(Remote)
    BY Zenon, <1>3, DirTypes DEF InvalidateForwardFailed
  <2>2. <<Refuse("WRITE_REPLY")>> \in Seq(Inbox(w.pwid))
    BY Zenon, <1>1, ReplyTypes DEF Reply, Data
  <2>3. ChanOK(chan')
    BY ZenonT(60), <1>1, <1>3, <2>2, PostTypes DEF InvalidateForwardFailed
  <2>4. ThreadsOK'
    BY Zenon, <1>3, TypeParts DEF InvalidateForwardFailed, threads, ThreadsOK, LocalOK
  <2> QED BY ZenonT(60), <1>1, <1>3, <2>1, <2>3, <2>4, EndedTypes DEF InvalidateForwardFailed, TypeOK
<1> QED BY Zenon, <1>2, <1>3

\* Home is done with a request that it passed on: only the directory entry and
\* what is sent differ from one kind to the other.
LEMMA ForwardedTypes ==
  ASSUME TypeOK, dir' \in Entry(Remote), ChanOK(chan'), NEW n \in Node, EndWork(n),
         ProcessToServeRequest(n), UNCHANGED <<mem, cache, local, remote, threads, done, issued>>
  PROVE  TypeOK'
<1>1. ThreadsOK'
  BY Zenon, TypeParts DEF threads, ThreadsOK, LocalOK
<1> QED BY Zenon, <1>1, EndedTypes DEF TypeOK

\* ProcessRemoteWriteReply keeps the types.
LEMMA WriteReplyTypes ==
  ASSUME TypeOK, NEW n \in Node, NEW s \in Node, n = Home => s \in Remote, NEW c, ChanOK(c),
         NEW m, ProcessRemoteWriteReply(n, s, m, c)
  PROVE  TypeOK'
<1> DEFINE p == pend[n]
           w == [p EXCEPT !.failed = TRUE, !.counter = IF s = Home THEN 0 ELSE @ - 1]
<1>1. p \in Work /\ dir \in Entry(Remote)
  BY Zenon DEF TypeOK
<1>2. p.op \in WriteWork \cup {"INVALIDATE_FORWARD"} => w \in Work /\ w.op = p.op
  <2>1. p.op \in WriteWork \cup {"INVALIDATE_FORWARD"} =>
          (IF s = Home THEN 0 ELSE p.counter - 1) \in Int
    BY <1>1, WorkKinds
  <2> QED BY Zenon, <1>1, <2>1, WorkChanges
<1>3. CASE m.ok /\ p.op \in WriteWork
  BY ZenonT(60), <1>1, <1>3, WriteDoneTypes, KeepTypes DEF ProcessRemoteWriteReply, WriteWork
<1>4. CASE ~m.ok /\ p.op \in WriteWork
  <2>1. WriteFailed(n, w, dir, c)
    BY Zenon, <1>4 DEF ProcessRemoteWriteReply, WriteWork
  <2> QED BY ZenonT(60), <1>1, <1>2, <1>4, <2>1, WriteFailedTypes
<1>5. CASE ~m.ok /\ p.op = "INVALIDATE_FORWARD"
  <2>1. InvalidateForwardFailed(w, dir, c)
    BY Zenon, <1>5 DEF ProcessRemoteWriteReply, WriteWork
  <2> QED BY ZenonT(60), <1>1, <1>2, <1>5, <2>1, InvalidateForwardFailedTypes
<1>6. CASE /\ ~m.ok /\ p.op = "WRITE_FORWARD"
  <2>1. p.pwid \in Remote /\ p.pwid \in Node /\ p.pwid # Home
    BY Zenon, <1>1, <1>6, WorkKinds, RemoteIsNode
  <2>2. <<Msg("IMM")>> \in Seq(Inbox(p.pwid))
    BY Zenon, <2>1, ReplyTypes DEF Reply, Data
  <2>3. /\ dir' = DirUndoDirty(dir) /\ chan' = Post(c, n, p.pwid, <<Msg("IMM")>>)
        /\ EndWork(n) /\ ProcessToServeRequest(n)
        /\ UNCHANGED <<mem, cache, local, remote, threads, done, issued>>
    BY Zenon, <1>6 DEF ProcessRemoteWriteReply, WriteWork
  <2>4. ChanOK(chan')
    BY ZenonT(60), <2>1, <2>2, <2>3, PostTypes
  <2>5. dir' \in Entry(Remote)
    BY Zenon, <1>1, <2>3, DirTypes
  <2> QED BY Zenon, <2>3, <2>4, <2>5, ForwardedTypes
<1> QED BY ZenonT(60), <1>3, <1>4, <1>5, <1>6 DEF ProcessRemoteWriteReply

\* ProcessRemoteReadReply keeps the types.
LEMMA ReadReplyTypes ==
  ASSUME TypeOK, NEW n \in Node, NEW c, ChanOK(c), ProcessRemoteReadReply(n, c)
  PROVE  TypeOK'
<1>1. pend[n] \in Work /\ dir \in Entry(Remote) /\ cache \in [Remote -> Line]
  BY Zenon DEF TypeOK
<1>2. dir' \in Entry(Remote)
  BY ZenonT(60), <1>1, DirTypes DEF ProcessRemoteReadReply
<1>3. cache' \in [Remote -> Line]
  <2>1. NoLine \in Line
    BY DEF Line, CacheState, NoLine, Data
  <2> QED BY ZenonT(60), <1>1, <2>1, SetLineTypes DEF ProcessRemoteReadReply
<1>4. ThreadsOK'
  <2>1. CASE pend[n].op = "READ_FORWARD"
    BY Zenon, <2>1, TypeParts DEF ProcessRemoteReadReply, threads, ThreadsOK, LocalOK
  <2>2. CASE pend[n].op \in ReadWork
    <3>1. pend[n].req \in Request /\ FALSE \in BOOLEAN /\ {} \in Data
      BY Zenon, <1>1, <2>2, WorkKinds DEF Data
    <3>2. Notify(pend[n].req, FALSE, {})
      BY Zenon, <2>2 DEF ProcessRemoteReadReply, ReadWork
    <3> QED BY ZenonT(60), <3>1, <3>2, NotifyTypes, TypeParts DEF LocalOK
  <2> QED BY Zenon, <2>1, <2>2 DEF ProcessRemoteReadReply
<1> QED BY ZenonT(60), <1>2, <1>3, <1>4, EndedTypes DEF ProcessRemoteReadReply, TypeOK

\* ProcessPendingRead keeps the types.
LEMMA PendingReadTypes ==
  ASSUME TypeOK, NEW n \in Node, NEW c, ChanOK(c), ProcessPendingRead(n, c)
  PROVE  TypeOK'
<1> DEFINE r == pend[n].req
<1>1. r \in Request /\ TRUE \in BOOLEAN
  BY Zenon, WorkKinds DEF TypeOK, ProcessPendingRead
<1>2. dir' \in Entry(Remote)
  <2>1. DirOwnerToShared(dir) \in Entry(Remote) /\ DirRLock(DirOwnerToShared(dir)) \in Entry(Remote)
    BY Zenon, DirTypes DEF TypeOK
  <2> QED BY Zenon, <2>1 DEF ProcessPendingRead, TypeOK
<1>3. CASE n = Home
  <2>1. Notify(r, TRUE, mem) /\ cache' = cache
    BY Zenon, <1>3 DEF ProcessPendingRead
  <2>2. ThreadsOK'
    BY ZenonT(60), <1>1, <2>1, NotifyTypes, TypeParts DEF LocalOK, BlockOK
  <2> QED BY ZenonT(60), <1>2, <2>1, <2>2, EndedTypes DEF ProcessPendingRead, TypeOK
<1>4. CASE n # Home
  <2>1. n \in Remote /\ cache[n] \in Line /\ cache[n].data \in Data
    BY Zenon, <1>4 DEF TypeOK, Node, Line
  <2>2. CacheToShared(cache[n]) \in Line /\ CacheRLock(CacheToShared(cache[n])) \in Line
    BY Zenon, <2>1, LineTypes
  <2>3. cache' \in [Remote -> Line]
    BY Zenon, <1>4, <2>2 DEF ProcessPendingRead, TypeOK
  <2>4. Notify(r, TRUE, cache[n].data)
    BY Zenon, <1>4 DEF ProcessPendingRead
  <2>5. ThreadsOK'
    BY ZenonT(60), <1>1, <2>1, <2>4, NotifyTypes, TypeParts DEF LocalOK
  <2> QED BY ZenonT(60), <1>2, <2>3, <2>5, EndedTypes DEF ProcessPendingRead, TypeOK
<1> QED BY Zenon, <1>3, <1>4

\* ProcessPendingWrite keeps the types.
LEMMA PendingWriteTypes ==
  ASSUME TypeOK, NEW n \in Node, NEW s \in Node, NEW c, ChanOK(c), ProcessPendingWrite(n, s, c)
  PROVE  TypeOK'
<1> DEFINE w == [pend[n] EXCEPT !.counter = IF s = Home THEN @ + 1 ELSE @ - 1]
           d == IF n = Home THEN DirRemove(dir, s) ELSE dir
<1>1. pend[n] \in Work /\ pend[n].op \in WriteWork
  BY Zenon DEF TypeOK, ProcessPendingWrite
<1>2. w \in Work /\ w.op \in WriteWork
  <2>1. (IF s = Home THEN pend[n].counter + 1 ELSE pend[n].counter - 1) \in Int
    BY <1>1, WorkKinds
  <2> QED BY ZenonT(60), <1>1, <2>1, WorkChanges
<1>3. d \in Entry(Remote)
  BY Zenon, DirDropTypes DEF TypeOK
<1>4. WriteFailed(n, w, d, c) \/ WriteDone(n, w, d, c) \/ KeepWork(n, w, d, c)
  BY Zenon DEF ProcessPendingWrite
<1> HIDE DEF w, d
<1> QED BY ZenonT(60), <1>2, <1>3, <1>4, WriteFailedTypes, WriteDoneTypes, KeepTypes

\* ProcessPendingInvalidateForward keeps the types.
LEMMA PendingInvalidateForwardTypes ==
  ASSUME TypeOK, NEW s, NEW c, ChanOK(c), ProcessPendingInvalidateForward(s, c)
  PROVE  TypeOK'
<1> DEFINE w == [pend[Home] EXCEPT !.counter = @ - 1]
           d == DirRemove(dir, s)
           data == [Msg("RDMA_WRITE") EXCEPT !.data = mem]
           ms == IF w.parent = "WRITE" \/ d.state = "UNSHARED"
                 THEN <<data, Msg("WRITE_REPLY")>> ELSE <<Msg("WRITE_REPLY")>>
<1>1. pend[Home] \in Work /\ pend[Home].op = "INVALIDATE_FORWARD" /\ Home \in Node /\ mem \in Data
  BY Zenon, RemoteIsNode DEF TypeOK, ProcessPendingInvalidateForward
<1>2. w \in Work /\ w.op = "INVALIDATE_FORWARD"
  <2>1. pend[Home].counter - 1 \in Int
    BY <1>1, WorkKinds
  <2> QED BY ZenonT(60), <1>1, <2>1, WorkChanges
<1>3. d \in Entry(Remote)
  BY Zenon, DirDropTypes DEF TypeOK
<1>4. w.pwid \in Remote /\ w.pwid \in Node /\ w.pwid # Home
  BY Zenon, <1>2, WorkKinds, RemoteIsNode
<1>5. ms \in Seq(Inbox(w.pwid))
  BY Zenon, <1>1, <1>4, ReplyTypes DEF Reply
<1>6. \/ InvalidateForwardFailed(w, d, c)
      \/ KeepWork(Home, w, d, c)
      \/ /\ dir' = DirToDirty(d, w.pwid)
         /\ chan' = Post(c, Home, w.pwid, ms)
         /\ EndWork(Home)
         /\ ProcessToServeRequest(Home)
         /\ UNCHANGED <<mem, cache, local, remote, threads, done, issued>>
  BY Zenon DEF ProcessPendingInvalidateForward
<1> HIDE DEF w, d, ms
<1>7. DirToDirty(d, w.pwid) \in Entry(Remote)
  BY Zenon, <1>3, <1>4, DirShareTypes
<1>8. ChanOK(Post(c, Home, w.pwid, ms))
  BY Zenon, <1>1, <1>4, <1>5, PostTypes
<1> QED BY ZenonT(60), <1>1, <1>2, <1>3, <1>6, <1>7, <1>8, InvalidateForwardFailedTypes, KeepTypes,
           ForwardedTypes

\* Every answer keeps the types (ProcessRequest, ProcessPendingRequest).
LEMMA ReplyHandlerTypes ==
  ASSUME TypeOK, NEW n \in Node, NEW s \in Node, n = Home => s \in Remote, NEW c, ChanOK(c),
         NEW m, m.op \in Reply, ProcessReply(n, s, m, c)
  PROVE  TypeOK'
<1>1. CASE m.op = "READ_REPLY"
  BY Zenon, <1>1, ReadReplyTypes DEF ProcessReply
<1>2. CASE m.op = "WRITE_REPLY"
  BY Zenon, <1>2, WriteReplyTypes DEF ProcessReply
<1>3. CASE m.op = "IMM"
  <2>1. dir \in Entry(Remote) /\ pend[Home] \in Work /\ Home \in Node
    BY Zenon, RemoteIsNode DEF TypeOK
  <2>2. ASSUME ProcessPendingReadForward(c)
        PROVE  TypeOK'
    <3>1. pend[Home].pwid \in Remote
      BY Zenon, <2>1, <2>2, WorkKinds DEF ProcessPendingReadForward
    <3>2. DirToShared(DirOwnerToShared(dir), pend[Home].pwid) \in Entry(Remote)
      BY Zenon, <2>1, <3>1, DirTypes, DirShareTypes
    <3> QED BY Zenon, <2>1, <2>2, <3>2, ForwardedTypes DEF ProcessPendingReadForward
  <2>3. ASSUME ProcessPendingWriteForward(c)
        PROVE  TypeOK'
    <3>1. pend[Home].pwid \in Remote /\ pend[Home].pwid \in Node /\ pend[Home].pwid # Home
      BY Zenon, <2>1, <2>3, WorkKinds, RemoteIsNode DEF ProcessPendingWriteForward
    <3>2. DirToDirty(dir, pend[Home].pwid) \in Entry(Remote)
      BY Zenon, <2>1, <3>1, DirShareTypes
    <3>3. <<Msg("IMM")>> \in Seq(Inbox(pend[Home].pwid))
      BY Zenon, <3>1, ReplyTypes DEF Reply, Data
    <3>4. ChanOK(Post(c, Home, pend[Home].pwid, <<Msg("IMM")>>))
      BY ZenonT(60), <2>1, <3>1, <3>3, PostTypes
    <3> QED BY ZenonT(60), <2>1, <2>3, <3>2, <3>4, ForwardedTypes DEF ProcessPendingWriteForward
  <2>4. ASSUME ProcessPendingEvictDirty(n, c)
        PROVE  TypeOK'
    <3>1. NoLine \in Line
      BY DEF Line, CacheState, NoLine, Data
    <3>2. cache' \in [Remote -> Line]
      BY ZenonT(60), <2>4, <3>1 DEF ProcessPendingEvictDirty, TypeOK
    <3>3. ThreadsOK'
      BY Zenon, <2>4, TypeParts DEF ProcessPendingEvictDirty, threads, ThreadsOK, LocalOK
    <3> QED BY ZenonT(60), <2>4, <3>2, <3>3, EndedTypes DEF ProcessPendingEvictDirty, TypeOK
  <2> QED BY ZenonT(60), <1>3, <2>2, <2>3, <2>4, PendingReadTypes, PendingWriteTypes,
             PendingInvalidateForwardTypes DEF ProcessReply
<1> QED BY Zenon, <1>1, <1>2, <1>3 DEF Reply

-----------------------------------------------------------------------------
(* The actions *)

\* A call of the application keeps the types.
LEMMA CallTypes ==
  ASSUME TypeOK, NEW t \in Thread, Call(t)
  PROVE  TypeOK'
<1> DEFINE k == Cardinality(UNION {issued[u] : u \in Thread}) + 1
<1>1. k \in Nat \ {0}
  <2>1. UNION {issued[u] : u \in Thread} \subseteq 1 .. MaxWrites
    BY DEF TypeOK, Data, Write
  <2>2. IsFiniteSet(1 .. MaxWrites)
    BY FS_Interval, CoherenceAssumption
  <2>3. Cardinality(UNION {issued[u] : u \in Thread}) \in Nat
    BY Zenon, <2>1, <2>2, FS_Subset, FS_CardinalityType
  <2> QED BY SMTT(60), <2>3
<1> HIDE DEF k
<1>2. PICK call \in Calls[t][held[t]] :
        LET w == IF call[1] = "WRITE" THEN k ELSE 0
        IN  /\ call[1] = "WRITE" => w <= MaxWrites
            /\ ProcessLocalRequest(At[t], [t |-> t, op |-> call[1], try |-> call[2], w |-> w])
            /\ issued' = IF w = 0 THEN issued ELSE [issued EXCEPT ![t] = @ \cup {w}]
  BY ZenonT(60) DEF Call, k
<1> DEFINE w == IF call[1] = "WRITE" THEN k ELSE 0
           r == [t |-> t, op |-> call[1], try |-> call[2], w |-> w]
<1>3. call[1] \in {"READ", "WRITE", "RLOCK", "WLOCK"} /\ call[2] \in BOOLEAN /\ At[t] \in Node
  BY SMTT(60), CoherenceAssumption DEF TypeOK
<1>4. /\ w \in Write \cup {0} /\ (call[1] = "WRITE" <=> w # 0)
  <2>1. CASE call[1] = "WRITE"
    BY SMTT(60), <1>1, <1>2, <2>1, CoherenceAssumption DEF Write
  <2>2. CASE call[1] # "WRITE"
    BY Zenon, <2>2
  <2> QED BY Zenon, <2>1, <2>2
<1>5. /\ ProcessLocalRequest(At[t], r)
      /\ issued' = IF w = 0 THEN issued ELSE [issued EXCEPT ![t] = @ \cup {w}]
  BY ZenonT(60), <1>2
<1> HIDE DEF w
<1>6. r \in Request
  BY Zenon, <1>3, <1>4 DEF Request
<1>7. issued' \in [Thread -> Data]
  BY Zenon, <1>4, <1>5 DEF TypeOK, Data
<1> HIDE DEF r
<1>8. LocalOK'
  BY ZenonT(60), <1>3, <1>5, <1>6, LocalRequestTypes, TypeParts
<1>9. RemoteOK' /\ ServingOK'
  BY Zenon, TypeParts DEF Call, RemoteOK, ServingOK
<1> QED BY ZenonT(60), <1>7, <1>8, <1>9, TypeParts DEF TypeOK, LocalOK, BlockOK, ThreadsOK, RemoteOK, ServingOK

\* An UNLOCK keeps the types (ProcessLocalUnLock).
LEMMA UnLockTypes ==
  ASSUME TypeOK, NEW t \in Thread, UnLock(t)
  PROVE  TypeOK'
<1>1. At[t] \in Node
  BY Zenon, CoherenceAssumption
<1>2. DirUnLock(dir) \in Entry(Remote)
  BY Zenon, DirDropTypes DEF TypeOK
<1>3. At[t] \in Remote => CacheUnLock(cache[At[t]]) \in Line
  BY Zenon, LineTypes DEF TypeOK
<1>4. dir' \in Entry(Remote) /\ cache' \in [Remote -> Line]
  <2>1. CASE At[t] = Home
    BY ZenonT(60), <1>2, <2>1 DEF UnLock, TypeOK
  <2>2. CASE At[t] # Home
    <3>1. At[t] \in Remote
      BY Zenon, <1>1, <2>2 DEF Node
    <3>2. cache' = [cache EXCEPT ![At[t]] = CacheUnLock(cache[At[t]])] /\ UNCHANGED dir
      BY Zenon, <2>2 DEF UnLock
    <3> QED BY ZenonT(60), <1>3, <3>1, <3>2, SetLineTypes DEF TypeOK
  <2> QED BY Zenon, <2>1, <2>2
<1>5. ServingOK'
  BY Zenon, TypeParts, ToServeTypes DEF UnLock, Actor
<1>6. held' \in [Thread -> Lock]
  BY ZenonT(60) DEF UnLock, TypeOK, Lock
<1> QED BY ZenonT(60), <1>4, <1>5, <1>6 DEF UnLock, TypeOK, ServingOK

\* The service thread takes a message.
LEMMA ReceiveTypes ==
  ASSUME TypeOK, NEW n \in Node, NEW s \in Node, Receive(n, s)
  PROVE  TypeOK'
<1> DEFINE m == Head(chan[s][n])
           c == [chan EXCEPT ![s][n] = Tail(@)]
<1>1. m \in Inbox(n) /\ (n = Home => s \in Remote) /\ ChanOK(c)
  BY Zenon, TakeTypes DEF TypeOK, Receive
<1>2. CASE m.op \in ToHome \cup ToCache /\ ProcessRequest(n, s, m, c) /\ UNCHANGED serving
  <2>1. m \in Message(ServedBy(n))
    BY Zenon, <1>1, <1>2 DEF Inbox, Message, ServedBy, ToHome, ToCache, Reply
  <2> HIDE DEF m, c
  <2>2. BlockOK' /\ RemoteOK'
    BY ZenonT(60), <1>1, <1>2, <2>1, RequestTypes, TypeParts DEF LocalOK
  <2> QED BY Zenon, <1>2, <2>2 DEF ProcessRequest, TypeOK, BlockOK, RemoteOK, threads
<1>3. CASE m.op \in Reply /\ ProcessReply(n, s, m, c)
  <2> HIDE DEF m, c
  <2> QED BY Zenon, <1>1, <1>3, ReplyHandlerTypes
<1> QED BY Zenon, <1>2, <1>3 DEF Receive

\* The network card lands data.
LEMMA RdmaWriteTypes ==
  ASSUME TypeOK, NEW n \in Node, NEW s \in Node, RdmaWrite(n, s)
  PROVE  TypeOK'
<1> DEFINE d == Head(chan[s][n]).data
<1>1. Head(chan[s][n]) \in Inbox(n) /\ ChanOK(chan')
  BY Zenon, TakeTypes DEF TypeOK, RdmaWrite
<1>2. d \in Data
  BY Zenon, <1>1 DEF Inbox, Message
<1>3. /\ IF n = Home THEN mem' = d /\ UNCHANGED cache
                     ELSE cache' = [cache EXCEPT ![n].data = d] /\ UNCHANGED mem
      /\ UNCHANGED <<dir, pend, local, remote, serving, threads, done, issued>>
  BY Zenon DEF RdmaWrite
<1> HIDE DEF d
<1>4. n \in Remote => [cache[n] EXCEPT !.data = d] \in Line
  BY Zenon, <1>2, LineTypes DEF TypeOK
<1>5. mem' \in Data /\ cache' \in [Remote -> Line]
  <2>1. CASE n = Home
    BY ZenonT(60), <1>2, <1>3, <2>1 DEF TypeOK
  <2>2. CASE n # Home
    <3>1. n \in Remote
      BY Zenon, <2>2 DEF Node
    <3>2. cache' = [cache EXCEPT ![n] = [cache[n] EXCEPT !.data = d]] /\ UNCHANGED mem
      BY Zenon, <1>3, <2>2
    <3> QED BY ZenonT(60), <1>4, <3>1, <3>2, SetLineTypes DEF TypeOK
  <2> QED BY Zenon, <2>1, <2>2
<1> QED BY ZenonT(60), <1>1, <1>3, <1>5 DEF TypeOK, threads

\* CompletionCheck keeps the types.
LEMMA CompletionCheckTypes ==
  ASSUME TypeOK, NEW n \in Remote, CompletionCheck(n)
  PROVE  TypeOK'
<1>1. NoLine \in Line /\ n \in Node
  BY RemoteIsNode DEF Line, CacheState, NoLine, Data
<1>2. cache' \in [Remote -> Line]
  BY Zenon, <1>1 DEF CompletionCheck, TypeOK
<1>3. ThreadsOK'
  BY Zenon, TypeParts DEF CompletionCheck, threads, ThreadsOK, LocalOK
<1> QED BY ZenonT(60), <1>1, <1>2, <1>3, EndedTypes DEF CompletionCheck, TypeOK

\* Cache::Evict keeps the types.
LEMMA EvictTypes ==
  ASSUME TypeOK, NEW n \in Remote, Evict(n)
  PROVE  TypeOK'
<1>1. /\ n \in Node /\ n # Home /\ Home \in Node /\ NoLine \in Line /\ cache[n] \in Line
      /\ CacheToToInvalid(cache[n]) \in Line /\ cache[n].data \in Data
  BY ZenonT(60), RemoteIsNode, LineTypes DEF TypeOK, Line
<1>2. cache' \in [Remote -> Line]
  BY Zenon, <1>1 DEF Evict, TypeOK
<1>3. pend' \in [Node -> Work]
  <2>1. [op |-> "WRITE_BACK"] \in Work
    BY Zenon DEF Work
  <2>2. pend \in [Node -> Work]
    BY Zenon DEF TypeOK
  <2>3. pend' = pend \/ pend' = [pend EXCEPT ![n] = [op |-> "WRITE_BACK"]]
    BY Zenon DEF Evict
  <2> QED BY Zenon, <1>1, <2>1, <2>2, <2>3
<1>4. /\ <<Msg("ACTIVE_INVALIDATE")>> \in Seq(Inbox(Home))
      /\ <<[Msg("RDMA_WRITE") EXCEPT !.data = cache[n].data], Msg("WRITE_BACK")>>
           \in Seq(Inbox(Home))
  <2> DEFINE ops == ServedBy(Home) \cup Reply \cup {"RDMA_WRITE"}
  <2>1. "ACTIVE_INVALIDATE" \in ops /\ "WRITE_BACK" \in ops /\ "RDMA_WRITE" \in ops
    BY Zenon DEF ServedBy, ToHome
  <2>2. TRUE \in BOOLEAN
    BY Zenon
  <2>3. \A op \in ops : Msg(op) \in Inbox(Home)
                        /\ [Msg(op) EXCEPT !.data = cache[n].data] \in Inbox(Home)
    BY Zenon, <1>1, <2>2, MsgTypes DEF Inbox
  <2> HIDE DEF ops
  <2> QED BY Zenon, <2>1, <2>3, OneAndTwo
<1>5. ChanOK(chan')
  <2>1. ChanOK(chan)
    BY Zenon DEF TypeOK
  <2>2. \/ chan' = Post(chan, n, Home, <<Msg("ACTIVE_INVALIDATE")>>)
        \/ chan' = Post(chan, n, Home, <<[Msg("RDMA_WRITE") EXCEPT !.data = cache[n].data],
                                         Msg("WRITE_BACK")>>)
    BY Zenon DEF Evict
  <2> QED BY ZenonT(60), <1>1, <1>4, <2>1, <2>2, PostTypes
<1> QED BY ZenonT(60), <1>2, <1>3, <1>5 DEF Evict, TypeOK, threads

\* Every thread runs at a worker.
LEMMA ActorAt ==
  ASSUME NEW a \in Actor
  PROVE  NodeOf(a) \in Node
BY Zenon, CoherenceAssumption DEF Actor, NodeOf

\* A thread copies the queues of the block (ProcessToServeRequest).
LEMMA CopyTypes ==
  ASSUME TypeOK, NEW a \in Actor, CopyLocal(a) \/ CopyRemote(a)
  PROVE  TypeOK'
<1> DEFINE n == NodeOf(a)
<1>1. n \in Node /\ local[n] \in Seq(Request) /\ remote[n] \in Seq(Queued(n))
  BY Zenon, ActorAt DEF TypeOK
<1>2. local' \in [Node -> Seq(Request)]
  <2>1. local \in [Node -> Seq(Request)] /\ <<>> \in Seq(Request)
    BY DEF TypeOK
  <2>2. local' = local \/ local' = [local EXCEPT ![n] = <<>>]
    BY Zenon DEF CopyLocal, CopyRemote
  <2> QED BY ZenonT(60), <2>1, <2>2
<1>3. DOMAIN remote' = Node /\ \A k \in Node : remote'[k] \in Seq(Queued(k))
  <2>1. DOMAIN remote = Node /\ \A k \in Node : remote[k] \in Seq(Queued(k))
    BY Zenon DEF TypeOK
  <2>2. remote' = remote \/ remote' = [remote EXCEPT ![n] = <<>>]
    BY Zenon DEF CopyLocal, CopyRemote
  <2>3. \A k \in Node : <<>> \in Seq(Queued(k))
    OBVIOUS
  <2> HIDE DEF n
  <2>4. DOMAIN remote' = Node
    BY Zenon, <2>1, <2>2
  <2>5. ASSUME NEW k \in Node
        PROVE  remote'[k] = remote[k] \/ remote'[k] = <<>>
    BY Zenon, <2>1, <2>2
  <2> QED BY ZenonT(60), <2>1, <2>3, <2>4, <2>5
<1>4. ServingOK'
  <2>1. CASE CopyLocal(a)
    BY ZenonT(60), <1>1, <2>1 DEF CopyLocal, TypeOK, ServingOK
  <2>2. CASE CopyRemote(a)
    BY ZenonT(60), <1>1, <2>2 DEF CopyRemote, TypeOK, ServingOK
  <2> QED BY Zenon, <2>1, <2>2
<1> QED BY ZenonT(60), <1>2, <1>3, <1>4 DEF CopyLocal, CopyRemote, TypeOK, threads, ServingOK

\* A queued call is processed again.
LEMMA ServeLocalTypes ==
  ASSUME TypeOK, NEW a \in Actor, ServeLocal(a)
  PROVE  TypeOK'
<1>1. NodeOf(a) \in Node
  BY Zenon, ActorAt
<1>2. serving[a].lq \in Seq(Request) /\ serving[a].lq # <<>>
  BY Zenon DEF TypeOK, ServeLocal
<1>3. Head(serving[a].lq) \in Request /\ Tail(serving[a].lq) \in Seq(Request)
  BY <1>2
<1>4. LocalOK'
  BY ZenonT(60), <1>1, <1>3, LocalRequestTypes, TypeParts DEF ServeLocal
<1>5. ServingOK'
  BY ZenonT(60), <1>3 DEF ServeLocal, TypeOK, ServingOK
<1> QED BY Zenon, <1>4, <1>5 DEF ServeLocal, TypeOK, LocalOK, BlockOK, ThreadsOK, ServingOK

\* A queued request is processed again.
LEMMA ServeRemoteTypes ==
  ASSUME TypeOK, NEW a \in Actor, ServeRemote(a)
  PROVE  TypeOK'
<1> DEFINE n == NodeOf(a)
           q == Head(serving[a].rq)
<1>1. n \in Node
  BY Zenon, ActorAt
<1>2. serving[a].rq \in Seq(Queued(n)) /\ serving[a].rq # <<>>
  BY Zenon DEF TypeOK, ServeRemote
<1>3. q \in Queued(n) /\ Tail(serving[a].rq) \in Seq(Queued(n))
  BY <1>2
<1>4. q.msg \in Message(ServedBy(n)) /\ (n = Home => q.from \in Remote)
  BY Zenon, <1>3 DEF Queued
<1>5. ProcessRequest(n, q.from, q.msg, chan)
  BY Zenon DEF ServeRemote
<1>6. ServingOK'
  BY ZenonT(60), <1>3 DEF ServeRemote, TypeOK, ServingOK
<1> HIDE DEF n, q
<1>7. BlockOK' /\ RemoteOK'
  BY Zenon, <1>1, <1>4, <1>5, RequestTypes, TypeParts DEF LocalOK, BlockOK
<1> QED BY ZenonT(60), <1>5, <1>6, <1>7 DEF ProcessRequest, TypeOK, BlockOK, RemoteOK, ServingOK, threads

-----------------------------------------------------------------------------
\* In every behaviour, for any number of workers and threads and any calls, every
\* variable keeps its type.  In particular a worker is only ever sent requests that it
\* serves, what the home worker forwards is a request of another worker, a pending work
\* carries the call or the requester that its completion needs, and no worker sends to
\* itself, so every handler finds what it reads.
THEOREM TypeCorrect == Spec => []TypeOK
<1>1. Init => TypeOK
  <2> SUFFICES ASSUME Init
               PROVE  TypeOK
    BY Zenon
  <2>1. dir \in Entry(Remote) /\ mem \in Data /\ done \in Data
    BY SMTT(60) DEF Init, NoEntry, Entry, DirState, Data
  <2>2. cache \in [Remote -> Line] /\ pend \in [Node -> Work]
    BY DEF Init, NoLine, Line, CacheState, Data, NoWork, Work
  <2>3. ChanOK(chan) /\ local \in [Node -> Seq(Request)]
    BY DEF Init, ChanOK, Node
  <2>4. RemoteOK /\ ServingOK
    BY DEF Init, RemoteOK, ServingOK, Idle
  <2>5. /\ waiting \in [Thread -> BOOLEAN] /\ held \in [Thread -> Lock]
        /\ seen \in [Thread -> Data] /\ issued \in [Thread -> Data]
    BY Zenon DEF Init, Lock, Data
  <2> QED BY ZenonT(60), <2>1, <2>2, <2>3, <2>4, <2>5 DEF TypeOK, RemoteOK, ServingOK
<1>2. TypeOK /\ [Next]_vars => TypeOK'
  <2> SUFFICES ASSUME TypeOK, [Next]_vars
               PROVE  TypeOK'
    BY Zenon
  <2>1. ASSUME NEW t \in Thread, Call(t) \/ UnLock(t)
        PROVE  TypeOK'
    BY Zenon, <2>1, CallTypes, UnLockTypes
  <2>2. ASSUME NEW n \in Node, NEW s \in Node, Receive(n, s) \/ RdmaWrite(n, s)
        PROVE  TypeOK'
    BY Zenon, <2>2, ReceiveTypes, RdmaWriteTypes
  <2>3. ASSUME NEW n \in Remote, CompletionCheck(n) \/ Evict(n)
        PROVE  TypeOK'
    BY Zenon, <2>3, CompletionCheckTypes, EvictTypes
  <2>4. ASSUME NEW a \in Actor, CopyLocal(a) \/ ServeLocal(a) \/ CopyRemote(a) \/ ServeRemote(a)
        PROVE  TypeOK'
    BY ZenonT(60), <2>4, CopyTypes, ServeLocalTypes, ServeRemoteTypes
  <2>5. CASE UNCHANGED vars
    BY Zenon, <2>5 DEF vars, TypeOK
  <2> QED BY ZenonT(60), <2>1, <2>2, <2>3, <2>4, <2>5 DEF Next
<1> QED BY <1>1, <1>2, PTL DEF Spec
==============================================================================

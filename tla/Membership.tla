----------------------------- MODULE Membership -----------------------------
(***************************************************************************)
(* How workers join: the exchange with the master over TCP, the exchange   *)
(* with every worker that joined before, and the memory statistics that    *)
(* make the workers known to one another (client.cc, tcp.cc, server.cc,    *)
(* master.cc, the constructor of Worker in worker.cc).                     *)
(*                                                                         *)
(* A process is the constructor of a Worker (one thread), its event loop   *)
(* thread, its service thread, or the single event loop thread of Master.  *)
(* A statistics message is kept as what Split makes of its text: a         *)
(* sequence of tokens, where a token is the sequence of the numbers that   *)
(* were printed without a separator between them.                          *)
(***************************************************************************)
EXTENDS Integers, Sequences, FiniteSets

CONSTANTS
  Joining,      \* the workers
  Master,
  CacheOnly,    \* the workers with cache_th = 1, which give no memory
  unsynced_th   \* Conf::unsynced_th: updates that are broadcast together

ASSUME MembershipAssumption ==
  /\ IsFiniteSet(Joining) /\ Master \notin Joining /\ CacheOnly \subseteq Joining
  /\ unsynced_th \in Nat \ {0}

VARIABLES
  pc,               \* where the constructor of each Worker stands
  todo,             \* workers its PostConnectMaster has still to connect to
  wid,              \* GetWorkerId(), 0 before the master has answered
  conn,             \* conn[w][s]: the connection w opened to s
  backlog,          \* connections s has not accepted yet
  widCliMap,        \* widCliMap[s][v]: the peer of the client stored under v
  rdma_context_counter, \* contexts of the master
  worker_ips,       \* the list kept by the master
  serving,          \* connection in PostAcceptWorker of the master
  toMaster,         \* requests on the queue pair from w to the master
  toWorker,         \* statistics on the queue pair from the master to w
  unsynced_workers, \* updates the master has not broadcast yet
  widCliMapWorker   \* wids with statistics, at the master and at each worker

JoinVars == <<pc, todo, wid, conn, backlog, widCliMap, rdma_context_counter,
          worker_ips, serving, toMaster, toWorker, unsynced_workers,
          widCliMapWorker>>

Servers == Joining \cup {Master}
Nobody == Master
Empty == [v \in {} |-> Master]

\* UpdateWidMap: the client is stored under the id it was told.
UpdateWidMap(s, v, peer) ==
  widCliMap' = [widCliMap EXCEPT ![s] =
    [u \in DOMAIN @ \cup {v} |-> IF u = v THEN peer ELSE @[u]]]

JoinInit ==
  /\ pc = [w \in Joining |-> "start"]
  /\ todo = [w \in Joining |-> <<>>]
  /\ wid = [w \in Joining |-> 0]
  /\ conn = [w \in Joining |-> [s \in Servers |-> "none"]]
  /\ backlog = [s \in Servers |-> <<>>]
  /\ widCliMap = [s \in Servers |-> Empty]
  /\ rdma_context_counter = 0
  /\ worker_ips = <<>>
  /\ serving = Nobody
  /\ toMaster = [w \in Joining |-> <<>>]
  /\ toWorker = [w \in Joining |-> <<>>]
  /\ unsynced_workers = <<>>
  /\ widCliMapWorker = [s \in Servers |-> {}]

rdmaVars == <<toMaster, toWorker, unsynced_workers, widCliMapWorker>>
masterVars == <<rdma_context_counter, worker_ips, serving>>

-----------------------------------------------------------------------------
(* The constructor of Worker.                                              *)

Goto(w, label) == pc' = [pc EXCEPT ![w] = label]

\* ExchConnParam opens a connection: the peer need not be accepting yet.
Open(w, s) ==
  /\ conn' = [conn EXCEPT ![w][s] = "open"]
  /\ backlog' = [backlog EXCEPT ![s] = Append(@, w)]

ConnectMaster(w) ==
  /\ pc[w] = "start"
  /\ Open(w, Master)
  /\ Goto(w, "exchange")
  /\ UNCHANGED <<todo, wid, widCliMap, masterVars, rdmaVars>>

\* Mutant of GetConnString: between workers, as towards the master.
GetConnStringZero(w) == 0

\* The id that the connection string of w carries to another worker.
GetConnString(w) == wid[w]

\* The connection string is sent.
WriteConnString(w, s) ==
  /\ conn[w][s] = "open"
  /\ conn' = [conn EXCEPT ![w][s] = "written"]
  /\ UNCHANGED <<pc, todo, wid, backlog, widCliMap, masterVars, rdmaVars>>

\* The answer of the master: the id of the worker, which is the id of its
\* client to the master.
ReadMasterAnswer(w) ==
  /\ pc[w] = "exchange" /\ conn[w][Master] = "answered"
  /\ \E v \in DOMAIN widCliMap[Master] :
       /\ widCliMap[Master][v] = w
       /\ wid' = [wid EXCEPT ![w] = v]
       /\ UpdateWidMap(w, v, Master)
  /\ Goto(w, "list")
  /\ UNCHANGED <<todo, conn, backlog, masterVars, rdmaVars>>

\* Mutant of PostConnectMaster: the list already names the worker that joins.
PostConnectMasterSelf(w) ==
  /\ pc[w] = "list"
  /\ todo' = [todo EXCEPT ![w] = Append(worker_ips, w)]
  /\ conn' = [conn EXCEPT ![w][Master] = "address"]
  /\ Goto(w, "peers")
  /\ UNCHANGED <<wid, backlog, widCliMap, masterVars, rdmaVars>>

\* PostConnectMaster reads the list, which the master has sent behind its
\* answer and does not change before it has the address of this worker; and
\* writes that address.
PostConnectMaster(w) ==
  /\ pc[w] = "list"
  /\ todo' = [todo EXCEPT ![w] = worker_ips]
  /\ conn' = [conn EXCEPT ![w][Master] = "address"]
  /\ Goto(w, "peers")
  /\ UNCHANGED <<wid, backlog, widCliMap, masterVars, rdmaVars>>

ConnectPeer(w) ==
  /\ pc[w] = "peers" /\ todo[w] # <<>> /\ conn[w][Head(todo[w])] = "none"
  /\ Open(w, Head(todo[w]))
  /\ UNCHANGED <<pc, todo, wid, widCliMap, masterVars, rdmaVars>>

ReadPeerAnswer(w) ==
  LET s == Head(todo[w]) IN
  /\ pc[w] = "peers" /\ todo[w] # <<>> /\ conn[w][s] = "answered"
  /\ UpdateWidMap(w, GetConnString(s), s)
  /\ conn' = [conn EXCEPT ![w][s] = "closed"]
  /\ todo' = [todo EXCEPT ![w] = Tail(@)]
  /\ UNCHANGED <<pc, wid, backlog, masterVars, rdmaVars>>

\* Mutant of SyncMaster: a cache-only worker offers memory like the others.
SyncMasterAlways(w, from, op, to) ==
  /\ pc[w] = from
  /\ toMaster' = [toMaster EXCEPT ![w] = Append(@, op)]
  /\ Goto(w, to)
  /\ UNCHANGED <<todo, wid, conn, backlog, widCliMap, masterVars, toWorker,
                 unsynced_workers, widCliMapWorker>>

\* SyncMaster, first with the statistics of the worker, which a cache-only one
\* does not send, then for the others'.
SyncMaster(w, from, op, to) ==
  /\ pc[w] = from
  /\ toMaster' = IF op = "UPDATE" /\ w \in CacheOnly THEN toMaster
                 ELSE [toMaster EXCEPT ![w] = Append(@, op)]
  /\ Goto(w, to)
  /\ UNCHANGED <<todo, wid, conn, backlog, widCliMap, masterVars, toWorker,
                 unsynced_workers, widCliMapWorker>>

\* Mutant of Update: the statistics are sent before the peers are connected.
UpdateEarly(w) == SyncMaster(w, "peers", "UPDATE", "fetch")

Update(w) == todo[w] = <<>> /\ SyncMaster(w, "peers", "UPDATE", "fetch")

Fetch(w) == SyncMaster(w, "fetch", "FETCH", "threads")

\* The event loop thread is created, and two seconds later the service thread.
StartThread(w) ==
  /\ \/ pc[w] = "threads" /\ Goto(w, "accepting")
     \/ pc[w] = "accepting" /\ Goto(w, "serving")
  /\ UNCHANGED <<todo, wid, conn, backlog, widCliMap, masterVars, rdmaVars>>

-----------------------------------------------------------------------------
(* The event loop threads.                                                 *)

\* Mutant of Accepts: the master does not wait for the address of a worker.
AcceptsAlways(s) ==
  IF s = Master THEN TRUE ELSE pc[s] \in {"accepting", "serving"}

\* The event loop of s is in aeProcessEvents.
Accepts(s) ==
  IF s = Master THEN serving = Nobody ELSE pc[s] \in {"accepting", "serving"}

\* AcceptTcpClientHandle: a client for the head of the backlog, once its
\* string can be read.  The master gives out the next id, and PostAcceptWorker
\* sends the list; a worker takes the id that the string carries.
AcceptTcpClientHandle(s) ==
  LET w == Head(backlog[s]) IN
  /\ backlog[s] # <<>> /\ Accepts(s) /\ conn[w][s] = "written"
  /\ backlog' = [backlog EXCEPT ![s] = Tail(@)]
  /\ conn' = [conn EXCEPT ![w][s] = "answered"]
  /\ IF s = Master
     THEN /\ rdma_context_counter' = rdma_context_counter + 1
          /\ serving' = w
          /\ UpdateWidMap(s, rdma_context_counter + 1, w)
     ELSE /\ UpdateWidMap(s, GetConnString(w), w)
          /\ UNCHANGED <<rdma_context_counter, serving>>
  /\ UNCHANGED <<pc, todo, wid, worker_ips, rdmaVars>>

\* PostAcceptWorker returns when it has read the address of the worker.
PostAcceptWorker ==
  /\ serving # Nobody /\ conn[serving][Master] = "address"
  /\ worker_ips' = Append(worker_ips, serving)
  /\ conn' = [conn EXCEPT ![serving][Master] = "closed"]
  /\ serving' = Nobody
  /\ UNCHANGED <<pc, todo, wid, backlog, widCliMap, rdma_context_counter,
                 rdmaVars>>

-----------------------------------------------------------------------------
(* Memory statistics.                                                      *)

\* What is printed for the worker v: queue pair, id, total and free memory.
Entry(v) == << <<10 + v>>, <<v>>, <<1000>>, <<500>> >>

\* The k-th number that is printed for the workers in wids.
Field(wids, k) == Entry(wids[(k + 3) \div 4])[((k - 1) % 4) + 1]

\* "%u:%d:%ld:%ld:", of FETCH_MEM_STATS.
Separated(wids) == [k \in 1 .. 4 * Len(wids) |-> Field(wids, k)]

\* "%u:%d:%ld:%ld", of UPDATE_MEM_STATS: nothing between two entries, so the last
\* number of the one and the first number of the next make one token.
Adjacent(wids) ==
  [k \in 1 .. 3 * Len(wids) + 1 |->
     LET e == (k - 1) \div 3
     IN  IF e * 3 + 1 = k /\ e \in 1 .. Len(wids) - 1
         THEN Field(wids, 4 * e) \o Field(wids, 4 * e + 1)
         ELSE Field(wids, IF e = Len(wids) THEN 4 * e ELSE k + e)]

\* What Split makes of the entries, when their format ends with a colon or not.
Stats(colon, wids) ==
  [size |-> Len(wids), stats |-> IF colon THEN Separated(wids) ELSE Adjacent(wids)]

\* Master::ProcessRequest, UPDATE_MEM_STATS: when enough updates are there,
\* Broadcast sends them to every client of the master.
UpdateMemStats(w) ==
  LET unsynced == Append(unsynced_workers, wid[w])
      full == Len(unsynced) = unsynced_th
  IN
  /\ unsynced_workers' = IF full THEN <<>> ELSE unsynced
  /\ widCliMapWorker' = [widCliMapWorker EXCEPT ![Master] = @ \cup {wid[w]}]
  /\ toWorker' = [c \in Joining |->
       IF full /\ \E v \in DOMAIN widCliMap[Master] : widCliMap[Master][v] = c
       THEN Append(toWorker[c], Stats(FALSE, unsynced)) ELSE toWorker[c]]

\* The order in which the loop over an unordered map meets its ids.
MapOrder(S) ==
  CHOOSE f \in [1 .. Cardinality(S) -> S] : \A i, j \in DOMAIN f : f[i] = f[j] => i = j

\* When there is nobody to print, the buffer is sent as it was on the stack: with
\* no number in it, or with one.
Leftover == {[size |-> 0, stats |-> text] : text \in {<<>>, << <<7>> >>}}

\* Mutant of FetchMemStats: the format of the broadcast.
FetchAdjacent(w) ==
  /\ LET listed == widCliMapWorker[Master]
     IN  \E m \in IF listed = {} THEN Leftover ELSE {Stats(FALSE, MapOrder(listed))} :
           toWorker' = [toWorker EXCEPT ![w] = Append(@, m)]
  /\ UNCHANGED <<unsynced_workers, widCliMapWorker>>

\* FETCH_MEM_STATS: the answer lists every worker that has sent an update.
FetchMemStats(w) ==
  /\ LET listed == widCliMapWorker[Master]
     IN  \E m \in IF listed = {} THEN Leftover ELSE {Stats(TRUE, MapOrder(listed))} :
           toWorker' = [toWorker EXCEPT ![w] = Append(@, m)]
  /\ UNCHANGED <<unsynced_workers, widCliMapWorker>>

\* The event loop of the master takes a request from a queue pair.
ProcessStatsRequest(w) ==
  /\ toMaster[w] # <<>> /\ Accepts(Master)
  /\ toMaster' = [toMaster EXCEPT ![w] = Tail(@)]
  /\ IF Head(toMaster[w]) = "UPDATE" THEN UpdateMemStats(w) ELSE FetchMemStats(w)
  /\ UNCHANGED <<pc, todo, wid, conn, backlog, widCliMap, masterVars>>

\* ProcessRemoteMemStat, on the service thread.  An id that FindClientWid does
\* not know gives a null pointer, which is dereferenced.
ProcessRemoteMemStat(w) ==
  LET m == Head(toWorker[w])
      tokens == {m.stats[4 * i + 2] : i \in 0..(m.size - 1)}
      wids == {v \in DOMAIN widCliMap[w] : <<v>> \in tokens}
      known == tokens \subseteq {<<v>> : v \in wids}
  IN
  /\ pc[w] = "serving" /\ toWorker[w] # <<>>
  /\ toWorker' = [toWorker EXCEPT ![w] = Tail(@)]
  /\ widCliMapWorker' = [widCliMapWorker EXCEPT ![w] = @ \cup wids]
  /\ Goto(w, IF known THEN "serving" ELSE "crashed")
  /\ UNCHANGED <<todo, wid, conn, backlog, widCliMap, masterVars, toMaster,
                 unsynced_workers>>

-----------------------------------------------------------------------------

Constructor(w) ==
  \/ ConnectMaster(w) \/ ReadMasterAnswer(w) \/ PostConnectMaster(w)
  \/ ConnectPeer(w) \/ ReadPeerAnswer(w) \/ Update(w) \/ Fetch(w) \/ StartThread(w)
  \/ \E s \in Servers : WriteConnString(w, s)

MasterLoop ==
  \/ PostAcceptWorker
  \/ \E w \in Joining : ProcessStatsRequest(w)

JoinNext ==
  \/ \E w \in Joining : Constructor(w) \/ ProcessRemoteMemStat(w)
  \/ \E s \in Servers : AcceptTcpClientHandle(s)
  \/ MasterLoop

JoinSpec == JoinInit /\ [][JoinNext]_JoinVars

\* The threads run.  The event loop of the master takes connections and
\* requests in turn, and there are finitely many of either.
JoinFair ==
  /\ JoinSpec
  /\ \A w \in Joining : WF_JoinVars(Constructor(w)) /\ WF_JoinVars(ProcessRemoteMemStat(w))
  /\ \A s \in Servers : WF_JoinVars(AcceptTcpClientHandle(s))
  /\ WF_JoinVars(MasterLoop)

-----------------------------------------------------------------------------
Labels == {"start", "exchange", "list", "peers", "fetch", "threads",
           "accepting", "serving", "crashed"}

\* Types: the constructors, the connections, the maps of clients.
JoinTypeOK ==
  /\ pc \in [Joining -> Labels]
  /\ todo \in [Joining -> Seq(Joining)]
  /\ wid \in [Joining -> 0..Cardinality(Joining)]
  /\ conn \in [Joining -> [Servers ->
       {"none", "open", "written", "answered", "address", "closed"}]]
  /\ \A s \in Servers : /\ backlog[s] \in Seq(Joining)
                         /\ DOMAIN widCliMap[s] \subseteq 1..Cardinality(Joining)
                         /\ widCliMapWorker[s] \subseteq 1..Cardinality(Joining)
  /\ worker_ips \in Seq(Joining) /\ serving \in Joining \cup {Nobody}

Joined(w) == pc[w] \in {"fetch", "threads", "accepting", "serving"}

\* "guarantee a consistent join sequence of workers" and "avoid duplicate
\* connection initiations for the same bi-connection" (worker.cc:240): of two
\* workers that have joined, the one with the larger id, and only that one, has
\* opened a connection to the other, and each has the other under its id.
PairedOnce ==
  \A w, u \in Joining :
    Joined(w) /\ Joined(u) /\ wid[w] < wid[u] =>
      /\ conn[u][w] = "closed" /\ conn[w][u] = "none"
      /\ wid[u] \in DOMAIN widCliMap[w] /\ widCliMap[w][wid[u]] = u
      /\ wid[w] \in DOMAIN widCliMap[u] /\ widCliMap[u][wid[w]] = w

\* Statistics name only workers that the receiver has a client for, although
\* they come by way of the master and the clients do not: the null pointer of
\* ProcessRemoteMemStat (remote_request.cc:92) is never met.
NoNullClient == \A w \in Joining : pc[w] # "crashed"

\* Broadcast writes only to queue pairs that the worker has brought up, which
\* it does in SetRemoteConnParam after the answer of the master.
SentToReady == \A w \in Joining : toWorker[w] # <<>> => wid[w] # 0

\* ProcessRemoteMemStat: "epicAssert(stats.size() == wr->size * 4)", of statistics
\* that name a worker.
StatsWhole ==
  \A w \in Joining : \A i \in DOMAIN toWorker[w] :
    toWorker[w][i].size # 0 => Len(toWorker[w][i].stats) = 4 * toWorker[w][i].size

\* The same of all statistics.  It fails when a cache-only worker asks before any
\* worker has sent an update: master.cc:140-160 sends a buffer it has not written.
EmptyStatsWhole ==
  \A w \in Joining : \A i \in DOMAIN toWorker[w] :
    Len(toWorker[w][i].stats) = 4 * toWorker[w][i].size

\* Of two workers that have joined, the later one has connected to the earlier
\* one; statistics name workers the receiver has a client for, with four fields
\* each; the master sends to queue pairs that are up.
JoinSound == JoinTypeOK /\ PairedOnce /\ NoNullClient /\ SentToReady /\ StatsWhole

\* Everyone joins, and everyone gets to know the statistics of all workers that
\* give memory, and of no cache-only one, so that GetClient never picks it
\* (test/cs_test.cc:71).  Workers wait for one another while they join, so this
\* excludes a circular wait.
EveryoneKnown ==
  <>[](\A w \in Joining : /\ pc[w] = "serving"
                          /\ widCliMapWorker[w] = {wid[v] : v \in Joining \ CacheOnly})
=============================================================================

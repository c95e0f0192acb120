------------------------------ MODULE KeyValue ------------------------------
(***************************************************************************)
(* The key-value board of the master: GAlloc::Put and GAlloc::Get of the   *)
(* application threads, the requests they send, and the PUT and GET cases  *)
(* of Master::ProcessRequest, where a GET of an absent key waits for the   *)
(* PUT (master.cc, local_request.cc, remote_request.cc).                   *)
(***************************************************************************)
EXTENDS Naturals, Sequences

CONSTANTS
  Workers,
  Threads,    \* a set of pairs <<worker, number>>: the application threads
  Keys,
  MaxPuts     \* bound on the calls of Put

Idle == "idle"
Absent == 0

ASSUME KeyValueAssumption ==
  /\ \A t \in Threads : t[1] \in Workers
  /\ Idle \notin Keys /\ MaxPuts \in Nat

VARIABLES
  call,       \* the Get a thread waits in, or Idle
  requests,   \* requests on the queue pair of a worker to the master
  answers,    \* answers under way, in the order the master sent them: those for
              \* the threads of a worker are on its queue pair
  kvs,        \* kvs[k]: the value of the key, Absent if there is none
  to_serve_kv_request, \* threads whose GET waits for the key
  puts,       \* calls of Put so far; the n-th puts the value n
  log,        \* history: the values of each key, in the order of the master
  seen        \* history: the values a thread has put or got, by key

BoardVars == <<call, requests, answers, kvs, to_serve_kv_request, puts, log, seen>>

BoardInit ==
  /\ call = [t \in Threads |-> Idle]
  /\ requests = [w \in Workers |-> <<>>]
  /\ answers = <<>>
  /\ kvs = [k \in Keys |-> Absent]
  /\ to_serve_kv_request = [k \in Keys |-> <<>>]
  /\ puts = 0
  /\ log = [k \in Keys |-> <<>>]
  /\ seen = [t \in Threads |-> [k \in Keys |-> {}]]

SendToMaster(w, m) == requests' = [requests EXCEPT ![w] = Append(@, m)]

\* Put: SendRequest returns once the request is on its way.
Put(t, k) ==
  /\ call[t] = Idle /\ puts < MaxPuts
  /\ puts' = puts + 1
  /\ SendToMaster(t[1], [op |-> "PUT", thread |-> t, key |-> k, value |-> puts + 1])
  /\ seen' = [seen EXCEPT ![t][k] = @ \cup {puts + 1}]
  /\ UNCHANGED <<call, answers, kvs, to_serve_kv_request, log>>

\* Get: the request is added to the pending works, and the thread waits.
Get(t, k) ==
  /\ call[t] = Idle
  /\ call' = [call EXCEPT ![t] = k]
  /\ SendToMaster(t[1], [op |-> "GET", thread |-> t, key |-> k, value |-> Absent])
  /\ UNCHANGED <<answers, kvs, to_serve_kv_request, puts, log, seen>>

\* The answers to the threads ts with the value v, sent in that order.
Answer(ts, k, v) ==
  answers' = answers \o [i \in DOMAIN ts |-> [thread |-> ts[i], key |-> k, value |-> v]]

\* Mutant of ProcessPut: the loop stops one waiting request early.
ProcessPutOneLess(k, v) ==
  LET waiting == to_serve_kv_request[k] IN
  /\ kvs' = [kvs EXCEPT ![k] = v]
  /\ log' = [log EXCEPT ![k] = Append(@, v)]
  /\ Answer(IF waiting = <<>> THEN <<>> ELSE SubSeq(waiting, 1, Len(waiting) - 1), k, v)
  /\ to_serve_kv_request' = [to_serve_kv_request EXCEPT ![k] = <<>>]

\* Mutant of ProcessPut: waiting requests are answered and not removed.
ProcessPutKeep(k, v) ==
  /\ kvs' = [kvs EXCEPT ![k] = v]
  /\ log' = [log EXCEPT ![k] = Append(@, v)]
  /\ Answer(to_serve_kv_request[k], k, v)
  /\ UNCHANGED to_serve_kv_request

\* Mutant of ProcessPut: a key keeps its first value.
ProcessPutFirst(k, v) ==
  /\ kvs' = [kvs EXCEPT ![k] = IF @ = Absent THEN v ELSE @]
  /\ log' = [log EXCEPT ![k] = Append(@, v)]
  /\ Answer(to_serve_kv_request[k], k, kvs'[k])
  /\ to_serve_kv_request' = [to_serve_kv_request EXCEPT ![k] = <<>>]

\* PUT: the value is stored, and every request that waits for it is answered.
ProcessPut(k, v) ==
  /\ kvs' = [kvs EXCEPT ![k] = v]
  /\ log' = [log EXCEPT ![k] = Append(@, v)]
  /\ Answer(to_serve_kv_request[k], k, v)
  /\ to_serve_kv_request' = [to_serve_kv_request EXCEPT ![k] = <<>>]

\* Mutant of ProcessGet: an absent key is answered too.
ProcessGetAbsent(t, k) ==
  Answer(<<t>>, k, kvs[k]) /\ UNCHANGED <<to_serve_kv_request, kvs, log>>

\* GET: answered if the key is there, and set aside if not.
ProcessGet(t, k) ==
  /\ IF kvs[k] # Absent
     THEN Answer(<<t>>, k, kvs[k]) /\ UNCHANGED to_serve_kv_request
     ELSE /\ to_serve_kv_request' = [to_serve_kv_request EXCEPT ![k] = Append(@, t)]
          /\ UNCHANGED answers
  /\ UNCHANGED <<kvs, log>>

ProcessRequest(w) ==
  LET m == Head(requests[w]) IN
  /\ requests[w] # <<>>
  /\ requests' = [requests EXCEPT ![w] = Tail(@)]
  /\ IF m.op = "PUT" THEN ProcessPut(m.key, m.value) ELSE ProcessGet(m.thread, m.key)
  /\ UNCHANGED <<call, puts, seen>>

Without(s, i) == SubSeq(s, 1, i - 1) \o SubSeq(s, i + 1, Len(s))

\* The value is copied to the thread that waits for it, and the thread is woken.
Deliver(i) ==
  LET m == answers[i] IN
  /\ answers' = Without(answers, i)
  /\ call' = [call EXCEPT ![m.thread] = Idle]
  /\ seen' = [seen EXCEPT ![m.thread][m.key] = @ \cup {m.value}]
  /\ UNCHANGED <<requests, kvs, to_serve_kv_request, puts, log>>

\* On the service thread of the worker, which takes its answers in order.
ProcessRemoteGetReply(w) ==
  \E i \in DOMAIN answers :
    /\ answers[i].thread[1] = w
    /\ \A j \in 1..(i - 1) : answers[j].thread[1] # w
    /\ Deliver(i)

BoardNext ==
  \/ \E t \in Threads, k \in Keys : Put(t, k) \/ Get(t, k)
  \/ \E w \in Workers : ProcessRequest(w) \/ ProcessRemoteGetReply(w)

BoardSpec == BoardInit /\ [][BoardNext]_BoardVars

\* The master polls all queue pairs, the service thread of a worker its own.
BoardFair ==
  /\ BoardSpec
  /\ \A w \in Workers : WF_BoardVars(ProcessRequest(w)) /\ WF_BoardVars(ProcessRemoteGetReply(w))

-----------------------------------------------------------------------------
BoardRequest == [op : {"PUT", "GET"}, thread : Threads, key : Keys, value : 0..MaxPuts]
Reply == [thread : Threads, key : Keys, value : 1..MaxPuts]

\* Types: a waiting thread waits for a key, a value is the number of a Put.
BoardTypeOK ==
  /\ call \in [Threads -> Keys \cup {Idle}]
  /\ requests \in [Workers -> Seq(BoardRequest)]
  /\ answers \in Seq(Reply)
  /\ kvs \in [Keys -> 0..MaxPuts]
  /\ to_serve_kv_request \in [Keys -> Seq(Threads)]
  /\ puts \in 0..MaxPuts
  /\ log \in [Keys -> Seq(1..MaxPuts)]
  /\ seen \in [Threads -> [Keys -> SUBSET (1..MaxPuts)]]

\* Where the GET of a thread is: asked for, set aside, or answered.
IsAsked(t, i) == requests[t[1]][i].op = "GET" /\ requests[t[1]][i].thread = t

AskedAt(t) == {<<"asked", i>> : i \in {j \in DOMAIN requests[t[1]] : IsAsked(t, j)}}

AsideAt(t, k) ==
  {<<"aside", k, i>> : i \in {j \in DOMAIN to_serve_kv_request[k] : to_serve_kv_request[k][j] = t}}

AnsweredAt(t) == {<<"answered", i>> : i \in {j \in DOMAIN answers : answers[j].thread = t}}

Where(t) == AskedAt(t) \cup (UNION {AsideAt(t, k) : k \in Keys}) \cup AnsweredAt(t)

\* A thread waits in Get exactly as long as there is one request for it on its
\* way, set aside, or answered and not delivered: no request is lost at the
\* hand-over from GET to PUT, and none is answered twice (a second answer would
\* write to the stack of a thread that has left Get).
OneAnswer ==
  \A t \in Threads :
    IF call[t] = Idle THEN Where(t) = {} ELSE \E place \in Where(t) : Where(t) = {place}

\* A request is set aside only while its key is absent.
NoneOverlooked ==
  \A k \in Keys : kvs[k] # Absent => to_serve_kv_request[k] = <<>>

\* A GET has one request or answer under way, and is set aside only while its
\* key is absent (the PUT and GET cases of Master::ProcessRequest).
BoardSound == BoardTypeOK /\ OneAnswer /\ NoneOverlooked

IsLogged(k, v) == \E i \in DOMAIN log[k] : log[k][i] = v

Position(k, v) == CHOOSE i \in DOMAIN log[k] : log[k][i] = v

\* Get returns the latest value or one put meanwhile: never a value older than
\* one that the same thread has put or got before, even though Put returns
\* before the master has the value.
NeverOlder ==
  [][\A i \in DOMAIN answers :
       Deliver(i) =>
         LET m == answers[i] IN
         \A v \in seen[m.thread][m.key] :
           IsLogged(m.key, v) /\ Position(m.key, v) <= Position(m.key, m.value)]_BoardVars

\* A Get of a key that has been put returns.
GetReturns ==
  \A t \in Threads, k \in Keys :
    (call[t] = k /\ kvs[k] # Absent) ~> (call[t] = Idle)
=============================================================================

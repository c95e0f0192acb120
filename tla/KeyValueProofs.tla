--------------------------- MODULE KeyValueProofs ---------------------------
(***************************************************************************)
(* Proofs about KeyValue, for any number of workers, threads, keys and     *)
(* calls of Put.                                                           *)
(***************************************************************************)
EXTENDS KeyValue, TLAPS

-----------------------------------------------------------------------------
(* The inductive invariant *)

\* The queue pair of a worker carries the requests of its own threads, and the
\* values of calls of Put.
Own ==
  \A w \in Workers : \A i \in 1..Len(requests[w]) :
    /\ requests[w][i].thread[1] = w
    /\ requests[w][i].op = "PUT" => requests[w][i].value \in 1..puts

\* Whatever is under way for a thread is for the key that the thread waits for.
ExpectedAsked ==
  \A w \in Workers : \A i \in 1..Len(requests[w]) :
    requests[w][i].op = "GET" => call[requests[w][i].thread] = requests[w][i].key

ExpectedAside ==
  \A k \in Keys : \A i \in 1..Len(to_serve_kv_request[k]) :
    call[to_serve_kv_request[k][i]] = k

ExpectedAnswered ==
  \A i \in 1..Len(answers) : call[answers[i].thread] = answers[i].key

Expected == ExpectedAsked /\ ExpectedAside /\ ExpectedAnswered

\* There is no second request for a thread, and no second answer: a thread that
\* waits asks for nothing more, so its GET is the last of its requests.
GetLast ==
  \A w \in Workers : \A i, j \in 1..Len(requests[w]) :
    (requests[w][j].op = "GET" /\ requests[w][i].thread = requests[w][j].thread) => i <= j

AsideOnce ==
  \A k \in Keys : \A i, j \in 1..Len(to_serve_kv_request[k]) :
    to_serve_kv_request[k][i] = to_serve_kv_request[k][j] => i = j

AnsweredOnce ==
  \A i, j \in 1..Len(answers) : answers[i].thread = answers[j].thread => i = j

\* What is on its way to the master for a thread is ahead of what the master has
\* set aside or answered for it: of a GET there is none, and no PUT is overtaken.
AskedAlone ==
  \A w \in Workers : \A i \in 1..Len(requests[w]) :
    /\ \A k \in Keys : \A j \in 1..Len(to_serve_kv_request[k]) :
         to_serve_kv_request[k][j] # requests[w][i].thread
    /\ \A j \in 1..Len(answers) : answers[j].thread # requests[w][i].thread

AsideAlone ==
  \A k \in Keys : \A i \in 1..Len(to_serve_kv_request[k]) : \A j \in 1..Len(answers) :
    to_serve_kv_request[k][i] # answers[j].thread

Single == GetLast /\ AsideOnce /\ AnsweredOnce /\ AskedAlone /\ AsideAlone

\* There is one for every thread that waits.
Present ==
  \A t \in Threads : call[t] # Idle =>
    \/ \E i \in 1..Len(requests[t[1]]) : IsAsked(t, i)
    \/ \E k \in Keys : \E i \in 1..Len(to_serve_kv_request[k]) : to_serve_kv_request[k][i] = t
    \/ \E i \in 1..Len(answers) : answers[i].thread = t

\* The board holds the latest value of the log.
Latest ==
  \A k \in Keys : kvs[k] = IF Len(log[k]) = 0 THEN Absent ELSE log[k][Len(log[k])]

\* Every value comes from one call of Put, and is logged once.
Older ==
  \A k \in Keys : \A i \in 1..Len(log[k]) : log[k][i] \in 1..puts

LoggedOnce ==
  \A k \in Keys : \A i, j \in 1..Len(log[k]) : log[k][i] = log[k][j] => i = j

NotYetLogged ==
  \A w \in Workers : \A i \in 1..Len(requests[w]) : requests[w][i].op = "PUT" =>
    \A k \in Keys : \A j \in 1..Len(log[k]) : log[k][j] # requests[w][i].value

PutOnce ==
  \A w, u \in Workers : \A i \in 1..Len(requests[w]), j \in 1..Len(requests[u]) :
    (/\ requests[w][i].op = "PUT" /\ requests[u][j].op = "PUT"
     /\ requests[w][i].value = requests[u][j].value) => w = u /\ i = j

Logged == Latest /\ Older /\ LoggedOnce /\ NotYetLogged /\ PutOnce

\* What a thread has put or got is in the log or on its way.
SeenKnown ==
  \A t \in Threads, k \in Keys : \A v \in seen[t][k] :
    \/ \E i \in 1..Len(log[k]) : log[k][i] = v
    \/ \E i \in 1..Len(requests[t[1]]) :
         /\ requests[t[1]][i].op = "PUT" /\ requests[t[1]][i].thread = t
         /\ requests[t[1]][i].key = k /\ requests[t[1]][i].value = v

\* An answer carries a logged value, behind which its receiver has seen none.
Newest ==
  \A i \in 1..Len(answers) : LET m == answers[i] IN
    \E q \in 1..Len(log[m.key]) :
      /\ log[m.key][q] = m.value
      /\ \A p \in 1..Len(log[m.key]) : log[m.key][p] \in seen[m.thread][m.key] => p <= q

Ordered == SeenKnown /\ Newest

IInv ==
  BoardTypeOK /\ NoneOverlooked /\ Own /\ Expected /\ Single /\ Present /\ Logged /\ Ordered

-----------------------------------------------------------------------------
(* Facts about queues *)

\* Where a value that thread t has seen of key l is: logged, or in a PUT of t.
KnownAt(t, l, x) ==
  \/ \E i \in 1..Len(log[l]) : log[l][i] = x
  \/ \E i \in 1..Len(requests[t[1]]) :
       /\ requests[t[1]][i].op = "PUT" /\ requests[t[1]][i].thread = t
       /\ requests[t[1]][i].key = l /\ requests[t[1]][i].value = x

\* What the threads have seen is at such a place.
LEMMA KnownWhere ==
  ASSUME SeenKnown
  PROVE  \A t \in Threads, l \in Keys : \A x \in seen[t][l] : KnownAt(t, l, x)
BY SMTT(60) DEF SeenKnown, KnownAt

\* What Head and Tail leave of a sequence that is not empty.
LEMMA HeadAndTail ==
  ASSUME NEW S, NEW s \in Seq(S), s # <<>>
  PROVE  /\ Len(s) \in Nat \ {0}
         /\ Head(s) \in S /\ Tail(s) \in Seq(S) /\ Len(Tail(s)) = Len(s) - 1
         /\ \A i \in 1..Len(Tail(s)) : Tail(s)[i] = s[i + 1]
  OBVIOUS

\* What two sequences hold, one behind the other.
LEMMA Joined ==
  ASSUME NEW S, NEW s \in Seq(S), NEW r \in Seq(S)
  PROVE  /\ s \o r \in Seq(S) /\ Len(s \o r) = Len(s) + Len(r)
         /\ \A i \in 1..(Len(s) + Len(r)) :
              (s \o r)[i] = IF i <= Len(s) THEN s[i] ELSE r[i - Len(s)]
  OBVIOUS

\* A queue of several gets one more element: what each holds afterwards.
LEMMA Sent ==
  ASSUME NEW D, NEW S, NEW f \in [D -> Seq(S)], NEW d \in D, NEW e \in S,
         NEW g, g = [f EXCEPT ![d] = Append(@, e)]
  PROVE  /\ g \in [D -> Seq(S)]
         /\ \A u \in D : \A i \in 1..Len(f[u]) : i \in 1..Len(g[u]) /\ g[u][i] = f[u][i]
         /\ Len(g[d]) = Len(f[d]) + 1 /\ Len(f[d]) + 1 \in 1..Len(g[d])
         /\ g[d][Len(f[d]) + 1] = e
         /\ \A u \in D : \A i \in 1..Len(g[u]) :
              \/ i \in 1..Len(f[u]) /\ g[u][i] = f[u][i]
              \/ u = d /\ i = Len(f[d]) + 1 /\ g[u][i] = e
         /\ \A u \in D : u # d => g[u] = f[u]
<1>1. /\ f[d] \in Seq(S) /\ Append(f[d], e) \in Seq(S) /\ Len(f[d]) \in Nat
      /\ g[d] = Append(f[d], e) /\ \A u \in D : u # d => g[u] = f[u]
  OBVIOUS
<1>2. /\ Len(g[d]) = Len(f[d]) + 1 /\ g[d][Len(f[d]) + 1] = e
      /\ \A i \in 1..Len(f[d]) : g[d][i] = f[d][i]
  BY <1>1
<1>3. g \in [D -> Seq(S)]
  BY Zenon, <1>1
<1>4. Len(f[d]) + 1 \in 1..Len(g[d])
  BY <1>1, <1>2
<1>5. ASSUME NEW u \in D, NEW i \in 1..Len(f[u])
      PROVE  i \in 1..Len(g[u]) /\ g[u][i] = f[u][i]
  BY <1>1, <1>2
<1>6. ASSUME NEW u \in D, NEW i \in 1..Len(g[u])
      PROVE  \/ i \in 1..Len(f[u]) /\ g[u][i] = f[u][i]
             \/ u = d /\ i = Len(f[d]) + 1 /\ g[u][i] = e
  BY <1>1, <1>2
<1> QED
  BY Zenon, <1>1, <1>2, <1>3, <1>4, <1>5, <1>6

\* The first element of a queue is taken: the others move up.
LEMMA Taken ==
  ASSUME NEW D, NEW S, NEW f \in [D -> Seq(S)], NEW d \in D, f[d] # <<>>,
         NEW g, g = [f EXCEPT ![d] = Tail(@)]
  PROVE  /\ g \in [D -> Seq(S)]
         /\ 1 \in 1..Len(f[d]) /\ Head(f[d]) = f[d][1] /\ Head(f[d]) \in S
         /\ \A u \in D : \A i \in 1..Len(g[u]) :
              IF u = d THEN i + 1 \in 1..Len(f[u]) /\ g[u][i] = f[u][i + 1]
                       ELSE i \in 1..Len(f[u]) /\ g[u][i] = f[u][i]
         /\ \A u \in D : \A i \in 1..Len(f[u]) :
              IF u = d THEN i = 1 \/ (i - 1 \in 1..Len(g[u]) /\ g[u][i - 1] = f[u][i])
                       ELSE i \in 1..Len(g[u]) /\ g[u][i] = f[u][i]
<1>1. /\ f[d] \in Seq(S) /\ Len(f[d]) \in Nat \ {0}
      /\ g[d] = Tail(f[d]) /\ \A u \in D : u # d => g[u] = f[u]
  BY Zenon, HeadAndTail
<1>2. /\ g[d] \in Seq(S) /\ Len(g[d]) = Len(f[d]) - 1 /\ Head(f[d]) \in S
      /\ \A i \in 1..Len(g[d]) : g[d][i] = f[d][i + 1]
  BY ZenonT(60), <1>1, HeadAndTail
<1>3. g \in [D -> Seq(S)]
  BY Zenon, <1>1, <1>2
<1>4. 1 \in 1..Len(f[d]) /\ Head(f[d]) = f[d][1]
  BY <1>1
<1>5. ASSUME NEW u \in D, NEW i \in 1..Len(g[u])
      PROVE  IF u = d THEN i + 1 \in 1..Len(f[u]) /\ g[u][i] = f[u][i + 1]
                      ELSE i \in 1..Len(f[u]) /\ g[u][i] = f[u][i]
  BY <1>1, <1>2
<1>6. ASSUME NEW u \in D, NEW i \in 1..Len(f[u])
      PROVE  IF u = d THEN i = 1 \/ (i - 1 \in 1..Len(g[u]) /\ g[u][i - 1] = f[u][i])
                      ELSE i \in 1..Len(g[u]) /\ g[u][i] = f[u][i]
  <2>1. CASE u # d
    BY Zenon, <1>1, <2>1
  <2>2. CASE u = d /\ i # 1
    <3>1. i - 1 \in 1..Len(g[u]) /\ g[u][i - 1] = f[u][(i - 1) + 1] /\ (i - 1) + 1 = i
      BY <1>1, <1>2, <2>2
    <3> QED
      BY Zenon, <2>2, <3>1
  <2> QED
    BY Zenon, <2>1, <2>2
<1> QED
  BY Zenon, <1>2, <1>3, <1>4, <1>5, <1>6

\* Any element of a queue is taken: the later ones move up.
LEMMA TakenAt ==
  ASSUME NEW S, NEW s \in Seq(S), NEW n \in 1..Len(s), NEW r, r = Without(s, n)
  PROVE  /\ r \in Seq(S) /\ Len(r) = Len(s) - 1
         /\ \A i \in 1..Len(r) :
              IF i < n THEN i \in 1..Len(s) /\ r[i] = s[i]
                       ELSE i + 1 \in 1..Len(s) /\ r[i] = s[i + 1]
         /\ \A i \in 1..Len(s) :
              /\ i < n => i \in 1..Len(r) /\ r[i] = s[i]
              /\ i > n => i - 1 \in 1..Len(r) /\ r[i - 1] = s[i]
<1> DEFINE f == SubSeq(s, 1, n - 1)
           b == SubSeq(s, n + 1, Len(s))
<1>1. f \in Seq(S) /\ Len(f) = n - 1 /\ \A j \in 1..(n - 1) : f[j] = s[j]
  OBVIOUS
<1>2. b \in Seq(S) /\ Len(b) = Len(s) - n /\ \A j \in 1..(Len(s) - n) : b[j] = s[n + j]
  OBVIOUS
<1>3. r = f \o b
  BY Zenon DEF Without
<1> HIDE DEF f, b
<1>4. r \in Seq(S) /\ Len(r) = Len(s) - 1
  BY SMTT(60), <1>1, <1>2, <1>3
<1>5. ASSUME NEW i \in 1..Len(r), i < n
      PROVE  i \in 1..Len(s) /\ r[i] = s[i]
  BY SMTT(60), <1>1, <1>2, <1>3, <1>4, <1>5
<1>6. ASSUME NEW i \in 1..Len(r), i >= n
      PROVE  i + 1 \in 1..Len(s) /\ r[i] = s[i + 1]
  <2>1. r[i] = b[i - (n - 1)] /\ i - (n - 1) \in 1..(Len(s) - n) /\ i + 1 \in 1..Len(s)
    BY SMTT(60), <1>1, <1>2, <1>3, <1>4, <1>6
  <2>2. n + (i - (n - 1)) = i + 1
    OBVIOUS
  <2> QED
    BY Zenon, <1>2, <2>1, <2>2
<1>7. ASSUME NEW i \in 1..Len(s), i < n
      PROVE  i \in 1..Len(r) /\ r[i] = s[i]
  BY SMTT(60), <1>4, <1>5, <1>7
<1>8. ASSUME NEW i \in 1..Len(s), i > n
      PROVE  i - 1 \in 1..Len(r) /\ r[i - 1] = s[i]
  <2>1. i - 1 \in 1..Len(r) /\ i - 1 >= n /\ (i - 1) + 1 = i
    BY <1>4, <1>8
  <2> QED
    BY Zenon, <1>6, <2>1
<1>9. \A i \in 1..Len(r) : i < n \/ i >= n
  BY <1>4
<1> QED
  BY Zenon, <1>4, <1>5, <1>6, <1>7, <1>8, <1>9

\* What an answer appends, in terms of the threads it goes to.
AnswersTo(ts, k, v) ==
  /\ answers' \in Seq(Reply)
  /\ \A i \in 1..Len(answers) : i \in 1..Len(answers') /\ answers'[i] = answers[i]
  /\ \A j \in 1..Len(ts) : \E i \in 1..Len(answers') : answers'[i].thread = ts[j]
  /\ \A i \in 1..Len(answers') :
       \/ i \in 1..Len(answers) /\ answers'[i] = answers[i]
       \/ /\ answers'[i].key = k /\ answers'[i].value = v
          /\ \E j \in 1..Len(ts) : i = Len(answers) + j /\ answers'[i].thread = ts[j]

\* An answer to the threads ts appends one reply for each of them (SendRequest in
\* the PUT and GET cases of Master::ProcessRequest).
LEMMA Answered ==
  ASSUME answers \in Seq(Reply), NEW ts \in Seq(Threads), NEW k \in Keys,
         NEW v \in 1..MaxPuts, Answer(ts, k, v)
  PROVE  AnswersTo(ts, k, v)
<1> DEFINE R(i) == [thread |-> ts[i], key |-> k, value |-> v]
           new == [i \in 1..Len(ts) |-> R(i)]
<1>1. \A i \in 1..Len(ts) : R(i) \in Reply
  BY DEF Reply
<1>2. answers' = answers \o new
  BY SMTT(60) DEF Answer
<1>3. \A i \in 1..Len(ts) : R(i).thread = ts[i] /\ R(i).key = k /\ R(i).value = v
  BY Zenon
<1> HIDE DEF R
<1>4. new \in Seq(Reply) /\ Len(new) = Len(ts) /\ \A i \in 1..Len(ts) : new[i] = R(i)
  BY <1>1
<1> HIDE DEF new
<1>5. /\ answers' \in Seq(Reply)
      /\ Len(answers') = Len(answers) + Len(ts)
      /\ \A i \in 1..(Len(answers) + Len(ts)) :
           answers'[i] = IF i <= Len(answers) THEN answers[i] ELSE new[i - Len(answers)]
  <2>1. /\ answers \o new \in Seq(Reply)
        /\ Len(answers \o new) = Len(answers) + Len(new)
        /\ \A i \in 1..(Len(answers) + Len(new)) :
             (answers \o new)[i] = IF i <= Len(answers) THEN answers[i] ELSE new[i - Len(answers)]
    BY ZenonT(60), <1>4, Joined
  <2> QED
    BY <1>2, <1>4, <2>1, Zenon
<1>6. Len(answers) \in Nat /\ Len(ts) \in Nat
  OBVIOUS
<1>7. ASSUME NEW i \in 1..Len(answers)
      PROVE  i \in 1..Len(answers') /\ answers'[i] = answers[i]
  BY <1>5, <1>6
<1>8. ASSUME NEW j \in 1..Len(ts)
      PROVE  /\ Len(answers) + j \in 1..Len(answers') /\ answers'[Len(answers) + j] = R(j)
  <2>1. /\ Len(answers) + j \in 1..Len(answers') /\ (Len(answers) + j) - Len(answers) = j
        /\ ~ (Len(answers) + j <= Len(answers))
    BY <1>5, <1>6
  <2> QED
    BY Zenon, <1>4, <1>5, <2>1
<1>9. ASSUME NEW i \in 1..Len(answers'), i \notin 1..Len(answers)
      PROVE  \E j \in 1..Len(ts) : i = Len(answers) + j
  <2>1. i - Len(answers) \in 1..Len(ts) /\ i = Len(answers) + (i - Len(answers))
    BY <1>5, <1>6, <1>9
  <2> QED
    BY Zenon, <2>1
<1>10. ASSUME NEW i \in 1..Len(answers')
       PROVE  \/ i \in 1..Len(answers) /\ answers'[i] = answers[i]
              \/ /\ answers'[i].key = k /\ answers'[i].value = v
                 /\ \E j \in 1..Len(ts) : i = Len(answers) + j /\ answers'[i].thread = ts[j]
  <2>1. CASE i \in 1..Len(answers)
    BY Zenon, <1>7, <2>1
  <2>2. CASE i \notin 1..Len(answers)
    <3>1. PICK j \in 1..Len(ts) : i = Len(answers) + j
      BY Zenon, <1>9, <2>2
    <3> QED
      BY Zenon, <1>3, <1>8, <3>1
  <2> QED
    BY Zenon, <2>1, <2>2
<1>11. \A j \in 1..Len(ts) : \E i \in 1..Len(answers') : answers'[i].thread = ts[j]
  BY Zenon, <1>3, <1>8
<1> QED
  BY Zenon, <1>5, <1>7, <1>10, <1>11 DEF AnswersTo

\* The types of what is in the queues.
LEMMA Elements ==
  ASSUME BoardTypeOK
  PROVE  /\ \A w \in Workers : Len(requests[w]) \in Nat
         /\ \A w \in Workers : \A i \in 1..Len(requests[w]) :
              /\ requests[w][i].thread \in Threads /\ requests[w][i].key \in Keys
              /\ requests[w][i].value \in 0..MaxPuts /\ requests[w][i].op \in {"PUT", "GET"}
         /\ \A k \in Keys : Len(to_serve_kv_request[k]) \in Nat /\ Len(log[k]) \in Nat
         /\ \A k \in Keys : \A i \in 1..Len(to_serve_kv_request[k]) :
              to_serve_kv_request[k][i] \in Threads
         /\ Len(answers) \in Nat
         /\ \A i \in 1..Len(answers) :
              /\ answers[i].thread \in Threads /\ answers[i].key \in Keys
              /\ answers[i].value \in 1..MaxPuts
<1>1. ASSUME NEW w \in Workers
      PROVE  /\ Len(requests[w]) \in Nat
             /\ \A i \in 1..Len(requests[w]) : requests[w][i] \in BoardRequest
  BY DEF BoardTypeOK
<1>2. ASSUME NEW m \in BoardRequest
      PROVE  /\ m.thread \in Threads /\ m.key \in Keys
             /\ m.value \in 0..MaxPuts /\ m.op \in {"PUT", "GET"}
  BY Zenon DEF BoardRequest
<1>3. ASSUME NEW k \in Keys
      PROVE  /\ Len(to_serve_kv_request[k]) \in Nat /\ Len(log[k]) \in Nat
             /\ \A i \in 1..Len(to_serve_kv_request[k]) : to_serve_kv_request[k][i] \in Threads
  BY DEF BoardTypeOK
<1>4. Len(answers) \in Nat /\ \A i \in 1..Len(answers) : answers[i] \in Reply
  BY DEF BoardTypeOK
<1>5. ASSUME NEW m \in Reply
      PROVE  m.thread \in Threads /\ m.key \in Keys /\ m.value \in 1..MaxPuts
  BY Zenon DEF Reply
<1> QED
  BY Zenon, <1>1, <1>2, <1>3, <1>4, <1>5

\* A thread that is not waiting has nothing set aside or answered, and no GET
\* under way.
LEMMA IdleHasNone ==
  ASSUME BoardTypeOK, Expected, Idle \notin Keys, NEW t \in Threads, call[t] = Idle
  PROVE  /\ \A w \in Workers : \A i \in 1..Len(requests[w]) :
              requests[w][i].op = "GET" => requests[w][i].thread # t
         /\ \A k \in Keys : \A i \in 1..Len(to_serve_kv_request[k]) :
              to_serve_kv_request[k][i] # t
         /\ \A i \in 1..Len(answers) : answers[i].thread # t
<1>1. ASSUME NEW w \in Workers, NEW i \in 1..Len(requests[w]), requests[w][i].op = "GET"
      PROVE  requests[w][i].thread # t
  <2>1. call[requests[w][i].thread] = requests[w][i].key
    BY Zenon, <1>1 DEF Expected, ExpectedAsked
  <2> QED
    BY Zenon, <2>1, Elements
<1>2. ASSUME NEW k \in Keys, NEW i \in 1..Len(to_serve_kv_request[k])
      PROVE  to_serve_kv_request[k][i] # t
  BY DEF Expected, ExpectedAside
<1>3. ASSUME NEW i \in 1..Len(answers) PROVE answers[i].thread # t
  <2>1. call[answers[i].thread] = answers[i].key
    BY Zenon DEF Expected, ExpectedAnswered
  <2> QED
    BY Zenon, <2>1, Elements
<1> QED
  BY Zenon, <1>1, <1>2, <1>3

-----------------------------------------------------------------------------
(* Every step preserves the invariant *)

\* The invariant holds before the first call.
LEMMA InitIInv == ASSUME BoardInit PROVE IInv
<1>1. BoardTypeOK /\ NoneOverlooked
  BY KeyValueAssumption DEF BoardInit, BoardTypeOK, NoneOverlooked, Absent
<1>2. Own /\ Expected
  BY DEF BoardInit, Own, Expected, ExpectedAsked, ExpectedAside, ExpectedAnswered
<1>3. Single
  BY DEF BoardInit, Single, GetLast, AsideOnce, AnsweredOnce, AskedAlone, AsideAlone
<1>4. Present
  BY Zenon DEF BoardInit, Present
<1>5. Logged
  BY DEF BoardInit, Logged, Latest, Older, LoggedOnce, NotYetLogged, PutOnce
<1>6. Ordered
  BY DEF BoardInit, Ordered, SeenKnown, Newest
<1> QED
  BY Zenon, <1>1, <1>2, <1>3, <1>4, <1>5, <1>6 DEF IInv

\* When a thread sends a request, it is the last on its queue pair.
LEMMA AskedMore ==
  ASSUME BoardTypeOK, NEW w \in Workers, NEW m \in BoardRequest, SendToMaster(w, m)
  PROVE  /\ requests' \in [Workers -> Seq(BoardRequest)]
         /\ \A u \in Workers : \A i \in 1..Len(requests[u]) :
              i \in 1..Len(requests'[u]) /\ requests'[u][i] = requests[u][i]
         /\ Len(requests[w]) + 1 \in 1..Len(requests'[w])
         /\ requests'[w][Len(requests[w]) + 1] = m
         /\ \A u \in Workers : \A i \in 1..Len(requests'[u]) :
              \/ i \in 1..Len(requests[u]) /\ requests'[u][i] = requests[u][i]
              \/ u = w /\ i = Len(requests[w]) + 1 /\ requests'[u][i] = m
<1>1. requests \in [Workers -> Seq(BoardRequest)]
  BY Zenon DEF BoardTypeOK
<1>2. requests' = [requests EXCEPT ![w] = Append(@, m)]
  BY Zenon DEF SendToMaster
<1> QED
  BY <1>1, <1>2, Sent

Take(w) == requests[w] # <<>> /\ requests' = [requests EXCEPT ![w] = Tail(@)]

\* When the master takes the first request of a queue pair, the others move up.
LEMMA AskedLess ==
  ASSUME BoardTypeOK, NEW w \in Workers, Take(w)
  PROVE  /\ requests' \in [Workers -> Seq(BoardRequest)]
         /\ 1 \in 1..Len(requests[w]) /\ Head(requests[w]) = requests[w][1]
         /\ \A u \in Workers : \A i \in 1..Len(requests'[u]) :
              IF u = w THEN i + 1 \in 1..Len(requests[u]) /\ requests'[u][i] = requests[u][i + 1]
                       ELSE i \in 1..Len(requests[u]) /\ requests'[u][i] = requests[u][i]
         /\ \A u \in Workers : \A i \in 1..Len(requests[u]) :
              (u = w /\ i = 1) \/ \E j \in 1..Len(requests'[u]) : requests'[u][j] = requests[u][i]
<1>1. requests \in [Workers -> Seq(BoardRequest)]
  BY Zenon DEF BoardTypeOK
<1>2. /\ requests' \in [Workers -> Seq(BoardRequest)]
      /\ 1 \in 1..Len(requests[w]) /\ Head(requests[w]) = requests[w][1]
  BY <1>1, Taken, SMT DEF Take
<1>3. ASSUME NEW u \in Workers, NEW i \in 1..Len(requests'[u])
      PROVE  IF u = w THEN i + 1 \in 1..Len(requests[u]) /\ requests'[u][i] = requests[u][i + 1]
                      ELSE i \in 1..Len(requests[u]) /\ requests'[u][i] = requests[u][i]
  BY <1>1, Taken, SMT DEF Take
<1>4. ASSUME NEW u \in Workers, NEW i \in 1..Len(requests[u])
      PROVE  IF u = w
             THEN i = 1 \/ (i - 1 \in 1..Len(requests'[u]) /\ requests'[u][i - 1] = requests[u][i])
             ELSE i \in 1..Len(requests'[u]) /\ requests'[u][i] = requests[u][i]
  BY <1>1, Taken, SMT DEF Take
<1>5. ASSUME NEW u \in Workers, NEW i \in 1..Len(requests[u])
      PROVE  (u = w /\ i = 1) \/ \E j \in 1..Len(requests'[u]) : requests'[u][j] = requests[u][i]
  BY Zenon, <1>4
<1> QED
  BY Zenon, <1>2, <1>3, <1>5

\* Put of an application thread preserves the invariant: the value is new, and
\* behind everything else the thread has asked for.
LEMMA PutStep ==
  ASSUME IInv, NEW t \in Threads, NEW k \in Keys, Put(t, k)
  PROVE  IInv'
<1> DEFINE m == [op |-> "PUT", thread |-> t, key |-> k, value |-> puts + 1]
<1>1. BoardTypeOK /\ NoneOverlooked /\ Own /\ Expected /\ Single /\ Present /\ Logged /\ Ordered
  BY Zenon DEF IInv
<1>2. /\ call[t] = Idle /\ puts + 1 \in 1..MaxPuts /\ puts' = puts + 1 /\ puts \in Nat
      /\ Idle \notin Keys /\ \A u \in Threads : u[1] \in Workers
  BY KeyValueAssumption, <1>1 DEF Put, BoardTypeOK
<1>3. /\ SendToMaster(t[1], m)
      /\ seen' = [seen EXCEPT ![t][k] = @ \cup {puts + 1}]
      /\ UNCHANGED <<call, answers, kvs, to_serve_kv_request, log>>
  BY Zenon DEF Put
<1>4. m \in BoardRequest /\ m.op = "PUT" /\ m.thread = t /\ m.key = k /\ m.value = puts + 1
  BY <1>2 DEF BoardRequest
<1> HIDE DEF m
<1>5. /\ requests' \in [Workers -> Seq(BoardRequest)]
      /\ \A u \in Workers : \A i \in 1..Len(requests[u]) :
           i \in 1..Len(requests'[u]) /\ requests'[u][i] = requests[u][i]
      /\ Len(requests[t[1]]) + 1 \in 1..Len(requests'[t[1]])
      /\ requests'[t[1]][Len(requests[t[1]]) + 1] = m
  BY <1>1, <1>2, <1>3, <1>4, AskedMore, Zenon
<1>6. \A u \in Workers : \A i \in 1..Len(requests'[u]) :
        \/ i \in 1..Len(requests[u]) /\ requests'[u][i] = requests[u][i]
        \/ u = t[1] /\ i = Len(requests[t[1]]) + 1 /\ requests'[u][i] = m
  BY <1>1, <1>2, <1>3, <1>4, AskedMore, Zenon
<1>7. BoardTypeOK' /\ NoneOverlooked'
  <2>1. seen' \in [Threads -> [Keys -> SUBSET (1..MaxPuts)]]
    BY ZenonT(60), <1>1, <1>2, <1>3 DEF BoardTypeOK
  <2> QED
    BY SMTT(60), <1>1, <1>2, <1>3, <1>5, <2>1 DEF BoardTypeOK, NoneOverlooked
<1>8. Own'
  <2> SUFFICES ASSUME NEW w \in Workers, NEW i \in 1..Len(requests'[w])
               PROVE  /\ requests'[w][i].thread[1] = w
                      /\ requests'[w][i].op = "PUT" => requests'[w][i].value \in 1..puts'
    BY Zenon DEF Own
  <2>1. CASE i \in 1..Len(requests[w]) /\ requests'[w][i] = requests[w][i]
    BY SMTT(60), <1>1, <1>2, <2>1 DEF Own
  <2>2. CASE w = t[1] /\ requests'[w][i] = m
    BY <1>2, <1>4, <2>2
  <2> QED
    BY Zenon, <1>6, <2>1, <2>2
<1>9. Expected'
  BY <1>1, <1>3, <1>4, <1>6 DEF Expected, ExpectedAsked, ExpectedAside, ExpectedAnswered
<1>10. /\ \A w \in Workers : \A i \in 1..Len(requests[w]) :
           requests[w][i].op = "GET" => requests[w][i].thread # t
       /\ \A l \in Keys : \A j \in 1..Len(to_serve_kv_request[l]) : to_serve_kv_request[l][j] # t
       /\ \A j \in 1..Len(answers) : answers[j].thread # t
  BY Zenon, <1>1, <1>2, IdleHasNone
<1>11. Single'
  <2>1. GetLast'
    <3> SUFFICES ASSUME NEW w \in Workers, NEW i \in 1..Len(requests'[w]),
                        NEW j \in 1..Len(requests'[w]), requests'[w][j].op = "GET",
                        requests'[w][i].thread = requests'[w][j].thread
                 PROVE  i <= j
      BY Zenon DEF GetLast
    <3>1. j \in 1..Len(requests[w]) /\ requests'[w][j] = requests[w][j]
      BY Zenon, <1>4, <1>6
    <3>2. requests[w][j].thread # t
      BY Zenon, <1>10, <3>1
    <3>3. i \in 1..Len(requests[w]) /\ requests'[w][i] = requests[w][i]
      BY Zenon, <1>4, <1>6, <3>1, <3>2
    <3> QED
      BY Zenon, <1>1, <3>1, <3>3 DEF Single, GetLast
  <2>2. AsideOnce' /\ AnsweredOnce' /\ AsideAlone'
    BY ZenonT(60), <1>1, <1>3 DEF Single, AsideOnce, AnsweredOnce, AsideAlone
  <2>3. AskedAlone'
    <3> SUFFICES ASSUME NEW w \in Workers, NEW i \in 1..Len(requests'[w])
                 PROVE  /\ \A l \in Keys : \A j \in 1..Len(to_serve_kv_request[l]) :
                             to_serve_kv_request[l][j] # requests'[w][i].thread
                        /\ \A j \in 1..Len(answers) : answers[j].thread # requests'[w][i].thread
      BY ZenonT(60), <1>3 DEF AskedAlone
    <3>1. CASE i \in 1..Len(requests[w]) /\ requests'[w][i] = requests[w][i]
      BY ZenonT(60), <1>1, <3>1 DEF Single, AskedAlone
    <3>2. CASE requests'[w][i] = m
      BY Zenon, <1>4, <1>10, <3>2
    <3> QED
      BY Zenon, <1>6, <3>1, <3>2
  <2> QED
    BY Zenon, <2>1, <2>2, <2>3 DEF Single
<1>12. Present'
  <2> SUFFICES ASSUME NEW u \in Threads, call[u] # Idle,
                      NEW i \in 1..Len(requests[u[1]]), IsAsked(u, i)
               PROVE  i \in 1..Len(requests'[u[1]]) /\ IsAsked(u, i)'
    BY Zenon, <1>1, <1>3 DEF Present
  <2> QED
    BY Zenon, <1>2, <1>5 DEF IsAsked
<1>13. Logged'
  <2>1. Latest' /\ LoggedOnce'
    BY Zenon, <1>1, <1>3 DEF Logged, Latest, LoggedOnce
  <2>2. Older'
    BY <1>1, <1>2, <1>3 DEF Logged, Older
  <2>3. NotYetLogged'
    <3> SUFFICES ASSUME NEW w \in Workers, NEW i \in 1..Len(requests'[w]),
                        requests'[w][i].op = "PUT", NEW l \in Keys, NEW j \in 1..Len(log[l])
                 PROVE  log[l][j] # requests'[w][i].value
      BY ZenonT(60), <1>3 DEF NotYetLogged
    <3>1. CASE i \in 1..Len(requests[w]) /\ requests'[w][i] = requests[w][i]
      BY ZenonT(60), <1>1, <3>1 DEF Logged, NotYetLogged
    <3>2. CASE requests'[w][i] = m
      BY <1>1, <1>2, <1>4, <3>2 DEF Logged, Older
    <3> QED
      BY Zenon, <1>6, <3>1, <3>2
  <2>4. PutOnce'
    <3> SUFFICES ASSUME NEW w \in Workers, NEW u \in Workers,
                        NEW i \in 1..Len(requests'[w]), NEW j \in 1..Len(requests'[u]),
                        requests'[w][i].op = "PUT", requests'[u][j].op = "PUT",
                        requests'[w][i].value = requests'[u][j].value
                 PROVE  w = u /\ i = j
      BY DEF PutOnce
    <3>1. CASE requests'[w][i] = requests[w][i] /\ i \in 1..Len(requests[w])
      <4>1. requests'[w][i].value # puts + 1
        BY <1>1, <1>2, <3>1 DEF Own
      <4>2. requests'[u][j] = requests[u][j] /\ j \in 1..Len(requests[u])
        BY Zenon, <1>4, <1>6, <4>1
      <4> QED
        BY ZenonT(60), <1>1, <3>1, <4>2 DEF Logged, PutOnce
    <3>2. CASE requests'[w][i] = m /\ w = t[1] /\ i = Len(requests[t[1]]) + 1
      <4>1. ~ (requests'[u][j] = requests[u][j] /\ j \in 1..Len(requests[u]))
        BY <1>1, <1>2, <1>4, <3>2 DEF Own
      <4> QED
        BY Zenon, <1>6, <3>2, <4>1
    <3> QED
      BY Zenon, <1>6, <3>1, <3>2
  <2> QED
    BY Zenon, <2>1, <2>2, <2>3, <2>4 DEF Logged
<1>14. \A u \in Threads, l \in Keys : \A v \in seen'[u][l] :
         v \in seen[u][l] \/ (u = t /\ l = k /\ v = puts + 1)
  BY Zenon, <1>1, <1>3 DEF BoardTypeOK
<1>15. SeenKnown'
  <2> SUFFICES ASSUME NEW u \in Threads, NEW l \in Keys, NEW v \in seen'[u][l]
               PROVE  \/ \E i \in 1..Len(log[l]) : log[l][i] = v
                      \/ \E i \in 1..Len(requests'[u[1]]) :
                           /\ requests'[u[1]][i].op = "PUT" /\ requests'[u[1]][i].thread = u
                           /\ requests'[u[1]][i].key = l /\ requests'[u[1]][i].value = v
    BY <1>3 DEF SeenKnown
  <2>1. CASE v \in seen[u][l]
    <3>1. CASE \E i \in 1..Len(log[l]) : log[l][i] = v
      BY Zenon, <3>1
    <3>2. ASSUME NEW i \in 1..Len(requests[u[1]]),
                 requests[u[1]][i].op = "PUT", requests[u[1]][i].thread = u,
                 requests[u[1]][i].key = l, requests[u[1]][i].value = v
          PROVE  i \in 1..Len(requests'[u[1]]) /\ requests'[u[1]][i] = requests[u[1]][i]
      BY Zenon, <1>2, <1>5
    <3> QED
      BY SMTT(60), <1>1, <2>1, <3>1, <3>2 DEF Ordered, SeenKnown
  <2>2. CASE u = t /\ l = k /\ v = puts + 1
    BY Zenon, <1>4, <1>5, <2>2
  <2> QED
    BY Zenon, <1>14, <2>1, <2>2
<1>16. Newest'
  BY ZenonT(60), <1>1, <1>3, <1>10, <1>14, Elements DEF Ordered, Newest
<1> QED
  BY Zenon, <1>7, <1>8, <1>9, <1>11, <1>12, <1>13, <1>15, <1>16 DEF IInv, Ordered

\* Get of an application thread preserves the invariant: the thread had nothing
\* under way but calls of Put, so its GET is the last and the only one.
LEMMA GetStep ==
  ASSUME IInv, NEW t \in Threads, NEW k \in Keys, Get(t, k)
  PROVE  IInv'
<1> DEFINE m == [op |-> "GET", thread |-> t, key |-> k, value |-> Absent]
<1>1. BoardTypeOK /\ NoneOverlooked /\ Own /\ Expected /\ Single /\ Present /\ Logged /\ Ordered
  BY Zenon DEF IInv
<1>2. /\ call[t] = Idle /\ Idle \notin Keys /\ \A u \in Threads : u[1] \in Workers
      /\ MaxPuts \in Nat
  BY Zenon, KeyValueAssumption DEF Get
<1>3. /\ SendToMaster(t[1], m) /\ call' = [call EXCEPT ![t] = k]
      /\ UNCHANGED <<answers, kvs, to_serve_kv_request, puts, log, seen>>
  BY Zenon DEF Get
<1>4. m \in BoardRequest /\ m.op = "GET" /\ m.thread = t /\ m.key = k
  BY <1>2 DEF BoardRequest, Absent
<1> HIDE DEF m
<1>5. /\ requests' \in [Workers -> Seq(BoardRequest)]
      /\ \A u \in Workers : \A i \in 1..Len(requests[u]) :
           i \in 1..Len(requests'[u]) /\ requests'[u][i] = requests[u][i]
      /\ Len(requests[t[1]]) + 1 \in 1..Len(requests'[t[1]])
      /\ requests'[t[1]][Len(requests[t[1]]) + 1] = m
  BY <1>1, <1>2, <1>3, <1>4, AskedMore, Zenon
<1>6. \A u \in Workers : \A i \in 1..Len(requests'[u]) :
        \/ i \in 1..Len(requests[u]) /\ requests'[u][i] = requests[u][i]
        \/ u = t[1] /\ i = Len(requests[t[1]]) + 1 /\ requests'[u][i] = m
  BY <1>1, <1>2, <1>3, <1>4, AskedMore, Zenon
<1>7. call' \in [Threads -> Keys \cup {Idle}] /\ call'[t] = k /\ \A u \in Threads : u # t => call'[u] = call[u]
  BY Zenon, <1>1, <1>3 DEF BoardTypeOK
<1>8. BoardTypeOK' /\ NoneOverlooked'
  BY Zenon, <1>1, <1>3, <1>5, <1>7 DEF BoardTypeOK, NoneOverlooked
<1>9. Own'
  <2> SUFFICES ASSUME NEW w \in Workers, NEW i \in 1..Len(requests'[w])
               PROVE  /\ requests'[w][i].thread[1] = w
                      /\ requests'[w][i].op = "PUT" => requests'[w][i].value \in 1..puts
    BY Zenon, <1>3 DEF Own
  <2>1. CASE i \in 1..Len(requests[w]) /\ requests'[w][i] = requests[w][i]
    BY Zenon, <1>1, <2>1 DEF Own
  <2>2. CASE w = t[1] /\ requests'[w][i] = m
    BY Zenon, <1>4, <2>2
  <2> QED
    BY Zenon, <1>6, <2>1, <2>2
<1>10. /\ \A w \in Workers : \A i \in 1..Len(requests[w]) :
           requests[w][i].op = "GET" => requests[w][i].thread # t
       /\ \A l \in Keys : \A j \in 1..Len(to_serve_kv_request[l]) : to_serve_kv_request[l][j] # t
       /\ \A j \in 1..Len(answers) : answers[j].thread # t
  BY Zenon, <1>1, <1>2, IdleHasNone
<1>11. Expected'
  <2>1. ExpectedAsked'
    <3> SUFFICES ASSUME NEW w \in Workers, NEW i \in 1..Len(requests'[w]), requests'[w][i].op = "GET"
                 PROVE  call'[requests'[w][i].thread] = requests'[w][i].key
      BY Zenon DEF ExpectedAsked
    <3>1. CASE i \in 1..Len(requests[w]) /\ requests'[w][i] = requests[w][i]
      BY ZenonT(60), <1>1, <1>7, <1>10, <3>1, Elements DEF Expected, ExpectedAsked
    <3>2. CASE requests'[w][i] = m
      BY Zenon, <1>4, <1>7, <3>2
    <3> QED
      BY Zenon, <1>6, <3>1, <3>2
  <2>2. ExpectedAside' /\ ExpectedAnswered'
    BY <1>1, <1>3, <1>7, <1>10, Elements DEF Expected, ExpectedAside, ExpectedAnswered
  <2> QED
    BY Zenon, <2>1, <2>2 DEF Expected
<1>12. Single'
  <2>1. GetLast'
    <3> SUFFICES ASSUME NEW w \in Workers, NEW i \in 1..Len(requests'[w]),
                        NEW j \in 1..Len(requests'[w]), requests'[w][j].op = "GET",
                        requests'[w][i].thread = requests'[w][j].thread
                 PROVE  i <= j
      BY Zenon DEF GetLast
    <3>1. CASE j \in 1..Len(requests[w]) /\ requests'[w][j] = requests[w][j]
      <4>1. requests[w][j].thread # t
        BY Zenon, <1>10, <3>1
      <4>2. i \in 1..Len(requests[w]) /\ requests'[w][i] = requests[w][i]
        BY Zenon, <1>4, <1>6, <3>1, <4>1
      <4> QED
        BY Zenon, <1>1, <3>1, <4>2 DEF Single, GetLast
    <3>2. CASE w = t[1] /\ j = Len(requests[w]) + 1
      BY SMTT(60), <1>1, <1>6, <3>2, Elements
    <3> QED
      BY Zenon, <1>6, <3>1, <3>2
  <2>2. AsideOnce' /\ AnsweredOnce' /\ AsideAlone'
    BY ZenonT(60), <1>1, <1>3 DEF Single, AsideOnce, AnsweredOnce, AsideAlone
  <2>3. AskedAlone'
    <3> SUFFICES ASSUME NEW w \in Workers, NEW i \in 1..Len(requests'[w])
                 PROVE  /\ \A l \in Keys : \A j \in 1..Len(to_serve_kv_request[l]) :
                             to_serve_kv_request[l][j] # requests'[w][i].thread
                        /\ \A j \in 1..Len(answers) : answers[j].thread # requests'[w][i].thread
      BY ZenonT(60), <1>3 DEF AskedAlone
    <3>1. CASE i \in 1..Len(requests[w]) /\ requests'[w][i] = requests[w][i]
      BY ZenonT(60), <1>1, <3>1 DEF Single, AskedAlone
    <3>2. CASE requests'[w][i] = m
      BY Zenon, <1>4, <1>10, <3>2
    <3> QED
      BY Zenon, <1>6, <3>1, <3>2
  <2> QED
    BY Zenon, <2>1, <2>2, <2>3 DEF Single
<1>13. Present'
  <2> SUFFICES ASSUME NEW u \in Threads, call'[u] # Idle
               PROVE  \/ \E i \in 1..Len(requests'[u[1]]) : IsAsked(u, i)'
                      \/ \E l \in Keys : \E i \in 1..Len(to_serve_kv_request[l]) : to_serve_kv_request[l][i] = u
                      \/ \E i \in 1..Len(answers) : answers[i].thread = u
    BY Zenon, <1>3 DEF Present
  <2>1. CASE u = t
    BY Zenon, <1>4, <1>5, <2>1 DEF IsAsked
  <2>2. CASE u # t
    <3>1. ASSUME NEW i \in 1..Len(requests[u[1]]), IsAsked(u, i)
          PROVE  i \in 1..Len(requests'[u[1]]) /\ IsAsked(u, i)'
      BY Zenon, <1>2, <1>5, <3>1 DEF IsAsked
    <3> QED
      BY Zenon, <1>1, <1>7, <2>2, <3>1 DEF Present
  <2> QED
    BY Zenon, <2>1, <2>2
<1>14. Logged'
  <2>1. Latest' /\ LoggedOnce' /\ Older'
    BY ZenonT(60), <1>1, <1>3 DEF Logged, Latest, LoggedOnce, Older
  <2>2. ASSUME NEW w \in Workers, NEW i \in 1..Len(requests'[w]), requests'[w][i].op = "PUT"
        PROVE  i \in 1..Len(requests[w]) /\ requests'[w][i] = requests[w][i]
    BY Zenon, <1>4, <1>6, <2>2
  <2>3. NotYetLogged'
    BY SMTT(60), <1>1, <1>3, <2>2 DEF Logged, NotYetLogged
  <2>4. PutOnce'
    <3> SUFFICES ASSUME NEW w \in Workers, NEW u \in Workers,
                        NEW i \in 1..Len(requests'[w]), NEW j \in 1..Len(requests'[u]),
                        requests'[w][i].op = "PUT", requests'[u][j].op = "PUT",
                        requests'[w][i].value = requests'[u][j].value
                 PROVE  w = u /\ i = j
      BY DEF PutOnce
    <3>1. /\ i \in 1..Len(requests[w]) /\ requests'[w][i] = requests[w][i]
          /\ j \in 1..Len(requests[u]) /\ requests'[u][j] = requests[u][j]
      BY Zenon, <2>2
    <3> QED
      BY ZenonT(60), <1>1, <3>1 DEF Logged, PutOnce
  <2> QED
    BY Zenon, <2>1, <2>3, <2>4 DEF Logged
<1>15. SeenKnown'
  <2> SUFFICES ASSUME NEW u \in Threads, NEW l \in Keys, NEW v \in seen[u][l],
                      NEW i \in 1..Len(requests[u[1]])
               PROVE  i \in 1..Len(requests'[u[1]]) /\ requests'[u[1]][i] = requests[u[1]][i]
    BY SMTT(60), <1>1, <1>3 DEF Ordered, SeenKnown
  <2> QED
    BY Zenon, <1>2, <1>5
<1>16. Newest'
  BY Zenon, <1>1, <1>3 DEF Ordered, Newest
<1> QED
  BY Zenon, <1>8, <1>9, <1>11, <1>12, <1>13, <1>14, <1>15, <1>16 DEF IInv, Ordered

\* When the master takes a request, the others stay in order and are different.
LEMMA TakeStep ==
  ASSUME IInv, NEW w \in Workers, Take(w), UNCHANGED <<call, puts>>
  PROVE  /\ requests' \in [Workers -> Seq(BoardRequest)]
         /\ 1 \in 1..Len(requests[w]) /\ Head(requests[w]) = requests[w][1]
         /\ Own' /\ ExpectedAsked' /\ GetLast' /\ PutOnce'
         /\ \A u \in Workers : \A i \in 1..Len(requests'[u]) :
              /\ \E o \in 1..Len(requests[u]) : requests'[u][i] = requests[u][o]
              /\ requests[w][1].op = "GET" => requests'[u][i].thread # requests[w][1].thread
              /\ (requests[w][1].op = "PUT" /\ requests'[u][i].op = "PUT") =>
                   requests'[u][i].value # requests[w][1].value
         /\ \A u \in Workers : \A i \in 1..Len(requests[u]) :
              (u = w /\ i = 1) \/ \E j \in 1..Len(requests'[u]) : requests'[u][j] = requests[u][i]
<1>1. BoardTypeOK /\ Own /\ Expected /\ Single /\ Logged
  BY Zenon DEF IInv
<1>2. /\ requests' \in [Workers -> Seq(BoardRequest)]
      /\ 1 \in 1..Len(requests[w]) /\ Head(requests[w]) = requests[w][1]
      /\ \A u \in Workers : \A i \in 1..Len(requests[u]) :
           (u = w /\ i = 1) \/ \E j \in 1..Len(requests'[u]) : requests'[u][j] = requests[u][i]
  BY <1>1, AskedLess, Zenon
<1> DEFINE Old(u, i) == IF u = w THEN i + 1 ELSE i
<1>3. ASSUME NEW u \in Workers, NEW i \in 1..Len(requests'[u])
      PROVE  /\ Old(u, i) \in 1..Len(requests[u]) /\ requests'[u][i] = requests[u][Old(u, i)]
             /\ ~ (u = w /\ Old(u, i) = 1) /\ i \in Nat
  <2>1. IF u = w THEN i + 1 \in 1..Len(requests[u]) /\ requests'[u][i] = requests[u][i + 1]
                 ELSE i \in 1..Len(requests[u]) /\ requests'[u][i] = requests[u][i]
    BY Zenon, <1>1, AskedLess
  <2>2. Len(requests'[u]) \in Nat
    BY <1>2
  <2> QED
    BY <2>1, <2>2
<1>4. ASSUME NEW u \in Workers, NEW i \in Nat, NEW j \in Nat, Old(u, i) <= Old(u, j)
      PROVE  i <= j
  BY <1>4
<1>5. ASSUME NEW u \in Workers, NEW i \in Nat, NEW j \in Nat, Old(u, i) = Old(u, j)
      PROVE  i = j
  BY <1>5
<1> HIDE DEF Old
<1>6. Own' /\ ExpectedAsked'
  <2>1. Own'
    <3> SUFFICES ASSUME NEW u \in Workers, NEW i \in 1..Len(requests'[u])
                 PROVE  /\ requests'[u][i].thread[1] = u
                        /\ requests'[u][i].op = "PUT" => requests'[u][i].value \in 1..puts'
      BY Zenon DEF Own
    <3> QED
      BY SMTT(60), <1>1, <1>3 DEF Own
  <2>2. ExpectedAsked'
    <3> SUFFICES ASSUME NEW u \in Workers, NEW i \in 1..Len(requests'[u]),
                        requests'[u][i].op = "GET"
                 PROVE  call'[requests'[u][i].thread] = requests'[u][i].key
      BY Zenon DEF ExpectedAsked
    <3> QED
      BY ZenonT(60), <1>1, <1>3 DEF Expected, ExpectedAsked
  <2> QED
    BY Zenon, <2>1, <2>2
<1>7. GetLast'
  <2> SUFFICES ASSUME NEW u \in Workers, NEW i \in 1..Len(requests'[u]),
                      NEW j \in 1..Len(requests'[u]), requests'[u][j].op = "GET",
                      requests'[u][i].thread = requests'[u][j].thread
               PROVE  i <= j
    BY Zenon DEF GetLast
  <2>1. /\ Old(u, i) \in 1..Len(requests[u]) /\ requests'[u][i] = requests[u][Old(u, i)]
        /\ Old(u, j) \in 1..Len(requests[u]) /\ requests'[u][j] = requests[u][Old(u, j)]
        /\ i \in Nat /\ j \in Nat
    BY Zenon, <1>3
  <2>2. Old(u, i) <= Old(u, j)
    BY Zenon, <1>1, <2>1 DEF Single, GetLast
  <2> QED
    BY Zenon, <1>4, <2>1, <2>2
<1>8. PutOnce'
  <2> SUFFICES ASSUME NEW v \in Workers, NEW u \in Workers,
                      NEW i \in 1..Len(requests'[v]), NEW j \in 1..Len(requests'[u]),
                      requests'[v][i].op = "PUT", requests'[u][j].op = "PUT",
                      requests'[v][i].value = requests'[u][j].value
               PROVE  v = u /\ i = j
    BY DEF PutOnce
  <2>1. /\ Old(v, i) \in 1..Len(requests[v]) /\ requests'[v][i] = requests[v][Old(v, i)]
        /\ Old(u, j) \in 1..Len(requests[u]) /\ requests'[u][j] = requests[u][Old(u, j)]
        /\ i \in Nat /\ j \in Nat
    BY Zenon, <1>3
  <2>2. v = u /\ Old(v, i) = Old(u, j)
    BY SMTT(60), <1>1, <2>1 DEF Logged, PutOnce
  <2> QED
    BY Zenon, <1>5, <2>1, <2>2
<1>9. ASSUME NEW u \in Workers, NEW i \in 1..Len(requests'[u])
      PROVE  /\ \E o \in 1..Len(requests[u]) : requests'[u][i] = requests[u][o]
             /\ requests[w][1].op = "GET" => requests'[u][i].thread # requests[w][1].thread
             /\ (requests[w][1].op = "PUT" /\ requests'[u][i].op = "PUT") =>
                   requests'[u][i].value # requests[w][1].value
  <2> DEFINE o == Old(u, i)
  <2>1. /\ o \in 1..Len(requests[u]) /\ requests'[u][i] = requests[u][o] /\ ~ (u = w /\ o = 1)
    BY Zenon, <1>3
  <2> HIDE DEF o
  <2>2. ASSUME requests[w][1].op = "GET", requests[u][o].thread = requests[w][1].thread
        PROVE  FALSE
    <3>1. requests[u][o].thread[1] = u /\ requests[w][1].thread[1] = w
      BY Zenon, <1>1, <1>2, <2>1 DEF Own
    <3>2. o <= 1
      BY SMTT(60), <1>1, <1>2, <2>1, <2>2, <3>1 DEF Single, GetLast
    <3> QED
      BY <1>1, <2>1, <2>2, <3>1, <3>2, Elements
  <2>3. ASSUME requests[w][1].op = "PUT", requests[u][o].op = "PUT",
               requests[u][o].value = requests[w][1].value
        PROVE  FALSE
    <3>1. u = w /\ o = 1
      BY ZenonT(60), <1>1, <1>2, <2>1, <2>3 DEF Logged, PutOnce
    <3> QED
      BY Zenon, <2>1, <3>1
  <2> QED
    BY Zenon, <2>1, <2>2, <2>3
<1> QED
  BY Zenon, <1>2, <1>6, <1>7, <1>8, <1>9

\* The PUT case of the master preserves the invariant: the value becomes the
\* latest, and the requests set aside for its key become answers that carry it.
LEMMA ProcessPutStep ==
  ASSUME IInv, NEW w \in Workers, Take(w), UNCHANGED <<call, puts, seen>>,
         requests[w][1].op = "PUT", ProcessPut(requests[w][1].key, requests[w][1].value)
  PROVE  IInv'
<1> DEFINE m == requests[w][1]
           k == m.key
           v == m.value
           ts == to_serve_kv_request[k]
<1>1. BoardTypeOK /\ NoneOverlooked /\ Own /\ Expected /\ Single /\ Present /\ Logged /\ Ordered
  BY Zenon DEF IInv
<1>2. /\ requests' \in [Workers -> Seq(BoardRequest)]
      /\ 1 \in 1..Len(requests[w])
      /\ Own' /\ ExpectedAsked' /\ GetLast' /\ PutOnce'
  BY Zenon, TakeStep
<1>3. \A u \in Workers : \A i \in 1..Len(requests'[u]) :
        /\ \E o \in 1..Len(requests[u]) : requests'[u][i] = requests[u][o]
        /\ requests'[u][i].op = "PUT" => requests'[u][i].value # v
  BY ZenonT(60), TakeStep
<1>4. \A u \in Workers : \A i \in 1..Len(requests[u]) :
        (u = w /\ i = 1) \/ \E j \in 1..Len(requests'[u]) : requests'[u][j] = requests[u][i]
  BY Zenon, TakeStep
<1>5. k \in Keys /\ m.thread \in Threads /\ v \in 1..puts /\ v \in 1..MaxPuts
  <2>1. k \in Keys /\ m.thread \in Threads
    BY Zenon, <1>1, <1>2, Elements
  <2>2. v \in 1..puts
    BY Zenon, <1>1, <1>2 DEF Own
  <2>3. puts \in Nat /\ MaxPuts \in Nat /\ puts <= MaxPuts
    BY KeyValueAssumption, <1>1 DEF BoardTypeOK
  <2> QED
    BY <2>1, <2>2, <2>3
<1>6. /\ m.op = "PUT" /\ kvs' = [kvs EXCEPT ![k] = v]
      /\ log' = [log EXCEPT ![k] = Append(@, v)]
      /\ Answer(ts, k, v)
      /\ to_serve_kv_request' = [to_serve_kv_request EXCEPT ![k] = <<>>]
      /\ UNCHANGED <<call, puts, seen>>
  BY Zenon DEF ProcessPut
<1>7. /\ ts \in Seq(Threads) /\ answers \in Seq(Reply) /\ log \in [Keys -> Seq(1..MaxPuts)]
      /\ to_serve_kv_request \in [Keys -> Seq(Threads)] /\ kvs \in [Keys -> 0..MaxPuts]
  BY Zenon, <1>1, <1>5 DEF BoardTypeOK
<1>8. m.op = "PUT" /\ m \in BoardRequest
  BY <1>1, <1>2, <1>6 DEF BoardTypeOK
<1> HIDE DEF m, k, v, ts
<1>9. /\ answers' \in Seq(Reply)
      /\ \A i \in 1..Len(answers) : i \in 1..Len(answers') /\ answers'[i] = answers[i]
      /\ \A j \in 1..Len(ts) : \E i \in 1..Len(answers') : answers'[i].thread = ts[j]
      /\ \A i \in 1..Len(answers') :
           \/ i \in 1..Len(answers) /\ answers'[i] = answers[i]
           \/ /\ answers'[i].key = k /\ answers'[i].value = v
              /\ \E j \in 1..Len(ts) : i = Len(answers) + j /\ answers'[i].thread = ts[j]
  <2>1. Answer(ts, k, v)
    BY Zenon, <1>6
  <2>2. AnswersTo(ts, k, v)
    BY Zenon, <1>5, <1>7, <2>1, Answered
  <2> QED
    BY <2>2, Zenon DEF AnswersTo
<1>10. /\ log' \in [Keys -> Seq(1..MaxPuts)]
       /\ \A l \in Keys : \A i \in 1..Len(log[l]) : i \in 1..Len(log'[l]) /\ log'[l][i] = log[l][i]
       /\ Len(log'[k]) = Len(log[k]) + 1 /\ Len(log[k]) + 1 \in 1..Len(log'[k])
       /\ log'[k][Len(log[k]) + 1] = v
       /\ \A l \in Keys : \A i \in 1..Len(log'[l]) :
            \/ i \in 1..Len(log[l]) /\ log'[l][i] = log[l][i]
            \/ l = k /\ i = Len(log[k]) + 1 /\ log'[l][i] = v
       /\ \A l \in Keys : l # k => log'[l] = log[l]
  BY SMTT(60), <1>5, <1>6, <1>7, Sent
<1>11. /\ to_serve_kv_request' \in [Keys -> Seq(Threads)]
       /\ to_serve_kv_request'[k] = <<>>
       /\ \A l \in Keys : \A i \in 1..Len(to_serve_kv_request'[l]) :
            /\ l # k /\ i \in 1..Len(to_serve_kv_request[l])
            /\ to_serve_kv_request'[l][i] = to_serve_kv_request[l][i]
       /\ \A l \in Keys : l # k => to_serve_kv_request'[l] = to_serve_kv_request[l]
  BY SMTT(60), <1>5, <1>6, <1>7
<1>12. kvs' \in [Keys -> 0..MaxPuts] /\ kvs'[k] = v /\ \A l \in Keys : l # k => kvs'[l] = kvs[l]
  BY <1>5, <1>6, <1>7
<1>13. UNCHANGED <<call, puts, seen>>
  BY Zenon, <1>6
<1>14. BoardTypeOK' /\ NoneOverlooked'
  <2>1. /\ call' \in [Threads -> Keys \cup {Idle}] /\ puts' \in 0..MaxPuts
        /\ seen' \in [Threads -> [Keys -> SUBSET (1..MaxPuts)]]
    BY Zenon, <1>1, <1>13 DEF BoardTypeOK
  <2>2. BoardTypeOK'
    BY <1>2, <1>9, <1>10, <1>11, <1>12, <2>1, Zenon DEF BoardTypeOK
  <2>3. NoneOverlooked'
    BY Zenon, <1>1, <1>11, <1>12 DEF NoneOverlooked
  <2> QED
    BY Zenon, <2>2, <2>3
<1>15. \A j \in 1..Len(ts) : ts[j] = to_serve_kv_request[k][j] /\ j \in 1..Len(to_serve_kv_request[k])
  BY Zenon DEF ts
<1>16. Expected'
  <2>1. ExpectedAside'
    BY ZenonT(60), <1>1, <1>11, <1>13 DEF Expected, ExpectedAside
  <2>2. ExpectedAnswered'
    <3> SUFFICES ASSUME NEW i \in 1..Len(answers')
                 PROVE  call[answers'[i].thread] = answers'[i].key
      BY Zenon, <1>13 DEF ExpectedAnswered
    <3>1. CASE i \in 1..Len(answers) /\ answers'[i] = answers[i]
      BY Zenon, <1>1, <3>1 DEF Expected, ExpectedAnswered
    <3>2. ASSUME NEW j \in 1..Len(ts), answers'[i].thread = ts[j], answers'[i].key = k
          PROVE  call[answers'[i].thread] = answers'[i].key
      BY <1>1, <1>5, <1>15, <3>2 DEF Expected, ExpectedAside
    <3> QED
      BY Zenon, <1>9, <3>1, <3>2
  <2> QED
    BY Zenon, <1>2, <2>1, <2>2 DEF Expected
<1>17. Single'
  <2>1. AsideOnce'
    BY ZenonT(60), <1>1, <1>11 DEF Single, AsideOnce
  <2>2. AnsweredOnce'
    <3> SUFFICES ASSUME NEW i \in 1..Len(answers'), NEW j \in 1..Len(answers'),
                        answers'[i].thread = answers'[j].thread
                 PROVE  i = j
      BY Zenon DEF AnsweredOnce
    <3>1. ASSUME NEW a \in 1..Len(answers), NEW b \in 1..Len(ts) PROVE answers[a].thread # ts[b]
      BY Zenon, <1>1, <1>5, <1>15 DEF Single, AsideAlone
    <3>2. ASSUME NEW a \in 1..Len(ts), NEW b \in 1..Len(ts), ts[a] = ts[b] PROVE a = b
      BY Zenon, <1>1, <1>5, <1>15, <3>2 DEF Single, AsideOnce
    <3>3. ASSUME NEW a \in 1..Len(answers')
          PROVE  \/ a \in 1..Len(answers) /\ answers'[a] = answers[a]
                 \/ \E b \in 1..Len(ts) : a = Len(answers) + b /\ answers'[a].thread = ts[b]
      BY Zenon, <1>9
    <3>4. CASE i \in 1..Len(answers) /\ answers'[i] = answers[i]
      <4>1. j \in 1..Len(answers) /\ answers'[j] = answers[j]
        BY Zenon, <3>1, <3>3, <3>4
      <4> QED
        BY Zenon, <1>1, <3>4, <4>1 DEF Single, AnsweredOnce
    <3>5. ASSUME NEW a \in 1..Len(ts), i = Len(answers) + a, answers'[i].thread = ts[a]
          PROVE  i = j
      <4>1. PICK b \in 1..Len(ts) : j = Len(answers) + b /\ answers'[j].thread = ts[b]
        BY Zenon, <3>1, <3>3, <3>5
      <4> QED
        BY Zenon, <3>2, <3>5, <4>1
    <3> QED
      BY Zenon, <3>3, <3>4, <3>5
  <2>3. AskedAlone'
    <3> SUFFICES ASSUME NEW u \in Workers, NEW i \in 1..Len(requests'[u])
                 PROVE  /\ \A l \in Keys : \A j \in 1..Len(to_serve_kv_request'[l]) :
                             to_serve_kv_request'[l][j] # requests'[u][i].thread
                        /\ \A j \in 1..Len(answers') : answers'[j].thread # requests'[u][i].thread
      BY Zenon DEF AskedAlone
    <3>1. PICK o \in 1..Len(requests[u]) : requests'[u][i] = requests[u][o]
      BY Zenon, <1>3
    <3>2. /\ \A l \in Keys : \A j \in 1..Len(to_serve_kv_request[l]) :
               to_serve_kv_request[l][j] # requests'[u][i].thread
          /\ \A j \in 1..Len(answers) : answers[j].thread # requests'[u][i].thread
      BY ZenonT(60), <1>1, <3>1 DEF Single, AskedAlone
    <3>3. \A l \in Keys : \A j \in 1..Len(to_serve_kv_request'[l]) :
            to_serve_kv_request'[l][j] # requests'[u][i].thread
      BY <1>11, <3>2
    <3>4. \A j \in 1..Len(answers') : answers'[j].thread # requests'[u][i].thread
      BY SMTT(60), <1>5, <1>9, <1>15, <3>2
    <3> QED
      BY Zenon, <3>3, <3>4
  <2>4. AsideAlone'
    <3> SUFFICES ASSUME NEW l \in Keys, NEW i \in 1..Len(to_serve_kv_request'[l]),
                        NEW j \in 1..Len(answers')
                 PROVE  to_serve_kv_request'[l][i] # answers'[j].thread
      BY Zenon DEF AsideAlone
    <3>1. /\ l # k /\ i \in 1..Len(to_serve_kv_request[l])
          /\ to_serve_kv_request'[l][i] = to_serve_kv_request[l][i]
      BY Zenon, <1>11
    <3>2. CASE j \in 1..Len(answers) /\ answers'[j] = answers[j]
      BY Zenon, <1>1, <3>1, <3>2 DEF Single, AsideAlone
    <3>3. ASSUME NEW a \in 1..Len(ts), answers'[j].thread = ts[a]
          PROVE  to_serve_kv_request'[l][i] # answers'[j].thread
      <4>1. call[ts[a]] = k
        BY ZenonT(60), <1>1, <1>5, <1>15 DEF Expected, ExpectedAside
      <4>2. call[to_serve_kv_request[l][i]] = l
        BY Zenon, <1>1, <3>1 DEF Expected, ExpectedAside
      <4> QED
        BY Zenon, <3>1, <3>3, <4>1, <4>2
    <3> QED
      BY Zenon, <1>9, <3>2, <3>3
  <2> QED
    BY Zenon, <1>2, <2>1, <2>2, <2>3, <2>4 DEF Single
<1>18. Present'
  <2> SUFFICES ASSUME NEW t \in Threads, call[t] # Idle
               PROVE  \/ \E i \in 1..Len(requests'[t[1]]) : IsAsked(t, i)'
                      \/ \E l \in Keys : \E i \in 1..Len(to_serve_kv_request'[l]) :
                           to_serve_kv_request'[l][i] = t
                      \/ \E i \in 1..Len(answers') : answers'[i].thread = t
    BY Zenon, <1>13 DEF Present
  <2>1. ASSUME NEW i \in 1..Len(requests[t[1]]), IsAsked(t, i)
        PROVE  \E j \in 1..Len(requests'[t[1]]) : IsAsked(t, j)'
    <3>1. t[1] \in Workers /\ requests[t[1]][i].op = "GET" /\ requests[t[1]][i].thread = t
      BY Zenon, KeyValueAssumption, <2>1 DEF IsAsked
    <3>2. PICK j \in 1..Len(requests'[t[1]]) : requests'[t[1]][j] = requests[t[1]][i]
      BY Zenon, <1>4, <1>8, <3>1 DEF m
    <3> QED
      BY Zenon, <3>1, <3>2 DEF IsAsked
  <2>2. ASSUME NEW l \in Keys, NEW i \in 1..Len(to_serve_kv_request[l]), to_serve_kv_request[l][i] = t
        PROVE  \/ \E j \in 1..Len(to_serve_kv_request'[l]) : to_serve_kv_request'[l][j] = t
               \/ \E j \in 1..Len(answers') : answers'[j].thread = t
    <3>1. CASE l # k
      BY Zenon, <1>11, <2>2, <3>1
    <3>2. CASE l = k
      BY Zenon, <1>9, <2>2, <3>2 DEF ts
    <3> QED
      BY Zenon, <3>1, <3>2
  <2>3. ASSUME NEW i \in 1..Len(answers), answers[i].thread = t
        PROVE  \E j \in 1..Len(answers') : answers'[j].thread = t
    BY Zenon, <1>9, <2>3
  <2> QED
    BY Zenon, <1>1, <2>1, <2>2, <2>3 DEF Present
<1>19. \A l \in Keys : \A j \in 1..Len(log[l]) : log[l][j] # v
  BY Zenon, <1>1, <1>2, <1>8 DEF Logged, NotYetLogged, m, v
\* No other PUT carries this value.
<1>23. ASSUME NEW u \in Workers, NEW i \in 1..Len(requests[u]),
              requests[u][i].op = "PUT", requests[u][i].value = v
       PROVE  u = w /\ i = 1
  <2>1. requests[w][1].op = "PUT" /\ requests[w][1].value = v
    BY Zenon, <1>8 DEF m, v
  <2>2. PutOnce
    BY Zenon, <1>1 DEF Logged
  <2> QED
    BY SMTT(60), <1>2, <1>23, <2>1, <2>2 DEF PutOnce
<1>20. Logged'
  <2>1. Latest'
    <3> SUFFICES ASSUME NEW l \in Keys
                 PROVE  kvs'[l] = IF Len(log'[l]) = 0 THEN Absent ELSE log'[l][Len(log'[l])]
      BY ZenonT(60) DEF Latest
    <3>1. CASE l = k
      BY <1>1, <1>5, <1>10, <1>12, <3>1, Elements
    <3>2. CASE l # k
      BY ZenonT(60), <1>1, <1>10, <1>12, <3>2 DEF Logged, Latest
    <3> QED
      BY Zenon, <3>1, <3>2
  <2>2. Older'
    BY ZenonT(60), <1>1, <1>5, <1>10, <1>13 DEF Logged, Older
  <2>3. LoggedOnce'
    <3> SUFFICES ASSUME NEW l \in Keys, NEW i \in 1..Len(log'[l]), NEW j \in 1..Len(log'[l]),
                        log'[l][i] = log'[l][j]
                 PROVE  i = j
      BY Zenon DEF LoggedOnce
    <3>1. CASE i \in 1..Len(log[l]) /\ log'[l][i] = log[l][i]
      <4>1. log'[l][j] # v
        BY Zenon, <1>19, <3>1
      <4>2. j \in 1..Len(log[l]) /\ log'[l][j] = log[l][j]
        BY Zenon, <1>10, <4>1
      <4> QED
        BY Zenon, <1>1, <3>1, <4>2 DEF Logged, LoggedOnce
    <3>2. CASE l = k /\ i = Len(log[k]) + 1 /\ log'[l][i] = v
      <4>1. ~ (j \in 1..Len(log[l]) /\ log'[l][j] = log[l][j])
        BY Zenon, <1>19, <3>2
      <4> QED
        BY Zenon, <1>10, <3>2, <4>1
    <3> QED
      BY ZenonT(60), <1>10, <3>1, <3>2
  <2>4. NotYetLogged'
    <3> SUFFICES ASSUME NEW u \in Workers, NEW i \in 1..Len(requests'[u]),
                        requests'[u][i].op = "PUT", NEW l \in Keys, NEW j \in 1..Len(log'[l])
                 PROVE  log'[l][j] # requests'[u][i].value
      BY Zenon DEF NotYetLogged
    <3>1. PICK o \in 1..Len(requests[u]) : requests'[u][i] = requests[u][o]
      BY Zenon, <1>3
    <3>2. requests'[u][i].value # v
      BY Zenon, <1>3
    <3>3. ASSUME NEW a \in 1..Len(log[l]) PROVE log[l][a] # requests'[u][i].value
      BY ZenonT(60), <1>1, <3>1 DEF Logged, NotYetLogged
    <3> QED
      BY ZenonT(60), <1>10, <3>2, <3>3
  <2> QED
    BY Zenon, <1>2, <2>1, <2>2, <2>3, <2>4 DEF Logged
<1>21. SeenKnown'
  <2> SUFFICES ASSUME NEW t \in Threads, NEW l \in Keys, NEW x \in seen[t][l]
               PROVE  \/ \E i \in 1..Len(log'[l]) : log'[l][i] = x
                      \/ \E i \in 1..Len(requests'[t[1]]) :
                           /\ requests'[t[1]][i].op = "PUT" /\ requests'[t[1]][i].thread = t
                           /\ requests'[t[1]][i].key = l /\ requests'[t[1]][i].value = x
    BY <1>13 DEF SeenKnown
  <2>1. CASE \E i \in 1..Len(log[l]) : log[l][i] = x
    BY Zenon, <1>10, <2>1
  <2>2. ASSUME NEW i \in 1..Len(requests[t[1]]),
               requests[t[1]][i].op = "PUT", requests[t[1]][i].thread = t,
               requests[t[1]][i].key = l, requests[t[1]][i].value = x
        PROVE  \/ l = k /\ x = v
               \/ \E j \in 1..Len(requests'[t[1]]) : requests'[t[1]][j] = requests[t[1]][i]
    BY Zenon, KeyValueAssumption, <1>4, <2>2 DEF k, v, m
  <2>3. CASE l = k /\ x = v
    BY Zenon, <1>10, <2>3
  <2>4. KnownAt(t, l, x)
    BY ZenonT(60), <1>1, KnownWhere DEF Ordered
  <2> QED
    BY ZenonT(60), <2>1, <2>2, <2>3, <2>4 DEF KnownAt
<1>22. Newest'
  <2> SUFFICES ASSUME NEW i \in 1..Len(answers')
               PROVE  \E q \in 1..Len(log'[answers'[i].key]) :
                        /\ log'[answers'[i].key][q] = answers'[i].value
                        /\ \A p \in 1..Len(log'[answers'[i].key]) :
                             log'[answers'[i].key][p] \in seen[answers'[i].thread][answers'[i].key] => p <= q
    BY Zenon, <1>13 DEF Newest
  <2>1. CASE i \in 1..Len(answers) /\ answers'[i] = answers[i]
    <3> DEFINE l == answers[i].key
               t == answers[i].thread
    <3>1. l \in Keys /\ t \in Threads /\ t # m.thread
      BY ZenonT(60), <1>1, <1>2, <2>1, Elements DEF Single, AskedAlone, m
    \* The value that is logged now is on its way from another thread, so that the
    \* receiver has not seen it.
    <3>2. l = k => v \notin seen[t][l]
      <4> SUFFICES ASSUME l = k, v \in seen[t][l] PROVE FALSE
        BY ZenonT(60)
      <4>1. KnownAt(t, l, v)
        BY ZenonT(60), <1>1, <3>1, KnownWhere DEF Ordered
      <4>2. PICK o \in 1..Len(requests[t[1]]) :
              /\ requests[t[1]][o].op = "PUT" /\ requests[t[1]][o].thread = t
              /\ requests[t[1]][o].value = v
        BY ZenonT(60), <1>19, <3>1, <4>1 DEF KnownAt
      <4>3. t[1] \in Workers
        BY Zenon, KeyValueAssumption, <3>1
      <4>4. t[1] = w /\ o = 1
        BY Zenon, <1>23, <4>2, <4>3
      <4> QED
        BY Zenon, <3>1, <4>2, <4>4 DEF m
    <3>3. PICK q \in 1..Len(log[l]) :
            /\ log[l][q] = answers[i].value
            /\ \A p \in 1..Len(log[l]) : log[l][p] \in seen[t][l] => p <= q
      BY ZenonT(60), <1>1, <2>1 DEF Ordered, Newest
    <3>4. q \in 1..Len(log'[l]) /\ log'[l][q] = answers[i].value
      BY Zenon, <1>10, <3>1, <3>3
    <3>5. ASSUME NEW p \in 1..Len(log'[l]), log'[l][p] \in seen[t][l] PROVE p <= q
      BY ZenonT(60), <1>10, <3>1, <3>2, <3>3, <3>5
    <3> QED
      BY Zenon, <2>1, <3>4, <3>5
  <2>2. CASE answers'[i].key = k /\ answers'[i].value = v
    <3>1. \A p \in 1..Len(log'[k]) : p <= Len(log[k]) + 1
      BY <1>1, <1>5, <1>10, Elements
    <3> QED
      BY SMTT(60), <1>10, <2>2, <3>1
  <2> QED
    BY Zenon, <1>9, <2>1, <2>2
<1> QED
  BY Zenon, <1>2, <1>14, <1>16, <1>17, <1>18, <1>20, <1>21, <1>22 DEF IInv, Ordered

\* The GET case of the master preserves the invariant: the request becomes either
\* an answer or a request that is set aside. First what does not depend on which.
LEMMA ProcessGetStep ==
  ASSUME IInv, NEW w \in Workers, Take(w), UNCHANGED <<call, puts, seen>>,
         requests[w][1].op = "GET", ProcessGet(requests[w][1].thread, requests[w][1].key)
  PROVE  IInv'
<1> DEFINE m == requests[w][1]
           t == m.thread
           k == m.key
<1>1. BoardTypeOK /\ NoneOverlooked /\ Own /\ Expected /\ Single /\ Present /\ Logged /\ Ordered
  BY Zenon DEF IInv
<1>2. /\ requests' \in [Workers -> Seq(BoardRequest)]
      /\ 1 \in 1..Len(requests[w])
      /\ Own' /\ ExpectedAsked' /\ GetLast' /\ PutOnce'
  BY ZenonT(60), TakeStep
<1>3. \A u \in Workers : \A i \in 1..Len(requests'[u]) :
        /\ \E o \in 1..Len(requests[u]) : requests'[u][i] = requests[u][o]
        /\ requests'[u][i].thread # t
  BY SMTT(60), TakeStep
<1>4. \A u \in Workers : \A i \in 1..Len(requests[u]) :
        (u = w /\ i = 1) \/ \E j \in 1..Len(requests'[u]) : requests'[u][j] = requests[u][i]
  BY Zenon, TakeStep
<1>5. k \in Keys /\ t \in Threads /\ call[t] = k
  BY Zenon, <1>1, <1>2, Elements DEF Expected, ExpectedAsked
<1>6. /\ IF kvs[k] # Absent
         THEN Answer(<<t>>, k, kvs[k]) /\ UNCHANGED to_serve_kv_request
         ELSE /\ to_serve_kv_request' = [to_serve_kv_request EXCEPT ![k] = Append(@, t)]
              /\ UNCHANGED answers
      /\ UNCHANGED <<call, puts, seen, kvs, log>>
  BY Zenon DEF ProcessGet
<1>7. /\ \A l \in Keys : \A j \in 1..Len(to_serve_kv_request[l]) : to_serve_kv_request[l][j] # t
      /\ \A j \in 1..Len(answers) : answers[j].thread # t
  BY Zenon, <1>1, <1>2 DEF Single, AskedAlone
<1>8. m.op = "GET"
  BY Zenon
<1> HIDE DEF m, t, k
<1>9. UNCHANGED <<call, puts, seen, kvs, log>>
  BY Zenon, <1>6
\* The threads of the other requests, and their PUTs.
<1>10. ASSUME NEW u \in Workers, NEW i \in 1..Len(requests'[u])
       PROVE  /\ requests'[u][i].thread # t
              /\ \A l \in Keys : \A j \in 1..Len(to_serve_kv_request[l]) :
                   to_serve_kv_request[l][j] # requests'[u][i].thread
              /\ \A j \in 1..Len(answers) : answers[j].thread # requests'[u][i].thread
  <2>1. PICK o \in 1..Len(requests[u]) : requests'[u][i] = requests[u][o]
    BY Zenon, <1>3
  <2> QED
    BY SMTT(60), <1>1, <1>3, <2>1 DEF Single, AskedAlone
<1>11. Logged'
  <2>1. Latest' /\ LoggedOnce' /\ Older'
    BY Zenon, <1>1, <1>9 DEF Logged, Latest, LoggedOnce, Older
  <2>2. NotYetLogged'
    <3> SUFFICES ASSUME NEW u \in Workers, NEW i \in 1..Len(requests'[u]),
                        requests'[u][i].op = "PUT", NEW l \in Keys, NEW j \in 1..Len(log[l])
                 PROVE  log[l][j] # requests'[u][i].value
      BY ZenonT(60), <1>9 DEF NotYetLogged
    <3>1. PICK o \in 1..Len(requests[u]) : requests'[u][i] = requests[u][o]
      BY ZenonT(60), <1>3
    <3> QED
      BY Zenon, <1>1, <3>1 DEF Logged, NotYetLogged
  <2> QED
    BY Zenon, <1>2, <2>1, <2>2 DEF Logged
<1>12. SeenKnown'
  <2> SUFFICES ASSUME NEW u \in Threads, NEW l \in Keys, NEW v \in seen[u][l]
               PROVE  \/ \E i \in 1..Len(log[l]) : log[l][i] = v
                      \/ \E i \in 1..Len(requests'[u[1]]) :
                           /\ requests'[u[1]][i].op = "PUT" /\ requests'[u[1]][i].thread = u
                           /\ requests'[u[1]][i].key = l /\ requests'[u[1]][i].value = v
    BY SMTT(60), <1>9 DEF SeenKnown
  <2>1. ASSUME NEW i \in 1..Len(requests[u[1]]), requests[u[1]][i].op = "PUT"
        PROVE  \E j \in 1..Len(requests'[u[1]]) : requests'[u[1]][j] = requests[u[1]][i]
    BY Zenon, KeyValueAssumption, <1>4, <1>8, <2>1 DEF m
  <2> QED
    BY SMTT(60), <1>1, <2>1 DEF Ordered, SeenKnown
<1>13. ASSUME NEW u \in Threads, u # t, NEW i \in 1..Len(requests[u[1]]), IsAsked(u, i)
       PROVE  \E j \in 1..Len(requests'[u[1]]) : IsAsked(u, j)'
  <2>1. u[1] \in Workers /\ requests[u[1]][i].op = "GET" /\ requests[u[1]][i].thread = u
    BY Zenon, KeyValueAssumption, <1>13 DEF IsAsked
  <2>2. PICK j \in 1..Len(requests'[u[1]]) : requests'[u[1]][j] = requests[u[1]][i]
    BY Zenon, <1>4, <1>13, <2>1 DEF m, t
  <2> QED
    BY Zenon, <2>1, <2>2 DEF IsAsked
<1>14. /\ call' \in [Threads -> Keys \cup {Idle}] /\ puts' \in 0..MaxPuts
       /\ seen' \in [Threads -> [Keys -> SUBSET (1..MaxPuts)]] /\ kvs' \in [Keys -> 0..MaxPuts]
       /\ log' \in [Keys -> Seq(1..MaxPuts)] /\ answers \in Seq(Reply)
       /\ to_serve_kv_request \in [Keys -> Seq(Threads)]
  BY Zenon, <1>1, <1>9 DEF BoardTypeOK
\* The key is there.
<1>15. CASE kvs[k] # Absent
  <2> DEFINE v == kvs[k]
  <2>1. Answer(<<t>>, k, v) /\ to_serve_kv_request' = to_serve_kv_request
    BY ZenonT(60), <1>6, <1>15
  <2>2. /\ v \in 1..MaxPuts /\ Len(log[k]) \in 1..Len(log[k]) /\ log[k][Len(log[k])] = v
        /\ Len(log[k]) \in Nat
    BY SMTT(60), KeyValueAssumption, <1>1, <1>5, <1>15, Elements DEF Logged, Latest,
      BoardTypeOK, Absent
  <2> HIDE DEF v
  <2>3. /\ answers' \in Seq(Reply)
        /\ \A i \in 1..Len(answers) : i \in 1..Len(answers') /\ answers'[i] = answers[i]
        /\ \E i \in 1..Len(answers') : answers'[i].thread = t
        /\ \A i \in 1..Len(answers') :
             \/ i \in 1..Len(answers) /\ answers'[i] = answers[i]
             \/ /\ answers'[i].key = k /\ answers'[i].value = v
                /\ i = Len(answers) + 1 /\ answers'[i].thread = t
    <3>1. <<t>> \in Seq(Threads) /\ Len(<<t>>) = 1 /\ <<t>>[1] = t /\ \A j \in 1..1 : j = 1
      BY <1>5
    <3> DEFINE ts == <<t>>
    <3>2. /\ ts \in Seq(Threads) /\ Len(ts) = 1 /\ ts[1] = t /\ Answer(ts, k, v)
          /\ k \in Keys /\ v \in 1..MaxPuts /\ answers \in Seq(Reply)
      BY Zenon, <1>5, <1>14, <2>1, <2>2, <3>1
    <3> HIDE DEF ts
    <3>3. AnswersTo(ts, k, v)
      BY Zenon, <3>2, Answered
    <3>4. 1 \in 1..Len(ts) /\ \A j \in 1..Len(ts) : j = 1 /\ ts[j] = t
      BY <3>1, <3>2
    <3>5. \E i \in 1..Len(answers') : answers'[i].thread = t
      BY ZenonT(60), <3>3, <3>4 DEF AnswersTo
    <3>6. ASSUME NEW i \in 1..Len(answers')
          PROVE  \/ i \in 1..Len(answers) /\ answers'[i] = answers[i]
                 \/ /\ answers'[i].key = k /\ answers'[i].value = v
                    /\ i = Len(answers) + 1 /\ answers'[i].thread = t
      BY ZenonT(60), <3>3, <3>4 DEF AnswersTo
    <3> QED
      BY <3>3, <3>5, <3>6, Zenon DEF AnswersTo
  <2>4. BoardTypeOK' /\ NoneOverlooked'
    BY Zenon, <1>1, <1>2, <1>9, <1>14, <2>1, <2>3 DEF BoardTypeOK, NoneOverlooked
  <2>5. Expected'
    BY ZenonT(60), <1>1, <1>2, <1>5, <1>9, <2>1, <2>3 DEF Expected, ExpectedAside, ExpectedAnswered
  <2>6. Single'
    <3>1. AsideOnce'
      BY Zenon, <1>1, <2>1 DEF Single, AsideOnce
    <3>2. AnsweredOnce'
      BY ZenonT(60), <1>1, <1>7, <2>3 DEF Single, AnsweredOnce
    <3>3. AskedAlone'
      <4> SUFFICES ASSUME NEW u \in Workers, NEW i \in 1..Len(requests'[u]),
                          NEW j \in 1..Len(answers')
                   PROVE  answers'[j].thread # requests'[u][i].thread
        BY ZenonT(60), <1>10, <2>1 DEF AskedAlone
      <4>1. CASE j \in 1..Len(answers) /\ answers'[j] = answers[j]
        BY ZenonT(60), <1>10, <4>1
      <4>2. CASE answers'[j].thread = t
        BY Zenon, <1>10, <4>2
      <4> QED
        BY Zenon, <2>3, <4>1, <4>2
    <3>4. AsideAlone'
      <4> SUFFICES ASSUME NEW l \in Keys, NEW i \in 1..Len(to_serve_kv_request[l]),
                          NEW j \in 1..Len(answers')
                   PROVE  to_serve_kv_request[l][i] # answers'[j].thread
        BY ZenonT(60), <2>1 DEF AsideAlone
      <4>1. CASE j \in 1..Len(answers) /\ answers'[j] = answers[j]
        BY ZenonT(60), <1>1, <4>1 DEF Single, AsideAlone
      <4>2. CASE answers'[j].thread = t
        BY ZenonT(60), <1>7, <4>2
      <4> QED
        BY ZenonT(60), <2>3, <4>1, <4>2
    <3> QED
      BY Zenon, <1>2, <3>1, <3>2, <3>3, <3>4 DEF Single
  <2>7. Present'
    <3> SUFFICES ASSUME NEW u \in Threads, call[u] # Idle
                 PROVE  \/ \E i \in 1..Len(requests'[u[1]]) : IsAsked(u, i)'
                        \/ \E l \in Keys : \E i \in 1..Len(to_serve_kv_request[l]) :
                             to_serve_kv_request[l][i] = u
                        \/ \E i \in 1..Len(answers') : answers'[i].thread = u
      BY Zenon, <1>9, <2>1 DEF Present
    <3>1. CASE u = t
      BY Zenon, <2>3, <3>1
    <3>2. CASE u # t
      BY ZenonT(60), <1>1, <1>13, <2>3, <3>2 DEF Present
    <3> QED
      BY Zenon, <3>1, <3>2
  <2>8. Newest'
    <3> SUFFICES ASSUME NEW i \in 1..Len(answers')
                 PROVE  \E q \in 1..Len(log[answers'[i].key]) :
                          /\ log[answers'[i].key][q] = answers'[i].value
                          /\ \A p \in 1..Len(log[answers'[i].key]) :
                               log[answers'[i].key][p] \in seen[answers'[i].thread][answers'[i].key] => p <= q
      BY Zenon, <1>9 DEF Newest
    <3>1. CASE i \in 1..Len(answers) /\ answers'[i] = answers[i]
      BY ZenonT(60), <1>1, <3>1 DEF Ordered, Newest
    <3>2. CASE answers'[i].key = k /\ answers'[i].value = v
      BY SMTT(60), <2>2, <3>2
    <3> QED
      BY Zenon, <2>3, <3>1, <3>2
  <2> QED
    BY Zenon, <1>2, <1>11, <1>12, <2>4, <2>5, <2>6, <2>7, <2>8 DEF IInv, Ordered
\* The key is absent.
<1>16. CASE kvs[k] = Absent
  <2>1. /\ to_serve_kv_request' = [to_serve_kv_request EXCEPT ![k] = Append(@, t)]
        /\ answers' = answers
    BY ZenonT(60), <1>6, <1>16
  <2>2. /\ to_serve_kv_request' \in [Keys -> Seq(Threads)]
        /\ \A l \in Keys : \A i \in 1..Len(to_serve_kv_request[l]) :
             /\ i \in 1..Len(to_serve_kv_request'[l])
             /\ to_serve_kv_request'[l][i] = to_serve_kv_request[l][i]
        /\ \E i \in 1..Len(to_serve_kv_request'[k]) : to_serve_kv_request'[k][i] = t
        /\ \A l \in Keys : \A i \in 1..Len(to_serve_kv_request'[l]) :
             \/ /\ i \in 1..Len(to_serve_kv_request[l])
                /\ to_serve_kv_request'[l][i] = to_serve_kv_request[l][i]
             \/ l = k /\ i = Len(to_serve_kv_request[k]) + 1 /\ to_serve_kv_request'[l][i] = t
        /\ \A l \in Keys : l # k => to_serve_kv_request'[l] = to_serve_kv_request[l]
    <3>1. to_serve_kv_request \in [Keys -> Seq(Threads)] /\ k \in Keys /\ t \in Threads
      BY ZenonT(60), <1>5, <1>14
    <3>2. /\ to_serve_kv_request' \in [Keys -> Seq(Threads)]
          /\ \A l \in Keys : \A i \in 1..Len(to_serve_kv_request[l]) :
               /\ i \in 1..Len(to_serve_kv_request'[l])
               /\ to_serve_kv_request'[l][i] = to_serve_kv_request[l][i]
          /\ Len(to_serve_kv_request[k]) + 1 \in 1..Len(to_serve_kv_request'[k])
          /\ to_serve_kv_request'[k][Len(to_serve_kv_request[k]) + 1] = t
          /\ \A l \in Keys : \A i \in 1..Len(to_serve_kv_request'[l]) :
               \/ /\ i \in 1..Len(to_serve_kv_request[l])
                  /\ to_serve_kv_request'[l][i] = to_serve_kv_request[l][i]
               \/ l = k /\ i = Len(to_serve_kv_request[k]) + 1 /\ to_serve_kv_request'[l][i] = t
          /\ \A l \in Keys : l # k => to_serve_kv_request'[l] = to_serve_kv_request[l]
      BY SMTT(60), <2>1, <3>1, Sent
    <3> QED
      BY ZenonT(60), <3>2
  <2>3. answers' = answers
    BY Zenon, <2>1
  <2>4. BoardTypeOK' /\ NoneOverlooked'
    <3>1. BoardTypeOK'
      BY Zenon, <1>2, <1>14, <2>2, <2>3 DEF BoardTypeOK
    <3>2. NoneOverlooked'
      BY Zenon, <1>1, <1>9, <1>16, <2>2 DEF NoneOverlooked
    <3> QED
      BY Zenon, <3>1, <3>2
  <2>5. Expected'
    BY SMTT(60), <1>1, <1>2, <1>5, <1>9, <2>2, <2>3 DEF Expected, ExpectedAside, ExpectedAnswered
  <2>6. Single'
    <3>1. AsideOnce'
      BY SMTT(60), <1>1, <1>7, <2>2 DEF Single, AsideOnce
    <3>2. AnsweredOnce'
      BY Zenon, <1>1, <2>3 DEF Single, AnsweredOnce
    <3>3. AskedAlone'
      <4> SUFFICES ASSUME NEW u \in Workers, NEW i \in 1..Len(requests'[u]),
                          NEW l \in Keys, NEW j \in 1..Len(to_serve_kv_request'[l])
                   PROVE  to_serve_kv_request'[l][j] # requests'[u][i].thread
        BY Zenon, <1>10, <2>3 DEF AskedAlone
      <4>1. CASE /\ j \in 1..Len(to_serve_kv_request[l])
                 /\ to_serve_kv_request'[l][j] = to_serve_kv_request[l][j]
        BY ZenonT(60), <1>10, <4>1
      <4>2. CASE to_serve_kv_request'[l][j] = t
        BY Zenon, <1>10, <4>2
      <4> QED
        BY ZenonT(60), <2>2, <4>1, <4>2
    <3>4. AsideAlone'
      <4> SUFFICES ASSUME NEW l \in Keys, NEW i \in 1..Len(to_serve_kv_request'[l]),
                          NEW j \in 1..Len(answers)
                   PROVE  to_serve_kv_request'[l][i] # answers[j].thread
        BY Zenon, <2>3 DEF AsideAlone
      <4>1. CASE i \in 1..Len(to_serve_kv_request[l]) /\ to_serve_kv_request'[l][i] = to_serve_kv_request[l][i]
        BY Zenon, <1>1, <4>1 DEF Single, AsideAlone
      <4>2. CASE to_serve_kv_request'[l][i] = t
        BY Zenon, <1>7, <4>2
      <4> QED
        BY ZenonT(60), <2>2, <4>1, <4>2
    <3> QED
      BY Zenon, <1>2, <3>1, <3>2, <3>3, <3>4 DEF Single
  <2>7. Present'
    <3> SUFFICES ASSUME NEW u \in Threads, call[u] # Idle
                 PROVE  \/ \E i \in 1..Len(requests'[u[1]]) : IsAsked(u, i)'
                        \/ \E l \in Keys : \E i \in 1..Len(to_serve_kv_request'[l]) :
                             to_serve_kv_request'[l][i] = u
                        \/ \E i \in 1..Len(answers) : answers[i].thread = u
      BY ZenonT(60), <1>9, <2>3 DEF Present
    <3>1. CASE u = t
      BY SMTT(60), <1>5, <2>2, <3>1
    <3>2. CASE u # t
      BY SMTT(60), <1>1, <1>13, <2>2, <3>2 DEF Present
    <3> QED
      BY Zenon, <3>1, <3>2
  <2>8. Newest'
    BY Zenon, <1>1, <1>9, <2>3 DEF Ordered, Newest
  <2> QED
    BY ZenonT(60), <1>2, <1>11, <1>12, <2>4, <2>5, <2>6, <2>7, <2>8 DEF IInv, Ordered
<1> QED
  BY Zenon, <1>15, <1>16

\* The delivery of an answer preserves the invariant: it was the only one for its
\* thread, which returns from Get.
LEMMA DeliverStep ==
  ASSUME IInv, NEW n \in 1..Len(answers), Deliver(n)
  PROVE  IInv'
<1> DEFINE m == answers[n]
           t == m.thread
           k == m.key
<1>1. BoardTypeOK /\ NoneOverlooked /\ Own /\ Expected /\ Single /\ Present /\ Logged /\ Ordered
  BY Zenon DEF IInv
<1>2. t \in Threads /\ k \in Keys /\ m.value \in 1..MaxPuts
  BY Zenon, <1>1, Elements
<1>3. /\ answers' = Without(answers, n) /\ call' = [call EXCEPT ![t] = Idle]
      /\ seen' = [seen EXCEPT ![t][k] = @ \cup {m.value}]
      /\ UNCHANGED <<requests, kvs, to_serve_kv_request, puts, log>>
  BY Zenon DEF Deliver
<1>4. /\ \A w \in Workers : \A i \in 1..Len(requests[w]) : requests[w][i].thread # t
      /\ \A l \in Keys : \A j \in 1..Len(to_serve_kv_request[l]) : to_serve_kv_request[l][j] # t
      /\ \A j \in 1..Len(answers) : j # n => answers[j].thread # t
  BY Zenon, <1>1 DEF Single, AskedAlone, AsideAlone, AnsweredOnce
<1>5. \E q \in 1..Len(log[k]) : log[k][q] = m.value
  BY Zenon, <1>1 DEF Ordered, Newest
<1>6. answers \in Seq(Reply) /\ Len(answers) \in Nat
  BY <1>1 DEF BoardTypeOK
<1> HIDE DEF m, t, k
<1>7. /\ answers' \in Seq(Reply)
      /\ \A i \in 1..Len(answers) : i = n \/ \E j \in 1..Len(answers') : answers'[j] = answers[i]
  <2>1. answers' = Without(answers, n)
    BY Zenon, <1>3
  <2>2. /\ answers' \in Seq(Reply)
        /\ \A i \in 1..Len(answers) :
              /\ i < n => i \in 1..Len(answers') /\ answers'[i] = answers[i]
              /\ i > n => i - 1 \in 1..Len(answers') /\ answers'[i - 1] = answers[i]
    BY <1>6, <2>1, TakenAt
  <2>3. \A i \in 1..Len(answers) : i < n \/ i = n \/ i > n
    BY <1>6
  <2> QED
    BY Zenon, <2>2, <2>3
<1> DEFINE Old(i) == IF i < n THEN i ELSE i + 1
<1>8. ASSUME NEW i \in 1..Len(answers')
      PROVE  /\ Old(i) \in 1..Len(answers) /\ answers'[i] = answers[Old(i)]
             /\ Old(i) # n /\ i \in Nat
  <2>1. IF i < n THEN i \in 1..Len(answers) /\ answers'[i] = answers[i]
                 ELSE i + 1 \in 1..Len(answers) /\ answers'[i] = answers[i + 1]
    <3>1. answers' = Without(answers, n)
      BY Zenon, <1>3
    <3> QED
      BY <1>6, <3>1, TakenAt
  <2>2. i \in Nat
    BY <1>7
  <2> QED
    BY <1>6, <2>1, <2>2
<1>9. ASSUME NEW i \in Nat, NEW j \in Nat, Old(i) = Old(j) PROVE i = j
  BY <1>6, <1>9
<1> HIDE DEF Old
<1>10. /\ call' \in [Threads -> Keys \cup {Idle}] /\ call'[t] = Idle
       /\ \A u \in Threads : u # t => call'[u] = call[u]
  BY Zenon, <1>1, <1>2, <1>3 DEF BoardTypeOK
<1>11. /\ seen' \in [Threads -> [Keys -> SUBSET (1..MaxPuts)]]
       /\ \A u \in Threads, l \in Keys : \A v \in seen'[u][l] :
            v \in seen[u][l] \/ (u = t /\ l = k /\ v = m.value)
  BY ZenonT(60), <1>1, <1>2, <1>3 DEF BoardTypeOK
<1>12. UNCHANGED <<requests, kvs, to_serve_kv_request, puts, log>>
  BY Zenon, <1>3
<1>13. BoardTypeOK' /\ NoneOverlooked'
  BY Zenon, <1>1, <1>7, <1>10, <1>11, <1>12 DEF BoardTypeOK, NoneOverlooked
<1>14. Own' /\ Logged'
  BY <1>1, <1>12 DEF Own, Logged, Latest, Older, LoggedOnce, NotYetLogged, PutOnce
<1>15. Expected'
  <2>1. ExpectedAsked'
    BY ZenonT(60), <1>1, <1>4, <1>10, <1>12, Elements DEF Expected, ExpectedAsked
  <2>2. ExpectedAside'
    BY ZenonT(60), <1>1, <1>4, <1>10, <1>12, Elements DEF Expected, ExpectedAside
  <2>3. ExpectedAnswered'
    BY SMTT(60), <1>1, <1>4, <1>8, <1>10, Elements DEF Expected, ExpectedAnswered
  <2> QED
    BY Zenon, <2>1, <2>2, <2>3 DEF Expected
<1>16. Single'
  <2>1. GetLast' /\ AsideOnce'
    BY ZenonT(60), <1>1, <1>12 DEF Single, GetLast, AsideOnce
  <2>2. AnsweredOnce'
    <3> SUFFICES ASSUME NEW i \in 1..Len(answers'), NEW j \in 1..Len(answers'),
                        answers'[i].thread = answers'[j].thread
                 PROVE  i = j
      BY Zenon DEF AnsweredOnce
    <3>1. Old(i) = Old(j)
      BY ZenonT(60), <1>1, <1>8 DEF Single, AnsweredOnce
    <3> QED
      BY Zenon, <1>8, <1>9, <3>1
  <2>3. ASSUME NEW i \in 1..Len(answers')
        PROVE  \E o \in 1..Len(answers) : answers'[i] = answers[o]
    BY Zenon, <1>8
  <2>4. AskedAlone'
    BY SMTT(60), <1>1, <1>12, <2>3 DEF Single, AskedAlone
  <2>5. AsideAlone'
    BY SMTT(60), <1>1, <1>12, <2>3 DEF Single, AsideAlone
  <2> QED
    BY Zenon, <2>1, <2>2, <2>4, <2>5 DEF Single
<1>17. Present'
  <2> SUFFICES ASSUME NEW u \in Threads, call'[u] # Idle
               PROVE  \/ \E i \in 1..Len(requests[u[1]]) : IsAsked(u, i)
                      \/ \E l \in Keys : \E i \in 1..Len(to_serve_kv_request[l]) :
                           to_serve_kv_request[l][i] = u
                      \/ \E i \in 1..Len(answers') : answers'[i].thread = u
    BY Zenon, <1>12 DEF Present, IsAsked
  <2>1. u # t /\ call[u] # Idle
    BY Zenon, <1>10
  <2>2. ASSUME NEW i \in 1..Len(answers), answers[i].thread = u
        PROVE  \E j \in 1..Len(answers') : answers'[j].thread = u
    BY Zenon, <1>7, <2>1, <2>2 DEF m, t
  <2> QED
    BY Zenon, <1>1, <2>1, <2>2 DEF Present
<1>18. SeenKnown'
  <2> SUFFICES ASSUME NEW u \in Threads, NEW l \in Keys, NEW v \in seen'[u][l]
               PROVE  \/ \E i \in 1..Len(log[l]) : log[l][i] = v
                      \/ \E i \in 1..Len(requests[u[1]]) :
                           /\ requests[u[1]][i].op = "PUT" /\ requests[u[1]][i].thread = u
                           /\ requests[u[1]][i].key = l /\ requests[u[1]][i].value = v
    BY SMTT(60), <1>12 DEF SeenKnown
  <2>1. CASE v \in seen[u][l]
    BY <1>1, <2>1 DEF Ordered, SeenKnown
  <2>2. CASE l = k /\ v = m.value
    BY Zenon, <1>5, <2>2 DEF k, m
  <2> QED
    BY ZenonT(60), <1>11, <2>1, <2>2
<1>19. Newest'
  <2> SUFFICES ASSUME NEW i \in 1..Len(answers')
               PROVE  \E q \in 1..Len(log[answers'[i].key]) :
                        /\ log[answers'[i].key][q] = answers'[i].value
                        /\ \A p \in 1..Len(log[answers'[i].key]) :
                             log[answers'[i].key][p] \in seen'[answers'[i].thread][answers'[i].key] => p <= q
    BY Zenon, <1>12 DEF Newest
  <2>1. PICK o \in 1..Len(answers) : o # n /\ answers'[i] = answers[o]
    BY Zenon, <1>8
  <2>2. /\ answers[o].thread \in Threads /\ answers[o].key \in Keys /\ answers[o].thread # t
    BY Zenon, <1>1, <1>4, <2>1, Elements
  <2>3. PICK q \in 1..Len(log[answers[o].key]) :
          /\ log[answers[o].key][q] = answers[o].value
          /\ \A p \in 1..Len(log[answers[o].key]) :
               log[answers[o].key][p] \in seen[answers[o].thread][answers[o].key] => p <= q
    BY Zenon, <1>1 DEF Ordered, Newest
  <2> QED
    BY Zenon, <1>11, <2>1, <2>2, <2>3
<1> QED
  BY Zenon, <1>13, <1>14, <1>15, <1>16, <1>17, <1>18, <1>19 DEF IInv, Ordered

\* The inductive invariant holds in every reachable state.
LEMMA Invariance == BoardSpec => []IInv
<1>1. BoardInit => IInv
  BY Zenon, InitIInv
<1>2. ASSUME IInv, [BoardNext]_BoardVars PROVE IInv'
  <2>1. ASSUME NEW t \in Threads, NEW k \in Keys, Put(t, k) \/ Get(t, k) PROVE IInv'
    BY Zenon, <1>2, <2>1, PutStep, GetStep
  <2>2. ASSUME NEW w \in Workers, ProcessRequest(w) PROVE IInv'
    <3>1. Take(w) /\ UNCHANGED <<call, puts, seen>>
      BY Zenon, <2>2 DEF ProcessRequest, Take
    <3>2. /\ Head(requests[w]) = requests[w][1] /\ 1 \in 1..Len(requests[w])
      BY Zenon, <1>2, <3>1, AskedLess DEF IInv
    <3>3. requests[w][1].op \in {"PUT", "GET"}
      BY Zenon, <1>2, <3>2, Elements DEF IInv
    <3>4. CASE requests[w][1].op = "PUT"
      <4>1. ProcessPut(requests[w][1].key, requests[w][1].value)
        BY Zenon, <2>2, <3>2, <3>4 DEF ProcessRequest
      <4> QED
        BY Zenon, <1>2, <3>1, <3>4, <4>1, ProcessPutStep
    <3>5. CASE requests[w][1].op = "GET"
      <4>1. ProcessGet(requests[w][1].thread, requests[w][1].key)
        BY Zenon, <2>2, <3>2, <3>5 DEF ProcessRequest
      <4> QED
        BY Zenon, <1>2, <3>1, <3>5, <4>1, ProcessGetStep
    <3> QED
      BY Zenon, <3>3, <3>4, <3>5
  <2>3. ASSUME NEW w \in Workers, ProcessRemoteGetReply(w) PROVE IInv'
    <3>1. PICK i \in DOMAIN answers : Deliver(i)
      BY Zenon, <2>3 DEF ProcessRemoteGetReply
    <3>2. DOMAIN answers = 1..Len(answers)
      BY <1>2 DEF IInv, BoardTypeOK
    <3> QED
      BY Zenon, <1>2, <3>1, <3>2, DeliverStep
  <2>4. CASE UNCHANGED BoardVars
    <3>1. /\ BoardTypeOK /\ NoneOverlooked /\ Own /\ Expected /\ Single /\ Present /\ Logged
          /\ Ordered
      BY Zenon, <1>2 DEF IInv
    <3>2. BoardTypeOK' /\ NoneOverlooked' /\ Own'
      BY Zenon, <2>4, <3>1 DEF BoardVars, BoardTypeOK, NoneOverlooked, Own
    <3>3. Expected'
      BY ZenonT(60), <2>4, <3>1 DEF BoardVars, Expected, ExpectedAsked, ExpectedAside, ExpectedAnswered
    <3>4. Single'
      BY SMTT(60), <2>4, <3>1 DEF BoardVars, Single, GetLast, AsideOnce, AnsweredOnce, AskedAlone, AsideAlone
    <3>5. Present'
      BY ZenonT(60), <2>4, <3>1 DEF BoardVars, Present, IsAsked
    <3>6. Logged'
      BY SMTT(60), <2>4, <3>1 DEF BoardVars, Logged, Latest, Older, LoggedOnce, NotYetLogged, PutOnce
    <3>7. Ordered'
      BY <2>4, <3>1 DEF BoardVars, Ordered, SeenKnown, Newest
    <3> QED
      BY Zenon, <3>2, <3>3, <3>4, <3>5, <3>6, <3>7 DEF IInv
  <2> QED
    BY Zenon, <1>2, <2>1, <2>2, <2>3, <2>4 DEF BoardNext
<1> QED
  BY <1>1, <1>2, PTL DEF BoardSpec

-----------------------------------------------------------------------------
(* What follows *)

\* The places of a GET, from what the invariant says of the queues.
LEMMA OnePlace == ASSUME IInv PROVE OneAnswer
<1> SUFFICES ASSUME NEW t \in Threads
             PROVE  IF call[t] = Idle THEN Where(t) = {}
                    ELSE \E place \in Where(t) : Where(t) = {place}
  BY Zenon DEF OneAnswer
<1> DEFINE Aside == UNION {AsideAt(t, k) : k \in Keys}
<1>1. BoardTypeOK /\ Expected /\ Single /\ Present
  BY Zenon DEF IInv
<1>2. /\ t[1] \in Workers /\ Idle \notin Keys
      /\ DOMAIN requests[t[1]] = 1..Len(requests[t[1]]) /\ DOMAIN answers = 1..Len(answers)
      /\ \A k \in Keys : DOMAIN to_serve_kv_request[k] = 1..Len(to_serve_kv_request[k])
  BY KeyValueAssumption, <1>1 DEF BoardTypeOK
<1>3. Where(t) = AskedAt(t) \cup Aside \cup AnsweredAt(t)
  BY Zenon DEF Where
<1>4. ASSUME NEW p \in Where(t)
      PROVE  \/ \E i \in 1..Len(requests[t[1]]) : p = <<"asked", i>> /\ IsAsked(t, i)
             \/ \E k \in Keys : \E i \in 1..Len(to_serve_kv_request[k]) :
                  p = <<"aside", k, i>> /\ to_serve_kv_request[k][i] = t
             \/ \E i \in 1..Len(answers) : p = <<"answered", i>> /\ answers[i].thread = t
  <2>1. CASE p \in AskedAt(t)
    BY <1>2, <2>1, Zenon DEF AskedAt
  <2>2. ASSUME NEW k \in Keys, p \in AsideAt(t, k)
        PROVE  \E i \in 1..Len(to_serve_kv_request[k]) :
                 p = <<"aside", k, i>> /\ to_serve_kv_request[k][i] = t
    BY <1>2, <2>2, Zenon DEF AsideAt
  <2>3. CASE p \in AnsweredAt(t)
    BY <1>2, <2>3, Zenon DEF AnsweredAt
  <2>4. p \in Aside => \E k \in Keys : p \in AsideAt(t, k)
    BY Zenon
  <2>5. p \in AskedAt(t) \/ p \in Aside \/ p \in AnsweredAt(t)
    <3> HIDE DEF Aside
    <3> QED
      BY Zenon, <1>3
  <2> QED
    <3> HIDE DEF Aside
    <3> QED
      BY <2>1, <2>2, <2>3, <2>4, <2>5, Zenon
<1>5. /\ \A i \in 1..Len(requests[t[1]]) : IsAsked(t, i) => <<"asked", i>> \in Where(t)
      /\ \A k \in Keys : \A i \in 1..Len(to_serve_kv_request[k]) :
           to_serve_kv_request[k][i] = t => <<"aside", k, i>> \in Where(t)
      /\ \A i \in 1..Len(answers) : answers[i].thread = t => <<"answered", i>> \in Where(t)
  <2>1. ASSUME NEW i \in 1..Len(requests[t[1]]), IsAsked(t, i) PROVE <<"asked", i>> \in Where(t)
    <3>1. <<"asked", i>> \in AskedAt(t)
      BY <1>2, <2>1, Zenon DEF AskedAt
    <3> HIDE DEF Aside
    <3> QED
      BY Zenon, <1>3, <3>1
  <2>2. ASSUME NEW k \in Keys, NEW i \in 1..Len(to_serve_kv_request[k]),
               to_serve_kv_request[k][i] = t
        PROVE  <<"aside", k, i>> \in Where(t)
    <3>1. <<"aside", k, i>> \in AsideAt(t, k)
      BY <1>2, <2>2, Zenon DEF AsideAt
    <3>2. <<"aside", k, i>> \in Aside
      BY <3>1, Zenon
    <3> HIDE DEF Aside
    <3> QED
      BY Zenon, <1>3, <3>2
  <2>3. ASSUME NEW i \in 1..Len(answers), answers[i].thread = t PROVE <<"answered", i>> \in Where(t)
    <3>1. <<"answered", i>> \in AnsweredAt(t)
      BY <1>2, <2>3, Zenon DEF AnsweredAt
    <3> HIDE DEF Aside
    <3> QED
      BY Zenon, <1>3, <3>1
  <2> QED
    BY Zenon, <2>1, <2>2, <2>3
<1> HIDE DEF Aside
<1>6. CASE call[t] = Idle
  <2>1. \A i \in 1..Len(requests[t[1]]) : ~ IsAsked(t, i)
    BY ZenonT(60), <1>1, <1>2, <1>6, Elements DEF Expected, ExpectedAsked, IsAsked
  <2>2. \A k \in Keys : \A i \in 1..Len(to_serve_kv_request[k]) : to_serve_kv_request[k][i] # t
    BY ZenonT(60), <1>1, <1>2, <1>6 DEF Expected, ExpectedAside
  <2>3. \A i \in 1..Len(answers) : answers[i].thread # t
    BY Zenon, <1>1, <1>2, <1>6, Elements DEF Expected, ExpectedAnswered
  <2>4. Where(t) = {}
    BY Zenon, <1>4, <2>1, <2>2, <2>3
  <2> QED
    BY Zenon, <1>6, <2>4
<1>7. CASE call[t] # Idle
  <2>1. PICK place : place \in Where(t)
    BY ZenonT(60), <1>1, <1>5, <1>7 DEF Present
  <2>2. ASSUME NEW p \in Where(t), NEW q \in Where(t) PROVE p = q
    <3>1. ASSUME NEW i \in 1..Len(requests[t[1]]), IsAsked(t, i)
          PROVE  /\ \A j \in 1..Len(requests[t[1]]) : IsAsked(t, j) => i = j
                 /\ \A k \in Keys : \A j \in 1..Len(to_serve_kv_request[k]) :
                      to_serve_kv_request[k][j] # t
                 /\ \A j \in 1..Len(answers) : answers[j].thread # t
      <4>1. ASSUME NEW j \in 1..Len(requests[t[1]]), IsAsked(t, j) PROVE i = j
        <5>1. i <= j /\ j <= i
          BY Zenon, <1>1, <1>2, <3>1, <4>1 DEF Single, GetLast, IsAsked
        <5> QED
          BY <1>1, <1>2, <5>1, Elements
      <4>2. /\ \A k \in Keys : \A j \in 1..Len(to_serve_kv_request[k]) :
                 to_serve_kv_request[k][j] # t
            /\ \A j \in 1..Len(answers) : answers[j].thread # t
        BY ZenonT(60), <1>1, <1>2, <3>1 DEF Single, AskedAlone, IsAsked
      <4> QED
        BY Zenon, <4>1, <4>2
    <3>2. ASSUME NEW k \in Keys, NEW i \in 1..Len(to_serve_kv_request[k]),
                 to_serve_kv_request[k][i] = t
          PROVE  /\ \A l \in Keys : \A j \in 1..Len(to_serve_kv_request[l]) :
                      to_serve_kv_request[l][j] = t => k = l /\ i = j
                 /\ \A j \in 1..Len(answers) : answers[j].thread # t
      <4>1. \A j \in 1..Len(answers) : answers[j].thread # t
        BY Zenon, <1>1, <3>2 DEF Single, AsideAlone
      <4>2. ASSUME NEW l \in Keys, NEW j \in 1..Len(to_serve_kv_request[l]),
                   to_serve_kv_request[l][j] = t
            PROVE  k = l /\ i = j
        <5>1. call[t] = k /\ call[t] = l
          BY ZenonT(60), <1>1, <3>2, <4>2 DEF Expected, ExpectedAside
        <5> QED
          BY Zenon, <1>1, <3>2, <4>2, <5>1 DEF Single, AsideOnce
      <4> QED
        BY Zenon, <4>1, <4>2
    <3>3. \A i, j \in 1..Len(answers) :
            answers[i].thread = t /\ answers[j].thread = t => i = j
      BY Zenon, <1>1 DEF Single, AnsweredOnce
    <3> QED
      BY SMTT(60), <1>4, <3>1, <3>2, <3>3
  <2>3. Where(t) = {place}
    BY Zenon, <2>1, <2>2
  <2> QED
    BY Zenon, <1>7, <2>1, <2>3
<1> QED
  BY Zenon, <1>6, <1>7

\* A thread that waits in Get has exactly one request or answer under way, and a
\* request is set aside only while its key is absent: Put and Get of GAlloc, and
\* the PUT and GET cases of Master::ProcessRequest.
THEOREM BoardIsSound == BoardSpec => []BoardSound
<1>1. IInv => BoardSound
  BY Zenon, OnePlace DEF BoardSound, IInv
<1> QED
  BY <1>1, Invariance, PTL

\* Get never returns a value older than one that the thread has put or got before.
THEOREM ValuesNeverOlder == BoardSpec => NeverOlder
<1>1. ASSUME IInv, [BoardNext]_BoardVars, NEW i \in DOMAIN answers, Deliver(i)
      PROVE  \A v \in seen[answers[i].thread][answers[i].key] :
               /\ IsLogged(answers[i].key, v)
               /\ Position(answers[i].key, v) <= Position(answers[i].key, answers[i].value)
  <2> DEFINE k == answers[i].key
             t == answers[i].thread
             x == answers[i].value
  <2>1. BoardTypeOK /\ Single /\ Logged /\ Ordered
    BY Zenon, <1>1 DEF IInv
  <2>2. /\ i \in 1..Len(answers) /\ k \in Keys /\ t \in Threads
        /\ DOMAIN log[k] = 1..Len(log[k]) /\ Len(log[k]) \in Nat
    BY <1>1, <2>1, Elements DEF BoardTypeOK
  <2>3. PICK q \in 1..Len(log[k]) :
          log[k][q] = x /\ \A p \in 1..Len(log[k]) : log[k][p] \in seen[t][k] => p <= q
    BY Zenon, <2>1, <2>2 DEF Ordered, Newest
  <2>4. \A p \in 1..Len(log[k]) : Position(k, log[k][p]) = p
    BY ZenonT(60), <2>1, <2>2 DEF Position, Logged, LoggedOnce
  <2>5. ASSUME NEW v \in seen[t][k] PROVE \E p \in 1..Len(log[k]) : log[k][p] = v
    <3>1. \A j \in 1..Len(requests[t[1]]) : requests[t[1]][j].thread # t
      BY Zenon, KeyValueAssumption, <2>1, <2>2 DEF Single, AskedAlone
    <3> QED
      BY SMTT(60), <2>1, <2>2, <3>1 DEF Ordered, SeenKnown
  <2>6. ASSUME NEW v \in seen[t][k]
        PROVE  IsLogged(k, v) /\ Position(k, v) <= Position(k, x)
    <3>1. PICK p \in 1..Len(log[k]) : log[k][p] = v
      BY Zenon, <2>5
    <3>2. IsLogged(k, v)
      BY Zenon, <2>2, <3>1 DEF IsLogged
    <3>3. p <= q /\ Position(k, v) = p /\ Position(k, x) = q
      BY Zenon, <2>3, <2>4, <3>1
    <3> QED
      BY Zenon, <3>2, <3>3
  <2> QED
    BY Zenon, <2>6
<1>2. IInv /\ [BoardNext]_BoardVars =>
        [\A i \in DOMAIN answers :
           Deliver(i) =>
             LET m == answers[i] IN
             \A v \in seen[m.thread][m.key] :
               IsLogged(m.key, v) /\ Position(m.key, v) <= Position(m.key, m.value)]_BoardVars
  BY Zenon, <1>1
<1> QED
  BY <1>2, Invariance, PTL DEF BoardSpec, NeverOlder
=============================================================================

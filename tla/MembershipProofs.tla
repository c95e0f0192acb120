-------------------------- MODULE MembershipProofs --------------------------
(***************************************************************************)
(* Workers that join pair up once and never meet an unknown id: a proof of *)
(* JoinSound for any finite set of workers, and the default of unsynced_th *)
(* (Conf, structure.h).                                                    *)
(*                                                                         *)
(* JoinSound is not inductive.  That the list which a worker reads names   *)
(* exactly the workers with a smaller id rests on the master, which serves *)
(* one connection until it has the address (InOrder, Served, Phases); that *)
(* both ends of a pair have stored each other, on the order in which the   *)
(* list is worked off (Ascending, Downward, Mapped, OwnId); and that the   *)
(* receiver of statistics knows every worker they name, on the worker      *)
(* sending its first update only after it has connected to all earlier     *)
(* ones (FromJoined, Delivered).                                           *)
(***************************************************************************)
EXTENDS Membership, FiniteSetTheorems, TLAPS

-----------------------------------------------------------------------------
(* The inductive invariant *)

\* The clients of the master by id, and how many there are.
M == widCliMap[Master]
N == rdma_context_counter

ConnState == {"none", "open", "written", "answered", "address", "closed"}

\* What the messages of the master look like.
Statistics == [size : Nat, stats : Seq(Seq(Nat))]

Types ==
  /\ pc \in [Joining -> Labels]
  /\ todo \in [Joining -> Seq(Joining)]
  /\ wid \in [Joining -> Nat]
  /\ conn \in [Joining -> [Servers -> ConnState]]
  /\ backlog \in [Servers -> Seq(Joining)]
  /\ DOMAIN widCliMap = Servers
  /\ N \in Nat
  /\ worker_ips \in Seq(Joining)
  /\ serving \in Servers
  /\ toMaster \in [Joining -> Seq({"UPDATE", "FETCH"})]
  /\ toWorker \in [Joining -> Seq(Statistics)]
  /\ unsynced_workers = <<>>
  /\ widCliMapWorker \in [Servers -> SUBSET Nat]

\* The constructor has not read the answer of the master, or has not written
\* its address.
Unnamed(w) == pc[w] \in {"start", "exchange"}
Unlisted(w) == pc[w] \in {"start", "exchange", "list"}

\* The master serves one worker at a time and gives out ids in that order: the
\* i-th address of its list belongs to the worker with the id i, and only the
\* worker that it serves has an id and is not in the list.
InOrder ==
  /\ DOMAIN M = 1 .. N /\ \A v \in 1 .. N : M[v] \in Joining
  /\ \A u, v \in 1 .. N : M[u] = M[v] => u = v
  /\ N = Len(worker_ips) + (IF serving = Nobody THEN 0 ELSE 1)
  /\ \A i \in 1 .. Len(worker_ips) : worker_ips[i] = M[i]
  /\ serving # Nobody => M[N] = serving

\* The connection to the master tells how far it has got with a worker.
Served ==
  /\ \A v \in 1 .. N : conn[M[v]][Master] \in {"answered", "address", "closed"}
  /\ \A w \in Joining : conn[w][Master] \in {"answered", "address"} <=> serving = w

\* How far the connection and the id are at each place of the constructor.
Phases ==
  \A w \in Joining :
    /\ pc[w] = "start" => conn[w][Master] = "none"
    /\ pc[w] = "exchange" => conn[w][Master] \in {"open", "written", "answered"}
    /\ pc[w] = "list" => conn[w][Master] = "answered"
    /\ ~Unlisted(w) => conn[w][Master] \in {"address", "closed"}
    /\ Unnamed(w) => wid[w] = 0
    /\ ~Unnamed(w) => wid[w] \in 1 .. N /\ M[wid[w]] = w
    /\ pc[w] # "crashed"

\* The number of earlier workers that w has connected to.
Connected(w) == wid[w] - 1 - Len(todo[w])

\* A worker connects to those with a smaller id, in the order of their ids: to
\* the first ones it has, the others are still to do.
AscendingAt(w) ==
  /\ Unlisted(w) \/ Joined(w) => todo[w] = <<>>
  /\ ~Unlisted(w) =>
       /\ Connected(w) >= 0
       /\ \A v \in 1 .. Connected(w) : conn[w][M[v]] = "closed"
       /\ \A i \in 1 .. Len(todo[w]) : todo[w][i] = M[Connected(w) + i]

Ascending == \A w \in Joining : AscendingAt(w)

\* No worker connects to one with a larger id.
Downward ==
  \A x, u \in Joining :
    conn[x][u] # "none" => ~Unlisted(x) /\ wid[u] \in 1 .. wid[x] - 1

\* The two ends of a connection have each other under their ids.
Mapped ==
  \A x, u \in Joining :
    /\ conn[x][u] \in {"answered", "closed"} =>
         wid[x] \in DOMAIN widCliMap[u] /\ widCliMap[u][wid[x]] = x
    /\ conn[x][u] = "closed" => wid[u] \in DOMAIN widCliMap[x] /\ widCliMap[x][wid[u]] = u

\* A worker has the master under its own id, and knows no id that is not given out.
OwnId ==
  \A w \in Joining :
    /\ wid[w] # 0 => wid[w] \in DOMAIN widCliMap[w]
    /\ DOMAIN widCliMap[w] \subseteq 1 .. N

\* A message that is whole and names only workers that have sent an update.
Sound(m, known) ==
  /\ m.size # 0 => Len(m.stats) = 4 * m.size
  /\ \A j \in 0 .. m.size - 1 : \E v \in known : m.stats[4 * j + 2] = <<v>>

\* Updates come from workers that have connected to all earlier ones, so the
\* statistics name only those.
FromJoined ==
  /\ \A w \in Joining : toMaster[w] # <<>> => Joined(w)
  /\ \A v \in widCliMapWorker[Master] : v \in 1 .. N /\ Joined(M[v])
  /\ \A s \in Servers : widCliMapWorker[s] \subseteq 1 .. N

Delivered ==
  \A w \in Joining :
    /\ toWorker[w] # <<>> => wid[w] # 0
    /\ \A i \in DOMAIN toWorker[w] : Sound(toWorker[w][i], widCliMapWorker[Master])

JoinInv ==
  /\ Types /\ InOrder /\ Served /\ Phases /\ Ascending /\ Downward /\ Mapped /\ OwnId
  /\ FromJoined /\ Delivered

-----------------------------------------------------------------------------
(* Statistics *)

\* The elements of a finite set in some order.
LEMMA MapOrderIs ==
  ASSUME NEW S, IsFiniteSet(S)
  PROVE  MapOrder(S) \in [1 .. Cardinality(S) -> S] /\ Cardinality(S) \in Nat
<1>1. Cardinality(S) \in Nat /\ ExistsBijection(1 .. Cardinality(S), S)
  BY Zenon, FS_CardinalityType
<1>2. \E f \in [1 .. Cardinality(S) -> S] : \A i, j \in DOMAIN f : f[i] = f[j] => i = j
  BY Zenon, <1>1 DEF ExistsBijection, Bijection, Injection, IsInjective
<1>3. QED
  BY Zenon, <1>1, <1>2 DEF MapOrder

\* A function on an initial segment is a sequence.
LEMMA SequenceIs ==
  ASSUME NEW n \in Nat, NEW S, NEW f \in [1 .. n -> S]
  PROVE  f \in Seq(S) /\ Len(f) = n
OBVIOUS

\* A size and a sequence of tokens make a message.
LEMMA StatisticsIs ==
  ASSUME NEW n \in Nat, NEW s \in Seq(Seq(Nat)), NEW m, m = [size |-> n, stats |-> s]
  PROVE  m.size = n /\ m.stats = s /\ m \in Statistics
<1>1. m.size = n /\ m.stats = s
  BY Zenon
<1>2. m \in Statistics
  BY Zenon DEF Statistics
<1>3. QED
  BY Zenon, <1>1, <1>2

\* The fields of an entry are numbers, the second one is the id.
LEMMA EntryIs ==
  ASSUME NEW v \in Nat
  PROVE  (\A k \in 1 .. 4 : Entry(v)[k] \in Seq(Nat)) /\ Entry(v)[2] = <<v>>
<1>1. /\ <<10 + v>> \in Seq(Nat) /\ <<v>> \in Seq(Nat) /\ <<1000>> \in Seq(Nat)
      /\ <<500>> \in Seq(Nat)
  OBVIOUS
<1>2. \A k \in 1 .. 4 : k = 1 \/ k = 2 \/ k = 3 \/ k = 4
  OBVIOUS
<1>3. QED
  BY <1>1, <1>2 DEF Entry

\* The answer to FETCH_MEM_STATS has four fields for each worker, the second of
\* which is its id.
LEMMA SeparatedIs ==
  ASSUME NEW n \in Nat, NEW wids \in [1 .. n -> Nat]
  PROVE  /\ Stats(TRUE, wids) \in Statistics
         /\ Sound(Stats(TRUE, wids), {wids[i] : i \in 1 .. n})
<1>1. Len(wids) = n /\ wids \in Seq(Nat)
  OBVIOUS
<1>2. ASSUME NEW k \in 1 .. 4 * n
      PROVE  /\ Field(wids, k) \in Seq(Nat)
             /\ \A j \in 0 .. n - 1 : k = 4 * j + 2 => Field(wids, k) = <<wids[j + 1]>>
  <2>1. (k + 3) \div 4 \in 1 .. n /\ ((k - 1) % 4) + 1 \in 1 .. 4
    OBVIOUS
  <2>2. wids[(k + 3) \div 4] \in Nat
    BY Zenon, <2>1
  <2>3. Field(wids, k) \in Seq(Nat)
    BY Zenon, <2>1, <2>2, EntryIs DEF Field
  <2>4. ASSUME NEW j \in 0 .. n - 1, k = 4 * j + 2
        PROVE  Field(wids, k) = <<wids[j + 1]>>
    <3>1. (k + 3) \div 4 = j + 1 /\ ((k - 1) % 4) + 1 = 2
      BY <2>4
    <3>2. QED
      BY Zenon, <2>2, <3>1, EntryIs DEF Field
  <2>5. QED
    BY Zenon, <2>3, <2>4
<1>3. 4 * n \in Nat
  OBVIOUS
<1>4. Separated(wids) = [k \in 1 .. 4 * n |-> Field(wids, k)]
  BY Zenon, <1>1 DEF Separated
<1>5. Separated(wids) \in [1 .. 4 * n -> Seq(Nat)]
  BY Zenon, <1>2, <1>4
<1>6. Separated(wids) \in Seq(Seq(Nat)) /\ Len(Separated(wids)) = 4 * n
  BY <1>3, <1>5
<1>7. Stats(TRUE, wids) = [size |-> n, stats |-> Separated(wids)]
  BY Zenon, <1>1 DEF Stats
<1>8. ASSUME NEW j \in 0 .. n - 1
      PROVE  \E v \in {wids[i] : i \in 1 .. n} : Separated(wids)[4 * j + 2] = <<v>>
  <2>1. 4 * j + 2 \in 1 .. 4 * n /\ j + 1 \in 1 .. n
    OBVIOUS
  <2>2. Separated(wids)[4 * j + 2] = Field(wids, 4 * j + 2)
    BY Zenon, <1>4, <2>1
  <2>3. QED
    BY ZenonT(60), <1>2, <2>1, <2>2
<1>9. Stats(TRUE, wids).size = n /\ Stats(TRUE, wids).stats = Separated(wids)
      /\ Stats(TRUE, wids) \in Statistics
  BY ZenonT(60), <1>6, <1>7, StatisticsIs
<1>10. QED
  BY ZenonT(60), <1>6, <1>8, <1>9 DEF Sound

\* An answer that lists nobody names nobody, whatever its text.
LEMMA LeftoverIs ==
  ASSUME NEW m \in Leftover, NEW known
  PROVE  m \in Statistics /\ Sound(m, known)
<1>1. PICK text \in {<<>>, << <<7>> >>} : m = [size |-> 0, stats |-> text]
  BY Zenon DEF Leftover
<1>2. text \in Seq(Seq(Nat))
  <2>1. <<>> \in Seq(Seq(Nat)) /\ << <<7>> >> \in Seq(Seq(Nat))
    OBVIOUS
  <2>2. QED
    BY Zenon, <2>1
<1>3. m.size = 0 /\ m \in Statistics
  BY Zenon, <1>1, <1>2, StatisticsIs
<1>4. QED
  BY <1>3 DEF Sound

\* A broadcast for one worker has its four fields.
LEMMA AdjacentIs ==
  ASSUME NEW v \in Nat
  PROVE  Stats(FALSE, <<v>>) \in Statistics /\ Sound(Stats(FALSE, <<v>>), {v})
<1> DEFINE e == <<v>>
<1>1. Len(e) = 1 /\ e[1] = v
  BY Zenon
<1>2. \A k \in 1 .. 4 : (k + 3) \div 4 = 1 /\ ((k - 1) % 4) + 1 = k
  OBVIOUS
<1> HIDE DEF e
<1>3. \A k \in 1 .. 4 : Field(e, k) = Entry(v)[k]
  BY Zenon, <1>1, <1>2 DEF Field
<1>4. Adjacent(e) = [k \in 1 .. 4 |-> Entry(v)[k]]
  <2>1. Adjacent(e) =
          [k \in 1 .. 4 |-> IF ((k - 1) \div 3) * 3 + 1 = k /\ (k - 1) \div 3 \in 1 .. 0
                            THEN Field(e, 4 * ((k - 1) \div 3)) \o Field(e, 4 * ((k - 1) \div 3) + 1)
                            ELSE Field(e, IF (k - 1) \div 3 = 1 THEN 4 * ((k - 1) \div 3)
                                                               ELSE k + (k - 1) \div 3)]
    BY <1>1 DEF Adjacent
  <2>2. \A k \in 1 .. 4 : /\ (k - 1) \div 3 \notin 1 .. 0
                          /\ (IF (k - 1) \div 3 = 1 THEN 4 * ((k - 1) \div 3)
                                                   ELSE k + (k - 1) \div 3) = k
    OBVIOUS
  <2>3. QED
    BY Zenon, <1>3, <2>1, <2>2
<1>5. Adjacent(e) \in Seq(Seq(Nat)) /\ Len(Adjacent(e)) = 4 /\ Adjacent(e)[2] = <<v>>
  <2>1. \A k \in 1 .. 4 : Entry(v)[k] \in Seq(Nat)
    BY Zenon, EntryIs
  <2>2. Adjacent(e) \in [1 .. 4 -> Seq(Nat)]
    BY Zenon, <1>4, <2>1
  <2>3. Adjacent(e)[2] = <<v>>
    BY <1>4, EntryIs
  <2>4. QED
    BY ZenonT(60), <2>2, <2>3, SequenceIs
<1>6. Stats(FALSE, e) = [size |-> 1, stats |-> Adjacent(e)]
  BY Zenon, <1>1 DEF Stats
<1>7. Stats(FALSE, e).size = 1 /\ Stats(FALSE, e).stats = Adjacent(e)
      /\ Stats(FALSE, e) \in Statistics
  <2>1. 1 \in Nat /\ Adjacent(e) \in Seq(Seq(Nat))
    BY Zenon, <1>5
  <2>2. QED
    BY <1>6, <2>1, StatisticsIs, Zenon
<1>8. Sound(Stats(FALSE, e), {v})
  <2>1. ASSUME NEW j \in 0 .. 1 - 1
        PROVE  Stats(FALSE, e).stats[4 * j + 2] = <<v>>
    <3>1. 4 * j + 2 = 2
      OBVIOUS
    <3>2. QED
      BY ZenonT(60), <1>5, <1>7, <3>1
  <2>2. Len(Stats(FALSE, e).stats) = 4 * Stats(FALSE, e).size
    <3>1. Len(Adjacent(e)) = 4 * 1
      BY <1>5
    <3>2. QED
      BY <1>7, <3>1, Zenon
  <2>3. QED
    BY ZenonT(60), <1>7, <2>1, <2>2 DEF Sound
<1>9. QED
  BY ZenonT(60), <1>7, <1>8 DEF e

\* What Append puts at which place.
LEMMA AppendIs ==
  ASSUME NEW S, NEW q \in Seq(S), NEW e \in S
  PROVE  \A i \in DOMAIN Append(q, e) :
           Append(q, e)[i] = e \/ (i \in DOMAIN q /\ Append(q, e)[i] = q[i])
<1>1. Len(q) \in Nat /\ DOMAIN q = 1 .. Len(q)
  OBVIOUS
<1>2. Len(Append(q, e)) = Len(q) + 1 /\ DOMAIN Append(q, e) = 1 .. Len(q) + 1
  OBVIOUS
<1>3. Append(q, e)[Len(q) + 1] = e
  OBVIOUS
<1>4. \A i \in 1 .. Len(q) : Append(q, e)[i] = q[i]
  OBVIOUS
<1>5. \A i \in 1 .. Len(q) + 1 : i = Len(q) + 1 \/ i \in 1 .. Len(q)
  BY <1>1
<1>6. TAKE i \in DOMAIN Append(q, e)
<1>7. i = Len(q) + 1 \/ i \in 1 .. Len(q)
  BY <1>2, <1>5, Zenon
<1>8. CASE i = Len(q) + 1
  BY Zenon, <1>3, <1>8
<1>9. CASE i \in 1 .. Len(q)
  BY <1>1, <1>4, <1>9, Zenon
<1>10. QED
  BY <1>7, <1>8, <1>9, Zenon

\* A message stays sound when more workers are known.
LEMMA SoundGrows ==
  ASSUME NEW known, NEW more, known \subseteq more, NEW m, Sound(m, known)
  PROVE  Sound(m, more)
BY Zenon DEF Sound

-----------------------------------------------------------------------------
(* What a step changes *)

\* Servers are the workers and the master, which stands for nobody as well.
LEMMA ServersAre ==
  /\ Servers = Joining \cup {Master} /\ Nobody = Master /\ Master \notin Joining
  /\ Joining \subseteq Servers /\ Master \in Servers
BY Zenon, MembershipAssumption DEF Servers, Nobody

\* One connection changes.
LEMMA ConnChange ==
  ASSUME Types, NEW w \in Joining, NEW s \in Servers, NEW value \in ConnState,
         conn' = [conn EXCEPT ![w][s] = value]
  PROVE  /\ conn' \in [Joining -> [Servers -> ConnState]]
         /\ \A x \in Joining, y \in Servers :
              conn'[x][y] = IF x = w /\ y = s THEN value ELSE conn[x][y]
BY Zenon DEF Types

\* UpdateWidMap stores one client at one server.
LEMMA MapChange ==
  ASSUME Types, NEW s \in Servers, NEW v, NEW peer, UpdateWidMap(s, v, peer)
  PROVE  /\ DOMAIN widCliMap' = Servers
         /\ \A r \in Servers \ {s} : widCliMap'[r] = widCliMap[r]
         /\ DOMAIN (widCliMap'[s]) = DOMAIN widCliMap[s] \cup {v}
         /\ widCliMap'[s][v] = peer
         /\ \A u \in DOMAIN widCliMap[s] \ {v} : widCliMap'[s][u] = widCliMap[s][u]
<1> DEFINE f == [u \in DOMAIN widCliMap[s] \cup {v} |-> IF u = v THEN peer ELSE widCliMap[s][u]]
<1>1. widCliMap' = [widCliMap EXCEPT ![s] = f]
  BY Zenon DEF UpdateWidMap
<1>2. widCliMap'[s] = f /\ DOMAIN widCliMap' = Servers
      /\ \A r \in Servers \ {s} : widCliMap'[r] = widCliMap[r]
  BY <1>1, Zenon DEF Types
<1>3. QED
  BY Zenon, <1>2

\* Every worker that the master is through with knows its id.
LEMMA Named ==
  ASSUME Types, InOrder, Served, Phases, NEW v \in 1 .. N, v < N \/ serving = Nobody
  PROVE  ~Unnamed(M[v]) /\ wid[M[v]] = v
<1>0. N \in Nat /\ N \in 1 .. N
  BY DEF Types
<1>1. M[v] \in Joining /\ serving # M[v]
  <2>1. M[v] \in Joining
    BY Zenon DEF InOrder
  <2>2. CASE serving = Nobody
    BY Zenon, <2>1, <2>2, ServersAre
  <2>3. CASE serving # Nobody
    BY <1>0, <2>1, <2>3 DEF InOrder
  <2>4. QED
    BY Zenon, <2>1, <2>2, <2>3
<1>2. conn[M[v]][Master] = "closed"
  BY Zenon, <1>1 DEF Served
<1>3. ~Unnamed(M[v])
  BY Zenon, <1>1, <1>2 DEF Phases, Unnamed
<1>4. wid[M[v]] \in 1 .. N /\ M[wid[M[v]]] = M[v]
  BY Zenon, <1>1, <1>3 DEF Phases
<1>5. QED
  BY Zenon, <1>3, <1>4 DEF InOrder

\* What a worker has connected to and has still to do stays as it is when another
\* one moves.
LEMMA AscendingKept ==
  ASSUME Types, InOrder, Phases, Ascending, NEW x \in Joining,
         \A v \in 1 .. N : M'[v] = M[v],
         pc'[x] = pc[x], todo'[x] = todo[x], wid'[x] = wid[x],
         \A y \in Joining : conn[x][y] = "closed" => conn'[x][y] = "closed"
  PROVE  AscendingAt(x)'
<1>1. Connected(x)' = Connected(x) /\ Unlisted(x)' = Unlisted(x) /\ Joined(x)' = Joined(x)
  BY Zenon DEF Connected, Unlisted, Joined
<1>2. AscendingAt(x)
  BY Zenon DEF Ascending
<1>3. ASSUME ~Unlisted(x)
      PROVE  /\ wid[x] \in 1 .. N /\ Len(todo[x]) \in Nat /\ N \in Nat
             /\ Connected(x) \in Nat /\ Connected(x) + Len(todo[x]) < N
  <2>1. wid[x] \in 1 .. N /\ Len(todo[x]) \in Nat /\ N \in Nat
    BY <1>3 DEF Phases, Unlisted, Unnamed, Types
  <2>2. Connected(x) >= 0
    BY Zenon, <1>2, <1>3 DEF AscendingAt
  <2>3. QED
    BY <2>1, <2>2 DEF Connected
<1>4. ASSUME ~Unlisted(x), NEW v \in 1 .. Connected(x)
      PROVE  conn'[x][M'[v]] = "closed"
  <2>1. v \in 1 .. N
    BY <1>3, <1>4
  <2>2. M[v] \in Joining /\ M'[v] = M[v]
    BY Zenon, <2>1 DEF InOrder
  <2>3. QED
    BY Zenon, <1>2, <1>4, <2>2 DEF AscendingAt
<1>5. ASSUME ~Unlisted(x), NEW i \in 1 .. Len(todo[x])
      PROVE  todo[x][i] = M'[Connected(x) + i]
  <2>1. Connected(x) + i \in 1 .. N
    BY <1>3, <1>5
  <2>2. QED
    BY Zenon, <1>2, <1>5, <2>1 DEF AscendingAt
<1>6. QED
  BY Zenon, <1>1, <1>2, <1>3, <1>4, <1>5 DEF AscendingAt

\* Different workers have different ids.
LEMMA IdsDiffer ==
  ASSUME Types, Phases, NEW x \in Joining, NEW u \in Joining, wid[x] = wid[u], wid[x] # 0
  PROVE  x = u
BY ZenonT(60) DEF Phases

-----------------------------------------------------------------------------
(* Every step preserves the invariant *)

\* The parts of the invariant.
LEMMA Parts ==
  ASSUME JoinInv
  PROVE  /\ Types /\ InOrder /\ Served /\ Phases /\ Ascending /\ Downward /\ Mapped /\ OwnId
         /\ FromJoined /\ Delivered
BY Zenon DEF JoinInv

\* A step that only moves statistics leaves the joining as it is.
LEMMA JoiningKept ==
  ASSUME JoinInv,
         UNCHANGED <<pc, todo, wid, conn, widCliMap, rdma_context_counter, worker_ips, serving>>
  PROVE  /\ M' = M /\ N' = N
         /\ InOrder' /\ Served' /\ Phases' /\ Downward' /\ Mapped' /\ OwnId' /\ Ascending'
<1>1. M' = M /\ N' = N
  BY Zenon DEF M, N
<1>2. InOrder'
  BY Zenon, <1>1, Parts DEF InOrder
<1>3. Served'
  BY Zenon, <1>1, Parts DEF Served
<1>4. Phases'
  BY Zenon, <1>1, Parts DEF Phases, Unlisted, Unnamed
<1>5. Downward' /\ Mapped'
  BY ZenonT(60), Parts DEF Downward, Mapped, Unlisted
<1>6. OwnId'
  BY Zenon, <1>1, Parts DEF OwnId
<1>7. Ascending'
  BY ZenonT(60), <1>1, Parts DEF Ascending, AscendingAt, Connected, Unlisted, Joined
<1>8. QED
  BY <1>1, <1>2, <1>3, <1>4, <1>5, <1>6, <1>7, Zenon

\* A worker opens the connection to the master.
LEMMA ConnectMasterStep ==
  ASSUME JoinInv, NEW w \in Joining, ConnectMaster(w)
  PROVE  JoinInv'
<1>1. /\ pc[w] = "start" /\ pc' = [pc EXCEPT ![w] = "exchange"]
      /\ conn' = [conn EXCEPT ![w][Master] = "open"]
      /\ backlog' = [backlog EXCEPT ![Master] = Append(@, w)]
      /\ UNCHANGED <<todo, wid, widCliMap, rdma_context_counter, worker_ips, serving,
                     toMaster, toWorker, unsynced_workers, widCliMapWorker>>
  BY Zenon DEF ConnectMaster, Open, Goto, masterVars, rdmaVars
<1>2. \A x \in Joining : pc'[x] = IF x = w THEN "exchange" ELSE pc[x]
  BY Zenon, <1>1, Parts DEF Types
<1>3. /\ conn' \in [Joining -> [Servers -> ConnState]]
      /\ \A x \in Joining, y \in Servers :
           conn'[x][y] = IF x = w /\ y = Master THEN "open" ELSE conn[x][y]
  <2>1. Types /\ "open" \in ConnState /\ Master \in Servers
    BY Zenon, Parts, ServersAre DEF ConnState
  <2>2. QED
    BY ZenonT(60), <1>1, <2>1, ConnChange
<1>4. M' = M /\ N' = N
  BY Zenon, <1>1 DEF M, N
<1>5. conn[w][Master] = "none"
  BY Zenon, <1>1, Parts DEF Phases
<1>6. Types'
  <2>1. pc' \in [Joining -> Labels]
    BY Zenon, <1>1, Parts DEF Types, Labels
  <2>2. backlog' \in [Servers -> Seq(Joining)]
    BY <1>1, Parts, ServersAre DEF Types
  <2>3. QED
    BY Zenon, <1>1, <1>3, <1>4, <2>1, <2>2, Parts DEF Types
<1>7. InOrder'
  BY Zenon, <1>1, <1>4, Parts DEF InOrder
<1>8. Served'
  BY SMTT(60), <1>1, <1>3, <1>4, <1>5, Parts, ServersAre DEF Served, InOrder
<1>9. Phases'
  BY <1>1, <1>2, <1>3, <1>4, Parts, ServersAre DEF Phases, Unnamed, Unlisted
<1>10. Ascending'
  BY <1>1, <1>2, <1>3, <1>4, Parts, ServersAre
  DEF Ascending, AscendingAt, Unlisted, Joined, Connected, InOrder
<1>11. Downward'
  BY <1>1, <1>2, <1>3, Parts, ServersAre DEF Downward, Unlisted
<1>12. Mapped'
  BY <1>1, <1>3, Parts, ServersAre DEF Mapped
<1>13. OwnId'
  BY Zenon, <1>1, <1>4, Parts DEF OwnId
<1>14. FromJoined'
  BY <1>1, <1>2, <1>4, Parts DEF FromJoined, Joined, InOrder
<1>15. Delivered'
  BY Zenon, <1>1, Parts DEF Delivered
<1>16. QED
  BY Zenon, <1>6, <1>7, <1>8, <1>9, <1>10, <1>11, <1>12, <1>13, <1>14, <1>15 DEF JoinInv

\* The connection string is sent, to the master or to another worker.
LEMMA WriteConnStringStep ==
  ASSUME JoinInv, NEW w \in Joining, NEW s \in Servers, WriteConnString(w, s)
  PROVE  JoinInv'
<1>1. /\ conn[w][s] = "open" /\ conn' = [conn EXCEPT ![w][s] = "written"]
      /\ UNCHANGED <<pc, todo, wid, backlog, widCliMap, rdma_context_counter, worker_ips,
                     serving, toMaster, toWorker, unsynced_workers, widCliMapWorker>>
  BY Zenon DEF WriteConnString, masterVars, rdmaVars
<1>2. /\ conn' \in [Joining -> [Servers -> ConnState]]
      /\ \A x \in Joining, y \in Servers :
           conn'[x][y] = IF x = w /\ y = s THEN "written" ELSE conn[x][y]
  <2>1. Types /\ "written" \in ConnState /\ Master \in Servers
    BY Zenon, Parts, ServersAre DEF ConnState
  <2>2. QED
    BY ZenonT(60), <1>1, <2>1, ConnChange
<1>3. M' = M /\ N' = N
  BY Zenon, <1>1 DEF M, N
<1>4. Types'
  BY Zenon, <1>1, <1>2, <1>3, Parts DEF Types
<1>5. InOrder'
  BY Zenon, <1>1, <1>3, Parts DEF InOrder
<1>6. Served'
  BY <1>1, <1>2, <1>3, Parts, ServersAre DEF Served, InOrder
<1>7. Phases'
  BY <1>1, <1>2, <1>3, Parts, ServersAre DEF Phases, Unnamed, Unlisted
<1>8. Ascending'
  BY <1>1, <1>2, <1>3, Parts, ServersAre
  DEF Ascending, AscendingAt, Unlisted, Joined, Connected, InOrder
<1>9. Downward'
  BY ZenonT(60), <1>1, <1>2, Parts, ServersAre DEF Downward, Unlisted
<1>10. Mapped'
  BY <1>1, <1>2, Parts, ServersAre DEF Mapped
<1>11. OwnId'
  BY Zenon, <1>1, <1>3, Parts DEF OwnId
<1>12. FromJoined'
  BY Zenon, <1>1, <1>3, Parts DEF FromJoined, Joined
<1>13. Delivered'
  BY Zenon, <1>1, Parts DEF Delivered
<1>14. QED
  BY Zenon, <1>4, <1>5, <1>6, <1>7, <1>8, <1>9, <1>10, <1>11, <1>12, <1>13 DEF JoinInv

\* The worker that is served by the master is the last one that got an id.
LEMMA ServedIsLast ==
  ASSUME Types, InOrder, Served, NEW w \in Joining, conn[w][Master] \in {"answered", "address"}
  PROVE  /\ serving = w /\ N >= 1 /\ N \in Nat /\ N = Len(worker_ips) + 1 /\ M[N] = w
         /\ \A v \in 1 .. N : M[v] = w => v = N
<1>1. serving = w /\ serving # Nobody
  BY Zenon, ServersAre DEF Served
<1>2. N \in Nat /\ Len(worker_ips) \in Nat
  BY DEF Types
<1>3. N = Len(worker_ips) + 1 /\ M[N] = w
  BY Zenon, <1>1 DEF InOrder
<1>4. QED
  BY <1>1, <1>2, <1>3 DEF InOrder

\* A worker reads its id from the answer of the master.
LEMMA ReadMasterAnswerStep ==
  ASSUME JoinInv, NEW w \in Joining, ReadMasterAnswer(w)
  PROVE  JoinInv'
<1>1. PICK v \in DOMAIN M :
        M[v] = w /\ wid' = [wid EXCEPT ![w] = v] /\ UpdateWidMap(w, v, Master)
  BY ZenonT(60) DEF ReadMasterAnswer, M
<1>2. /\ pc[w] = "exchange" /\ conn[w][Master] = "answered"
      /\ pc' = [pc EXCEPT ![w] = "list"]
      /\ UNCHANGED <<todo, conn, backlog, rdma_context_counter, worker_ips, serving,
                     toMaster, toWorker, unsynced_workers, widCliMapWorker>>
  BY Zenon DEF ReadMasterAnswer, Goto, masterVars, rdmaVars
<1>3. v = N /\ v \in 1 .. N /\ v \in Nat
  <2>1. DOMAIN M = 1 .. N
    BY Zenon, Parts DEF InOrder
  <2>2. QED
    BY Zenon, <1>1, <1>2, <2>1, Parts, ServedIsLast
<1>4. \A x \in Joining : /\ pc'[x] = IF x = w THEN "list" ELSE pc[x]
                         /\ wid'[x] = IF x = w THEN v ELSE wid[x]
  BY Zenon, <1>1, <1>2, Parts DEF Types
<1>5. /\ DOMAIN widCliMap' = Servers
      /\ \A r \in Servers \ {w} : widCliMap'[r] = widCliMap[r]
      /\ DOMAIN (widCliMap'[w]) = DOMAIN widCliMap[w] \cup {v}
  <2>1. Types /\ w \in Servers
    BY Zenon, Parts, ServersAre
  <2>2. QED
    BY <1>1, <2>1, MapChange, Zenon
<1>6. M' = M /\ N' = N
  BY Zenon, <1>2, <1>5, ServersAre DEF M, N
<1>7. wid[w] = 0
  BY Zenon, <1>2, Parts DEF Phases, Unnamed
<1>8. \A x \in Joining : conn[x][w] = "none" /\ conn[w][x] = "none"
  BY <1>2, <1>7, Parts DEF Downward, Unlisted
<1>9. Types'
  <2>1. pc' \in [Joining -> Labels] /\ wid' \in [Joining -> Nat]
    BY Zenon, <1>1, <1>2, <1>3, Parts DEF Types, Labels
  <2>2. QED
    BY Zenon, <1>2, <1>5, <1>6, <2>1, Parts DEF Types
<1>10. InOrder'
  BY Zenon, <1>2, <1>6, Parts DEF InOrder
<1>11. Served'
  BY Zenon, <1>2, <1>6, Parts DEF Served
<1>12. Phases'
  BY SMTT(60), <1>1, <1>2, <1>3, <1>4, <1>6, Parts DEF Phases, Unnamed, Unlisted
<1>13. Ascending'
  BY <1>2, <1>4, <1>6, Parts DEF Ascending, AscendingAt, Unlisted, Joined, Connected
<1>14. Downward'
  BY ZenonT(60), <1>2, <1>4, <1>8, Parts DEF Downward, Unlisted
<1>15. Mapped'
  BY <1>2, <1>4, <1>5, <1>8, Parts, ServersAre DEF Mapped
<1>16. OwnId'
  BY ZenonT(60), <1>2, <1>3, <1>4, <1>5, <1>6, Parts, ServersAre DEF OwnId
<1>17. FromJoined'
  BY <1>2, <1>4, <1>6, Parts DEF FromJoined, Joined, InOrder
<1>18. Delivered'
  BY <1>2, <1>3, <1>4, Parts DEF Delivered
<1>19. QED
  BY ZenonT(60), <1>9, <1>10, <1>11, <1>12, <1>13, <1>14, <1>15, <1>16, <1>17, <1>18 DEF JoinInv

\* A worker takes the list of the master and sends its address.
LEMMA PostConnectMasterStep ==
  ASSUME JoinInv, NEW w \in Joining, PostConnectMaster(w)
  PROVE  JoinInv'
<1>1. /\ pc[w] = "list" /\ pc' = [pc EXCEPT ![w] = "peers"]
      /\ todo' = [todo EXCEPT ![w] = worker_ips]
      /\ conn' = [conn EXCEPT ![w][Master] = "address"]
      /\ UNCHANGED <<wid, backlog, widCliMap, rdma_context_counter, worker_ips, serving,
                     toMaster, toWorker, unsynced_workers, widCliMapWorker>>
  BY Zenon DEF PostConnectMaster, Goto, masterVars, rdmaVars
<1>2. \A x \in Joining : /\ pc'[x] = IF x = w THEN "peers" ELSE pc[x]
                         /\ todo'[x] = IF x = w THEN worker_ips ELSE todo[x]
  BY Zenon, <1>1, Parts DEF Types
<1>3. /\ conn' \in [Joining -> [Servers -> ConnState]]
      /\ \A x \in Joining, y \in Servers :
           conn'[x][y] = IF x = w /\ y = Master THEN "address" ELSE conn[x][y]
  <2>1. Types /\ "address" \in ConnState /\ Master \in Servers
    BY Zenon, Parts, ServersAre DEF ConnState
  <2>2. QED
    BY ZenonT(60), <1>1, <2>1, ConnChange
<1>4. M' = M /\ N' = N
  BY Zenon, <1>1 DEF M, N
<1>5. conn[w][Master] = "answered"
  BY Zenon, <1>1, Parts DEF Phases
<1>6. serving = w /\ N = Len(worker_ips) + 1 /\ N \in Nat /\ wid[w] = N
  <2>1. serving = w /\ N = Len(worker_ips) + 1 /\ N \in Nat /\ \A v \in 1 .. N : M[v] = w => v = N
    BY Zenon, <1>5, Parts, ServedIsLast
  <2>2. wid[w] \in 1 .. N /\ M[wid[w]] = w
    BY Zenon, <1>1, Parts DEF Phases, Unnamed
  <2>3. QED
    BY Zenon, <2>1, <2>2
<1>7. Types'
  <2>1. pc' \in [Joining -> Labels] /\ todo' \in [Joining -> Seq(Joining)]
    BY Zenon, <1>1, Parts DEF Types, Labels
  <2>2. QED
    BY Zenon, <1>1, <1>3, <1>4, <2>1, Parts DEF Types
<1>8. InOrder'
  BY Zenon, <1>1, <1>4, Parts DEF InOrder
<1>9. Served'
  BY SMTT(60), <1>1, <1>3, <1>4, <1>6, Parts, ServersAre DEF Served, InOrder
<1>10. Phases'
  BY <1>1, <1>2, <1>3, <1>4, Parts, ServersAre DEF Phases, Unnamed, Unlisted
<1>11. Ascending'
  <2> SUFFICES ASSUME NEW x \in Joining PROVE AscendingAt(x)'
    BY Zenon DEF Ascending
  <2>1. CASE x = w
    <3>1. Connected(w)' = 0 /\ ~Unlisted(w)' /\ ~Joined(w)'
      BY SMTT(60), <1>1, <1>2, <1>6, Parts DEF Connected, Unlisted, Joined, Types
    <3>2. \A i \in 1 .. Len(worker_ips) : worker_ips[i] = M[0 + i]
      BY Parts DEF InOrder, Types
    <3>3. QED
      BY <1>2, <1>4, <2>1, <3>1, <3>2 DEF AscendingAt
  <2>2. CASE x # w
    <3>1. /\ pc'[x] = pc[x] /\ todo'[x] = todo[x] /\ wid'[x] = wid[x]
          /\ \A y \in Joining : conn'[x][y] = conn[x][y]
      BY Zenon, <1>1, <1>2, <1>3, <2>2, ServersAre
    <3>2. QED
      BY Zenon, <1>4, <3>1, Parts, AscendingKept
  <2>3. QED
    BY Zenon, <2>1, <2>2
<1>12. Downward'
  BY ZenonT(60), <1>1, <1>2, <1>3, Parts, ServersAre DEF Downward, Unlisted
<1>13. Mapped'
  BY <1>1, <1>3, Parts, ServersAre DEF Mapped
<1>14. OwnId'
  BY Zenon, <1>1, <1>4, Parts DEF OwnId
<1>15. FromJoined'
  BY <1>1, <1>2, <1>4, Parts DEF FromJoined, Joined, InOrder
<1>16. Delivered'
  BY Zenon, <1>1, Parts DEF Delivered
<1>17. QED
  BY Zenon, <1>7, <1>8, <1>9, <1>10, <1>11, <1>12, <1>13, <1>14, <1>15, <1>16 DEF JoinInv

\* The next worker to connect to is an earlier one, which knows its id.
LEMMA NextPeer ==
  ASSUME JoinInv, NEW w \in Joining, pc[w] = "peers", todo[w] # <<>>
  PROVE  /\ Head(todo[w]) \in Joining /\ Connected(w) \in Nat /\ wid[w] \in 1 .. N
         /\ Connected(w) + 1 \in 1 .. wid[w] - 1
         /\ Head(todo[w]) = M[Connected(w) + 1]
         /\ wid[Head(todo[w])] = Connected(w) + 1
         /\ Head(todo[w]) # w
<1>1. ~Unlisted(w) /\ ~Unnamed(w)
  BY Zenon DEF Unlisted, Unnamed
<1>2. wid[w] \in 1 .. N /\ N \in Nat
  BY Zenon, <1>1, Parts DEF Phases, Types
<1>3. todo[w] \in Seq(Joining) /\ Len(todo[w]) \in Nat \ {0} /\ Head(todo[w]) = todo[w][1]
  BY Parts DEF Types
<1>4. Connected(w) >= 0 /\ todo[w][1] = M[Connected(w) + 1]
  BY <1>1, <1>3, Parts DEF Ascending, AscendingAt
<1>5. Connected(w) \in Nat /\ Connected(w) + 1 \in 1 .. wid[w] - 1 /\ Connected(w) + 1 \in 1 .. N
  BY SMTT(60), <1>2, <1>3, <1>4 DEF Connected
<1>6. wid[M[Connected(w) + 1]] = Connected(w) + 1
  <2>1. Connected(w) + 1 < N
    BY <1>2, <1>5
  <2>2. QED
    BY Zenon, <1>5, <2>1, Parts, Named
<1>7. Head(todo[w]) \in Joining
  BY <1>3, <1>4, <1>5, Parts DEF InOrder
<1>8. QED
  BY <1>2, <1>3, <1>4, <1>5, <1>6, <1>7

\* A worker opens a connection to an earlier one.
LEMMA ConnectPeerStep ==
  ASSUME JoinInv, NEW w \in Joining, ConnectPeer(w)
  PROVE  JoinInv'
<1> DEFINE s == Head(todo[w])
<1>1. /\ pc[w] = "peers" /\ todo[w] # <<>> /\ conn[w][s] = "none"
      /\ conn' = [conn EXCEPT ![w][s] = "open"]
      /\ backlog' = [backlog EXCEPT ![s] = Append(@, w)]
      /\ UNCHANGED <<pc, todo, wid, widCliMap, rdma_context_counter, worker_ips, serving,
                     toMaster, toWorker, unsynced_workers, widCliMapWorker>>
  BY Zenon DEF ConnectPeer, Open, masterVars, rdmaVars
<1>2. s \in Joining /\ s \in Servers /\ s # Master /\ wid[s] \in 1 .. wid[w] - 1
  BY Zenon, <1>1, NextPeer, ServersAre
<1> HIDE DEF s
<1>3. /\ conn' \in [Joining -> [Servers -> ConnState]]
      /\ \A x \in Joining, y \in Servers :
           conn'[x][y] = IF x = w /\ y = s THEN "open" ELSE conn[x][y]
  <2>1. Types /\ "open" \in ConnState
    BY Zenon, Parts DEF ConnState
  <2>2. QED
    BY ZenonT(60), <1>1, <1>2, <2>1, ConnChange
<1>4. M' = M /\ N' = N
  BY Zenon, <1>1 DEF M, N
<1>5. \A x \in Joining : conn'[x][Master] = conn[x][Master]
  BY Zenon, <1>2, <1>3, ServersAre
<1>6. Types'
  <2>1. backlog' \in [Servers -> Seq(Joining)]
    BY <1>1, <1>2, Parts DEF Types
  <2>2. QED
    BY ZenonT(60), <1>1, <1>3, <1>4, <2>1, Parts DEF Types
<1>7. InOrder'
  BY Zenon, <1>1, <1>4, Parts DEF InOrder
<1>8. Served'
  BY <1>1, <1>4, <1>5, Parts DEF Served, InOrder
<1>9. Phases'
  BY <1>1, <1>4, <1>5, Parts DEF Phases, Unnamed, Unlisted
<1>10. Ascending'
  <2> SUFFICES ASSUME NEW x \in Joining PROVE AscendingAt(x)'
    BY Zenon DEF Ascending
  <2>1. \A y \in Joining : conn[x][y] = "closed" => conn'[x][y] = "closed"
    BY Zenon, <1>1, <1>3, ServersAre
  <2>2. QED
    BY Zenon, <1>1, <1>4, <2>1, Parts, AscendingKept
<1>11. Downward'
  BY ZenonT(60), <1>1, <1>2, <1>3, Parts, ServersAre DEF Downward, Unlisted
<1>12. Mapped'
  BY <1>1, <1>3, Parts, ServersAre DEF Mapped
<1>13. OwnId'
  BY Zenon, <1>1, <1>4, Parts DEF OwnId
<1>14. FromJoined'
  BY Zenon, <1>1, <1>4, Parts DEF FromJoined, Joined
<1>15. Delivered'
  BY Zenon, <1>1, Parts DEF Delivered
<1>16. QED
  BY Zenon, <1>6, <1>7, <1>8, <1>9, <1>10, <1>11, <1>12, <1>13, <1>14, <1>15 DEF JoinInv

\* A worker reads the answer of an earlier one.
LEMMA ReadPeerAnswerStep ==
  ASSUME JoinInv, NEW w \in Joining, ReadPeerAnswer(w)
  PROVE  JoinInv'
<1> DEFINE s == Head(todo[w])
<1>1. /\ pc[w] = "peers" /\ todo[w] # <<>> /\ conn[w][s] = "answered"
      /\ UpdateWidMap(w, wid[s], s)
      /\ conn' = [conn EXCEPT ![w][s] = "closed"]
      /\ todo' = [todo EXCEPT ![w] = Tail(@)]
      /\ UNCHANGED <<pc, wid, backlog, rdma_context_counter, worker_ips, serving,
                     toMaster, toWorker, unsynced_workers, widCliMapWorker>>
  BY Zenon DEF ReadPeerAnswer, GetConnString, masterVars, rdmaVars
<1>2. /\ s \in Joining /\ s \in Servers /\ s # Master /\ s # w /\ w \in Servers /\ w # Master
      /\ wid[s] \in 1 .. wid[w] - 1 /\ wid[w] \in 1 .. N /\ wid[s] = Connected(w) + 1
      /\ s = M[Connected(w) + 1]
  BY Zenon, <1>1, NextPeer, ServersAre
<1>3. /\ \A x \in Joining : x # w => todo'[x] = todo[x]
      /\ todo'[w] = Tail(todo[w]) /\ todo' \in [Joining -> Seq(Joining)]
  BY <1>1, Parts DEF Types
<1> HIDE DEF s
<1>4. /\ conn' \in [Joining -> [Servers -> ConnState]]
      /\ \A x \in Joining, y \in Servers :
           conn'[x][y] = IF x = w /\ y = s THEN "closed" ELSE conn[x][y]
  <2>1. Types /\ "closed" \in ConnState /\ s \in Servers /\ conn' = [conn EXCEPT ![w][s] = "closed"]
    BY Zenon, <1>1, <1>2, Parts DEF ConnState
  <2>2. QED
    BY ZenonT(60), <2>1, ConnChange
<1>5. /\ DOMAIN widCliMap' = Servers
      /\ \A r \in Servers \ {w} : widCliMap'[r] = widCliMap[r]
      /\ DOMAIN (widCliMap'[w]) = DOMAIN widCliMap[w] \cup {wid[s]}
      /\ widCliMap'[w][wid[s]] = s
      /\ \A u \in DOMAIN widCliMap[w] \ {wid[s]} : widCliMap'[w][u] = widCliMap[w][u]
  <2>1. Types /\ w \in Servers /\ UpdateWidMap(w, wid[s], s)
    BY Zenon, <1>1, <1>2, Parts
  <2>2. QED
    BY <2>1, MapChange, Zenon
<1>6. M' = M /\ N' = N
  BY Zenon, <1>1, <1>2, <1>5, ServersAre DEF M, N
<1>7. \A x \in Joining : conn'[x][Master] = conn[x][Master]
  BY Zenon, <1>2, <1>4, ServersAre
<1>8. Types'
  BY ZenonT(60), <1>1, <1>3, <1>4, <1>5, <1>6, Parts DEF Types
<1>9. InOrder'
  BY Zenon, <1>1, <1>6, Parts DEF InOrder
<1>10. Served'
  BY <1>1, <1>6, <1>7, Parts DEF Served, InOrder
<1>11. Phases'
  BY <1>1, <1>6, <1>7, Parts DEF Phases, Unnamed, Unlisted
<1>12. Ascending'
  <2> SUFFICES ASSUME NEW x \in Joining PROVE AscendingAt(x)'
    BY Zenon DEF Ascending
  <2>1. CASE x # w
    <3>1. \A y \in Joining : conn[x][y] = "closed" => conn'[x][y] = "closed"
      BY Zenon, <1>4, ServersAre
    <3>2. QED
      BY Zenon, <1>1, <1>3, <1>6, <2>1, <3>1, Parts, AscendingKept
  <2>2. CASE x = w
    <3>1. /\ todo[w] \in Seq(Joining) /\ Len(Tail(todo[w])) = Len(todo[w]) - 1
          /\ Len(todo[w]) \in Nat \ {0} /\ wid[w] \in Nat
          /\ \A i \in 1 .. Len(Tail(todo[w])) : Tail(todo[w])[i] = todo[w][i + 1]
      BY <1>1, Parts DEF Types
    <3>2. Connected(w)' = Connected(w) + 1 /\ Connected(w) \in Nat
      BY <1>1, <1>3, <3>1, NextPeer DEF Connected
    <3>3. ~Unlisted(w) /\ ~Unlisted(w)' /\ ~Joined(w)'
      BY Zenon, <1>1 DEF Unlisted, Joined
    <3>4. ASSUME NEW v \in 1 .. Connected(w) + 1
          PROVE  conn'[w][M[v]] = "closed"
      <4>1. CASE v = Connected(w) + 1
        BY Zenon, <1>2, <1>4, <4>1
      <4>2. CASE v # Connected(w) + 1
        <5>1. v \in 1 .. Connected(w) /\ v \in 1 .. N
          <6>1. N \in Nat /\ wid[w] \in 1 .. N /\ Connected(w) + 1 \in 1 .. wid[w] - 1
            BY Zenon, <1>2, Parts DEF Types
          <6>2. QED
            BY <3>2, <4>2, <6>1
        <5>2. conn[w][M[v]] = "closed" /\ M[v] \in Joining
          BY ZenonT(60), <3>3, <5>1, Parts DEF Ascending, AscendingAt, InOrder
        <5>3. QED
          BY Zenon, <1>4, <5>2, ServersAre
      <4>3. QED
        BY Zenon, <4>1, <4>2
    <3>5. ASSUME NEW i \in 1 .. Len(Tail(todo[w]))
          PROVE  Tail(todo[w])[i] = M[Connected(w) + 1 + i]
      <4>1. i + 1 \in 1 .. Len(todo[w]) /\ Connected(w) + (i + 1) = Connected(w) + 1 + i
        BY SMTT(60), <3>1, <3>2
      <4>2. todo[w][i + 1] = M[Connected(w) + (i + 1)]
        BY Zenon, <3>3, <4>1, Parts DEF Ascending, AscendingAt
      <4>3. QED
        BY Zenon, <3>1, <4>1, <4>2
    <3>6. QED
      <4>1. /\ ~(Unlisted(w)' \/ Joined(w)') /\ Connected(w)' >= 0
            /\ \A v \in 1 .. Connected(w)' : conn'[w][M'[v]] = "closed"
        BY <1>6, <3>2, <3>3, <3>4
      <4>2. \A i \in 1 .. Len(todo'[w]) : todo'[w][i] = M'[Connected(w)' + i]
        BY ZenonT(60), <1>3, <1>6, <3>2, <3>5
      <4>3. QED
        BY Zenon, <2>2, <4>1, <4>2 DEF AscendingAt
  <2>3. QED
    BY Zenon, <2>1, <2>2
<1>13. Downward'
  BY ZenonT(60), <1>1, <1>4, Parts, ServersAre DEF Downward, Unlisted
<1>14. Mapped'
  <2> SUFFICES ASSUME NEW x \in Joining, NEW u \in Joining
               PROVE  /\ conn'[x][u] \in {"answered", "closed"} =>
                           wid[x] \in DOMAIN (widCliMap'[u]) /\ widCliMap'[u][wid[x]] = x
                      /\ conn'[x][u] = "closed" =>
                           wid[u] \in DOMAIN (widCliMap'[x]) /\ widCliMap'[x][wid[u]] = u
    BY Zenon, <1>1 DEF Mapped
  <2>1. wid[s] # 0 /\ \A y \in Joining : wid[y] = wid[s] => y = s
    BY <1>2, Parts, IdsDiffer
  <2>2. \A y \in Joining \ {s} : \A r \in Joining :
          wid[y] \in DOMAIN widCliMap[r] /\ widCliMap[r][wid[y]] = y =>
            wid[y] \in DOMAIN (widCliMap'[r]) /\ widCliMap'[r][wid[y]] = y
    BY Zenon, <1>5, <2>1, ServersAre
  <2>3. \A r \in Joining : wid[s] \in DOMAIN widCliMap[r] /\ widCliMap[r][wid[s]] = s =>
                             wid[s] \in DOMAIN (widCliMap'[r]) /\ widCliMap'[r][wid[s]] = s
    BY Zenon, <1>5, ServersAre
  <2>4. CASE x = w /\ u = s
    <3>1. wid[w] \in DOMAIN widCliMap[s] /\ widCliMap[s][wid[w]] = w
      BY ZenonT(60), <1>1, <1>2, Parts DEF Mapped
    <3>2. QED
      BY Zenon, <1>2, <1>5, <2>4, <3>1, ServersAre
  <2>5. CASE ~(x = w /\ u = s)
    <3>1. conn'[x][u] = conn[x][u]
      BY Zenon, <1>4, <2>5, ServersAre
    <3>2. QED
      BY <2>2, <2>3, <3>1, Parts DEF Mapped
  <2>6. QED
    BY Zenon, <2>4, <2>5
<1>15. OwnId'
  <2>1. wid[s] \in 1 .. N
    BY <1>2, Parts DEF Types
  <2>2. QED
    BY ZenonT(60), <1>1, <1>5, <1>6, <2>1, Parts, ServersAre DEF OwnId
<1>16. FromJoined'
  BY Zenon, <1>1, <1>6, Parts DEF FromJoined, Joined
<1>17. Delivered'
  BY Zenon, <1>1, Parts DEF Delivered
<1>18. QED
  BY ZenonT(60), <1>8, <1>9, <1>10, <1>11, <1>12, <1>13, <1>14, <1>15, <1>16, <1>17 DEF JoinInv

\* The constructor goes on after the last connection: an update or a request for
\* statistics is sent, or a thread is started.
LEMMA AdvanceStep ==
  ASSUME JoinInv, NEW w \in Joining, ~Unlisted(w), todo[w] = <<>>,
         NEW label \in {"fetch", "threads", "accepting", "serving"},
         pc' = [pc EXCEPT ![w] = label],
         toMaster' \in [Joining -> Seq({"UPDATE", "FETCH"})],
         \A x \in Joining \ {w} : toMaster'[x] = toMaster[x],
         UNCHANGED <<todo, wid, conn, backlog, widCliMap, rdma_context_counter, worker_ips,
                     serving, toWorker, unsynced_workers, widCliMapWorker>>
  PROVE  JoinInv'
<1>1. \A x \in Joining : pc'[x] = IF x = w THEN label ELSE pc[x]
  BY Zenon, Parts DEF Types
<1>2. M' = M /\ N' = N
  BY Zenon DEF M, N
<1>3. ~Unnamed(w) /\ Joined(w)' /\ ~Unlisted(w)' /\ ~Unnamed(w)' /\ pc'[w] # "crashed"
  BY Zenon, <1>1 DEF Unlisted, Unnamed, Joined
<1>4. \A x \in Joining \ {w} : /\ Unlisted(x)' = Unlisted(x) /\ Unnamed(x)' = Unnamed(x)
                              /\ Joined(x)' = Joined(x) /\ pc'[x] = pc[x]
  BY Zenon, <1>1 DEF Unlisted, Unnamed, Joined
<1>5. Types'
  <2>1. pc' \in [Joining -> Labels]
    BY Zenon, Parts DEF Types, Labels
  <2>2. QED
    BY Zenon, <1>2, <2>1, Parts DEF Types
<1>6. InOrder'
  BY Zenon, <1>2, Parts DEF InOrder
<1>7. Served'
  BY ZenonT(60), <1>2, Parts DEF Served
<1>8. Phases'
  BY <1>1, <1>2, Parts DEF Phases, Unnamed, Unlisted
<1>9. Ascending'
  <2> SUFFICES ASSUME NEW x \in Joining PROVE AscendingAt(x)'
    BY Zenon DEF Ascending
  <2>1. CASE x # w
    BY Zenon, <1>2, <1>4, <2>1, Parts, AscendingKept
  <2>2. CASE x = w
    BY ZenonT(60), <1>2, <1>3, <2>2, Parts DEF Ascending, AscendingAt, Connected
  <2>3. QED
    BY Zenon, <2>1, <2>2
<1>10. Downward'
  BY Zenon, <1>3, <1>4, Parts DEF Downward
<1>11. Mapped' /\ OwnId' /\ Delivered'
  BY SMTT(60), <1>2, Parts DEF Mapped, OwnId, Delivered
<1>12. FromJoined'
  BY Zenon, <1>2, <1>3, <1>4, Parts DEF FromJoined, InOrder
<1>13. QED
  BY ZenonT(60), <1>5, <1>6, <1>7, <1>8, <1>9, <1>10, <1>11, <1>12 DEF JoinInv

\* A worker sends its statistics when it has connected to every earlier one.
LEMMA UpdateStep ==
  ASSUME JoinInv, NEW w \in Joining, Update(w)
  PROVE  JoinInv'
<1>1. /\ todo[w] = <<>> /\ pc[w] = "peers" /\ pc' = [pc EXCEPT ![w] = "fetch"]
      /\ toMaster' = IF w \in CacheOnly THEN toMaster
                     ELSE [toMaster EXCEPT ![w] = Append(@, "UPDATE")]
      /\ UNCHANGED <<todo, wid, conn, backlog, widCliMap, rdma_context_counter, worker_ips,
                     serving, toWorker, unsynced_workers, widCliMapWorker>>
  BY Zenon DEF Update, SyncMaster, Goto, masterVars
<1>2. /\ toMaster' \in [Joining -> Seq({"UPDATE", "FETCH"})]
      /\ \A x \in Joining \ {w} : toMaster'[x] = toMaster[x]
  BY <1>1, Parts DEF Types
<1>3. ~Unlisted(w)
  BY Zenon, <1>1 DEF Unlisted
<1>4. QED
  BY ZenonT(60), <1>1, <1>2, <1>3, AdvanceStep

\* The request for the statistics of the others.
LEMMA FetchStep ==
  ASSUME JoinInv, NEW w \in Joining, Fetch(w)
  PROVE  JoinInv'
<1>1. /\ pc[w] = "fetch" /\ pc' = [pc EXCEPT ![w] = "threads"]
      /\ toMaster' = [toMaster EXCEPT ![w] = Append(@, "FETCH")]
      /\ UNCHANGED <<todo, wid, conn, backlog, widCliMap, rdma_context_counter, worker_ips,
                     serving, toWorker, unsynced_workers, widCliMapWorker>>
  BY Zenon DEF Fetch, SyncMaster, Goto, masterVars
<1>2. /\ toMaster' \in [Joining -> Seq({"UPDATE", "FETCH"})]
      /\ \A x \in Joining \ {w} : toMaster'[x] = toMaster[x]
  BY <1>1, Parts DEF Types
<1>3. ~Unlisted(w) /\ Joined(w)
  BY Zenon, <1>1 DEF Unlisted, Joined
<1>4. todo[w] = <<>>
  BY Zenon, <1>3, Parts DEF Ascending, AscendingAt
<1>5. QED
  BY ZenonT(60), <1>1, <1>2, <1>3, <1>4, AdvanceStep

\* The threads of the worker start: it has joined before.
LEMMA StartThreadStep ==
  ASSUME JoinInv, NEW w \in Joining, StartThread(w)
  PROVE  JoinInv'
<1>1. PICK label \in {"accepting", "serving"} :
        pc[w] \in {"threads", "accepting"} /\ pc' = [pc EXCEPT ![w] = label]
  BY Zenon DEF StartThread, Goto
<1>2. UNCHANGED <<todo, wid, conn, backlog, widCliMap, rdma_context_counter, worker_ips,
                  serving, toMaster, toWorker, unsynced_workers, widCliMapWorker>>
  BY Zenon DEF StartThread, masterVars, rdmaVars
<1>3. ~Unlisted(w) /\ Joined(w)
  BY Zenon, <1>1 DEF Unlisted, Joined
<1>4. todo[w] = <<>>
  BY Zenon, <1>3, Parts DEF Ascending, AscendingAt
<1>5. /\ toMaster' \in [Joining -> Seq({"UPDATE", "FETCH"})]
      /\ \A x \in Joining \ {w} : toMaster'[x] = toMaster[x]
  BY Zenon, <1>2, Parts DEF Types
<1>6. QED
  BY ZenonT(60), <1>1, <1>2, <1>3, <1>4, <1>5, AdvanceStep

\* The master reads the address of the worker it serves.
LEMMA PostAcceptWorkerStep ==
  ASSUME JoinInv, PostAcceptWorker
  PROVE  JoinInv'
<1> DEFINE w == serving
<1>1. /\ serving # Nobody /\ conn[w][Master] = "address"
      /\ worker_ips' = Append(worker_ips, w)
      /\ conn' = [conn EXCEPT ![w][Master] = "closed"]
      /\ serving' = Nobody
      /\ UNCHANGED <<pc, todo, wid, backlog, widCliMap, rdma_context_counter,
                     toMaster, toWorker, unsynced_workers, widCliMapWorker>>
  BY Zenon DEF PostAcceptWorker, rdmaVars
<1>2. w \in Joining /\ w # Master
  BY Zenon, <1>1, Parts, ServersAre DEF Types
<1>3. /\ conn' \in [Joining -> [Servers -> ConnState]]
      /\ \A x \in Joining, y \in Servers :
           conn'[x][y] = IF x = w /\ y = Master THEN "closed" ELSE conn[x][y]
  <2>1. Types /\ "closed" \in ConnState /\ Master \in Servers
        /\ conn' = [conn EXCEPT ![w][Master] = "closed"]
    BY Zenon, <1>1, Parts, ServersAre DEF ConnState
  <2> HIDE DEF w
  <2>2. QED
    BY ZenonT(60), <1>2, <2>1, ConnChange
<1>4. M' = M /\ N' = N
  BY Zenon, <1>1 DEF M, N
<1>5. /\ N \in Nat /\ N = Len(worker_ips) + 1 /\ M[N] = w /\ worker_ips \in Seq(Joining)
      /\ N \in 1 .. N
  BY SMTT(60), <1>1, <1>2, Parts, ServedIsLast DEF Types
<1>6. Types'
  <2>1. worker_ips' \in Seq(Joining) /\ serving' \in Servers
    BY <1>1, <1>2, <1>5, ServersAre
  <2>2. QED
    BY ZenonT(60), <1>1, <1>3, <1>4, <2>1, Parts DEF Types
<1>7. InOrder'
  <2>1. Len(worker_ips') = N /\ \A i \in 1 .. N : worker_ips'[i] = M[i]
    BY <1>1, <1>2, <1>5, Parts DEF InOrder
  <2>2. QED
    BY <1>1, <1>4, <1>5, <2>1, Parts DEF InOrder
<1>8. Served'
  <2>1. \A x \in Joining : conn'[x][Master] = IF x = w THEN "closed" ELSE conn[x][Master]
    BY Zenon, <1>3, ServersAre
  <2>2. QED
    BY <1>1, <1>2, <1>4, <2>1, Parts, ServersAre DEF Served, InOrder
<1>9. Phases'
  BY <1>1, <1>2, <1>3, <1>4, Parts, ServersAre DEF Phases, Unnamed, Unlisted
<1>10. Ascending'
  <2> SUFFICES ASSUME NEW x \in Joining PROVE AscendingAt(x)'
    BY Zenon DEF Ascending
  <2>1. \A y \in Joining : conn'[x][y] = conn[x][y]
    BY ZenonT(60), <1>3, ServersAre
  <2>2. QED
    BY Zenon, <1>1, <1>4, <2>1, Parts, AscendingKept
<1>11. Downward' /\ Mapped'
  <2>1. \A x, y \in Joining : conn'[x][y] = conn[x][y]
    BY Zenon, <1>3, ServersAre
  <2>2. QED
    BY <1>1, <2>1, Parts DEF Downward, Mapped, Unlisted
<1>12. OwnId' /\ FromJoined' /\ Delivered'
  BY Zenon, <1>1, <1>4, Parts DEF OwnId, FromJoined, Delivered, Joined
<1>13. QED
  BY ZenonT(60), <1>6, <1>7, <1>8, <1>9, <1>10, <1>11, <1>12 DEF JoinInv

\* The master takes the next connection and gives out the next id.
LEMMA AcceptAtMasterStep ==
  ASSUME JoinInv, AcceptTcpClientHandle(Master)
  PROVE  JoinInv'
<1> DEFINE w == Head(backlog[Master])
<1>1. /\ backlog[Master] # <<>> /\ serving = Nobody /\ conn[w][Master] = "written"
      /\ backlog' = [backlog EXCEPT ![Master] = Tail(@)]
      /\ conn' = [conn EXCEPT ![w][Master] = "answered"]
      /\ rdma_context_counter' = rdma_context_counter + 1
      /\ serving' = w
      /\ UpdateWidMap(Master, rdma_context_counter + 1, w)
      /\ UNCHANGED <<pc, todo, wid, worker_ips, toMaster, toWorker, unsynced_workers,
                     widCliMapWorker>>
  BY Zenon DEF AcceptTcpClientHandle, Accepts, rdmaVars
<1>2. w \in Joining /\ w # Master /\ backlog' \in [Servers -> Seq(Joining)]
  BY SMTT(60), <1>1, Parts, ServersAre DEF Types
<1> HIDE DEF w
<1>3. /\ conn' \in [Joining -> [Servers -> ConnState]]
      /\ \A x \in Joining, y \in Servers :
           conn'[x][y] = IF x = w /\ y = Master THEN "answered" ELSE conn[x][y]
  <2>1. Types /\ "answered" \in ConnState /\ Master \in Servers
        /\ conn' = [conn EXCEPT ![w][Master] = "answered"]
    BY Zenon, <1>1, Parts, ServersAre DEF ConnState
  <2>2. QED
    BY ZenonT(60), <1>2, <2>1, ConnChange
<1>4. N \in Nat /\ N' = N + 1 /\ DOMAIN M = 1 .. N
  BY Zenon, <1>1, Parts DEF N, Types, InOrder
<1>5. /\ DOMAIN widCliMap' = Servers
      /\ \A r \in Joining : widCliMap'[r] = widCliMap[r]
      /\ DOMAIN M' = 1 .. N + 1 /\ M'[N + 1] = w /\ \A v \in 1 .. N : M'[v] = M[v]
  <2>1. Types /\ Master \in Servers /\ UpdateWidMap(Master, N + 1, w)
    BY Zenon, <1>1, Parts, ServersAre DEF N
  <2>2. /\ DOMAIN widCliMap' = Servers
        /\ \A r \in Servers \ {Master} : widCliMap'[r] = widCliMap[r]
        /\ DOMAIN (widCliMap'[Master]) = DOMAIN widCliMap[Master] \cup {N + 1}
        /\ widCliMap'[Master][N + 1] = w
        /\ \A u \in DOMAIN widCliMap[Master] \ {N + 1} :
             widCliMap'[Master][u] = widCliMap[Master][u]
    BY <2>1, MapChange, Zenon
  <2>3. DOMAIN M' = 1 .. N + 1 /\ M'[N + 1] = w /\ \A v \in 1 .. N : M'[v] = M[v]
    BY <1>4, <2>2 DEF M
  <2>4. QED
    BY Zenon, <2>2, <2>3, ServersAre
<1>6. \A v \in 1 .. N : M[v] # w
  BY Zenon, <1>1, Parts DEF Served
<1>7. \A x \in Joining : conn'[x][Master] = IF x = w THEN "answered" ELSE conn[x][Master]
  BY Zenon, <1>3, ServersAre
<1>8. \A x, y \in Joining : conn'[x][y] = conn[x][y]
  BY Zenon, <1>3, ServersAre
<1>9. Types'
  <2>1. serving' \in Servers /\ N' \in Nat
    BY <1>1, <1>2, <1>4, ServersAre
  <2>2. QED
    BY ZenonT(60), <1>1, <1>2, <1>3, <1>5, <2>1, Parts DEF Types
<1>10. InOrder'
  <2>1. \A v \in 1 .. N + 1 : M'[v] \in Joining
    BY <1>2, <1>4, <1>5, Parts DEF InOrder
  <2>2. \A u, v \in 1 .. N + 1 : M'[u] = M'[v] => u = v
    BY SMTT(60), <1>4, <1>5, <1>6, Parts DEF InOrder
  <2>3. N = Len(worker_ips) /\ \A i \in 1 .. Len(worker_ips) : worker_ips[i] = M'[i]
    BY <1>1, <1>4, <1>5, Parts DEF InOrder, Types
  <2>4. serving' # Nobody /\ M'[N'] = serving'
    BY ZenonT(60), <1>1, <1>2, <1>4, <1>5, ServersAre
  <2>5. QED
    BY ZenonT(60), <1>1, <1>4, <1>5, <2>1, <2>2, <2>3, <2>4 DEF InOrder
<1>11. Served'
  <2>1. \A v \in 1 .. N + 1 : conn'[M'[v]][Master] \in {"answered", "address", "closed"}
    BY SMTT(60), <1>2, <1>4, <1>5, <1>7, Parts DEF Served, InOrder
  <2>2. QED
    BY ZenonT(60), <1>1, <1>2, <1>4, <1>7, <2>1, Parts, ServersAre DEF Served
<1>12. Phases'
  <2>1. pc[w] = "exchange"
    BY ZenonT(60), <1>1, <1>2, Parts DEF Phases, Unlisted, Types, Labels
  <2>2. \A v \in 1 .. N : v \in 1 .. N'
    BY <1>4
  <2>3. QED
    BY <1>1, <1>5, <1>7, <2>1, <2>2, Parts DEF Phases, Unnamed, Unlisted
<1>13. Ascending'
  <2> SUFFICES ASSUME NEW x \in Joining PROVE AscendingAt(x)'
    BY Zenon DEF Ascending
  <2>1. QED
    BY ZenonT(60), <1>1, <1>5, <1>8, Parts, AscendingKept
<1>14. Downward' /\ Mapped'
  BY <1>1, <1>5, <1>8, Parts DEF Downward, Mapped, Unlisted
<1>15. OwnId'
  BY <1>1, <1>4, <1>5, Parts DEF OwnId
<1>16. FromJoined'
  <2>1. \A v \in 1 .. N : v \in 1 .. N'
    BY <1>4
  <2>2. QED
    BY Zenon, <1>1, <1>5, <2>1, Parts DEF FromJoined, Joined
<1>17. Delivered'
  BY Zenon, <1>1, Parts DEF Delivered
<1>18. QED
  BY ZenonT(60), <1>9, <1>10, <1>11, <1>12, <1>13, <1>14, <1>15, <1>16, <1>17 DEF JoinInv

\* A worker takes the next connection, from a later one.
LEMMA AcceptAtWorkerStep ==
  ASSUME JoinInv, NEW s \in Joining, AcceptTcpClientHandle(s)
  PROVE  JoinInv'
<1> DEFINE w == Head(backlog[s])
<1>0. s \in Servers /\ s # Master
  BY Zenon, ServersAre
<1>1. /\ backlog[s] # <<>> /\ conn[w][s] = "written"
      /\ backlog' = [backlog EXCEPT ![s] = Tail(@)]
      /\ conn' = [conn EXCEPT ![w][s] = "answered"]
      /\ UpdateWidMap(s, wid[w], w)
      /\ UNCHANGED <<pc, todo, wid, rdma_context_counter, worker_ips, serving,
                     toMaster, toWorker, unsynced_workers, widCliMapWorker>>
  BY Zenon, <1>0 DEF AcceptTcpClientHandle, GetConnString, rdmaVars
<1>2. w \in Joining /\ backlog' \in [Servers -> Seq(Joining)]
  BY SMTT(60), <1>0, <1>1, Parts DEF Types
<1> HIDE DEF w
<1>3. ~Unlisted(w) /\ wid[s] \in 1 .. wid[w] - 1
  BY Zenon, <1>1, <1>2, Parts DEF Downward
<1>4. wid[w] \in 1 .. N /\ N \in Nat
  BY Zenon, <1>2, <1>3, Parts DEF Phases, Unlisted, Unnamed, Types
<1>5. /\ conn' \in [Joining -> [Servers -> ConnState]]
      /\ \A x \in Joining, y \in Servers :
           conn'[x][y] = IF x = w /\ y = s THEN "answered" ELSE conn[x][y]
  <2>1. Types /\ "answered" \in ConnState /\ conn' = [conn EXCEPT ![w][s] = "answered"]
    BY Zenon, <1>1, Parts DEF ConnState
  <2>2. QED
    BY ZenonT(60), <1>0, <1>2, <2>1, ConnChange
<1>6. /\ DOMAIN widCliMap' = Servers
      /\ \A r \in Servers \ {s} : widCliMap'[r] = widCliMap[r]
      /\ DOMAIN (widCliMap'[s]) = DOMAIN widCliMap[s] \cup {wid[w]}
      /\ widCliMap'[s][wid[w]] = w
      /\ \A u \in DOMAIN widCliMap[s] \ {wid[w]} : widCliMap'[s][u] = widCliMap[s][u]
  <2>1. Types /\ UpdateWidMap(s, wid[w], w)
    BY Zenon, <1>1, Parts
  <2>2. QED
    BY <1>0, <2>1, MapChange, Zenon
<1>7. M' = M /\ N' = N
  BY Zenon, <1>0, <1>1, <1>6, ServersAre DEF M, N
<1>8. \A x \in Joining : conn'[x][Master] = conn[x][Master]
  BY Zenon, <1>0, <1>5, ServersAre
<1>9. Types'
  BY ZenonT(60), <1>1, <1>2, <1>5, <1>6, <1>7, Parts DEF Types
<1>10. InOrder'
  BY ZenonT(60), <1>1, <1>7, Parts DEF InOrder
<1>11. Served'
  BY SMTT(60), <1>1, <1>7, <1>8, Parts DEF Served, InOrder
<1>12. Phases'
  BY <1>1, <1>7, <1>8, Parts DEF Phases, Unnamed, Unlisted
<1>13. Ascending'
  <2> SUFFICES ASSUME NEW x \in Joining PROVE AscendingAt(x)'
    BY Zenon DEF Ascending
  <2>1. \A y \in Joining : conn[x][y] = "closed" => conn'[x][y] = "closed"
    BY Zenon, <1>1, <1>5, ServersAre
  <2>2. QED
    BY Zenon, <1>1, <1>7, <2>1, Parts, AscendingKept
<1>14. Downward'
  BY ZenonT(60), <1>1, <1>3, <1>5, Parts, ServersAre DEF Downward, Unlisted
<1>15. Mapped'
  <2> SUFFICES ASSUME NEW x \in Joining, NEW u \in Joining
               PROVE  /\ conn'[x][u] \in {"answered", "closed"} =>
                           wid[x] \in DOMAIN (widCliMap'[u]) /\ widCliMap'[u][wid[x]] = x
                      /\ conn'[x][u] = "closed" =>
                           wid[u] \in DOMAIN (widCliMap'[x]) /\ widCliMap'[x][wid[u]] = u
    BY Zenon, <1>1 DEF Mapped
  <2>1. wid[w] # 0 /\ \A y \in Joining : wid[y] = wid[w] => y = w
    BY SMTT(60), <1>2, <1>4, Parts, IdsDiffer
  <2>2. \A y, r \in Joining :
          wid[y] \in DOMAIN widCliMap[r] /\ widCliMap[r][wid[y]] = y =>
            wid[y] \in DOMAIN (widCliMap'[r]) /\ widCliMap'[r][wid[y]] = y
    BY Zenon, <1>6, <2>1, ServersAre
  <2>3. CASE x = w /\ u = s
    BY ZenonT(60), <1>5, <1>6, <2>3, ServersAre
  <2>4. CASE ~(x = w /\ u = s)
    <3>1. conn'[x][u] = conn[x][u]
      BY Zenon, <1>5, <2>4, ServersAre
    <3>2. QED
      BY <2>2, <3>1, Parts DEF Mapped
  <2>5. QED
    BY Zenon, <2>3, <2>4
<1>16. OwnId'
  BY Zenon, <1>1, <1>4, <1>6, <1>7, Parts, ServersAre DEF OwnId
<1>17. FromJoined'
  BY Zenon, <1>1, <1>7, Parts DEF FromJoined, Joined
<1>18. Delivered'
  BY Zenon, <1>1, Parts DEF Delivered
<1>19. QED
  BY ZenonT(60), <1>9, <1>10, <1>11, <1>12, <1>13, <1>14, <1>15, <1>16, <1>17, <1>18 DEF JoinInv

\* The master takes an update and broadcasts it.
LEMMA UpdateMemStatsStep ==
  ASSUME JoinInv, unsynced_th = 1, NEW w \in Joining, ProcessStatsRequest(w),
         Head(toMaster[w]) = "UPDATE"
  PROVE  JoinInv'
<1> DEFINE msg == Stats(FALSE, <<wid[w]>>)
           InM(c) == \E v \in DOMAIN M : M[v] = c
<1>1. /\ toMaster[w] # <<>> /\ serving = Nobody
      /\ toMaster' = [toMaster EXCEPT ![w] = Tail(@)]
      /\ UpdateMemStats(w)
      /\ UNCHANGED <<pc, todo, wid, conn, backlog, widCliMap, rdma_context_counter,
                     worker_ips, serving>>
  BY Zenon DEF ProcessStatsRequest, Accepts, masterVars
<1>2. /\ unsynced_workers' = <<>>
      /\ widCliMapWorker' = [widCliMapWorker EXCEPT ![Master] = @ \cup {wid[w]}]
      /\ toWorker' = [c \in Joining |-> IF InM(c) THEN Append(toWorker[c], msg) ELSE toWorker[c]]
  <2>1. Append(unsynced_workers, wid[w]) = <<wid[w]>> /\ Len(<<wid[w]>>) = unsynced_th
    BY SMTT(60), Parts DEF Types
  <2>2. QED
    BY Zenon, <1>1, <2>1 DEF UpdateMemStats, M
<1>3. M' = M /\ N' = N /\ N \in Nat /\ DOMAIN M = 1 .. N
  BY Zenon, <1>1, Parts DEF M, N, Types, InOrder
<1>4. Joined(w) /\ ~Unnamed(w) /\ wid[w] \in 1 .. N /\ M[wid[w]] = w
  BY Zenon, <1>1, Parts DEF FromJoined, Joined, Unnamed, Phases
<1>5. msg \in Statistics /\ Sound(msg, {wid[w]})
  <2>1. wid[w] \in Nat
    BY <1>3, <1>4
  <2>2. QED
    BY <2>1, AdjacentIs, Zenon
<1> HIDE DEF msg
<1>6. /\ widCliMapWorker' \in [Servers -> SUBSET Nat]
      /\ widCliMapWorker'[Master] = widCliMapWorker[Master] \cup {wid[w]}
      /\ \A s \in Servers : s # Master => widCliMapWorker'[s] = widCliMapWorker[s]
  <2>1. widCliMapWorker \in [Servers -> SUBSET Nat] /\ wid[w] \in Nat /\ Master \in Servers
    BY Zenon, <1>3, <1>4, Parts, ServersAre DEF Types
  <2>2. QED
    BY Zenon, <1>2, <2>1
<1>7. /\ toMaster' \in [Joining -> Seq({"UPDATE", "FETCH"})]
      /\ \A x \in Joining : x # w => toMaster'[x] = toMaster[x]
  BY SMTT(60), <1>1, Parts DEF Types
<1>8. /\ toWorker' \in [Joining -> Seq(Statistics)]
      /\ \A c \in Joining : toWorker'[c] = IF InM(c) THEN Append(toWorker[c], msg) ELSE toWorker[c]
  BY SMTT(60), <1>2, <1>5, Parts DEF Types
<1>9. Types'
  BY ZenonT(60), <1>1, <1>2, <1>3, <1>6, <1>7, <1>8, Parts DEF Types
<1>10. InOrder' /\ Served' /\ Phases' /\ Downward' /\ Mapped' /\ OwnId' /\ Ascending'
  BY Zenon, <1>1, JoiningKept
<1>11. FromJoined'
  <2>1. \A x \in Joining : Joined(x)' = Joined(x)
    BY Zenon, <1>1 DEF Joined
  <2>2. QED
    <3>1. \A x \in Joining : toMaster'[x] # <<>> => Joined(x)'
      BY Zenon, <1>4, <1>7, <2>1, Parts DEF FromJoined
    <3>2. \A v \in widCliMapWorker'[Master] : v \in 1 .. N /\ Joined(M[v])'
      <4> SUFFICES ASSUME NEW v \in widCliMapWorker'[Master]
                   PROVE  v \in 1 .. N /\ Joined(M[v])'
        BY Zenon
      <4>1. v \in 1 .. N /\ Joined(M[v])
        BY Zenon, <1>4, <1>6, Parts DEF FromJoined
      <4>2. QED
        BY Zenon, <1>1, <1>3, <4>1 DEF Joined
    <3>3. \A s \in Servers : widCliMapWorker'[s] \subseteq 1 .. N
      BY ZenonT(60), <1>4, <1>6, Parts, ServersAre DEF FromJoined
    <3>4. QED
      BY Zenon, <1>3, <3>1, <3>2, <3>3 DEF FromJoined
<1>12. Delivered'
  <2> SUFFICES ASSUME NEW c \in Joining
               PROVE  /\ toWorker'[c] # <<>> => wid[c] # 0
                      /\ \A i \in DOMAIN (toWorker'[c]) :
                           Sound(toWorker'[c][i], widCliMapWorker'[Master])
    BY Zenon, <1>1 DEF Delivered
  <2>1. toWorker[c] \in Seq(Statistics)
    BY Zenon, Parts DEF Types
  <2>2. \A i \in DOMAIN toWorker[c] : Sound(toWorker[c][i], widCliMapWorker'[Master])
    BY Zenon, <1>6, Parts, SoundGrows DEF Delivered
  <2>3. Sound(msg, widCliMapWorker'[Master])
    BY Zenon, <1>5, <1>6, SoundGrows
  <2>4. CASE ~InM(c)
    <3>1. toWorker'[c] = toWorker[c]
      BY Zenon, <1>8, <2>4
    <3>2. QED
      BY Zenon, <2>2, <3>1, Parts DEF Delivered
  <2>5. CASE InM(c)
    <3>1. wid[c] # 0
      <4>1. PICK v \in 1 .. N : M[v] = c
        BY Zenon, <1>3, <2>5
      <4>2. wid[M[v]] = v
        BY Zenon, <1>1, Parts, Named
      <4>3. QED
        BY <1>3, <4>1, <4>2
    <3>2. toWorker'[c] = Append(toWorker[c], msg)
      BY ZenonT(60), <1>8, <2>5
    <3>3. \A i \in DOMAIN (toWorker'[c]) :
            toWorker'[c][i] = msg \/ (i \in DOMAIN toWorker[c] /\ toWorker'[c][i] = toWorker[c][i])
      BY <1>5, <2>1, <3>2, AppendIs
    <3>4. QED
      BY Zenon, <2>2, <2>3, <3>1, <3>3
  <2>6. QED
    BY Zenon, <2>4, <2>5
<1>13. QED
  BY Zenon, <1>9, <1>10, <1>11, <1>12 DEF JoinInv

\* The master answers with the statistics of all that have sent an update.
LEMMA FetchMemStatsStep ==
  ASSUME JoinInv, NEW w \in Joining, ProcessStatsRequest(w), Head(toMaster[w]) # "UPDATE"
  PROVE  JoinInv'
<1> DEFINE S == widCliMapWorker[Master]
           answers == IF S = {} THEN Leftover ELSE {Stats(TRUE, MapOrder(S))}
<1>1. PICK msg \in answers :
      /\ toMaster[w] # <<>> /\ serving = Nobody
      /\ toMaster' = [toMaster EXCEPT ![w] = Tail(@)]
      /\ toWorker' = [toWorker EXCEPT ![w] = Append(@, msg)]
      /\ UNCHANGED <<pc, todo, wid, conn, backlog, widCliMap, rdma_context_counter,
                     worker_ips, serving, unsynced_workers, widCliMapWorker>>
  BY ZenonT(60) DEF ProcessStatsRequest, Accepts, masterVars, FetchMemStats
<1>2. M' = M /\ N' = N /\ N \in Nat
  BY ZenonT(60), <1>1, Parts DEF M, N, Types
<1>3. Joined(w) /\ ~Unnamed(w) /\ wid[w] # 0
  BY <1>1, Parts DEF FromJoined, Joined, Unnamed, Phases
<1>4. msg \in Statistics /\ Sound(msg, S)
  <2>1. S \subseteq 1 .. N /\ S \subseteq Nat
    BY Zenon, Parts, ServersAre DEF FromJoined, Types
  <2>2. IsFiniteSet(S)
    <3>1. IsFiniteSet(1 .. N)
      BY <1>2, FS_Interval
    <3>2. QED
      BY ZenonT(60), <2>1, <3>1, FS_Subset
  <2>3. PICK n \in Nat : MapOrder(S) \in [1 .. n -> S]
    BY Zenon, <2>2, MapOrderIs
  <2>4. MapOrder(S) \in [1 .. n -> Nat] /\ {MapOrder(S)[i] : i \in 1 .. n} \subseteq S
    BY Zenon, <2>1, <2>3
  <2>5. CASE S # {}
    <3>1. msg = Stats(TRUE, MapOrder(S))
      BY Zenon, <2>5
    <3>2. msg \in Statistics /\ Sound(msg, {MapOrder(S)[i] : i \in 1 .. n})
      BY <2>4, <3>1, SeparatedIs, Zenon
    <3>3. QED
      BY <2>4, <3>2, SoundGrows, Zenon
  <2>6. CASE S = {}
    <3>1. msg \in Leftover
      BY Zenon, <2>6
    <3>2. QED
      BY Zenon, <3>1, LeftoverIs
  <2>7. QED
    BY Zenon, <2>5, <2>6
<1> HIDE DEF answers
<1>5. /\ toMaster' \in [Joining -> Seq({"UPDATE", "FETCH"})]
      /\ \A x \in Joining : x # w => toMaster'[x] = toMaster[x]
  BY <1>1, Parts DEF Types
<1>6. /\ toWorker' \in [Joining -> Seq(Statistics)]
      /\ toWorker'[w] = Append(toWorker[w], msg)
      /\ \A x \in Joining : x # w => toWorker'[x] = toWorker[x]
  BY <1>1, <1>4, Parts DEF Types
<1>7. Types'
  BY Zenon, <1>1, <1>2, <1>5, <1>6, Parts DEF Types
<1>8. InOrder' /\ Served' /\ Phases' /\ Downward' /\ Mapped' /\ OwnId' /\ Ascending'
  BY Zenon, <1>1, JoiningKept
<1>9. FromJoined'
  <2>1. \A x \in Joining : Joined(x)' = Joined(x)
    BY Zenon, <1>1 DEF Joined
  <2>2. QED
    BY Zenon, <1>1, <1>2, <1>3, <1>5, <2>1, Parts DEF FromJoined, InOrder
<1>10. Delivered'
  <2>1. toWorker[w] \in Seq(Statistics)
    BY Zenon, Parts DEF Types
  <2>2. \A i \in DOMAIN (toWorker'[w]) :
          toWorker'[w][i] = msg \/ (i \in DOMAIN toWorker[w] /\ toWorker'[w][i] = toWorker[w][i])
    BY <1>4, <1>6, <2>1, AppendIs
  <2>3. QED
    BY ZenonT(60), <1>1, <1>3, <1>4, <1>6, <2>2, Parts DEF Delivered
<1>11. QED
  BY Zenon, <1>7, <1>8, <1>9, <1>10 DEF JoinInv

\* Of two workers that have joined, the later one has connected to the earlier
\* one, and each has the other under its id.
LEMMA Paired ==
  ASSUME JoinInv, NEW w \in Joining, NEW u \in Joining, Joined(w), Joined(u), wid[w] < wid[u]
  PROVE  /\ conn[u][w] = "closed" /\ conn[w][u] = "none"
         /\ wid[u] \in DOMAIN widCliMap[w] /\ widCliMap[w][wid[u]] = u
         /\ wid[w] \in DOMAIN widCliMap[u] /\ widCliMap[u][wid[w]] = w
<1>1. ~Unlisted(u) /\ ~Unnamed(u) /\ ~Unnamed(w) /\ todo[u] = <<>>
  BY Zenon, Parts DEF Joined, Unlisted, Unnamed, Ascending, AscendingAt
<1>2. wid[w] \in 1 .. N /\ wid[u] \in 1 .. N /\ M[wid[w]] = w /\ N \in Nat
  BY Zenon, <1>1, Parts DEF Phases, Types
<1>3. wid[w] \in 1 .. Connected(u)
  BY <1>1, <1>2 DEF Connected
<1>4. conn[u][w] = "closed"
  <2>1. \A v \in 1 .. Connected(u) : conn[u][M[v]] = "closed"
    BY ZenonT(60), <1>1, Parts DEF Ascending, AscendingAt
  <2>2. QED
    BY ZenonT(60), <1>2, <1>3, <2>1
<1>5. conn[w][u] = "none"
  BY <1>2, Parts DEF Downward
<1>6. QED
  BY ZenonT(60), <1>4, <1>5, Parts DEF Mapped

\* A worker that has joined has a client for every other one that has.
LEMMA KnowsJoined ==
  ASSUME JoinInv, NEW w \in Joining, Joined(w), NEW v \in widCliMapWorker[Master]
  PROVE  v \in DOMAIN widCliMap[w]
<1>1. v \in 1 .. N /\ Joined(M[v]) /\ M[v] \in Joining /\ N \in Nat
  BY Zenon, Parts DEF FromJoined, InOrder, Types
<1>2. wid[M[v]] \in 1 .. N /\ M[wid[M[v]]] = M[v] /\ wid[w] \in 1 .. N
  BY Zenon, <1>1, Parts DEF Phases, Joined, Unnamed
<1>3. wid[M[v]] = v
  BY Zenon, <1>1, <1>2, Parts DEF InOrder
<1>4. CASE wid[w] = v
  BY SMTT(60), <1>2, <1>4, Parts DEF OwnId
<1>5. CASE wid[w] < v
  BY SMTT(60), <1>1, <1>3, <1>5, Paired
<1>6. CASE v < wid[w]
  BY <1>1, <1>3, <1>6, Paired
<1>7. QED
  BY SMTT(60), <1>1, <1>2, <1>4, <1>5, <1>6

\* The service thread takes statistics: it has a client for every worker they name.
LEMMA ProcessRemoteMemStatStep ==
  ASSUME JoinInv, NEW w \in Joining, ProcessRemoteMemStat(w)
  PROVE  JoinInv'
<1> DEFINE m == Head(toWorker[w])
           tokens == {m.stats[4 * i + 2] : i \in 0 .. m.size - 1}
           wids == {v \in DOMAIN widCliMap[w] : <<v>> \in tokens}
<1>1. /\ pc[w] = "serving" /\ toWorker[w] # <<>>
      /\ toWorker' = [toWorker EXCEPT ![w] = Tail(@)]
      /\ widCliMapWorker' = [widCliMapWorker EXCEPT ![w] = @ \cup wids]
      /\ pc' = [pc EXCEPT ![w] = IF tokens \subseteq {<<v>> : v \in wids}
                                 THEN "serving" ELSE "crashed"]
      /\ UNCHANGED <<todo, wid, conn, backlog, widCliMap, rdma_context_counter, worker_ips,
                     serving, toMaster, unsynced_workers>>
  BY ZenonT(60) DEF ProcessRemoteMemStat, Goto, masterVars
<1>2. toWorker[w] \in Seq(Statistics) /\ 1 \in DOMAIN toWorker[w] /\ m = toWorker[w][1]
  <2>1. toWorker[w] \in Seq(Statistics)
    BY Zenon, Parts DEF Types
  <2>2. QED
    BY SMTT(60), <1>1, <2>1
<1>3. Joined(w) /\ Sound(m, widCliMapWorker[Master])
  BY Zenon, <1>1, <1>2, Parts DEF Joined, Delivered
<1>4. \A v \in widCliMapWorker[Master] : v \in DOMAIN widCliMap[w]
  BY Zenon, <1>3, KnowsJoined
<1>5. tokens \subseteq {<<v>> : v \in wids}
  <2> SUFFICES ASSUME NEW i \in 0 .. m.size - 1
               PROVE  m.stats[4 * i + 2] \in {<<v>> : v \in wids}
    BY Zenon
  <2>1. PICK v \in widCliMapWorker[Master] : m.stats[4 * i + 2] = <<v>>
    BY Zenon, <1>3 DEF Sound
  <2>2. v \in wids
    BY Zenon, <1>4, <2>1
  <2>3. QED
    BY ZenonT(60), <2>1, <2>2
<1>6. wids \subseteq DOMAIN widCliMap[w]
  BY Zenon
<1> HIDE DEF m, tokens, wids
<1>7. pc' = pc
  BY Zenon, <1>1, <1>5, Parts DEF Types
<1>8. M' = M /\ N' = N /\ N \in Nat
  BY Zenon, <1>1, Parts DEF M, N, Types
<1>9. DOMAIN widCliMap[w] \subseteq 1 .. N
  BY Zenon, Parts DEF OwnId
<1>10. /\ widCliMapWorker' \in [Servers -> SUBSET Nat]
       /\ widCliMapWorker'[Master] = widCliMapWorker[Master]
       /\ \A s \in Servers : widCliMapWorker'[s] \subseteq 1 .. N
  <2>1. wids \subseteq 1 .. N /\ wids \subseteq Nat /\ w \in Servers /\ w # Master
    BY SMTT(60), <1>6, <1>8, <1>9, ServersAre
  <2>2. widCliMapWorker'[w] = widCliMapWorker[w] \cup wids
        /\ \A s \in Servers \ {w} : widCliMapWorker'[s] = widCliMapWorker[s]
    BY Zenon, <1>1, <2>1, Parts DEF Types
  <2>3. widCliMapWorker' \in [Servers -> SUBSET Nat]
    BY ZenonT(60), <1>1, <2>1, Parts DEF Types
  <2>4. QED
    BY ZenonT(60), <2>1, <2>2, <2>3, Parts, ServersAre DEF FromJoined
<1>11. /\ toWorker' \in [Joining -> Seq(Statistics)]
       /\ toWorker'[w] = Tail(toWorker[w])
       /\ \A x \in Joining : x # w => toWorker'[x] = toWorker[x]
  BY <1>1, Parts DEF Types
<1>12. Types'
  BY ZenonT(60), <1>1, <1>7, <1>8, <1>10, <1>11, Parts DEF Types
<1>13. InOrder' /\ Served' /\ Phases' /\ Downward' /\ Mapped' /\ OwnId' /\ Ascending'
  BY Zenon, <1>1, <1>7, JoiningKept
<1>14. FromJoined'
  BY ZenonT(60), <1>1, <1>7, <1>8, <1>10, Parts DEF FromJoined, Joined
<1>15. Delivered'
  <2>1. \A i \in DOMAIN (toWorker'[w]) :
          i + 1 \in DOMAIN toWorker[w] /\ toWorker'[w][i] = toWorker[w][i + 1]
    BY <1>2, <1>11
  <2>2. QED
    BY SMTT(60), <1>1, <1>10, <1>11, <2>1, Parts DEF Delivered
<1>16. QED
  BY Zenon, <1>12, <1>13, <1>14, <1>15 DEF JoinInv

-----------------------------------------------------------------------------
(* The theorem *)

\* No worker has started: nothing is connected, listed or sent.
LEMMA InitJoinInv ==
  ASSUME JoinInit
  PROVE  JoinInv
<1>1. M = Empty /\ N = 0 /\ DOMAIN M = {}
  BY Zenon, ServersAre DEF JoinInit, M, N, Empty
<1>2. Types
  BY <1>1, ServersAre DEF JoinInit, Types, Labels, ConnState
<1>3. InOrder
  BY <1>1 DEF JoinInit, InOrder
<1>4. Served
  BY SMTT(60), <1>1, ServersAre DEF JoinInit, Served
<1>5. Phases /\ Ascending
  BY Zenon, <1>1, ServersAre DEF JoinInit, Phases, Ascending, AscendingAt, Unnamed, Unlisted
<1>6. Downward /\ Mapped
  BY Zenon, ServersAre DEF JoinInit, Downward, Mapped
<1>7. OwnId
  BY Zenon, <1>1, ServersAre DEF JoinInit, OwnId, Empty
<1>8. FromJoined /\ Delivered
  BY ServersAre DEF JoinInit, FromJoined, Delivered
<1>9. QED
  BY Zenon, <1>2, <1>3, <1>4, <1>5, <1>6, <1>7, <1>8 DEF JoinInv

\* Every step, and every stutter, keeps the invariant.
LEMMA NextJoinInv ==
  ASSUME unsynced_th = 1, JoinInv, [JoinNext]_JoinVars
  PROVE  JoinInv'
<1>1. CASE UNCHANGED JoinVars
  <2>1. UNCHANGED <<pc, todo, wid, conn, backlog, widCliMap, rdma_context_counter, worker_ips,
                    serving, toMaster, toWorker, unsynced_workers, widCliMapWorker>>
    BY Zenon, <1>1 DEF JoinVars
  <2>2. /\ M' = M /\ N' = N
        /\ InOrder' /\ Served' /\ Phases' /\ Downward' /\ Mapped' /\ OwnId' /\ Ascending'
    BY Zenon, <2>1, JoiningKept
  <2>3. Types'
    BY Zenon, <2>1, <2>2, Parts DEF Types
  <2>4. FromJoined' /\ Delivered'
    BY Zenon, <2>1, <2>2, Parts DEF Joined, FromJoined, Delivered
  <2>5. QED
    BY Zenon, <2>2, <2>3, <2>4 DEF JoinInv
<1>2. ASSUME NEW w \in Joining, Constructor(w)
      PROVE  JoinInv'
  BY SMTT(60), <1>2, ConnectMasterStep, ReadMasterAnswerStep, PostConnectMasterStep, ConnectPeerStep,
     ReadPeerAnswerStep, UpdateStep, FetchStep, StartThreadStep, WriteConnStringStep, Zenon
  DEF Constructor
<1>3. ASSUME NEW w \in Joining, ProcessRemoteMemStat(w)
      PROVE  JoinInv'
  BY Zenon, <1>3, ProcessRemoteMemStatStep
<1>4. ASSUME NEW s \in Servers, AcceptTcpClientHandle(s)
      PROVE  JoinInv'
  BY Zenon, <1>4, AcceptAtMasterStep, AcceptAtWorkerStep, ServersAre
<1>5. ASSUME MasterLoop
      PROVE  JoinInv'
  BY Zenon, <1>5, PostAcceptWorkerStep, UpdateMemStatsStep, FetchMemStatsStep DEF MasterLoop
<1>6. QED
  BY Zenon, <1>1, <1>2, <1>3, <1>4, <1>5 DEF JoinNext

\* No more ids are given out than there are workers.
LEMMA IdsBounded ==
  ASSUME JoinInv
  PROVE  N <= Cardinality(Joining) /\ N \in Nat /\ Cardinality(Joining) \in Nat
<1>1. N \in Nat /\ IsFiniteSet(Joining)
  BY Zenon, Parts, MembershipAssumption DEF Types
<1>2. Cardinality(Joining) \in Nat
  BY Zenon, <1>1, FS_CardinalityType
<1> DEFINE f == [v \in 1 .. N |-> M[v]]
<1>3. f \in Injection(1 .. N, Joining)
  BY Zenon, Parts DEF InOrder, Injection, IsInjective
<1>4. Cardinality(1 .. N) <= Cardinality(Joining)
  BY Zenon, <1>1, <1>3, FS_Injection
<1>5. Cardinality(1 .. N) = N
  <2>1. Cardinality(1 .. N) = IF 1 > N THEN 0 ELSE N - 1 + 1
    BY <1>1, FS_Interval
  <2>2. QED
    BY <1>1, <2>1
<1>6. QED
  BY Zenon, <1>1, <1>2, <1>4, <1>5

\* What the invariant says of the checked property.
LEMMA InvSound ==
  ASSUME JoinInv
  PROVE  JoinSound
<1>1. JoinTypeOK
  <2>1. \A w \in Joining : wid[w] \in 0 .. N
    BY Parts DEF Types, Phases
  <2>2. /\ wid \in [Joining -> 0 .. Cardinality(Joining)]
        /\ 1 .. N \subseteq 1 .. Cardinality(Joining)
    BY SMTT(60), <2>1, IdsBounded, Parts DEF Types
  <2>3. \A s \in Servers : /\ DOMAIN widCliMap[s] \subseteq 1 .. Cardinality(Joining)
                           /\ widCliMapWorker[s] \subseteq 1 .. Cardinality(Joining)
    BY Zenon, <2>2, Parts, ServersAre DEF OwnId, FromJoined, InOrder, M
  <2>4. QED
    BY ZenonT(60), <2>2, <2>3, Parts, ServersAre DEF JoinTypeOK, Types, ConnState
<1>2. PairedOnce
  BY Zenon, Paired DEF PairedOnce
<1>3. NoNullClient
  BY Zenon, Parts DEF Phases, NoNullClient
<1>4. SentToReady /\ StatsWhole
  BY Zenon, Parts DEF SentToReady, StatsWhole, Delivered, Sound
<1>5. QED
  BY Zenon, <1>1, <1>2, <1>3, <1>4 DEF JoinSound

\* However many workers join and however their constructors, event loops and
\* service threads interleave: of two workers that have joined, the later one, and
\* only that one, has connected to the other, and each has the other under its id
\* (worker.cc:240); no statistics name a worker that the receiver has no client for
\* (remote_request.cc:92), they have four fields for each worker, and the master
\* sends them only to queue pairs that are up.  For the default of unsynced_th.
THEOREM JoinIsSound ==
  ASSUME unsynced_th = 1
  PROVE  JoinSpec => []JoinSound
<1>1. JoinInit => JoinInv
  BY Zenon, InitJoinInv
<1>2. JoinInv /\ [JoinNext]_JoinVars => JoinInv'
  BY Zenon, NextJoinInv
<1>3. JoinInv => JoinSound
  BY Zenon, InvSound
<1>4. QED
  BY <1>1, <1>2, <1>3, PTL DEF JoinSpec
=============================================================================

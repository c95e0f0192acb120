----------------------------- MODULE LruProofs ------------------------------
(***************************************************************************)
(* The LRU lists and the count of the cached memory are right whatever the *)
(* threads, the service thread and the timer do to them concurrently: for  *)
(* every set of threads, blocks and lists.                                 *)
(*                                                                         *)
(* CacheSound and EvictsOnlyQuiet are not inductive: whether a line is on  *)
(* the list that its pos names depends on who holds the mutex of the block *)
(* and on what is left to do there.  IInv adds that the holder of a mutex  *)
(* is the agent at work (Mutexes), that a line on a list is quiet or about *)
(* to be unlinked from that list (Places), the state that its agent has    *)
(* left it in (Phases), and which lines have requests (Asking).  Found,    *)
(* for Evictable, is inductive next to IInv when there are no tries.       *)
(***************************************************************************)
EXTENDS Lru, FiniteSetTheorems, TLAPS

\* What an agent does while it holds the mutex of its block.
Holding == {"unlink", "link", "release", "erase", "victim"}

\* The holder of a mutex is the agent that works on the block or the list.
Mutexes ==
  /\ \A a \in Agents : agent[a].at \in Holding => mutex[agent[a].b] = a
  /\ \A b \in Blocks : mutex[b] # Nobody =>
       agent[mutex[b]].at \in Holding /\ agent[mutex[b]].b = b
  /\ \A a \in Agents : agent[a].at = "unlink" => agent[a].i \in Lists
  /\ \A a \in Agents : agent[a].at = "tail" => lru_locks[agent[a].i] = a

\* A line that is on list i belongs there: its pos names the list, or its
\* handler goes to unlink it from there.
InPlace(b, i) ==
  \/ /\ mutex[b] = Nobody /\ pos[b] = i
     /\ state[b] \in {"SHARED", "DIRTY", "TO_INVALID"}
  \/ /\ mutex[b] # Nobody
     /\ agent[mutex[b]].at = "unlink" /\ agent[mutex[b]].i = i

\* The tail that an agent looks at stays while the agent holds the list.
Places ==
  /\ \A i \in Lists : Once(lists[i])
  /\ \A b \in Blocks, i \in Lists : Linked(b, i) => InPlace(b, i)
  /\ \A a \in Agents : agent[a].at = "tail" => Linked(agent[a].b, agent[a].i)

\* What an agent does once the line is off its list.
Goal(g) == IF g.at = "unlink" THEN g.then ELSE g.at

\* The state that the line of an agent is in.
InPhase(a) ==
  LET g == agent[a] IN
  /\ g.at \in {"unlink", "link", "release", "erase"} =>
       /\ Goal(g) = "link" => state[g.b] \in {"SHARED", "DIRTY"}
       /\ Goal(g) = "release" => state[g.b] = "TO_DIRTY"
       /\ Goal(g) = "erase" => state[g.b] # "INVALID" /\ pending[g.b] = None
       /\ g.at = "erase" => g.then = "erase"
  /\ g.at = "victim" => state[g.b] \in {"SHARED", "DIRTY"} /\ g.b \notin locked
  /\ g.at = "written" =>
       /\ a = Service /\ state[g.b] = "TO_INVALID" /\ mutex[g.b] = Nobody
       /\ pending[g.b] = None

Phases == \A a \in Agents : InPhase(a)

\* A line that is not in transition asks for nothing.
Asking ==
  \A b \in Blocks :
    /\ state[b] \in {"INVALID", "SHARED", "DIRTY"} => pending[b] = None
    /\ pending[b].op \in {"PENDING_INVALIDATE", "WRITE_BACK"} =>
         state[b] = "TO_INVALID" /\ mutex[b] = Nobody

Core == CacheTypeOK /\ Mutexes /\ Places /\ Phases /\ Asking

IInv == Core /\ UsedExact

-----------------------------------------------------------------------------
(* Lists *)

\* A list that is not empty has a tail, which is one of its blocks.
LEMMA LastListed ==
  ASSUME NEW s \in Seq(Blocks), s # <<>>
  PROVE  s[Len(s)] \in Blocks /\ Listed(s, s[Len(s)])
  <1>1. Len(s) \in 1 .. Len(s)
    OBVIOUS
  <1> QED
    BY <1>1 DEF Listed

\* What linking at the head does to a list.
LEMMA HeadListed ==
  ASSUME NEW s \in Seq(Blocks), NEW b \in Blocks
  PROVE  /\ <<b>> \o s \in Seq(Blocks)
         /\ \A x : Listed(<<b>> \o s, x) <=> x = b \/ Listed(s, x)
         /\ Once(s) /\ ~Listed(s, b) => Once(<<b>> \o s)
  <1> DEFINE t == <<b>> \o s
  <1>1. /\ t \in Seq(Blocks) /\ Len(t) = Len(s) + 1 /\ t[1] = b
        /\ \A k \in 1 .. Len(s) : t[k + 1] = s[k]
        /\ \A k \in 2 .. Len(t) : t[k] = s[k - 1] /\ k - 1 \in 1 .. Len(s)
    OBVIOUS
  <1> HIDE DEF t
  <1>2. ASSUME NEW x PROVE Listed(t, x) <=> x = b \/ Listed(s, x)
    <2>1. ASSUME Listed(t, x) PROVE x = b \/ Listed(s, x)
      <3>1. PICK k \in 1 .. Len(t) : t[k] = x
        BY Zenon, <2>1 DEF Listed
      <3>2. CASE k = 1
        BY Zenon, <1>1, <3>1, <3>2
      <3>3. CASE k \in 2 .. Len(t)
        BY Zenon, <1>1, <3>1, <3>3 DEF Listed
      <3> QED
        BY <1>1, <3>2, <3>3
    <2>2. ASSUME x = b PROVE Listed(t, x)
      BY <1>1, <2>2 DEF Listed
    <2>3. ASSUME Listed(s, x) PROVE Listed(t, x)
      <3>1. PICK k \in 1 .. Len(s) : s[k] = x
        BY Zenon, <2>3 DEF Listed
      <3>2. k + 1 \in 1 .. Len(t) /\ t[k + 1] = x
        BY <1>1, <3>1
      <3> QED
        BY Zenon, <3>2 DEF Listed
    <2> QED
      BY Zenon, <2>1, <2>2, <2>3
  <1>3. ASSUME Once(s), ~Listed(s, b) PROVE Once(t)
    <2> SUFFICES ASSUME NEW j \in 1 .. Len(t), NEW k \in 1 .. Len(t), t[j] = t[k]
                 PROVE  j = k
      BY Zenon DEF Once
    <2>1. CASE j = 1 /\ k = 1
      BY Zenon, <2>1
    <2>2. CASE j = 1 /\ k \in 2 .. Len(t)
      BY Zenon, <1>1, <1>3, <2>2 DEF Listed
    <2>3. CASE k = 1 /\ j \in 2 .. Len(t)
      BY Zenon, <1>1, <1>3, <2>3 DEF Listed
    <2>4. CASE j \in 2 .. Len(t) /\ k \in 2 .. Len(t)
      <3>1. /\ s[j - 1] = s[k - 1] /\ j - 1 \in 1 .. Len(s) /\ k - 1 \in 1 .. Len(s)
        BY Zenon, <1>1, <2>4
      <3>2. j - 1 = k - 1
        BY Zenon, <1>3, <3>1 DEF Once
      <3> QED
        BY <2>4, <3>2
    <2> QED
      BY <1>1, <2>1, <2>2, <2>3, <2>4
  <1> QED
    BY Zenon, <1>1, <1>2, <1>3 DEF t

\* What unlinking a block does to a list.
LEMMA UnlinkedListed ==
  ASSUME NEW s \in Seq(Blocks), NEW b \in Blocks, Once(s)
  PROVE  /\ Unlinked(s, b) \in Seq(Blocks)
         /\ \A x : Listed(Unlinked(s, b), x) <=> Listed(s, x) /\ x # b
         /\ Once(Unlinked(s, b))
  <1>1. CASE ~Listed(s, b)
    BY Zenon, <1>1 DEF Unlinked
  <1>2. CASE Listed(s, b)
    <2> DEFINE k == CHOOSE k \in 1 .. Len(s) : s[k] = b
               t == [j \in 1 .. (Len(s) - 1) |-> IF j < k THEN s[j] ELSE s[j + 1]]
    <2>1. k \in 1 .. Len(s) /\ s[k] = b
      BY Zenon, <1>2 DEF Listed
    <2>2. Unlinked(s, b) = t
      BY Zenon, <1>2 DEF Unlinked
    <2> HIDE DEF k
    <2>3. /\ Len(s) \in Nat /\ Len(s) - 1 \in Nat
          /\ \A j \in 1 .. Len(s) : s[j] \in Blocks
      BY <2>1
    <2>4. t \in Seq(Blocks) /\ Len(t) = Len(s) - 1
      BY <2>1, <2>3
    <2>5. \A j \in 1 .. Len(t) :
            /\ t[j] = IF j < k THEN s[j] ELSE s[j + 1]
            /\ j \in 1 .. Len(s) /\ j + 1 \in 1 .. Len(s)
      BY <2>1, <2>3, <2>4
    <2> HIDE DEF t
    <2>6. ASSUME NEW x PROVE Listed(t, x) <=> Listed(s, x) /\ x # b
      <3>1. ASSUME Listed(t, x) PROVE Listed(s, x) /\ x # b
        <4>1. PICK j \in 1 .. Len(t) : t[j] = x
          BY Zenon, <3>1 DEF Listed
        <4>2. PICK m \in 1 .. Len(s) : s[m] = x /\ m # k
          BY <2>1, <2>5, <4>1
        <4>3. x # b
          BY Zenon, <2>1, <4>2 DEF Once
        <4> QED
          BY Zenon, <4>2, <4>3 DEF Listed
      <3>2. ASSUME Listed(s, x), x # b PROVE Listed(t, x)
        <4>1. PICK m \in 1 .. Len(s) : s[m] = x
          BY Zenon, <3>2 DEF Listed
        <4>2. m # k
          BY Zenon, <2>1, <3>2, <4>1
        <4>3. CASE m < k
          <5>1. m \in 1 .. Len(t) /\ t[m] = x
            BY <2>1, <2>3, <2>4, <2>5, <4>1, <4>3
          <5> QED
            BY Zenon, <5>1 DEF Listed
        <4>4. CASE m > k
          <5>1. m - 1 \in 1 .. Len(t) /\ ~(m - 1 < k) /\ (m - 1) + 1 = m
            BY <2>1, <2>3, <2>4, <4>1, <4>4
          <5>2. t[m - 1] = x
            BY Zenon, <2>5, <4>1, <5>1
          <5> QED
            BY Zenon, <5>1, <5>2 DEF Listed
        <4> QED
          BY <2>1, <2>3, <4>2, <4>3, <4>4
      <3> QED
        BY Zenon, <3>1, <3>2
    <2>7. Once(t)
      <3> SUFFICES ASSUME NEW i \in 1 .. Len(t), NEW j \in 1 .. Len(t), t[i] = t[j]
                   PROVE  i = j
        BY Zenon DEF Once
      <3> DEFINE p(n) == IF n < k THEN n ELSE n + 1
      <3>1. s[p(i)] = s[p(j)] /\ p(i) \in 1 .. Len(s) /\ p(j) \in 1 .. Len(s)
        BY Zenon, <2>5
      <3>2. p(i) = p(j)
        <4> HIDE DEF p
        <4> QED
          BY Zenon, <3>1 DEF Once
      <3> QED
        BY <2>1, <2>3, <3>2
    <2> QED
      BY Zenon, <2>2, <2>4, <2>6, <2>7
  <1> QED
    BY Zenon, <1>1, <1>2

\* The lists after a line was put at the head of one of them ...
LEMMA LinkTo ==
  ASSUME CacheTypeOK, Places, NEW b \in Blocks, NEW i \in Lists, ~Linked(b, i),
         lists' = [lists EXCEPT ![i] = <<b>> \o @]
  PROVE  /\ lists' \in [Lists -> Seq(Blocks)]
         /\ \A j \in Lists : Once(lists'[j])
         /\ \A x \in Blocks, j \in Lists :
              Linked(x, j)' <=> Linked(x, j) \/ (x = b /\ j = i)
  <1>1. lists \in [Lists -> Seq(Blocks)] /\ \A j \in Lists : Once(lists[j])
    BY Zenon DEF CacheTypeOK, Places
  <1>2. lists[i] \in Seq(Blocks) /\ ~Listed(lists[i], b)
    BY Zenon, <1>1 DEF Linked
  <1>3. \A j \in Lists : lists'[j] = IF j = i THEN <<b>> \o lists[i] ELSE lists[j]
    BY Zenon, <1>1
  <1> QED
    BY Zenon, <1>1, <1>2, <1>3, HeadListed DEF Linked

\* ... or taken from one.
LEMMA UnlinkFrom ==
  ASSUME CacheTypeOK, Places, NEW b \in Blocks, NEW i \in Lists,
         lists' = [lists EXCEPT ![i] = Unlinked(@, b)]
  PROVE  /\ lists' \in [Lists -> Seq(Blocks)]
         /\ \A j \in Lists : Once(lists'[j])
         /\ \A x \in Blocks, j \in Lists :
              Linked(x, j)' <=> Linked(x, j) /\ ~(x = b /\ j = i)
  <1>1. lists \in [Lists -> Seq(Blocks)] /\ \A j \in Lists : Once(lists[j])
    BY Zenon DEF CacheTypeOK, Places
  <1>2. lists[i] \in Seq(Blocks) /\ Once(lists[i])
    BY Zenon, <1>1
  <1>3. \A j \in Lists : lists'[j] = IF j = i THEN Unlinked(lists[i], b) ELSE lists[j]
    BY Zenon, <1>1
  <1> QED
    BY Zenon, <1>1, <1>2, <1>3, UnlinkedListed DEF Linked

-----------------------------------------------------------------------------
(* Agents *)

\* What the fields of an agent hold.
LEMMA Fields ==
  ASSUME CacheTypeOK, NEW a \in Agents
  PROVE  LET g == agent[a] IN
         /\ g.at \in {"idle", "evict", "pick", "written", "tail", "victim",
                      "unlink", "link", "release", "erase"}
         /\ g.at \in {"evict", "pick"} => g \in [at : {"evict", "pick"}, n : Int]
         /\ g.at = "written" => g \in [at : {"written"}, b : Blocks]
         /\ g.at \in {"tail", "victim"} =>
              g \in [at : {"tail", "victim"}, b : Blocks, i : Lists, n : Int]
         /\ g.at \in {"unlink", "link", "release", "erase"} =>
              g \in [at : {"unlink", "link", "release", "erase"}, b : Blocks,
                     i : Lists \cup {NoList}, then : {"link", "release", "erase"},
                     n : Int]
         /\ g.at \in Holding \cup {"tail", "written"} => g.b \in Blocks
         /\ g.at \in Holding \cup {"tail", "evict", "pick"} => g.n \in Int
  <1> DEFINE g == agent[a]
  <1>1. g \in Jobs
    BY Zenon DEF CacheTypeOK
  <1> HIDE DEF g
  <1>2. CASE g \in [at : {"idle"}]
    BY Zenon, <1>2 DEF Holding, g
  <1>3. CASE g \in [at : {"evict", "pick"}, n : Int]
    BY Zenon, <1>3 DEF Holding, g
  <1>4. CASE g \in [at : {"written"}, b : Blocks]
    BY Zenon, <1>4 DEF Holding, g
  <1>5. CASE g \in [at : {"tail", "victim"}, b : Blocks, i : Lists, n : Int]
    BY Zenon, <1>5 DEF Holding, g
  <1>6. CASE g \in [at : {"unlink", "link", "release", "erase"}, b : Blocks,
                    i : Lists \cup {NoList}, then : {"link", "release", "erase"},
                    n : Int]
    BY Zenon, <1>6 DEF Holding, g
  <1> QED
    BY Zenon, <1>1, <1>2, <1>3, <1>4, <1>5, <1>6 DEF Jobs

\* An agent turns to something else.
LEMMA Turned ==
  ASSUME CacheTypeOK, NEW a \in Agents, NEW g \in Jobs,
         agent' = [agent EXCEPT ![a] = g]
  PROVE  /\ agent' \in [Agents -> Jobs] /\ agent'[a] = g
         /\ \A c \in Agents : c # a => agent'[c] = agent[c]
  BY Zenon DEF CacheTypeOK

\* The agent a has the block b or not, before and after the step, and nothing
\* happens to the mutexes of other blocks or to other agents.
Works(a, b) ==
  /\ \A c \in Agents : c # a => agent'[c] = agent[c]
  /\ \A x \in Blocks : x # b => mutex'[x] = mutex[x]
  /\ agent[a].at \in Holding => agent[a].b = b
  /\ mutex[b] \in {Nobody, a}
  /\ \/ agent'[a].at \in Holding /\ agent'[a].b = b /\ mutex'[b] = a
     \/ agent'[a].at \notin Holding /\ mutex'[b] = Nobody

\* Only the line b changes.
OtherLines(b) ==
  \A x \in Blocks : x # b =>
    /\ state'[x] = state[x] /\ pending'[x] = pending[x] /\ pos'[x] = pos[x]
    /\ x \in locked' <=> x \in locked

\* An agent that works on b leaves the blocks of the other agents alone.
LEMMA Others ==
  ASSUME Core, NEW a \in Agents, NEW b \in Blocks, Works(a, b)
  PROVE  /\ a # Nobody
         /\ \A c \in Agents : c # a /\ agent[c].at \in Holding => agent[c].b # b
         /\ \A c \in Agents : agent[c].at \in Holding \cup {"tail", "written"} =>
              agent[c].b \in Blocks
         /\ \A x \in Blocks : x # b /\ mutex[x] # Nobody =>
              /\ mutex[x] \in Agents /\ mutex[x] # a
              /\ agent[mutex[x]].at \in Holding /\ agent[mutex[x]].b = x
  <1>1. a # Nobody /\ \A c \in Agents : c # Nobody
    BY Zenon, LruAssumption
  <1>2. ASSUME NEW c \in Agents, c # a, agent[c].at \in Holding
        PROVE  agent[c].b # b
    BY <1>1, <1>2 DEF Core, Mutexes, Works
  <1>3. ASSUME NEW x \in Blocks, x # b, mutex[x] # Nobody
        PROVE  /\ mutex[x] \in Agents /\ mutex[x] # a
               /\ agent[mutex[x]].at \in Holding /\ agent[mutex[x]].b = x
    <2>1. /\ mutex[x] \in Agents
          /\ agent[mutex[x]].at \in Holding /\ agent[mutex[x]].b = x
      BY <1>3 DEF Core, CacheTypeOK, Mutexes
    <2>2. mutex[x] # a
      BY Zenon, <1>3, <2>1 DEF Works
    <2> QED
      BY Zenon, <2>1, <2>2
  <1> QED
    BY Zenon, <1>1, <1>2, <1>3, Fields DEF Core

\* Such a step keeps who holds which mutex.
LEMMA MutexStep ==
  ASSUME Core, NEW a \in Agents, NEW b \in Blocks, Works(a, b),
         agent'[a].at = "unlink" => agent'[a].i \in Lists,
         \A c \in Agents : agent'[c].at = "tail" => lru_locks'[agent'[c].i] = c
  PROVE  Mutexes'
  <1>1. ASSUME NEW c \in Agents, agent'[c].at \in Holding
        PROVE  mutex'[agent'[c].b] = c
    <2>1. CASE c = a
      BY Zenon, <1>1, <2>1 DEF Works
    <2>2. CASE c # a
      BY <1>1, <2>2, Others DEF Core, Mutexes, Works
    <2> QED
      BY Zenon, <2>1, <2>2
  <1>2. ASSUME NEW x \in Blocks, mutex'[x] # Nobody
        PROVE  agent'[mutex'[x]].at \in Holding /\ agent'[mutex'[x]].b = x
    <2>1. CASE x = b
      BY Zenon, <1>2, <2>1, Others DEF Works
    <2>2. CASE x # b
      BY <1>2, <2>2, Others DEF Works
    <2> QED
      BY Zenon, <2>1, <2>2
  <1>3. ASSUME NEW c \in Agents, agent'[c].at = "unlink"
        PROVE  agent'[c].i \in Lists
    BY Zenon, <1>3 DEF Core, Mutexes, Works
  <1> QED
    BY Zenon, <1>1, <1>2, <1>3 DEF Mutexes

\* Such a step leaves the other lines in their places.
LEMMA OtherPlace ==
  ASSUME Core, NEW a \in Agents, NEW b \in Blocks, Works(a, b),
         NEW x \in Blocks, NEW i \in Lists, x # b, Linked(x, i), OtherLines(b)
  PROVE  InPlace(x, i)'
  <1>1. InPlace(x, i)
    BY Zenon DEF Core, Places
  <1>2. mutex'[x] = mutex[x] /\ state'[x] = state[x] /\ pos'[x] = pos[x]
    BY Zenon DEF Works, OtherLines
  <1>3. CASE mutex[x] = Nobody
    BY Zenon, <1>1, <1>2, <1>3 DEF InPlace
  <1>4. CASE mutex[x] # Nobody
    <2>1. agent'[mutex[x]] = agent[mutex[x]]
      BY <1>4, Others DEF Works
    <2> QED
      BY Zenon, <1>1, <1>2, <1>4, <2>1 DEF InPlace
  <1> QED
    BY Zenon, <1>3, <1>4

\* What happens to one line is nothing to the agents of other lines.
LEMMA OtherPhase ==
  ASSUME Core, NEW a \in Agents, NEW b \in Blocks, Works(a, b),
         NEW c \in Agents, c # a, agent[c].at = "written" => agent[c].b # b,
         OtherLines(b)
  PROVE  InPhase(c)'
  <1>1. agent'[c] = agent[c]
    BY Zenon DEF Works
  <1>2. CASE agent[c].at \in Holding \cup {"written"}
    <2>1. InPhase(c) /\ agent[c].b \in Blocks /\ agent[c].b # b
      BY <1>2, Others DEF Core, Phases
    <2>2. mutex'[agent[c].b] = mutex[agent[c].b]
      BY Zenon, <2>1 DEF Works
    <2> QED
      BY ZenonT(60), <1>1, <1>2, <2>1, <2>2 DEF InPhase, Goal, OtherLines
  <1>3. CASE agent[c].at \notin Holding \cup {"written"}
    BY Zenon, <1>1, <1>3 DEF InPhase, Holding
  <1> QED
    BY Zenon, <1>2, <1>3

\* A step of the agent a on the line b, from what it makes of the two.
LEMMA CoreStep ==
  ASSUME Core, NEW a \in Agents, NEW b \in Blocks,
         Works(a, b), OtherLines(b), CacheTypeOK',
         \A i \in Lists : Once(lists'[i]),
         \A x \in Blocks, i \in Lists : x # b /\ Linked(x, i)' => Linked(x, i),
         \A i \in Lists : Linked(b, i)' => InPlace(b, i)',
         agent'[a].at = "unlink" => agent'[a].i \in Lists,
         \A c \in Agents : agent'[c].at = "tail" =>
           lru_locks'[agent'[c].i] = c /\ Linked(agent[c].b, agent[c].i)',
         InPhase(a)',
         \A c \in Agents : c # a /\ agent[c].at = "written" => agent[c].b # b,
         state'[b] \in {"INVALID", "SHARED", "DIRTY"} => pending'[b] = None,
         pending'[b].op \in {"PENDING_INVALIDATE", "WRITE_BACK"} =>
           state'[b] = "TO_INVALID" /\ mutex'[b] = Nobody
  PROVE  Core'
  <1>1. Mutexes'
    BY Zenon, MutexStep
  <1>2. Places'
    <2>1. ASSUME NEW x \in Blocks, NEW i \in Lists, Linked(x, i)'
          PROVE  InPlace(x, i)'
      BY ZenonT(60), <2>1, OtherPlace
    <2> QED
      BY Zenon, <2>1 DEF Places
  <1>3. Phases'
    BY Zenon, OtherPhase DEF Phases
  <1>4. Asking'
    BY ZenonT(60) DEF Core, Asking, OtherLines, Works
  <1> QED
    BY Zenon, <1>1, <1>2, <1>3, <1>4 DEF Core

\* The agents that look at a tail go on doing so.
LEMMA TailsStay ==
  ASSUME Core, NEW a \in Agents, \A c \in Agents : c # a => agent'[c] = agent[c],
         agent'[a].at # "tail", lru_locks' = lru_locks, lists' = lists
  PROVE  /\ \A i \in Lists : Once(lists'[i])
         /\ \A x \in Blocks, i \in Lists : Linked(x, i)' <=> Linked(x, i)
         /\ \A c \in Agents : agent'[c].at = "tail" =>
              lru_locks'[agent'[c].i] = c /\ Linked(agent[c].b, agent[c].i)'
  <1>1. \A x \in Blocks, i \in Lists : Linked(x, i)' <=> Linked(x, i)
    BY Zenon DEF Linked
  <1>2. ASSUME NEW c \in Agents, agent'[c].at = "tail"
        PROVE  lru_locks'[agent'[c].i] = c /\ Linked(agent[c].b, agent[c].i)'
    <2>1. /\ agent'[c] = agent[c] /\ agent[c].at = "tail"
          /\ agent[c].b \in Blocks /\ agent[c].i \in Lists
      BY Zenon, <1>2, Fields DEF Core
    <2>2. lru_locks[agent[c].i] = c /\ Linked(agent[c].b, agent[c].i)
      BY Zenon, <2>1 DEF Core, Mutexes, Places
    <2> QED
      BY Zenon, <2>1, <2>2 DEF Linked
  <1> QED
    BY Zenon, <1>1, <1>2 DEF Core, Places

\* An agent goes on without the mutex of a block; it may give a list back.
LEMMA GoesOn ==
  ASSUME Core, NEW a \in Agents, NEW g \in Jobs,
         agent[a].at \in {"idle", "evict", "pick", "tail"},
         g.at \in {"idle", "evict", "pick"},
         agent' = [agent EXCEPT ![a] = g],
         \/ lru_locks' = lru_locks
         \/ /\ agent[a].at = "tail"
            /\ lru_locks' = [lru_locks EXCEPT ![agent[a].i] = Nobody],
         UNCHANGED <<lines, counters, pos, lists, mutex, calls>>
  PROVE  Core'
  <1>1. /\ agent' \in [Agents -> Jobs] /\ agent'[a] = g
        /\ \A c \in Agents : c # a => agent'[c] = agent[c]
    BY Zenon, Turned DEF Core
  <1>2. /\ state' = state /\ locked' = locked /\ pending' = pending /\ pos' = pos
        /\ lists' = lists /\ mutex' = mutex
        /\ used_bytes' = used_bytes /\ to_evicted' = to_evicted
        /\ garbage' = garbage /\ calls' = calls
    BY Zenon DEF lines, counters
  <1>3. /\ lru_locks' \in [Lists -> Agents \cup {Nobody}]
        /\ \A c \in Agents : c # a /\ agent[c].at = "tail" =>
             lru_locks'[agent[c].i] = c
    <2>1. ASSUME NEW c \in Agents, c # a, agent[c].at = "tail"
          PROVE  lru_locks'[agent[c].i] = c
      <3>1. lru_locks[agent[c].i] = c /\ agent[c].i \in Lists
        BY Zenon, <2>1, Fields DEF Core, Mutexes
      <3>2. CASE lru_locks' = lru_locks
        BY Zenon, <3>1, <3>2
      <3>3. CASE /\ agent[a].at = "tail"
                 /\ lru_locks' = [lru_locks EXCEPT ![agent[a].i] = Nobody]
        <4>1. lru_locks[agent[a].i] = a
          BY Zenon, <3>3 DEF Core, Mutexes
        <4> QED
          BY Zenon, <2>1, <3>1, <3>3, <4>1 DEF Core, CacheTypeOK
      <3> QED
        BY Zenon, <3>2, <3>3
    <2> QED
      BY Zenon, <2>1 DEF Core, CacheTypeOK
  <1>4. CacheTypeOK'
    BY Zenon, <1>1, <1>2, <1>3 DEF Core, CacheTypeOK
  <1>5. Mutexes'
    BY <1>1, <1>2, <1>3 DEF Core, CacheTypeOK, Mutexes, Holding
  <1>6. Places'
    BY SMTT(60), <1>1, <1>2 DEF Core, CacheTypeOK, Places, InPlace, Mutexes, Holding, Linked
  <1>7. Phases'
    BY <1>1, <1>2 DEF Core, CacheTypeOK, Phases, InPhase, Goal
  <1>8. Asking'
    BY Zenon, <1>2 DEF Core, Asking
  <1> QED
    BY Zenon, <1>4, <1>5, <1>6, <1>7, <1>8 DEF Core

\* An agent takes the mutex of a list and looks at its tail.
LEMMA TakesTail ==
  ASSUME Core, NEW a \in Agents, NEW i \in Lists, NEW n \in Int,
         agent[a].at = "pick", lru_locks[i] = Nobody, lists[i] # <<>>,
         agent' = [agent EXCEPT ![a] =
           [at |-> "tail", b |-> lists[i][Len(lists[i])], i |-> i, n |-> n]],
         lru_locks' = [lru_locks EXCEPT ![i] = a],
         UNCHANGED <<lines, counters, pos, lists, mutex, calls>>
  PROVE  Core'
  <1> DEFINE b == lists[i][Len(lists[i])]
             g == [at |-> "tail", b |-> b, i |-> i, n |-> n]
  <1>0. b \in Blocks /\ Linked(b, i)
    BY Zenon, LastListed DEF Core, CacheTypeOK, Linked
  <1> HIDE DEF b
  <1>1. g \in Jobs /\ g.at = "tail" /\ g.b = b /\ g.i = i
    BY Zenon, <1>0 DEF Jobs
  <1>2. /\ agent' \in [Agents -> Jobs] /\ agent'[a] = g
        /\ \A c \in Agents : c # a => agent'[c] = agent[c]
    BY Zenon, <1>1, Turned DEF Core, b
  <1> HIDE DEF g
  <1>3. /\ state' = state /\ locked' = locked /\ pending' = pending /\ pos' = pos
        /\ lists' = lists /\ mutex' = mutex
        /\ used_bytes' = used_bytes /\ to_evicted' = to_evicted
        /\ garbage' = garbage /\ calls' = calls
    BY Zenon DEF lines, counters
  <1>4. CacheTypeOK'
    BY ZenonT(60), <1>2, <1>3 DEF Core, CacheTypeOK
  <1>5. Mutexes'
    BY SMTT(60), LruAssumption, <1>1, <1>2, <1>3 DEF Core, CacheTypeOK, Mutexes, Holding
  <1>6. Places'
    BY SMTT(60), <1>0, <1>1, <1>2, <1>3 DEF Core, CacheTypeOK, Places, InPlace, Mutexes, Holding, Linked
  <1>7. Phases'
    BY <1>1, <1>2, <1>3 DEF Core, CacheTypeOK, Phases, InPhase, Goal
  <1>8. Asking'
    BY Zenon, <1>3 DEF Core, Asking
  <1> QED
    BY Zenon, <1>4, <1>5, <1>6, <1>7, <1>8 DEF Core

\* UnLinkLRU of the handlers and of ToInvalid: an agent has the mutex of the
\* block, or gets it, and changes the line.
LEMMA StartsUnlink ==
  ASSUME Core, NEW a \in Agents, NEW b \in Blocks,
         NEW then \in {"link", "release", "erase"}, NEW n \in Int,
         UnLinkLRU(a, b, then, n),
         \/ agent[a].at \in {"idle", "written"} /\ mutex[b] = Nobody
         \/ agent[a].at = "victim" /\ agent[a].b = b,
         a = Service \/ state[b] # "TO_INVALID",
         lists' = lists, lru_locks' = lru_locks, garbage' = garbage,
         state' \in [Blocks -> {"INVALID", "TO_SHARED", "SHARED", "TO_DIRTY",
                                "DIRTY", "TO_INVALID"}],
         pending' \in [Blocks -> Requests], locked' \subseteq Blocks,
         used_bytes' \in Int, to_evicted' \in Int, calls' \in [Threads -> Nat],
         \A x \in Blocks : x # b =>
           /\ state'[x] = state[x] /\ pending'[x] = pending[x]
           /\ x \in locked' <=> x \in locked,
         then = "link" => state'[b] \in {"SHARED", "DIRTY"},
         then = "release" => state'[b] = "TO_DIRTY",
         then = "erase" => state'[b] # "INVALID" /\ pending'[b] = None,
         state'[b] \in {"INVALID", "SHARED", "DIRTY"} => pending'[b] = None,
         pending'[b].op \notin {"PENDING_INVALIDATE", "WRITE_BACK"}
  PROVE  Core'
  <1> DEFINE at == IF pos[b] = NoList THEN then ELSE "unlink"
             g == [at |-> at, b |-> b, i |-> pos[b], then |-> then, n |-> n]
  <1>0. /\ at \in {"unlink", "link", "release", "erase"}
        /\ at = "unlink" => pos[b] \in Lists
        /\ at # "unlink" => at = then /\ pos[b] = NoList
        /\ pos[b] \in Lists \cup {NoList}
    BY ZenonT(60) DEF Core, CacheTypeOK
  <1> HIDE DEF at
  <1>1. /\ g \in Jobs /\ g.at = at /\ g.b = b /\ g.i = pos[b] /\ g.then = then
        /\ g.at \in Holding
    BY Zenon, <1>0 DEF Jobs, Holding
  <1>2. /\ agent' \in [Agents -> Jobs] /\ agent'[a] = g
        /\ \A c \in Agents : c # a => agent'[c] = agent[c]
    BY Zenon, <1>1, Turned DEF Core, UnLinkLRU, at
  <1> HIDE DEF g
  <1>3. /\ mutex' \in [Blocks -> Agents \cup {Nobody}] /\ mutex'[b] = a
        /\ \A x \in Blocks : x # b => mutex'[x] = mutex[x]
        /\ pos' \in [Blocks -> Lists \cup {NoList}]
        /\ \A x \in Blocks : x # b => pos'[x] = pos[x]
    BY ZenonT(60) DEF Core, CacheTypeOK, UnLinkLRU
  <1>4. Works(a, b) /\ OtherLines(b)
    BY <1>1, <1>2, <1>3 DEF Core, Mutexes, Works, OtherLines, Holding
  <1>5. CacheTypeOK'
    BY ZenonT(60), <1>2, <1>3 DEF Core, CacheTypeOK
  <1>6. ASSUME NEW i \in Lists, Linked(b, i)
        PROVE  InPlace(b, i)'
    <2>1. pos[b] = i
      BY LruAssumption, <1>6 DEF Core, Places, InPlace, Holding, Mutexes
    <2> QED
      BY SMTT(60), LruAssumption, <1>0, <1>1, <1>2, <1>3, <2>1, Others, <1>4 DEF InPlace
  <1>7. InPhase(a)'
    BY ZenonT(60), <1>0, <1>1, <1>2 DEF InPhase, Goal
  <1>8. ASSUME NEW c \in Agents, c # a, agent[c].at = "written"
        PROVE  agent[c].b # b
    BY <1>8 DEF Core, Phases, InPhase
  <1>9. agent'[a].at # "tail"
    BY Zenon, <1>0, <1>1, <1>2
  <1> QED
    BY ZenonT(60), <1>0, <1>1, <1>2, <1>4, <1>5, <1>6, <1>7, <1>8, <1>9, TailsStay, CoreStep

\* The states of a line, as CacheTypeOK has them.
LEMMA StateChange ==
  ASSUME CacheTypeOK, NEW b \in Blocks,
         NEW st \in {"INVALID", "TO_SHARED", "SHARED", "TO_DIRTY", "DIRTY", "TO_INVALID"},
         state' = [state EXCEPT ![b] = st]
  PROVE  /\ state' \in [Blocks -> {"INVALID", "TO_SHARED", "SHARED", "TO_DIRTY",
                                   "DIRTY", "TO_INVALID"}]
         /\ state'[b] = st /\ \A x \in Blocks : x # b => state'[x] = state[x]
  BY Zenon DEF CacheTypeOK

\* One line sends or drops its request.
LEMMA PendingChange ==
  ASSUME CacheTypeOK, NEW b \in Blocks, NEW q \in Requests,
         pending' = [pending EXCEPT ![b] = q]
  PROVE  /\ pending' \in [Blocks -> Requests]
         /\ pending'[b] = q /\ \A x \in Blocks : x # b => pending'[x] = pending[x]
  BY Zenon DEF CacheTypeOK

\* One mutex changes hands.
LEMMA MutexChange ==
  ASSUME CacheTypeOK, NEW b \in Blocks, NEW m \in Agents \cup {Nobody},
         mutex' = [mutex EXCEPT ![b] = m]
  PROVE  /\ mutex' \in [Blocks -> Agents \cup {Nobody}]
         /\ mutex'[b] = m /\ \A x \in Blocks : x # b => mutex'[x] = mutex[x]
  BY Zenon DEF CacheTypeOK

\* The requests that the model names.
LEMMA RequestKinds ==
  /\ None \in Requests /\ None.op = "none"
  /\ \A op \in {"READ", "WRITE", "WRITE_PERMISSION_ONLY"}, lock \in BOOLEAN :
       [op |-> op, lock |-> lock] \in Requests /\ [op |-> op, lock |-> lock].op = op
  /\ \A op \in {"PENDING_INVALIDATE", "WRITE_BACK"} :
       [op |-> op] \in Requests /\ [op |-> op].op = op
  BY Zenon DEF None, Requests

\* A line changes under the mutex of its block, which is free again at once.
LEMMA LineChanges ==
  ASSUME Core, NEW a \in Agents, NEW b \in Blocks,
         agent[a] = Idle, mutex[b] = Nobody,
         agent' = agent, mutex' = mutex, lists' = lists, lru_locks' = lru_locks,
         pos' = pos, garbage' = garbage, used_bytes' = used_bytes, calls' = calls,
         to_evicted' \in Int, locked' \subseteq Blocks,
         \A x \in Blocks : x # b => (x \in locked' <=> x \in locked),
         NEW st \in {"INVALID", "TO_SHARED", "SHARED", "TO_DIRTY", "DIRTY", "TO_INVALID"},
         state' = [state EXCEPT ![b] = st],
         NEW q \in Requests, pending' = [pending EXCEPT ![b] = q],
         st = state[b] \/ st \in {"SHARED", "DIRTY", "TO_INVALID"},
         state[b] = "TO_INVALID" => st = state[b] /\ q = pending[b],
         st \in {"INVALID", "SHARED", "DIRTY"} => q = None,
         q.op \in {"PENDING_INVALIDATE", "WRITE_BACK"} => st = "TO_INVALID"
  PROVE  Core'
  <1>1. /\ state' \in [Blocks -> {"INVALID", "TO_SHARED", "SHARED", "TO_DIRTY",
                                  "DIRTY", "TO_INVALID"}]
        /\ state'[b] = st /\ \A x \in Blocks : x # b => state'[x] = state[x]
    BY Zenon, StateChange DEF Core
  <1>2. /\ pending' \in [Blocks -> Requests]
        /\ pending'[b] = q /\ \A x \in Blocks : x # b => pending'[x] = pending[x]
    BY Zenon, PendingChange DEF Core
  <1>3. agent[a].at = "idle"
    BY DEF Idle
  <1>4. CacheTypeOK'
    BY Zenon, <1>1, <1>2 DEF Core, CacheTypeOK
  <1>5. Mutexes'
    BY Zenon DEF Core, Mutexes
  <1>6. Places'
    <2>1. \A x \in Blocks, i \in Lists : Linked(x, i)' <=> Linked(x, i)
      BY Zenon DEF Linked
    <2>2. ASSUME NEW x \in Blocks, NEW i \in Lists, Linked(x, i)
          PROVE  InPlace(x, i)'
      <3>1. InPlace(x, i)
        BY Zenon, <2>2 DEF Core, Places
      <3> QED
        BY Zenon, <1>1, <3>1 DEF InPlace
    <2>3. \A c \in Agents : agent[c].at = "tail" => Linked(agent[c].b, agent[c].i)'
      BY Zenon DEF Core, Places, Linked
    <2> QED
      BY Zenon, <2>1, <2>2, <2>3 DEF Core, Places
  <1>7. Phases'
    <2> SUFFICES ASSUME NEW c \in Agents PROVE InPhase(c)'
      BY Zenon DEF Phases
    <2>1. InPhase(c)
      BY ZenonT(60) DEF Core, Phases
    <2>2. agent[c].at \in Holding => agent[c].b # b
      BY LruAssumption DEF Core, Mutexes
    <2>3. agent[c].at \in Holding \cup {"written"} => agent[c].b \in Blocks
      BY Zenon, Fields DEF Core
    <2>4. CASE agent[c].at \in Holding
      BY ZenonT(60), <1>1, <1>2, <2>1, <2>2, <2>3, <2>4 DEF InPhase, Goal
    <2>5. CASE agent[c].at = "written"
      BY ZenonT(60), <1>1, <1>2, <2>1, <2>3, <2>5 DEF InPhase, Goal
    <2>6. CASE agent[c].at \notin Holding \cup {"written"}
      BY Zenon, <2>6 DEF InPhase, Holding
    <2> QED
      BY Zenon, <2>4, <2>5, <2>6
  <1>8. Asking'
    BY ZenonT(60), <1>1, <1>2 DEF Core, Asking
  <1> QED
    BY ZenonT(60), <1>4, <1>5, <1>6, <1>7, <1>8 DEF Core

\* ProcessPendingRead and ProcessPendingWrite take the block and go to link it.
LEMMA TakesLink ==
  ASSUME Core, NEW b \in Blocks, Granted(b)
  PROVE  Core'
  <1> DEFINE a == Service
             st == IF state[b] = "TO_SHARED" THEN "SHARED" ELSE "DIRTY"
             g == [at |-> "link", b |-> b, i |-> NoList, then |-> "link", n |-> 0]
  <1>0. /\ a \in Agents /\ agent[a].at = "idle" /\ mutex[b] = Nobody
        /\ state[b] \in {"TO_SHARED", "TO_DIRTY"}
    BY DEF Agents, Granted, Serve, Idle
  <1>1. g \in Jobs /\ g.at = "link" /\ g.b = b
    BY DEF Jobs
  <1>2. /\ agent' \in [Agents -> Jobs] /\ agent'[a] = g
        /\ \A c \in Agents : c # a => agent'[c] = agent[c]
    BY Zenon, <1>0, <1>1, Turned DEF Core, Granted
  <1> HIDE DEF g
  <1>3. /\ mutex' \in [Blocks -> Agents \cup {Nobody}] /\ mutex'[b] = a
        /\ \A x \in Blocks : x # b => mutex'[x] = mutex[x]
    BY Zenon, <1>0, MutexChange DEF Core, Granted
  <1>4. /\ pending' \in [Blocks -> Requests] /\ pending'[b] = None
        /\ \A x \in Blocks : x # b => pending'[x] = pending[x]
    BY Zenon, RequestKinds, PendingChange DEF Core, Granted
  <1>5. /\ state' \in [Blocks -> {"INVALID", "TO_SHARED", "SHARED", "TO_DIRTY",
                                  "DIRTY", "TO_INVALID"}]
        /\ state'[b] \in {"SHARED", "DIRTY"}
        /\ \A x \in Blocks : x # b => state'[x] = state[x]
    <2>1. state' = [state EXCEPT ![b] = st]
      BY Zenon DEF Core, CacheTypeOK, Granted
    <2> QED
      BY Zenon, <2>1, StateChange DEF Core
  <1>6. /\ locked' \subseteq Blocks /\ \A x : x # b => (x \in locked' <=> x \in locked)
        /\ pos' = pos /\ lists' = lists /\ lru_locks' = lru_locks
        /\ used_bytes' = used_bytes /\ to_evicted' = to_evicted
        /\ garbage' = garbage /\ calls' = calls
    BY Zenon DEF Core, CacheTypeOK, Granted, counters
  <1> HIDE DEF a
  <1>7. Works(a, b) /\ OtherLines(b)
    BY ZenonT(60), <1>0, <1>1, <1>2, <1>3, <1>4, <1>5, <1>6 DEF Works, OtherLines, Holding
  <1>8. CacheTypeOK'
    BY ZenonT(60), <1>2, <1>3, <1>4, <1>5, <1>6 DEF Core, CacheTypeOK
  <1>9. \A i \in Lists : ~Linked(b, i)
    BY Zenon, <1>0 DEF Core, Places, InPlace
  <1>10. InPhase(a)'
    BY Zenon, <1>1, <1>2, <1>5 DEF InPhase, Goal
  <1>11. \A c \in Agents : agent[c].at = "written" => agent[c].b # b
    BY Zenon, <1>0 DEF Core, Phases, InPhase
  <1>12. agent'[a].at \notin {"tail", "unlink"}
    BY Zenon, <1>1, <1>2
  <1> QED
    BY ZenonT(60), <1>0, <1>2, <1>4, <1>6, <1>7, <1>8, <1>9, <1>10, <1>11, <1>12, RequestKinds,
       TailsStay, CoreStep

\* Evict(int) with the tail of a list: takes the line, or leaves it.
LEMMA TriesTail ==
  ASSUME Core, NEW a \in Agents, TryTail(a)
  PROVE  Core'
  <1>0. PICK b \in Blocks, i \in Lists, n \in Int :
          /\ agent[a] \in [at : {"tail", "victim"}, b : Blocks, i : Lists, n : Int]
          /\ agent[a].at = "tail" /\ agent[a].b = b /\ agent[a].i = i
          /\ agent[a].n = n
    BY Zenon, Fields DEF Core, TryTail
  <1> DEFINE taken == mutex[b] = Nobody /\ b \notin locked /\ ~InTransitionState(b)
  <1>1. /\ Linked(b, i) /\ lru_locks[i] = a
        /\ lru_locks' = [lru_locks EXCEPT ![i] = Nobody]
        /\ state' = state /\ locked' = locked /\ pending' = pending /\ pos' = pos
        /\ used_bytes' = used_bytes /\ to_evicted' = to_evicted
        /\ garbage' = garbage /\ calls' = calls
    BY Zenon, <1>0 DEF Core, Places, Mutexes, TryTail, lines, counters
  <1>2. CASE ~taken
    <2> DEFINE g == [at |-> "pick", n |-> n - 1]
    <2>1. g \in Jobs /\ g.at = "pick"
      BY <1>0 DEF Jobs
    <2>2. agent' = [agent EXCEPT ![a] = g] /\ mutex' = mutex /\ lists' = lists
      BY ZenonT(60), <1>0, <1>2 DEF TryTail
    <2> HIDE DEF g
    <2> QED
      BY ZenonT(60), <1>0, <1>1, <2>1, <2>2, GoesOn DEF lines, counters
  <1>3. CASE taken
    <2> DEFINE g == [agent[a] EXCEPT !.at = "victim"]
    <2>1. g \in Jobs /\ g.at = "victim" /\ g.b = b
      BY Zenon, <1>0 DEF Jobs
    <2>2. /\ agent' = [agent EXCEPT ![a] = g]
          /\ mutex' = [mutex EXCEPT ![b] = a]
          /\ lists' = [lists EXCEPT ![i] = Unlinked(@, b)]
      BY Zenon, <1>0, <1>3 DEF TryTail
    <2>3. /\ agent' \in [Agents -> Jobs] /\ agent'[a] = g
          /\ \A c \in Agents : c # a => agent'[c] = agent[c]
      BY Zenon, <2>1, <2>2, Turned DEF Core
    <2> HIDE DEF g
    <2>4. mutex[b] = Nobody /\ b \notin locked /\ ~InTransitionState(b)
      BY Zenon, <1>3
    <2> HIDE DEF taken
    <2>5. /\ mutex' \in [Blocks -> Agents \cup {Nobody}] /\ mutex'[b] = a
          /\ \A x \in Blocks : x # b => mutex'[x] = mutex[x]
      BY ZenonT(60), <1>0, <2>2, MutexChange DEF Core
    <2>6. /\ lists' \in [Lists -> Seq(Blocks)]
          /\ \A j \in Lists : Once(lists'[j])
          /\ \A x \in Blocks, j \in Lists :
               Linked(x, j)' <=> Linked(x, j) /\ ~(x = b /\ j = i)
      BY ZenonT(60), <1>0, <2>2, UnlinkFrom DEF Core
    <2>7. state[b] \in {"SHARED", "DIRTY"} /\ \A j \in Lists : Linked(b, j) => j = i
      <3>1. \A j \in Lists : Linked(b, j) =>
              pos[b] = j /\ state[b] \in {"SHARED", "DIRTY", "TO_INVALID"}
        BY Zenon, <1>0, <2>4 DEF Core, Places, InPlace
      <3> QED
        BY Zenon, <1>0, <1>1, <2>4, <3>1 DEF InTransitionState
    <2>8. lru_locks' \in [Lists -> Agents \cup {Nobody}]
      BY Zenon, <1>1 DEF Core, CacheTypeOK
    <2>9. Works(a, b) /\ OtherLines(b)
      BY ZenonT(60), <1>0, <1>1, <2>1, <2>3, <2>4, <2>5 DEF Works, OtherLines, Holding
    <2>10. CacheTypeOK'
      BY ZenonT(60), <1>1, <2>3, <2>5, <2>6, <2>8 DEF Core, CacheTypeOK
    <2>11. \A j \in Lists : ~Linked(b, j)'
      BY Zenon, <1>0, <2>6, <2>7
    <2>12. InPhase(a)'
      BY ZenonT(60), <1>1, <2>1, <2>3, <2>4, <2>7 DEF InPhase
    <2>13. \A c \in Agents : agent[c].at = "written" => agent[c].b # b
      BY Zenon, <2>7 DEF Core, Phases, InPhase
    <2>14. ASSUME NEW c \in Agents, agent'[c].at = "tail"
           PROVE  lru_locks'[agent'[c].i] = c /\ Linked(agent[c].b, agent[c].i)'
      <3>1. c # a /\ agent'[c] = agent[c] /\ agent[c].at = "tail"
        BY Zenon, <2>1, <2>3, <2>14
      <3>2. /\ agent[c].b \in Blocks /\ agent[c].i \in Lists
            /\ lru_locks[agent[c].i] = c /\ Linked(agent[c].b, agent[c].i)
        BY Zenon, <3>1, Fields DEF Core, Mutexes, Places
      <3>3. agent[c].i # i
        BY Zenon, <1>1, <3>1, <3>2
      <3>4. \A x \in Blocks, j \in Lists : j # i /\ Linked(x, j) => Linked(x, j)'
        BY Zenon, <2>6
      <3>5. Linked(agent[c].b, agent[c].i)'
        BY ZenonT(60), <3>1, <3>2, <3>3, <3>4 DEF Linked
      <3> QED
        BY ZenonT(60), <1>1, <3>1, <3>2, <3>3, <3>5 DEF Core, CacheTypeOK
    <2>15. /\ state'[b] \in {"INVALID", "SHARED", "DIRTY"} => pending'[b] = None
           /\ pending'[b].op \notin {"PENDING_INVALIDATE", "WRITE_BACK"}
      BY ZenonT(60), <1>0, <1>1, <2>7, RequestKinds DEF Core, Asking
    <2>16. agent'[a].at # "unlink"
      BY ZenonT(60), <2>1, <2>3
    <2> QED
      BY SMTT(60), <1>0, <2>6, <2>9, <2>10, <2>11, <2>12, <2>13, <2>14, <2>15, <2>16, CoreStep
  <1> QED
    BY Zenon, <1>2, <1>3

\* UnLinkLRU(cline, i): whether it finds the line or not, the line is on no
\* list then.
LEMMA Unlinks ==
  ASSUME Core, NEW a \in Agents, Unlink(a)
  PROVE  Core'
  <1>0. PICK b \in Blocks, i \in Lists :
          /\ agent[a] \in [at : {"unlink", "link", "release", "erase"}, b : Blocks,
                           i : Lists \cup {NoList},
                           then : {"link", "release", "erase"}, n : Int]
          /\ agent[a].at = "unlink" /\ agent[a].b = b /\ agent[a].i = i
          /\ mutex[b] = a /\ lru_locks[i] = Nobody /\ InPhase(a)
    BY Fields DEF Core, Unlink, Mutexes, Holding, Phases
  <1> DEFINE g == [agent[a] EXCEPT !.at = agent[a].then]
  <1>1. /\ state' = state /\ locked' = locked /\ pending' = pending /\ pos' = pos
        /\ mutex' = mutex /\ lru_locks' = lru_locks
        /\ used_bytes' = used_bytes /\ to_evicted' = to_evicted
        /\ garbage' = garbage /\ calls' = calls
        /\ lists' = [lists EXCEPT ![i] = Unlinked(@, b)]
        /\ agent' = [agent EXCEPT ![a] = g]
    BY Zenon, <1>0 DEF Unlink, lines, counters
  <1>2. /\ g \in Jobs /\ g.at = agent[a].then /\ g.b = b /\ g.then = agent[a].then
        /\ g.at \in {"link", "release", "erase"}
    BY Zenon, <1>0 DEF Jobs
  <1>3. /\ agent' \in [Agents -> Jobs] /\ agent'[a] = g
        /\ \A c \in Agents : c # a => agent'[c] = agent[c]
    BY Zenon, <1>1, <1>2, Turned DEF Core
  <1> HIDE DEF g
  <1>4. /\ lists' \in [Lists -> Seq(Blocks)]
        /\ \A j \in Lists : Once(lists'[j])
        /\ \A x \in Blocks, j \in Lists :
             Linked(x, j)' <=> Linked(x, j) /\ ~(x = b /\ j = i)
    BY ZenonT(60), <1>0, <1>1, UnlinkFrom DEF Core
  <1>5. Works(a, b) /\ OtherLines(b)
    BY Zenon, <1>0, <1>1, <1>2, <1>3 DEF Works, OtherLines, Holding
  <1>6. CacheTypeOK'
    BY Zenon, <1>1, <1>3, <1>4 DEF Core, CacheTypeOK
  <1>7. \A j \in Lists : ~Linked(b, j)'
    <2>1. \A j \in Lists : Linked(b, j) => j = i
      BY <1>0, <1>5, Others DEF Core, Places, InPlace
    <2> QED
      BY ZenonT(60), <1>0, <1>4, <2>1
  <1>8. InPhase(a)'
    BY ZenonT(60), <1>0, <1>1, <1>2, <1>3 DEF InPhase, Goal
  <1>9. \A c \in Agents : agent[c].at = "written" => agent[c].b # b
    <2>1. a # Nobody
      BY Zenon, LruAssumption
    <2> QED
      BY Zenon, <1>0, <2>1 DEF Core, Phases, InPhase
  <1>10. ASSUME NEW c \in Agents, agent'[c].at = "tail"
         PROVE  lru_locks'[agent'[c].i] = c /\ Linked(agent[c].b, agent[c].i)'
    <2>1. c # a /\ agent'[c] = agent[c] /\ agent[c].at = "tail"
      BY Zenon, <1>2, <1>3, <1>10
    <2>2. /\ agent[c].b \in Blocks /\ agent[c].i \in Lists /\ c # Nobody
          /\ lru_locks[agent[c].i] = c /\ Linked(agent[c].b, agent[c].i)
      BY ZenonT(60), LruAssumption, <2>1, Fields DEF Core, Mutexes, Places
    <2>3. agent[c].i # i
      BY Zenon, <1>0, <2>2
    <2>4. \A x \in Blocks, j \in Lists : j # i /\ Linked(x, j) => Linked(x, j)'
      BY Zenon, <1>4
    <2>5. Linked(agent[c].b, agent[c].i)'
      BY Zenon, <2>1, <2>2, <2>3, <2>4 DEF Linked
    <2> QED
      BY Zenon, <1>1, <2>1, <2>2, <2>5
  <1>11. /\ state'[b] \in {"INVALID", "SHARED", "DIRTY"} => pending'[b] = None
         /\ pending'[b].op \notin {"PENDING_INVALIDATE", "WRITE_BACK"}
    BY LruAssumption, <1>0, <1>1, RequestKinds DEF Core, Asking
  <1>12. agent'[a].at # "unlink"
    BY Zenon, <1>2, <1>3
  <1> QED
    BY SMTT(60), <1>0, <1>4, <1>5, <1>6, <1>7, <1>8, <1>9, <1>10, <1>11, <1>12, CoreStep

\* LinkLRU: the line was on no list.
LEMMA Links ==
  ASSUME Core, NEW a \in Agents, LinkLRU(a)
  PROVE  Core'
  <1>0. PICK b \in Blocks :
          /\ agent[a].at = "link" /\ agent[a].b = b /\ mutex[b] = a
          /\ state[b] \in {"SHARED", "DIRTY"} /\ a # Nobody
    BY LruAssumption, Fields DEF Core, LinkLRU, Mutexes, Holding, Phases, InPhase, Goal
  <1>1. PICK i \in Lists :
          /\ lru_locks[i] = Nobody
          /\ lists' = [lists EXCEPT ![i] = <<b>> \o @]
          /\ pos' = [pos EXCEPT ![b] = i]
    BY Zenon, <1>0 DEF LinkLRU
  <1>2. /\ state' = state /\ locked' = locked /\ pending' = pending
        /\ lru_locks' = lru_locks
        /\ used_bytes' = used_bytes /\ to_evicted' = to_evicted
        /\ garbage' = garbage /\ calls' = calls
        /\ mutex' = [mutex EXCEPT ![b] = Nobody]
        /\ agent' = [agent EXCEPT ![a] = Idle]
    BY Zenon, <1>0 DEF LinkLRU, lines, counters
  <1>3. Idle \in Jobs /\ Idle.at = "idle"
    BY Zenon DEF Idle, Jobs
  <1>4. /\ agent' \in [Agents -> Jobs] /\ agent'[a] = Idle
        /\ \A c \in Agents : c # a => agent'[c] = agent[c]
    BY Zenon, <1>2, <1>3, Turned DEF Core
  <1>5. /\ mutex' \in [Blocks -> Agents \cup {Nobody}] /\ mutex'[b] = Nobody
        /\ \A x \in Blocks : x # b => mutex'[x] = mutex[x]
    BY Zenon, <1>2, MutexChange DEF Core
  <1>6. /\ pos' \in [Blocks -> Lists \cup {NoList}] /\ pos'[b] = i
        /\ \A x \in Blocks : x # b => pos'[x] = pos[x]
    BY Zenon, <1>1 DEF Core, CacheTypeOK
  <1>7. Works(a, b) /\ OtherLines(b)
    BY ZenonT(60), <1>0, <1>2, <1>3, <1>4, <1>5, <1>6 DEF Works, OtherLines, Holding
  <1>8. \A j \in Lists : ~Linked(b, j)
    BY Zenon, <1>0 DEF Core, Places, InPlace
  <1>9. /\ lists' \in [Lists -> Seq(Blocks)]
        /\ \A j \in Lists : Once(lists'[j])
        /\ \A x \in Blocks, j \in Lists :
             Linked(x, j)' <=> Linked(x, j) \/ (x = b /\ j = i)
    BY ZenonT(60), <1>1, <1>8, LinkTo DEF Core
  <1>10. CacheTypeOK'
    BY ZenonT(60), <1>2, <1>4, <1>5, <1>6, <1>9 DEF Core, CacheTypeOK
  <1>11. \A j \in Lists : Linked(b, j)' => InPlace(b, j)'
    BY ZenonT(60), <1>0, <1>2, <1>5, <1>6, <1>8, <1>9 DEF InPlace
  <1>12. InPhase(a)'
    BY Zenon, <1>3, <1>4 DEF InPhase
  <1>13. \A c \in Agents : agent[c].at = "written" => agent[c].b # b
    BY Zenon, <1>0 DEF Core, Phases, InPhase
  <1>14. ASSUME NEW c \in Agents, agent'[c].at = "tail"
         PROVE  lru_locks'[agent'[c].i] = c /\ Linked(agent[c].b, agent[c].i)'
    <2>1. c # a /\ agent'[c] = agent[c] /\ agent[c].at = "tail"
      BY Zenon, <1>3, <1>4, <1>14
    <2>2. /\ agent[c].b \in Blocks /\ agent[c].i \in Lists
          /\ lru_locks[agent[c].i] = c /\ Linked(agent[c].b, agent[c].i)
      BY Zenon, <2>1, Fields DEF Core, Mutexes, Places
    <2>3. Linked(agent[c].b, agent[c].i)'
      BY Zenon, <1>9, <2>1, <2>2 DEF Linked
    <2> QED
      BY Zenon, <1>2, <2>1, <2>2, <2>3
  <1>15. /\ state'[b] \in {"INVALID", "SHARED", "DIRTY"} => pending'[b] = None
         /\ pending'[b].op \notin {"PENDING_INVALIDATE", "WRITE_BACK"}
    BY Zenon, <1>0, <1>2, RequestKinds DEF Core, Asking
  <1>16. agent'[a].at # "unlink"
    BY Zenon, <1>3, <1>4
  <1> QED
    BY ZenonT(60), <1>0, <1>7, <1>9, <1>10, <1>11, <1>12, <1>13, <1>14, <1>15, <1>16, CoreStep

\* An agent is done with a line that is on no list and gives the block back.
LEMMA GivesBack ==
  ASSUME Core, NEW a \in Agents, NEW b \in Blocks,
         agent[a].at \in {"release", "erase", "victim"}, agent[a].b = b,
         mutex' = [mutex EXCEPT ![b] = Nobody],
         NEW g \in Jobs, g.at \in {"idle", "pick"}, agent' = [agent EXCEPT ![a] = g],
         lists' = lists, lru_locks' = lru_locks, pos' = pos, locked' = locked,
         garbage' = garbage, used_bytes' = used_bytes, calls' = calls,
         to_evicted' \in Int,
         NEW st \in {"INVALID", "TO_SHARED", "SHARED", "TO_DIRTY", "DIRTY", "TO_INVALID"},
         state' = [state EXCEPT ![b] = st],
         NEW q \in Requests, pending' = [pending EXCEPT ![b] = q],
         st \in {"INVALID", "SHARED", "DIRTY"} => q = None,
         q.op \in {"PENDING_INVALIDATE", "WRITE_BACK"} => st = "TO_INVALID"
  PROVE  Core'
  <1>0. mutex[b] = a /\ a # Nobody
    BY ZenonT(60), LruAssumption DEF Core, Mutexes, Holding
  <1>1. /\ state' \in [Blocks -> {"INVALID", "TO_SHARED", "SHARED", "TO_DIRTY",
                                  "DIRTY", "TO_INVALID"}]
        /\ state'[b] = st /\ \A x \in Blocks : x # b => state'[x] = state[x]
    BY Zenon, StateChange DEF Core
  <1>2. /\ pending' \in [Blocks -> Requests]
        /\ pending'[b] = q /\ \A x \in Blocks : x # b => pending'[x] = pending[x]
    BY Zenon, PendingChange DEF Core
  <1>3. /\ mutex' \in [Blocks -> Agents \cup {Nobody}] /\ mutex'[b] = Nobody
        /\ \A x \in Blocks : x # b => mutex'[x] = mutex[x]
    BY Zenon, MutexChange DEF Core
  <1>4. /\ agent' \in [Agents -> Jobs] /\ agent'[a] = g
        /\ \A c \in Agents : c # a => agent'[c] = agent[c]
    BY Zenon, Turned DEF Core
  <1>5. Works(a, b) /\ OtherLines(b)
    BY ZenonT(60), <1>0, <1>1, <1>2, <1>3, <1>4 DEF Works, OtherLines, Holding
  <1>6. CacheTypeOK'
    BY Zenon, <1>1, <1>2, <1>3, <1>4 DEF Core, CacheTypeOK
  <1>7. \A j \in Lists : ~Linked(b, j)
    BY Zenon, <1>0 DEF Core, Places, InPlace
  <1>8. InPhase(a)'
    BY Zenon, <1>4 DEF InPhase
  <1>9. \A c \in Agents : agent[c].at = "written" => agent[c].b # b
    BY Zenon, <1>0 DEF Core, Phases, InPhase
  <1>10. agent'[a].at \notin {"tail", "unlink"}
    BY Zenon, <1>4
  <1> QED
    BY ZenonT(60), <1>1, <1>2, <1>3, <1>4, <1>5, <1>6, <1>7, <1>8, <1>9, <1>10, TailsStay, CoreStep

\* ProcessPendingEvictDirty, before it waits for the block.
LEMMA Written ==
  ASSUME Core, NEW b \in Blocks, ProcessPendingEvictDirty(b)
  PROVE  Core'
  <1> DEFINE g == [at |-> "written", b |-> b]
             a == Service
  <1>0. /\ a \in Agents /\ agent[a].at = "idle" /\ mutex[b] = Nobody
        /\ state[b] = "TO_INVALID"
    BY DEF Agents, ProcessPendingEvictDirty, Idle, Core, Asking
  <1>1. g \in Jobs /\ g.at = "written" /\ g.b = b
    BY Zenon DEF Jobs
  <1>2. /\ agent' \in [Agents -> Jobs] /\ agent'[a] = g
        /\ \A c \in Agents : c # a => agent'[c] = agent[c]
    BY ZenonT(60), <1>0, <1>1, Turned DEF Core, ProcessPendingEvictDirty
  <1> HIDE DEF g
  <1>3. /\ pending' \in [Blocks -> Requests] /\ pending'[b] = None
        /\ \A x \in Blocks : x # b => pending'[x] = pending[x]
    BY ZenonT(60), RequestKinds, PendingChange DEF Core, ProcessPendingEvictDirty
  <1>4. /\ state' = state /\ locked' = locked /\ pos' = pos /\ lists' = lists
        /\ mutex' = mutex /\ lru_locks' = lru_locks /\ used_bytes' = used_bytes
        /\ garbage' = garbage /\ calls' = calls /\ to_evicted' \in Int
    BY DEF ProcessPendingEvictDirty, Core, CacheTypeOK
  <1>5. Works(a, b) /\ OtherLines(b)
    BY ZenonT(60), <1>0, <1>1, <1>2, <1>3, <1>4 DEF Works, OtherLines, Holding
  <1>6. CacheTypeOK'
    BY ZenonT(60), <1>2, <1>3, <1>4 DEF Core, CacheTypeOK
  <1>7. InPhase(a)'
    BY ZenonT(60), <1>0, <1>1, <1>2, <1>3, <1>4 DEF InPhase
  <1>8. \A c \in Agents : c # a => agent[c].at # "written"
    BY Zenon DEF Core, Phases, InPhase
  <1>9. agent'[a].at \notin {"tail", "unlink"}
    BY Zenon, <1>1, <1>2
  <1>10. \A j \in Lists : Linked(b, j) => InPlace(b, j)'
    BY Zenon, <1>0, <1>4 DEF Core, Places, InPlace
  <1> HIDE DEF a
  <1> QED
    BY ZenonT(60), <1>0, <1>2, <1>3, <1>4, <1>5, <1>6, <1>7, <1>8, <1>9, <1>10, RequestKinds,
       TailsStay, CoreStep

\* A call that misses.
LEMMA Misses ==
  ASSUME Core, NEW t \in Threads, NEW b \in Blocks, Miss(t, b)
  PROVE  Core'
  <1> DEFINE g == [at |-> "evict", n |-> 1]
  <1>0. /\ t \in Agents /\ agent[t].at = "idle" /\ mutex[b] = Nobody
        /\ state[b] = "INVALID"
    BY DEF Agents, Miss, Call, Idle
  <1>1. g \in Jobs /\ g.at = "evict"
    BY DEF Jobs
  <1>2. /\ agent' \in [Agents -> Jobs] /\ agent'[t] = g
        /\ \A c \in Agents : c # t => agent'[c] = agent[c]
    BY Zenon, <1>0, <1>1, Turned DEF Core, Miss
  <1> HIDE DEF g
  <1>3. PICK op \in {"READ", "WRITE"}, lock \in BOOLEAN :
          /\ state' = [state EXCEPT ![b] = IF op = "READ" THEN "TO_SHARED" ELSE "TO_DIRTY"]
          /\ pending' = [pending EXCEPT ![b] = [op |-> op, lock |-> lock]]
    BY Zenon DEF Miss
  <1>4. /\ pending' \in [Blocks -> Requests]
        /\ pending'[b].op \in {"READ", "WRITE"}
        /\ \A x \in Blocks : x # b => pending'[x] = pending[x]
    BY Zenon, <1>3, RequestKinds, PendingChange DEF Core
  <1>5. /\ state' \in [Blocks -> {"INVALID", "TO_SHARED", "SHARED", "TO_DIRTY",
                                  "DIRTY", "TO_INVALID"}]
        /\ state'[b] \in {"TO_SHARED", "TO_DIRTY"}
        /\ \A x \in Blocks : x # b => state'[x] = state[x]
    BY ZenonT(60), <1>3, StateChange DEF Core
  <1>6. /\ locked' = locked /\ pos' = pos /\ lists' = lists
        /\ mutex' = mutex /\ lru_locks' = lru_locks /\ used_bytes' \in Int
        /\ garbage' = garbage /\ calls' \in [Threads -> Nat] /\ to_evicted' = to_evicted
    BY DEF Miss, Call, Core, CacheTypeOK
  <1>7. Works(t, b) /\ OtherLines(b)
    BY ZenonT(60), <1>0, <1>1, <1>2, <1>4, <1>5, <1>6 DEF Works, OtherLines, Holding
  <1>8. CacheTypeOK'
    BY ZenonT(60), <1>2, <1>4, <1>5, <1>6 DEF Core, CacheTypeOK
  <1>9. InPhase(t)'
    BY Zenon, <1>1, <1>2 DEF InPhase
  <1>10. \A c \in Agents : agent[c].at = "written" => agent[c].b # b
    BY Zenon, <1>0 DEF Core, Phases, InPhase
  <1>11. \A j \in Lists : ~Linked(b, j)
    BY Zenon, <1>0 DEF Core, Places, InPlace
  <1>12. agent'[t].at \notin {"tail", "unlink"}
    BY Zenon, <1>1, <1>2
  <1> QED
    BY ZenonT(60), <1>0, <1>2, <1>4, <1>5, <1>6, <1>7, <1>8, <1>9, <1>10, <1>11, <1>12,
       TailsStay, CoreStep

-----------------------------------------------------------------------------
(* The count of the lines *)

Live == {b \in Blocks : state[b] # "INVALID"}

\* The agent a has given the memory of its line back and goes to erase it.
Erases(a) == agent[a].at \in {"unlink", "erase"} /\ agent[a].then = "erase"

Erasing == {a \in Agents : Erases(a)}

\* UsedExact, in terms of the two sets.
LEMMA Counted ==
  UsedExact <=> used_bytes - garbage[1] = Cardinality(Live) - Cardinality(Erasing)
  BY Zenon DEF UsedExact, Live, Erasing, Erases

\* Both sets are finite, so that they can be counted.
LEMMA Finite ==
  /\ IsFiniteSet(Live) /\ IsFiniteSet(Erasing)
         /\ Cardinality(Live) \in Nat /\ Cardinality(Erasing) \in Nat
  <1>1. IsFiniteSet(Agents)
    <2>1. IsFiniteSet({Service}) /\ IsFiniteSet({Timer})
      BY Zenon, FS_Singleton
    <2>2. Agents = Threads \cup ({Service} \cup {Timer})
      BY Zenon DEF Agents
    <2> QED
      BY Zenon, LruAssumption, <2>1, <2>2, FS_Union
  <1>2. Live \subseteq Blocks /\ Erasing \subseteq Agents
    BY Zenon DEF Live, Erasing
  <1>3. IsFiniteSet(Live) /\ IsFiniteSet(Erasing)
    BY ZenonT(60), LruAssumption, <1>1, <1>2, FS_Subset
  <1> QED
    BY Zenon, <1>3, FS_CardinalityType

\* A step of the agent a on the line b that counts it in or out, or erases it.
LEMMA CountStep ==
  ASSUME CacheTypeOK, UsedExact, NEW a \in Agents, NEW b \in Blocks,
         \A c \in Agents : c # a => agent'[c] = agent[c],
         \A x \in Blocks : x # b => state'[x] = state[x],
         garbage' = garbage,
         \/ /\ Erases(a)' <=> Erases(a)
            /\ state'[b] = "INVALID" <=> state[b] = "INVALID"
            /\ used_bytes' = used_bytes
         \/ /\ Erases(a)' <=> Erases(a)
            /\ state'[b] # "INVALID" /\ state[b] = "INVALID"
            /\ used_bytes' = used_bytes + 1
         \/ /\ Erases(a)' /\ ~Erases(a)
            /\ state'[b] = "INVALID" <=> state[b] = "INVALID"
            /\ used_bytes' = used_bytes - 1
         \/ /\ ~Erases(a)' /\ Erases(a)
            /\ state'[b] = "INVALID" /\ state[b] # "INVALID"
            /\ used_bytes' = used_bytes
  PROVE  UsedExact'
  <1>1. /\ IsFiniteSet(Live) /\ IsFiniteSet(Erasing)
        /\ Cardinality(Live) \in Nat /\ Cardinality(Erasing) \in Nat
        /\ used_bytes \in Int /\ garbage[1] \in Int
    BY Zenon, Finite DEF CacheTypeOK
  <1>2. used_bytes - garbage[1] = Cardinality(Live) - Cardinality(Erasing)
    BY Zenon, Counted
  <1>3. UsedExact' <=>
          used_bytes' - garbage[1] = Cardinality(Live') - Cardinality(Erasing')
    BY Zenon DEF UsedExact, Live, Erasing, Erases
  <1>4. \A c \in Agents : c # a => (Erases(c)' <=> Erases(c))
    BY Zenon DEF Erases
  <1>5. /\ (Erases(a)' <=> Erases(a)) => Erasing' = Erasing
        /\ Erases(a)' /\ ~Erases(a) => Erasing' = Erasing \cup {a} /\ a \notin Erasing
        /\ ~Erases(a)' /\ Erases(a) => Erasing' = Erasing \ {a} /\ a \in Erasing
    BY <1>4, Zenon DEF Erasing
  <1>6. /\ (state'[b] = "INVALID" <=> state[b] = "INVALID") => Live' = Live
        /\ state'[b] # "INVALID" /\ state[b] = "INVALID" =>
             Live' = Live \cup {b} /\ b \notin Live
        /\ state'[b] = "INVALID" /\ state[b] # "INVALID" =>
             Live' = Live \ {b} /\ b \in Live
    BY Zenon DEF Live
  <1>7. /\ b \notin Live => Cardinality(Live \cup {b}) = Cardinality(Live) + 1
        /\ b \in Live => Cardinality(Live \ {b}) = Cardinality(Live) - 1
        /\ a \notin Erasing => Cardinality(Erasing \cup {a}) = Cardinality(Erasing) + 1
        /\ a \in Erasing => Cardinality(Erasing \ {a}) = Cardinality(Erasing) - 1
    BY Zenon, <1>1, FS_AddElement, FS_RemoveElement
  <1>8. CASE /\ Erases(a)' <=> Erases(a)
             /\ state'[b] = "INVALID" <=> state[b] = "INVALID"
             /\ used_bytes' = used_bytes
    <2>1. Live' = Live /\ Erasing' = Erasing
      BY ZenonT(60), <1>5, <1>6, <1>8
    <2> QED
      BY Zenon, <1>2, <1>3, <1>8, <2>1
  <1>9. CASE /\ Erases(a)' <=> Erases(a)
             /\ state'[b] # "INVALID" /\ state[b] = "INVALID"
             /\ used_bytes' = used_bytes + 1
    <2>1. Cardinality(Live') = Cardinality(Live) + 1 /\ Erasing' = Erasing
      BY ZenonT(60), <1>5, <1>6, <1>7, <1>9
    <2> QED
      BY SMTT(60), <1>1, <1>2, <1>3, <1>9, <2>1
  <1>10. CASE /\ Erases(a)' /\ ~Erases(a)
              /\ state'[b] = "INVALID" <=> state[b] = "INVALID"
              /\ used_bytes' = used_bytes - 1
    <2>1. Live' = Live /\ Cardinality(Erasing') = Cardinality(Erasing) + 1
      BY ZenonT(60), <1>5, <1>6, <1>7, <1>10
    <2> QED
      BY SMTT(60), <1>1, <1>2, <1>3, <1>10, <2>1
  <1>11. CASE /\ ~Erases(a)' /\ Erases(a)
              /\ state'[b] = "INVALID" /\ state[b] # "INVALID"
              /\ used_bytes' = used_bytes
    <2>1. /\ Cardinality(Live') = Cardinality(Live) - 1
          /\ Cardinality(Erasing') = Cardinality(Erasing) - 1
      BY ZenonT(60), <1>5, <1>6, <1>7, <1>11
    <2> QED
      BY SMTT(60), <1>1, <1>2, <1>3, <1>11, <2>1
  <1> QED
    BY ZenonT(60), <1>8, <1>9, <1>10, <1>11

\* A step that neither counts nor erases.
LEMMA CountStays ==
  ASSUME UsedExact, state' = state, garbage' = garbage, used_bytes' = used_bytes,
         \A c \in Agents : Erases(c)' <=> Erases(c)
  PROVE  UsedExact'
  <1>1. Erasing' = Erasing
    BY Zenon DEF Erasing
  <1>2. Live' = Live
    BY Zenon DEF Live
  <1>3. used_bytes - garbage[1] = Cardinality(Live) - Cardinality(Erasing)
    BY Zenon, Counted
  <1>4. UsedExact' <=>
          used_bytes' - garbage'[1] = Cardinality(Live') - Cardinality(Erasing')
    BY Zenon DEF UsedExact, Live, Erasing, Erases
  <1> QED
    BY Zenon, <1>1, <1>2, <1>3, <1>4

-----------------------------------------------------------------------------
(* The actions *)

\* ToInvalid of a line that exists and asks for nothing.
LEMMA Invalidates ==
  ASSUME IInv, NEW a \in Agents, NEW b \in Blocks, NEW n \in Int,
         ToInvalid(a, b, n),
         \/ agent[a].at \in {"idle", "written"} /\ mutex[b] = Nobody
         \/ agent[a].at = "victim" /\ agent[a].b = b,
         a = Service \/ state[b] # "TO_INVALID",
         state[b] # "INVALID", state' = state, locked' = locked,
         pending' = [pending EXCEPT ![b] = None],
         lists' = lists, lru_locks' = lru_locks, garbage' = garbage,
         to_evicted' = to_evicted, calls' = calls
  PROVE  IInv'
  <1>1. /\ UnLinkLRU(a, b, "erase", n) /\ used_bytes' = used_bytes - 1
        /\ used_bytes \in Int
    BY Zenon DEF ToInvalid, IInv, Core, CacheTypeOK
  <1>2. /\ pending' \in [Blocks -> Requests]
        /\ pending'[b] = None /\ \A x \in Blocks : x # b => pending'[x] = pending[x]
    BY Zenon, RequestKinds, PendingChange DEF IInv, Core
  <1>3. Core'
    <2>1. /\ state' \in [Blocks -> {"INVALID", "TO_SHARED", "SHARED", "TO_DIRTY",
                                    "DIRTY", "TO_INVALID"}]
          /\ locked' \subseteq Blocks /\ used_bytes' \in Int /\ to_evicted' \in Int
          /\ calls' \in [Threads -> Nat]
      BY <1>1 DEF IInv, Core, CacheTypeOK
    <2>2. pending'[b].op \notin {"PENDING_INVALIDATE", "WRITE_BACK"}
      BY Zenon, <1>2, RequestKinds
    <2> QED
      BY ZenonT(60), <1>1, <1>2, <2>1, <2>2, StartsUnlink DEF IInv
  <1>4. \A c \in Agents : c # a => agent'[c] = agent[c]
    BY Zenon, <1>1 DEF UnLinkLRU, IInv, Core, CacheTypeOK
  <1>5. ~Erases(a)
    BY Zenon DEF Erases
  <1>6. Erases(a)'
    BY Zenon, <1>1 DEF UnLinkLRU, IInv, Core, CacheTypeOK, Erases
  <1>7. UsedExact'
    BY ZenonT(60), <1>1, <1>4, <1>5, <1>6, CountStep DEF IInv, Core
  <1> QED
    BY Zenon, <1>3, <1>7 DEF IInv

\* ToInvalid by the service thread.
LEMMA ServiceInvalidates ==
  ASSUME IInv, NEW b \in Blocks, ToInvalid(Service, b, 0),
         agent[Service].at \in {"idle", "written"}, mutex[b] = Nobody,
         state[b] # "INVALID", state' = state, locked' = locked,
         pending' = [pending EXCEPT ![b] = None],
         lists' = lists, lru_locks' = lru_locks, garbage' = garbage,
         to_evicted' = to_evicted, calls' = calls
  PROVE  IInv'
  <1>1. PICK a \in Agents, n \in Int : a = Service /\ n = 0
    BY DEF Agents
  <1>2. /\ ToInvalid(a, b, n) /\ agent[a].at \in {"idle", "written"} /\ a = Service
    BY Zenon, <1>1
  <1> QED
    BY ZenonT(60), <1>2, Invalidates

\* The line leaves its list; it is counted as before.
LEMMA UnlinkStep ==
  ASSUME IInv, NEW a \in Agents, Unlink(a)
  PROVE  IInv'
  <1>1. Core'
    BY Zenon, Unlinks DEF IInv
  <1>2. /\ agent[a] \in [at : {"unlink", "link", "release", "erase"}, b : Blocks,
                         i : Lists \cup {NoList},
                         then : {"link", "release", "erase"}, n : Int]
        /\ agent[a].at = "unlink"
    BY Zenon, Fields DEF IInv, Core, Unlink
  <1>3. /\ agent'[a].at = agent[a].then /\ agent'[a].then = agent[a].then
        /\ \A c \in Agents : c # a => agent'[c] = agent[c]
    BY Zenon, <1>2 DEF Unlink, IInv, Core, CacheTypeOK
  <1>4. \A c \in Agents : Erases(c)' <=> Erases(c)
    BY Zenon, <1>2, <1>3 DEF Erases
  <1>5. UsedExact'
    BY Zenon, <1>4, CountStays DEF IInv, Unlink, lines, counters
  <1> QED
    BY Zenon, <1>1, <1>5 DEF IInv

\* The line is put at the head of a list; it is counted as before.
LEMMA LinkStep ==
  ASSUME IInv, NEW a \in Agents, LinkLRU(a)
  PROVE  IInv'
  <1>1. Core'
    BY Zenon, Links DEF IInv
  <1>2. /\ agent[a].at = "link" /\ agent'[a].at = "idle"
        /\ \A c \in Agents : c # a => agent'[c] = agent[c]
    BY Zenon DEF LinkLRU, IInv, Core, CacheTypeOK, Idle
  <1>3. \A c \in Agents : Erases(c)' <=> Erases(c)
    BY Zenon, <1>2 DEF Erases
  <1>4. UsedExact'
    BY ZenonT(60), <1>3, CountStays DEF IInv, LinkLRU, lines, counters
  <1> QED
    BY ZenonT(60), <1>1, <1>4 DEF IInv

\* The block of a line that waits for a write is given back.
LEMMA ReleaseStep ==
  ASSUME IInv, NEW a \in Agents, Release(a)
  PROVE  IInv'
  <1>1. PICK b \in Blocks : agent[a].b = b /\ agent[a].at = "release"
    BY Zenon, Fields DEF IInv, Core, Release, Holding
  <1>2. /\ mutex' = [mutex EXCEPT ![b] = Nobody]
        /\ agent' = [agent EXCEPT ![a] = Idle]
        /\ state' = state /\ locked' = locked /\ pending' = pending /\ pos' = pos
        /\ lists' = lists /\ lru_locks' = lru_locks /\ used_bytes' = used_bytes
        /\ to_evicted' = to_evicted /\ garbage' = garbage /\ calls' = calls
    BY Zenon, <1>1 DEF Release, lines, counters
  <1>3. Idle \in Jobs /\ Idle.at = "idle"
    BY Zenon DEF Idle, Jobs
  <1>4. PICK st \in {"INVALID", "TO_SHARED", "SHARED", "TO_DIRTY", "DIRTY",
                     "TO_INVALID"}, q \in Requests :
          /\ st = state[b] /\ q = pending[b]
          /\ state' = [state EXCEPT ![b] = st]
          /\ pending' = [pending EXCEPT ![b] = q]
    BY <1>2 DEF IInv, Core, CacheTypeOK
  <1>5. /\ st \in {"INVALID", "SHARED", "DIRTY"} => q = None
        /\ q.op \in {"PENDING_INVALIDATE", "WRITE_BACK"} => st = "TO_INVALID"
        /\ to_evicted' \in Int
    BY ZenonT(60), <1>2, <1>4 DEF IInv, Core, CacheTypeOK, Asking
  <1>6. Core'
    <2>1. /\ mutex' = [mutex EXCEPT ![b] = Nobody]
          /\ agent' = [agent EXCEPT ![a] = Idle]
          /\ locked' = locked /\ pos' = pos
          /\ lists' = lists /\ lru_locks' = lru_locks /\ used_bytes' = used_bytes
          /\ garbage' = garbage /\ calls' = calls
          /\ agent[a].at \in {"release", "erase", "victim"}
          /\ Idle.at \in {"idle", "pick"}
      BY Zenon, <1>1, <1>2, <1>3
    <2>2. /\ state' = [state EXCEPT ![b] = st]
          /\ pending' = [pending EXCEPT ![b] = q]
          /\ agent[a].b = b /\ Idle \in Jobs /\ Core
      BY Zenon, <1>1, <1>3, <1>4 DEF IInv
    <2> QED
      BY ZenonT(60), <1>5, <2>1, <2>2, GivesBack
  <1>7. /\ agent'[a].at = "idle"
        /\ \A c \in Agents : c # a => agent'[c] = agent[c]
    BY ZenonT(60), <1>2, <1>3 DEF IInv, Core, CacheTypeOK
  <1>8. \A c \in Agents : Erases(c)' <=> Erases(c)
    BY Zenon, <1>1, <1>7 DEF Erases
  <1>9. UsedExact'
    BY Zenon, <1>2, <1>8, CountStays DEF IInv
  <1> QED
    BY ZenonT(60), <1>6, <1>9 DEF IInv

\* The line goes, and so does the agent that erases it: the difference stays.
LEMMA EraseStep ==
  ASSUME IInv, NEW a \in Agents, Erase(a)
  PROVE  IInv'
  <1>1. PICK b \in Blocks :
          /\ agent[a].b = b /\ agent[a].at = "erase" /\ agent[a].then = "erase"
          /\ state[b] # "INVALID" /\ pending[b] = None /\ agent[a].n \in Int
    BY Zenon, Fields DEF IInv, Core, Erase, Holding, Phases, InPhase, Goal
  <1> DEFINE g == IF agent[a].n = 0 THEN Idle ELSE [at |-> "pick", n |-> agent[a].n - 1]
  <1>2. /\ mutex' = [mutex EXCEPT ![b] = Nobody]
        /\ agent' = [agent EXCEPT ![a] = g]
        /\ state' = [state EXCEPT ![b] = "INVALID"]
        /\ locked' = locked /\ pending' = pending /\ pos' = pos
        /\ lists' = lists /\ lru_locks' = lru_locks /\ used_bytes' = used_bytes
        /\ to_evicted' = to_evicted /\ garbage' = garbage /\ calls' = calls
    BY Zenon, <1>1 DEF Erase, counters
  <1>3. g \in Jobs /\ g.at \in {"idle", "pick"}
    <2>1. CASE agent[a].n = 0
      BY ZenonT(60), <2>1 DEF Idle, Jobs
    <2>2. CASE agent[a].n # 0
      BY <1>1, <2>2 DEF Jobs
    <2> QED
      BY Zenon, <2>1, <2>2
  <1> HIDE DEF g
  <1>4. pending' = [pending EXCEPT ![b] = None] /\ to_evicted' \in Int
    BY ZenonT(60), <1>1, <1>2 DEF IInv, Core, CacheTypeOK
  <1>5. Core'
    BY ZenonT(60), <1>1, <1>2, <1>3, <1>4, RequestKinds, GivesBack DEF IInv
  <1>6. /\ agent'[a] = g /\ \A c \in Agents : c # a => agent'[c] = agent[c]
        /\ state'[b] = "INVALID" /\ \A x \in Blocks : x # b => state'[x] = state[x]
    BY Zenon, <1>2 DEF IInv, Core, CacheTypeOK
  <1>7. Erases(a) /\ ~Erases(a)'
    BY Zenon, <1>1, <1>3, <1>6 DEF Erases
  <1>8. UsedExact'
    BY Zenon, <1>1, <1>2, <1>6, <1>7, CountStep DEF IInv, Core
  <1> QED
    BY Zenon, <1>5, <1>8 DEF IInv

\* The steps of GoesOn and TakesTail do not count.
LEMMA QuietStep ==
  ASSUME IInv, Core', NEW a \in Agents, NEW g \in Jobs,
         agent[a].at \notin {"unlink", "erase"}, g.at \notin {"unlink", "erase"},
         agent' = [agent EXCEPT ![a] = g],
         state' = state, garbage' = garbage, used_bytes' = used_bytes
  PROVE  IInv'
  <1>1. agent'[a] = g /\ \A c \in Agents : c # a => agent'[c] = agent[c]
    BY Zenon, Turned DEF IInv, Core
  <1>2. \A c \in Agents : Erases(c)' <=> Erases(c)
    BY Zenon, <1>1 DEF Erases
  <1> QED
    BY Zenon, <1>2, CountStays DEF IInv

\* Eviction begins or ends; no line changes.
LEMMA EvictStep ==
  ASSUME IInv, NEW a \in Agents, Evict(a) \/ EvictDone(a)
  PROVE  IInv'
  <1>1. /\ agent[a].at \in {"evict", "pick"} /\ agent[a].n \in Int /\ Over \in Int
    BY SMTT(60), LruAssumption, Fields DEF Evict, EvictDone, IInv, Core, Over, CacheTypeOK
  <1>2. PICK g \in Jobs :
          g.at \in {"idle", "pick"} /\ agent' = [agent EXCEPT ![a] = g]
    <2>1. Idle \in Jobs /\ Idle.at = "idle"
      BY Zenon DEF Idle, Jobs
    <2>2. \A n \in Int : [at |-> "pick", n |-> n] \in Jobs
      BY Zenon DEF Jobs
    <2>3. \A n \in Int : [at |-> "pick", n |-> n].at = "pick"
      BY Zenon
    <2>4. CASE EvictDone(a)
      BY ZenonT(60), <2>1, <2>4 DEF EvictDone
    <2>5. CASE Evict(a) /\ (used_bytes - to_evicted < 0 \/ Over <= 0)
      BY Zenon, <2>1, <2>5 DEF Evict
    <2>6. CASE Evict(a) /\ ~(used_bytes - to_evicted < 0 \/ Over <= 0)
      <3> DEFINE n == IF agent[a].n > Over THEN Over ELSE agent[a].n
      <3>1. n \in Int
        BY Zenon, <1>1
      <3>2. agent' = [agent EXCEPT ![a] = [at |-> "pick", n |-> n]]
        BY Zenon, <2>6 DEF Evict
      <3> HIDE DEF n
      <3> QED
        BY ZenonT(60), <2>2, <2>3, <3>1, <3>2
    <2> QED
      BY ZenonT(60), <2>4, <2>5, <2>6
  <1>3. /\ UNCHANGED <<lines, counters, pos, lists, mutex, calls>>
        /\ lru_locks' = lru_locks
    BY Zenon DEF Evict, EvictDone
  <1>4. Core'
    BY Zenon, <1>1, <1>2, <1>3, GoesOn DEF IInv
  <1> QED
    BY ZenonT(60), <1>1, <1>2, <1>3, <1>4, QuietStep DEF lines, counters

\* The timer starts to evict.
LEMMA CacheEvictorStep ==
  ASSUME IInv, CacheEvictor
  PROVE  IInv'
  <1> DEFINE g == [at |-> "evict", n |-> Over]
  <1>1. Timer \in Agents /\ agent[Timer].at = "idle" /\ Over \in Int
    BY LruAssumption DEF Agents, CacheEvictor, Idle, Over, IInv, Core, CacheTypeOK
  <1>2. g \in Jobs /\ g.at = "evict"
    BY Zenon, <1>1 DEF Jobs
  <1>3. /\ agent' = [agent EXCEPT ![Timer] = g]
        /\ UNCHANGED <<lines, counters, pos, lists, mutex, calls>>
        /\ lru_locks' = lru_locks
    BY Zenon DEF CacheEvictor
  <1> HIDE DEF g
  <1>4. Core'
    BY ZenonT(60), <1>1, <1>2, <1>3, GoesOn DEF IInv
  <1> QED
    BY ZenonT(60), <1>1, <1>2, <1>3, <1>4, QuietStep DEF lines, counters

\* Eviction takes the mutex of a list and looks at its tail.
LEMMA PickStep ==
  ASSUME IInv, NEW a \in Agents, NEW i \in Lists, Pick(a, i)
  PROVE  IInv'
  <1>1. /\ agent[a].at = "pick" /\ agent[a].n \in Int
        /\ agent[a] \in [at : {"evict", "pick"}, n : Int]
        /\ UNCHANGED <<lines, counters, pos, lists, mutex, calls>>
    BY Zenon, Fields DEF Pick, IInv, Core
  <1>2. CASE lru_locks[i] # Nobody
    <2> DEFINE g == [agent[a] EXCEPT !.n = agent[a].n - 1]
    <2>1. g \in Jobs /\ g.at = "pick"
      BY <1>1 DEF Jobs
    <2>2. agent' = [agent EXCEPT ![a] = g] /\ lru_locks' = lru_locks
      BY Zenon, <1>2 DEF Pick
    <2> HIDE DEF g
    <2>3. Core'
      BY ZenonT(60), <1>1, <2>1, <2>2, GoesOn DEF IInv
    <2> QED
      BY ZenonT(60), <1>1, <2>1, <2>2, <2>3, QuietStep DEF lines, counters
  <1>3. CASE lru_locks[i] = Nobody /\ lists[i] = <<>>
    <2>1. Idle \in Jobs /\ Idle.at = "idle"
      BY Zenon DEF Idle, Jobs
    <2>2. agent' = [agent EXCEPT ![a] = Idle] /\ lru_locks' = lru_locks
      BY Zenon, <1>3 DEF Pick
    <2>3. Core'
      BY ZenonT(60), <1>1, <2>1, <2>2, GoesOn DEF IInv
    <2> QED
      BY ZenonT(60), <1>1, <2>1, <2>2, <2>3, QuietStep DEF lines, counters
  <1>4. CASE lru_locks[i] = Nobody /\ lists[i] # <<>>
    <2> DEFINE g == [at |-> "tail", b |-> lists[i][Len(lists[i])], i |-> i,
                     n |-> agent[a].n]
    <2>1. agent' = [agent EXCEPT ![a] = g] /\ lru_locks' = [lru_locks EXCEPT ![i] = a]
      BY Zenon, <1>4 DEF Pick
    <2>2. Core'
      BY ZenonT(60), <1>1, <1>4, <2>1, TakesTail DEF IInv
    <2>3. g.at = "tail" /\ g \in Jobs
      <3>1. lists[i][Len(lists[i])] \in Blocks
        BY ZenonT(60), <1>4, LastListed DEF IInv, Core, CacheTypeOK
      <3> QED
        BY ZenonT(60), <1>1, <3>1 DEF Jobs
    <2> HIDE DEF g
    <2> QED
      BY ZenonT(60), <1>1, <2>1, <2>2, <2>3, QuietStep DEF lines, counters
  <1> QED
    BY ZenonT(60), <1>2, <1>3, <1>4

\* Eviction tries the mutex of the tail.
LEMMA TailStep ==
  ASSUME IInv, NEW a \in Agents, TryTail(a)
  PROVE  IInv'
  <1>1. Core'
    BY Zenon, TriesTail DEF IInv
  <1>2. /\ agent[a].at = "tail"
        /\ agent[a] \in [at : {"tail", "victim"}, b : Blocks, i : Lists, n : Int]
        /\ state' = state /\ garbage' = garbage /\ used_bytes' = used_bytes
    BY ZenonT(60), Fields DEF IInv, Core, TryTail, lines, counters
  <1>3. /\ agent'[a].at \in {"victim", "pick"}
        /\ \A c \in Agents : c # a => agent'[c] = agent[c]
    BY <1>2 DEF TryTail, IInv, Core, CacheTypeOK
  <1>4. \A c \in Agents : Erases(c)' <=> Erases(c)
    BY Zenon, <1>2, <1>3 DEF Erases
  <1> QED
    BY ZenonT(60), <1>1, <1>2, <1>4, CountStays DEF IInv

\* A shared line is given up at once, a dirty one is written back first.
LEMMA EvictLineStep ==
  ASSUME IInv, NEW a \in Agents, EvictLine(a)
  PROVE  IInv'
  <1>1. PICK b \in Blocks, n \in Int :
          /\ agent[a].at = "victim" /\ agent[a].b = b /\ agent[a].n = n
          /\ state[b] \in {"SHARED", "DIRTY"}
    BY Zenon, Fields DEF EvictLine, IInv, Core, Phases, InPhase, Holding
  <1>2. /\ pending[b] = None /\ locked' = locked /\ garbage' = garbage
        /\ lists' = lists /\ lru_locks' = lru_locks /\ calls' = calls
    BY Zenon, <1>1 DEF EvictLine, IInv, Core, Asking
  <1>3. CASE state[b] = "SHARED"
    <2>1. /\ ToInvalid(a, b, n) /\ state' = state /\ to_evicted' = to_evicted
          /\ pending' = pending
      BY Zenon, <1>1, <1>3 DEF EvictLine
    <2>2. pending' = [pending EXCEPT ![b] = None]
      BY Zenon, <1>2, <2>1 DEF IInv, Core, CacheTypeOK
    <2> QED
      BY ZenonT(60), <1>1, <1>2, <1>3, <2>1, <2>2, Invalidates
  <1>4. CASE state[b] # "SHARED"
    <2> DEFINE g == [at |-> "pick", n |-> n - 1]
               q == [op |-> "WRITE_BACK"]
    <2>1. /\ state' = [state EXCEPT ![b] = "TO_INVALID"]
          /\ pending' = [pending EXCEPT ![b] = q]
          /\ to_evicted' = to_evicted + 1
          /\ mutex' = [mutex EXCEPT ![b] = Nobody]
          /\ agent' = [agent EXCEPT ![a] = g]
          /\ used_bytes' = used_bytes /\ pos' = pos
      BY ZenonT(60), <1>1, <1>4 DEF EvictLine, ToToInvalid
    <2>2. /\ g \in Jobs /\ g.at \in {"idle", "pick"} /\ to_evicted' \in Int
          /\ q \in Requests
      BY SMTT(60), <1>1, <2>1, RequestKinds DEF Jobs, IInv, Core, CacheTypeOK
    <2> HIDE DEF g, q
    <2>3. Core'
      BY ZenonT(60), <1>1, <1>2, <2>1, <2>2, GivesBack DEF IInv
    <2>4. /\ agent'[a].at \in {"idle", "pick"}
          /\ \A c \in Agents : c # a => agent'[c] = agent[c]
          /\ state'[b] = "TO_INVALID" /\ \A x \in Blocks : x # b => state'[x] = state[x]
      BY Zenon, <2>1, <2>2 DEF IInv, Core, CacheTypeOK
    <2>5. ~Erases(a) /\ ~Erases(a)'
      BY Zenon, <1>1, <2>4 DEF Erases
    <2>6. UsedExact'
      BY ZenonT(60), <1>1, <1>2, <2>1, <2>4, <2>5, CountStep DEF IInv, Core
    <2> QED
      BY Zenon, <2>3, <2>6 DEF IInv
  <1> QED
    BY ZenonT(60), <1>3, <1>4

\* A miss makes a line and counts it.
LEMMA MissStep ==
  ASSUME IInv, NEW t \in Threads, NEW b \in Blocks, Miss(t, b)
  PROVE  IInv'
  <1>1. Core'
    BY ZenonT(60), Misses DEF IInv
  <1>2. /\ t \in Agents /\ agent[t].at = "idle" /\ agent'[t].at = "evict"
        /\ \A c \in Agents : c # t => agent'[c] = agent[c]
    BY DEF Miss, Call, Idle, Agents, IInv, Core, CacheTypeOK
  <1>3. /\ state[b] = "INVALID" /\ state'[b] # "INVALID"
        /\ \A x \in Blocks : x # b => state'[x] = state[x]
        /\ used_bytes' = used_bytes + 1 /\ garbage' = garbage
    BY Zenon DEF Miss, IInv, Core, CacheTypeOK
  <1>4. ~Erases(t) /\ ~Erases(t)'
    BY Zenon, <1>2 DEF Erases
  <1>5. UsedExact'
    BY ZenonT(60), <1>2, <1>3, <1>4, CountStep DEF IInv, Core
  <1> QED
    BY Zenon, <1>1, <1>5 DEF IInv

\* A handler that keeps the line.
LEMMA HitStep ==
  ASSUME IInv, NEW t \in Threads, NEW b \in Blocks,
         Hit(t, b) \/ Upgrade(t, b)
  PROVE  IInv'
  <1>1. PICK then \in {"link", "release"} :
          /\ UnLinkLRU(t, b, then, 0)
          /\ then = "link" => state'[b] \in {"SHARED", "DIRTY"}
          /\ then = "release" => state'[b] = "TO_DIRTY"
    BY ZenonT(60) DEF Hit, Upgrade, IInv, Core, CacheTypeOK
  <1>2. /\ t \in Agents /\ agent[t].at = "idle" /\ mutex[b] = Nobody
        /\ state[b] \in {"SHARED", "DIRTY"} /\ pending[b] = None
    BY DEF Hit, Upgrade, Call, Idle, Agents, IInv, Core, Asking
  <1>3. /\ lists' = lists /\ lru_locks' = lru_locks /\ garbage' = garbage
        /\ used_bytes' = used_bytes /\ to_evicted' = to_evicted
        /\ used_bytes' \in Int /\ to_evicted' \in Int /\ calls' \in [Threads -> Nat]
    BY SMTT(60) DEF Hit, Upgrade, Call, counters, IInv, Core, CacheTypeOK
  <1>4. /\ locked' \subseteq Blocks
        /\ \A x \in Blocks : x # b => (x \in locked' <=> x \in locked)
    BY Zenon DEF Hit, Upgrade, IInv, Core, CacheTypeOK
  <1>5. /\ state' \in [Blocks -> {"INVALID", "TO_SHARED", "SHARED", "TO_DIRTY",
                                  "DIRTY", "TO_INVALID"}]
        /\ state'[b] \in {"SHARED", "DIRTY", "TO_DIRTY"}
        /\ \A x \in Blocks : x # b => state'[x] = state[x]
    BY Zenon DEF Hit, Upgrade, IInv, Core, CacheTypeOK
  <1>6. /\ pending' \in [Blocks -> Requests]
        /\ pending'[b].op \in {"none", "WRITE_PERMISSION_ONLY"}
        /\ state'[b] \in {"INVALID", "SHARED", "DIRTY"} => pending'[b] = None
        /\ \A x \in Blocks : x # b => pending'[x] = pending[x]
    <2>1. CASE Hit(t, b)
      BY ZenonT(60), <1>2, <2>1, RequestKinds DEF Hit, IInv, Core, CacheTypeOK
    <2>2. CASE Upgrade(t, b)
      <3>1. PICK lock \in BOOLEAN :
              pending' = [pending EXCEPT ![b] =
                [op |-> "WRITE_PERMISSION_ONLY", lock |-> lock]]
        BY Zenon, <2>2 DEF Upgrade
      <3> DEFINE q == [op |-> "WRITE_PERMISSION_ONLY", lock |-> lock]
      <3>2. q \in Requests /\ q.op = "WRITE_PERMISSION_ONLY"
        BY ZenonT(60), RequestKinds
      <3>3. state'[b] = "TO_DIRTY"
        BY ZenonT(60), <2>2 DEF Upgrade, IInv, Core, CacheTypeOK
      <3> HIDE DEF q
      <3> QED
        BY ZenonT(60), <3>1, <3>2, <3>3, PendingChange DEF IInv, Core, q
    <2> QED
      BY ZenonT(60), <2>1, <2>2
  <1>7. Core'
    BY SMTT(60), <1>1, <1>2, <1>3, <1>4, <1>5, <1>6, StartsUnlink DEF IInv
  <1>8. /\ agent'[t].then = then /\ \A c \in Agents : c # t => agent'[c] = agent[c]
    BY ZenonT(60), <1>1, <1>2 DEF UnLinkLRU, IInv, Core, CacheTypeOK
  <1>9. ~Erases(t) /\ ~Erases(t)'
    BY ZenonT(60), <1>2, <1>8 DEF Erases
  <1>10. UsedExact'
    BY ZenonT(60), <1>2, <1>3, <1>5, <1>8, <1>9, CountStep DEF IInv, Core
  <1> QED
    BY ZenonT(60), <1>7, <1>10 DEF IInv

\* The steps of LineChanges do not count.
LEMMA LineStep ==
  ASSUME IInv, Core', NEW b \in Blocks, agent' = agent,
         \A x \in Blocks : x # b => state'[x] = state[x],
         state'[b] # "INVALID" \/ state' = state, state[b] # "INVALID" \/ state' = state,
         garbage' = garbage, used_bytes' = used_bytes
  PROVE  IInv'
  <1>1. Service \in Agents /\ (Erases(Service)' <=> Erases(Service))
    BY Zenon DEF Agents, Erases
  <1>2. UsedExact'
    BY ZenonT(60), <1>1, CountStep DEF IInv, Core
  <1> QED
    BY Zenon, <1>2 DEF IInv

\* A lock is released.
LEMMA UnLockStep ==
  ASSUME IInv, NEW t \in Threads, NEW b \in Blocks, UnLock(t, b)
  PROVE  IInv'
  <1>1. /\ t \in Agents /\ agent[t] = Idle /\ mutex[b] = Nobody
        /\ agent' = agent /\ mutex' = mutex /\ lists' = lists /\ lru_locks' = lru_locks
        /\ pos' = pos /\ garbage' = garbage /\ used_bytes' = used_bytes
        /\ calls' = calls /\ to_evicted' = to_evicted /\ locked' = locked \ {b}
        /\ state' = state /\ pending' = pending
    BY Zenon DEF UnLock, Agents, counters
  <1>2. PICK st \in {"INVALID", "TO_SHARED", "SHARED", "TO_DIRTY", "DIRTY",
                     "TO_INVALID"}, q \in Requests :
          /\ st = state[b] /\ q = pending[b]
          /\ state' = [state EXCEPT ![b] = st]
          /\ pending' = [pending EXCEPT ![b] = q]
    BY <1>1 DEF IInv, Core, CacheTypeOK
  <1>3. /\ st \in {"INVALID", "SHARED", "DIRTY"} => q = None
        /\ q.op \in {"PENDING_INVALIDATE", "WRITE_BACK"} => st = "TO_INVALID"
    BY Zenon, <1>2 DEF IInv, Core, Asking
  <1>4. /\ to_evicted' \in Int /\ locked' \subseteq Blocks
        /\ \A x \in Blocks : x # b => (x \in locked' <=> x \in locked)
    BY Zenon, <1>1 DEF IInv, Core, CacheTypeOK
  <1>5. Core'
    <2>1. /\ st = state[b] /\ q = pending[b]
          /\ state' = [state EXCEPT ![b] = st]
          /\ pending' = [pending EXCEPT ![b] = q]
      BY Zenon, <1>2
    <2>2. /\ t \in Agents /\ agent[t] = Idle /\ mutex[b] = Nobody
          /\ agent' = agent /\ mutex' = mutex /\ lists' = lists
          /\ lru_locks' = lru_locks /\ pos' = pos /\ garbage' = garbage
          /\ used_bytes' = used_bytes /\ calls' = calls /\ Core
      BY Zenon, <1>1 DEF IInv
    <2> QED
      BY ZenonT(60), <1>3, <1>4, <2>1, <2>2, LineChanges
  <1> QED
    BY ZenonT(60), <1>1, <1>5, LineStep

\* The answer to a request arrives, and the line is linked.
LEMMA GrantedStep ==
  ASSUME IInv, NEW b \in Blocks, Granted(b)
  PROVE  IInv'
  <1>1. Core'
    BY ZenonT(60), TakesLink DEF IInv
  <1>2. /\ Service \in Agents /\ agent[Service].at = "idle"
        /\ agent'[Service].at = "link"
        /\ \A c \in Agents : c # Service => agent'[c] = agent[c]
    BY DEF Granted, Serve, Idle, Agents, IInv, Core, CacheTypeOK
  <1>3. /\ state[b] # "INVALID" /\ state'[b] # "INVALID"
        /\ \A x \in Blocks : x # b => state'[x] = state[x]
        /\ used_bytes' = used_bytes /\ garbage' = garbage
    BY Zenon DEF Granted, IInv, Core, CacheTypeOK, counters
  <1>4. ~Erases(Service) /\ ~Erases(Service)'
    BY Zenon, <1>2 DEF Erases
  <1>5. UsedExact'
    BY ZenonT(60), <1>2, <1>3, <1>4, CountStep DEF IInv, Core
  <1> QED
    BY Zenon, <1>1, <1>5 DEF IInv

\* A try that is refused leaves the line without a request.
LEMMA RefusedTryStep ==
  ASSUME IInv, NEW b \in Blocks, RefusedTry(b)
  PROVE  IInv'
  <1>1. /\ Service \in Agents /\ agent[Service] = Idle /\ agent[Service].at = "idle"
        /\ mutex[b] = Nobody /\ state[b] \in {"TO_SHARED", "TO_DIRTY"}
        /\ pending' = [pending EXCEPT ![b] = None] /\ None \in Requests
        /\ locked' = locked /\ to_evicted' = to_evicted /\ garbage' = garbage
        /\ lists' = lists /\ lru_locks' = lru_locks /\ calls' = calls
        /\ locked \subseteq Blocks /\ to_evicted' \in Int
    BY RequestKinds DEF RefusedTry, Serve, Agents, Idle, IInv, Core, CacheTypeOK
  <1>2. CASE pending[b].op = "WRITE_PERMISSION_ONLY"
    <2>1. /\ state' = [state EXCEPT ![b] = "SHARED"] /\ used_bytes' = used_bytes
          /\ pos' = pos /\ mutex' = mutex /\ agent' = agent
      BY Zenon, <1>2 DEF RefusedTry
    <2>2. Core'
      BY ZenonT(60), <1>1, <2>1, RequestKinds, LineChanges DEF IInv
    <2>3. /\ \A x \in Blocks : x # b => state'[x] = state[x]
          /\ state'[b] = "SHARED"
      BY Zenon, <2>1 DEF IInv, Core, CacheTypeOK
    <2> QED
      BY ZenonT(60), <1>1, <2>1, <2>2, <2>3, LineStep
  <1>3. CASE pending[b].op # "WRITE_PERMISSION_ONLY"
    <2>1. ToInvalid(Service, b, 0) /\ state' = state
      BY Zenon, <1>3 DEF RefusedTry
    <2> QED
      BY Zenon, <1>1, <2>1, ServiceInvalidates
  <1> QED
    BY ZenonT(60), <1>2, <1>3

\* The home asks for a shared line, which is given up.
LEMMA InvalidateStep ==
  ASSUME IInv, NEW b \in Blocks, Invalidate(b)
  PROVE  IInv'
  <1>1. /\ Service \in Agents /\ agent[Service].at = "idle" /\ mutex[b] = Nobody
        /\ state[b] = "SHARED" /\ pending[b] = None
        /\ locked' = locked /\ to_evicted' = to_evicted /\ garbage' = garbage
        /\ lists' = lists /\ lru_locks' = lru_locks /\ calls' = calls
        /\ state' = state /\ ToInvalid(Service, b, 0)
    BY DEF Invalidate, Serve, Agents, Idle, lines, IInv, Core, Asking
  <1>2. pending' = [pending EXCEPT ![b] = None]
    BY Zenon, <1>1 DEF Invalidate, lines, IInv, Core, CacheTypeOK
  <1> QED
    BY ZenonT(60), <1>1, <1>2, ServiceInvalidates

\* A write back has reached the home, and the line is given up.
LEMMA CompletionStep ==
  ASSUME IInv, NEW b \in Blocks, CompletionCheck(b)
  PROVE  IInv'
  <1>1. /\ Service \in Agents /\ agent[Service].at = "idle" /\ mutex[b] = Nobody
        /\ state[b] = "TO_INVALID"
        /\ locked' = locked /\ to_evicted' = to_evicted /\ garbage' = garbage
        /\ lists' = lists /\ lru_locks' = lru_locks /\ calls' = calls
        /\ state' = state /\ ToInvalid(Service, b, 0)
        /\ pending' = [pending EXCEPT ![b] = None]
    BY DEF CompletionCheck, Serve, Agents, Idle, IInv, Core, Asking
  <1> QED
    BY ZenonT(60), <1>1, ServiceInvalidates

\* A line that was written back is given up.
LEMMA DropStep ==
  ASSUME IInv, DropEvicted
  PROVE  IInv'
  <1>1. PICK b \in Blocks : agent[Service].b = b
    BY Zenon, Fields DEF DropEvicted, Agents, IInv, Core
  <1>2. /\ Service \in Agents /\ agent[Service].at = "written" /\ mutex[b] = Nobody
        /\ state[b] = "TO_INVALID" /\ pending[b] = None
        /\ locked' = locked /\ to_evicted' = to_evicted /\ garbage' = garbage
        /\ lists' = lists /\ lru_locks' = lru_locks /\ calls' = calls
        /\ state' = state /\ ToInvalid(Service, b, 0)
    BY Zenon, <1>1 DEF DropEvicted, Agents, lines, IInv, Core, Phases, InPhase
  <1>3. pending' = [pending EXCEPT ![b] = None]
    BY Zenon, <1>2 DEF DropEvicted, lines, IInv, Core, CacheTypeOK
  <1> QED
    BY Zenon, <1>2, <1>3, ServiceInvalidates

\* The home has taken a line that was written back.
LEMMA WrittenStep ==
  ASSUME IInv, NEW b \in Blocks, ProcessPendingEvictDirty(b)
  PROVE  IInv'
  <1>1. Core'
    BY ZenonT(60), Written DEF IInv
  <1>2. /\ Service \in Agents /\ agent[Service].at = "idle"
        /\ agent'[Service].at = "written"
        /\ \A c \in Agents : c # Service => agent'[c] = agent[c]
    BY DEF ProcessPendingEvictDirty, Idle, Agents, IInv, Core, CacheTypeOK
  <1>3. \A c \in Agents : Erases(c)' <=> Erases(c)
    BY Zenon, <1>2 DEF Erases
  <1>4. UsedExact'
    BY Zenon, <1>3, CountStays DEF IInv, ProcessPendingEvictDirty
  <1> QED
    BY Zenon, <1>1, <1>4 DEF IInv

\* The home worker takes the data of a dirty line, and perhaps the line.
LEMMA FetchStep ==
  ASSUME IInv, NEW b \in Blocks,
         FetchAndShared(b) \/ FetchAndInvalidate(b)
  PROVE  IInv'
  <1>1. /\ Service \in Agents /\ agent[Service] = Idle /\ mutex[b] = Nobody
        /\ state[b] = "DIRTY" /\ pending[b] = None
        /\ agent' = agent /\ mutex' = mutex /\ lists' = lists /\ lru_locks' = lru_locks
        /\ pos' = pos /\ garbage' = garbage /\ used_bytes' = used_bytes
        /\ calls' = calls /\ locked' = locked /\ locked \subseteq Blocks
    BY Zenon DEF FetchAndShared, FetchAndInvalidate, Serve, Agents, counters, IInv, Core,
      Asking, CacheTypeOK
  <1>2. CASE FetchAndShared(b)
    <2>1. /\ state' = [state EXCEPT ![b] = "SHARED"]
          /\ pending' = [pending EXCEPT ![b] = None] /\ to_evicted' \in Int
      BY ZenonT(60), <1>1, <1>2 DEF FetchAndShared, counters, IInv, Core, CacheTypeOK
    <2>2. Core'
      BY ZenonT(60), <1>1, <2>1, RequestKinds, LineChanges DEF IInv
    <2>3. /\ \A x \in Blocks : x # b => state'[x] = state[x]
          /\ state'[b] = "SHARED"
      BY Zenon, <2>1 DEF IInv, Core, CacheTypeOK
    <2> QED
      BY ZenonT(60), <1>1, <2>2, <2>3, LineStep
  <1>3. CASE FetchAndInvalidate(b)
    <2> DEFINE q == [op |-> "PENDING_INVALIDATE"]
    <2>1. /\ state' = [state EXCEPT ![b] = "TO_INVALID"]
          /\ pending' = [pending EXCEPT ![b] = q] /\ to_evicted' \in Int
      BY <1>3 DEF FetchAndInvalidate, ToToInvalid, IInv, Core, CacheTypeOK
    <2>2. q \in Requests
      BY Zenon, RequestKinds
    <2> HIDE DEF q
    <2>3. Core'
      BY ZenonT(60), <1>1, <2>1, <2>2, LineChanges DEF IInv
    <2>4. /\ \A x \in Blocks : x # b => state'[x] = state[x]
          /\ state'[b] = "TO_INVALID"
      BY Zenon, <2>1 DEF IInv, Core, CacheTypeOK
    <2> QED
      BY ZenonT(60), <1>1, <2>3, <2>4, LineStep
  <1> QED
    BY Zenon, <1>2, <1>3

-----------------------------------------------------------------------------
(* The invariant *)

\* The cache starts empty.
LEMMA InitIInv ==
  ASSUME CacheInit
  PROVE  IInv
  <1>1. /\ \A a \in Agents : agent[a] = Idle /\ agent[a].at = "idle"
        /\ \A b \in Blocks : state[b] = "INVALID" /\ pending[b] = None /\ mutex[b] = Nobody
        /\ \A i \in Lists : lists[i] = <<>>
    BY Zenon DEF CacheInit, Idle
  <1>2. CacheTypeOK
    <2>1. Idle \in Jobs
      BY Zenon DEF Idle, Jobs
    <2>2. garbage \in Int \X Int /\ used_bytes \in Int /\ to_evicted \in Int
      BY Zenon, LruAssumption DEF CacheInit
    <2>3. \A i \in Lists : <<>> \in Seq(Blocks)
      BY SMT
    <2> QED
      BY ZenonT(60), <2>1, <2>2, <2>3, RequestKinds DEF CacheInit, CacheTypeOK
  <1>3. Mutexes
    BY Zenon, <1>1 DEF Mutexes, Holding
  <1>4. Places
    <2>1. \A i \in Lists : Once(lists[i])
      BY <1>1 DEF Once
    <2>2. \A b \in Blocks, i \in Lists : ~Linked(b, i)
      BY <1>1 DEF Linked, Listed
    <2> QED
      BY ZenonT(60), <1>1, <2>1, <2>2 DEF Places
  <1>5. Phases
    BY Zenon, <1>1 DEF Phases, InPhase
  <1>6. Asking
    BY Zenon, <1>1, RequestKinds DEF Asking
  <1>7. UsedExact
    <2>1. Live = {} /\ Erasing = {}
      BY Zenon, <1>1 DEF Live, Erasing, Erases
    <2>2. Cardinality(Live) = 0 /\ Cardinality(Erasing) = 0
      BY ZenonT(60), <2>1, FS_EmptySet
    <2>3. used_bytes - garbage[1] = 0
      BY <1>2 DEF CacheInit, CacheTypeOK
    <2> QED
      BY <2>2, <2>3, Counted
  <1> QED
    BY ZenonT(60), <1>2, <1>3, <1>4, <1>5, <1>6, <1>7 DEF IInv, Core

\* Every step, and every stutter, keeps the inductive invariant.
LEMMA NextIInv ==
  ASSUME IInv, [CacheNext]_CacheVars
  PROVE  IInv'
  <1>1. ASSUME NEW a \in Agents, Running(a) PROVE IInv'
    BY ZenonT(60), <1>1, UnlinkStep, LinkStep, ReleaseStep, EraseStep, EvictStep, TailStep,
       EvictLineStep DEF Running
  <1>2. ASSUME NEW a \in Agents, NEW i \in Lists, Pick(a, i) PROVE IInv'
    BY ZenonT(60), <1>2, PickStep
  <1>3. ASSUME NEW t \in Threads, Application(t) PROVE IInv'
    BY ZenonT(60), <1>3, MissStep, HitStep DEF Application
  <1>4. ASSUME NEW t \in Threads, NEW b \in Blocks, UnLock(t, b) PROVE IInv'
    BY Zenon, <1>4, UnLockStep
  <1>5. ASSUME NEW b \in Blocks, Answer(b) PROVE IInv'
    BY ZenonT(60), <1>5, GrantedStep, RefusedTryStep, CompletionStep, WrittenStep DEF Answer
  <1>6. ASSUME NEW b \in Blocks, Asked(b) PROVE IInv'
    BY ZenonT(60), <1>6, InvalidateStep, FetchStep DEF Asked
  <1>7. ASSUME UNCHANGED CacheVars PROVE IInv'
    <2>1. CacheTypeOK' /\ Mutexes'
      BY ZenonT(60), <1>7 DEF CacheVars, IInv, Core, CacheTypeOK, Mutexes
    <2>2. Places'
      BY <1>7 DEF CacheVars, IInv, Core, Places, InPlace, Linked
    <2>3. Phases' /\ Asking' /\ UsedExact'
      BY ZenonT(60), <1>7 DEF CacheVars, IInv, Core, Phases, InPhase, Asking, UsedExact
    <2> QED
      BY ZenonT(60), <2>1, <2>2, <2>3 DEF IInv, Core
  <1> QED
    BY ZenonT(60), <1>1, <1>2, <1>3, <1>4, <1>5, <1>6, <1>7, DropStep, CacheEvictorStep DEF CacheNext

\* The inductive invariant holds in every reachable state.
LEMMA Invariance ==
  CacheSpec => []IInv
  <1>1. CacheInit => IInv
    BY Zenon, InitIInv
  <1>2. IInv /\ [CacheNext]_CacheVars => IInv'
    BY Zenon, NextIInv
  <1> QED
    BY <1>1, <1>2, PTL DEF CacheSpec

\* Whatever threads call, whatever the home workers ask for and whenever lines
\* are evicted: a line is on one list at most, the one that its pos names, no
\* list holds a line that is gone, and used_bytes counts the lines (LinkLRU,
\* UnLinkLRU, Evict and ToInvalid in cache.cc).
THEOREM CacheIsSound ==
  CacheSpec => []CacheSound
  <1>1. ASSUME IInv PROVE CacheSound
    <2>1. \A i \in Lists : Once(lists[i])
      BY Zenon, <1>1 DEF IInv, Core, Places
    <2>2. ASSUME NEW b \in Blocks, NEW i \in Lists, Linked(b, i)
          PROVE  /\ state[b] \in {"SHARED", "DIRTY", "TO_INVALID"} \/ mutex[b] # Nobody
                 /\ state[b] # "INVALID"
                 /\ \A j \in Lists \ {i} : ~Linked(b, j)
                 /\ mutex[b] = Nobody => pos[b] = i
      <3>1. InPlace(b, i) /\ \A j \in Lists : Linked(b, j) => InPlace(b, j)
        BY Zenon, <1>1, <2>2 DEF IInv, Core, Places
      <3>2. CASE mutex[b] = Nobody
        BY Zenon, <3>1, <3>2 DEF InPlace
      <3>3. CASE mutex[b] # Nobody
        <4> DEFINE g == agent[mutex[b]]
        <4>1. /\ mutex[b] \in Agents /\ g.at = "unlink" /\ g.i = i /\ g.b = b
              /\ InPhase(mutex[b])
          BY <1>1, <3>1, <3>3 DEF InPlace, IInv, Core, CacheTypeOK, Mutexes, Phases
        <4>2. g.then \in {"link", "release", "erase"}
          BY Zenon, <1>1, <4>1, Fields DEF IInv, Core
        <4>3. state[b] # "INVALID"
          BY Zenon, <4>1, <4>2 DEF InPhase, Goal
        <4> QED
          BY ZenonT(60), <3>1, <3>3, <4>1, <4>3 DEF InPlace
      <3> QED
        BY Zenon, <3>2, <3>3
    <2> QED
      BY Zenon, <1>1, <2>1, <2>2 DEF CacheSound, ListsSound, IInv, Core
  <1> QED
    BY <1>1, Invariance, PTL

\* Evict(int) reads a line without its mutex, tries the mutex and then tests
\* the line: what it takes is neither locked nor does it await an answer
\* (cache.cc 701-743).
THEOREM EvictionIsQuiet ==
  CacheSpec => []EvictsOnlyQuiet
  <1>1. ASSUME IInv PROVE EvictsOnlyQuiet
    <2> SUFFICES ASSUME NEW a \in Agents, agent[a].at = "victim"
                 PROVE  /\ agent[a].b \notin locked
                        /\ state[agent[a].b] \in {"SHARED", "DIRTY"}
                        /\ pending[agent[a].b] = None
      BY Zenon DEF EvictsOnlyQuiet
    <2>1. agent[a].b \in Blocks /\ InPhase(a)
      BY Zenon, <1>1, Fields DEF IInv, Core, Holding, Phases
    <2> QED
      BY Zenon, <1>1, <2>1 DEF InPhase, IInv, Core, Asking
  <1> QED
    BY <1>1, Invariance, PTL

-----------------------------------------------------------------------------
(* Lines that eviction can find *)

\* A line that could be evicted is on the list that its pos names.
CanFind(b) ==
  mutex[b] = Nobody /\ state[b] \in {"SHARED", "DIRTY"} =>
    pos[b] \in Lists /\ Linked(b, pos[b])

Found == \A b \in Blocks : CanFind(b)

\* Only the line b changes, and no other line leaves its list.
LEMMA FoundStep ==
  ASSUME Found, NEW b \in Blocks, CanFind(b)',
         \A x \in Blocks : x # b =>
           /\ state'[x] = state[x] /\ pos'[x] = pos[x] /\ mutex'[x] = mutex[x]
           /\ \A i \in Lists : Linked(x, i) => Linked(x, i)'
  PROVE  Found'
  <1> SUFFICES ASSUME NEW x \in Blocks, x # b PROVE CanFind(x)'
    BY Zenon DEF Found
  <1>1. CanFind(x)
    BY Zenon DEF Found
  <1>2. CASE mutex[x] = Nobody /\ state[x] \in {"SHARED", "DIRTY"}
    <2>1. PICK i \in Lists : i = pos[x] /\ Linked(x, i)
      BY Zenon, <1>1, <1>2 DEF CanFind
    <2>2. Linked(x, i)' /\ pos'[x] = i
      BY Zenon, <2>1
    <2> QED
      BY Zenon, <2>2 DEF CanFind, Linked
  <1>3. CASE ~(mutex[x] = Nobody /\ state[x] \in {"SHARED", "DIRTY"})
    BY Zenon, <1>3 DEF CanFind
  <1> QED
    BY Zenon, <1>2, <1>3

\* A step that keeps the lists and does not leave a line evictable that was
\* not so before.
LEMMA FoundKept ==
  ASSUME Found, NEW b \in Blocks, lists' = lists,
         \A x \in Blocks : x # b =>
           state'[x] = state[x] /\ pos'[x] = pos[x] /\ mutex'[x] = mutex[x],
         \/ mutex'[b] # Nobody
         \/ state'[b] \notin {"SHARED", "DIRTY"}
         \/ /\ mutex[b] = Nobody /\ state[b] \in {"SHARED", "DIRTY"}
            /\ pos'[b] = pos[b]
  PROVE  Found'
  <1>1. \A x \in Blocks, i \in Lists : Linked(x, i) => Linked(x, i)'
    BY Zenon DEF Linked
  <1>2. CanFind(b)
    BY Zenon DEF Found
  <1>3. CanFind(b)'
    BY Zenon, <1>2 DEF CanFind, Linked
  <1> QED
    BY Zenon, <1>1, <1>3, FoundStep

\* A step that changes no line and no list.
LEMMA FoundSame ==
  ASSUME Found, lists' = lists, state' = state, pos' = pos, mutex' = mutex
  PROVE  Found'
  BY Zenon DEF Found, CanFind, Linked

\* The agent that takes a block keeps it.
LEMMA FoundTaken ==
  ASSUME IInv, Found, NEW a \in Agents, NEW b \in Blocks,
         mutex' = [mutex EXCEPT ![b] = a], lists' = lists,
         \A x \in Blocks : x # b => state'[x] = state[x] /\ pos'[x] = pos[x]
  PROVE  Found'
  <1>1. mutex'[b] = a /\ a # Nobody /\ \A x \in Blocks : x # b => mutex'[x] = mutex[x]
    BY Zenon, LruAssumption DEF IInv, Core, CacheTypeOK
  <1> QED
    BY Zenon, <1>1, FoundKept

\* UnLinkLRU takes the block first.
LEMMA FoundUnLink ==
  ASSUME IInv, Found, NEW a \in Agents, NEW b \in Blocks,
         NEW then, NEW n, UnLinkLRU(a, b, then, n), lists' = lists,
         \A x \in Blocks : x # b => state'[x] = state[x]
  PROVE  Found'
  <1>1. \A x \in Blocks : x # b => pos'[x] = pos[x]
    BY Zenon DEF UnLinkLRU, IInv, Core, CacheTypeOK
  <1>2. mutex' = [mutex EXCEPT ![b] = a]
    BY Zenon DEF UnLinkLRU
  <1> QED
    BY Zenon, <1>1, <1>2, FoundTaken

\* Every step but a refused try keeps evictable lines on their lists.
LEMMA NextFound ==
  ASSUME ~TryLocks, IInv, Found, CacheNext
  PROVE  Found'
  <1> USE DEF lines, counters
  <1>1. ASSUME NEW a \in Agents, Unlink(a) PROVE Found'
    <2>1. PICK b \in Blocks, i \in Lists :
            agent[a].b = b /\ agent[a].i = i /\ mutex[b] = a /\ a # Nobody
      BY LruAssumption, <1>1, Fields DEF IInv, Core, Mutexes, Unlink, Holding
    <2>2. /\ lists' = [lists EXCEPT ![i] = Unlinked(@, b)]
          /\ state' = state /\ pos' = pos /\ mutex' = mutex
      BY Zenon, <1>1, <2>1 DEF Unlink
    <2>3. \A x \in Blocks, j \in Lists : x # b /\ Linked(x, j) => Linked(x, j)'
      BY Zenon, <2>2, UnlinkFrom DEF IInv, Core
    <2>4. CanFind(b)'
      BY Zenon, <2>1, <2>2 DEF CanFind
    <2> QED
      BY ZenonT(60), <2>2, <2>3, <2>4, FoundStep
  <1>2. ASSUME NEW a \in Agents, LinkLRU(a) PROVE Found'
    <2>1. PICK b \in Blocks :
            /\ agent[a].b = b /\ agent[a].at = "link" /\ mutex[b] = a /\ a # Nobody
      BY LruAssumption, <1>2, Fields DEF IInv, Core, Mutexes, LinkLRU, Holding
    <2>2. PICK i \in Lists :
            /\ lists' = [lists EXCEPT ![i] = <<b>> \o @]
            /\ pos' = [pos EXCEPT ![b] = i]
      BY Zenon, <1>2, <2>1 DEF LinkLRU
    <2>3. /\ state' = state /\ pos'[b] = i
          /\ \A x \in Blocks : x # b => pos'[x] = pos[x] /\ mutex'[x] = mutex[x]
      BY Zenon, <1>2, <2>1, <2>2 DEF LinkLRU, IInv, Core, CacheTypeOK
    <2>4. ~Linked(b, i)
      BY Zenon, <2>1 DEF IInv, Core, Places, InPlace
    <2>5. \A x \in Blocks, j \in Lists :
            Linked(x, j)' <=> Linked(x, j) \/ (x = b /\ j = i)
      BY Zenon, <2>2, <2>4, LinkTo DEF IInv, Core
    <2>6. CanFind(b)'
      <3>1. Linked(b, i)'
        BY Zenon, <2>5
      <3> QED
        BY Zenon, <2>3, <3>1 DEF CanFind, Linked
    <2> QED
      BY ZenonT(60), <2>3, <2>5, <2>6, FoundStep
  <1>3. ASSUME NEW a \in Agents, Release(a) \/ Erase(a) PROVE Found'
    <2>1. PICK b \in Blocks : agent[a].b = b
      BY Zenon, <1>3, Fields DEF IInv, Core, Release, Erase, Holding
    <2>2. /\ state'[b] \in {"TO_DIRTY", "INVALID"} /\ lists' = lists
          /\ \A x \in Blocks : x # b =>
               state'[x] = state[x] /\ pos'[x] = pos[x] /\ mutex'[x] = mutex[x]
      BY Zenon, <1>3, <2>1 DEF Release, Erase, IInv, Core, CacheTypeOK, Phases, InPhase, Goal
    <2> QED
      BY Zenon, <2>2, FoundKept
  <1>4. ASSUME NEW a \in Agents, Evict(a) \/ EvictDone(a) PROVE Found'
    BY Zenon, <1>4, FoundSame DEF Evict, EvictDone
  <1>5. ASSUME NEW a \in Agents, TryTail(a) PROVE Found'
    <2>1. PICK b \in Blocks, i \in Lists :
            agent[a].b = b /\ agent[a].i = i /\ a # Nobody
      BY Zenon, LruAssumption, <1>5, Fields DEF IInv, Core, TryTail
    <2>2. state' = state /\ pos' = pos
      BY Zenon, <1>5 DEF TryTail
    <2>3. CASE lists' = lists /\ mutex' = mutex
      BY Zenon, <2>2, <2>3, FoundSame
    <2>4. CASE /\ lists' = [lists EXCEPT ![i] = Unlinked(@, b)]
               /\ mutex' = [mutex EXCEPT ![b] = a]
      <3>1. \A x \in Blocks, j \in Lists : x # b /\ Linked(x, j) => Linked(x, j)'
        BY Zenon, <2>4, UnlinkFrom DEF IInv, Core
      <3>2. mutex'[b] = a /\ \A x \in Blocks : x # b => mutex'[x] = mutex[x]
        BY Zenon, <2>4 DEF IInv, Core, CacheTypeOK
      <3>3. CanFind(b)'
        BY Zenon, <2>1, <3>2 DEF CanFind
      <3> QED
        BY Zenon, <2>2, <3>1, <3>2, <3>3, FoundStep
    <2> QED
      BY Zenon, <1>5, <2>1, <2>3, <2>4 DEF TryTail
  <1>6. ASSUME NEW a \in Agents, EvictLine(a) PROVE Found'
    <2>1. PICK b \in Blocks : agent[a].b = b
      BY Zenon, <1>6, Fields DEF IInv, Core, EvictLine, Holding
    <2>2. CASE state[b] = "SHARED"
      BY Zenon, <1>6, <2>1, <2>2, FoundUnLink DEF EvictLine, ToInvalid
    <2>3. CASE state[b] # "SHARED"
      <3>1. /\ state'[b] = "TO_INVALID" /\ lists' = lists
            /\ \A x \in Blocks : x # b =>
                 state'[x] = state[x] /\ pos'[x] = pos[x] /\ mutex'[x] = mutex[x]
        BY <1>6, <2>1, <2>3 DEF EvictLine, ToToInvalid, IInv, Core, CacheTypeOK
      <3> QED
        BY ZenonT(60), <3>1, FoundKept
    <2> QED
      BY Zenon, <2>2, <2>3
  <1>7. ASSUME NEW a \in Agents, NEW i \in Lists, Pick(a, i) PROVE Found'
    BY Zenon, <1>7, FoundSame DEF Pick
  <1>8. ASSUME NEW t \in Threads, NEW b \in Blocks, Miss(t, b) PROVE Found'
    <2>1. /\ state'[b] \in {"TO_SHARED", "TO_DIRTY"} /\ lists' = lists
          /\ \A x \in Blocks : x # b =>
               state'[x] = state[x] /\ pos'[x] = pos[x] /\ mutex'[x] = mutex[x]
      BY Zenon, <1>8 DEF Miss, IInv, Core, CacheTypeOK
    <2> QED
      BY Zenon, <2>1, FoundKept
  <1>9. ASSUME NEW t \in Threads, NEW b \in Blocks, Hit(t, b) \/ Upgrade(t, b)
        PROVE  Found'
    <2>1. /\ t \in Agents /\ lists' = lists
          /\ \A x \in Blocks : x # b => state'[x] = state[x]
      BY Zenon, <1>9 DEF Hit, Upgrade, Agents, IInv, Core, CacheTypeOK
    <2>2. PICK then, n : UnLinkLRU(t, b, then, n)
      BY Zenon, <1>9 DEF Hit, Upgrade
    <2> QED
      BY Zenon, <2>1, <2>2, FoundUnLink
  <1>10. ASSUME NEW t \in Threads, NEW b \in Blocks, UnLock(t, b) PROVE Found'
    BY Zenon, <1>10, FoundSame DEF UnLock
  <1>11. ASSUME NEW b \in Blocks, Granted(b) PROVE Found'
    <2>1. /\ Service \in Agents /\ lists' = lists /\ pos' = pos
          /\ \A x \in Blocks : x # b => state'[x] = state[x]
          /\ mutex' = [mutex EXCEPT ![b] = Service]
      BY Zenon, <1>11 DEF Granted, Agents, IInv, Core, CacheTypeOK
    <2> QED
      BY Zenon, <2>1, FoundTaken
  <1>12. ASSUME NEW b \in Blocks, ToInvalid(Service, b, 0), lists' = lists, state' = state
         PROVE  Found'
    <2>1. Service \in Agents /\ UnLinkLRU(Service, b, "erase", 0)
      BY Zenon, <1>12 DEF ToInvalid, Agents
    <2>2. PICK then, n : UnLinkLRU(Service, b, then, n)
      BY Zenon, <2>1
    <2> QED
      BY Zenon, <1>12, <2>1, <2>2, FoundUnLink
  <1>13. ASSUME NEW b \in Blocks, CompletionCheck(b) \/ Invalidate(b) PROVE Found'
    BY Zenon, <1>12, <1>13 DEF CompletionCheck, Invalidate
  <1>14. ASSUME DropEvicted PROVE Found'
    <2>1. agent[Service].b \in Blocks
      BY Zenon, <1>14, Fields DEF DropEvicted, Agents, IInv, Core
    <2> QED
      BY Zenon, <1>12, <1>14, <2>1 DEF DropEvicted
  <1>15. ASSUME NEW b \in Blocks, ProcessPendingEvictDirty(b) PROVE Found'
    BY Zenon, <1>15, FoundSame DEF ProcessPendingEvictDirty
  <1>16. ASSUME NEW b \in Blocks, FetchAndShared(b) \/ FetchAndInvalidate(b)
         PROVE  Found'
    <2>1. /\ state[b] = "DIRTY" /\ lists' = lists /\ pos' = pos /\ mutex' = mutex
          /\ mutex[b] = Nobody
          /\ \A x \in Blocks : x # b => state'[x] = state[x]
      BY Zenon, <1>16 DEF FetchAndShared, FetchAndInvalidate, ToToInvalid, Serve, IInv, Core,
        CacheTypeOK
    <2> QED
      BY Zenon, <2>1, FoundKept
  <1>17. ASSUME CacheEvictor PROVE Found'
    BY Zenon, <1>17, FoundSame DEF CacheEvictor
  <1>18. \A b \in Blocks : ~RefusedTry(b)
    BY Zenon DEF RefusedTry
  <1> QED
    BY ZenonT(60), <1>1, <1>2, <1>3, <1>4, <1>5, <1>6, <1>7, <1>8, <1>9, <1>10, <1>11, <1>13, <1>14,
       <1>15, <1>16, <1>17, <1>18
    DEF CacheNext, Running, Application, Answer, Asked

\* Without Try_RLock and Try_WLock every line that could be evicted is on a
\* list, where eviction finds it: a line is unlinked only by the one who holds
\* its block or while it awaits an answer (cache.cc 423-425).
THEOREM LinesAreEvictable ==
  ASSUME ~TryLocks
  PROVE  CacheSpec => []Evictable
  <1>1. CacheInit => Found
    BY Zenon DEF CacheInit, Found, CanFind
  <1>2. IInv /\ Found /\ [CacheNext]_CacheVars => Found'
    <2>1. ASSUME IInv, Found, CacheNext PROVE Found'
      BY Zenon, <2>1, NextFound
    <2>2. ASSUME Found, UNCHANGED CacheVars PROVE Found'
      BY Zenon, <2>2, FoundSame DEF CacheVars
    <2> QED
      BY Zenon, <2>1, <2>2
  <1>3. Found => Evictable
    BY Zenon DEF Found, CanFind, Evictable
  <1> QED
    BY <1>1, <1>2, <1>3, Invariance, PTL DEF CacheSpec

=============================================================================

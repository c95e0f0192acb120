-------------------------- MODULE EventLoopProofs ---------------------------
(***************************************************************************)
(* The timer of EventLoop is neither late nor early, for every period,     *)
(* every unit of time(NULL), every amount by which the clock is ahead and  *)
(* every bound on the time.                                                *)
(*                                                                         *)
(* The timer is due at when, which is one period after the latest run on   *)
(* the clock of that moment.  If that clock was ahead and has been set     *)
(* back since, the timer seems to be due only when the right clock has     *)
(* come as far.  The step back is noticed if it takes the clock below the  *)
(* second in which the latest run began: lastTime is never below it.  So   *)
(* one that goes unnoticed is shorter than the time since that run and one *)
(* second more (Small), and the time since that run was within Limit.      *)
(***************************************************************************)
EXTENDS EventLoop, TLAPS

\* The step back may go unnoticed.
Small == ahead < eviction_period + 2 * Second

\* The latest run saw the right clock, or a step back would be noticed.
DueInTime == when = fired + eviction_period \/ Small

\* The latest moment at which the loop wakes up for its timer.
Limit ==
    IF DueInTime THEN when + Second ELSE fired + eviction_period + Second

IInv ==
    /\ EvictorOnTime
    /\ fired <= real /\ real <= Limit
    /\ when \in {fired + eviction_period, fired + ahead + eviction_period}
    /\ when = fired + ahead + eviction_period
         => lastTime >= (fired + ahead) \div Second
    /\ at = "poll" => wall < when
    /\ at = "late" => wall < when + Second
    /\ at \in {"poll", "late"} => DueInTime \/ offset = ahead
    /\ at \notin {"poll", "late"} => wake <= Limit

-----------------------------------------------------------------------------
(* Arithmetic *)

\* What time(NULL) and the milliseconds are to a time.
LEMMA Parts ==
  ASSUME NEW S \in Nat \ {0}, NEW x \in Int
  PROVE  /\ x \div S \in Int
         /\ x % S \in 0 .. (S - 1)
         /\ x = (S * (x \div S)) + (x % S)
  <1>1. x \div S \in Int
    OBVIOUS
  <1>2. x % S \in 0 .. (S - 1)
    OBVIOUS
  <1>3. x = (S * (x \div S)) + (x % S)
    OBVIOUS
  <1> QED
    BY <1>1, <1>2, <1>3

\* A time that is not negative shows no negative second.
LEMMA Positive ==
  ASSUME NEW S \in Nat \ {0}, NEW x \in Nat
  PROVE  x \div S \in Nat
  OBVIOUS

\* A later second begins a whole second later.
LEMMA Multiples ==
  ASSUME NEW S \in Nat \ {0}, NEW a \in Int, NEW b \in Int, a < b
  PROVE  S * a + S <= S * b
  OBVIOUS

\* A clock that shows no earlier second is back by less than a second.
LEMMA SameSecond ==
  ASSUME NEW S \in Nat \ {0}, NEW x \in Int, NEW y \in Int,
         x \div S >= y \div S
  PROVE  y < x + S
  <1> DEFINE a == y \div S
             b == x \div S
  <1>1. a \in Int /\ b \in Int /\ a <= b
    BY Parts
  <1>2. S * a <= S * b /\ S * a \in Int /\ S * b \in Int
    <2>1. CASE a = b
      BY <1>1, <2>1
    <2>2. CASE a < b
      BY <1>1, <2>2, Multiples
    <2> QED
      BY <1>1, <2>1, <2>2
  <1>3. /\ y = (S * a) + (y % S) /\ y % S \in 0 .. (S - 1)
        /\ x = (S * b) + (x % S) /\ x % S \in 0 .. (S - 1)
    BY Parts
  <1> HIDE DEF a, b
  <1> QED
    BY <1>1, <1>2, <1>3

\* The timeout of a timer that is overdue by at most a second ends a second
\* after the timer was due, or is 0.
LEMMA Overdue ==
  ASSUME NEW S \in Nat \ {0}, NEW k \in 1 .. S
  PROVE  (-k) % S = IF k = S THEN 0 ELSE S - k
  OBVIOUS

-----------------------------------------------------------------------------
(* The steps *)

\* The timer of a new worker is due one period ahead.
LEMMA InitIInv ==
  ASSUME TimerInit
  PROVE  IInv
  <1>1. /\ eviction_period \in Nat \ {0} /\ Second \in Nat \ {0}
        /\ ahead \in Nat \ {0} /\ real = Second /\ fired = real
        /\ offset \in {0, ahead} /\ when = real + offset + eviction_period
        /\ lastTime = (real + offset) \div Second
        /\ at = "poll" /\ wake = 0 /\ early = FALSE
    BY EventLoopAssumption DEF TimerInit, wall, ToNow
  <1>2. lastTime \in Nat
    BY <1>1, Positive
  <1>3. TimerTypeOK
    <2>1. early \in BOOLEAN /\ ahead \in Aheads
      BY Zenon DEF TimerInit
    <2>2. real \in Nat /\ when \in Nat /\ wake \in Nat /\ fired \in Nat
      BY <1>1
    <2> QED
      BY <1>1, <1>2, <2>1, <2>2 DEF TimerTypeOK
  <1>4. OnTime /\ NotTooEarly
    BY <1>1 DEF OnTime, NotTooEarly
  <1>5. fired <= real /\ real <= Limit
    BY <1>1 DEF Limit, DueInTime, Small
  <1>6. /\ when \in {fired + eviction_period, fired + ahead + eviction_period}
        /\ when = fired + ahead + eviction_period => offset = ahead
        /\ offset = ahead \/ when = fired + eviction_period
    BY <1>1
  <1>7. when = fired + ahead + eviction_period
          => lastTime >= (fired + ahead) \div Second
    BY <1>1, <1>2, <1>6
  <1>8. wall < when
    BY <1>1 DEF wall
  <1> QED
    BY <1>1, <1>3, <1>4, <1>5, <1>6, <1>7, <1>8
    DEF IInv, EvictorOnTime, DueInTime

\* What the invariant says of the numbers.
LEMMA Numbers ==
  ASSUME IInv
  PROVE  /\ eviction_period \in Nat \ {0} /\ Second \in Nat \ {0}
         /\ real \in Nat /\ ahead \in Nat \ {0} /\ offset \in Nat
         /\ offset \in {0, ahead}
         /\ when \in Nat /\ lastTime \in Nat /\ wake \in Nat /\ fired \in Nat
         /\ wall \in Nat /\ Limit \in Nat
         /\ MaxGap \in 1 .. Second
         /\ when \in {fired + eviction_period, fired + ahead + eviction_period}
  BY EventLoopAssumption DEF IInv, EvictorOnTime, TimerTypeOK, wall, Limit

\* Whoever is within Limit is on time.
LEMMA WithinLimit ==
  ASSUME NEW p \in Nat \ {0}, NEW S \in Nat \ {0}, NEW a \in Nat,
         NEW f \in Nat, NEW w \in {f + p, f + a + p}, NEW r \in Nat,
         r <= IF w = f + p \/ a < p + 2 * S THEN w + S ELSE f + p + S
  PROVE  r - f < 2 * p + 3 * S
  <1>1. CASE w = f + p
    BY <1>1
  <1>2. CASE w # f + p /\ a < p + 2 * S
    BY <1>2
  <1>3. CASE w # f + p /\ ~(a < p + 2 * S)
    BY <1>3
  <1> QED
    BY <1>1, <1>2, <1>3

\* The thread is held up by at most a second.
LEMMA LateStep ==
  ASSUME IInv, NEW gap \in 1 .. MaxGap, Late(gap)
  PROVE  IInv'
  <1> USE Numbers
  <1>1. /\ at = "poll" /\ at' = "late" /\ real' = real + gap
        /\ offset' = offset /\ ahead' = ahead /\ when' = when
        /\ lastTime' = lastTime /\ wake' = wake /\ fired' = fired
        /\ early' = early
    BY DEF Late
  <1>2. gap \in Nat /\ gap <= Second /\ real' \in Nat
    BY <1>1
  <1>3. wall < when /\ wall' = wall + gap /\ wall' < when' + Second
    BY <1>1, <1>2 DEF wall, IInv
  <1>4. Limit' = Limit /\ (DueInTime' <=> DueInTime)
    BY <1>1 DEF Limit, DueInTime, Small
  <1>5. real' <= Limit
    <2>1. CASE DueInTime
      BY <1>1, <1>2, <1>3, <2>1 DEF wall, Limit
    <2>2. CASE ~DueInTime
      <3>1. offset = ahead /\ when = fired + ahead + eviction_period
        BY <1>1, <2>2 DEF IInv, DueInTime
      <3> QED
        BY <1>1, <1>2, <1>3, <2>2, <3>1 DEF wall, Limit
    <2> QED
      BY <2>1, <2>2
  <1>6. OnTime'
    BY <1>1, <1>2, <1>4, <1>5, WithinLimit DEF OnTime, Limit, DueInTime, Small
  <1>7. TimerTypeOK' /\ NotTooEarly'
    BY <1>1, <1>2 DEF IInv, EvictorOnTime, TimerTypeOK, NotTooEarly
  <1> QED
    BY <1>1, <1>2, <1>3, <1>4, <1>5, <1>6, <1>7 DEF IInv, EvictorOnTime

\* epoll_wait is given the time that is missing, or the rest of a second.
LEMMA PollStep ==
  ASSUME IInv, Poll
  PROVE  IInv'
  <1> USE Numbers
  <1>1. /\ at \in {"poll", "late"} /\ at' = "sleep" /\ wake' = real + Timeout
        /\ real' = real /\ offset' = offset /\ ahead' = ahead /\ when' = when
        /\ lastTime' = lastTime /\ fired' = fired /\ early' = early
    BY DEF Poll
  <1>2. wall < when + Second
    BY <1>1 DEF IInv
  <1>3. wake' \in Nat /\ wake' + offset <= when + Second
    <2>1. CASE when >= wall
      BY <1>1, <2>1 DEF Timeout, wall
    <2>2. CASE when < wall
      <3> DEFINE k == wall - when
      <3>1. k \in 1 .. Second /\ when - wall = -k /\ ~(when >= wall)
        BY <1>2, <2>2
      <3>2. Timeout = (-k) % Second
        BY <3>1 DEF Timeout
      <3>3. (-k) % Second = IF k = Second THEN 0 ELSE Second - k
        <4> HIDE DEF k
        <4> QED
          BY ZenonT(60), <3>1, Overdue
      <3>4. Timeout \in Nat /\ Timeout <= Second - k
        BY <3>1, <3>2, <3>3
      <3> QED
        BY <1>1, <3>1, <3>4 DEF wall
    <2> QED
      BY <2>1, <2>2
  <1>4. Limit' = Limit /\ (DueInTime' <=> DueInTime)
    BY <1>1 DEF Limit, DueInTime, Small
  <1>5. wake' <= Limit
    <2>1. CASE DueInTime
      BY <1>3, <2>1 DEF Limit
    <2>2. CASE ~DueInTime
      <3>1. offset = ahead /\ when = fired + ahead + eviction_period
        BY <1>1, <2>2 DEF IInv, DueInTime
      <3> QED
        BY <1>3, <2>2, <3>1 DEF Limit
    <2> QED
      BY <2>1, <2>2
  <1>6. EvictorOnTime'
    BY <1>1, <1>3 DEF IInv, EvictorOnTime, TimerTypeOK, OnTime, NotTooEarly
  <1> QED
    BY <1>1, <1>4, <1>5, <1>6 DEF IInv

\* The loop wakes up, handles a descriptor, sleeps on, or sees its clock set.
LEMMA AsleepStep ==
  ASSUME ~SetAnyTime, IInv,
         Ready \/ Handled \/ TimedOut \/ Tick \/ SetClock
  PROVE  IInv'
  <1> USE Numbers
  <1>1. /\ at \in {"sleep", "handle"} /\ at' \in {"sleep", "handle", "time"}
        /\ ahead' = ahead /\ when' = when /\ lastTime' = lastTime
        /\ wake' = wake /\ fired' = fired /\ early' = early
        /\ real' = real \/ (real < wake /\ real' = real + 1)
        /\ offset' = offset \/ offset' = ahead - offset
    BY DEF Ready, Handled, TimedOut, Tick, SetClock
  <1>2. real' \in Nat /\ offset' \in {0, ahead} /\ real <= real'
    BY <1>1
  <1>3. Limit' = Limit /\ wake <= Limit
    BY <1>1 DEF IInv, Limit, DueInTime, Small
  <1>4. fired <= real' /\ real' <= Limit
    BY <1>1, <1>2, <1>3 DEF IInv
  <1>5. OnTime'
    BY <1>1, <1>2, <1>4, WithinLimit DEF OnTime, Limit, DueInTime, Small
  <1>6. TimerTypeOK' /\ NotTooEarly'
    BY <1>1, <1>2 DEF IInv, EvictorOnTime, TimerTypeOK, NotTooEarly
  <1>7. at' \notin {"poll", "late"}
    BY <1>1
  <1> QED
    BY <1>1, <1>3, <1>4, <1>5, <1>6, <1>7 DEF IInv, EvictorOnTime

\* The timer is run, because it is due or because the clock was set back.
LEMMA FireStep ==
  ASSUME IInv, processTimeEvents, Skewed \/ wall >= when
  PROVE  IInv'
  <1> USE Numbers
  <1>1. /\ at' = "poll" /\ lastTime' = wall \div Second
        /\ when' = real + offset + eviction_period /\ fired' = real
        /\ early' = (~Skewed /\ offset = 0 /\ real < fired + eviction_period)
        /\ real' = real /\ offset' = offset /\ ahead' = ahead /\ wake' = wake
    BY DEF processTimeEvents, NextWhen, ToNow, wall
  <1>2. lastTime' \in Nat /\ when' \in Nat
    BY <1>1, Positive
  <1>3. early' = FALSE
    <2>1. CASE Skewed
      BY ZenonT(60), <1>1, <2>1
    <2>2. CASE ~Skewed /\ offset = 0
      <3>1. ~(real < fired + eviction_period)
        BY <2>2 DEF wall
      <3> QED
        BY ZenonT(60), <1>1, <3>1
    <2>3. CASE offset # 0
      BY ZenonT(60), <1>1, <2>3
    <2> QED
      BY ZenonT(60), <2>1, <2>2, <2>3
  <1>4. TimerTypeOK' /\ NotTooEarly'
    <2>1. early' \in BOOLEAN /\ ~early'
      BY <1>3, Zenon
    <2>2. ahead' \in Aheads
      BY <1>1 DEF IInv, EvictorOnTime, TimerTypeOK
    <2> QED
      BY <1>1, <1>2, <2>1, <2>2 DEF TimerTypeOK, NotTooEarly
  <1>5. OnTime' /\ fired' <= real'
    BY <1>1 DEF OnTime
  <1>6. /\ when' \in {fired' + eviction_period, fired' + ahead' + eviction_period}
        /\ when' = fired' + ahead' + eviction_period => offset = ahead
        /\ offset' = ahead' \/ DueInTime'
    BY <1>1 DEF DueInTime
  <1>7. when' = fired' + ahead' + eviction_period
          => lastTime' >= (fired' + ahead') \div Second
    BY <1>1, <1>2, <1>6 DEF wall
  <1>8. real' <= Limit' /\ wall' < when'
    BY <1>1 DEF Limit, wall
  <1> QED
    BY <1>1, <1>4, <1>5, <1>6, <1>7, <1>8 DEF IInv, EvictorOnTime

\* The timer is not due.  If the clock of its latest run was ahead and is
\* right now, the step back went unnoticed and was short.
LEMMA NotDueStep ==
  ASSUME IInv, processTimeEvents, ~(Skewed \/ wall >= when)
  PROVE  IInv'
  <1> USE Numbers
  <1>1. /\ at = "time" /\ at' = "poll" /\ lastTime' = wall \div Second
        /\ when' = when /\ fired' = fired /\ early' = early
        /\ real' = real /\ offset' = offset /\ ahead' = ahead /\ wake' = wake
    BY DEF processTimeEvents
  <1>2. wall < when /\ wall \div Second \in Nat /\ wall \div Second >= lastTime
    BY Positive DEF Skewed
  <1>3. EvictorOnTime'
    BY <1>1, <1>2 DEF IInv, EvictorOnTime, TimerTypeOK, OnTime, NotTooEarly
  <1>4. Limit' = Limit /\ (DueInTime' <=> DueInTime) /\ wall' = wall
    BY <1>1 DEF Limit, DueInTime, Small, wall
  <1>5. when = fired + ahead + eviction_period
          => wall \div Second >= (fired + ahead) \div Second
    <2> SUFFICES ASSUME when = fired + ahead + eviction_period
                 PROVE  wall \div Second >= (fired + ahead) \div Second
      OBVIOUS
    <2>1. lastTime >= (fired + ahead) \div Second
      BY DEF IInv
    <2>2. (fired + ahead) \div Second \in Nat
      BY Positive
    <2> QED
      BY <1>2, <2>1, <2>2
  <1>6. DueInTime \/ offset = ahead
    <2> SUFFICES ASSUME ~DueInTime, offset # ahead
                 PROVE  FALSE
      OBVIOUS
    <2>1. when = fired + ahead + eviction_period /\ offset = 0 /\ wall = real
      BY DEF DueInTime, wall
    <2>2. fired + ahead < real + Second
      <3> DEFINE y == fired + ahead
      <3>1. y \in Int /\ real \in Int /\ real \div Second >= y \div Second
        BY <1>5, <2>1
      <3> HIDE DEF y
      <3>2. y < real + Second
        BY <3>1, SameSecond
      <3> QED
        BY <3>2 DEF y
    <2>3. real <= fired + eviction_period + Second
      BY DEF IInv, Limit
    <2> QED
      BY <2>2, <2>3 DEF DueInTime, Small
  <1> QED
    BY <1>1, <1>2, <1>3, <1>4, <1>5, <1>6 DEF IInv

\* Every step of the loop, and every stutter, keeps the invariant.
LEMMA NextIInv ==
  ASSUME ~SetAnyTime, IInv, [TimerNext]_TimerVars
  PROVE  IInv'
  <1>1. CASE TimerNext
    BY <1>1, LateStep, PollStep, AsleepStep, FireStep, NotDueStep DEF TimerNext
  <1>2. CASE UNCHANGED TimerVars
    BY <1>2 DEF TimerVars, IInv, EvictorOnTime, TimerTypeOK, OnTime, NotTooEarly, Limit,
      DueInTime, Small, wall
  <1> QED
    BY <1>1, <1>2

\* With a clock that is right or ahead by one amount, and set only while the
\* loop sleeps, CacheEvictor runs again in less than two periods and three
\* seconds, and not before its period is over unless it is forced
\* (aeProcessEvents and processTimeEvents), whatever the amount is.
THEOREM EvictorIsOnTime ==
  ASSUME ~SetAnyTime
  PROVE  TimerSpec => []EvictorOnTime
  <1>1. TimerInit => IInv
    BY InitIInv
  <1>2. IInv /\ [TimerNext]_TimerVars => IInv'
    BY NextIInv
  <1>3. IInv => EvictorOnTime
    BY DEF IInv
  <1> QED
    BY <1>1, <1>2, <1>3, PTL DEF TimerSpec

=============================================================================

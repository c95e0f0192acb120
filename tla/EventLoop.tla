----------------------------- MODULE EventLoop ------------------------------
(***************************************************************************)
(* The event loop of a worker (src/ae.cc over src/ae_epoll.cc): it sleeps  *)
(* in epoll_wait until a descriptor is ready or the nearest timer is due,  *)
(* handles the descriptors that are ready, then the timers that are due.   *)
(* The one timer of a worker is CacheEvictor, which returns its period and *)
(* so stays; the descriptors lead to the accept handler.                   *)
(*                                                                         *)
(* Timers are kept in wall-clock time, which an administrator or a time    *)
(* daemon may set; epoll_wait measures its timeout on a clock of its own.  *)
(* So there are two times here: real, which only grows, and the wall       *)
(* clock, real + offset, which is right or ahead by an amount that does    *)
(* not change.  Time passes while the loop sleeps, while it handles a      *)
(* descriptor (but not past the time it meant to sleep until) and, a       *)
(* little, between two rounds.                                             *)
(***************************************************************************)
EXTENDS Integers

CONSTANTS eviction_period,   \* what CacheEvictor returns, in ticks
          Second,            \* ticks per second, the unit of time(NULL)
          Aheads,            \* how far the wall clock may be ahead
          SetAnyTime,        \* the clock is also set between two rounds
          MaxGap,            \* bound: ticks between two rounds
          MaxReal            \* bound: ticks

ASSUME EventLoopAssumption ==
    /\ eviction_period \in Nat \ {0} /\ Second \in Nat \ {0}
    /\ Aheads \subseteq Nat \ {0}
    /\ SetAnyTime \in BOOLEAN /\ MaxGap \in 1 .. Second

VARIABLES real, offset,   \* the time, and what the wall clock adds to it
          ahead,          \* what it adds while it is wrong
          when,           \* when_sec and when_ms of the timer, as one number
          lastTime,       \* lastTime of the loop, in seconds
          at,             \* "poll", "late", "sleep", "handle" or "time"
          wake,           \* real time at which epoll_wait times out
          fired,          \* history: real time of the latest CacheEvictor
          early           \* history: it came before its period was over

TimerVars == <<real, offset, ahead, when, lastTime, at, wake, fired, early>>

wall == real + offset

\* aeAddMillisecondsToNow
ToNow(ticks) == wall + ticks

\* The worker's constructor has created the loop and the timer.
TimerInit ==
    /\ real = Second /\ ahead \in Aheads /\ offset \in {0, ahead}
    /\ lastTime = wall \div Second
    /\ when = ToNow(eviction_period)
    /\ at = "poll" /\ wake = 0
    /\ fired = real /\ early = FALSE

\* External: the thread is held up between two rounds.
Late(gap) ==
    /\ at = "poll" /\ real + gap <= MaxReal
    /\ real' = real + gap
    /\ at' = "late"
    /\ UNCHANGED <<offset, ahead, when, lastTime, wake, fired, early>>

\* tvp: the time missing for the timer.  For a timer that is overdue the
\* seconds are negative and set to 0, but the milliseconds stay.
Timeout == IF when >= wall THEN when - wall ELSE (when - wall) % Second

\* aeProcessEvents up to its wait in aeApiPoll.
Poll ==
    /\ at \in {"poll", "late"}
    /\ wake' = real + Timeout
    /\ at' = "sleep"
    /\ UNCHANGED <<real, offset, ahead, when, lastTime, fired, early>>

\* aeApiPoll returns a descriptor: its handler runs first.
Ready ==
    /\ at = "sleep"
    /\ at' = "handle"
    /\ UNCHANGED <<real, offset, ahead, when, lastTime, wake, fired, early>>

Handled ==
    /\ at = "handle"
    /\ at' = "time"
    /\ UNCHANGED <<real, offset, ahead, when, lastTime, wake, fired, early>>

TimedOut ==
    /\ at = "sleep" /\ real >= wake
    /\ at' = "time"
    /\ UNCHANGED <<real, offset, ahead, when, lastTime, wake, fired, early>>

\* Mutant: a clock that was set back goes unnoticed.
NotSkewed == FALSE

Skewed == wall \div Second < lastTime

\* Mutant: the next time is counted from the time it was due.
NextFromDue == when + eviction_period

NextWhen == ToNow(eviction_period)

\* processTimeEvents: timers are forced when the clock was set back, then
\* the timer runs if it is due; it is not due again in the same round.
processTimeEvents ==
    /\ at = "time"
    /\ lastTime' = wall \div Second
    /\ \/ /\ Skewed \/ wall >= when
          /\ when' = NextWhen
          /\ fired' = real
          /\ early' = (~Skewed /\ offset = 0 /\ real < fired + eviction_period)
       \/ /\ ~(Skewed \/ wall >= when)
          /\ UNCHANGED <<when, fired, early>>
    /\ at' = "poll"
    /\ UNCHANGED <<real, offset, ahead, wake>>

\* External: time passes while the loop sleeps or a handler runs.
Tick ==
    /\ real < MaxReal
    /\ at \in {"sleep", "handle"} /\ real < wake
    /\ real' = real + 1
    /\ UNCHANGED <<offset, ahead, when, lastTime, at, wake, fired, early>>

\* External: the clock is set, to the future or back to the right value.
SetClock ==
    /\ SetAnyTime \/ at = "sleep"
    /\ offset' = ahead - offset
    /\ UNCHANGED <<real, ahead, when, lastTime, at, wake, fired, early>>

TimerNext ==
    \/ Poll \/ Ready \/ Handled \/ TimedOut \/ processTimeEvents
    \/ Tick \/ (\E gap \in 1 .. MaxGap : Late(gap)) \/ SetClock

TimerSpec == TimerInit /\ [][TimerNext]_TimerVars

-----------------------------------------------------------------------------
(* Properties *)

TimerTypeOK ==
    /\ real \in Nat /\ ahead \in Aheads /\ offset \in {0, ahead}
    /\ when \in Nat /\ lastTime \in Nat /\ wake \in Nat /\ fired \in Nat
    /\ at \in {"poll", "late", "sleep", "handle", "time"}
    /\ early \in BOOLEAN

\* Two runs of the evictor are less than two periods and three seconds apart,
\* by however much the clock is set to the future and back while the loop
\* sleeps (processTimeEvents): "force all the time events to be processed
\* ASAP when this happens".  A step back that stays within the second of
\* lastTime is not noticed, and one that is longer than a period and two
\* seconds always is.
OnTime == real - fired < 2 * eviction_period + 3 * Second

\* When the clock is right the evictor does not run before its period is
\* over, however often descriptors wake the loop, unless it is forced.
NotTooEarly == ~early

\* The evictor runs neither too late nor too early.
EvictorOnTime == TimerTypeOK /\ OnTime /\ NotTooEarly

\* aeProcessEvents sleeps "without to delay any event": not at all when the
\* timer is due already.
OverdueNotDelayed == [][Poll /\ when <= wall => wake' = real]_TimerVars
=============================================================================

------------------------------ MODULE LoopTiming ------------------------------
(***************************************************************************)
(* The two schedules of gameLoop (src/src/utils/GameLoopTiming.h): when    *)
(* pulses are due, and when the database is pinged and reconnected, by a   *)
(* clock that any part of the loop may hold up for any time.               *)
(***************************************************************************)
EXTENDS Integers

CONSTANTS
  Interval,     \* between two pulses (OPT_USEC)
  MaxCatchUp,   \* pulses run in one batch at most (2 * PASSES_PER_SEC)
  CheckEvery,   \* between two pings of the database (1 second)
  RetryEvery    \* between two reconnects (15 seconds)

ASSUME TimingAssumption ==
  /\ Interval \in Nat \ {0} /\ MaxCatchUp \in Nat \ {0}
  /\ CheckEvery \in Nat \ {0} /\ RetryEvery \in Nat \ {0}

VARIABLES
  now,             \* the steady clock; gameLoop starts at 0
  nextTick,        \* GameTickSchedule
  nextCheck, nextReconnect,                       \* DatabaseHealthSchedule
  lastReconnect,   \* when it last reconnected in this outage, or Never
  phase,           \* where gameLoop is
  due,             \* pulses of this batch still to run
  pulses, dropped  \* all pulses run, and all dropped, since the start

health == <<nextCheck, nextReconnect, lastReconnect>>
ticks == <<nextTick, due, pulses, dropped>>
timing == <<now, health, phase, ticks>>

Phases == {"sleep", "work", "beat", "over"}
Never == -1

TimingTypeOK ==
  /\ now \in Nat /\ nextTick \in Nat
  /\ nextCheck \in Nat /\ nextReconnect \in Nat /\ lastReconnect \in Nat \union {Never}
  /\ phase \in Phases
  /\ due \in 0..MaxCatchUp /\ pulses \in Nat /\ dropped \in Nat

TimingInit ==
  /\ now = 0 /\ nextTick = Interval
  /\ nextCheck = 0 /\ nextReconnect = 0 /\ lastReconnect = Never
  /\ phase = "sleep"
  /\ due = 0 /\ pulses = 0 /\ dropped = 0

\* DatabaseHealthSchedule::poll at time t, if the database answers or not.
Poll(t, connected) ==
  IF t < nextCheck THEN UNCHANGED health
  ELSE /\ nextCheck' = t + CheckEvery
       /\ \/ connected /\ nextReconnect' = t /\ lastReconnect' = Never
          \/ /\ ~connected /\ t >= nextReconnect
             /\ nextReconnect' = t + RetryEvery /\ lastReconnect' = t
          \/ /\ ~connected /\ t < nextReconnect
             /\ UNCHANGED <<nextReconnect, lastReconnect>>

\* sleep_until returns at t, the next deadline or later.
Wake(t, connected) ==
  /\ phase = "sleep" /\ t >= nextTick
  /\ now' = t /\ phase' = "work"
  /\ Poll(t, connected)
  /\ UNCHANGED ticks

\* The deadlines that have passed at t, and the pulses run for n of them.
Passed(t) == 1 + (t - nextTick) \div Interval
CaughtUp(n) == IF n < MaxCatchUp THEN n ELSE MaxCatchUp

\* GameTickSchedule::consume at time t, after the iteration's other work.
NextDeadlineFromNow(t) == t + Interval
NextDeadline(t) == nextTick + Interval * Passed(t)
Consume(t) ==
  /\ phase = "work" /\ now' = t /\ phase' = "beat"
  /\ IF t < nextTick THEN UNCHANGED ticks
     ELSE /\ nextTick' = NextDeadline(t)
          /\ due' = CaughtUp(Passed(t))
          /\ dropped' = dropped + (Passed(t) - CaughtUp(Passed(t)))
          /\ UNCHANGED pulses
  /\ UNCHANGED health

\* heartbeat has run and returns at t.
Beat(t) ==
  /\ phase = "beat" /\ due > 0
  /\ now' = t /\ due' = due - 1 /\ pulses' = pulses + 1
  /\ UNCHANGED <<health, phase, nextTick, dropped>>

BatchDone ==
  /\ phase = "beat" /\ due = 0
  /\ phase' = "sleep" /\ UNCHANGED <<now, health, ticks>>

\* circle_shutdown: what is left of the batch is not run.
EndLoop ==
  /\ phase \in {"sleep", "beat"}
  /\ phase' = "over" /\ UNCHANGED <<now, health, ticks>>

TimingNext ==
  \/ \E t \in Nat : t >= now /\ (Consume(t) \/ Beat(t) \/ \E ok \in BOOLEAN : Wake(t, ok))
  \/ BatchDone \/ EndLoop

TimingSpec == TimingInit /\ [][TimingNext]_timing

-------------------------------------------------------------------------------

\* Every interval since the start has been run, is due, or has been dropped:
\* sleeping too long, working too long, or stalling loses none and counts none twice.
TicksAccounted == nextTick = Interval * (1 + pulses + due + dropped)

\* The game is never ahead of the clock: no deadline is taken before it has
\* passed, and no more pulses are run, due or dropped than intervals have.
NeverAhead ==
  /\ nextTick - Interval <= now
  /\ now >= Interval * (pulses + due + dropped)

\* Pulses are dropped only for a stall of more than MaxCatchUp intervals,
\* and then a full batch is run.
DropsOnlyInStalls ==
  [][dropped' # dropped =>
       due' = MaxCatchUp /\ now' >= nextTick + Interval * MaxCatchUp]_timing

\* "with retries no more often than every 15 seconds during an outage"
\* (src/README.md).
RetriesSpaced ==
  [][lastReconnect' # lastReconnect /\ lastReconnect' # Never =>
       /\ lastReconnect' = now'
       /\ lastReconnect # Never => now' >= lastReconnect + RetryEvery]_timing
===============================================================================

------------------------------ MODULE LoopProofs ------------------------------
(***************************************************************************)
(* The schedules of gameLoop keep their promises for every interval, every *)
(* limit and every delay: proofs about LoopTiming, and that MainLoop's     *)
(* steps are steps of it.  Then what MainLoop promises of the characters:  *)
(* their lag, their standing up and their effects, for any number of them. *)
(***************************************************************************)
EXTENDS MainLoop, ListProofs, FiniteSetTheorems

\* What TicksAccounted and RetriesSpaced rest on: between two batches nothing
\* is due, and in an outage the next reconnect is RetryEvery after the last.
TimingInv ==
  /\ TimingTypeOK
  /\ phase \in {"sleep", "work"} => due = 0
  /\ TicksAccounted
  /\ nextTick - Interval <= now
  /\ lastReconnect # Never => nextReconnect = lastReconnect + RetryEvery

\* How many intervals a time has, and what is left of it.
LEMMA DivFacts ==
  ASSUME NEW a \in Nat, NEW b \in Nat \ {0}
  PROVE  /\ a \div b \in Nat
         /\ b * (a \div b) <= a
         /\ a < b * (a \div b) + b
BY SMT

\* A product is monotone in its second factor.
LEMMA Monotone ==
  ASSUME NEW b \in Nat, NEW m \in Nat, NEW n \in Nat, m <= n
  PROVE  b * m <= b * n
BY SMT

\* consume: the deadlines that have passed, and how they are shared out
\* between a batch and the dropped.
LEMMA PassedFacts ==
  ASSUME TimingTypeOK, NEW t \in Nat, t >= nextTick
  PROVE  /\ Passed(t) \in Nat \ {0}
         /\ CaughtUp(Passed(t)) \in 0..MaxCatchUp
         /\ Passed(t) - CaughtUp(Passed(t)) \in Nat
         /\ NextDeadline(t) \in Nat
         /\ NextDeadline(t) - Interval <= t
         /\ Passed(t) # CaughtUp(Passed(t)) =>
              /\ CaughtUp(Passed(t)) = MaxCatchUp
              /\ t >= nextTick + Interval * MaxCatchUp
<1> DEFINE q == (t - nextTick) \div Interval
<1>1. t - nextTick \in Nat /\ Interval \in Nat \ {0} /\ nextTick \in Nat /\ MaxCatchUp \in Nat \ {0}
  BY TimingAssumption DEF TimingTypeOK
<1>2. q \in Nat /\ Interval * q <= t - nextTick
  BY <1>1, DivFacts
<1>3. Passed(t) = 1 + q
  BY DEF Passed
<1> HIDE DEF q
<1>4. Interval * (1 + q) = Interval + Interval * q /\ Interval * q \in Nat
  BY <1>1, <1>2, SMT
<1>5. NextDeadline(t) = nextTick + Interval + Interval * q
  BY <1>1, <1>3, <1>4 DEF NextDeadline
<1>6. Passed(t) # CaughtUp(Passed(t)) =>
        /\ CaughtUp(Passed(t)) = MaxCatchUp
        /\ t >= nextTick + Interval * MaxCatchUp
  <2> SUFFICES ASSUME Passed(t) # CaughtUp(Passed(t))
               PROVE  CaughtUp(Passed(t)) = MaxCatchUp /\ t >= nextTick + Interval * MaxCatchUp
    OBVIOUS
  <2>1. CaughtUp(Passed(t)) = MaxCatchUp /\ MaxCatchUp < 1 + q
    BY <1>1, <1>2, <1>3 DEF CaughtUp
  <2>2. MaxCatchUp <= q
    BY <2>1, <1>1, <1>2
  <2>3. Interval * MaxCatchUp <= Interval * q
    BY <2>2, <1>1, <1>2, Monotone
  <2>4. Interval * MaxCatchUp \in Nat
    BY <1>1, SMT
  <2>5. t >= nextTick + Interval * MaxCatchUp
    BY <2>3, <2>4, <1>1, <1>2, <1>4
  <2> QED BY <2>1, <2>5
<1>7. Passed(t) \in Nat \ {0} /\ CaughtUp(Passed(t)) \in 0..MaxCatchUp /\ Passed(t) - CaughtUp(Passed(t)) \in Nat
  BY <1>1, <1>2, <1>3 DEF CaughtUp
<1>8. NextDeadline(t) \in Nat /\ NextDeadline(t) - Interval <= t
  BY <1>1, <1>2, <1>4, <1>5
<1> QED BY <1>6, <1>7, <1>8

-------------------------------------------------------------------------------

\* The schedules start so.
LEMMA TimingStarts == TimingInit => TimingInv
BY TimingAssumption
   DEF TimingInit, TimingInv, TimingTypeOK, TicksAccounted, Phases, Never

\* poll keeps the reconnect RetryEvery after the last of an outage.
LEMMA PollSteps ==
  ASSUME TimingInv, NEW t \in Nat, NEW ok \in BOOLEAN, Poll(t, ok)
  PROVE  /\ nextCheck' \in Nat /\ nextReconnect' \in Nat
         /\ lastReconnect' \in Nat \union {Never}
         /\ lastReconnect' # Never => nextReconnect' = lastReconnect' + RetryEvery
         /\ lastReconnect' # lastReconnect /\ lastReconnect' # Never =>
              /\ lastReconnect' = t
              /\ lastReconnect # Never => t >= lastReconnect + RetryEvery
BY TimingAssumption DEF TimingInv, TimingTypeOK, Poll, health, Never

\* consume takes the deadlines that have passed and runs or drops each.
LEMMA ConsumeSteps ==
  ASSUME TimingInv, NEW t \in Nat, t >= now, Consume(t)
  PROVE  /\ TimingInv'
         /\ dropped' # dropped =>
              due' = MaxCatchUp /\ now' >= nextTick + Interval * MaxCatchUp
<1>1. /\ phase = "work" /\ due = 0 /\ now' = t /\ phase' = "beat"
      /\ UNCHANGED health
  BY DEF Consume, TimingInv
<1>2. CASE t < nextTick
  <2>1. UNCHANGED ticks
    BY <1>2 DEF Consume
  <2> QED
    BY <1>1, <2>1, TimingAssumption
       DEF TimingInv, TimingTypeOK, TicksAccounted, ticks, health, Phases
<1>3. CASE ~(t < nextTick)
  <2> DEFINE n == Passed(t)
             count == CaughtUp(Passed(t))
  <2>1. /\ nextTick' = NextDeadline(t) /\ due' = count
        /\ dropped' = dropped + (n - count) /\ pulses' = pulses
    BY <1>3 DEF Consume
  <2>2. TimingTypeOK /\ t >= nextTick
    BY <1>3 DEF TimingInv, TimingTypeOK
  <2>3. /\ n \in Nat \ {0} /\ count \in 0..MaxCatchUp /\ n - count \in Nat
        /\ NextDeadline(t) \in Nat /\ NextDeadline(t) - Interval <= t
        /\ n # count => count = MaxCatchUp /\ t >= nextTick + Interval * MaxCatchUp
    BY <2>2, PassedFacts
  <2>4. NextDeadline(t) = nextTick + Interval * n
    BY DEF NextDeadline
  <2> HIDE DEF n, count
  <2>5. TimingTypeOK'
    BY <1>1, <2>1, <2>2, <2>3, TimingAssumption DEF TimingTypeOK, health, Phases
  <2>6. TicksAccounted'
    <3> DEFINE done == 1 + pulses + dropped
    <3>1. done \in Nat /\ Interval \in Nat /\ nextTick = Interval * done
      BY <1>1, <2>2, TimingAssumption DEF TimingInv, TimingTypeOK, TicksAccounted
    <3>2. (1 + pulses + due + dropped)' = done + n
      BY <2>1, <2>2, <2>3, TimingAssumption DEF TimingTypeOK
    <3> HIDE DEF done
    <3>3. Interval * (done + n) = Interval * done + Interval * n
      BY <3>1, <2>3, SMT
    <3> QED BY <2>1, <2>4, <3>1, <3>2, <3>3 DEF TicksAccounted
  <2>7. (nextTick - Interval <= now)'
    BY <1>1, <2>1, <2>3
  <2>8. (lastReconnect # Never => nextReconnect = lastReconnect + RetryEvery)'
    BY <1>1 DEF TimingInv, health, Never
  <2>9. TimingInv'
    BY <1>1, <2>5, <2>6, <2>7, <2>8 DEF TimingInv
  <2>10. dropped' # dropped => n # count
    BY <2>1, <2>2, <2>3, TimingAssumption DEF TimingTypeOK
  <2> QED BY <1>1, <2>1, <2>3, <2>9, <2>10
<1> QED BY <1>2, <1>3

\* A heartbeat's end moves one pulse from those due to those run.
LEMMA BeatSteps ==
  ASSUME TimingInv, NEW t \in Nat, t >= now, Beat(t)
  PROVE  TimingInv'
<1>1. TimingTypeOK'
  BY TimingAssumption DEF TimingInv, TimingTypeOK, Beat, health, Phases
<1>2. (1 + pulses + due + dropped)' = 1 + pulses + due + dropped
  BY TimingAssumption DEF TimingInv, TimingTypeOK, Beat
<1>3. TicksAccounted'
  BY <1>2 DEF TimingInv, TicksAccounted, Beat
<1>4. (nextTick - Interval <= now)'
  BY TimingAssumption DEF TimingInv, TimingTypeOK, Beat
<1> QED BY <1>1, <1>3, <1>4 DEF TimingInv, Beat, health, Never

\* sleep_until returns, and only poll acts.
LEMMA WakeSteps ==
  ASSUME TimingInv, NEW t \in Nat, t >= now, NEW ok \in BOOLEAN, Wake(t, ok)
  PROVE  TimingInv'
<1>1. Poll(t, ok) /\ phase = "sleep" /\ now' = t /\ phase' = "work" /\ UNCHANGED ticks
  BY DEF Wake
<1>2. TimingTypeOK'
  BY <1>1, PollSteps DEF TimingInv, TimingTypeOK, ticks, Phases
<1>3. TicksAccounted'
  BY <1>1 DEF TimingInv, TicksAccounted, ticks
<1>4. (nextTick - Interval <= now)'
  BY <1>1, TimingAssumption DEF TimingInv, TimingTypeOK, ticks
<1>5. (lastReconnect # Never => nextReconnect = lastReconnect + RetryEvery)'
  BY <1>1, PollSteps DEF Never
<1> QED BY <1>1, <1>2, <1>3, <1>4, <1>5 DEF TimingInv, ticks

\* TimingInv is inductive.
LEMMA TimingGoesOn ==
  ASSUME TimingInv, [TimingNext]_timing
  PROVE  TimingInv'
<1>1. ASSUME NEW t \in Nat, t >= now, Consume(t) PROVE TimingInv'
  BY <1>1, ConsumeSteps
<1>2. ASSUME NEW t \in Nat, t >= now, Beat(t) PROVE TimingInv'
  BY <1>2, BeatSteps
<1>3. ASSUME NEW t \in Nat, t >= now, NEW ok \in BOOLEAN, Wake(t, ok) PROVE TimingInv'
  BY <1>3, WakeSteps
<1>4. CASE BatchDone \/ EndLoop
  BY <1>4 DEF BatchDone, EndLoop, TimingInv, TimingTypeOK, TicksAccounted, ticks, health,
              Phases, Never
<1>5. CASE UNCHANGED timing
  BY <1>5 DEF TimingInv, TimingTypeOK, TicksAccounted, timing, ticks, health, Never
<1> QED BY <1>1, <1>2, <1>3, <1>4, <1>5 DEF TimingNext

-------------------------------------------------------------------------------

\* gameLoop's step that waits for a deadline, or works, is one of its
\* schedule's at some time no earlier than now.
LEMMA LoopStepsTiming ==
  ASSUME TimingTypeOK, [Next]_vars
  PROVE  [TimingNext]_timing
<1>1. now \in Nat /\ nextTick \in Nat
  BY DEF TimingTypeOK
<1>2. AtLeast(now, nextTick) \in Nat /\ AtLeast(now, nextTick) >= now
  BY <1>1 DEF AtLeast
<1>3. \A d \in Delays : d \in Nat
  BY LoopAssumption
<1>4. CASE NextIteration
  <2>1. PICK t \in Nat, ok \in BOOLEAN : t >= now /\ Wake(t, ok)
    <3>1. CASE Wake(AtLeast(now, nextTick), TRUE)
      BY <1>2, <3>1
    <3>2. CASE \E d \in Delays : Wake(AtLeast(now, nextTick) + d, TRUE)
      <4>1. PICK d \in Delays : Wake(AtLeast(now, nextTick) + d, TRUE)
        BY <3>2
      <4>2. AtLeast(now, nextTick) + d \in Nat /\ AtLeast(now, nextTick) + d >= now
        BY <1>1, <1>2, <1>3
      <4> QED BY <4>1, <4>2
    <3>3. CASE Wake(AtLeast(now, nextTick), FALSE)
      BY <1>2, <3>3
    <3> QED BY <1>4, <3>1, <3>2, <3>3 DEF NextIteration, Elapse
  <2> QED BY <2>1 DEF TimingNext
<1>5. CASE ConsumeTicks
  <2>1. PICK t \in Nat : t >= now /\ Consume(t)
    <3>1. CASE Consume(now)
      BY <1>1, <3>1
    <3>2. CASE \E d \in Delays : Consume(now + d)
      <4>1. PICK d \in Delays : Consume(now + d)
        BY <3>2
      <4>2. now + d \in Nat /\ now + d >= now
        BY <1>1, <1>3
      <4> QED BY <4>1, <4>2
    <3> QED BY <1>5, <3>1, <3>2 DEF ConsumeTicks, Elapse
  <2> QED BY <2>1 DEF TimingNext
<1>6. CASE Heartbeats
  <2>1. CASE Elapse(now, Beat)
    <3>1. PICK t \in Nat : t >= now /\ Beat(t)
      <4>1. CASE Beat(now)
        BY <1>1, <4>1
      <4>2. CASE \E d \in Delays : Beat(now + d)
        <5>1. PICK d \in Delays : Beat(now + d)
          BY <4>2
        <5>2. now + d \in Nat /\ now + d >= now
          BY <1>1, <1>3
        <5> QED BY <5>1, <5>2
      <4> QED BY <2>1, <4>1, <4>2 DEF Elapse
    <3> QED BY <3>1 DEF TimingNext
  <2>2. CASE BatchDone
    BY <2>2 DEF TimingNext
  <2>3. CASE UNCHANGED timing
    BY <2>3
  <2> QED BY <1>6, <2>1, <2>2, <2>3 DEF Heartbeats
<1>7. CASE Shutdown
  BY <1>7 DEF Shutdown, TimingNext
<1>8. CASE Over \/ UNCHANGED vars
  BY <1>8 DEF Over, vars
<1>9. ASSUME NEW c \in Chars, Command(c) \/ Happen(c) PROVE UNCHANGED timing
  BY <1>9 DEF Command, Happen
<1> QED BY <1>4, <1>5, <1>6, <1>7, <1>8, <1>9 DEF Next

\* The inductive invariant of the schedules holds in the loop.
THEOREM TimingHolds == Spec => []TimingInv
<1>1. Init => TimingInv
  BY TimingStarts DEF Init
<1>2. TimingInv /\ [Next]_vars => TimingInv'
  <2> SUFFICES ASSUME TimingInv, [Next]_vars PROVE TimingInv'
    OBVIOUS
  <2>1. [TimingNext]_timing
    BY LoopStepsTiming DEF TimingInv
  <2> QED BY <2>1, TimingGoesOn
<1> QED BY <1>1, <1>2, PTL DEF Spec

\* gameLoop, with everything a command or a heartbeat does in it, implements
\* its schedules.
THEOREM LoopImplementsTiming == Spec => TimingSpec
<1>1. Init => TimingInit
  BY DEF Init
<1>2. TimingInv /\ [Next]_vars => [TimingNext]_timing
  BY LoopStepsTiming DEF TimingInv
<1> QED BY <1>1, <1>2, TimingHolds, PTL DEF Spec, TimingSpec

\* However late each step is, every interval is run, due or dropped once.
THEOREM TicksAreAccounted == Spec => []TicksAccounted
<1>1. TimingInv => TicksAccounted
  BY DEF TimingInv
<1> QED BY <1>1, TimingHolds, PTL

\* The game never runs ahead of the clock.
THEOREM GameNeverAhead == Spec => []NeverAhead
<1>1. TimingInv => NeverAhead
  <2> SUFFICES ASSUME TimingInv PROVE NeverAhead
    OBVIOUS
  <2> DEFINE all == pulses + due + dropped
  <2>1. /\ Interval \in Nat /\ now \in Nat /\ nextTick \in Nat /\ all \in Nat
        /\ nextTick - Interval <= now /\ nextTick = Interval * (1 + all)
    BY TimingAssumption DEF TimingInv, TimingTypeOK, TicksAccounted
  <2> HIDE DEF all
  <2>2. Interval * (1 + all) = Interval + Interval * all /\ Interval * all \in Nat
    BY <2>1, SMT
  <2>3. now >= Interval * all
    BY <2>1, <2>2
  <2> QED BY <2>1, <2>3 DEF NeverAhead, all
<1> QED BY <1>1, TimingHolds, PTL

\* Only a step of consume drops pulses, after a stall longer than a full batch.
THEOREM OnlyStallsDrop == Spec => DropsOnlyInStalls
<1> DEFINE A == dropped' # dropped =>
                  due' = MaxCatchUp /\ now' >= nextTick + Interval * MaxCatchUp
<1>1. TimingInv /\ [TimingNext]_timing => [A]_timing
  <2> SUFFICES ASSUME TimingInv, [TimingNext]_timing PROVE A
    OBVIOUS
  <2>1. ASSUME NEW t \in Nat, t >= now, Consume(t) PROVE A
    BY <2>1, ConsumeSteps
  <2>2. ASSUME NEW t \in Nat, NEW ok \in BOOLEAN, Beat(t) \/ Wake(t, ok) PROVE A
    BY <2>2 DEF Beat, Wake, ticks
  <2>3. CASE BatchDone \/ EndLoop \/ UNCHANGED timing
    BY <2>3 DEF BatchDone, EndLoop, timing, ticks
  <2> QED BY <2>1, <2>2, <2>3 DEF TimingNext
<1> QED BY <1>1, TimingHolds, LoopImplementsTiming, PTL DEF TimingSpec, DropsOnlyInStalls

\* In one outage, reconnects are RetryEvery apart.
THEOREM RetriesAreSpaced == Spec => RetriesSpaced
<1> DEFINE A == lastReconnect' # lastReconnect /\ lastReconnect' # Never =>
                  /\ lastReconnect' = now'
                  /\ lastReconnect # Never => now' >= lastReconnect + RetryEvery
<1>1. TimingInv /\ [TimingNext]_timing => [A]_timing
  <2> SUFFICES ASSUME TimingInv, [TimingNext]_timing PROVE A
    OBVIOUS
  <2>1. ASSUME NEW t \in Nat, NEW ok \in BOOLEAN, Wake(t, ok) PROVE A
    <3>1. Poll(t, ok) /\ now' = t
      BY <2>1 DEF Wake
    <3> QED BY <3>1, PollSteps
  <2>2. ASSUME NEW t \in Nat, Consume(t) \/ Beat(t) PROVE A
    BY <2>2 DEF Consume, Beat, health
  <2>3. CASE BatchDone \/ EndLoop \/ UNCHANGED timing
    BY <2>3 DEF BatchDone, EndLoop, timing, health
  <2> QED BY <2>1, <2>2, <2>3 DEF TimingNext
<1> QED BY <1>1, TimingHolds, LoopImplementsTiming, PTL DEF TimingSpec, RetriesSpaced

-------------------------------------------------------------------------------
(* Operations on lists.                                                    *)

\* No event's memory twice.
IdsOnce(evs) == \A j, k \in DOMAIN evs : evs[j].id = evs[k].id => j = k

\* What is left of a list of events.
LEMMA WithoutIds ==
  ASSUME NEW S, NEW s \in Seq(S), NEW out, IdsOnce(s)
  PROVE  IdsOnce(Without(s, out))
<1> DEFINE t == Without(s, out)
<1>1. PICK h \in [1..Len(t) -> 1..Len(s)] :
        /\ \A k \in 1..Len(t) : t[k] = s[h[k]]
        /\ \A j, k \in 1..Len(t) : j < k => h[j] < h[k]
  BY WithoutFacts
<1>2. t \in Seq(S)
  BY WithoutFacts
<1> HIDE DEF t
<1>3. DOMAIN t = 1..Len(t) /\ DOMAIN s = 1..Len(s) /\ Len(t) \in Nat /\ Len(s) \in Nat
  BY <1>2
<1>4. \A j \in 1..Len(t) : h[j] \in 1..Len(s)
  BY <1>1
<1>5. IdsOnce(t)
  BY <1>1, <1>3, <1>4 DEF IdsOnce
<1> QED BY <1>5 DEF t

\* The smallest of some numbers is one of them.
LEMMA MinIn ==
  ASSUME NEW T, T \subseteq Nat, T # {}
  PROVE  Min(T) \in T
BY Least DEF Min

\* InsertAt moves what is behind the place by one.
LEMMA InsertFacts ==
  ASSUME NEW S, NEW s \in Seq(S), NEW e \in S, NEW i \in 1..(Len(s) + 1)
  PROVE  LET t == InsertAt(s, i, e) IN
         /\ t \in Seq(S) /\ Len(t) = Len(s) + 1
         /\ \A k \in 1..Len(t) : t[k] = IF k < i THEN s[k] ELSE IF k = i THEN e ELSE s[k-1]
         /\ Range(t) = Range(s) \union {e}
<1> DEFINE t == InsertAt(s, i, e)
           a == SubSeq(s, 1, i - 1)
           b == SubSeq(s, i, Len(s))
<1>1. /\ a \in Seq(S) /\ Len(a) = i - 1
      /\ \A k \in 1..Len(a) : a[k] = s[k]
  OBVIOUS
<1>2. /\ b \in Seq(S) /\ Len(b) = Len(s) - i + 1
      /\ \A k \in 1..Len(b) : b[k] = s[k+i-1]
  OBVIOUS
<1>3. t = a \o <<e>> \o b
  BY DEF InsertAt
<1> HIDE DEF a, b, t
<1>4. PICK c : c = a \o <<e>>
  OBVIOUS
<1>5. c \in Seq(S) /\ Len(c) = i /\ \A k \in 1..i : c[k] = IF k < i THEN s[k] ELSE e
  BY <1>1, <1>4
<1>6. t \in Seq(S) /\ Len(t) = Len(s) + 1
  BY <1>2, <1>3, <1>4, <1>5
<1>7. ASSUME NEW k \in 1..Len(t)
      PROVE  t[k] = IF k < i THEN s[k] ELSE IF k = i THEN e ELSE s[k-1]
  <2>1. CASE k <= i
    BY <1>2, <1>3, <1>4, <1>5, <1>6, <2>1
  <2>2. CASE k > i
    <3>1. k - i \in 1..Len(b) /\ (k - i) + i - 1 = k - 1
      BY <1>2, <1>6, <2>2
    <3>2. t[k] = b[k - i]
      BY <1>2, <1>3, <1>4, <1>5, <1>6, <2>2
    <3> QED BY <1>2, <2>2, <3>1, <3>2
  <2> QED BY <2>1, <2>2
<1>8. Range(t) = Range(s) \union {e}
  <2>1. DOMAIN t = 1..Len(t) /\ DOMAIN s = 1..Len(s)
    BY <1>6
  <2>2. ASSUME NEW x \in Range(t) PROVE x \in Range(s) \union {e}
    <3>1. PICK k \in 1..Len(t) : x = t[k]
      BY <2>1 DEF Range
    <3>2. CASE k < i
      <4>1. k \in 1..Len(s)
        BY <3>2
      <4> QED BY <1>7, <2>1, <3>1, <3>2, <4>1 DEF Range
    <3>3. CASE k = i
      BY <1>7, <3>1, <3>3
    <3>4. CASE k > i
      <4>1. k - 1 \in 1..Len(s)
        BY <1>6, <3>4
      <4> QED BY <1>7, <2>1, <3>1, <3>4, <4>1 DEF Range
    <3> QED BY <3>2, <3>3, <3>4
  <2>3. ASSUME NEW k \in 1..Len(s) PROVE s[k] \in Range(t)
    <3>1. CASE k < i
      <4>1. k \in 1..Len(t) /\ t[k] = s[k]
        BY <1>6, <1>7, <3>1
      <4> QED BY <2>1, <4>1 DEF Range
    <3>2. CASE k >= i
      <4>1. k + 1 \in 1..Len(t) /\ ~(k + 1 < i) /\ k + 1 # i /\ (k + 1) - 1 = k
        BY <1>6, <3>2
      <4>2. t[k+1] = s[k]
        BY <1>7, <4>1
      <4> QED BY <2>1, <4>1, <4>2 DEF Range
    <3> QED BY <3>1, <3>2
  <2>4. e \in Range(t)
    <3>1. i \in 1..Len(t)
      BY <1>6
    <3>2. t[i] = e
      BY <1>7, <3>1
    <3> QED BY <2>1, <3>1, <3>2 DEF Range
  <2> QED BY <2>1, <2>2, <2>3, <2>4 DEF Range
<1> QED BY <1>6, <1>7, <1>8 DEF t

\* Of 1..n+1, one is not the id of any of n events.
LEMMA FreeIdFacts ==
  ASSUME NEW evs \in Seq(EventType)
  PROVE  FreeId(evs) \in Nat /\ FreeId(evs) \notin Ids(evs)
<1> DEFINE n == Len(evs)
           T == (1..n + 1) \ Ids(evs)
           idOf == [k \in 1..n |-> evs[k].id]
<1>1. n \in Nat /\ DOMAIN evs = 1..n
  OBVIOUS
<1>2. idOf \in Surjection(1..n, Ids(evs))
  BY <1>1 DEF Surjection, Ids
<1>3. IsFiniteSet(1..n) /\ Cardinality(1..n) = n
  BY <1>1, FS_Interval
<1>4. IsFiniteSet(Ids(evs)) /\ Cardinality(Ids(evs)) <= n
  <2> HIDE DEF idOf, n
  <2> QED BY <1>2, <1>3, FS_Surjection
<1>5. IsFiniteSet(1..n + 1) /\ Cardinality(1..n + 1) = n + 1
  BY <1>1, FS_Interval
<1>6. T # {}
  <2> SUFFICES ASSUME 1..n + 1 \subseteq Ids(evs) PROVE FALSE
    OBVIOUS
  <2>1. Cardinality(1..n + 1) <= Cardinality(Ids(evs))
    BY <1>4, FS_Subset
  <2>2. Cardinality(Ids(evs)) \in Nat
    BY <1>4, FS_CardinalityType
  <2> QED BY <1>1, <1>4, <1>5, <2>1, <2>2
<1>7. T \subseteq Nat
  BY <1>1
<1>8. Min(T) \in T
  <2> HIDE DEF T
  <2> QED BY <1>6, <1>7, MinIn
<1> QED BY <1>7, <1>8 DEF FreeId

\* add_event's place is in the list or right behind it.
LEMMA PlaceIn ==
  ASSUME NEW evs \in Seq(EventType), NEW time \in Int
  PROVE  Place(evs, time) \in 1..(Len(evs) + 1)
<1> DEFINE T == {k \in 2..Len(evs) : evs[k].time <= time} \union {Len(evs) + 1}
<1>1. Len(evs) \in Nat
  OBVIOUS
<1>2. T \subseteq 1..(Len(evs) + 1) /\ T # {} /\ T \subseteq Nat
  BY <1>1
<1>3. Min(T) \in T
  <2> HIDE DEF T
  <2> QED BY <1>2, MinIn
<1>4. Min(T) \in 1..(Len(evs) + 1)
  <2> HIDE DEF T
  <2> QED BY <1>2, <1>3
<1> QED BY <1>1, <1>4 DEF Place

-------------------------------------------------------------------------------
(* The state that deeds pass on, and what is true of it.                   *)

States ==
  [life: [Chars -> Lives], wait: [Chars -> Int], list: Seq(Chars),
   fleeing: [Chars -> BOOLEAN], foe: [Chars -> Chars \union {None}],
   bashed: [Chars -> BOOLEAN], stands: SUBSET [who: Chars, id: Nat],
   affected: [Chars -> SUBSET Affs], events: Seq(EventType)]

\* A deed that changes nothing but somebody's lag, or nothing but events.
OnlyLag(S, T) ==
  /\ T \in States
  /\ T.life = S.life /\ T.foe = S.foe /\ T.bashed = S.bashed /\ T.stands = S.stands
  /\ T.affected = S.affected /\ T.events = S.events
OnlyEvents(S, T) ==
  /\ T \in States
  /\ T.life = S.life /\ T.wait = S.wait /\ T.list = S.list /\ T.fleeing = S.fleeing
  /\ T.foe = S.foe /\ T.bashed = S.bashed /\ T.stands = S.stands /\ T.affected = S.affected

\* Only those who are here fight, and only such, and not themselves.
Foes(S) ==
  \A c \in Chars : S.foe[c] # None =>
    /\ S.foe[c] # c
    /\ S.life[c] = "here" /\ S.life[S.foe[c]] = "here"

\* WaitsOnce, but for x, whose lag may be over.
Lagged(S, x) ==
  /\ Once(S.list)
  /\ \A c \in Range(S.list) : c # x => S.wait[c] > 0

\* BashStandQueue is about those who are bashed, and knows their events.
Stands(evs) == {e \in Range(evs) : e.what = "stand"}
Upright(S) ==
  /\ \A e \in Stands(S.events) :
       /\ e.who \in Chars /\ S.bashed[e.who] /\ S.life[e.who] # "gone"
       /\ \A f \in Stands(S.events) : e.who = f.who => e.id = f.id
  /\ S.stands = {[who |-> e.who, id |-> e.id] : e \in Stands(S.events)}
  /\ \A c \in Chars : S.bashed[c] /\ S.life[c] # "gone" =>
       \E e \in Stands(S.events) : e.who = c

\* The events of effects are those of characters who are here, and each of
\* their effects has one.
Effects(S) ==
  /\ \A e \in Range(S.events) : e.what = "effect" /\ e.who # None => S.life[e.who] = "here"
  /\ \A c \in Chars : S.life[c] = "here" =>
       \A a \in S.affected[c] :
         \E e \in Range(S.events) : e.what = "effect" /\ e.who = c /\ e.aff = a

Good(S, x) ==
  /\ S \in States
  /\ Foes(S) /\ Lagged(S, x) /\ IdsOnce(S.events) /\ Upright(S) /\ Effects(S)

\* add_event puts one event with an id of its own among the others.
LEMMA AddFacts ==
  ASSUME NEW S \in States, NEW time \in Int, NEW what \in {"stand", "effect"},
         NEW who \in Chars \union {None}, NEW aff \in Affs \union {None}
  PROVE  LET e == [id |-> FreeId(S.events), time |-> time, what |-> what, who |-> who, aff |-> aff]
             T == AddEvent(S, time, what, who, aff)
         IN  /\ e \in EventType /\ e.id \notin Ids(S.events)
             /\ OnlyEvents(S, T)
             /\ Range(T.events) = Range(S.events) \union {e}
             /\ IdsOnce(S.events) => IdsOnce(T.events)
<1> DEFINE e == [id |-> FreeId(S.events), time |-> time, what |-> what, who |-> who, aff |-> aff]
           i == Place(S.events, time)
           evs == InsertAt(S.events, i, e)
<1>1. PICK old \in Seq(EventType) : old = S.events
  BY DEF States
<1>2. FreeId(old) \in Nat /\ FreeId(old) \notin Ids(old)
  BY FreeIdFacts
<1>3. e \in EventType /\ e.id = FreeId(old)
  BY <1>1, <1>2 DEF EventType
<1>4. i \in 1..(Len(old) + 1)
  BY <1>1, PlaceIn
<1> HIDE DEF e, i
<1>5. /\ evs \in Seq(EventType) /\ Len(evs) = Len(old) + 1
      /\ \A k \in 1..Len(evs) : evs[k] = IF k < i THEN old[k] ELSE IF k = i THEN e ELSE old[k-1]
      /\ Range(evs) = Range(old) \union {e}
  BY <1>1, <1>3, <1>4, InsertFacts
<1>6. AddEvent(S, time, what, who, aff) = [S EXCEPT !.events = evs]
  BY DEF AddEvent, e, i
<1> HIDE DEF evs
<1>7. ASSUME IdsOnce(old) PROVE IdsOnce(evs)
  <2>1. DOMAIN evs = 1..Len(evs) /\ DOMAIN old = 1..Len(old) /\ Len(old) \in Nat
    BY <1>5
  <2>2. \A k \in 1..Len(old) : old[k].id # e.id
    BY <1>2, <1>3, <2>1 DEF Ids
  <2> DEFINE src(k) == IF k < i THEN k ELSE k - 1
  <2>3. ASSUME NEW k \in 1..Len(evs), k # i
        PROVE  src(k) \in 1..Len(old) /\ evs[k] = old[src(k)]
    BY <1>4, <1>5, <2>3
  <2>4. \A j, k \in 1..Len(evs) : j # i /\ k # i /\ src(j) = src(k) => j = k
    BY <1>4, <1>5
  <2>5. i \in 1..Len(evs) /\ evs[i] = e
    BY <1>4, <1>5
  <2> HIDE DEF src
  <2>6. ASSUME NEW j \in 1..Len(evs), NEW k \in 1..Len(evs), evs[j].id = evs[k].id PROVE j = k
    <3>1. CASE j # i /\ k # i
      <4>1. old[src(j)].id = old[src(k)].id
        BY <2>3, <2>6, <3>1
      <4>2. src(j) \in DOMAIN old /\ src(k) \in DOMAIN old
        BY <2>1, <2>3, <3>1
      <4>3. src(j) = src(k)
        BY <1>7, <4>1, <4>2 DEF IdsOnce
      <4> QED BY <2>4, <3>1, <4>3
    <3>2. CASE j # i /\ k = i
      BY <2>2, <2>3, <2>5, <2>6, <3>2
    <3>3. CASE j = i /\ k # i
      BY <2>2, <2>3, <2>5, <2>6, <3>3
    <3> QED BY <3>1, <3>2, <3>3
  <2> QED BY <2>1, <2>6 DEF IdsOnce
<1>8. [S EXCEPT !.events = evs].events = evs /\ OnlyEvents(S, [S EXCEPT !.events = evs])
  BY <1>5 DEF States, OnlyEvents
<1> QED BY <1>1, <1>2, <1>3, <1>5, <1>6, <1>7, <1>8 DEF e

\* Events that are due at another time are the same events.
LEMMA Retimed ==
  ASSUME NEW S \in States, NEW evs \in [DOMAIN S.events -> EventType],
         \A k \in DOMAIN evs :
           /\ evs[k].id = S.events[k].id /\ evs[k].what = S.events[k].what
           /\ evs[k].who = S.events[k].who /\ evs[k].aff = S.events[k].aff
  PROVE  LET T == [S EXCEPT !.events = evs] IN
         /\ OnlyEvents(S, T) /\ T.events = evs /\ Ids(evs) = Ids(S.events)
         /\ IdsOnce(S.events) => IdsOnce(evs)
         /\ Upright(S) => Upright(T)
         /\ Effects(S) => Effects(T)
<1> DEFINE T == [S EXCEPT !.events = evs]
<1>1. PICK old \in Seq(EventType) : old = S.events
  BY DEF States
<1>2. DOMAIN old = 1..Len(old) /\ Len(old) \in Nat /\ DOMAIN evs = DOMAIN old
  BY <1>1
<1>3. \A k \in DOMAIN evs :
        /\ evs[k].id = old[k].id /\ evs[k].what = old[k].what
        /\ evs[k].who = old[k].who /\ evs[k].aff = old[k].aff
  BY <1>1
<1>4. evs \in Seq(EventType)
  BY <1>1, <1>2
<1>5. OnlyEvents(S, T) /\ T.events = evs
  BY <1>4 DEF States, OnlyEvents
<1> HIDE DEF T
<1>6. Ids(evs) = Ids(old)
  BY <1>2, <1>3 DEF Ids
<1>7. IdsOnce(old) => IdsOnce(evs)
  BY <1>2, <1>3 DEF IdsOnce
<1>8. ASSUME NEW e \in Range(evs)
      PROVE  \E f \in Range(old) : e.id = f.id /\ e.what = f.what /\ e.who = f.who /\ e.aff = f.aff
  BY <1>2, <1>3 DEF Range
<1>9. ASSUME NEW f \in Range(old)
      PROVE  \E e \in Range(evs) : e.id = f.id /\ e.what = f.what /\ e.who = f.who /\ e.aff = f.aff
  BY <1>2, <1>3 DEF Range
<1>10. ASSUME NEW e \in Stands(evs) PROVE \E f \in Stands(old) : e.id = f.id /\ e.who = f.who
  BY <1>8 DEF Stands
<1>11. ASSUME NEW f \in Stands(old) PROVE \E e \in Stands(evs) : e.id = f.id /\ e.who = f.who
  BY <1>9 DEF Stands
<1>12. ASSUME Upright(S) PROVE Upright(T)
  <2>1. {[who |-> e.who, id |-> e.id] : e \in Stands(evs)}
          = {[who |-> e.who, id |-> e.id] : e \in Stands(old)}
    BY <1>10, <1>11
  <2>2. ASSUME NEW e \in Stands(evs)
        PROVE  /\ e.who \in Chars /\ S.bashed[e.who] /\ S.life[e.who] # "gone"
               /\ \A f \in Stands(evs) : e.who = f.who => e.id = f.id
    BY <1>1, <1>10, <1>12 DEF Upright
  <2>3. \A c \in Chars : S.bashed[c] /\ S.life[c] # "gone" => \E e \in Stands(evs) : e.who = c
    BY <1>1, <1>11, <1>12 DEF Upright
  <2> QED BY <1>1, <1>5, <1>12, <2>1, <2>2, <2>3 DEF Upright, OnlyEvents
<1>13. ASSUME Effects(S) PROVE Effects(T)
  BY <1>1, <1>5, <1>8, <1>9, <1>13 DEF Effects, OnlyEvents
<1> QED BY <1>1, <1>5, <1>6, <1>7, <1>12, <1>13 DEF T

\* WaitState with n > 0, and of a character that sits.
LEMMA LagFacts ==
  ASSUME NEW S \in States, NEW c \in Chars, NEW n \in Int
  PROVE  LET T == Lag(S, c, n) IN
         /\ OnlyLag(S, T) /\ T.wait = [S.wait EXCEPT ![c] = n]
         /\ T.list = IF S.wait[c] = 0 THEN Append(S.list, c) ELSE S.list
<1> DEFINE list == IF S.wait[c] = 0 THEN Append(S.list, c) ELSE S.list
           wt == [S.wait EXCEPT ![c] = n]
           T == [S EXCEPT !.list = list, !.wait = wt]
<1>1. S.list \in Seq(Chars) /\ S.wait \in [Chars -> Int]
  BY DEF States
<1>2. list \in Seq(Chars) /\ wt \in [Chars -> Int]
  BY <1>1
<1>3. Lag(S, c, n) = T
  BY <1>1 DEF Lag, States
<1> HIDE DEF list, wt
<1>4. T \in States /\ T.list = list /\ T.wait = wt /\ OnlyLag(S, T)
  BY <1>2 DEF States, OnlyLag
<1> QED BY <1>3, <1>4 DEF list, wt

\* A sitting character's lag that is over takes it off the list.
LEMMA SittingFacts ==
  ASSUME NEW S \in States, NEW c \in Chars, NEW n \in Int, n <= 0
  PROVE  LET T == LagSitting(S, c, n) IN
         /\ OnlyLag(S, T) /\ T.wait = [S.wait EXCEPT ![c] = n]
         /\ Range(T.list) = Range(S.list) \ {c} /\ (Once(S.list) => Once(T.list))
<1> DEFINE list == Without(S.list, {c})
           f == [S.fleeing EXCEPT ![c] = IF S.life[c] = "here" THEN FALSE ELSE S.fleeing[c]]
           wt == [S.wait EXCEPT ![c] = n]
           T == [S EXCEPT !.list = list, !.wait = wt, !.fleeing = f]
<1>1. S.list \in Seq(Chars) /\ S.fleeing \in [Chars -> BOOLEAN] /\ S.wait \in [Chars -> Int]
  BY DEF States
<1>2. list \in Seq(Chars) /\ Range(list) = Range(S.list) \ {c} /\ (Once(S.list) => Once(list))
  BY <1>1, WithoutFacts, WithoutOnce
<1>3. f \in [Chars -> BOOLEAN] /\ wt \in [Chars -> Int]
  BY <1>1
<1>4. LagSitting(S, c, n) = T
  BY <1>1 DEF LagSitting, States
<1> HIDE DEF list, f, wt
<1>5. T \in States /\ T.list = list /\ T.wait = wt /\ OnlyLag(S, T)
  BY <1>2, <1>3 DEF States, OnlyLag
<1> QED BY <1>2, <1>4, <1>5 DEF wt

\* What is not about lag does not mind it.
LEMMA LagOnly ==
  ASSUME NEW S, NEW T, NEW x, NEW y, Good(S, x), OnlyLag(S, T), Lagged(T, y)
  PROVE  Good(T, y)
BY DEF Good, OnlyLag, Foes, Upright, Effects

\* A lag keeps WaitingList as it should be.
LEMMA LagKeeps ==
  ASSUME NEW S \in States, NEW x, Lagged(S, x), NEW c \in Chars, c # x, NEW n \in Int, n > 0
  PROVE  Lagged(Lag(S, c, n), x) /\ OnlyLag(S, Lag(S, c, n))
<1>1. S.list \in Seq(Chars) /\ S.wait \in [Chars -> Int]
  BY DEF States
<1>2. PICK T : T = Lag(S, c, n)
  OBVIOUS
<1>3. /\ OnlyLag(S, T) /\ T.wait = [S.wait EXCEPT ![c] = n]
      /\ T.list = IF S.wait[c] = 0 THEN Append(S.list, c) ELSE S.list
  BY <1>1, <1>2, LagFacts
<1>4. Once(T.list) /\ \A d \in Range(T.list) : d \in Chars /\ (d # x => d = c \/ S.wait[d] > 0)
  <2>1. \A d \in Range(S.list) : d \in Chars
    BY <1>1 DEF Range
  <2>2. CASE S.wait[c] = 0
    <3>1. c \notin Range(S.list)
      BY <1>1, <2>2 DEF Lagged
    <3> QED BY <1>1, <1>3, <2>1, <2>2, <3>1, AppendFacts DEF Lagged
  <2>3. CASE S.wait[c] # 0
    BY <1>1, <1>3, <2>1, <2>3 DEF Lagged
  <2> QED BY <2>2, <2>3
<1>5. Lagged(T, x)
  BY <1>1, <1>3, <1>4 DEF Lagged
<1> QED BY <1>2, <1>3, <1>5

\* A sitting character's lag keeps WaitingList as it should be.
LEMMA SittingKeeps ==
  ASSUME NEW S \in States, NEW x, Lagged(S, x), NEW c \in Chars, c # x, NEW n \in Int
  PROVE  Lagged(LagSitting(S, c, n), x) /\ OnlyLag(S, LagSitting(S, c, n))
<1>1. S.list \in Seq(Chars) /\ S.wait \in [Chars -> Int]
  BY DEF States
<1>2. CASE n > 0
  BY <1>2, LagKeeps DEF LagSitting
<1>3. CASE n <= 0
  <2>1. PICK T : T = LagSitting(S, c, n)
    OBVIOUS
  <2>2. /\ OnlyLag(S, T) /\ T.wait = [S.wait EXCEPT ![c] = n]
        /\ Range(T.list) = Range(S.list) \ {c} /\ (Once(S.list) => Once(T.list))
    BY <1>1, <1>3, <2>1, SittingFacts
  <2>3. \A d \in Range(S.list) : d \in Chars
    BY <1>1 DEF Range
  <2>4. Lagged(T, x)
    BY <1>1, <2>2, <2>3 DEF Lagged
  <2> QED BY <2>1, <2>2, <2>4
<1> QED BY <1>2, <1>3

\* What is left of Good when everything stands as it did.
LEMMA EventsOnly ==
  ASSUME NEW S, NEW T, NEW x, Good(S, x), OnlyEvents(S, T),
         IdsOnce(T.events), Upright(T), Effects(T)
  PROVE  Good(T, x)
BY DEF Good, OnlyEvents, Foes, Lagged

\* setBashState of one who is still there: one event to stand up by.
LEMMA StandInKeeps ==
  ASSUME NEW S, NEW x, NEW T \in States, NEW c \in Chars, NEW n \in Int,
         Good(S, x), S.life[c] # "gone", \A s \in S.stands : s.who # c,
         T.life = S.life, T.foe = S.foe, T.stands = S.stands, T.affected = S.affected,
         T.events = S.events, T.bashed = [S.bashed EXCEPT ![c] = TRUE], Lagged(T, x)
  PROVE  /\ Good(StandIn(T, c, n), x)
         /\ StandIn(T, c, n).life = S.life /\ StandIn(T, c, n).foe = S.foe
         /\ Ids(S.events) \subseteq Ids(StandIn(T, c, n).events)
<1> DEFINE id == FreeId(T.events)
           A == AddEvent(T, n, "stand", c, None)
           new == [id |-> id, time |-> n, what |-> "stand", who |-> c, aff |-> None]
           more == T.stands \union {[who |-> c, id |-> id]}
<1>1. PICK U : U = StandIn(T, c, n)
  OBVIOUS
<1>2. /\ new \in EventType /\ new.id \notin Ids(T.events)
      /\ OnlyEvents(T, A)
      /\ Range(A.events) = Range(T.events) \union {new}
      /\ IdsOnce(T.events) => IdsOnce(A.events)
  BY AddFacts
<1>3. new.id = id /\ new.what = "stand" /\ new.who = c /\ new.id \in Nat
  BY <1>2 DEF EventType
<1>4. U = [A EXCEPT !.stands = more]
  BY <1>1, <1>2 DEF StandIn, OnlyEvents, States
<1> HIDE DEF A, new
<1>5. more \in SUBSET [who: Chars, id: Nat]
  BY <1>3 DEF States
<1> HIDE DEF more
<1>6. /\ U \in States /\ U.events = A.events /\ U.stands = more
      /\ U.life = S.life /\ U.foe = S.foe /\ U.bashed = T.bashed /\ U.affected = S.affected
      /\ U.wait = T.wait /\ U.list = T.list
  BY <1>2, <1>4, <1>5 DEF OnlyEvents, States
<1>7. Range(U.events) = Range(S.events) \union {new} /\ IdsOnce(U.events)
  BY <1>2, <1>6 DEF Good
<1>8. Stands(U.events) = Stands(S.events) \union {new}
  BY <1>3, <1>7 DEF Stands
<1>9. Upright(U)
  <2>1. ASSUME NEW e \in Stands(S.events) PROVE e.who # c
    <3>1. [who |-> e.who, id |-> e.id] \in S.stands
      BY DEF Good, Upright
    <3>2. [who |-> e.who, id |-> e.id].who # c
      BY <3>1
    <3> QED BY <3>2
  <2>2. more = {[who |-> e.who, id |-> e.id] : e \in Stands(U.events)}
    BY <1>3, <1>8 DEF Good, Upright, more
  <2>3. U.bashed = [S.bashed EXCEPT ![c] = TRUE] /\ S.bashed \in [Chars -> BOOLEAN]
    BY <1>6 DEF Good, States
  <2>4. ASSUME NEW e \in Stands(U.events)
        PROVE  /\ e.who \in Chars /\ U.bashed[e.who] /\ U.life[e.who] # "gone"
               /\ \A f \in Stands(U.events) : e.who = f.who => e.id = f.id
    BY <1>3, <1>6, <1>8, <2>1, <2>3 DEF Good, Upright
  <2>5. \A d \in Chars : U.bashed[d] /\ U.life[d] # "gone" => \E e \in Stands(U.events) : e.who = d
    BY <1>3, <1>6, <1>8, <2>3 DEF Good, Upright
  <2> QED BY <1>6, <2>2, <2>4, <2>5 DEF Upright
<1>10. Effects(U)
  BY <1>3, <1>6, <1>7 DEF Good, Effects
<1>11. Foes(U) /\ Lagged(U, x)
  BY <1>6 DEF Good, Foes, Lagged
<1>12. Ids(S.events) \subseteq Ids(U.events)
  BY <1>7 DEF Ids, Range
<1> QED BY <1>1, <1>6, <1>7, <1>9, <1>10, <1>11, <1>12 DEF Good

\* An event that is there is the one with its id.
LEMMA EventHas ==
  ASSUME NEW evs \in Seq(EventType), NEW id \in Ids(evs)
  PROVE  EventOf(evs, id) \in Range(evs) /\ EventOf(evs, id) \in EventType /\ EventOf(evs, id).id = id
<1>1. PICK k \in DOMAIN evs : evs[k].id = id
  BY DEF Ids
<1>2. PICK j : j = (CHOOSE i \in DOMAIN evs : evs[i].id = id)
  OBVIOUS
<1>3. j \in DOMAIN evs /\ evs[j].id = id
  BY <1>1, <1>2
<1>4. EventOf(evs, id) = evs[j]
  BY <1>2 DEF EventOf
<1> QED BY <1>3, <1>4 DEF Range

\* setBashState of one who is there.
LEMMA BashKeeps ==
  ASSUME NEW S, NEW x, Good(S, x), NEW c \in Chars, c # x, S.life[c] # "gone", NEW n \in Int
  PROVE  /\ Good(Bash(S, c, n), x)
         /\ Bash(S, c, n).life = S.life /\ Bash(S, c, n).foe = S.foe
         /\ Ids(S.events) \subseteq Ids(Bash(S, c, n).events)
<1> DEFINE S1 == [S EXCEPT !.bashed[c] = TRUE]
           T == LagSitting(S1, c, S.wait[c] + n)
           mine == {s \in S.stands : s.who = c}
<1>1. /\ S \in States /\ S.bashed \in [Chars -> BOOLEAN] /\ S.wait[c] + n \in Int
      /\ S.stands \subseteq [who: Chars, id: Nat] /\ S.events \in Seq(EventType)
  BY DEF Good, States
<1>2. /\ S1 \in States /\ S1.bashed = [S.bashed EXCEPT ![c] = TRUE]
      /\ S1.life = S.life /\ S1.wait = S.wait /\ S1.list = S.list /\ S1.foe = S.foe
      /\ S1.stands = S.stands /\ S1.affected = S.affected /\ S1.events = S.events
  BY <1>1 DEF States
<1>3. Bash(S, c, n) = IF mine = {} THEN StandIn(T, c, n) ELSE Longer(T, CHOOSE s \in mine : TRUE, n)
  BY DEF Bash
<1> HIDE DEF S1
<1>4. Lagged(S1, x)
  BY <1>2 DEF Good, Lagged
<1>5. Lagged(T, x) /\ OnlyLag(S1, T)
  BY <1>1, <1>2, <1>4, SittingKeeps
<1> HIDE DEF T
<1>6. /\ T \in States /\ T.life = S.life /\ T.foe = S.foe /\ T.stands = S.stands
      /\ T.affected = S.affected /\ T.events = S.events /\ T.bashed = [S.bashed EXCEPT ![c] = TRUE]
  BY <1>2, <1>5 DEF OnlyLag
<1>7. CASE mine = {}
  <2>1. \A s \in S.stands : s.who # c
    BY <1>7
  <2> QED BY <1>3, <1>5, <1>6, <1>7, <2>1, StandInKeeps
<1>8. CASE mine # {}
  <2>1. PICK s : s = (CHOOSE r \in mine : TRUE)
    OBVIOUS
  <2>2. s \in S.stands /\ s.who = c
    BY <1>8, <2>1
  <2>3. S.bashed[c]
    <3>1. PICK e \in Stands(S.events) : s = [who |-> e.who, id |-> e.id]
      BY <2>2 DEF Good, Upright
    <3>2. e.who = c
      BY <2>2, <3>1
    <3> QED BY <3>2 DEF Good, Upright
  <2>4. T.bashed = S.bashed
    BY <1>1, <1>6, <2>3
  <2>5. Good(T, x)
    BY <1>5, <1>6, <2>4 DEF Good, Foes, Upright, Effects
  <2> DEFINE evs == [k \in DOMAIN T.events |->
                       IF T.events[k].id # s.id THEN T.events[k]
                       ELSE LET time == AtLeast(0, T.events[k].time + n)
                            IN [T.events[k] EXCEPT !.time = time]]
             L == [T EXCEPT !.events = evs]
  <2>6. Longer(T, s, n) = L
    BY <1>6 DEF Longer, States
  <2>7. \A k \in DOMAIN T.events : T.events[k] \in EventType
    BY <1>1, <1>6
  <2>8. ASSUME NEW k \in DOMAIN T.events
        PROVE  /\ evs[k] \in EventType
               /\ evs[k].id = T.events[k].id /\ evs[k].what = T.events[k].what
               /\ evs[k].who = T.events[k].who /\ evs[k].aff = T.events[k].aff
    <3>1. T.events[k] \in EventType /\ T.events[k].time \in Int
      BY <2>7 DEF EventType
    <3>2. AtLeast(0, T.events[k].time + n) \in Int
      BY <3>1 DEF AtLeast
    <3> QED BY <3>1, <3>2 DEF EventType
  <2>9. evs \in [DOMAIN T.events -> EventType]
    BY <2>8
  <2> HIDE DEF evs
  <2>10. /\ OnlyEvents(T, L) /\ L.events = evs /\ Ids(evs) = Ids(T.events)
         /\ IdsOnce(evs) /\ Upright(L) /\ Effects(L)
    BY <1>6, <2>5, <2>8, <2>9, Retimed DEF Good
  <2> HIDE DEF L
  <2>11. Good(L, x)
    BY <2>5, <2>10, EventsOnly
  <2> QED BY <1>3, <1>6, <1>8, <2>1, <2>6, <2>10, <2>11 DEF OnlyEvents
<1> QED BY <1>7, <1>8

-------------------------------------------------------------------------------
(* What characters do, and what happens to them.                           *)

\* A deed by or to one who is here.
Fine(S, T, x) == Good(T, x) /\ T.life = S.life /\ Ids(S.events) \subseteq Ids(T.events)

\* Who leaves the room fights nobody, and those who fought them somebody who
\* fights, or nobody.
LEMMA GoneKeeps ==
  ASSUME NEW S, NEW x, Good(S, x), NEW c \in Chars, S.life[c] = "here", NEW T \in Gone(S, c)
  PROVE  Fine(S, T, x)
<1>1. PICK g \in [Chars -> Chars \union {None}] :
        /\ T = [S EXCEPT !.foe = g]
        /\ \A t \in Chars :
             IF t = c THEN g[t] = None
             ELSE IF S.foe[t] # c THEN g[t] = S.foe[t]
             ELSE g[t] \in Attackers(S, t, c) \/ (Attackers(S, t, c) = {} /\ g[t] = None)
  BY DEF Gone
<1>2. S \in States /\ S.foe \in [Chars -> Chars \union {None}]
  BY DEF Good, States
<1>3. /\ T \in States /\ T.foe = g /\ T.life = S.life /\ T.wait = S.wait /\ T.list = S.list
      /\ T.bashed = S.bashed /\ T.stands = S.stands /\ T.affected = S.affected
      /\ T.events = S.events
  BY <1>1, <1>2 DEF States
<1>4. ASSUME NEW t \in Chars, g[t] # None
      PROVE  g[t] # t /\ S.life[t] = "here" /\ S.life[g[t]] = "here"
  <2>1. t # c /\ S.foe[t] # None
    BY <1>1, <1>4, HeartbeatAssumption
  <2>2. CASE S.foe[t] # c
    BY <1>1, <2>1, <2>2 DEF Good, Foes
  <2>3. CASE S.foe[t] = c
    <3>1. g[t] \in Attackers(S, t, c)
      BY <1>1, <1>4, <2>1, <2>3
    <3>2. g[t] \in Chars /\ S.foe[g[t]] = t /\ t # None
      BY <3>1, HeartbeatAssumption DEF Attackers
    <3> QED BY <2>1, <3>2 DEF Good, Foes
  <2> QED BY <2>2, <2>3
<1>5. Foes(T)
  BY <1>3, <1>4 DEF Foes
<1>6. Lagged(T, x) /\ Upright(T) /\ Effects(T)
  BY <1>3 DEF Good, Lagged, Upright, Effects
<1> QED BY <1>3, <1>5, <1>6 DEF Good, Fine

\* Relief from a round, or none.
LEMMA RelievedKeeps ==
  ASSUME NEW S, NEW x, Good(S, x), NEW b, b # None => b \in Chars /\ b # x /\ S.life[b] # "gone"
  PROVE  Fine(S, Relieved(S, b), x)
<1>1. -BashTime \in Int
  BY HeartbeatAssumption
<1> QED BY <1>1, BashKeeps DEF Relieved, Fine

\* performFlee, also of one whose lag is just over.
LEMMA FleeKeeps ==
  ASSUME NEW S, NEW c \in Chars, NEW x \in {c, None}, Good(S, x), NEW R \in Flee(S, c)
  PROVE  Fine(S, R, x)
<1> DEFINE T == [S EXCEPT !.fleeing[c] = FALSE]
<1>1. S \in States /\ S.fleeing \in [Chars -> BOOLEAN] /\ S.foe \in [Chars -> Chars \union {None}]
  BY DEF Good, States
<1>2. /\ T \in States /\ T.foe = S.foe /\ T.life = S.life /\ T.wait = S.wait /\ T.list = S.list
      /\ T.bashed = S.bashed /\ T.stands = S.stands /\ T.affected = S.affected
      /\ T.events = S.events
  BY <1>1 DEF States
<1>3. R = S \/ (S.life[c] = "here" /\ (R = T \/ \E U \in Gone(T, c) : R = Relieved(U, T.foe[c])))
  BY DEF Flee
<1> HIDE DEF T
<1>4. Fine(S, T, x)
  BY <1>2 DEF Good, Foes, Lagged, Upright, Effects, Fine
<1>5. ASSUME S.life[c] = "here", NEW U \in Gone(T, c), R = Relieved(U, T.foe[c])
      PROVE  Fine(S, R, x)
  <2>1. Fine(T, U, x)
    BY <1>2, <1>4, <1>5, GoneKeeps DEF Fine
  <2>2. T.foe[c] # None => T.foe[c] \in Chars /\ T.foe[c] # x /\ U.life[T.foe[c]] # "gone"
    BY <1>1, <1>2, <2>1 DEF Good, Foes, Fine
  <2>3. Fine(U, R, x)
    BY <1>5, <2>1, <2>2, RelievedKeeps DEF Fine
  <2> QED BY <1>2, <2>1, <2>3 DEF Fine
<1>6. Fine(S, S, x)
  BY DEF Fine
<1> QED BY <1>3, <1>4, <1>5, <1>6

\* Kept as it is when nobody is passed over.
LEMMA LagFine ==
  ASSUME NEW S, Good(S, None), NEW c \in Chars, NEW n \in Int, n > 0
  PROVE  Fine(S, Lag(S, c, n), None)
<1>1. c # None /\ S \in States /\ Lagged(S, None)
  BY HeartbeatAssumption DEF Good
<1>2. Lagged(Lag(S, c, n), None) /\ OnlyLag(S, Lag(S, c, n))
  BY <1>1, LagKeeps
<1> QED BY <1>2, LagOnly DEF Fine, OnlyLag

\* do_flee, at once or when the lag is over.
LEMMA TryToFleeKeeps ==
  ASSUME NEW S, NEW c \in Chars, Good(S, None), NEW R \in TryToFlee(S, c)
  PROVE  Fine(S, R, None)
<1>1. CASE S.fleeing[c] \/ S.foe[c] = None
  BY <1>1, FleeKeeps DEF TryToFlee
<1>2. CASE ~(S.fleeing[c] \/ S.foe[c] = None)
  <2> DEFINE T == [S EXCEPT !.fleeing[c] = TRUE]
  <2>1. S \in States /\ S.fleeing \in [Chars -> BOOLEAN]
    BY DEF Good, States
  <2>2. /\ T \in States /\ T.foe = S.foe /\ T.life = S.life /\ T.wait = S.wait /\ T.list = S.list
        /\ T.bashed = S.bashed /\ T.stands = S.stands /\ T.affected = S.affected
        /\ T.events = S.events
    BY <2>1 DEF States
  <2>3. R = Lag(T, c, FleeLag)
    BY <1>2 DEF TryToFlee
  <2> HIDE DEF T
  <2>4. Fine(S, T, None)
    BY <2>2 DEF Good, Foes, Lagged, Upright, Effects, Fine
  <2>5. FleeLag \in Int /\ FleeLag > 0
    BY HeartbeatAssumption
  <2>6. Fine(T, R, None)
    BY <2>3, <2>4, <2>5, LagFine DEF Fine
  <2> QED BY <2>4, <2>6 DEF Fine
<1> QED BY <1>1, <1>2

\* Two fight, and one of them is bashed.
LEMMA HitKeeps ==
  ASSUME NEW S, Good(S, None), NEW c \in Chars, NEW v \in Chars, c # v,
         S.life[c] = "here", S.life[v] = "here", NEW n \in Int
  PROVE  Fine(S, Hit(S, c, v, n), None)
<1> DEFINE f == [t \in Chars |-> IF t = c /\ S.foe[t] = None THEN v
                                ELSE IF t = v /\ S.foe[v] = None THEN c ELSE S.foe[t]]
           T == [S EXCEPT !.foe = f]
<1>1. S \in States /\ S.foe \in [Chars -> Chars \union {None}]
  BY DEF Good, States
<1>2. Engage(S, c, v) = T
  BY <1>1 DEF Engage, States
<1>3. f \in [Chars -> Chars \union {None}]
  BY <1>1
<1>4. \A t \in Chars : f[t] # None => f[t] # t /\ S.life[t] = "here" /\ S.life[f[t]] = "here"
  BY DEF Good, Foes
<1> HIDE DEF f
<1>5. /\ T \in States /\ T.foe = f /\ T.life = S.life /\ T.wait = S.wait /\ T.list = S.list
      /\ T.bashed = S.bashed /\ T.stands = S.stands /\ T.affected = S.affected
      /\ T.events = S.events
  BY <1>1, <1>3 DEF States
<1> HIDE DEF T
<1>6. Foes(T)
  BY <1>4, <1>5 DEF Foes
<1>7. Good(T, None)
  BY <1>5, <1>6 DEF Good, Lagged, Upright, Effects
<1>8. v # None /\ T.life[v] # "gone"
  BY <1>5, HeartbeatAssumption
<1>9. Fine(T, Bash(T, v, n), None)
  BY <1>7, <1>8, BashKeeps DEF Fine
<1> QED BY <1>2, <1>5, <1>9 DEF Hit, Fine

\* Extract: c's events are nobody's, and nobody fights c.
LEMMA ExtractKeeps ==
  ASSUME NEW S, Good(S, None), NEW c \in Chars, S.life[c] = "here"
  PROVE  /\ Good(Extract(S, c), None)
         /\ Ids(Extract(S, c).events) = Ids(S.events)
         /\ Extract(S, c).affected = S.affected
         /\ Extract(S, c).life = [S.life EXCEPT ![c] = "purged"]
<1> DEFINE f == [t \in Chars |-> IF t = c \/ S.foe[t] = c THEN None ELSE S.foe[t]]
           l == [S.life EXCEPT ![c] = "purged"]
           evs == [k \in DOMAIN S.events |->
                     IF S.events[k].what = "effect" /\ S.events[k].who = c
                       THEN [S.events[k] EXCEPT !.who = None, !.aff = None] ELSE S.events[k]]
           T == [S EXCEPT !.life = l, !.foe = f, !.events = evs]
<1>1. S \in States /\ S.foe \in [Chars -> Chars \union {None}] /\ S.life \in [Chars -> Lives]
  BY DEF Good, States
<1>2. PICK old \in Seq(EventType) : old = S.events
  BY <1>1 DEF States
<1>3. DOMAIN old = 1..Len(old) /\ Len(old) \in Nat /\ DOMAIN evs = DOMAIN old
  BY <1>2
<1>4. Extract(S, c) = T
  BY <1>1 DEF Extract, States
<1>5. f \in [Chars -> Chars \union {None}] /\ l \in [Chars -> Lives] /\ "purged" # "gone"
  BY <1>1 DEF Lives
<1>6. \A t \in Chars : f[t] # None => f[t] # t /\ l[t] = "here" /\ l[f[t]] = "here"
  BY <1>1 DEF Good, Foes
<1>7. \A d \in Chars : (l[d] = "gone" <=> S.life[d] = "gone")
                    /\ (l[d] = "here" <=> S.life[d] = "here" /\ d # c)
  BY <1>1, <1>5
<1>8. ASSUME NEW k \in DOMAIN old
      PROVE  /\ evs[k] \in EventType /\ evs[k].id = old[k].id /\ evs[k].what = old[k].what
             /\ (evs[k].what = "effect" => evs[k].who # c)
             /\ (evs[k] = old[k] \/ (evs[k].who = None /\ old[k].who = c /\ old[k].what = "effect"))
  <2>1. old[k] \in EventType /\ None # c
    BY <1>2, <1>3, HeartbeatAssumption
  <2> QED BY <1>2, <2>1 DEF EventType
<1>9. evs \in Seq(EventType)
  <2>1. evs \in [DOMAIN old -> EventType]
    BY <1>2, <1>8
  <2> HIDE DEF evs
  <2> QED BY <1>3, <2>1
<1> HIDE DEF f, l, evs
<1>10. /\ T \in States /\ T.life = l /\ T.foe = f /\ T.events = evs
       /\ T.wait = S.wait /\ T.list = S.list /\ T.bashed = S.bashed
       /\ T.stands = S.stands /\ T.affected = S.affected
  BY <1>1, <1>5, <1>9 DEF States
<1> HIDE DEF T
<1>11. Foes(T) /\ Lagged(T, None)
  BY <1>6, <1>10 DEF Foes, Good, Lagged
<1>12. Ids(evs) = Ids(old) /\ IdsOnce(evs)
  <2>1. IdsOnce(old)
    BY <1>2 DEF Good
  <2> QED BY <1>3, <1>8, <2>1 DEF Ids, IdsOnce
<1>13. Stands(evs) = Stands(old)
  <2>1. ASSUME NEW k \in DOMAIN old PROVE evs[k].what = "stand" \/ old[k].what = "stand" => evs[k] = old[k]
    BY <1>8
  <2> QED BY <1>3, <1>8, <2>1 DEF Stands, Range
<1>14. Upright(T)
  BY <1>2, <1>7, <1>10, <1>13 DEF Good, Upright
<1>15. Effects(T)
  <2>1. ASSUME NEW e \in Range(evs), e.what = "effect", e.who # None PROVE l[e.who] = "here"
    <3>1. PICK k \in DOMAIN old : e = evs[k]
      BY <1>3 DEF Range
    <3>2. e = old[k] /\ e.who # c /\ e \in Range(old)
      BY <1>8, <2>1, <3>1 DEF Range
    <3>3. S.life[e.who] = "here" /\ e.who \in Chars
      <4>1. e \in EventType
        BY <1>8, <3>1
      <4> QED BY <1>2, <2>1, <3>2, <4>1 DEF Good, Effects, EventType
    <3> QED BY <1>7, <3>2, <3>3
  <2>2. ASSUME NEW d \in Chars, l[d] = "here", NEW a \in S.affected[d]
        PROVE  \E e \in Range(evs) : e.what = "effect" /\ e.who = d /\ e.aff = a
    <3>1. S.life[d] = "here" /\ d # c
      BY <1>7, <2>2
    <3>2. PICK k \in DOMAIN old : old[k].what = "effect" /\ old[k].who = d /\ old[k].aff = a
      BY <1>2, <3>1 DEF Good, Effects, Range
    <3>3. evs[k] = old[k] /\ evs[k] \in Range(evs)
      BY <1>3, <1>8, <3>1, <3>2 DEF Range
    <3> QED BY <3>2, <3>3
  <2> QED BY <1>10, <2>1, <2>2 DEF Effects
<1> QED BY <1>2, <1>4, <1>10, <1>11, <1>12, <1>14, <1>15 DEF Good, l

\* The event of an effect is added to those of a state that is good but for it.
LEMMA EffectAdded ==
  ASSUME NEW S \in States, NEW x,
         Foes(S), Lagged(S, x), IdsOnce(S.events), Upright(S),
         \A e \in Range(S.events) : e.what = "effect" /\ e.who # None => S.life[e.who] = "here",
         NEW c \in Chars \union {None}, c # None => S.life[c] = "here",
         NEW a \in Affs \union {None},
         \A d \in Chars : S.life[d] = "here" =>
           \A b \in S.affected[d] :
             \/ d = c /\ b = a
             \/ \E e \in Range(S.events) : e.what = "effect" /\ e.who = d /\ e.aff = b
  PROVE  LET T == AddEvent(S, CallTime, "effect", c, a) IN
         /\ Good(T, x) /\ OnlyEvents(S, T)
         /\ \E new \in EventType :
              /\ new.id \notin Ids(S.events) /\ new.who = c /\ new.aff = a /\ new.what = "effect"
              /\ Range(T.events) = Range(S.events) \union {new}
<1> DEFINE new == [id |-> FreeId(S.events), time |-> CallTime, what |-> "effect", who |-> c, aff |-> a]
<1>1. PICK T : T = AddEvent(S, CallTime, "effect", c, a)
  OBVIOUS
<1>2. CallTime \in Int
  BY HeartbeatAssumption
<1>3. /\ new \in EventType /\ new.id \notin Ids(S.events)
      /\ OnlyEvents(S, T)
      /\ Range(T.events) = Range(S.events) \union {new} /\ IdsOnce(T.events)
  BY <1>1, <1>2, AddFacts
<1>4. new.what = "effect" /\ new.who = c /\ new.aff = a
  OBVIOUS
<1> HIDE DEF new
<1>5. Stands(T.events) = Stands(S.events)
  BY <1>3, <1>4 DEF Stands
<1>6. Upright(T)
  BY <1>3, <1>5 DEF Upright, OnlyEvents
<1>7. Foes(T) /\ Lagged(T, x)
  BY <1>3 DEF Foes, Lagged, OnlyEvents
<1>8. Effects(T)
  BY <1>3, <1>4 DEF Effects, OnlyEvents
<1>9. Good(T, x)
  BY <1>3, <1>6, <1>7, <1>8 DEF Good, OnlyEvents
<1> QED BY <1>1, <1>3, <1>4, <1>9

\* affect_to_char adds an effect with its event.
LEMMA AffectKeeps ==
  ASSUME NEW S, Good(S, None), NEW c \in Chars, S.life[c] = "here", NEW a \in Affs
  PROVE  Good(Affect(S, c, a), None)
<1> DEFINE more == [S.affected EXCEPT ![c] = @ \union {a}]
           T == [S EXCEPT !.affected = more]
<1>1. S \in States /\ S.affected \in [Chars -> SUBSET Affs]
  BY DEF Good, States
<1>2. Affect(S, c, a) = AddEvent(T, CallTime, "effect", c, a)
  BY <1>1 DEF Affect, States
<1>3. more \in [Chars -> SUBSET Affs] /\ \A d \in Chars : \A b \in more[d] : b \in S.affected[d] \/ (d = c /\ b = a)
  BY <1>1
<1> HIDE DEF more
<1>4. /\ T \in States /\ T.affected = more /\ T.life = S.life /\ T.foe = S.foe /\ T.wait = S.wait
      /\ T.list = S.list /\ T.bashed = S.bashed /\ T.stands = S.stands /\ T.events = S.events
  BY <1>1, <1>3 DEF States
<1> HIDE DEF T
<1>5. Foes(T) /\ Lagged(T, None) /\ IdsOnce(T.events) /\ Upright(T)
  BY <1>4 DEF Good, Foes, Lagged, Upright
<1>6. \A e \in Range(T.events) : e.what = "effect" /\ e.who # None => T.life[e.who] = "here"
  BY <1>4 DEF Good, Effects
<1>7. \A d \in Chars : T.life[d] = "here" =>
        \A b \in T.affected[d] :
          \/ d = c /\ b = a
          \/ \E e \in Range(T.events) : e.what = "effect" /\ e.who = d /\ e.aff = b
  BY <1>3, <1>4 DEF Good, Effects
<1>8. T.life[c] = "here"
  BY <1>4
<1> QED BY <1>2, <1>4, <1>5, <1>6, <1>7, <1>8, EffectAdded

\* affect_remove leaves the event, which nobody needs.
LEMMA CureKeeps ==
  ASSUME NEW S, Good(S, None), NEW c \in Chars, NEW a
  PROVE  Good(Cure(S, c, a), None)
<1> DEFINE less == [S.affected EXCEPT ![c] = @ \ {a}]
           T == [S EXCEPT !.affected = less]
<1>1. S \in States /\ S.affected \in [Chars -> SUBSET Affs]
  BY DEF Good, States
<1>2. Cure(S, c, a) = T
  BY <1>1 DEF Cure, States
<1>3. less \in [Chars -> SUBSET Affs] /\ \A d \in Chars : less[d] \subseteq S.affected[d]
  BY <1>1
<1> HIDE DEF less
<1>4. /\ T \in States /\ T.affected = less /\ T.life = S.life /\ T.foe = S.foe /\ T.wait = S.wait
      /\ T.list = S.list /\ T.bashed = S.bashed /\ T.stands = S.stands /\ T.events = S.events
  BY <1>1, <1>3 DEF States
<1> HIDE DEF T
<1>5. Foes(T) /\ Lagged(T, None) /\ IdsOnce(T.events) /\ Upright(T)
  BY <1>4 DEF Good, Foes, Lagged, Upright
<1>6. Effects(T)
  BY <1>3, <1>4 DEF Good, Effects
<1> QED BY <1>2, <1>4, <1>5, <1>6 DEF Good

-------------------------------------------------------------------------------

\* remove_event takes off the events with the ids given, and no others.
LEMMA RemoveFacts ==
  ASSUME NEW evs \in Seq(EventType), NEW ids
  PROVE  LET t == RemoveEvents(evs, ids) IN
         /\ t \in Seq(EventType)
         /\ Range(t) = {e \in Range(evs) : e.id \notin ids}
         /\ Ids(t) = Ids(evs) \ ids
         /\ IdsOnce(evs) => IdsOnce(t)
<1> DEFINE out == {e \in Range(evs) : e.id \in ids}
           t == RemoveEvents(evs, ids)
<1>1. t \in Seq(EventType) /\ Range(t) = Range(evs) \ out /\ (IdsOnce(evs) => IdsOnce(t))
  BY WithoutFacts, WithoutIds DEF RemoveEvents
<1>2. Range(t) = {e \in Range(evs) : e.id \notin ids}
  BY <1>1
<1> HIDE DEF t, out
<1>3. \A s : Ids(s) = {e.id : e \in Range(s)}
  BY DEF Ids, Range
<1>4. Ids(t) = Ids(evs) \ ids
  <2>1. Ids(t) = {e.id : e \in Range(t)} /\ Ids(evs) = {e.id : e \in Range(evs)}
    BY <1>3
  <2> QED BY <1>2, <2>1
<1> QED BY <1>1, <1>2, <1>4 DEF t

\* Two events with one id are one.
LEMMA OneOfAnId ==
  ASSUME NEW evs, IdsOnce(evs), NEW e \in Range(evs), NEW f \in Range(evs), e.id = f.id
  PROVE  e = f
BY DEF IdsOnce, Range

\* What comes after an event is another one, or nothing.
LEMMA NextIsAnother ==
  ASSUME NEW evs \in Seq(EventType), IdsOnce(evs), NEW id \in Ids(evs)
  PROVE  NextEvent(evs, id) \in (Ids(evs) \ {id}) \union {None}
<1>1. PICK k : k = (CHOOSE j \in DOMAIN evs : evs[j].id = id)
  OBVIOUS
<1>2. k \in DOMAIN evs /\ evs[k].id = id
  BY <1>1 DEF Ids
<1>3. NextEvent(evs, id) = IF k = Len(evs) THEN None ELSE evs[k+1].id
  BY <1>1 DEF NextEvent
<1>4. CASE k # Len(evs)
  <2>1. k + 1 \in DOMAIN evs /\ k + 1 # k
    BY <1>2, <1>4
  <2>2. evs[k+1].id # id
    BY <1>2, <2>1 DEF IdsOnce
  <2> QED BY <1>3, <1>4, <2>1, <2>2 DEF Ids
<1> QED BY <1>3, <1>4

\* S without the event that has been called.
Called(S, id) == [S EXCEPT !.events = RemoveEvents(@, {id})]

\* An event that has been called is gone, and nothing else.
LEMMA CalledFacts ==
  ASSUME NEW S \in States, NEW id
  PROVE  /\ OnlyEvents(S, Called(S, id))
         /\ Called(S, id).events = RemoveEvents(S.events, {id})
         /\ Range(Called(S, id).events) = {e \in Range(S.events) : e.id # id}
         /\ Ids(Called(S, id).events) = Ids(S.events) \ {id}
         /\ IdsOnce(S.events) => IdsOnce(Called(S, id).events)
<1> DEFINE t == RemoveEvents(S.events, {id})
           T == [S EXCEPT !.events = t]
<1>1. S.events \in Seq(EventType)
  BY DEF States
<1>2. /\ t \in Seq(EventType) /\ Range(t) = {e \in Range(S.events) : e.id \notin {id}}
      /\ Ids(t) = Ids(S.events) \ {id} /\ (IdsOnce(S.events) => IdsOnce(t))
  BY <1>1, RemoveFacts
<1>3. Called(S, id) = T
  BY DEF Called
<1> HIDE DEF t
<1>4. T.events = t /\ OnlyEvents(S, T)
  BY <1>2 DEF States, OnlyEvents
<1> QED BY <1>2, <1>3, <1>4 DEF t

\* When an event of no effect that lasts is gone, nobody misses it.
LEMMA CalledKeeps ==
  ASSUME NEW S, Good(S, None), NEW e \in Range(S.events), e.what = "effect",
         \A c \in Chars, a \in Affs :
           S.life[c] = "here" /\ a \in S.affected[c] /\ e.who = c /\ e.aff = a =>
             \E f \in Range(S.events) : f.id # e.id /\ f.what = "effect" /\ f.who = c /\ f.aff = a
  PROVE  Good(Called(S, e.id), None)
<1>1. PICK T : T = Called(S, e.id)
  OBVIOUS
<1>2. /\ OnlyEvents(S, T) /\ Range(T.events) = {f \in Range(S.events) : f.id # e.id}
      /\ IdsOnce(T.events)
  <2>1. S \in States /\ IdsOnce(S.events)
    BY DEF Good
  <2>2. PICK id : id = e.id
    OBVIOUS
  <2>3. /\ OnlyEvents(S, Called(S, id)) /\ IdsOnce(Called(S, id).events)
        /\ Range(Called(S, id).events) = {f \in Range(S.events) : f.id # id}
    <3>1. OnlyEvents(S, Called(S, id)) /\ IdsOnce(Called(S, id).events)
      BY ONLY <2>1, CalledFacts
    <3>2. Range(Called(S, id).events) = {f \in Range(S.events) : f.id # id}
      BY ONLY <2>1, CalledFacts
    <3> QED BY <3>1, <3>2
  <2> QED BY <1>1, <2>2, <2>3
<1>3. \A f \in Range(S.events) : f.id = e.id => f = e
  BY OneOfAnId DEF Good
<1>4. Stands(T.events) = Stands(S.events)
  BY <1>2, <1>3 DEF Stands
<1>5. Upright(T)
  BY <1>2, <1>4 DEF Good, Upright, OnlyEvents
<1>6. Effects(T)
  <2>1. \A c \in Chars : S.affected[c] \subseteq Affs
    BY DEF Good, States
  <2>2. ASSUME NEW c \in Chars, S.life[c] = "here", NEW a \in S.affected[c]
        PROVE  \E f \in Range(T.events) : f.what = "effect" /\ f.who = c /\ f.aff = a
    <3>1. PICK f \in Range(S.events) : f.what = "effect" /\ f.who = c /\ f.aff = a
      BY <2>2 DEF Good, Effects
    <3>2. CASE f = e
      BY <1>2, <2>1, <2>2, <3>1, <3>2
    <3>3. CASE f # e
      BY <1>2, <1>3, <3>1, <3>3
    <3> QED BY <3>2, <3>3
  <2>3. ASSUME NEW f \in Range(T.events), f.what = "effect", f.who # None
        PROVE  S.life[f.who] = "here"
    BY <1>2, <2>3 DEF Good, Effects
  <2> QED BY <1>2, <2>2, <2>3 DEF Effects, OnlyEvents
<1>7. Foes(T) /\ Lagged(T, None)
  BY <1>2 DEF Good, Foes, Lagged, OnlyEvents
<1> QED BY <1>1, <1>2, <1>5, <1>6, <1>7 DEF Good, OnlyEvents

\* BashStand, and its event gone.
LEMMA StandKeeps ==
  ASSUME NEW S, Good(S, None), NEW e \in Range(S.events), e.what = "stand"
  PROVE  /\ Stand(S, e) \in States /\ Stand(S, e).events = S.events
         /\ Good(Called(Stand(S, e), e.id), None)
<1> DEFINE b == [S.bashed EXCEPT ![e.who] = FALSE]
           rest == {s \in S.stands : s.id # e.id}
           T == [S EXCEPT !.bashed = b, !.stands = rest]
<1>1. S \in States /\ S.bashed \in [Chars -> BOOLEAN] /\ S.stands \subseteq [who: Chars, id: Nat]
  BY DEF Good, States
<1>2. Stand(S, e) = T
  BY <1>1 DEF Stand, States
<1>3. b \in [Chars -> BOOLEAN] /\ rest \subseteq [who: Chars, id: Nat]
  BY <1>1
<1>4. e \in Stands(S.events) /\ e.who \in Chars
  BY DEF Good, Upright, Stands
<1> HIDE DEF b, rest
<1>5. /\ T \in States /\ T.bashed = b /\ T.stands = rest /\ T.life = S.life /\ T.foe = S.foe
      /\ T.wait = S.wait /\ T.list = S.list /\ T.affected = S.affected /\ T.events = S.events
  BY <1>1, <1>3 DEF States
<1> HIDE DEF T
<1>6. PICK U : U = Called(T, e.id)
  OBVIOUS
<1>7. /\ OnlyEvents(T, U) /\ Range(U.events) = {f \in Range(S.events) : f.id # e.id}
      /\ IdsOnce(U.events)
  <2>1. PICK id : id = e.id
    OBVIOUS
  <2>2. IdsOnce(T.events)
    BY <1>5 DEF Good
  <2>3. OnlyEvents(T, Called(T, id)) /\ IdsOnce(Called(T, id).events)
    BY ONLY <1>5, <2>2, CalledFacts
  <2>4. Range(Called(T, id).events) = {f \in Range(T.events) : f.id # id}
    BY ONLY <1>5, CalledFacts
  <2> QED BY <1>5, <1>6, <2>1, <2>3, <2>4
<1>8. Stands(U.events) = {f \in Stands(S.events) : f.id # e.id}
  BY <1>7 DEF Stands
<1>9. \A f \in Stands(S.events) : f.who = e.who => f.id = e.id
  BY <1>4 DEF Good, Upright
<1>10. Upright(U)
  <2>1. ASSUME NEW f \in Stands(U.events)
        PROVE  /\ f.who \in Chars /\ b[f.who] /\ S.life[f.who] # "gone"
               /\ \A g \in Stands(U.events) : f.who = g.who => f.id = g.id
    <3>1. f \in Stands(S.events) /\ f.who # e.who
      BY <1>8, <1>9
    <3>2. f.who \in Chars /\ S.bashed[f.who]
      BY <3>1 DEF Good, Upright
    <3>3. b[f.who]
      BY <1>1, <3>1, <3>2 DEF b
    <3> QED BY <1>8, <3>1, <3>3 DEF Good, Upright
  <2>2. rest = {[who |-> f.who, id |-> f.id] : f \in Stands(U.events)}
    <3>1. \A f : [who |-> f.who, id |-> f.id].id = f.id
      OBVIOUS
    <3>2. S.stands = {[who |-> f.who, id |-> f.id] : f \in Stands(S.events)}
      BY DEF Good, Upright
    <3> QED BY <1>8, <3>1, <3>2 DEF rest
  <2>3. ASSUME NEW c \in Chars, b[c], S.life[c] # "gone"
        PROVE  \E f \in Stands(U.events) : f.who = c
    <3>1. c # e.who /\ S.bashed[c]
      BY <1>1, <1>4, <2>3 DEF b
    <3>2. PICK f \in Stands(S.events) : f.who = c
      BY <2>3, <3>1 DEF Good, Upright
    <3>3. f.id # e.id
      BY <1>4, <3>1, <3>2, OneOfAnId DEF Good, Stands
    <3> QED BY <1>8, <3>2, <3>3
  <2> QED BY <1>5, <1>7, <2>1, <2>2, <2>3 DEF Upright, OnlyEvents
<1>11. Effects(U)
  <2>1. \A f \in Range(S.events) : f.what = "effect" => f.id # e.id
    BY OneOfAnId DEF Good
  <2> QED BY <1>5, <1>7, <2>1 DEF Good, Effects, OnlyEvents
<1>12. Foes(U) /\ Lagged(U, None)
  BY <1>5, <1>7 DEF Good, Foes, Lagged, OnlyEvents
<1>13. Good(U, None)
  BY <1>7, <1>10, <1>11, <1>12 DEF Good, OnlyEvents
<1> QED BY <1>2, <1>5, <1>6, <1>13

\* effMainCallback's new event replaces the one called.
LEMMA AgainKeeps ==
  ASSUME NEW S, Good(S, None), NEW id \in Ids(S.events),
         EventOf(S.events, id).what = "effect"
  PROVE  /\ Again(S, id) \in States /\ IdsOnce(Again(S, id).events)
         /\ id \in Ids(Again(S, id).events)
         /\ Good(Called(Again(S, id), id), None)
<1>1. PICK e : e = EventOf(S.events, id)
  OBVIOUS
<1>2. S.events \in Seq(EventType)
  BY DEF Good, States
<1>3. e \in Range(S.events) /\ e \in EventType /\ e.id = id /\ e.what = "effect"
  BY <1>1, <1>2, EventHas
<1>4. e.who \in Chars \union {None} /\ e.aff \in Affs \union {None}
  BY <1>3 DEF EventType
<1>5. e.who # None => S.life[e.who] = "here"
  BY <1>3 DEF Good, Effects
<1>6. PICK T : T = Again(S, id)
  OBVIOUS
<1>7. T = AddEvent(S, CallTime, "effect", e.who, e.aff)
  BY <1>1, <1>6 DEF Again
<1>8. /\ Good(T, None) /\ OnlyEvents(S, T)
      /\ \E new \in EventType :
           /\ new.id \notin Ids(S.events) /\ new.who = e.who /\ new.aff = e.aff /\ new.what = "effect"
           /\ Range(T.events) = Range(S.events) \union {new}
  <2>1. /\ S \in States /\ Foes(S) /\ Lagged(S, None) /\ IdsOnce(S.events) /\ Upright(S)
        /\ \A f \in Range(S.events) : f.what = "effect" /\ f.who # None => S.life[f.who] = "here"
        /\ \A d \in Chars : S.life[d] = "here" =>
             \A b \in S.affected[d] :
               \/ d = e.who /\ b = e.aff
               \/ \E f \in Range(S.events) : f.what = "effect" /\ f.who = d /\ f.aff = b
    BY DEF Good, Effects
  <2>2. PICK c \in Chars \union {None}, a \in Affs \union {None} : c = e.who /\ a = e.aff
    BY <1>4
  <2> QED BY <1>5, <1>7, <2>1, <2>2, EffectAdded
<1>9. PICK new \in EventType :
        /\ new.id \notin Ids(S.events) /\ new.who = e.who /\ new.aff = e.aff /\ new.what = "effect"
        /\ Range(T.events) = Range(S.events) \union {new}
  BY <1>8
<1>10. e \in Range(T.events) /\ new \in Range(T.events) /\ new.id # e.id
  BY <1>3, <1>9
<1>11. Good(Called(T, e.id), None)
  BY <1>3, <1>8, <1>9, <1>10, CalledKeeps
<1>12. id \in Ids(T.events)
  BY <1>3, <1>10 DEF Ids, Range
<1> QED BY <1>3, <1>6, <1>8, <1>11, <1>12 DEF Good

\* An event that is due is called and removed.
LEMMA FireKeeps ==
  ASSUME NEW S, Good(S, None), NEW id \in Ids(S.events), NEW e, e.id = id,
         e.what = EventOf(S.events, id).what, e.who = EventOf(S.events, id).who,
         e.aff = EventOf(S.events, id).aff, NEW T \in Fire(S, e)
  PROVE  /\ T \in States /\ IdsOnce(T.events) /\ id \in Ids(T.events)
         /\ Good(Called(T, id), None)
<1>1. PICK f : f = EventOf(S.events, id)
  OBVIOUS
<1>2. S.events \in Seq(EventType) /\ IdsOnce(S.events) /\ S \in States
  BY DEF Good, States
<1>3. f \in Range(S.events) /\ f \in EventType /\ f.id = id
  BY <1>1, <1>2, EventHas
<1>4. f.what \in {"stand", "effect"}
  BY <1>3 DEF EventType
<1>5. CASE f.what = "stand"
  <2>1. T = Stand(S, f)
    BY <1>1, <1>3, <1>5 DEF Fire, Stand
  <2> QED BY <1>2, <1>3, <1>5, <2>1, StandKeeps
<1>6. CASE f.what = "effect"
  <2>1. T \in Effect(S, e) /\ Persists(S, e) = Persists(S, f)
    BY <1>1, <1>4, <1>6 DEF Fire, Persists
  <2>2. CASE ~Persists(S, f)
    <3>1. T = S
      BY <2>1, <2>2 DEF Effect
    <3>2. \A c \in Chars, a \in Affs :
            ~(S.life[c] = "here" /\ a \in S.affected[c] /\ f.who = c /\ f.aff = a)
      BY <2>2, HeartbeatAssumption DEF Persists
    <3>3. Good(Called(S, f.id), None)
      BY <1>3, <1>6, <3>2, CalledKeeps
    <3> QED BY <1>2, <1>3, <3>1, <3>3
  <2>3. CASE Persists(S, f)
    <3>1. T = Again(S, id) \/ T = Again(Extract(S, f.who), id)
      BY <1>1, <2>1, <2>3 DEF Effect
    <3>2. CASE T = Again(S, id)
      BY <1>1, <1>6, <3>2, AgainKeeps
    <3>3. CASE T = Again(Extract(S, f.who), id)
      <4>1. f.who \in Chars /\ S.life[f.who] = "here"
        BY <1>3, <1>6, <2>3 DEF Persists, Good, Effects, EventType
      <4>2. PICK U : U = Extract(S, f.who)
        OBVIOUS
      <4>3. Good(U, None) /\ Ids(U.events) = Ids(S.events)
        BY <4>1, <4>2, ExtractKeeps
      <4>4. EventOf(U.events, id).what = "effect"
        <5>1. DOMAIN U.events = DOMAIN S.events
          BY <1>2, <4>2 DEF Extract, States
        <5>2. PICK k : k = (CHOOSE j \in DOMAIN S.events : S.events[j].id = id)
          OBVIOUS
        <5>3. \A j \in DOMAIN S.events : U.events[j].id = S.events[j].id /\ U.events[j].what = S.events[j].what
          <6>1. U.events = [k_1 \in DOMAIN S.events |->
                     IF S.events[k_1].what = "effect" /\ S.events[k_1].who = f.who
                       THEN [S.events[k_1] EXCEPT !.who = None, !.aff = None] ELSE S.events[k_1]]
            BY <1>2, <4>2 DEF Extract, States
          <6>2. \A j \in DOMAIN S.events : S.events[j] \in EventType
            BY <1>2
          <6>3. ASSUME NEW j \in DOMAIN S.events
                PROVE  U.events[j].id = S.events[j].id /\ U.events[j].what = S.events[j].what
            <7>1. PICK g \in EventType : g = S.events[j]
              BY <6>2
            <7>2. U.events[j] = IF g.what = "effect" /\ g.who = f.who
                                  THEN [g EXCEPT !.who = None, !.aff = None] ELSE g
              BY <6>1, <7>1
            <7> QED BY <7>1, <7>2 DEF EventType
          <6> QED BY <6>3
        <5>4. k \in DOMAIN S.events /\ S.events[k].id = id
          BY <5>2 DEF Ids
        <5>5. f = S.events[k]
          BY <1>1, <5>2 DEF EventOf
        <5>6. PICK j : j = (CHOOSE i \in DOMAIN U.events : U.events[i].id = id)
          OBVIOUS
        <5>7. j \in DOMAIN U.events /\ U.events[j].id = id
          BY <5>1, <5>3, <5>4, <5>6
        <5>8. j = k
          BY <1>2, <5>1, <5>3, <5>4, <5>7 DEF IdsOnce
        <5>9. EventOf(U.events, id) = U.events[j]
          BY <5>6 DEF EventOf
        <5> QED BY <1>6, <5>3, <5>4, <5>5, <5>8, <5>9
      <4> QED BY <3>3, <4>2, <4>3, <4>4, AgainKeeps
    <3> QED BY <3>1, <3>2, <3>3
  <2> QED BY <2>2, <2>3
<1> QED BY <1>4, <1>5, <1>6

\* The walk along WaitingList stays among characters.
LEMMA AfterIn ==
  ASSUME NEW s \in Seq(Chars), NEW x
  PROVE  After(s, x) \in Chars \union {None}
<1> DEFINE later == {k \in 2..Len(s) : s[k-1] = x}
<1>1. After(s, x) = IF later = {} THEN None ELSE s[Min(later)]
  BY DEF After
<1>2. later \subseteq 1..Len(s) /\ later \subseteq Nat
  OBVIOUS
<1> HIDE DEF later
<1>3. CASE later # {}
  <2>1. Min(later) \in 1..Len(s)
    BY <1>2, <1>3, MinIn
  <2> QED BY <1>1, <1>3, <2>1
<1> QED BY <1>1, <1>3

\* CheckWaitState takes one off whose lag is over.
LEMMA LagOverKeeps ==
  ASSUME NEW S, NEW c \in Chars, Good(S, c)
  PROVE  Good([S EXCEPT !.list = Without(@, {c})], None)
<1> DEFINE rest == Without(S.list, {c})
           T == [S EXCEPT !.list = rest]
<1>1. S \in States /\ S.list \in Seq(Chars)
  BY DEF Good, States
<1>2. rest \in Seq(Chars) /\ Range(rest) = Range(S.list) \ {c} /\ (Once(S.list) => Once(rest))
  BY <1>1, WithoutFacts, WithoutOnce
<1> HIDE DEF rest
<1>3. T.list = rest /\ T.wait = S.wait /\ OnlyLag(S, T)
  BY <1>1, <1>2 DEF States, OnlyLag
<1> HIDE DEF T
<1>4. Lagged(T, None)
  BY <1>2, <1>3 DEF Good, Lagged
<1>5. Good(T, None)
  BY <1>3, <1>4, LagOnly
<1> QED BY <1>5 DEF T, rest

\* The lag of one who is passed, or who has a command processed.
LEMMA WaitSet ==
  ASSUME NEW S, Good(S, None), NEW c \in Chars, NEW n \in Int, NEW x \in {c, None},
         x = c \/ n > 0 \/ c \notin Range(S.list)
  PROVE  LET T == [S EXCEPT !.wait[c] = n] IN Good(T, x) /\ OnlyLag(S, T) /\ T.list = S.list
<1> DEFINE w == [S.wait EXCEPT ![c] = n]
           T == [S EXCEPT !.wait = w]
<1>1. S \in States /\ S.list \in Seq(Chars) /\ S.wait \in [Chars -> Int]
  BY DEF Good, States
<1>2. T = [S EXCEPT !.wait[c] = n]
  BY <1>1 DEF States
<1>3. w \in [Chars -> Int] /\ w[c] = n /\ \A d \in Chars : d # c => w[d] = S.wait[d]
  BY <1>1
<1> HIDE DEF w
<1>4. T.list = S.list /\ T.wait = w /\ OnlyLag(S, T)
  BY <1>1, <1>3 DEF States, OnlyLag
<1> HIDE DEF T
<1>5. \A d \in Range(S.list) : d \in Chars /\ d # None
  BY <1>1, HeartbeatAssumption DEF Range
<1>6. Lagged(T, x)
  BY <1>3, <1>4, <1>5 DEF Good, Lagged
<1>7. Good(T, x)
  BY <1>4, <1>6, LagOnly
<1> QED BY <1>2, <1>4, <1>7

-------------------------------------------------------------------------------
(* What keeps the state of gameLoop good.                                  *)

\* Where heartbeat is.
Cursor ==
  /\ part # "none" => phase = "beat"
  /\ part = "events" => cur \in Ids(events) \union {None}
  /\ part = "waits" => cur \in Chars \union {None}
LoopInv == Good(Current, None) /\ Cursor

\* What a deed has made of the state is the next one.
LEMMA CurrentIs ==
  ASSUME NEW S \in States, Become(S)
  PROVE  Current' = S
BY DEF Become, Current, States

\* A step that is about nobody.
LEMMA CurrentStays ==
  ASSUME UNCHANGED people
  PROVE  Current' = Current
BY DEF people, Current

\* The record passed on holds the variables.
LEMMA CurrentFields ==
  /\ Current.life = life /\ Current.wait = wait /\ Current.list = waitingList
  /\ Current.fleeing = fleeing /\ Current.foe = foe /\ Current.bashed = bashed
  /\ Current.stands = stands /\ Current.affected = affected /\ Current.events = events
BY DEF Current

\* PurgeQueue takes the extracted, and nothing that is not theirs.
LEMMA DeleteKeeps ==
  ASSUME Good(Current, None)
  PROVE  Good(Delete, None)
<1> DEFINE ids == {s.id : s \in {t \in stands : t.who \in Purged}}
           l == [c \in Chars |-> IF c \in Purged THEN "gone" ELSE life[c]]
           list == Without(waitingList, Purged)
           left == {s \in stands : s.who \notin Purged}
           evs == RemoveEvents(events, ids)
           aff == [c \in Chars |-> IF c \in Purged THEN {} ELSE affected[c]]
           T == [Current EXCEPT !.life = l, !.list = list, !.stands = left,
                                !.events = evs, !.affected = aff]
<1>1. /\ life \in [Chars -> Lives] /\ waitingList \in Seq(Chars)
      /\ stands \subseteq [who: Chars, id: Nat] /\ events \in Seq(EventType)
      /\ affected \in [Chars -> SUBSET Affs] /\ Current \in States
  BY CurrentFields DEF Good, States
<1>2. Delete = T
  BY DEF Delete, Current
<1>3. list \in Seq(Chars) /\ Range(list) = Range(waitingList) \ Purged /\ (Once(waitingList) => Once(list))
  BY <1>1, WithoutFacts, WithoutOnce
<1>4. /\ evs \in Seq(EventType) /\ Range(evs) = {e \in Range(events) : e.id \notin ids}
      /\ (IdsOnce(events) => IdsOnce(evs))
  BY <1>1, RemoveFacts
<1>5. /\ l \in [Chars -> Lives] /\ aff \in [Chars -> SUBSET Affs]
      /\ left \subseteq [who: Chars, id: Nat]
  BY <1>1 DEF Lives
<1>6. \A c \in Chars : /\ l[c] = "gone" <=> life[c] = "gone" \/ c \in Purged
                       /\ l[c] = "here" <=> life[c] = "here"
                       /\ l[c] = "here" => aff[c] = affected[c]
                       /\ c \in Purged <=> life[c] = "purged"
  BY <1>1 DEF Purged, Lives
<1>7. \A s : s \in ids <=> \E t \in stands : t.who \in Purged /\ t.id = s
  OBVIOUS
<1>8. \A s : s \in left <=> s \in stands /\ s.who \notin Purged
  OBVIOUS
<1> HIDE DEF ids, l, list, left, evs, aff
<1>9. /\ T \in States /\ T.life = l /\ T.list = list /\ T.stands = left /\ T.events = evs
      /\ T.affected = aff /\ T.wait = wait /\ T.foe = foe /\ T.bashed = bashed
  BY <1>1, <1>3, <1>4, <1>5 DEF States, Current
<1> HIDE DEF T
<1>10. Foes(T)
  <2>1. Foes(Current)
    BY DEF Good
  <2>2. foe \in [Chars -> Chars \union {None}]
    BY <1>1, CurrentFields DEF States
  <2> QED BY <1>6, <1>9, <2>1, <2>2, CurrentFields DEF Foes
<1>11. Lagged(T, None)
  BY <1>3, <1>9, CurrentFields DEF Good, Lagged
<1>12. IdsOnce(events) /\ IdsOnce(evs)
  BY <1>4, CurrentFields DEF Good
<1>13. Upright(Current) /\ Effects(Current)
  BY DEF Good
<1>14. \A t \in stands : \E e \in Stands(events) : t.who = e.who /\ t.id = e.id
  <2> SUFFICES ASSUME NEW t \in stands PROVE \E e \in Stands(events) : t.who = e.who /\ t.id = e.id
    OBVIOUS
  <2>1. PICK e \in Stands(events) : t = [who |-> e.who, id |-> e.id]
    BY <1>13, CurrentFields DEF Upright
  <2> QED BY <2>1
<1>15. \A e \in Stands(events) : \E t \in stands : t.who = e.who /\ t.id = e.id
  <2> SUFFICES ASSUME NEW e \in Stands(events) PROVE \E t \in stands : t.who = e.who /\ t.id = e.id
    OBVIOUS
  <2>1. [who |-> e.who, id |-> e.id] \in stands
    BY <1>13, CurrentFields DEF Upright
  <2> QED BY <2>1
<1>16. ASSUME NEW e \in Range(events)
       PROVE  e.id \in ids <=> e \in Stands(events) /\ e.who \in Purged
  <2>1. ASSUME e.id \in ids PROVE e \in Stands(events) /\ e.who \in Purged
    <3>1. PICK t \in stands : t.who \in Purged /\ t.id = e.id
      BY <1>7, <2>1
    <3>2. PICK f \in Stands(events) : t.who = f.who /\ t.id = f.id
      BY <1>14
    <3>3. f = e
      BY <1>12, <3>1, <3>2, OneOfAnId DEF Stands
    <3> QED BY <3>1, <3>2, <3>3
  <2>2. ASSUME e \in Stands(events), e.who \in Purged PROVE e.id \in ids
    BY <1>7, <1>15, <2>2
  <2> QED BY <2>1, <2>2
<1>17. Stands(evs) = {e \in Stands(events) : e.who \notin Purged}
  BY <1>4, <1>16 DEF Stands
<1>18. Upright(T)
  <2>1. \A e \in Stands(events) :
          /\ e.who \in Chars /\ bashed[e.who] /\ life[e.who] # "gone"
          /\ \A f \in Stands(events) : e.who = f.who => e.id = f.id
    BY <1>13, CurrentFields DEF Upright
  <2>2. \A c \in Chars : bashed[c] /\ life[c] # "gone" => \E e \in Stands(events) : e.who = c
    BY <1>13, CurrentFields DEF Upright
  <2>3. stands = {[who |-> e.who, id |-> e.id] : e \in Stands(events)}
    BY <1>13, CurrentFields DEF Upright
  <2>4. left = {[who |-> e.who, id |-> e.id] : e \in Stands(evs)}
    <3>1. \A e : [who |-> e.who, id |-> e.id].who = e.who
      OBVIOUS
    <3> QED BY <1>8, <1>17, <2>3, <3>1
  <2> QED BY <1>6, <1>9, <1>17, <2>1, <2>2, <2>4 DEF Upright
<1>19. Effects(T)
  <2>1. ASSUME NEW e \in Range(events), e.what = "effect" PROVE e \in Range(evs)
    BY <1>4, <1>16, <2>1 DEF Stands
  <2>2. \A e \in Range(evs) : e \in Range(events) /\ e \in EventType
    <3>1. \A e \in Range(events) : e \in EventType
      BY <1>1 DEF Range
    <3> QED BY <1>4, <3>1
  <2>3. \A e \in EventType : e.who \in Chars \union {None}
    BY DEF EventType
  <2>4. \A e \in Range(events) : e.what = "effect" /\ e.who # None => life[e.who] = "here"
    BY <1>13, CurrentFields DEF Effects
  <2>5. \A c \in Chars : life[c] = "here" =>
          \A a \in affected[c] : \E e \in Range(events) : e.what = "effect" /\ e.who = c /\ e.aff = a
    BY <1>13, CurrentFields DEF Effects
  <2> QED BY <1>6, <1>9, <2>1, <2>2, <2>3, <2>4, <2>5 DEF Effects
<1> QED BY <1>2, <1>9, <1>10, <1>11, <1>12, <1>18, <1>19 DEF Good

-------------------------------------------------------------------------------

\* process_events, of one event.
LEMMA ProcessEventKeeps ==
  ASSUME Good(Current, None), cur \in Ids(events) \union {None}, ProcessEvent
  PROVE  Good(Current', None) /\ cur' \in Ids(events') \union {None}
<1> DEFINE evs == CountDown(cur)
           S == [Current EXCEPT !.events = evs]
<1>1. cur # None /\ cur \in Ids(events)
  BY DEF ProcessEvent
<1>2. PICK id \in Ids(events) : id = cur
  BY <1>1
<1>3. events \in Seq(EventType) /\ IdsOnce(events) /\ Current \in States
  BY CurrentFields DEF Good, States
<1>4. ASSUME NEW k \in DOMAIN events
      PROVE  /\ evs[k] \in EventType
             /\ evs[k].id = events[k].id /\ evs[k].what = events[k].what
             /\ evs[k].who = events[k].who /\ evs[k].aff = events[k].aff
  <2>1. PICK g \in EventType : g = events[k]
    BY <1>3
  <2>2. evs[k] = IF g.id = cur THEN [g EXCEPT !.time = @ - 1] ELSE g
    BY <2>1 DEF CountDown
  <2> QED BY <2>1, <2>2 DEF EventType
<1>5. evs \in [DOMAIN events -> EventType]
  <2>1. DOMAIN evs = DOMAIN events /\ evs = [k \in DOMAIN events |-> evs[k]]
    BY DEF CountDown
  <2> HIDE DEF evs
  <2> QED BY <1>4, <2>1
<1>6. /\ IF IsDue(Call(cur))
           THEN \E T \in Fire(S, Call(cur)) : cur' = NextEvent(T.events, cur) /\ Become(Called(T, cur))
           ELSE cur' = NextEvent(events, cur) /\ Become(S)
  BY DEF ProcessEvent, Called
<1> HIDE DEF evs
<1>7. /\ OnlyEvents(Current, S) /\ S.events = evs /\ Ids(evs) = Ids(events) /\ IdsOnce(evs)
      /\ Upright(S) /\ Effects(S)
  <2>1. Current.events = events /\ IdsOnce(Current.events) /\ Upright(Current) /\ Effects(Current)
    BY CurrentFields DEF Good
  <2> QED BY <1>3, <1>4, <1>5, <2>1, Retimed
<1> HIDE DEF S
<1>8. Good(S, None)
  BY <1>7, EventsOnly
<1>9. CASE IsDue(Call(cur))
  <2>1. PICK T \in Fire(S, Call(cur)) : cur' = NextEvent(T.events, cur) /\ Become(Called(T, cur))
    BY <1>6, <1>9
  <2>2. PICK e : e = Call(cur)
    OBVIOUS
  <2>3. /\ e.id = id /\ e.what = EventOf(S.events, id).what /\ e.who = EventOf(S.events, id).who
        /\ e.aff = EventOf(S.events, id).aff
    <3>1. PICK k : k = (CHOOSE j \in DOMAIN events : events[j].id = id)
      OBVIOUS
    <3>2. k \in DOMAIN events /\ events[k].id = id
      BY <3>1 DEF Ids
    <3>3. e = events[k]
      BY <1>2, <2>2, <3>1 DEF Call, EventOf
    <3>4. PICK j : j = (CHOOSE i \in DOMAIN evs : evs[i].id = id)
      OBVIOUS
    <3>5. DOMAIN evs = DOMAIN events
      BY <1>5
    <3>6. j \in DOMAIN events /\ evs[j].id = id
      BY <1>4, <3>2, <3>4, <3>5
    <3>7. j = k
      BY <1>3, <1>4, <3>2, <3>6 DEF IdsOnce
    <3>8. EventOf(S.events, id) = evs[k]
      BY <1>7, <3>4, <3>7 DEF EventOf
    <3> QED BY <1>4, <3>2, <3>3, <3>8
  <2>4. id \in Ids(S.events) /\ T \in Fire(S, e)
    BY <1>7, <2>1, <2>2
  <2>5. /\ T \in States /\ IdsOnce(T.events) /\ id \in Ids(T.events)
        /\ Good(Called(T, id), None)
    BY <1>8, <2>3, <2>4, FireKeeps
  <2>6. Current' = Called(T, id)
    BY <1>2, <2>1, <2>5, CurrentIs DEF Good
  <2>7. T.events \in Seq(EventType)
    BY <2>5 DEF States
  <2>8. cur' \in (Ids(T.events) \ {id}) \union {None}
    BY <1>2, <2>1, <2>5, <2>7, NextIsAnother
  <2>9. Ids(Called(T, id).events) = Ids(T.events) \ {id}
    BY <2>5, CalledFacts
  <2>10. events' = Called(T, id).events
    BY <1>2, <2>1 DEF Become
  <2> QED BY <2>5, <2>6, <2>8, <2>9, <2>10
<1>10. CASE ~IsDue(Call(cur))
  <2>1. Current' = S
    BY <1>6, <1>8, <1>10, CurrentIs DEF Good
  <2>2. cur' \in (Ids(events) \ {id}) \union {None}
    BY <1>2, <1>3, <1>6, <1>10, NextIsAnother
  <2>3. events' = evs
    BY <1>6, <1>7, <1>10 DEF Become
  <2> QED BY <1>7, <1>8, <2>1, <2>2, <2>3
<1> QED BY <1>9, <1>10

\* CheckWaitState, of one character.
LEMMA WaitUpdateKeeps ==
  ASSUME Good(Current, None), cur \in Chars \union {None}, WaitUpdate
  PROVE  Good(Current', None) /\ cur' \in Chars \union {None}
<1> DEFINE S == [Current EXCEPT !.wait[cur] = @ - 1]
<1>1. cur \in Chars
  BY DEF WaitUpdate
<1>2. PICK n \in Int : n = wait[cur] - 1
  <2>1. wait \in [Chars -> Int]
    BY CurrentFields DEF Good, States
  <2> QED BY <1>1, <2>1
<1>3. S = [Current EXCEPT !.wait[cur] = n]
  BY <1>2 DEF Current
<1>4. /\ IF S.wait[cur] = 0 THEN \E T \in WaitEvents(S, cur) : LagOver(cur, T)
           ELSE cur' = After(waitingList, cur) /\ Become(S)
  BY DEF WaitUpdate
<1>5. S.wait[cur] = n
  <2>1. wait \in [Chars -> Int]
    BY CurrentFields DEF Good, States
  <2> QED BY <1>1, <1>3, <2>1 DEF Current
<1> HIDE DEF S
<1>6. Good(S, cur) /\ S.list = waitingList
  BY <1>1, <1>2, <1>3, CurrentFields, WaitSet
<1>7. CASE S.wait[cur] = 0
  <2>1. PICK T \in WaitEvents(S, cur) : LagOver(cur, T)
    BY <1>4, <1>7
  <2>2. Good(T, cur)
    <3>1. CASE T \in Flee(S, cur)
      BY <1>1, <1>6, <3>1, FleeKeeps DEF Fine
    <3> QED BY <1>6, <2>1, <3>1 DEF WaitEvents
  <2>3. PICK U : U = [T EXCEPT !.list = Without(@, {cur})]
    OBVIOUS
  <2>4. Good(U, None)
    BY <1>1, <2>2, <2>3, LagOverKeeps
  <2>5. Become(U) /\ cur' = After(T.list, After(T.list, cur))
    BY <2>1, <2>3 DEF LagOver
  <2>6. Current' = U
    BY <2>4, <2>5, CurrentIs DEF Good
  <2>7. T.list \in Seq(Chars)
    BY <2>2 DEF Good, States
  <2> QED BY <2>4, <2>5, <2>6, <2>7, AfterIn
<1>8. CASE S.wait[cur] # 0
  <2>1. n > 0 \/ cur \notin Range(waitingList)
    <3>1. ASSUME cur \in Range(waitingList) PROVE wait[cur] > 0
      BY <1>1, <3>1, CurrentFields, HeartbeatAssumption DEF Good, Lagged
    <3>2. wait[cur] \in Int
      BY <1>1, CurrentFields DEF Good, States
    <3> QED BY <1>2, <1>5, <1>8, <3>1, <3>2
  <2>2. Good(S, None)
    BY <1>1, <1>2, <1>3, <2>1, CurrentFields, WaitSet
  <2>3. Current' = S
    BY <1>4, <1>8, <2>2, CurrentIs DEF Good
  <2>4. waitingList \in Seq(Chars)
    BY CurrentFields DEF Good, States
  <2> QED BY <1>4, <1>8, <2>2, <2>3, <2>4, AfterIn
<1> QED BY <1>7, <1>8

\* Whatever a character does, or has done to it.
LEMMA DeedKeeps ==
  ASSUME NEW S, Good(S, None), NEW c \in Chars, S.life[c] = "here",
         Deed(S, c) \/ DeedOfFlight(S, c)
  PROVE  Good(Current', None)
<1>1. ASSUME NEW T, Good(T, None), Become(T) PROVE Good(Current', None)
  <2>1. Current' = T
    BY <1>1, CurrentIs DEF Good
  <2> QED BY <1>1, <2>1
<1>2. CASE \E n \in Lags : Become(Lag(S, c, n))
  <2>1. PICK n \in Lags : Become(Lag(S, c, n))
    BY <1>2
  <2>2. n \in Int /\ n > 0
    BY HeartbeatAssumption
  <2>3. Good(Lag(S, c, n), None)
    BY <2>2, LagFine DEF Fine
  <2> QED BY <1>1, <2>1, <2>3
<1>3. CASE \E v \in {x \in Chars \ {c} : S.life[x] = "here"}, n \in {BashTime, 2 * BashTime} :
             Become(Hit(S, c, v, n))
  <2>1. PICK v \in {x \in Chars \ {c} : S.life[x] = "here"}, n \in {BashTime, 2 * BashTime} :
          Become(Hit(S, c, v, n))
    BY <1>3
  <2>2. v \in Chars /\ v # c /\ S.life[v] = "here" /\ n \in Int
    BY HeartbeatAssumption
  <2>3. Good(Hit(S, c, v, n), None)
    BY <2>2, HitKeeps DEF Fine
  <2> QED BY <1>1, <2>1, <2>3
<1>4. CASE Become(Extract(S, c))
  BY <1>1, <1>4, ExtractKeeps
<1>5. CASE \E a \in Affs : Become(Affect(S, c, a))
  BY <1>1, <1>5, AffectKeeps
<1>6. CASE \E a \in S.affected[c] : Become(Cure(S, c, a))
  BY <1>1, <1>6, CureKeeps
<1>7. CASE \E T \in TryToFlee(S, c) : Become(T)
  BY <1>1, <1>7, TryToFleeKeeps DEF Fine
<1> QED BY <1>2, <1>3, <1>4, <1>5, <1>6, <1>7 DEF Deed, DeedOfFlight

\* processInput.
LEMMA CommandKeeps ==
  ASSUME Good(Current, None), NEW c \in Chars, Command(c)
  PROVE  Good(Current', None)
<1>1. PICK S : S = [Current EXCEPT !.wait[c] = 0]
  OBVIOUS
<1>2. /\ Become(S) \/ Deed(S, c) \/ DeedOfFlight(S, c)
      /\ life[c] = "here" /\ wait[c] <= 0
  BY <1>1 DEF Command
<1>3. c \notin Range(waitingList)
  <2> SUFFICES ASSUME c \in Range(waitingList) PROVE FALSE
    OBVIOUS
  <2>1. wait[c] > 0
    BY CurrentFields, HeartbeatAssumption DEF Good, Lagged
  <2>2. wait[c] \in Int
    BY CurrentFields DEF Good, States
  <2> QED BY <1>2, <2>1, <2>2
<1>4. Good(S, None) /\ OnlyLag(Current, S)
  BY <1>1, <1>3, CurrentFields, WaitSet
<1>5. S.life[c] = "here"
  BY <1>2, <1>4, CurrentFields DEF OnlyLag
<1>6. CASE Become(S)
  <2>1. Current' = S
    BY <1>4, <1>6, CurrentIs DEF Good
  <2> QED BY <1>4, <2>1
<1>7. CASE Deed(S, c) \/ DeedOfFlight(S, c)
  BY <1>4, <1>5, <1>7, DeedKeeps
<1> QED BY <1>2, <1>6, <1>7

\* LoopInv is inductive.
LEMMA LoopStarts == Init => LoopInv
<1> SUFFICES ASSUME Init PROVE LoopInv
  OBVIOUS
<1>1. /\ life = [c \in Chars |-> "here"] /\ wait = [c \in Chars |-> 0] /\ waitingList = <<>>
      /\ fleeing = [c \in Chars |-> FALSE] /\ foe = [c \in Chars |-> None]
      /\ bashed = [c \in Chars |-> FALSE] /\ stands = {} /\ affected = [c \in Chars |-> {}]
      /\ events = <<>> /\ part = "none"
  BY DEF Init, HeartbeatInit
<1>2. Current \in States
  BY <1>1 DEF Current, States, Lives
<1>3. Range(<<>>) = {} /\ DOMAIN <<>> = {}
  BY DEF Range
<1>4. Stands(events) = {}
  BY <1>1, <1>3 DEF Stands
<1>5. Upright(Current)
  BY <1>1, <1>4, CurrentFields DEF Upright
<1>6. Foes(Current) /\ Lagged(Current, None) /\ IdsOnce(events) /\ Effects(Current)
  BY <1>1, <1>3, CurrentFields DEF Foes, Lagged, Once, IdsOnce, Effects
<1>7. Cursor
  BY <1>1 DEF Cursor
<1> QED BY <1>2, <1>5, <1>6, <1>7, CurrentFields DEF LoopInv, Good

\* The parts of a heartbeat, in turn.
LEMMA HeartbeatsKeep ==
  ASSUME LoopInv, Heartbeats
  PROVE  LoopInv'
<1>1. Good(Current, None) /\ Cursor
  BY DEF LoopInv
<1>2. events \in Seq(EventType) /\ waitingList \in Seq(Chars)
  BY <1>1, CurrentFields DEF Good, States
<1>3. CASE HeartbeatBegins /\ phase = "beat" /\ UNCHANGED timing
  <2>1. cur' \in Ids(events) \union {None}
    <3>1. events # <<>> => 1 \in DOMAIN events /\ Head(events) = events[1]
      BY <1>2
    <3>2. cur' = IF events = <<>> THEN None ELSE Head(events).id
      BY <1>3 DEF HeartbeatBegins, FirstEvent
    <3> QED BY <3>1, <3>2 DEF Ids
  <2>2. part' = "events" /\ phase' = "beat" /\ UNCHANGED people
    BY <1>3 DEF HeartbeatBegins, timing
  <2>3. events' = events /\ Current' = Current
    BY <2>2, CurrentStays DEF people
  <2> QED BY <1>1, <2>1, <2>2, <2>3 DEF LoopInv, Cursor
<1>4. CASE ProcessEvent /\ UNCHANGED timing
  <2>1. part = "events" /\ part' = part /\ phase' = phase
    BY <1>4 DEF ProcessEvent, timing
  <2>2. Good(Current', None) /\ cur' \in Ids(events') \union {None}
    BY <1>1, <1>4, <2>1, ProcessEventKeeps DEF Cursor
  <2> QED BY <1>1, <2>1, <2>2 DEF LoopInv, Cursor
<1>5. CASE EventsDone /\ UNCHANGED timing
  <2>1. cur' \in Chars \union {None}
    <3>1. waitingList # <<>> => Head(waitingList) \in Chars
      BY <1>2
    <3> QED BY <1>5, <3>1 DEF EventsDone, First
  <2>2. part = "events" /\ part' = "waits" /\ phase' = phase /\ UNCHANGED people
    BY <1>5 DEF EventsDone, timing
  <2> QED BY <1>1, <2>1, <2>2, CurrentStays DEF LoopInv, Cursor
<1>6. CASE WaitUpdate /\ UNCHANGED timing
  <2>1. part = "waits" /\ part' = part /\ phase' = phase
    BY <1>6 DEF WaitUpdate, timing
  <2>2. Good(Current', None) /\ cur' \in Chars \union {None}
    BY <1>1, <1>6, <2>1, WaitUpdateKeeps DEF Cursor
  <2> QED BY <1>1, <2>1, <2>2 DEF LoopInv, Cursor
<1>7. CASE WaitsDone /\ UNCHANGED timing
  <2>1. part = "waits" /\ part' = "rest" /\ phase' = phase /\ UNCHANGED people
    BY <1>7 DEF WaitsDone, timing
  <2> QED BY <1>1, <2>1, CurrentStays DEF LoopInv, Cursor
<1>8. CASE HeartbeatEnds(pulses + 1)
  <2>1. part' = "none" /\ (Become(Delete) \/ UNCHANGED people)
    BY <1>8 DEF HeartbeatEnds
  <2>2. Good(Current', None)
    <3>1. Good(Delete, None)
      BY <1>1, DeleteKeeps
    <3>2. CASE Become(Delete)
      <4>1. Current' = Delete
        BY <3>1, <3>2, CurrentIs DEF Good
      <4> QED BY <3>1, <4>1
    <3>3. CASE UNCHANGED people
      BY <1>1, <3>3, CurrentStays
    <3> QED BY <2>1, <3>2, <3>3
  <2> QED BY <2>1, <2>2 DEF LoopInv, Cursor
<1>9. CASE part = "none" /\ UNCHANGED <<people, pulse>>
  <2>1. part' = "none" /\ UNCHANGED people
    BY <1>9 DEF pulse
  <2> QED BY <1>1, <2>1, CurrentStays DEF LoopInv, Cursor
<1> QED BY <1>3, <1>4, <1>5, <1>6, <1>7, <1>8, <1>9 DEF Heartbeats

\* Every other step of gameLoop.
LEMMA LoopGoesOn ==
  ASSUME LoopInv, [Next]_vars
  PROVE  LoopInv'
<1>1. Good(Current, None) /\ Cursor
  BY DEF LoopInv
<1>2. CASE Heartbeats
  BY <1>2, HeartbeatsKeep
<1>3. ASSUME UNCHANGED <<people, pulse>>, phase # "beat" \/ part = "none" \/ phase' = phase
      PROVE  LoopInv'
  <2>1. UNCHANGED people /\ part' = part /\ cur' = cur /\ events' = events
    BY <1>3 DEF pulse, people
  <2> QED BY <1>1, <1>3, <2>1, CurrentStays DEF LoopInv, Cursor
<1>4. CASE NextIteration
  <2>1. phase = "sleep"
    BY <1>4 DEF NextIteration, Elapse, Wake
  <2> QED BY <1>3, <1>4, <2>1 DEF NextIteration
<1>5. CASE ConsumeTicks
  <2>1. phase = "work"
    BY <1>5 DEF ConsumeTicks, Elapse, Consume
  <2> QED BY <1>3, <1>5, <2>1 DEF ConsumeTicks
<1>6. CASE Shutdown
  BY <1>3, <1>6 DEF Shutdown
<1>7. CASE Over \/ UNCHANGED vars
  BY <1>3, <1>7 DEF Over, vars, timing
<1>8. ASSUME NEW c \in Chars, Command(c) PROVE LoopInv'
  <2>1. Good(Current', None)
    BY <1>1, <1>8, CommandKeeps
  <2>2. phase = "work" /\ phase' = phase /\ part' = part
    BY <1>8 DEF Command, timing, pulse
  <2> QED BY <1>1, <2>1, <2>2 DEF LoopInv, Cursor
<1>9. ASSUME NEW c \in Chars, Happen(c) PROVE LoopInv'
  <2>1. Good(Current', None)
    <3>1. Current.life[c] = "here"
      BY <1>9, CurrentFields DEF Happen
    <3>2. Deed(Current, c) \/ DeedOfFlight(Current, c)
      BY <1>9 DEF Happen
    <3> QED BY <1>1, <3>1, <3>2, DeedKeeps
  <2>2. part = "rest" /\ phase = "beat" /\ phase' = phase /\ part' = part
    BY <1>9 DEF Happen, timing, pulse
  <2> QED BY <2>1, <2>2 DEF LoopInv, Cursor
<1> QED BY <1>2, <1>4, <1>5, <1>6, <1>7, <1>8, <1>9 DEF Next

\* The inductive invariant of characters, lag and events holds in the loop.
THEOREM LoopHolds == Spec => []LoopInv
<1>1. LoopInv /\ [Next]_vars => LoopInv'
  BY LoopGoesOn
<1> QED BY <1>1, LoopStarts, PTL DEF Spec

\* Nobody waits twice, or for nothing.
THEOREM NobodyWaitsTwice == Spec => []WaitsOnce
<1>1. LoopInv => WaitsOnce
  <2> SUFFICES ASSUME LoopInv PROVE WaitsOnce
    OBVIOUS
  <2>1. waitingList \in Seq(Chars) /\ Lagged(Current, None)
    BY CurrentFields DEF LoopInv, Good, States
  <2>2. \A k \in DOMAIN waitingList : waitingList[k] \in Range(waitingList) /\ waitingList[k] # None
    BY <2>1, HeartbeatAssumption DEF Range
  <2> QED BY <2>1, <2>2, CurrentFields DEF Lagged, Once, WaitsOnce
<1> QED BY <1>1, LoopHolds, PTL

\* Who is bashed has one event to be stood up by, and nobody else has any.
THEOREM TheBashedStandUp == Spec => []StandsUp
<1>1. LoopInv => StandsUp
  <2> SUFFICES ASSUME LoopInv, NEW c \in Chars
               PROVE  IF life[c] # "gone" /\ bashed[c]
                        THEN \E s \in Standing(c) :
                               /\ Standing(c) = {s} /\ s.id \in Ids(events)
                               /\ Call(s.id).what = "stand" /\ Call(s.id).who = c
                        ELSE Standing(c) = {}
    BY DEF StandsUp
  <2>1. /\ events \in Seq(EventType) /\ IdsOnce(events)
        /\ Upright(Current)
    BY CurrentFields DEF LoopInv, Good, States
  <2>2. ASSUME NEW s \in Standing(c)
        PROVE  \E e \in Stands(events) : e.who = c /\ s = [who |-> c, id |-> e.id]
    BY <2>1, CurrentFields DEF Standing, Upright
  <2>3. CASE life[c] # "gone" /\ bashed[c]
    <3>1. PICK e \in Stands(events) : e.who = c
      BY <2>1, <2>3, CurrentFields DEF Upright
    <3>2. PICK s : s = [who |-> c, id |-> e.id]
      OBVIOUS
    <3>3. s \in stands /\ s.who = c /\ s.id = e.id
      BY <2>1, <3>1, <3>2, CurrentFields DEF Upright
    <3>4. s \in Standing(c)
      BY <3>3 DEF Standing
    <3>5. Standing(c) = {s}
      <4>1. ASSUME NEW t \in Standing(c) PROVE t = s
        <5>1. PICK f \in Stands(events) : f.who = c /\ t = [who |-> c, id |-> f.id]
          BY <2>2
        <5>2. f.id = e.id
          BY <2>1, <3>1, <5>1, CurrentFields DEF Upright
        <5> QED BY <3>2, <5>1, <5>2
      <4> QED BY <3>4, <4>1
    <3>6. e \in Range(events) /\ e.what = "stand" /\ e.id \in Ids(events)
      BY DEF Stands, Range, Ids
    <3>7. Call(e.id) = e
      <4>1. Call(e.id) \in Range(events) /\ Call(e.id).id = e.id
        BY <2>1, <3>6, EventHas DEF Call
      <4> QED BY <2>1, <3>6, <4>1, OneOfAnId
    <3> QED BY <2>3, <3>1, <3>3, <3>4, <3>5, <3>6, <3>7
  <2>4. CASE ~(life[c] # "gone" /\ bashed[c])
    <3>1. ASSUME NEW s \in Standing(c) PROVE FALSE
      <4>1. PICK e \in Stands(events) : e.who = c
        BY <2>2
      <4> QED BY <2>1, <2>4, <4>1, CurrentFields DEF Upright
    <3> QED BY <2>4, <3>1
  <2> QED BY <2>3, <2>4
<1> QED BY <1>1, LoopHolds, PTL

\* No event's character has been deleted.
THEOREM EventsLive == Spec => []EventsOfTheLiving
<1>1. LoopInv => EventsOfTheLiving
  <2> SUFFICES ASSUME LoopInv, NEW k \in DOMAIN events, events[k].who # None
               PROVE  life[events[k].who] # "gone"
    BY DEF EventsOfTheLiving
  <2>1. PICK e : e = events[k]
    OBVIOUS
  <2>2. e \in Range(events) /\ e \in EventType
    <3>1. events \in Seq(EventType)
      BY CurrentFields DEF LoopInv, Good, States
    <3> QED BY <2>1, <3>1 DEF Range
  <2>3. Upright(Current) /\ Effects(Current)
    BY DEF LoopInv, Good
  <2>4. CASE e.what = "stand"
    BY <2>1, <2>2, <2>3, <2>4, CurrentFields DEF Upright, Stands
  <2>5. CASE e.what = "effect"
    BY <2>1, <2>2, <2>3, <2>5, CurrentFields DEF Effects
  <2> QED BY <2>2, <2>4, <2>5 DEF EventType
<1> QED BY <1>1, LoopHolds, PTL

\* Every effect of one who is here has an event that will call it.
THEOREM EffectsAreCalled == Spec => []EffectsGoOn
<1>1. LoopInv => EffectsGoOn
  BY CurrentFields DEF LoopInv, Good, Effects, EffectsGoOn, Range
<1> QED BY <1>1, LoopHolds, PTL
===============================================================================

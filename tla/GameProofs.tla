----------------------------- MODULE GameProofs -----------------------------
(***************************************************************************)
(* The parts of the game process that MCGame explores one at a time, for   *)
(* any number of zone threads, jobs and messages, and any players, rooms   *)
(* and objects: no list of jobs holds a deleted one, the two queues of the *)
(* log are one ordered log, and nothing that players keep is doubled,      *)
(* spoiled while they are away, or lost by a save of all.                  *)
(***************************************************************************)
EXTENDS ThreadedJobs, ThreadedLogFile, ItemSaving, ListProofs,
        SequenceTheorems, FiniteSetTheorems, TLAPS

-------------------------------------------------------------------------------
(* Background jobs.                                                        *)

JobsTypeOK ==
  /\ pSelf \in Managers \cup {NoManager}
  /\ boot \in [ZoneThreads ->
                {"loading", "allocating", "returning", "adding", "done"}]
  /\ found \in [ZoneThreads -> Managers \cup {NoManager}]
  /\ job \in [Jobs ->
                {"none", "routine", "ran", "unlisted", "finished", "deleted"}]
  /\ owner \in [Jobs -> Managers \cup {NoManager}]
  /\ lJobs \in [Managers -> SUBSET Jobs]
  /\ lFinishedJobs \in [Managers -> Seq(Jobs)]
  /\ main \in {"boot", "loop", "cycling", "stopped"}
  /\ cycled \in Nat

\* The zone threads have a manager when they need one, each adds its job once,
\* and nothing but they touches pSelf before they are joined.
BootInv ==
  /\ \A z \in ZoneThreads :
       /\ boot[z] = "returning" => pSelf \in Managers
       /\ boot[z] = "adding" => found[z] \in Managers /\ job[z] = "none"
       /\ boot[z] \in {"loading", "allocating", "returning"} => job[z] = "none"
  /\ main # "boot" => \A z \in ZoneThreads : boot[z] = "done"

\* A job belongs to the manager it was added to, and is on its lJobs until its
\* thread takes it off.
OwnerInv ==
  /\ \A j \in Jobs : job[j] # "none" => owner[j] \in Managers
  /\ \A m \in Managers : \A j \in lJobs[m] :
       owner[j] = m /\ job[j] \in {"routine", "ran"}

\* A cycle is through the first `cycled' jobs of the list of *pSelf: these are
\* deleted, all others that any list holds are finished and listed once.
Passed(m, i) == main = "cycling" /\ m = pSelf /\ i <= cycled
FinishedInv ==
  /\ main = "cycling" =>
       /\ pSelf \in Managers /\ pSelf # NoManager
       /\ cycled <= Len(lFinishedJobs[pSelf])
  /\ \A m \in Managers : \A i \in 1..Len(lFinishedJobs[m]) :
       /\ owner[lFinishedJobs[m][i]] = m
       /\ job[lFinishedJobs[m][i]] = IF Passed(m, i) THEN "deleted" ELSE "finished"
  /\ \A m \in Managers : \A i, k \in 1..Len(lFinishedJobs[m]) :
       lFinishedJobs[m][i] = lFinishedJobs[m][k] => i = k

JobsInv == JobsTypeOK /\ BootInv /\ OwnerInv /\ FinishedInv

------------------------------------------------------------------------------

LEMMA JobsStart == JobsInit => JobsInv
BY DEF JobsInit, JobsInv, JobsTypeOK, BootInv, OwnerInv, FinishedInv, Passed,
       Managers, Jobs

LEMMA ZoneSteps ==
  ASSUME JobsInv, NEW z \in ZoneThreads, ZoneThread(z)
  PROVE  JobsInv'
<1>1. z \in Managers /\ z \in Jobs
  BY DEF Managers, Jobs
<1>2. main = "boot"
  BY DEF JobsInv, BootInv, JobsTypeOK, ZoneThread, ZoneGet, ZoneAllocate,
         ZoneReturn, ZoneAdd
<1>3. CASE ZoneGet(z)
  <2>1. JobsTypeOK' /\ BootInv'
    BY <1>2, <1>3 DEF JobsInv, JobsTypeOK, BootInv, ZoneGet
  <2>2. OwnerInv' /\ FinishedInv'
    BY <1>3 DEF JobsInv, OwnerInv, FinishedInv, Passed, ZoneGet
  <2> QED BY <2>1, <2>2 DEF JobsInv
<1>4. CASE ZoneAllocate(z)
  BY <1>1, <1>2, <1>4
     DEF JobsInv, JobsTypeOK, BootInv, OwnerInv, FinishedInv, Passed, ZoneAllocate
<1>5. CASE ZoneReturn(z)
  BY <1>1, <1>2, <1>5
     DEF JobsInv, JobsTypeOK, BootInv, OwnerInv, FinishedInv, Passed, ZoneReturn
<1>6. CASE ZoneAdd(z)
  <2>1. /\ JobsTypeOK' /\ BootInv' /\ OwnerInv'
    BY <1>1, <1>2, <1>6
       DEF JobsInv, JobsTypeOK, BootInv, OwnerInv, ZoneAdd, Added
  <2>2. FinishedInv'
    BY <1>1, <1>2, <1>6
       DEF JobsInv, JobsTypeOK, BootInv, FinishedInv, Passed, ZoneAdd, Added
  <2> QED BY <2>1, <2>2 DEF JobsInv
<1> QED BY <1>3, <1>4, <1>5, <1>6 DEF ZoneThread

LEMMA MainAddsSteps ==
  ASSUME JobsInv, NEW j \in MainJobs, MainAdds(j)
  PROVE  JobsInv'
<1>1. j \in Jobs /\ Main \in Managers /\ pSelf' \in Managers
  BY DEF Jobs, Managers, JobsInv, JobsTypeOK, MainAdds
<1>2. main = "cycling" => pSelf' = pSelf
  BY DEF JobsInv, FinishedInv, MainAdds
<1>3. JobsTypeOK'
  BY <1>1 DEF JobsInv, JobsTypeOK, MainAdds, Added
<1>4. BootInv'
  BY <1>1 DEF JobsInv, JobsTypeOK, BootInv, MainAdds, Added
<1>5. OwnerInv'
  BY <1>1 DEF JobsInv, JobsTypeOK, OwnerInv, MainAdds, Added
<1>6. FinishedInv'
  BY <1>1, <1>2 DEF JobsInv, JobsTypeOK, FinishedInv, Passed, MainAdds, Added
<1> QED BY <1>3, <1>4, <1>5, <1>6 DEF JobsInv

LEMMA JobSteps ==
  ASSUME JobsInv, NEW j \in Jobs, JobThread(j)
  PROVE  JobsInv'
<1>1. CASE Routine(j)
  BY <1>1 DEF JobsInv, JobsTypeOK, BootInv, OwnerInv, FinishedInv, Passed, Routine
<1>2. CASE Unlist(j)
  BY <1>2 DEF JobsInv, JobsTypeOK, BootInv, OwnerInv, FinishedInv, Passed, Unlist
<1>3. CASE Hand(j)
  <2> DEFINE m == owner[j]
             old == lFinishedJobs[m]
  <2>1. m \in Managers /\ old \in Seq(Jobs)
    BY <1>3 DEF JobsInv, JobsTypeOK, OwnerInv, Hand
  <2>2. /\ lFinishedJobs'[m] = Append(old, j)
        /\ \A n \in Managers \ {m} : lFinishedJobs'[n] = lFinishedJobs[n]
    BY <1>3, <2>1 DEF JobsInv, JobsTypeOK, Hand
  <2>3. /\ Append(old, j) \in Seq(Jobs) /\ Len(Append(old, j)) = Len(old) + 1
        /\ \A i \in 1..Len(old) : Append(old, j)[i] = old[i]
        /\ Append(old, j)[Len(old) + 1] = j
    BY <2>1
  <2>4. JobsTypeOK'
    BY <1>3, <2>1, <2>2, <2>3 DEF JobsInv, JobsTypeOK, Hand
  <2>5. BootInv' /\ OwnerInv'
    BY <1>3 DEF JobsInv, JobsTypeOK, BootInv, OwnerInv, Hand
  <2>6. \A n \in Managers : \A i \in 1..Len(lFinishedJobs[n]) :
          lFinishedJobs[n][i] # j
    BY <1>3 DEF JobsInv, FinishedInv, Hand
  <2>7. ASSUME NEW n \in Managers, NEW i \in 1..Len(lFinishedJobs'[n])
        PROVE  /\ owner'[lFinishedJobs'[n][i]] = n
               /\ job'[lFinishedJobs'[n][i]] =
                    IF Passed(n, i)' THEN "deleted" ELSE "finished"
    <3>1. CASE n = m /\ i = Len(old) + 1
      BY <1>3, <2>1, <2>2, <2>3, <3>1 DEF JobsInv, JobsTypeOK, Passed, Hand
    <3>2. CASE ~(n = m /\ i = Len(old) + 1)
      <4>1. i \in 1..Len(lFinishedJobs[n]) /\ lFinishedJobs'[n][i] = lFinishedJobs[n][i]
        <5>1. CASE n # m
          BY <2>2, <2>7, <5>1
        <5>2. CASE n = m
          <6>1. i \in 1..(Len(old) + 1) /\ i # Len(old) + 1 /\ Len(old) \in Nat
            BY <2>1, <2>2, <2>3, <2>7, <3>2, <5>2
          <6>2. i \in 1..Len(old)
            BY <6>1
          <6> QED BY <2>2, <2>3, <5>2, <6>2
        <5> QED BY <5>1, <5>2
      <4> QED
        BY <1>3, <2>6, <4>1 DEF JobsInv, JobsTypeOK, FinishedInv, Passed, Hand
    <3> QED BY <3>1, <3>2
  <2>8. ASSUME NEW n \in Managers, NEW i \in 1..Len(lFinishedJobs'[n]),
               NEW k \in 1..Len(lFinishedJobs'[n]),
               lFinishedJobs'[n][i] = lFinishedJobs'[n][k]
        PROVE  i = k
    <3>1. CASE n # m
      BY <2>2, <2>8, <3>1 DEF JobsInv, FinishedInv
    <3>2. CASE n = m
      <4>1. /\ i \in 1..(Len(old) + 1) /\ k \in 1..(Len(old) + 1) /\ Len(old) \in Nat
            /\ Append(old, j)[i] = Append(old, j)[k]
        <5>1. lFinishedJobs'[n] = Append(old, j)
          BY <2>2, <3>2
        <5> HIDE DEF old
        <5> QED BY <2>1, <2>3, <2>8, <5>1
      <4>2. \A x \in 1..(Len(old) + 1) : x \in 1..Len(old) \/ x = Len(old) + 1
        BY <4>1
      <4>3. \A x, y \in 1..Len(old) : old[x] = old[y] => x = y
        BY <2>1 DEF JobsInv, FinishedInv
      <4> QED BY <2>1, <2>3, <2>6, <4>1, <4>2, <4>3
    <3> QED BY <3>1, <3>2
  <2>9. main' = "cycling" => /\ pSelf' \in Managers /\ pSelf' # NoManager
                             /\ cycled' <= Len(lFinishedJobs'[pSelf'])
    BY <1>3, <2>1, <2>2 DEF JobsInv, FinishedInv, Hand
  <2>10. FinishedInv'
    BY <2>7, <2>8, <2>9 DEF FinishedInv
  <2> QED BY <2>4, <2>5, <2>10 DEF JobsInv
<1> QED BY <1>1, <1>2, <1>3 DEF JobThread

\* The heartbeat deletes the job after those it has been through, which is
\* finished and not deleted.
LEMMA PostSteps ==
  ASSUME JobsInv, Post
  PROVE  /\ JobsInv'
         /\ job[lFinishedJobs[pSelf][cycled + 1]] = "finished"
<1> DEFINE l == lFinishedJobs[pSelf]
           next == l[cycled + 1]
<1>1. /\ pSelf \in Managers /\ l \in Seq(Jobs)
      /\ cycled \in Nat /\ cycled + 1 \in 1..Len(l) /\ main = "cycling"
  BY DEF JobsInv, JobsTypeOK, FinishedInv, Post
<1>2. next \in Jobs /\ job[next] = "finished" /\ owner[next] = pSelf
  <2>1. next \in Jobs
    BY <1>1
  <2>2. ~Passed(pSelf, cycled + 1)
    BY <1>1 DEF Passed
  <2> QED BY <1>1, <2>1, <2>2 DEF JobsInv, FinishedInv
<1>3. /\ cycled' = cycled + 1 /\ job' = [job EXCEPT ![next] = "deleted"]
      /\ UNCHANGED <<pSelf, boot, found, owner, lJobs, lFinishedJobs, main>>
  BY DEF Post
<1>4. JobsTypeOK' /\ BootInv' /\ OwnerInv'
  <2> HIDE DEF next
  <2>1. JobsTypeOK'
    BY <1>1, <1>2, <1>3 DEF JobsInv, JobsTypeOK
  <2>2. BootInv' /\ OwnerInv'
    BY <1>1, <1>2, <1>3 DEF JobsInv, JobsTypeOK, BootInv, OwnerInv
  <2> QED BY <2>1, <2>2
<1>5. ASSUME NEW m \in Managers, NEW i \in 1..Len(lFinishedJobs[m])
      PROVE  job'[lFinishedJobs[m][i]] =
               IF Passed(m, i)' THEN "deleted" ELSE "finished"
  <2>1. CASE m = pSelf /\ i = cycled + 1
    BY <1>1, <1>2, <1>3, <2>1 DEF JobsInv, JobsTypeOK, Passed
  <2>2. CASE ~(m = pSelf /\ i = cycled + 1)
    <3>1. lFinishedJobs[m][i] # next
      BY <1>1, <1>2, <1>5, <2>2 DEF JobsInv, FinishedInv
    <3>2. Passed(m, i)' = Passed(m, i)
      BY <1>1, <1>3, <1>5, <2>2 DEF Passed
    <3>3. job'[lFinishedJobs[m][i]] = job[lFinishedJobs[m][i]]
      BY <1>3, <3>1, <1>5 DEF JobsInv, JobsTypeOK
    <3> QED BY <1>5, <3>2, <3>3 DEF JobsInv, FinishedInv
  <2> QED BY <2>1, <2>2
<1>6. FinishedInv'
  BY <1>1, <1>3, <1>5 DEF JobsInv, FinishedInv
<1> QED BY <1>2, <1>4, <1>6 DEF JobsInv

LEMMA MainSteps ==
  ASSUME JobsInv, BootEnds \/ CycleBegins \/ CycleEnds \/ Stops
  PROVE  JobsInv'
<1>1. CASE BootEnds
  <2>1. JobsTypeOK' /\ BootInv' /\ OwnerInv'
    BY <1>1 DEF JobsInv, JobsTypeOK, BootInv, OwnerInv, BootEnds
  <2>2. FinishedInv'
    BY <1>1 DEF JobsInv, JobsTypeOK, FinishedInv, Passed, BootEnds
  <2> QED BY <2>1, <2>2 DEF JobsInv
<1>2. CASE CycleBegins
  <2>1. JobsTypeOK' /\ BootInv' /\ OwnerInv'
    BY <1>2 DEF JobsInv, JobsTypeOK, BootInv, OwnerInv, CycleBegins
  <2>2. FinishedInv'
    BY <1>2 DEF JobsInv, JobsTypeOK, FinishedInv, Passed, CycleBegins
  <2> QED BY <2>1, <2>2 DEF JobsInv
<1>3. CASE CycleEnds
  <2>1. /\ pSelf \in Managers /\ lFinishedJobs'[pSelf] = << >>
        /\ \A m \in Managers \ {pSelf} : lFinishedJobs'[m] = lFinishedJobs[m]
    BY <1>3 DEF JobsInv, JobsTypeOK, FinishedInv, CycleEnds
  <2>2. JobsTypeOK' /\ BootInv' /\ OwnerInv'
    <3>1. << >> \in Seq(Jobs)
      OBVIOUS
    <3>2. JobsTypeOK'
      BY <1>3, <3>1 DEF JobsInv, JobsTypeOK, CycleEnds
    <3>3. BootInv' /\ OwnerInv'
      BY <1>3 DEF JobsInv, BootInv, OwnerInv, CycleEnds
    <3> QED BY <3>2, <3>3
  <2>3. FinishedInv'
    BY <1>3, <2>1 DEF JobsInv, FinishedInv, Passed, CycleEnds
  <2> QED BY <2>2, <2>3 DEF JobsInv
<1>4. CASE Stops
  BY <1>4 DEF JobsInv, JobsTypeOK, BootInv, OwnerInv, FinishedInv, Passed, Stops
<1> QED BY <1>1, <1>2, <1>3, <1>4

LEMMA JobsStep == JobsInv /\ [JobsNext]_jobsVars => JobsInv'
<1> SUFFICES ASSUME JobsInv, [JobsNext]_jobsVars PROVE JobsInv'
  OBVIOUS
<1>1. CASE UNCHANGED jobsVars
  BY <1>1 DEF JobsInv, JobsTypeOK, BootInv, OwnerInv, FinishedInv, Passed, jobsVars
<1>2. CASE JobsNext
  BY <1>2, ZoneSteps, MainAddsSteps, JobSteps, PostSteps, MainSteps
     DEF JobsNext, MainThread
<1> QED BY <1>1, <1>2

LEMMA JobsInvariant == JobsSpec => []JobsInv
BY JobsStart, JobsStep, PTL DEF JobsSpec

\* Whatever managers the race at boot leaves, neither list of a manager holds
\* a job that is deleted, but for the list the heartbeat is deleting from.
THEOREM JobsListedLive == JobsSpec => []ListedJobsLive
<1>1. JobsInv => ListedJobsLive
  <2> SUFFICES ASSUME JobsInv, NEW m \in Managers, NEW j \in Jobs,
                      job[j] = "deleted"
               PROVE  /\ j \notin lJobs[m]
                      /\ main # "cycling" => j \notin ToSet(lFinishedJobs[m])
    BY DEF ListedJobsLive
  <2>1. j \notin lJobs[m]
    BY DEF JobsInv, OwnerInv
  <2>2. ASSUME main # "cycling", j \in ToSet(lFinishedJobs[m])
        PROVE  FALSE
    <3>1. lFinishedJobs[m] \in Seq(Jobs)
      BY DEF JobsInv, JobsTypeOK
    <3>2. PICK i \in 1..Len(lFinishedJobs[m]) : lFinishedJobs[m][i] = j
      BY <2>2, <3>1 DEF ToSet
    <3> QED BY <2>2, <3>2 DEF JobsInv, FinishedInv, Passed
  <2> QED BY <2>1, <2>2
<1> QED BY <1>1, JobsInvariant, PTL

\* The heartbeat never runs the post-routine of a job it has already deleted:
\* whatever job it takes from the list is finished, and no longer its thread's.
THEOREM NoJobDeletedTwice ==
  JobsSpec => [][Post => job[lFinishedJobs[pSelf][cycled + 1]] = "finished"]_jobsVars
BY JobsInvariant, PostSteps, PTL DEF JobsSpec

-------------------------------------------------------------------------------
(***************************************************************************)
(* The game's log implements MessageLog, for any number of messages added  *)
(* at any moment, by its own thread too.                                   *)
(***************************************************************************)

LogTypeOK ==
  /\ queueOne \in Seq(Nat) /\ queueTwo \in Seq(Nat) /\ writeOne \in BOOLEAN
  /\ flushed \in Nat /\ numAdded \in Nat
  /\ logFile \in Seq(Nat) /\ numDropped \in Nat
  /\ logThread \in {"check", "swap", "lastSwap", "writing", "last", "asleep",
                    "returned"}
  /\ isRunning \in BOOLEAN /\ wanted \in Nat /\ joined \in BOOLEAN

\* q holds the messages a + 1, a + 2, ... in that order.
Follows(q, a) == \A i \in 1..Len(q) : q[i] = a + i

\* The messages before *flushQueue: it was cleared after each earlier batch.
Sooner == Through - flushed

\* The two queues are the messages not yet cleared, none missing or doubled:
\* first *flushQueue, empty but while its loop runs, and then *writeQueue.
QueuesInv ==
  /\ flushed <= Len(flushQueue) /\ flushed <= Through
  /\ Follows(flushQueue, Sooner)
  /\ Follows(writeQueue, Sooner + Len(flushQueue))
  /\ Sooner + Len(flushQueue) + Len(writeQueue) = numAdded
  /\ logThread \notin {"writing", "last"} => flushQueue = << >>

\* The last round begins after terminate() and takes all there was by then.
StopInv ==
  /\ ~isRunning => wanted <= numAdded
  /\ logThread \in {"lastSwap", "last", "returned"} => ~isRunning
  /\ logThread = "last" => wanted <= Sooner + Len(flushQueue)
  /\ logThread = "returned" => wanted <= Through
  /\ joined => logThread = "returned"

LogInv == LogTypeOK /\ QueuesInv /\ StopInv

-------------------------------------------------------------------------------

\* What the operators on the queues and the file are built from.
LEMMA QueueFacts ==
  ASSUME LogTypeOK
  PROVE  /\ writeQueue \in Seq(Nat) /\ flushQueue \in Seq(Nat)
         /\ Len(writeQueue) \in Nat /\ Len(flushQueue) \in Nat
         /\ Through \in Nat
BY DEF LogTypeOK, writeQueue, flushQueue, Through

LEMMA QueuesFacts ==
  ASSUME LogTypeOK, NEW w, NEW f, Queues(w, f), writeOne' = writeOne
  PROVE  /\ writeQueue' = w /\ flushQueue' = f
         /\ w \in Seq(Nat) /\ f \in Seq(Nat) =>
              queueOne' \in Seq(Nat) /\ queueTwo' \in Seq(Nat)
BY DEF LogTypeOK, Queues, writeQueue, flushQueue

\* Messages added go to the end of *writeQueue, whoever adds them.
LEMMA LoggedFacts ==
  ASSUME LogTypeOK, NEW n \in Nat, Logged(n), writeOne' = writeOne,
         Follows(writeQueue, numAdded - Len(writeQueue)),
         Len(writeQueue) <= numAdded
  PROVE  /\ numAdded' = numAdded + n /\ numAdded' \in Nat
         /\ queueOne' \in Seq(Nat) /\ queueTwo' \in Seq(Nat)
         /\ flushQueue' = flushQueue
         /\ Len(writeQueue') = Len(writeQueue) + n
         /\ Follows(writeQueue', numAdded - Len(writeQueue))
<1> DEFINE w == writeQueue
           more == [i \in 1..n |-> numAdded + i]
<1>1. w \in Seq(Nat) /\ flushQueue \in Seq(Nat) /\ numAdded \in Nat
  BY QueueFacts DEF LogTypeOK
<1>2. more \in Seq(Nat) /\ Len(more) = n /\ \A i \in 1..n : more[i] = numAdded + i
  <2>1. \A i \in 1..n : numAdded + i \in Nat
    BY <1>1
  <2>2. more \in [1..n -> Nat]
    BY <2>1
  <2> QED BY <2>2
<1> HIDE DEF more
<1>3. /\ w \o more \in Seq(Nat) /\ Len(w \o more) = Len(w) + n
      /\ \A i \in 1..(Len(w) + n) :
           (w \o more)[i] = IF i <= Len(w) THEN w[i] ELSE more[i - Len(w)]
  BY <1>1, <1>2, ConcatProperties
<1>4. Queues(w \o more, flushQueue) /\ numAdded' = numAdded + n
  BY DEF Logged, more
<1>5. /\ writeQueue' = w \o more /\ flushQueue' = flushQueue
      /\ queueOne' \in Seq(Nat) /\ queueTwo' \in Seq(Nat)
  BY <1>1, <1>3, <1>4, QueuesFacts
<1>6. ASSUME NEW i \in 1..(Len(w) + n)
      PROVE  (w \o more)[i] = (numAdded - Len(w)) + i
  <2>1. CASE i <= Len(w)
    BY <1>1, <1>3, <2>1 DEF Follows
  <2>2. CASE ~(i <= Len(w))
    <3>1. i - Len(w) \in 1..n /\ Len(w) \in Nat
      BY <1>1, <2>2
    <3>2. (w \o more)[i] = numAdded + (i - Len(w))
      BY <1>2, <1>3, <2>2, <3>1
    <3> QED BY <1>1, <3>1, <3>2
  <2> QED BY <2>1, <2>2
<1>7. Follows(writeQueue', numAdded - Len(w))
  <2>1. \A i \in 1..Len(w \o more) : (w \o more)[i] = (numAdded - Len(w)) + i
    BY <1>3, <1>6
  <2> QED BY <1>5, <2>1 DEF Follows
<1> QED BY <1>1, <1>3, <1>4, <1>5, <1>7

\* How the two queues share out the messages.
LEMMA Shares ==
  ASSUME LogInv
  PROVE  /\ Sooner \in Nat
         /\ Sooner + Len(flushQueue) = numAdded - Len(writeQueue)
         /\ Len(writeQueue) <= numAdded
         /\ Follows(writeQueue, numAdded - Len(writeQueue))
<1>1. /\ Sooner \in Nat
      /\ Sooner + Len(flushQueue) = numAdded - Len(writeQueue)
      /\ Len(writeQueue) <= numAdded
  <2>1. /\ Len(flushQueue) \in Nat /\ Len(writeQueue) \in Nat
        /\ Through \in Nat /\ flushed \in Nat /\ numAdded \in Nat
        /\ flushed <= Through
        /\ Sooner + Len(flushQueue) + Len(writeQueue) = numAdded
    BY QueueFacts DEF LogInv, LogTypeOK, QueuesInv
  <2>2. Sooner \in Nat
    BY <2>1 DEF Sooner
  <2> QED BY <2>1, <2>2
<1> QED BY <1>1 DEF LogInv, QueuesInv

-------------------------------------------------------------------------------

LEMMA LogStart == LogInit => LogInv
<1> SUFFICES ASSUME LogInit PROVE LogInv
  OBVIOUS
<1>1. << >> \in Seq(Nat) /\ Len(<< >>) = 0
  OBVIOUS
<1>2. LogTypeOK
  BY <1>1 DEF LogInit, LogTypeOK
<1>3. writeQueue = << >> /\ flushQueue = << >> /\ Through = 0 /\ Sooner = 0
  BY <1>1 DEF LogInit, writeQueue, flushQueue, Through, Sooner
<1>4. QueuesInv
  BY <1>1, <1>3 DEF LogInit, QueuesInv, Follows
<1>5. StopInv
  BY DEF LogInit, StopInv
<1> QED BY <1>2, <1>4, <1>5 DEF LogInv

LEMMA AddMessageSteps ==
  ASSUME LogInv, AddMessage
  PROVE  LogInv' /\ numAdded' = numAdded + 1 /\ Through' = Through
<1>1. /\ Logged(1)
      /\ UNCHANGED <<writeOne, flushed, logFile, numDropped, logThread,
                     isRunning, wanted, joined>>
  BY DEF AddMessage
<1>2. LogTypeOK /\ QueuesInv /\ StopInv
  BY DEF LogInv
<1>3. /\ numAdded' = numAdded + 1 /\ numAdded' \in Nat
      /\ queueOne' \in Seq(Nat) /\ queueTwo' \in Seq(Nat)
      /\ flushQueue' = flushQueue
      /\ Len(writeQueue') = Len(writeQueue) + 1
      /\ Follows(writeQueue', numAdded - Len(writeQueue))
  BY <1>1, <1>2, Shares, LoggedFacts
<1>4. Through' = Through /\ Sooner' = Sooner
  BY <1>1 DEF Through, Sooner
<1>5. LogTypeOK'
  BY <1>1, <1>2, <1>3 DEF LogTypeOK
<1>6. QueuesInv'
  BY <1>1, <1>2, <1>3, <1>4, Shares, QueueFacts DEF LogTypeOK, QueuesInv
<1>7. StopInv'
  BY <1>1, <1>2, <1>3, <1>4 DEF LogTypeOK, StopInv
<1> QED BY <1>3, <1>4, <1>5, <1>6, <1>7 DEF LogInv

\* LookAtFlag, Wake, Terminate and JoinLog touch neither queue.
LEMMA QuietSteps ==
  ASSUME LogInv, LookAtFlag \/ Wake \/ Terminate \/ JoinLog
  PROVE  LogInv' /\ Through' = Through
<1>1. UNCHANGED <<queueOne, queueTwo, writeOne, flushed, numAdded, logFile, numDropped>>
  BY DEF LookAtFlag, Wake, Terminate, JoinLog
<1>2. /\ writeQueue' = writeQueue /\ flushQueue' = flushQueue
      /\ Through' = Through /\ Sooner' = Sooner
  BY <1>1 DEF writeQueue, flushQueue, Through, Sooner
<1>3. LogTypeOK'
  BY <1>1 DEF LogInv, LogTypeOK, LookAtFlag, Wake, Terminate, JoinLog
<1>4. QueuesInv'
  BY <1>1, <1>2 DEF LogInv, QueuesInv, Follows, LookAtFlag, Wake, Terminate, JoinLog
<1>5. StopInv'
  BY <1>1, <1>2 DEF LogInv, LogTypeOK, StopInv, LookAtFlag, Wake, Terminate, JoinLog
<1> QED BY <1>2, <1>3, <1>4, <1>5 DEF LogInv

\* The swap makes what was to be written what is being written.
LEMMA SwapSteps ==
  ASSUME LogInv, Swap
  PROVE  LogInv' /\ Through' = Through
<1>1. UNCHANGED <<queueOne, queueTwo, flushed, numAdded, logFile, numDropped,
                  isRunning, wanted, joined>>
  BY DEF Swap
<1>2. /\ flushQueue = << >> /\ flushed = 0
      /\ logThread = "swap" => logThread' = "writing"
      /\ logThread = "lastSwap" => logThread' = "last"
      /\ logThread \in {"swap", "lastSwap"}
  <2>1. flushQueue = << >> /\ Len(<< >>) = 0
    BY DEF LogInv, QueuesInv, Swap
  <2> QED BY <2>1 DEF LogInv, LogTypeOK, QueuesInv, Swap
<1>3. flushQueue' = writeQueue /\ writeQueue' = << >>
  <2>1. CASE writeQueue # << >>
    BY <1>1, <1>2, <2>1 DEF LogInv, LogTypeOK, Swap, writeQueue, flushQueue
  <2>2. CASE writeQueue = << >>
    BY <1>1, <1>2, <2>2 DEF LogInv, LogTypeOK, Swap, writeQueue, flushQueue
  <2> QED BY <2>1, <2>2
<1>4. Through' = Through /\ Sooner' = Sooner
  BY <1>1 DEF Through, Sooner
<1>5. LogTypeOK'
  BY <1>1, <1>2 DEF LogInv, LogTypeOK, Swap
<1>6. /\ Sooner \in Nat /\ Len(writeQueue) \in Nat
      /\ Sooner + Len(writeQueue) = numAdded
      /\ Follows(writeQueue, Sooner)
  BY <1>2, Shares, QueueFacts DEF LogInv, QueuesInv
<1>7. QueuesInv'
  BY <1>1, <1>2, <1>3, <1>4, <1>6 DEF LogInv, QueuesInv, Follows
<1>8. StopInv'
  BY <1>1, <1>2, <1>3, <1>4, <1>6 DEF LogInv, StopInv
<1> QED BY <1>4, <1>5, <1>7, <1>8 DEF LogInv

\* The next entry of the loop is the next message, and it is dealt with.
LEMMA EntrySteps ==
  ASSUME LogInv, WriteEntry \/ EntryFails
  PROVE  /\ LogInv'
         /\ Through < numAdded /\ Through' = Through + 1
         /\ \E n \in 0..2 : numAdded' = numAdded + n
         /\ logFile' \in {logFile, Append(logFile, Through')}
<1>1. PICK n \in 0..2 : Logged(n)
  BY DEF WriteEntry, EntryFails
<1>2. /\ InLoop /\ flushed' = flushed + 1
      /\ UNCHANGED <<writeOne, logThread, isRunning, wanted, joined>>
  BY DEF WriteEntry, EntryFails, ToNext
<1>3. LogTypeOK /\ QueuesInv /\ StopInv
  BY DEF LogInv
<1>4. /\ numAdded' = numAdded + n /\ numAdded' \in Nat
      /\ queueOne' \in Seq(Nat) /\ queueTwo' \in Seq(Nat)
      /\ flushQueue' = flushQueue
      /\ Len(writeQueue') = Len(writeQueue) + n
      /\ Follows(writeQueue', numAdded - Len(writeQueue))
  BY <1>1, <1>2, <1>3, Shares, LoggedFacts
<1>5. /\ flushed + 1 \in 1..Len(flushQueue)
      /\ flushQueue[flushed + 1] = Through + 1
  <2>1. flushed + 1 \in 1..Len(flushQueue)
    BY <1>2, <1>3, QueueFacts DEF InLoop, LogTypeOK
  <2>2. flushQueue[flushed + 1] = Sooner + (flushed + 1)
    BY <1>3, <2>1 DEF QueuesInv, Follows
  <2> QED BY <2>1, <2>2, <1>3, QueueFacts DEF LogTypeOK, Sooner
<1>6. /\ Through' = Through + 1
      /\ logFile' \in Seq(Nat) /\ numDropped' \in Nat
      /\ logFile' \in {logFile, Append(logFile, Through + 1)}
  <2>1. CASE WriteEntry
    <3>1. logFile' = Append(logFile, Through + 1) /\ numDropped' = numDropped
      BY <2>1, <1>2, <1>5 DEF WriteEntry
    <3>2. Len(Append(logFile, Through + 1)) = Len(logFile) + 1
      BY <1>3 DEF LogTypeOK
    <3> QED BY <3>1, <3>2, <1>3, QueueFacts DEF LogTypeOK, Through
  <2>2. CASE EntryFails
    BY <2>2, <1>3, QueueFacts DEF EntryFails, LogTypeOK, Through
  <2> QED BY <2>1, <2>2
<1>7. Sooner' = Sooner
  <2>1. Through \in Nat /\ flushed \in Nat
    BY <1>3, QueueFacts DEF LogTypeOK
  <2> QED BY <1>2, <1>6, <2>1 DEF Sooner
<1>8. LogTypeOK'
  BY <1>2, <1>3, <1>4, <1>6 DEF LogTypeOK
<1>9. QueuesInv'
  <2>1. flushed' <= Len(flushQueue') /\ flushed' <= Through'
    <3>1. flushed \in Nat /\ Through \in Nat /\ flushed <= Through
      BY <1>3, QueueFacts DEF LogTypeOK, QueuesInv
    <3>2. flushed + 1 <= Len(flushQueue) /\ Len(flushQueue') = Len(flushQueue)
      BY <1>4, <1>5
    <3> QED BY <1>2, <1>6, <3>1, <3>2
  <2>2. /\ Follows(flushQueue', Sooner')
        /\ Follows(writeQueue', Sooner' + Len(flushQueue'))
    BY <1>3, <1>4, <1>7, Shares DEF QueuesInv
  <2>3. Sooner' + Len(flushQueue') + Len(writeQueue') = numAdded'
    BY <1>3, <1>4, <1>7, Shares, QueueFacts DEF LogTypeOK
  <2>4. logThread' \in {"writing", "last"}
    BY <1>2 DEF InLoop
  <2> QED BY <2>1, <2>2, <2>3, <2>4 DEF QueuesInv
<1>10. StopInv'
  BY <1>2, <1>3, <1>4, <1>7 DEF LogTypeOK, StopInv, InLoop
<1>11. Through < numAdded
  BY <1>2, <1>3, <1>5, Shares, QueueFacts DEF Sooner, LogTypeOK
<1> QED BY <1>4, <1>6, <1>8, <1>9, <1>10, <1>11 DEF LogInv

LEMMA ClearSteps ==
  ASSUME LogInv, Clear
  PROVE  LogInv' /\ Through' = Through
<1>1. /\ LoopDone /\ flushed' = 0 /\ Queues(writeQueue, << >>)
      /\ logThread' = IF logThread = "last" THEN "returned" ELSE "asleep"
      /\ UNCHANGED <<writeOne, numAdded, logFile, numDropped, isRunning,
                     wanted, joined>>
  BY DEF Clear
<1>2. LogTypeOK /\ QueuesInv /\ StopInv
  BY DEF LogInv
<1>3. << >> \in Seq(Nat) /\ Len(<< >>) = 0
  OBVIOUS
<1>4. /\ writeQueue' = writeQueue /\ flushQueue' = << >>
      /\ queueOne' \in Seq(Nat) /\ queueTwo' \in Seq(Nat)
  BY <1>1, <1>2, <1>3, QueueFacts, QueuesFacts
<1>5. Through' = Through /\ Sooner + Len(flushQueue) = Through /\ Sooner' = Through
  BY <1>1, <1>2, QueueFacts DEF Through, Sooner, LoopDone, LogTypeOK
<1>6. LogTypeOK'
  BY <1>1, <1>2, <1>4 DEF LogTypeOK
<1>7. QueuesInv'
  BY <1>1, <1>2, <1>3, <1>4, <1>5, QueueFacts DEF QueuesInv, Follows
<1>8. StopInv'
  BY <1>1, <1>2, <1>5 DEF StopInv, LoopDone
<1> QED BY <1>5, <1>6, <1>7, <1>8 DEF LogInv

LEMMA LogStep == LogInv /\ [LogNext]_logVars => LogInv'
<1> SUFFICES ASSUME LogInv, [LogNext]_logVars PROVE LogInv'
  OBVIOUS
<1>1. CASE UNCHANGED logVars
  BY <1>1 DEF logVars, LogInv, LogTypeOK, QueuesInv, StopInv, Follows, Sooner,
              Through, writeQueue, flushQueue
<1>2. CASE LogNext
  BY <1>2, AddMessageSteps, QuietSteps, SwapSteps, EntrySteps, ClearSteps
     DEF LogNext, LogThread
<1> QED BY <1>1, <1>2

LEMMA LogInvariant == LogSpec => []LogInv
BY LogStart, LogStep, PTL DEF LogSpec

-------------------------------------------------------------------------------

\* Each step of the log is a step of MessageLog, or none.
LEMMA LogStepMaps ==
  ASSUME LogInv, [LogNext]_logVars
  PROVE  [Log!MLNext]_(Log!mlVars)
<1> USE DEF Log!mlVars
<1>1. CASE UNCHANGED logVars
  BY <1>1 DEF logVars, Through
<1>2. CASE AddMessage
  <2>1. numAdded' = numAdded + 1 /\ Through' = Through
    BY <1>2, AddMessageSteps
  <2>2. Log!MLAdd
    BY <1>2, <2>1 DEF AddMessage, Log!MLAdd
  <2> QED BY <2>2 DEF Log!MLNext
<1>3. CASE LookAtFlag \/ Wake
  BY <1>3, QuietSteps DEF LookAtFlag, Wake
<1>4. CASE Swap
  BY <1>4, SwapSteps DEF Swap
<1>5. CASE Clear
  BY <1>5, ClearSteps DEF Clear
<1>6. CASE WriteEntry \/ EntryFails
  <2>1. PICK n \in 0..2 : numAdded' = numAdded + n
    BY <1>6, EntrySteps
  <2>2. /\ Through < numAdded /\ Through' = Through + 1
        /\ logFile' \in {logFile, Append(logFile, Through')}
        /\ UNCHANGED <<isRunning, wanted, joined>>
    BY <1>6, EntrySteps DEF WriteEntry, EntryFails
  <2>3. Log!MLDeal(n)
    BY <2>1, <2>2 DEF Log!MLDeal
  <2> QED BY <2>3 DEF Log!MLNext
<1>7. CASE Terminate
  <2>1. ~joined
    BY <1>7 DEF Terminate, LogInv, StopInv
  <2>2. Log!MLTell
    BY <1>7, <2>1, QuietSteps DEF Terminate, Log!MLTell
  <2> QED BY <2>2 DEF Log!MLNext
<1>8. CASE JoinLog
  <2>1. wanted <= Through /\ wanted \in Nat /\ Through \in Nat
    BY <1>8, QueueFacts DEF JoinLog, LogInv, LogTypeOK, StopInv
  <2>2. Log!MLStopped
    BY <1>8, <2>1, QuietSteps DEF JoinLog, Log!MLStopped
  <2> QED BY <2>2 DEF Log!MLNext
<1> QED
  BY <1>1, <1>2, <1>3, <1>4, <1>5, <1>6, <1>7, <1>8 DEF LogNext, LogThread

\* The log keeps its promise for any number of messages: they are dealt with
\* one by one in the order they were added, none twice and none forgotten,
\* and all those added before it was told to stop are when it has stopped.
THEOREM LogKeepsPromise == LogSpec => KeepsPromise
<1>1. LogInit => Log!MLInit
  BY DEF LogInit, Log!MLInit, Through
<1>2. LogInv /\ [LogNext]_logVars => [Log!MLNext]_(Log!mlVars)
  BY LogStepMaps
<1> QED
  BY <1>1, <1>2, LogInvariant, PTL DEF LogSpec, KeepsPromise, Log!MLSpec

Depth == Cardinality(Containers)

LEMMA Kinds ==
  /\ Depth \in Nat
  /\ Gone \notin Holders /\ Nobody \notin Holders /\ Gone # Nobody
  /\ Players \subseteq Holders /\ Rooms \subseteq Holders /\ Chest \in Holders /\ Items \subseteq Holders
  /\ \A p \in Players : p \notin Rooms /\ p # Chest /\ p \notin Items
  /\ \A r \in Rooms : r # Chest /\ r \notin Items
  /\ Chest \notin Items /\ Corpses \subseteq Items
  /\ IsFiniteSet(Players) /\ IsFiniteSet(Items)
<1>1. IsFiniteSet(Holders) /\ Players \subseteq Holders /\ Items \subseteq Holders /\ Containers \subseteq Holders
  BY ItemAssumption DEF Holders, Items
<1>2. IsFiniteSet(Players) /\ IsFiniteSet(Items) /\ IsFiniteSet(Containers)
  BY <1>1, FS_Subset
<1>3. Depth \in Nat
  BY <1>2, FS_CardinalityType DEF Depth
<1> QED BY <1>1, <1>2, <1>3, ItemAssumption DEF Holders, Items, Containers

-------------------------------------------------------------------------------
(* What is under something.                                                *)

\* How Under grows, level by level.
LEMMA UnderGrows ==
  ASSUME NEW at, NEW S, S \subseteq Items
  PROVE  \E grow :
           /\ grow \in [0..Depth -> SUBSET Items] /\ grow[0] = S
           /\ \A k \in 1..Depth : grow[k] = grow[k-1] \cup {o \in Items : at[o] \in grow[k-1]}
           /\ Under(at, S) = grow[Depth]
<1> DEFINE Q == SUBSET Items
           More(T) == T \cup {o \in Items : at[o] \in T}
           Level(f, k) == IF k = 0 THEN S ELSE More(f[k-1])
<1>1. PICK n \in Nat : n = Depth
  BY Kinds
<1>2. PICK grow : grow = (CHOOSE f : f = [k \in 0..n |-> Level(f, k)])
  OBVIOUS
<1>3. Under(at, S) = grow[n]
  BY <1>1, <1>2, Zenon DEF Under, Depth
<1>4. ASSUME NEW f, NEW k \in 1..n PROVE Level(f, k) = More(f[k-1])
  <2>1. k # 0
    OBVIOUS
  <2> QED BY <2>1, Zenon
<1>5. ASSUME NEW f PROVE Level(f, 0) = S
  OBVIOUS
<1>6. ASSUME NEW k \in 0..n, k # 0 PROVE k \in 1..n /\ k - 1 \in 0..n
  BY <1>6
<1>7. S \in Q /\ \A T \in Q : More(T) \in Q
  OBVIOUS
<1>8. \A T : More(T) = T \cup {o \in Items : at[o] \in T}
  OBVIOUS
<1> HIDE DEF Level, Q, More
<1>9. PICK f \in [0..n -> Q] : f[0] = S /\ \A k \in 1..n : f[k] = More(f[k-1])
  <2> DEFINE step == [k \in 1..n |-> [T \in Q |-> More(T)]]
  <2>1. step \in [1..n -> [Q -> Q]]
    BY <1>7
  <2>2. ASSUME NEW T \in Q, NEW k \in 1..n PROVE step[k][T] = More(T)
    OBVIOUS
  <2>3. ASSUME NEW k \in 1..n PROVE k - 1 \in 0..n
    OBVIOUS
  <2> HIDE DEF step
  <2>4. PICK f \in [0..n -> Q] : f[0] = S /\ \A k \in 1..n : f[k] = step[k][f[k-1]]
    BY ONLY <1>7, <2>1, n \in Nat, Recursion
  <2>5. \A k \in 1..n : f[k-1] \in Q
    BY ONLY <2>3, <2>4
  <2>6. \A k \in 1..n : f[k] = More(f[k-1])
    BY ONLY <2>2, <2>4, <2>5
  <2> QED BY ONLY <2>4, <2>6
<1>10. f = [k \in 0..n |-> Level(f, k)]
  <2>1. \A k \in 0..n : f[k] = Level(f, k)
    BY <1>4, <1>5, <1>6, <1>9
  <2> QED BY <1>9, <2>1
<1>11. grow = [k \in 0..n |-> Level(grow, k)]
  BY <1>2, <1>10
<1>12. grow[0] = S /\ \A k \in 1..n : grow[k] = More(grow[k-1])
  <2>1. \A k \in 0..n : grow[k] = Level(grow, k)
    BY <1>11
  <2>2. 0 \in 0..n /\ \A k \in 1..n : k \in 0..n
    OBVIOUS
  <2> QED BY <1>4, <1>5, <2>1, <2>2
<1>13. \A k \in 0..n : grow[k] \in Q
  <2> DEFINE T == {k \in 0..n : grow[k] \in Q}
  <2>1. 0 \in T
    BY <1>7, <1>12
  <2>2. ASSUME NEW k \in T, k \in 0..(n-1) PROVE k + 1 \in T
    <3>1. k + 1 \in 1..n /\ k + 1 \in 0..n /\ (k + 1) - 1 = k
      BY <2>2
    <3>2. grow[k+1] = More(grow[k])
      BY <1>12, <3>1
    <3> QED BY <1>7, <3>1, <3>2
  <2>3. 0..n \subseteq T
    <3> HIDE DEF T
    <3> QED BY <2>1, <2>2, Induct
  <2> QED BY <2>3
<1>14. grow \in [0..n -> Q]
  BY <1>11, <1>13
<1>15. \A k \in 1..n : grow[k] = grow[k-1] \cup {o \in Items : at[o] \in grow[k-1]}
  BY <1>8, <1>12
<1> QED BY <1>1, <1>3, <1>12, <1>14, <1>15 DEF Q

\* The levels of Under, for an induction on them.
LEMMA UnderLevels ==
  ASSUME NEW at, NEW S, S \subseteq Items
  PROVE  \E n \in Nat : \E grow \in [0..n -> SUBSET Items] :
           /\ n = Depth /\ grow[0] = S /\ Under(at, S) = grow[n]
           /\ \A k \in 1..n : \A o : o \in grow[k] <=> o \in grow[k-1] \/ (o \in Items /\ at[o] \in grow[k-1])
           /\ \A k \in 0..n : S \subseteq grow[k] /\ grow[k] \subseteq Under(at, S)
<1>1. PICK n \in Nat : n = Depth
  BY Kinds
<1>2. PICK grow \in [0..n -> SUBSET Items] :
        /\ grow[0] = S /\ Under(at, S) = grow[n]
        /\ \A k \in 1..n : grow[k] = grow[k-1] \cup {o \in Items : at[o] \in grow[k-1]}
  BY <1>1, UnderGrows
<1>3. \A k \in 1..n : \A o : o \in grow[k] <=> o \in grow[k-1] \/ (o \in Items /\ at[o] \in grow[k-1])
  BY <1>2
<1>4. \A k \in 0..n : S \subseteq grow[k]
  <2> DEFINE T == {k \in 0..n : S \subseteq grow[k]}
  <2>1. 0 \in T
    BY <1>2
  <2>2. ASSUME NEW k \in T, k \in 0..(n-1) PROVE k + 1 \in T
    <3>1. k + 1 \in 1..n /\ k + 1 \in 0..n /\ (k + 1) - 1 = k
      BY <2>2
    <3> QED BY <1>2, <3>1
  <2>3. 0..n \subseteq T
    <3> HIDE DEF T
    <3> QED BY <2>1, <2>2, Induct
  <2> QED BY <2>3
<1>5. \A k \in 0..n : grow[n - k] \subseteq grow[n]
  <2> DEFINE T == {k \in 0..n : grow[n - k] \subseteq grow[n]}
  <2>1. 0 \in T
    BY <1>2
  <2>2. ASSUME NEW k \in T, k \in 0..(n-1) PROVE k + 1 \in T
    <3>1. n - k \in 1..n /\ k + 1 \in 0..n /\ (n - k) - 1 = n - (k + 1)
      BY <2>2
    <3>2. grow[n - (k + 1)] \subseteq grow[n - k]
      BY <1>3, <3>1
    <3> QED BY <3>1, <3>2
  <2>3. 0..n \subseteq T
    <3> HIDE DEF T
    <3> QED BY <2>1, <2>2, Induct
  <2> QED BY <2>3
<1>6. ASSUME NEW k \in 0..n PROVE grow[k] \subseteq Under(at, S)
  <2>1. n - k \in 0..n /\ n - (n - k) = k
    OBVIOUS
  <2> QED BY <1>2, <1>5, <2>1
<1>7. /\ n = Depth /\ grow[0] = S /\ Under(at, S) = grow[n]
      /\ \A k \in 0..n : S \subseteq grow[k] /\ grow[k] \subseteq Under(at, S)
  BY <1>1, <1>2, <1>4, <1>6
<1> QED BY ONLY n \in Nat, grow \in [0..n -> SUBSET Items], <1>3, <1>7

\* What is under S is in S, or in something under S.
LEMMA UnderFacts ==
  ASSUME NEW at, NEW S, S \subseteq Items
  PROVE  /\ S \subseteq Under(at, S) /\ Under(at, S) \subseteq Items
         /\ \A o \in Under(at, S) : o \in S \/ at[o] \in Under(at, S)
<1>1. PICK n \in Nat : \E grow \in [0..n -> SUBSET Items] :
           /\ n = Depth /\ grow[0] = S /\ Under(at, S) = grow[n]
           /\ \A k \in 1..n : \A o : o \in grow[k] <=> o \in grow[k-1] \/ (o \in Items /\ at[o] \in grow[k-1])
           /\ \A k \in 0..n : S \subseteq grow[k] /\ grow[k] \subseteq Under(at, S)
  BY UnderLevels
<1>2. PICK grow \in [0..n -> SUBSET Items] :
           /\ n = Depth /\ grow[0] = S /\ Under(at, S) = grow[n]
           /\ \A k \in 1..n : \A o : o \in grow[k] <=> o \in grow[k-1] \/ (o \in Items /\ at[o] \in grow[k-1])
           /\ \A k \in 0..n : S \subseteq grow[k] /\ grow[k] \subseteq Under(at, S)
  BY <1>1
<1>3. S \subseteq Under(at, S) /\ Under(at, S) \subseteq Items
  BY <1>2
<1> DEFINE T == {k \in 0..n : \A o \in grow[k] : o \in S \/ at[o] \in Under(at, S)}
<1>4. 0 \in T
  BY <1>2
<1>5. ASSUME NEW k \in T, k \in 0..(n-1) PROVE k + 1 \in T
  <2>1. k + 1 \in 1..n /\ k + 1 \in 0..n /\ (k + 1) - 1 = k /\ k \in 0..n
    BY <1>5
  <2> QED BY <1>2, <2>1
<1>6. 0..n \subseteq T
  <2> HIDE DEF T
  <2> QED BY <1>4, <1>5, Induct
<1>7. \A o \in grow[n] : o \in S \/ at[o] \in Under(at, S)
  <2>1. n \in T
    <3> HIDE DEF T
    <3> QED BY <1>6
  <2> QED BY <2>1
<1> QED BY <1>2, <1>3, <1>7

\* It is no more than what a set has that has S and all that is in its own.
LEMMA UnderLeast ==
  ASSUME NEW at, NEW S, S \subseteq Items, NEW R, S \subseteq R, \A o \in Items : at[o] \in R => o \in R
  PROVE  Under(at, S) \subseteq R
<1>1. PICK n \in Nat : \E grow \in [0..n -> SUBSET Items] :
           /\ n = Depth /\ grow[0] = S /\ Under(at, S) = grow[n]
           /\ \A k \in 1..n : \A o : o \in grow[k] <=> o \in grow[k-1] \/ (o \in Items /\ at[o] \in grow[k-1])
           /\ \A k \in 0..n : S \subseteq grow[k] /\ grow[k] \subseteq Under(at, S)
  BY UnderLevels
<1>2. PICK grow \in [0..n -> SUBSET Items] :
           /\ n = Depth /\ grow[0] = S /\ Under(at, S) = grow[n]
           /\ \A k \in 1..n : \A o : o \in grow[k] <=> o \in grow[k-1] \/ (o \in Items /\ at[o] \in grow[k-1])
           /\ \A k \in 0..n : S \subseteq grow[k] /\ grow[k] \subseteq Under(at, S)
  BY <1>1
<1> DEFINE T == {k \in 0..n : grow[k] \subseteq R}
<1>3. 0 \in T
  BY <1>2
<1>4. ASSUME NEW k \in T, k \in 0..(n-1) PROVE k + 1 \in T
  <2>1. k + 1 \in 1..n /\ k + 1 \in 0..n /\ (k + 1) - 1 = k /\ k \in 0..n
    BY <1>4
  <2> QED BY <1>2, <2>1
<1>5. 0..n \subseteq T
  <2> HIDE DEF T
  <2> QED BY <1>3, <1>4, Induct
<1>6. n \in T
  <2> HIDE DEF T
  <2> QED BY <1>5
<1> QED BY <1>2, <1>6

\* What is under S is also under R in another game, if its holders are the same there.
LEMMA UnderMono ==
  ASSUME NEW a, NEW b, NEW S, NEW R, S \subseteq R, R \subseteq Items,
         \A o \in Under(a, S) : a[o] \in Under(b, R) => b[o] = a[o]
  PROVE  Under(a, S) \subseteq Under(b, R)
<1>1. PICK n \in Nat : \E f \in [0..n -> SUBSET Items] :
           /\ n = Depth /\ f[0] = S /\ Under(a, S) = f[n]
           /\ \A k \in 1..n : \A o : o \in f[k] <=> o \in f[k-1] \/ (o \in Items /\ a[o] \in f[k-1])
           /\ \A k \in 0..n : S \subseteq f[k] /\ f[k] \subseteq Under(a, S)
  BY UnderLevels
<1>2. PICK f \in [0..n -> SUBSET Items] :
           /\ n = Depth /\ f[0] = S /\ Under(a, S) = f[n]
           /\ \A k \in 1..n : \A o : o \in f[k] <=> o \in f[k-1] \/ (o \in Items /\ a[o] \in f[k-1])
           /\ \A k \in 0..n : S \subseteq f[k] /\ f[k] \subseteq Under(a, S)
  BY <1>1
<1>3. \E m \in Nat : \E g \in [0..m -> SUBSET Items] :
           /\ m = Depth /\ g[0] = R /\ Under(b, R) = g[m]
           /\ \A k \in 1..m : \A o : o \in g[k] <=> o \in g[k-1] \/ (o \in Items /\ b[o] \in g[k-1])
           /\ \A k \in 0..m : R \subseteq g[k] /\ g[k] \subseteq Under(b, R)
  BY UnderLevels
<1>4. PICK g \in [0..n -> SUBSET Items] :
           /\ g[0] = R /\ Under(b, R) = g[n]
           /\ \A k \in 1..n : \A o : o \in g[k] <=> o \in g[k-1] \/ (o \in Items /\ b[o] \in g[k-1])
           /\ \A k \in 0..n : R \subseteq g[k] /\ g[k] \subseteq Under(b, R)
  BY <1>2, <1>3
<1> DEFINE T == {k \in 0..n : f[k] \subseteq g[k]}
<1>5. 0 \in T
  BY <1>2, <1>4
<1>6. ASSUME NEW k \in T, k \in 0..(n-1) PROVE k + 1 \in T
  <2>1. k + 1 \in 1..n /\ k + 1 \in 0..n /\ (k + 1) - 1 = k /\ k \in 0..n
    BY <1>6
  <2>2. f[k] \subseteq g[k] /\ g[k] \subseteq Under(b, R)
    BY <1>4, <2>1
  <2>3. ASSUME NEW o \in f[k+1] PROVE o \in g[k+1]
    <3>1. o \in f[k] \/ (o \in Items /\ a[o] \in f[k])
      BY <1>2, <2>1
    <3>2. o \in Under(a, S)
      BY <1>2, <2>1
    <3>3. o \in g[k] \/ (o \in Items /\ b[o] \in g[k])
      BY <2>2, <3>1, <3>2
    <3> QED BY <1>4, <2>1, <3>3
  <2> QED BY <2>1, <2>3
<1>7. 0..n \subseteq T
  <2> HIDE DEF T
  <2> QED BY <1>5, <1>6, Induct
<1>8. n \in T
  <2> HIDE DEF T
  <2> QED BY <1>7
<1> QED BY <1>2, <1>4, <1>8

\* What is under several sets is under one of them.
LEMMA UnderUnion ==
  ASSUME NEW at, NEW what, \A h \in DOMAIN what : what[h] \subseteq Items
  PROVE  /\ \A h \in DOMAIN what : Under(at, what[h]) \subseteq Under(at, UNION {what[h1] : h1 \in DOMAIN what})
         /\ \A o \in Under(at, UNION {what[h] : h \in DOMAIN what}) :
              \E h \in DOMAIN what : o \in Under(at, what[h])
<1>1. PICK S : S = UNION {what[h] : h \in DOMAIN what}
  OBVIOUS
<1>2. S \subseteq Items /\ \A h \in DOMAIN what : what[h] \subseteq S
  BY <1>1
<1>3. \A o \in S : \E h \in DOMAIN what : o \in what[h]
  BY <1>1
<1>4. PICK n \in Nat : \E f \in [0..n -> SUBSET Items] :
           /\ n = Depth /\ f[0] = S /\ Under(at, S) = f[n]
           /\ \A k \in 1..n : \A o : o \in f[k] <=> o \in f[k-1] \/ (o \in Items /\ at[o] \in f[k-1])
           /\ \A k \in 0..n : S \subseteq f[k] /\ f[k] \subseteq Under(at, S)
  BY <1>2, UnderLevels
<1>5. PICK f \in [0..n -> SUBSET Items] :
           /\ n = Depth /\ f[0] = S /\ Under(at, S) = f[n]
           /\ \A k \in 1..n : \A o : o \in f[k] <=> o \in f[k-1] \/ (o \in Items /\ at[o] \in f[k-1])
           /\ \A k \in 0..n : S \subseteq f[k] /\ f[k] \subseteq Under(at, S)
  BY <1>4
<1> DEFINE Grown(g, R) ==
             /\ g \in [0..n -> SUBSET Items] /\ g[0] = R /\ Under(at, R) = g[n]
             /\ \A k \in 1..n : \A o : o \in g[k] <=> o \in g[k-1] \/ (o \in Items /\ at[o] \in g[k-1])
           grown == [h \in DOMAIN what |-> CHOOSE g : Grown(g, what[h])]
<1>6. ASSUME NEW h \in DOMAIN what PROVE Grown(grown[h], what[h])
  <2>1. \E m \in Nat : \E g \in [0..m -> SUBSET Items] :
           /\ m = Depth /\ g[0] = what[h] /\ Under(at, what[h]) = g[m]
           /\ \A k \in 1..m : \A o : o \in g[k] <=> o \in g[k-1] \/ (o \in Items /\ at[o] \in g[k-1])
           /\ \A k \in 0..m : what[h] \subseteq g[k] /\ g[k] \subseteq Under(at, what[h])
    BY UnderLevels
  <2>2. \E g : Grown(g, what[h])
    BY <1>5, <2>1
  <2>3. grown[h] = CHOOSE g : Grown(g, what[h])
    OBVIOUS
  <2> HIDE DEF Grown, grown
  <2> QED BY <2>2, <2>3
<1>7. ASSUME NEW h \in DOMAIN what
      PROVE  /\ grown[h][0] = what[h] /\ Under(at, what[h]) = grown[h][n]
             /\ \A k \in 1..n : \A o :
                  o \in grown[h][k] <=> o \in grown[h][k-1] \/ (o \in Items /\ at[o] \in grown[h][k-1])
  <2> HIDE DEF grown
  <2> QED BY <1>6
<1> HIDE DEF grown, Grown
<1> DEFINE T == {k \in 0..n : \A o \in f[k] : \E h \in DOMAIN what : o \in grown[h][k]}
<1>8. 0 \in T
  BY <1>3, <1>5, <1>7
<1>9. ASSUME NEW k \in T, k \in 0..(n-1) PROVE k + 1 \in T
  <2>1. k + 1 \in 1..n /\ k + 1 \in 0..n /\ (k + 1) - 1 = k /\ k \in 0..n
    BY <1>9
  <2>2. ASSUME NEW o \in f[k+1] PROVE \E h \in DOMAIN what : o \in grown[h][k+1]
    <3>1. o \in f[k] \/ (o \in Items /\ at[o] \in f[k])
      BY <1>5, <2>1
    <3>2. \E h \in DOMAIN what : o \in grown[h][k] \/ (o \in Items /\ at[o] \in grown[h][k])
      BY <3>1
    <3> QED BY <1>7, <2>1, <3>2
  <2> QED BY <2>1, <2>2
<1>10. 0..n \subseteq T
  <2> HIDE DEF T
  <2> QED BY <1>8, <1>9, Induct
<1>11. n \in T
  <2> HIDE DEF T
  <2> QED BY <1>10
<1>12. ASSUME NEW h \in DOMAIN what PROVE Under(at, what[h]) \subseteq Under(at, S)
  BY <1>2, UnderMono
<1>13. \A o \in Under(at, S) : \E h \in DOMAIN what : o \in Under(at, what[h])
  BY <1>5, <1>7, <1>11
<1> QED BY <1>1, <1>12, <1>13

\* No object is carried by two.
LEMMA CarriedByOne ==
  ASSUME NEW at, NEW h, NEW k, h \notin Items, k \notin Items, h # k,
         NEW S, S \subseteq Held(at, h), NEW R, R \subseteq Held(at, k)
  PROVE  Under(at, S) \cap Under(at, R) = {}
<1>1. S \subseteq Items /\ R \subseteq Items
  BY DEF Held
<1>2. /\ R \subseteq Under(at, R) /\ Under(at, R) \subseteq Items
      /\ \A o \in Under(at, R) : o \in R \/ at[o] \in Under(at, R)
  BY <1>1, UnderFacts
<1>3. PICK rest : rest = Items \ Under(at, R)
  OBVIOUS
<1>4. S \subseteq rest
  BY <1>2, <1>3 DEF Held
<1>5. \A o \in Items : at[o] \in rest => o \in rest
  BY <1>2, <1>3 DEF Held
<1>6. Under(at, S) \subseteq rest
  BY <1>1, <1>4, <1>5, UnderLeast
<1> QED BY <1>3, <1>6

\* What is not in the game is under nothing that is held.
LEMMA AbsentUnderNone ==
  ASSUME NEW at, NEW S, S \subseteq Items, \A o \in S : at[o] # Gone
  PROVE  \A o \in Under(at, S) : at[o] # Gone
<1>1. PICK R : R = {o \in Items : at[o] # Gone}
  OBVIOUS
<1>2. S \subseteq R /\ \A o \in Items : at[o] \in R => o \in R
  BY <1>1, Kinds
<1> QED BY <1>1, <1>2, UnderLeast

-------------------------------------------------------------------------------
(* The rows, and what a save does to them.                                 *)

Row_s == [holder : Holders \cup {Gone, Nobody}, top : Holders \cup {Gone, Nobody}]
Homes(t) == [o \in Items |-> t[o].holder]

\* What a player carries is saved under that player; what is in something, under
\* what that is saved under, or under the thing itself.
Matched(t) ==
  \A o \in Items :
    /\ t[o].holder \in Players => t[o].top = t[o].holder
    /\ t[o].holder \in Items /\ t[t[o].holder].holder # Gone =>
         t[o].top \in {t[t[o].holder].top, t[o].holder}

Rows == {t \in [Items -> Row_s] : Matched(t)}

\* A save writes the objects it saves, each under one holder.
Saved(at, what) == Under(at, UNION {what[h] : h \in DOMAIN what})
Proper(at, what) ==
  /\ at \in [Items -> Holders \cup {Gone}]
  /\ DOMAIN what \subseteq Holders \cup {Nobody}
  /\ \A h \in DOMAIN what : what[h] \subseteq Items
  /\ \A h, k \in DOMAIN what : h # k => Under(at, what[h]) \cap Under(at, what[k]) = {}

TopOf(at, what, o) == CHOOSE h \in DOMAIN what : o \in Under(at, what[h])
Cleaned(t, what, delete) == IF delete THEN Cleared(t, DOMAIN what) ELSE t
Limboed(t, at, what, delete) == Limbo(Cleaned(t, what, delete), Saved(at, what))
Removed(t, at, what, delete) ==
  [o \in Items |-> IF o \in Saved(at, what) THEN NoRow ELSE Limboed(t, at, what, delete)[o]]
Inserted(t, at, what, delete) ==
  [o \in Items |-> IF o \in Saved(at, what) THEN Row(at, what, TopOf(at, what, o), o)
                   ELSE Removed(t, at, what, delete)[o]]

LEMMA StatementsAre ==
  ASSUME NEW t, NEW at, NEW what, NEW delete
  PROVE  Statements(t, at, what, delete) =
           <<Cleaned(t, what, delete), Limboed(t, at, what, delete),
             Removed(t, at, what, delete), Inserted(t, at, what, delete)>>
BY Zenon DEF Statements, Cleaned, Limboed, Removed, Inserted, TopOf, Saved

LEMMA SavedFacts ==
  ASSUME NEW at, NEW what, Proper(at, what)
  PROVE  /\ Saved(at, what) \subseteq Items
         /\ \A o \in Saved(at, what) :
              /\ TopOf(at, what, o) \in DOMAIN what
              /\ \/ o \in what[TopOf(at, what, o)]
                 \/ /\ at[o] \in Saved(at, what)
                    /\ TopOf(at, what, at[o]) = TopOf(at, what, o)
         /\ \A h \in DOMAIN what : \A o \in Under(at, what[h]) :
              o \in Saved(at, what) /\ TopOf(at, what, o) = h
<1>1. PICK S : S = UNION {what[h] : h \in DOMAIN what}
  OBVIOUS
<1>2. /\ S \subseteq Items /\ \A h \in DOMAIN what : what[h] \subseteq Items
      /\ \A h, k \in DOMAIN what : h # k => Under(at, what[h]) \cap Under(at, what[k]) = {}
  BY <1>1 DEF Proper
<1>3. Saved(at, what) = Under(at, S)
  BY <1>1 DEF Saved
<1>4. Under(at, S) \subseteq Items
  BY <1>2, UnderFacts
<1>5. /\ \A h \in DOMAIN what : Under(at, what[h]) \subseteq Under(at, S)
      /\ \A o \in Under(at, S) : \E h \in DOMAIN what : o \in Under(at, what[h])
  BY <1>1, <1>2, UnderUnion
<1>6. \A h \in DOMAIN what : \A o \in Under(at, what[h]) : o \in what[h] \/ at[o] \in Under(at, what[h])
  BY <1>2, UnderFacts
<1>7. ASSUME NEW o \in Under(at, S)
      PROVE  TopOf(at, what, o) \in DOMAIN what /\ o \in Under(at, what[TopOf(at, what, o)])
  <2>1. \E h \in DOMAIN what : o \in Under(at, what[h])
    BY <1>5
  <2> QED BY <2>1 DEF TopOf
<1>8. ASSUME NEW h \in DOMAIN what, NEW o \in Under(at, what[h])
      PROVE  o \in Under(at, S) /\ TopOf(at, what, o) = h
  <2>1. o \in Under(at, S)
    BY <1>5
  <2>2. TopOf(at, what, o) \in DOMAIN what /\ o \in Under(at, what[TopOf(at, what, o)])
    BY <1>7, <2>1
  <2> QED BY <1>2, <2>1, <2>2
<1>9. ASSUME NEW o \in Under(at, S)
      PROVE  /\ TopOf(at, what, o) \in DOMAIN what
             /\ \/ o \in what[TopOf(at, what, o)]
                \/ /\ at[o] \in Under(at, S)
                   /\ TopOf(at, what, at[o]) = TopOf(at, what, o)
  <2>1. PICK h : h = TopOf(at, what, o)
    OBVIOUS
  <2>2. h \in DOMAIN what /\ o \in Under(at, what[h])
    BY <1>7, <2>1
  <2>3. o \in what[h] \/ at[o] \in Under(at, what[h])
    BY <1>6, <2>2
  <2> QED BY <1>8, <2>1, <2>2, <2>3
<1> QED BY <1>3, <1>4, <1>8, <1>9

LEMMA CleanedRows ==
  ASSUME NEW t \in Rows, NEW what, NEW delete
  PROVE  /\ Cleaned(t, what, delete) \in Rows
         /\ \A o \in Items :
              Cleaned(t, what, delete)[o] = IF delete /\ t[o].top \in DOMAIN what THEN NoRow ELSE t[o]
<1>1. PICK u : u = Cleaned(t, what, delete)
  OBVIOUS
<1>2. t \in [Items -> Row_s] /\ Matched(t)
  BY DEF Rows
<1>3. \A o \in Items : u[o] = IF delete /\ t[o].top \in DOMAIN what THEN NoRow ELSE t[o]
  BY <1>1 DEF Cleaned, Cleared
<1>4. u \in [Items -> Row_s]
  <2>1. NoRow \in Row_s
    BY DEF NoRow, Row_s
  <2> QED BY <1>1, <1>2, <2>1 DEF Cleaned, Cleared
<1>5. NoRow.holder = Gone /\ NoRow.top = Gone
  BY DEF NoRow
<1>6. Matched(u)
  BY <1>2, <1>3, <1>5, Kinds DEF Matched
<1> QED BY <1>1, <1>3, <1>4, <1>6 DEF Rows

LEMMA LimboRows ==
  ASSUME NEW t \in Rows, NEW new, new \subseteq Items
  PROVE  /\ Limbo(t, new) \in Rows
         /\ \A o \in Items : /\ Limbo(t, new)[o].top = t[o].top
                             /\ Limbo(t, new)[o].holder \notin new
                             /\ t[o].holder \in new => Limbo(t, new)[o].holder = Nobody
                             /\ t[o].holder \notin new => Limbo(t, new)[o] = t[o]
<1>1. PICK u : u = Limbo(t, new)
  OBVIOUS
<1>2. t \in [Items -> Row_s] /\ Matched(t)
  BY DEF Rows
<1>3. ASSUME NEW o \in Items
      PROVE  /\ u[o] \in Row_s /\ u[o].top = t[o].top /\ u[o].holder \notin new
             /\ t[o].holder \in new => u[o].holder = Nobody
             /\ t[o].holder \notin new => u[o] = t[o]
  <2>1. CASE t[o].holder \in new
    <3>1. u[o] = [t[o] EXCEPT !.holder = Nobody]
      BY <1>1, <2>1 DEF Limbo
    <3>2. u[o] \in Row_s /\ u[o].top = t[o].top /\ u[o].holder = Nobody
      BY <1>2, <3>1 DEF Row_s
    <3> QED BY <2>1, <3>2, Kinds
  <2>2. CASE t[o].holder \notin new
    <3>1. u[o] = t[o]
      BY <1>1, <2>2 DEF Limbo
    <3> QED BY <1>2, <2>2, <3>1
  <2> QED BY <2>1, <2>2
<1>4. u \in [Items -> Row_s]
  BY <1>1, <1>3 DEF Limbo
<1>5. ASSUME NEW o \in Items
      PROVE  /\ u[o].holder \in Players => u[o].top = u[o].holder
             /\ u[o].holder \in Items /\ u[u[o].holder].holder # Gone =>
                  u[o].top \in {u[u[o].holder].top, u[o].holder}
  <2>1. CASE t[o].holder \in new
    BY <1>3, <2>1, Kinds
  <2>2. CASE t[o].holder \notin new
    <3>1. u[o] = t[o]
      BY <1>3, <2>2
    <3>2. ASSUME u[o].holder \in Items, u[u[o].holder].holder # Gone
          PROVE  t[t[o].holder].holder # Gone /\ u[u[o].holder].top = t[t[o].holder].top
      BY <1>3, <3>1, <3>2, Kinds
    <3> QED BY <1>2, <3>1, <3>2 DEF Matched
  <2> QED BY <2>1, <2>2
<1>6. Matched(u)
  BY <1>5 DEF Matched
<1> QED BY <1>1, <1>3, <1>4, <1>6 DEF Rows

LEMMA LimboedRows ==
  ASSUME NEW t \in Rows, NEW at, NEW what, NEW delete, Proper(at, what)
  PROVE  /\ Limboed(t, at, what, delete) \in Rows
         /\ \A o \in Items :
              /\ Limboed(t, at, what, delete)[o].top = Cleaned(t, what, delete)[o].top
              /\ Limboed(t, at, what, delete)[o].holder \notin Saved(at, what)
              /\ Cleaned(t, what, delete)[o].holder \in Saved(at, what) =>
                   Limboed(t, at, what, delete)[o].holder = Nobody
              /\ Cleaned(t, what, delete)[o].holder \notin Saved(at, what) =>
                   Limboed(t, at, what, delete)[o] = Cleaned(t, what, delete)[o]
<1>1. Cleaned(t, what, delete) \in Rows
  BY CleanedRows
<1>2. Saved(at, what) \subseteq Items
  BY SavedFacts
<1> QED BY <1>1, <1>2, LimboRows DEF Limboed

LEMMA RemovedRows ==
  ASSUME NEW t \in Rows, NEW at, NEW what, NEW delete, Proper(at, what)
  PROVE  /\ Removed(t, at, what, delete) \in Rows
         /\ \A o \in Items :
              Removed(t, at, what, delete)[o] =
                IF o \in Saved(at, what) THEN NoRow ELSE Limboed(t, at, what, delete)[o]
<1>1. PICK l, u, new : /\ l = Limboed(t, at, what, delete) /\ u = Removed(t, at, what, delete)
                       /\ new = Saved(at, what)
  OBVIOUS
<1>2. l \in [Items -> Row_s] /\ Matched(l) /\ \A o \in Items : l[o].holder \notin new
  BY <1>1, LimboedRows DEF Rows
<1>3. \A o \in Items : u[o] = IF o \in new THEN NoRow ELSE l[o]
  BY <1>1 DEF Removed
<1>4. NoRow.holder = Gone /\ NoRow.top = Gone /\ NoRow \in Row_s
  BY DEF NoRow, Row_s
<1>5. u \in [Items -> Row_s]
  BY <1>1, <1>2, <1>4 DEF Removed
<1>6. Matched(u)
  BY <1>2, <1>3, <1>4, Kinds DEF Matched
<1> QED BY <1>1, <1>3, <1>5, <1>6 DEF Rows

LEMMA InsertedRows ==
  ASSUME NEW t \in Rows, NEW at, NEW what, NEW delete, Proper(at, what)
  PROVE  /\ Inserted(t, at, what, delete) \in Rows
         /\ \A o \in Items :
              /\ o \in Saved(at, what) =>
                   /\ Inserted(t, at, what, delete)[o].top = TopOf(at, what, o)
                   /\ Inserted(t, at, what, delete)[o].holder =
                        IF o \in what[TopOf(at, what, o)] THEN TopOf(at, what, o) ELSE at[o]
              /\ o \notin Saved(at, what) =>
                   Inserted(t, at, what, delete)[o] = Limboed(t, at, what, delete)[o]
<1>1. PICK l, u, new : /\ l = Limboed(t, at, what, delete) /\ u = Inserted(t, at, what, delete)
                       /\ new = Saved(at, what)
  OBVIOUS
<1>2. l \in [Items -> Row_s] /\ Matched(l) /\ \A o \in Items : l[o].holder \notin new
  BY <1>1, LimboedRows DEF Rows
<1>3. /\ new \subseteq Items
      /\ \A o \in new :
           /\ TopOf(at, what, o) \in DOMAIN what
           /\ \/ o \in what[TopOf(at, what, o)]
              \/ at[o] \in new /\ TopOf(at, what, at[o]) = TopOf(at, what, o)
  BY <1>1, SavedFacts
<1>4. DOMAIN what \subseteq Holders \cup {Nobody} /\ at \in [Items -> Holders \cup {Gone}]
  BY DEF Proper
<1>5. ASSUME NEW o \in new
      PROVE  /\ u[o].top = TopOf(at, what, o)
             /\ u[o].holder = IF o \in what[TopOf(at, what, o)] THEN TopOf(at, what, o) ELSE at[o]
             /\ u[o] \in Row_s
  <2>1. u[o] = Row(at, what, TopOf(at, what, o), o)
    BY <1>1, <1>3 DEF Inserted
  <2>2. u[o] = [holder |-> IF o \in what[TopOf(at, what, o)] THEN TopOf(at, what, o) ELSE at[o],
                top |-> TopOf(at, what, o)]
    BY <2>1 DEF Row
  <2>3. TopOf(at, what, o) \in Holders \cup {Nobody} /\ at[o] \in Holders \cup {Gone}
    BY <1>3, <1>4
  <2> QED BY <2>2, <2>3 DEF Row_s
<1>6. \A o \in Items \ new : u[o] = l[o]
  BY <1>1 DEF Inserted, Removed
<1>7. u \in [Items -> Row_s]
  <2>1. \A o \in Items : u[o] \in Row_s
    BY <1>2, <1>5, <1>6
  <2> QED BY <1>1, <2>1 DEF Inserted
<1>8. ASSUME NEW o \in Items
      PROVE  /\ u[o].holder \in Players => u[o].top = u[o].holder
             /\ u[o].holder \in Items /\ u[u[o].holder].holder # Gone =>
                  u[o].top \in {u[u[o].holder].top, u[o].holder}
  <2>1. CASE o \in new
    <3>1. CASE o \in what[TopOf(at, what, o)]
      BY <1>5, <2>1, <3>1
    <3>2. CASE o \notin what[TopOf(at, what, o)]
      <4>1. at[o] \in new /\ u[o].holder = at[o] /\ u[at[o]].top = u[o].top
        BY <1>3, <1>5, <2>1, <3>2
      <4> QED BY <1>3, <4>1, Kinds
    <3> QED BY <3>1, <3>2
  <2>2. CASE o \notin new
    <3>1. u[o] = l[o] /\ l[o].holder \notin new
      BY <1>2, <1>6, <2>2
    <3>2. l[o].holder \in Items => u[l[o].holder] = l[l[o].holder]
      BY <1>6, <3>1
    <3> QED BY <1>2, <3>1, <3>2 DEF Matched
  <2> QED BY <2>1, <2>2
<1>9. Matched(u)
  BY <1>8 DEF Matched
<1>10. \A o \in Items : o \in new \/ u[o] = l[o]
  BY <1>6
<1> QED BY <1>1, <1>5, <1>7, <1>9, <1>10 DEF Rows

-------------------------------------------------------------------------------
(* What a save leaves alone.                                               *)

LEMMA LoadedFacts ==
  ASSUME NEW t, NEW p
  PROVE  /\ LoadedBy(t, p) \subseteq Items
         /\ \A o \in Items : t[o].holder = p => o \in LoadedBy(t, p)
         /\ \A o \in LoadedBy(t, p) : t[o].holder = p \/ t[o].holder \in LoadedBy(t, p)
         /\ LoadedBy(t, p) = Under(Homes(t), Held(Homes(t), p))
<1>1. PICK at, S : at = Homes(t) /\ S = Held(at, p)
  OBVIOUS
<1>2. LoadedBy(t, p) = Under(at, S)
  BY <1>1 DEF LoadedBy, Carried, Homes
<1>3. S \subseteq Items /\ \A o \in Items : at[o] = t[o].holder /\ (o \in S <=> t[o].holder = p)
  BY <1>1 DEF Held, Homes
<1>4. /\ S \subseteq Under(at, S) /\ Under(at, S) \subseteq Items
      /\ \A o \in Under(at, S) : o \in S \/ at[o] \in Under(at, S)
  BY <1>3, UnderFacts
<1> QED BY <1>1, <1>2, <1>3, <1>4

\* What p would load is the same in t and in u, row by row.
Kept(t, u, p) ==
  LoadedBy(u, p) = LoadedBy(t, p) /\ \A o \in LoadedBy(t, p) : u[o] = t[o]

LEMMA KeptIf ==
  ASSUME NEW t, NEW u, NEW p, \A o \in LoadedBy(t, p) : u[o] = t[o],
         \A o \in Items : u[o].holder = p \/ u[o].holder \in LoadedBy(t, p) => u[o].holder = t[o].holder
  PROVE  Kept(t, u, p)
<1>1. PICK a, b, S, R : /\ a = Homes(t) /\ b = Homes(u) /\ S = Held(a, p) /\ R = Held(b, p)
  OBVIOUS
<1>2. LoadedBy(t, p) = Under(a, S) /\ LoadedBy(u, p) = Under(b, R)
  BY <1>1, LoadedFacts
<1>3. \A o \in Items : a[o] = t[o].holder /\ b[o] = u[o].holder
  BY <1>1 DEF Homes
<1>4. S \subseteq Items /\ R \subseteq Items /\ \A o \in Items : (o \in S <=> a[o] = p) /\ (o \in R <=> b[o] = p)
  BY <1>1 DEF Held
<1>5. \A o \in S : o \in LoadedBy(t, p)
  BY <1>3, <1>4, LoadedFacts
<1>6. S \subseteq R /\ R \subseteq S
  BY <1>3, <1>4, <1>5
<1>7. Under(a, S) \subseteq Items /\ Under(b, R) \subseteq Items
  BY <1>4, UnderFacts
<1>8. Under(a, S) \subseteq Under(b, R)
  <2>1. \A o \in Under(a, S) : a[o] \in Under(b, R) => b[o] = a[o]
    BY <1>2, <1>3, <1>7
  <2> QED BY <1>4, <1>6, <2>1, UnderMono
<1>9. Under(b, R) \subseteq Under(a, S)
  <2>1. \A o \in Under(b, R) : b[o] \in Under(a, S) => a[o] = b[o]
    BY <1>2, <1>3, <1>7
  <2> QED BY <1>4, <1>6, <2>1, UnderMono
<1> QED BY <1>2, <1>8, <1>9 DEF Kept

LEMMA TopsOfLoaded ==
  ASSUME NEW t \in Rows, NEW p \in Players
  PROVE  \A o \in LoadedBy(t, p) : t[o].top = p \/ t[o].top \in LoadedBy(t, p)
<1>1. PICK G : G = LoadedBy(t, p)
  OBVIOUS
<1>2. PICK R : R = {o \in Items : o \in G => t[o].top = p \/ t[o].top \in G}
  OBVIOUS
<1>3. G \subseteq Items /\ \A o \in G : t[o].holder = p \/ t[o].holder \in G
  BY <1>1, LoadedFacts
<1>4. Matched(t)
  BY DEF Rows
<1>5. \A o \in Items : t[o].holder = p => t[o].top = p
  BY <1>4 DEF Matched
<1>6. \A o \in Held(Homes(t), p) : o \in Items /\ t[o].holder = p
  BY DEF Held, Homes
<1>7. Held(Homes(t), p) \subseteq R /\ Held(Homes(t), p) \subseteq Items
  BY <1>2, <1>5, <1>6
<1>8. ASSUME NEW o \in Items, Homes(t)[o] \in R PROVE o \in R
  <2>1. PICK h : h = t[o].holder
    OBVIOUS
  <2>2. h \in R /\ h \in Items
    BY <1>2, <1>8, <2>1 DEF Homes
  <2>3. ASSUME o \in G, h # p PROVE t[o].top = p \/ t[o].top \in G
    <3>1. h \in G
      BY <1>3, <2>1, <2>3
    <3>2. t[h].holder # Gone /\ (t[h].top = p \/ t[h].top \in G)
      BY <1>2, <1>3, <2>2, <3>1, Kinds
    <3>3. t[o].top \in {t[h].top, h}
      BY <1>4, <2>1, <2>2, <3>2 DEF Matched
    <3> QED BY <3>1, <3>2, <3>3
  <2> QED BY <1>2, <1>5, <2>1, <2>3
<1>9. G \subseteq R
  BY <1>1, <1>7, <1>8, LoadedFacts, UnderLeast
<1> QED BY <1>1, <1>2, <1>9

\* A save under others of what p has not does not touch what p would load.
LEMMA SaveKeeps ==
  ASSUME NEW t \in Rows, NEW at, NEW what, NEW delete, Proper(at, what), NEW p \in Players, p \notin DOMAIN what,
         \A o \in LoadedBy(t, p) : o \notin Saved(at, what) /\ o \notin DOMAIN what
  PROVE  /\ Kept(t, Cleaned(t, what, delete), p) /\ Kept(t, Limboed(t, at, what, delete), p)
         /\ Kept(t, Removed(t, at, what, delete), p) /\ Kept(t, Inserted(t, at, what, delete), p)
<1>1. PICK G, new : G = LoadedBy(t, p) /\ new = Saved(at, what)
  OBVIOUS
<1>2. PICK c, l, r, u : /\ c = Cleaned(t, what, delete) /\ l = Limboed(t, at, what, delete)
                        /\ r = Removed(t, at, what, delete) /\ u = Inserted(t, at, what, delete)
  OBVIOUS
<1>3. /\ G \subseteq Items /\ \A o \in G : /\ t[o].holder = p \/ t[o].holder \in G
                                           /\ t[o].top = p \/ t[o].top \in G
                                           /\ o \notin new /\ o \notin DOMAIN what
  BY <1>1, LoadedFacts, TopsOfLoaded
<1>4. \A o \in Items : c[o] = IF delete /\ t[o].top \in DOMAIN what THEN NoRow ELSE t[o]
  BY <1>2, CleanedRows
<1>5. \A o \in Items : /\ c[o].holder \in new => l[o].holder = Nobody
                       /\ c[o].holder \notin new => l[o] = c[o]
  BY <1>1, <1>2, LimboedRows
<1>6. \A o \in Items : r[o] = IF o \in new THEN NoRow ELSE l[o]
  BY <1>1, <1>2, RemovedRows
<1>7. \A o \in Items :
        /\ o \in new => u[o].holder = IF o \in what[TopOf(at, what, o)] THEN TopOf(at, what, o) ELSE at[o]
        /\ o \notin new => u[o] = l[o]
  BY <1>1, <1>2, InsertedRows
<1>8. /\ new \subseteq Items
      /\ \A o \in new : TopOf(at, what, o) \in DOMAIN what /\ (o \in what[TopOf(at, what, o)] \/ at[o] \in new)
  BY <1>1, SavedFacts
<1>9. p \notin Items /\ p # Gone /\ p # Nobody /\ Gone \notin Items /\ Nobody \notin Items /\ NoRow.holder = Gone
  BY Kinds DEF NoRow
<1>10. /\ \A o \in G : c[o] = t[o]
       /\ \A o \in Items : c[o].holder = p \/ c[o].holder \in G => c[o].holder = t[o].holder
  BY <1>3, <1>4, <1>9
<1>11. /\ \A o \in G : l[o] = t[o]
       /\ \A o \in Items : l[o].holder = p \/ l[o].holder \in G => l[o].holder = t[o].holder
  BY <1>3, <1>5, <1>8, <1>9, <1>10
<1>12. /\ \A o \in G : r[o] = t[o]
       /\ \A o \in Items : r[o].holder = p \/ r[o].holder \in G => r[o].holder = t[o].holder
  BY <1>3, <1>6, <1>9, <1>11
<1>13. /\ \A o \in G : u[o] = t[o]
       /\ \A o \in Items : u[o].holder = p \/ u[o].holder \in G => u[o].holder = t[o].holder
  BY <1>3, <1>7, <1>8, <1>9, <1>11
<1> QED BY <1>1, <1>2, <1>10, <1>11, <1>12, <1>13, KeptIf

-------------------------------------------------------------------------------
(* The tables that a sequence of saves goes through.                       *)

LEMMA FourMore ==
  ASSUME NEW K, NEW q \in Seq(K), NEW a \in K, NEW b \in K, NEW c \in K, NEW d \in K
  PROVE  q \o <<a, b, c, d>> \in Seq(K) /\ q \o <<a, b, c, d>> # <<>> /\ Last(q \o <<a, b, c, d>>) = d
<1>1. PICK four : four = <<a, b, c, d>>
  OBVIOUS
<1>2. four \in Seq(K) /\ Len(four) = 4 /\ four[4] = d
  BY <1>1
<1>3. \A r \in Seq(K) : /\ q \o r \in Seq(K) /\ Len(q \o r) = Len(q) + Len(r)
                        /\ \A x \in 1..Len(r) : (q \o r)[Len(q) + x] = r[x]
  OBVIOUS
<1>4. PICK s : s = q \o four
  OBVIOUS
<1>5. s \in Seq(K) /\ Len(s) = Len(q) + 4 /\ Len(q) \in Nat /\ s[Len(q) + 4] = d
  <2>1. 4 \in 1..4 /\ Len(q) \in Nat
    OBVIOUS
  <2> QED BY ONLY <1>2, <1>3, <1>4, <2>1
<1>6. s # <<>>
  BY <1>5
<1>7. Last(s) = d
  BY ONLY <1>5 DEF Last
<1> QED BY ONLY <1>1, <1>4, <1>5, <1>6, <1>7

\* Whatever a save keeps, all tables of a sequence of saves have; and the last
\* table is what the saves make of it, one after the other.
LEMMA TablesFacts ==
  ASSUME NEW S, NEW saves \in Seq(S), NEW K, saved \in K,
         \A s \in S : \A t \in K :
           /\ Cleaned(t, s.what, s.delete) \in K /\ Limboed(t, s.at, s.what, s.delete) \in K
           /\ Removed(t, s.at, s.what, s.delete) \in K /\ Inserted(t, s.at, s.what, s.delete) \in K
  PROVE  \E n \in Nat : \E last :
           /\ n = Len(saves) /\ last[0] = saved /\ \A k \in 0..n : last[k] \in K
           /\ \A k \in 1..n : last[k] = Inserted(last[k-1], saves[k].at, saves[k].what, saves[k].delete)
           /\ Last(Tables(saves)) = last[n]
           /\ Tables(saves) \in Seq(K) /\ Tables(saves) # <<>>
<1> DEFINE Q == {q \in Seq(K) : q # <<>>}
           Four(t, k) == Statements(t, saves[k].at, saves[k].what, saves[k].delete)
           More(q, k) == q \o Four(Last(q), k)
           Level(f, k) == IF k = 0 THEN <<saved>> ELSE More(f[k-1], k)
           first == <<saved>>
           End(t, k) == Inserted(t, saves[k].at, saves[k].what, saves[k].delete)
<1>1. PICK n \in Nat : n = Len(saves)
  OBVIOUS
<1>2. PICK after : after = (CHOOSE f : f = [k \in 0..n |-> Level(f, k)])
  OBVIOUS
<1>3. Tables(saves) = after[n]
  BY <1>1, <1>2, Zenon DEF Tables
<1>4. ASSUME NEW k \in 1..n, NEW q \in Q
      PROVE  More(q, k) \in Q /\ Last(q) \in K /\ Last(More(q, k)) = End(Last(q), k)
  <2>1. PICK t : t = Last(q)
    OBVIOUS
  <2>2. q \in Seq(K) /\ q # <<>> /\ t \in K
    BY <2>1 DEF Last
  <2>3. PICK s : s = saves[k]
    OBVIOUS
  <2>4. s \in S
    BY <1>1, <2>3
  <2>5. PICK a, b, c, d : /\ a = Cleaned(t, s.what, s.delete) /\ b = Limboed(t, s.at, s.what, s.delete)
                          /\ c = Removed(t, s.at, s.what, s.delete) /\ d = Inserted(t, s.at, s.what, s.delete)
    OBVIOUS
  <2>6. a \in K /\ b \in K /\ c \in K /\ d \in K
    BY <2>2, <2>4, <2>5
  <2>7. Four(t, k) = <<a, b, c, d>> /\ End(t, k) = d
    BY <2>3, <2>5, StatementsAre
  <2>8. More(q, k) = q \o <<a, b, c, d>>
    BY <2>1, <2>7
  <2> HIDE DEF More, Four, End
  <2>9. More(q, k) \in Seq(K) /\ More(q, k) # <<>> /\ Last(More(q, k)) = d
    BY <2>2, <2>6, <2>8, FourMore
  <2> QED BY <2>1, <2>2, <2>7, <2>9
<1>5. ASSUME NEW f, NEW k \in 1..n PROVE Level(f, k) = More(f[k-1], k)
  <2>1. k # 0
    OBVIOUS
  <2> QED BY <2>1, Zenon
<1>6. ASSUME NEW f PROVE Level(f, 0) = first
  OBVIOUS
<1>7. ASSUME NEW k \in 0..n, k # 0 PROVE k \in 1..n /\ k - 1 \in 0..n
  BY <1>7
<1>8. first \in Q
  OBVIOUS
<1>8b. Last(first) = saved
  BY DEF Last
<1>9. \A q \in Q : q \in Seq(K) /\ q # <<>>
  OBVIOUS
<1>10. \A t, k : End(t, k) = Inserted(t, saves[k].at, saves[k].what, saves[k].delete)
  OBVIOUS
<1> HIDE DEF Level, Q, More, first, End, Four
<1>11. PICK f \in [0..n -> Q] : f[0] = first /\ \A k \in 1..n : f[k] = More(f[k-1], k)
  <2> DEFINE step == [k \in 1..n |-> [q \in Q |-> More(q, k)]]
  <2>1. step \in [1..n -> [Q -> Q]]
    BY <1>4
  <2>2. ASSUME NEW q \in Q, NEW k \in 1..n PROVE step[k][q] = More(q, k)
    OBVIOUS
  <2>3. ASSUME NEW k \in 1..n PROVE k - 1 \in 0..n
    OBVIOUS
  <2> HIDE DEF step
  <2>4. PICK f \in [0..n -> Q] : f[0] = first /\ \A k \in 1..n : f[k] = step[k][f[k-1]]
    BY ONLY <1>8, <2>1, n \in Nat, Recursion
  <2>5. \A k \in 1..n : f[k-1] \in Q
    BY ONLY <2>3, <2>4
  <2>6. \A k \in 1..n : f[k] = More(f[k-1], k)
    BY ONLY <2>2, <2>4, <2>5
  <2> QED BY ONLY <2>4, <2>6
<1>12. f = [k \in 0..n |-> Level(f, k)]
  <2>1. \A k \in 0..n : f[k] = Level(f, k)
    BY <1>5, <1>6, <1>7, <1>11
  <2> QED BY <1>11, <2>1
<1>13. after = [k \in 0..n |-> Level(after, k)]
  BY <1>2, <1>12
<1>14. after[0] = first /\ \A k \in 1..n : after[k] = More(after[k-1], k)
  <2>1. \A k \in 0..n : after[k] = Level(after, k)
    BY <1>13
  <2>2. 0 \in 0..n /\ \A k \in 1..n : k \in 0..n
    OBVIOUS
  <2> QED BY <1>5, <1>6, <2>1, <2>2
<1>15. \A k \in 0..n : after[k] \in Q
  <2> DEFINE T == {k \in 0..n : after[k] \in Q}
  <2>1. 0 \in T
    BY <1>8, <1>14
  <2>2. ASSUME NEW k \in T, k \in 0..(n-1) PROVE k + 1 \in T
    <3>1. k + 1 \in 1..n /\ k + 1 \in 0..n /\ (k + 1) - 1 = k
      BY <2>2
    <3>2. after[k+1] = More(after[k], k + 1)
      BY <1>14, <3>1
    <3> QED BY <1>4, <3>1, <3>2
  <2>3. 0..n \subseteq T
    <3> HIDE DEF T
    <3> QED BY ONLY <2>1, <2>2, n \in Nat, Induct
  <2> QED BY <2>3
<1>16. \A k \in 1..n : k \in 0..n /\ k - 1 \in 0..n
  OBVIOUS
<1>17. \A q \in Q : Last(q) \in K
  <2>1. ASSUME NEW q \in Seq(K), q # <<>> PROVE q[Len(q)] \in K
    BY <2>1
  <2> QED BY ONLY <1>9, <2>1 DEF Last
<1>18. PICK last : last = [k \in 0..n |-> Last(after[k])]
  OBVIOUS
<1>19. \A k \in 0..n : last[k] = Last(after[k])
  BY ONLY <1>18
<1>20. 0 \in 0..n /\ n \in 0..n
  OBVIOUS
<1>21. \A k \in 0..n : last[k] \in K
  BY ONLY <1>15, <1>17, <1>19
<1>22. \A k \in 1..n : last[k] = End(last[k-1], k)
  <2>1. ASSUME NEW k \in 1..n PROVE last[k] = End(last[k-1], k)
    <3>1. k \in 0..n /\ k - 1 \in 0..n
      BY ONLY <1>16, <2>1
    <3>2. last[k] = Last(after[k]) /\ last[k-1] = Last(after[k-1]) /\ after[k-1] \in Q
      BY ONLY <1>15, <1>19, <3>1
    <3>3. Last(More(after[k-1], k)) = End(Last(after[k-1]), k)
      BY ONLY <1>4, <2>1, <3>2
    <3>4. after[k] = More(after[k-1], k)
      BY ONLY <1>14, <2>1
    <3> QED BY ONLY <3>2, <3>3, <3>4
  <2> QED BY ONLY <2>1
<1>23. last[0] = saved /\ Last(Tables(saves)) = last[n]
  BY ONLY <1>3, <1>8b, <1>14, <1>19, <1>20
<1>24. Tables(saves) \in Seq(K) /\ Tables(saves) # <<>>
  BY ONLY <1>3, <1>9, <1>15, <1>20
<1>25. \A k \in 1..n : last[k] = Inserted(last[k-1], saves[k].at, saves[k].what, saves[k].delete)
  BY ONLY <1>10, <1>22
<1> QED BY ONLY <1>1, <1>21, <1>23, <1>24, <1>25, n \in Nat

-------------------------------------------------------------------------------
(* The saves that concern none of the players P and of the objects G.      *)

Saves == [at     : [Items -> Holders \cup {Gone}],
          what   : UNION {[D -> SUBSET Items] : D \in SUBSET (Holders \cup {Nobody})},
          delete : BOOLEAN]
Stored(P) == UNION {LoadedBy(saved, p) : p \in P}
Spares(s, P, G) ==
  /\ Proper(s.at, s.what)
  /\ DOMAIN s.what \cap (P \cup G) = {} /\ Saved(s.at, s.what) \cap G = {}
Sparing(P, G) == {s \in Saves : Spares(s, P, G)}
Keepers(P) == {t \in Rows : \A p \in P : Kept(saved, t, p)}

LEMMA StoredFacts ==
  ASSUME NEW P
  PROVE  /\ Stored(P) \subseteq Items
         /\ \A p \in P : \A o \in LoadedBy(saved, p) : o \in Stored(P)
         /\ \A o \in Stored(P) : \E p \in P : o \in LoadedBy(saved, p)
BY LoadedFacts DEF Stored

LEMMA SavesKeep ==
  ASSUME NEW P, P \subseteq Players, NEW s, Spares(s, P, Stored(P)), NEW t \in Keepers(P)
  PROVE  /\ Cleaned(t, s.what, s.delete) \in Keepers(P) /\ Limboed(t, s.at, s.what, s.delete) \in Keepers(P)
         /\ Removed(t, s.at, s.what, s.delete) \in Keepers(P) /\ Inserted(t, s.at, s.what, s.delete) \in Keepers(P)
<1>1. PICK at, what, delete : at = s.at /\ what = s.what /\ delete = s.delete
  OBVIOUS
<1>2. /\ Proper(at, what) /\ DOMAIN what \cap (P \cup Stored(P)) = {}
      /\ Saved(at, what) \cap Stored(P) = {}
  BY <1>1 DEF Spares
<1>3. t \in Rows /\ \A p \in P : Kept(saved, t, p)
  BY DEF Keepers
<1>4. PICK c, l, r, u : /\ c = Cleaned(t, what, delete) /\ l = Limboed(t, at, what, delete)
                        /\ r = Removed(t, at, what, delete) /\ u = Inserted(t, at, what, delete)
  OBVIOUS
<1>5. c \in Rows /\ l \in Rows /\ r \in Rows /\ u \in Rows
  BY <1>2, <1>3, <1>4, CleanedRows, LimboedRows, RemovedRows, InsertedRows
<1>6. ASSUME NEW p \in P PROVE Kept(saved, c, p) /\ Kept(saved, l, p) /\ Kept(saved, r, p) /\ Kept(saved, u, p)
  <2>1. LoadedBy(t, p) = LoadedBy(saved, p) /\ \A o \in LoadedBy(saved, p) : t[o] = saved[o]
    BY <1>3 DEF Kept
  <2>2. p \in Players /\ p \notin DOMAIN what
    BY <1>2
  <2>3. \A o \in LoadedBy(t, p) : o \notin Saved(at, what) /\ o \notin DOMAIN what
    BY <1>2, <2>1, StoredFacts
  <2>4. Kept(t, c, p) /\ Kept(t, l, p) /\ Kept(t, r, p) /\ Kept(t, u, p)
    BY <1>2, <1>3, <1>4, <2>2, <2>3, SaveKeeps
  <2> QED BY <2>1, <2>4 DEF Kept
<1> QED BY <1>1, <1>4, <1>5, <1>6 DEF Keepers

LEMMA PresentKept ==
  ASSUME NEW P, saved \in Rows PROVE saved \in Keepers(P)
BY DEF Keepers, Kept

\* A save of one holder is proper.
LEMMA ProperOne ==
  ASSUME NEW at \in [Items -> Holders \cup {Gone}], NEW h \in Holders \cup {Nobody}, NEW S, S \subseteq Items
  PROVE  Proper(at, [x \in {h} |-> S])
<1>1. PICK what : what = [x \in {h} |-> S]
  OBVIOUS
<1>2. DOMAIN what = {h} /\ what[h] = S
  BY <1>1
<1> QED BY <1>1, <1>2 DEF Proper

\* A save saves nothing that is not in the game, except what it is told to.
LEMMA SavesNoneIf ==
  ASSUME NEW G, NEW at, NEW what, Proper(at, what),
         \A o \in G : at[o] = Gone, \A h \in DOMAIN what : what[h] \cap G = {}
  PROVE  Saved(at, what) \cap G = {}
<1>1. \A o \in Saved(at, what) : \/ \E h \in DOMAIN what : o \in what[h]
                                 \/ at[o] \in Saved(at, what)
  BY SavedFacts
<1>2. Saved(at, what) \subseteq Items /\ Gone \notin Items
  BY SavedFacts, Kinds
<1> QED BY <1>1, <1>2

LEMMA SaveSparing ==
  ASSUME NEW P, NEW G, NEW at, NEW what, NEW delete \in BOOLEAN, Proper(at, what),
         DOMAIN what \cap (P \cup G) = {}, Saved(at, what) \cap G = {},
         what = [h \in DOMAIN what |-> what[h]]
  PROVE  [at |-> at, what |-> what, delete |-> delete] \in Sparing(P, G)
<1>1. PICK s : s = [at |-> at, what |-> what, delete |-> delete]
  OBVIOUS
<1>2. s.at = at /\ s.what = what /\ s.delete = delete
  BY <1>1
<1>3. Spares(s, P, G)
  BY <1>2 DEF Spares
<1>4. what \in [DOMAIN what -> SUBSET Items] /\ DOMAIN what \in SUBSET (Holders \cup {Nobody})
  BY DEF Proper
<1>5. at \in [Items -> Holders \cup {Gone}]
  BY DEF Proper
<1>6. s \in Saves
  BY <1>1, <1>4, <1>5 DEF Saves
<1> QED BY <1>1, <1>3, <1>6 DEF Sparing

LEMMA OneSparing ==
  ASSUME NEW P, NEW G, NEW at \in [Items -> Holders \cup {Gone}], \A o \in G : at[o] = Gone,
         NEW h \in Holders \cup {Nobody}, h \notin P, h \notin G,
         NEW S, S \subseteq Items, S \cap G = {}, NEW delete \in BOOLEAN
  PROVE  [at |-> at, what |-> [x \in {h} |-> S], delete |-> delete] \in Sparing(P, G)
<1>1. PICK what : what = [x \in {h} |-> S]
  OBVIOUS
<1>2. /\ DOMAIN what \cap (P \cup G) = {} /\ \A k \in DOMAIN what : what[k] \cap G = {}
      /\ what = [k \in DOMAIN what |-> what[k]]
  BY <1>1
<1>3. Proper(at, what)
  BY <1>1, ProperOne
<1>4. Saved(at, what) \cap G = {}
  BY ONLY <1>2, <1>3, \A o \in G : at[o] = Gone, SavesNoneIf
<1> QED BY ONLY <1>1, <1>2, <1>3, <1>4, delete \in BOOLEAN, SaveSparing

LEMMA HolderSparing ==
  ASSUME NEW P, NEW G, NEW at \in [Items -> Holders \cup {Gone}], \A o \in G : at[o] = Gone,
         NEW h \in Holders, h \notin P, h \notin G
  PROVE  ItemSave(at, h) \in Sparing(P, G) /\ CorpseSave(at, h) \in Sparing(P, G)
<1>1. PICK S, R : S = Held(at, h) /\ R = Held(at, h) \cap Corpses
  OBVIOUS
<1> PICK d \in BOOLEAN : d = TRUE
  OBVIOUS
<1>2. S \subseteq Items /\ R \subseteq Items /\ R \subseteq S /\ \A o \in S : at[o] = h
  BY <1>1 DEF Held
<1>3. S \cap G = {} /\ R \cap G = {}
  <2>1. h # Gone
    BY Kinds
  <2> QED BY ONLY <1>2, <2>1, \A o \in G : at[o] = Gone
<1>4. /\ [at |-> at, what |-> [x \in {h} |-> S], delete |-> d] \in Sparing(P, G)
      /\ [at |-> at, what |-> [x \in {h} |-> R], delete |-> d] \in Sparing(P, G)
  <2>1. ASSUME NEW X, X \subseteq Items, X \cap G = {}
        PROVE  [at |-> at, what |-> [x \in {h} |-> X], delete |-> d] \in Sparing(P, G)
    <3>1. d \in BOOLEAN /\ h \in Holders \cup {Nobody}
      OBVIOUS
    <3> QED BY ONLY <2>1, <3>1, at \in [Items -> Holders \cup {Gone}], \A o \in G : at[o] = Gone,
               h \notin P, h \notin G, OneSparing
  <2> QED BY ONLY <1>2, <1>3, <2>1
<1>5. /\ ItemSave(at, h) = [at |-> at, what |-> [x \in {h} |-> S], delete |-> d]
      /\ CorpseSave(at, h) = [at |-> at, what |-> [x \in {h} |-> R], delete |-> d]
  BY <1>1, Zenon DEF ItemSave, CorpseSave, SaveOf
<1> QED BY <1>4, <1>5

\* What saves of others leave of the table.
LEMMA TablesKept ==
  ASSUME NEW P, P \subseteq Players, saved \in Rows, NEW saves \in Seq(Sparing(P, Stored(P)))
  PROVE  /\ Last(Tables(saves)) \in Keepers(P) /\ Len(Tables(saves)) \in Nat
         /\ \A i \in 1..Len(Tables(saves)) : Tables(saves)[i] \in Keepers(P)
         /\ saves # <<>> => \E t \in Keepers(P) : \E s \in Sparing(P, Stored(P)) :
              s = saves[Len(saves)] /\ Last(Tables(saves)) = Inserted(t, s.at, s.what, s.delete)
<1>1. PICK K, S : K = Keepers(P) /\ S = Sparing(P, Stored(P))
  OBVIOUS
<1>2. saved \in K
  BY <1>1, PresentKept
<1>3. \A s \in S : \A t \in K :
        /\ Cleaned(t, s.what, s.delete) \in K /\ Limboed(t, s.at, s.what, s.delete) \in K
        /\ Removed(t, s.at, s.what, s.delete) \in K /\ Inserted(t, s.at, s.what, s.delete) \in K
  BY <1>1, SavesKeep DEF Sparing
<1>4. \E n \in Nat : \E last :
        /\ n = Len(saves) /\ last[0] = saved /\ \A k \in 0..n : last[k] \in K
        /\ \A k \in 1..n : last[k] = Inserted(last[k-1], saves[k].at, saves[k].what, saves[k].delete)
        /\ Last(Tables(saves)) = last[n]
        /\ Tables(saves) \in Seq(K) /\ Tables(saves) # <<>>
  <2>1. saves \in Seq(S)
    BY <1>1
  <2> QED BY ONLY <1>2, <1>3, <2>1, TablesFacts
<1>5. PICK n \in Nat : \E last :
        /\ n = Len(saves) /\ last[0] = saved /\ \A k \in 0..n : last[k] \in K
        /\ \A k \in 1..n : last[k] = Inserted(last[k-1], saves[k].at, saves[k].what, saves[k].delete)
        /\ Last(Tables(saves)) = last[n]
        /\ Tables(saves) \in Seq(K) /\ Tables(saves) # <<>>
  BY ONLY <1>4
<1>5b. PICK last :
        /\ n = Len(saves) /\ last[0] = saved /\ \A k \in 0..n : last[k] \in K
        /\ \A k \in 1..n : last[k] = Inserted(last[k-1], saves[k].at, saves[k].what, saves[k].delete)
        /\ Last(Tables(saves)) = last[n]
        /\ Tables(saves) \in Seq(K) /\ Tables(saves) # <<>>
  BY ONLY <1>5
<1>6. n \in 0..n /\ (n # 0 => n \in 1..n /\ n - 1 \in 0..n)
  OBVIOUS
<1>7. Last(Tables(saves)) \in K
  BY ONLY <1>5b, <1>6
<1>8. Len(Tables(saves)) \in Nat /\ \A i \in 1..Len(Tables(saves)) : Tables(saves)[i] \in K
  BY <1>5b
<1>9. ASSUME saves # <<>>
      PROVE  \E t \in K : \E s \in S :
               s = saves[Len(saves)] /\ Last(Tables(saves)) = Inserted(t, s.at, s.what, s.delete)
  <2>1. n # 0 /\ saves[n] \in S
    BY <1>1, <1>5b, <1>9
  <2>2. PICK s : s = saves[n]
    OBVIOUS
  <2>3. /\ last[n-1] \in K /\ s \in S /\ s = saves[Len(saves)]
        /\ Last(Tables(saves)) = Inserted(last[n-1], s.at, s.what, s.delete)
    BY ONLY <1>5b, <1>6, <2>1, <2>2
  <2> QED BY ONLY <2>3
<1> QED BY ONLY <1>1, <1>7, <1>8, <1>9

-------------------------------------------------------------------------------
(* What a start of the game reads, and what a player would load.           *)

LEMMA BootedFacts ==
  ASSUME NEW t \in Rows
  PROVE  /\ Booted(t) \in [Items -> Holders \cup {Gone}]
         /\ \A p \in Players : \A o \in LoadedBy(t, p) : Booted(t)[o] = Gone
<1> DEFINE kind(o) == IF t[o].top \in Rooms THEN Rooms ELSE {t[o].top} \cap {Chest}
           h(o) == t[o].holder
           stays(o) == h(o) \in kind(o) \/ (h(o) \in Items /\ kind(o) # {} /\ kind(h(o)) = kind(o))
<1>1. PICK at : at = [o \in Items |-> IF stays(o) THEN h(o) ELSE Gone]
  OBVIOUS
<1>2. PICK placed : placed = UNION {Carried(at, k) : k \in Rooms \cup {Chest}}
  OBVIOUS
<1>3. Booted(t) = [o \in Items |-> IF o \in placed THEN at[o] ELSE Gone]
  BY <1>1, <1>2, Zenon DEF Booted
<1>4. \A o \in Items : at[o] = IF stays(o) THEN t[o].holder ELSE Gone
  BY <1>1
<1>5. \A o : kind(o) \subseteq Rooms \cup {Chest}
  OBVIOUS
<1>6. ASSUME NEW o \in Items
      PROVE  at[o] \in Rooms \cup {Chest} \cup Items \cup {Gone} /\ (at[o] # Gone => at[o] = t[o].holder)
  <2>1. CASE stays(o)
    BY <1>4, <1>5, <2>1
  <2>2. CASE ~stays(o)
    BY <1>4, <2>2
  <2> QED BY <2>1, <2>2
<1> HIDE DEF stays
<1>7. Booted(t) \in [Items -> Holders \cup {Gone}]
  <2>1. \A o \in Items : (IF o \in placed THEN at[o] ELSE Gone) \in Holders \cup {Gone}
    BY <1>6, Kinds
  <2> QED BY <1>3, <2>1
<1>8. ASSUME NEW p \in Players, NEW k \in Rooms \cup {Chest} PROVE Carried(at, k) \cap LoadedBy(t, p) = {}
  <2>1. PICK R : R = Items \ LoadedBy(t, p)
    OBVIOUS
  <2>2. \A o \in LoadedBy(t, p) : t[o].holder = p \/ t[o].holder \in LoadedBy(t, p)
    BY LoadedFacts
  <2>3. p \notin Items /\ k \notin Items /\ k # p /\ k # Gone /\ Gone \notin Items
    BY Kinds
  <2>4. LoadedBy(t, p) \subseteq Items
    BY LoadedFacts
  <2>5. Held(at, k) \subseteq R /\ Held(at, k) \subseteq Items
    BY <1>6, <2>1, <2>2, <2>3, <2>4 DEF Held
  <2>6. \A o \in Items : at[o] \in R => o \in R
    BY <1>6, <2>1, <2>2, <2>3
  <2>7. Carried(at, k) \subseteq R
    BY <2>5, <2>6, UnderLeast DEF Carried
  <2> QED BY <2>1, <2>7
<1>9. ASSUME NEW p \in Players, NEW o \in LoadedBy(t, p) PROVE Booted(t)[o] = Gone
  <2>1. o \in Items /\ o \notin placed
    BY <1>2, <1>8, LoadedFacts
  <2> QED BY <1>3, <2>1
<1> QED BY <1>7, <1>9

\* What was saved under h loads with h, and nothing else does.
LEMMA SavedLoads ==
  ASSUME NEW t \in Rows, NEW at, NEW what, NEW delete, delete = TRUE, Proper(at, what), NEW p \in Players,
         p \in DOMAIN what, \A h \in DOMAIN what : what[h] \subseteq Held(at, h), what[p] = Held(at, p)
  PROVE  LoadedBy(Inserted(t, at, what, delete), p) = Carried(at, p)
<1>1. PICK new, u, l, c : /\ new = Saved(at, what) /\ u = Inserted(t, at, what, delete)
                          /\ l = Limboed(t, at, what, delete) /\ c = Cleaned(t, what, delete)
  OBVIOUS
<1>1b. /\ \A o \in Items : c[o] = IF delete /\ t[o].top \in DOMAIN what THEN NoRow ELSE t[o]
      /\ l \in Rows
      /\ \A o \in Items :
           /\ l[o].top = c[o].top /\ l[o].holder \notin new
           /\ o \in new => u[o].holder = IF o \in what[TopOf(at, what, o)] THEN TopOf(at, what, o) ELSE at[o]
           /\ o \notin new => u[o] = l[o]
  BY ONLY <1>1, t \in Rows, Proper(at, what), CleanedRows, LimboedRows, InsertedRows
<1>2. \A o \in Items : c[o] = IF t[o].top \in DOMAIN what THEN NoRow ELSE t[o]
  BY <1>1b
<1>3. /\ Matched(l)
      /\ \A o \in Items : /\ l[o].top = c[o].top /\ l[o].holder \notin new
  BY <1>1b DEF Rows
<1>4. NoRow.top = Gone /\ p # Gone
  BY Kinds DEF NoRow
<1>5. ASSUME NEW o \in Items PROVE l[o].holder # p
  <2>1. l[o].holder = p => c[o].top = p
    BY <1>3 DEF Matched
  <2> QED BY <1>2, <1>4, <2>1
<1>6. /\ new \subseteq Items
      /\ \A o \in new : TopOf(at, what, o) \in DOMAIN what
      /\ \A h \in DOMAIN what : \A o \in Under(at, what[h]) : o \in new
  BY <1>1, SavedFacts
<1>7. ASSUME NEW o \in new PROVE u[o].holder = at[o]
  <2>1. o \in Items /\ TopOf(at, what, o) \in DOMAIN what
    BY <1>6
  <2>2. u[o].holder = IF o \in what[TopOf(at, what, o)] THEN TopOf(at, what, o) ELSE at[o]
    BY <1>1b, <2>1
  <2>3. o \in what[TopOf(at, what, o)] => at[o] = TopOf(at, what, o)
    BY <2>1 DEF Held
  <2> QED BY <2>2, <2>3
<1>8. ASSUME NEW o \in Items, o \notin new PROVE u[o].holder # p /\ u[o].holder \notin new
  <2>1. u[o] = l[o]
    BY <1>1b, <1>8
  <2> QED BY <1>3, <1>5, <2>1
<1>9. PICK S, R, b : S = Held(at, p) /\ R = Held(b, p) /\ b = Homes(u)
  OBVIOUS
<1>10. \A o \in Items : b[o] = u[o].holder
  BY <1>9 DEF Homes
<1>11. S \subseteq Items /\ R \subseteq Items /\ \A o \in Items : (o \in S <=> at[o] = p) /\ (o \in R <=> b[o] = p)
  BY <1>9 DEF Held
<1>12. S \subseteq new /\ Under(at, S) \subseteq new
  <2>1. S \subseteq Under(at, S)
    BY <1>11, UnderFacts
  <2> QED BY <1>6, <1>9, <2>1
<1>13. S = R
  <2>1. \A o \in Items : o \in S <=> o \in R
    BY ONLY <1>7, <1>8, <1>10, <1>11, <1>12
  <2> QED BY ONLY <1>11, <2>1
<1>14. Under(at, S) \subseteq Under(b, R)
  BY <1>6, <1>7, <1>10, <1>11, <1>12, <1>13, UnderMono
<1>15. Under(b, R) \subseteq new
  BY <1>8, <1>10, <1>11, <1>12, <1>13, UnderLeast
<1>16. Under(b, R) \subseteq Under(at, S)
  BY <1>6, <1>7, <1>10, <1>11, <1>13, <1>15, UnderMono
<1>17. LoadedBy(u, p) = Under(b, R) /\ Carried(at, p) = Under(at, S)
  BY ONLY <1>9, LoadedFacts DEF Carried
<1>18. Under(b, R) = Under(at, S)
  BY ONLY <1>14, <1>16, Zenon
<1> QED BY ONLY <1>1, <1>17, <1>18

-------------------------------------------------------------------------------
(* The invariant.                                                          *)

Links == {"out", "in", "linkless"}
ItemType ==
  /\ where \in [Items -> Holders \cup {Gone}] /\ saved \in Rows
  /\ link \in [Players -> Links] /\ prompts \subseteq Players /\ corpseRooms \subseteq Rooms
  /\ stops \in Nat
ItemInv == ItemType /\ NothingTwice

Out == {p \in Players : link[p] = "out"}

LEMMA StoredGone ==
  ASSUME ItemInv PROVE Out \subseteq Players /\ \A o \in Stored(Out) : where[o] = Gone
<1>1. Out \subseteq Players /\ \A p \in Out : \A o \in LoadedBy(saved, p) : where[o] = Gone
  BY DEF ItemInv, NothingTwice, Out
<1> QED BY <1>1, StoredFacts

LEMMA BootKeeps ==
  ASSUME stops \in Nat, NEW t \in Rows, Boot(t) PROVE ItemInv' /\ saved' = t /\ stops' # stops
<1>1. /\ saved' = t /\ where' = Booted(t) /\ prompts' = {} /\ link' = [p \in Players |-> "out"]
      /\ corpseRooms' = RoomsWithCorpses(Booted(t)) /\ stops' = stops + 1
  BY DEF Boot
<1>2. PICK at : at = Booted(t)
  OBVIOUS
<1>3. at \in [Items -> Holders \cup {Gone}] /\ \A p \in Players : \A o \in LoadedBy(t, p) : at[o] = Gone
  BY <1>2, BootedFacts
<1>4. RoomsWithCorpses(at) \subseteq Rooms
  BY DEF RoomsWithCorpses
<1>5. ItemType'
  BY <1>1, <1>2, <1>3, <1>4 DEF ItemType, Links
<1>6. NothingTwice'
  <2>1. ASSUME NEW p \in Players PROVE \A o \in LoadedBy(saved', p) : where'[o] = Gone
    BY <1>1, <1>2, <1>3
  <2> QED BY <2>1 DEF NothingTwice, LoadedBy, Carried, Under, Held
<1> QED BY <1>1, <1>5, <1>6 DEF ItemInv

\* The steps of a command, whether it ends or the game dies in one of its saves.
LEMMA CommandKeeps ==
  ASSUME ItemInv, NEW at \in [Items -> Holders \cup {Gone}], NEW links \in [Players -> Links],
         NEW saves \in Seq(Sparing(Out, Stored(Out))), \A o \in Stored(Out) : at[o] = Gone,
         \A p \in Players \ Out :
           links[p] = "out" => \A o \in LoadedBy(Last(Tables(saves)), p) : at[o] = Gone,
         Command(at, links, saves)
  PROVE  ItemInv' /\ saved' \in Keepers(Out)
<1>1. PICK ts : ts = Tables(saves)
  OBVIOUS
<1>2. ItemType /\ Out \subseteq Players
  BY StoredGone DEF ItemInv
<1>3. Last(ts) \in Keepers(Out) /\ Len(ts) \in Nat /\ \A i \in 1..Len(ts) : ts[i] \in Keepers(Out)
  <2>1. saved \in Rows
    BY <1>2 DEF ItemType
  <2> QED BY ONLY <1>1, <1>2, <2>1, saves \in Seq(Sparing(Out, Stored(Out))), TablesKept
<1>4. Keepers(Out) \subseteq Rows
  BY DEF Keepers
<1>5. CASE /\ where' = at /\ link' = links /\ saved' = Last(ts)
           /\ corpseRooms' = corpseRooms \cup (RoomsWithCorpses(at) \ RoomsWithCorpses(where))
           /\ prompts' = prompts \ {p \in Players : link[p] # "out" /\ links[p] = "out"}
           /\ UNCHANGED stops
  <2>1. RoomsWithCorpses(at) \subseteq Rooms
    BY DEF RoomsWithCorpses
  <2>2. ItemType'
    <3> HIDE DEF Links, Keepers, Rows
    <3> QED BY ONLY <1>2, <1>3, <1>4, <1>5, <2>1, at \in [Items -> Holders \cup {Gone}],
               links \in [Players -> Links] DEF ItemType
  <2>3. ASSUME NEW p \in Players, link'[p] = "out" PROVE \A o \in LoadedBy(saved', p) : where'[o] = Gone
    <3>1. CASE p \in Out
      <4>1. LoadedBy(Last(ts), p) = LoadedBy(saved, p)
        BY <1>3, <3>1 DEF Keepers, Kept
      <4>2. \A o \in LoadedBy(saved, p) : at[o] = Gone
        BY <3>1, StoredFacts
      <4> QED BY <1>5, <4>1, <4>2
    <3>2. CASE p \notin Out
      BY <1>1, <1>5, <2>3, <3>2
    <3> QED BY <3>1, <3>2
  <2>4. NothingTwice'
    BY <2>3 DEF NothingTwice, LoadedBy, Carried, Under, Held
  <2> QED BY <1>3, <1>5, <2>2, <2>4 DEF ItemInv
<1>6. ASSUME NEW i \in 2..(Len(ts) - 1), Boot(ts[i]) PROVE ItemInv' /\ saved' \in Keepers(Out)
  <2>1. i \in 1..Len(ts)
    BY <1>3
  <2>2. ts[i] \in Keepers(Out) /\ ts[i] \in Rows
    BY <1>3, <1>4, <2>1
  <2>3. stops \in Nat
    BY <1>2 DEF ItemType
  <2> QED BY <1>6, <2>2, <2>3, BootKeeps
<1> QED BY <1>1, <1>5, <1>6 DEF Command

-------------------------------------------------------------------------------
(* The commands.                                                           *)

LEMMA StayingKeeps ==
  ASSUME ItemInv, NEW at \in [Items -> Holders \cup {Gone}], NEW saves \in Seq(Sparing(Out, Stored(Out))),
         \A o \in Stored(Out) : at[o] = Gone, Command(at, link, saves)
  PROVE  ItemInv' /\ saved' \in Keepers(Out)
<1>1. link \in [Players -> Links]
  BY DEF ItemInv, ItemType
<1>2. \A p \in Players \ Out : link[p] # "out"
  BY DEF Out
<1> QED BY <1>1, <1>2, CommandKeeps

LEMMA MovedFacts ==
  ASSUME ItemInv, NEW o \in Items, where[o] # Gone, NEW h \in Holders
  PROVE  /\ Moved(o, h) \in [Items -> Holders \cup {Gone}]
         /\ o \notin Stored(Out) /\ \A x \in Stored(Out) : Moved(o, h)[x] = Gone
<1>1. where \in [Items -> Holders \cup {Gone}]
  BY DEF ItemInv, ItemType
<1>2. Stored(Out) \subseteq Items /\ \A x \in Stored(Out) : where[x] = Gone
  BY StoredFacts, StoredGone
<1> QED BY <1>1, <1>2 DEF Moved

LEMMA ExtractedFacts ==
  ASSUME ItemInv, NEW S
  PROVE  /\ Extracted(where, S) \in [Items -> Holders \cup {Gone}]
         /\ \A o \in Items : Extracted(where, S)[o] = IF o \in Under(where, S) THEN Gone ELSE where[o]
         /\ \A x \in Stored(Out) : Extracted(where, S)[x] = Gone
<1>1. where \in [Items -> Holders \cup {Gone}]
  BY DEF ItemInv, ItemType
<1>2. Stored(Out) \subseteq Items /\ \A x \in Stored(Out) : where[x] = Gone
  BY StoredFacts, StoredGone
<1> QED BY <1>1, <1>2 DEF Extracted

\* Whom a save may concern: the players in the game, rooms, the chest, and
\* what is in the game.
LEMMA Concerned ==
  ASSUME ItemInv
  PROVE  /\ \A p \in Players : link[p] # "out" => p \in Holders /\ p \notin Out /\ p \notin Stored(Out)
         /\ \A h \in Rooms \cup {Chest} : h \in Holders /\ h \notin Out /\ h \notin Stored(Out)
         /\ \A o \in Items : where[o] # Gone => o \in Holders /\ o \notin Out /\ o \notin Stored(Out)
<1>1. Stored(Out) \subseteq Items /\ \A x \in Stored(Out) : where[x] = Gone
  BY StoredFacts, StoredGone
<1>2. Out \subseteq Players /\ \A p \in Out : link[p] = "out"
  BY DEF Out
<1> QED BY <1>1, <1>2, Kinds

LEMMA UnsaveSparing ==
  ASSUME ItemInv, NEW o \in Items, where[o] # Gone PROVE Unsave(o) \in Sparing(Out, Stored(Out))
<1>1. PICK at, S : at = [where EXCEPT ![o] = Gone] /\ S = {o}
  OBVIOUS
<1> PICK d \in BOOLEAN : d = FALSE
  OBVIOUS
<1>2. where \in [Items -> Holders \cup {Gone}]
  BY DEF ItemInv, ItemType
<1>3. Stored(Out) \subseteq Items /\ \A x \in Stored(Out) : where[x] = Gone
  BY StoredFacts, StoredGone
<1>4. at \in [Items -> Holders \cup {Gone}] /\ \A x \in Stored(Out) : at[x] = Gone
  BY <1>1, <1>2, <1>3
<1>5. Nobody \in Holders \cup {Nobody} /\ Nobody \notin Out /\ Nobody \notin Stored(Out)
  BY <1>3, StoredGone, Kinds
<1>6. S \subseteq Items /\ S \cap Stored(Out) = {}
  BY <1>1, <1>3
<1>7. [at |-> at, what |-> [x \in {Nobody} |-> S], delete |-> d] \in Sparing(Out, Stored(Out))
  BY ONLY <1>4, <1>5, <1>6, d \in BOOLEAN, OneSparing
<1>8. Unsave(o) = [at |-> at, what |-> [x \in {Nobody} |-> S], delete |-> d]
  BY <1>1, Zenon DEF Unsave
<1> QED BY <1>7, <1>8

LEMMA ListsSparing ==
  /\ <<>> \in Seq(Sparing(Out, Stored(Out)))
  /\ \A a \in Sparing(Out, Stored(Out)) : <<a>> \in Seq(Sparing(Out, Stored(Out)))
  /\ \A a, b \in Sparing(Out, Stored(Out)) : <<a, b>> \in Seq(Sparing(Out, Stored(Out)))
OBVIOUS

LEMMA AtOnceSparing ==
  ASSUME NEW h, NEW saves, h \in Vaults \cup {Chest} => saves \in Seq(Sparing(Out, Stored(Out)))
  PROVE  AtOnce(h, saves) \in Seq(Sparing(Out, Stored(Out)))
BY ListsSparing DEF AtOnce

LEMMA ItemCommandKeeps ==
  ASSUME ItemInv, NEW p \in Players, ItemCommand(p) PROVE ItemInv' /\ saved' \in Keepers(Out)
<1> USE DEF ItemCommand
<1>1. /\ where \in [Items -> Holders \cup {Gone}] /\ \A x \in Stored(Out) : where[x] = Gone
      /\ link[p] = "in" /\ p \in Holders /\ p # Gone
  BY StoredGone, Kinds DEF ItemInv, ItemType
<1>2. Vaults \cup {Chest} \subseteq Rooms \cup {Chest}
  BY ItemAssumption
<1>3. CASE SaveCommand(p)
  <2>1. ItemSave(where, p) \in Sparing(Out, Stored(Out))
    BY <1>1, Concerned, HolderSparing
  <2>2. Command(where, link, <<ItemSave(where, p)>>)
    BY <1>3 DEF SaveCommand
  <2>3. <<ItemSave(where, p)>> \in Seq(Sparing(Out, Stored(Out)))
    BY <2>1, ListsSparing
  <2> QED BY ONLY ItemInv, <1>1, <2>2, <2>3, StayingKeeps
<1>4. ASSUME NEW o \in Items, GetFromRoom(p, o) PROVE ItemInv' /\ saved' \in Keepers(Out)
  <2>1. PICK at, r, saves : /\ at = Moved(o, p) /\ r = where[o]
                            /\ saves = <<Unsave(o), ItemSave(at, r)>>
    OBVIOUS
  <2>2. r \in Rooms /\ where[o] # Gone
    BY <1>4, <2>1, Kinds DEF GetFromRoom
  <2>3. at \in [Items -> Holders \cup {Gone}] /\ \A x \in Stored(Out) : at[x] = Gone
    BY <1>1, <2>1, <2>2, MovedFacts
  <2>4. Unsave(o) \in Sparing(Out, Stored(Out)) /\ ItemSave(at, r) \in Sparing(Out, Stored(Out))
    BY <2>2, <2>3, UnsaveSparing, Concerned, HolderSparing
  <2>5. AtOnce(r, saves) \in Seq(Sparing(Out, Stored(Out)))
    BY <2>1, <2>4, ListsSparing, AtOnceSparing
  <2>6. Command(at, link, AtOnce(r, saves))
    BY <1>4, <2>1 DEF GetFromRoom
  <2> QED BY ONLY ItemInv, <2>3, <2>5, <2>6, StayingKeeps
<1>5. ASSUME NEW o \in Items, GetFromContainer(p, o) PROVE ItemInv' /\ saved' \in Keepers(Out)
  <2>1. PICK at, c, saves : at = Moved(o, p) /\ c = where[o] /\ saves = <<ItemSave(at, c)>>
    OBVIOUS
  <2>2. where[o] # Gone
    BY <1>5, Kinds DEF GetFromContainer, InReach
  <2>3. at \in [Items -> Holders \cup {Gone}] /\ \A x \in Stored(Out) : at[x] = Gone
    BY <1>1, <2>1, <2>2, MovedFacts
  <2>4. c \in Vaults \cup {Chest} => ItemSave(at, c) \in Sparing(Out, Stored(Out))
    BY <1>2, <2>3, Concerned, HolderSparing
  <2>5. AtOnce(c, saves) \in Seq(Sparing(Out, Stored(Out)))
    BY <2>1, <2>4, ListsSparing, AtOnceSparing
  <2>6. Command(at, link, AtOnce(c, saves))
    BY <1>5, <2>1 DEF GetFromContainer
  <2> QED BY ONLY ItemInv, <2>3, <2>5, <2>6, StayingKeeps
<1>6. ASSUME NEW c \in Corpses, GetCoins(p, c) PROVE ItemInv' /\ saved' \in Keepers(Out)
  <2>1. c \in Items /\ where[c] # Gone
    BY <1>1, <1>6, Kinds DEF GetCoins, InReach
  <2>2. ItemSave(where, c) \in Sparing(Out, Stored(Out))
    BY <1>1, <2>1, Concerned, HolderSparing
  <2>3. <<ItemSave(where, c)>> \in Seq(Sparing(Out, Stored(Out)))
    BY <2>2, ListsSparing
  <2>4. Command(where, link, <<ItemSave(where, c)>>)
    BY <1>6 DEF GetCoins
  <2> QED BY ONLY ItemInv, <1>1, <2>3, <2>4, StayingKeeps
<1>7. ASSUME NEW o \in Items, NEW r \in Rooms, DropItem(p, o, r) PROVE ItemInv' /\ saved' \in Keepers(Out)
  <2>1. PICK at, saves : at = Moved(o, r) /\ saves = <<ItemSave(at, r)>>
    OBVIOUS
  <2>2. where[o] # Gone /\ r \in Holders
    BY <1>1, <1>7, Kinds DEF DropItem
  <2>3. at \in [Items -> Holders \cup {Gone}] /\ \A x \in Stored(Out) : at[x] = Gone
    BY <2>1, <2>2, MovedFacts
  <2>4. ItemSave(at, r) \in Sparing(Out, Stored(Out))
    BY <2>3, Concerned, HolderSparing
  <2>5. AtOnce(r, saves) \in Seq(Sparing(Out, Stored(Out)))
    BY <2>1, <2>4, ListsSparing, AtOnceSparing
  <2>6. Command(at, link, AtOnce(r, saves))
    BY <1>7, <2>1 DEF DropItem
  <2> QED BY ONLY ItemInv, <2>3, <2>5, <2>6, StayingKeeps
<1>8. ASSUME NEW o \in Items, NEW q \in Players, Give(p, o, q) PROVE ItemInv' /\ saved' \in Keepers(Out)
  <2>1. PICK at : at = Moved(o, q)
    OBVIOUS
  <2>2. where[o] # Gone /\ q \in Holders
    BY <1>1, <1>8, Kinds DEF Give
  <2>3. at \in [Items -> Holders \cup {Gone}] /\ \A x \in Stored(Out) : at[x] = Gone
    BY <2>1, <2>2, MovedFacts
  <2>4. Command(at, link, <<>>)
    BY <1>8, <2>1 DEF Give
  <2> QED BY ONLY ItemInv, <2>3, <2>4, ListsSparing, StayingKeeps
<1>9. ASSUME NEW o \in Items, NEW c \in Bags \cup {Chest}, Put(p, o, c) PROVE ItemInv' /\ saved' \in Keepers(Out)
  <2>1. PICK at, saves : at = Moved(o, c) /\ saves = <<ItemSave(at, c)>>
    OBVIOUS
  <2>2. where[o] # Gone /\ c \in Holders
    BY <1>1, <1>9, Kinds DEF Put, Items, Containers
  <2>3. at \in [Items -> Holders \cup {Gone}] /\ \A x \in Stored(Out) : at[x] = Gone
    BY <2>1, <2>2, MovedFacts
  <2>4. c \in Vaults \cup {Chest} => ItemSave(at, c) \in Sparing(Out, Stored(Out))
    BY <1>2, <2>3, Concerned, HolderSparing
  <2>5. AtOnce(c, saves) \in Seq(Sparing(Out, Stored(Out)))
    BY <2>1, <2>4, ListsSparing, AtOnceSparing
  <2>6. Command(at, link, AtOnce(c, saves))
    BY <1>9, <2>1 DEF Put
  <2> QED BY ONLY ItemInv, <2>3, <2>5, <2>6, StayingKeeps
<1> QED BY <1>3, <1>4, <1>5, <1>6, <1>7, <1>8, <1>9

-------------------------------------------------------------------------------
(* Coming, going and dying.                                                *)

LEMMA EnterKeeps ==
  ASSUME ItemInv, NEW p \in Players, Enter(p) PROVE ItemInv' /\ saved' = saved
<1>1. /\ link[p] = "out" /\ link' = [link EXCEPT ![p] = "in"] /\ saved' = saved
      /\ where' = [o \in Items |-> IF o \in LoadedBy(saved, p) THEN saved[o].holder ELSE where[o]]
      /\ prompts' = prompts \ {p} /\ corpseRooms' = corpseRooms /\ stops' = stops
  BY DEF Enter
<1>2. ItemType /\ NothingTwice
  BY DEF ItemInv
<1>3. \A o \in LoadedBy(saved, p) : saved[o].holder \in Holders
  BY LoadedFacts, Kinds
<1>4. where' \in [Items -> Holders \cup {Gone}]
  <2>1. \A o \in Items : (IF o \in LoadedBy(saved, p) THEN saved[o].holder ELSE where[o]) \in Holders \cup {Gone}
    BY <1>2, <1>3 DEF ItemType
  <2> QED BY <1>1, <2>1
<1>5. link' \in [Players -> Links] /\ \A q \in Players : link'[q] = "out" => q # p /\ link[q] = "out"
  BY <1>1, <1>2 DEF ItemType, Links
<1>6. ItemType'
  BY <1>1, <1>2, <1>4, <1>5 DEF ItemType
<1>7. ASSUME NEW q \in Players, link'[q] = "out" PROVE \A o \in LoadedBy(saved, q) : where'[o] = Gone
  <2>1. q # p /\ link[q] = "out" /\ q \notin Items /\ p \notin Items
    BY <1>5, <1>7, Kinds
  <2>2. LoadedBy(saved, p) \cap LoadedBy(saved, q) = {}
    <3>1. /\ LoadedBy(saved, p) = Under(Homes(saved), Held(Homes(saved), p))
          /\ LoadedBy(saved, q) = Under(Homes(saved), Held(Homes(saved), q))
      BY LoadedFacts
    <3> QED BY <2>1, <3>1, CarriedByOne
  <2>3. \A o \in LoadedBy(saved, q) : o \in Items /\ where[o] = Gone
    BY <1>2, <2>1, LoadedFacts DEF NothingTwice
  <2> QED BY <1>1, <2>2, <2>3
<1>8. NothingTwice'
  <2>1. \A q \in Players : link'[q] = "out" => \A o \in LoadedBy(saved', q) : where'[o] = Gone
    BY <1>1, <1>7
  <2> QED BY <2>1 DEF NothingTwice, LoadedBy, Carried, Under, Held
<1> QED BY <1>1, <1>6, <1>8 DEF ItemInv

LEMMA LinkKeeps ==
  ASSUME ItemInv, NEW p \in Players, AskPassword(p) \/ LoseLink(p) \/ Relink(p)
  PROVE  ItemInv' /\ saved' = saved
<1>1. ItemType /\ NothingTwice
  BY DEF ItemInv
<1>2. /\ where' = where /\ saved' = saved /\ corpseRooms' = corpseRooms /\ prompts' \subseteq Players
      /\ stops' = stops
      /\ link' \in [Players -> Links] /\ \A q \in Players : link'[q] = "out" => link[q] = "out"
  BY <1>1 DEF ItemType, AskPassword, LoseLink, Relink, Links
<1>3. ItemType'
  BY <1>1, <1>2 DEF ItemType
<1>4. NothingTwice'
  <2>1. \A q \in Players : link'[q] = "out" => \A o \in LoadedBy(saved', q) : where'[o] = Gone
    BY <1>1, <1>2 DEF NothingTwice
  <2> QED BY <2>1 DEF NothingTwice, LoadedBy, Carried, Under, Held
<1> QED BY <1>2, <1>3, <1>4 DEF ItemInv

LEMMA LeftFacts ==
  ASSUME ItemInv, NEW p \in Players
  PROVE  Left(p) \in [Players -> Links] /\ \A q \in Players \ Out : Left(p)[q] = "out" => q = p
BY DEF Left, Links, ItemInv, ItemType, Out

\* The save of p decides what p would load.
LEMMA LoadsSaved ==
  ASSUME NEW t \in Rows, NEW at \in [Items -> Holders \cup {Gone}], NEW p \in Players,
         NEW s, s = ItemSave(at, p)
  PROVE  LoadedBy(Inserted(t, s.at, s.what, s.delete), p) = Carried(at, p)
<1>1. PICK u, what : u = Inserted(t, s.at, s.what, s.delete) /\ what = [x \in {p} |-> Held(at, p)]
  OBVIOUS
<1> PICK d \in BOOLEAN : d = TRUE
  OBVIOUS
<1>2. ItemSave(at, p) = [at |-> at, what |-> what, delete |-> d]
  BY <1>1, Zenon DEF ItemSave, SaveOf
<1>3. s.at = at /\ s.what = what /\ s.delete = d
  BY <1>2
<1>4. p \in DOMAIN what /\ what[p] = Held(at, p) /\ \A h \in DOMAIN what : what[h] \subseteq Held(at, h)
  BY <1>1
<1>5. Held(at, p) \subseteq Items /\ p \in Holders
  BY Kinds DEF Held
<1>6. Proper(at, what)
  BY <1>1, <1>5, ProperOne
<1>7. t \in Rows /\ u = Inserted(t, at, what, d)
  BY ONLY <1>1, <1>3, t \in Rows
<1>8. d = TRUE
  OBVIOUS
<1>9. LoadedBy(Inserted(t, at, what, d), p) = Carried(at, p)
  BY ONLY <1>4, <1>6, <1>7, <1>8, p \in Players, SavedLoads
<1> QED BY ONLY <1>1, <1>7, <1>9

\* The last of some saves is that of p.
LEMMA LastSave ==
  ASSUME ItemInv, NEW at \in [Items -> Holders \cup {Gone}], NEW p \in Players,
         NEW saves \in Seq(Sparing(Out, Stored(Out))), saves # <<>>, saves[Len(saves)] = ItemSave(at, p)
  PROVE  LoadedBy(Last(Tables(saves)), p) = Carried(at, p)
<1>1. Out \subseteq Players /\ saved \in Rows
  BY StoredGone DEF ItemInv, ItemType
<1>2. PICK t \in Keepers(Out), s \in Sparing(Out, Stored(Out)) :
        s = saves[Len(saves)] /\ Last(Tables(saves)) = Inserted(t, s.at, s.what, s.delete)
  BY <1>1, TablesKept
<1>3. t \in Rows /\ s = ItemSave(at, p)
  BY <1>2 DEF Keepers
<1> QED BY ONLY <1>2, <1>3, p \in Players, at \in [Items -> Holders \cup {Gone}], LoadsSaved

LEMMA RentKeeps ==
  ASSUME ItemInv, NEW p \in Players, Rent(p) PROVE ItemInv' /\ saved' \in Keepers(Out)
<1>1. PICK at, saves, links : /\ at = Extracted(where, Held(where, p)) /\ saves = <<ItemSave(where, p)>>
                              /\ links = Left(p)
  OBVIOUS
<1>2. link[p] # "out" /\ Command(at, links, saves)
  BY <1>1 DEF Rent
<1>3. where \in [Items -> Holders \cup {Gone}] /\ \A x \in Stored(Out) : where[x] = Gone
  BY StoredGone DEF ItemInv, ItemType
<1>4. /\ at \in [Items -> Holders \cup {Gone}] /\ \A x \in Stored(Out) : at[x] = Gone
      /\ \A o \in Items : o \in Carried(where, p) => at[o] = Gone
  BY <1>1, ExtractedFacts DEF Carried
<1>5. ItemSave(where, p) \in Sparing(Out, Stored(Out))
  BY <1>2, <1>3, Concerned, HolderSparing
<1>6. saves \in Seq(Sparing(Out, Stored(Out))) /\ saves # <<>> /\ saves[Len(saves)] = ItemSave(where, p)
  BY <1>1, <1>5
<1>7. LoadedBy(Last(Tables(saves)), p) = Carried(where, p)
  BY ONLY ItemInv, p \in Players, <1>3, <1>6, LastSave
<1>8. \A q \in Players \ Out : links[q] = "out" => \A o \in LoadedBy(Last(Tables(saves)), q) : at[o] = Gone
  <2>1. LoadedBy(Last(Tables(saves)), p) \subseteq Items
    BY LoadedFacts
  <2> QED BY ONLY ItemInv, p \in Players, <1>1, <1>4, <1>7, <2>1, LeftFacts
<1>9. links \in [Players -> Links]
  BY <1>1, LeftFacts
<1> QED BY ONLY ItemInv, <1>2, <1>4, <1>6, <1>8, <1>9, CommandKeeps

LEMMA DieKeeps ==
  ASSUME ItemInv, NEW p \in Players, NEW c \in Corpses, NEW r \in Rooms, Die(p, c, r)
  PROVE  ItemInv' /\ saved' \in Keepers(Out)
<1>1. PICK at, first : /\ at = [o \in Items |-> IF o = c THEN r ELSE IF where[o] = p THEN c ELSE where[o]]
                       /\ first = IF r \in Vaults THEN ItemSave(at, r) ELSE CorpseSave(at, r)
  OBVIOUS
<1>2. link[p] # "out" /\ saved[c] = NoRow /\ Command(at, link, <<first, ItemSave(at, p)>>)
  BY <1>1, Zenon DEF Die
<1>3. /\ where \in [Items -> Holders \cup {Gone}] /\ \A x \in Stored(Out) : where[x] = Gone
      /\ c \in Holders /\ r \in Holders /\ p # Gone
  BY StoredGone, Kinds DEF ItemInv, ItemType
<1>4. c \notin Stored(Out)
  <2>1. saved[c].holder = Gone
    BY <1>2 DEF NoRow
  <2>2. \A q \in Players : Gone # q /\ Gone \notin LoadedBy(saved, q)
    BY LoadedFacts, Kinds
  <2>3. \A q \in Players : c \notin LoadedBy(saved, q)
    BY <2>1, <2>2, LoadedFacts
  <2> QED BY <2>3, StoredFacts, StoredGone
<1>5. at \in [Items -> Holders \cup {Gone}] /\ \A x \in Stored(Out) : at[x] = Gone
  <2>1. Stored(Out) \subseteq Items
    BY StoredFacts
  <2> QED BY <1>1, <1>3, <1>4, <2>1
<1>6. /\ ItemSave(at, p) \in Sparing(Out, Stored(Out))
      /\ ItemSave(at, r) \in Sparing(Out, Stored(Out)) /\ CorpseSave(at, r) \in Sparing(Out, Stored(Out))
  BY <1>2, <1>5, Concerned, HolderSparing
<1>7. <<first, ItemSave(at, p)>> \in Seq(Sparing(Out, Stored(Out)))
  BY <1>1, <1>6, ListsSparing
<1> QED BY ONLY ItemInv, <1>2, <1>5, <1>7, StayingKeeps

LEMMA RotKeeps ==
  ASSUME ItemInv, NEW c \in Corpses, Rot(c) PROVE ItemInv' /\ saved' \in Keepers(Out)
<1>1. PICK at, saves : /\ at = Extracted(where, {c})
                       /\ saves = IF where[c] \in Vaults THEN <<Unsave(c)>> ELSE <<>>
  OBVIOUS
<1>2. where[c] # Gone /\ Command(at, link, saves) /\ c \in Items
  BY <1>1, Kinds DEF Rot
<1>3. at \in [Items -> Holders \cup {Gone}] /\ \A x \in Stored(Out) : at[x] = Gone
  BY <1>1, ExtractedFacts
<1>4. saves \in Seq(Sparing(Out, Stored(Out)))
  BY <1>1, <1>2, UnsaveSparing, ListsSparing
<1> QED BY ONLY ItemInv, <1>2, <1>3, <1>4, StayingKeeps

LEMMA Listed ==
  ASSUME NEW S, IsFiniteSet(S)
  PROVE  /\ SetToSeq(S) \in Seq(S)
         /\ \A a, b \in 1..Len(SetToSeq(S)) : SetToSeq(S)[a] = SetToSeq(S)[b] => a = b
         /\ \A x \in S : \E a \in 1..Len(SetToSeq(S)) : SetToSeq(S)[a] = x
<1>1. PICK n \in Nat : ExistsBijection(1..n, S)
  BY FS_NatBijection
<1>2. Cardinality(S) = n
  BY <1>1, FS_CountingElements
<1>3. PICK f \in [1..n -> S] : \A a, b \in 1..n : f[a] = f[b] => a = b
  BY <1>1 DEF ExistsBijection, Bijection, Injection, IsInjective
<1>4. \E g \in [1..n -> S] : IsInjective(g)
  BY <1>3 DEF IsInjective
<1>5. PICK g : g = SetToSeq(S)
  OBVIOUS
<1>6. g \in [1..n -> S] /\ IsInjective(g)
  BY <1>2, <1>4, <1>5, Zenon DEF SetToSeq
<1>7. \A a, b \in 1..n : g[a] = g[b] => a = b
  BY <1>6 DEF IsInjective
<1>8. \A x \in S : \E a \in 1..n : g[a] = x
  <2>1. g \in Injection(1..n, S)
    BY <1>6 DEF Injection
  <2>2. IsFiniteSet(1..n) /\ Cardinality(1..n) = n
    BY FS_Interval
  <2>3. g \in Surjection(1..n, S)
    BY <1>2, <2>1, <2>2, FS_Injection
  <2> QED BY <2>3 DEF Surjection
<1>9. g \in Seq(S) /\ Len(g) = n
  BY <1>6
<1> QED BY ONLY <1>5, <1>7, <1>8, <1>9

LEMMA DropsSparing ==
  ASSUME NEW P, P \subseteq Players, NEW G, G \subseteq Items,
         NEW at \in [Items -> Holders \cup {Gone}], \A o \in G : at[o] = Gone,
         NEW p \in Players, NEW r \in Rooms
  PROVE  DropSaves(at, p, r) \in Seq(Sparing(P, G))
<1>1. PICK mine : mine = SetToSeq(Held(at, p))
  OBVIOUS
<1>2. Held(at, p) \subseteq Items /\ \A o \in Held(at, p) : at[o] = p
  BY DEF Held
<1>3. mine \in Seq(Held(at, p))
  BY <1>1, <1>2, Kinds, FS_Subset, Listed
<1>4. p # Gone /\ r \in Holders /\ r \notin P /\ r \notin G
  BY Kinds
<1> DEFINE after(n) == [o \in Items |-> IF o \in {mine[i] : i \in 1..n} THEN r ELSE at[o]]
<1>5. ASSUME NEW n \in 1..Len(mine) PROVE ItemSave(after(n), r) \in Sparing(P, G)
  <2>1. PICK S : S = {mine[i] : i \in 1..n}
    OBVIOUS
  <2>2. \A o \in S : at[o] = p
    <3>1. \A i \in 1..n : mine[i] \in Held(at, p)
      BY <1>3
    <3> QED BY <1>2, <2>1, <3>1
  <2>3. PICK a : a = after(n)
    OBVIOUS
  <2>4. a = [o \in Items |-> IF o \in S THEN r ELSE at[o]]
    BY <2>1, <2>3
  <2>5. a \in [Items -> Holders \cup {Gone}] /\ \A o \in G : a[o] = Gone
    BY <1>4, <2>2, <2>4
  <2> QED BY ONLY <1>4, <2>3, <2>5, HolderSparing
<1> HIDE DEF after
<1>6. PICK saves : saves = [n \in 1..Len(mine) |-> ItemSave(after(n), r)]
  OBVIOUS
<1>7. saves \in Seq(Sparing(P, G))
  BY <1>3, <1>5, <1>6
<1>8. DropSaves(at, p, r) = AtOnce(r, saves)
  BY <1>1, <1>6, Zenon DEF DropSaves, after
<1>9. <<>> \in Seq(Sparing(P, G))
  OBVIOUS
<1> QED BY <1>7, <1>8, <1>9 DEF AtOnce

LEMMA QuitKeeps ==
  ASSUME ItemInv, NEW p \in Players, NEW r \in Rooms, QuitWithout(p, r)
  PROVE  ItemInv' /\ saved' \in Keepers(Out)
<1>1. PICK at, drops, saves, links : /\ at = Dropped(where, p, r) /\ drops = DropSaves(where, p, r)
                                     /\ saves = Append(drops, ItemSave(at, p)) /\ links = Left(p)
  OBVIOUS
<1>2. link[p] = "in" /\ Command(at, links, saves)
  BY <1>1 DEF QuitWithout
<1>3. /\ where \in [Items -> Holders \cup {Gone}] /\ \A x \in Stored(Out) : where[x] = Gone
      /\ Out \subseteq Players /\ Stored(Out) \subseteq Items
  BY StoredGone, StoredFacts DEF ItemInv, ItemType
<1>4. /\ at \in [Items -> Holders \cup {Gone}] /\ \A x \in Stored(Out) : at[x] = Gone
      /\ Held(at, p) = {}
  <2>1. r \in Holders /\ r # p /\ p # Gone
    BY Kinds
  <2>2. \A o \in Items : at[o] = IF where[o] = p THEN r ELSE where[o]
    BY <1>1 DEF Dropped
  <2>3. at \in [Items -> Holders \cup {Gone}]
    BY <1>1, <1>3, <2>1 DEF Dropped
  <2> QED BY <1>3, <2>1, <2>2, <2>3 DEF Held
<1>5. drops \in Seq(Sparing(Out, Stored(Out)))
  BY <1>1, <1>3, DropsSparing
<1>6. ItemSave(at, p) \in Sparing(Out, Stored(Out))
  BY <1>2, <1>4, Concerned, HolderSparing
<1>7. saves \in Seq(Sparing(Out, Stored(Out))) /\ saves # <<>> /\ saves[Len(saves)] = ItemSave(at, p)
  BY <1>1, <1>5, <1>6
<1>8. LoadedBy(Last(Tables(saves)), p) = Carried(at, p)
  BY ONLY ItemInv, p \in Players, <1>4, <1>7, LastSave
<1>9. Carried(at, p) = {}
  <2>1. PICK none : none = Held(at, p)
    OBVIOUS
  <2>2. none \subseteq Items /\ none \subseteq {} /\ \A o \in Items : at[o] \in {} => o \in {}
    BY <1>4, <2>1
  <2>3. Under(at, none) \subseteq {}
    BY ONLY <2>2, UnderLeast
  <2> QED BY <2>1, <2>3 DEF Carried
<1>10. \A q \in Players \ Out : links[q] = "out" => \A o \in LoadedBy(Last(Tables(saves)), q) : at[o] = Gone
  BY ONLY ItemInv, p \in Players, <1>1, <1>8, <1>9, LeftFacts
<1>11. links \in [Players -> Links]
  BY <1>1, LeftFacts
<1> QED BY ONLY ItemInv, <1>2, <1>4, <1>7, <1>10, <1>11, CommandKeeps

-------------------------------------------------------------------------------
(* The game.                                                               *)

\* What an autosave writes: the players in the game and the rooms with corpses.
LEMMA AutoSavedFacts ==
  ASSUME ItemInv
  PROVE  /\ AutoSaved \in Sparing(Out, Stored(Out)) /\ AutoSaved.at = where /\ AutoSaved.delete = TRUE
         /\ Proper(where, AutoSaved.what)
         /\ \A h \in DOMAIN AutoSaved.what : AutoSaved.what[h] \subseteq Held(where, h)
         /\ \A p \in Players : link[p] # "out" =>
              p \in DOMAIN AutoSaved.what /\ AutoSaved.what[p] = Held(where, p)
<1>1. PICK ps, what : /\ ps = {p \in Players : link[p] # "out"}
                      /\ what = [h \in ps \cup corpseRooms |->
                                   IF h \in ps THEN Held(where, h) ELSE Held(where, h) \cap Corpses]
  OBVIOUS
<1> PICK d \in BOOLEAN : d = TRUE
  OBVIOUS
<1>2. AutoSaved = [at |-> where, what |-> what, delete |-> d]
  BY <1>1, Zenon DEF AutoSaved, SavePlayersAndCorpses, SaveOf
<1>3. /\ where \in [Items -> Holders \cup {Gone}] /\ corpseRooms \subseteq Rooms
      /\ \A x \in Stored(Out) : where[x] = Gone
  BY StoredGone DEF ItemInv, ItemType
<1>4. /\ DOMAIN what = ps \cup corpseRooms /\ what = [h \in DOMAIN what |-> what[h]]
      /\ \A h \in DOMAIN what : what[h] \subseteq Held(where, h) /\ what[h] \subseteq Items
      /\ \A p \in ps : what[p] = Held(where, p)
  BY <1>1 DEF Held
<1>5. ps \cup corpseRooms \subseteq Holders /\ (ps \cup corpseRooms) \cap (Out \cup Stored(Out)) = {}
  BY <1>1, <1>3, Concerned
<1>6. \A h \in DOMAIN what : h \notin Items /\ h # Gone
  BY <1>1, <1>3, <1>4, Kinds
<1>7. \A h, k \in DOMAIN what : h # k => Under(where, what[h]) \cap Under(where, what[k]) = {}
  BY ONLY <1>4, <1>6, CarriedByOne
<1>8. Proper(where, what)
  BY <1>3, <1>4, <1>5, <1>7 DEF Proper
<1>9. \A h \in DOMAIN what : what[h] \cap Stored(Out) = {}
  <2>1. \A h \in DOMAIN what : \A o \in Held(where, h) : where[o] = h
    BY DEF Held
  <2> QED BY ONLY <1>3, <1>4, <1>6, <2>1
<1>10. [at |-> where, what |-> what, delete |-> d] \in Sparing(Out, Stored(Out))
  <2>1. DOMAIN what \cap (Out \cup Stored(Out)) = {} /\ d \in BOOLEAN
    BY ONLY <1>4, <1>5, d \in BOOLEAN
  <2>2. Saved(where, what) \cap Stored(Out) = {}
    BY ONLY <1>3, <1>8, <1>9, SavesNoneIf
  <2> QED BY ONLY <1>4, <1>8, <2>1, <2>2, SaveSparing
<1>11. AutoSaved.at = where /\ AutoSaved.what = what /\ AutoSaved.delete = d
  BY <1>2
<1>12. d = TRUE /\ \A p \in Players : link[p] # "out" => p \in ps /\ p \in DOMAIN what
  BY <1>1, <1>4
<1> QED BY ONLY <1>2, <1>4, <1>8, <1>10, <1>11, <1>12

LEMMA AutoSaveKeeps ==
  ASSUME ItemInv, AutoSave PROVE ItemInv' /\ saved' \in Keepers(Out)
<1>1. PICK ts, saves : ts = Tables(saves) /\ saves = <<AutoSaved>>
  OBVIOUS
<1>2. saves \in Seq(Sparing(Out, Stored(Out))) /\ ItemType /\ NothingTwice /\ Out \subseteq Players /\ saved \in Rows
  BY <1>1, AutoSavedFacts, ListsSparing, StoredGone DEF ItemInv, ItemType
<1>3. Last(ts) \in Keepers(Out) /\ Len(ts) \in Nat /\ \A i \in 1..Len(ts) : ts[i] \in Keepers(Out)
  BY ONLY <1>1, <1>2, TablesKept
<1>4. Keepers(Out) \subseteq Rows
  BY DEF Keepers
<1>5. CASE /\ saved' = Last(ts) /\ corpseRooms' = corpseRooms \cap RoomsWithCorpses(where)
           /\ UNCHANGED <<where, link, prompts, stops>>
  <2>1. ItemType'
    <3> HIDE DEF Keepers, Rows
    <3> QED BY ONLY <1>2, <1>3, <1>4, <1>5 DEF ItemType
  <2>2. ASSUME NEW p \in Players, link'[p] = "out" PROVE \A o \in LoadedBy(saved', p) : where'[o] = Gone
    <3>1. p \in Out
      BY <1>5, <2>2 DEF Out
    <3>2. LoadedBy(Last(ts), p) = LoadedBy(saved, p)
      BY <1>3, <3>1 DEF Keepers, Kept
    <3>3. \A o \in LoadedBy(saved, p) : where[o] = Gone
      BY <1>2, <3>1 DEF NothingTwice, Out
    <3> QED BY <1>5, <3>2, <3>3
  <2>3. NothingTwice'
    BY <2>2 DEF NothingTwice, LoadedBy, Carried, Under, Held
  <2> QED BY <1>3, <1>5, <2>1, <2>3 DEF ItemInv
<1>6. ASSUME NEW i \in 2..(Len(ts) - 1), Boot(ts[i]) PROVE ItemInv' /\ saved' \in Keepers(Out)
  <2>1. i \in 1..Len(ts)
    BY <1>3
  <2>2. ts[i] \in Keepers(Out) /\ ts[i] \in Rows
    BY <1>3, <1>4, <2>1
  <2> QED BY <1>2, <1>6, <2>2, BootKeeps DEF ItemType
<1> QED BY <1>1, <1>5, <1>6 DEF AutoSave

\* The lists of ShutDown: the bodies with a descriptor, one after the other, with
\* what is left to them; the copies; and the linkless.
Bodies == SetToSeq({p \in Players : link[p] = "in"})
Lost == SetToSeq({p \in Players : link[p] = "linkless"})
Rented(n) == Extracted(where, UNION {Held(where, Bodies[i]) : i \in 1..n})
RentSaves == [n \in 1..Len(Bodies) |-> ItemSave(Rented(n - 1), Bodies[n])]
Copies(S) == LET ps == SetToSeq(S) IN
               [n \in 1..Len(ps) |-> SaveOf(where, [x \in {ps[n]} |-> {}])]
LeftTo(r, n) == LET at == Rented(Len(Bodies)) IN
                  [o \in Items |-> IF at[o] \in {Lost[i] : i \in 1..n} THEN r ELSE at[o]]
LostSaves(r) == [n \in 1..Len(Lost) |-> DropSaves(LeftTo(r, n - 1), Lost[n], r)]

LEMMA ShutDownIs ==
  ASSUME ShutDown
  PROVE  \E r \in Rooms : \E early \in SUBSET prompts :
           Boot(Last(Tables(Copies(early) \o RentSaves \o Copies(prompts \ early)
                            \o Joined(LostSaves(r)))))
BY Zenon DEF ShutDown, Bodies, Lost, Rented, RentSaves, Copies, LeftTo, LostSaves

LEMMA BodiesFacts ==
  ASSUME ItemInv
  PROVE  /\ Bodies \in Seq({p \in Players : link[p] = "in"})
         /\ \A i, k \in 1..Len(Bodies) : Bodies[i] = Bodies[k] => i = k
         /\ \A p \in Players : link[p] = "in" => \E i \in 1..Len(Bodies) : Bodies[i] = p
         /\ Lost \in Seq({p \in Players : link[p] = "linkless"})
         /\ \A S \in SUBSET prompts : SetToSeq(S) \in Seq(S)
<1>1. prompts \subseteq Players /\ IsFiniteSet(Players)
  BY Kinds DEF ItemInv, ItemType
<1>2. PICK I, L : I = {p \in Players : link[p] = "in"} /\ L = {p \in Players : link[p] = "linkless"}
  OBVIOUS
<1>3. IsFiniteSet(I) /\ IsFiniteSet(L) /\ \A S \in SUBSET prompts : IsFiniteSet(S)
  BY <1>1, <1>2, FS_Subset
<1>4. Bodies = SetToSeq(I) /\ Lost = SetToSeq(L)
  BY <1>2 DEF Bodies, Lost
<1>5. /\ Bodies \in Seq(I)
      /\ \A i, k \in 1..Len(Bodies) : Bodies[i] = Bodies[k] => i = k
      /\ \A p \in I : \E i \in 1..Len(Bodies) : Bodies[i] = p
  BY ONLY <1>3, <1>4, Listed
<1>6. Lost \in Seq(L) /\ \A S \in SUBSET prompts : SetToSeq(S) \in Seq(S)
  BY ONLY <1>3, <1>4, Listed
<1>7. \A p \in Players : link[p] = "in" => p \in I
  BY <1>2
<1> QED BY ONLY <1>2, <1>5, <1>6, <1>7

LEMMA LeftToFacts ==
  ASSUME ItemInv, NEW r \in Rooms, NEW n
  PROVE  /\ Rented(n) \in [Items -> Holders \cup {Gone}] /\ LeftTo(r, n) \in [Items -> Holders \cup {Gone}]
         /\ \A o \in Items : where[o] = Gone => Rented(n)[o] = Gone
         /\ n \in 0..Len(Lost) => \A o \in Items : Rented(Len(Bodies))[o] = Gone => LeftTo(r, n)[o] = Gone
<1>1. PICK a, at, b : a = Rented(n) /\ at = Rented(Len(Bodies)) /\ b = LeftTo(r, n)
  OBVIOUS
<1>2. \A m : /\ Rented(m) \in [Items -> Holders \cup {Gone}]
             /\ \A o \in Items : where[o] = Gone => Rented(m)[o] = Gone
  BY ExtractedFacts DEF Rented
<1>3. r \in Holders /\ \A p \in Players : p # Gone
  BY Kinds
<1>4. PICK S : S = {Lost[i] : i \in 1..n}
  OBVIOUS
<1>5. b = [o \in Items |-> IF at[o] \in S THEN r ELSE at[o]]
  BY <1>1, <1>4 DEF LeftTo
<1>6. b \in [Items -> Holders \cup {Gone}]
  BY <1>1, <1>2, <1>3, <1>5
<1>7. ASSUME n \in 0..Len(Lost) PROVE \A o \in Items : at[o] = Gone => b[o] = Gone
  <2>1. \A i \in 1..Len(Lost) : Lost[i] \in Players
    BY BodiesFacts
  <2>2. \A i \in 1..n : i \in 1..Len(Lost)
    <3>1. Len(Lost) \in Nat
      BY BodiesFacts
    <3> QED BY ONLY <1>7, <3>1
  <2>3. Gone \notin S
    BY ONLY <1>3, <1>4, <2>1, <2>2
  <2> QED BY <1>5, <2>3
<1> QED BY <1>1, <1>2, <1>6, <1>7

LEMMA EntriesListed ==
  ASSUME NEW S, NEW n \in Nat, NEW f, f = [k \in 1..n |-> f[k]], \A k \in 1..n : f[k] \in S
  PROVE  f \in Seq(S) /\ Len(f) = n
<1>1. f \in [1..n -> S]
  OBVIOUS
<1> QED BY ONLY <1>1, n \in Nat

\* The saves at the end of a game: whom and what each of them spares.
LEMMA CopiesSparing ==
  ASSUME ItemInv, NEW P, P \subseteq Players \ prompts, NEW G, G \subseteq Items, NEW S \in SUBSET prompts
  PROVE  Copies(S) \in Seq(Sparing(P, G))
<1>1. where \in [Items -> Holders \cup {Gone}] /\ prompts \subseteq Players
  BY DEF ItemInv, ItemType
<1>2. PICK ps : ps = SetToSeq(S)
  OBVIOUS
<1>3. ps \in Seq(S)
  BY <1>2, BodiesFacts
<1>4. ASSUME NEW n \in 1..Len(ps) PROVE SaveOf(where, [x \in {ps[n]} |-> {}]) \in Sparing(P, G)
  <2>1. PICK p, none, what : p = ps[n] /\ none = {} /\ what = [x \in {p} |-> none]
    OBVIOUS
  <2> PICK d \in BOOLEAN : d = TRUE
    OBVIOUS
  <2>2. p \in Holders \cup {Nobody} /\ p \notin P /\ p \notin G
    <3>1. p \in S
      BY <1>3, <2>1
    <3>2. p \in Players /\ p \notin P
      BY <1>1, <3>1
    <3> QED BY <3>2, Kinds
  <2>3. none \subseteq Items
    BY <2>1
  <2>4. Proper(where, what)
    BY ONLY <1>1, <2>1, <2>2, <2>3, ProperOne
  <2>5. Saved(where, what) \cap G = {}
    <3>1. UNION {what[h] : h \in DOMAIN what} \subseteq {}
      BY <2>1
    <3>2. Under(where, UNION {what[h] : h \in DOMAIN what}) \subseteq {}
      BY ONLY <3>1, UnderLeast
    <3> QED BY <3>2 DEF Saved
  <2>6. what = [h \in DOMAIN what |-> what[h]] /\ DOMAIN what \cap (P \cup G) = {}
    BY <2>1, <2>2
  <2>7. [at |-> where, what |-> what, delete |-> d] \in Sparing(P, G)
    BY ONLY <2>4, <2>5, <2>6, d \in BOOLEAN, SaveSparing
  <2>8. SaveOf(where, [x \in {ps[n]} |-> {}]) = [at |-> where, what |-> what, delete |-> d]
    BY <2>1, Zenon DEF SaveOf
  <2> QED BY <2>7, <2>8
<1> DEFINE e(n) == SaveOf(where, [x \in {ps[n]} |-> {}])
<1>5. \A n \in 1..Len(ps) : e(n) \in Sparing(P, G)
  BY <1>4
<1>6. Copies(S) = [n \in 1..Len(ps) |-> e(n)]
  BY <1>2, Zenon DEF Copies
<1> HIDE DEF e
<1>7. Len(ps) \in Nat
  BY <1>3
<1>8. \A n \in 1..Len(ps) : Copies(S)[n] = e(n)
  BY ONLY <1>6
<1>9. Copies(S) = [n \in 1..Len(ps) |-> Copies(S)[n]] /\ \A n \in 1..Len(ps) : Copies(S)[n] \in Sparing(P, G)
  BY ONLY <1>5, <1>6, <1>8
<1> QED BY ONLY <1>7, <1>9, EntriesListed

LEMMA RentListed ==
  ASSUME ItemInv, NEW S, \A n \in 1..Len(Bodies) : ItemSave(Rented(n - 1), Bodies[n]) \in S
  PROVE  RentSaves \in Seq(S) /\ Len(RentSaves) = Len(Bodies)
<1> DEFINE e(n) == ItemSave(Rented(n - 1), Bodies[n])
<1>1. RentSaves = [n \in 1..Len(Bodies) |-> e(n)] /\ \A n \in 1..Len(Bodies) : e(n) \in S
  BY Zenon DEF RentSaves
<1> HIDE DEF e
<1>2. RentSaves = [n \in 1..Len(Bodies) |-> RentSaves[n]] /\ \A n \in 1..Len(Bodies) : RentSaves[n] \in S
  BY ONLY <1>1
<1>3. Len(Bodies) \in Nat
  BY BodiesFacts
<1> QED BY ONLY <1>2, <1>3, EntriesListed

LEMMA RentSparing ==
  ASSUME ItemInv, NEW P, P \subseteq Players, NEW G, G \subseteq Items, NEW n \in 1..Len(Bodies),
         Bodies[n] \notin P, \A o \in G : Rented(n - 1)[o] = Gone
  PROVE  ItemSave(Rented(n - 1), Bodies[n]) \in Sparing(P, G)
<1>1. PICK p, at : p = Bodies[n] /\ at = Rented(n - 1)
  OBVIOUS
<1>2. p \in Players
  BY <1>1, BodiesFacts
<1>3. p \in Holders /\ p \notin P /\ p \notin G
  BY <1>1, <1>2, Kinds
<1>4. at \in [Items -> Holders \cup {Gone}] /\ \A o \in G : at[o] = Gone
  BY <1>1, ExtractedFacts DEF Rented
<1> QED BY ONLY <1>1, <1>3, <1>4, HolderSparing

LEMMA LostSparing ==
  ASSUME ItemInv, NEW P, P \subseteq Players, NEW G, G \subseteq Items, NEW r \in Rooms,
         \A o \in G : Rented(Len(Bodies))[o] = Gone
  PROVE  Joined(LostSaves(r)) \in Seq(Sparing(P, G))
<1>1. ASSUME NEW n \in 1..Len(Lost) PROVE DropSaves(LeftTo(r, n - 1), Lost[n], r) \in Seq(Sparing(P, G))
  <2>1. PICK p, at, m : p = Lost[n] /\ at = LeftTo(r, n - 1) /\ m = n - 1
    OBVIOUS
  <2>2. p \in Players /\ m \in 0..Len(Lost)
    BY <2>1, BodiesFacts
  <2>3. at \in [Items -> Holders \cup {Gone}] /\ \A o \in G : at[o] = Gone
    BY <2>1, <2>2, LeftToFacts
  <2> QED BY ONLY <2>1, <2>2, <2>3, P \subseteq Players, G \subseteq Items, r \in Rooms, DropsSparing
<1> DEFINE e(n) == DropSaves(LeftTo(r, n - 1), Lost[n], r)
<1>2. LostSaves(r) = [n \in 1..Len(Lost) |-> e(n)] /\ \A n \in 1..Len(Lost) : e(n) \in Seq(Sparing(P, G))
  BY <1>1, Zenon DEF LostSaves
<1> HIDE DEF e
<1>3. /\ LostSaves(r) = [n \in 1..Len(Lost) |-> LostSaves(r)[n]]
      /\ \A n \in 1..Len(Lost) : LostSaves(r)[n] \in Seq(Sparing(P, G))
  BY ONLY <1>2
<1>4. Len(Lost) \in Nat
  BY BodiesFacts
<1>5. LostSaves(r) \in Seq(Seq(Sparing(P, G)))
  BY ONLY <1>3, <1>4, EntriesListed
<1> QED BY ONLY <1>5, JoinedFacts

\* The saves of the end of a game concern no player who is out and of whom no
\* copy is there.
LEMMA LastSavesSparing ==
  ASSUME ItemInv, NEW P, P = Out \ prompts, NEW r \in Rooms, NEW early \in SUBSET prompts
  PROVE  /\ Copies(early) \in Seq(Sparing(P, Stored(P))) /\ RentSaves \in Seq(Sparing(P, Stored(P)))
         /\ Copies(prompts \ early) \in Seq(Sparing(P, Stored(P)))
         /\ Joined(LostSaves(r)) \in Seq(Sparing(P, Stored(P)))
<1>1. /\ P \subseteq Players /\ P \subseteq Players \ prompts
      /\ Stored(P) \subseteq Items /\ \A o \in Stored(P) : where[o] = Gone
  <2>1. \A o \in Stored(P) : o \in Stored(Out)
    BY DEF Stored
  <2> QED BY <2>1, StoredGone, StoredFacts
<1>2. \A n : \A o \in Stored(P) : Rented(n)[o] = Gone
  BY <1>1, LeftToFacts
<1>3. ASSUME NEW n \in 1..Len(Bodies) PROVE ItemSave(Rented(n - 1), Bodies[n]) \in Sparing(P, Stored(P))
  <2>1. Bodies[n] \notin P
    BY BodiesFacts DEF Out
  <2> QED BY ONLY ItemInv, n \in 1..Len(Bodies), <1>1, <1>2, <2>1, RentSparing
<1>4. RentSaves \in Seq(Sparing(P, Stored(P)))
  BY ONLY ItemInv, <1>3, RentListed
<1>5. Joined(LostSaves(r)) \in Seq(Sparing(P, Stored(P)))
  BY ONLY ItemInv, r \in Rooms, <1>1, <1>2, LostSparing
<1>6. early \in SUBSET prompts /\ (prompts \ early) \in SUBSET prompts
  OBVIOUS
<1>7. \A S \in SUBSET prompts : Copies(S) \in Seq(Sparing(P, Stored(P)))
  BY ONLY ItemInv, <1>1, CopiesSparing
<1> QED BY ONLY <1>4, <1>5, <1>6, <1>7

LEMMA ShutDownKeeps ==
  ASSUME ItemInv, ShutDown PROVE ItemInv' /\ saved' \in Keepers(Out \ prompts)
<1>1. PICK r \in Rooms : \E early \in SUBSET prompts :
           Boot(Last(Tables(Copies(early) \o RentSaves \o Copies(prompts \ early)
                            \o Joined(LostSaves(r)))))
  BY ShutDownIs
<1>2. PICK early \in SUBSET prompts :
           Boot(Last(Tables(Copies(early) \o RentSaves \o Copies(prompts \ early)
                            \o Joined(LostSaves(r)))))
  BY <1>1
<1>3. PICK P, saves : /\ saves = Copies(early) \o RentSaves \o Copies(prompts \ early) \o Joined(LostSaves(r))
                      /\ P = Out \ prompts
  OBVIOUS
<1>4. saves \in Seq(Sparing(P, Stored(P)))
  BY <1>3, LastSavesSparing
<1>5. P \subseteq Players /\ saved \in Rows
  BY <1>3 DEF ItemInv, ItemType, Out
<1>6. Last(Tables(saves)) \in Keepers(P)
  BY ONLY <1>4, <1>5, TablesKept
<1>7. Last(Tables(saves)) \in Rows
  BY <1>6 DEF Keepers
<1>8. Boot(Last(Tables(saves)))
  BY <1>2, <1>3
<1>9. stops \in Nat
  BY DEF ItemInv, ItemType
<1> QED BY <1>3, <1>6, <1>7, <1>8, <1>9, BootKeeps

-------------------------------------------------------------------------------
(* What those in the game find at their next login.                        *)

LEMMA AutoSaveFull ==
  ASSUME ItemInv, AutoSave, stops' = stops, NEW p \in Players, link[p] # "out"
  PROVE  LoadedBy(saved', p) = Carried(where, p)
<1>1. PICK ts, saves : ts = Tables(saves) /\ saves = <<AutoSaved>>
  OBVIOUS
<1>2. saves \in Seq(Sparing(Out, Stored(Out))) /\ Out \subseteq Players /\ saved \in Rows /\ stops \in Nat
  BY <1>1, AutoSavedFacts, ListsSparing, StoredGone DEF ItemInv, ItemType
<1>3. /\ Len(ts) \in Nat /\ \A i \in 1..Len(ts) : ts[i] \in Keepers(Out)
      /\ saves # <<>> => \E t \in Keepers(Out) : \E s \in Sparing(Out, Stored(Out)) :
           s = saves[Len(saves)] /\ Last(ts) = Inserted(t, s.at, s.what, s.delete)
  BY ONLY <1>1, <1>2, TablesKept
<1>4. saved' = Last(ts)
  <2>1. ASSUME NEW i \in 2..(Len(ts) - 1), Boot(ts[i]) PROVE FALSE
    <3>1. i \in 1..Len(ts)
      BY <1>3
    <3>2. ts[i] \in Rows
      BY <1>3, <3>1 DEF Keepers
    <3> QED BY <1>2, <2>1, <3>2, BootKeeps
  <2> QED BY <1>1, <2>1 DEF AutoSave
<1>5. saves # <<>> /\ saves[Len(saves)] = AutoSaved
  BY <1>1
<1>6. PICK t \in Keepers(Out) : Last(ts) = Inserted(t, AutoSaved.at, AutoSaved.what, AutoSaved.delete)
  BY ONLY <1>3, <1>5
<1>7. PICK what, delete : what = AutoSaved.what /\ delete = AutoSaved.delete
  OBVIOUS
<1>8. /\ delete = TRUE /\ Proper(where, what) /\ p \in DOMAIN what /\ what[p] = Held(where, p)
      /\ \A h \in DOMAIN what : what[h] \subseteq Held(where, h)
  BY <1>7, AutoSavedFacts
<1>9. t \in Rows /\ Last(ts) = Inserted(t, where, what, delete)
  BY <1>6, <1>7, AutoSavedFacts DEF Keepers
<1>10. LoadedBy(Inserted(t, where, what, delete), p) = Carried(where, p)
  BY ONLY <1>8, <1>9, p \in Players, SavedLoads
<1> QED BY ONLY <1>4, <1>9, <1>10

\* What one of the saves brings about and the later ones leave alone is so at
\* the end.
LEMMA TablesReach ==
  ASSUME NEW S, NEW saves \in Seq(S), NEW K, saved \in K,
         \A s \in S : \A t \in K :
           /\ Cleaned(t, s.what, s.delete) \in K /\ Limboed(t, s.at, s.what, s.delete) \in K
           /\ Removed(t, s.at, s.what, s.delete) \in K /\ Inserted(t, s.at, s.what, s.delete) \in K,
         NEW j \in 1..Len(saves), NEW R, R \subseteq K,
         \A t \in K : Inserted(t, saves[j].at, saves[j].what, saves[j].delete) \in R,
         \A k \in (j+1)..Len(saves) : \A t \in R :
           Inserted(t, saves[k].at, saves[k].what, saves[k].delete) \in R
  PROVE  Last(Tables(saves)) \in R
<1>1. PICK n \in Nat : \E last :
        /\ n = Len(saves) /\ last[0] = saved /\ \A k \in 0..n : last[k] \in K
        /\ \A k \in 1..n : last[k] = Inserted(last[k-1], saves[k].at, saves[k].what, saves[k].delete)
        /\ Last(Tables(saves)) = last[n]
        /\ Tables(saves) \in Seq(K) /\ Tables(saves) # <<>>
  BY TablesFacts
<1>2. PICK last :
        /\ n = Len(saves) /\ last[0] = saved /\ \A k \in 0..n : last[k] \in K
        /\ \A k \in 1..n : last[k] = Inserted(last[k-1], saves[k].at, saves[k].what, saves[k].delete)
        /\ Last(Tables(saves)) = last[n]
        /\ Tables(saves) \in Seq(K) /\ Tables(saves) # <<>>
  BY ONLY <1>1
<1>3. /\ j \in 1..n /\ \A t \in K : Inserted(t, saves[j].at, saves[j].what, saves[j].delete) \in R
      /\ \A k \in (j+1)..n : \A t \in R :
           Inserted(t, saves[k].at, saves[k].what, saves[k].delete) \in R
  BY <1>2
<1>4. PICK T : T = {k \in 0..n : k < j \/ last[k] \in R}
  OBVIOUS
<1>5. 0 \in T
  BY ONLY <1>3, <1>4, n \in Nat
<1>6. ASSUME NEW k \in T, k \in 0..(n-1) PROVE k + 1 \in T
  <2>1. k + 1 \in 1..n /\ k + 1 \in 0..n /\ (k + 1) - 1 = k /\ k \in 0..n /\ (k < j \/ last[k] \in R)
    BY ONLY <1>4, <1>6, n \in Nat
  <2>2. last[k+1] = Inserted(last[k], saves[k+1].at, saves[k+1].what, saves[k+1].delete)
    BY ONLY <1>2, <2>1
  <2>3. last[k] \in K
    BY ONLY <1>2, <2>1
  <2>4. CASE k + 1 < j
    BY ONLY <1>4, <2>1, <2>4
  <2>5. CASE k + 1 = j
    BY ONLY <1>3, <1>4, <2>1, <2>2, <2>3, <2>5
  <2>6. CASE k + 1 > j
    <3>1. k + 1 \in (j+1)..n /\ last[k] \in R
      BY ONLY <1>3, <2>1, <2>6, n \in Nat
    <3> QED BY ONLY <1>3, <1>4, <2>1, <2>2, <3>1
  <2>7. k + 1 < j \/ k + 1 = j \/ k + 1 > j
    BY ONLY <1>3, <2>1, n \in Nat
  <2> QED BY ONLY <2>4, <2>5, <2>6, <2>7
<1>7. 0..n \subseteq T
  BY ONLY <1>5, <1>6, n \in Nat, Induct
<1>8. n \in T /\ ~(n < j)
  BY ONLY <1>3, <1>7, n \in Nat
<1> QED BY ONLY <1>2, <1>4, <1>8

\* What is behind a place of a list, when another list is appended to it.
LEMMA Beyond ==
  ASSUME NEW S, NEW a \in Seq(S), NEW b \in Seq(S), NEW T, NEW j \in 0..Len(a),
         \A k \in (j+1)..Len(a) : a[k] \in T, \A k \in 1..Len(b) : b[k] \in T
  PROVE  /\ a \o b \in Seq(S) /\ j \in 0..Len(a \o b) /\ (j # 0 => (a \o b)[j] = a[j])
         /\ \A k \in (j+1)..Len(a \o b) : (a \o b)[k] \in T
<1>1. /\ a \o b \in Seq(S) /\ Len(a \o b) = Len(a) + Len(b) /\ Len(a) \in Nat /\ Len(b) \in Nat
      /\ \A k \in 1..Len(a) : (a \o b)[k] = a[k]
      /\ \A k \in (Len(a)+1)..(Len(a) + Len(b)) : (a \o b)[k] = b[k - Len(a)]
  OBVIOUS
<1>2. PICK c, m, n : c = a \o b /\ m = Len(a) /\ n = Len(b)
  OBVIOUS
<1>3. ASSUME NEW k \in (j+1)..(m + n) PROVE c[k] \in T
  <2>1. CASE k \in (j+1)..m
    <3>1. k \in 1..m
      BY ONLY <1>1, <1>2, <2>1, j \in 0..Len(a)
    <3> QED BY ONLY <1>1, <1>2, <2>1, <3>1, \A i \in (j+1)..Len(a) : a[i] \in T
  <2>2. CASE k \notin (j+1)..m
    <3>1. k \in (m+1)..(m + n) /\ k - m \in 1..n
      BY ONLY <1>1, <1>2, <1>3, <2>2, j \in 0..Len(a)
    <3> QED BY ONLY <1>1, <1>2, <3>1, \A i \in 1..Len(b) : b[i] \in T
  <2> QED BY <2>1, <2>2
<1>4. j \in 0..(m + n) /\ (j # 0 => j \in 1..m)
  BY ONLY <1>1, <1>2, j \in 0..Len(a)
<1> QED BY ONLY <1>1, <1>2, <1>3, <1>4

LEMMA RentedCarry ==
  ASSUME ItemInv, NEW i \in 1..Len(Bodies), NEW p, p = Bodies[i]
  PROVE  /\ Carried(Rented(i - 1), p) = Carried(where, p)
         /\ \A m \in i..Len(Bodies) : \A o \in Carried(where, p) : Rented(m)[o] = Gone
<1>1. PICK S : S = Held(where, p)
  OBVIOUS
<1>2. /\ Len(Bodies) \in Nat /\ \A k \in 1..Len(Bodies) : Bodies[k] \in Players
      /\ \A k \in 1..Len(Bodies) : Bodies[k] = p => k = i
  BY BodiesFacts
<1>3. /\ S \subseteq Items /\ \A o \in Items : (o \in S <=> where[o] = p)
      /\ p \in Players /\ p # Gone /\ \A q \in Players : q \notin Items
  BY <1>1, <1>2, Kinds DEF Held
<1>4. /\ S \subseteq Under(where, S) /\ Under(where, S) \subseteq Items
      /\ \A o \in Under(where, S) : o \in S \/ where[o] \in Under(where, S)
  BY <1>3, UnderFacts
<1>5. ASSUME NEW m \in i..Len(Bodies), NEW o \in Under(where, S) PROVE Rented(m)[o] = Gone
  <2>1. PICK U : U = UNION {Held(where, Bodies[k]) : k \in 1..m}
    OBVIOUS
  <2>2. i \in 1..m
    BY <1>2
  <2>3. S \subseteq U
    BY <1>1, <2>1, <2>2
  <2>4. U \subseteq Items
    BY <2>1 DEF Held
  <2>5. Under(where, S) \subseteq Under(where, U)
    BY <2>3, <2>4, UnderMono
  <2>6. o \in Items /\ o \in Under(where, U)
    BY <1>4, <2>5
  <2>7. Rented(m) = Extracted(where, U)
    BY <2>1 DEF Rented
  <2> QED BY <2>6, <2>7, ExtractedFacts
<1>6. PICK a, U, what : /\ a = Rented(i - 1) /\ U = UNION {Held(where, Bodies[k]) : k \in 1..(i - 1)}
                        /\ what = [k \in 1..(i - 1) |-> Held(where, Bodies[k])]
  OBVIOUS
<1>7. U = UNION {what[k] : k \in DOMAIN what} /\ DOMAIN what = 1..(i - 1)
      /\ \A k \in 1..(i - 1) : what[k] = Held(where, Bodies[k])
  <2>1. DOMAIN what = 1..(i - 1) /\ \A k \in 1..(i - 1) : what[k] = Held(where, Bodies[k])
    BY ONLY <1>6
  <2>2. \A x : x \in U <=> \E k \in 1..(i - 1) : x \in Held(where, Bodies[k])
    BY ONLY <1>6
  <2>3. \A x : x \in UNION {what[k] : k \in DOMAIN what} <=> \E k \in 1..(i - 1) : x \in what[k]
    BY ONLY <2>1
  <2>4. U = UNION {what[k] : k \in DOMAIN what}
    BY ONLY <2>1, <2>2, <2>3
  <2> QED BY ONLY <2>1, <2>4
<1>8. Under(where, U) \cap Under(where, S) = {}
  <2>1. \A k \in DOMAIN what : what[k] \subseteq Items
    BY <1>7 DEF Held
  <2>2. \A o \in Under(where, U) : \E k \in DOMAIN what : o \in Under(where, what[k])
    BY ONLY <1>7, <2>1, UnderUnion
  <2>3. ASSUME NEW k \in DOMAIN what PROVE Under(where, what[k]) \cap Under(where, S) = {}
    <3>1. k \in 1..Len(Bodies) /\ k # i
      BY <1>2, <1>7
    <3>2. Bodies[k] \in Players /\ Bodies[k] # p /\ what[k] = Held(where, Bodies[k])
      BY <1>2, <1>7, <3>1
    <3>3. Bodies[k] \notin Items /\ p \notin Items
      BY <1>3, <3>2
    <3> QED BY <1>1, <3>2, <3>3, CarriedByOne
  <2> QED BY <2>2, <2>3
<1>9. \A o \in Items : a[o] = IF o \in Under(where, U) THEN Gone ELSE where[o]
  <2>1. a = Extracted(where, U)
    BY <1>6 DEF Rented
  <2> QED BY <2>1, ExtractedFacts
<1>10. PICK R : R = Held(a, p)
  OBVIOUS
<1>11. R \subseteq Items /\ \A o \in Items : o \in R <=> o \in S
  <2>1. R \subseteq Items /\ \A o \in Items : o \in R <=> a[o] = p
    BY <1>10 DEF Held
  <2>2. \A o \in Items : a[o] = p <=> where[o] = p
    BY <1>3, <1>4, <1>8, <1>9
  <2> QED BY ONLY <1>3, <2>1, <2>2
<1>12. S \subseteq R /\ R \subseteq S
  BY ONLY <1>3, <1>11
<1>13. \A o \in Under(where, S) : a[o] = where[o]
  BY <1>4, <1>8, <1>9
<1>14. Under(where, S) \subseteq Under(a, R)
  BY ONLY <1>11, <1>12, <1>13, UnderMono
<1>15. Under(a, R) \subseteq Items
  BY <1>11, UnderFacts
<1>16. \A o \in Under(a, R) : a[o] \in Under(where, S) => where[o] = a[o]
  BY <1>4, <1>9, <1>15, Kinds
<1>17. Under(a, R) \subseteq Under(where, S)
  BY ONLY <1>3, <1>12, <1>16, UnderMono
<1>18. Under(a, R) = Under(where, S)
  BY ONLY <1>14, <1>17, Zenon
<1>19. Carried(a, p) = Under(a, R) /\ Carried(where, p) = Under(where, S)
  BY <1>1, <1>10 DEF Carried
<1> QED BY ONLY <1>5, <1>6, <1>18, <1>19

\* A save that spares p, and what p would load, leaves it as it is.
LEMMA SpareKeeps ==
  ASSUME NEW t \in Rows, NEW p \in Players, NEW s \in Sparing({p}, LoadedBy(t, p))
  PROVE  LoadedBy(Inserted(t, s.at, s.what, s.delete), p) = LoadedBy(t, p)
<1>1. PICK at, what, delete : at = s.at /\ what = s.what /\ delete = s.delete
  OBVIOUS
<1>2. /\ Proper(at, what) /\ p \notin DOMAIN what
      /\ \A o \in LoadedBy(t, p) : o \notin Saved(at, what) /\ o \notin DOMAIN what
  BY <1>1 DEF Sparing, Spares
<1>3. Kept(t, Inserted(t, at, what, delete), p)
  BY ONLY <1>2, t \in Rows, p \in Players, SaveKeeps
<1> QED BY <1>1, <1>3 DEF Kept

LEMMA ShutDownFull ==
  ASSUME ItemInv, ShutDown, NEW p \in Players \ prompts, link[p] = "in"
  PROVE  LoadedBy(saved', p) = Carried(where, p)
<1>1. PICK r \in Rooms : \E early \in SUBSET prompts :
           Boot(Last(Tables(Copies(early) \o RentSaves \o Copies(prompts \ early)
                            \o Joined(LostSaves(r)))))
  BY ShutDownIs
<1>2. PICK early \in SUBSET prompts :
           Boot(Last(Tables(Copies(early) \o RentSaves \o Copies(prompts \ early)
                            \o Joined(LostSaves(r)))))
  BY <1>1
<1>3. PICK P, S, T, K, C : /\ P = Out \ prompts /\ S = Sparing(P, Stored(P)) /\ K = Keepers(P)
                           /\ C = Carried(where, p) /\ T = Sparing({p}, C)
  OBVIOUS
<1>4. PICK a, b, c, d : /\ a = Copies(early) /\ b = RentSaves /\ c = Copies(prompts \ early)
                        /\ d = Joined(LostSaves(r))
  OBVIOUS
<1>5. PICK saves : saves = a \o b \o c \o d
  OBVIOUS
<1>6. a \in Seq(S) /\ b \in Seq(S) /\ c \in Seq(S) /\ d \in Seq(S)
  <2>1. r \in Rooms /\ early \in SUBSET prompts
    OBVIOUS
  <2> QED BY ONLY ItemInv, <1>3, <1>4, <2>1, LastSavesSparing
<1>7. PICK i \in 1..Len(Bodies) : Bodies[i] = p
  BY BodiesFacts
<1>8. /\ Carried(Rented(i - 1), p) = C /\ \A m \in i..Len(Bodies) : \A o \in C : Rented(m)[o] = Gone
      /\ C \subseteq Items /\ p \in Players /\ p \notin prompts /\ {p} \subseteq Players
  <2>1. Carried(where, p) \subseteq Items
    <3>1. Held(where, p) \subseteq Items
      BY DEF Held
    <3> QED BY <3>1, UnderFacts DEF Carried
  <2> QED BY <1>3, <1>7, <2>1, RentedCarry
<1>9. PICK n \in Nat : n = Len(Bodies)
  BY BodiesFacts
<1>10. i \in 1..n /\ Len(b) = n /\ \A k \in 1..n : b[k] = ItemSave(Rented(k - 1), Bodies[k])
  <2>1. ASSUME NEW k \in 1..Len(Bodies) PROVE b[k] = ItemSave(Rented(k - 1), Bodies[k])
    BY <1>4 DEF RentSaves
  <2>2. \A k \in 1..Len(Bodies) : ItemSave(Rented(k - 1), Bodies[k]) \in {b[x] : x \in 1..Len(Bodies)}
    BY ONLY <2>1
  <2>3. Len(b) = Len(Bodies)
    BY ONLY ItemInv, <1>4, <2>2, RentListed
  <2> QED BY ONLY <1>7, <1>9, <2>1, <2>3
<1>11. ASSUME NEW k \in (i+1)..n PROVE b[k] \in T
  <2>1. k \in 1..n /\ k - 1 \in i..n /\ k # i
    BY ONLY <1>10, <1>11, n \in Nat
  <2>2. Bodies[k] # p
    BY <1>7, <1>9, <2>1, BodiesFacts
  <2>3. \A o \in C : Rented(k - 1)[o] = Gone
    BY ONLY <1>8, <1>9, <2>1
  <2>4. Bodies[k] \notin {p} /\ k \in 1..Len(Bodies)
    BY ONLY <1>9, <2>1, <2>2
  <2>5. ItemSave(Rented(k - 1), Bodies[k]) \in Sparing({p}, C)
    BY ONLY ItemInv, <1>8, <2>3, <2>4, RentSparing
  <2> QED BY ONLY <1>3, <1>10, <2>1, <2>5
<1>12. c \in Seq(T)
  <2>1. {p} \subseteq Players \ prompts /\ (prompts \ early) \in SUBSET prompts
    OBVIOUS
  <2> QED BY ONLY ItemInv, <1>3, <1>4, <1>8, <2>1, CopiesSparing
<1>13. d \in Seq(T)
  <2>1. \A o \in C : Rented(Len(Bodies))[o] = Gone
    BY ONLY <1>8, <1>9, <1>10, n \in Nat
  <2>2. r \in Rooms
    OBVIOUS
  <2> QED BY ONLY ItemInv, <1>3, <1>4, <1>8, <2>1, <2>2, LostSparing
<1>14. PICK m \in Nat : m = Len(a)
  BY <1>6
<1>15. PICK j \in Nat : j = m + i
  BY <1>7, <1>9
<1>16. /\ a \o b \in Seq(S) /\ j \in 0..Len(a \o b) /\ j # 0 /\ (a \o b)[j] = ItemSave(Rented(i - 1), p)
       /\ \A k \in (j+1)..Len(a \o b) : (a \o b)[k] \in T
  <2>1. /\ a \o b \in Seq(S) /\ Len(a \o b) = m + n
        /\ \A k \in 1..n : (a \o b)[m + k] = b[k]
    <3>1. \A v \in Seq(S) : /\ a \o v \in Seq(S) /\ Len(a \o v) = Len(a) + Len(v)
                            /\ \A k \in 1..Len(v) : (a \o v)[Len(a) + k] = v[k]
      BY ONLY <1>6
    <3> QED BY ONLY <1>6, <1>10, <1>14, <3>1
  <2>2. ASSUME NEW k \in (j+1)..(m + n) PROVE (a \o b)[k] \in T
    <3>1. k - m \in (i+1)..n /\ k - m \in 1..n /\ m + (k - m) = k
      BY ONLY <1>10, <1>15, <2>2, n \in Nat, m \in Nat
    <3>2. (a \o b)[k] = b[k - m]
      BY ONLY <2>1, <3>1
    <3> QED BY ONLY <1>11, <3>1, <3>2
  <2>3. j \in 0..(m + n) /\ j # 0
    BY ONLY <1>10, <1>15, n \in Nat, m \in Nat
  <2>4. (a \o b)[j] = ItemSave(Rented(i - 1), p)
    BY ONLY <1>7, <1>10, <1>15, <2>1
  <2> QED BY ONLY <2>1, <2>2, <2>3, <2>4
<1>17. PICK x, y : x = a \o b /\ y = x \o c
  OBVIOUS
<1>18. /\ y \in Seq(S) /\ j \in 0..Len(y) /\ y[j] = x[j] /\ \A k \in (j+1)..Len(y) : y[k] \in T
  <2>1. \A k \in 1..Len(c) : c[k] \in T
    BY ONLY <1>12
  <2>2. c \in Seq(S) /\ x \in Seq(S) /\ j \in 0..Len(x) /\ j # 0 /\ \A k \in (j+1)..Len(x) : x[k] \in T
    BY ONLY <1>6, <1>16, <1>17
  <2> QED BY ONLY <1>17, <2>1, <2>2, Beyond
<1>19. /\ saves \in Seq(S) /\ j \in 0..Len(saves) /\ saves[j] = y[j]
       /\ \A k \in (j+1)..Len(saves) : saves[k] \in T
  <2>1. \A k \in 1..Len(d) : d[k] \in T
    BY ONLY <1>13
  <2>2. saves = y \o d /\ j # 0 /\ d \in Seq(S)
    BY ONLY <1>5, <1>6, <1>16, <1>17
  <2> QED BY ONLY <1>18, <2>1, <2>2, Beyond
<1>20. PICK R : R = {t \in K : LoadedBy(t, p) = C}
  OBVIOUS
<1>21. P \subseteq Players /\ saved \in K /\ K \subseteq Rows /\ stops \in Nat
  BY <1>3, PresentKept DEF ItemInv, ItemType, Out, Keepers
<1>22. \A s \in S : \A t \in K :
         /\ Cleaned(t, s.what, s.delete) \in K /\ Limboed(t, s.at, s.what, s.delete) \in K
         /\ Removed(t, s.at, s.what, s.delete) \in K /\ Inserted(t, s.at, s.what, s.delete) \in K
  BY <1>3, <1>21, SavesKeep DEF Sparing
<1>23. ASSUME NEW t \in K PROVE Inserted(t, saves[j].at, saves[j].what, saves[j].delete) \in R
  <2>1. PICK s, at : s = saves[j] /\ at = Rented(i - 1)
    OBVIOUS
  <2>2. s = ItemSave(at, p)
    BY ONLY <1>16, <1>17, <1>18, <1>19, <2>1
  <2>3. at \in [Items -> Holders \cup {Gone}]
    BY <2>1, ExtractedFacts DEF Rented
  <2>4. t \in Rows /\ p \in Players
    BY <1>21
  <2>5. LoadedBy(Inserted(t, s.at, s.what, s.delete), p) = Carried(at, p)
    BY ONLY <2>2, <2>3, <2>4, LoadsSaved
  <2>6. s \in S
    BY ONLY <1>16, <1>19, <2>1
  <2>7. Inserted(t, s.at, s.what, s.delete) \in K
    BY ONLY <1>22, <1>23, <2>6
  <2> QED BY ONLY <1>8, <1>20, <2>1, <2>5, <2>7
<1>24. ASSUME NEW k \in (j+1)..Len(saves), NEW t \in R
       PROVE  Inserted(t, saves[k].at, saves[k].what, saves[k].delete) \in R
  <2>1. PICK s : s = saves[k]
    OBVIOUS
  <2>2. s \in S /\ s \in T
    BY ONLY <1>19, <1>24, <2>1
  <2>3. t \in K /\ t \in Rows /\ LoadedBy(t, p) = C
    BY <1>20, <1>21
  <2>4. Inserted(t, s.at, s.what, s.delete) \in K
    BY ONLY <1>22, <2>2, <2>3
  <2>5. LoadedBy(Inserted(t, s.at, s.what, s.delete), p) = C
    BY ONLY <1>3, <1>8, <2>2, <2>3, SpareKeeps
  <2> QED BY ONLY <1>20, <2>1, <2>4, <2>5
<1>25. Last(Tables(saves)) \in R
  <2>1. j \in 1..Len(saves) /\ R \subseteq K
    BY ONLY <1>16, <1>19, <1>20
  <2> QED BY ONLY <1>19, <1>21, <1>22, <1>23, <1>24, <2>1, TablesReach
<1>26. Last(Tables(saves)) \in Rows /\ LoadedBy(Last(Tables(saves)), p) = C
  BY ONLY <1>20, <1>21, <1>25
<1>27. Boot(Last(Tables(saves)))
  BY <1>2, <1>4, <1>5
<1> QED BY <1>3, <1>21, <1>26, <1>27, BootKeeps

-------------------------------------------------------------------------------
(* The theorems.                                                           *)

LEMMA ItemsStart ==
  ASSUME ItemsInit PROVE ItemInv
<1>1. PICK r \in Rooms, held \in SUBSET (Things \cup Bags) :
        where = [o \in Items |-> IF o \in held THEN r ELSE Gone]
  BY DEF ItemsInit
<1>2. /\ saved = [o \in Items |-> NoRow] /\ link = [p \in Players |-> "out"]
      /\ prompts = {} /\ corpseRooms = {} /\ stops = 0
  BY DEF ItemsInit
<1>3. NoRow \in Row_s /\ NoRow.holder = Gone
  BY DEF NoRow, Row_s
<1>4. saved \in Rows
  <2>1. saved \in [Items -> Row_s] /\ \A o \in Items : saved[o].holder = Gone
    BY <1>2, <1>3
  <2> QED BY <2>1, Kinds DEF Rows, Matched
<1>5. ItemType
  <2>1. where \in [Items -> Holders \cup {Gone}]
    BY <1>1, Kinds
  <2>2. link \in [Players -> Links]
    BY <1>2 DEF Links
  <2> HIDE DEF Rows, Links
  <2> QED BY <1>2, <1>4, <2>1, <2>2 DEF ItemType
<1>6. NothingTwice
  <2>1. ASSUME NEW p \in Players PROVE LoadedBy(saved, p) = {}
    <3>1. PICK none : none = Held(Homes(saved), p)
      OBVIOUS
    <3>2. \A o \in Items : Homes(saved)[o] = Gone
      BY <1>2, <1>3 DEF Homes
    <3>3. none \subseteq Items /\ none \subseteq {}
      BY <3>1, <3>2, Kinds DEF Held
    <3>4. Under(Homes(saved), none) \subseteq {}
      BY ONLY <3>3, UnderLeast
    <3> QED BY <3>1, <3>4, LoadedFacts
  <2> QED BY <2>1 DEF NothingTwice
<1> QED BY <1>5, <1>6 DEF ItemInv

LEMMA ItemsStep ==
  ASSUME ItemInv, ItemsNext
  PROVE  ItemInv' /\ saved' \in Keepers(Out \ prompts)
<1>1. saved \in Rows /\ saved \in Keepers(Out \ prompts)
  BY PresentKept DEF ItemInv, ItemType
<1>2. ASSUME saved' \in Keepers(Out) PROVE saved' \in Keepers(Out \ prompts)
  BY <1>2 DEF Keepers
<1>3. ASSUME NEW p \in Players,
             ItemCommand(p) \/ AskPassword(p) \/ Enter(p) \/ LoseLink(p) \/ Relink(p) \/ Rent(p)
      PROVE  ItemInv' /\ saved' \in Keepers(Out \ prompts)
  <2>1. CASE ItemCommand(p)
    BY <1>2, <2>1, ItemCommandKeeps
  <2>2. CASE AskPassword(p) \/ LoseLink(p) \/ Relink(p)
    BY <1>1, <2>2, LinkKeeps
  <2>3. CASE Enter(p)
    BY <1>1, <2>3, EnterKeeps
  <2>4. CASE Rent(p)
    BY <1>2, <2>4, RentKeeps
  <2> QED BY <1>3, <2>1, <2>2, <2>3, <2>4
<1>4. ASSUME NEW p \in Players, NEW r \in Rooms, QuitWithout(p, r)
      PROVE  ItemInv' /\ saved' \in Keepers(Out \ prompts)
  BY <1>2, <1>4, QuitKeeps
<1>5. ASSUME NEW p \in Players, NEW r \in Rooms, NEW c \in Corpses, Die(p, c, r)
      PROVE  ItemInv' /\ saved' \in Keepers(Out \ prompts)
  BY <1>2, <1>5, DieKeeps
<1>6. ASSUME NEW c \in Corpses, Rot(c) PROVE ItemInv' /\ saved' \in Keepers(Out \ prompts)
  BY <1>2, <1>6, RotKeeps
<1>7. CASE AutoSave
  BY <1>2, <1>7, AutoSaveKeeps
<1>8. CASE Crash
  BY <1>1, <1>8, BootKeeps DEF Crash, ItemInv, ItemType
<1>9. CASE ShutDown
  BY <1>9, ShutDownKeeps
<1> QED BY <1>3, <1>4, <1>5, <1>6, <1>7, <1>8, <1>9 DEF ItemsNext

LEMMA ItemsStutter ==
  ASSUME ItemInv, UNCHANGED itemVars PROVE ItemInv'
<1>1. /\ where' = where /\ saved' = saved /\ link' = link /\ prompts' = prompts
      /\ corpseRooms' = corpseRooms /\ stops' = stops
  BY DEF itemVars
<1>2. ItemType /\ NothingTwice
  BY DEF ItemInv
<1>3. ItemType'
  BY <1>1, <1>2 DEF ItemType
<1>4. NothingTwice'
  <2>1. \A q \in Players : link'[q] = "out" => \A o \in LoadedBy(saved', q) : where'[o] = Gone
    BY <1>1, <1>2 DEF NothingTwice
  <2> QED BY <2>1 DEF NothingTwice, LoadedBy, Carried, Under, Held
<1> QED BY <1>3, <1>4 DEF ItemInv

\* The type invariant of ItemSaving, and what the rows in the table have to do
\* with each other.
THEOREM ItemsTyped == ItemsSpec => []ItemType
<1>1. ItemInv => ItemType
  BY DEF ItemInv
<1>2. ItemInv /\ [ItemsNext]_itemVars => ItemInv'
  BY ItemsStep, ItemsStutter
<1> QED BY <1>1, <1>2, ItemsStart, PTL DEF ItemsSpec

\* NothingTwice: what a player who is out would load is nowhere in the game,
\* however commands, saves, crashes and the ends of games followed each other.
THEOREM NothingTwiceHolds == ItemsSpec => []NothingTwice
<1>1. ItemInv => NothingTwice
  BY DEF ItemInv
<1>2. ItemInv /\ [ItemsNext]_itemVars => ItemInv'
  BY ItemsStep, ItemsStutter
<1> QED BY <1>1, <1>2, ItemsStart, PTL DEF ItemsSpec

\* AbsentKeepAll: nothing that happens in the game touches what is kept for a
\* player who is out and of whom no copy waits at the password.
THEOREM AbsentKeepAllHolds == ItemsSpec => AbsentKeepAll
<1> DEFINE A == \A p \in Players \ prompts : link[p] = "out" /\ link'[p] = "out" =>
                  LoadedBy(saved, p) \subseteq LoadedBy(saved', p)
<1>1. ItemInv /\ [ItemsNext]_itemVars => ItemInv'
  BY ItemsStep, ItemsStutter
<1>2. ASSUME ItemInv, ItemsNext PROVE A
  <2>1. ASSUME NEW p \in Players \ prompts, link[p] = "out"
        PROVE  LoadedBy(saved', p) = LoadedBy(saved, p)
    <3>1. p \in Out \ prompts
      BY <2>1 DEF Out
    <3> QED BY <1>2, <3>1, ItemsStep DEF Keepers, Kept
  <2> QED BY <2>1
<1>3. ItemInv /\ [ItemsNext]_itemVars => [A]_itemVars
  BY <1>2
<1> QED BY <1>1, <1>3, ItemsStart, PTL DEF ItemsSpec, AbsentKeepAll

\* SavedInFull: after an autosave everybody in the game would find what they
\* carry, and after an orderly end all who were linked and alone find it.
THEOREM SavedInFullHolds == ItemsSpec => SavedInFull
<1> DEFINE A == /\ stops' = stops /\ UNCHANGED where /\ AutoSave =>
                     \A p \in Players : link[p] # "out" => LoadedBy(saved', p) = Carried(where, p)
                /\ stops' # stops /\ ShutDown =>
                     \A p \in Players \ prompts :
                       link[p] = "in" => Carried(where, p) \subseteq LoadedBy(saved', p)
<1>1. ItemInv /\ [ItemsNext]_itemVars => ItemInv'
  BY ItemsStep, ItemsStutter
<1>2. ASSUME ItemInv PROVE A
  <2>1. ASSUME stops' = stops, AutoSave, NEW p \in Players, link[p] # "out"
        PROVE  LoadedBy(saved', p) = Carried(where, p)
    BY <1>2, <2>1, AutoSaveFull
  <2>2. ASSUME ShutDown, NEW p \in Players \ prompts, link[p] = "in"
        PROVE  LoadedBy(saved', p) = Carried(where, p)
    BY <1>2, <2>2, ShutDownFull
  <2> QED BY <2>1, <2>2
<1>3. ItemInv /\ [ItemsNext]_itemVars => [A]_itemVars
  BY <1>2
<1> QED BY <1>1, <1>3, ItemsStart, PTL DEF ItemsSpec, SavedInFull

-------------------------------------------------------------------------------
(* What lies in what, without circles.                                     *)

\* Only a container has something in it.
Nested(at) == \A o \in Items : at[o] \in Items => at[o] \in Containers

\* Nothing is in what is not there, and nobody holds in circles.
Grounded(at) ==
  /\ Nested(at)
  /\ \A o \in Items : at[o] \in Items => at[at[o]] # Gone
  /\ \A S \in SUBSET Items : S # {} => \E x \in S : at[x] \notin S

\* Whatever has a row under a player, a room or the chest has it for its
\* top-level holder; in a room that is no vault, corpses only.
Filed(t) ==
  \A o \in Items :
    /\ t[o].holder \in Items => t[o].holder \in Containers
    /\ t[o].holder \notin Items \cup {Nobody} => t[o].top = t[o].holder
    /\ t[o].holder \in Rooms \ Vaults => o \in Corpses

Standing == Grounded(where) /\ Filed(saved) /\ corpseRooms \subseteq Rooms \ Vaults

\* Under has grown often enough: what is in something under S is under S.
LEMMA UnderClosed ==
  ASSUME NEW at, Nested(at), NEW S, S \subseteq Items
  PROVE  \A o \in Items : at[o] \in Under(at, S) => o \in Under(at, S)
<1>1. PICK n \in Nat : \E grow \in [0..n -> SUBSET Items] :
           /\ n = Depth /\ grow[0] = S /\ Under(at, S) = grow[n]
           /\ \A k \in 1..n : \A o : o \in grow[k] <=> o \in grow[k-1] \/ (o \in Items /\ at[o] \in grow[k-1])
           /\ \A k \in 0..n : S \subseteq grow[k] /\ grow[k] \subseteq Under(at, S)
  BY UnderLevels
<1>2. PICK grow \in [0..n -> SUBSET Items] :
           /\ n = Depth /\ grow[0] = S /\ Under(at, S) = grow[n]
           /\ \A k \in 1..n : \A o : o \in grow[k] <=> o \in grow[k-1] \/ (o \in Items /\ at[o] \in grow[k-1])
           /\ \A k \in 0..n : S \subseteq grow[k] /\ grow[k] \subseteq Under(at, S)
  BY <1>1
<1>3. IsFiniteSet(Containers) /\ Cardinality(Containers) = n
  <2>1. Containers \subseteq Holders /\ IsFiniteSet(Holders)
    BY ItemAssumption DEF Holders, Items
  <2> QED BY <1>2, <2>1, FS_Subset DEF Depth
<1> DEFINE Closed(k) == \A o \in Items : at[o] \in grow[k] => o \in grow[k]
           Full(k) == Cardinality(grow[k] \cap Containers) >= k + 1
           T == {k \in 0..n : Closed(k) \/ Full(k)}
<1>4. \A k \in 0..n : /\ IsFiniteSet(grow[k] \cap Containers)
                      /\ Cardinality(grow[k] \cap Containers) \in Nat
                      /\ Cardinality(grow[k] \cap Containers) <= n
  <2>1. ASSUME NEW k \in 0..n
        PROVE  /\ IsFiniteSet(grow[k] \cap Containers)
               /\ Cardinality(grow[k] \cap Containers) \in Nat
               /\ Cardinality(grow[k] \cap Containers) <= n
    <3>1. grow[k] \cap Containers \subseteq Containers
      OBVIOUS
    <3> QED BY <1>3, <3>1, FS_Subset, FS_CardinalityType
  <2> QED BY <2>1
<1>5. 0 \in T
  <2>1. ASSUME ~Closed(0) PROVE Full(0)
    <3>1. PICK o \in Items : at[o] \in grow[0] /\ o \notin grow[0]
      BY <2>1
    <3>2. at[o] \in Items
      BY <1>2, <3>1
    <3>3. at[o] \in grow[0] \cap Containers
      BY <3>1, <3>2 DEF Nested
    <3>4. 0 \in 0..n
      OBVIOUS
    <3>5. Cardinality(grow[0] \cap Containers) # 0
      BY <1>4, <3>3, <3>4, FS_EmptySet
    <3> QED BY <1>4, <3>4, <3>5
  <2> QED BY <2>1
<1>6. ASSUME NEW k \in T, k \in 0..(n-1) PROVE k + 1 \in T
  <2>1. k + 1 \in 1..n /\ k + 1 \in 0..n /\ (k + 1) - 1 = k /\ k \in 0..n
    BY <1>6
  <2>2. \A o : o \in grow[k+1] <=> o \in grow[k] \/ (o \in Items /\ at[o] \in grow[k])
    BY <1>2, <2>1
  <2>3. ASSUME ~Closed(k + 1) PROVE Full(k + 1)
    <3>1. PICK o \in Items : at[o] \in grow[k+1] /\ o \notin grow[k+1]
      BY <2>3
    <3>2. at[o] \notin grow[k] /\ at[o] \in Items
      BY <1>2, <2>1, <2>2, <3>1
    <3>3. PICK c : c = at[o]
      OBVIOUS
    <3>4. c \in Containers /\ c \in grow[k+1] /\ c \notin grow[k] /\ at[c] \in grow[k] /\ c \in Items
      BY <2>2, <3>1, <3>2, <3>3 DEF Nested
    <3>5. ~Closed(k)
      BY <3>4
    <3>6. Full(k)
      BY <1>6, <3>5
    <3>7. PICK X, Y : X = grow[k] \cap Containers /\ Y = grow[k+1] \cap Containers
      OBVIOUS
    <3>8. c \notin X /\ X \cup {c} \subseteq Y
      BY <2>2, <3>4, <3>7
    <3>9. IsFiniteSet(X) /\ IsFiniteSet(Y) /\ Cardinality(X) \in Nat /\ Cardinality(Y) \in Nat
      BY <1>4, <2>1, <3>7
    <3>10. Cardinality(X \cup {c}) = Cardinality(X) + 1
      BY <3>8, <3>9, FS_AddElement
    <3>11. Cardinality(X \cup {c}) <= Cardinality(Y)
      BY <3>8, <3>9, FS_Subset
    <3>12. k \in Nat /\ Cardinality(X) >= k + 1
      BY <2>1, <3>6, <3>7
    <3> QED BY <3>7, <3>9, <3>10, <3>11, <3>12
  <2> QED BY <2>1, <2>3
<1>7. 0..n \subseteq T
  <2> HIDE DEF T
  <2> QED BY <1>5, <1>6, Induct
<1>8. Closed(n)
  <2>1. n \in 0..n
    OBVIOUS
  <2>2. n \in T
    <3> HIDE DEF T
    <3> QED BY <1>7, <2>1
  <2>3. ~Full(n)
    <3>1. PICK m : m = Cardinality(grow[n] \cap Containers)
      OBVIOUS
    <3>2. m \in Nat /\ m <= n
      BY <1>4, <2>1, <3>1
    <3> QED BY ONLY <3>1, <3>2, n \in Nat
  <2>4. Closed(n) \/ Full(n)
    <3> HIDE DEF Closed, Full
    <3> QED BY <2>2
  <2> QED BY <2>3, <2>4
<1> QED BY <1>2, <1>8

\* Of some of what is carried by k, one is not in another.
LEMMA CarriedGrounded ==
  ASSUME NEW at, Nested(at), NEW k, k \notin Items, NEW S, S \subseteq Items, S \cap Carried(at, k) # {}
  PROVE  \E x \in S \cap Carried(at, k) : at[x] \notin S
<1> SUFFICES ASSUME \A x \in S \cap Carried(at, k) : at[x] \in S PROVE FALSE
  OBVIOUS
<1>1. PICK H, U : H = Held(at, k) /\ U = Under(at, H)
  OBVIOUS
<1>2. H \subseteq Items /\ \A x \in H : at[x] = k
  BY <1>1 DEF Held
<1>3. /\ U = Carried(at, k) /\ H \subseteq U /\ U \subseteq Items
      /\ \A x \in Items : at[x] \in U => x \in U
  BY <1>1, <1>2, UnderFacts, UnderClosed DEF Carried
<1>4. H \subseteq U \ S
  BY <1>2, <1>3
<1>5. \A x \in Items : at[x] \in U \ S => x \in U \ S
  BY <1>3
<1>6. U \subseteq U \ S
  BY <1>1, <1>2, <1>4, <1>5, UnderLeast
<1> QED BY <1>3, <1>6

\* o and all it is in.
LEMMA ChainFacts ==
  ASSUME NEW at, Nested(at), NEW o \in Items
  PROVE  /\ o \in Chain(at, o) /\ Chain(at, o) \subseteq Items
         /\ \A x \in Chain(at, o) : at[x] \in Items => at[x] \in Chain(at, o)
<1>1. o \in Under(at, {o})
  BY UnderFacts
<1>2. ASSUME NEW x \in Items, o \in Under(at, {x}), at[x] \in Items PROVE o \in Under(at, {at[x]})
  <2>1. PICK y, S, U : y = at[x] /\ S = {y} /\ U = Under(at, S)
    OBVIOUS
  <2>2. S \subseteq Items /\ {x} \subseteq Items
    BY <1>2, <2>1
  <2>3. S \subseteq U /\ \A z \in Items : at[z] \in U => z \in U
    BY <2>1, <2>2, UnderFacts, UnderClosed
  <2>4. {x} \subseteq U
    BY <2>1, <2>3
  <2>5. Under(at, {x}) \subseteq U
    BY <2>2, <2>3, <2>4, UnderLeast
  <2> QED BY <1>2, <2>1, <2>5
<1> QED BY <1>1, <1>2 DEF Chain

\* What moved neither itself nor with what it is in has nothing new above it.
LEMMA ChainStays ==
  ASSUME NEW a, Nested(a), NEW b, NEW o \in Items, \A x \in Chain(a, o) : b[x] = a[x]
  PROVE  Chain(b, o) \subseteq Chain(a, o)
<1>1. PICK C : C = Chain(a, o)
  OBVIOUS
<1>2. o \in C /\ C \subseteq Items /\ \A x \in C : b[x] = a[x] /\ (a[x] \in Items => a[x] \in C)
  BY <1>1, ChainFacts
<1>3. ASSUME NEW x \in Items, x \notin C PROVE o \notin Under(b, {x})
  <2>1. PICK R : R = Items \ C
    OBVIOUS
  <2>2. {x} \subseteq R /\ {x} \subseteq Items /\ \A y \in Items : b[y] \in R => y \in R
    BY <1>2, <1>3, <2>1
  <2>3. Under(b, {x}) \subseteq R
    BY <2>2, UnderLeast
  <2> QED BY <1>2, <2>1, <2>3
<1> QED BY <1>1, <1>3 DEF Chain

-------------------------------------------------------------------------------
(* What a save does to the rows of what did not move.                      *)

\* A save files corpses only in a room that is no vault.
Files(at, what) ==
  /\ Nested(at)
  /\ \A h \in DOMAIN what : /\ h \in Items => h \in Containers
                            /\ h \in Rooms \ Vaults => what[h] \subseteq Corpses
FiledRows == {t \in Rows : Filed(t)}

LEMMA FiledKept ==
  ASSUME NEW t \in FiledRows, NEW at, NEW what, NEW delete, Proper(at, what), Files(at, what)
  PROVE  /\ Cleaned(t, what, delete) \in FiledRows /\ Limboed(t, at, what, delete) \in FiledRows
         /\ Removed(t, at, what, delete) \in FiledRows /\ Inserted(t, at, what, delete) \in FiledRows
<1>1. PICK c, l, r, u, new : /\ c = Cleaned(t, what, delete) /\ l = Limboed(t, at, what, delete)
                             /\ r = Removed(t, at, what, delete) /\ u = Inserted(t, at, what, delete)
                             /\ new = Saved(at, what)
  OBVIOUS
<1>2. t \in Rows /\ Filed(t)
  BY DEF FiledRows
<1>3. c \in Rows /\ \A o \in Items : c[o] = IF delete /\ t[o].top \in DOMAIN what THEN NoRow ELSE t[o]
  BY <1>1, <1>2, CleanedRows
<1>4. /\ l \in Rows
      /\ \A o \in Items : /\ l[o].top = c[o].top
                          /\ c[o].holder \in new => l[o].holder = Nobody
                          /\ c[o].holder \notin new => l[o] = c[o]
  BY <1>1, <1>2, LimboedRows
<1>5. r \in Rows /\ \A o \in Items : r[o] = IF o \in new THEN NoRow ELSE l[o]
  BY <1>1, <1>2, RemovedRows
<1>6. /\ u \in Rows
      /\ \A o \in Items :
           /\ o \in new =>
                /\ u[o].top = TopOf(at, what, o)
                /\ u[o].holder = IF o \in what[TopOf(at, what, o)] THEN TopOf(at, what, o) ELSE at[o]
           /\ o \notin new => u[o] = l[o]
  BY <1>1, <1>2, InsertedRows
<1>7. /\ new \subseteq Items
      /\ \A o \in new : /\ TopOf(at, what, o) \in DOMAIN what
                        /\ o \in what[TopOf(at, what, o)] \/ at[o] \in new
  BY <1>1, SavedFacts
<1>8. NoRow.holder = Gone /\ NoRow.top = Gone /\ Gone \notin Items /\ Nobody \notin Items
      /\ Gone \notin Rooms /\ Nobody \notin Rooms /\ \A h \in Rooms : h \notin Items
  BY Kinds DEF NoRow
<1>9. Filed(c)
  BY <1>2, <1>3, <1>8 DEF Filed
<1>10. Filed(l)
  <2>1. ASSUME NEW o \in Items
        PROVE  /\ l[o].holder \in Items => l[o].holder \in Containers
               /\ l[o].holder \notin Items \cup {Nobody} => l[o].top = l[o].holder
               /\ l[o].holder \in Rooms \ Vaults => o \in Corpses
    BY <1>4, <1>8, <1>9 DEF Filed
  <2> QED BY <2>1 DEF Filed
<1>11. Filed(r)
  BY <1>5, <1>8, <1>10 DEF Filed
<1>12. Filed(u)
  <2>1. ASSUME NEW o \in Items
        PROVE  /\ u[o].holder \in Items => u[o].holder \in Containers
               /\ u[o].holder \notin Items \cup {Nobody} => u[o].top = u[o].holder
               /\ u[o].holder \in Rooms \ Vaults => o \in Corpses
    <3>1. CASE o \notin new
      BY <1>6, <1>10, <3>1 DEF Filed
    <3>2. CASE o \in new /\ o \in what[TopOf(at, what, o)]
      BY <1>6, <1>7, <3>2 DEF Files
    <3>3. CASE o \in new /\ o \notin what[TopOf(at, what, o)]
      <4>1. u[o].holder = at[o] /\ at[o] \in Items
        BY <1>6, <1>7, <3>3
      <4> QED BY <1>8, <4>1 DEF Files, Nested
    <3> QED BY <3>1, <3>2, <3>3
  <2> QED BY <2>1 DEF Filed
<1> QED BY <1>1, <1>3, <1>4, <1>5, <1>6, <1>9, <1>10, <1>11, <1>12 DEF FiledRows

\* A save in a game where the objects F are where `a` has them: it files them
\* there, and whatever it clears it saves.
Faithful(at, what, delete, F, a) ==
  /\ \A x \in F : at[x] = a[x]
  /\ \A h \in DOMAIN what : \A x \in F : x \in what[h] => a[x] = h
  /\ delete => \A h \in DOMAIN what : \A x \in F :
       a[x] = h /\ (h \in Rooms \ Vaults => x \in Corpses) => x \in what[h]

\* The rows of those C of them that are in nothing but C are right afterwards
\* if they were before.
LEMMA SaveRecords ==
  ASSUME NEW t \in FiledRows, NEW at, NEW what, NEW delete, Proper(at, what), Files(at, what),
         NEW a, Grounded(a), \A x \in Items : a[x] # Nobody,
         NEW F, F \subseteq Items, Faithful(at, what, delete, F, a),
         NEW C, C \subseteq F, \A x \in C : a[x] \in Items => a[x] \in C,
         \A x \in C : t[x].holder = a[x]
  PROVE  \A x \in C : Inserted(t, at, what, delete)[x].holder = a[x]
<1>1. PICK c, l, u, new : /\ c = Cleaned(t, what, delete) /\ l = Limboed(t, at, what, delete)
                          /\ u = Inserted(t, at, what, delete) /\ new = Saved(at, what)
  OBVIOUS
<1>2. t \in Rows /\ Filed(t) /\ Matched(t)
  BY DEF FiledRows, Rows
<1>3. \A o \in Items : c[o] = IF delete /\ t[o].top \in DOMAIN what THEN NoRow ELSE t[o]
  BY <1>1, <1>2, CleanedRows
<1>4. \A o \in Items : c[o].holder \notin new => l[o] = c[o]
  BY <1>1, <1>2, LimboedRows
<1>5. \A o \in Items :
        /\ o \in new => u[o].holder = IF o \in what[TopOf(at, what, o)] THEN TopOf(at, what, o) ELSE at[o]
        /\ o \notin new => u[o] = l[o]
  BY <1>1, <1>2, InsertedRows
<1>6. /\ new \subseteq Items
      /\ \A o \in new : TopOf(at, what, o) \in DOMAIN what
      /\ \A h \in DOMAIN what : \A o \in Under(at, what[h]) : o \in new
  BY <1>1, SavedFacts
<1>7. /\ \A h \in DOMAIN what : what[h] \subseteq Items
      /\ \A h \in DOMAIN what : what[h] \subseteq Under(at, what[h])
  BY UnderFacts DEF Proper
<1>8. \A o \in Items : at[o] \in new => o \in new
  <2>1. PICK S : S = UNION {what[h] : h \in DOMAIN what}
    OBVIOUS
  <2>2. S \subseteq Items /\ new = Under(at, S) /\ Nested(at)
    BY <1>1, <1>7, <2>1 DEF Saved, Files
  <2> QED BY <2>2, UnderClosed
<1>9. C \subseteq Items /\ \A x \in C : at[x] = a[x]
  BY DEF Faithful
<1>10. ASSUME NEW x \in C, x \in new PROVE u[x].holder = a[x]
  <2>1. x \in what[TopOf(at, what, x)] => a[x] = TopOf(at, what, x)
    BY <1>6, <1>10 DEF Faithful
  <2> QED BY <1>5, <1>9, <1>10, <2>1
<1>11. \A x \in Items : a[x] \in Items => a[a[x]] # Gone
  BY DEF Grounded
<1>12. ASSUME delete, NEW h \in DOMAIN what, NEW y \in C, t[y].top = h, y \notin new PROVE FALSE
  <2>1. PICK D : D = {x \in C : t[x].top = h /\ x \notin new}
    OBVIOUS
  <2>2. D \in SUBSET Items /\ D # {}
    BY <1>9, <1>12, <2>1
  <2>3. PICK x \in D : a[x] \notin D
    BY <2>2 DEF Grounded
  <2>4. x \in C /\ x \in Items /\ t[x].top = h /\ x \notin new /\ t[x].holder = a[x] /\ a[x] # Nobody
    BY <1>9, <2>1, <2>3
  <2>5. a[x] # h
    <3>1. SUFFICES ASSUME a[x] = h PROVE FALSE
      OBVIOUS
    <3>2. h \in Rooms \ Vaults => x \in Corpses
      BY <1>2, <2>4, <3>1 DEF Filed
    <3>3. x \in what[h]
      BY <1>12, <2>4, <3>1, <3>2 DEF Faithful
    <3> QED BY <1>6, <1>7, <2>4, <3>3
  <2>6. a[x] \in Items
    BY <1>2, <2>4, <2>5 DEF Filed
  <2>7. PICK z : z = a[x]
    OBVIOUS
  <2>8. z \in C /\ z \in Items /\ t[z].holder = a[z] /\ a[z] # Gone
    BY <1>11, <2>4, <2>6, <2>7
  <2>9. t[z].top = h
    BY <1>2, <2>4, <2>5, <2>7, <2>8 DEF Matched
  <2>10. z \in new
    BY <2>1, <2>3, <2>7, <2>8, <2>9
  <2> QED BY <1>8, <1>9, <2>4, <2>7, <2>10
<1>13. ASSUME NEW x \in C, x \notin new PROVE u[x].holder = a[x]
  <2>1. c[x] = t[x]
    BY <1>3, <1>9, <1>12, <1>13
  <2>2. c[x].holder \notin new
    BY <1>8, <1>9, <1>13, <2>1
  <2> QED BY <1>4, <1>5, <1>9, <1>13, <2>1, <2>2
<1> QED BY <1>1, <1>10, <1>13

Trusty(F, a) ==
  {s \in Saves : /\ Proper(s.at, s.what) /\ Files(s.at, s.what)
                 /\ Faithful(s.at, s.what, s.delete, F, a)}

\* The tables that a sequence of such saves goes through, and the last of them.
LEMMA RecordsKept ==
  ASSUME saved \in FiledRows, NEW a, Grounded(a), \A x \in Items : a[x] # Nobody,
         NEW F, F \subseteq Items, NEW saves \in Seq(Trusty(F, a))
  PROVE  /\ Last(Tables(saves)) \in FiledRows /\ Len(Tables(saves)) \in Nat
         /\ \A i \in 1..Len(Tables(saves)) : Tables(saves)[i] \in FiledRows
         /\ \A C \in SUBSET F :
              /\ \A x \in C : a[x] \in Items => a[x] \in C
              /\ \A x \in C : saved[x].holder = a[x]
              => \A x \in C : Last(Tables(saves))[x].holder = a[x]
<1>1. PICK S, K : S = Trusty(F, a) /\ K = FiledRows
  OBVIOUS
<1>2. \A s \in S : /\ Proper(s.at, s.what) /\ Files(s.at, s.what)
                   /\ Faithful(s.at, s.what, s.delete, F, a)
  BY <1>1 DEF Trusty
<1>3. \A s \in S : \A t \in K :
        /\ Cleaned(t, s.what, s.delete) \in K /\ Limboed(t, s.at, s.what, s.delete) \in K
        /\ Removed(t, s.at, s.what, s.delete) \in K /\ Inserted(t, s.at, s.what, s.delete) \in K
  BY ONLY <1>1, <1>2, FiledKept
<1>4. saved \in K /\ saves \in Seq(S)
  BY <1>1
<1>5. \E n \in Nat : \E last :
        /\ n = Len(saves) /\ last[0] = saved /\ \A k \in 0..n : last[k] \in K
        /\ \A k \in 1..n : last[k] = Inserted(last[k-1], saves[k].at, saves[k].what, saves[k].delete)
        /\ Last(Tables(saves)) = last[n]
        /\ Tables(saves) \in Seq(K) /\ Tables(saves) # <<>>
  BY ONLY <1>3, <1>4, TablesFacts
<1>6. PICK n \in Nat : \E last :
        /\ n = Len(saves) /\ last[0] = saved /\ \A k \in 0..n : last[k] \in K
        /\ \A k \in 1..n : last[k] = Inserted(last[k-1], saves[k].at, saves[k].what, saves[k].delete)
        /\ Last(Tables(saves)) = last[n]
        /\ Tables(saves) \in Seq(K) /\ Tables(saves) # <<>>
  BY ONLY <1>5
<1>7. PICK last :
        /\ n = Len(saves) /\ last[0] = saved /\ \A k \in 0..n : last[k] \in K
        /\ \A k \in 1..n : last[k] = Inserted(last[k-1], saves[k].at, saves[k].what, saves[k].delete)
        /\ Last(Tables(saves)) = last[n]
        /\ Tables(saves) \in Seq(K) /\ Tables(saves) # <<>>
  BY ONLY <1>6
<1>8. n \in 0..n /\ 0 \in 0..n
  OBVIOUS
<1>9. Last(Tables(saves)) \in K /\ Len(Tables(saves)) \in Nat
      /\ \A i \in 1..Len(Tables(saves)) : Tables(saves)[i] \in K
  BY ONLY <1>7, <1>8
<1>10. ASSUME NEW C \in SUBSET F, \A x \in C : a[x] \in Items => a[x] \in C, \A x \in C : saved[x].holder = a[x]
       PROVE  \A x \in C : last[n][x].holder = a[x]
  <2> DEFINE T == {k \in 0..n : \A x \in C : last[k][x].holder = a[x]}
  <2>1. 0 \in T
    BY <1>7, <1>8, <1>10
  <2>2. ASSUME NEW k \in T, k \in 0..(n-1) PROVE k + 1 \in T
    <3>1. k + 1 \in 1..n /\ k + 1 \in 0..n /\ (k + 1) - 1 = k /\ k \in 0..n
      BY <2>2
    <3>2. PICK t, s : t = last[k] /\ s = saves[k+1]
      OBVIOUS
    <3>3. t \in FiledRows /\ s \in S
      BY <1>1, <1>4, <1>7, <3>1, <3>2
    <3>4. \A x \in C : t[x].holder = a[x]
      BY <3>2
    <3>5. last[k+1] = Inserted(t, s.at, s.what, s.delete)
      BY <1>7, <3>1, <3>2
    <3>6. /\ Proper(s.at, s.what) /\ Files(s.at, s.what)
          /\ Faithful(s.at, s.what, s.delete, F, a)
      BY <1>2, <3>3
    <3>7. C \subseteq F
      OBVIOUS
    <3>8. \A x \in C : Inserted(t, s.at, s.what, s.delete)[x].holder = a[x]
      BY ONLY <1>10, <3>3, <3>4, <3>6, <3>7, Grounded(a), \A x \in Items : a[x] # Nobody,
              F \subseteq Items, SaveRecords
    <3> QED BY <3>1, <3>5, <3>8
  <2>3. 0..n \subseteq T
    <3> HIDE DEF T
    <3> QED BY <2>1, <2>2, Induct
  <2>4. n \in T
    <3> HIDE DEF T
    <3> QED BY <1>8, <2>3
  <2> QED BY <2>4
<1> QED BY ONLY <1>1, <1>7, <1>9, <1>10

\* A save of what one holder has, as it is after the move or on the way there.
LEMMA HolderTrusty ==
  ASSUME NEW F, F \subseteq Items, NEW a, NEW at \in [Items -> Holders \cup {Gone}], Nested(at),
         \A x \in F : at[x] = a[x], NEW h \in Holders, h \in Items => h \in Containers
  PROVE  /\ h \notin Rooms \ Vaults => ItemSave(at, h) \in Trusty(F, a)
         /\ h \in Rooms \ Vaults => CorpseSave(at, h) \in Trusty(F, a)
<1>1. PICK H, R : H = Held(at, h) /\ R = Held(at, h) \cap Corpses
  OBVIOUS
<1> PICK d \in BOOLEAN : d = TRUE
  OBVIOUS
<1>2. /\ H \subseteq Items /\ R \subseteq H /\ R \subseteq Corpses
      /\ \A x \in Items : (x \in H <=> at[x] = h) /\ (x \in R <=> at[x] = h /\ x \in Corpses)
  BY <1>1 DEF Held
<1>3. ASSUME NEW X, X \subseteq H, h \in Rooms \ Vaults => X \subseteq Corpses,
             \A x \in H : (h \in Rooms \ Vaults => x \in Corpses) => x \in X
      PROVE  [at |-> at, what |-> [x \in {h} |-> X], delete |-> d] \in Trusty(F, a)
  <2>1. PICK what, s : what = [x \in {h} |-> X] /\ s = [at |-> at, what |-> what, delete |-> d]
    OBVIOUS
  <2>2. DOMAIN what = {h} /\ what[h] = X /\ X \subseteq Items
    BY <1>2, <1>3, <2>1
  <2>3. Proper(at, what)
    BY <2>1, <2>2, ProperOne
  <2>4. Files(at, what)
    BY <1>3, <2>2 DEF Files
  <2>5. Faithful(at, what, d, F, a)
    BY <1>2, <1>3, <2>2 DEF Faithful
  <2>6. what \in [{h} -> SUBSET Items] /\ {h} \in SUBSET (Holders \cup {Nobody})
    BY <2>1, <2>2
  <2>7. s \in Saves
    BY <2>1, <2>6 DEF Saves
  <2>8. s.at = at /\ s.what = what /\ s.delete = d
    BY <2>1
  <2> QED BY <2>1, <2>3, <2>4, <2>5, <2>7, <2>8 DEF Trusty
<1>4. /\ ItemSave(at, h) = [at |-> at, what |-> [x \in {h} |-> H], delete |-> d]
      /\ CorpseSave(at, h) = [at |-> at, what |-> [x \in {h} |-> R], delete |-> d]
  BY <1>1, Zenon DEF ItemSave, CorpseSave, SaveOf
<1>5. h \notin Rooms \ Vaults => ItemSave(at, h) \in Trusty(F, a)
  BY <1>3, <1>4
<1>6. h \in Rooms \ Vaults => CorpseSave(at, h) \in Trusty(F, a)
  BY <1>2, <1>3, <1>4
<1> QED BY <1>5, <1>6

\* What is taken from a vault is not what stays.
LEMMA UnsaveTrusty ==
  ASSUME where \in [Items -> Holders \cup {Gone}], Nested(where), NEW o \in Items, NEW F, F \subseteq Items, o \notin F
  PROVE  Unsave(o) \in Trusty(F, where)
<1>1. PICK at, X, what : /\ at = [where EXCEPT ![o] = Gone] /\ X = {o} /\ what = [x \in {Nobody} |-> X]
  OBVIOUS
<1> PICK d \in BOOLEAN : d = FALSE
  OBVIOUS
<1>2. at \in [Items -> Holders \cup {Gone}] /\ \A x \in Items : at[x] = IF x = o THEN Gone ELSE where[x]
  BY <1>1
<1>3. Nested(at)
  BY <1>2, Kinds DEF Nested
<1>4. DOMAIN what = {Nobody} /\ what[Nobody] = X /\ X \subseteq Items
  BY <1>1
<1>5. Nobody \notin Items /\ Nobody \notin Rooms /\ Nobody \in Holders \cup {Nobody}
  BY Kinds
<1>6. Proper(at, what)
  <2>1. what = [x \in {Nobody} |-> X] /\ X \subseteq Items
    BY <1>1, <1>4
  <2> QED BY ONLY <1>2, <1>5, <2>1, ProperOne
<1>7. Files(at, what)
  BY <1>3, <1>4, <1>5 DEF Files
<1>8. Faithful(at, what, d, F, where)
  BY <1>1, <1>2, <1>4 DEF Faithful
<1>9. what \in [{Nobody} -> SUBSET Items] /\ {Nobody} \in SUBSET (Holders \cup {Nobody})
  BY <1>1, <1>4
<1>10. PICK s : s = [at |-> at, what |-> what, delete |-> d]
  OBVIOUS
<1>11. s \in Saves /\ s.at = at /\ s.what = what /\ s.delete = d
  BY <1>2, <1>9, <1>10 DEF Saves
<1>12. Unsave(o) = s
  BY <1>1, <1>10, Zenon DEF Unsave
<1> QED BY <1>6, <1>7, <1>8, <1>11, <1>12 DEF Trusty

LEMMA ListsTrusty ==
  ASSUME NEW F, NEW a
  PROVE  /\ <<>> \in Seq(Trusty(F, a))
         /\ \A s \in Trusty(F, a) : <<s>> \in Seq(Trusty(F, a))
         /\ \A s, u \in Trusty(F, a) : <<s, u>> \in Seq(Trusty(F, a))
OBVIOUS

LEMMA AtOnceTrusty ==
  ASSUME NEW F, NEW a, NEW h, NEW saves, h \in Vaults \cup {Chest} => saves \in Seq(Trusty(F, a))
  PROVE  AtOnce(h, saves) \in Seq(Trusty(F, a))
BY ListsTrusty DEF AtOnce

\* The autosave: all that the players have, and the corpses of rooms that are
\* no vaults.
LEMMA AutoSaveTrusty ==
  ASSUME ItemInv, Standing PROVE AutoSaved \in Trusty(Items, where)
<1>1. PICK ps, what : /\ ps = {p \in Players : link[p] # "out"}
                      /\ what = [h \in ps \cup corpseRooms |->
                                   IF h \in ps THEN Held(where, h) ELSE Held(where, h) \cap Corpses]
  OBVIOUS
<1> PICK d \in BOOLEAN : d = TRUE
  OBVIOUS
<1>2. AutoSaved = [at |-> where, what |-> what, delete |-> d]
  BY <1>1, Zenon DEF AutoSaved, SavePlayersAndCorpses, SaveOf
<1>3. AutoSaved.at = where /\ AutoSaved.what = what /\ AutoSaved.delete = d
  BY <1>2
<1>4. AutoSaved \in Saves /\ Proper(where, what)
  BY <1>3, AutoSavedFacts DEF Sparing
<1>5. Nested(where) /\ corpseRooms \subseteq Rooms \ Vaults
  BY DEF Standing, Grounded
<1>6. /\ DOMAIN what = ps \cup corpseRooms /\ ps \subseteq Players
      /\ \A h \in ps : what[h] = Held(where, h)
      /\ \A h \in corpseRooms : what[h] = Held(where, h) \cap Corpses
  <2>1. corpseRooms \cap ps = {}
    BY <1>1, <1>5, Kinds
  <2> QED BY <1>1, <2>1
<1>7. \A h \in DOMAIN what : h \notin Items /\ ((h \in ps /\ h \notin Rooms) \/ h \in corpseRooms)
  BY <1>5, <1>6, Kinds
<1>8. Files(where, what)
  BY <1>5, <1>6, <1>7 DEF Files
<1>9. Faithful(where, what, d, Items, where)
  <2>1. \A h \in DOMAIN what : \A x \in Items : x \in what[h] => where[x] = h
    BY <1>6, <1>7 DEF Held
  <2>2. \A h \in DOMAIN what : \A x \in Items :
          where[x] = h /\ (h \in Rooms \ Vaults => x \in Corpses) => x \in what[h]
    BY <1>5, <1>6, <1>7 DEF Held
  <2> QED BY <2>1, <2>2 DEF Faithful
<1> QED BY <1>3, <1>4, <1>8, <1>9 DEF Trusty

\* What is dropped, piece after piece.
LEMMA DropsTrusty ==
  ASSUME NEW F, F \subseteq Items, NEW a, NEW at \in [Items -> Holders \cup {Gone}], Nested(at),
         NEW p \in Players, NEW r \in Rooms, \A x \in F : at[x] = a[x] /\ at[x] # p
  PROVE  DropSaves(at, p, r) \in Seq(Trusty(F, a))
<1>1. PICK mine : mine = SetToSeq(Held(at, p))
  OBVIOUS
<1>2. Held(at, p) \subseteq Items /\ \A o \in Held(at, p) : at[o] = p
  BY DEF Held
<1>3. mine \in Seq(Held(at, p))
  BY <1>1, <1>2, Kinds, FS_Subset, Listed
<1>4. r \in Holders /\ r \notin Items
  BY Kinds
<1> DEFINE after(n) == [o \in Items |-> IF o \in {mine[i] : i \in 1..n} THEN r ELSE at[o]]
<1>5. ASSUME r \in Vaults \cup {Chest}, NEW n \in 1..Len(mine) PROVE ItemSave(after(n), r) \in Trusty(F, a)
  <2>1. PICK S : S = {mine[i] : i \in 1..n}
    OBVIOUS
  <2>2. \A o \in S : at[o] = p
    <3>1. \A i \in 1..n : mine[i] \in Held(at, p)
      BY <1>3
    <3> QED BY <1>2, <2>1, <3>1
  <2>3. PICK b : b = after(n)
    OBVIOUS
  <2>4. b = [o \in Items |-> IF o \in S THEN r ELSE at[o]]
    BY <2>1, <2>3
  <2>5. b \in [Items -> Holders \cup {Gone}] /\ \A o \in Items : b[o] = IF o \in S THEN r ELSE at[o]
    BY <1>4, <2>4
  <2>6. Nested(b)
    BY <1>4, <2>5 DEF Nested
  <2>7. \A x \in F : b[x] = a[x]
    BY <2>2, <2>5
  <2>8. r \notin Rooms \ Vaults
    BY <1>5, Kinds
  <2> QED BY ONLY <1>4, <2>3, <2>5, <2>6, <2>7, <2>8, F \subseteq Items, HolderTrusty
<1> HIDE DEF after
<1>6. PICK saves : saves = [n \in 1..Len(mine) |-> ItemSave(after(n), r)]
  OBVIOUS
<1>7. r \in Vaults \cup {Chest} => saves \in Seq(Trusty(F, a))
  BY <1>3, <1>5, <1>6
<1>8. DropSaves(at, p, r) = AtOnce(r, saves)
  BY <1>1, <1>6, Zenon DEF DropSaves, after
<1> QED BY <1>7, <1>8, AtOnceTrusty

\* What the end of a game saves files everything as it should.
LEMMA RentedNested ==
  ASSUME ItemInv, Nested(where), NEW r \in Rooms, NEW n
  PROVE  /\ Rented(n) \in [Items -> Holders \cup {Gone}] /\ Nested(Rented(n))
         /\ LeftTo(r, n) \in [Items -> Holders \cup {Gone}] /\ Nested(LeftTo(r, n))
<1>1. \A m : Nested(Rented(m))
  <2>1. ASSUME NEW m PROVE Nested(Rented(m))
    <3>1. \A o \in Items : Rented(m)[o] = Gone \/ Rented(m)[o] = where[o]
      BY ExtractedFacts DEF Rented
    <3> QED BY <3>1, Kinds DEF Nested
  <2> QED BY <2>1
<1>2. PICK at, b, S : at = Rented(Len(Bodies)) /\ b = LeftTo(r, n) /\ S = {Lost[i] : i \in 1..n}
  OBVIOUS
<1>3. b = [o \in Items |-> IF at[o] \in S THEN r ELSE at[o]]
  BY <1>2 DEF LeftTo
<1>4. Nested(b)
  <2>1. \A o \in Items : b[o] = r \/ b[o] = at[o]
    BY <1>3
  <2>2. Nested(at) /\ r \notin Items
    BY <1>1, <1>2, Kinds
  <2> QED BY <2>1, <2>2 DEF Nested
<1> QED BY <1>1, <1>2, <1>4, LeftToFacts

LEMMA CopiesTrusty ==
  ASSUME ItemInv, Nested(where), NEW S \in SUBSET prompts
  PROVE  Copies(S) \in Seq(Trusty({}, where))
<1>1. where \in [Items -> Holders \cup {Gone}] /\ prompts \subseteq Players
  BY DEF ItemInv, ItemType
<1>2. PICK ps : ps = SetToSeq(S)
  OBVIOUS
<1>3. ps \in Seq(S)
  BY <1>2, BodiesFacts
<1>4. ASSUME NEW n \in 1..Len(ps) PROVE SaveOf(where, [x \in {ps[n]} |-> {}]) \in Trusty({}, where)
  <2>1. PICK p, none, what : p = ps[n] /\ none = {} /\ what = [x \in {p} |-> none]
    OBVIOUS
  <2> PICK d \in BOOLEAN : d = TRUE
    OBVIOUS
  <2>2. p \in Holders \cup {Nobody} /\ p \notin Items
    <3>1. p \in S
      BY <1>3, <2>1
    <3> QED BY <1>1, <3>1, Kinds
  <2>3. none \subseteq Items
    BY <2>1
  <2>4. Proper(where, what)
    <3>1. p \in Holders \cup {Nobody} /\ what = [x \in {p} |-> none]
      BY <2>1, <2>2
    <3>2. where \in [Items -> Holders \cup {Gone}]
      BY <1>1
    <3> QED BY ONLY <2>3, <3>1, <3>2, ProperOne
  <2>5. DOMAIN what = {p} /\ what[p] = {}
    BY <2>1
  <2>6. Files(where, what)
    BY <2>2, <2>5 DEF Files
  <2>7. Faithful(where, what, d, {}, where)
    BY DEF Faithful
  <2>8. what \in [{p} -> SUBSET Items] /\ {p} \in SUBSET (Holders \cup {Nobody})
    BY <2>1, <2>2
  <2>9. PICK s : s = [at |-> where, what |-> what, delete |-> d]
    OBVIOUS
  <2>10. s \in Saves /\ s.at = where /\ s.what = what /\ s.delete = d
    BY <1>1, <2>8, <2>9 DEF Saves
  <2>11. SaveOf(where, [x \in {ps[n]} |-> {}]) = s
    BY <2>1, <2>9, Zenon DEF SaveOf
  <2> QED BY <2>4, <2>6, <2>7, <2>10, <2>11 DEF Trusty
<1> DEFINE e(n) == SaveOf(where, [x \in {ps[n]} |-> {}])
<1>5. \A n \in 1..Len(ps) : e(n) \in Trusty({}, where)
  BY <1>4
<1>6. Copies(S) = [n \in 1..Len(ps) |-> e(n)]
  BY <1>2, Zenon DEF Copies
<1> HIDE DEF e
<1>7. Len(ps) \in Nat
  BY <1>3
<1>8. \A n \in 1..Len(ps) : Copies(S)[n] = e(n)
  BY ONLY <1>6
<1>9. Copies(S) = [n \in 1..Len(ps) |-> Copies(S)[n]] /\ \A n \in 1..Len(ps) : Copies(S)[n] \in Trusty({}, where)
  BY ONLY <1>5, <1>6, <1>8
<1> QED BY ONLY <1>7, <1>9, EntriesListed

LEMMA LastSavesTrusty ==
  ASSUME ItemInv, Nested(where), NEW r \in Rooms, NEW early \in SUBSET prompts
  PROVE  Copies(early) \o RentSaves \o Copies(prompts \ early) \o Joined(LostSaves(r)) \in Seq(Trusty({}, where))
<1>1. PICK none, T : none = {} /\ T = Trusty({}, where)
  OBVIOUS
<1>2. ASSUME NEW n \in 1..Len(Bodies) PROVE ItemSave(Rented(n - 1), Bodies[n]) \in T
  <2>1. PICK p, at : p = Bodies[n] /\ at = Rented(n - 1)
    OBVIOUS
  <2>2. p \in Players
    BY <2>1, BodiesFacts
  <2>3. p \in Holders /\ p \notin Rooms \ Vaults /\ p \notin Items
    BY <2>2, Kinds
  <2>4. at \in [Items -> Holders \cup {Gone}] /\ Nested(at)
    BY <2>1, RentedNested
  <2>5. none \subseteq Items /\ \A x \in none : at[x] = where[x]
    BY <1>1
  <2>6. ItemSave(at, p) \in Trusty(none, where)
    BY ONLY <2>3, <2>4, <2>5, HolderTrusty
  <2> QED BY <1>1, <2>1, <2>6
<1>3. RentSaves \in Seq(T)
  BY ONLY ItemInv, <1>2, RentListed
<1>4. ASSUME NEW n \in 1..Len(Lost) PROVE DropSaves(LeftTo(r, n - 1), Lost[n], r) \in Seq(T)
  <2>1. PICK p, at : p = Lost[n] /\ at = LeftTo(r, n - 1)
    OBVIOUS
  <2>2. p \in Players
    BY <2>1, BodiesFacts
  <2>3. at \in [Items -> Holders \cup {Gone}] /\ Nested(at)
    BY <2>1, RentedNested
  <2>4. none \subseteq Items /\ \A x \in none : at[x] = where[x] /\ at[x] # p
    BY <1>1
  <2>5. DropSaves(at, p, r) \in Seq(Trusty(none, where))
    BY ONLY <2>2, <2>3, <2>4, r \in Rooms, DropsTrusty
  <2> QED BY <1>1, <2>1, <2>5
<1> DEFINE e(n) == DropSaves(LeftTo(r, n - 1), Lost[n], r)
<1>5. LostSaves(r) = [n \in 1..Len(Lost) |-> e(n)] /\ \A n \in 1..Len(Lost) : e(n) \in Seq(T)
  BY <1>4, Zenon DEF LostSaves
<1> HIDE DEF e
<1>6. /\ LostSaves(r) = [n \in 1..Len(Lost) |-> LostSaves(r)[n]]
      /\ \A n \in 1..Len(Lost) : LostSaves(r)[n] \in Seq(T)
  BY ONLY <1>5
<1>7. Len(Lost) \in Nat
  BY BodiesFacts
<1>8. LostSaves(r) \in Seq(Seq(T))
  BY ONLY <1>6, <1>7, EntriesListed
<1>9. Joined(LostSaves(r)) \in Seq(T)
  BY ONLY <1>8, JoinedFacts
<1>10. Copies(early) \in Seq(T) /\ Copies(prompts \ early) \in Seq(T)
  <2>1. early \in SUBSET prompts /\ (prompts \ early) \in SUBSET prompts
    OBVIOUS
  <2>2. \A S \in SUBSET prompts : Copies(S) \in Seq(T)
    BY ONLY <1>1, ItemInv, Nested(where), CopiesTrusty
  <2> QED BY ONLY <2>1, <2>2
<1>11. Copies(early) \o RentSaves \o Copies(prompts \ early) \o Joined(LostSaves(r)) \in Seq(T)
  BY ONLY <1>3, <1>9, <1>10
<1> QED BY <1>1, <1>11

-------------------------------------------------------------------------------
(* Where the objects are afterwards: still in no circles.                  *)

LEMMA MovedGrounded ==
  ASSUME ItemInv, Grounded(where), NEW o \in Items, NEW h \in Holders,
         h \in Items => h \in Bags /\ h # o /\ where[h] \notin Items \cup {Gone}
  PROVE  Grounded(Moved(o, h))
<1>1. PICK at : at = Moved(o, h)
  OBVIOUS
<1>2. where \in [Items -> Holders \cup {Gone}]
  BY DEF ItemInv, ItemType
<1>3. \A x \in Items : at[x] = IF x = o THEN h ELSE where[x]
  BY <1>1, <1>2 DEF Moved
<1>4. /\ Nested(where) /\ \A x \in Items : where[x] \in Items => where[where[x]] # Gone
      /\ \A S \in SUBSET Items : S # {} => \E x \in S : where[x] \notin S
  BY DEF Grounded
<1>5. Nested(at)
  BY <1>3, <1>4 DEF Nested, Containers
<1>6. \A x \in Items : at[x] \in Items => at[at[x]] # Gone
  <2>1. h # Gone
    BY Kinds
  <2> QED BY <1>3, <1>4, <2>1
<1>7. ASSUME NEW S \in SUBSET Items, S # {} PROVE \E x \in S : at[x] \notin S
  <2>1. PICK x \in S : where[x] \notin S
    BY <1>4, <1>7
  <2>2. CASE x # o
    BY <1>3, <2>1, <2>2
  <2>3. CASE o \in S /\ h \notin S
    BY <1>3, <2>3
  <2>4. CASE o \in S /\ h \in S
    BY <1>3, <2>4
  <2> QED BY <2>1, <2>2, <2>3, <2>4
<1> QED BY <1>1, <1>5, <1>6, <1>7 DEF Grounded

LEMMA ExtractedGrounded ==
  ASSUME ItemInv, Grounded(where), NEW X, X \subseteq Items PROVE Grounded(Extracted(where, X))
<1>1. PICK at, U : at = Extracted(where, X) /\ U = Under(where, X)
  OBVIOUS
<1>2. \A o \in Items : at[o] = IF o \in U THEN Gone ELSE where[o]
  BY <1>1, ExtractedFacts
<1>3. /\ Nested(where) /\ \A x \in Items : where[x] \in Items => where[where[x]] # Gone
      /\ \A S \in SUBSET Items : S # {} => \E x \in S : where[x] \notin S
  BY DEF Grounded
<1>4. \A o \in Items : where[o] \in U => o \in U
  BY <1>1, <1>3, UnderClosed
<1>5. Gone \notin Items
  BY Kinds
<1>6. Nested(at)
  BY <1>2, <1>3, <1>5 DEF Nested
<1>7. \A x \in Items : at[x] \in Items => at[at[x]] # Gone
  BY <1>2, <1>3, <1>4, <1>5
<1>8. \A S \in SUBSET Items : S # {} => \E x \in S : at[x] \notin S
  BY <1>2, <1>3, <1>5
<1> QED BY <1>1, <1>6, <1>7, <1>8 DEF Grounded

LEMMA DroppedGrounded ==
  ASSUME Grounded(where), NEW p \in Players, NEW r \in Rooms PROVE Grounded(Dropped(where, p, r))
<1>1. PICK at : at = Dropped(where, p, r)
  OBVIOUS
<1>2. \A o \in Items : at[o] = IF where[o] = p THEN r ELSE where[o]
  BY <1>1 DEF Dropped
<1>3. r \notin Items /\ r # Gone
  BY Kinds
<1>4. Nested(at)
  BY <1>2, <1>3 DEF Nested, Grounded
<1>5. \A x \in Items : at[x] \in Items => at[at[x]] # Gone
  BY <1>2, <1>3 DEF Grounded
<1>6. \A S \in SUBSET Items : S # {} => \E x \in S : at[x] \notin S
  BY <1>2, <1>3 DEF Grounded
<1> QED BY <1>1, <1>4, <1>5, <1>6 DEF Grounded

\* A corpse comes from nowhere, with everything that p had.
LEMMA DiedGrounded ==
  ASSUME Grounded(where), NEW p \in Players, NEW c \in Corpses, NEW r \in Rooms, where[c] = Gone,
         NEW at, at = [o \in Items |-> IF o = c THEN r ELSE IF where[o] = p THEN c ELSE where[o]]
  PROVE  Grounded(at)
<1>1. \A o \in Items : at[o] = IF o = c THEN r ELSE IF where[o] = p THEN c ELSE where[o]
  OBVIOUS
<1>2. r \notin Items /\ r # Gone /\ c \in Items /\ c \in Containers /\ c # Gone
  BY Kinds DEF Containers
<1>3. /\ Nested(where) /\ \A x \in Items : where[x] \in Items => where[where[x]] # Gone
      /\ \A S \in SUBSET Items : S # {} => \E x \in S : where[x] \notin S
  BY DEF Grounded
<1>4. Nested(at)
  BY <1>1, <1>2, <1>3 DEF Nested
<1>5. \A x \in Items : at[x] \in Items => at[at[x]] # Gone
  BY <1>1, <1>2, <1>3
<1>6. ASSUME NEW S \in SUBSET Items, S # {} PROVE \E x \in S : at[x] \notin S
  <2>1. PICK x \in S : where[x] \notin S
    BY <1>3, <1>6
  <2>2. CASE c \in S
    BY <1>1, <1>2, <2>2
  <2>3. CASE c \notin S
    BY <1>1, <2>1, <2>3
  <2> QED BY <2>2, <2>3
<1> QED BY <1>4, <1>5, <1>6 DEF Grounded

LEMMA EnteredGrounded ==
  ASSUME ItemInv, Standing, NEW p \in Players, link[p] = "out", NEW at,
         at = [o \in Items |-> IF o \in LoadedBy(saved, p) THEN saved[o].holder ELSE where[o]]
  PROVE  Grounded(at)
<1>1. PICK L, homes : L = LoadedBy(saved, p) /\ homes = Homes(saved)
  OBVIOUS
<1>2. \A o \in Items : /\ homes[o] = saved[o].holder
                       /\ at[o] = IF o \in L THEN homes[o] ELSE where[o]
  BY <1>1 DEF Homes
<1>3. /\ L \subseteq Items /\ L = Carried(homes, p)
      /\ \A o \in L : homes[o] = p \/ homes[o] \in L
  BY <1>1, <1>2, LoadedFacts DEF Carried
<1>4. \A o \in L : where[o] = Gone
  BY <1>1 DEF ItemInv, NothingTwice
<1>5. Gone \notin Items /\ p \notin Items /\ p # Gone
  BY Kinds
<1>6. Nested(homes)
  BY <1>2 DEF Nested, Standing, Filed
<1>7. /\ Nested(where) /\ \A x \in Items : where[x] \in Items => where[where[x]] # Gone
      /\ \A S \in SUBSET Items : S # {} => \E x \in S : where[x] \notin S
  BY DEF Standing, Grounded
<1>8. Nested(at)
  BY <1>2, <1>6, <1>7 DEF Nested
<1>9. \A x \in Items : at[x] \in Items => at[at[x]] # Gone
  <2>1. ASSUME NEW x \in L, at[x] \in Items PROVE at[at[x]] # Gone
    <3>1. at[x] \in L
      BY <1>2, <1>3, <1>5, <2>1
    <3> QED BY <1>2, <1>3, <1>5, <3>1
  <2>2. ASSUME NEW x \in Items, x \notin L, at[x] \in Items PROVE at[at[x]] # Gone
    <3>1. at[x] = where[x] /\ where[at[x]] # Gone
      BY <1>2, <1>7, <2>2
    <3>2. at[x] \notin L
      BY <1>4, <3>1
    <3> QED BY <1>2, <2>2, <3>1, <3>2
  <2> QED BY <2>1, <2>2
<1>10. ASSUME NEW S \in SUBSET Items, S # {} PROVE \E x \in S : at[x] \notin S
  <2>1. CASE S \cap L = {}
    BY <1>2, <1>7, <1>10, <2>1
  <2>2. CASE S \cap L # {}
    <3>1. \E x \in S \cap L : homes[x] \notin S
      BY <1>3, <1>5, <1>6, <1>10, <2>2, CarriedGrounded
    <3> QED BY <1>2, <3>1
  <2> QED BY <2>1, <2>2
<1> QED BY <1>8, <1>9, <1>10 DEF Grounded

LEMMA BootedGrounded ==
  ASSUME NEW t \in FiledRows PROVE Grounded(Booted(t))
<1> DEFINE kind(o) == IF t[o].top \in Rooms THEN Rooms ELSE {t[o].top} \cap {Chest}
           h(o) == t[o].holder
           stays(o) == h(o) \in kind(o) \/ (h(o) \in Items /\ kind(o) # {} /\ kind(h(o)) = kind(o))
<1>1. PICK at : at = [o \in Items |-> IF stays(o) THEN h(o) ELSE Gone]
  OBVIOUS
<1>2. PICK placed, K : placed = UNION {Carried(at, k) : k \in K} /\ K = Rooms \cup {Chest}
  OBVIOUS
<1>3. PICK b : b = Booted(t)
  OBVIOUS
<1>4. b = [o \in Items |-> IF o \in placed THEN at[o] ELSE Gone]
  BY <1>1, <1>2, <1>3, Zenon DEF Booted
<1>5. \A o \in Items : at[o] = t[o].holder \/ at[o] = Gone
  BY <1>1
<1> HIDE DEF stays, h, kind
<1>6. \A o \in Items : b[o] = IF o \in placed THEN at[o] ELSE Gone
  BY <1>4
<1>7. Gone \notin Items /\ \A k \in K : k \notin Items /\ k # Gone
  BY <1>2, Kinds
<1>8. Nested(at)
  <2>1. \A o \in Items : t[o].holder \in Items => t[o].holder \in Containers
    BY DEF FiledRows, Filed
  <2> QED BY <1>5, <1>7, <2>1 DEF Nested
<1>9. ASSUME NEW k \in K
      PROVE  /\ Carried(at, k) \subseteq Items
             /\ \A o \in Carried(at, k) : at[o] # Gone /\ (at[o] = k \/ at[o] \in Carried(at, k))
  <2>1. PICK H : H = Held(at, k)
    OBVIOUS
  <2>2. H \subseteq Items /\ \A o \in H : at[o] = k
    BY <2>1 DEF Held
  <2>3. \A o \in H : at[o] # Gone
    BY <1>7, <2>2
  <2>4. Under(at, H) \subseteq Items /\ \A o \in Under(at, H) : o \in H \/ at[o] \in Under(at, H)
    BY <2>2, UnderFacts
  <2>5. \A o \in Under(at, H) : at[o] # Gone
    BY <2>2, <2>3, AbsentUnderNone
  <2> QED BY <2>1, <2>2, <2>4, <2>5 DEF Carried
<1>10. Nested(b)
  BY <1>6, <1>7, <1>8 DEF Nested
<1>11. ASSUME NEW x \in Items, b[x] \in Items PROVE b[b[x]] # Gone
  <2>1. x \in placed /\ b[x] = at[x]
    BY <1>6, <1>7, <1>11
  <2>2. PICK k \in K : x \in Carried(at, k)
    BY <1>2, <2>1
  <2>3. at[x] \in Carried(at, k)
    BY <1>7, <1>9, <1>11, <2>1, <2>2
  <2>4. at[x] \in placed /\ at[at[x]] # Gone
    BY <1>2, <1>9, <2>3
  <2> QED BY <1>6, <1>11, <2>1, <2>4
<1>12. ASSUME NEW S \in SUBSET Items, S # {} PROVE \E x \in S : b[x] \notin S
  <2>1. CASE S \cap placed = {}
    BY <1>6, <1>7, <1>12, <2>1
  <2>2. CASE S \cap placed # {}
    <3>1. PICK k \in K : S \cap Carried(at, k) # {}
      BY <1>2, <2>2
    <3>2. \E x \in S \cap Carried(at, k) : at[x] \notin S
      BY <1>7, <1>8, <1>12, <3>1, CarriedGrounded
    <3>3. PICK x \in S \cap Carried(at, k) : at[x] \notin S
      BY <3>2
    <3>4. x \in placed
      BY <1>2, <3>3
    <3> QED BY <1>6, <1>12, <3>3, <3>4
  <2> QED BY <2>1, <2>2
<1> QED BY <1>3, <1>10, <1>11, <1>12 DEF Grounded

-------------------------------------------------------------------------------
(* What stays where it is keeps its record.                                *)

\* What SavesKeepOthers says of a step.
Keeping ==
  stops' = stops =>
    \A o \in Items :
      /\ Recorded(saved, where, o)
      /\ \A x \in Chain(where, o) : where'[x] = where[x]
      => Recorded(saved', where', o)

LEMMA BootStands ==
  ASSUME NEW t \in FiledRows, stops \in Nat, Boot(t) PROVE Standing' /\ Keeping
<1>1. /\ where' = Booted(t) /\ saved' = t /\ corpseRooms' = RoomsWithCorpses(Booted(t))
      /\ stops' = stops + 1
  BY DEF Boot
<1>2. PICK at : at = Booted(t)
  OBVIOUS
<1>3. Grounded(at) /\ Filed(t) /\ RoomsWithCorpses(at) \subseteq Rooms \ Vaults
  BY <1>2, BootedGrounded DEF FiledRows, RoomsWithCorpses
<1>4. Grounded(where')
  BY <1>1, <1>2, <1>3
<1>5. Standing'
  <2>1. Filed(saved') /\ corpseRooms' \subseteq Rooms \ Vaults
    BY <1>1, <1>2, <1>3
  <2> QED BY <1>4, <2>1 DEF Standing, Grounded, Filed, Nested
<1>6. stops' # stops
  BY <1>1
<1> QED BY <1>5, <1>6 DEF Keeping

\* The game is as it was for the objects F, and so is the table for what is in
\* nothing but these.
LEMMA RecordsStay ==
  ASSUME where \in [Items -> Holders \cup {Gone}], Nested(where),
         NEW F, F \subseteq Items, NEW at, \A x \in Items : x \in F <=> at[x] = where[x],
         NEW t,
         \A C \in SUBSET F :
           /\ \A x \in C : where[x] \in Items => where[x] \in C
           /\ \A x \in C : saved[x].holder = where[x]
           => \A x \in C : t[x].holder = where[x],
         NEW o \in Items, Recorded(saved, where, o), \A x \in Chain(where, o) : at[x] = where[x]
  PROVE  Recorded(t, at, o)
<1>1. PICK C : C = Chain(where, o)
  OBVIOUS
<1>2. /\ o \in C /\ C \subseteq Items
      /\ \A x \in C : where[x] \in Items => where[x] \in C
  BY <1>1, ChainFacts
<1>3. C \in SUBSET F /\ \A x \in C : at[x] = where[x]
  BY <1>1, <1>2
<1>4. where[o] # Gone /\ \A x \in C : saved[x].holder = where[x]
  BY <1>1 DEF Recorded
<1>5. \A x \in C : t[x].holder = where[x]
  BY <1>2, <1>3, <1>4
<1>6. Chain(at, o) \subseteq C
  BY <1>1, <1>3, ChainStays
<1>7. at[o] # Gone /\ \A x \in Chain(at, o) : t[x].holder = at[x]
  BY <1>2, <1>3, <1>4, <1>5, <1>6
<1> QED BY <1>7 DEF Recorded

LEMMA CommandStands ==
  ASSUME ItemInv, Standing, NEW at, Grounded(at), NEW links,
         NEW saves \in Seq(Trusty({x \in Items : at[x] = where[x]}, where)),
         Command(at, links, saves)
  PROVE  Standing' /\ Keeping
<1>1. PICK F, ts : F = {x \in Items : at[x] = where[x]} /\ ts = Tables(saves)
  OBVIOUS
<1>2. /\ where \in [Items -> Holders \cup {Gone}] /\ saved \in FiledRows /\ stops \in Nat
      /\ Grounded(where) /\ Nested(where) /\ corpseRooms \subseteq Rooms \ Vaults
      /\ \A x \in Items : where[x] # Nobody
  <2>1. where \in [Items -> Holders \cup {Gone}] /\ saved \in Rows /\ stops \in Nat
    BY DEF ItemInv, ItemType
  <2>2. \A x \in Items : where[x] # Nobody
    BY <2>1, Kinds
  <2> QED BY <2>1, <2>2 DEF Standing, Grounded, FiledRows
<1>3. F \subseteq Items /\ \A x \in Items : x \in F <=> at[x] = where[x]
  BY <1>1
<1>4. saves \in Seq(Trusty(F, where))
  BY <1>1
<1>5. /\ Last(ts) \in FiledRows /\ Len(ts) \in Nat /\ \A i \in 1..Len(ts) : ts[i] \in FiledRows
      /\ \A C \in SUBSET F :
           /\ \A x \in C : where[x] \in Items => where[x] \in C
           /\ \A x \in C : saved[x].holder = where[x]
           => \A x \in C : Last(ts)[x].holder = where[x]
  BY ONLY <1>1, <1>2, <1>3, <1>4, RecordsKept
<1>6. CASE /\ where' = at /\ saved' = Last(ts)
           /\ corpseRooms' = corpseRooms \cup (RoomsWithCorpses(at) \ RoomsWithCorpses(where))
  <2>1. RoomsWithCorpses(at) \subseteq Rooms \ Vaults
    BY DEF RoomsWithCorpses
  <2>2. Grounded(where') /\ Filed(saved') /\ corpseRooms' \subseteq Rooms \ Vaults
    BY <1>2, <1>5, <1>6, <2>1 DEF FiledRows
  <2>3. Standing'
    BY <2>2 DEF Standing, Grounded, Filed, Nested
  <2>4. ASSUME NEW o \in Items, Recorded(saved, where, o), \A x \in Chain(where, o) : where'[x] = where[x]
        PROVE  Recorded(saved', where', o)
    <3>1. PICK t : t = Last(ts)
      OBVIOUS
    <3>2. Recorded(t, at, o)
      BY <1>2, <1>3, <1>5, <1>6, <2>4, <3>1, RecordsStay
    <3> QED BY <1>6, <3>1, <3>2
  <2> QED BY <2>3, <2>4 DEF Keeping
<1>7. ASSUME NEW i \in 2..(Len(ts) - 1), Boot(ts[i]) PROVE Standing' /\ Keeping
  <2>1. i \in 1..Len(ts)
    BY <1>5
  <2>2. ts[i] \in FiledRows
    BY <1>5, <2>1
  <2> QED BY <1>2, <1>7, <2>2, BootStands
<1> QED BY <1>1, <1>6, <1>7 DEF Command

\* A save of one holder, in a game where F are where they were.
LEMMA StaySaved ==
  ASSUME ItemInv, NEW at \in [Items -> Holders \cup {Gone}], Grounded(at), NEW h \in Holders,
         h \in Items => h \in Containers, h \notin Rooms \ Vaults,
         NEW F, F \subseteq {x \in Items : at[x] = where[x]}
  PROVE  ItemSave(at, h) \in Trusty(F, where)
<1>1. F \subseteq Items /\ Nested(at) /\ \A x \in F : at[x] = where[x]
  BY DEF Grounded
<1> QED BY <1>1, HolderTrusty

LEMMA ItemCommandStands ==
  ASSUME ItemInv, Standing, NEW p \in Players, ItemCommand(p) PROVE Standing' /\ Keeping
<1> USE DEF ItemCommand
<1>1. /\ where \in [Items -> Holders \cup {Gone}] /\ Grounded(where) /\ Nested(where)
      /\ p \in Holders /\ p \notin Rooms /\ p \notin Items /\ p # Gone
  BY Kinds DEF ItemInv, ItemType, Standing, Grounded
<1>2. \A h \in Vaults \cup {Chest} : h \in Holders /\ h \notin Items /\ h \notin Rooms \ Vaults
  BY ItemAssumption, Kinds
<1>3. CASE SaveCommand(p)
  <2>1. PICK F : F = {x \in Items : where[x] = where[x]}
    OBVIOUS
  <2>2. ItemSave(where, p) \in Trusty(F, where)
    BY <1>1, <2>1, StaySaved
  <2>3. <<ItemSave(where, p)>> \in Seq(Trusty(F, where))
    BY <2>2, ListsTrusty
  <2>4. Command(where, link, <<ItemSave(where, p)>>)
    BY <1>3 DEF SaveCommand
  <2> QED BY ONLY ItemInv, Standing, <1>1, <2>1, <2>3, <2>4, CommandStands
<1>4. ASSUME NEW o \in Items, GetFromRoom(p, o) PROVE Standing' /\ Keeping
  <2>1. PICK at, r, saves, F : /\ at = Moved(o, p) /\ r = where[o]
                               /\ saves = <<Unsave(o), ItemSave(at, r)>>
                               /\ F = {x \in Items : at[x] = where[x]}
    OBVIOUS
  <2>2. r \in Rooms /\ where[o] # Gone
    BY <1>4, <2>1, Kinds DEF GetFromRoom
  <2>3. at \in [Items -> Holders \cup {Gone}] /\ Grounded(at)
    BY <1>1, <2>1, <2>2, MovedFacts, MovedGrounded
  <2>4. o \notin F /\ F \subseteq Items
    BY <1>1, <2>1, <2>2 DEF Moved
  <2>5. Unsave(o) \in Trusty(F, where)
    BY <1>1, <2>4, UnsaveTrusty
  <2>6. r \in Vaults \cup {Chest} => ItemSave(at, r) \in Trusty(F, where)
    BY <1>2, <2>1, <2>3, StaySaved
  <2>7. AtOnce(r, saves) \in Seq(Trusty(F, where))
    BY <2>1, <2>5, <2>6, ListsTrusty, AtOnceTrusty
  <2>8. Command(at, link, AtOnce(r, saves))
    BY <1>4, <2>1 DEF GetFromRoom
  <2> QED BY ONLY ItemInv, Standing, <2>1, <2>3, <2>7, <2>8, CommandStands
<1>5. ASSUME NEW o \in Items, NEW h \in Holders, where[o] # Gone, NEW k,
             h \in Items => h \in Bags /\ h # o /\ where[h] \notin Items \cup {Gone},
             Command(Moved(o, h), link, AtOnce(k, <<ItemSave(Moved(o, h), k)>>))
      PROVE  Standing' /\ Keeping
  <2>1. PICK at, saves, F : /\ at = Moved(o, h) /\ saves = <<ItemSave(at, k)>>
                            /\ F = {x \in Items : at[x] = where[x]}
    OBVIOUS
  <2>2. at \in [Items -> Holders \cup {Gone}]
    BY <1>5, <2>1, MovedFacts
  <2>3. Grounded(at)
    BY <1>1, <1>5, <2>1, MovedGrounded
  <2>4. k \in Vaults \cup {Chest} => ItemSave(at, k) \in Trusty(F, where)
    BY <1>2, <2>1, <2>2, <2>3, StaySaved
  <2>5. AtOnce(k, saves) \in Seq(Trusty(F, where))
    BY <2>1, <2>4, ListsTrusty, AtOnceTrusty
  <2>6. Command(at, link, AtOnce(k, saves))
    BY <1>5, <2>1
  <2> QED BY ONLY ItemInv, Standing, <2>1, <2>3, <2>5, <2>6, CommandStands
<1>6. ASSUME NEW o \in Items, GetFromContainer(p, o) PROVE Standing' /\ Keeping
  <2>1. where[o] # Gone
    BY <1>6, Kinds DEF GetFromContainer, InReach
  <2>2. PICK c : c = where[o]
    OBVIOUS
  <2>3. Command(Moved(o, p), link, AtOnce(c, <<ItemSave(Moved(o, p), c)>>))
    BY <1>6, <2>2 DEF GetFromContainer
  <2> QED BY <1>1, <1>5, <2>1, <2>3
<1>7. ASSUME NEW c \in Corpses, GetCoins(p, c) PROVE Standing' /\ Keeping
  <2>1. PICK F : F = {x \in Items : where[x] = where[x]}
    OBVIOUS
  <2>2. c \in Holders /\ c \in Containers /\ c \notin Rooms
    BY Kinds DEF Containers
  <2>3. ItemSave(where, c) \in Trusty(F, where)
    BY <1>1, <2>1, <2>2, StaySaved
  <2>4. <<ItemSave(where, c)>> \in Seq(Trusty(F, where))
    BY <2>3, ListsTrusty
  <2>5. Command(where, link, <<ItemSave(where, c)>>)
    BY <1>7 DEF GetCoins
  <2> QED BY ONLY ItemInv, Standing, <1>1, <2>1, <2>4, <2>5, CommandStands
<1>8. ASSUME NEW o \in Items, NEW r \in Rooms, DropItem(p, o, r) PROVE Standing' /\ Keeping
  <2>1. where[o] # Gone /\ r \in Holders /\ r \notin Items
    BY <1>1, <1>8, Kinds DEF DropItem
  <2>2. Command(Moved(o, r), link, AtOnce(r, <<ItemSave(Moved(o, r), r)>>))
    BY <1>8 DEF DropItem
  <2> QED BY <1>5, <2>1, <2>2
<1>9. ASSUME NEW o \in Items, NEW q \in Players, Give(p, o, q) PROVE Standing' /\ Keeping
  <2>1. PICK at, F : at = Moved(o, q) /\ F = {x \in Items : at[x] = where[x]}
    OBVIOUS
  <2>2. where[o] # Gone /\ q \in Holders /\ q \notin Items
    BY <1>1, <1>9, Kinds DEF Give
  <2>3. Grounded(at)
    BY <1>1, <2>1, <2>2, MovedGrounded
  <2>4. Command(at, link, <<>>)
    BY <1>9, <2>1 DEF Give
  <2>5. <<>> \in Seq(Trusty(F, where))
    BY ListsTrusty
  <2> QED BY ONLY ItemInv, Standing, <2>1, <2>3, <2>4, <2>5, CommandStands
<1>10. ASSUME NEW o \in Items, NEW c \in Bags \cup {Chest}, Put(p, o, c) PROVE Standing' /\ Keeping
  <2>1. where[o] # Gone /\ c \in Holders
    BY <1>1, <1>10, Kinds DEF Put, Items, Containers
  <2>2. c \in Items => c \in Bags /\ c # o /\ where[c] \notin Items \cup {Gone}
    BY <1>1, <1>10, Kinds DEF Put, InReach
  <2>3. Command(Moved(o, c), link, AtOnce(c, <<ItemSave(Moved(o, c), c)>>))
    BY <1>10 DEF Put
  <2> QED BY <1>5, <2>1, <2>2, <2>3
<1> QED BY <1>3, <1>4, <1>6, <1>7, <1>8, <1>9, <1>10

LEMMA RentStands ==
  ASSUME ItemInv, Standing, NEW p \in Players, Rent(p) PROVE Standing' /\ Keeping
<1>1. PICK at, saves, F : /\ at = Extracted(where, Held(where, p)) /\ saves = <<ItemSave(where, p)>>
                          /\ F = {x \in Items : at[x] = where[x]}
  OBVIOUS
<1>2. Command(at, Left(p), saves)
  BY <1>1 DEF Rent
<1>3. where \in [Items -> Holders \cup {Gone}] /\ Grounded(where) /\ Held(where, p) \subseteq Items
  BY DEF ItemInv, ItemType, Standing, Held
<1>4. Grounded(at)
  BY <1>1, <1>3, ExtractedGrounded
<1>5. p \in Holders /\ p \notin Rooms /\ p \notin Items
  BY Kinds
<1>6. F \subseteq {x \in Items : where[x] = where[x]}
  BY <1>1
<1>7. ItemSave(where, p) \in Trusty(F, where)
  BY <1>3, <1>5, <1>6, StaySaved
<1>8. saves \in Seq(Trusty(F, where))
  BY <1>1, <1>7, ListsTrusty
<1> QED BY ONLY ItemInv, Standing, <1>1, <1>2, <1>4, <1>8, CommandStands

LEMMA QuitStands ==
  ASSUME ItemInv, Standing, NEW p \in Players, NEW r \in Rooms, QuitWithout(p, r) PROVE Standing' /\ Keeping
<1>1. PICK at, drops, saves, F : /\ at = Dropped(where, p, r) /\ drops = DropSaves(where, p, r)
                                 /\ saves = Append(drops, ItemSave(at, p))
                                 /\ F = {x \in Items : at[x] = where[x]}
  OBVIOUS
<1>2. Command(at, Left(p), saves)
  BY <1>1 DEF QuitWithout
<1>3. /\ where \in [Items -> Holders \cup {Gone}] /\ Grounded(where) /\ Nested(where)
      /\ p \in Holders /\ p \notin Rooms /\ p \notin Items /\ p # r /\ r \in Holders
  BY Kinds DEF ItemInv, ItemType, Standing, Grounded
<1>4. Grounded(at)
  BY <1>1, <1>3, DroppedGrounded
<1>5. at \in [Items -> Holders \cup {Gone}] /\ \A x \in Items : at[x] = IF where[x] = p THEN r ELSE where[x]
  BY <1>1, <1>3 DEF Dropped
<1>6. F \subseteq Items /\ \A x \in F : where[x] = where[x] /\ where[x] # p
  BY <1>1, <1>3, <1>5
<1>7. drops \in Seq(Trusty(F, where))
  BY <1>1, <1>3, <1>6, DropsTrusty
<1>8. ItemSave(at, p) \in Trusty(F, where)
  BY <1>1, <1>3, <1>4, <1>5, StaySaved
<1>9. saves \in Seq(Trusty(F, where))
  BY <1>1, <1>7, <1>8
<1> QED BY ONLY ItemInv, Standing, <1>1, <1>2, <1>4, <1>9, CommandStands

LEMMA DieStands ==
  ASSUME ItemInv, Standing, NEW p \in Players, NEW c \in Corpses, NEW r \in Rooms, Die(p, c, r)
  PROVE  Standing' /\ Keeping
<1>1. PICK at, first, F : /\ at = [o \in Items |-> IF o = c THEN r ELSE IF where[o] = p THEN c ELSE where[o]]
                          /\ first = IF r \in Vaults THEN ItemSave(at, r) ELSE CorpseSave(at, r)
                          /\ F = {x \in Items : at[x] = where[x]}
  OBVIOUS
<1>2. where[c] = Gone /\ Command(at, link, <<first, ItemSave(at, p)>>)
  BY <1>1, Zenon DEF Die
<1>3. /\ where \in [Items -> Holders \cup {Gone}] /\ Grounded(where)
      /\ c \in Holders /\ r \in Holders /\ r \notin Items
      /\ p \in Holders /\ p \notin Rooms /\ p \notin Items
  BY Kinds DEF ItemInv, ItemType, Standing
<1>4. Grounded(at)
  BY <1>1, <1>2, <1>3, DiedGrounded
<1>5. at \in [Items -> Holders \cup {Gone}]
  BY <1>1, <1>3
<1>6. F \subseteq Items /\ Nested(at) /\ \A x \in F : at[x] = where[x]
  BY <1>1, <1>4 DEF Grounded
<1>7. ItemSave(at, p) \in Trusty(F, where)
  BY <1>3, <1>5, <1>6, HolderTrusty
<1>8. first \in Trusty(F, where)
  <2>1. CASE r \in Vaults
    BY <1>1, <1>3, <1>5, <1>6, <2>1, HolderTrusty
  <2>2. CASE r \notin Vaults
    BY <1>1, <1>3, <1>5, <1>6, <2>2, HolderTrusty
  <2> QED BY <2>1, <2>2
<1>9. <<first, ItemSave(at, p)>> \in Seq(Trusty(F, where))
  BY <1>7, <1>8, ListsTrusty
<1> QED BY ONLY ItemInv, Standing, <1>1, <1>2, <1>4, <1>9, CommandStands

LEMMA RotStands ==
  ASSUME ItemInv, Standing, NEW c \in Corpses, Rot(c) PROVE Standing' /\ Keeping
<1>1. PICK X, at, saves, F : /\ X = {c} /\ at = Extracted(where, X)
                             /\ saves = IF where[c] \in Vaults THEN <<Unsave(c)>> ELSE <<>>
                             /\ F = {x \in Items : at[x] = where[x]}
  OBVIOUS
<1>2. where[c] # Gone /\ Command(at, link, saves) /\ c \in Items /\ X \subseteq Items
  BY <1>1, Kinds DEF Rot
<1>3. where \in [Items -> Holders \cup {Gone}] /\ Grounded(where) /\ Nested(where)
  BY DEF ItemInv, ItemType, Standing, Grounded
<1>4. Grounded(at)
  BY <1>1, <1>2, <1>3, ExtractedGrounded
<1>5. F \subseteq Items /\ c \notin F
  <2>1. c \in Under(where, X)
    BY <1>1, <1>2, UnderFacts
  <2>2. at[c] = Gone
    BY <1>1, <1>2, <2>1, ExtractedFacts
  <2> QED BY <1>1, <1>2, <2>2
<1>6. Unsave(c) \in Trusty(F, where)
  BY <1>2, <1>3, <1>5, UnsaveTrusty
<1>7. saves \in Seq(Trusty(F, where))
  BY <1>1, <1>6, ListsTrusty
<1> QED BY ONLY ItemInv, Standing, <1>1, <1>2, <1>4, <1>7, CommandStands

LEMMA EnterStands ==
  ASSUME ItemInv, Standing, NEW p \in Players, Enter(p) PROVE Standing' /\ Keeping
<1>1. PICK at : at = [o \in Items |-> IF o \in LoadedBy(saved, p) THEN saved[o].holder ELSE where[o]]
  OBVIOUS
<1>2. link[p] = "out" /\ where' = at /\ saved' = saved /\ corpseRooms' = corpseRooms
  BY <1>1 DEF Enter
<1>3. Grounded(at)
  BY <1>1, <1>2, EnteredGrounded
<1>4. where \in [Items -> Holders \cup {Gone}] /\ Nested(where)
  BY DEF ItemInv, ItemType, Standing, Grounded
<1>5. Standing'
  <2>1. Grounded(where') /\ Filed(saved') /\ corpseRooms' \subseteq Rooms \ Vaults
    BY <1>2, <1>3 DEF Standing
  <2> QED BY <2>1 DEF Standing, Grounded, Filed, Nested
<1>6. ASSUME NEW o \in Items, Recorded(saved, where, o), \A x \in Chain(where, o) : where'[x] = where[x]
      PROVE  Recorded(saved', where', o)
  <2>1. PICK t, F : t = saved /\ F = {x \in Items : at[x] = where[x]}
    OBVIOUS
  <2>2. F \subseteq Items /\ \A x \in Items : x \in F <=> at[x] = where[x]
    BY <2>1
  <2>3. \A C \in SUBSET F :
          /\ \A x \in C : where[x] \in Items => where[x] \in C
          /\ \A x \in C : saved[x].holder = where[x]
          => \A x \in C : t[x].holder = where[x]
    BY <2>1
  <2>4. \A x \in Chain(where, o) : at[x] = where[x]
    BY <1>2, <1>6
  <2>5. Recorded(t, at, o)
    BY ONLY <1>4, <1>6, <2>2, <2>3, <2>4, RecordsStay
  <2> QED BY <1>2, <2>1, <2>5
<1> QED BY <1>5, <1>6 DEF Keeping

LEMMA QuietStands ==
  ASSUME Standing, UNCHANGED <<where, saved, corpseRooms>> PROVE Standing' /\ Keeping
<1>1. where' = where /\ saved' = saved /\ corpseRooms' = corpseRooms
  OBVIOUS
<1>2. Grounded(where') /\ Filed(saved') /\ corpseRooms' \subseteq Rooms \ Vaults
  BY <1>1 DEF Standing
<1>3. Standing'
  BY <1>2 DEF Standing, Grounded, Filed, Nested
<1> QED BY <1>1, <1>3 DEF Keeping

LEMMA AutoSaveStands ==
  ASSUME ItemInv, Standing, AutoSave PROVE Standing' /\ Keeping
<1>1. PICK ts, saves, F : ts = Tables(saves) /\ saves = <<AutoSaved>> /\ F = Items
  OBVIOUS
<1>2. /\ where \in [Items -> Holders \cup {Gone}] /\ saved \in FiledRows /\ stops \in Nat
      /\ Grounded(where) /\ Nested(where) /\ corpseRooms \subseteq Rooms \ Vaults
      /\ \A x \in Items : where[x] # Nobody
  <2>1. where \in [Items -> Holders \cup {Gone}] /\ saved \in Rows /\ stops \in Nat
    BY DEF ItemInv, ItemType
  <2>2. \A x \in Items : where[x] # Nobody
    BY <2>1, Kinds
  <2> QED BY <2>1, <2>2 DEF Standing, Grounded, FiledRows
<1>3. AutoSaved \in Trusty(F, where) /\ F \subseteq Items
  BY <1>1, AutoSaveTrusty
<1>4. saves \in Seq(Trusty(F, where))
  BY <1>1, <1>3, ListsTrusty
<1>5. /\ Last(ts) \in FiledRows /\ Len(ts) \in Nat /\ \A i \in 1..Len(ts) : ts[i] \in FiledRows
      /\ \A C \in SUBSET F :
           /\ \A x \in C : where[x] \in Items => where[x] \in C
           /\ \A x \in C : saved[x].holder = where[x]
           => \A x \in C : Last(ts)[x].holder = where[x]
  <2>1. ts = Tables(saves)
    BY <1>1
  <2> QED BY ONLY <1>2, <1>3, <1>4, <2>1, RecordsKept
<1>6. CASE /\ saved' = Last(ts) /\ corpseRooms' = corpseRooms \cap RoomsWithCorpses(where)
           /\ UNCHANGED <<where, link, prompts, stops>>
  <2>1. Grounded(where') /\ Filed(saved') /\ corpseRooms' \subseteq Rooms \ Vaults
    BY <1>2, <1>5, <1>6 DEF FiledRows
  <2>2. Standing'
    BY <2>1 DEF Standing, Grounded, Filed, Nested
  <2>3. ASSUME NEW o \in Items, Recorded(saved, where, o) PROVE Recorded(saved', where', o)
    <3>1. PICK t : t = Last(ts)
      OBVIOUS
    <3>2. \A x \in Items : x \in F <=> where[x] = where[x]
      BY <1>1
    <3>3. /\ \A x \in Chain(where, o) : where[x] = where[x]
          /\ \A C \in SUBSET F :
               /\ \A x \in C : where[x] \in Items => where[x] \in C
               /\ \A x \in C : saved[x].holder = where[x]
               => \A x \in C : t[x].holder = where[x]
      BY <1>5, <3>1
    <3>4. Recorded(t, where, o)
      BY ONLY <1>2, <1>3, <2>3, <3>2, <3>3, RecordsStay
    <3> QED BY <1>6, <3>1, <3>4
  <2> QED BY <2>2, <2>3 DEF Keeping
<1>7. ASSUME NEW i \in 2..(Len(ts) - 1), Boot(ts[i]) PROVE Standing' /\ Keeping
  <2>1. i \in 1..Len(ts)
    BY <1>5
  <2>2. ts[i] \in FiledRows
    BY <1>5, <2>1
  <2> QED BY <1>2, <1>7, <2>2, BootStands
<1> QED BY <1>1, <1>6, <1>7 DEF AutoSave

LEMMA ShutDownStands ==
  ASSUME ItemInv, Standing, ShutDown PROVE Standing' /\ Keeping
<1>1. PICK r \in Rooms : \E early \in SUBSET prompts :
           Boot(Last(Tables(Copies(early) \o RentSaves \o Copies(prompts \ early)
                            \o Joined(LostSaves(r)))))
  BY ShutDownIs
<1>2. PICK early \in SUBSET prompts :
           Boot(Last(Tables(Copies(early) \o RentSaves \o Copies(prompts \ early)
                            \o Joined(LostSaves(r)))))
  BY <1>1
<1>3. PICK saves, none : /\ saves = Copies(early) \o RentSaves \o Copies(prompts \ early) \o Joined(LostSaves(r))
                         /\ none = {}
  OBVIOUS
<1>4. Grounded(where) /\ Nested(where)
  BY DEF Standing, Grounded
<1>5. saves \in Seq(Trusty(none, where)) /\ none \subseteq Items
  BY <1>3, <1>4, LastSavesTrusty
<1>6. saved \in FiledRows /\ stops \in Nat /\ \A x \in Items : where[x] # Nobody
  <2>1. where \in [Items -> Holders \cup {Gone}] /\ saved \in Rows /\ stops \in Nat
    BY DEF ItemInv, ItemType
  <2>2. \A x \in Items : where[x] # Nobody
    BY <2>1, Kinds
  <2> QED BY <2>1, <2>2 DEF Standing, FiledRows
<1>7. Last(Tables(saves)) \in FiledRows
  BY ONLY <1>4, <1>5, <1>6, RecordsKept
<1>8. Boot(Last(Tables(saves)))
  BY <1>2, <1>3
<1> QED BY <1>6, <1>7, <1>8, BootStands

LEMMA StandingStarts ==
  ASSUME ItemsInit PROVE Standing
<1>1. PICK r \in Rooms, held \in SUBSET (Things \cup Bags) :
        where = [o \in Items |-> IF o \in held THEN r ELSE Gone]
  BY DEF ItemsInit
<1>2. r \notin Items /\ Gone \notin Items /\ Gone \notin Rooms
  BY Kinds
<1>3. Grounded(where)
  BY <1>1, <1>2 DEF Grounded, Nested
<1>4. Filed(saved)
  <2>1. \A o \in Items : saved[o].holder = Gone /\ saved[o].top = Gone
    BY DEF ItemsInit, NoRow
  <2> QED BY <1>2, <2>1 DEF Filed
<1>5. corpseRooms \subseteq Rooms \ Vaults
  BY DEF ItemsInit
<1> QED BY <1>3, <1>4, <1>5 DEF Standing

LEMMA StandingSteps ==
  ASSUME ItemInv, Standing, ItemsNext PROVE Standing' /\ Keeping
<1>1. ASSUME NEW p \in Players,
             ItemCommand(p) \/ AskPassword(p) \/ Enter(p) \/ LoseLink(p) \/ Relink(p) \/ Rent(p)
      PROVE  Standing' /\ Keeping
  <2>1. CASE AskPassword(p) \/ LoseLink(p) \/ Relink(p)
    BY <2>1, QuietStands DEF AskPassword, LoseLink, Relink
  <2> QED BY <1>1, <2>1, ItemCommandStands, EnterStands, RentStands
<1>2. ASSUME NEW p \in Players, NEW r \in Rooms, QuitWithout(p, r) PROVE Standing' /\ Keeping
  BY <1>2, QuitStands
<1>3. ASSUME NEW p \in Players, NEW r \in Rooms, NEW c \in Corpses, Die(p, c, r)
      PROVE  Standing' /\ Keeping
  BY <1>3, DieStands
<1>4. ASSUME NEW c \in Corpses, Rot(c) PROVE Standing' /\ Keeping
  BY <1>4, RotStands
<1>5. CASE AutoSave
  BY <1>5, AutoSaveStands
<1>6. CASE Crash
  <2>1. saved \in FiledRows /\ stops \in Nat
    BY DEF Standing, FiledRows, ItemInv, ItemType
  <2> QED BY <1>6, <2>1, BootStands DEF Crash
<1>7. CASE ShutDown
  BY <1>7, ShutDownStands
<1> QED BY <1>1, <1>2, <1>3, <1>4, <1>5, <1>6, <1>7 DEF ItemsNext

\* SavesKeepOthers: a save of one holder spoils no true record of an object that
\* stays where it is with all it is in.
THEOREM SavesKeepOthersHolds == ItemsSpec => SavesKeepOthers
<1> DEFINE I == ItemInv /\ Standing
           A == stops' = stops =>
                  \A o \in Items :
                    /\ Recorded(saved, where, o)
                    /\ \A x \in Chain(where, o) : where'[x] = where[x]
                    => Recorded(saved', where', o)
<1>1. ItemsInit => I
  BY ItemsStart, StandingStarts
<1>2. I /\ [ItemsNext]_itemVars => I'
  <2>1. ASSUME I, ItemsNext PROVE I'
    BY <2>1, ItemsStep, StandingSteps
  <2>2. ASSUME I, UNCHANGED itemVars PROVE I'
    BY <2>2, ItemsStutter, QuietStands DEF itemVars
  <2> QED BY <2>1, <2>2
<1>3. I /\ [ItemsNext]_itemVars => [A]_itemVars
  BY StandingSteps DEF Keeping
<1> QED BY <1>1, <1>2, <1>3, PTL DEF ItemsSpec, SavesKeepOthers
===============================================================================

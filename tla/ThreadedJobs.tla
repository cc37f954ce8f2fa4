---------------------------- MODULE ThreadedJobs ----------------------------
(***************************************************************************)
(* Background jobs (threaded_jobs.cpp): addJob starts a detached thread,   *)
(* which runs the job's routine and hands the job to the main thread, and  *)
(* every heartbeat runs the routine that follows it and deletes the job.   *)
(* The first jobs are added at boot by the threads that load the zones     *)
(* (zones.cpp), the others by the main thread: expired tracks, prompts to  *)
(* OpenAI, the status of another server.                                   *)
(*                                                                         *)
(* get() reads and writes pSelf without a lock, so two zone threads may    *)
(* both find it null: a manager is named after the thread that allocated   *)
(* it.  A section under a mutex is one step, except the heartbeat's, which *)
(* holds finishedJobsMutex over several.                                   *)
(***************************************************************************)
EXTENDS Naturals, Sequences, FiniteSets, SequencesExt

CONSTANTS ZoneThreads,  \* the threads of BootZones; each adds one job
          MainJobs      \* the jobs the main thread may add

Main == "main"
NoManager == "none"
Managers == ZoneThreads \cup {Main}
Jobs == ZoneThreads \cup MainJobs

VARIABLES pSelf,        \* the static pointer
          boot,         \* boot[z]: where zone thread z is in addJob
          found,        \* found[z]: the manager get() gave zone thread z
          job,          \* job[j]: how far the job is
          owner,        \* owner[j]: this, in the thread that runs the job
          lJobs,        \* lJobs[m]
          lFinishedJobs,\* lFinishedJobs[m], a sequence
          main,         \* "boot", "loop", "cycling" or "stopped"
          cycled        \* the finished jobs this cycle has been through

jobsVars == <<pSelf, boot, found, job, owner, lJobs, lFinishedJobs, main, cycled>>

JobsInit ==
  /\ pSelf = NoManager
  /\ boot = [z \in ZoneThreads |-> "loading"]
  /\ found = [z \in ZoneThreads |-> NoManager]
  /\ job = [j \in Jobs |-> "none"]
  /\ owner = [j \in Jobs |-> NoManager]
  /\ lJobs = [m \in Managers |-> {}]
  /\ lFinishedJobs = [m \in Managers |-> << >>]
  /\ main = "boot" /\ cycled = 0

----------------------------------------------------------------------------
\* addJob: into lJobs under jobsMutex, then the detached thread.
Added(j, m) ==
  /\ job' = [job EXCEPT ![j] = "routine"]
  /\ owner' = [owner EXCEPT ![j] = m]
  /\ lJobs' = [lJobs EXCEPT ![m] = @ \cup {j}]

\* LoadThreadedZoneBatch ends with get().addJob(cleanupJob): the test of
\* pSelf, ...
ZoneGet(z) ==
  /\ boot[z] = "loading"
  /\ IF pSelf = NoManager
     THEN boot' = [boot EXCEPT ![z] = "allocating"] /\ UNCHANGED found
     ELSE /\ boot' = [boot EXCEPT ![z] = "adding"]
          /\ found' = [found EXCEPT ![z] = pSelf]
  /\ UNCHANGED <<pSelf, job, owner, lJobs, lFinishedJobs, main, cycled>>

\* ... the allocation that follows when it was null, ...
ZoneAllocate(z) ==
  /\ boot[z] = "allocating"
  /\ pSelf' = z
  /\ boot' = [boot EXCEPT ![z] = "returning"]
  /\ UNCHANGED <<found, job, owner, lJobs, lFinishedJobs, main, cycled>>

\* ... return *pSelf, which another thread may have set again, ...
ZoneReturn(z) ==
  /\ boot[z] = "returning"
  /\ found' = [found EXCEPT ![z] = pSelf]
  /\ boot' = [boot EXCEPT ![z] = "adding"]
  /\ UNCHANGED <<pSelf, job, owner, lJobs, lFinishedJobs, main, cycled>>

\* ... and the job, with which the zone thread ends.
ZoneAdd(z) ==
  /\ boot[z] = "adding"
  /\ Added(z, found[z])
  /\ boot' = [boot EXCEPT ![z] = "done"]
  /\ UNCHANGED <<pSelf, found, lFinishedJobs, main, cycled>>

\* BootZones joins its threads; nothing of the game runs before.
BootEnds ==
  /\ main = "boot" /\ \A z \in ZoneThreads : boot[z] = "done"
  /\ main' = "loop"
  /\ UNCHANGED <<pSelf, boot, found, job, owner, lJobs, lFinishedJobs, cycled>>


\* The main thread adds a job, from a heartbeat or from the callback of a
\* prompt (OpenAIThreadedJob::performPostJobRoutine), so within a cycle too.
MainAdds(j) ==
  /\ main \in {"loop", "cycling"} /\ job[j] = "none"
  /\ pSelf' = IF pSelf = NoManager THEN Main ELSE pSelf
  /\ Added(j, pSelf')
  /\ UNCHANGED <<boot, found, lFinishedJobs, main, cycled>>

----------------------------------------------------------------------------
\* runJob, in the job's own thread.

Routine(j) ==
  /\ job[j] = "routine"
  /\ job' = [job EXCEPT ![j] = "ran"]
  /\ UNCHANGED <<pSelf, boot, found, owner, lJobs, lFinishedJobs, main, cycled>>

Unlist(j) ==
  /\ job[j] = "ran"
  /\ lJobs' = [lJobs EXCEPT ![owner[j]] = @ \ {j}]
  /\ job' = [job EXCEPT ![j] = "unlisted"]
  /\ UNCHANGED <<pSelf, boot, found, owner, lFinishedJobs, main, cycled>>

\* a runJob that hands the job over first
MHand(j) ==
  /\ job[j] \in {"ran", "unlisted"}
  /\ ~(main = "cycling" /\ owner[j] = pSelf)
  /\ lFinishedJobs' = [lFinishedJobs EXCEPT ![owner[j]] = Append(@, j)]
  /\ job' = [job EXCEPT ![j] = "finished"]
  /\ UNCHANGED <<pSelf, boot, found, owner, lJobs, main, cycled>>

\* finishedJobsMutex is the main thread's while it cycles that manager.
Hand(j) ==
  /\ job[j] = "unlisted"
  /\ ~(main = "cycling" /\ owner[j] = pSelf)
  /\ lFinishedJobs' = [lFinishedJobs EXCEPT ![owner[j]] = Append(@, j)]
  /\ job' = [job EXCEPT ![j] = "finished"]
  /\ UNCHANGED <<pSelf, boot, found, owner, lJobs, main, cycled>>

----------------------------------------------------------------------------
\* cycleThroughFinishedJobs, once a heartbeat.

CycleBegins ==
  /\ main = "loop" /\ pSelf # NoManager
  /\ main' = "cycling" /\ cycled' = 0
  /\ UNCHANGED <<pSelf, boot, found, job, owner, lJobs, lFinishedJobs>>

\* performPostJobRoutine and delete of the next one
Post ==
  /\ main = "cycling" /\ cycled < Len(lFinishedJobs[pSelf])
  /\ cycled' = cycled + 1
  /\ job' = [job EXCEPT ![lFinishedJobs[pSelf][cycled']] = "deleted"]
  /\ UNCHANGED <<pSelf, boot, found, owner, lJobs, lFinishedJobs, main>>

CycleEnds ==
  /\ main = "cycling" /\ cycled = Len(lFinishedJobs[pSelf])
  /\ lFinishedJobs' = [lFinishedJobs EXCEPT ![pSelf] = << >>]
  /\ main' = "loop" /\ cycled' = 0
  /\ UNCHANGED <<pSelf, boot, found, job, owner, lJobs>>

\* The game stops between two heartbeats; the detached threads go on.
Stops ==
  /\ main = "loop" /\ main' = "stopped"
  /\ UNCHANGED <<pSelf, boot, found, job, owner, lJobs, lFinishedJobs, cycled>>

JobThread(j) == Routine(j) \/ Unlist(j) \/ Hand(j)
ZoneThread(z) == ZoneGet(z) \/ ZoneAllocate(z) \/ ZoneReturn(z) \/ ZoneAdd(z)
MainThread == BootEnds \/ CycleBegins \/ Post \/ CycleEnds

JobsNext ==
  \/ MainThread \/ Stops
  \/ \E z \in ZoneThreads : ZoneThread(z)
  \/ \E j \in MainJobs : MainAdds(j)
  \/ \E j \in Jobs : JobThread(j)

JobsSpec == JobsInit /\ [][JobsNext]_jobsVars

----------------------------------------------------------------------------
\* Properties.

\* No list of a manager holds a job that is deleted, once the heartbeat lets
\* go of the list: runJob takes the job off lJobs before it hands it over.
ListedJobsLive ==
  \A m \in Managers, j \in Jobs :
    job[j] = "deleted" =>
      /\ j \notin lJobs[m]
      /\ main # "cycling" => j \notin ToSet(lFinishedJobs[m])
=============================================================================

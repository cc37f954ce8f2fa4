------------------------- MODULE ParallelFileLoader -------------------------
(***************************************************************************)
(* The thread pool that reads script files (utils/ParallelFileLoader.h),   *)
(* as JSManager uses it at boot and when scripts are imported again: one   *)
(* user thread submits paths, waits, takes the results, and destroys the   *)
(* pool.  A section under a mutex is one step.  Both condition variables   *)
(* are modelled with the set of threads asleep in them: a notification     *)
(* wakes sleepers only, so one sent too early is lost.                     *)
(***************************************************************************)
EXTENDS Naturals, Sequences, FiniteSets

CONSTANTS Workers,    \* m_workers
          Paths       \* the files that may be submitted

ASSUME LoaderAssumption ==
         IsFiniteSet(Workers) /\ Workers # {} /\ "no path" \notin Paths

VARIABLES queue,      \* m_queue
          pending,    \* m_pendingCount
          results,    \* m_results: the paths with a result
          shutdown,   \* m_shutdown
          worker,     \* worker[w]: where the thread is in workerLoop
          loading,    \* loading[w]: filePath, the path the thread has popped
          user,       \* where the submitting thread is
          submitted,  \* the paths submitted so far
          taken       \* the results the user has taken

loaderVars == <<queue, pending, results, shutdown, worker, loading, user,
                submitted, taken>>

NoPath == "no path"

LoaderInit ==
  /\ queue = << >> /\ pending = 0 /\ results = {} /\ shutdown = FALSE
  /\ worker = [w \in Workers |-> "check"]
  /\ loading = [w \in Workers |-> NoPath]
  /\ user = "submitting" /\ submitted = {} /\ taken = {}

Asleep == {w \in Workers : worker[w] = "asleep"}

\* m_queueCV.notify_all()
NotifyAll == [w \in Workers |-> IF w \in Asleep THEN "check" ELSE worker[w]]

\* m_queueCV.notify_one(): one sleeper, if there is one
NotifyOne ==
  IF Asleep = {} THEN {worker}
                 ELSE {[worker EXCEPT ![w] = "check"] : w \in Asleep}

----------------------------------------------------------------------------
\* The user thread.

\* submit(filePath)
Submit(p) ==
  /\ user = "submitting" /\ p \notin submitted
  /\ queue' = Append(queue, p) /\ pending' = pending + 1
  /\ submitted' = submitted \cup {p}
  /\ worker' \in NotifyOne
  /\ UNCHANGED <<results, shutdown, loading, user, taken>>

\* submit(filePaths): all of them under one lock, then notify_all
SubmitAll ==
  /\ user = "submitting" /\ submitted = {} /\ Paths # {}
  /\ queue' \in {s \in [1..Cardinality(Paths) -> Paths] :
                   \A i, j \in DOMAIN s : i # j => s[i] # s[j]}
  /\ pending' = Cardinality(Paths) /\ submitted' = Paths
  /\ worker' = NotifyAll
  /\ UNCHANGED <<results, shutdown, loading, user, taken>>

\* wait(): the predicate, checked under the lock before and after sleeping
Wait ==
  /\ user \in {"submitting", "woken"}
  /\ user' = IF pending = 0 THEN "taking" ELSE "waiting"
  /\ UNCHANGED <<queue, pending, results, shutdown, worker, loading,
                 submitted, taken>>

\* take(path)
Take(p) ==
  /\ user = "taking" /\ p \in results
  /\ results' = results \ {p} /\ taken' = taken \cup {p}
  /\ UNCHANGED <<queue, pending, shutdown, worker, loading, user, submitted>>

\* a finish() that does not notify
MFinish ==
  /\ user = "taking" /\ submitted \cap results = {}
  /\ shutdown' = TRUE /\ user' = "joining"
  /\ UNCHANGED <<queue, pending, results, worker, loading, submitted, taken>>

\* ~ParallelFileLoader -> finish(): the flag, the notification, then join
Finish ==
  /\ user = "taking" /\ submitted \cap results = {}
  /\ shutdown' = TRUE /\ worker' = NotifyAll /\ user' = "joining"
  /\ UNCHANGED <<queue, pending, results, loading, submitted, taken>>

Join ==
  /\ user = "joining" /\ \A w \in Workers : worker[w] = "returned"
  /\ user' = "closed"
  /\ UNCHANGED <<queue, pending, results, shutdown, worker, loading,
                 submitted, taken>>

----------------------------------------------------------------------------
\* workerLoop

\* the wait on m_queueCV and the pop: to sleep, home, or off with a path
NextPath(w) ==
  /\ worker[w] = "check"
  /\ \/ queue = << >> /\ ~shutdown
        /\ worker' = [worker EXCEPT ![w] = "asleep"]
        /\ UNCHANGED <<queue, loading>>
     \/ queue = << >> /\ shutdown
        /\ worker' = [worker EXCEPT ![w] = "returned"]
        /\ UNCHANGED <<queue, loading>>
     \/ queue # << >>
        /\ worker' = [worker EXCEPT ![w] = "loading"]
        /\ loading' = [loading EXCEPT ![w] = Head(queue)]
        /\ queue' = Tail(queue)
  /\ UNCHANGED <<pending, results, shutdown, user, submitted, taken>>

\* loadFile, whose result (content or errno) goes into m_results
Load(w) ==
  /\ worker[w] = "loading"
  /\ results' = results \cup {loading[w]}
  /\ worker' = [worker EXCEPT ![w] = "loaded"]
  /\ UNCHANGED <<queue, pending, shutdown, loading, user, submitted, taken>>

\* --m_pendingCount; the last one tells wait()
Count(w) ==
  /\ worker[w] = "loaded"
  /\ pending' = pending - 1
  /\ user' = IF pending' = 0 /\ user = "waiting" THEN "woken" ELSE user
  /\ worker' = [worker EXCEPT ![w] = "check"]
  /\ loading' = [loading EXCEPT ![w] = NoPath]
  /\ UNCHANGED <<queue, results, shutdown, submitted, taken>>

WorkerStep(w) == NextPath(w) \/ Load(w) \/ Count(w)

\* a condition variable may wake its sleeper for nothing
Spurious ==
  /\ \/ \E w \in Asleep : worker' = [worker EXCEPT ![w] = "check"]
        /\ user' = user
     \/ user = "waiting" /\ user' = "woken" /\ UNCHANGED worker
  /\ UNCHANGED <<queue, pending, results, shutdown, loading, submitted, taken>>

UserStep == SubmitAll \/ Wait \/ Finish \/ Join
            \/ \E p \in Paths : Submit(p) \/ Take(p)

LoaderNext == UserStep \/ Spurious \/ \E w \in Workers : WorkerStep(w)

\* Threads run, and a user that submits goes on to wait.
LoaderFairness ==
  /\ WF_loaderVars(Wait) /\ WF_loaderVars(Finish) /\ WF_loaderVars(Join)
  /\ \A p \in Paths : WF_loaderVars(Take(p))
  /\ \A w \in Workers : WF_loaderVars(WorkerStep(w))

LoaderSpec == LoaderInit /\ [][LoaderNext]_loaderVars /\ LoaderFairness

----------------------------------------------------------------------------
\* Properties.

\* The user that started waiting gets its results, and the pool closes: no
\* notification is sent before the thread it is for is asleep and then missed.
PoolCloses == (user = "waiting") ~> (user = "closed")
=============================================================================

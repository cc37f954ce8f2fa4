-------------------------- MODULE ThreadedLogFile ---------------------------
(***************************************************************************)
(* The game's log (utils/ThreadedLogFile.cpp; utils.cpp's Log writes to    *)
(* it): any thread adds a message to *writeQueue, and the log's own thread *)
(* swaps the two queues and writes *flushQueue out, once a second and once *)
(* more when it has been told to stop.  The i-th message added is i.       *)
(***************************************************************************)
EXTENDS Naturals, Sequences

CONSTANT MaxMessages  \* bound: how many messages are added in all

VARIABLES queueOne, queueTwo,  \* the two queues
          writeOne,   \* writeQueue = &queueOne (else flushQueue is)
          flushed,    \* how many entries of *flushQueue its loop has been through
          numAdded,   \* how many messages were added
          logFile,    \* the messages in the file
          numDropped, \* how many were dropped as the file did not open
          logThread,  \* where the log's own thread is in run()
          isRunning,  \* the flag run() looks at
          wanted,     \* how many messages were added before terminate()
          joined      \* shutdown() has joined the thread

logVars == <<queueOne, queueTwo, writeOne, flushed, numAdded, logFile,
             numDropped, logThread, isRunning, wanted, joined>>

LogInit ==
  /\ queueOne = << >> /\ queueTwo = << >> /\ writeOne = TRUE
  /\ flushed = 0 /\ numAdded = 0 /\ logFile = << >> /\ numDropped = 0
  /\ logThread = "check" /\ isRunning = TRUE /\ wanted = 0
  /\ joined = FALSE

writeQueue == IF writeOne THEN queueOne ELSE queueTwo
flushQueue == IF writeOne THEN queueTwo ELSE queueOne

\* the queues with *writeQueue = w and *flushQueue = f
Queues(w, f) == IF writeOne THEN queueOne' = w /\ queueTwo' = f
                            ELSE queueOne' = f /\ queueTwo' = w

Logged(n) ==
  /\ numAdded + n <= MaxMessages /\ numAdded' = numAdded + n
  /\ Queues(writeQueue \o [i \in 1..n |-> numAdded + i], flushQueue)

\* addMessage, from any thread, until the object is deleted
AddMessage ==
  /\ ~joined /\ Logged(1)
  /\ UNCHANGED <<writeOne, flushed, logFile, numDropped, logThread,
                 isRunning, wanted, joined>>

\* run(): the flag, ...
LookAtFlag ==
  /\ logThread = "check"
  /\ logThread' = IF isRunning THEN "swap" ELSE "lastSwap"
  /\ UNCHANGED <<queueOne, queueTwo, writeOne, flushed, numAdded, logFile,
                 numDropped, isRunning, wanted, joined>>

\* ... and processMessages up to the swap under the lock: not when there is
\* nothing to write
Swap ==
  /\ logThread \in {"swap", "lastSwap"}
  /\ writeOne' = IF writeQueue # << >> THEN ~writeOne ELSE writeOne
  /\ logThread' = IF logThread = "swap" THEN "writing" ELSE "last"
  /\ UNCHANGED <<queueOne, queueTwo, flushed, numAdded, logFile, numDropped,
                 isRunning, wanted, joined>>

\* The loop over *flushQueue, which is cleared as a whole after the loop.
InLoop == logThread \in {"writing", "last"} /\ flushed < Len(flushQueue)
LoopDone == logThread \in {"writing", "last"} /\ flushed = Len(flushQueue)
ToNext == flushed' = flushed + 1

\* the next entry, into a file that is open or opens now; Log() complains of
\* a missing directory to this very log
WriteEntry ==
  /\ InLoop /\ ToNext
  /\ logFile' = Append(logFile, flushQueue[flushed'])
  /\ \E n \in 0..1 : Logged(n)
  /\ UNCHANGED <<writeOne, numDropped, logThread, isRunning, wanted, joined>>

\* the next entry, for which the file does not open: Log() complains of that
\* too, and the loop goes on
EntryFails ==
  /\ InLoop /\ ToNext
  /\ numDropped' = numDropped + 1
  /\ \E n \in 1..2 : Logged(n)
  /\ UNCHANGED <<writeOne, logFile, logThread, isRunning, wanted, joined>>

\* close(), flushQueue->clear(), and the second of sleep or the return
MClear ==
  /\ LoopDone /\ flushed' = 0
  /\ Queues(<< >>, << >>)
  /\ logThread' = IF logThread = "last" THEN "returned" ELSE "asleep"
  /\ UNCHANGED <<writeOne, numAdded, logFile, numDropped, isRunning, wanted,
                 joined>>
Clear ==
  /\ LoopDone /\ flushed' = 0
  /\ Queues(writeQueue, << >>)
  /\ logThread' = IF logThread = "last" THEN "returned" ELSE "asleep"
  /\ UNCHANGED <<writeOne, numAdded, logFile, numDropped, isRunning, wanted,
                 joined>>

\* a run() that returns as soon as it sees the flag
MWake ==
  /\ logThread = "asleep"
  /\ logThread' = IF isRunning THEN "check" ELSE "returned"
  /\ UNCHANGED <<queueOne, queueTwo, writeOne, flushed, numAdded, logFile,
                 numDropped, isRunning, wanted, joined>>
Wake ==
  /\ logThread = "asleep" /\ logThread' = "check"
  /\ UNCHANGED <<queueOne, queueTwo, writeOne, flushed, numAdded, logFile,
                 numDropped, isRunning, wanted, joined>>

\* shutdown() at the end of the game: terminate() and join()
Terminate ==
  /\ isRunning /\ isRunning' = FALSE /\ wanted' = numAdded
  /\ UNCHANGED <<queueOne, queueTwo, writeOne, flushed, numAdded, logFile,
                 numDropped, logThread, joined>>

JoinLog ==
  /\ ~isRunning /\ logThread = "returned" /\ ~joined /\ joined' = TRUE
  /\ UNCHANGED <<queueOne, queueTwo, writeOne, flushed, numAdded, logFile,
                 numDropped, logThread, isRunning, wanted>>

LogThread == LookAtFlag \/ Swap \/ WriteEntry \/ EntryFails \/ Clear \/ Wake
LogNext == AddMessage \/ LogThread \/ Terminate \/ JoinLog

LogSpec == LogInit /\ [][LogNext]_logVars

----------------------------------------------------------------------------
\* Properties.

\* The log keeps its promise to the threads that write to it, whatever the
\* moment they write at, also while its own thread writes and complains: no
\* message overtakes another, comes twice or is forgotten in either queue,
\* and the last round before the thread returns takes all that was there
\* when the game told it to stop.
Through == Len(logFile) + numDropped
Log == INSTANCE MessageLog WITH
         added <- numAdded,
         dealt <- Through,
         file <- logFile,
         due <- wanted,
         stop <- IF joined THEN "stopped" ELSE IF isRunning THEN "no" ELSE "told"
KeepsPromise == Log!MLSpec
=============================================================================

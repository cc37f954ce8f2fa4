--------------------------- MODULE ScriptImports ----------------------------
(***************************************************************************)
(* How an edited script file gets into the running game (js/js.cpp): one   *)
(* thread scans the directory every second and queues what changed in the  *)
(* table scriptImportQueue, another takes the rows out of the table every  *)
(* five seconds and hands them over in a pair of queues, and the heartbeat *)
(* of the main thread reads the files and compiles them.                   *)
(*                                                                         *)
(* The reading itself is ParallelFileLoader, whose wait() makes it one     *)
(* step of the main thread.  Times are the seconds of time(nullptr) and of *)
(* the files; a row is [id, file].                                         *)
(***************************************************************************)
EXTENDS Naturals, Sequences, FiniteSets, SequencesExt

CONSTANTS Scripts,        \* the script files
          MaxEdits,       \* bound: edits in all
          MaxSecond,      \* bound: the clock stops there
          EditsCollide,   \* a file may be edited twice in a second, or in
                          \* the second of the boot
          MaxFailures,    \* bound: queries that fail in all
          MainStalls      \* the main thread may be away for more than the
                          \* five seconds between two looks at the table

VARIABLES second,     \* the clock
          edits,      \* edits so far
          script,     \* script[f]: [version, mtime] on the disk
          lastSeen,   \* filePathToLastModifiedMap
          batch,      \* the files batchInsertStatement holds
          table,      \* scriptImportQueue, ORDER BY id
          lastId,     \* its auto_increment
          importer,   \* where monitorScriptImportTable is
          toDelete,   \* idDeleteQueue
          importQueue,\* the two queues
          writesOne,  \* scriptImportWriteQueue is importQueue[1]
          compiled,   \* compiled[f]: the version the game runs
          attentive,  \* the heartbeat came by since the last swap
          failures,   \* queries that failed so far
          unsaved     \* the files whose row could not be inserted

importsVars == <<second, edits, script, lastSeen, batch, table, lastId, importer,
                 toDelete, importQueue, writesOne, compiled, attentive,
                 failures, unsaved>>

\* bootScriptsDirectly: every script is compiled, and boot time is the
\* baseline.  (The boot is the second 0.)
ImportsInit ==
  /\ second = 0 /\ edits = 0
  /\ script = [f \in Scripts |-> [version |-> 0, mtime |-> 0]]
  /\ lastSeen = [f \in Scripts |-> 0]
  /\ batch = {} /\ table = << >> /\ lastId = 0
  /\ importer = "select" /\ toDelete = {}
  /\ importQueue = << << >>, << >> >> /\ writesOne = TRUE
  /\ compiled = [f \in Scripts |-> 0] /\ attentive = TRUE
  /\ failures = 0 /\ unsaved = {}

Wi == IF writesOne THEN 1 ELSE 2  \* scriptImportWriteQueue
Ri == IF writesOne THEN 2 ELSE 1  \* scriptImportReadQueue

----------------------------------------------------------------------------
\* The clock, and the builder's editor.

TimePasses ==
  /\ second < MaxSecond /\ second' = second + 1
  /\ UNCHANGED <<edits, script, lastSeen, batch, table, lastId, importer,
                 toDelete, importQueue, writesOne, compiled, attentive, failures, unsaved>>

Edit(f) ==
  /\ edits < MaxEdits /\ edits' = edits + 1
  /\ EditsCollide \/ script[f].mtime < second
  /\ script' = [script EXCEPT ![f] = [version |-> @.version + 1,
                                      mtime |-> second]]
  /\ UNCHANGED <<second, lastSeen, batch, table, lastId, importer, toDelete,
                 importQueue, writesOne, compiled, attentive, failures, unsaved>>

----------------------------------------------------------------------------
\* monitorFileModifications

\* checkFileModifications: what is newer than when it was last seen goes
\* into the batch, and into the map at once
Scan ==
  /\ batch = {}
  /\ LET new == {f \in Scripts : lastSeen[f] < script[f].mtime} IN
       /\ batch' = new
       /\ lastSeen' = [f \in Scripts |-> IF f \in new THEN script[f].mtime
                                                     ELSE lastSeen[f]]
       /\ unsaved' = unsaved \ new
  /\ UNCHANGED <<second, edits, script, table, lastId, importer, toDelete,
                 importQueue, writesOne, compiled, attentive, failures>>

\* batchInsertStatement.finish(): the rows, in the order of the directory
Insert ==
  /\ batch # {}
  /\ \E order \in SetToSeqs(batch) :
       table' = table \o [i \in 1..Len(order) |->
                            [id |-> lastId + i, file |-> order[i]]]
  /\ lastId' = lastId + Cardinality(batch)
  /\ batch' = {}
  /\ UNCHANGED <<second, edits, script, lastSeen, importer, toDelete,
                 importQueue, writesOne, compiled, attentive, failures, unsaved>>

\* ... or a QueryException, after which the loop starts over
InsertFails ==
  /\ failures < MaxFailures /\ failures' = failures + 1
  /\ batch # {} /\ batch' = {}
  /\ unsaved' = unsaved \cup batch
  /\ UNCHANGED <<second, edits, script, lastSeen, table, lastId, importer,
                 toDelete, importQueue, writesOne, compiled, attentive>>

----------------------------------------------------------------------------
\* monitorScriptImportTable

\* the rows, in order, onto the write queue; a query that fails half way
\* leaves there what it had pushed
Select ==
  /\ importer = "select" /\ table # << >>
  /\ importQueue' = [importQueue EXCEPT ![Wi] = @ \o table]
  /\ toDelete' = {r.id : r \in ToSet(table)}
  /\ importer' = "swap"
  /\ UNCHANGED <<second, edits, script, lastSeen, batch, table, lastId,
                 writesOne, compiled, attentive, failures, unsaved>>

SelectFails ==
  /\ failures < MaxFailures /\ failures' = failures + 1
  /\ importer = "select"
  /\ \E n \in 1..Len(table) :
       importQueue' = [importQueue EXCEPT ![Wi] = @ \o SubSeq(table, 1, n)]
  /\ UNCHANGED <<second, edits, script, lastSeen, batch, table, lastId,
                 importer, toDelete, writesOne, compiled, attentive, unsaved>>

\* under scriptImportMutex
SwapImports ==
  /\ importer = "swap" /\ (MainStalls \/ attentive)
  /\ writesOne' = ~writesOne
  /\ importer' = "clear" /\ attentive' = FALSE
  /\ UNCHANGED <<second, edits, script, lastSeen, batch, table, lastId,
                 toDelete, importQueue, compiled, failures, unsaved>>

\* scriptImportWriteQueue->clear(), of the queue the main thread had
ClearImports ==
  /\ importer = "clear"
  /\ importQueue' = [importQueue EXCEPT ![Wi] = << >>]
  /\ importer' = "delete"
  /\ UNCHANGED <<second, edits, script, lastSeen, batch, table, lastId,
                 toDelete, writesOne, compiled, attentive, failures, unsaved>>

\* DELETE FROM scriptImportQueue WHERE id IN ..., then the sleep
MDeleteRows ==
  /\ importer = "delete"
  /\ table' = << >>
  /\ toDelete' = {} /\ importer' = "select"
  /\ UNCHANGED <<second, edits, script, lastSeen, batch, lastId, importQueue,
                 writesOne, compiled, attentive, failures, unsaved>>
DeleteRows ==
  /\ importer = "delete"
  /\ table' = SelectSeq(table, LAMBDA r : r.id \notin toDelete)
  /\ toDelete' = {} /\ importer' = "select"
  /\ UNCHANGED <<second, edits, script, lastSeen, batch, lastId, importQueue,
                 writesOne, compiled, attentive, failures, unsaved>>

\* ... or the rows stay, to be found again
DeleteFails ==
  /\ failures < MaxFailures /\ failures' = failures + 1
  /\ importer = "delete"
  /\ toDelete' = {} /\ importer' = "select"
  /\ UNCHANGED <<second, edits, script, lastSeen, batch, table, lastId,
                 importQueue, writesOne, compiled, attentive, unsaved>>

----------------------------------------------------------------------------
\* processScriptImports, every heartbeat: the read queue is emptied under
\* the lock, then each file on it is read and compiled as it now is.
ProcessScriptImports ==
  /\ LET files == {r.file : r \in ToSet(importQueue[Ri])} IN
       compiled' = [f \in Scripts |-> IF f \in files THEN script[f].version
                                                     ELSE compiled[f]]
  /\ importQueue' = [importQueue EXCEPT ![Ri] = << >>]
  /\ attentive' = TRUE
  /\ UNCHANGED <<second, edits, script, lastSeen, batch, table, lastId,
                 importer, toDelete, writesOne, failures, unsaved>>

Scanner == Scan \/ Insert
Importer == Select \/ SwapImports \/ ClearImports \/ DeleteRows
QueryFails == InsertFails \/ SelectFails \/ DeleteFails

ImportsNext == TimePasses \/ QueryFails \/ Scanner \/ Importer \/ ProcessScriptImports
               \/ \E f \in Scripts : Edit(f)

----------------------------------------------------------------------------
\* Properties.

\* Once the builders stop, the game comes to run what is on the disk: three
\* threads, a table and two queues lose no edit, also when queries fail, but
\* for a file whose row could not be inserted (the map of times says it was).
ScriptsReload ==
  <>[](\A f \in Scripts : compiled[f] = script[f].version \/ f \in unsaved)

\* What is queued for the main thread gets there: js.cpp:291 swaps the queues
\* "so the other thread can get it".
QueuedIsCompiled ==
  [][\A r \in ToSet(importQueue[1] \o importQueue[2]) :
       r \in ToSet(importQueue'[1] \o importQueue'[2])
       \/ compiled'[r.file] = script[r.file].version]_importsVars
=============================================================================

------------------------------- MODULE MCGame --------------------------------
(***************************************************************************)
(* Parts of the game process that share no state, so a behaviour is one of *)
(* one part, with the others at rest: the background threads, and what     *)
(* players carry, with bags or with corpses.                               *)
(***************************************************************************)
EXTENDS ParallelFileLoader, ThreadedJobs, ThreadedLogFile, ScriptImports, ItemSaving

CONSTANT Parts   \* the parts to explore

VARIABLE part

NoCorpse == \A c \in Corpses : where[c] = Gone

MCInit ==
  /\ part \in Parts /\ LoaderInit /\ JobsInit /\ LogInit /\ ImportsInit /\ ItemsInit
  /\ \A o \in Items :
       where[o] # Gone <=> \/ part = "bags" /\ o \in Things \cup Bags
                           \/ part = "corpses" /\ o \in Things

MCNext ==
  /\ UNCHANGED part
  /\ \/ part = "loader" /\ LoaderNext
        /\ UNCHANGED <<jobsVars, logVars, importsVars, itemVars>>
     \/ part = "jobs" /\ JobsNext
        /\ UNCHANGED <<loaderVars, logVars, importsVars, itemVars>>
     \/ part = "log" /\ LogNext
        /\ UNCHANGED <<loaderVars, jobsVars, importsVars, itemVars>>
     \/ part = "imports" /\ ImportsNext
        /\ UNCHANGED <<loaderVars, jobsVars, logVars, itemVars>>
     \/ part = "bags" /\ ItemsNext /\ NoCorpse'
        /\ UNCHANGED <<loaderVars, jobsVars, logVars, importsVars>>
     \/ part = "corpses" /\ ItemsNext /\ prompts' = {}
        /\ UNCHANGED <<loaderVars, jobsVars, logVars, importsVars>>

\* The fairness of each module, in the behaviours of its part.
MCFairness ==
  /\ WF_loaderVars(part = "loader" /\ (Wait \/ Finish \/ Join))
  /\ \A p \in Paths : WF_loaderVars(part = "loader" /\ Take(p))
  /\ \A w \in Workers : WF_loaderVars(part = "loader" /\ WorkerStep(w))
  /\ WF_importsVars(part = "imports" /\ Scanner)
  /\ WF_importsVars(part = "imports" /\ Importer)
  /\ WF_importsVars(part = "imports" /\ ProcessScriptImports)

MCSpec == MCInit /\ [][MCNext]_<<part, loaderVars, jobsVars, logVars, importsVars, itemVars>>
          /\ MCFairness
==============================================================================

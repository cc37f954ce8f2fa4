----------------------------- MODULE MessageLog -----------------------------
(***************************************************************************)
(* What the log promises those who write to it: it deals with messages one *)
(* by one in the order they were added, putting each into the file or (the *)
(* file did not open) dropping it, and it has dealt with all that were     *)
(* added before it was told to stop when it reports itself stopped.        *)
(***************************************************************************)
EXTENDS Naturals, Sequences

VARIABLES added,     \* how many messages were added; the i-th is i
          dealt,     \* how many of them are dealt with
          file,      \* the messages in the file
          due,       \* how many it must deal with to be stopped
          stop       \* "no", "told" or "stopped"

mlVars == <<added, dealt, file, due, stop>>

MLInit == added = 0 /\ dealt = 0 /\ file = << >> /\ due = 0 /\ stop = "no"

MLAdd == added' = added + 1 /\ UNCHANGED <<dealt, file, due, stop>>

MLDeal(more) ==
  /\ dealt < added /\ dealt' = dealt + 1
  /\ file' \in {file, Append(file, dealt')}
  /\ added' = added + more
  /\ UNCHANGED <<due, stop>>

MLTell == stop = "no" /\ stop' = "told" /\ due' = added
          /\ UNCHANGED <<added, dealt, file>>

MLStopped == stop = "told" /\ dealt >= due /\ stop' = "stopped"
             /\ UNCHANGED <<added, dealt, file, due>>

MLNext == MLAdd \/ MLTell \/ MLStopped \/ \E more \in 0..2 : MLDeal(more)

MLSpec == MLInit /\ [][MLNext]_mlVars
=============================================================================

-------------------------------- MODULE Seats --------------------------------
(***************************************************************************)
(* What the gateway and the game promise together, without processes,      *)
(* sockets or lines.  A client that is present may take a seat in the      *)
(* game under a session key nobody else plays with, and the game then      *)
(* knows it by its own address.  Seats are lost, any number at a time,     *)
(* when players quit or the game stops; whether the clients stay or leave  *)
(* is a matter of its own; one that has left has lost its seat, and if it  *)
(* arrives again it has to take a new one.                                 *)
(***************************************************************************)
CONSTANTS Clients, Keys, None

VARIABLES
  present,   \* the clients at the gateway
  seat,      \* seat[c]: the session key c plays with, or None
  host       \* host[c]: the address the game has recorded for that player

vars == <<present, seat, host>>

Init ==
  /\ present = {}
  /\ seat = [c \in Clients |-> None]
  /\ host = [c \in Clients |-> None]

Arrive(c) ==
  /\ c \notin present
  /\ present' = present \union {c}
  /\ UNCHANGED <<seat, host>>

Seat(c, k) ==
  /\ c \in present /\ seat[c] = None
  /\ \A d \in Clients : seat[d] # k
  /\ seat' = [seat EXCEPT ![c] = k]
  /\ host' = [host EXCEPT ![c] = c]
  /\ UNCHANGED present

\* The clients in Left leave, and those in Lost lose their seats.
Clear(Lost, Left) ==
  /\ Left \subseteq Lost
  /\ present' = present \ Left
  /\ seat' = [c \in Clients |-> IF c \in Lost THEN None ELSE seat[c]]
  /\ host' = [c \in Clients |-> IF c \in Lost THEN None ELSE host[c]]

Next ==
  \/ \E Lost \in SUBSET Clients : \E Left \in SUBSET Lost : Clear(Lost, Left)
  \/ \E c \in Clients : Arrive(c) \/ \E k \in Keys : Seat(c, k)

Spec == Init /\ [][Next]_vars
===============================================================================

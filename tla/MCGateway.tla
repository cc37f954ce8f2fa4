------------------------------ MODULE MCGateway ------------------------------
(* Instances of GatewaySystem for TLC: how many faults of each kind a run has. *)
EXTENDS GatewaySystem

No == [e \in Events |-> 0]

\* Games that crash and games that are told to stop.
Stops == {[No EXCEPT !["crash"] = 1, !["reboot"] = 1]}

\* Games started by hand; a gateway that dies under its clients, who type and
\* pass by; or a mother connection that breaks between two living processes,
\* and a crash.
Faults == {[No EXCEPT !["start"] = 1, !["restart"] = 1, !["slow"] = 1, !["line"] = 1, !["idle"] = 1],
           [No EXCEPT !["start"] = 2, !["break"] = 1, !["crash"] = 1]}

\* The gateway told to stop or restart with the game.
Orders == Stops \cup {[No EXCEPT !["reboot"] = 2, !["admin"] = 2]}
===============================================================================

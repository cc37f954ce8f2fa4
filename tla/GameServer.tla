------------------------------ MODULE GameServer ------------------------------
(***************************************************************************)
(* The game's side of the gateway protocol: start-up and shutdown          *)
(* (initiateGame), the wait for a gateway (waitForGatewayConnection), the  *)
(* network part of one pass of gameLoop, and the life of a Descriptor from *)
(* CON_GATEWAY to cleanup().  The variables describe the one process that  *)
(* holds the port, `game'; a process that has closed its listener only     *)
(* keeps its sockets (GatewayNet).                                         *)
(*                                                                         *)
(* The order of a pass is the code's: commands from the gateway, then the  *)
(* players' input, then kuListener::pulse (read all sockets, then call the *)
(* close callback of the dead ones), then at most one accept, then the     *)
(* kick of closing descriptors.                                            *)
(***************************************************************************)
EXTENDS GatewayNet

CONSTANT MaxPending   \* cap on pendingSessions (1024 in the code)

ASSUME MaxPendingAssumption == MaxPending \in Nat

VARIABLES
  game,      \* the process that holds the port, None if there is none
  phase,     \* where that process is in its loop
  waiting,   \* inside waitForGatewayConnection
  booted,    \* boot_db has been done
  stopping,  \* circle_shutdown
  gwc,       \* gatewayConnection: a socket or None
  inbuf,     \* inbuf[s]: lines read from s and not processed yet
  pending,   \* pendingSessions: [key, host, old]; old means over 30 seconds
  gdesc      \* gdesc[s]: the Descriptor whose kuDescriptor is s

gameVars == <<game, phase, waiting, booted, stopping, gwc, inbuf, pending, gdesc>>

Phases == {"off", "boot", "work", "pulse", "reap", "scan", "accept",
           "lastPulse", "lastReap", "halt", "saving"}

\* No Descriptor; one in CON_GATEWAY; one past it (CON_GET_NAME and later).
DescStates == {"none", "gateway", "in"}
NoDesc == [state |-> "none", session |-> None, host |-> None]

GameTypeOK ==
  /\ game \in Pids \union {None}
  /\ phase \in Phases
  /\ waiting \in BOOLEAN /\ booted \in BOOLEAN /\ stopping \in BOOLEAN
  /\ gwc \in Socks \union {None}
  /\ inbuf \in [Socks -> Seq(Messages)]
  /\ pending \subseteq [key : Keys, host : Clients, old : BOOLEAN]
  /\ Cardinality(pending) <= MaxPending
  /\ gdesc \in [Socks -> [state : DescStates, session : Keys \union {None},
                          host : Clients \union {None}]]

\* The user-space state of a process that does not run.
Blank ==
  /\ game' = None /\ phase' = "off"
  /\ waiting' = FALSE /\ booted' = FALSE /\ stopping' = FALSE
  /\ gwc' = None
  /\ inbuf' = [s \in Socks |-> <<>>]
  /\ pending' = {}
  /\ gdesc' = [s \in Socks |-> NoDesc]

GameInit ==
  /\ game = None /\ phase = "off"
  /\ waiting = FALSE /\ booted = FALSE /\ stopping = FALSE
  /\ gwc = None
  /\ inbuf = [s \in Socks |-> <<>>]
  /\ pending = {}
  /\ gdesc = [s \in Socks |-> NoDesc]

-------------------------------------------------------------------------------
(* Output.                                                                 *)

Deliverable(s) == s # None /\ gameEnd[s] = "open" /\ gwEnd[s]

\* kuDescriptor::send or socketWriteInstant on s: lost unless both ends live.
WriteTo(s, m) ==
  toGw' = IF Deliverable(s) THEN [toGw EXCEPT ![s] = Append(@, m)] ELSE toGw

\* Descriptor::disconnect: Close goes out only when there is a gateway and
\* the descriptor has a session; cleanup() then deletes the Descriptor and
\* leaves the socket as it is.
Disconnect(s, gateway) ==
  /\ IF gateway # None /\ gdesc[s].session # None
       THEN WriteTo(gateway, [type |-> "Close", key |-> gdesc[s].session])
       ELSE UNCHANGED toGw
  /\ gdesc' = [gdesc EXCEPT ![s] = NoDesc]

-------------------------------------------------------------------------------
(* Start-up.                                                               *)

\* initiateGame up to the wait: bind, or exit(1) when the port is taken.
Bind(p) ==
  /\ proc[p] = "forked"
  /\ IF Listening = {}
       THEN /\ proc' = [proc EXCEPT ![p] = "listening"]
            /\ game' = p /\ phase' = "accept" /\ waiting' = TRUE
            /\ UNCHANGED <<booted, stopping, gwc, inbuf, pending, gdesc>>
       ELSE /\ proc' = [proc EXCEPT ![p] = "none"]
            /\ UNCHANGED gameVars
  /\ UNCHANGED <<gwEnd, gameEnd, owner, toGame, toGw>>

\* boot_db, then FinishedBooting.
Boot ==
  /\ phase = "boot"
  /\ WriteTo(gwc, Message("FinishedBooting"))
  /\ phase' = "work" /\ booted' = TRUE
  /\ UNCHANGED <<proc, gwEnd, gameEnd, owner, toGame, game, waiting, stopping,
                 gwc, inbuf, pending, gdesc>>

-------------------------------------------------------------------------------
(* One pass: the gateway's commands, then the players' input.              *)

\* pendingSessions.remove_if
Pruned == {e \in pending : ~e.old}

Full == Cardinality(Pruned) >= MaxPending

\* processGatewayCommand, "Host": a full pending list drops the request.
Host(c, k) ==
  IF Full
    THEN pending' = Pruned /\ UNCHANGED toGw
    ELSE /\ pending' = Pruned \union {[key |-> k, host |-> c, old |-> FALSE]}
         /\ WriteTo(gwc, [type |-> "SessionFor", client |-> c, key |-> k])

\* The next command of the gateway's connection (getCommand until empty); k is
\* the token that randomToken() would return.  Anything but Host (and Ping, which only answers) is ignored.
GatewayCommand(k) ==
  /\ phase = "work" /\ gwc # None /\ inbuf[gwc] # <<>>
  /\ LET m == Head(inbuf[gwc]) IN
       IF m.type = "Host"
         THEN Host(m.client, k)
         ELSE UNCHANGED <<pending, toGw>>
  /\ inbuf' = [inbuf EXCEPT ![gwc] = Tail(@)]
  /\ UNCHANGED <<proc, gwEnd, gameEnd, owner, toGame, game, phase, waiting, booted,
                 stopping, gwc, gdesc>>

GatewayDone == gwc = None \/ inbuf[gwc] = <<>>

\* nanny in CON_GATEWAY, "Session": a pending entry of at most 30 seconds is
\* consumed, and its host becomes the player's; otherwise disconnect().
MatchAny(k) == {e \in pending : ~e.old}
Match(k) == {e \in pending : e.key = k /\ ~e.old}
Admit(s, k) ==
  IF Match(k) = {}
    THEN Disconnect(s, gwc) /\ UNCHANGED pending
    ELSE \E e \in Match(k) :
           /\ pending' = pending \ {e}
           /\ gdesc' = [gdesc EXCEPT ![s] =
                          [state |-> "in", session |-> k, host |-> e.host]]
           /\ UNCHANGED toGw

\* processInput of the Descriptor on s: one line.
PlayerInput(s) ==
  /\ phase = "work" /\ GatewayDone
  /\ gdesc[s].state # "none" /\ inbuf[s] # <<>>
  /\ LET m == Head(inbuf[s]) IN
       IF gdesc[s].state = "gateway" /\ m.type = "Session"
         THEN Admit(s, m.key)
         ELSE UNCHANGED <<pending, gdesc, toGw>>
  /\ inbuf' = [inbuf EXCEPT ![s] = Tail(@)]
  /\ UNCHANGED <<proc, gwEnd, gameEnd, owner, toGame, game, phase, waiting, booted,
                 stopping, gwc>>

WorkDone ==
  /\ phase = "work" /\ GatewayDone
  /\ \A s \in Socks : gdesc[s].state = "none" \/ inbuf[s] = <<>>
  /\ phase' = "pulse"
  /\ UNCHANGED <<netVars, game, waiting, booted, stopping, gwc, inbuf, pending, gdesc>>

-------------------------------------------------------------------------------
(* kuListener::pulse and acceptNewHosts.                                   *)

\* Where a pulse goes on: to its close loop as long as a socket is shut.
AfterReads(ph, ends) ==
  LET last == ph \in {"lastPulse", "lastReap"} IN
    IF \E s \in Socks : owner[s] = game /\ ends[s] = "shut"
      THEN IF last THEN "lastReap" ELSE "reap"
      ELSE IF last THEN "halt" ELSE IF waiting THEN "scan" ELSE "accept"

\* The read loop: one recv per socket, so data that is waiting hides the end
\* of file behind it until the next pulse.
Pulse ==
  /\ phase \in {"pulse", "lastPulse"}
  /\ LET open == {s \in Socks : owner[s] = game /\ gameEnd[s] = "open"}
         ready == {s \in open : toGame[s] # <<>>}
         ended == {s \in open \ ready : ~gwEnd[s]} IN
       /\ inbuf' = [s \in Socks |->
                      IF s \in ready THEN inbuf[s] \o toGame[s] ELSE inbuf[s]]
       /\ toGame' = [s \in Socks |-> IF s \in ready THEN <<>> ELSE toGame[s]]
       /\ gameEnd' = [s \in Socks |-> IF s \in ended THEN "shut" ELSE gameEnd[s]]
  /\ phase' = AfterReads(phase, gameEnd')
  /\ UNCHANGED <<proc, gwEnd, owner, toGw, game, waiting, booted, stopping, gwc,
                 pending, gdesc>>

\* gatewayConnection once s is closed.
GatewayKept(s) == gwc
GatewayWithout(s) == IF s = gwc THEN None ELSE gwc

\* The close loop: onDescriptorClose for s, then the kuDescriptor is deleted.
Reap(s) ==
  /\ phase \in {"reap", "lastReap"} /\ gameEnd[s] = "shut" /\ owner[s] = game
  /\ gwc' = GatewayWithout(s)
  /\ IF gdesc[s].state = "none"
       THEN UNCHANGED <<gdesc, toGw>>
       ELSE Disconnect(s, GatewayWithout(s))
  /\ gameEnd' = [gameEnd EXCEPT ![s] = "gone"]
  /\ toGame' = [toGame EXCEPT ![s] = <<>>]
  /\ inbuf' = [inbuf EXCEPT ![s] = <<>>]
  /\ phase' = AfterReads(phase, gameEnd')
  /\ UNCHANGED <<proc, gwEnd, owner, game, waiting, booted, stopping, pending>>

\* At most one connection per pass; onDescriptorOpen makes a Descriptor for
\* it, whoever it is, as soon as there is a gateway connection.  Then the top
\* of the loop: leave it, wait for a gateway connection, or work.
Accept ==
  /\ phase = "accept"
  /\ LET queue == {s \in Socks : owner[s] = game /\ gameEnd[s] = "backlog"} IN
       IF queue = {}
         THEN UNCHANGED <<gameEnd, gdesc>>
         ELSE \E s \in queue :
                /\ gameEnd' = [gameEnd EXCEPT ![s] = "open"]
                /\ gdesc' = IF gwc = None THEN gdesc
                            ELSE [gdesc EXCEPT ![s] = [NoDesc EXCEPT !.state = "gateway"]]
  /\ IF waiting \/ (gwc # None /\ ~stopping)
       THEN phase' = (IF waiting THEN "pulse" ELSE "work") /\ UNCHANGED waiting
       ELSE IF stopping THEN phase' = "lastPulse" /\ UNCHANGED waiting
       ELSE phase' = "accept" /\ waiting' = TRUE
  /\ UNCHANGED <<proc, gwEnd, owner, toGame, toGw, game, booted, stopping,
                 gwc, inbuf, pending>>

-------------------------------------------------------------------------------
(* waitForGatewayConnection, after its accept and pulse.                   *)

\* The first connection to authenticate becomes the gateway's: it is sent the
\* process id, and every other connection is closed.  Before that, a
\* connection whose first line does not authenticate is closed.
Scan ==
  /\ phase = "scan"
  /\ LET open == {s \in Socks : owner[s] = game /\ gameEnd[s] = "open"}
         talking == {s \in open : inbuf[s] # <<>>}
         valid == {s \in talking : Head(inbuf[s]).type = "Validate"}
         Shut(S) == gameEnd' = [s \in Socks |-> IF s \in S THEN "shut" ELSE gameEnd[s]]
         Take(S) == inbuf' = [s \in Socks |-> IF s \in S THEN Tail(inbuf[s]) ELSE inbuf[s]]
     IN IF valid = {}
          THEN /\ Shut(talking) /\ Take(talking)
               /\ phase' = "accept"
               /\ UNCHANGED <<toGw, gwc, waiting>>
          ELSE \E s \in valid :
               /\ Shut(open \ {s}) /\ Take({s})
               /\ gwc' = s /\ waiting' = FALSE
               /\ phase' = IF booted THEN "work" ELSE "boot"
               /\ toGw' = IF ~Deliverable(s) THEN toGw ELSE
                    [toGw EXCEPT ![s] = @ \o <<[type |-> "ProcessID", pid |-> game]>>
                       \o (IF booted THEN <<Message("FinishedBooting")>> ELSE <<>>)]
  /\ UNCHANGED <<proc, gwEnd, owner, toGame, game, booted, stopping, pending, gdesc>>

-------------------------------------------------------------------------------
(* Kicks and shutdown.                                                     *)

\* The code kicks after the accept, which makes no descriptor to kick.
KickingLate == phase \in {"accept", "saving"} /\ ~waiting
Kicking == phase = "accept" /\ ~waiting

\* A descriptor in CON_CLOSE or CON_DISCONNECT: the player quit, or idled.
Kick(s) ==
  /\ Kicking /\ gdesc[s].state # "none"
  /\ Disconnect(s, gwc)
  /\ UNCHANGED <<proc, gwEnd, gameEnd, owner, toGame, game, phase, waiting, booted,
                 stopping, gwc, inbuf, pending>>

\* An administrator's line to the gateway (do_reboot).
SetOnReboot(t) ==
  /\ phase = "work" /\ gwc # None
  /\ WriteTo(gwc, Message(t))
  /\ UNCHANGED <<proc, gwEnd, gameEnd, owner, toGame, gameVars>>

\* A command, the reboot timer or a signal sets circle_shutdown; gameLoop looks
\* at it only between two passes.
Stop ==
  /\ booted /\ ~stopping
  /\ stopping' = TRUE
  /\ UNCHANGED <<netVars, game, phase, waiting, booted, gwc, inbuf, pending, gdesc>>

\* Reboot is written before anything is saved.
Halt ==
  /\ phase = "halt"
  /\ WriteTo(gwc, Message("Reboot"))
  /\ phase' = "saving"
  /\ UNCHANGED <<proc, gwEnd, gameEnd, owner, toGame, game, waiting, booted,
                 stopping, gwc, inbuf, pending, gdesc>>

\* persistentDisconnect of every descriptor, then listener->close(): the
\* connections nobody accepted are reset, the accepted ones stay open.
CloseListener ==
  /\ phase = "saving"
  /\ proc' = [proc EXCEPT ![game] = "closing"]
  /\ GameVanishes({s \in OwnedBy(game) : gameEnd[s] = "backlog"})
  /\ Blank
  /\ UNCHANGED <<gwEnd, owner, toGw>>

\* delete listener closes the accepted sockets ...
CloseSockets(p) ==
  /\ proc[p] = "closing"
  /\ proc' = [proc EXCEPT ![p] = "exiting"]
  /\ GameVanishes(OwnedBy(p))
  /\ UNCHANGED <<gwEnd, owner, toGw, gameVars>>

\* ... and some time later the process is gone.
Exit(p) ==
  /\ proc[p] = "exiting"
  /\ proc' = [proc EXCEPT ![p] = "none"]
  /\ UNCHANGED <<gwEnd, gameEnd, owner, toGame, toGw, gameVars>>

\* The process dies where it stands.
Crash(p) ==
  /\ proc[p] # "none"
  /\ proc' = [proc EXCEPT ![p] = "none"]
  /\ GameVanishes(OwnedBy(p))
  /\ IF p = game THEN Blank ELSE UNCHANGED gameVars
  /\ UNCHANGED <<gwEnd, owner, toGw>>

\* More than 30 seconds pass over the pending entries.
Expire ==
  /\ \E e \in pending : ~e.old
  /\ pending' = {[e EXCEPT !.old = TRUE] : e \in pending}
  /\ UNCHANGED <<netVars, game, phase, waiting, booted, stopping, gwc, inbuf, gdesc>>
===============================================================================

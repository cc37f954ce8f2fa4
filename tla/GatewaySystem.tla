---------------------------- MODULE GatewaySystem ----------------------------
(***************************************************************************)
(* The gateway and the game processes it starts, together: every           *)
(* interleaving of the two loops, with game crashes, gateway restarts,     *)
(* lost mother connections and slow passes as faults.                      *)
(***************************************************************************)
EXTENDS GatewayServer, GameServer

\* How many events of each kind a behaviour may have: l[e] of kind e, l \in Limits.
CONSTANT Limits

\* start: a game started by hand.  crash: a game process dies.  break: the
\* mother connection fails.  restart: the gateway dies and is started again.
\* reboot: the game is told to stop.  admin: a line for the next reboot.
\* idle: a descriptor idles out before it has a session.  slow: 30 seconds
\* pass over a pending session.  line: a client types a line.
Events == {"start", "crash", "break", "restart", "reboot", "admin", "idle", "slow",
           "line"}

ASSUME LimitAssumption == Limits \subseteq [Events -> Nat]

VARIABLE budget   \* what is left of them

vars == <<netVars, gatewayVars, gameVars, budget>>

Init == NetInit /\ GatewayInit /\ GameInit /\ budget \in Limits

TypeOK ==
  /\ NetTypeOK /\ GatewayTypeOK /\ GameTypeOK
  /\ budget \in [Events -> Nat]

Spend(e) == budget[e] > 0 /\ budget' = [budget EXCEPT ![e] = @ - 1]

-------------------------------------------------------------------------------

\* randomToken: a key that no queue, descriptor or pending session holds.
KeysIn(q) == {q[i].key : i \in {j \in DOMAIN q : "key" \in DOMAIN q[j]}}
KeysHeld ==
  {e.key : e \in pending}
  \union {gdesc[s].session : s \in Socks} \union {desc[c].session : c \in Clients}
  \union UNION {KeysIn(toGame[s]) \union KeysIn(toGw[s]) \union KeysIn(inbuf[s]) :
                  s \in Socks}
SameToken == CHOOSE k \in Keys : TRUE
randomToken == CHOOSE k \in Keys \ KeysHeld : TRUE

\* The steps the gateway's loop is bound to take.
GatewayLoop ==
  \/ NetDone \/ LinkDown \/ Supervise \/ Input \/ InputDone
  \/ \E c \in Clients : RequestSession(c) \/ ServerLost(c)
  \/ ClientsDone

\* What its clients may do to it.
ClientStep ==
  \E c \in Clients : ClientArrives(c) \/ ClientLeaves(c) \/ Handshake(c)

GatewayStep == (GatewayLoop \/ ClientStep) /\ UNCHANGED <<gameVars, budget>>

\* The steps the game's loop is bound to take, once it holds the port.
GameLoop ==
  \/ Boot \/ (Keys \ KeysHeld # {} /\ GatewayCommand(randomToken))
  \/ \E s \in Socks : PlayerInput(s) \/ Reap(s)
  \/ WorkDone \/ Pulse \/ Accept \/ Scan \/ Halt
  \/ CloseListener

\* ... and the steps of a process before and after that.
ProcessStep == \E p \in Pids : Bind(p) \/ CloseSockets(p) \/ Exit(p)

\* A player who is past CON_GATEWAY quits, or idles out.
Quit == \E s \in Socks : gdesc[s].state = "in" /\ Kick(s)

GameStep == (GameLoop \/ ProcessStep \/ Quit) /\ UNCHANGED <<gatewayVars, budget>>

\* A game started by a developer (RESTART_ON_SHUTDOWN=0).
StartByHand(p) ==
  /\ proc[p] = "none"
  /\ proc' = [proc EXCEPT ![p] = "forked"]
  /\ UNCHANGED <<gwEnd, gameEnd, owner, toGame, toGw, gatewayVars>>

\* It takes minutes to idle out (checkIdlePasswords): nothing was there to read.
Silent(s) == inbuf[s] = <<>> /\ toGame[s] = <<>>

Fault ==
  \/ Spend("start") /\ UNCHANGED gameVars /\ \E p \in Pids : StartByHand(p)
  \/ Spend("crash") /\ UNCHANGED gatewayVars /\ \E p \in Pids : Crash(p)
  \/ Spend("break") /\ UNCHANGED gameVars /\ LinkBreaks
  \/ Spend("restart") /\ UNCHANGED gameVars /\ GatewayRestarts
  \/ Spend("reboot") /\ UNCHANGED gatewayVars /\ Stop
  \/ Spend("admin") /\ UNCHANGED gatewayVars
       /\ \E t \in {"Shutdown", "Restart"} : SetOnReboot(t)
  \/ /\ Spend("idle") /\ UNCHANGED gatewayVars
     /\ \E s \in Socks : gdesc[s].state = "gateway" /\ Silent(s) /\ Kick(s)
  \/ Spend("slow") /\ UNCHANGED gatewayVars /\ Expire
  \/ Spend("line") /\ UNCHANGED gameVars /\ \E c \in Clients : Forward(c)

\* A minute is longer than a game process needs to bind its port, and than a
\* pass of the gateway's loop, which need not look while it passes.
Wait60 ==
  /\ pc = "net" /\ \A p \in Pids : proc[p] # "forked"
  /\ Cooldown /\ UNCHANGED <<gameVars, budget>>

\* run() has returned and nothing is left to run.
Over ==
  /\ pc = "off" /\ \A p \in Pids : proc[p] = "none"
  /\ UNCHANGED vars

Next == GatewayStep \/ GameStep \/ Fault \/ Wait60 \/ Over

Spec == Init /\ [][Next]_vars

\* Each loop runs on its own thread and sleeps 5 ms or one tick at a time; a
\* forked game binds, a stopping one exits, and minutes pass whatever they do.
FairSpec ==
  /\ Spec
  /\ WF_vars(GatewayLoop /\ UNCHANGED <<gameVars, budget>>)
  /\ WF_vars(GameLoop /\ UNCHANGED <<gatewayVars, budget>>)
  /\ \A p \in Pids :
       /\ WF_vars(Bind(p) /\ UNCHANGED <<gatewayVars, budget>>)
       /\ WF_vars(CloseSockets(p) /\ UNCHANGED <<gatewayVars, budget>>)
       /\ WF_vars(Exit(p) /\ UNCHANGED <<gatewayVars, budget>>)
  /\ SF_vars(Wait60)

-------------------------------------------------------------------------------
(* Safety.                                                                 *)

\* A player whom the game has admitted is wired to one client of the gateway
\* only, that client holds the same session key, and the host the game has
\* recorded (for bans and logs) is that client's.
WiredToOneClient ==
  \A s \in Socks :
    gdesc[s].state = "in" /\ gwEnd[s] =>
      \E c \in Clients :
        /\ \A d \in Clients : desc[d].srv = s <=> d = c
        /\ gdesc[s].host = c
        /\ desc[c].session = gdesc[s].session

\* What pullFromServer and sendToServer dereference without a look: as long as
\* the gateway lives, a client has a server connection exactly while it is
\* connected, it is nobody else's, it is not the mother connection, and only
\* the gateway's loop closes it.
Wired ==
  \A c \in Clients :
    /\ desc[c].st = "connected" <=> desc[c].srv # None
    /\ desc[c].srv # None =>
         /\ desc[c].srv # mother /\ gwEnd[desc[c].srv]
         /\ \A d \in Clients \ {c} : desc[d].srv # desc[c].srv
OwnServerConnection == pc # "dead" => Wired

\* The game keeps raw pointers to kuDescriptors that kuListener::pulse deletes:
\* gatewayConnection and Descriptor::descriptor never outlive theirs.
PointersAlive ==
  \A s \in Socks : s = gwc \/ gdesc[s].state # "none" =>
    gameEnd[s] \in {"open", "shut"} /\ owner[s] = game

\* A client that waits for its session has a request under way: its Host line
\* or the answer is in the queues of the connection in use, or that
\* connection is lost, or about to be by a Reboot line, and the client will be
\* put back to ask again.
RequestUnderWay ==
  \A c \in Clients : desc[c].st = "retrievingSession" =>
    \/ ~isConnectedToGameServer \/ ~PeerUp(mother)
    \/ \E i \in DOMAIN toGame[mother] : toGame[mother][i] = [type |-> "Host", client |-> c]
    \/ \E i \in DOMAIN inbuf[mother] : inbuf[mother][i] = [type |-> "Host", client |-> c]
    \/ \E i \in DOMAIN toGw[mother] :
         LET m == toGw[mother][i] IN
           m.type = "Reboot" \/ (m.type = "SessionFor" /\ m.client = c)

\* No Close line ever meets a descriptor whose server connection is already
\* gone, which the gateway would not survive: handleGameShutdown keeps the
\* session keys and drops the connections.
GatewaySurvives == pc # "dead"

\* The game processes that load, run or save a world.
AtWork == {p \in Pids : proc[p] \in {"forked", "listening", "closing"}}

\* Two game processes never overlap: a game is started only when the last one
\* has not only closed its port but is past everything it saves.
OneGame == Cardinality(AtWork) <= 1

\* With ShutdownOnReboot the gateway stops when the game's work is done.
GatewayStopsLast == pc = "off" => AtWork = {}

\* A player whom the game still has loses the client only by the client's
\* doing, with the gateway, or because the game is gone: a Close line never
\* hits anyone else than the player it was sent for.
NoStrayClose ==
  [][\A c \in Clients :
       /\ pc = "input" /\ pc' # "net"
       /\ desc[c].st = "connected" /\ desc'[c].st # "connected"
       => \/ rebooting'
          \/ gdesc[desc[c].srv].state = "none"]_vars

-------------------------------------------------------------------------------
(* Liveness.                                                               *)

\* A client that waits for a game gets one, or leaves, unless the gateway is
\* told to stop.
ClientServed ==
  \A c \in Clients :
    desc[c].st \in {"awaitingConnection", "retrievingSession"}
      ~> (pc = "off" \/ desc[c].st \in {"connected", "gone"})

\* Whatever happened to the game, in the end one runs and the gateway knows,
\* unless the gateway was told to stop with it.
GameComesBack == <>[](pc = "off" \/ (status = "running" /\ booted))

-------------------------------------------------------------------------------
(* What the two programs promise together (Seats).                         *)

\* The player of client c: the key of the session under which the game has
\* admitted the other end of the client's own connection.
SeatOf(c) ==
  IF desc[c].st = "connected" /\ gdesc[desc[c].srv].state = "in"
    THEN gdesc[desc[c].srv].session ELSE None

S == INSTANCE Seats WITH
       present <- {c \in Clients : Present(c)},
       seat <- [c \in Clients |-> SeatOf(c)],
       host <- [c \in Clients |-> IF SeatOf(c) = None THEN None
                                  ELSE gdesc[desc[c].srv].host]
SeatsSpec == S!Spec
===============================================================================

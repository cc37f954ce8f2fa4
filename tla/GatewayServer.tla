----------------------------- MODULE GatewayServer -----------------------------
(***************************************************************************)
(* The gateway process: one thread that runs GatewayServer::run for ever.  *)
(* Its pass is split where another process can get in between: the pulse   *)
(* of the client sockets, the look at the mother connection, the look at   *)
(* the game process, the lines from the game, and the descriptors.         *)
(***************************************************************************)
EXTENDS GatewayNet

CONSTANT RestartOnShutdown   \* "Restart On Shutdown" in BasicConfig

VARIABLES
  pc,          \* the part of the pass that comes next
  status,      \* mudStatus
  crashed, rebooting,
  mudPid,      \* mudProcessId; None is 0
  mother,      \* motherConnectionToServer; None is nullptr
  lastTry60,   \* the last attemptMudStart is at least 60 seconds ago
  shutdownOnReboot,
  desc         \* desc[c]: the GatewayDescriptor of client c

gatewayVars == <<pc, status, crashed, rebooting, mudPid, mother, lastTry60,
                 shutdownOnReboot, desc>>

\* "dead": the null dereference of disconnectDescriptorFromGameAndGateway has
\* ended the process.  "off": run() has returned.
PassParts == {"net", "link", "supervise", "input", "clients", "off", "dead"}
MudStatuses == {"notRunning", "booting", "running", "shuttingDown"}

\* "new": not connected yet.  "gone": the descriptor is no longer in the list.
ClientStates == {"new", "gone", "handshaking", "awaitingConnection",
                 "retrievingSession", "connected", "disconnected"}

\* srv is the server connection, None for nullptr; open tells whether the
\* client's socket is; shaken whether a websocket handshake was answered.
Descriptors == [st : ClientStates, session : Keys \union {None},
                srv : Socks \union {None}, open : BOOLEAN, shaken : BOOLEAN]
Fresh(st) == [st |-> st, session |-> None, srv |-> None, open |-> FALSE,
              shaken |-> FALSE]

GatewayTypeOK ==
  /\ pc \in PassParts
  /\ status \in MudStatuses
  /\ crashed \in BOOLEAN /\ rebooting \in BOOLEAN
  /\ mudPid \in Pids \union {None}
  /\ mother \in Socks \union {None}
  /\ lastTry60 \in BOOLEAN /\ shutdownOnReboot \in BOOLEAN
  /\ desc \in [Clients -> Descriptors]

\* The constructor leaves crashed and rebooting uninitialised.
GatewayInit ==
  /\ pc = "net" /\ status = "notRunning"
  /\ crashed \in BOOLEAN /\ rebooting \in BOOLEAN
  /\ mudPid = None /\ mother = None
  /\ lastTry60 = TRUE /\ shutdownOnReboot = FALSE
  /\ desc = [c \in Clients |-> Fresh("new")]

-------------------------------------------------------------------------------

\* A running game, and one that boots before its ProcessID is known, needs no
\* look at the process table.
Supervised(st, pid) ==
  IF st = "running" \/ (st = "booting" /\ pid = None) THEN "input" ELSE "supervise"

Present(c) == desc[c].st \notin {"new", "gone"}
mudIsDown == crashed \/ rebooting
isConnectedToGameServer == mother # None /\ gwEnd[mother]

\* The gateway's ends of these clients' server connections.
ServerSocks(C) == {desc[c].srv : c \in C} \ {None}

\* Which unused descriptor the operating system hands out does not matter.
UsableSocks ==
  {s \in Socks : Unused(s) /\ s # mother /\ \A c \in Clients : desc[c].srv # s}
FreeSock == CHOOSE s \in UsableSocks : TRUE

\* descriptors.erase: the client's socket is closed with it.
Drop(C) == desc' = [c \in Clients |-> IF c \in C THEN Fresh("gone") ELSE desc[c]]

\* handleGameShutdown: every descriptor, whatever its status, waits for a new
\* connection; its server connection is deleted and its session key is kept.
ShutdownKeepsSocks(d) ==
  [c \in Clients |-> IF d[c].st \in {"new", "gone"} THEN d[c]
                     ELSE [d[c] EXCEPT !.st = "awaitingConnection"]]
ShutdownOfPlayers(d) ==
  [c \in Clients |-> IF d[c].st # "connected" THEN d[c]
                     ELSE [d[c] EXCEPT !.st = "awaitingConnection", !.srv = None]]
Shutdown(d) ==
  [c \in Clients |-> IF d[c].st \in {"new", "gone"} THEN d[c]
                     ELSE [d[c] EXCEPT !.st = "awaitingConnection", !.srv = None]]

-------------------------------------------------------------------------------
(* The client sockets: acceptNewHosts and pulse of every listener.         *)

FirstStatus(c) == IF c \in Websockets THEN "handshaking" ELSE "awaitingConnection"

\* openDescriptorCallback
ClientArrives(c) ==
  /\ pc = "net" /\ desc[c].st = "new"
  /\ desc' = [desc EXCEPT ![c] = [Fresh(FirstStatus(c)) EXCEPT !.open = TRUE]]
  /\ UNCHANGED <<netVars, pc, status, crashed, rebooting, mudPid, mother,
                 lastTry60, shutdownOnReboot>>

\* closeDescriptorCallback (removeDescriptor) for a client that has left.
ClientLeaves(c) ==
  /\ pc = "net" /\ Present(c)
  /\ Drop({c})
  /\ GatewayCloses(ServerSocks({c}))
  /\ UNCHANGED <<proc, gameEnd, owner, toGame, pc, status, crashed, rebooting,
                 mudPid, mother, lastTry60, shutdownOnReboot>>

\* The rest of the pulse: the same for the sockets the gateway has closed.
\* While the connection stands there is nothing to do in the next part.
NetDone ==
  /\ pc = "net"
  /\ LET closed == {c \in Clients : Present(c) /\ ~desc[c].open} IN
       /\ Drop(closed)
       /\ GatewayCloses(ServerSocks(closed))
  /\ pc' = IF isConnectedToGameServer THEN Supervised(status, mudPid) ELSE "link"
  /\ UNCHANGED <<proc, gameEnd, owner, toGame, status, crashed, rebooting, mudPid,
                 mother, lastTry60, shutdownOnReboot>>

-------------------------------------------------------------------------------
(* The mother connection (run, 557-581).                                   *)

\* A lost connection while the game should be up is taken for a crash; then,
\* crash or not, a new connection is attempted (attemptConnectionWithGameServer).
LinkDown ==
  /\ pc = "link" /\ ~isConnectedToGameServer
  /\ LET crash == status \in {"running", "booting"}
         lost == IF crash THEN ServerSocks({c \in Clients : Present(c)}) ELSE {}
     IN
       /\ desc' = IF crash THEN Shutdown(desc) ELSE desc
       /\ lastTry60' = (crash \/ lastTry60)
       /\ IF Listening = {}
            THEN /\ GatewayCloses(lost)
                 /\ crashed' = (crash \/ crashed)
                 /\ rebooting' = (~crash /\ rebooting)
                 /\ status' = IF crash THEN "notRunning" ELSE status
                 /\ mother' = None
                 /\ UNCHANGED <<gameEnd, owner, toGame, mudPid>>
            ELSE /\ UsableSocks # {}
                 /\ \E p \in Listening : Connect(FreeSock, p, Message("Validate"), lost)
                 /\ toGw' = [s \in Socks |-> IF s \in lost THEN <<>> ELSE toGw[s]]
                 /\ mother' = FreeSock
                 /\ crashed' = FALSE /\ rebooting' = FALSE
                 /\ status' = "booting" /\ mudPid' = None
  /\ pc' = Supervised(status', mudPid')
  /\ UNCHANGED <<proc, shutdownOnReboot>>

-------------------------------------------------------------------------------
(* The game process (run, 583-640).                                        *)

\* The MUD has finished shutting down; with "ShutdownOnReboot" so does run().
FinishedUnseen == status = "shuttingDown"
Finished == status = "shuttingDown" /\ ~processExists(mudPid)

\* A game is to be started: none runs, and a minute has passed.
MustStartAfterCrash(st) == st = "notRunning" /\ RestartOnShutdown /\ lastTry60 /\ crashed
MustStart(st) == st = "notRunning" /\ RestartOnShutdown /\ lastTry60

\* attemptMudStart: fork and exec.
Start(p) ==
  /\ proc[p] = "none"
  /\ proc' = [proc EXCEPT ![p] = "forked"]
  /\ mudPid' = p /\ lastTry60' = FALSE

Supervise ==
  /\ pc = "supervise"
  /\ LET over == Finished /\ shutdownOnReboot
         st == IF Finished THEN "notRunning" ELSE status
         start == ~over /\ MustStart(st)
     IN /\ status' = st
        /\ GatewayCloses(IF over THEN {s \in Socks : gwEnd[s]}
                         ELSE IF Finished THEN {mother} \ {None} ELSE {})
        /\ mother' = IF Finished THEN None ELSE mother
        /\ IF over THEN Drop({c \in Clients : Present(c)}) ELSE UNCHANGED desc
        /\ IF start THEN \E p \in Pids : Start(p)
           ELSE /\ mudPid' = IF Finished THEN None ELSE mudPid
                /\ UNCHANGED <<proc, lastTry60>>
        \* A booting game whose process is gone (looked at every 5 seconds).
        /\ \/ UNCHANGED crashed
           \/ /\ st = "booting" /\ mudPid # None /\ ~processExists(mudPid)
              /\ crashed' = TRUE
        /\ pc' = IF over THEN "off" ELSE "input"
  /\ UNCHANGED <<gameEnd, owner, toGame, rebooting, shutdownOnReboot>>

-------------------------------------------------------------------------------
(* Lines from the game (processInputFromMotherConnectionToServer).         *)

\* Step 8 of the pass runs only with a connection and a game that should be up.
Reading == pc = "input" /\ isConnectedToGameServer /\ status # "notRunning"

\* "Session": the descriptor is connected to the game's port on its own, and
\* its first line there is the key.
OpenSession(c, k) ==
  IF ~Present(c) THEN UNCHANGED <<desc, gwEnd, gameEnd, owner, toGame>>
  ELSE IF Listening = {}
    THEN /\ desc' = [desc EXCEPT ![c] = [@ EXCEPT !.session = k, !.open = FALSE,
                       !.srv = None, !.st = "disconnected"]]
         /\ gwEnd' = [s \in Socks |-> gwEnd[s] /\ s # desc[c].srv]
         /\ UNCHANGED <<gameEnd, owner, toGame>>
    ELSE /\ UsableSocks # {}
         /\ \E p \in Listening :
              Connect(FreeSock, p, [type |-> "Session", key |-> k], {desc[c].srv})
         /\ desc' = [desc EXCEPT ![c] = [@ EXCEPT !.session = k, !.srv = FreeSock,
                       !.st = "connected"]]

\* "Close": the first descriptor with that session leaves the gateway; the
\* code dereferences its server connection without a look.
ClosingAny(k) == {c \in Clients : Present(c) /\ desc[c].session # None}
Closing(k) == {c \in Clients : Present(c) /\ desc[c].session = k}
CloseSession(k) ==
  IF Closing(k) = {} THEN UNCHANGED <<desc, gwEnd, pc>>
  ELSE \E c \in Closing(k) :
         /\ desc' = [desc EXCEPT ![c] = Fresh("gone")]
         /\ gwEnd' = [s \in Socks |-> gwEnd[s] /\ desc[c].srv \notin {s, None}]
         /\ pc' = IF desc[c].srv = None THEN "dead" ELSE pc

\* The server connections that "Reboot" deletes.
RebootCloses == ServerSocks({c \in Clients : Present(c)})

Input ==
  /\ Reading /\ toGw[mother] # <<>>
  /\ LET m == Head(toGw[mother]) IN
     /\ CASE m.type = "SessionFor" ->
               /\ OpenSession(m.client, m.key) /\ UNCHANGED <<pc, status>>
          [] m.type = "Close" ->
               /\ CloseSession(m.key)
               /\ UNCHANGED <<gameEnd, owner, toGame, status>>
          [] m.type = "Reboot" ->
               /\ desc' = Shutdown(desc)
               /\ gwEnd' = [s \in Socks |-> gwEnd[s] /\ s \notin RebootCloses]
               /\ status' = "shuttingDown"
               /\ UNCHANGED <<gameEnd, owner, toGame, pc>>
          [] OTHER ->
               /\ status' = IF m.type = "FinishedBooting" THEN "running" ELSE status
               /\ UNCHANGED <<desc, gwEnd, gameEnd, owner, toGame, pc>>
     /\ crashed' = (m.type # "Reboot" /\ crashed)
     /\ rebooting' = (m.type = "Reboot" \/ rebooting)
     /\ mudPid' = IF m.type = "ProcessID" THEN m.pid ELSE mudPid
     /\ shutdownOnReboot' = CASE m.type = "Shutdown" -> TRUE
                              [] m.type = "Restart" -> FALSE
                              [] OTHER -> shutdownOnReboot
  /\ toGw' = [s \in Socks |-> IF ~gwEnd'[s] THEN <<>>
                              ELSE IF s = mother THEN Tail(toGw[s]) ELSE toGw[s]]
  /\ UNCHANGED <<proc, mother, lastTry60>>

\* Nothing (more) to read; the end of file closes the connection.
InputDone ==
  /\ pc = "input" /\ (Reading => toGw[mother] = <<>>)
  /\ IF Reading /\ ~PeerUp(mother)
       THEN GatewayCloses({mother}) ELSE UNCHANGED <<gwEnd, toGw>>
  /\ pc' = "clients"
  /\ UNCHANGED <<proc, gameEnd, owner, toGame, status, crashed, rebooting, mudPid,
                 mother, lastTry60, shutdownOnReboot, desc>>

-------------------------------------------------------------------------------
(* The descriptors (run, 663-765).                                         *)

MayAsk == mother # None /\ ~mudIsDown

\* "Host": the request for a session.  On a connection that is already
\* closed the line is lost; on one the game has closed, writing may fail.
RequestSession(c) ==
  /\ pc = "clients" /\ desc[c].st = "awaitingConnection" /\ MayAsk
  /\ desc' = [desc EXCEPT ![c].st = "retrievingSession"]
  /\ IF gwEnd[mother] /\ PeerUp(mother)
       THEN /\ toGame' = [toGame EXCEPT ![mother] =
                            Append(@, [type |-> "Host", client |-> c])]
            /\ UNCHANGED <<gwEnd, toGw>>
       ELSE /\ UNCHANGED toGame
            /\ \/ GatewayCloses({mother})
               \/ UNCHANGED <<gwEnd, toGw>>
  /\ UNCHANGED <<proc, gameEnd, owner, pc, status, crashed, rebooting, mudPid,
                 mother, lastTry60, shutdownOnReboot>>

\* A complete header is answered and the client waits like any other; a bad
\* one leaves the descriptor in place, disconnected, its socket open.
Handshake(c) ==
  /\ pc = "clients" /\ desc[c].st = "handshaking" /\ MayAsk
  /\ \/ desc' = [desc EXCEPT ![c].st = "awaitingConnection", ![c].shaken = TRUE]
     \/ desc' = [desc EXCEPT ![c].st = "disconnected"]
  /\ UNCHANGED <<netVars, pc, status, crashed, rebooting, mudPid, mother, lastTry60,
                 shutdownOnReboot>>

\* A line from the client to the game.
Forward(c) ==
  /\ pc = "clients" /\ desc[c].st = "connected" /\ PeerUp(desc[c].srv)
  /\ toGame[desc[c].srv] = <<>>
  /\ toGame' = [toGame EXCEPT ![desc[c].srv] = <<Message("Line")>>]
  /\ UNCHANGED <<proc, gwEnd, gameEnd, owner, toGw, gatewayVars>>

\* The server connection is lost, or a websocket client breaks its protocol:
\* disconnectDescriptorFromGameAndGateway.
ServerLost(c) ==
  /\ pc = "clients" /\ desc[c].st = "connected"
  /\ c \in Websockets \/ ~PeerUp(desc[c].srv)
  /\ Drop({c})
  /\ GatewayCloses({desc[c].srv})
  /\ UNCHANGED <<proc, gameEnd, owner, toGame, pc, status, crashed, rebooting, mudPid,
                 mother, lastTry60, shutdownOnReboot>>

ClientsDone ==
  /\ pc = "clients"
  /\ \A c \in Clients :
       /\ desc[c].st = "awaitingConnection" => ~MayAsk
       /\ desc[c].st = "connected" => PeerUp(desc[c].srv)
  /\ pc' = "net"
  /\ UNCHANGED <<netVars, status, crashed, rebooting, mudPid, mother, lastTry60,
                 shutdownOnReboot, desc>>

-------------------------------------------------------------------------------
(* The world around the gateway.                                           *)

\* 60 seconds pass since the last attemptMudStart.
Cooldown ==
  /\ ~lastTry60 /\ lastTry60' = TRUE
  /\ UNCHANGED <<netVars, pc, status, crashed, rebooting, mudPid, mother,
                 shutdownOnReboot, desc>>

\* The mother connection fails under a living game: kuClient::send gives it
\* up when more than 4 MB are pending, and so does any socket error.
LinkBreaks ==
  /\ isConnectedToGameServer /\ pc \notin {"off", "dead"}
  /\ GatewayCloses({mother})
  /\ UNCHANGED <<proc, gameEnd, owner, toGame, gatewayVars>>

\* The gateway dies and is started again; its clients are lost with it.
GatewayRestarts ==
  /\ pc # "off"
  /\ GatewayCloses({s \in Socks : gwEnd[s]})
  /\ pc' = "net" /\ status' = "notRunning"
  /\ crashed' \in BOOLEAN /\ rebooting' \in BOOLEAN
  /\ mudPid' = None /\ mother' = None
  /\ lastTry60' = TRUE /\ shutdownOnReboot' = FALSE
  /\ Drop({c \in Clients : Present(c)})
  /\ UNCHANGED <<proc, gameEnd, owner, toGame>>
===============================================================================

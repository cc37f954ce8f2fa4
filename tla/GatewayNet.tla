------------------------------ MODULE GatewayNet ------------------------------
(***************************************************************************)
(* What the gateway process (src/src/gateway) and the game process         *)
(* (src/src/comm.cpp) share: the operating system's view of the game       *)
(* processes, and the loopback TCP connections the gateway opens to the    *)
(* game's port.  One of these connections is the "mother" connection that  *)
(* carries the line protocol between the two programs; the others carry    *)
(* one player each.                                                        *)
(*                                                                         *)
(* A socket is a member of Socks and is reused once both of its ends are   *)
(* gone.  A queue holds what one end has written and the other has not     *)
(* read yet: the writer's user-space output buffer and the kernel's        *)
(* buffers are one FIFO.                                                   *)
(***************************************************************************)
EXTENDS Naturals, Sequences, FiniteSets

CONSTANTS
  Clients,      \* the clients' connections to the gateway; one is used once
  Websockets,   \* the clients that arrive on a websocket port
  Keys,         \* session keys (GatewaySecurity::randomToken)
  Pids,         \* process ids of game processes
  Socks,        \* connections from the gateway to the game's port
  None          \* no key, pid, socket or client

ASSUME NetAssumption ==
  /\ Websockets \subseteq Clients
  /\ None \notin Clients \union Keys \union Pids \union Socks

VARIABLES
  proc,      \* proc[p]: what the operating system knows of process p
  gwEnd,     \* gwEnd[s]: the gateway's end of s is open
  gameEnd,   \* gameEnd[s]: the game's end of s
  owner,     \* owner[s]: the process whose port s was connected to
  toGame,    \* toGame[s]: written by the gateway, not read by the game
  toGw       \* toGw[s]: written by the game, not read by the gateway

netVars == <<proc, gwEnd, gameEnd, owner, toGame, toGw>>

\* "none" also stands for a process that has exited: its id may be reused.
\* forked: exec'ed, not bound yet.  listening: the port is bound.  closing:
\* the listening socket is closed, the accepted ones are not (comm.cpp:866).
\* exiting: all sockets are closed, the process still runs (comm.cpp:983).
ProcStates == {"none", "forked", "listening", "closing", "exiting"}

\* backlog: connected, not accepted.  shut: socketClose()d by the game, still
\* in the listener's descriptorMap.  gone: no end, or never connected.
GameEnds == {"gone", "backlog", "open", "shut"}

Messages ==
       [type: {"Validate", "FinishedBooting", "Reboot", "Shutdown", "Restart",
               "Line"}]
  \union [type: {"Host"}, client: Clients]
  \union [type: {"ProcessID"}, pid: Pids]
  \union [type: {"SessionFor"}, client: Clients, key: Keys]
  \union [type: {"Session", "Close"}, key: Keys]

NetTypeOK ==
  /\ proc \in [Pids -> ProcStates]
  /\ gwEnd \in [Socks -> BOOLEAN]
  /\ gameEnd \in [Socks -> GameEnds]
  /\ owner \in [Socks -> Pids \union {None}]
  /\ toGame \in [Socks -> Seq(Messages)]
  /\ toGw \in [Socks -> Seq(Messages)]

NetInit ==
  /\ proc = [p \in Pids |-> "none"]
  /\ gwEnd = [s \in Socks |-> FALSE]
  /\ gameEnd = [s \in Socks |-> "gone"]
  /\ owner = [s \in Socks |-> None]
  /\ toGame = [s \in Socks |-> <<>>]
  /\ toGw = [s \in Socks |-> <<>>]

-------------------------------------------------------------------------------

Message(t) == [type |-> t]

\* SystemUtil::processExists; id 0 (None) never exists.
processExists(p) == p # None /\ proc[p] # "none"

\* The process, if any, that a connect() to the game's port reaches.
Listening == {p \in Pids : proc[p] = "listening"}

\* A connection the game has not closed.
PeerUp(s) == gameEnd[s] \in {"backlog", "open"}

Unused(s) == ~gwEnd[s] /\ gameEnd[s] = "gone"

\* The gateway closes the sockets in S, and s becomes a connection to the
\* listening process p on which it has already written the line m
\* (kuClient::connect, then kuClient::send).
Connect(s, p, m, S) ==
  /\ Unused(s)
  /\ gwEnd' = [r \in Socks |-> r = s \/ (gwEnd[r] /\ r \notin S)]
  /\ gameEnd' = [gameEnd EXCEPT ![s] = "backlog"]
  /\ owner' = [owner EXCEPT ![s] = p]
  /\ toGame' = [toGame EXCEPT ![s] = <<m>>]

\* The gateway closes its end of the sockets in S (kuClient::disconnect):
\* what it wrote may still be read, what it had not read is lost.
GatewayCloses(S) ==
  /\ gwEnd' = [s \in Socks |-> gwEnd[s] /\ s \notin S]
  /\ toGw' = [s \in Socks |-> IF s \in S THEN <<>> ELSE toGw[s]]

\* The game's end of the sockets in S disappears with the process or with
\* its listener: what the gateway had written and nobody read is lost.
GameVanishes(S) ==
  /\ gameEnd' = [s \in Socks |-> IF s \in S THEN "gone" ELSE gameEnd[s]]
  /\ toGame' = [s \in Socks |-> IF s \in S THEN <<>> ELSE toGame[s]]

OwnedBy(p) == {s \in Socks : owner[s] = p /\ gameEnd[s] # "gone"}
===============================================================================

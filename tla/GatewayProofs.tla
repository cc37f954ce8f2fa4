---------------------------- MODULE GatewayProofs ----------------------------
(***************************************************************************)
(* Proofs about GatewaySystem, for any number of clients, keys, processes, *)
(* sockets and faults: its types, the connections of the descriptors, and  *)
(* who holds the game's port.                                               *)
(***************************************************************************)
EXTENDS GatewaySystem, FiniteSetTheorems, SequenceTheorems, TLAPS

\* TypeOK, and what it takes to keep it: only a process that runs has a
\* phase, and pendingSessions is a finite list.
TypeInv ==
  /\ TypeOK
  /\ phase # "off" => game # None
  /\ IsFiniteSet(pending)

\* The fields that each type of line has.
LEMMA MessageFields ==
  ASSUME NEW m \in Messages
  PROVE  /\ m.type \in {"Host", "SessionFor"} => m.client \in Clients
         /\ m.type \in {"SessionFor", "Session", "Close"} => m.key \in Keys
         /\ m.type = "ProcessID" => m.pid \in Pids
  BY DEF Messages

LEMMA MessageTypes ==
  /\ \A t \in {"Validate", "FinishedBooting", "Reboot", "Shutdown", "Restart", "Line"} :
       Message(t) \in Messages
  /\ \A c \in Clients : [type |-> "Host", client |-> c] \in Messages
  /\ \A p \in Pids : [type |-> "ProcessID", pid |-> p] \in Messages
  /\ \A c \in Clients, k \in Keys : [type |-> "SessionFor", client |-> c, key |-> k] \in Messages
  /\ \A t \in {"Session", "Close"}, k \in Keys : [type |-> t, key |-> k] \in Messages
  BY DEF Messages, Message

LEMMA TypeInit == Init => TypeInv
<1> SUFFICES ASSUME Init PROVE TypeInv
  OBVIOUS
<1> USE DEF Init
<1>1. NetTypeOK
  BY NetAssumption, EmptySeq DEF NetInit, NetTypeOK, ProcStates, GameEnds
<1>2. GatewayTypeOK
  BY DEF GatewayInit, GatewayTypeOK, PassParts, MudStatuses, Descriptors, ClientStates, Fresh
<1>3. GameTypeOK
  <2>1. Cardinality({}) <= MaxPending
    BY MaxPendingAssumption, FS_EmptySet
  <2>2. gdesc \in [Socks -> [state : DescStates, session : Keys \union {None},
                             host : Clients \union {None}]]
    BY DEF GameInit, NoDesc, DescStates
  <2>3. inbuf \in [Socks -> Seq(Messages)]
    BY EmptySeq DEF GameInit
  <2> QED BY <2>1, <2>2, <2>3 DEF GameInit, GameTypeOK, Phases
<1>4. budget \in [Events -> Nat] /\ IsFiniteSet(pending) /\ phase = "off"
  BY LimitAssumption, FS_EmptySet DEF GameInit
<1> QED BY <1>1, <1>2, <1>3, <1>4 DEF TypeInv, TypeOK

-------------------------------------------------------------------------------
(* The gateway's steps.                                                    *)

LEMMA FreshTypes ==
  ASSUME NEW st \in ClientStates
  PROVE  Fresh(st) \in Descriptors /\ [Fresh(st) EXCEPT !.open = TRUE] \in Descriptors
  BY DEF Descriptors, Fresh

LEMMA TypeDescs ==
  ASSUME GatewayTypeOK
  PROVE  /\ Shutdown(desc) \in [Clients -> Descriptors]
         /\ \A C : Drop(C) => desc' \in [Clients -> Descriptors]
         /\ \A c \in Clients, r \in Descriptors :
              [desc EXCEPT ![c] = r] \in [Clients -> Descriptors]
<1>1. "awaitingConnection" \in ClientStates /\ "gone" \in ClientStates
  BY DEF ClientStates
<1>2. Shutdown(desc) \in [Clients -> Descriptors]
  BY <1>1 DEF Shutdown, GatewayTypeOK, Descriptors
<1>3. \A C : Drop(C) => desc' \in [Clients -> Descriptors]
  BY <1>1, FreshTypes DEF Drop, GatewayTypeOK
<1> QED BY <1>2, <1>3 DEF GatewayTypeOK

LEMMA NetTypes ==
  ASSUME NetTypeOK, UNCHANGED <<proc, gameEnd, owner, toGame>>, NEW C, GatewayCloses(C)
  PROVE  NetTypeOK'
  BY EmptySeq DEF NetTypeOK, GatewayCloses

LEMMA TypeClient ==
  ASSUME TypeInv, ClientStep, UNCHANGED <<gameVars, budget>>
  PROVE  TypeInv'
<1> USE DEF TypeInv, TypeOK
<1>1. GameTypeOK' /\ budget' \in [Events -> Nat] /\ (phase # "off" => game # None)'
      /\ IsFiniteSet(pending)'
  BY DEF gameVars, GameTypeOK
<1>2. CASE \E c \in Clients : ClientArrives(c)
  <2> PICK c \in Clients : ClientArrives(c)
    BY <1>2
  <2>1. FirstStatus(c) \in ClientStates
    BY DEF FirstStatus, ClientStates
  <2>2. desc' \in [Clients -> Descriptors]
    BY <2>1, TypeDescs, FreshTypes DEF ClientArrives, GatewayTypeOK
  <2> QED BY <1>1, <2>2 DEF ClientArrives, GatewayTypeOK, NetTypeOK, netVars
<1>3. CASE \E c \in Clients : ClientLeaves(c)
  <2> PICK c \in Clients : ClientLeaves(c)
    BY <1>3
  <2> QED BY <1>1, TypeDescs, NetTypes DEF ClientLeaves, GatewayTypeOK
<1>4. CASE \E c \in Clients : Handshake(c)
  <2> PICK c \in Clients : Handshake(c)
    BY <1>4
  <2>1. "awaitingConnection" \in ClientStates /\ "disconnected" \in ClientStates
    BY DEF ClientStates
  <2>2. desc' \in [Clients -> Descriptors]
    BY <2>1 DEF Handshake, GatewayTypeOK, Descriptors
  <2> QED BY <1>1, <2>2 DEF Handshake, GatewayTypeOK, NetTypeOK, netVars
<1> QED BY <1>2, <1>3, <1>4 DEF ClientStep

\* A line is written on a new connection.
LEMMA ConnectTypes ==
  ASSUME NetTypeOK, NEW s \in Socks, NEW p \in Pids, NEW m \in Messages, NEW C,
         Connect(s, p, m, C)
  PROVE  /\ gwEnd' \in [Socks -> BOOLEAN]
         /\ gameEnd' \in [Socks -> GameEnds]
         /\ owner' \in [Socks -> Pids \union {None}]
         /\ toGame' \in [Socks -> Seq(Messages)]
<1>1. <<m>> \in Seq(Messages)
  OBVIOUS
<1>2. "backlog" \in GameEnds
  BY DEF GameEnds
<1> QED BY <1>1, <1>2 DEF Connect, NetTypeOK

LEMMA SocketTypes ==
  /\ UsableSocks # {} => FreeSock \in Socks
  /\ Listening \subseteq Pids
  BY DEF UsableSocks, FreeSock, Listening

LEMMA SupervisedTypes == \A st, pid : Supervised(st, pid) \in PassParts
  BY DEF Supervised, PassParts

LEMMA TypeLinkDown ==
  ASSUME NetTypeOK, GatewayTypeOK, LinkDown
  PROVE  NetTypeOK' /\ GatewayTypeOK'
<1> DEFINE crash == status \in {"running", "booting"}
           lost == IF crash THEN ServerSocks({c \in Clients : Present(c)}) ELSE {}
<1>1. desc' \in [Clients -> Descriptors]
  BY TypeDescs DEF LinkDown, GatewayTypeOK
<1>2. pc' \in PassParts
  BY SupervisedTypes DEF LinkDown
<1>3. lastTry60' \in BOOLEAN /\ shutdownOnReboot' \in BOOLEAN
  BY DEF LinkDown, GatewayTypeOK
<1>4. CASE Listening = {}
  <2>1. NetTypeOK'
    BY <1>4, NetTypes DEF LinkDown
  <2>2. crashed' \in BOOLEAN /\ rebooting' \in BOOLEAN
    BY <1>4 DEF LinkDown, GatewayTypeOK
  <2>3. status' \in MudStatuses /\ mother' = None /\ mudPid' = mudPid
    BY <1>4 DEF LinkDown, GatewayTypeOK, MudStatuses
  <2> QED BY <1>1, <1>2, <1>3, <2>1, <2>2, <2>3 DEF GatewayTypeOK
<1>5. CASE Listening # {}
  <2>1. PICK p \in Listening : Connect(FreeSock, p, Message("Validate"), lost)
    BY <1>5 DEF LinkDown
  <2>2. FreeSock \in Socks /\ p \in Pids /\ Message("Validate") \in Messages
    BY <1>5, SocketTypes, MessageTypes DEF LinkDown
  <2>3. toGw' \in [Socks -> Seq(Messages)]
    BY <1>5, EmptySeq DEF LinkDown, NetTypeOK
  <2>4. NetTypeOK'
    BY <2>1, <2>2, <2>3, ConnectTypes DEF LinkDown, NetTypeOK
  <2>5. crashed' \in BOOLEAN /\ rebooting' \in BOOLEAN
    BY <1>5 DEF LinkDown
  <2>6. status' \in MudStatuses /\ mother' \in Socks /\ mudPid' = None
    BY <1>5, <2>2 DEF LinkDown, MudStatuses
  <2> QED BY <1>1, <1>2, <1>3, <2>4, <2>5, <2>6 DEF GatewayTypeOK
<1> QED BY <1>4, <1>5

LEMMA TypeSupervise ==
  ASSUME NetTypeOK, GatewayTypeOK, Supervise
  PROVE  NetTypeOK' /\ GatewayTypeOK'
<1> DEFINE over == Finished /\ shutdownOnReboot
           st == IF Finished THEN "notRunning" ELSE status
           start == ~over /\ MustStart(st)
<1>1. desc' \in [Clients -> Descriptors]
  BY TypeDescs DEF Supervise, GatewayTypeOK
<1>2. /\ proc' \in [Pids -> ProcStates]
      /\ mudPid' \in Pids \union {None}
      /\ lastTry60' \in BOOLEAN
  <2>1. CASE start
    BY <2>1 DEF Supervise, Start, NetTypeOK, GatewayTypeOK, ProcStates
  <2>2. CASE ~start
    BY <2>2 DEF Supervise, NetTypeOK, GatewayTypeOK
  <2> QED BY <2>1, <2>2
<1>3. gwEnd' \in [Socks -> BOOLEAN] /\ toGw' \in [Socks -> Seq(Messages)]
  BY EmptySeq DEF Supervise, GatewayCloses, NetTypeOK
<1>4. pc' \in PassParts /\ status' \in MudStatuses /\ mother' \in Socks \union {None}
  BY DEF Supervise, GatewayTypeOK, PassParts, MudStatuses
<1>5. crashed' \in BOOLEAN
  BY DEF Supervise, GatewayTypeOK
<1>6. NetTypeOK'
  BY <1>2, <1>3 DEF Supervise, NetTypeOK
<1> QED BY <1>1, <1>2, <1>4, <1>5, <1>6 DEF Supervise, GatewayTypeOK

LEMMA HeadTypes ==
  ASSUME NetTypeOK, NEW s \in Socks, toGw[s] # <<>>
  PROVE  /\ Head(toGw[s]) \in Messages
         /\ Tail(toGw[s]) \in Seq(Messages)
  BY HeadTailProperties DEF NetTypeOK

LEMMA TypeOpenSession ==
  ASSUME NetTypeOK, GatewayTypeOK, NEW c \in Clients, NEW k \in Keys, OpenSession(c, k)
  PROVE  /\ gwEnd' \in [Socks -> BOOLEAN]
         /\ gameEnd' \in [Socks -> GameEnds]
         /\ owner' \in [Socks -> Pids \union {None}]
         /\ toGame' \in [Socks -> Seq(Messages)]
         /\ desc' \in [Clients -> Descriptors]
<1>1. CASE ~Present(c)
  BY <1>1 DEF OpenSession, NetTypeOK, GatewayTypeOK
<1>2. CASE Present(c) /\ Listening = {}
  <2>1. [desc[c] EXCEPT !.session = k, !.open = FALSE, !.srv = None,
           !.st = "disconnected"] \in Descriptors
    BY DEF GatewayTypeOK, Descriptors, ClientStates
  <2>2. desc' \in [Clients -> Descriptors]
    BY <1>2, <2>1 DEF OpenSession, GatewayTypeOK
  <2> QED BY <1>2, <2>2 DEF OpenSession, NetTypeOK
<1>3. CASE Present(c) /\ Listening # {}
  <2>1. FreeSock \in Socks
    BY <1>3, SocketTypes DEF OpenSession
  <2>2. [type |-> "Session", key |-> k] \in Messages
    BY MessageTypes
  <2>3. PICK p \in Listening :
          Connect(FreeSock, p, [type |-> "Session", key |-> k], {desc[c].srv})
    BY <1>3 DEF OpenSession
  <2>4. p \in Pids
    BY SocketTypes
  <2>5. [desc[c] EXCEPT !.session = k, !.srv = FreeSock, !.st = "connected"]
          \in Descriptors
    BY <2>1 DEF GatewayTypeOK, Descriptors, ClientStates
  <2>6. desc' \in [Clients -> Descriptors]
    BY <1>3, <2>5 DEF OpenSession, GatewayTypeOK
  <2> QED BY <2>1, <2>2, <2>3, <2>4, <2>6, ConnectTypes
<1> QED BY <1>1, <1>2, <1>3

LEMMA TypeCloseSession ==
  ASSUME NetTypeOK, GatewayTypeOK, NEW k \in Keys, CloseSession(k)
  PROVE  /\ gwEnd' \in [Socks -> BOOLEAN]
         /\ desc' \in [Clients -> Descriptors]
         /\ pc' \in PassParts
<1>1. CASE Closing(k) = {}
  BY <1>1 DEF CloseSession, NetTypeOK, GatewayTypeOK
<1>2. CASE Closing(k) # {}
  <2>1. PICK c \in Closing(k) :
          /\ desc' = [desc EXCEPT ![c] = Fresh("gone")]
          /\ gwEnd' = [s \in Socks |-> gwEnd[s] /\ desc[c].srv \notin {s, None}]
          /\ pc' = IF desc[c].srv = None THEN "dead" ELSE pc
    BY <1>2 DEF CloseSession
  <2>2. Fresh("gone") \in Descriptors
    BY FreshTypes DEF ClientStates
  <2>3. desc' \in [Clients -> Descriptors]
    BY <2>1, <2>2, TypeDescs DEF Closing
  <2> QED BY <2>1, <2>3 DEF GatewayTypeOK, NetTypeOK, PassParts
<1> QED BY <1>1, <1>2

LEMMA TypeInput ==
  ASSUME NetTypeOK, GatewayTypeOK, Input
  PROVE  NetTypeOK' /\ GatewayTypeOK'
<1>1. mother \in Socks /\ toGw[mother] # <<>>
  BY DEF Input, Reading, isConnectedToGameServer, GatewayTypeOK
<1> DEFINE m == Head(toGw[mother])
<1>2. m \in Messages /\ Tail(toGw[mother]) \in Seq(Messages)
  BY <1>1, HeadTypes
<1>3. toGw' \in [Socks -> Seq(Messages)]
  BY <1>1, <1>2, EmptySeq DEF Input, NetTypeOK
<1>4. /\ crashed' \in BOOLEAN /\ rebooting' \in BOOLEAN
      /\ shutdownOnReboot' \in BOOLEAN
  BY DEF Input, GatewayTypeOK
<1>5. mudPid' \in Pids \union {None}
  BY <1>2, MessageFields DEF Input, GatewayTypeOK
<1>6. /\ gwEnd' \in [Socks -> BOOLEAN]
      /\ gameEnd' \in [Socks -> GameEnds]
      /\ owner' \in [Socks -> Pids \union {None}]
      /\ toGame' \in [Socks -> Seq(Messages)]
      /\ desc' \in [Clients -> Descriptors]
      /\ pc' \in PassParts /\ status' \in MudStatuses
  <2>1. CASE m.type = "SessionFor"
    <3>1. OpenSession(m.client, m.key) /\ UNCHANGED <<pc, status>>
      BY <2>1 DEF Input
    <3>2. m.client \in Clients /\ m.key \in Keys
      BY <1>2, <2>1, MessageFields
    <3> HIDE DEF m
    <3> QED BY <3>1, <3>2, TypeOpenSession DEF GatewayTypeOK
  <2>2. CASE m.type = "Close"
    <3>1. CloseSession(m.key) /\ UNCHANGED <<gameEnd, owner, toGame, status>>
      BY <2>2 DEF Input
    <3>2. m.key \in Keys
      BY <1>2, <2>2, MessageFields
    <3> HIDE DEF m
    <3> QED BY <3>1, <3>2, TypeCloseSession DEF GatewayTypeOK, NetTypeOK
  <2>3. CASE m.type = "Reboot"
    <3>1. /\ desc' = Shutdown(desc)
          /\ gwEnd' = [s \in Socks |-> gwEnd[s] /\ s \notin RebootCloses]
          /\ status' = "shuttingDown"
          /\ UNCHANGED <<gameEnd, owner, toGame, pc>>
      BY <2>3 DEF Input
    <3> HIDE DEF m
    <3> QED BY <3>1, TypeDescs DEF GatewayTypeOK, NetTypeOK, MudStatuses
  <2>4. CASE m.type \notin {"SessionFor", "Close", "Reboot"}
    <3>1. /\ status' = IF m.type = "FinishedBooting" THEN "running" ELSE status
          /\ UNCHANGED <<desc, gwEnd, gameEnd, owner, toGame, pc>>
      BY <2>4 DEF Input
    <3> HIDE DEF m
    <3> QED BY <3>1 DEF GatewayTypeOK, NetTypeOK, MudStatuses
  <2> QED BY <2>1, <2>2, <2>3, <2>4
<1>7. UNCHANGED <<proc, mother, lastTry60>>
  BY DEF Input
<1> QED BY <1>3, <1>4, <1>5, <1>6, <1>7 DEF NetTypeOK, GatewayTypeOK

LEMMA TypeRequest ==
  ASSUME NetTypeOK, GatewayTypeOK, NEW c \in Clients, RequestSession(c)
  PROVE  NetTypeOK' /\ GatewayTypeOK'
<1> DEFINE m == [type |-> "Host", client |-> c]
<1>1. mother \in Socks
  BY DEF RequestSession, MayAsk, GatewayTypeOK
<1>2. toGame' \in [Socks -> Seq(Messages)]
  <2>1. m \in Messages
    BY MessageTypes
  <2>2. Append(toGame[mother], m) \in Seq(Messages)
    BY <1>1, <2>1 DEF NetTypeOK
  <2>3. toGame' = toGame \/ toGame' = [toGame EXCEPT ![mother] = Append(toGame[mother], m)]
    BY DEF RequestSession
  <2> QED BY <1>1, <2>2, <2>3 DEF NetTypeOK
<1>3. gwEnd' \in [Socks -> BOOLEAN] /\ toGw' \in [Socks -> Seq(Messages)]
  BY EmptySeq DEF RequestSession, GatewayCloses, NetTypeOK
<1>4. desc' \in [Clients -> Descriptors]
  <2>1. [desc[c] EXCEPT !.st = "retrievingSession"] \in Descriptors
    BY DEF GatewayTypeOK, Descriptors, ClientStates
  <2>2. desc' = [desc EXCEPT ![c] = [desc[c] EXCEPT !.st = "retrievingSession"]]
    BY DEF RequestSession
  <2> QED BY <2>1, <2>2 DEF GatewayTypeOK
<1>5. UNCHANGED <<proc, gameEnd, owner, pc, status, crashed, rebooting, mudPid,
                  mother, lastTry60, shutdownOnReboot>>
  BY DEF RequestSession
<1> QED BY <1>2, <1>3, <1>4, <1>5 DEF NetTypeOK, GatewayTypeOK

LEMMA TypeGatewayLoop ==
  ASSUME NetTypeOK, GatewayTypeOK, GatewayLoop
  PROVE  NetTypeOK' /\ GatewayTypeOK'
<1>1. CASE NetDone
  <2>1. pc' \in PassParts
    BY <1>1, SupervisedTypes DEF NetDone, PassParts
  <2> QED BY <1>1, <2>1, TypeDescs, NetTypes DEF NetDone, GatewayTypeOK
<1>2. CASE InputDone
  <2>1. NetTypeOK'
    BY <1>2, NetTypes DEF InputDone, NetTypeOK
  <2> QED BY <1>2, <2>1 DEF InputDone, GatewayTypeOK, PassParts
<1>3. CASE \E c \in Clients : ServerLost(c)
  <2> PICK c \in Clients : ServerLost(c)
    BY <1>3
  <2> QED BY TypeDescs, NetTypes DEF ServerLost, GatewayTypeOK
<1>4. CASE ClientsDone
  BY <1>4 DEF ClientsDone, netVars, NetTypeOK, GatewayTypeOK, PassParts
<1> QED BY <1>1, <1>2, <1>3, <1>4, TypeLinkDown, TypeSupervise, TypeInput, TypeRequest
    DEF GatewayLoop

-------------------------------------------------------------------------------
(* The game's steps.                                                       *)

GdescType == [state : DescStates, session : Keys \union {None},
              host : Clients \union {None}]

GameInv ==
  /\ GameTypeOK
  /\ phase # "off" => game # None
  /\ IsFiniteSet(pending)

LEMMA WriteTypes ==
  ASSUME NetTypeOK, NEW s \in Socks \union {None}, NEW m \in Messages, WriteTo(s, m)
  PROVE  toGw' \in [Socks -> Seq(Messages)]
<1>1. CASE Deliverable(s)
  <2>1. s \in Socks
    BY <1>1 DEF Deliverable
  <2>2. Append(toGw[s], m) \in Seq(Messages)
    BY <2>1 DEF NetTypeOK
  <2> QED BY <1>1, <2>1, <2>2 DEF WriteTo, NetTypeOK
<1>2. CASE ~Deliverable(s)
  BY <1>2 DEF WriteTo, NetTypeOK
<1> QED BY <1>1, <1>2

LEMMA NoDescType == NoDesc \in GdescType /\ [NoDesc EXCEPT !.state = "gateway"] \in GdescType
  BY DEF NoDesc, GdescType, DescStates

LEMMA DisconnectTypes ==
  ASSUME NetTypeOK, GameTypeOK, NEW s \in Socks, NEW g \in Socks \union {None},
         Disconnect(s, g)
  PROVE  /\ toGw' \in [Socks -> Seq(Messages)]
         /\ gdesc' \in [Socks -> GdescType]
<1>1. gdesc' \in [Socks -> GdescType]
  BY NoDescType DEF Disconnect, GameTypeOK, GdescType
<1>2. CASE g # None /\ gdesc[s].session # None
  <2>1. gdesc[s].session \in Keys
    BY <1>2 DEF GameTypeOK
  <2>2. [type |-> "Close", key |-> gdesc[s].session] \in Messages
    BY <2>1, MessageTypes
  <2> QED BY <1>1, <1>2, <2>2, WriteTypes DEF Disconnect
<1>3. CASE ~(g # None /\ gdesc[s].session # None)
  BY <1>1, <1>3 DEF Disconnect, NetTypeOK
<1> QED BY <1>2, <1>3

\* Lines that were read are removed one at a time.
LEMMA InbufTypes ==
  ASSUME GameTypeOK, NEW s \in Socks, inbuf[s] # <<>>
  PROVE  /\ Head(inbuf[s]) \in Messages
         /\ [inbuf EXCEPT ![s] = Tail(@)] \in [Socks -> Seq(Messages)]
<1>1. Head(inbuf[s]) \in Messages /\ Tail(inbuf[s]) \in Seq(Messages)
  BY HeadTailProperties DEF GameTypeOK
<1> QED BY <1>1 DEF GameTypeOK

\* pendingSessions.remove_if leaves a list that is no longer.
LEMMA PrunedTypes ==
  ASSUME GameInv
  PROVE  /\ IsFiniteSet(Pruned) /\ Cardinality(Pruned) \in Nat
         /\ Cardinality(Pruned) <= MaxPending
         /\ Pruned \subseteq [key : Keys, host : Clients, old : BOOLEAN]
<1>1. Pruned \subseteq pending
  BY DEF Pruned
<1>2. IsFiniteSet(Pruned) /\ Cardinality(Pruned) <= Cardinality(pending)
  BY <1>1, FS_Subset DEF GameInv
<1>3. Cardinality(Pruned) \in Nat /\ Cardinality(pending) \in Nat
  BY <1>2, FS_CardinalityType DEF GameInv
<1> QED BY <1>1, <1>2, <1>3, MaxPendingAssumption DEF GameInv, GameTypeOK

LEMMA HostTypes ==
  ASSUME NetTypeOK, GameInv, NEW c \in Clients, NEW k \in Keys, Host(c, k)
  PROVE  /\ toGw' \in [Socks -> Seq(Messages)]
         /\ pending' \subseteq [key : Keys, host : Clients, old : BOOLEAN]
         /\ Cardinality(pending') <= MaxPending /\ IsFiniteSet(pending')
<1>1. CASE Full
  BY <1>1, PrunedTypes DEF Host, NetTypeOK
<1>2. CASE ~Full
  <2> DEFINE e == [key |-> k, host |-> c, old |-> FALSE]
  <2>1. pending' = Pruned \union {e}
    BY <1>2 DEF Host
  <2>2. WriteTo(gwc, [type |-> "SessionFor", client |-> c, key |-> k])
    BY <1>2 DEF Host
  <2>3. toGw' \in [Socks -> Seq(Messages)]
    BY <2>2, MessageTypes, WriteTypes DEF GameInv, GameTypeOK
  <2>4. e \in [key : Keys, host : Clients, old : BOOLEAN]
    OBVIOUS
  <2>5. Cardinality(Pruned) < MaxPending
    BY <1>2, PrunedTypes, MaxPendingAssumption DEF Full
  <2> HIDE DEF e
  <2>6. /\ IsFiniteSet(Pruned \union {e})
        /\ Cardinality(Pruned \union {e}) \in {Cardinality(Pruned), Cardinality(Pruned) + 1}
    BY PrunedTypes, FS_AddElement
  <2>7. Cardinality(Pruned \union {e}) <= MaxPending
    BY <2>5, <2>6, PrunedTypes, MaxPendingAssumption
  <2> QED BY <2>1, <2>3, <2>4, <2>6, <2>7, PrunedTypes
<1> QED BY <1>1, <1>2

LEMMA TypeBind ==
  ASSUME NetTypeOK, GameInv, NEW p \in Pids, Bind(p)
  PROVE  NetTypeOK' /\ GameInv'
<1>1. NetTypeOK'
  BY DEF Bind, NetTypeOK, ProcStates
<1>2. game' \in Pids \union {None} /\ phase' \in Phases /\ waiting' \in BOOLEAN
      /\ (phase' # "off" => game' # None)
  BY NetAssumption DEF Bind, gameVars, GameInv, GameTypeOK, Phases
<1>3. UNCHANGED <<booted, stopping, gwc, inbuf, pending, gdesc>>
  BY DEF Bind, gameVars
<1> QED BY <1>1, <1>2, <1>3 DEF GameInv, GameTypeOK

LEMMA TypeBoot ==
  ASSUME NetTypeOK, GameInv, Boot
  PROVE  NetTypeOK' /\ GameInv'
<1>1. toGw' \in [Socks -> Seq(Messages)]
  BY MessageTypes, WriteTypes DEF Boot, GameInv, GameTypeOK
<1> QED BY <1>1 DEF Boot, NetTypeOK, GameInv, GameTypeOK, Phases

LEMMA TypeGatewayCommand ==
  ASSUME NetTypeOK, GameInv, NEW k \in Keys, GatewayCommand(k)
  PROVE  NetTypeOK' /\ GameInv'
<1>1. gwc \in Socks /\ inbuf[gwc] # <<>>
  BY DEF GatewayCommand, GameInv, GameTypeOK
<1> DEFINE m == Head(inbuf[gwc])
<1>2. m \in Messages /\ inbuf' \in [Socks -> Seq(Messages)]
  BY <1>1, InbufTypes DEF GatewayCommand, GameInv
<1>3. CASE m.type = "Host"
  <2>1. m.client \in Clients
    BY <1>2, <1>3, MessageFields
  <2>2. Host(m.client, k)
    BY <1>3 DEF GatewayCommand
  <2> HIDE DEF m
  <2>3. /\ toGw' \in [Socks -> Seq(Messages)]
        /\ pending' \subseteq [key : Keys, host : Clients, old : BOOLEAN]
        /\ Cardinality(pending') <= MaxPending /\ IsFiniteSet(pending')
    BY <2>1, <2>2, HostTypes
  <2> QED BY <1>2, <2>3 DEF GatewayCommand, NetTypeOK, GameInv, GameTypeOK
<1>4. CASE m.type # "Host"
  <2>1. UNCHANGED <<pending, toGw>>
    BY <1>4 DEF GatewayCommand
  <2> QED BY <1>2, <2>1 DEF GatewayCommand, NetTypeOK, GameInv, GameTypeOK
<1> QED BY <1>3, <1>4

LEMMA TypePlayerInput ==
  ASSUME NetTypeOK, GameInv, NEW s \in Socks, PlayerInput(s)
  PROVE  NetTypeOK' /\ GameInv'
<1> DEFINE m == Head(inbuf[s])
<1>1. m \in Messages /\ inbuf' \in [Socks -> Seq(Messages)]
  BY InbufTypes DEF PlayerInput, GameInv
<1>2. /\ toGw' \in [Socks -> Seq(Messages)]
      /\ gdesc' \in [Socks -> GdescType]
      /\ pending' \subseteq pending
  <2>1. CASE gdesc[s].state = "gateway" /\ m.type = "Session"
    <3>1. m.key \in Keys
      BY <1>1, <2>1, MessageFields
    <3>2. Admit(s, m.key)
      BY <2>1 DEF PlayerInput
    <3> HIDE DEF m
    <3>3. CASE Match(m.key) = {}
      BY <3>2, <3>3, DisconnectTypes DEF Admit, GameInv, GameTypeOK
    <3>4. CASE Match(m.key) # {}
      <4>1. PICK e \in Match(m.key) :
              /\ pending' = pending \ {e}
              /\ gdesc' = [gdesc EXCEPT ![s] =
                            [state |-> "in", session |-> m.key, host |-> e.host]]
              /\ UNCHANGED toGw
        BY <3>2, <3>4 DEF Admit
      <4>2. e.host \in Clients
        BY DEF Match, GameInv, GameTypeOK
      <4>3. [state |-> "in", session |-> m.key, host |-> e.host] \in GdescType
        BY <3>1, <4>2 DEF GdescType, DescStates
      <4> QED BY <4>1, <4>3 DEF GdescType, GameInv, GameTypeOK, NetTypeOK
    <3> QED BY <3>3, <3>4
  <2>2. CASE ~(gdesc[s].state = "gateway" /\ m.type = "Session")
    <3>1. UNCHANGED <<pending, gdesc, toGw>>
      BY <2>2 DEF PlayerInput
    <3> QED BY <3>1 DEF GdescType, GameInv, GameTypeOK, NetTypeOK
  <2> QED BY <2>1, <2>2
<1> HIDE DEF m
<1>3. IsFiniteSet(pending') /\ Cardinality(pending') <= MaxPending
  <2>1. IsFiniteSet(pending') /\ Cardinality(pending') <= Cardinality(pending)
    BY <1>2, FS_Subset DEF GameInv
  <2>2. Cardinality(pending') \in Nat /\ Cardinality(pending) \in Nat
    BY <2>1, FS_CardinalityType DEF GameInv
  <2> QED BY <2>1, <2>2, MaxPendingAssumption DEF GameInv, GameTypeOK
<1>4. pending' \subseteq [key : Keys, host : Clients, old : BOOLEAN]
  BY <1>2 DEF GameInv, GameTypeOK
<1> QED BY <1>1, <1>2, <1>3, <1>4
    DEF PlayerInput, NetTypeOK, GameInv, GameTypeOK, GdescType

LEMMA AfterReadsType == \A ph, ends : AfterReads(ph, ends) \in Phases
  BY DEF AfterReads, Phases

LEMMA TypePulse ==
  ASSUME NetTypeOK, GameInv, Pulse
  PROVE  NetTypeOK' /\ GameInv'
<1>1. inbuf' \in [Socks -> Seq(Messages)]
  BY ConcatProperties DEF Pulse, NetTypeOK, GameInv, GameTypeOK
<1>2. toGame' \in [Socks -> Seq(Messages)]
  BY EmptySeq DEF Pulse, NetTypeOK
<1>3. gameEnd' \in [Socks -> GameEnds]
  BY DEF Pulse, NetTypeOK, GameEnds
<1>4. phase' \in Phases /\ game # None
  BY AfterReadsType DEF Pulse, GameInv
<1>5. UNCHANGED <<proc, gwEnd, owner, toGw, game, waiting, booted, stopping, gwc,
                  pending, gdesc>>
  BY DEF Pulse
<1> QED BY <1>1, <1>2, <1>3, <1>4, <1>5 DEF NetTypeOK, GameInv, GameTypeOK

LEMMA TypeReap ==
  ASSUME NetTypeOK, GameInv, NEW s \in Socks, Reap(s)
  PROVE  NetTypeOK' /\ GameInv'
<1>1. gwc' \in Socks \union {None} /\ GatewayWithout(s) \in Socks \union {None}
  BY DEF Reap, GatewayWithout, GameInv, GameTypeOK
<1>2. inbuf' \in [Socks -> Seq(Messages)] /\ toGame' \in [Socks -> Seq(Messages)]
  BY EmptySeq DEF Reap, NetTypeOK, GameInv, GameTypeOK
<1>3. gameEnd' \in [Socks -> GameEnds]
  BY DEF Reap, NetTypeOK, GameEnds
<1>4. phase' \in Phases /\ game # None
  BY AfterReadsType DEF Reap, GameInv
<1>5. toGw' \in [Socks -> Seq(Messages)] /\ gdesc' \in [Socks -> GdescType]
  <2>1. CASE gdesc[s].state = "none"
    BY <2>1 DEF Reap, NetTypeOK, GameInv, GameTypeOK, GdescType
  <2>2. CASE gdesc[s].state # "none"
    BY <1>1, <2>2, DisconnectTypes DEF Reap, GameInv
  <2> QED BY <2>1, <2>2
<1>6. UNCHANGED <<proc, gwEnd, owner, game, waiting, booted, stopping, pending>>
  BY DEF Reap
<1> QED BY <1>1, <1>2, <1>3, <1>4, <1>5, <1>6
    DEF NetTypeOK, GameInv, GameTypeOK, GdescType

LEMMA TypeAccept ==
  ASSUME NetTypeOK, GameInv, Accept
  PROVE  NetTypeOK' /\ GameInv'
<1>1. gameEnd' \in [Socks -> GameEnds] /\ gdesc' \in [Socks -> GdescType]
  <2> DEFINE queue == {s \in Socks : owner[s] = game /\ gameEnd[s] = "backlog"}
  <2>1. CASE queue = {}
    BY <2>1 DEF Accept, NetTypeOK, GameInv, GameTypeOK, GdescType
  <2>2. CASE queue # {}
    <3>1. PICK s \in queue :
            /\ gameEnd' = [gameEnd EXCEPT ![s] = "open"]
            /\ gdesc' = IF gwc = None THEN gdesc
                        ELSE [gdesc EXCEPT ![s] = [NoDesc EXCEPT !.state = "gateway"]]
      BY <2>2 DEF Accept
    <3>2. gameEnd' \in [Socks -> GameEnds]
      BY <3>1 DEF NetTypeOK, GameEnds
    <3> QED BY <3>1, <3>2, NoDescType DEF GameInv, GameTypeOK, GdescType
  <2> QED BY <2>1, <2>2
<1>2. phase' \in Phases /\ waiting' \in BOOLEAN /\ game # None
  BY DEF Accept, GameInv, GameTypeOK, Phases
<1>3. UNCHANGED <<proc, gwEnd, owner, toGame, toGw, game, booted, stopping,
                  gwc, inbuf, pending>>
  BY DEF Accept
<1> QED BY <1>1, <1>2, <1>3 DEF NetTypeOK, GameInv, GameTypeOK, GdescType

LEMMA TypeScan ==
  ASSUME NetTypeOK, GameInv, Scan
  PROVE  NetTypeOK' /\ GameInv'
<1> DEFINE open == {s \in Socks : owner[s] = game /\ gameEnd[s] = "open"}
           talking == {s \in open : inbuf[s] # <<>>}
           valid == {s \in talking : Head(inbuf[s]).type = "Validate"}
           Shut(A) == gameEnd' = [s \in Socks |-> IF s \in A THEN "shut" ELSE gameEnd[s]]
           Take(A) == inbuf' = [s \in Socks |-> IF s \in A THEN Tail(inbuf[s]) ELSE inbuf[s]]
<1>1. \A A : Shut(A) => gameEnd' \in [Socks -> GameEnds]
  BY DEF NetTypeOK, GameEnds
<1>2. \A A \in SUBSET talking : Take(A) => inbuf' \in [Socks -> Seq(Messages)]
  <2>1. \A s \in talking : Tail(inbuf[s]) \in Seq(Messages)
    BY HeadTailProperties DEF GameInv, GameTypeOK
  <2> QED BY <2>1 DEF GameInv, GameTypeOK
<1>3. game \in Pids
  BY DEF Scan, GameInv, GameTypeOK
<1>4. UNCHANGED <<proc, gwEnd, owner, toGame, game, booted, stopping, pending, gdesc>>
  BY DEF Scan
<1>5. CASE valid = {}
  <2>1. Shut(talking) /\ Take(talking) /\ phase' = "accept"
        /\ UNCHANGED <<toGw, gwc, waiting>>
    BY <1>5 DEF Scan
  <2> HIDE DEF Shut, Take, talking
  <2> QED BY <1>1, <1>2, <1>3, <1>4, <2>1, NetAssumption
          DEF NetTypeOK, GameInv, GameTypeOK, Phases
<1>6. CASE valid # {}
  <2>1. PICK s \in valid :
          /\ Shut(open \ {s}) /\ Take({s})
          /\ gwc' = s /\ waiting' = FALSE
          /\ phase' = IF booted THEN "work" ELSE "boot"
          /\ toGw' = IF ~Deliverable(s) THEN toGw ELSE
               [toGw EXCEPT ![s] = @ \o <<[type |-> "ProcessID", pid |-> game]>>
                  \o (IF booted THEN <<Message("FinishedBooting")>> ELSE <<>>)]
    BY <1>6 DEF Scan
  <2>2. s \in Socks /\ s \in talking
    OBVIOUS
  <2>3. inbuf' \in [Socks -> Seq(Messages)] /\ gameEnd' \in [Socks -> GameEnds]
    <3> HIDE DEF Shut, Take, talking
    <3> QED BY <1>1, <1>2, <2>1, <2>2
  <2>4. toGw' \in [Socks -> Seq(Messages)]
    <3> DEFINE pid == <<[type |-> "ProcessID", pid |-> game]>>
               done == IF booted THEN <<Message("FinishedBooting")>> ELSE <<>>
    <3>1. pid \in Seq(Messages) /\ done \in Seq(Messages)
      BY <1>3, MessageTypes, EmptySeq
    <3> HIDE DEF pid, done
    <3>2. toGw[s] \o pid \o done \in Seq(Messages)
      BY <2>2, <3>1, ConcatProperties DEF NetTypeOK
    <3>3. toGw' = toGw \/ toGw' = [toGw EXCEPT ![s] = toGw[s] \o pid \o done]
      BY <2>1 DEF pid, done
    <3> QED BY <2>2, <3>2, <3>3 DEF NetTypeOK
  <2>5. gwc' \in Socks /\ waiting' \in BOOLEAN /\ phase' \in Phases
    BY <2>1, <2>2 DEF Phases
  <2> QED BY <1>3, <1>4, <2>3, <2>4, <2>5, NetAssumption
          DEF NetTypeOK, GameInv, GameTypeOK
<1> QED BY <1>5, <1>6

LEMMA TypeKick ==
  ASSUME NetTypeOK, GameInv, NEW s \in Socks, Kick(s)
  PROVE  NetTypeOK' /\ GameInv'
<1>1. toGw' \in [Socks -> Seq(Messages)] /\ gdesc' \in [Socks -> GdescType]
  BY DisconnectTypes DEF Kick, GameInv, GameTypeOK
<1> QED BY <1>1 DEF Kick, NetTypeOK, GameInv, GameTypeOK, GdescType

LEMMA TypeToldGateway ==
  ASSUME NetTypeOK, GameInv, Halt \/ \E t \in {"Shutdown", "Restart"} : SetOnReboot(t)
  PROVE  NetTypeOK' /\ GameInv'
<1>1. toGw' \in [Socks -> Seq(Messages)]
  BY MessageTypes, WriteTypes DEF Halt, SetOnReboot, GameInv, GameTypeOK
<1> QED BY <1>1 DEF Halt, SetOnReboot, gameVars, NetTypeOK, GameInv, GameTypeOK, Phases

LEMMA VanishTypes ==
  ASSUME NetTypeOK, NEW A, GameVanishes(A)
  PROVE  gameEnd' \in [Socks -> GameEnds] /\ toGame' \in [Socks -> Seq(Messages)]
  BY EmptySeq DEF GameVanishes, NetTypeOK, GameEnds

LEMMA BlankTypes == Blank => GameInv'
<1> SUFFICES ASSUME Blank PROVE GameInv'
  OBVIOUS
<1> USE DEF Blank
<1>1. Cardinality(pending') <= MaxPending /\ IsFiniteSet(pending')
  BY MaxPendingAssumption, FS_EmptySet
<1>2. gdesc' \in [Socks -> GdescType]
  BY NoDescType
<1>3. inbuf' \in [Socks -> Seq(Messages)]
  BY EmptySeq
<1> QED BY <1>1, <1>2, <1>3 DEF GameInv, GameTypeOK, GdescType, Phases

LEMMA TypeProcessEnds ==
  ASSUME NetTypeOK, GameInv, NEW p \in Pids,
         CloseListener \/ CloseSockets(p) \/ Exit(p) \/ Crash(p)
  PROVE  NetTypeOK' /\ GameInv'
<1>1. GameInv'
  <2>1. Blank \/ UNCHANGED gameVars
    BY DEF CloseListener, CloseSockets, Exit, Crash
  <2> QED BY <2>1, BlankTypes DEF gameVars, GameInv, GameTypeOK
<1>2. gameEnd' \in [Socks -> GameEnds] /\ toGame' \in [Socks -> Seq(Messages)]
  BY VanishTypes DEF CloseListener, CloseSockets, Exit, Crash, NetTypeOK
<1>3. proc' \in [Pids -> ProcStates]
  BY DEF CloseListener, CloseSockets, Exit, Crash, NetTypeOK, ProcStates
<1>4. UNCHANGED <<gwEnd, owner, toGw>>
  BY DEF CloseListener, CloseSockets, Exit, Crash
<1> QED BY <1>1, <1>2, <1>3, <1>4 DEF NetTypeOK

\* Marking the pending sessions as old merges none of them into more.
LEMMA TypeExpire ==
  ASSUME NetTypeOK, GameInv, Expire
  PROVE  NetTypeOK' /\ GameInv'
<1> DEFINE f == [e \in pending |-> [e EXCEPT !.old = TRUE]]
<1>1. pending' = {[e EXCEPT !.old = TRUE] : e \in pending}
  BY DEF Expire
<1>2. f \in Surjection(pending, pending')
  BY <1>1 DEF Surjection
<1> HIDE DEF f
<1>3. IsFiniteSet(pending') /\ Cardinality(pending') <= Cardinality(pending)
  BY <1>2, FS_Surjection DEF GameInv
<1>4. Cardinality(pending') \in Nat /\ Cardinality(pending) \in Nat
  BY <1>3, FS_CardinalityType DEF GameInv
<1>5. Cardinality(pending') <= MaxPending
  BY <1>3, <1>4, MaxPendingAssumption DEF GameInv, GameTypeOK
<1>6. pending' \subseteq [key : Keys, host : Clients, old : BOOLEAN]
  BY <1>1 DEF GameInv, GameTypeOK
<1> QED BY <1>3, <1>5, <1>6 DEF Expire, netVars, NetTypeOK, GameInv, GameTypeOK

LEMMA TokenType == Keys \ KeysHeld # {} => randomToken \in Keys
  BY DEF randomToken

LEMMA TypeGame ==
  ASSUME NetTypeOK, GameInv, GameLoop \/ ProcessStep \/ Quit
  PROVE  NetTypeOK' /\ GameInv'
<1>1. CASE GameLoop
  <2>1. CASE Boot
    BY <2>1, TypeBoot
  <2>2. CASE Keys \ KeysHeld # {} /\ GatewayCommand(randomToken)
    BY <2>2, TokenType, TypeGatewayCommand
  <2>3. CASE \E s \in Socks : PlayerInput(s) \/ Reap(s)
    BY <2>3, TypePlayerInput, TypeReap
  <2>4. CASE WorkDone
    BY <2>4 DEF WorkDone, netVars, NetTypeOK, GameInv, GameTypeOK, Phases
  <2>5. CASE CloseListener
    <3>1. game \in Pids
      BY <2>5 DEF CloseListener, GameInv, GameTypeOK
    <3> QED BY <2>5, <3>1, TypeProcessEnds
  <2>6. CASE Pulse \/ Accept \/ Scan \/ Halt
    BY <2>6, TypePulse, TypeAccept, TypeScan, TypeToldGateway
  <2> QED BY <1>1, <2>1, <2>2, <2>3, <2>4, <2>5, <2>6 DEF GameLoop
<1>2. CASE ProcessStep
  BY <1>2, TypeBind, TypeProcessEnds DEF ProcessStep
<1>3. CASE Quit
  BY <1>3, TypeKick DEF Quit
<1> QED BY <1>1, <1>2, <1>3

LEMMA TypeFault ==
  ASSUME TypeInv, Fault
  PROVE  TypeInv'
<1> USE DEF TypeInv, TypeOK
<1>0. GameInv
  BY DEF GameInv
<1>1. budget' \in [Events -> Nat]
  BY DEF Fault, Spend, Events
<1>2. CASE \E p \in Pids : UNCHANGED gameVars /\ StartByHand(p)
  BY <1>1, <1>2 DEF StartByHand, gatewayVars, gameVars, NetTypeOK, ProcStates,
                    GatewayTypeOK, GameTypeOK
<1>3. CASE UNCHANGED gameVars /\ LinkBreaks
  BY <1>1, <1>3, NetTypes DEF LinkBreaks, gatewayVars, gameVars, GatewayTypeOK, GameTypeOK
<1>4. CASE UNCHANGED gameVars /\ GatewayRestarts
  <2>1. NetTypeOK'
    BY <1>4, NetTypes DEF GatewayRestarts
  <2>2. GatewayTypeOK'
    BY <1>4, TypeDescs DEF GatewayRestarts, GatewayTypeOK, PassParts, MudStatuses
  <2> QED BY <1>1, <1>4, <2>1, <2>2 DEF gameVars, GameTypeOK
<1>5. CASE /\ UNCHANGED gatewayVars
           /\ \/ \E p \in Pids : Crash(p)
              \/ \E t \in {"Shutdown", "Restart"} : SetOnReboot(t)
              \/ \E s \in Socks : Kick(s)
              \/ Expire
  <2>1. NetTypeOK' /\ GameInv'
    BY <1>0, <1>5, TypeProcessEnds, TypeToldGateway, TypeKick, TypeExpire
  <2> QED BY <1>1, <1>5, <2>1 DEF GameInv, gatewayVars, GatewayTypeOK
<1>6. CASE UNCHANGED gatewayVars /\ Stop
  BY <1>1, <1>6 DEF Stop, netVars, gatewayVars, NetTypeOK, GatewayTypeOK, GameTypeOK
<1>7. CASE UNCHANGED gameVars /\ \E c \in Clients : Forward(c)
  <2> PICK c \in Clients : Forward(c)
    BY <1>7
  <2>1. <<Message("Line")>> \in Seq(Messages)
    BY MessageTypes
  <2>2. NetTypeOK' /\ GatewayTypeOK'
    BY <2>1 DEF Forward, gatewayVars, NetTypeOK, GatewayTypeOK
  <2> QED BY <1>1, <1>7, <2>2 DEF gameVars, GameTypeOK
<1> QED BY <1>2, <1>3, <1>4, <1>5, <1>6, <1>7 DEF Fault

LEMMA TypeStep == TypeInv /\ [Next]_vars => TypeInv'
<1> SUFFICES ASSUME TypeInv, [Next]_vars PROVE TypeInv'
  OBVIOUS
<1>1. NetTypeOK /\ GatewayTypeOK /\ GameInv /\ budget \in [Events -> Nat]
  BY DEF TypeInv, TypeOK, GameInv
<1>2. CASE GatewayLoop /\ UNCHANGED <<gameVars, budget>>
  <2>1. NetTypeOK' /\ GatewayTypeOK'
    BY <1>1, <1>2, TypeGatewayLoop
  <2> QED BY <1>1, <1>2, <2>1 DEF TypeInv, TypeOK, GameInv, GameTypeOK, gameVars
<1>3. CASE ClientStep /\ UNCHANGED <<gameVars, budget>>
  BY <1>3, TypeClient
<1>4. CASE GameStep
  <2>1. NetTypeOK' /\ GameInv' /\ UNCHANGED <<gatewayVars, budget>>
    BY <1>1, <1>4, TypeGame DEF GameStep
  <2> QED BY <1>1, <2>1 DEF TypeInv, TypeOK, GameInv, GatewayTypeOK, gatewayVars
<1>5. CASE Fault
  BY <1>5, TypeFault
<1>6. CASE Wait60
  BY <1>1, <1>6 DEF Wait60, Cooldown, TypeInv, TypeOK, GameInv, NetTypeOK, GatewayTypeOK,
                    GameTypeOK, netVars, gameVars
<1>7. CASE UNCHANGED vars
  BY <1>1, <1>7 DEF vars, TypeInv, TypeOK, GameInv, NetTypeOK, GatewayTypeOK,
                    GameTypeOK, netVars, gatewayVars, gameVars
<1> QED BY <1>2, <1>3, <1>4, <1>5, <1>6, <1>7 DEF Next, GatewayStep, Over

\* Every variable keeps its type, and the list of pending sessions, which only
\* processGatewayCommand fills, never outgrows its cap.
THEOREM TypeCorrect == Spec => []TypeOK
<1>1. Init => TypeInv
  BY TypeInit
<1>2. TypeInv /\ [Next]_vars => TypeInv'
  BY TypeStep
<1>3. TypeInv => TypeOK
  BY DEF TypeInv
<1> QED BY <1>1, <1>2, <1>3, PTL DEF Spec

-------------------------------------------------------------------------------
(* Every connected client has a server connection of its own.              *)

\* A gateway that dies between two steps leaves its clients' state behind, of
\* which a restart needs to know this much.
ConnectedOnly == \A c \in Clients : desc[c].st = "connected" <=> desc[c].srv # None

WiredInv == OwnServerConnection /\ ConnectedOnly

\* Clients leave, and the gateway closes sockets of no other client.
LEMMA DropKeeps ==
  ASSUME GatewayTypeOK, Wired, NEW C, NEW A, Drop(C), GatewayCloses(A),
         mother' \in {mother, None},
         \A c \in Clients : c \notin C /\ desc[c].srv # None => desc[c].srv \notin A
  PROVE  Wired'
<1>1. \A c \in Clients : desc'[c] = IF c \in C THEN Fresh("gone") ELSE desc[c]
  BY DEF Drop
<1>2. \A c \in Clients : desc[c].srv \in Socks \union {None}
  BY DEF GatewayTypeOK, Descriptors
<1>3. \A c \in Clients : c \in C => desc'[c].srv = None /\ desc'[c].st # "connected"
  BY <1>1 DEF Fresh
<1>4. \A s \in Socks : gwEnd'[s] <=> gwEnd[s] /\ s \notin A
  BY DEF GatewayCloses
<1>5. \A c \in Clients : desc'[c].srv # None =>
        /\ c \notin C /\ desc'[c] = desc[c]
        /\ desc[c].srv \in Socks /\ gwEnd'[desc[c].srv]
        /\ desc[c].srv # mother
  BY <1>1, <1>2, <1>3, <1>4 DEF Wired
<1>6. \A c \in Clients : desc'[c].st = "connected" <=> desc'[c].srv # None
  BY <1>1, <1>3 DEF Wired
<1>7. \A c \in Clients : desc'[c].srv # None =>
        \A d \in Clients \ {c} : desc'[d].srv # desc'[c].srv
  BY <1>1, <1>3, <1>5 DEF Wired
<1> QED BY <1>5, <1>6, <1>7 DEF Wired

\* Nobody's connection is the mother connection, so that may be closed.
LEMMA MotherCloses ==
  ASSUME GatewayTypeOK, Wired, NEW A, A \subseteq {mother}, GatewayCloses(A),
         UNCHANGED desc, mother' \in {mother, None}
  PROVE  Wired'
<1>1. \A c \in Clients : desc[c].srv # None => desc[c].srv \notin A
  BY DEF Wired
<1>2. Drop({})
  BY DEF Drop, GatewayTypeOK
<1> QED BY <1>1, <1>2, DropKeeps

\* Nobody keeps a server connection.
LEMMA NobodyWired ==
  ASSUME \A c \in Clients : desc'[c].srv = None /\ desc'[c].st # "connected"
  PROVE  Wired'
  BY DEF Wired

LEMMA ShutdownUnwires ==
  ASSUME GatewayTypeOK, Wired, desc' = Shutdown(desc)
  PROVE  Wired'
<1>1. \A c \in Clients : desc'[c].srv = None /\ desc'[c].st # "connected"
  <2> TAKE c \in Clients
  <2>1. CASE desc[c].st \in {"new", "gone"}
    BY <2>1 DEF Shutdown, Wired
  <2>2. CASE desc[c].st \notin {"new", "gone"}
    BY <2>2 DEF Shutdown, GatewayTypeOK, Descriptors
  <2> QED BY <2>1, <2>2
<1> QED BY <1>1, NobodyWired

\* A client's status changes before or after it is connected, and nothing else.
LEMMA StatusKeeps ==
  ASSUME GatewayTypeOK, Wired, NEW c \in Clients, NEW r,
         r.srv = None, r.st # "connected", desc[c].st # "connected",
         desc' = [desc EXCEPT ![c] = r], UNCHANGED <<mother, gwEnd>>
  PROVE  Wired'
  BY DEF Wired, GatewayTypeOK

LEMMA WiredSession ==
  ASSUME NetTypeOK, GatewayTypeOK, Wired, UNCHANGED mother,
         NEW c \in Clients, NEW k \in Keys, OpenSession(c, k)
  PROVE  Wired'
<1>0. /\ desc[c] \in Descriptors
      /\ \A d \in Clients : desc[d].srv \in Socks \union {None}
  BY DEF GatewayTypeOK, Descriptors
<1>a. \A d \in Clients \ {c} : desc[d].srv # None =>
        /\ desc[d].srv \in Socks /\ desc[d].srv # desc[c].srv
        /\ desc[d].srv # mother /\ gwEnd[desc[d].srv]
  BY <1>0 DEF Wired
<1>1. CASE ~Present(c)
  BY <1>1 DEF OpenSession, Wired
<1>2. CASE Present(c) /\ Listening = {}
  <2>1. /\ desc' = [desc EXCEPT ![c] = desc'[c]]
        /\ desc'[c].srv = None /\ desc'[c].st = "disconnected"
        /\ gwEnd' = [s \in Socks |-> gwEnd[s] /\ s # desc[c].srv]
    BY <1>0, <1>2 DEF OpenSession, GatewayTypeOK, Descriptors
  <2>2. \A d \in Clients : d # c => desc'[d] = desc[d]
    BY <2>1 DEF GatewayTypeOK
  <2>3. \A d \in Clients : desc'[d].srv # None =>
          desc'[d].srv # mother /\ gwEnd'[desc'[d].srv]
    BY <1>a, <2>1, <2>2
  <2>4. \A d \in Clients : desc'[d].srv # None =>
          \A e \in Clients \ {d} : desc'[e].srv # desc'[d].srv
    BY <2>1, <2>2 DEF Wired
  <2> QED BY <2>1, <2>2, <2>3, <2>4 DEF Wired
<1>3. CASE Present(c) /\ Listening # {}
  <2>1. /\ desc' = [desc EXCEPT ![c] = desc'[c]]
        /\ desc'[c].srv = FreeSock /\ desc'[c].st = "connected"
        /\ FreeSock \in UsableSocks
    BY <1>0, <1>3 DEF OpenSession, GatewayTypeOK, Descriptors, FreeSock
  <2>2. /\ FreeSock \in Socks /\ FreeSock # None /\ FreeSock # mother
        /\ \A d \in Clients : desc[d].srv # FreeSock
    BY <2>1, NetAssumption DEF UsableSocks
  <2>3. gwEnd' = [r \in Socks |-> r = FreeSock \/ (gwEnd[r] /\ r \notin {desc[c].srv})]
    BY <1>3 DEF OpenSession, Connect
  <2>4. \A d \in Clients : d # c => desc'[d] = desc[d]
    BY <2>1 DEF GatewayTypeOK
  <2>a. gwEnd'[FreeSock]
    BY <2>2, <2>3
  <2>b. \A d \in Clients \ {c} : desc'[d].srv # None =>
          desc'[d].srv # mother /\ gwEnd'[desc'[d].srv]
    BY <1>a, <2>3, <2>4
  <2>5. \A d \in Clients : desc'[d].srv # None =>
          desc'[d].srv # mother /\ gwEnd'[desc'[d].srv]
    BY <2>1, <2>2, <2>a, <2>b
  <2>6. \A d \in Clients : desc'[d].srv # None =>
          \A e \in Clients \ {d} : desc'[e].srv # desc'[d].srv
    BY <2>1, <2>2, <2>4 DEF Wired
  <2>7. \A d \in Clients : desc'[d].st = "connected" <=> desc'[d].srv # None
    BY <2>1, <2>2, <2>4 DEF Wired
  <2> QED BY <2>5, <2>6, <2>7 DEF Wired
<1> QED BY <1>1, <1>2, <1>3

LEMMA WiredClose ==
  ASSUME GatewayTypeOK, Wired, UNCHANGED mother, NEW k \in Keys, CloseSession(k),
         pc # "dead"
  PROVE  WiredInv'
<1> USE DEF WiredInv, OwnServerConnection, ConnectedOnly
<1>1. CASE Closing(k) = {}
  BY <1>1 DEF CloseSession, Wired
<1>2. CASE Closing(k) # {}
  <2>1. PICK c \in Closing(k) :
          /\ desc' = [desc EXCEPT ![c] = Fresh("gone")]
          /\ gwEnd' = [s \in Socks |-> gwEnd[s] /\ desc[c].srv \notin {s, None}]
          /\ pc' = IF desc[c].srv = None THEN "dead" ELSE pc
    BY <1>2 DEF CloseSession
  <2>2. c \in Clients /\ \A d \in Clients : desc[d].srv \in Socks \union {None}
    BY DEF Closing, GatewayTypeOK, Descriptors
  <2>3. CASE desc[c].srv = None
    BY <2>1, <2>2, <2>3 DEF Fresh, GatewayTypeOK, Wired
  <2>4. CASE desc[c].srv # None
    <3>1. desc'[c].srv = None /\ desc'[c].st # "connected"
      BY <2>1, <2>2 DEF Fresh, GatewayTypeOK
    <3>2. \A d \in Clients : d # c => desc'[d] = desc[d]
      BY <2>1 DEF GatewayTypeOK
    <3>3. \A d \in Clients : d # c /\ desc[d].srv # None => gwEnd'[desc[d].srv]
      BY <2>1, <2>2, <2>4 DEF Wired
    <3> QED BY <3>1, <3>2, <3>3 DEF Wired
  <2> QED BY <2>3, <2>4
<1> QED BY <1>1, <1>2

LEMMA WiredInput ==
  ASSUME NetTypeOK, GatewayTypeOK, Wired, Input
  PROVE  WiredInv'
<1> USE DEF WiredInv, OwnServerConnection, ConnectedOnly
<1>1. mother \in Socks /\ toGw[mother] # <<>> /\ UNCHANGED mother /\ pc # "dead"
  BY DEF Input, Reading, isConnectedToGameServer, GatewayTypeOK
<1> DEFINE m == Head(toGw[mother])
<1>2. m \in Messages
  BY <1>1, HeadTypes
<1>3. CASE m.type = "SessionFor"
  <2>1. OpenSession(m.client, m.key)
    BY <1>3 DEF Input
  <2>2. m.client \in Clients /\ m.key \in Keys
    BY <1>2, <1>3, MessageFields
  <2> HIDE DEF m
  <2> QED BY <1>1, <2>1, <2>2, WiredSession DEF Wired
<1>4. CASE m.type = "Close"
  <2>1. CloseSession(m.key)
    BY <1>4 DEF Input
  <2>2. m.key \in Keys
    BY <1>2, <1>4, MessageFields
  <2> HIDE DEF m
  <2> QED BY <1>1, <2>1, <2>2, WiredClose
<1>5. CASE m.type = "Reboot"
  <2>1. desc' = Shutdown(desc)
    BY <1>5 DEF Input
  <2> QED BY <2>1, ShutdownUnwires DEF Wired
<1>6. CASE m.type \notin {"SessionFor", "Close", "Reboot"}
  <2>1. UNCHANGED <<desc, gwEnd>>
    BY <1>6 DEF Input
  <2> QED BY <1>1, <2>1 DEF Wired
<1> QED BY <1>3, <1>4, <1>5, <1>6

\* Closing some clients' server connections closes no other client's.
LEMMA ServerSocksApart ==
  ASSUME Wired, NEW C, C \subseteq Clients
  PROVE  \A c \in Clients : c \notin C /\ desc[c].srv # None => desc[c].srv \notin ServerSocks(C)
  BY DEF Wired, ServerSocks

LEMMA WiredLinkDown ==
  ASSUME NetTypeOK, GatewayTypeOK, Wired, LinkDown
  PROVE  Wired'
<1>1. CASE status \in {"running", "booting"}
  BY <1>1, ShutdownUnwires DEF LinkDown
<1>2. CASE status \notin {"running", "booting"} /\ Listening = {}
  <2>1. UNCHANGED desc /\ GatewayCloses({}) /\ mother' = None
    BY <1>2 DEF LinkDown
  <2> QED BY <2>1, MotherCloses
<1>3. CASE status \notin {"running", "booting"} /\ Listening # {}
  <2>1. /\ UNCHANGED desc /\ mother' = FreeSock /\ FreeSock \in UsableSocks
        /\ \A r \in Socks : gwEnd'[r] <=> (r = FreeSock \/ gwEnd[r])
    BY <1>3 DEF LinkDown, Connect, FreeSock
  <2>2. \A c \in Clients : desc[c].srv # FreeSock /\ desc[c].srv \in Socks \union {None}
    BY <2>1 DEF UsableSocks, GatewayTypeOK, Descriptors
  <2> QED BY <2>1, <2>2 DEF Wired
<1> QED BY <1>1, <1>2, <1>3

LEMMA WiredSupervise ==
  ASSUME GatewayTypeOK, Wired, Supervise
  PROVE  Wired'
<1>1. CASE Finished /\ shutdownOnReboot
  <2>1. Drop({c \in Clients : Present(c)})
    BY <1>1 DEF Supervise
  <2>2. \A c \in Clients : ~Present(c) => desc[c].srv = None
    BY DEF Wired, Present
  <2>3. \A c \in Clients : desc'[c].srv = None /\ desc'[c].st # "connected"
    BY <2>1, <2>2 DEF Drop, Fresh, Wired
  <2> QED BY <2>3, NobodyWired
<1>2. CASE ~(Finished /\ shutdownOnReboot)
  <2>1. /\ UNCHANGED desc /\ mother' \in {mother, None}
        /\ \E A : A \subseteq {mother} /\ GatewayCloses(A)
    BY <1>2 DEF Supervise
  <2> QED BY <2>1, MotherCloses
<1> QED BY <1>1, <1>2

LEMMA WiredRequest ==
  ASSUME NetTypeOK, GatewayTypeOK, Wired, NEW c \in Clients, RequestSession(c)
  PROVE  Wired'
<1> DEFINE r == [desc[c] EXCEPT !.st = "retrievingSession"]
<1>1. desc' = [desc EXCEPT ![c] = r] /\ desc[c].st = "awaitingConnection"
      /\ UNCHANGED mother
  BY DEF RequestSession
<1>2. r.srv = None /\ r.st # "connected"
  BY <1>1 DEF Wired, GatewayTypeOK, Descriptors
<1> HIDE DEF r
<1>3. CASE UNCHANGED gwEnd
  BY <1>1, <1>2, <1>3, StatusKeeps
<1>4. CASE GatewayCloses({mother})
  <2>1. \A d \in Clients : desc'[d].srv = desc[d].srv
                           /\ (desc'[d].st = "connected" <=> desc[d].st = "connected")
    BY <1>1, <1>2 DEF Wired, GatewayTypeOK
  <2>2. \A d \in Clients : desc[d].srv \in Socks \union {None}
    BY DEF GatewayTypeOK, Descriptors
  <2>3. \A d \in Clients : desc[d].srv # None => gwEnd'[desc[d].srv]
    BY <1>4, <2>2 DEF GatewayCloses, Wired
  <2> QED BY <1>1, <2>1, <2>3 DEF Wired
<1> QED BY <1>3, <1>4 DEF RequestSession

LEMMA WiredOtherStep ==
  ASSUME NetTypeOK, GatewayTypeOK, Wired, GatewayLoop \/ ClientStep, ~Input
  PROVE  Wired'
<1>1. CASE NetDone
  <2> DEFINE closed == {c \in Clients : Present(c) /\ ~desc[c].open}
  <2>1. Drop(closed) /\ GatewayCloses(ServerSocks(closed)) /\ UNCHANGED mother
    BY <1>1 DEF NetDone
  <2>2. closed \subseteq Clients
    OBVIOUS
  <2> HIDE DEF closed
  <2> QED BY <2>1, <2>2, ServerSocksApart, DropKeeps
<1>2. CASE InputDone
  <2>1. UNCHANGED <<desc, mother>> /\ (GatewayCloses({mother}) \/ UNCHANGED gwEnd)
    BY <1>2 DEF InputDone
  <2> QED BY <2>1, MotherCloses DEF Wired
<1>3. CASE \E c \in Clients : ServerLost(c)
  <2> PICK c \in Clients : ServerLost(c)
    BY <1>3
  <2>1. Drop({c}) /\ GatewayCloses({desc[c].srv}) /\ UNCHANGED mother
        /\ desc[c].st = "connected"
    BY DEF ServerLost
  <2>2. \A d \in Clients : d \notin {c} /\ desc[d].srv # None => desc[d].srv \notin {desc[c].srv}
    BY <2>1 DEF Wired
  <2> QED BY <2>1, <2>2, DropKeeps
<1>4. CASE ClientsDone
  BY <1>4 DEF ClientsDone, netVars, Wired
<1>5. CASE \E c \in Clients : RequestSession(c)
  BY <1>5, WiredRequest
<1>6. CASE \E c \in Clients : ClientArrives(c)
  <2> PICK c \in Clients : ClientArrives(c)
    BY <1>6
  <2> DEFINE r == [Fresh(FirstStatus(c)) EXCEPT !.open = TRUE]
  <2>1. desc' = [desc EXCEPT ![c] = r] /\ desc[c].st = "new"
        /\ UNCHANGED <<mother, gwEnd>>
    BY DEF ClientArrives, netVars
  <2>2. r.srv = None /\ r.st # "connected"
    BY DEF Fresh, FirstStatus
  <2> HIDE DEF r
  <2> QED BY <2>1, <2>2, StatusKeeps
<1>7. CASE \E c \in Clients : ClientLeaves(c)
  <2> PICK c \in Clients : ClientLeaves(c)
    BY <1>7
  <2>1. Drop({c}) /\ GatewayCloses(ServerSocks({c})) /\ UNCHANGED mother
    BY DEF ClientLeaves
  <2>2. \A d \in Clients : d \notin {c} /\ desc[d].srv # None => desc[d].srv \notin ServerSocks({c})
    BY ServerSocksApart
  <2> QED BY <2>1, <2>2, DropKeeps
<1>8. CASE \E c \in Clients : Handshake(c)
  <2> PICK c \in Clients : Handshake(c)
    BY <1>8
  <2>1. /\ desc' = [desc EXCEPT ![c] = desc'[c]] /\ desc[c].st = "handshaking"
        /\ desc'[c].srv = desc[c].srv /\ desc'[c].st # "connected"
        /\ UNCHANGED <<mother, gwEnd>>
    BY DEF Handshake, netVars, GatewayTypeOK, Descriptors
  <2>2. desc'[c].srv = None
    BY <2>1 DEF Wired
  <2> QED BY <2>1, <2>2, StatusKeeps
<1> QED BY <1>1, <1>2, <1>3, <1>4, <1>5, <1>6, <1>7, <1>8, WiredLinkDown,
           WiredSupervise DEF GatewayLoop, ClientStep

LEMMA WiredGatewayStep ==
  ASSUME NetTypeOK, GatewayTypeOK, Wired, GatewayLoop \/ ClientStep
  PROVE  WiredInv'
<1>1. Wired' => WiredInv'
  BY DEF WiredInv, OwnServerConnection, ConnectedOnly, Wired
<1> QED BY <1>1, WiredInput, WiredOtherStep

\* The game's steps leave the gateway and its ends of the connections alone.
LEMMA WiredElsewhere ==
  ASSUME UNCHANGED <<gwEnd, gatewayVars>>, WiredInv
  PROVE  WiredInv'
  BY DEF gatewayVars, WiredInv, ConnectedOnly, OwnServerConnection, Wired

LEMMA GameLeavesGwEnd ==
  GameLoop \/ ProcessStep \/ Quit \/ (\E p \in Pids : Crash(p)) \/ Stop \/ Expire
    \/ (\E t \in {"Shutdown", "Restart"} : SetOnReboot(t)) \/ (\E s \in Socks : Kick(s))
  => UNCHANGED gwEnd
  BY DEF GameLoop, ProcessStep, Quit, Crash, Stop, Expire, SetOnReboot, Kick, Boot,
         GatewayCommand, PlayerInput, Reap, WorkDone, Pulse, Accept, Scan, Halt,
         CloseListener, Bind, CloseSockets, Exit, netVars

LEMMA WiredFault ==
  ASSUME TypeOK, WiredInv, Fault
  PROVE  WiredInv'
<1>0. Wired' => WiredInv'
  BY DEF WiredInv, OwnServerConnection, ConnectedOnly, Wired
<1>1. CASE \E p \in Pids : UNCHANGED gameVars /\ StartByHand(p)
  BY <1>1, WiredElsewhere DEF StartByHand
<1>2. CASE LinkBreaks
  <2>1. UNCHANGED <<desc, mother, pc>> /\ GatewayCloses({mother}) /\ pc # "dead"
    BY <1>2 DEF LinkBreaks, gatewayVars
  <2> QED BY <1>0, <2>1, MotherCloses DEF TypeOK, WiredInv, OwnServerConnection
<1>3. CASE GatewayRestarts
  <2>1. \A c \in Clients : desc'[c].srv = None /\ desc'[c].st # "connected"
    BY <1>3 DEF GatewayRestarts, Drop, Fresh, Present, WiredInv, ConnectedOnly
  <2> QED BY <1>0, <2>1, NobodyWired
<1>4. CASE UNCHANGED gatewayVars /\ UNCHANGED gwEnd
  BY <1>4, WiredElsewhere
<1>5. CASE \E c \in Clients : Forward(c)
  BY <1>5, WiredElsewhere DEF Forward
<1> QED BY <1>1, <1>2, <1>3, <1>4, <1>5, GameLeavesGwEnd DEF Fault

LEMMA WiredStep == TypeOK /\ WiredInv /\ [Next]_vars => WiredInv'
<1> SUFFICES ASSUME TypeOK, WiredInv, [Next]_vars PROVE WiredInv'
  OBVIOUS
<1>1. CASE GatewayStep
  <2>1. pc # "dead"
    BY <1>1 DEF GatewayStep, GatewayLoop, ClientStep, NetDone, LinkDown, Supervise, Input,
                Reading, InputDone, RequestSession, ServerLost, ClientsDone, ClientArrives,
                ClientLeaves, Handshake
  <2>2. Wired
    BY <2>1 DEF WiredInv, OwnServerConnection
  <2> QED BY <1>1, <2>2, WiredGatewayStep DEF GatewayStep, TypeOK
<1>2. CASE GameStep
  BY <1>2, GameLeavesGwEnd, WiredElsewhere DEF GameStep
<1>3. CASE Fault
  BY <1>3, WiredFault
<1>4. CASE Wait60
  BY <1>4 DEF Wait60, Cooldown, netVars, WiredInv, ConnectedOnly, OwnServerConnection, Wired
<1>5. CASE UNCHANGED vars
  BY <1>5, WiredElsewhere DEF vars, netVars
<1> QED BY <1>1, <1>2, <1>3, <1>4, <1>5 DEF Next, Over

\* Whatever the game does and whatever fails, a gateway that lives never has a
\* connected client without a server connection, or two on the same one, and
\* never one on the mother connection.
THEOREM ServerConnections == Spec => []OwnServerConnection
<1>1. Init => TypeInv /\ WiredInv
  <2>1. Init => WiredInv
    BY DEF Init, GatewayInit, Fresh, WiredInv, ConnectedOnly, OwnServerConnection, Wired
  <2> QED BY <2>1, TypeInit
<1>2. TypeInv /\ WiredInv /\ [Next]_vars => TypeInv' /\ WiredInv'
  BY TypeStep, WiredStep DEF TypeInv
<1>3. WiredInv => OwnServerConnection
  BY DEF WiredInv
<1> QED BY <1>1, <1>2, <1>3, PTL DEF Spec

-------------------------------------------------------------------------------
(***************************************************************************)
(* Proofs about GatewaySystem: who holds the game's port, what becomes of  *)
(* the pointers to its connections, and how many games there are.          *)
(***************************************************************************)

\* What was read and not processed came over a connection that the game has.
Buffers ==
  \A s \in Socks : inbuf[s] # <<>> => gameEnd[s] \in {"open", "shut"} /\ owner[s] = game

\* The variables of the game are those of the one process that listens; only
\* a process that listens or closes has ends of connections; and nobody
\* points at a connection that is gone.
PortInv ==
  /\ \A p \in Pids : proc[p] = "listening" <=> p = game
  /\ \A s \in Socks : gameEnd[s] # "gone" =>
       owner[s] \in Pids /\ proc[owner[s]] \in {"listening", "closing"}
  /\ PointersAlive /\ Buffers

\* Without a process at the port nothing is pointed at.
LEMMA NoGameNoPointers ==
  ASSUME TypeInv, PortInv, game = None
  PROVE  gwc = None /\ \A s \in Socks : gdesc[s].state = "none" /\ inbuf[s] = <<>>
<1>1. gwc \in Socks \union {None}
  BY DEF TypeInv, TypeOK, GameTypeOK
<1>2. \A s \in Socks : ~(gameEnd[s] # "gone" /\ owner[s] = None)
  BY NetAssumption DEF PortInv
<1> QED BY <1>1, <1>2 DEF PortInv, PointersAlive, Buffers

-------------------------------------------------------------------------------
(* The gateway's steps.                                                    *)

\* What the gateway does to the game's port: nothing, a connection, or a fork.
Connects == \E s \in Socks, p \in Listening :
              /\ gameEnd[s] = "gone" /\ gameEnd' = [gameEnd EXCEPT ![s] = "backlog"]
              /\ owner' = [owner EXCEPT ![s] = p]
              /\ UNCHANGED proc
Forks == \E p \in Pids : /\ proc[p] = "none" /\ proc' = [proc EXCEPT ![p] = "forked"]
                         /\ UNCHANGED <<gameEnd, owner>>
Touches == UNCHANGED <<proc, gameEnd, owner>> \/ Connects \/ Forks

LEMMA PortTouched ==
  ASSUME TypeInv, PortInv, Touches, UNCHANGED gameVars
  PROVE  PortInv'
<1>1. CASE UNCHANGED <<proc, gameEnd, owner>>
  BY <1>1 DEF gameVars, PortInv, PointersAlive, Buffers
<1>2. CASE Connects
  <2> PICK s \in Socks, p \in Listening :
         /\ gameEnd[s] = "gone" /\ gameEnd' = [gameEnd EXCEPT ![s] = "backlog"]
         /\ owner' = [owner EXCEPT ![s] = p]
         /\ UNCHANGED proc
    BY <1>2 DEF Connects
  <2>1. p \in Pids /\ proc[p] = "listening"
    BY DEF Listening
  <2> QED BY <2>1 DEF gameVars, PortInv, PointersAlive, Buffers, TypeInv, TypeOK, NetTypeOK
<1>3. CASE Forks
  <2> PICK p \in Pids : /\ proc[p] = "none" /\ proc' = [proc EXCEPT ![p] = "forked"]
                        /\ UNCHANGED <<gameEnd, owner>>
    BY <1>3 DEF Forks
  <2> QED BY DEF gameVars, PortInv, PointersAlive, Buffers, TypeInv, TypeOK, NetTypeOK
<1> QED BY <1>1, <1>2, <1>3 DEF Touches

LEMMA GatewayTouches ==
  ASSUME TypeInv, GatewayLoop \/ ClientStep
  PROVE  Touches
<1>0. mother \in Socks \union {None}
  BY DEF TypeInv, TypeOK, GatewayTypeOK
<1>1. CASE LinkDown
  <2>1. CASE Listening = {}
    BY <1>1, <2>1 DEF LinkDown, Touches
  <2>2. CASE Listening # {}
    <3>1. FreeSock \in Socks
      BY <1>1, <2>2, SocketTypes DEF LinkDown
    <3> QED BY <1>1, <2>2, <3>1 DEF LinkDown, Connect, Unused, Touches, Connects
  <2> QED BY <2>1, <2>2
<1>2. CASE Supervise
  BY <1>2 DEF Supervise, Start, Touches, Forks
<1>3. CASE Input
  <2> DEFINE m == Head(toGw[mother])
  <2>1. CASE m.type = "SessionFor"
    <3>1. OpenSession(m.client, m.key) /\ UNCHANGED proc
      BY <1>3, <2>1 DEF Input
    <3> HIDE DEF m
    <3>2. CASE ~Present(m.client) \/ Listening = {}
      BY <3>1, <3>2 DEF OpenSession, Touches
    <3>3. CASE Present(m.client) /\ Listening # {}
      <4>1. FreeSock \in Socks
        BY <3>1, <3>3, SocketTypes DEF OpenSession
      <4> QED BY <3>1, <3>3, <4>1 DEF OpenSession, Connect, Unused,
                                       Touches, Connects
    <3> QED BY <3>2, <3>3
  <2>2. CASE m.type # "SessionFor"
    BY <1>3, <2>2 DEF Input, Touches
  <2> QED BY <2>1, <2>2
<1>4. CASE NetDone \/ InputDone \/ ClientsDone \/ ClientStep
           \/ \E c \in Clients : RequestSession(c) \/ ServerLost(c)
  BY <1>4 DEF NetDone, InputDone, ClientsDone, ClientStep, RequestSession, ServerLost,
              ClientArrives, ClientLeaves, Handshake, netVars, Touches
<1> QED BY <1>1, <1>2, <1>3, <1>4 DEF GatewayLoop

-------------------------------------------------------------------------------
(* The game's steps.                                                       *)

LEMMA PortBind ==
  ASSUME TypeInv, PortInv, NEW p \in Pids, Bind(p)
  PROVE  PortInv'
<1>1. CASE Listening = {}
  <2>1. game = None
    BY <1>1 DEF Listening, PortInv, TypeInv, TypeOK, GameTypeOK
  <2>2. proc' = [proc EXCEPT ![p] = "listening"] /\ game' = p /\ proc[p] = "forked"
        /\ UNCHANGED <<gwc, gdesc, inbuf, gameEnd, owner>>
    BY <1>1 DEF Bind
  <2>3. PointersAlive' /\ Buffers'
    BY <2>1, <2>2, NoGameNoPointers, NetAssumption DEF PointersAlive, Buffers
  <2>4. \A q \in Pids : proc'[q] = "listening" <=> q = game'
    BY <1>1, <2>2 DEF Listening, TypeInv, TypeOK, NetTypeOK
  <2>5. \A s \in Socks : gameEnd'[s] # "gone" =>
          owner'[s] \in Pids /\ proc'[owner'[s]] \in {"listening", "closing"}
    BY <2>2 DEF PortInv, TypeInv, TypeOK, NetTypeOK
  <2> QED BY <2>3, <2>4, <2>5 DEF PortInv
<1>2. CASE Listening # {}
  <2>1. proc' = [proc EXCEPT ![p] = "none"] /\ proc[p] = "forked"
        /\ UNCHANGED <<game, gwc, gdesc, inbuf, gameEnd, owner>>
    BY <1>2 DEF Bind, gameVars
  <2> QED BY <2>1 DEF PortInv, PointersAlive, Buffers, TypeInv, TypeOK, NetTypeOK
<1> QED BY <1>1, <1>2

\* Steps that leave the ends alone and forget descriptors and lines at most.
LEMMA PortForgets ==
  ASSUME TypeInv, PortInv, UNCHANGED <<proc, gameEnd, owner, game, gwc>>,
         \A s \in Socks : gdesc'[s].state # "none" => gdesc[s].state # "none",
         \A s \in Socks : inbuf'[s] # <<>> => inbuf[s] # <<>>
  PROVE  PortInv'
  BY DEF PortInv, PointersAlive, Buffers

LEMMA DisconnectForgets ==
  ASSUME TypeInv, NEW t \in Socks, NEW g, Disconnect(t, g)
  PROVE  /\ gdesc'[t].state = "none"
         /\ \A s \in Socks : s # t => gdesc'[s] = gdesc[s]
  BY DEF Disconnect, NoDesc, TypeInv, TypeOK, GameTypeOK

LEMMA PortWork ==
  ASSUME TypeInv, PortInv,
         \/ Boot \/ WorkDone \/ Halt \/ Stop \/ Expire
         \/ \E t \in {"Shutdown", "Restart"} : SetOnReboot(t)
         \/ \E k \in Keys : GatewayCommand(k)
         \/ \E s \in Socks : PlayerInput(s) \/ Kick(s)
  PROVE  PortInv'
<1>1. CASE \E s \in Socks : PlayerInput(s)
  <2> PICK s \in Socks : PlayerInput(s)
    BY <1>1
  <2> DEFINE k == Head(inbuf[s]).key
  <2>1. gdesc[s].state # "none" /\ UNCHANGED <<proc, gameEnd, owner, game, gwc>>
        /\ (UNCHANGED gdesc \/ Admit(s, k))
    BY DEF PlayerInput
  <2>a. \A t \in Socks : inbuf'[t] # <<>> => inbuf[t] # <<>>
    BY DEF PlayerInput, TypeInv, TypeOK, GameTypeOK
  <2> HIDE DEF k
  <2>2. CASE Admit(s, k) /\ Match(k) = {}
    BY <2>1, <2>2, <2>a, DisconnectForgets, PortForgets DEF Admit
  <2>3. CASE Admit(s, k) /\ Match(k) # {}
    <3>1. \A t \in Socks : t # s => gdesc'[t] = gdesc[t]
      BY <2>3 DEF Admit, TypeInv, TypeOK, GameTypeOK
    <3> QED BY <2>1, <2>a, <3>1, PortForgets
  <2> QED BY <2>1, <2>2, <2>3, <2>a, PortForgets
<1>2. CASE \E s \in Socks : Kick(s)
  BY <1>2, DisconnectForgets, PortForgets DEF Kick
<1>3. CASE UNCHANGED <<proc, gameEnd, owner, game, gwc, gdesc, inbuf>>
  BY <1>3, PortForgets
<1>4. CASE \E k \in Keys : GatewayCommand(k)
  <2>1. UNCHANGED <<proc, gameEnd, owner, game, gwc, gdesc>>
        /\ \A t \in Socks : inbuf'[t] # <<>> => inbuf[t] # <<>>
    BY <1>4 DEF GatewayCommand, TypeInv, TypeOK, GameTypeOK
  <2> QED BY <2>1, PortForgets
<1> QED BY <1>1, <1>2, <1>3, <1>4 DEF Boot, WorkDone, Halt, Stop, Expire, SetOnReboot,
                                     netVars, gameVars

\* An end that is read to its end is shut, and still in the listener's map.
LEMMA PortPulse ==
  ASSUME TypeInv, PortInv, Pulse
  PROVE  PortInv'
<1>1. \A s \in Socks : gameEnd'[s] = gameEnd[s] \/ (gameEnd[s] = "open" /\ gameEnd'[s] = "shut")
  BY DEF Pulse
<1>2. UNCHANGED <<proc, owner, game, gwc, gdesc>>
  BY DEF Pulse
<1>3. \A s \in Socks : inbuf'[s] # inbuf[s] => gameEnd[s] = "open" /\ owner[s] = game
  BY DEF Pulse, TypeInv, TypeOK, GameTypeOK
<1> QED BY <1>1, <1>2, <1>3 DEF PortInv, PointersAlive, Buffers

\* A connection is deleted after everyone who points at it has let it go.
LEMMA PortReap ==
  ASSUME TypeInv, PortInv, NEW s \in Socks, Reap(s)
  PROVE  PortInv'
<1>1. gwc' = (IF s = gwc THEN None ELSE gwc) /\ UNCHANGED <<proc, owner, game>>
      /\ gameEnd' = [gameEnd EXCEPT ![s] = "gone"] /\ s # None
  BY NetAssumption DEF Reap, GatewayWithout
<1>2. /\ gdesc'[s].state = "none"
      /\ \A t \in Socks : t # s => gdesc'[t] = gdesc[t]
  BY DisconnectForgets DEF Reap
<1>3. \A t \in Socks : gameEnd'[t] = IF t = s THEN "gone" ELSE gameEnd[t]
  BY <1>1 DEF TypeInv, TypeOK, NetTypeOK
<1>4. \A t \in Socks : t = gwc' \/ gdesc'[t].state # "none" =>
        t # s /\ (t = gwc \/ gdesc[t].state # "none")
  BY <1>1, <1>2, NetAssumption
<1>5. PointersAlive'
  BY <1>1, <1>3, <1>4 DEF PortInv, PointersAlive
<1>6. \A t \in Socks : inbuf'[t] = IF t = s THEN <<>> ELSE inbuf[t]
  BY DEF Reap, TypeInv, TypeOK, GameTypeOK
<1>7. Buffers'
  BY <1>1, <1>3, <1>6 DEF PortInv, Buffers
<1> QED BY <1>1, <1>3, <1>5, <1>7 DEF PortInv

LEMMA PortAccept ==
  ASSUME TypeInv, PortInv, Accept
  PROVE  PortInv'
<1> DEFINE queue == {s \in Socks : owner[s] = game /\ gameEnd[s] = "backlog"}
<1>1. UNCHANGED <<proc, owner, game, gwc, inbuf>>
  BY DEF Accept
<1>2. CASE queue = {}
  BY <1>1, <1>2, PortForgets DEF Accept
<1>3. CASE queue # {}
  <2>1. PICK s \in queue :
          /\ gameEnd' = [gameEnd EXCEPT ![s] = "open"]
          /\ gdesc' = IF gwc = None THEN gdesc
                      ELSE [gdesc EXCEPT ![s] = [NoDesc EXCEPT !.state = "gateway"]]
    BY <1>3 DEF Accept
  <2>2. \A t \in Socks : t # s => gdesc'[t] = gdesc[t] /\ gameEnd'[t] = gameEnd[t]
    BY <2>1 DEF TypeInv, TypeOK, GameTypeOK, NetTypeOK
  <2>3. gameEnd'[s] = "open" /\ gameEnd[s] = "backlog" /\ owner[s] = game
    BY <2>1 DEF TypeInv, TypeOK, NetTypeOK
  <2> QED BY <1>1, <2>2, <2>3 DEF PortInv, PointersAlive, Buffers
<1> QED BY <1>2, <1>3

LEMMA PortScan ==
  ASSUME TypeInv, PortInv, Scan
  PROVE  PortInv'
<1>1. UNCHANGED <<proc, owner, game, gdesc>>
  BY DEF Scan
<1>2. \A s \in Socks : gameEnd'[s] = gameEnd[s] \/ (gameEnd[s] = "open" /\ gameEnd'[s] = "shut")
  BY DEF Scan
<1>3. gwc' = gwc \/ \E s \in Socks : gwc' = s /\ owner[s] = game /\ gameEnd[s] = "open"
  BY DEF Scan
<1>4. \A s \in Socks : inbuf'[s] = inbuf[s] \/ inbuf[s] # <<>>
  BY DEF Scan, TypeInv, TypeOK, GameTypeOK
<1> QED BY <1>1, <1>2, <1>3, <1>4 DEF PortInv, PointersAlive, Buffers

\* The ends of a process that stops listening or dies.
LEMMA PortEnds ==
  ASSUME TypeInv, PortInv, NEW p \in Pids,
         CloseListener \/ CloseSockets(p) \/ Exit(p) \/ Crash(p)
  PROVE  PortInv'
<1>0. /\ game \in Pids \union {None} /\ proc \in [Pids -> ProcStates]
      /\ phase # "off" => game \in Pids
  BY DEF TypeInv, TypeOK, GameTypeOK, NetTypeOK
<1>b. Blank => PointersAlive' /\ Buffers' /\ game' = None
  BY NetAssumption DEF Blank, PointersAlive, Buffers, NoDesc
<1>1. CASE CloseListener
  <2>1. /\ game \in Pids /\ proc' = [proc EXCEPT ![game] = "closing"] /\ Blank
        /\ UNCHANGED owner
        /\ \A s \in Socks : gameEnd'[s] # "gone" => gameEnd[s] # "gone"
    BY <1>0, <1>1 DEF CloseListener, GameVanishes
  <2> QED BY <1>0, <1>b, <2>1, NetAssumption DEF PortInv
<1>2. CASE CloseSockets(p)
  <2>1. /\ proc[p] = "closing" /\ proc' = [proc EXCEPT ![p] = "exiting"]
        /\ UNCHANGED <<owner, game, gwc, gdesc, inbuf>>
        /\ \A s \in Socks : gameEnd'[s] = IF owner[s] = p THEN "gone" ELSE gameEnd[s]
    BY <1>2 DEF CloseSockets, GameVanishes, OwnedBy, gameVars, TypeInv, TypeOK, NetTypeOK
  <2>2. p # game
    BY <2>1 DEF PortInv
  <2> QED BY <1>0, <2>1, <2>2 DEF PortInv, PointersAlive, Buffers
<1>3. CASE Exit(p)
  BY <1>0, <1>3 DEF Exit, gameVars, PortInv, PointersAlive, Buffers
<1>4. CASE Crash(p)
  <2>1. /\ proc' = [proc EXCEPT ![p] = "none"] /\ UNCHANGED owner
        /\ \A s \in Socks : gameEnd'[s] = IF owner[s] = p THEN "gone" ELSE gameEnd[s]
    BY <1>4 DEF Crash, GameVanishes, OwnedBy, TypeInv, TypeOK, NetTypeOK
  <2>2. CASE p = game
    <3>1. Blank
      BY <1>4, <2>2 DEF Crash
    <3> QED BY <1>0, <1>b, <2>1, <2>2, <3>1, NetAssumption DEF PortInv
  <2>3. CASE p # game
    <3>1. UNCHANGED <<game, gwc, gdesc, inbuf>>
      BY <1>4, <2>3 DEF Crash, gameVars
    <3> QED BY <1>0, <2>1, <2>3, <3>1 DEF PortInv, PointersAlive, Buffers
  <2> QED BY <2>2, <2>3
<1> QED BY <1>1, <1>2, <1>3, <1>4

-------------------------------------------------------------------------------

LEMMA PortInit == Init => PortInv
  BY NetAssumption DEF Init, NetInit, GameInit, NoDesc, PortInv, PointersAlive,
                       Buffers

LEMMA PortGame ==
  ASSUME TypeInv, PortInv, GameLoop \/ ProcessStep \/ Quit
  PROVE  PortInv'
<1>1. CASE CloseListener
  <2>1. game \in Pids
    BY <1>1 DEF CloseListener, TypeInv, TypeOK, GameTypeOK
  <2> QED BY <1>1, <2>1, PortEnds
<1> QED BY <1>1, TokenType, PortWork, PortPulse, PortReap, PortAccept, PortScan, PortBind, PortEnds
        DEF GameLoop, ProcessStep, Quit

LEMMA PortFault ==
  ASSUME TypeInv, PortInv, Fault
  PROVE  PortInv'
<1>1. CASE \E p \in Pids : UNCHANGED gameVars /\ StartByHand(p)
  <2>1. Touches
    BY <1>1 DEF StartByHand, Touches, Forks
  <2> QED BY <1>1, <2>1, PortTouched
<1>2. CASE UNCHANGED gameVars /\ (LinkBreaks \/ GatewayRestarts \/ \E c \in Clients : Forward(c))
  <2>1. Touches
    BY <1>2 DEF LinkBreaks, GatewayRestarts, Forward, Touches
  <2> QED BY <1>2, <2>1, PortTouched
<1> QED BY <1>1, <1>2, PortEnds, PortWork DEF Fault

LEMMA PortStep == TypeInv /\ PortInv /\ [Next]_vars => PortInv'
<1> SUFFICES ASSUME TypeInv, PortInv, [Next]_vars PROVE PortInv'
  OBVIOUS
<1>1. CASE GatewayStep
  BY <1>1, GatewayTouches, PortTouched DEF GatewayStep
<1>2. CASE Wait60 \/ UNCHANGED vars
  BY <1>2, PortTouched DEF Wait60, Cooldown, vars, netVars, Touches
<1> QED BY <1>1, <1>2, PortGame, PortFault DEF Next, GameStep, Over

\* The game never uses a kuDescriptor that kuListener::pulse has deleted,
\* neither as its gateway connection nor under one of its Descriptors.
THEOREM PointersStayAlive == Spec => []PointersAlive
<1>1. Init => TypeInv /\ PortInv
  BY TypeInit, PortInit
<1>2. TypeInv /\ PortInv /\ [Next]_vars => TypeInv' /\ PortInv'
  BY TypeStep, PortStep
<1>3. PortInv => PointersAlive
  BY DEF PortInv
<1> QED BY <1>1, <1>2, <1>3, PTL DEF Spec

-------------------------------------------------------------------------------
(* One game at a time.                                                     *)

\* The faults under which games may overlap are left out: nobody starts a
\* game by hand, the gateway does not die under a game, and the mother
\* connection breaks only with one of its processes.
Orderly == \A l \in Limits : l["start"] = 0 /\ l["restart"] = 0 /\ l["break"] = 0
InOrder == budget["start"] = 0 /\ budget["restart"] = 0 /\ budget["break"] = 0

\* The stages of the process p at work, as the gateway and the game see it.
\* It was forked a moment ago, and has not bound the port.
Starting(p) == proc[p] = "forked" /\ status = "notRunning" /\ ~lastTry60

\* It waits for a gateway connection.
Waiting(p) ==
  /\ proc[p] = "listening" /\ gwc = None /\ waiting
  /\ phase \in {"accept", "pulse", "reap", "scan"}

\* It waits, and the gateway, which has not found it yet, does not start another.
Alone(p) ==
  /\ Waiting(p) /\ status = "notRunning"
  /\ pc = "supervise" => ~lastTry60
  /\ \A s \in Socks : gameEnd[s] # "gone" => owner[s] # p

\* Both ends of the mother connection stand.
LinkedTo(p) ==
  /\ mother # None /\ gwEnd[mother] /\ owner[mother] = p /\ PeerUp(mother)
  /\ status # "notRunning"

\* What the game reads first on the connection s is the gateway's greeting.
FirstLine(s) ==
  /\ inbuf[s] = <<>> => toGame[s] # <<>> /\ Head(toGame[s]).type = "Validate"
  /\ inbuf[s] # <<>> => Head(inbuf[s]).type = "Validate"

\* The gateway has connected and the game has not read its greeting.
Greeting(p) ==
  /\ Waiting(p) /\ LinkedTo(p) /\ status = "booting"
  /\ toGw[mother] = <<>> /\ FirstLine(mother)
  /\ \A s \in Socks : gameEnd[s] # "gone" /\ owner[s] = p => s = mother

\* The process id that the gateway knows, or is about to read, is p's.
OnlyPid(q, p) == \A i \in DOMAIN q : q[i].type = "ProcessID" => q[i].pid = p
PidKnown(p) ==
  \/ mudPid = p
  \/ /\ status # "shuttingDown" /\ toGw[mother] # <<>>
     /\ Head(toGw[mother]).type = "ProcessID"

\* The game and the gateway work together; the game may be past its listener.
Admitted(p) ==
  /\ LinkedTo(p) /\ OnlyPid(toGw[mother], p) /\ PidKnown(p)
  /\ \/ proc[p] = "listening" /\ gwc = mother /\ ~waiting /\ phase # "scan"
     \/ proc[p] = "closing"

Stage(p) == Starting(p) \/ Alone(p) \/ Greeting(p) \/ Admitted(p)

\* A connection that the gateway has closed holds nothing for it.
NothingUnread == \A s \in Socks : ~gwEnd[s] => toGw[s] = <<>>

Staged ==
  /\ mother # None => status # "notRunning"
  /\ \A p \in AtWork : Stage(p)

OneInv ==
  /\ \A p, q \in AtWork : p = q
  /\ pc = "off" => AtWork = {}
  /\ NothingUnread
  /\ pc # "dead" => Staged

Known == TypeInv /\ PortInv /\ WiredInv /\ InOrder /\ OneInv

LEMMA KnownTypes ==
  ASSUME Known
  PROVE  /\ mother \in Socks \union {None} /\ gwc \in Socks \union {None}
         /\ game \in Pids \union {None}
         /\ \A p \in Pids : proc[p] = "listening" <=> p = game
         /\ toGw \in [Socks -> Seq(Messages)] /\ toGame \in [Socks -> Seq(Messages)]
         /\ inbuf \in [Socks -> Seq(Messages)]
         /\ gwEnd \in [Socks -> BOOLEAN] /\ gameEnd \in [Socks -> GameEnds]
         /\ proc \in [Pids -> ProcStates] /\ owner \in [Socks -> Pids \union {None}]
         /\ None \notin Pids /\ None \notin Socks
         /\ phase # "off" => game \in Pids
  BY NetAssumption DEF Known, PortInv, TypeInv, TypeOK, NetTypeOK, GatewayTypeOK, GameTypeOK

\* The process that listens is at work, and in one of its stages.
LEMMA GameStage ==
  ASSUME Known, game # None, pc # "dead"
  PROVE  /\ game \in AtWork /\ proc[game] = "listening"
         /\ \A p \in AtWork : p = game
         /\ Alone(game) \/ Greeting(game) \/ Admitted(game)
         /\ waiting \/ gwc # None => Admitted(game) \/ waiting
         /\ ~waiting => Admitted(game)
<1>1. game \in AtWork /\ proc[game] = "listening"
  BY KnownTypes DEF AtWork
<1>2. \A p \in AtWork : p = game
  BY <1>1 DEF Known, OneInv
<1>3. Alone(game) \/ Greeting(game) \/ Admitted(game)
  BY <1>1 DEF Known, OneInv, Staged, Stage, Starting
<1> QED BY <1>1, <1>2, <1>3 DEF Alone, Greeting, Waiting

-------------------------------------------------------------------------------
(* The gateway's steps.                                                    *)

\* A step of the gateway that leaves its own state and the mother connection
\* as they are, but for a line it writes on it.
LEMMA AsideKeeps ==
  ASSUME Known, pc # "dead", UNCHANGED <<proc, gameEnd, owner, gameVars>>,
         UNCHANGED <<status, mudPid, lastTry60, mother>>,
         mother # None /\ gwEnd[mother] /\ PeerUp(mother) =>
           /\ gwEnd'[mother] /\ toGw'[mother] = toGw[mother]
           /\ toGame[mother] # <<>> =>
                toGame'[mother] # <<>> /\ Head(toGame'[mother]) = Head(toGame[mother]),
         pc # "off", pc' # "off", pc' = "supervise" => pc = "supervise" \/ mother # None,
         NothingUnread'
  PROVE  OneInv'
<1>1. Staged /\ AtWork' = AtWork
  BY DEF Known, OneInv, AtWork
<1>2. ASSUME NEW p \in AtWork PROVE Stage(p)'
  <2>1. CASE Starting(p)
    BY <2>1 DEF Starting, Stage
  <2>2. CASE Alone(p)
    BY <1>1, <2>2 DEF Alone, Waiting, Stage, gameVars, Staged
  <2>3. LinkedTo(p) => LinkedTo(p)' /\ toGw'[mother] = toGw[mother]
    BY DEF LinkedTo, PeerUp
  <2>4. CASE Greeting(p)
    <3>1. FirstLine(mother)'
      BY <2>4 DEF Greeting, FirstLine, LinkedTo, gameVars
    <3> QED BY <2>3, <2>4, <3>1 DEF Greeting, Waiting, gameVars, Stage
  <2>5. CASE Admitted(p)
    BY <2>3, <2>5 DEF Admitted, PidKnown, gameVars, Stage
  <2> QED BY <1>1, <2>1, <2>2, <2>4, <2>5 DEF Staged, Stage
<1> QED BY <1>1, <1>2 DEF Known, OneInv, Staged

LEMMA HeadAppend ==
  ASSUME NEW q \in Seq(Messages), q # <<>>, NEW m
  PROVE  Append(q, m) # <<>> /\ Head(Append(q, m)) = Head(q)
  OBVIOUS

LEMMA HeadConcat ==
  ASSUME NEW q \in Seq(Messages), NEW r \in Seq(Messages), q # <<>>
  PROVE  q \o r # <<>> /\ Head(q \o r) = Head(q)
<1>1. q \o r \in Seq(Messages) /\ Len(q \o r) = Len(q) + Len(r)
      /\ \A i \in 1 .. Len(q) : (q \o r)[i] = q[i]
  BY ConcatProperties
<1>2. Len(q) \in Nat /\ Len(r) \in Nat /\ Len(q) >= 1
  BY LenProperties, EmptySeq
<1>3. Len(q \o r) # 0 /\ (q \o r)[1] = q[1]
  BY <1>1, <1>2
<1>4. q \o r # <<>>
  BY <1>3, EmptySeq
<1> DEFINE z == q \o r
<1>5. z \in Seq(Messages) /\ z # <<>>
  BY <1>1, <1>4
<1> HIDE DEF z
<1>6. Head(z) = z[1] /\ Head(q) = q[1]
  BY <1>5
<1> QED BY <1>3, <1>4, <1>6 DEF z

LEMMA ClosesReadsNothing ==
  ASSUME Known, NEW A, GatewayCloses(A)
  PROVE  NothingUnread' /\ \A s \in Socks : s \notin A => gwEnd'[s] = gwEnd[s] /\ toGw'[s] = toGw[s]
<1>1. NothingUnread /\ gwEnd \in [Socks -> BOOLEAN]
  BY KnownTypes DEF Known, OneInv
<1>2. NothingUnread'
  BY <1>1 DEF GatewayCloses, NothingUnread
<1>3. \A s \in Socks : s \notin A => gwEnd'[s] = gwEnd[s] /\ toGw'[s] = toGw[s]
  <2> TAKE s \in Socks
  <2>1. gwEnd'[s] = (gwEnd[s] /\ s \notin A) /\ toGw'[s] = IF s \in A THEN <<>> ELSE toGw[s]
    BY DEF GatewayCloses
  <2>2. gwEnd[s] \in BOOLEAN
    BY <1>1
  <2> QED BY <2>1, <2>2
<1> QED BY <1>2, <1>3

\* The steps that close no more than the connections of some clients, or a
\* mother connection whose other end is gone.
LEMMA OneAside ==
  ASSUME Known, UNCHANGED gameVars,
         \/ NetDone \/ InputDone \/ ClientsDone \/ ClientStep
         \/ \E c \in Clients : RequestSession(c) \/ ServerLost(c) \/ Forward(c)
  PROVE  OneInv'
<1>a. pc \notin {"dead", "off"}
  BY DEF NetDone, InputDone, ClientsDone, ClientStep, RequestSession, ServerLost, Forward,
         ClientArrives, ClientLeaves, Handshake
<1>b. NothingUnread /\ mother \in Socks \union {None} /\ None \notin Socks
      /\ toGame \in [Socks -> Seq(Messages)]
  BY KnownTypes DEF Known, OneInv
<1>c. /\ \A C : mother \notin ServerSocks(C \intersect Clients)
      /\ \A c \in Clients : desc[c].st = "connected" => desc[c].srv # mother
  <2>1. Wired
    BY <1>a DEF Known, WiredInv, OwnServerConnection
  <2> QED BY <2>1 DEF Wired, ServerSocks
<1>1. CASE NetDone
  <2> DEFINE closed == {c \in Clients : Present(c) /\ ~desc[c].open}
  <2>1. /\ GatewayCloses(ServerSocks(closed))
        /\ UNCHANGED <<proc, gameEnd, owner, toGame, status, mudPid, lastTry60, mother>>
        /\ pc' = IF isConnectedToGameServer THEN Supervised(status, mudPid) ELSE "link"
    BY <1>1 DEF NetDone
  <2>2. mother \notin ServerSocks(closed)
    <3>1. closed = closed \intersect Clients
      OBVIOUS
    <3> QED BY <1>c, <3>1
  <2> HIDE DEF closed
  <2>3. pc' # "off" /\ (pc' = "supervise" => mother # None)
    BY <2>1 DEF Supervised, isConnectedToGameServer
  <2> QED BY <1>a, <1>b, <2>1, <2>2, <2>3, ClosesReadsNothing, AsideKeeps
<1>2. CASE InputDone
  <2>1. /\ UNCHANGED <<proc, gameEnd, owner, toGame, status, mudPid, lastTry60, mother>>
        /\ pc' = "clients"
        /\ UNCHANGED <<gwEnd, toGw>> \/ (~PeerUp(mother) /\ GatewayCloses({mother}))
    BY <1>2 DEF InputDone
  <2>2. NothingUnread'
    BY <1>b, <2>1, ClosesReadsNothing DEF NothingUnread
  <2> QED BY <1>a, <1>b, <2>1, <2>2, AsideKeeps
<1>3. CASE \E c \in Clients : ServerLost(c)
  <2> PICK c \in Clients : ServerLost(c)
    BY <1>3
  <2>1. /\ UNCHANGED <<proc, gameEnd, owner, toGame, status, mudPid, lastTry60, mother, pc>>
        /\ GatewayCloses({desc[c].srv}) /\ desc[c].srv # mother
    BY <1>c DEF ServerLost
  <2> QED BY <1>a, <1>b, <2>1, ClosesReadsNothing, AsideKeeps
<1>4. CASE \E c \in Clients : ClientLeaves(c)
  <2> PICK c \in Clients : ClientLeaves(c)
    BY <1>4
  <2>1. /\ UNCHANGED <<proc, gameEnd, owner, toGame, status, mudPid, lastTry60, mother, pc>>
        /\ GatewayCloses(ServerSocks({c}))
    BY DEF ClientLeaves
  <2>2. mother \notin ServerSocks({c})
    <3>1. {c} = {c} \intersect Clients
      OBVIOUS
    <3> QED BY <1>c, <3>1
  <2> QED BY <1>a, <1>b, <2>1, <2>2, ClosesReadsNothing, AsideKeeps
<1>5. CASE \E c \in Clients : RequestSession(c)
  <2> PICK c \in Clients : RequestSession(c)
    BY <1>5
  <2>1. /\ UNCHANGED <<proc, gameEnd, owner, status, mudPid, lastTry60, mother, pc>>
        /\ \/ UNCHANGED <<gwEnd, toGw>>
           \/ ~(gwEnd[mother] /\ PeerUp(mother)) /\ GatewayCloses({mother})
        /\ \/ UNCHANGED toGame
           \/ toGame' = [toGame EXCEPT ![mother] = Append(@, [type |-> "Host", client |-> c])]
        /\ mother \in Socks
    BY <1>b DEF RequestSession, MayAsk
  <2>2. NothingUnread'
    BY <1>b, <2>1, ClosesReadsNothing DEF NothingUnread
  <2>3. toGame[mother] # <<>> =>
          toGame'[mother] # <<>> /\ Head(toGame'[mother]) = Head(toGame[mother])
    <3> DEFINE m == [type |-> "Host", client |-> c]
    <3>1. \/ toGame'[mother] = toGame[mother]
          \/ toGame'[mother] = Append(toGame[mother], m)
      BY <1>b, <2>1
    <3>2. toGame[mother] \in Seq(Messages)
      BY <1>b, <2>1
    <3> HIDE DEF m
    <3> QED BY <3>1, <3>2, HeadAppend
  <2> QED BY <1>a, <1>b, <2>1, <2>2, <2>3, AsideKeeps
<1>6. CASE \E c \in Clients : Forward(c)
  <2> PICK c \in Clients : Forward(c)
    BY <1>6
  <2>1. /\ UNCHANGED <<proc, gwEnd, gameEnd, owner, toGw, status, mudPid, lastTry60, mother, pc>>
        /\ toGame' = [toGame EXCEPT ![desc[c].srv] = <<Message("Line")>>]
        /\ desc[c].srv # mother
    BY <1>c DEF Forward, gatewayVars
  <2>2. mother # None => toGame'[mother] = toGame[mother]
    BY <1>b, <2>1
  <2> QED BY <1>a, <1>b, <2>1, <2>2, AsideKeeps DEF NothingUnread
<1>7. CASE ClientsDone \/ \E c \in Clients : ClientArrives(c) \/ Handshake(c)
  <2>1. /\ UNCHANGED <<proc, gwEnd, gameEnd, owner, toGw, toGame, status, mudPid, lastTry60, mother>>
        /\ pc' # "off" /\ pc' # "supervise"
    BY <1>7 DEF ClientsDone, ClientArrives, Handshake, netVars
  <2> QED BY <1>a, <1>b, <2>1, AsideKeeps DEF NothingUnread
<1> QED BY <1>1, <1>2, <1>3, <1>4, <1>5, <1>6, <1>7 DEF ClientStep

\* A lost mother connection means that no game is at work; a game that is
\* found has been waiting for it.
LEMMA OneLinkDown ==
  ASSUME Known, LinkDown, UNCHANGED gameVars
  PROVE  OneInv'
<1>a. pc = "link" /\ ~isConnectedToGameServer /\ UNCHANGED proc
      /\ pc' = Supervised(status', mudPid')
  BY DEF LinkDown
<1>b. /\ Staged /\ AtWork' = AtWork /\ pc' \notin {"off", "dead"}
  BY <1>a DEF Known, OneInv, AtWork, Supervised
<1>c. \A p \in AtWork : Starting(p) \/ Alone(p)
  BY <1>a, <1>b DEF Staged, Stage, Greeting, Admitted, LinkedTo, isConnectedToGameServer
<1>d. NothingUnread /\ gwEnd \in [Socks -> BOOLEAN] /\ toGw \in [Socks -> Seq(Messages)]
  BY KnownTypes DEF Known, OneInv
<1> DEFINE crash == status \in {"running", "booting"}
           lost == IF crash THEN ServerSocks({c \in Clients : Present(c)}) ELSE {}
<1>1. CASE Listening = {}
  <2>1. /\ GatewayCloses(lost) /\ mother' = None
        /\ status' = IF crash THEN "notRunning" ELSE status
        /\ lastTry60' = (crash \/ lastTry60)
    BY <1>1 DEF LinkDown
  <2> HIDE DEF lost
  <2>2. NothingUnread'
    BY <2>1, ClosesReadsNothing
  <2>3. \A p \in AtWork : Starting(p) /\ ~crash
    BY <1>1, <1>c DEF Alone, Waiting, Listening, AtWork, Starting
  <2>4. \A p \in AtWork : Starting(p)'
    BY <1>a, <2>1, <2>3 DEF Starting
  <2> QED BY <1>b, <2>1, <2>2, <2>4 DEF Known, OneInv, Staged, Stage
<1>2. CASE Listening # {}
  <2>1. PICK p \in Listening : Connect(FreeSock, p, Message("Validate"), lost)
    BY <1>2 DEF LinkDown
  <2>2. /\ toGw' = [s \in Socks |-> IF s \in lost THEN <<>> ELSE toGw[s]]
        /\ mother' = FreeSock /\ status' = "booting" /\ FreeSock \in Socks
    BY <1>2, SocketTypes DEF LinkDown
  <2> HIDE DEF lost
  <2>3. /\ p \in AtWork /\ Alone(p)
        /\ \A q \in AtWork : q = p
    BY <1>c DEF Listening, AtWork, Starting, Known, OneInv
  <2>4. /\ gameEnd[FreeSock] = "gone" /\ toGw[FreeSock] = <<>> /\ inbuf[FreeSock] = <<>>
    BY <1>d, <2>1, <2>2 DEF Connect, Unused, NothingUnread, Known, PortInv, Buffers
  <2>5. /\ gwEnd'[FreeSock] /\ gameEnd'[FreeSock] = "backlog" /\ owner'[FreeSock] = p
        /\ toGame'[FreeSock] = <<Message("Validate")>>
        /\ toGw'[FreeSock] = <<>>
        /\ \A s \in Socks : s # FreeSock => gameEnd'[s] = gameEnd[s] /\ owner'[s] = owner[s]
    BY <2>1, <2>2, <2>4, KnownTypes DEF Connect
  <2>6. LinkedTo(p)'
    BY <2>2, <2>5, KnownTypes DEF LinkedTo, PeerUp
  <2>7. FirstLine(mother)'
    <3>1. inbuf'[mother'] = <<>> /\ toGame'[mother'] = <<Message("Validate")>>
      BY <2>2, <2>4, <2>5 DEF gameVars
    <3>2. Head(<<Message("Validate")>>).type = "Validate"
      BY DEF Message
    <3> QED BY <3>1, <3>2 DEF FirstLine
  <2>8. Greeting(p)'
    <3> DEFINE s0 == FreeSock
    <3>1. /\ mother' = s0 /\ toGw'[s0] = <<>>
          /\ \A s \in Socks : s # s0 => gameEnd'[s] = gameEnd[s] /\ owner'[s] = owner[s]
      BY <2>2, <2>5
    <3> HIDE DEF s0
    <3>2. Waiting(p)' /\ status' = "booting"
      BY <1>a, <2>2, <2>3 DEF Alone, Waiting, gameVars
    <3>3. \A s \in Socks : gameEnd'[s] # "gone" /\ owner'[s] = p => s = s0
      BY <2>3, <3>1 DEF Alone
    <3> QED BY <2>6, <2>7, <3>1, <3>2, <3>3 DEF Greeting
  <2>9. NothingUnread'
    BY <1>d, <2>1, <2>2 DEF NothingUnread, Connect
  <2> QED BY <1>b, <2>2, <2>3, <2>8, <2>9 DEF Known, OneInv, Staged, Stage
<1> QED BY <1>1, <1>2

\* A game is started only when none is at work.
LEMMA OneSupervise ==
  ASSUME Known, Supervise, UNCHANGED gameVars
  PROVE  OneInv'
<1> DEFINE over == Finished /\ shutdownOnReboot
           st == IF Finished THEN "notRunning" ELSE status
           start == ~over /\ MustStart(st)
           A == IF over THEN {s \in Socks : gwEnd[s]}
                ELSE IF Finished THEN {mother} \ {None} ELSE {}
<1>1. /\ status' = st /\ pc = "supervise"
      /\ mother' = IF Finished THEN None ELSE mother
      /\ IF start THEN \E p \in Pids : Start(p)
         ELSE /\ mudPid' = IF Finished THEN None ELSE mudPid
              /\ UNCHANGED <<proc, lastTry60>>
      /\ pc' = IF over THEN "off" ELSE "input"
      /\ UNCHANGED <<gameEnd, owner, toGame>>
  BY DEF Supervise
<1>2. GatewayCloses(A) /\ (~Finished => A = {})
  BY DEF Supervise
<1> HIDE DEF A
<1>3. Staged
  BY <1>1 DEF Known, OneInv
<1>4. \A p \in AtWork : ~Finished /\ ~start
  <2> TAKE p \in AtWork
  <2>1. CASE Starting(p) \/ Alone(p)
    BY <1>1, <2>1 DEF Starting, Alone, Finished, MustStart
  <2>2. CASE Greeting(p)
    BY <2>2 DEF Greeting, Finished, MustStart
  <2>3. CASE Admitted(p)
    <3>1. status = "shuttingDown" => processExists(mudPid)
      BY <2>3, KnownTypes DEF Admitted, PidKnown, AtWork, processExists
    <3> QED BY <2>3, <3>1 DEF Admitted, LinkedTo, Finished, MustStart
  <2> QED BY <1>3, <2>1, <2>2, <2>3 DEF Staged, Stage
<1>5. NothingUnread'
  BY <1>2, ClosesReadsNothing
<1>6. CASE AtWork # {}
  <2>1. ~Finished /\ ~start
    BY <1>4, <1>6
  <2>2. UNCHANGED <<proc, gameEnd, owner, toGame, status, mudPid, lastTry60, mother>>
        /\ GatewayCloses({}) /\ pc' = "input"
    BY <1>1, <1>2, <2>1
  <2> QED BY <1>1, <1>5, <2>2, ClosesReadsNothing, AsideKeeps, KnownTypes
<1>7. CASE AtWork = {} /\ ~start
  <2>1. UNCHANGED proc
    BY <1>1, <1>7
  <2>2. AtWork' = {}
    BY <1>7, <2>1 DEF AtWork
  <2>3. mother' # None => status' # "notRunning"
    BY <1>1, <1>3 DEF Staged
  <2> QED BY <1>1, <1>5, <2>2, <2>3 DEF OneInv, Staged
<1>8. CASE AtWork = {} /\ start
  <2>1. PICK p \in Pids : Start(p)
    BY <1>1, <1>8
  <2>2. AtWork' = {p} /\ proc'[p] = "forked"
    BY <1>8, <2>1, KnownTypes DEF AtWork, Start
  <2>3. st = "notRunning" /\ pc' = "input"
    BY <1>1, <1>8 DEF MustStart
  <2>4. Starting(p)'
    BY <1>1, <2>1, <2>2, <2>3 DEF Starting, Start
  <2>5. mother' = None
    BY <1>1, <1>3, <2>3 DEF Staged
  <2> QED BY <1>5, <2>2, <2>3, <2>4, <2>5 DEF OneInv, Staged, Stage
<1> QED BY <1>6, <1>7, <1>8

\* Reading a line leaves the mother connection standing, and all others that
\* the game has not accepted as they are.
LEMMA MotherStands ==
  ASSUME Known, Input, pc' # "dead"
  PROVE  gwEnd'[mother] /\ gameEnd'[mother] = gameEnd[mother] /\ owner'[mother] = owner[mother]
<1> DEFINE m == Head(toGw[mother])
<1>0. Reading /\ toGw[mother] # <<>>
  BY DEF Input
<1>a. /\ mother \in Socks /\ mother # None /\ gwEnd[mother] /\ pc = "input" /\ NetTypeOK
      /\ toGw[mother] # <<>>
      /\ gameEnd \in [Socks -> GameEnds] /\ owner \in [Socks -> Pids \union {None}]
  <2>1. NetTypeOK
    BY DEF Known, TypeInv, TypeOK
  <2> QED BY <1>0, <2>1, KnownTypes DEF Reading, isConnectedToGameServer
<1>b. \A c \in Clients : desc[c].srv # mother
  BY <1>a DEF Known, WiredInv, OwnServerConnection, Wired
<1>1. CASE m.type = "SessionFor"
  <2>1. OpenSession(m.client, m.key)
    BY <1>1 DEF Input
  <2>2. m.client \in Clients
    BY <1>1, <1>a, HeadTypes, MessageFields
  <2> HIDE DEF m
  <2>3. CASE ~Present(m.client)
    BY <1>a, <2>1, <2>3 DEF OpenSession
  <2>4. CASE Present(m.client) /\ Listening = {}
    BY <1>a, <1>b, <2>1, <2>2, <2>4 DEF OpenSession
  <2>5. CASE Present(m.client) /\ Listening # {}
    <3>1. PICK p \in Listening :
            Connect(FreeSock, p, [type |-> "Session", key |-> m.key], {desc[m.client].srv})
      BY <2>1, <2>5 DEF OpenSession
    <3>2. FreeSock # mother
      BY <1>a, <3>1 DEF Connect, Unused
    <3> QED BY <1>a, <1>b, <2>2, <3>1, <3>2 DEF Connect
  <2> QED BY <2>3, <2>4, <2>5
<1>2. CASE m.type = "Close"
  <2>1. CloseSession(m.key) /\ UNCHANGED <<gameEnd, owner>>
    BY <1>2 DEF Input
  <2> HIDE DEF m
  <2>2. CASE Closing(m.key) = {}
    BY <1>a, <2>1, <2>2 DEF CloseSession
  <2>3. CASE Closing(m.key) # {}
    <3>1. PICK c \in Closing(m.key) :
            /\ gwEnd' = [s \in Socks |-> gwEnd[s] /\ desc[c].srv \notin {s, None}]
            /\ pc' = IF desc[c].srv = None THEN "dead" ELSE pc
      BY <2>1, <2>3 DEF CloseSession
    <3> QED BY <1>a, <1>b, <2>1, <3>1 DEF Closing
  <2> QED BY <2>2, <2>3
<1>3. CASE m.type = "Reboot"
  <2>1. mother \notin RebootCloses
    BY <1>b DEF RebootCloses, ServerSocks
  <2> QED BY <1>3, <1>a, <2>1 DEF Input
<1>4. CASE m.type \notin {"SessionFor", "Close", "Reboot"}
  BY <1>4, <1>a DEF Input
<1> QED BY <1>1, <1>2, <1>3, <1>4

\* The gateway knows its game's process id before it reads that it stops.
LEMMA OneInput ==
  ASSUME Known, Input, UNCHANGED gameVars
  PROVE  OneInv'
<1> DEFINE Q == toGw[mother]
           m == Head(Q)
<1>1. /\ mother \in Socks /\ pc = "input" /\ UNCHANGED <<proc, mother>>
      /\ status # "notRunning" /\ Q # <<>> /\ Q \in Seq(Messages)
  BY KnownTypes DEF Input, Reading, isConnectedToGameServer
<1>2. Staged /\ AtWork' = AtWork
  BY <1>1 DEF Known, OneInv, AtWork
<1>3. /\ pc' \in {"input", "dead"}
      /\ status' = IF m.type = "Reboot" THEN "shuttingDown"
                   ELSE IF m.type = "FinishedBooting" THEN "running" ELSE status
      /\ mudPid' = IF m.type = "ProcessID" THEN m.pid ELSE mudPid
  <2>1. m.type = "Close" => pc' \in {pc, "dead"}
    BY DEF Input, CloseSession
  <2> QED BY <1>1, <2>1 DEF Input
<1>4. toGw' = [s \in Socks |-> IF ~gwEnd'[s] THEN <<>>
                               ELSE IF s = mother THEN Tail(toGw[s]) ELSE toGw[s]]
  BY DEF Input
<1>5. NothingUnread'
  BY <1>4 DEF NothingUnread
<1>6. ASSUME NEW p \in AtWork, pc' # "dead" PROVE Stage(p)'
  <2>1. Admitted(p)
    BY <1>1, <1>2 DEF Staged, Stage, Starting, Alone, Greeting
  <2>2. LinkedTo(p)'
    BY <1>1, <1>3, <1>6, <2>1, MotherStands DEF Admitted, LinkedTo, PeerUp
  <2>3. toGw'[mother'] = Tail(Q)
    BY <1>1, <1>4, <1>6, MotherStands
  <2>4. \A i \in DOMAIN Tail(Q) : i + 1 \in DOMAIN Q /\ Tail(Q)[i] = Q[i + 1]
    BY <1>1, HeadTailProperties
  <2>5. m = Q[1] /\ 1 \in DOMAIN Q
    BY <1>1, HeadTailProperties
  <2>6. OnlyPid(Q, p) /\ PidKnown(p)
    BY <2>1 DEF Admitted
  <2> HIDE DEF m, Q
  <2>7. OnlyPid(Tail(Q), p)
    BY <2>4, <2>6 DEF OnlyPid
  <2>8. m.type = "ProcessID" => m.pid = p
    BY <2>5, <2>6 DEF OnlyPid
  <2>9. mudPid' = p
    BY <1>3, <2>6, <2>8 DEF PidKnown, m, Q
  <2>10. (toGw[mother])' = Tail(Q)
    BY <2>3
  <2>11. Admitted(p)'
    BY <1>1, <2>1, <2>2, <2>7, <2>9, <2>10 DEF Admitted, PidKnown, gameVars
  <2> QED BY <2>11 DEF Stage
<1> QED BY <1>1, <1>2, <1>3, <1>5, <1>6 DEF Known, OneInv, Staged

LEMMA OneGateway ==
  ASSUME Known, GatewayLoop \/ ClientStep, UNCHANGED gameVars
  PROVE  OneInv'
  BY OneAside, OneLinkDown, OneSupervise, OneInput DEF GatewayLoop

-------------------------------------------------------------------------------
(* The game's steps.                                                       *)

\* One line written to the gateway, at most, that is not a process id.
SaysAtMost(m) ==
  /\ m.type # "ProcessID"
  /\ \/ UNCHANGED toGw
     \/ Deliverable(gwc) /\ toGw' = [toGw EXCEPT ![gwc] = Append(@, m)]

LEMMA PidAppend ==
  ASSUME NEW q \in Seq(Messages), NEW m, m.type # "ProcessID", NEW p, OnlyPid(q, p)
  PROVE  OnlyPid(Append(q, m), p)
  BY DEF OnlyPid

LEMMA PidConcat ==
  ASSUME NEW q \in Seq(Messages), NEW r \in Seq(Messages), NEW p, OnlyPid(q, p), OnlyPid(r, p)
  PROVE  OnlyPid(q \o r, p)
<1>1. /\ q \o r \in Seq(Messages) /\ DOMAIN (q \o r) = 1 .. Len(q) + Len(r)
      /\ \A i \in 1 .. Len(q) + Len(r) : (q \o r)[i] = IF i <= Len(q) THEN q[i] ELSE r[i - Len(q)]
  BY ConcatProperties, LenProperties
<1>2. Len(q) \in Nat /\ Len(r) \in Nat /\ DOMAIN q = 1 .. Len(q) /\ DOMAIN r = 1 .. Len(r)
  BY LenProperties
<1>3. ASSUME NEW i \in DOMAIN (q \o r), (q \o r)[i].type = "ProcessID"
      PROVE  (q \o r)[i].pid = p
  <2>1. CASE i <= Len(q)
    <3>1. i \in DOMAIN q /\ (q \o r)[i] = q[i]
      BY <1>1, <1>2, <2>1
    <3> QED BY <1>3, <3>1 DEF OnlyPid
  <2>2. CASE ~(i <= Len(q))
    <3>1. i - Len(q) \in DOMAIN r /\ (q \o r)[i] = r[i - Len(q)]
      BY <1>1, <1>2, <2>2
    <3> QED BY <1>3, <3>1 DEF OnlyPid
  <2> QED BY <2>1, <2>2
<1> QED BY <1>3 DEF OnlyPid

\* It is enough to look at the process that listens.
LEMMA GameKeeps ==
  ASSUME Known, game # None, UNCHANGED <<proc, gwEnd, gatewayVars, game>>,
         \A s \in Socks : toGw'[s] # toGw[s] => gwEnd[s],
         pc # "dead" => Stage(game)'
  PROVE  OneInv'
<1>1. AtWork' = AtWork /\ UNCHANGED <<pc, mother, status>>
  BY DEF AtWork, gatewayVars
<1>2. NothingUnread'
  BY DEF Known, OneInv, NothingUnread
<1>3. pc # "dead" => Staged'
  BY <1>1, GameStage DEF Known, OneInv, Staged
<1> QED BY <1>1, <1>2, <1>3 DEF Known, OneInv

\* An admitted game stays so as long as its gateway connection does.
LEMMA AdmittedKeeps ==
  ASSUME Known, game # None, pc # "dead", Admitted(game),
         UNCHANGED <<proc, gwEnd, owner, gatewayVars, game, gwc, waiting>>,
         phase' # "scan", PeerUp(gwc)',
         NEW m, SaysAtMost(m)
  PROVE  Stage(game)'
<1>1. /\ proc[game] = "listening" /\ gwc = mother /\ mother \in Socks
      /\ toGw[mother] \in Seq(Messages) /\ toGw \in [Socks -> Seq(Messages)]
      /\ UNCHANGED <<mother, status, mudPid>>
      /\ LinkedTo(game) /\ OnlyPid(toGw[mother], game) /\ PidKnown(game)
      /\ ~waiting
  BY GameStage, KnownTypes DEF Admitted, gatewayVars, LinkedTo
<1>2. toGw'[mother] = toGw[mother] \/ toGw'[mother] = Append(toGw[mother], m)
  BY <1>1 DEF SaysAtMost
<1>3. OnlyPid(toGw'[mother], game)
  BY <1>1, <1>2, PidAppend DEF SaysAtMost
<1>4. toGw[mother] # <<>> =>
        toGw'[mother] # <<>> /\ Head(toGw'[mother]) = Head(toGw[mother])
  BY <1>1, <1>2, HeadAppend
<1>5. LinkedTo(game)'
  BY <1>1 DEF LinkedTo
<1>6. PidKnown(game)'
  BY <1>1, <1>4 DEF PidKnown
<1>7. OnlyPid(toGw[mother], game)'
  BY <1>1, <1>3 DEF OnlyPid
<1> QED BY <1>1, <1>5, <1>6, <1>7 DEF Admitted, Stage

\* The steps of a pass that leave the connections alone.
LEMMA OneWork ==
  ASSUME Known, UNCHANGED gatewayVars,
         \/ Boot \/ WorkDone \/ Halt
         \/ \E t \in {"Shutdown", "Restart"} : SetOnReboot(t)
         \/ \E k \in Keys : GatewayCommand(k)
         \/ \E s \in Socks : PlayerInput(s) \/ Kick(s)
  PROVE  OneInv'
<1>1. /\ phase \in {"boot", "work", "halt", "accept"} /\ (phase = "accept" => ~waiting)
      /\ phase' \in {phase, "work", "pulse", "saving"}
      /\ UNCHANGED <<proc, gwEnd, gameEnd, owner, game, gwc, waiting>>
  BY DEF Boot, WorkDone, Halt, SetOnReboot, GatewayCommand, PlayerInput, Kick, Kicking,
         netVars, gameVars
<1>2. game # None
  BY <1>1 DEF Known, TypeInv
<1>3. \E m \in Messages : SaysAtMost(m)
  <2>1. CASE Boot
    BY <2>1, MessageTypes DEF Boot, WriteTo, SaysAtMost, Message
  <2>2. CASE Halt
    BY <2>2, MessageTypes DEF Halt, WriteTo, SaysAtMost, Message
  <2>3. CASE \E t \in {"Shutdown", "Restart"} : SetOnReboot(t)
    BY <2>3, MessageTypes DEF SetOnReboot, WriteTo, SaysAtMost, Message
  <2>4. CASE \E k \in Keys : GatewayCommand(k)
    <3> PICK k \in Keys : GatewayCommand(k)
      BY <2>4
    <3> DEFINE c == Head(inbuf[gwc]).client
               m == [type |-> "SessionFor", client |-> c, key |-> k]
    <3>1. CASE UNCHANGED toGw
      BY <3>1, MessageTypes DEF SaysAtMost, Message
    <3>2. CASE Head(inbuf[gwc]).type = "Host" /\ WriteTo(gwc, m)
      <4>1. inbuf[gwc] \in Seq(Messages) /\ inbuf[gwc] # <<>>
        BY KnownTypes DEF GatewayCommand
      <4>2. Head(inbuf[gwc]) \in Messages
        BY <4>1, HeadTailProperties
      <4>3. c \in Clients
        BY <3>2, <4>2, MessageFields
      <4>4. m \in Messages
        BY <4>3, MessageTypes
      <4> QED BY <3>2, <4>4 DEF WriteTo, SaysAtMost
    <3> QED BY <3>1, <3>2 DEF GatewayCommand, Host
  <2>5. ASSUME NEW s \in Socks, Disconnect(s, gwc) PROVE \E m \in Messages : SaysAtMost(m)
    <3>1. CASE UNCHANGED toGw
      BY <3>1, MessageTypes DEF SaysAtMost, Message
    <3>2. CASE gdesc[s].session # None /\ WriteTo(gwc, [type |-> "Close", key |-> gdesc[s].session])
      <4>1. gdesc[s].session \in Keys
        BY <3>2 DEF Known, TypeInv, TypeOK, GameTypeOK
      <4>2. [type |-> "Close", key |-> gdesc[s].session] \in Messages
        BY <4>1, MessageTypes
      <4> QED BY <3>2, <4>2 DEF WriteTo, SaysAtMost
    <3> QED BY <2>5, <3>1, <3>2 DEF Disconnect
  <2>6. CASE WorkDone \/ UNCHANGED toGw
    BY <2>6, MessageTypes DEF WorkDone, netVars, SaysAtMost, Message
  <2>7. CASE \E s \in Socks : PlayerInput(s) \/ Kick(s)
    BY <2>5, <2>6, <2>7 DEF PlayerInput, Kick, Admit
  <2> QED BY <2>1, <2>2, <2>3, <2>4, <2>6, <2>7
<1>4. PICK m \in Messages : SaysAtMost(m)
  BY <1>3
<1>5. \A s \in Socks : toGw'[s] # toGw[s] => gwEnd[s]
  BY <1>4, KnownTypes DEF SaysAtMost, Deliverable
<1>6. ASSUME pc # "dead" PROVE Stage(game)'
  <2>1. Admitted(game)
    BY <1>1, <1>2, <1>6, GameStage DEF Alone, Greeting, Waiting
  <2>2. PeerUp(gwc)' /\ phase' # "scan"
    BY <1>1, <1>2, <1>6, <2>1, GameStage DEF Admitted, LinkedTo, PeerUp
  <2> QED BY <1>1, <1>2, <1>4, <1>6, <2>1, <2>2, AdmittedKeeps
<1> QED BY <1>1, <1>2, <1>5, <1>6, GameKeeps

\* The end of file is read on no connection whose other end stands; the first
\* line that is read on the mother connection stays the gateway's greeting.
LEMMA OnePulse ==
  ASSUME Known, UNCHANGED gatewayVars, Pulse
  PROVE  OneInv'
<1>1. /\ phase \in {"pulse", "lastPulse"}
      /\ UNCHANGED <<proc, gwEnd, owner, toGw, game, gwc, waiting>>
  BY DEF Pulse
<1>2. game # None
  BY <1>1 DEF Known, TypeInv
<1>3. /\ \A s \in Socks : gwEnd[s] => gameEnd'[s] = gameEnd[s]
      /\ \A s \in Socks : gameEnd'[s] # "gone" => gameEnd[s] # "gone"
  BY DEF Pulse
<1>4. phase' = AfterReads(phase, gameEnd')
  BY DEF Pulse
<1>5. ASSUME pc # "dead", ~waiting PROVE Stage(game)'
  <2>1. Admitted(game)
    BY <1>2, <1>5, GameStage
  <2>2. PeerUp(gwc)' /\ phase' # "scan"
    BY <1>1, <1>2, <1>3, <1>4, <1>5, <2>1, GameStage, KnownTypes
       DEF Admitted, LinkedTo, PeerUp, AfterReads
  <2>3. SaysAtMost(Message("Line"))
    BY <1>1 DEF SaysAtMost, Message
  <2> QED BY <1>1, <1>2, <1>5, <2>1, <2>2, <2>3, AdmittedKeeps
<1>6. ASSUME pc # "dead", waiting PROVE Stage(game)'
  <2>1. Alone(game) \/ Greeting(game)
    BY <1>2, <1>6, GameStage DEF Admitted, AtWork
  <2>2. Waiting(game)'
    BY <1>1, <1>4, <2>1 DEF Alone, Greeting, Waiting, AfterReads
  <2>3. CASE Alone(game)
    BY <1>1, <1>3, <2>2, <2>3 DEF Alone, Stage, gatewayVars
  <2>4. CASE Greeting(game)
    <3>1. mother \in Socks /\ gwEnd[mother] /\ UNCHANGED mother
      BY <2>4, KnownTypes DEF Greeting, LinkedTo, gatewayVars
    <3>2. LinkedTo(game)'
      BY <1>1, <1>3, <2>4, <3>1 DEF Greeting, LinkedTo, PeerUp, gatewayVars
    <3>3. FirstLine(mother)'
      <4>1. \/ inbuf'[mother] = inbuf[mother] /\ toGame'[mother] = toGame[mother]
            \/ inbuf'[mother] = inbuf[mother] \o toGame[mother] /\ toGame[mother] # <<>>
        BY <3>1, KnownTypes DEF Pulse
      <4>2. CASE inbuf'[mother] = inbuf[mother] /\ toGame'[mother] = toGame[mother]
        BY <2>4, <3>1, <4>2 DEF Greeting, FirstLine
      <4>3. CASE inbuf'[mother] = inbuf[mother] \o toGame[mother] /\ toGame[mother] # <<>>
        <5>1. inbuf[mother] \in Seq(Messages) /\ toGame[mother] \in Seq(Messages)
          BY <3>1, KnownTypes
        <5>2. CASE inbuf[mother] = <<>>
          <6>1. inbuf'[mother] = toGame[mother]
            BY <4>3, <5>1, <5>2
          <6> QED BY <2>4, <3>1, <4>3, <5>2, <6>1 DEF Greeting, FirstLine
        <5>3. CASE inbuf[mother] # <<>>
          <6>1. inbuf'[mother] # <<>> /\ Head(inbuf'[mother]) = Head(inbuf[mother])
            BY <4>3, <5>1, <5>3, HeadConcat
          <6> QED BY <2>4, <3>1, <5>3, <6>1 DEF Greeting, FirstLine
        <5> QED BY <5>2, <5>3
      <4> QED BY <4>1, <4>2, <4>3
    <3> QED BY <1>1, <1>3, <2>2, <2>4, <3>1, <3>2, <3>3 DEF Greeting, Stage, gatewayVars
  <2> QED BY <2>1, <2>3, <2>4
<1> QED BY <1>1, <1>2, <1>5, <1>6, GameKeeps

\* The connections that the close loop deletes are not the mother connection.
LEMMA OneReap ==
  ASSUME Known, UNCHANGED gatewayVars, NEW r \in Socks, Reap(r)
  PROVE  OneInv'
<1>1. /\ phase \in {"reap", "lastReap"} /\ gameEnd[r] = "shut" /\ owner[r] = game
      /\ UNCHANGED <<proc, gwEnd, owner, game, waiting>>
      /\ gwc' = GatewayWithout(r)
      /\ phase' = AfterReads(phase, gameEnd')
  BY DEF Reap
<1>2. game # None
  BY <1>1 DEF Known, TypeInv
<1>3. \A s \in Socks : /\ gameEnd'[s] = IF s = r THEN "gone" ELSE gameEnd[s]
                       /\ toGame'[s] = IF s = r THEN <<>> ELSE toGame[s]
                       /\ inbuf'[s] = IF s = r THEN <<>> ELSE inbuf[s]
  BY KnownTypes DEF Reap
<1>4. \/ UNCHANGED toGw
      \/ \E k \in Keys : WriteTo(gwc', [type |-> "Close", key |-> k])
  <2>1. gdesc[r].session # None => gdesc[r].session \in Keys
    BY DEF Known, TypeInv, TypeOK, GameTypeOK
  <2> QED BY <1>1, <2>1 DEF Reap, Disconnect
<1>5. \A s \in Socks : toGw'[s] # toGw[s] => gwEnd[s]
  BY <1>4, KnownTypes DEF WriteTo, Deliverable
<1>6. ASSUME pc # "dead", ~waiting PROVE Stage(game)'
  <2>1. Admitted(game) /\ gwc = mother /\ gwc \in Socks /\ PeerUp(mother)
    BY <1>2, <1>6, GameStage, KnownTypes DEF Admitted, LinkedTo
  <2>2. r # gwc
    BY <1>1, <2>1 DEF PeerUp
  <2>3. gwc' = gwc
    BY <1>1, <2>2 DEF GatewayWithout
  <2>4. PeerUp(gwc)' /\ phase' # "scan"
    BY <1>1, <1>3, <1>6, <2>1, <2>2, <2>3 DEF PeerUp, AfterReads
  <2>5. CASE UNCHANGED toGw
    <3>1. SaysAtMost(Message("Line"))
      BY <2>5 DEF SaysAtMost, Message
    <3> QED BY <1>1, <1>2, <1>6, <2>1, <2>3, <2>4, <3>1, AdmittedKeeps
  <2>6. CASE \E k \in Keys : WriteTo(gwc', [type |-> "Close", key |-> k])
    <3>1. PICK k \in Keys : WriteTo(gwc', [type |-> "Close", key |-> k])
      BY <2>6
    <3> DEFINE m == [type |-> "Close", key |-> k]
    <3>2. m.type # "ProcessID" /\ WriteTo(gwc, m)
      BY <2>3, <3>1
    <3> HIDE DEF m
    <3>3. SaysAtMost(m)
      BY <3>2 DEF WriteTo, SaysAtMost
    <3> QED BY <1>1, <1>2, <1>6, <2>1, <2>3, <2>4, <3>3, AdmittedKeeps
  <2> QED BY <1>4, <2>5, <2>6
<1>7. ASSUME pc # "dead", waiting PROVE Stage(game)'
  <2>1. Alone(game) \/ Greeting(game)
    BY <1>2, <1>7, GameStage DEF Admitted, AtWork
  <2>2. gwc = None /\ UNCHANGED toGw /\ gwc' = None
    BY <1>1, <1>4, <2>1 DEF Alone, Greeting, Waiting, GatewayWithout, WriteTo, Deliverable
  <2>3. Waiting(game)'
    BY <1>1, <2>1, <2>2 DEF Alone, Greeting, Waiting, AfterReads
  <2>4. CASE Alone(game)
    BY <1>1, <1>3, <2>3, <2>4 DEF Alone, Stage, gatewayVars
  <2>5. CASE Greeting(game)
    <3>1. mother \in Socks /\ mother # r /\ UNCHANGED mother
      BY <1>1, <2>5, KnownTypes DEF Greeting, LinkedTo, PeerUp, gatewayVars
    <3>2. LinkedTo(game)'
      BY <1>1, <1>3, <2>5, <3>1 DEF Greeting, LinkedTo, PeerUp, gatewayVars
    <3>3. FirstLine(mother)'
      BY <1>3, <2>5, <3>1 DEF Greeting, FirstLine
    <3> QED BY <1>1, <1>3, <2>2, <2>3, <2>5, <3>1, <3>2, <3>3
            DEF Greeting, Stage, gatewayVars
  <2> QED BY <2>1, <2>4, <2>5
<1> QED BY <1>1, <1>2, <1>5, <1>6, <1>7, GameKeeps

LEMMA OneAccept ==
  ASSUME Known, UNCHANGED gatewayVars, Accept
  PROVE  OneInv'
<1>1. /\ phase = "accept"
      /\ UNCHANGED <<proc, gwEnd, owner, toGame, toGw, game, gwc, inbuf>>
      /\ IF waiting \/ (gwc # None /\ ~stopping)
         THEN phase' = (IF waiting THEN "pulse" ELSE "work") /\ UNCHANGED waiting
         ELSE IF stopping THEN phase' = "lastPulse" /\ UNCHANGED waiting
         ELSE phase' = "accept" /\ waiting' = TRUE
  BY DEF Accept
<1>2. game # None
  BY <1>1 DEF Known, TypeInv
<1>3. \A s \in Socks : /\ gameEnd'[s] = gameEnd[s] \/ (gameEnd[s] = "backlog" /\ gameEnd'[s] = "open")
                       /\ gameEnd'[s] # "gone" => gameEnd[s] # "gone"
  <2> DEFINE queue == {s \in Socks : owner[s] = game /\ gameEnd[s] = "backlog"}
  <2>1. CASE queue = {}
    BY <2>1 DEF Accept
  <2>2. CASE queue # {}
    <3>1. PICK s \in queue : gameEnd' = [gameEnd EXCEPT ![s] = "open"]
      BY <2>2 DEF Accept
    <3> QED BY <3>1, KnownTypes
  <2> QED BY <2>1, <2>2
<1>4. ASSUME pc # "dead", ~waiting PROVE Stage(game)'
  <2>1. Admitted(game) /\ gwc = mother /\ gwc \in Socks /\ PeerUp(gwc)
    BY <1>2, <1>4, GameStage, KnownTypes DEF Admitted, LinkedTo
  <2>2. PeerUp(gwc)' /\ phase' # "scan" /\ UNCHANGED waiting
    BY <1>1, <1>3, <1>4, <2>1, KnownTypes DEF PeerUp
  <2>3. SaysAtMost(Message("Line"))
    BY <1>1 DEF SaysAtMost, Message
  <2> QED BY <1>1, <1>2, <1>4, <2>1, <2>2, <2>3, AdmittedKeeps
<1>5. ASSUME pc # "dead", waiting PROVE Stage(game)'
  <2>1. Alone(game) \/ Greeting(game)
    BY <1>2, <1>5, GameStage DEF Admitted, AtWork
  <2>2. Waiting(game)'
    BY <1>1, <1>5, <2>1 DEF Alone, Greeting, Waiting
  <2>3. CASE Alone(game)
    BY <1>1, <1>3, <2>2, <2>3 DEF Alone, Stage, gatewayVars
  <2>4. CASE Greeting(game)
    <3>1. mother \in Socks /\ UNCHANGED mother
      BY <2>4, KnownTypes DEF Greeting, LinkedTo, gatewayVars
    <3>2. LinkedTo(game)' /\ FirstLine(mother)'
      BY <1>1, <1>3, <2>4, <3>1 DEF Greeting, LinkedTo, PeerUp, FirstLine, gatewayVars
    <3> QED BY <1>1, <1>3, <2>2, <2>4, <3>1, <3>2 DEF Greeting, Stage, gatewayVars
  <2> QED BY <2>1, <2>3, <2>4
<1> QED BY <1>1, <1>2, <1>4, <1>5, GameKeeps

\* The only connection that authenticates is the mother connection, and the
\* process id is the first that is written on it.
LEMMA OneScan ==
  ASSUME Known, UNCHANGED gatewayVars, Scan
  PROVE  OneInv'
<1> DEFINE open == {s \in Socks : owner[s] = game /\ gameEnd[s] = "open"}
           talking == {s \in open : inbuf[s] # <<>>}
           valid == {s \in talking : Head(inbuf[s]).type = "Validate"}
           id == [type |-> "ProcessID", pid |-> game]
           done == IF booted THEN <<Message("FinishedBooting")>> ELSE <<>>
<1>1. phase = "scan" /\ UNCHANGED <<proc, gwEnd, owner, toGame, game>>
  BY DEF Scan
<1>2. game # None
  BY <1>1 DEF Known, TypeInv
<1>3. CASE valid = {}
  <2>1. /\ gameEnd' = [s \in Socks |-> IF s \in talking THEN "shut" ELSE gameEnd[s]]
        /\ inbuf' = [s \in Socks |-> IF s \in talking THEN Tail(inbuf[s]) ELSE inbuf[s]]
        /\ phase' = "accept" /\ UNCHANGED <<toGw, gwc, waiting>>
    BY <1>3 DEF Scan
  <2>2. ASSUME pc # "dead" PROVE Stage(game)'
    <3>1. Alone(game) \/ Greeting(game)
      BY <1>1, <1>2, <2>2, GameStage DEF Admitted, AtWork
    <3>2. talking = {}
      BY <1>3, <3>1 DEF Alone, Greeting, FirstLine
    <3>3. UNCHANGED <<gameEnd, inbuf>>
      BY <2>1, <3>2, KnownTypes
    <3> HIDE DEF talking, valid, open
    <3>4. Waiting(game)'
      BY <1>1, <2>1, <3>1 DEF Alone, Greeting, Waiting
    <3>5. CASE Alone(game)
      BY <1>1, <3>3, <3>4, <3>5 DEF Alone, Stage, gatewayVars
    <3>6. CASE Greeting(game)
      <4>1. LinkedTo(game)' /\ FirstLine(mother)'
        BY <1>1, <3>3, <3>6 DEF Greeting, LinkedTo, PeerUp, FirstLine, gatewayVars
      <4> QED BY <1>1, <2>1, <3>3, <3>4, <3>6, <4>1 DEF Greeting, Stage, gatewayVars
    <3> QED BY <3>1, <3>5, <3>6
  <2> QED BY <1>1, <1>2, <2>1, <2>2, GameKeeps
<1>4. CASE valid # {}
  <2>1. PICK s \in valid :
          /\ gameEnd' = [r \in Socks |-> IF r \in open \ {s} THEN "shut" ELSE gameEnd[r]]
          /\ gwc' = s /\ waiting' = FALSE
          /\ phase' = IF booted THEN "work" ELSE "boot"
          /\ toGw' = IF ~Deliverable(s) THEN toGw
                     ELSE [toGw EXCEPT ![s] = @ \o <<id>> \o done]
    BY <1>4 DEF Scan
  <2>2. \A r \in Socks : toGw'[r] # toGw[r] => gwEnd[r]
    BY <2>1, KnownTypes DEF Deliverable
  <2>3. ASSUME pc # "dead" PROVE Stage(game)'
    <3>1. Greeting(game) /\ s = mother /\ gameEnd[s] = "open" /\ s \in Socks
      BY <1>1, <1>2, <2>3, GameStage DEF Admitted, AtWork, Alone, Greeting
    <3>2. Deliverable(s) /\ toGw[s] = <<>> /\ s # None
      BY <3>1, KnownTypes DEF Greeting, LinkedTo, Deliverable
    <3>3. toGw'[s] = toGw[s] \o <<id>> \o done
      BY <2>1, <3>1, <3>2, KnownTypes
    <3>4. /\ id \in Messages /\ <<id>> \in Seq(Messages) /\ done \in Seq(Messages)
          /\ OnlyPid(<<id>>, game) /\ OnlyPid(done, game)
      BY <1>2, MessageTypes, KnownTypes DEF OnlyPid, Message
    <3>5. OnlyPid(toGw'[s], game) /\ toGw'[s] # <<>> /\ Head(toGw'[s]).type = "ProcessID"
      <4> DEFINE q == <<id>>
      <4>1. q \in Seq(Messages) /\ q # <<>> /\ OnlyPid(q, game) /\ Head(q).type = "ProcessID"
        BY <3>4
      <4>2. done \in Seq(Messages) /\ OnlyPid(done, game) /\ toGw'[s] = <<>> \o q \o done
        BY <3>2, <3>3, <3>4
      <4> HIDE DEF q, done, id, valid, talking, open
      <4>3. <<>> \o q = q
        BY <4>1, ConcatEmptySeq
      <4> QED BY <4>1, <4>2, <4>3, HeadConcat, PidConcat
    <3>6. gameEnd'[s] = "open"
      BY <2>1, <3>1
    <3> HIDE DEF id, done, valid, talking, open
    <3>7. LinkedTo(game)'
      BY <1>1, <3>1, <3>6 DEF Greeting, LinkedTo, PeerUp, gatewayVars
    <3>8. (toGw[mother])' = toGw'[s] /\ status' = "booting"
      BY <3>1 DEF Greeting, gatewayVars
    <3>9. OnlyPid(toGw[mother], game)' /\ PidKnown(game)'
      BY <1>1, <3>5, <3>8 DEF OnlyPid, PidKnown
    <3>10. proc'[game'] = "listening" /\ gwc' = mother' /\ ~waiting' /\ phase' # "scan"
      BY <1>1, <2>1, <3>1 DEF Greeting, Waiting, gatewayVars
    <3> QED BY <3>7, <3>9, <3>10 DEF Admitted, Stage
  <2> QED BY <1>1, <1>2, <2>2, <2>3, GameKeeps
<1> QED BY <1>3, <1>4

LEMMA OneBind ==
  ASSUME Known, UNCHANGED gatewayVars, NEW p \in Pids, Bind(p)
  PROVE  OneInv'
<1>1. proc[p] = "forked" /\ p \in AtWork /\ \A q \in AtWork : q = p
  BY DEF Bind, AtWork, Known, OneInv
<1>2. Listening = {}
  BY <1>1 DEF Listening, AtWork
<1>3. /\ proc' = [proc EXCEPT ![p] = "listening"] /\ phase' = "accept" /\ waiting' = TRUE
      /\ UNCHANGED <<gwc, gwEnd, gameEnd, owner, toGw>>
  BY <1>2 DEF Bind
<1>4. AtWork' = AtWork /\ proc'[p] = "listening"
  BY <1>1, <1>3, KnownTypes DEF AtWork
<1>5. gwc = None
  <2>1. game = None
    BY <1>2, KnownTypes DEF Listening
  <2> QED BY <2>1, NoGameNoPointers DEF Known
<1>6. \A s \in Socks : gameEnd[s] # "gone" => owner[s] # p
  BY <1>1 DEF Known, PortInv
<1>7. pc # "dead" => Alone(p)'
  <2>1. pc # "dead" => Starting(p)
    BY <1>1 DEF Known, OneInv, Staged, Stage, Alone, Waiting, Greeting, Admitted
  <2> QED BY <1>3, <1>4, <1>5, <1>6, <2>1 DEF Starting, Alone, Waiting, gatewayVars
<1> QED BY <1>1, <1>3, <1>4, <1>7
        DEF Known, OneInv, NothingUnread, Staged, Stage, gatewayVars

\* With the process at work gone, none is.
LEMMA NoneLeft ==
  ASSUME Known, UNCHANGED <<gatewayVars, gwEnd, toGw>>, AtWork' = {}
  PROVE  OneInv'
  BY DEF Known, OneInv, NothingUnread, Staged, gatewayVars

\* A process that is not at work, and has no end of a connection, ends.
LEMMA OneEnd ==
  ASSUME Known, UNCHANGED gatewayVars, NEW p \in Pids,
         CloseSockets(p) \/ Exit(p) \/ Crash(p)
  PROVE  OneInv'
<1>1. /\ UNCHANGED <<gwEnd, owner, toGw>>
      /\ \E st \in {"exiting", "none"} : proc' = [proc EXCEPT ![p] = st]
  BY DEF CloseSockets, Exit, Crash
<1>2. AtWork' = AtWork \ {p}
  BY <1>1, KnownTypes DEF AtWork
<1>3. CASE p \in AtWork
  <2>1. AtWork' = {}
    BY <1>2, <1>3 DEF Known, OneInv
  <2> QED BY <1>1, <2>1, NoneLeft
<1>4. CASE p \notin AtWork
  <2>1. AtWork' = AtWork /\ p # game /\ proc[p] # "closing"
    BY <1>2, <1>4, KnownTypes DEF AtWork
  <2>2. UNCHANGED gameVars /\ (UNCHANGED <<gameEnd, toGame>> \/ GameVanishes(OwnedBy(p)))
    BY <2>1 DEF CloseSockets, Exit, Crash
  <2>3. OwnedBy(p) = {}
    BY <1>4, <2>1 DEF Known, PortInv, OwnedBy, AtWork
  <2>4. UNCHANGED <<gameEnd, toGame>>
    BY <2>2, <2>3, KnownTypes DEF GameVanishes
  <2>5. \A q \in AtWork : proc'[q] = proc[q]
    BY <1>1, <1>4, KnownTypes DEF AtWork
  <2>6. ASSUME NEW q \in AtWork, Stage(q) PROVE Stage(q)'
    BY <1>1, <2>2, <2>4, <2>5, <2>6
       DEF Stage, Starting, Alone, Waiting, Greeting, Admitted, LinkedTo, PeerUp, FirstLine,
           OnlyPid, PidKnown, gatewayVars, gameVars
  <2> QED BY <1>1, <2>1, <2>6 DEF Known, OneInv, NothingUnread, Staged, gatewayVars
<1> QED BY <1>3, <1>4

\* The mother connection was accepted, and stands until the world is saved.
LEMMA OneCloseListener ==
  ASSUME Known, UNCHANGED gatewayVars, CloseListener
  PROVE  OneInv'
<1>1. /\ phase = "saving" /\ proc' = [proc EXCEPT ![game] = "closing"]
      /\ UNCHANGED <<gwEnd, owner, toGw>> /\ game' = None
      /\ \A s \in Socks : gameEnd[s] # "backlog" => gameEnd'[s] = gameEnd[s]
  BY KnownTypes DEF CloseListener, GameVanishes, OwnedBy, Blank
<1>2. game \in Pids /\ game # None
  BY <1>1, KnownTypes
<1>3. AtWork' = AtWork /\ game \in AtWork /\ proc'[game] = "closing"
  BY <1>1, <1>2, KnownTypes DEF AtWork
<1>4. ASSUME pc # "dead", NEW p \in AtWork PROVE Stage(p)'
  <2>1. Admitted(p) /\ gwc = mother /\ mother \in Socks /\ p = game
    BY <1>1, <1>2, <1>4, GameStage, KnownTypes DEF Alone, Greeting, Waiting, Admitted, LinkedTo
  <2>2. gameEnd[mother] # "backlog"
    BY <2>1 DEF Known, PortInv, PointersAlive
  <2>3. LinkedTo(p) /\ OnlyPid(toGw[mother], p) /\ PidKnown(p) /\ proc'[p] = "closing"
    BY <1>3, <2>1 DEF Admitted
  <2> QED BY <1>1, <2>1, <2>2, <2>3
          DEF Stage, Admitted, LinkedTo, PeerUp, OnlyPid, PidKnown, gatewayVars
<1> QED BY <1>1, <1>3, <1>4 DEF Known, OneInv, NothingUnread, Staged, gatewayVars

LEMMA OneElsewhere ==
  ASSUME Known, UNCHANGED <<gatewayVars, netVars, game, phase, waiting, gwc, inbuf>>
  PROVE  OneInv'
  BY DEF Known, OneInv, NothingUnread, Staged, AtWork, Stage, Starting, Alone, Waiting,
         Greeting, Admitted, LinkedTo, PeerUp, FirstLine, OnlyPid, PidKnown,
         gatewayVars, netVars

LEMMA OneGameStep ==
  ASSUME Known, UNCHANGED gatewayVars, GameLoop \/ ProcessStep \/ Quit
  PROVE  OneInv'
<1>1. CASE GameLoop
  BY <1>1, TokenType, OneWork, OnePulse, OneReap, OneAccept, OneScan, OneCloseListener
     DEF GameLoop
<1>2. CASE ProcessStep
  BY <1>2, OneBind, OneEnd DEF ProcessStep
<1>3. CASE Quit
  BY <1>3, OneWork DEF Quit
<1> QED BY <1>1, <1>2, <1>3

LEMMA OneFault ==
  ASSUME Known, Fault
  PROVE  OneInv'
<1>1. budget["start"] = 0 /\ budget["restart"] = 0 /\ budget["break"] = 0
  BY DEF Known, InOrder
<1>2. CASE UNCHANGED gatewayVars /\ \E p \in Pids : Crash(p)
  BY <1>2, OneEnd
<1>3. CASE UNCHANGED gatewayVars /\ \/ \E t \in {"Shutdown", "Restart"} : SetOnReboot(t)
                                    \/ \E s \in Socks : Kick(s)
  BY <1>3, OneWork
<1>4. CASE UNCHANGED gatewayVars /\ (Stop \/ Expire)
  BY <1>4, OneElsewhere DEF Stop, Expire
<1>5. CASE UNCHANGED gameVars /\ \E c \in Clients : Forward(c)
  BY <1>5, OneAside
<1> QED BY <1>1, <1>2, <1>3, <1>4, <1>5 DEF Fault, Spend

\* A minute passes when no process is on its way to the port.
LEMMA OneWait ==
  ASSUME Known, Wait60
  PROVE  OneInv'
<1>1. /\ pc = "net" /\ \A p \in Pids : proc[p] # "forked"
      /\ UNCHANGED <<gameVars, netVars, pc, status, mudPid, mother>>
  BY DEF Wait60, Cooldown
<1>2. Staged
  BY <1>1 DEF Known, OneInv
<1>3. ASSUME NEW p \in AtWork PROVE Stage(p)'
  BY <1>1, <1>2, <1>3
     DEF Staged, AtWork, Stage, Starting, Alone, Waiting, Greeting, Admitted, LinkedTo,
         PeerUp, FirstLine, OnlyPid, PidKnown, gameVars, netVars
<1>4. AtWork' = AtWork
  BY <1>1 DEF AtWork, netVars
<1> QED BY <1>1, <1>2, <1>3, <1>4 DEF Known, OneInv, NothingUnread, Staged, netVars

LEMMA OrderStep == InOrder /\ TypeInv /\ [Next]_vars => InOrder'
<1> SUFFICES ASSUME InOrder, TypeInv, [Next]_vars PROVE InOrder'
  OBVIOUS
<1>1. budget \in [Events -> Nat]
  BY DEF TypeInv, TypeOK
<1>2. CASE Fault
  <2>1. PICK e \in Events : Spend(e)
    BY <1>2 DEF Fault, Events
  <2> QED BY <1>1, <2>1 DEF Spend, InOrder
<1>3. CASE UNCHANGED budget
  BY <1>3 DEF InOrder
<1> QED BY <1>2, <1>3 DEF Next, GatewayStep, GameStep, Wait60, Over, vars

LEMMA OneStep == Known /\ [Next]_vars => OneInv'
<1> SUFFICES ASSUME Known, [Next]_vars PROVE OneInv'
  OBVIOUS
<1>1. CASE GatewayStep
  BY <1>1, OneGateway DEF GatewayStep
<1>2. CASE GameStep
  BY <1>2, OneGameStep DEF GameStep
<1>3. CASE UNCHANGED vars
  BY <1>3, OneElsewhere DEF vars, gameVars
<1> QED BY <1>1, <1>2, <1>3, OneFault, OneWait DEF Next, Over

LEMMA KnownInit == Orderly /\ Init => Known
<1> SUFFICES ASSUME Orderly, Init PROVE Known
  OBVIOUS
<1>1. TypeInv /\ PortInv
  BY TypeInit, PortInit
<1>2. WiredInv
  BY DEF Init, GatewayInit, Fresh, WiredInv, ConnectedOnly, OwnServerConnection, Wired
<1>3. InOrder
  BY DEF Init, Orderly, InOrder
<1>4. AtWork = {}
  BY DEF AtWork, Init, NetInit
<1>5. OneInv
  BY <1>4 DEF OneInv, Staged, NothingUnread, Init, NetInit, GatewayInit
<1> QED BY <1>1, <1>2, <1>3, <1>5 DEF Known

LEMMA KnownStep == Known /\ [Next]_vars => Known'
  BY TypeStep, PortStep, WiredStep, OrderStep, OneStep DEF Known, TypeInv

\* Nobody but the gateway starts a game, and it never starts one before the
\* last is past all that it saves: not after a reboot, when the port is closed
\* long before the process is gone, and not after a crash.
THEOREM OneGameAtATime == Orderly /\ Spec => []OneGame
<1>1. Known => OneGame
  <2> SUFFICES ASSUME Known PROVE OneGame
    OBVIOUS
  <2>1. CASE AtWork = {}
    BY <2>1, FS_EmptySet DEF OneGame
  <2>2. CASE AtWork # {}
    <3>1. PICK p \in AtWork : AtWork = {p}
      BY <2>2 DEF Known, OneInv
    <3> QED BY <3>1, FS_Singleton DEF OneGame
  <2> QED BY <2>1, <2>2
<1> QED BY <1>1, KnownInit, KnownStep, PTL DEF Spec

\* When the gateway stops with its game, the game has saved.
THEOREM GatewayIsLast == Orderly /\ Spec => []GatewayStopsLast
<1>1. Known => GatewayStopsLast
  BY DEF Known, OneInv, GatewayStopsLast
<1> QED BY <1>1, KnownInit, KnownStep, PTL DEF Spec
===============================================================================

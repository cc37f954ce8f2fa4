----------------------------- MODULE SessionProofs -----------------------------
(***************************************************************************)
(* Proofs about GatewaySystem: a player in the game is wired to the client *)
(* whose session it is, whatever fails; the gateway outlives every Close   *)
(* line; and who asks for a session has a request under way.               *)
(***************************************************************************)
EXTENDS GatewayProofs

\* The lines of a queue, and what the operations on queues make of them.
Lines(q) == {q[i] : i \in DOMAIN q}

LEMMA LineFacts ==
  ASSUME NEW q \in Seq(Messages)
  PROVE  /\ Lines(q) \subseteq Messages /\ Lines(<<>>) = {}
         /\ q # <<>> => Head(q) \in Lines(q) /\ Lines(Tail(q)) \subseteq Lines(q)
<1>1. Lines(q) \subseteq Messages
  BY DEF Lines
<1>2. Lines(<<>>) = {}
  BY DEF Lines
<1>3. ASSUME q # <<>> PROVE Head(q) \in Lines(q) /\ Lines(Tail(q)) \subseteq Lines(q)
  <2>1. Head(q) = q[1] /\ 1 \in DOMAIN q
    BY <1>3, HeadTailProperties
  <2>2. \A i \in DOMAIN Tail(q) : i + 1 \in DOMAIN q /\ Tail(q)[i] = q[i + 1]
    BY <1>3, HeadTailProperties
  <2> QED BY <2>1, <2>2 DEF Lines
<1> QED BY <1>1, <1>2, <1>3

LEMMA LinesAppend ==
  ASSUME NEW q \in Seq(Messages), NEW m
  PROVE  Lines(Append(q, m)) = Lines(q) \union {m}
<1>1. /\ DOMAIN q = 1..Len(q) /\ Len(q) \in Nat
      /\ DOMAIN Append(q, m) = 1..(Len(q) + 1)
      /\ \A i \in 1..(Len(q) + 1) : Append(q, m)[i] = IF i = Len(q) + 1 THEN m ELSE q[i]
  <2>1. DOMAIN q = 1..Len(q) /\ Len(q) \in Nat
    OBVIOUS
  <2>2. DOMAIN Append(q, m) = 1..(Len(q) + 1)
    OBVIOUS
  <2>3. ASSUME NEW i \in 1..(Len(q) + 1)
        PROVE  Append(q, m)[i] = IF i = Len(q) + 1 THEN m ELSE q[i]
    OBVIOUS
  <2> QED BY ONLY <2>1, <2>2, <2>3
<1>2. PICK d, e, n : d = q /\ e = Append(q, m) /\ n = Len(q) /\ n \in Nat
  BY <1>1
<1>3. {e[i] : i \in 1..(n + 1)} = {d[i] : i \in 1..n} \union {m}
  <2>1. \A i \in 1..n : i \in 1..(n + 1) /\ e[i] = d[i]
    BY <1>1, <1>2
  <2>2. n + 1 \in 1..(n + 1) /\ e[n + 1] = m
    BY <1>1, <1>2
  <2>3. \A i \in 1..(n + 1) : i = n + 1 \/ i \in 1..n
    BY ONLY <1>2
  <2> QED BY ONLY <2>1, <2>2, <2>3
<1> QED BY <1>1, <1>2, <1>3 DEF Lines

LEMMA LinesOne == \A m : Lines(<<m>>) = {m}
  BY DEF Lines

LEMMA LinesConcat ==
  ASSUME NEW q \in Seq(Messages), NEW r \in Seq(Messages)
  PROVE  Lines(q \o r) = Lines(q) \union Lines(r)
<1>1. /\ q \o r \in Seq(Messages) /\ DOMAIN (q \o r) = 1 .. Len(q) + Len(r)
      /\ \A i \in 1 .. Len(q) + Len(r) : (q \o r)[i] = IF i <= Len(q) THEN q[i] ELSE r[i - Len(q)]
  BY ConcatProperties, LenProperties
<1>2. Len(q) \in Nat /\ Len(r) \in Nat /\ DOMAIN q = 1 .. Len(q) /\ DOMAIN r = 1 .. Len(r)
  BY LenProperties
<1>3. ASSUME NEW i \in DOMAIN (q \o r) PROVE (q \o r)[i] \in Lines(q) \union Lines(r)
  <2>1. CASE i <= Len(q)
    <3>1. i \in DOMAIN q /\ (q \o r)[i] = q[i]
      BY <1>1, <1>2, <2>1
    <3> QED BY <3>1 DEF Lines
  <2>2. CASE ~(i <= Len(q))
    <3>1. i - Len(q) \in DOMAIN r /\ (q \o r)[i] = r[i - Len(q)]
      BY <1>1, <1>2, <2>2
    <3> QED BY <3>1 DEF Lines
  <2> QED BY <2>1, <2>2
<1>4. ASSUME NEW i \in DOMAIN q PROVE q[i] \in Lines(q \o r)
  <2>1. i \in DOMAIN (q \o r) /\ (q \o r)[i] = q[i]
    BY <1>1, <1>2
  <2> QED BY <2>1 DEF Lines
<1>5. ASSUME NEW i \in DOMAIN r PROVE r[i] \in Lines(q \o r)
  <2>1. i + Len(q) \in DOMAIN (q \o r) /\ (q \o r)[i + Len(q)] = r[i]
    BY <1>1, <1>2
  <2> QED BY <2>1 DEF Lines
<1> QED BY <1>3, <1>4, <1>5 DEF Lines

-------------------------------------------------------------------------------

\* The key k is on its way to the game as a session over the connection s.
Asks(s, k) == \E m \in Lines(toGame[s]) \union Lines(inbuf[s]) : m.type = "Session" /\ m.key = k

\* As long as the gateway keeps the connection, the key is the one its client
\* has ...
AskedByOwner ==
  \A s \in Socks, k \in Keys : gwEnd[s] /\ Asks(s, k) =>
    \E c \in Clients : desc[c].srv = s /\ desc[c].session = k

\* ... and so is the session of the player whom the game admitted there, who
\* is that client's.
AdmittedOwner ==
  \A s \in Socks : gwEnd[s] /\ gdesc[s].state = "in" =>
    \E c \in Clients :
      /\ desc[c].srv = s /\ desc[c].session = gdesc[s].session
      /\ gdesc[s].host = c

\* A key that is pending belongs to one client: to the one that has it ...
PendingOwner == \A e \in pending, c \in Clients : desc[c].session = e.key => e.host = c

\* ... and to the one to whom it is sent.
AnswerOwner ==
  \A s \in Socks : \A m \in Lines(toGw[s]) : m.type = "SessionFor" =>
    \A e \in pending : e.key = m.key => e.host = m.client

SessInv ==
  /\ AskedByOwner /\ AdmittedOwner /\ PendingOwner /\ AnswerOwner
  /\ pc = "dead" => \A s \in Socks : ~gwEnd[s]

All == TypeInv /\ PortInv /\ WiredInv /\ SessInv

LEMMA AllTypes ==
  ASSUME All
  PROVE  /\ toGw \in [Socks -> Seq(Messages)] /\ toGame \in [Socks -> Seq(Messages)]
         /\ inbuf \in [Socks -> Seq(Messages)]
         /\ gwEnd \in [Socks -> BOOLEAN] /\ gameEnd \in [Socks -> GameEnds]
         /\ mother \in Socks \union {None} /\ gwc \in Socks \union {None}
         /\ None \notin Socks /\ None \notin Keys /\ None \notin Clients
         /\ desc \in [Clients -> Descriptors] /\ gdesc \in [Socks -> GdescType]
         /\ pending \subseteq [key : Keys, host : Clients, old : BOOLEAN]
         /\ NetTypeOK /\ GatewayTypeOK
  BY NetAssumption DEF All, TypeInv, TypeOK, NetTypeOK, GatewayTypeOK, GameTypeOK, GdescType

-------------------------------------------------------------------------------
(* The gateway's steps.                                                    *)

\* What a step of the gateway may do to sessions, but for opening one: keep
\* the connections it had, and on those the clients and their keys; and open
\* one over which no session is asked for.
Opened(s) ==
  /\ gameEnd[s] = "gone"
  /\ \A m \in Lines(toGame'[s]) : m.type # "Session"
Keeps ==
  /\ \A s \in Socks : gwEnd'[s] /\ ~gwEnd[s] => Opened(s)
  /\ \A s \in Socks : gwEnd'[s] /\ gwEnd[s] =>
       \A m \in Lines(toGame'[s]) : m.type = "Session" => m \in Lines(toGame[s])
  /\ \A c \in Clients : desc[c].srv \in Socks /\ gwEnd'[desc[c].srv] =>
       desc'[c].srv = desc[c].srv /\ desc'[c].session = desc[c].session
  /\ \A c \in Clients : desc'[c].session \in {None, desc[c].session}
  /\ \A s \in Socks : \A m \in Lines(toGw'[s]) : m \in Lines(toGw[s])
  /\ pc' = "dead" => \A s \in Socks : ~gwEnd'[s]

LEMMA KeepsSessions ==
  ASSUME All, UNCHANGED gameVars, Keeps
  PROVE  SessInv'
<1>1. AskedByOwner'
  <2> SUFFICES ASSUME NEW s \in Socks, NEW k \in Keys, gwEnd'[s], Asks(s, k)'
               PROVE  \E c \in Clients : desc'[c].srv = s /\ desc'[c].session = k
    BY DEF AskedByOwner
  <2>1. PICK m \in Lines(toGame'[s]) \union Lines(inbuf[s]) : m.type = "Session" /\ m.key = k
    BY DEF Asks, gameVars
  <2>2. gwEnd[s]
    <3> SUFFICES ASSUME ~gwEnd[s] PROVE FALSE
      OBVIOUS
    <3>1. Opened(s)
      BY DEF Keeps
    <3>2. inbuf[s] = <<>>
      BY <3>1 DEF Opened, All, PortInv, Buffers
    <3>3. Lines(inbuf[s]) = {}
      BY <3>2 DEF Lines
    <3> QED BY <2>1, <3>1, <3>3 DEF Opened
  <2>3. Asks(s, k)
    BY <2>1, <2>2 DEF Asks, Keeps
  <2>4. PICK c \in Clients : desc[c].srv = s /\ desc[c].session = k
    BY <2>2, <2>3 DEF All, SessInv, AskedByOwner
  <2> QED BY <2>4 DEF Keeps
<1>2. AdmittedOwner'
  <2> SUFFICES ASSUME NEW s \in Socks, gwEnd'[s], gdesc'[s].state = "in"
               PROVE  \E c \in Clients : /\ desc'[c].srv = s /\ desc'[c].session = gdesc'[s].session
                                         /\ gdesc'[s].host = c
    BY DEF AdmittedOwner
  <2>1. UNCHANGED gdesc
    BY DEF gameVars
  <2>2. gwEnd[s]
    BY <2>1 DEF Keeps, Opened, All, PortInv, PointersAlive
  <2>3. PICK c \in Clients : /\ desc[c].srv = s /\ desc[c].session = gdesc[s].session
                             /\ gdesc[s].host = c
    BY <2>1, <2>2 DEF All, SessInv, AdmittedOwner
  <2> QED BY <2>1, <2>3 DEF Keeps
<1>3. PendingOwner'
  <2>1. \A e \in pending : e.key # None
    BY AllTypes
  <2>2. PendingOwner
    BY DEF All, SessInv
  <2> QED BY <2>1, <2>2 DEF Keeps, gameVars, PendingOwner
<1>4. AnswerOwner'
  BY DEF Keeps, gameVars, All, SessInv, AnswerOwner
<1> QED BY <1>1, <1>2, <1>3, <1>4 DEF SessInv, Keeps

\* Clients are dropped, and their server connections are closed.
LEMMA DropKeepsSessions ==
  ASSUME All, NEW C, Drop(C), NEW A, GatewayCloses(A),
         \A c \in C \intersect Clients : desc[c].srv \in Socks => desc[c].srv \in A,
         UNCHANGED toGame, pc' # "dead"
  PROVE  Keeps
<1>1. \A s \in Socks : /\ gwEnd'[s] => gwEnd[s] /\ s \notin A
                       /\ Lines(toGw'[s]) \subseteq Lines(toGw[s])
  <2>1. Lines(<<>>) = {}
    BY DEF Lines
  <2> QED BY <2>1, AllTypes DEF GatewayCloses
<1>2. \A c \in Clients : desc'[c] = IF c \in C THEN Fresh("gone") ELSE desc[c]
  BY DEF Drop
<1>3. Fresh("gone").session = None
  BY DEF Fresh
<1> QED BY <1>1, <1>2, <1>3 DEF Keeps

\* Steps that change the status of clients at most, and close connections.
LEMMA StatusKeepsSessions ==
  ASSUME All, \A c \in Clients : desc'[c].srv = desc[c].srv /\ desc'[c].session = desc[c].session,
         UNCHANGED <<gwEnd, toGw>> \/ (\E A : GatewayCloses(A)),
         \A s \in Socks : \A m \in Lines(toGame'[s]) : m.type = "Session" => m \in Lines(toGame[s]),
         pc' = "dead" => pc = "dead"
  PROVE  Keeps
<1>1. \A s \in Socks : /\ gwEnd'[s] => gwEnd[s]
                       /\ Lines(toGw'[s]) \subseteq Lines(toGw[s])
  <2>1. Lines(<<>>) = {}
    BY DEF Lines
  <2> QED BY <2>1, AllTypes DEF GatewayCloses
<1> QED BY <1>1 DEF Keeps, All, SessInv

\* The steps that only drop clients, close connections or ask for sessions.
LEMMA AsideKeepsSessions ==
  ASSUME All,
         \/ NetDone \/ InputDone \/ ClientsDone \/ ClientStep \/ Cooldown \/ LinkBreaks
         \/ GatewayRestarts \/ (\E p \in Pids : StartByHand(p))
         \/ \E c \in Clients : RequestSession(c) \/ ServerLost(c) \/ Forward(c)
  PROVE  Keeps
<1>a. \A c \in Clients : desc[c].srv \in Socks \union {None}
  BY AllTypes DEF Descriptors
<1>b. Fresh("new").srv = None /\ Fresh("gone").srv = None /\ Fresh("new").session = None
  BY DEF Fresh
<1>c. /\ desc \in [Clients -> Descriptors] /\ None \notin Socks
  BY AllTypes
<1>d. pc # "dead" => Wired /\ ConnectedOnly
  BY DEF All, WiredInv, OwnServerConnection
<1>1. CASE NetDone
  <2> DEFINE closed == {c \in Clients : Present(c) /\ ~desc[c].open}
  <2>1. /\ GatewayCloses(ServerSocks(closed)) /\ Drop(closed)
        /\ UNCHANGED toGame /\ pc' # "dead"
    BY <1>1 DEF NetDone, Supervised
  <2>2. \A c \in closed : desc[c].srv \in Socks => desc[c].srv \in ServerSocks(closed)
    BY <1>c DEF ServerSocks
  <2> HIDE DEF closed
  <2> QED BY <2>1, <2>2, DropKeepsSessions
<1>2. CASE \E c \in Clients : ClientLeaves(c)
  <2> PICK c \in Clients : ClientLeaves(c)
    BY <1>2
  <2>1. GatewayCloses(ServerSocks({c})) /\ Drop({c}) /\ UNCHANGED toGame /\ pc' # "dead"
    BY DEF ClientLeaves
  <2>2. \A d \in {c} : desc[d].srv \in Socks => desc[d].srv \in ServerSocks({c})
    BY <1>c DEF ServerSocks
  <2> QED BY <2>1, <2>2, DropKeepsSessions
<1>3. CASE \E c \in Clients : ServerLost(c)
  <2> PICK c \in Clients : ServerLost(c)
    BY <1>3
  <2>1. GatewayCloses({desc[c].srv}) /\ Drop({c}) /\ UNCHANGED toGame /\ pc' # "dead"
    BY DEF ServerLost
  <2> QED BY <2>1, DropKeepsSessions
<1>4. CASE GatewayRestarts
  <2> DEFINE here == {c \in Clients : Present(c)}
             A == {s \in Socks : gwEnd[s]}
  <2>1. GatewayCloses(A) /\ Drop(here) /\ UNCHANGED toGame /\ pc' # "dead"
    BY <1>4 DEF GatewayRestarts
  <2>2. \A s \in Socks : ~gwEnd'[s] /\ Lines(toGw'[s]) \subseteq Lines(toGw[s])
    <3>1. Lines(<<>>) = {}
      BY DEF Lines
    <3> QED BY <2>1, <3>1, AllTypes DEF GatewayCloses
  <2>3. \A c \in Clients : desc'[c] = IF c \in here THEN Fresh("gone") ELSE desc[c]
    BY <2>1 DEF Drop
  <2>4. Fresh("gone").session = None
    BY DEF Fresh
  <2> HIDE DEF here
  <2> QED BY <2>2, <2>3, <2>4 DEF Keeps
<1>5. CASE \E c \in Clients : ClientArrives(c)
  <2> PICK c \in Clients : ClientArrives(c)
    BY <1>5
  <2> DEFINE new == [Fresh(FirstStatus(c)) EXCEPT !.open = TRUE]
  <2>1. /\ desc' = [desc EXCEPT ![c] = new] /\ desc[c].st = "new"
        /\ pc = "net" /\ UNCHANGED <<netVars, pc>>
    BY DEF ClientArrives
  <2>2. new.session = None /\ new.srv = None
    BY DEF Fresh
  <2>3. desc[c].srv = None
    BY <1>d, <2>1 DEF Wired
  <2> HIDE DEF new
  <2> QED BY <1>c, <2>1, <2>2, <2>3 DEF Keeps, netVars
<1>6. CASE \E c \in Clients : Handshake(c)
  <2> PICK c \in Clients : Handshake(c)
    BY <1>6
  <2>1. /\ pc' = "clients" /\ UNCHANGED netVars
        /\ \/ desc' = [desc EXCEPT ![c].st = "awaitingConnection", ![c].shaken = TRUE]
           \/ desc' = [desc EXCEPT ![c].st = "disconnected"]
    BY DEF Handshake
  <2>2. \A d \in Clients : desc'[d].srv = desc[d].srv /\ desc'[d].session = desc[d].session
    BY <1>c, <2>1 DEF Descriptors
  <2> QED BY <2>1, <2>2, StatusKeepsSessions DEF netVars
<1>7. CASE \E c \in Clients : RequestSession(c)
  <2> PICK c \in Clients : RequestSession(c)
    BY <1>7
  <2> DEFINE m == [type |-> "Host", client |-> c]
  <2>1. /\ pc' = "clients" /\ mother \in Socks
        /\ desc' = [desc EXCEPT ![c].st = "retrievingSession"]
        /\ UNCHANGED <<gwEnd, toGw>> \/ GatewayCloses({mother})
        /\ UNCHANGED toGame \/ toGame' = [toGame EXCEPT ![mother] = Append(@, m)]
    BY AllTypes DEF RequestSession, MayAsk
  <2>2. \A d \in Clients : desc'[d].srv = desc[d].srv /\ desc'[d].session = desc[d].session
    BY <1>c, <2>1 DEF Descriptors
  <2>3. ASSUME NEW s \in Socks, NEW l \in Lines(toGame'[s]), l.type = "Session"
        PROVE  l \in Lines(toGame[s])
    <3>1. toGame'[s] = toGame[s] \/ toGame'[s] = Append(toGame[s], m)
      BY <2>1, AllTypes
    <3>2. m.type = "Host"
      OBVIOUS
    <3> HIDE DEF m
    <3>3. toGame[s] \in Seq(Messages)
      BY AllTypes
    <3>4. Lines(Append(toGame[s], m)) = Lines(toGame[s]) \union {m}
      BY <3>3, LinesAppend
    <3> QED BY <2>3, <3>1, <3>2, <3>4
  <2> HIDE DEF m
  <2> QED BY <2>1, <2>2, <2>3, StatusKeepsSessions
<1>8. CASE \E c \in Clients : Forward(c)
  <2> PICK c \in Clients : Forward(c)
    BY <1>8
  <2>1. /\ toGame' = [toGame EXCEPT ![desc[c].srv] = <<Message("Line")>>]
        /\ UNCHANGED <<gwEnd, toGw, gatewayVars>>
    BY DEF Forward
  <2>2. ASSUME NEW s \in Socks, NEW l \in Lines(toGame'[s]), l.type = "Session"
        PROVE  l \in Lines(toGame[s])
    <3>1. toGame'[s] = toGame[s] \/ toGame'[s] = <<Message("Line")>>
      BY <2>1, AllTypes
    <3>2. Lines(<<Message("Line")>>) = {Message("Line")} /\ Message("Line").type = "Line"
      BY LinesOne DEF Message
    <3> QED BY <2>2, <3>1, <3>2
  <2> QED BY <2>1, <2>2, StatusKeepsSessions DEF gatewayVars
<1>9. CASE \/ InputDone \/ ClientsDone \/ Cooldown \/ LinkBreaks
           \/ \E p \in Pids : StartByHand(p)
  <2>1. /\ UNCHANGED <<desc, toGame>> /\ (pc' = "dead" => pc = "dead")
        /\ UNCHANGED <<gwEnd, toGw>> \/ GatewayCloses({mother})
    BY <1>9 DEF InputDone, ClientsDone, Cooldown, LinkBreaks, StartByHand, netVars, gatewayVars
  <2> QED BY <2>1, StatusKeepsSessions
<1> QED BY <1>1, <1>2, <1>3, <1>4, <1>5, <1>6, <1>7, <1>8, <1>9 DEF ClientStep

\* A crash taken for one drops every server connection; a game that is found
\* gets a mother connection, over which no session is asked for.
LEMMA LinkDownKeepsSessions ==
  ASSUME All, LinkDown
  PROVE  Keeps
<1> DEFINE crash == status \in {"running", "booting"}
           lost == IF crash THEN ServerSocks({c \in Clients : Present(c)}) ELSE {}
<1>a. /\ desc' = (IF crash THEN Shutdown(desc) ELSE desc)
      /\ pc = "link" /\ pc' # "dead"
  BY DEF LinkDown, Supervised
<1>b. Wired /\ desc \in [Clients -> Descriptors]
  BY <1>a, AllTypes DEF All, WiredInv, OwnServerConnection
<1>c. ASSUME NEW c \in Clients
      PROVE  /\ desc'[c].session = desc[c].session
             /\ desc[c].srv \in Socks /\ desc[c].srv \notin lost => desc'[c].srv = desc[c].srv
  <2>1. desc[c].st \in {"new", "gone"} \/ ~crash => desc'[c] = desc[c]
    BY <1>a DEF Shutdown
  <2>2. ASSUME desc[c].st \notin {"new", "gone"}, crash
        PROVE  /\ desc'[c].session = desc[c].session
               /\ desc[c].srv \in Socks => desc[c].srv \in lost
    <3>1. desc'[c] = [desc[c] EXCEPT !.st = "awaitingConnection", !.srv = None]
      BY <1>a, <2>2 DEF Shutdown
    <3>2. desc'[c].session = desc[c].session
      BY <1>b, <3>1 DEF Descriptors
    <3>3. desc[c].srv \in Socks => desc[c].srv \in lost
      BY <2>2, AllTypes DEF ServerSocks, Present
    <3> QED BY <3>2, <3>3
  <2> HIDE DEF crash, lost
  <2> QED BY <2>1, <2>2
<1>d. \A s \in Socks : toGw'[s] = <<>> \/ toGw'[s] = toGw[s]
  BY DEF LinkDown, GatewayCloses
<1>e. \A s \in Socks : Lines(toGw'[s]) \subseteq Lines(toGw[s])
  <2>1. Lines(<<>>) = {}
    BY DEF Lines
  <2> QED BY <1>d, <2>1
<1>1. CASE Listening = {}
  <2>1. GatewayCloses(lost) /\ UNCHANGED toGame
    BY <1>1 DEF LinkDown
  <2>2. \A s \in Socks : gwEnd'[s] => gwEnd[s] /\ s \notin lost
    BY <2>1 DEF GatewayCloses
  <2> HIDE DEF lost
  <2> QED BY <1>a, <1>c, <1>e, <2>1, <2>2 DEF Keeps
<1>2. CASE Listening # {}
  <2>1. PICK p \in Listening : Connect(FreeSock, p, Message("Validate"), lost)
    BY <1>2 DEF LinkDown
  <2>2. UsableSocks # {} /\ FreeSock \in Socks
    BY <1>2, SocketTypes DEF LinkDown
  <2>3. \A c \in Clients : desc[c].srv # FreeSock
    BY <2>2 DEF UsableSocks, FreeSock
  <2> DEFINE s0 == FreeSock
  <2>4. /\ s0 \in Socks /\ gameEnd[s0] = "gone" /\ ~gwEnd[s0]
        /\ \A s \in Socks : gwEnd'[s] => s = s0 \/ (gwEnd[s] /\ s \notin lost)
        /\ \A s \in Socks : toGame'[s] = IF s = s0 THEN <<Message("Validate")>> ELSE toGame[s]
    BY <2>1, <2>2, AllTypes DEF Connect, Unused
  <2>5. \A c \in Clients : desc[c].srv # s0
    BY <2>3
  <2>6. \A l \in Lines(<<Message("Validate")>>) : l.type # "Session"
    BY LinesOne DEF Message
  <2> HIDE DEF s0, lost
  <2> QED BY <1>a, <1>c, <1>e, <2>4, <2>5, <2>6 DEF Keeps, Opened
<1> QED BY <1>1, <1>2

LEMMA SuperviseKeepsSessions ==
  ASSUME All, Supervise
  PROVE  Keeps
<1> DEFINE over == Finished /\ shutdownOnReboot
           A == IF over THEN {s \in Socks : gwEnd[s]}
                ELSE IF Finished THEN {mother} \ {None} ELSE {}
           here == {c \in Clients : Present(c)}
<1>1. /\ GatewayCloses(A) /\ UNCHANGED toGame
      /\ IF over THEN Drop(here) ELSE UNCHANGED desc
      /\ pc = "supervise" /\ pc' # "dead"
  BY DEF Supervise
<1>2. CASE over
  <2>1. \A c \in here : desc[c].srv \in Socks => desc[c].srv \in A
    BY <1>1, <1>2, AllTypes DEF Wired, All, WiredInv, OwnServerConnection
  <2> HIDE DEF over, A, here
  <2> QED BY <1>1, <1>2, <2>1, DropKeepsSessions
<1>3. CASE ~over
  <2> HIDE DEF over, A, here
  <2> QED BY <1>1, <1>3, StatusKeepsSessions
<1> QED BY <1>2, <1>3

\* Any line from the game but the answer to a request for a session.
LEMMA LineKeepsSessions ==
  ASSUME All, Input, Head(toGw[mother]).type # "SessionFor"
  PROVE  Keeps
<1> DEFINE m == Head(toGw[mother])
<1>a. /\ pc = "input" /\ mother \in Socks /\ toGw[mother] # <<>>
      /\ desc \in [Clients -> Descriptors] /\ toGw[mother] \in Seq(Messages)
  BY AllTypes DEF Input, Reading, isConnectedToGameServer
<1>b. Wired
  BY <1>a DEF All, WiredInv, OwnServerConnection
<1>c. Lines(Tail(toGw[mother])) \subseteq Lines(toGw[mother]) /\ Lines(<<>>) = {}
  BY <1>a, LineFacts DEF Lines
<1>d. \A s \in Socks : toGw'[s] \in {<<>>, Tail(toGw[mother]), toGw[s]}
                       /\ (s # mother => toGw'[s] \in {<<>>, toGw[s]})
  BY DEF Input
<1>e. \A s \in Socks : Lines(toGw'[s]) \subseteq Lines(toGw[s])
  BY <1>c, <1>d
<1>f. UNCHANGED toGame
  BY DEF Input
<1>1. CASE m.type = "Close"
  <2>1. CloseSession(m.key)
    BY <1>1 DEF Input
  <2> HIDE DEF m
  <2>2. CASE Closing(m.key) = {}
    BY <1>a, <1>e, <1>f, <2>1, <2>2 DEF CloseSession, Keeps
  <2>3. CASE Closing(m.key) # {}
    <3>1. PICK c \in Closing(m.key) :
            /\ desc' = [desc EXCEPT ![c] = Fresh("gone")]
            /\ gwEnd' = [s \in Socks |-> gwEnd[s] /\ desc[c].srv \notin {s, None}]
            /\ pc' = IF desc[c].srv = None THEN "dead" ELSE pc
      BY <2>1, <2>3 DEF CloseSession
    <3>2. /\ \A d \in Clients : desc'[d] = IF d = c THEN Fresh("gone") ELSE desc[d]
          /\ \A s \in Socks : gwEnd'[s] => gwEnd[s] /\ desc[c].srv # s /\ desc[c].srv # None
          /\ Fresh("gone").session = None
      BY <1>a, <3>1 DEF Closing, Fresh
    <3> QED BY <1>a, <1>e, <1>f, <3>1, <3>2 DEF Keeps
  <2> QED BY <2>2, <2>3
<1>2. CASE m.type = "Reboot"
  <2>1. /\ desc' = Shutdown(desc) /\ pc' = pc
        /\ gwEnd' = [s \in Socks |-> gwEnd[s] /\ s \notin RebootCloses]
    BY <1>2 DEF Input
  <2>2. ASSUME NEW c \in Clients
        PROVE  /\ desc'[c].session = desc[c].session
               /\ desc[c].srv \in Socks => desc'[c].srv = desc[c].srv \/ desc[c].srv \in RebootCloses
    <3>1. desc[c].st \in {"new", "gone"} => desc'[c] = desc[c]
      BY <2>1 DEF Shutdown
    <3>2. ASSUME desc[c].st \notin {"new", "gone"}
          PROVE  /\ desc'[c].session = desc[c].session
                 /\ desc[c].srv \in Socks => desc[c].srv \in RebootCloses
      <4>1. desc'[c] = [desc[c] EXCEPT !.st = "awaitingConnection", !.srv = None]
        BY <2>1, <3>2 DEF Shutdown
      <4>2. desc'[c].session = desc[c].session
        BY <1>a, <4>1 DEF Descriptors
      <4> QED BY <3>2, <4>2, AllTypes DEF RebootCloses, ServerSocks, Present
    <3> QED BY <3>1, <3>2
  <2> QED BY <1>a, <1>e, <1>f, <2>1, <2>2 DEF Keeps
<1>3. CASE m.type \notin {"Close", "Reboot"}
  <2>1. UNCHANGED <<desc, gwEnd, pc>>
    BY <1>3 DEF Input
  <2> QED BY <1>a, <1>e, <1>f, <2>1 DEF Keeps
<1> QED BY <1>1, <1>2, <1>3

\* The answer to a client that has not left: it gets the key, and a
\* connection of its own over which the game is asked for the session.
LEMMA AnswerOpens ==
  ASSUME All, UNCHANGED gameVars, pc # "dead", pc' # "dead",
         NEW c \in Clients, NEW k \in Keys, NEW p \in Listening,
         NEW s0 \in Socks, \A d \in Clients : desc[d].srv # s0,
         Connect(s0, p, [type |-> "Session", key |-> k], {desc[c].srv}),
         \A d \in Clients : d # c => desc'[d] = desc[d],
         desc'[c].srv = s0, desc'[c].session = k,
         \A s \in Socks : Lines(toGw'[s]) \subseteq Lines(toGw[s]),
         \A e \in pending : e.key = k => e.host = c
  PROVE  SessInv'
<1> DEFINE l == [type |-> "Session", key |-> k]
<1>a. /\ \A d \in Clients : d # c => desc'[d] = desc[d]
      /\ desc'[c].srv = s0 /\ desc'[c].session = k
  OBVIOUS
<1>b. /\ gameEnd[s0] = "gone" /\ toGame'[s0] = <<l>>
      /\ \A s \in Socks : gwEnd'[s] /\ s # s0 => gwEnd[s] /\ s # desc[c].srv /\ toGame'[s] = toGame[s]
  BY AllTypes DEF Connect, Unused
<1>c. inbuf[s0] = <<>> /\ gdesc[s0].state = "none"
  BY <1>b DEF All, PortInv, PointersAlive, Buffers
<1>d. UNCHANGED <<inbuf, pending, gdesc>>
  BY DEF gameVars
<1>e. AskedByOwner /\ AdmittedOwner /\ PendingOwner /\ AnswerOwner
  BY DEF All, SessInv
<1>1. AskedByOwner'
  <2> SUFFICES ASSUME NEW s \in Socks, NEW j \in Keys, gwEnd'[s], Asks(s, j)'
               PROVE  \E d \in Clients : desc'[d].srv = s /\ desc'[d].session = j
    BY DEF AskedByOwner
  <2>1. CASE s = s0
    <3>1. Lines(toGame'[s0]) = {l} /\ Lines(inbuf'[s0]) = {}
      <4>1. Lines(<<l>>) = {l}
        BY LinesOne
      <4>2. Lines(<<>>) = {}
        BY DEF Lines
      <4> QED BY <1>b, <1>c, <1>d, <4>1, <4>2
    <3>2. j = k
      BY <2>1, <3>1 DEF Asks
    <3> QED BY <1>a, <2>1, <3>2
  <2>2. CASE s # s0
    <3>1. gwEnd[s] /\ s # desc[c].srv /\ Asks(s, j)
      BY <1>b, <1>d, <2>2 DEF Asks
    <3>2. PICK d \in Clients : desc[d].srv = s /\ desc[d].session = j
      BY <1>e, <3>1 DEF AskedByOwner
    <3>3. d # c
      BY <3>1, <3>2
    <3> QED BY <1>a, <3>2, <3>3
  <2> QED BY <2>1, <2>2
<1>2. AdmittedOwner'
  <2> SUFFICES ASSUME NEW s \in Socks, gwEnd'[s], gdesc'[s].state = "in"
               PROVE  \E d \in Clients : /\ desc'[d].srv = s /\ desc'[d].session = gdesc'[s].session
                                         /\ gdesc'[s].host = d
    BY DEF AdmittedOwner
  <2>1. s # s0 /\ gwEnd[s] /\ s # desc[c].srv
    BY <1>b, <1>c, <1>d
  <2>2. PICK d \in Clients : /\ desc[d].srv = s /\ desc[d].session = gdesc[s].session
                             /\ gdesc[s].host = d
    BY <1>d, <1>e, <2>1 DEF AdmittedOwner
  <2>3. d # c
    BY <2>1, <2>2
  <2> QED BY <1>a, <1>d, <2>2, <2>3
<1>3. PendingOwner'
  <2> SUFFICES ASSUME NEW e \in pending, NEW d \in Clients, desc'[d].session = e.key
               PROVE  e.host = d
    BY <1>d DEF PendingOwner
  <2>1. CASE d = c
    BY <1>a, <2>1
  <2>2. CASE d # c
    BY <1>a, <1>e, <2>2 DEF PendingOwner
  <2> QED BY <2>1, <2>2
<1>4. AnswerOwner'
  BY <1>d, <1>e DEF AnswerOwner
<1> QED BY <1>1, <1>2, <1>3, <1>4 DEF SessInv

LEMMA AnswerKeepsSessions ==
  ASSUME All, UNCHANGED gameVars, Input, Head(toGw[mother]).type = "SessionFor"
  PROVE  SessInv'
<1> DEFINE m == Head(toGw[mother])
<1>a. /\ pc = "input" /\ mother \in Socks /\ toGw[mother] # <<>>
      /\ desc \in [Clients -> Descriptors] /\ toGw[mother] \in Seq(Messages)
  BY AllTypes DEF Input, Reading, isConnectedToGameServer
<1>b. m \in Lines(toGw[mother]) /\ m \in Messages
  BY <1>a, LineFacts
<1>c. m.client \in Clients /\ m.key \in Keys
  BY <1>b DEF Messages
<1>d. Lines(Tail(toGw[mother])) \subseteq Lines(toGw[mother]) /\ Lines(<<>>) = {}
  BY <1>a, LineFacts DEF Lines
<1>e. \A s \in Socks : toGw'[s] \in {<<>>, Tail(toGw[mother]), toGw[s]}
                       /\ (s # mother => toGw'[s] \in {<<>>, toGw[s]})
  BY DEF Input
<1>f. \A s \in Socks : Lines(toGw'[s]) \subseteq Lines(toGw[s])
  BY <1>d, <1>e
<1>g. OpenSession(m.client, m.key) /\ pc' = pc
  BY DEF Input
<1>h. \A e \in pending : e.key = m.key => e.host = m.client
  BY <1>a, <1>b DEF All, SessInv, AnswerOwner
<1>i. Wired
  BY <1>a DEF All, WiredInv, OwnServerConnection
<1> HIDE DEF m
<1>1. CASE ~Present(m.client)
  <2>1. UNCHANGED <<desc, gwEnd, toGame>>
    BY <1>1, <1>g DEF OpenSession
  <2>2. Keeps
    BY <1>a, <1>f, <1>g, <2>1 DEF Keeps
  <2> QED BY <2>2, KeepsSessions
<1>2. CASE Present(m.client) /\ Listening = {}
  <2> DEFINE c == m.client
  <2>1. /\ desc' = [desc EXCEPT ![c] = [@ EXCEPT !.session = m.key, !.open = FALSE,
                                          !.srv = None, !.st = "disconnected"]]
        /\ gwEnd' = [s \in Socks |-> gwEnd[s] /\ s # desc[c].srv]
        /\ UNCHANGED toGame
    BY <1>2, <1>g DEF OpenSession
  <2>2. /\ \A d \in Clients : d # c => desc'[d] = desc[d]
        /\ desc'[c].session = m.key
        /\ \A s \in Socks : gwEnd'[s] => gwEnd[s] /\ s # desc[c].srv
    BY <1>a, <1>c, <2>1 DEF Descriptors
  <2>3. AskedByOwner /\ AdmittedOwner /\ PendingOwner /\ AnswerOwner
    BY DEF All, SessInv
  <2>4. UNCHANGED <<inbuf, pending, gdesc>>
    BY DEF gameVars
  <2> HIDE DEF c
  <2>5. AskedByOwner'
    BY <2>1, <2>2, <2>3, <2>4 DEF AskedByOwner, Asks
  <2>6. AdmittedOwner'
    BY <2>2, <2>3, <2>4 DEF AdmittedOwner
  <2>7. PendingOwner'
    BY <1>h, <2>2, <2>3, <2>4 DEF PendingOwner, c
  <2>8. AnswerOwner'
    BY <1>f, <2>3, <2>4 DEF AnswerOwner
  <2> QED BY <1>a, <1>g, <2>5, <2>6, <2>7, <2>8 DEF SessInv
<1>3. CASE Present(m.client) /\ Listening # {}
  <2> DEFINE c == m.client
             k == m.key
             s0 == FreeSock
  <2>1. PICK p \in Listening : Connect(s0, p, [type |-> "Session", key |-> k], {desc[c].srv})
    BY <1>3, <1>g DEF OpenSession
  <2>2. /\ desc' = [desc EXCEPT ![c] = [@ EXCEPT !.session = k, !.srv = s0,
                                          !.st = "connected"]]
        /\ UsableSocks # {}
    BY <1>3, <1>g DEF OpenSession
  <2>3. s0 \in Socks /\ \A d \in Clients : desc[d].srv # s0
    BY <2>2 DEF UsableSocks, FreeSock
  <2>4. /\ c \in Clients /\ k \in Keys /\ pc # "dead" /\ pc' # "dead"
        /\ \A e \in pending : e.key = k => e.host = c
    BY <1>a, <1>c, <1>g, <1>h
  <2> HIDE DEF c, k, s0
  <2>5. /\ \A d \in Clients : d # c => desc'[d] = desc[d]
        /\ desc'[c].srv = s0 /\ desc'[c].session = k
    <3>1. desc[c] \in Descriptors /\ desc'[c] = [desc[c] EXCEPT !.session = k, !.srv = s0,
                                                               !.st = "connected"]
      BY <1>a, <2>2, <2>4
    <3>2. \A d \in Clients : d # c => desc'[d] = desc[d]
      BY <1>a, <2>2
    <3> QED BY <3>1, <3>2 DEF Descriptors
  <2> QED BY <1>f, <2>1, <2>3, <2>4, <2>5, AnswerOpens
<1> QED BY <1>1, <1>2, <1>3

\* Whatever the gateway does, and what is done to it.
LEMMA SessGateway ==
  ASSUME All, UNCHANGED gameVars,
         \/ GatewayLoop \/ ClientStep \/ Cooldown \/ LinkBreaks \/ GatewayRestarts
         \/ (\E p \in Pids : StartByHand(p)) \/ \E c \in Clients : Forward(c)
  PROVE  SessInv'
<1>1. CASE Input
  <2>1. CASE Head(toGw[mother]).type = "SessionFor"
    BY <1>1, <2>1, AnswerKeepsSessions
  <2>2. CASE Head(toGw[mother]).type # "SessionFor"
    BY <1>1, <2>2, LineKeepsSessions, KeepsSessions
  <2> QED BY <2>1, <2>2
<1>2. CASE LinkDown \/ Supervise
  BY <1>2, LinkDownKeepsSessions, SuperviseKeepsSessions, KeepsSessions
<1>3. CASE ~(Input \/ LinkDown \/ Supervise)
  BY <1>3, AsideKeepsSessions, KeepsSessions DEF GatewayLoop
<1> QED BY <1>1, <1>2, <1>3

-------------------------------------------------------------------------------
(* The game's steps.                                                       *)

\* What a step of the game may do to sessions, but for making and admitting
\* one: nobody is admitted, no key is asked for or sent, entries go or get old.
GameOnlyDrops ==
  /\ \A s \in Socks, k \in Keys : Asks(s, k)' => Asks(s, k)
  /\ \A s \in Socks : gdesc'[s].state = "in" => gdesc'[s] = gdesc[s]
  /\ \A e \in pending' : \E f \in pending : f.key = e.key /\ f.host = e.host
  /\ \A s \in Socks : \A m \in Lines(toGw'[s]) :
       m.type = "SessionFor" => m \in Lines(toGw[s])

\* Or it makes a key that is in use nowhere for one client's host ...
Answers ==
  \E c \in Clients, k \in Keys \ KeysHeld :
    /\ pending' \subseteq pending \union {[key |-> k, host |-> c, old |-> FALSE]}
    /\ \A s \in Socks : Lines(toGw'[s]) \subseteq
         Lines(toGw[s]) \union {[type |-> "SessionFor", client |-> c, key |-> k]}
    /\ \A s \in Socks, j \in Keys : Asks(s, j)' => Asks(s, j)
    /\ UNCHANGED gdesc

\* ... or admits whoever asks for a pending one.
Admits(s) ==
  \E k \in Keys, e \in pending :
    /\ Asks(s, k) /\ gdesc[s].state = "gateway" /\ e.key = k
    /\ gdesc' = [gdesc EXCEPT ![s] = [state |-> "in", session |-> k, host |-> e.host]]
    /\ pending' \subseteq pending /\ UNCHANGED toGw
    /\ \A t \in Socks, j \in Keys : Asks(t, j)' => Asks(t, j)

LEMMA DropsSess ==
  ASSUME All, UNCHANGED <<gatewayVars, gwEnd>>, GameOnlyDrops
  PROVE  SessInv'
<1>1. UNCHANGED <<desc, pc, gwEnd>>
  BY DEF gatewayVars
<1>2. SessInv
  BY DEF All
<1>3. AskedByOwner'
  BY <1>1, <1>2 DEF GameOnlyDrops, SessInv, AskedByOwner
<1>4. AdmittedOwner'
  BY <1>1, <1>2 DEF GameOnlyDrops, SessInv, AdmittedOwner
<1>5. PendingOwner'
  BY <1>1, <1>2 DEF GameOnlyDrops, SessInv, PendingOwner
<1>6. AnswerOwner'
  BY <1>1, <1>2 DEF GameOnlyDrops, SessInv, AnswerOwner
<1> QED BY <1>1, <1>2, <1>3, <1>4, <1>5, <1>6 DEF SessInv

LEMMA WriteLines ==
  ASSUME All, NEW s \in Socks \union {None}, NEW m, WriteTo(s, m)
  PROVE  \A t \in Socks : Lines(toGw'[t]) \subseteq Lines(toGw[t]) \union {m}
<1>1. ASSUME NEW t \in Socks PROVE toGw'[t] \in {toGw[t], Append(toGw[t], m)}
  BY AllTypes DEF WriteTo
<1>2. \A t \in Socks : Lines(Append(toGw[t], m)) = Lines(toGw[t]) \union {m}
  BY AllTypes, LinesAppend
<1> QED BY <1>1, <1>2

LEMMA DisconnectLines ==
  ASSUME All, NEW s \in Socks, NEW g \in Socks \union {None}, Disconnect(s, g)
  PROVE  /\ \A t \in Socks : \A m \in Lines(toGw'[t]) :
              m.type = "SessionFor" => m \in Lines(toGw[t])
         /\ \A t \in Socks : gdesc'[t].state = "in" => gdesc'[t] = gdesc[t]
<1> DEFINE m == [type |-> "Close", key |-> gdesc[s].session]
<1>1. UNCHANGED toGw \/ WriteTo(g, m)
  BY DEF Disconnect
<1>2. m.type = "Close"
  OBVIOUS
<1> HIDE DEF m
<1>3. \A t \in Socks : Lines(toGw'[t]) \subseteq Lines(toGw[t]) \union {m}
  BY <1>1, WriteLines
<1>4. \A t \in Socks : gdesc'[t].state = "in" => gdesc'[t] = gdesc[t]
  BY AllTypes DEF Disconnect, NoDesc
<1> QED BY <1>2, <1>3, <1>4

\* Lines that go from what was read, or are read.
LEMMA ReadLines ==
  ASSUME All, NEW s \in Socks, inbuf[s] # <<>>
  PROVE  /\ Head(inbuf[s]) \in Lines(inbuf[s]) /\ Head(inbuf[s]) \in Messages
         /\ Lines(Tail(inbuf[s])) \subseteq Lines(inbuf[s])
  BY AllTypes, LineFacts

LEMMA FewerAsks ==
  ASSUME \A s \in Socks : Lines(toGame'[s]) \union Lines(inbuf'[s])
                            \subseteq Lines(toGame[s]) \union Lines(inbuf[s])
  PROVE  \A s \in Socks, k \in Keys : Asks(s, k)' => Asks(s, k)
  BY DEF Asks

\* A key that is in use nowhere.
LEMMA FreshKey ==
  ASSUME All, NEW k \in Keys \ KeysHeld
  PROVE  /\ \A e \in pending : e.key # k
         /\ \A c \in Clients : desc[c].session # k
         /\ \A s \in Socks : \A m \in Lines(toGw[s]) : m.type = "SessionFor" => m.key # k
<1>1. \A e \in pending : e.key # k
  BY DEF KeysHeld
<1>2. \A c \in Clients : desc[c].session # k
  BY DEF KeysHeld
<1>3. ASSUME NEW s \in Socks, NEW m \in Lines(toGw[s]), m.type = "SessionFor"
      PROVE  m.key # k
  <2>1. PICK i \in DOMAIN toGw[s] : m = toGw[s][i]
    BY <1>3 DEF Lines
  <2>2. m \in Messages
    BY <1>3, AllTypes, LineFacts
  <2>3. "key" \in DOMAIN m
    BY <1>3, <2>2 DEF Messages
  <2>4. m.key \in KeysIn(toGw[s])
    BY <2>1, <2>3 DEF KeysIn
  <2> QED BY <2>4 DEF KeysHeld
<1> QED BY <1>1, <1>2, <1>3

\* The gateway's commands.
LEMMA HostKind ==
  ASSUME All, NEW k \in Keys \ KeysHeld, GatewayCommand(k)
  PROVE  GameOnlyDrops \/ Answers
<1>a. gwc \in Socks /\ inbuf[gwc] # <<>> /\ UNCHANGED <<gdesc, toGame>>
  BY AllTypes DEF GatewayCommand
<1> DEFINE m == Head(inbuf[gwc])
           c == m.client
           answer == [type |-> "SessionFor", client |-> c, key |-> k]
<1>b. \A s \in Socks, j \in Keys : Asks(s, j)' => Asks(s, j)
  <2>1. inbuf' = [inbuf EXCEPT ![gwc] = Tail(@)]
    BY DEF GatewayCommand
  <2>2. \A s \in Socks : Lines(inbuf'[s]) \subseteq Lines(inbuf[s])
    BY <1>a, <2>1, ReadLines, AllTypes
  <2> QED BY <1>a, <2>2, FewerAsks
<1>c. \A e \in Pruned : e \in pending
  BY DEF Pruned
<1>1. CASE ~(m.type = "Host" /\ ~Full)
  <2>1. UNCHANGED toGw /\ \A e \in pending' : e \in pending
    BY <1>1, <1>c DEF GatewayCommand, Host
  <2> QED BY <1>a, <1>b, <2>1 DEF GameOnlyDrops
<1>2. CASE m.type = "Host" /\ ~Full
  <2>1. /\ pending' = Pruned \union {[key |-> k, host |-> c, old |-> FALSE]}
        /\ WriteTo(gwc, answer)
    BY <1>2 DEF GatewayCommand, Host
  <2>2. c \in Clients
    BY <1>a, <1>2, ReadLines, MessageFields
  <2>3. \A s \in Socks : Lines(toGw'[s]) \subseteq Lines(toGw[s]) \union {answer}
    <3>1. gwc \in Socks \union {None}
      BY <1>a
    <3> HIDE DEF answer
    <3> QED BY <2>1, <3>1, WriteLines
  <2> HIDE DEF c, m
  <2> QED BY <1>a, <1>b, <1>c, <2>1, <2>2, <2>3 DEF Answers
<1> QED BY <1>1, <1>2

\* A new key goes to one client only.
LEMMA AnswersSess ==
  ASSUME All, UNCHANGED <<gatewayVars, gwEnd>>, Answers
  PROVE  SessInv'
<1> PICK c \in Clients, k \in Keys \ KeysHeld :
      /\ pending' \subseteq pending \union {[key |-> k, host |-> c, old |-> FALSE]}
      /\ \A s \in Socks : Lines(toGw'[s]) \subseteq
           Lines(toGw[s]) \union {[type |-> "SessionFor", client |-> c, key |-> k]}
      /\ \A s \in Socks, j \in Keys : Asks(s, j)' => Asks(s, j)
      /\ UNCHANGED gdesc
  BY DEF Answers
<1> DEFINE new == [key |-> k, host |-> c, old |-> FALSE]
           answer == [type |-> "SessionFor", client |-> c, key |-> k]
<1>1. /\ \A e \in pending : e.key # k
      /\ \A d \in Clients : desc[d].session # k
      /\ \A s \in Socks : \A l \in Lines(toGw[s]) : l.type = "SessionFor" => l.key # k
  BY FreshKey
<1>2. /\ new.key = k /\ new.host = c
      /\ answer.key = k /\ answer.client = c
  OBVIOUS
<1>3. /\ pending' \subseteq pending \union {new}
      /\ \A s \in Socks : Lines(toGw'[s]) \subseteq Lines(toGw[s]) \union {answer}
  OBVIOUS
<1>4. SessInv /\ UNCHANGED <<desc, pc, gwEnd>>
  BY DEF All, gatewayVars
<1> HIDE DEF new, answer
<1>5. AskedByOwner'
  BY <1>4 DEF SessInv, AskedByOwner
<1>6. AdmittedOwner'
  BY <1>4 DEF SessInv, AdmittedOwner
<1>7. PendingOwner'
  BY <1>1, <1>2, <1>3, <1>4 DEF SessInv, PendingOwner
<1>8. AnswerOwner'
  <2> SUFFICES ASSUME NEW s \in Socks, NEW l \in Lines(toGw'[s]), l.type = "SessionFor",
                      NEW e \in pending', e.key = l.key
               PROVE  e.host = l.client
    BY DEF AnswerOwner
  <2>1. l = answer \/ (l \in Lines(toGw[s]) /\ l.key # k)
    BY <1>1, <1>3
  <2>2. e = new \/ (e \in pending /\ e.key # k)
    BY <1>1, <1>3
  <2> QED BY <1>2, <1>4, <2>1, <2>2 DEF SessInv, AnswerOwner
<1> QED BY <1>4, <1>5, <1>6, <1>7, <1>8 DEF SessInv

\* The players' lines.
LEMMA InputKind ==
  ASSUME All, NEW s \in Socks, PlayerInput(s)
  PROVE  GameOnlyDrops \/ Admits(s)
<1>a. inbuf[s] # <<>> /\ UNCHANGED <<toGame, gwc>>
  BY DEF PlayerInput
<1> DEFINE m == Head(inbuf[s])
           k == m.key
<1>b. \A t \in Socks, j \in Keys : Asks(t, j)' => Asks(t, j)
  <2>1. inbuf' = [inbuf EXCEPT ![s] = Tail(@)]
    BY DEF PlayerInput
  <2>2. \A t \in Socks : Lines(inbuf'[t]) \subseteq Lines(inbuf[t])
    BY <1>a, <2>1, ReadLines, AllTypes
  <2> QED BY <1>a, <2>2, FewerAsks
<1>1. CASE ~(gdesc[s].state = "gateway" /\ m.type = "Session")
  <2>1. UNCHANGED <<pending, gdesc, toGw>>
    BY <1>1 DEF PlayerInput
  <2> QED BY <1>b, <2>1 DEF GameOnlyDrops
<1>2. CASE gdesc[s].state = "gateway" /\ m.type = "Session" /\ Match(k) = {}
  <2>1. Disconnect(s, gwc) /\ UNCHANGED pending
    BY <1>2 DEF PlayerInput, Admit
  <2>2. GameOnlyDrops
    BY <1>b, <2>1, DisconnectLines, AllTypes DEF GameOnlyDrops
  <2> QED BY <2>2
<1>3. CASE gdesc[s].state = "gateway" /\ m.type = "Session" /\ Match(k) # {}
  <2>1. PICK e \in Match(k) :
          /\ pending' = pending \ {e}
          /\ gdesc' = [gdesc EXCEPT ![s] = [state |-> "in", session |-> k, host |-> e.host]]
          /\ UNCHANGED toGw
    BY <1>3 DEF PlayerInput, Admit
  <2>2. k \in Keys /\ m \in Lines(inbuf[s]) /\ e \in pending /\ e.key = k
    BY <1>a, <1>3, ReadLines, MessageFields DEF Match
  <2>3. Asks(s, k)
    BY <1>3, <2>2 DEF Asks
  <2> HIDE DEF m, k
  <2> QED BY <1>b, <1>3, <2>1, <2>2, <2>3 DEF Admits
<1> QED BY <1>1, <1>2, <1>3

\* The player who is admitted is the one who asked.
LEMMA AdmitsSess ==
  ASSUME All, UNCHANGED <<gatewayVars, gwEnd>>, NEW s \in Socks, Admits(s)
  PROVE  SessInv'
<1> PICK k \in Keys, e \in pending :
      /\ Asks(s, k) /\ gdesc[s].state = "gateway" /\ e.key = k
      /\ gdesc' = [gdesc EXCEPT ![s] = [state |-> "in", session |-> k, host |-> e.host]]
      /\ pending' \subseteq pending /\ UNCHANGED toGw
      /\ \A t \in Socks, j \in Keys : Asks(t, j)' => Asks(t, j)
  BY DEF Admits
<1>1. /\ \A t \in Socks : t # s => gdesc'[t] = gdesc[t]
      /\ gdesc'[s].session = k /\ gdesc'[s].host = e.host
  BY AllTypes
<1>2. SessInv /\ UNCHANGED <<desc, pc, gwEnd>>
  BY DEF All, gatewayVars
<1>3. AskedByOwner'
  BY <1>2 DEF SessInv, AskedByOwner
<1>4. AdmittedOwner'
  <2>1. gwEnd[s] => \E c \in Clients : desc[c].srv = s /\ desc[c].session = k /\ e.host = c
    BY <1>2 DEF SessInv, AskedByOwner, PendingOwner
  <2> QED BY <1>1, <1>2, <2>1 DEF SessInv, AdmittedOwner
<1>5. PendingOwner' /\ AnswerOwner'
  BY <1>2 DEF SessInv, PendingOwner, AnswerOwner
<1> QED BY <1>2, <1>3, <1>4, <1>5 DEF SessInv

LEMMA PulseDrops ==
  ASSUME All, Pulse
  PROVE  GameOnlyDrops
<1>1. ASSUME NEW s \in Socks
      PROVE  Lines(toGame'[s]) \union Lines(inbuf'[s]) \subseteq Lines(toGame[s]) \union Lines(inbuf[s])
  <2>1. \/ toGame'[s] = toGame[s] /\ inbuf'[s] = inbuf[s]
        \/ toGame'[s] = <<>> /\ inbuf'[s] = inbuf[s] \o toGame[s]
    BY DEF Pulse
  <2>2. Lines(<<>>) = {}
    BY DEF Lines
  <2>3. Lines(inbuf[s] \o toGame[s]) = Lines(inbuf[s]) \union Lines(toGame[s])
    BY LinesConcat, AllTypes
  <2> QED BY <2>1, <2>2, <2>3
<1>2. UNCHANGED <<toGw, pending, gdesc>>
  BY DEF Pulse
<1>3. GameOnlyDrops
  BY <1>1, <1>2, FewerAsks DEF GameOnlyDrops
<1> QED BY <1>3

LEMMA ReapDrops ==
  ASSUME All, NEW s \in Socks, Reap(s)
  PROVE  GameOnlyDrops
<1>1. /\ toGame' = [toGame EXCEPT ![s] = <<>>] /\ inbuf' = [inbuf EXCEPT ![s] = <<>>]
      /\ UNCHANGED <<gdesc, toGw>> \/ Disconnect(s, GatewayWithout(s))
      /\ UNCHANGED pending /\ GatewayWithout(s) \in Socks \union {None}
  BY AllTypes DEF Reap, GatewayWithout
<1>2. \A t \in Socks : Lines(toGame'[t]) \union Lines(inbuf'[t])
                         \subseteq Lines(toGame[t]) \union Lines(inbuf[t])
  <2>1. Lines(<<>>) = {}
    BY DEF Lines
  <2> QED BY <1>1, <2>1, AllTypes
<1>3. GameOnlyDrops
  BY <1>1, <1>2, FewerAsks, DisconnectLines DEF GameOnlyDrops
<1> QED BY <1>3

LEMMA AcceptDrops ==
  ASSUME All, Accept
  PROVE  GameOnlyDrops
<1> DEFINE queue == {s \in Socks : owner[s] = game /\ gameEnd[s] = "backlog"}
<1>1. UNCHANGED <<toGame, toGw, inbuf, pending>>
  BY DEF Accept
<1>2. \/ UNCHANGED gdesc
      \/ \E s \in Socks : gdesc' = [gdesc EXCEPT ![s] = [NoDesc EXCEPT !.state = "gateway"]]
  <2>1. CASE queue = {}
    BY <2>1 DEF Accept
  <2>2. CASE queue # {}
    BY <2>2 DEF Accept
  <2> QED BY <2>1, <2>2
<1>3. \A s \in Socks : gdesc'[s].state = "in" => gdesc'[s] = gdesc[s]
  BY <1>2, AllTypes DEF NoDesc
<1>4. GameOnlyDrops
  BY <1>1, <1>3, FewerAsks DEF GameOnlyDrops
<1> QED BY <1>4

LEMMA ScanDrops ==
  ASSUME All, Scan
  PROVE  GameOnlyDrops
<1> DEFINE open == {s \in Socks : owner[s] = game /\ gameEnd[s] = "open"}
           talking == {s \in open : inbuf[s] # <<>>}
           valid == {s \in talking : Head(inbuf[s]).type = "Validate"}
           id == [type |-> "ProcessID", pid |-> game]
           done == IF booted THEN <<Message("FinishedBooting")>> ELSE <<>>
<1>1. UNCHANGED <<toGame, pending, gdesc>> /\ game \in Pids
  BY DEF Scan, All, TypeInv, TypeOK, GameTypeOK
<1>2. \A s \in Socks : Lines(inbuf'[s]) \subseteq Lines(inbuf[s])
  <2>1. \A s \in Socks : inbuf'[s] = inbuf[s] \/ (inbuf[s] # <<>> /\ inbuf'[s] = Tail(inbuf[s]))
    BY DEF Scan
  <2> QED BY <2>1, ReadLines
<1>3. \A s \in Socks : \A m \in Lines(toGw'[s]) : m.type = "SessionFor" => m \in Lines(toGw[s])
  <2>1. CASE valid = {}
    BY <2>1 DEF Scan
  <2>2. CASE valid # {}
    <3>1. PICK s \in valid :
            toGw' = IF ~Deliverable(s) THEN toGw ELSE [toGw EXCEPT ![s] = @ \o <<id>> \o done]
      BY <2>2 DEF Scan
    <3>2. /\ <<id>> \in Seq(Messages) /\ done \in Seq(Messages)
          /\ Lines(<<id>>) = {id} /\ id.type = "ProcessID"
          /\ \A m \in Lines(done) : m.type = "FinishedBooting"
      <4>1. id \in Messages /\ Message("FinishedBooting") \in Messages
        BY <1>1, MessageTypes
      <4>2. Lines(<<>>) = {} /\ Lines(<<Message("FinishedBooting")>>) = {Message("FinishedBooting")}
        BY LinesOne DEF Lines
      <4>3. Message("FinishedBooting").type = "FinishedBooting"
        BY DEF Message
      <4>4. Lines(<<id>>) = {id}
        BY LinesOne
      <4> QED BY <4>1, <4>2, <4>3, <4>4, EmptySeq
    <3> HIDE DEF id, done, valid, talking, open
    <3> DEFINE i1 == <<id>>
    <3>3. \A t \in Socks : toGw'[t] \in {toGw[t], toGw[t] \o i1 \o done}
      BY <3>1, AllTypes
    <3>4. i1 \in Seq(Messages) /\ Lines(i1) = {id}
      BY <3>2
    <3> HIDE DEF i1
    <3>5. ASSUME NEW t \in Socks
          PROVE  Lines(toGw[t] \o i1 \o done) = Lines(toGw[t]) \union {id} \union Lines(done)
      <4> DEFINE q == toGw[t]
      <4>1. q \in Seq(Messages)
        BY AllTypes
      <4> HIDE DEF q
      <4>2. q \o i1 \in Seq(Messages) /\ Lines(q \o i1) = Lines(q) \union {id}
        BY <3>4, <4>1, LinesConcat, ConcatProperties
      <4>3. Lines((q \o i1) \o done) = Lines(q \o i1) \union Lines(done)
        BY <3>2, <4>2, LinesConcat
      <4> QED BY <4>2, <4>3 DEF q
    <3> QED BY <3>2, <3>3, <3>5
  <2> QED BY <2>1, <2>2
<1>4. GameOnlyDrops
  BY <1>1, <1>2, <1>3, FewerAsks DEF GameOnlyDrops
<1> QED BY <1>4

\* A line for the gateway that names no session.
LEMMA TellDrops ==
  ASSUME All,
         \/ Boot \/ Halt \/ WorkDone \/ Stop \/ Expire
         \/ (\E t \in {"Shutdown", "Restart"} : SetOnReboot(t))
         \/ (\E s \in Socks : Kick(s)) \/ (\E p \in Pids : Bind(p))
  PROVE  GameOnlyDrops
<1>0. gwc \in Socks \union {None} /\ pending \subseteq [key : Keys, host : Clients, old : BOOLEAN]
  BY AllTypes
<1>1. UNCHANGED <<toGame, inbuf>>
  BY DEF Boot, Halt, WorkDone, Stop, Expire, SetOnReboot, Kick, Bind, netVars, gameVars
<1>2. \A e \in pending' : \E f \in pending : f.key = e.key /\ f.host = e.host
  <2>1. CASE Expire
    <3>1. pending' = {[e EXCEPT !.old = TRUE] : e \in pending}
      BY <2>1 DEF Expire
    <3>2. \A e \in pending : [e EXCEPT !.old = TRUE].key = e.key /\ [e EXCEPT !.old = TRUE].host = e.host
      BY <1>0
    <3> QED BY <3>1, <3>2
  <2>2. CASE UNCHANGED pending
    BY <2>2
  <2> QED BY <2>1, <2>2 DEF Boot, Halt, WorkDone, Stop, SetOnReboot, Kick, Bind, gameVars
<1>3. CASE \E s \in Socks : Kick(s)
  <2>1. PICK s \in Socks : Disconnect(s, gwc)
    BY <1>3 DEF Kick
  <2>2. GameOnlyDrops
    BY <1>0, <1>1, <1>2, <2>1, DisconnectLines, FewerAsks DEF GameOnlyDrops
  <2> QED BY <2>2
<1>4. CASE ~\E s \in Socks : Kick(s)
  <2>1. UNCHANGED gdesc
    BY <1>4 DEF Boot, Halt, WorkDone, Stop, Expire, SetOnReboot, Bind, gameVars
  <2>2. UNCHANGED toGw \/ \E t \in {"FinishedBooting", "Reboot", "Shutdown", "Restart"} :
                            WriteTo(gwc, Message(t))
    BY <1>4 DEF Boot, Halt, WorkDone, Stop, Expire, SetOnReboot, Bind, netVars
  <2>3. \A t \in {"FinishedBooting", "Reboot", "Shutdown", "Restart"} : Message(t).type = t
    BY DEF Message
  <2>4. \A s \in Socks : \A m \in Lines(toGw'[s]) : m.type = "SessionFor" => m \in Lines(toGw[s])
    <3>1. CASE UNCHANGED toGw
      BY <3>1
    <3>2. ASSUME NEW t \in {"FinishedBooting", "Reboot", "Shutdown", "Restart"},
                 WriteTo(gwc, Message(t))
          PROVE  \A s \in Socks : Lines(toGw'[s]) \subseteq Lines(toGw[s]) \union {Message(t)}
      BY <1>0, <3>2, WriteLines
    <3> QED BY <2>2, <2>3, <3>1, <3>2
  <2>5. GameOnlyDrops
    BY <1>1, <1>2, <2>1, <2>4, FewerAsks DEF GameOnlyDrops
  <2> QED BY <2>5
<1> QED BY <1>3, <1>4

LEMMA EndDrops ==
  ASSUME All, NEW p \in Pids,
         CloseListener \/ CloseSockets(p) \/ Exit(p) \/ Crash(p)
  PROVE  GameOnlyDrops
<1>0. Lines(<<>>) = {}
  BY DEF Lines
<1>1. UNCHANGED toGw /\ \A s \in Socks : toGame'[s] \in {<<>>, toGame[s]}
  BY DEF CloseListener, CloseSockets, Exit, Crash, GameVanishes
<1>2. Blank \/ UNCHANGED gameVars
  BY DEF CloseListener, CloseSockets, Exit, Crash
<1>3. /\ \A s \in Socks : inbuf'[s] \in {<<>>, inbuf[s]} /\ gdesc'[s] \in {NoDesc, gdesc[s]}
      /\ pending' \subseteq pending
  BY <1>2 DEF Blank, gameVars
<1>4. \A s \in Socks : Lines(toGame'[s]) \union Lines(inbuf'[s])
                         \subseteq Lines(toGame[s]) \union Lines(inbuf[s])
  BY <1>0, <1>1, <1>3
<1>5. GameOnlyDrops
  BY <1>1, <1>3, <1>4, FewerAsks DEF GameOnlyDrops, NoDesc
<1> QED BY <1>5

LEMMA GameKinds ==
  ASSUME All, \/ GameLoop \/ ProcessStep \/ Quit \/ Stop \/ Expire \/ (\E p \in Pids : Crash(p))
              \/ (\E t \in {"Shutdown", "Restart"} : SetOnReboot(t)) \/ \E s \in Socks : Kick(s)
  PROVE  GameOnlyDrops \/ Answers \/ \E s \in Socks : Admits(s)
<1>1. CASE Keys \ KeysHeld # {} /\ GatewayCommand(randomToken)
  <2>1. randomToken \in Keys \ KeysHeld
    BY <1>1 DEF randomToken
  <2> QED BY <1>1, <2>1, HostKind
<1>2. CASE CloseListener
  <2>1. game \in Pids
    BY <1>2 DEF CloseListener, All, TypeInv, TypeOK, GameTypeOK
  <2> QED BY <1>2, <2>1, EndDrops
<1> QED BY <1>1, <1>2, InputKind, PulseDrops, ReapDrops, AcceptDrops, ScanDrops,
           TellDrops, EndDrops DEF GameLoop, ProcessStep, Quit

LEMMA SessGame ==
  ASSUME All, UNCHANGED <<gatewayVars, gwEnd>>,
         GameOnlyDrops \/ Answers \/ \E s \in Socks : Admits(s)
  PROVE  SessInv'
  BY DropsSess, AnswersSess, AdmitsSess

-------------------------------------------------------------------------------

LEMMA SessInit == Init => SessInv
<1> SUFFICES ASSUME Init PROVE SessInv
  OBVIOUS
<1>1. /\ \A s \in Socks : ~gwEnd[s] /\ toGw[s] = <<>>
      /\ pending = {} /\ pc = "net"
  BY DEF Init, NetInit, GatewayInit, GameInit
<1>2. Lines(<<>>) = {}
  BY DEF Lines
<1> QED BY <1>1, <1>2 DEF SessInv, AskedByOwner, AdmittedOwner, PendingOwner, AnswerOwner

LEMMA SessStep == All /\ [Next]_vars => SessInv'
<1> SUFFICES ASSUME All, [Next]_vars PROVE SessInv'
  OBVIOUS
<1>1. CASE GatewayStep
  BY <1>1, SessGateway DEF GatewayStep
<1>2. CASE Wait60
  BY <1>2, SessGateway DEF Wait60
<1>3. CASE UNCHANGED vars
  <2>1. GameOnlyDrops /\ UNCHANGED <<gatewayVars, gwEnd>>
    BY <1>3 DEF vars, netVars, gameVars, GameOnlyDrops, Asks
  <2> QED BY <2>1, DropsSess
<1>4. CASE GameStep
  <2>1. UNCHANGED <<gatewayVars, gwEnd>>
    BY <1>4, GameLeavesGwEnd DEF GameStep
  <2> QED BY <1>4, <2>1, GameKinds, SessGame DEF GameStep
<1>5. CASE Fault
  <2>1. CASE UNCHANGED gameVars /\ (\/ LinkBreaks \/ GatewayRestarts
                                    \/ (\E p \in Pids : StartByHand(p))
                                    \/ \E c \in Clients : Forward(c))
    BY <2>1, SessGateway
  <2>2. CASE UNCHANGED gatewayVars /\ (\/ Stop \/ Expire \/ (\E p \in Pids : Crash(p))
                                       \/ (\E t \in {"Shutdown", "Restart"} : SetOnReboot(t))
                                       \/ \E s \in Socks : Kick(s))
    <3>1. UNCHANGED gwEnd
      BY <2>2, GameLeavesGwEnd
    <3> QED BY <2>2, <3>1, GameKinds, SessGame
  <2> QED BY <1>5, <2>1, <2>2 DEF Fault
<1> QED BY <1>1, <1>2, <1>3, <1>4, <1>5 DEF Next, Over

LEMMA AllInit == Init => All
<1>1. Init => TypeInv /\ PortInv /\ SessInv
  BY TypeInit, PortInit, SessInit
<1>2. Init => WiredInv
  BY DEF Init, GatewayInit, Fresh, WiredInv, ConnectedOnly, OwnServerConnection, Wired
<1> QED BY <1>1, <1>2 DEF All

LEMMA AllStep == All /\ [Next]_vars => All'
<1> SUFFICES ASSUME All, [Next]_vars PROVE All'
  OBVIOUS
<1>1. SessInv'
  BY SessStep
<1>2. TypeInv' /\ PortInv' /\ WiredInv'
  <2>1. TypeInv /\ PortInv /\ WiredInv
    BY DEF All
  <2> QED BY <2>1, TypeStep, PortStep, WiredStep DEF TypeInv
<1> QED BY <1>1, <1>2 DEF All

\* Whatever the game and its processes do, and whatever fails, a player whom
\* the game has admitted is wired to one client of the gateway: the one that
\* asked for the session, from the host that the game has recorded.
THEOREM AdmittedToOneClient == Spec => []WiredToOneClient
<1>1. Init => All
  BY AllInit
<1>2. All /\ [Next]_vars => All'
  BY AllStep
<1>3. All => WiredToOneClient
  <2> SUFFICES ASSUME All, NEW s \in Socks, gdesc[s].state = "in", gwEnd[s]
               PROVE  \E c \in Clients :
                        /\ \A d \in Clients : desc[d].srv = s <=> d = c
                        /\ gdesc[s].host = c
                        /\ desc[c].session = gdesc[s].session
    BY DEF WiredToOneClient
  <2>1. PICK c \in Clients : /\ desc[c].srv = s /\ desc[c].session = gdesc[s].session
                             /\ gdesc[s].host = c
    BY DEF All, SessInv, AdmittedOwner
  <2>2. Wired /\ s # None
    BY AllTypes DEF All, SessInv, WiredInv, OwnServerConnection
  <2>3. \A d \in Clients : desc[d].srv = s <=> d = c
    BY <2>1, <2>2 DEF Wired
  <2> QED BY <2>1, <2>3
<1> QED BY <1>1, <1>2, <1>3, PTL DEF Spec

-------------------------------------------------------------------------------
(* Seats.                                                                  *)

\* A client's own connection, even under a gateway that has died: who asks
\* there for a session, or was admitted there, is the client.
SeatInv ==
  \A c \in Clients :
    /\ desc[c].st = "connected" <=> desc[c].srv # None
    /\ desc[c].srv # None =>
         /\ \A d \in Clients \ {c} : desc[d].srv # desc[c].srv
         /\ \A k \in Keys : Asks(desc[c].srv, k) => desc[c].session = k
         /\ gdesc[desc[c].srv].state = "in" =>
              desc[c].session = gdesc[desc[c].srv].session /\ gdesc[desc[c].srv].host = c

\* As long as the gateway lives there is nothing new in that.
Alive == pc # "dead"

LEMMA LiveSeats == All /\ Alive => SeatInv
<1> SUFFICES ASSUME All, Alive, NEW c \in Clients
             PROVE  /\ desc[c].st = "connected" <=> desc[c].srv # None
                    /\ desc[c].srv # None =>
                         /\ \A d \in Clients \ {c} : desc[d].srv # desc[c].srv
                         /\ \A k \in Keys : Asks(desc[c].srv, k) => desc[c].session = k
                         /\ gdesc[desc[c].srv].state = "in" =>
                              /\ desc[c].session = gdesc[desc[c].srv].session
                              /\ gdesc[desc[c].srv].host = c
  BY DEF SeatInv
<1>1. Wired /\ AskedByOwner /\ AdmittedOwner
  BY DEF Alive, All, WiredInv, OwnServerConnection, SessInv
<1>2. desc[c].srv \in Socks \union {None}
  BY AllTypes DEF Descriptors
<1>3. ASSUME desc[c].srv # None
      PROVE  /\ desc[c].srv \in Socks /\ gwEnd[desc[c].srv]
             /\ \A d \in Clients : desc[d].srv = desc[c].srv => d = c
  BY <1>1, <1>2, <1>3 DEF Wired
<1>4. ASSUME desc[c].srv # None, NEW k \in Keys, Asks(desc[c].srv, k)
      PROVE  desc[c].session = k
  BY <1>1, <1>3, <1>4 DEF AskedByOwner
<1>5. ASSUME desc[c].srv # None, gdesc[desc[c].srv].state = "in"
      PROVE  desc[c].session = gdesc[desc[c].srv].session /\ gdesc[desc[c].srv].host = c
  BY <1>1, <1>3, <1>5 DEF AdmittedOwner
<1>6. desc[c].st = "connected" <=> desc[c].srv # None
  BY <1>1 DEF Wired
<1> QED BY <1>3, <1>4, <1>5, <1>6

\* A gateway dies of a Close line, and stays as it is.
LEMMA DeadSteps ==
  ASSUME All, [Next]_vars, pc' = "dead"
  PROVE  \/ UNCHANGED <<gdesc, toGame, inbuf>> /\ \A c \in Clients : desc'[c] \in {desc[c], Fresh("gone")}
         \/ UNCHANGED desc /\ (GameOnlyDrops \/ Answers \/ \E s \in Socks : Admits(s))
<1>a. UNCHANGED gatewayVars => UNCHANGED desc
  BY DEF gatewayVars
<1>1. CASE GatewayStep
  <2>1. Input
    BY <1>1 DEF GatewayStep, GatewayLoop, ClientStep, NetDone, LinkDown, Supervise, InputDone,
                RequestSession, ServerLost, ClientsDone, ClientArrives, ClientLeaves, Handshake,
                Supervised
  <2>2. pc = "input" /\ Head(toGw[mother]).type = "Close" /\ UNCHANGED <<gdesc, toGame, inbuf>>
    BY <1>1, <2>1 DEF GatewayStep, Input, Reading, gameVars
  <2>3. CloseSession(Head(toGw[mother]).key)
    BY <2>1, <2>2 DEF Input
  <2>4. \A c \in Clients : desc'[c] \in {desc[c], Fresh("gone")}
    BY <2>3, AllTypes DEF CloseSession
  <2> QED BY <2>2, <2>4
<1>2. CASE GameStep
  BY <1>2, <1>a, GameKinds DEF GameStep
<1>3. CASE Fault
  <2>1. CASE UNCHANGED gameVars /\ (\/ LinkBreaks \/ GatewayRestarts
                                    \/ (\E p \in Pids : StartByHand(p))
                                    \/ \E c \in Clients : Forward(c))
    BY <2>1 DEF LinkBreaks, GatewayRestarts, StartByHand, Forward, gatewayVars, gameVars
  <2>2. CASE UNCHANGED gatewayVars /\ (\/ Stop \/ Expire \/ (\E p \in Pids : Crash(p))
                                       \/ (\E t \in {"Shutdown", "Restart"} : SetOnReboot(t))
                                       \/ \E s \in Socks : Kick(s))
    BY <1>a, <2>2, GameKinds
  <2> QED BY <1>3, <2>1, <2>2 DEF Fault
<1>4. CASE Wait60 \/ UNCHANGED vars
  BY <1>4 DEF Wait60, Cooldown, vars, netVars, gameVars, gatewayVars
<1> QED BY <1>1, <1>2, <1>3, <1>4 DEF Next, Over

LEMMA SeatStep ==
  ASSUME All, SeatInv, [Next]_vars, All'
  PROVE  SeatInv'
<1>1. CASE Alive'
  <2>1. All' /\ Alive' => SeatInv'
    BY LiveSeats, PTL
  <2> QED BY <1>1, <2>1
<1>2. CASE pc' = "dead" /\ UNCHANGED <<gdesc, toGame, inbuf>>
           /\ \A c \in Clients : desc'[c] \in {desc[c], Fresh("gone")}
  <2>1. Fresh("gone").st = "gone" /\ Fresh("gone").srv = None
    BY DEF Fresh
  <2>2. \A s, k : Asks(s, k)' <=> Asks(s, k)
    BY <1>2 DEF Asks
  <2> QED BY <1>2, <2>1, <2>2 DEF SeatInv
<1>3. CASE UNCHANGED desc /\ GameOnlyDrops
  <2>1. \A c \in Clients : desc[c].srv \in Socks \union {None}
    BY AllTypes DEF Descriptors
  <2> QED BY <1>3, <2>1 DEF SeatInv, GameOnlyDrops
<1>4. CASE UNCHANGED desc /\ Answers
  <2>1. \A c \in Clients : desc[c].srv \in Socks \union {None}
    BY AllTypes DEF Descriptors
  <2>2. UNCHANGED gdesc /\ \A s \in Socks, j \in Keys : Asks(s, j)' => Asks(s, j)
    BY <1>4 DEF Answers
  <2> QED BY <1>4, <2>1, <2>2 DEF SeatInv
<1>5. CASE UNCHANGED desc /\ \E s \in Socks : Admits(s)
  <2> PICK s \in Socks : Admits(s)
    BY <1>5
  <2> PICK k \in Keys, e \in pending :
        /\ Asks(s, k) /\ gdesc[s].state = "gateway" /\ e.key = k
        /\ gdesc' = [gdesc EXCEPT ![s] = [state |-> "in", session |-> k, host |-> e.host]]
        /\ \A t \in Socks, j \in Keys : Asks(t, j)' => Asks(t, j)
    BY DEF Admits
  <2>1. /\ \A t \in Socks : t # s => gdesc'[t] = gdesc[t]
        /\ gdesc'[s].session = k /\ gdesc'[s].host = e.host
    BY AllTypes
  <2>2. \A c \in Clients : desc[c].srv \in Socks \union {None}
    BY AllTypes DEF Descriptors
  <2>3. \A c \in Clients : desc[c].srv = s => desc[c].session = k /\ e.host = c
    <3>1. s # None
      BY AllTypes
    <3> QED BY <3>1 DEF SeatInv, All, SessInv, PendingOwner
  <2> QED BY <1>5, <2>1, <2>2, <2>3 DEF SeatInv
<1>6. CASE ~Alive'
  <2>1. pc' = "dead"
    BY <1>6 DEF Alive
  <2> QED BY <2>1, <1>2, <1>3, <1>4, <1>5, DeadSteps
<1> QED BY <1>1, <1>6

\* The address that the game has recorded for the player of client c.
HostOf(c) == IF SeatOf(c) = None THEN None ELSE gdesc[desc[c].srv].host

\* Nobody arrives, and who still has a seat had the same one before: some
\* seats are lost, and with some of them the clients.
LEMMA SeatsLost ==
  ASSUME \A c \in Clients : Present(c)' => Present(c),
         \A c \in Clients : SeatOf(c)' # None =>
           SeatOf(c)' = SeatOf(c) /\ HostOf(c)' = HostOf(c)
  PROVE  S!Next
<1>1. PICK Lost \in SUBSET Clients : \A c \in Clients : c \in Lost <=> SeatOf(c)' = None
  <2> WITNESS {c \in Clients : SeatOf(c)' = None} \in SUBSET Clients
  <2> QED OBVIOUS
<1>2. PICK Left \in SUBSET Clients : \A c \in Clients : c \in Left <=> (Present(c) /\ ~(Present(c)'))
  <2> WITNESS {c \in Clients : Present(c) /\ ~(Present(c)')} \in SUBSET Clients
  <2> QED OBVIOUS
<1>3. Left \in SUBSET Lost
  BY <1>1, <1>2 DEF SeatOf, Present
<1>4. {c \in Clients : Present(c)}' = {c \in Clients : Present(c)} \ Left
  BY <1>2
<1>5. [c \in Clients |-> SeatOf(c)]' = [c \in Clients |-> IF c \in Lost THEN None ELSE SeatOf(c)]
  BY <1>1
<1>6. [c \in Clients |-> HostOf(c)]' = [c \in Clients |-> IF c \in Lost THEN None ELSE HostOf(c)]
  BY <1>1 DEF HostOf
<1>7. S!Clear(Lost, Left)
  BY <1>3, <1>4, <1>5, <1>6 DEF S!Clear, HostOf, SeatOf, Present
<1> QED BY <1>3, <1>7 DEF S!Next

\* What a step of the gateway does to the clients' places, but for a client
\* that arrives: nothing, or it takes them from their connections, or it gives
\* them one that the game has no player on yet.
Moves ==
  \A c \in Clients :
    \/ desc'[c] = desc[c]
    \/ desc'[c].st # "connected" /\ (Present(c)' => Present(c))
    \/ Present(c) /\ gdesc[desc'[c].srv].state = "none"

LEMMA MovesSeats ==
  ASSUME All, UNCHANGED gdesc, Moves
  PROVE  S!Next
<1>1. \A c \in Clients : Present(c)' => Present(c)
  BY DEF Moves, Present
<1>2. ASSUME NEW c \in Clients, SeatOf(c)' # None
      PROVE  SeatOf(c)' = SeatOf(c) /\ HostOf(c)' = HostOf(c)
  <2>1. desc'[c].st = "connected" /\ gdesc[desc'[c].srv].state = "in"
    BY <1>2 DEF SeatOf
  <2>2. desc'[c] = desc[c]
    BY <2>1 DEF Moves
  <2> QED BY <2>2 DEF SeatOf, HostOf
<1> QED BY <1>1, <1>2, SeatsLost

LEMMA ArriveSeats ==
  ASSUME All, UNCHANGED gdesc, NEW c \in Clients, ClientArrives(c)
  PROVE  S!Next
<1>1. /\ desc[c].st = "new" /\ desc'[c].st \in {"handshaking", "awaitingConnection"}
      /\ \A d \in Clients : d # c => desc'[d] = desc[d]
  BY AllTypes DEF ClientArrives, FirstStatus, Fresh
<1>2. {d \in Clients : Present(d)}' = {d \in Clients : Present(d)} \union {c}
  BY <1>1 DEF Present
<1>3. c \notin {d \in Clients : Present(d)}
  BY <1>1 DEF Present
<1>4. \A d \in Clients : SeatOf(d)' = SeatOf(d) /\ HostOf(d)' = HostOf(d)
  BY <1>1 DEF SeatOf, HostOf
<1>5. S!Arrive(c)
  BY <1>2, <1>3, <1>4 DEF S!Arrive, HostOf
<1> QED BY <1>5 DEF S!Next

\* The steps of the game that admit nobody.
LEMMA GameMovesSeats ==
  ASSUME All, SeatInv, UNCHANGED desc, GameOnlyDrops \/ Answers
  PROVE  S!Next
<1>1. \A c \in Clients : desc[c].st = "connected" => desc[c].srv \in Socks
  BY AllTypes DEF SeatInv, Descriptors
<1>2. \A s \in Socks : gdesc'[s].state = "in" => gdesc'[s] = gdesc[s]
  BY DEF GameOnlyDrops, Answers
<1>3. ASSUME NEW c \in Clients, SeatOf(c)' # None
      PROVE  SeatOf(c)' = SeatOf(c) /\ HostOf(c)' = HostOf(c)
  <2>1. desc[c].st = "connected" /\ gdesc'[desc[c].srv].state = "in"
    BY <1>3 DEF SeatOf
  <2>2. gdesc'[desc[c].srv] = gdesc[desc[c].srv]
    BY <1>1, <1>2, <2>1
  <2> QED BY <2>2 DEF SeatOf, HostOf
<1>4. \A c \in Clients : Present(c)' => Present(c)
  BY DEF Present
<1> QED BY <1>3, <1>4, SeatsLost

\* The one that admits a player gives a seat to the client behind the
\* connection, if there still is one.
LEMMA AdmitsSeats ==
  ASSUME All, SeatInv, UNCHANGED desc, NEW s \in Socks, Admits(s)
  PROVE  S!Next
<1> PICK k \in Keys, e \in pending :
      /\ Asks(s, k) /\ gdesc[s].state = "gateway" /\ e.key = k
      /\ gdesc' = [gdesc EXCEPT ![s] = [state |-> "in", session |-> k, host |-> e.host]]
      /\ pending' \subseteq pending /\ UNCHANGED toGw
      /\ \A t \in Socks, j \in Keys : Asks(t, j)' => Asks(t, j)
  BY DEF Admits
<1>1. /\ \A t \in Socks : t # s => gdesc'[t] = gdesc[t]
      /\ gdesc'[s].state = "in" /\ gdesc'[s].session = k /\ gdesc'[s].host = e.host
      /\ k # None /\ None \notin Socks
  BY AllTypes
<1>2. PendingOwner
  BY DEF All, SessInv
<1>3. \A c \in Clients : /\ desc[c].srv \in Socks \union {None}
                         /\ desc[c].st = "connected" <=> desc[c].srv # None
  BY AllTypes DEF SeatInv, Descriptors
<1>4. CASE \A c \in Clients : desc[c].srv # s
  <2>1. ASSUME NEW c \in Clients PROVE SeatOf(c)' = SeatOf(c) /\ HostOf(c)' = HostOf(c)
    <3>1. CASE desc[c].st = "connected"
      <4>1. gdesc'[desc[c].srv] = gdesc[desc[c].srv]
        BY <1>1, <1>3, <1>4, <3>1
      <4> QED BY <4>1 DEF SeatOf, HostOf
    <3>2. CASE desc[c].st # "connected"
      BY <3>2 DEF SeatOf, HostOf
    <3> QED BY <3>1, <3>2
  <2>2. \A c \in Clients : Present(c)' => Present(c)
    BY DEF Present
  <2> QED BY <2>1, <2>2, SeatsLost
<1>5. ASSUME NEW c \in Clients, desc[c].srv = s
      PROVE  S!Next
  <2>1. desc[c].st = "connected" /\ desc[c].session = k /\ e.host = c
    <3>1. desc[c].session = k
      BY <1>1, <1>5 DEF SeatInv
    <3> QED BY <1>1, <1>2, <1>3, <1>5, <3>1 DEF PendingOwner
  <2>2. SeatOf(c) = None /\ HostOf(c) = None /\ SeatOf(c)' = k /\ HostOf(c)' = c
    BY <1>1, <1>5, <2>1 DEF SeatOf, HostOf
  <2>3. ASSUME NEW d \in Clients, d # c
        PROVE  SeatOf(d)' = SeatOf(d) /\ HostOf(d)' = HostOf(d)
    <3>1. CASE desc[d].st = "connected"
      <4>1. desc[d].srv \in Socks /\ desc[d].srv # s
        BY <1>1, <1>3, <1>5, <2>3, <3>1 DEF SeatInv
      <4>2. gdesc'[desc[d].srv] = gdesc[desc[d].srv]
        BY <1>1, <4>1
      <4> QED BY <4>2 DEF SeatOf, HostOf
    <3>2. CASE desc[d].st # "connected"
      BY <3>2 DEF SeatOf, HostOf
    <3> QED BY <3>1, <3>2
  <2>4. ASSUME NEW d \in Clients PROVE SeatOf(d) # k
    <3>1. CASE SeatOf(d) = k
      <4>1. desc[d].st = "connected" /\ gdesc[desc[d].srv].state = "in"
            /\ gdesc[desc[d].srv].session = k
        BY <1>1, <3>1 DEF SeatOf
      <4>2. desc[d].session = k
        BY <1>3, <4>1 DEF SeatInv
      <4>3. d = c
        BY <1>2, <2>1, <4>2 DEF PendingOwner
      <4> QED BY <1>1, <2>2, <3>1, <4>3
    <3> QED BY <3>1
  <2>5. c \in {d \in Clients : Present(d)} /\ UNCHANGED {d \in Clients : Present(d)}
    BY <2>1 DEF Present
  <2>6. [d \in Clients |-> SeatOf(d)]' = [[d \in Clients |-> SeatOf(d)] EXCEPT ![c] = k]
    BY <2>2, <2>3
  <2>7. [d \in Clients |-> HostOf(d)]' = [[d \in Clients |-> HostOf(d)] EXCEPT ![c] = c]
    BY <2>2, <2>3
  <2>8. S!Seat(c, k)
    BY <2>2, <2>4, <2>5, <2>6, <2>7 DEF S!Seat, HostOf
  <2> QED BY <2>8 DEF S!Next
<1> QED BY <1>4, <1>5
\* The gateway's steps.
LEMMA DropMoves ==
  ASSUME All, NEW C, Drop(C)
  PROVE  Moves
  BY AllTypes DEF Drop, Moves, Fresh, Present

LEMMA ShutdownMoves ==
  ASSUME All, desc' = Shutdown(desc)
  PROVE  Moves
<1>1. ASSUME NEW c \in Clients
      PROVE  desc'[c] = desc[c] \/ (desc'[c].st # "connected" /\ Present(c))
  <2>0. desc'[c] = IF desc[c].st \in {"new", "gone"} THEN desc[c]
                   ELSE [desc[c] EXCEPT !.st = "awaitingConnection", !.srv = None]
    BY DEF Shutdown
  <2>1. desc[c] \in Descriptors /\ (Present(c) \/ desc'[c] = desc[c])
    BY <2>0, AllTypes DEF Present
  <2>2. CASE Present(c)
    <3>1. desc'[c] = [desc[c] EXCEPT !.st = "awaitingConnection", !.srv = None]
      BY <2>0, <2>2 DEF Present
    <3>2. desc'[c].st = "awaitingConnection"
      BY <2>1, <3>1 DEF Descriptors
    <3> QED BY <2>2, <3>2
  <2> QED BY <2>1, <2>2
<1> QED BY <1>1 DEF Moves

LEMMA InputMoves ==
  ASSUME All, Input
  PROVE  Moves
<1> DEFINE m == Head(toGw[mother])
<1>1. CASE m.type = "SessionFor"
  <2>1. OpenSession(m.client, m.key)
    BY <1>1 DEF Input
  <2> DEFINE c == m.client
             k == m.key
  <2> HIDE DEF m, c, k
  <2>2. OpenSession(c, k)
    BY <2>1 DEF c, k
  <2>3. CASE ~Present(c)
    BY <2>2, <2>3 DEF OpenSession, Moves
  <2>4. CASE Present(c) /\ Listening = {}
    <3>1. desc' = [desc EXCEPT ![c] = [@ EXCEPT !.session = k, !.open = FALSE,
                                       !.srv = None, !.st = "disconnected"]]
      BY <2>2, <2>4 DEF OpenSession
    <3>2. \A d \in Clients : d # c => desc'[d] = desc[d]
      BY <3>1, AllTypes
    <3>3. c \in Clients => desc'[c].st = "disconnected"
      BY <3>1, AllTypes DEF Descriptors
    <3> QED BY <2>4, <3>2, <3>3 DEF Moves
  <2>5. CASE Present(c) /\ Listening # {}
    <3>1. /\ \E p \in Listening :
               Connect(FreeSock, p, [type |-> "Session", key |-> k], {desc[c].srv})
          /\ desc' = [desc EXCEPT ![c] = [@ EXCEPT !.session = k, !.srv = FreeSock,
                                          !.st = "connected"]]
          /\ FreeSock \in Socks
      BY <2>2, <2>5, SocketTypes DEF OpenSession
    <3>2. gdesc[FreeSock].state = "none"
      BY <3>1 DEF Connect, Unused, All, PortInv, PointersAlive
    <3>3. \A d \in Clients : d # c => desc'[d] = desc[d]
      BY <3>1, AllTypes
    <3>4. c \in Clients => desc'[c].srv = FreeSock
      BY <3>1, AllTypes DEF Descriptors
    <3> QED BY <2>5, <3>2, <3>3, <3>4 DEF Moves
  <2> QED BY <2>3, <2>4, <2>5
<1>2. CASE m.type = "Close"
  <2>1. CloseSession(m.key)
    BY <1>2 DEF Input
  <2> HIDE DEF m
  <2>2. UNCHANGED desc \/ \E c \in Clients : desc' = [desc EXCEPT ![c] = Fresh("gone")]
    BY <2>1 DEF CloseSession, Closing
  <2> QED BY <2>2, AllTypes DEF Moves, Fresh, Present
<1>3. CASE m.type = "Reboot"
  <2>1. desc' = Shutdown(desc)
    BY <1>3 DEF Input
  <2> QED BY <2>1, ShutdownMoves
<1>4. CASE m.type \notin {"SessionFor", "Close", "Reboot"}
  <2>1. UNCHANGED desc
    BY <1>4 DEF Input
  <2> QED BY <2>1 DEF Moves
<1> QED BY <1>1, <1>2, <1>3, <1>4

LEMMA GatewayMoves ==
  ASSUME All, \/ GatewayLoop \/ Cooldown \/ LinkBreaks \/ GatewayRestarts
              \/ (\E p \in Pids : StartByHand(p)) \/ (\E c \in Clients : Forward(c))
              \/ \E c \in Clients : ClientLeaves(c) \/ Handshake(c)
  PROVE  Moves
<1>1. CASE Input
  BY <1>1, InputMoves
<1>2. CASE LinkDown
  <2>1. desc' = Shutdown(desc) \/ UNCHANGED desc
    BY <1>2 DEF LinkDown
  <2> QED BY <2>1, ShutdownMoves DEF Moves
<1>3. CASE \E C : Drop(C)
  BY <1>3, DropMoves
<1>4. CASE UNCHANGED desc
  BY <1>4 DEF Moves
<1>5. ASSUME NEW c \in Clients, RequestSession(c) \/ Handshake(c)
      PROVE  Moves
  <2>1. \A d \in Clients : d # c => desc'[d] = desc[d]
    BY <1>5, AllTypes DEF RequestSession, Handshake
  <2>2. desc'[c].st # "connected" /\ Present(c)
    BY <1>5, AllTypes DEF RequestSession, Handshake, Descriptors, Present
  <2> QED BY <2>1, <2>2 DEF Moves
<1>6. NetDone \/ GatewayRestarts \/ (\E c \in Clients : ClientLeaves(c) \/ ServerLost(c))
        => \E C : Drop(C)
  BY Zenon DEF NetDone, GatewayRestarts, ClientLeaves, ServerLost
<1>7. Supervise => UNCHANGED desc \/ \E C : Drop(C)
  BY DEF Supervise
<1>8. InputDone \/ ClientsDone \/ Cooldown \/ LinkBreaks
      \/ (\E p \in Pids : StartByHand(p)) \/ (\E c \in Clients : Forward(c)) => UNCHANGED desc
  BY DEF InputDone, ClientsDone, Cooldown, LinkBreaks, StartByHand, Forward, gatewayVars
<1> QED BY <1>1, <1>2, <1>3, <1>4, <1>5, <1>6, <1>7, <1>8 DEF GatewayLoop

LEMMA SeatsInit == Init => S!Init /\ SeatInv
<1> SUFFICES ASSUME Init PROVE S!Init /\ SeatInv
  OBVIOUS
<1>1. \A c \in Clients : desc[c].st = "new" /\ desc[c].srv = None
  BY DEF Init, GatewayInit, Fresh
<1>2. \A c \in Clients : ~Present(c) /\ SeatOf(c) = None
  BY <1>1 DEF Present, SeatOf
<1>3. {c \in Clients : Present(c)} = {}
  BY <1>2
<1> QED BY <1>1, <1>2, <1>3 DEF S!Init, SeatInv

LEMMA SeatsNext ==
  ASSUME All, SeatInv, [Next]_vars
  PROVE  S!Next \/ UNCHANGED <<desc, gdesc>>
<1>1. CASE GatewayStep
  <2>1. UNCHANGED gdesc
    BY <1>1 DEF GatewayStep, gameVars
  <2>2. CASE \E c \in Clients : ClientArrives(c)
    BY <2>1, <2>2, ArriveSeats
  <2>3. CASE ~\E c \in Clients : ClientArrives(c)
    <3>1. Moves
      BY <1>1, <2>3, GatewayMoves DEF GatewayStep, ClientStep
    <3> QED BY <2>1, <3>1, MovesSeats
  <2> QED BY <2>2, <2>3
<1>2. CASE GameStep
  <2>1. UNCHANGED desc
    BY <1>2 DEF GameStep, gatewayVars
  <2> QED BY <1>2, <2>1, GameKinds, GameMovesSeats, AdmitsSeats DEF GameStep
<1>3. CASE Fault
  <2>1. CASE UNCHANGED gameVars /\ (\/ LinkBreaks \/ GatewayRestarts
                                    \/ (\E p \in Pids : StartByHand(p))
                                    \/ \E c \in Clients : Forward(c))
    <3>1. UNCHANGED gdesc /\ Moves
      BY <2>1, GatewayMoves DEF gameVars
    <3> QED BY <3>1, MovesSeats
  <2>2. CASE UNCHANGED gatewayVars /\ (\/ Stop \/ Expire \/ (\E p \in Pids : Crash(p))
                                       \/ (\E t \in {"Shutdown", "Restart"} : SetOnReboot(t))
                                       \/ \E s \in Socks : Kick(s))
    <3>1. UNCHANGED desc
      BY <2>2 DEF gatewayVars
    <3> QED BY <2>2, <3>1, GameKinds, GameMovesSeats, AdmitsSeats
  <2> QED BY <1>3, <2>1, <2>2 DEF Fault
<1>4. CASE Wait60 \/ UNCHANGED vars
  BY <1>4 DEF Wait60, Cooldown, vars, gameVars, gatewayVars
<1> QED BY <1>1, <1>2, <1>3, <1>4 DEF Next, Over

\* Together the gateway and the game do what Seats promises, whatever fails:
\* each step of theirs is a step of Seats or leaves the seats as they are.
THEOREM SeatsImplemented == Spec => SeatsSpec
<1>1. Init => All /\ SeatInv /\ S!Init
  <2>1. Init => All
    BY AllInit
  <2> QED BY <2>1, SeatsInit
<1>2. All /\ SeatInv /\ [Next]_vars => All' /\ SeatInv' /\ [S!Next]_(S!vars)
  <2> SUFFICES ASSUME All, SeatInv, [Next]_vars
               PROVE  All' /\ SeatInv' /\ [S!Next]_(S!vars)
    OBVIOUS
  <2>1. All'
    BY AllStep
  <2>2. SeatInv'
    BY <2>1, SeatStep
  <2>3. UNCHANGED <<desc, gdesc>> => UNCHANGED S!vars
    BY DEF S!vars, Present, SeatOf
  <2> QED BY <2>1, <2>2, <2>3, SeatsNext
<1> QED BY <1>1, <1>2, PTL DEF Spec, SeatsSpec, S!Spec

-------------------------------------------------------------------------------
(***************************************************************************)
(* Proofs about GatewaySystem: the life of a session key, from the answer  *)
(* that brings it to the Close line that ends it, and what the gateway     *)
(* relies on when it acts on such a line without a look.                   *)
(***************************************************************************)

\* Where a key can be: in an answer, with a client, with who asks for the
\* session or plays it, and in a Close line.
Answered(k) == \E s \in Socks : \E m \in Lines(toGw[s]) : m.type = "SessionFor" /\ m.key = k
Held(k) == \E c \in Clients : desc[c].session = k
Asked(k) == \E s \in Socks : Asks(s, k)
Playing(k) == \E s \in Socks : gdesc[s].session = k
Closed(k) == \E s \in Socks : \E m \in Lines(toGw[s]) : m.type = "Close" /\ m.key = k

\* The game has no player on s, and will not get one.
PlayedOut(s) == gdesc[s].state = "none" /\ gameEnd[s] # "backlog"

\* It goes through these one after the other, on one connection, which is the
\* one of the client that holds it, if that has one.
LifeOf(k) ==
  /\ Answered(k) => ~Held(k) /\ ~Asked(k) /\ ~Playing(k) /\ ~Closed(k)
  /\ Asked(k) => ~Playing(k) /\ ~Closed(k)
  /\ Playing(k) => ~Closed(k)
  /\ \A s, t \in Socks : Asks(s, k) /\ Asks(t, k) => s = t
  /\ \A s, t \in Socks : gdesc[s].session = k /\ gdesc[t].session = k => s = t
  /\ \A c \in Clients : desc[c].session = k /\ desc[c].srv # None =>
       /\ \A s \in Socks : gdesc[s].session = k \/ Asks(s, k) => desc[c].srv = s
       /\ Closed(k) => PlayedOut(desc[c].srv)

\* A session is asked for once on a connection, in the first line.
OnlyFirst(q) == \A i \in DOMAIN q : q[i].type = "Session" => i = 1
SessionFirst ==
  \A s \in Socks :
    /\ OnlyFirst(inbuf[s]) /\ OnlyFirst(toGame[s])
    /\ inbuf[s] # <<>> => \A m \in Lines(toGame[s]) : m.type # "Session"

\* A key is sent once.
OnceEach(q) ==
  \A i, j \in DOMAIN q :
    q[i].type = "SessionFor" /\ q[j].type = "SessionFor" /\ q[i].key = q[j].key => i = j
AnsweredOnce ==
  /\ \A s \in Socks : OnceEach(toGw[s])
  /\ \A s, t \in Socks : \A m \in Lines(toGw[s]), n \in Lines(toGw[t]) :
       m.type = "SessionFor" /\ n.type = "SessionFor" /\ m.key = n.key => s = t

KeyInv == SessionFirst /\ AnsweredOnce /\ \A k \in Keys : LifeOf(k)

\* What operations on queues make of that.
LEMMA FirstTail ==
  ASSUME NEW q \in Seq(Messages), q # <<>>, OnlyFirst(q)
  PROVE  OnlyFirst(Tail(q)) /\ \A m \in Lines(Tail(q)) : m.type # "Session"
<1>1. \A i \in DOMAIN Tail(q) : i + 1 \in DOMAIN q /\ Tail(q)[i] = q[i + 1] /\ i \in Nat /\ i >= 1
  BY HeadTailProperties
<1>2. \A i \in DOMAIN Tail(q) : Tail(q)[i].type # "Session"
  <2> TAKE i \in DOMAIN Tail(q)
  <2>1. i + 1 # 1
    BY <1>1
  <2> QED BY <1>1, <2>1 DEF OnlyFirst
<1> QED BY <1>2 DEF OnlyFirst, Lines

LEMMA FirstOne == OnlyFirst(<<>>) /\ \A m : OnlyFirst(<<m>>)
  BY DEF OnlyFirst

LEMMA FirstAppend ==
  ASSUME NEW q \in Seq(Messages), NEW m, OnlyFirst(q), m.type # "Session"
  PROVE  OnlyFirst(Append(q, m))
<1>1. \A i \in DOMAIN Append(q, m) : \/ i \in DOMAIN q /\ Append(q, m)[i] = q[i]
                                     \/ Append(q, m)[i] = m
  OBVIOUS
<1> QED BY <1>1 DEF OnlyFirst

LEMMA ConcatAt ==
  ASSUME NEW q \in Seq(Messages), NEW r \in Seq(Messages), NEW i \in DOMAIN (q \o r)
  PROVE  \/ i \in DOMAIN q /\ (q \o r)[i] = q[i]
         \/ (q \o r)[i] \in Lines(r)
<1>1. /\ q \o r \in Seq(Messages) /\ DOMAIN (q \o r) = 1 .. Len(q) + Len(r)
      /\ (q \o r)[i] = IF i <= Len(q) THEN q[i] ELSE r[i - Len(q)]
  BY ConcatProperties, LenProperties
<1>2. Len(q) \in Nat /\ Len(r) \in Nat /\ DOMAIN q = 1 .. Len(q) /\ DOMAIN r = 1 .. Len(r)
  BY LenProperties
<1>3. CASE i <= Len(q)
  BY <1>1, <1>2, <1>3
<1>4. CASE ~(i <= Len(q))
  <2>1. i - Len(q) \in DOMAIN r /\ (q \o r)[i] = r[i - Len(q)]
    BY <1>1, <1>2, <1>4
  <2> QED BY <2>1 DEF Lines
<1> QED BY <1>3, <1>4

\* What is read from a connection joins what was read before.
LEMMA FirstConcat ==
  ASSUME NEW q \in Seq(Messages), NEW r \in Seq(Messages), OnlyFirst(q), OnlyFirst(r),
         q # <<>> => \A m \in Lines(r) : m.type # "Session"
  PROVE  OnlyFirst(q \o r)
<1>1. CASE q = <<>>
  BY <1>1, ConcatEmptySeq
<1>2. CASE q # <<>>
  BY <1>2, ConcatAt DEF OnlyFirst
<1> QED BY <1>1, <1>2

\* r has no answer that is not in q, at the same place.
NoNewAnswer(r, q) == \A i \in DOMAIN r : r[i].type = "SessionFor" => i \in DOMAIN q /\ r[i] = q[i]

LEMMA OnceTail ==
  ASSUME NEW q \in Seq(Messages), q # <<>>, OnceEach(q)
  PROVE  /\ OnceEach(Tail(q))
         /\ Head(q).type = "SessionFor" =>
              \A m \in Lines(Tail(q)) : m.type = "SessionFor" => m.key # Head(q).key
<1>1. Head(q) = q[1] /\ 1 \in DOMAIN q
  BY HeadTailProperties
<1>2. \A i \in DOMAIN Tail(q) : i + 1 \in DOMAIN q /\ Tail(q)[i] = q[i + 1] /\ i \in Nat /\ i >= 1
  BY HeadTailProperties
<1>3. \A i, j \in DOMAIN Tail(q) : i + 1 = j + 1 => i = j
  BY <1>2
<1>4. \A i \in DOMAIN Tail(q) : i + 1 # 1
  BY <1>2
<1> QED BY <1>1, <1>2, <1>3, <1>4 DEF OnceEach, Lines

LEMMA OnceKept ==
  ASSUME NEW q, NEW r, OnceEach(q), NoNewAnswer(r, q)
  PROVE  OnceEach(r)
  BY DEF OnceEach, NoNewAnswer

LEMMA AppendAt ==
  ASSUME NEW q \in Seq(Messages), NEW m, NEW i \in DOMAIN Append(q, m)
  PROVE  \/ i \in DOMAIN q /\ Append(q, m)[i] = q[i]
         \/ i = Len(q) + 1 /\ Append(q, m)[i] = m
  OBVIOUS

LEMMA OnceAppend ==
  ASSUME NEW q \in Seq(Messages), NEW m, OnceEach(q),
         \A n \in Lines(q) : n.type = "SessionFor" => n.key # m.key
  PROVE  OnceEach(Append(q, m))
  BY AppendAt DEF OnceEach, Lines

LEMMA NewLines ==
  ASSUME NEW q \in Seq(Messages), NEW r \in Seq(Messages),
         \A m \in Lines(r) : m.type # "SessionFor"
  PROVE  NoNewAnswer(q \o r, q)
  BY ConcatAt DEF NoNewAnswer

LEMMA NewLine ==
  ASSUME NEW q \in Seq(Messages), NEW m, m.type # "SessionFor"
  PROVE  NoNewAnswer(Append(q, m), q)
  BY AppendAt DEF NoNewAnswer

\* The queues to the gateway after a step that sends no key.
LEMMA AnswersRead ==
  ASSUME All, AnsweredOnce,
         \A s \in Socks : \/ NoNewAnswer(toGw'[s], toGw[s])
                          \/ toGw[s] # <<>> /\ toGw'[s] = Tail(toGw[s])
  PROVE  AnsweredOnce'
<1>1. \A s \in Socks : toGw[s] \in Seq(Messages) /\ OnceEach(toGw[s])
  BY AllTypes DEF AnsweredOnce
<1>2. \A s \in Socks : OnceEach(toGw'[s])
  BY <1>1, OnceTail, OnceKept
<1>3. ASSUME NEW s \in Socks, NEW m \in Lines(toGw'[s]), m.type = "SessionFor"
      PROVE  m \in Lines(toGw[s])
  <2>1. CASE NoNewAnswer(toGw'[s], toGw[s])
    BY <1>3, <2>1 DEF NoNewAnswer, Lines
  <2>2. CASE toGw[s] # <<>> /\ toGw'[s] = Tail(toGw[s])
    <3>1. Lines(Tail(toGw[s])) \subseteq Lines(toGw[s])
      BY <1>1, <2>2, LineFacts
    <3> QED BY <1>3, <2>2, <3>1
  <2> QED BY <2>1, <2>2
<1> QED BY <1>2, <1>3 DEF AnsweredOnce

LEMMA NoneNew == \A q : NoNewAnswer(q, q) /\ NoNewAnswer(<<>>, q)
  BY DEF NoNewAnswer

\* What a step may do to a key that is in use, but for taking it to its next
\* place: it is forgotten here and there, and a Close line is about a player
\* who is no longer there.
Wanes(k) ==
  /\ Answered(k)' => Answered(k)
  /\ \A c \in Clients : desc'[c].session = k =>
       /\ desc[c].session = k
       /\ desc'[c].srv # None =>
            /\ desc'[c].srv = desc[c].srv
            /\ \A s \in Socks : s = desc[c].srv /\ PlayedOut(s) => PlayedOut(s)'
  /\ \A s \in Socks : Asks(s, k)' => Asks(s, k)
  /\ \A s \in Socks : gdesc'[s].session = k => gdesc[s].session = k
  /\ Closed(k)' =>
       \/ Closed(k)
       \/ \E s \in Socks : gdesc[s].session = k /\ gdesc'[s].session # k /\ PlayedOut(s)'

LEMMA WanesLife ==
  ASSUME All, NEW k \in Keys, LifeOf(k), Wanes(k)
  PROVE  LifeOf(k)'
<1>1. /\ Answered(k)' => Answered(k)
      /\ Held(k)' => Held(k)
      /\ Asked(k)' => Asked(k)
      /\ Playing(k)' => Playing(k)
  BY DEF Wanes, Held, Asked, Playing
<1>4. \A s \in Socks : gdesc'[s].session = k => gdesc[s].session = k
  BY DEF Wanes
<1>6. ASSUME Closed(k)'
      PROVE  \/ Closed(k)
             \/ \E t \in Socks : gdesc[t].session = k /\ gdesc'[t].session # k /\ PlayedOut(t)'
  BY <1>6 DEF Wanes
<1>7. Closed(k)' => Closed(k) \/ (Playing(k) /\ ~(Playing(k)'))
  <2> SUFFICES ASSUME NEW t \in Socks, gdesc[t].session = k, gdesc'[t].session # k
               PROVE  Playing(k) /\ ~(Playing(k)')
    BY <1>6
  <2> QED BY <1>4 DEF Playing, LifeOf
<1>8. ASSUME NEW c \in Clients, desc'[c].session = k, desc'[c].srv # None
      PROVE  /\ \A s \in Socks : gdesc'[s].session = k \/ Asks(s, k)' => desc'[c].srv = s
             /\ Closed(k)' => gdesc'[desc'[c].srv].state = "none" /\ gameEnd'[desc'[c].srv] # "backlog"
  <2>1. /\ desc'[c].srv = desc[c].srv /\ desc[c].session = k /\ desc[c].srv # None
        /\ desc[c].srv \in Socks
    BY <1>8, AllTypes DEF Wanes, Descriptors
  <2> DEFINE t == desc[c].srv
  <2>2. /\ \A s \in Socks : gdesc[s].session = k \/ Asks(s, k) => t = s
        /\ Closed(k) => PlayedOut(t)
    BY <2>1 DEF LifeOf
  <2>3. \A s \in Socks : gdesc'[s].session = k \/ Asks(s, k)' => t = s
    BY <1>4, <2>2 DEF Wanes
  <2>4. PlayedOut(t) => gdesc'[t].state = "none" /\ gameEnd'[t] # "backlog"
    BY <1>8, <2>1 DEF Wanes, PlayedOut
  <2> HIDE DEF t
  <2>5. Closed(k)' => gdesc'[t].state = "none" /\ gameEnd'[t] # "backlog"
    <3>1. ASSUME NEW u \in Socks, gdesc[u].session = k, PlayedOut(u)'
          PROVE  gdesc'[t].state = "none" /\ gameEnd'[t] # "backlog"
      <4>1. t = u
        BY <2>2, <3>1
      <4> QED BY <3>1, <4>1 DEF PlayedOut
    <3> QED BY <1>6, <2>2, <2>4, <3>1
  <2> QED BY <2>1, <2>3, <2>5 DEF t
<1>9. /\ \A s, t \in Socks : Asks(s, k)' /\ Asks(t, k)' => s = t
      /\ \A s, t \in Socks : gdesc'[s].session = k /\ gdesc'[t].session = k => s = t
  BY <1>4 DEF Wanes, LifeOf
<1>10. /\ Answered(k) => ~Held(k) /\ ~Asked(k) /\ ~Playing(k) /\ ~Closed(k)
       /\ Asked(k) => ~Playing(k) /\ ~Closed(k)
       /\ Playing(k) => ~Closed(k)
  BY DEF LifeOf
<1>11. /\ (Answered(k)' => ~(Held(k)') /\ ~(Asked(k)') /\ ~(Playing(k)') /\ ~(Closed(k)'))
       /\ (Asked(k)' => ~(Playing(k)') /\ ~(Closed(k)'))
       /\ (Playing(k)' => ~(Closed(k)'))
  BY <1>1, <1>7, <1>10
<1> QED BY <1>8, <1>9, <1>11 DEF LifeOf, PlayedOut

\* The gateway's steps, but for reading an answer: some clients are dropped,
\* or lose their connections, lines that are no sessions are written, and
\* lines from the game are read or lost.
Loses ==
  /\ \A c \in Clients :
       /\ desc'[c].session \in {None, desc[c].session}
       /\ desc'[c].srv # None => desc'[c].srv = desc[c].srv /\ desc'[c].session = desc[c].session
  /\ \A s \in Socks :
       \/ toGame'[s] = toGame[s]
       \/ \E m : m.type # "Session" /\ toGame'[s] \in {<<m>>, Append(toGame[s], m)}
  /\ \A s \in Socks : \/ toGw'[s] \in {toGw[s], <<>>}
                      \/ toGw[s] # <<>> /\ toGw'[s] = Tail(toGw[s])
  /\ \A s \in Socks : gameEnd'[s] = "backlog" => gameEnd[s] = "backlog" \/ \A c \in Clients : desc[c].srv # s

\* A client that keeps its key keeps its connection: all of them but the two
\* that unwire everybody.
Forgets ==
  /\ Loses
  /\ \A c \in Clients : desc'[c].session # None => desc'[c].srv = desc[c].srv

LEMMA LosesLines ==
  ASSUME All, UNCHANGED gameVars, Loses
  PROVE  /\ \A s \in Socks : \A m \in Lines(toGame'[s]) : m.type = "Session" => m \in Lines(toGame[s])
         /\ \A s \in Socks : Lines(toGw'[s]) \subseteq Lines(toGw[s])
         /\ \A s \in Socks, k \in Keys : Asks(s, k)' => Asks(s, k)
<1>1. \A s \in Socks : \A m \in Lines(toGame'[s]) : m.type = "Session" => m \in Lines(toGame[s])
  <2> SUFFICES ASSUME NEW s \in Socks, NEW m, m.type # "Session",
                      toGame'[s] \in {<<m>>, Append(toGame[s], m)}
               PROVE  Lines(toGame'[s]) \subseteq Lines(toGame[s]) \union {m}
    BY DEF Loses
  <2> QED BY LinesOne, LinesAppend, AllTypes
<1>2. \A s \in Socks : Lines(toGw'[s]) \subseteq Lines(toGw[s])
  <2>1. Lines(<<>>) = {}
    BY DEF Lines
  <2>2. \A s \in Socks : toGw[s] # <<>> => Lines(Tail(toGw[s])) \subseteq Lines(toGw[s])
    BY AllTypes, LineFacts
  <2> QED BY <2>1, <2>2 DEF Loses
<1>3. \A s \in Socks, k \in Keys : Asks(s, k)' => Asks(s, k)
  BY <1>1 DEF Asks, gameVars
<1> QED BY <1>1, <1>2, <1>3

LEMMA LosesKeys ==
  ASSUME All, KeyInv, UNCHANGED gameVars, Loses
  PROVE  KeyInv'
<1>a. UNCHANGED <<inbuf, gdesc>> /\ SessionFirst /\ AnsweredOnce
  BY DEF gameVars, KeyInv
<1>1. /\ \A s \in Socks : \A m \in Lines(toGame'[s]) : m.type = "Session" => m \in Lines(toGame[s])
      /\ \A s \in Socks : Lines(toGw'[s]) \subseteq Lines(toGw[s])
      /\ \A s \in Socks, k \in Keys : Asks(s, k)' => Asks(s, k)
  BY LosesLines
<1>2. \A s \in Socks : OnlyFirst(toGame'[s])
  <2> SUFFICES ASSUME NEW s \in Socks, NEW m, m.type # "Session",
                      toGame'[s] \in {<<m>>, Append(toGame[s], m)}
               PROVE  OnlyFirst(toGame'[s])
    BY <1>a DEF Loses, SessionFirst
  <2>1. toGame[s] \in Seq(Messages) /\ OnlyFirst(toGame[s])
    BY <1>a, AllTypes DEF SessionFirst
  <2>2. OnlyFirst(<<m>>) /\ OnlyFirst(Append(toGame[s], m))
    BY <2>1, FirstOne, FirstAppend
  <2> QED BY <2>2
<1>3. SessionFirst'
  BY <1>a, <1>1, <1>2 DEF SessionFirst
<1>4. AnsweredOnce'
  BY <1>a, NoneNew, AnswersRead DEF Loses
<1>7. \A c \in Clients, s \in Socks : s = desc[c].srv /\ PlayedOut(s) => PlayedOut(s)'
  BY <1>a DEF Loses, PlayedOut
<1>8. ASSUME NEW k \in Keys PROVE Wanes(k)
  <2>1. k # None
    BY AllTypes
  <2>2. (Answered(k)' => Answered(k)) /\ (Closed(k)' => Closed(k))
    BY <1>1 DEF Answered, Closed
  <2> QED BY <1>a, <1>1, <1>7, <2>1, <2>2 DEF Wanes, Loses
<1> QED BY <1>3, <1>4, <1>8, WanesLife DEF KeyInv

LEMMA DropForgets ==
  ASSUME All, NEW C, Drop(C), \E A : GatewayCloses(A), UNCHANGED <<toGame, gameEnd>>
  PROVE  Forgets
<1>1. \A c \in Clients : desc'[c] = IF c \in C THEN Fresh("gone") ELSE desc[c]
  BY DEF Drop
<1>2. Fresh("gone").session = None /\ Fresh("gone").srv = None
  BY DEF Fresh
<1>3. \A s \in Socks : toGw'[s] \in {toGw[s], <<>>}
  BY DEF GatewayCloses
<1> QED BY <1>1, <1>2, <1>3 DEF Loses, Forgets

LEMMA ShutdownLoses ==
  ASSUME All, desc' = Shutdown(desc)
  PROVE  \A c \in Clients : desc'[c].session = desc[c].session /\ desc'[c].srv \in {None, desc[c].srv}
<1> TAKE c \in Clients
<1>1. desc[c] \in Descriptors
  BY AllTypes
<1>2. desc[c].st \in {"new", "gone"} => desc'[c] = desc[c]
  BY DEF Shutdown
<1>3. desc[c].st \notin {"new", "gone"} => desc'[c] = [desc[c] EXCEPT !.st = "awaitingConnection", !.srv = None]
  BY DEF Shutdown
<1> QED BY <1>1, <1>2, <1>3 DEF Descriptors

LEMMA AsideForgets ==
  ASSUME All,
         \/ NetDone \/ InputDone \/ ClientsDone \/ ClientStep \/ Cooldown \/ LinkBreaks
         \/ GatewayRestarts \/ (\E p \in Pids : StartByHand(p)) \/ Supervise
         \/ \E c \in Clients : RequestSession(c) \/ ServerLost(c) \/ Forward(c)
  PROVE  Forgets
<1>1. CASE \E C : Drop(C) /\ (\E A : GatewayCloses(A)) /\ UNCHANGED <<toGame, gameEnd>>
  BY <1>1, DropForgets
<1>2. CASE \E c \in Clients : ClientArrives(c)
  <2> PICK c \in Clients : ClientArrives(c)
    BY <1>2
  <2> DEFINE new == [Fresh(FirstStatus(c)) EXCEPT !.open = TRUE]
  <2>1. desc' = [desc EXCEPT ![c] = new] /\ UNCHANGED netVars
    BY DEF ClientArrives
  <2>2. new.session = None /\ new.srv = None
    BY DEF Fresh
  <2> HIDE DEF new
  <2> QED BY <2>1, <2>2, AllTypes DEF Loses, Forgets, netVars
<1>3. ASSUME \A c \in Clients : desc'[c].srv = desc[c].srv /\ desc'[c].session = desc[c].session,
             UNCHANGED gameEnd, UNCHANGED toGw \/ \E A : GatewayCloses(A),
             \A s \in Socks : \/ toGame'[s] = toGame[s]
                              \/ \E m : m.type # "Session" /\ toGame'[s] \in {<<m>>, Append(toGame[s], m)}
      PROVE  Forgets
  <2>1. \A s \in Socks : toGw'[s] \in {toGw[s], <<>>}
    BY <1>3 DEF GatewayCloses
  <2> QED BY <1>3, <2>1 DEF Loses, Forgets
<1>4. CASE \E c \in Clients : Handshake(c) \/ RequestSession(c)
  <2> PICK c \in Clients : Handshake(c) \/ RequestSession(c)
    BY <1>4
  <2>1. \/ desc' = [desc EXCEPT ![c].st = "awaitingConnection", ![c].shaken = TRUE]
        \/ desc' = [desc EXCEPT ![c].st = "disconnected"]
        \/ desc' = [desc EXCEPT ![c].st = "retrievingSession"]
    BY DEF Handshake, RequestSession
  <2>2. \A d \in Clients : desc'[d].srv = desc[d].srv /\ desc'[d].session = desc[d].session
    <3>1. ASSUME NEW d \in Clients
          PROVE  \/ desc'[d] = desc[d]
                 \/ desc'[d] = [desc[d] EXCEPT !.st = "awaitingConnection", !.shaken = TRUE]
                 \/ \E st : desc'[d] = [desc[d] EXCEPT !.st = st]
      <4>1. DOMAIN desc = Clients
        BY AllTypes
      <4>2. CASE desc' = [desc EXCEPT ![c].st = "awaitingConnection", ![c].shaken = TRUE]
        BY <4>1, <4>2
      <4>3. ASSUME NEW st, desc' = [desc EXCEPT ![c].st = st]
            PROVE  desc'[d] \in {desc[d], [desc[d] EXCEPT !.st = st]}
        BY <4>1, <4>3
      <4> QED BY <2>1, <4>2, <4>3
    <3>2. \A d \in Clients : desc[d] \in Descriptors
      BY AllTypes
    <3> QED BY <3>1, <3>2 DEF Descriptors
  <2> DEFINE m == [type |-> "Host", client |-> c]
  <2>3. /\ UNCHANGED gameEnd /\ (UNCHANGED toGw \/ \E A : GatewayCloses(A))
        /\ UNCHANGED toGame \/ toGame' = [toGame EXCEPT ![mother] = Append(@, m)]
    BY DEF Handshake, RequestSession, netVars
  <2>4. m.type # "Session"
    OBVIOUS
  <2> HIDE DEF m
  <2>5. \A s \in Socks : toGame'[s] \in {toGame[s], Append(toGame[s], m)}
    BY <2>3, AllTypes
  <2> QED BY <1>3, <2>2, <2>3, <2>4, <2>5
<1>5. CASE \E c \in Clients : Forward(c)
  <2> DEFINE m == Message("Line")
  <2>1. /\ UNCHANGED <<desc, gameEnd, toGw>>
        /\ \E c \in Clients : toGame' = [toGame EXCEPT ![desc[c].srv] = <<m>>]
    BY <1>5 DEF Forward, gatewayVars
  <2>2. m.type # "Session"
    BY DEF Message
  <2> HIDE DEF m
  <2>3. \A s \in Socks : toGame'[s] \in {toGame[s], <<m>>}
    BY <2>1, AllTypes
  <2> QED BY <1>3, <2>1, <2>2, <2>3
<1>6. CASE InputDone \/ ClientsDone \/ Cooldown \/ LinkBreaks \/ (\E p \in Pids : StartByHand(p))
           \/ (Supervise /\ UNCHANGED desc)
  <2>1. /\ UNCHANGED <<desc, toGame, gameEnd>>
        /\ UNCHANGED toGw \/ \E A : GatewayCloses(A)
    BY <1>6 DEF InputDone, ClientsDone, Cooldown, LinkBreaks, StartByHand, netVars, gatewayVars, Supervise
  <2> QED BY <1>3, <2>1
<1>7. CASE \/ NetDone \/ GatewayRestarts \/ (Supervise /\ desc' # desc)
           \/ (\E c \in Clients : ClientLeaves(c) \/ ServerLost(c))
  <2>1. \E C : Drop(C)
    BY <1>7, Zenon DEF NetDone, GatewayRestarts, ClientLeaves, ServerLost, Supervise
  <2>2. \E A : GatewayCloses(A)
    BY <1>7, Zenon DEF NetDone, GatewayRestarts, ClientLeaves, ServerLost, Supervise
  <2>3. UNCHANGED <<toGame, gameEnd>>
    BY <1>7, Zenon DEF NetDone, GatewayRestarts, ClientLeaves, ServerLost, Supervise
  <2> QED BY <1>1, <2>1, <2>2, <2>3
<1> QED BY <1>2, <1>4, <1>5, <1>6, <1>7 DEF ClientStep

LEMMA LinkDownLoses ==
  ASSUME All, LinkDown
  PROVE  Loses
<1>1. desc' = Shutdown(desc) \/ UNCHANGED desc
  BY DEF LinkDown
<1>2. \A c \in Clients : desc'[c].session = desc[c].session /\ desc'[c].srv \in {None, desc[c].srv}
  BY <1>1, ShutdownLoses
<1>3. \A s \in Socks : toGw'[s] \in {toGw[s], <<>>}
  BY DEF LinkDown, GatewayCloses
<1>4. CASE Listening = {}
  <2>1. UNCHANGED <<toGame, gameEnd>>
    BY <1>4 DEF LinkDown
  <2> QED BY <1>2, <1>3, <2>1 DEF Loses
<1>5. CASE Listening # {}
  <2> DEFINE m == Message("Validate")
             s0 == FreeSock
  <2>1. /\ \E p \in Listening : \E A : Connect(FreeSock, p, Message("Validate"), A)
        /\ UsableSocks # {} /\ FreeSock \in Socks
    BY <1>5, SocketTypes DEF LinkDown
  <2>2. \A c \in Clients : desc[c].srv # FreeSock
    BY <2>1 DEF UsableSocks, FreeSock
  <2>3. gameEnd' = [gameEnd EXCEPT ![s0] = "backlog"] /\ toGame' = [toGame EXCEPT ![s0] = <<m>>]
    BY <2>1 DEF Connect
  <2>4. m.type # "Session" /\ \A c \in Clients : desc[c].srv # s0
    BY <2>2 DEF Message
  <2> HIDE DEF m, s0
  <2>5. \A s \in Socks : /\ toGame'[s] \in {toGame[s], <<m>>}
                         /\ gameEnd'[s] = "backlog" => gameEnd[s] = "backlog" \/ s = s0
    BY <2>3, AllTypes
  <2> QED BY <1>2, <1>3, <2>4, <2>5 DEF Loses
<1> QED BY <1>4, <1>5

\* Any line but an answer.
LEMMA InputLoses ==
  ASSUME All, Input, Head(toGw[mother]).type # "SessionFor"
  PROVE  Loses /\ (Head(toGw[mother]).type # "Reboot" => Forgets)
<1> DEFINE m == Head(toGw[mother])
<1>1. /\ toGw[mother] # <<>> /\ UNCHANGED <<toGame, gameEnd>>
      /\ \A s \in Socks : \/ toGw'[s] \in {toGw[s], <<>>}
                          \/ toGw[s] # <<>> /\ toGw'[s] = Tail(toGw[s])
  BY DEF Input
<1>2. CASE m.type = "Close"
  <2>1. CloseSession(m.key)
    BY <1>2 DEF Input
  <2> HIDE DEF m
  <2>2. UNCHANGED desc \/ \E c \in Clients : desc' = [desc EXCEPT ![c] = Fresh("gone")]
    BY <2>1 DEF CloseSession, Closing
  <2>3. Fresh("gone").session = None /\ Fresh("gone").srv = None
    BY DEF Fresh
  <2>4. \A c \in Clients : desc'[c] \in {desc[c], Fresh("gone")}
    BY <2>2, AllTypes
  <2> QED BY <1>1, <2>3, <2>4 DEF Loses, Forgets
<1>3. CASE m.type = "Reboot"
  <2>1. desc' = Shutdown(desc)
    BY <1>3 DEF Input
  <2>2. Loses
    BY <1>1, <2>1, ShutdownLoses DEF Loses
  <2> QED BY <1>3, <2>2
<1>4. CASE m.type \notin {"Close", "Reboot"}
  <2>1. UNCHANGED desc
    BY <1>4 DEF Input
  <2> QED BY <1>1, <2>1 DEF Loses, Forgets
<1> QED BY <1>2, <1>3, <1>4

\* An answer gives the key to a client, and has the game asked for it on a
\* new connection.
Takes(c, k) ==
  /\ Answered(k) /\ ~(Answered(k)') /\ AnsweredOnce'
  /\ \A s \in Socks : Lines(toGw'[s]) \subseteq Lines(toGw[s])
  /\ \A d \in Clients : d # c => desc'[d] = desc[d]
  /\ desc'[c].session = k
  /\ \/ desc'[c].srv = None /\ Listening = {} /\ UNCHANGED <<toGame, gameEnd>>
     \/ \E s \in Socks :
          /\ desc'[c].srv = s /\ \A d \in Clients : desc[d].srv # s
          /\ gameEnd[s] = "gone"
          /\ gameEnd' = [gameEnd EXCEPT ![s] = "backlog"]
          /\ toGame' = [toGame EXCEPT ![s] = <<[type |-> "Session", key |-> k]>>]

LEMMA TakesKeys ==
  ASSUME All, KeyInv, UNCHANGED gameVars, NEW c \in Clients, NEW k \in Keys, Takes(c, k)
  PROVE  KeyInv'
<1>a. UNCHANGED <<inbuf, gdesc>> /\ SessionFirst /\ k # None
  BY AllTypes DEF gameVars, KeyInv
<1>b. LifeOf(k) /\ ~Held(k) /\ ~Asked(k) /\ ~Playing(k) /\ ~Closed(k)
  BY DEF KeyInv, Takes, LifeOf
<1> DEFINE m == [type |-> "Session", key |-> k]
<1>c. m.key = k
  OBVIOUS
<1>d. \/ desc'[c].srv = None /\ UNCHANGED <<toGame, gameEnd>>
      \/ \E s \in Socks :
           /\ desc'[c].srv = s /\ \A d \in Clients : desc[d].srv # s
           /\ inbuf[s] = <<>>
           /\ gameEnd'[s] = "backlog"
           /\ toGame'[s] = <<m>>
           /\ \A t \in Socks : t # s => gameEnd'[t] = gameEnd[t] /\ toGame'[t] = toGame[t]
  <2>1. \A s \in Socks : gameEnd[s] = "gone" => inbuf[s] = <<>>
    BY DEF All, PortInv, Buffers
  <2> QED BY <2>1, AllTypes DEF Takes
<1> HIDE DEF m
<1>e. Lines(<<>>) = {} /\ Lines(<<m>>) = {m} /\ OnlyFirst(<<m>>)
  BY LinesOne, FirstOne DEF Lines
<1>1. SessionFirst'
  BY <1>a, <1>d, <1>e DEF SessionFirst
<1>2. \A s \in Socks, j \in Keys : Asks(s, j)' => Asks(s, j) \/ (j = k /\ desc'[c].srv = s)
  BY <1>a, <1>c, <1>d, <1>e DEF Asks
<1>3. (Closed(k)' => Closed(k)) /\ \A j \in Keys : (Answered(j)' => Answered(j)) /\ (Closed(j)' => Closed(j))
  BY DEF Takes, Answered, Closed
<1>4. ASSUME NEW j \in Keys, j # k PROVE Wanes(j)
  <2>1. ASSUME NEW d \in Clients, desc'[d].session = j
        PROVE  /\ desc[d].session = j /\ desc'[d].srv = desc[d].srv
               /\ \A s \in Socks : s = desc[d].srv /\ PlayedOut(s) => PlayedOut(s)'
    <3>1. d # c /\ desc'[d] = desc[d]
      BY <1>4, <2>1 DEF Takes
    <3>2. \A s \in Socks : s = desc[d].srv => gameEnd'[s] = gameEnd[s]
      BY <1>d
    <3> QED BY <1>a, <2>1, <3>1, <3>2 DEF PlayedOut
  <2> QED BY <1>a, <1>2, <1>3, <1>4, <2>1 DEF Wanes
<1>5. LifeOf(k)'
  <2>1. ~(Playing(k)') /\ ~(Closed(k)') /\ ~(Answered(k)')
    BY <1>a, <1>b, <1>3 DEF Takes, Playing
  <2>2. \A s \in Socks : Asks(s, k)' => desc'[c].srv = s
    BY <1>b, <1>2 DEF Asked
  <2>3. \A d \in Clients : desc'[d].session = k => d = c
    BY <1>b DEF Takes, Held
  <2>4. \A s \in Socks : gdesc'[s].session # k
    BY <2>1 DEF Playing
  <2> QED BY <2>1, <2>2, <2>3, <2>4 DEF LifeOf
<1> QED BY <1>1, <1>4, <1>5, WanesLife DEF KeyInv, Takes

LEMMA AnswerTakes ==
  ASSUME All, KeyInv, UNCHANGED gameVars, Input, Head(toGw[mother]).type = "SessionFor"
  PROVE  Forgets \/ \E c \in Clients, k \in Keys : Takes(c, k)
<1> DEFINE m == Head(toGw[mother])
<1>a. /\ pc = "input" /\ mother \in Socks /\ toGw[mother] # <<>>
      /\ toGw[mother] \in Seq(Messages) /\ m.type = "SessionFor"
  BY AllTypes DEF Input, Reading, isConnectedToGameServer
<1>b. /\ m \in Lines(toGw[mother]) /\ m \in Messages
      /\ Lines(Tail(toGw[mother])) \subseteq Lines(toGw[mother]) /\ Lines(<<>>) = {}
  BY <1>a, LineFacts
<1>c. PICK c \in Clients, k \in Keys : c = m.client /\ k = m.key
  BY <1>a, <1>b DEF Messages
<1>d. /\ \A s \in Socks : \/ toGw'[s] \in {toGw[s], <<>>}
                          \/ s = mother /\ toGw'[s] = Tail(toGw[mother])
      /\ toGw'[mother] \in {<<>>, Tail(toGw[mother])}
  BY <1>a DEF Input
<1>e. \A s \in Socks : Lines(toGw'[s]) \subseteq Lines(toGw[s])
  BY <1>b, <1>d
<1>f. OpenSession(c, k)
  BY <1>a, <1>c DEF Input
<1>g. AnsweredOnce'
  <2>1. AnsweredOnce
    BY DEF KeyInv
  <2> QED BY <1>a, <1>d, <2>1, NoneNew, AnswersRead
<1>h. Answered(k) /\ ~(Answered(k)')
  <2>1. \A n \in Lines(Tail(toGw[mother])) : n.type = "SessionFor" => n.key # k
    <3>1. OnceEach(toGw[mother])
      BY <1>a DEF KeyInv, AnsweredOnce
    <3> QED BY <1>a, <1>c, <3>1, OnceTail
  <2>2. \A s \in Socks : \A n \in Lines(toGw[s]) : n.type = "SessionFor" /\ n.key = k => s = mother
    BY <1>a, <1>b, <1>c DEF KeyInv, AnsweredOnce
  <2>3. \A s \in Socks : \A n \in Lines(toGw'[s]) : ~(n.type = "SessionFor" /\ n.key = k)
    BY <1>b, <1>d, <1>e, <2>1, <2>2
  <2> QED BY <1>a, <1>b, <1>c, <2>3 DEF Answered
<1>i. desc \in [Clients -> Descriptors]
  BY AllTypes
<1> HIDE DEF m
<1>1. CASE ~Present(c)
  <2>1. UNCHANGED <<desc, gameEnd, toGame>>
    BY <1>1, <1>f DEF OpenSession
  <2>2. Forgets
    BY <1>a, <1>d, <2>1 DEF Loses, Forgets
  <2> QED BY <2>2
<1>2. CASE Present(c) /\ Listening = {}
  <2>1. /\ desc' = [desc EXCEPT ![c] = [@ EXCEPT !.session = k, !.open = FALSE,
                                          !.srv = None, !.st = "disconnected"]]
        /\ UNCHANGED <<toGame, gameEnd>>
    BY <1>2, <1>f DEF OpenSession
  <2>2. /\ \A d \in Clients : d # c => desc'[d] = desc[d]
        /\ desc'[c].session = k /\ desc'[c].srv = None
    BY <1>c, <1>i, <2>1 DEF Descriptors
  <2>3. Takes(c, k)
    BY <1>2, <1>e, <1>g, <1>h, <2>1, <2>2 DEF Takes
  <2> QED BY <1>c, <2>3
<1>3. CASE Present(c) /\ Listening # {}
  <2> DEFINE s0 == FreeSock
             l == [type |-> "Session", key |-> k]
  <2>1. /\ \E p \in Listening : Connect(FreeSock, p, [type |-> "Session", key |-> k], {desc[c].srv})
        /\ desc' = [desc EXCEPT ![c] = [@ EXCEPT !.session = k, !.srv = s0, !.st = "connected"]]
        /\ UsableSocks # {}
    BY <1>3, <1>f DEF OpenSession
  <2>2. s0 \in Socks /\ \A d \in Clients : desc[d].srv # s0
    BY <2>1 DEF UsableSocks, FreeSock
  <2>3. /\ gameEnd[s0] = "gone" /\ gameEnd' = [gameEnd EXCEPT ![s0] = "backlog"]
        /\ toGame' = [toGame EXCEPT ![s0] = <<l>>]
    BY <2>1 DEF Connect, Unused
  <2> HIDE DEF s0
  <2>4. /\ \A d \in Clients : d # c => desc'[d] = desc[d]
        /\ desc'[c].session = k /\ desc'[c].srv = s0
    <3>1. desc[c] \in Descriptors /\ desc'[c] = [desc[c] EXCEPT !.session = k, !.srv = s0,
                                                               !.st = "connected"]
      BY <1>c, <1>i, <2>1
    <3>2. \A d \in Clients : d # c => desc'[d] = desc[d]
      BY <1>i, <2>1
    <3> QED BY <3>1, <3>2 DEF Descriptors
  <2>5. Takes(c, k)
    BY <1>e, <1>g, <1>h, <2>2, <2>3, <2>4 DEF Takes
  <2> QED BY <1>c, <2>5
<1> QED BY <1>1, <1>2, <1>3

LEMMA GatewayKeys ==
  ASSUME All, KeyInv, UNCHANGED gameVars,
         \/ GatewayLoop \/ ClientStep \/ Cooldown \/ LinkBreaks \/ GatewayRestarts
         \/ (\E p \in Pids : StartByHand(p)) \/ \E c \in Clients : Forward(c)
  PROVE  KeyInv'
<1>1. CASE Input
  <2>1. CASE Head(toGw[mother]).type = "SessionFor"
    BY <1>1, <2>1, AnswerTakes, LosesKeys, TakesKeys DEF Forgets
  <2>2. CASE Head(toGw[mother]).type # "SessionFor"
    BY <1>1, <2>2, InputLoses, LosesKeys
  <2> QED BY <2>1, <2>2
<1>2. CASE LinkDown
  BY <1>2, LinkDownLoses, LosesKeys
<1>3. CASE ~(Input \/ LinkDown)
  BY <1>3, AsideForgets, LosesKeys DEF GatewayLoop, Forgets
<1> QED BY <1>1, <1>2, <1>3

\* What is to be read by the game is read, or lost.
GameQueues ==
  \A s \in Socks :
    \/ inbuf'[s] \in {inbuf[s], <<>>} /\ toGame'[s] \in {toGame[s], <<>>}
    \/ inbuf[s] # <<>> /\ inbuf'[s] = Tail(inbuf[s]) /\ toGame'[s] = toGame[s]
    \/ inbuf'[s] = inbuf[s] \o toGame[s] /\ toGame'[s] = <<>>

LEMMA FirstStep ==
  ASSUME All, SessionFirst, GameQueues
  PROVE  SessionFirst'
<1> SUFFICES ASSUME NEW s \in Socks
             PROVE  /\ OnlyFirst(inbuf'[s]) /\ OnlyFirst(toGame'[s])
                    /\ inbuf'[s] # <<>> => \A m \in Lines(toGame'[s]) : m.type # "Session"
  BY DEF SessionFirst
<1>1. /\ OnlyFirst(inbuf[s]) /\ OnlyFirst(toGame[s])
      /\ inbuf[s] # <<>> => \A m \in Lines(toGame[s]) : m.type # "Session"
      /\ inbuf[s] \in Seq(Messages) /\ toGame[s] \in Seq(Messages)
  BY AllTypes DEF SessionFirst
<1>2. OnlyFirst(<<>>) /\ Lines(<<>>) = {}
  BY FirstOne DEF Lines
<1>3. inbuf[s] # <<>> => OnlyFirst(Tail(inbuf[s]))
  BY <1>1, FirstTail
<1>4. OnlyFirst(inbuf[s] \o toGame[s])
  BY <1>1, FirstConcat
<1> QED BY <1>1, <1>2, <1>3, <1>4 DEF GameQueues

LEMMA QueueAsks ==
  ASSUME All, GameQueues
  PROVE  \A s \in Socks, k \in Keys : Asks(s, k)' => Asks(s, k)
<1>1. ASSUME NEW s \in Socks
      PROVE  Lines(toGame'[s]) \union Lines(inbuf'[s]) \subseteq Lines(toGame[s]) \union Lines(inbuf[s])
  <2>1. inbuf[s] \in Seq(Messages) /\ toGame[s] \in Seq(Messages) /\ Lines(<<>>) = {}
    BY AllTypes DEF Lines
  <2>2. inbuf[s] # <<>> => Lines(Tail(inbuf[s])) \subseteq Lines(inbuf[s])
    BY <2>1, LineFacts
  <2>3. Lines(inbuf[s] \o toGame[s]) = Lines(inbuf[s]) \union Lines(toGame[s])
    BY <2>1, LinesConcat
  <2> QED BY <2>1, <2>2, <2>3 DEF GameQueues
<1> QED BY <1>1, FewerAsks

\* Lines go out that are no answers, players go, and a Close line with them.
Writes ==
  /\ \A s \in Socks : NoNewAnswer(toGw'[s], toGw[s])
  /\ \A s \in Socks : \A m \in Lines(toGw'[s]) : m.type = "Close" =>
       \/ m \in Lines(toGw[s])
       \/ \E t \in Socks : gdesc[t].session = m.key /\ gdesc'[t].session # m.key /\ PlayedOut(t)'
Fades ==
  /\ \A s \in Socks : PlayedOut(s) => PlayedOut(s)'
  /\ \A s \in Socks : gdesc'[s].session \in {None, gdesc[s].session}

LEMMA FadesKeys ==
  ASSUME All, KeyInv, UNCHANGED gatewayVars, GameQueues, Writes, Fades
  PROVE  KeyInv'
<1>a. UNCHANGED desc /\ SessionFirst /\ AnsweredOnce
  BY DEF gatewayVars, KeyInv
<1>1. SessionFirst'
  BY <1>a, FirstStep
<1>2. AnsweredOnce'
  BY <1>a, AnswersRead DEF Writes
<1>3. ASSUME NEW k \in Keys PROVE Wanes(k)
  <2>1. k # None /\ \A s \in Socks : Asks(s, k)' => Asks(s, k)
    BY AllTypes, QueueAsks
  <2>2. Answered(k)' => Answered(k)
    BY DEF Writes, NoNewAnswer, Answered, Lines
  <2>3. Closed(k)' =>
          \/ Closed(k)
          \/ \E s \in Socks : gdesc[s].session = k /\ gdesc'[s].session # k /\ PlayedOut(s)'
    <3> SUFFICES ASSUME NEW s \in Socks, NEW m \in Lines(toGw'[s]), m.type = "Close", m.key = k
                 PROVE  \/ Closed(k)
                        \/ \E t \in Socks : gdesc[t].session = k /\ gdesc'[t].session # k /\ PlayedOut(t)'
      BY DEF Closed
    <3>1. \/ m \in Lines(toGw[s])
          \/ \E t \in Socks : gdesc[t].session = m.key /\ gdesc'[t].session # m.key /\ PlayedOut(t)'
      BY DEF Writes
    <3> QED BY <3>1 DEF Closed
  <2>4. \A s \in Socks : PlayedOut(s) => PlayedOut(s)'
    BY DEF Fades
  <2>5. \A s \in Socks : gdesc'[s].session = k => gdesc[s].session = k
    BY <2>1 DEF Fades
  <2> QED BY <1>a, <2>1, <2>2, <2>3, <2>4, <2>5 DEF Wanes
<1> QED BY <1>1, <1>2, <1>3, WanesLife DEF KeyInv

LEMMA WriteKinds ==
  ASSUME All, NEW s \in Socks \union {None}, NEW m, WriteTo(s, m), m.type # "SessionFor"
  PROVE  /\ \A t \in Socks : NoNewAnswer(toGw'[t], toGw[t])
         /\ m.type # "Close" => Writes
<1>1. \A t \in Socks : toGw'[t] \in {toGw[t], Append(toGw[t], m)}
  BY AllTypes DEF WriteTo
<1>2. \A t \in Socks : NoNewAnswer(toGw[t], toGw[t]) /\ NoNewAnswer(Append(toGw[t], m), toGw[t])
  BY NoneNew, NewLine, AllTypes
<1>3. \A t \in Socks : Lines(toGw'[t]) \subseteq Lines(toGw[t]) \union {m}
  BY WriteLines
<1> QED BY <1>1, <1>2, <1>3 DEF Writes

LEMMA DisconnectFades ==
  ASSUME All, NEW s \in Socks, NEW g \in Socks \union {None}, gdesc[s].state # "none",
         Disconnect(s, g), \A t \in Socks : gameEnd'[t] = "backlog" => gameEnd[t] = "backlog"
  PROVE  Writes /\ Fades
<1> DEFINE m == [type |-> "Close", key |-> gdesc[s].session]
<1>1. /\ gdesc'[s].state = "none" /\ gdesc'[s].session = None
      /\ \A t \in Socks : t # s => gdesc'[t] = gdesc[t]
  BY AllTypes DEF Disconnect, NoDesc
<1>2. gameEnd[s] # "backlog"
  BY DEF All, PortInv, PointersAlive
<1>3. PlayedOut(s)'
  BY <1>1, <1>2 DEF PlayedOut
<1>4. Fades
  BY <1>1, <1>3 DEF Fades, PlayedOut
<1>5. CASE gdesc[s].session = None \/ g = None
  <2>1. UNCHANGED toGw
    BY <1>5 DEF Disconnect
  <2> QED BY <1>4, <2>1, NoneNew DEF Writes
<1>6. CASE gdesc[s].session # None /\ g # None
  <2>1. WriteTo(g, m) /\ m.type = "Close" /\ m.key = gdesc[s].session
    BY <1>6 DEF Disconnect
  <2> HIDE DEF m
  <2>2. \A t \in Socks : Lines(toGw'[t]) \subseteq Lines(toGw[t]) \union {m}
    BY <2>1, WriteLines
  <2>3. \A t \in Socks : NoNewAnswer(toGw'[t], toGw[t])
    BY <2>1, WriteKinds
  <2> QED BY <1>1, <1>3, <1>4, <1>6, <2>1, <2>2, <2>3 DEF Writes
<1> QED BY <1>5, <1>6

\* What the game does to one key at most: it fades.
GameFades == GameQueues /\ Writes /\ Fades

LEMMA QuietFades ==
  ASSUME All, GameQueues, UNCHANGED gdesc, UNCHANGED toGw \/ Writes,
         \A t \in Socks : gameEnd'[t] = "backlog" => gameEnd[t] = "backlog"
  PROVE  GameFades
<1>1. Writes
  BY NoneNew DEF Writes
<1> QED BY <1>1 DEF GameFades, Fades, PlayedOut

LEMMA TellFades ==
  ASSUME All, UNCHANGED <<gdesc, inbuf, toGame, gameEnd>>,
         \/ UNCHANGED toGw
         \/ \E t \in {"FinishedBooting", "Reboot", "Shutdown", "Restart"} : WriteTo(gwc, Message(t))
  PROVE  GameFades
<1>1. GameQueues
  BY DEF GameQueues
<1>2. ASSUME NEW t \in {"FinishedBooting", "Reboot", "Shutdown", "Restart"}, WriteTo(gwc, Message(t))
      PROVE  Writes
  <2>1. Message(t).type \notin {"SessionFor", "Close"} /\ gwc \in Socks \union {None}
    BY AllTypes DEF Message
  <2> QED BY <1>2, <2>1, WriteKinds
<1> QED BY <1>1, <1>2, QuietFades

LEMMA PulseFades ==
  ASSUME All, Pulse
  PROVE  GameFades
<1>1. GameQueues
  BY DEF Pulse, GameQueues
<1>2. UNCHANGED <<gdesc, toGw>> /\ \A t \in Socks : gameEnd'[t] = "backlog" => gameEnd[t] = "backlog"
  BY DEF Pulse
<1> QED BY <1>1, <1>2, QuietFades

LEMMA ReapFades ==
  ASSUME All, NEW s \in Socks, Reap(s)
  PROVE  GameFades
<1>1. /\ toGame' = [toGame EXCEPT ![s] = <<>>] /\ inbuf' = [inbuf EXCEPT ![s] = <<>>]
      /\ gameEnd' = [gameEnd EXCEPT ![s] = "gone"]
      /\ IF gdesc[s].state = "none" THEN UNCHANGED <<gdesc, toGw>> ELSE Disconnect(s, GatewayWithout(s))
      /\ GatewayWithout(s) \in Socks \union {None}
  BY AllTypes DEF Reap, GatewayWithout
<1>2. GameQueues /\ \A t \in Socks : gameEnd'[t] = "backlog" => gameEnd[t] = "backlog"
  BY <1>1, AllTypes DEF GameQueues
<1> QED BY <1>1, <1>2, QuietFades, DisconnectFades DEF GameFades

LEMMA KickFades ==
  ASSUME All, NEW s \in Socks, Kick(s)
  PROVE  GameFades
<1>1. gdesc[s].state # "none" /\ Disconnect(s, gwc) /\ UNCHANGED <<gameEnd, inbuf, toGame>>
  BY DEF Kick
<1> QED BY <1>1, AllTypes, DisconnectFades DEF GameFades, GameQueues

LEMMA AcceptFades ==
  ASSUME All, Accept
  PROVE  GameFades
<1> DEFINE queue == {s \in Socks : owner[s] = game /\ gameEnd[s] = "backlog"}
           new == [NoDesc EXCEPT !.state = "gateway"]
<1>1. UNCHANGED <<toGame, toGw, inbuf>>
  BY DEF Accept
<1>2. \/ UNCHANGED <<gameEnd, gdesc>>
      \/ \E s \in Socks : /\ gameEnd[s] = "backlog"
                          /\ gameEnd' = [gameEnd EXCEPT ![s] = "open"]
                          /\ gdesc' = gdesc \/ gdesc' = [gdesc EXCEPT ![s] = new]
  <2>1. CASE queue = {}
    BY <2>1 DEF Accept
  <2>2. CASE queue # {}
    BY <2>2 DEF Accept
  <2> QED BY <2>1, <2>2
<1>3. new.session = None
  BY DEF NoDesc
<1> HIDE DEF new
<1>4. Fades
  <2>1. CASE UNCHANGED <<gameEnd, gdesc>>
    BY <2>1 DEF Fades, PlayedOut
  <2>2. ASSUME NEW s \in Socks, gameEnd[s] = "backlog", gameEnd' = [gameEnd EXCEPT ![s] = "open"],
               gdesc' = gdesc \/ gdesc' = [gdesc EXCEPT ![s] = new]
        PROVE  Fades
    <3>1. \A t \in Socks : /\ gdesc'[t] \in {gdesc[t], new}
                           /\ t # s => gdesc'[t] = gdesc[t] /\ gameEnd'[t] = gameEnd[t]
      BY <2>2, AllTypes
    <3> QED BY <1>3, <2>2, <3>1 DEF Fades, PlayedOut
  <2> QED BY <1>2, <2>1, <2>2
<1>5. Writes /\ GameQueues
  BY <1>1, NoneNew DEF Writes, GameQueues
<1> QED BY <1>4, <1>5 DEF GameFades

LEMMA ScanFades ==
  ASSUME All, Scan
  PROVE  GameFades
<1> DEFINE open == {s \in Socks : owner[s] = game /\ gameEnd[s] = "open"}
           talking == {s \in open : inbuf[s] # <<>>}
           valid == {s \in talking : Head(inbuf[s]).type = "Validate"}
           id == [type |-> "ProcessID", pid |-> game]
           done == IF booted THEN <<Message("FinishedBooting")>> ELSE <<>>
<1>1. UNCHANGED <<toGame, gdesc>> /\ game \in Pids
  BY DEF Scan, All, TypeInv, TypeOK, GameTypeOK
<1>2. \A s \in Socks : /\ inbuf'[s] = inbuf[s] \/ (inbuf[s] # <<>> /\ inbuf'[s] = Tail(inbuf[s]))
                       /\ gameEnd'[s] = "backlog" => gameEnd[s] = "backlog"
  BY DEF Scan
<1>3. GameQueues
  BY <1>1, <1>2 DEF GameQueues
<1>4. UNCHANGED toGw \/ Writes
  <2>1. CASE valid = {}
    BY <2>1 DEF Scan
  <2>2. CASE valid # {}
    <3>1. PICK s \in valid :
            toGw' = IF ~Deliverable(s) THEN toGw ELSE [toGw EXCEPT ![s] = @ \o <<id>> \o done]
      BY <2>2 DEF Scan
    <3>2. /\ <<id>> \in Seq(Messages) /\ done \in Seq(Messages)
          /\ Lines(<<id>>) = {id} /\ id.type = "ProcessID"
          /\ \A m \in Lines(done) : m.type = "FinishedBooting"
      <4>1. id \in Messages /\ Message("FinishedBooting") \in Messages
        BY <1>1, MessageTypes
      <4>2. Lines(<<>>) = {} /\ Lines(<<Message("FinishedBooting")>>) = {Message("FinishedBooting")}
        BY LinesOne DEF Lines
      <4>3. Message("FinishedBooting").type = "FinishedBooting"
        BY DEF Message
      <4>4. Lines(<<id>>) = {id}
        BY LinesOne
      <4> QED BY <4>1, <4>2, <4>3, <4>4, EmptySeq
    <3> DEFINE i1 == <<id>>
    <3>3. i1 \in Seq(Messages) /\ Lines(i1) = {id} /\ done \in Seq(Messages)
          /\ \A t \in Socks : toGw'[t] \in {toGw[t], (toGw[t] \o i1) \o done}
      BY <3>1, <3>2, AllTypes
    <3> HIDE DEF i1, done, id, valid, talking, open
    <3>4. ASSUME NEW q \in Seq(Messages)
          PROVE  /\ NoNewAnswer((q \o i1) \o done, q)
                 /\ \A m \in Lines((q \o i1) \o done) : m.type = "Close" => m \in Lines(q)
      <4>1. q \o i1 \in Seq(Messages) /\ Lines(q \o i1) = Lines(q) \union {id}
        BY <3>3, LinesConcat, ConcatProperties
      <4>2. NoNewAnswer(q \o i1, q) /\ NoNewAnswer((q \o i1) \o done, q \o i1)
        BY <3>2, <3>3, <4>1, NewLines
      <4>3. Lines((q \o i1) \o done) = Lines(q \o i1) \union Lines(done)
        BY <3>3, <4>1, LinesConcat
      <4>4. NoNewAnswer((q \o i1) \o done, q)
        BY <4>2 DEF NoNewAnswer
      <4> QED BY <3>2, <4>1, <4>3, <4>4
    <3>5. \A t \in Socks : /\ NoNewAnswer(toGw'[t], toGw[t])
                           /\ \A m \in Lines(toGw'[t]) : m.type = "Close" => m \in Lines(toGw[t])
      <4> TAKE t \in Socks
      <4>1. toGw[t] \in Seq(Messages)
        BY AllTypes
      <4>2. /\ NoNewAnswer((toGw[t] \o i1) \o done, toGw[t])
            /\ \A m \in Lines((toGw[t] \o i1) \o done) : m.type = "Close" => m \in Lines(toGw[t])
        BY <3>4, <4>1
      <4>3. NoNewAnswer(toGw[t], toGw[t])
        BY NoneNew
      <4>4. CASE toGw'[t] = toGw[t]
        BY <4>3, <4>4
      <4>5. CASE toGw'[t] = (toGw[t] \o i1) \o done
        BY <4>2, <4>5
      <4> QED BY <3>3, <4>4, <4>5
    <3> QED BY <3>5 DEF Writes
  <2> QED BY <2>1, <2>2
<1> QED BY <1>1, <1>2, <1>3, <1>4, QuietFades

LEMMA EndFades ==
  ASSUME All, NEW p \in Pids,
         CloseListener \/ CloseSockets(p) \/ Exit(p) \/ Crash(p)
  PROVE  GameFades
<1>1. /\ UNCHANGED toGw
      /\ \A s \in Socks : /\ toGame'[s] \in {<<>>, toGame[s]}
                          /\ gameEnd'[s] = "backlog" => gameEnd[s] = "backlog"
  BY DEF CloseListener, CloseSockets, Exit, Crash, GameVanishes
<1>2. Blank \/ UNCHANGED gameVars
  BY DEF CloseListener, CloseSockets, Exit, Crash
<1>3. \A s \in Socks : inbuf'[s] \in {<<>>, inbuf[s]} /\ gdesc'[s] \in {NoDesc, gdesc[s]}
  BY <1>2 DEF Blank, gameVars
<1>4. GameQueues
  BY <1>1, <1>3 DEF GameQueues
<1>5. Writes
  BY <1>1, NoneNew DEF Writes
<1> QED BY <1>1, <1>3, <1>4, <1>5 DEF GameFades, Fades, PlayedOut, NoDesc

\* A key that is in use nowhere is in no line, with no client, with no player.
LEMMA NowhereKey ==
  ASSUME All, NEW k \in Keys \ KeysHeld
  PROVE  ~Answered(k) /\ ~Held(k) /\ ~Asked(k) /\ ~Playing(k) /\ ~Closed(k)
<1>1. ASSUME NEW q \in Seq(Messages), NEW m \in Lines(q), m.type \in {"Session", "SessionFor", "Close"}
      PROVE  m.key \in KeysIn(q)
  <2>1. PICK i \in DOMAIN q : m = q[i]
    BY DEF Lines
  <2>2. "key" \in DOMAIN m
    BY <1>1, LineFacts DEF Messages
  <2> QED BY <2>1, <2>2 DEF KeysIn
<1>2. \A s \in Socks : k \notin KeysIn(toGw[s]) /\ k \notin KeysIn(toGame[s]) /\ k \notin KeysIn(inbuf[s])
  BY DEF KeysHeld
<1>3. \A s \in Socks : toGw[s] \in Seq(Messages) /\ toGame[s] \in Seq(Messages) /\ inbuf[s] \in Seq(Messages)
  BY AllTypes
<1>4. ~Answered(k) /\ ~Closed(k)
  BY <1>1, <1>2, <1>3 DEF Answered, Closed
<1>5. ~Asked(k)
  BY <1>1, <1>2, <1>3 DEF Asked, Asks
<1>6. ~Held(k) /\ ~Playing(k)
  BY DEF KeysHeld, Held, Playing
<1> QED BY <1>4, <1>5, <1>6

LEMMA HostKeys ==
  ASSUME All, KeyInv, UNCHANGED gatewayVars, NEW k \in Keys \ KeysHeld, GatewayCommand(k)
  PROVE  KeyInv'
<1>a. gwc \in Socks /\ inbuf[gwc] # <<>> /\ UNCHANGED <<gdesc, toGame, gameEnd>>
  BY AllTypes DEF GatewayCommand
<1>b. GameQueues
  BY <1>a, AllTypes DEF GameQueues, GatewayCommand
<1> DEFINE m == Head(inbuf[gwc])
<1>1. CASE ~(m.type = "Host" /\ ~Full)
  <2>1. UNCHANGED toGw
    BY <1>1 DEF GatewayCommand, Host
  <2>2. GameFades
    BY <1>a, <1>b, <2>1, QuietFades
  <2> QED BY <2>2, FadesKeys DEF GameFades
<1>2. CASE m.type = "Host" /\ ~Full
  <2> PICK c : c = m.client
    OBVIOUS
  <2> DEFINE answer == [type |-> "SessionFor", client |-> c, key |-> k]
  <2>1. WriteTo(gwc, answer)
    BY <1>2 DEF GatewayCommand, Host
  <2>2. answer.type = "SessionFor" /\ answer.key = k
    OBVIOUS
  <2> HIDE DEF answer, m
  <2>3. /\ toGw'[gwc] \in {toGw[gwc], Append(toGw[gwc], answer)}
        /\ \A s \in Socks : s # gwc => toGw'[s] = toGw[s]
    BY <1>a, <2>1, AllTypes DEF WriteTo
  <2>4. \A s \in Socks : Lines(toGw'[s]) \subseteq Lines(toGw[s]) \union (IF s = gwc THEN {answer} ELSE {})
    <3>1. Lines(Append(toGw[gwc], answer)) = Lines(toGw[gwc]) \union {answer}
      BY <1>a, LinesAppend, AllTypes
    <3> QED BY <2>3, <3>1
  <2>5. ~Answered(k) /\ ~Held(k) /\ ~Asked(k) /\ ~Playing(k) /\ ~Closed(k)
    BY NowhereKey
  <2>6. SessionFirst' /\ \A s \in Socks, j \in Keys : Asks(s, j)' => Asks(s, j)
    BY <1>b, FirstStep, QueueAsks DEF KeyInv
  <2>7. AnsweredOnce'
    <3>1. AnsweredOnce
      BY DEF KeyInv
    <3>2. OnceEach(Append(toGw[gwc], answer))
      <4>1. \A n \in Lines(toGw[gwc]) : n.type = "SessionFor" => n.key # answer.key
        BY <1>a, <2>2, <2>5 DEF Answered
      <4> QED BY <1>a, <3>1, <4>1, OnceAppend, AllTypes DEF AnsweredOnce
    <3>3. \A s \in Socks : OnceEach(toGw'[s])
      BY <2>3, <3>1, <3>2 DEF AnsweredOnce
    <3>4. ASSUME NEW s \in Socks, NEW t \in Socks, NEW n \in Lines(toGw'[s]), NEW o \in Lines(toGw'[t]),
                 n.type = "SessionFor", o.type = "SessionFor", n.key = o.key
          PROVE  s = t
      <4>1. (n = answer /\ s = gwc) \/ n \in Lines(toGw[s])
        BY <2>4
      <4>2. (o = answer /\ t = gwc) \/ o \in Lines(toGw[t])
        BY <2>4
      <4>3. ~(n \in Lines(toGw[s]) /\ n.key = k) /\ ~(o \in Lines(toGw[t]) /\ o.key = k)
        BY <2>5, <3>4 DEF Answered
      <4> QED BY <2>2, <3>1, <3>4, <4>1, <4>2, <4>3 DEF AnsweredOnce
    <3> QED BY <3>3, <3>4 DEF AnsweredOnce
  <2>8. \A j \in Keys : (Closed(j)' => Closed(j)) /\ (j # k /\ Answered(j)' => Answered(j))
    BY <2>2, <2>4 DEF Closed, Answered
  <2>9. UNCHANGED desc
    BY DEF gatewayVars
  <2>10. ASSUME NEW j \in Keys, j # k PROVE LifeOf(j)'
    <3>1. Wanes(j)
      BY <1>a, <2>6, <2>8, <2>9, <2>10 DEF Wanes, PlayedOut
    <3> QED BY <3>1, WanesLife DEF KeyInv
  <2>11. LifeOf(k)'
    <3>1. ~(Held(k)') /\ ~(Asked(k)') /\ ~(Playing(k)') /\ ~(Closed(k)')
      BY <1>a, <2>5, <2>6, <2>8, <2>9 DEF Held, Asked, Playing
    <3>2. /\ \A s \in Socks : ~(Asks(s, k)') /\ gdesc'[s].session # k
          /\ \A d \in Clients : desc'[d].session # k
      BY <3>1 DEF Held, Asked, Playing
    <3> QED BY <3>1, <3>2 DEF LifeOf
  <2> QED BY <2>6, <2>7, <2>10, <2>11 DEF KeyInv
<1> QED BY <1>1, <1>2

LEMMA InputKeys ==
  ASSUME All, KeyInv, UNCHANGED gatewayVars, NEW s \in Socks, PlayerInput(s)
  PROVE  KeyInv'
<1>a. /\ inbuf[s] # <<>> /\ UNCHANGED <<toGame, gameEnd>>
      /\ inbuf' = [inbuf EXCEPT ![s] = Tail(@)]
      /\ gdesc[s].state # "none" /\ SessionFirst /\ AnsweredOnce
  BY DEF PlayerInput, KeyInv
<1>b. GameQueues
  BY <1>a, AllTypes DEF GameQueues
<1>c. \A t \in Socks : gameEnd'[t] = "backlog" => gameEnd[t] = "backlog"
  BY <1>a
<1> DEFINE m == Head(inbuf[s])
<1>1. CASE ~(gdesc[s].state = "gateway" /\ m.type = "Session")
  <2>1. UNCHANGED <<gdesc, toGw>>
    BY <1>1 DEF PlayerInput
  <2>2. GameFades
    BY <1>b, <1>c, <2>1, QuietFades
  <2> QED BY <2>2, FadesKeys DEF GameFades
<1>2. CASE gdesc[s].state = "gateway" /\ m.type = "Session" /\ Match(m.key) = {}
  <2>1. Disconnect(s, gwc)
    BY <1>2 DEF PlayerInput, Admit
  <2>2. Writes /\ Fades
    BY <1>a, <1>c, <2>1, DisconnectFades, AllTypes
  <2> QED BY <1>b, <2>2, FadesKeys
<1>3. CASE gdesc[s].state = "gateway" /\ m.type = "Session" /\ Match(m.key) # {}
  <2>0. m.key \in Keys /\ m \in Lines(inbuf[s])
    BY <1>a, <1>3, ReadLines, MessageFields
  <2> PICK k \in Keys : k = m.key
    BY <2>0
  <2>1. PICK e \in Match(k) :
          /\ gdesc' = [gdesc EXCEPT ![s] = [state |-> "in", session |-> k, host |-> e.host]]
          /\ UNCHANGED toGw
    BY <1>3 DEF PlayerInput, Admit
  <2>2. Asks(s, k)
    BY <1>3, <2>0 DEF Asks
  <2>3. \A j \in Keys : ~(Asks(s, j)')
    <3>1. OnlyFirst(inbuf[s]) /\ inbuf[s] \in Seq(Messages) /\ inbuf'[s] = Tail(inbuf[s])
      BY <1>a, AllTypes DEF SessionFirst
    <3>2. \A l \in Lines(inbuf'[s]) : l.type # "Session"
      BY <1>a, <3>1, FirstTail
    <3>3. \A l \in Lines(toGame'[s]) : l.type # "Session"
      BY <1>a DEF SessionFirst
    <3> QED BY <3>2, <3>3 DEF Asks
  <2>4. \A t \in Socks, j \in Keys : Asks(t, j)' => Asks(t, j)
    BY <1>b, QueueAsks
  <2>5. /\ LifeOf(k) /\ k # None
        /\ ~Answered(k) /\ ~Playing(k) /\ ~Closed(k)
        /\ \A t \in Socks : Asks(t, k) => t = s
    BY <2>2, AllTypes DEF KeyInv, LifeOf, Asked
  <2>6. ~(Asked(k)')
    BY <2>3, <2>4, <2>5 DEF Asked
  <2>7. /\ gdesc'[s].session = k
        /\ \A t \in Socks : t # s => gdesc'[t] = gdesc[t]
    BY <2>1, AllTypes
  <2> HIDE DEF m
  <2>8. SessionFirst' /\ AnsweredOnce'
    BY <1>a, <1>b, <2>1, FirstStep DEF AnsweredOnce
  <2>9. UNCHANGED <<desc, toGw>> /\ \A j \in Keys : (Answered(j)' => Answered(j)) /\ (Closed(j)' => Closed(j))
    BY <2>1 DEF gatewayVars, Answered, Closed
  <2>10. ASSUME NEW j \in Keys, j # k PROVE LifeOf(j)'
    <3>1. \A t \in Socks : gdesc'[t].session = j => gdesc[t].session = j
      BY <2>7, <2>10
    <3>2. \A t \in Socks : PlayedOut(t) => PlayedOut(t)'
      BY <1>a, <2>7 DEF PlayedOut
    <3>3. Wanes(j)
      BY <2>4, <2>9, <3>1, <3>2 DEF Wanes
    <3> QED BY <3>3, WanesLife DEF KeyInv
  <2>11. LifeOf(k)'
    <3>1. ~(Answered(k)') /\ ~(Closed(k)') /\ \A t \in Socks : ~(Asks(t, k)')
      BY <2>5, <2>6, <2>9 DEF Asked
    <3>2. \A t \in Socks : gdesc'[t].session = k => t = s
      BY <2>5, <2>7 DEF Playing
    <3>3. \A c \in Clients : desc'[c].session = k /\ desc'[c].srv # None => desc'[c].srv = s
      BY <2>2, <2>5, <2>9 DEF LifeOf
    <3> QED BY <2>6, <3>1, <3>2, <3>3 DEF LifeOf
  <2> QED BY <2>8, <2>10, <2>11 DEF KeyInv
<1> QED BY <1>1, <1>2, <1>3

LEMMA OtherFades ==
  ASSUME All,
         \/ Boot \/ Halt \/ WorkDone \/ Stop \/ Expire
         \/ (\E t \in {"Shutdown", "Restart"} : SetOnReboot(t))
         \/ (\E p \in Pids : Bind(p))
  PROVE  GameFades
<1>1. UNCHANGED <<gdesc, inbuf, toGame, gameEnd>>
  BY DEF Boot, Halt, WorkDone, Stop, Expire, SetOnReboot, Bind, netVars, gameVars
<1>2. \/ UNCHANGED toGw
      \/ \E t \in {"FinishedBooting", "Reboot", "Shutdown", "Restart"} : WriteTo(gwc, Message(t))
  BY DEF Boot, Halt, WorkDone, Stop, Expire, SetOnReboot, Bind, netVars
<1> QED BY <1>1, <1>2, TellFades

LEMMA GameKeys ==
  ASSUME All, KeyInv, UNCHANGED gatewayVars,
         \/ GameLoop \/ ProcessStep \/ Quit \/ Stop \/ Expire \/ (\E p \in Pids : Crash(p))
         \/ (\E t \in {"Shutdown", "Restart"} : SetOnReboot(t)) \/ \E s \in Socks : Kick(s)
  PROVE  KeyInv'
<1>1. CASE Keys \ KeysHeld # {} /\ GatewayCommand(randomToken)
  <2>1. randomToken \in Keys \ KeysHeld
    BY <1>1 DEF randomToken
  <2> QED BY <1>1, <2>1, HostKeys
<1>2. CASE \E s \in Socks : PlayerInput(s)
  BY <1>2, InputKeys
<1>3. CASE CloseListener
  <2>1. game \in Pids
    BY <1>3 DEF CloseListener, All, TypeInv, TypeOK, GameTypeOK
  <2> QED BY <1>3, <2>1, EndFades, FadesKeys DEF GameFades
<1>4. CASE GameFades
  BY <1>4, FadesKeys DEF GameFades
<1> QED BY <1>1, <1>2, <1>3, <1>4, PulseFades, ReapFades, AcceptFades, ScanFades, KickFades,
           OtherFades, EndFades DEF GameLoop, ProcessStep, Quit

-------------------------------------------------------------------------------

LEMMA KeyInit == Init => KeyInv
<1> SUFFICES ASSUME Init PROVE KeyInv
  OBVIOUS
<1>1. /\ \A s \in Socks : toGw[s] = <<>> /\ toGame[s] = <<>> /\ inbuf[s] = <<>>
      /\ \A s \in Socks : gdesc[s].session = None
      /\ \A c \in Clients : desc[c].session = None
  BY DEF Init, NetInit, GatewayInit, GameInit, NoDesc, Fresh
<1>2. Lines(<<>>) = {} /\ OnlyFirst(<<>>) /\ OnceEach(<<>>)
  BY FirstOne DEF Lines, OnceEach
<1>3. SessionFirst /\ AnsweredOnce
  BY <1>1, <1>2 DEF SessionFirst, AnsweredOnce
<1>4. ASSUME NEW k \in Keys PROVE LifeOf(k)
  <2>1. k # None
    BY NetAssumption
  <2>2. /\ \A s \in Socks : ~Asks(s, k) /\ gdesc[s].session # k
        /\ \A c \in Clients : desc[c].session # k
    BY <1>1, <1>2, <2>1 DEF Asks
  <2>3. ~Answered(k) /\ ~Closed(k) /\ ~Asked(k) /\ ~Playing(k)
    BY <1>1, <1>2, <2>2 DEF Answered, Closed, Asked, Playing
  <2> QED BY <2>2, <2>3 DEF LifeOf
<1> QED BY <1>3, <1>4 DEF KeyInv

LEMMA KeyStep == All /\ KeyInv /\ [Next]_vars => KeyInv'
<1> SUFFICES ASSUME All, KeyInv, [Next]_vars PROVE KeyInv'
  OBVIOUS
<1>1. CASE GatewayStep
  BY <1>1, GatewayKeys DEF GatewayStep
<1>2. CASE Wait60
  BY <1>2, GatewayKeys DEF Wait60
<1>3. CASE UNCHANGED vars
  <2>1. UNCHANGED gatewayVars /\ UNCHANGED <<gdesc, toGw, gameEnd, inbuf, toGame>>
    BY <1>3 DEF vars, netVars, gameVars
  <2>2. GameFades
    BY <2>1, QuietFades DEF GameQueues
  <2> QED BY <2>1, <2>2, FadesKeys DEF GameFades
<1>4. CASE GameStep
  BY <1>4, GameKeys DEF GameStep
<1>5. CASE Fault
  <2>1. CASE UNCHANGED gameVars /\ (\/ LinkBreaks \/ GatewayRestarts
                                    \/ (\E p \in Pids : StartByHand(p))
                                    \/ \E c \in Clients : Forward(c))
    BY <2>1, GatewayKeys
  <2>2. CASE UNCHANGED gatewayVars /\ (\/ Stop \/ Expire \/ (\E p \in Pids : Crash(p))
                                       \/ (\E t \in {"Shutdown", "Restart"} : SetOnReboot(t))
                                       \/ \E s \in Socks : Kick(s))
    BY <2>2, GameKeys
  <2> QED BY <1>5, <2>1, <2>2 DEF Fault
<1> QED BY <1>1, <1>2, <1>3, <1>4, <1>5 DEF Next, Over

\* While the gateway reads the lines of the game nothing else touches its
\* clients, but its own end.
LEMMA OnlyInput ==
  ASSUME pc = "input", pc' # "net", [Next]_vars
  PROVE  UNCHANGED desc \/ Input
<1>1. CASE GatewayStep
  BY <1>1 DEF GatewayStep, GatewayLoop, ClientStep, NetDone, LinkDown, Supervise, InputDone, RequestSession,
     ServerLost, ClientsDone, ClientArrives, ClientLeaves, Handshake
<1>2. CASE Wait60 \/ UNCHANGED vars
  BY <1>2 DEF Wait60, vars, gatewayVars
<1>3. CASE GameStep
  BY <1>3 DEF GameStep, gatewayVars
<1>4. CASE Fault
  BY <1>4 DEF Fault, StartByHand, LinkBreaks, GatewayRestarts, Forward, gatewayVars
<1> QED BY <1>1, <1>2, <1>3, <1>4 DEF Next, Over

LEMMA StrayStep ==
  ASSUME All, KeyInv, [Next]_vars, NEW c \in Clients,
         pc = "input", pc' # "net", desc[c].st = "connected", desc'[c].st # "connected"
  PROVE  rebooting' \/ gdesc[desc[c].srv].state = "none"
<1>1. Input
  BY OnlyInput
<1>2. desc[c].srv \in Socks /\ desc[c].srv # None /\ Present(c)
  BY AllTypes DEF All, WiredInv, OwnServerConnection, Wired, Descriptors, Present
<1> DEFINE m == Head(toGw[mother])
<1>3. /\ mother \in Socks /\ m \in Lines(toGw[mother]) /\ m \in Messages
  <2>1. mother \in Socks /\ toGw[mother] # <<>>
    BY <1>1, AllTypes DEF Input, Reading, isConnectedToGameServer
  <2> QED BY <2>1, AllTypes, LineFacts
<1>4. CASE m.type = "SessionFor"
  <2>1. OpenSession(m.client, m.key)
    BY <1>1, <1>4 DEF Input
  <2>2. CASE Listening = {}
    <3>1. game = None
      BY <2>2 DEF Listening, All, PortInv, TypeInv, TypeOK, GameTypeOK
    <3> QED BY <1>2, <3>1, NoGameNoPointers DEF All
  <2>3. CASE Listening # {}
    <3> PICK d : d = m.client
      OBVIOUS
    <3>1. \/ UNCHANGED desc
          \/ \E u : desc' = [desc EXCEPT ![d] = [@ EXCEPT !.session = m.key, !.srv = u,
                       !.st = "connected"]]
      BY <2>1, <2>3 DEF OpenSession
    <3>2. ASSUME NEW u, desc' = [desc EXCEPT ![d] = [@ EXCEPT !.session = m.key, !.srv = u,
                       !.st = "connected"]]
          PROVE  desc'[c].st = "connected"
      <4>1. desc[c] \in Descriptors
        BY AllTypes
      <4>2. c # d => desc'[c] = desc[c]
        BY <3>2, AllTypes
      <4>3. c = d => desc'[c] = [desc[c] EXCEPT !.session = m.key, !.srv = u, !.st = "connected"]
        BY <3>2, AllTypes
      <4> QED BY <4>1, <4>2, <4>3 DEF Descriptors
    <3> QED BY <3>1, <3>2
  <2> QED BY <2>2, <2>3
<1>5. CASE m.type = "Close"
  <2>1. CloseSession(m.key) /\ m.key \in Keys
    BY <1>1, <1>3, <1>5, MessageFields DEF Input
  <2> PICK k \in Keys : k = m.key
    BY <2>1
  <2>2. desc[c].session = k
    <3>1. desc'[c] # desc[c]
      OBVIOUS
    <3>2. PICK d \in Closing(m.key) : desc' = [desc EXCEPT ![d] = Fresh("gone")]
      BY <2>1, <3>1 DEF CloseSession
    <3>3. c = d
      BY <3>1, <3>2, AllTypes
    <3> QED BY <3>2, <3>3 DEF Closing
  <2>3. Closed(k)
    BY <1>3, <1>5 DEF Closed
  <2>4. PlayedOut(desc[c].srv)
    BY <1>2, <2>2, <2>3 DEF KeyInv, LifeOf
  <2> QED BY <2>4 DEF PlayedOut
<1>6. CASE m.type = "Reboot"
  BY <1>1, <1>6 DEF Input
<1>7. CASE m.type \notin {"SessionFor", "Close", "Reboot"}
  BY <1>1, <1>7 DEF Input
<1> QED BY <1>4, <1>5, <1>6, <1>7

\* A Close line never hits anyone else than the player it was sent for: a
\* player whom the game still has loses the client only by the client's doing,
\* with the gateway, or because the game reboots or is gone.
THEOREM NoCloseStrays == Spec => NoStrayClose
<1>1. Init => All /\ KeyInv
  BY AllInit, KeyInit
<1>2. (All /\ KeyInv) /\ [Next]_vars => (All /\ KeyInv)'
  BY AllStep, KeyStep
<1>3. (All /\ KeyInv) /\ [Next]_vars =>
        [\A c \in Clients :
           /\ pc = "input" /\ pc' # "net"
           /\ desc[c].st = "connected" /\ desc'[c].st # "connected"
           => \/ rebooting'
              \/ gdesc[desc[c].srv].state = "none"]_vars
  BY StrayStep
<1> QED BY <1>1, <1>2, <1>3, PTL DEF Spec, NoStrayClose

-------------------------------------------------------------------------------
(* No Close line finds a client without a connection.                      *)

\* The game that holds the port writes to nobody any more, or there is none.
Done == phase \in {"off", "saving"}

\* What was written on a connection is lost with the game's end of it.
NothingUnsent == \A s \in Socks : gameEnd[s] = "gone" => toGame[s] = <<>>

\* Only an admitted player has a session.
InSession == \A s \in Socks : gdesc[s].state # "in" => gdesc[s].session = None

\* The game writes to the mother connection only, and nothing after "Reboot".
OnMother == \A s \in Socks : toGw[s] # <<>> => s = mother
RebootLast ==
  \A s \in Socks : \A i \in DOMAIN toGw[s] :
    toGw[s][i].type = "Reboot" => i = Len(toGw[s]) /\ Done

\* A key whose client has lost its connection is in no Close line, and never
\* will be: the game has no player with it who might still leave.
StaleKeys ==
  \A c \in Clients, k \in Keys : desc[c].session = k /\ desc[c].srv = None =>
    /\ ~Closed(k)
    /\ Done \/ (~Playing(k) /\ ~Asked(k))

SurviveInv ==
  /\ NothingUnsent /\ InSession /\ OnMother /\ RebootLast /\ StaleKeys
  /\ GatewaySurvives

Firm == Known /\ All /\ KeyInv /\ SurviveInv

LEMMA UnsentGateway ==
  ASSUME All, NothingUnsent,
         \/ GatewayLoop \/ ClientStep \/ Cooldown \/ LinkBreaks \/ GatewayRestarts
         \/ (\E p \in Pids : StartByHand(p)) \/ \E c \in Clients : Forward(c)
  PROVE  NothingUnsent'
<1>a. gameEnd \in [Socks -> GameEnds] /\ toGame \in [Socks -> Seq(Messages)]
  BY AllTypes
<1>1. CASE UNCHANGED <<gameEnd, toGame>>
  BY <1>1 DEF NothingUnsent
<1>2. ASSUME NEW s, NEW p, NEW m, NEW A, Connect(s, p, m, A)
      PROVE  NothingUnsent'
  BY <1>a, <1>2 DEF Connect, NothingUnsent
<1>3. ASSUME NEW s, PeerUp(s), UNCHANGED gameEnd, NEW q, toGame' = [toGame EXCEPT ![s] = q]
      PROVE  NothingUnsent'
  BY <1>a, <1>3 DEF PeerUp, NothingUnsent
<1>4. CASE LinkDown
  BY <1>1, <1>2, <1>4 DEF LinkDown
<1>5. CASE Input
  <2>1. CASE Head(toGw[mother]).type = "SessionFor"
    <3>1. OpenSession(Head(toGw[mother]).client, Head(toGw[mother]).key)
      BY <1>5, <2>1 DEF Input
    <3> QED BY <1>1, <1>2, <3>1 DEF OpenSession
  <2>2. CASE Head(toGw[mother]).type # "SessionFor"
    BY <1>1, <1>5, <2>2 DEF Input
  <2> QED BY <2>1, <2>2
<1>6. ASSUME NEW c \in Clients, RequestSession(c) \/ Forward(c)
      PROVE  NothingUnsent'
  <2>1. CASE RequestSession(c)
    BY <1>1, <1>3, <2>1 DEF RequestSession
  <2>2. CASE Forward(c)
    <3>1. /\ PeerUp(desc[c].srv) /\ UNCHANGED gameEnd
          /\ toGame' = [toGame EXCEPT ![desc[c].srv] = <<Message("Line")>>]
      BY <2>2 DEF Forward
    <3> QED BY <1>3, <3>1
  <2> QED BY <1>6, <2>1, <2>2
<1>7. CASE \/ NetDone \/ InputDone \/ ClientsDone \/ ClientStep \/ Cooldown \/ LinkBreaks
           \/ GatewayRestarts \/ (\E p \in Pids : StartByHand(p)) \/ Supervise
           \/ \E c \in Clients : ServerLost(c)
  BY <1>1, <1>7 DEF NetDone, InputDone, ClientsDone, ClientStep, ClientArrives, ClientLeaves, Handshake,
     Cooldown, LinkBreaks, GatewayRestarts, StartByHand, Supervise, ServerLost, netVars
<1> QED BY <1>4, <1>5, <1>6, <1>7 DEF GatewayLoop

LEMMA UnsentGame ==
  ASSUME All, NothingUnsent,
         \/ GameLoop \/ ProcessStep \/ Quit \/ Stop \/ Expire \/ (\E p \in Pids : Crash(p))
         \/ (\E t \in {"Shutdown", "Restart"} : SetOnReboot(t)) \/ \E s \in Socks : Kick(s)
  PROVE  NothingUnsent'
<1>a. gameEnd \in [Socks -> GameEnds] /\ toGame \in [Socks -> Seq(Messages)]
  BY AllTypes
<1>1. CASE \A s \in Socks : /\ toGame'[s] \in {toGame[s], <<>>}
                            /\ gameEnd'[s] = "gone" => gameEnd[s] = "gone" \/ toGame'[s] = <<>>
  BY <1>1 DEF NothingUnsent
<1>2. CASE \E p \in Pids : CloseListener \/ CloseSockets(p) \/ Crash(p)
  BY <1>1, <1>2 DEF CloseListener, CloseSockets, Crash, GameVanishes
<1>3. CASE CloseListener
  BY <1>1, <1>3 DEF CloseListener, GameVanishes
<1>4. CASE \E s \in Socks : Reap(s)
  BY <1>a, <1>1, <1>4 DEF Reap
<1>5. CASE Pulse \/ Scan
  BY <1>1, <1>5 DEF Pulse, Scan
<1>6. CASE Accept
  BY <1>a, <1>1, <1>6 DEF Accept
<1>7. CASE UNCHANGED <<gameEnd, toGame>>
  BY <1>7 DEF NothingUnsent
<1> QED BY <1>2, <1>3, <1>4, <1>5, <1>6, <1>7
        DEF GameLoop, ProcessStep, Quit, Boot, GatewayCommand, PlayerInput, WorkDone, Halt, Bind, Exit,
            Stop, Expire, SetOnReboot, Kick, netVars

LEMMA SessionGame ==
  ASSUME All, InSession,
         \/ GameLoop \/ ProcessStep \/ Quit \/ Stop \/ Expire \/ (\E p \in Pids : Crash(p))
         \/ (\E t \in {"Shutdown", "Restart"} : SetOnReboot(t)) \/ \E s \in Socks : Kick(s)
  PROVE  InSession'
<1>a. gdesc \in [Socks -> GdescType]
  BY AllTypes
<1>1. CASE UNCHANGED gdesc
  BY <1>1 DEF InSession
<1>2. ASSUME NEW s, NEW d, gdesc' = [gdesc EXCEPT ![s] = d], d.state # "in" => d.session = None
      PROVE  InSession'
  BY <1>a, <1>2 DEF InSession
<1>3. ASSUME NEW s, NEW g, Disconnect(s, g) PROVE InSession'
  BY <1>2, <1>3 DEF Disconnect, NoDesc
<1>4. CASE \E s \in Socks : PlayerInput(s)
  <2> PICK s \in Socks : PlayerInput(s)
    BY <1>4
  <2>1. UNCHANGED gdesc \/ Admit(s, Head(inbuf[s]).key)
    BY DEF PlayerInput
  <2>2. ASSUME NEW k, Admit(s, k) PROVE InSession'
    <3>1. CASE Match(k) # {}
      <4>1. PICK e \in Match(k) : gdesc' = [gdesc EXCEPT ![s] = [state |-> "in", session |-> k, host |-> e.host]]
        BY <2>2, <3>1 DEF Admit
      <4> QED BY <1>2, <4>1
    <3> QED BY <1>3, <2>2, <3>1 DEF Admit
  <2> QED BY <1>1, <2>1, <2>2
<1>5. CASE (\E s \in Socks : Reap(s)) \/ (\E s \in Socks : Kick(s))
  BY <1>1, <1>3, <1>5 DEF Reap, Kick
<1>6. CASE Accept
  <2> DEFINE new == [NoDesc EXCEPT !.state = "gateway"]
  <2>1. UNCHANGED gdesc \/ \E s \in Socks : gdesc' = [gdesc EXCEPT ![s] = new]
    BY <1>6 DEF Accept
  <2>2. new.session = None
    BY DEF NoDesc
  <2> HIDE DEF new
  <2> QED BY <1>1, <1>2, <2>1, <2>2
<1>7. CASE Blank
  BY <1>7 DEF Blank, NoDesc, InSession
<1> QED BY <1>1, <1>4, <1>5, <1>6, <1>7
        DEF GameLoop, ProcessStep, Quit, Boot, GatewayCommand, WorkDone, Pulse, Scan, Halt, Bind, Exit,
            CloseListener, CloseSockets, Crash, Stop, Expire, SetOnReboot, netVars, gameVars

-------------------------------------------------------------------------------
(* The game's steps.                                                       *)

\* Nobody but the gateway's own requests makes a player, and nobody but a
\* player a Close line.
Follows ==
  /\ \A s \in Socks, k \in Keys : Asks(s, k)' => Asks(s, k)
  /\ \A s \in Socks, k \in Keys : gdesc'[s].session = k => gdesc[s].session = k \/ Asks(s, k)
  /\ \A k \in Keys : Closed(k)' => Closed(k) \/ Playing(k)

LEMMA FadesFollow ==
  ASSUME All, GameFades
  PROVE  Follows
<1>1. \A s \in Socks, k \in Keys : Asks(s, k)' => Asks(s, k)
  BY QueueAsks DEF GameFades
<1>2. \A s \in Socks, k \in Keys : gdesc'[s].session = k => gdesc[s].session = k
  BY AllTypes DEF GameFades, Fades
<1>3. ASSUME NEW k \in Keys, Closed(k)' PROVE Closed(k) \/ Playing(k)
  <2> PICK s \in Socks : \E m \in Lines(toGw'[s]) : m.type = "Close" /\ m.key = k
    BY <1>3 DEF Closed
  <2> QED BY DEF GameFades, Writes, Closed, Playing
<1> QED BY <1>1, <1>2, <1>3 DEF Follows

LEMMA HostFollows ==
  ASSUME All, NEW k \in Keys, GatewayCommand(k)
  PROVE  Follows
<1>1. gwc \in Socks /\ inbuf[gwc] # <<>> /\ UNCHANGED <<gdesc, toGame>>
  BY AllTypes DEF GatewayCommand
<1>2. GameQueues
  BY <1>1, AllTypes DEF GameQueues, GatewayCommand
<1> DEFINE m == Head(inbuf[gwc])
           answer == [type |-> "SessionFor", client |-> m.client, key |-> k]
<1>3. UNCHANGED toGw \/ WriteTo(gwc, answer)
  BY DEF GatewayCommand, Host
<1>4. answer.type = "SessionFor"
  OBVIOUS
<1> HIDE DEF answer
<1>5. \A s \in Socks : Lines(toGw'[s]) \subseteq Lines(toGw[s]) \union {answer}
  BY <1>1, <1>3, WriteLines
<1>6. \A j \in Keys : Closed(j)' => Closed(j)
  BY <1>4, <1>5 DEF Closed
<1> QED BY <1>1, <1>2, <1>6, QueueAsks DEF Follows

LEMMA InputFollows ==
  ASSUME All, NEW s \in Socks, PlayerInput(s)
  PROVE  Follows
<1>a. /\ inbuf[s] # <<>> /\ UNCHANGED <<toGame, gameEnd>>
      /\ inbuf' = [inbuf EXCEPT ![s] = Tail(@)] /\ gdesc[s].state # "none"
  BY DEF PlayerInput
<1>b. GameQueues
  BY <1>a, AllTypes DEF GameQueues
<1>c. \A t \in Socks : gameEnd'[t] = "backlog" => gameEnd[t] = "backlog"
  BY <1>a
<1> DEFINE m == Head(inbuf[s])
<1>1. CASE ~(gdesc[s].state = "gateway" /\ m.type = "Session")
  <2>1. UNCHANGED <<gdesc, toGw>>
    BY <1>1 DEF PlayerInput
  <2> QED BY <1>b, <1>c, <2>1, QuietFades, FadesFollow
<1>2. CASE gdesc[s].state = "gateway" /\ m.type = "Session" /\ Match(m.key) = {}
  <2>1. Disconnect(s, gwc)
    BY <1>2 DEF PlayerInput, Admit
  <2>2. Writes /\ Fades
    BY <1>a, <1>c, <2>1, DisconnectFades, AllTypes
  <2> QED BY <1>b, <2>2, FadesFollow DEF GameFades
<1>3. CASE gdesc[s].state = "gateway" /\ m.type = "Session" /\ Match(m.key) # {}
  <2>1. m.key \in Keys /\ m \in Lines(inbuf[s])
    BY <1>a, <1>3, ReadLines, MessageFields
  <2> PICK k \in Keys : k = m.key
    BY <2>1
  <2>2. Asks(s, k)
    BY <1>3, <2>1 DEF Asks
  <2>3. PICK e \in Match(k) :
          /\ gdesc' = [gdesc EXCEPT ![s] = [state |-> "in", session |-> k, host |-> e.host]]
          /\ UNCHANGED toGw
    BY <1>3 DEF PlayerInput, Admit
  <2>4. /\ gdesc'[s].session = k
        /\ \A t \in Socks : t # s => gdesc'[t] = gdesc[t]
    BY <2>3, AllTypes
  <2>5. \A t \in Socks, j \in Keys : Asks(t, j)' => Asks(t, j)
    BY <1>b, QueueAsks
  <2>6. \A j \in Keys : Closed(j)' => Closed(j)
    BY <2>3 DEF Closed
  <2> HIDE DEF m
  <2> QED BY <2>2, <2>4, <2>5, <2>6 DEF Follows
<1> QED BY <1>1, <1>2, <1>3

LEMMA GameFollows ==
  ASSUME All,
         \/ GameLoop \/ ProcessStep \/ Quit \/ Stop \/ Expire \/ (\E p \in Pids : Crash(p))
         \/ (\E t \in {"Shutdown", "Restart"} : SetOnReboot(t)) \/ \E s \in Socks : Kick(s)
  PROVE  Follows
<1>1. CASE Keys \ KeysHeld # {} /\ GatewayCommand(randomToken)
  <2>1. randomToken \in Keys
    BY <1>1 DEF randomToken
  <2> QED BY <1>1, <2>1, HostFollows
<1>2. CASE \E s \in Socks : PlayerInput(s)
  BY <1>2, InputFollows
<1>3. CASE CloseListener
  <2>1. game \in Pids
    BY <1>3 DEF CloseListener, All, TypeInv, TypeOK, GameTypeOK
  <2> QED BY <1>3, <2>1, EndFades, FadesFollow
<1>4. CASE GameFades
  BY <1>4, FadesFollow
<1> QED BY <1>1, <1>2, <1>3, <1>4, PulseFades, ReapFades, AcceptFades, ScanFades, KickFades,
           OtherFades, EndFades DEF GameLoop, ProcessStep, Quit

\* A game that is done says nothing more; then another may come.
LEMMA DoneIsQuiet ==
  ASSUME All, Done,
         \/ GameLoop \/ ProcessStep \/ Quit \/ Stop \/ Expire \/ (\E p \in Pids : Crash(p))
         \/ (\E t \in {"Shutdown", "Restart"} : SetOnReboot(t)) \/ \E s \in Socks : Kick(s)
  PROVE  UNCHANGED toGw /\ (Done' \/ \E p \in Pids : Bind(p) /\ game = None)
<1>1. CASE Blank /\ UNCHANGED toGw
  BY <1>1 DEF Blank, Done
<1>2. CASE UNCHANGED phase /\ UNCHANGED toGw
  BY <1>2 DEF Done
<1>3. CASE \E p \in Pids : Bind(p)
  <2> PICK p \in Pids : Bind(p)
    BY <1>3
  <2>1. CASE Listening = {}
    <3>1. game = None
      BY <2>1 DEF Listening, All, PortInv, TypeInv, TypeOK, GameTypeOK
    <3> QED BY <3>1 DEF Bind
  <2>2. CASE Listening # {}
    <3>1. UNCHANGED <<phase, toGw>>
      BY <2>2 DEF Bind, gameVars
    <3> QED BY <1>2, <3>1
  <2> QED BY <2>1, <2>2
<1>4. CASE CloseListener \/ \E p \in Pids : CloseSockets(p) \/ Exit(p) \/ Crash(p)
  BY <1>1, <1>2, <1>4 DEF CloseListener, CloseSockets, Exit, Crash, gameVars
<1>5. CASE Stop \/ Expire
  BY <1>2, <1>5 DEF Stop, Expire, netVars
<1>6. phase \notin {"boot", "work", "pulse", "lastPulse", "reap", "lastReap", "accept", "scan", "halt"}
  BY DEF Done
<1> QED BY <1>3, <1>4, <1>5, <1>6 DEF GameLoop, ProcessStep, Quit, Boot, GatewayCommand, PlayerInput,
           Reap, WorkDone, Pulse, Accept, Scan, Halt, Kick, Kicking, SetOnReboot

NoReboot(q) == \A m \in Lines(q) : m.type # "Reboot"

\* The game speaks on the mother connection only, and falls silent after
\* "Reboot".
Speaks ==
  \A s \in Socks :
    \/ toGw'[s] = toGw[s]
    \/ /\ s = mother
       /\ \/ NoReboot(toGw[s]) => NoReboot(toGw'[s])
          \/ phase' = "saving" /\ \E m : toGw'[s] = Append(toGw[s], m)

LEMMA GwcIsMother ==
  ASSUME Known, pc # "dead", gwc # None
  PROVE  gwc = mother
<1>1. gwc \in Socks /\ game \in Pids
  <2>1. gwc \in Socks
    BY KnownTypes
  <2>2. PortInv
    BY DEF Known
  <2>3. gameEnd[gwc] # "gone" /\ owner[gwc] = game
    BY <2>1, <2>2 DEF PortInv, PointersAlive
  <2> QED BY <2>1, <2>2, <2>3 DEF PortInv
<1>2. game # None
  BY <1>1, KnownTypes
<1>3. proc[game] = "listening" /\ (Alone(game) \/ Greeting(game) \/ Admitted(game))
  BY <1>2, GameStage
<1> QED BY <1>3 DEF Alone, Greeting, Waiting, Admitted

LEMMA SpeakWrite ==
  ASSUME Known, All, pc # "dead", NEW g \in {gwc, None}, NEW m, WriteTo(g, m),
         m.type # "Reboot" \/ phase' = "saving"
  PROVE  Speaks
<1> SUFFICES ASSUME NEW s \in Socks, toGw'[s] # toGw[s]
             PROVE  /\ s = mother
                    /\ \/ NoReboot(toGw[s]) => NoReboot(toGw'[s])
                       \/ phase' = "saving" /\ \E n : toGw'[s] = Append(toGw[s], n)
  BY DEF Speaks
<1>1. s = g /\ g # None /\ toGw'[s] = Append(toGw[s], m)
  BY AllTypes DEF WriteTo, Deliverable
<1>2. s = mother
  BY <1>1, GwcIsMother
<1>3. Lines(toGw'[s]) = Lines(toGw[s]) \union {m}
  BY <1>1, LinesAppend, AllTypes
<1> QED BY <1>1, <1>2, <1>3 DEF NoReboot

LEMMA SpeakDisconnect ==
  ASSUME Known, All, pc # "dead", NEW s \in Socks, NEW g \in {gwc, None}, Disconnect(s, g)
  PROVE  Speaks
<1>1. CASE UNCHANGED toGw
  BY <1>1 DEF Speaks
<1>2. CASE WriteTo(g, [type |-> "Close", key |-> gdesc[s].session])
  BY <1>2, SpeakWrite
<1> QED BY <1>1, <1>2 DEF Disconnect

LEMMA SpeakScan ==
  ASSUME Known, All, pc # "dead", Scan
  PROVE  Speaks
<1> DEFINE open == {s \in Socks : owner[s] = game /\ gameEnd[s] = "open"}
           talking == {s \in open : inbuf[s] # <<>>}
           valid == {s \in talking : Head(inbuf[s]).type = "Validate"}
           id == [type |-> "ProcessID", pid |-> game]
           done == IF booted THEN <<Message("FinishedBooting")>> ELSE <<>>
<1>1. CASE valid = {}
  <2>1. UNCHANGED toGw
    BY <1>1 DEF Scan
  <2> QED BY <2>1 DEF Speaks
<1>2. CASE valid # {}
  <2>1. PICK s \in valid :
          toGw' = IF ~Deliverable(s) THEN toGw ELSE [toGw EXCEPT ![s] = @ \o <<id>> \o done]
    BY <1>2 DEF Scan
  <2>2. game \in Pids /\ phase = "scan" /\ game # None
    BY KnownTypes DEF Scan
  <2>3. s \in Socks /\ owner[s] = game /\ gameEnd[s] = "open"
    OBVIOUS
  <2>4. s = mother
    <3>1. proc[game] = "listening" /\ (Alone(game) \/ Greeting(game) \/ Admitted(game))
      BY <2>2, GameStage
    <3>2. ~Admitted(game) /\ ~Alone(game)
      BY <2>2, <2>3, <3>1 DEF Admitted, Alone
    <3> QED BY <2>3, <3>1, <3>2 DEF Greeting
  <2>5. id \in Messages /\ Message("FinishedBooting") \in Messages
    BY <2>2, MessageTypes
  <2> DEFINE i1 == <<id>>
  <2>6. i1 \in Seq(Messages) /\ done \in Seq(Messages)
    BY <2>5, EmptySeq
  <2>7. NoReboot(i1) /\ NoReboot(done)
    <3>1. Lines(i1) = {id} /\ Lines(<<>>) = {} /\ Lines(<<Message("FinishedBooting")>>) = {Message("FinishedBooting")}
      BY LinesOne DEF Lines
    <3> QED BY <3>1 DEF NoReboot, Message
  <2>8. \A t \in Socks : toGw'[t] = toGw[t] \/ (t = s /\ toGw'[t] = (toGw[t] \o i1) \o done)
    BY <2>1, AllTypes
  <2> HIDE DEF i1, done, id, valid, talking, open
  <2>9. ASSUME NEW q \in Seq(Messages), NoReboot(q) PROVE NoReboot((q \o i1) \o done)
    <3>1. q \o i1 \in Seq(Messages) /\ Lines(q \o i1) = Lines(q) \union Lines(i1)
      BY <2>6, LinesConcat, ConcatProperties
    <3>2. Lines((q \o i1) \o done) = Lines(q \o i1) \union Lines(done)
      BY <2>6, <3>1, LinesConcat
    <3> QED BY <2>7, <2>9, <3>1, <3>2 DEF NoReboot
  <2>10. ASSUME NEW t \in Socks PROVE NoReboot(toGw[t]) => NoReboot((toGw[t] \o i1) \o done)
    BY <2>9, AllTypes
  <2> QED BY <2>4, <2>8, <2>10 DEF Speaks
<1> QED BY <1>1, <1>2

LEMMA GameSpeaks ==
  ASSUME Known, All, pc # "dead",
         \/ GameLoop \/ ProcessStep \/ Quit \/ Stop \/ Expire \/ (\E p \in Pids : Crash(p))
         \/ (\E t \in {"Shutdown", "Restart"} : SetOnReboot(t)) \/ \E s \in Socks : Kick(s)
  PROVE  Speaks
<1>1. CASE UNCHANGED toGw
  BY <1>1 DEF Speaks
<1>2. CASE Boot \/ Halt \/ \E t \in {"Shutdown", "Restart"} : SetOnReboot(t)
  <2>1. ASSUME NEW t \in {"Shutdown", "Restart", "FinishedBooting", "Reboot"}, WriteTo(gwc, Message(t)),
               t = "Reboot" => phase' = "saving"
        PROVE  Speaks
    <3>1. Message(t).type = t
      BY DEF Message
    <3> QED BY <2>1, <3>1, SpeakWrite
  <2> QED BY <1>2, <2>1 DEF Boot, Halt, SetOnReboot
<1>3. CASE Keys \ KeysHeld # {} /\ GatewayCommand(randomToken)
  <2>1. UNCHANGED toGw \/ \E c, k : WriteTo(gwc, [type |-> "SessionFor", client |-> c, key |-> k])
    BY <1>3 DEF GatewayCommand, Host
  <2>2. ASSUME NEW c, NEW k, WriteTo(gwc, [type |-> "SessionFor", client |-> c, key |-> k])
        PROVE  Speaks
    BY <2>2, SpeakWrite
  <2> QED BY <1>1, <2>1, <2>2
<1>4. CASE \E s \in Socks : PlayerInput(s)
  BY <1>1, <1>4, SpeakDisconnect DEF PlayerInput, Admit
<1>5. CASE \E s \in Socks : Reap(s)
  <2> PICK s \in Socks : Reap(s)
    BY <1>5
  <2>1. GatewayWithout(s) \in {gwc, None} /\ (UNCHANGED toGw \/ Disconnect(s, GatewayWithout(s)))
    BY DEF Reap, GatewayWithout
  <2> QED BY <1>1, <2>1, SpeakDisconnect
<1>6. CASE \E s \in Socks : Kick(s)
  BY <1>6, SpeakDisconnect DEF Kick
<1>7. CASE Scan
  BY <1>7, SpeakScan
<1> QED BY <1>1, <1>2, <1>3, <1>4, <1>5, <1>6, <1>7
        DEF GameLoop, ProcessStep, Quit, WorkDone, Pulse, Accept, CloseListener, Bind, CloseSockets, Exit,
            Stop, Expire, Crash, netVars

\* A game that takes the port finds nothing said.
LEMMA BindBegins ==
  ASSUME Firm, NEW p \in Pids, Bind(p), game = None
  PROVE  \A s \in Socks : /\ toGw[s] = <<>> /\ toGame[s] = <<>> /\ inbuf[s] = <<>>
                          /\ gdesc[s].session = None
<1>1. proc[p] = "forked" /\ p \in AtWork
  BY DEF Bind, AtWork
<1>2. Starting(p) /\ (mother # None => status # "notRunning") /\ \A q \in AtWork : q = p
  BY <1>1 DEF Firm, SurviveInv, GatewaySurvives, Known, OneInv, Staged, Stage, Alone, Waiting, Greeting, Admitted
<1>3. mother = None
  BY <1>2 DEF Starting
<1>4. ASSUME NEW s \in Socks PROVE toGw[s] = <<>> /\ gameEnd[s] = "gone"
  <2>1. toGw[s] = <<>>
    BY <1>3, AllTypes DEF Firm, SurviveInv, OnMother
  <2>2. gameEnd[s] # "gone" => owner[s] \in AtWork /\ proc[owner[s]] # "forked"
    BY DEF Firm, All, PortInv, AtWork
  <2> QED BY <1>1, <1>2, <2>1, <2>2
<1>5. \A s \in Socks : gdesc[s].state = "none" /\ inbuf[s] = <<>>
  BY NoGameNoPointers DEF Firm, All
<1> QED BY <1>4, <1>5 DEF Firm, SurviveInv, NothingUnsent, InSession

LEMMA LastAppend ==
  ASSUME NEW q \in Seq(Messages), NoReboot(q), NEW m, NEW i \in DOMAIN Append(q, m),
         Append(q, m)[i].type = "Reboot"
  PROVE  i = Len(Append(q, m))
<1>1. Append(q, m)[i] = IF i = Len(q) + 1 THEN m ELSE q[i]
  OBVIOUS
<1>2. i # Len(q) + 1 => i \in DOMAIN q
  OBVIOUS
<1>3. i # Len(q) + 1 => q[i] \in Lines(q)
  BY <1>2 DEF Lines
<1> QED BY <1>1, <1>3 DEF NoReboot

LEMMA LiveGame ==
  ASSUME Firm, UNCHANGED gatewayVars,
         \/ GameLoop \/ ProcessStep \/ Quit \/ Stop \/ Expire \/ (\E p \in Pids : Crash(p))
         \/ (\E t \in {"Shutdown", "Restart"} : SetOnReboot(t)) \/ \E s \in Socks : Kick(s)
  PROVE  SurviveInv'
<1>1. /\ Known /\ All /\ KeyInv /\ SurviveInv /\ pc # "dead"
      /\ UNCHANGED <<desc, mother, pc>>
  BY DEF Firm, SurviveInv, GatewaySurvives, gatewayVars
<1>2. NothingUnsent' /\ InSession'
  BY <1>1, UnsentGame, SessionGame DEF SurviveInv
<1>3. Speaks /\ Follows
  BY <1>1, GameSpeaks, GameFollows
<1>4. OnMother'
  BY <1>1, <1>3 DEF SurviveInv, OnMother, Speaks
<1>5. Done => UNCHANGED toGw /\ (Done' \/ \E p \in Pids : Bind(p) /\ game = None)
  BY <1>1, DoneIsQuiet
<1>6. \A k \in Keys : k # None
  BY <1>1, AllTypes
<1>7. RebootLast'
  <2>1. CASE Done /\ Done'
    BY <1>1, <1>5, <2>1 DEF SurviveInv, RebootLast
  <2>2. CASE Done /\ \E p \in Pids : Bind(p) /\ game = None
    BY <1>5, <2>2, BindBegins DEF RebootLast
  <2>3. CASE ~Done
    <3>1. \A s \in Socks : NoReboot(toGw[s])
      BY <1>1, <2>3 DEF SurviveInv, RebootLast, NoReboot, Lines
    <3>2. ASSUME NEW s \in Socks, NEW i \in DOMAIN toGw'[s], toGw'[s][i].type = "Reboot"
          PROVE  i = Len(toGw'[s]) /\ phase' = "saving"
      <4>1. toGw'[s][i] \in Lines(toGw'[s])
        BY DEF Lines
      <4>2. ~NoReboot(toGw'[s])
        BY <3>2, <4>1 DEF NoReboot
      <4>3. PICK m : phase' = "saving" /\ toGw'[s] = Append(toGw[s], m)
        BY <1>3, <3>1, <4>2 DEF Speaks
      <4> QED BY <1>1, <3>1, <3>2, <4>3, LastAppend, AllTypes
    <3> QED BY <3>2 DEF RebootLast, Done
  <2> QED BY <1>5, <2>1, <2>2, <2>3
<1>8. ASSUME NEW c \in Clients, NEW k \in Keys, desc'[c].session = k, desc'[c].srv = None
      PROVE  ~(Closed(k)') /\ (Done' \/ (~(Playing(k)') /\ ~(Asked(k)')))
  <2>1. ~Closed(k) /\ (Done \/ (~Playing(k) /\ ~Asked(k)))
    BY <1>1, <1>8 DEF SurviveInv, StaleKeys
  <2>2. CASE Done /\ Done'
    BY <1>5, <2>1, <2>2 DEF Closed
  <2>3. CASE Done /\ \E p \in Pids : Bind(p) /\ game = None
    <3>1. \A s \in Socks : /\ toGw[s] = <<>> /\ toGame[s] = <<>> /\ inbuf[s] = <<>>
                           /\ gdesc[s].session = None
      BY <2>3, BindBegins
    <3>2. Lines(<<>>) = {}
      BY DEF Lines
    <3>3. ~Playing(k) /\ ~Asked(k)
      BY <1>6, <3>1, <3>2 DEF Playing, Asked, Asks
    <3> QED BY <1>3, <2>1, <3>3 DEF Follows, Playing, Asked
  <2>4. CASE ~Done
    BY <1>3, <2>1, <2>4 DEF Follows, Playing, Asked
  <2> QED BY <1>5, <2>2, <2>3, <2>4
<1>9. StaleKeys'
  BY <1>8 DEF StaleKeys
<1> QED BY <1>1, <1>2, <1>4, <1>7, <1>9 DEF SurviveInv, GatewaySurvives

-------------------------------------------------------------------------------
(* The gateway's steps.                                                    *)

LEMMA LastTail ==
  ASSUME NEW q \in Seq(Messages), q # <<>>,
         \A i \in DOMAIN q : q[i].type = "Reboot" => i = Len(q)
  PROVE  /\ \A i \in DOMAIN Tail(q) : Tail(q)[i].type = "Reboot" => i = Len(Tail(q))
         /\ Head(q).type = "Reboot" => Tail(q) = <<>>
<1>1. /\ Tail(q) \in Seq(Messages) /\ Len(Tail(q)) = Len(q) - 1 /\ Len(q) \in Nat \ {0}
      /\ \A i \in 1 .. Len(q) - 1 : Tail(q)[i] = q[i + 1]
      /\ Head(q) = q[1]
  OBVIOUS
<1>2. DOMAIN q = 1 .. Len(q) /\ DOMAIN Tail(q) = 1 .. Len(q) - 1
  BY <1>1
<1>3. ASSUME NEW i \in 1 .. Len(q) - 1, Tail(q)[i].type = "Reboot" PROVE i = Len(q) - 1
  <2>1. i + 1 \in DOMAIN q /\ q[i + 1].type = "Reboot"
    BY <1>1, <1>2, <1>3
  <2>2. i + 1 = Len(q)
    BY <2>1
  <2>3. i \in Int /\ Len(q) \in Int
    BY <1>1
  <2> QED BY <2>2, <2>3
<1>4. Head(q).type = "Reboot" => Len(Tail(q)) = 0
  BY <1>1, <1>2
<1> QED BY <1>1, <1>2, <1>3, <1>4, EmptySeq

\* Lines are read, or lost with the connection.
Shrinks ==
  \A s \in Socks : \/ toGw'[s] \in {toGw[s], <<>>}
                   \/ toGw[s] # <<>> /\ toGw'[s] = Tail(toGw[s])

\* The mother connection is given up only when nothing is to be read.
LEMMA MotherEmpty ==
  ASSUME Firm, LinkDown \/ Supervise
  PROVE  mother' = mother \/ \A s \in Socks : toGw'[s] = <<>>
<1>1. OnMother /\ NothingUnread /\ \A s \in Socks : toGw[s] # <<>> => s = mother /\ gwEnd[s]
  BY DEF Firm, SurviveInv, Known, OneInv, NothingUnread, OnMother
<1>2. CASE LinkDown
  <2>1. \A s \in Socks : toGw[s] = <<>>
    BY <1>1, <1>2, AllTypes DEF Firm, LinkDown, isConnectedToGameServer
  <2> QED BY <1>2, <2>1 DEF LinkDown, GatewayCloses
<1>3. CASE Supervise
  <2> DEFINE over == Finished /\ shutdownOnReboot
             A == IF over THEN {s \in Socks : gwEnd[s]}
                  ELSE IF Finished THEN {mother} \ {None} ELSE {}
  <2>1. GatewayCloses(A) /\ (~Finished => mother' = mother)
    BY <1>3 DEF Supervise
  <2>2. CASE Finished
    <3>1. \A s \in Socks : s # None
      BY AllTypes DEF Firm
    <3>2. \A s \in Socks : toGw[s] # <<>> => s \in A
      BY <1>1, <2>2, <3>1
    <3> QED BY <2>1, <3>2 DEF GatewayCloses
  <2> QED BY <2>1, <2>2
<1> QED BY <1>2, <1>3

\* A gateway that takes its game for lost has none.
LEMMA LostIsGone ==
  ASSUME Firm, LinkDown, status \in {"running", "booting"}
  PROVE  game = None
<1> SUFFICES ASSUME game # None PROVE FALSE
  OBVIOUS
<1>1. Alone(game) \/ Greeting(game) \/ Admitted(game)
  BY GameStage DEF Firm, SurviveInv, GatewaySurvives
<1>2. ~LinkedTo(game)
  BY DEF LinkDown, isConnectedToGameServer, LinkedTo
<1> QED BY <1>1, <1>2 DEF Alone, Greeting, Admitted

LEMMA GoneIsDone == ASSUME All, game = None PROVE Done
  BY DEF All, TypeInv, TypeOK, Done, GameTypeOK, GameInv

LEMMA StaleForgets ==
  ASSUME Firm, UNCHANGED gameVars, Forgets
  PROVE  StaleKeys'
<1>1. /\ \A s \in Socks : Lines(toGw'[s]) \subseteq Lines(toGw[s])
      /\ \A s \in Socks, k \in Keys : Asks(s, k)' => Asks(s, k)
      /\ \A k \in Keys : k # None
  BY LosesLines, AllTypes DEF Firm, Forgets
<1>2. \A k \in Keys : /\ Closed(k)' => Closed(k)
                      /\ Playing(k)' => Playing(k)
                      /\ Asked(k)' => Asked(k)
  BY <1>1 DEF Closed, Playing, Asked, gameVars
<1>3. ASSUME NEW c \in Clients, NEW k \in Keys, desc'[c].session = k, desc'[c].srv = None
      PROVE  desc[c].session = k /\ desc[c].srv = None
  BY <1>1, <1>3 DEF Forgets, Loses
<1> QED BY <1>2, <1>3 DEF Firm, SurviveInv, StaleKeys, Done, gameVars

\* Everybody is unwired by a game that is done and has said it all.
LEMMA StaleUnwired ==
  ASSUME Firm, UNCHANGED gameVars, Loses, Done, \A s \in Socks : toGw'[s] = <<>>
  PROVE  StaleKeys'
<1>1. Lines(<<>>) = {}
  BY DEF Lines
<1>2. \A k \in Keys : ~(Closed(k)')
  BY <1>1 DEF Closed
<1> QED BY <1>2 DEF StaleKeys, Done, gameVars

\* A client that is not connected by its answer finds no game.
LEMMA StaleTakes ==
  ASSUME Firm, UNCHANGED gameVars, NEW c \in Clients, NEW k \in Keys, Takes(c, k)
  PROVE  StaleKeys'
<1>a. All /\ KeyInv /\ StaleKeys /\ k # None /\ UNCHANGED <<gdesc, inbuf, phase>>
  BY AllTypes DEF Firm, SurviveInv, gameVars
<1>1. \A j \in Keys : (Closed(j)' => Closed(j)) /\ (Playing(j)' => Playing(j))
  BY <1>a DEF Takes, Closed, Playing
<1>2. ~Held(k) /\ ~Closed(k)
  BY <1>a DEF Takes, KeyInv, LifeOf
<1>3. CASE desc'[c].srv = None /\ Listening = {} /\ UNCHANGED <<toGame, gameEnd>>
  <2>1. Done
    <3>1. game = None
      BY <1>3 DEF Listening, Firm, All, PortInv, TypeInv, TypeOK, GameTypeOK
    <3> QED BY <1>a, <3>1, GoneIsDone
  <2> QED BY <1>a, <1>1, <1>2, <2>1 DEF StaleKeys, Takes, Done
<1>4. CASE \E s \in Socks :
             /\ desc'[c].srv = s
             /\ toGame' = [toGame EXCEPT ![s] = <<[type |-> "Session", key |-> k]>>]
  <2> PICK s \in Socks :
        /\ desc'[c].srv = s
        /\ toGame' = [toGame EXCEPT ![s] = <<[type |-> "Session", key |-> k]>>]
    BY <1>4
  <2> DEFINE m == [type |-> "Session", key |-> k]
  <2>1. \A t \in Socks : toGame'[t] = toGame[t] \/ toGame'[t] = <<m>>
    BY <1>a, AllTypes
  <2>2. m.key = k /\ Lines(<<m>>) = {m}
    BY LinesOne
  <2> HIDE DEF m
  <2>3. \A t \in Socks, j \in Keys : j # k /\ Asks(t, j)' => Asks(t, j)
    BY <1>a, <2>1, <2>2 DEF Asks
  <2>4. ASSUME NEW d \in Clients, NEW j \in Keys, desc'[d].session = j, desc'[d].srv = None
        PROVE  j # k /\ desc[d].session = j /\ desc[d].srv = None
    <3>1. d # c
      BY <1>a, <2>4, AllTypes
    <3>2. desc'[d] = desc[d]
      BY <3>1 DEF Takes
    <3> QED BY <1>2, <2>4, <3>2 DEF Held
  <2> QED BY <1>a, <1>1, <2>3, <2>4 DEF StaleKeys, Done, Asked
<1> QED BY <1>3, <1>4 DEF Takes

\* The step that would kill the gateway is not taken.
LEMMA StaysAlive ==
  ASSUME Firm, GatewayLoop \/ ClientStep \/ Cooldown \/ \E c \in Clients : Forward(c)
  PROVE  pc' # "dead"
<1>a. pc # "dead" /\ All /\ StaleKeys
  BY DEF Firm, SurviveInv, GatewaySurvives
<1>1. CASE Input
  <2> DEFINE m == Head(toGw[mother])
  <2>1. CASE m.type # "Close"
    BY <1>1, <1>a, <2>1 DEF Input
  <2>2. CASE m.type = "Close"
    <3>1. /\ pc = "input" /\ mother \in Socks /\ m \in Lines(toGw[mother]) /\ m \in Messages
          /\ CloseSession(m.key)
      <4>1. pc = "input" /\ mother \in Socks /\ toGw[mother] # <<>>
        BY <1>1, <1>a, AllTypes DEF Input, Reading, isConnectedToGameServer
      <4>2. CloseSession(m.key)
        BY <1>1, <2>2 DEF Input
      <4> QED BY <1>a, <4>1, <4>2, AllTypes, LineFacts
    <3> PICK k \in Keys : k = m.key
      BY <2>2, <3>1, MessageFields
    <3>2. Closed(k)
      BY <2>2, <3>1 DEF Closed
    <3>3. \A c \in Closing(k) : desc[c].srv # None
      BY <1>a, <3>2 DEF Closing, StaleKeys
    <3> QED BY <1>a, <3>1, <3>3 DEF CloseSession
  <2> QED BY <2>1, <2>2
<1>2. CASE Supervise
  BY <1>2 DEF Supervise
<1>3. CASE LinkDown \/ NetDone
  BY <1>a, <1>3 DEF LinkDown, NetDone, Supervised
<1>4. CASE InputDone \/ ClientsDone \/ ClientStep \/ Cooldown
           \/ \E c \in Clients : RequestSession(c) \/ ServerLost(c) \/ Forward(c)
  BY <1>a, <1>4 DEF InputDone, ClientsDone, ClientStep, ClientArrives, ClientLeaves, Handshake,
     Cooldown, RequestSession, ServerLost, Forward, gatewayVars
<1> QED BY <1>1, <1>2, <1>3, <1>4 DEF GatewayLoop

LEMMA LiveGateway ==
  ASSUME Firm, UNCHANGED gameVars,
         GatewayLoop \/ ClientStep \/ Cooldown \/ \E c \in Clients : Forward(c)
  PROVE  SurviveInv'
<1>a. /\ All /\ KeyInv /\ NothingUnsent /\ InSession /\ OnMother /\ RebootLast /\ StaleKeys
      /\ UNCHANGED <<gdesc, phase>>
  BY DEF Firm, SurviveInv, gameVars
<1>b. toGw \in [Socks -> Seq(Messages)]
  BY <1>a, AllTypes
<1>1. NothingUnsent' /\ InSession'
  BY <1>a, UnsentGateway DEF InSession
<1>2. pc' # "dead"
  BY StaysAlive
<1>3. Shrinks
  <2>1. Loses => Shrinks
    BY DEF Loses, Shrinks
  <2>2. Input => Shrinks
    BY DEF Input, Shrinks
  <2>3. CASE ~(Input \/ LinkDown)
    BY <1>a, <2>1, <2>3, AsideForgets DEF GatewayLoop, Forgets
  <2> QED BY <1>a, <2>1, <2>2, <2>3, LinkDownLoses
<1>4. mother' = mother \/ \A s \in Socks : toGw'[s] = <<>>
  <2>1. CASE LinkDown \/ Supervise
    BY <2>1, MotherEmpty
  <2>2. CASE ~(LinkDown \/ Supervise)
    BY <2>2 DEF GatewayLoop, NetDone, Input, InputDone, ClientsDone, ClientStep, ClientArrives, ClientLeaves,
       Handshake, Cooldown, RequestSession, ServerLost, Forward, gatewayVars
  <2> QED BY <2>1, <2>2
<1>5. OnMother'
  BY <1>a, <1>3, <1>4 DEF OnMother, Shrinks
<1>6. RebootLast'
  <2> SUFFICES ASSUME NEW s \in Socks
               PROVE  \A i \in DOMAIN toGw'[s] : toGw'[s][i].type = "Reboot" => i = Len(toGw'[s]) /\ Done
    BY <1>a DEF RebootLast, Done
  <2>1. CASE toGw'[s] \in {toGw[s], <<>>}
    BY <1>a, <2>1 DEF RebootLast
  <2>2. CASE toGw[s] # <<>> /\ toGw'[s] = Tail(toGw[s])
    <3>1. \A i \in DOMAIN toGw[s] : toGw[s][i].type = "Reboot" => i = Len(toGw[s])
      BY <1>a DEF RebootLast
    <3>2. \A i \in DOMAIN Tail(toGw[s]) : Tail(toGw[s])[i].type = "Reboot" => i = Len(Tail(toGw[s]))
      BY <1>b, <2>2, <3>1, LastTail
    <3>3. (\E i \in DOMAIN Tail(toGw[s]) : Tail(toGw[s])[i].type = "Reboot") => Done
      <4>1. Lines(Tail(toGw[s])) \subseteq Lines(toGw[s])
        BY <1>b, <2>2, LineFacts
      <4> QED BY <1>a, <4>1 DEF Lines, RebootLast
    <3> QED BY <2>2, <3>2, <3>3
  <2> QED BY <1>3, <2>1, <2>2 DEF Shrinks
<1>7. StaleKeys'
  <2>1. CASE Input /\ Head(toGw[mother]).type = "SessionFor"
    BY <1>a, <2>1, AnswerTakes, StaleForgets, StaleTakes
  <2>2. CASE Input /\ Head(toGw[mother]).type = "Reboot"
    <3>1. Loses
      BY <1>a, <2>2, InputLoses
    <3>2. mother \in Socks /\ toGw[mother] # <<>> /\ mother' = mother
      BY <1>a, <2>2, AllTypes DEF Input, Reading, isConnectedToGameServer
    <3>3. \A i \in DOMAIN toGw[mother] : toGw[mother][i].type = "Reboot" => i = Len(toGw[mother]) /\ Done
      BY <1>a, <3>2 DEF RebootLast
    <3>4. Tail(toGw[mother]) = <<>>
      BY <1>b, <2>2, <3>2, <3>3, LastTail
    <3>5. Done
      <4>1. 1 \in DOMAIN toGw[mother] /\ Head(toGw[mother]) = toGw[mother][1]
        BY <1>b, <3>2
      <4> QED BY <2>2, <3>3, <4>1
    <3>6. \A s \in Socks : toGw'[s] = <<>>
      <4>1. \A s \in Socks : s # mother => toGw[s] = <<>>
        BY <1>a DEF OnMother
      <4>2. toGw'[mother] \in {<<>>, Tail(toGw[mother])}
        BY <2>2, <3>2 DEF Input
      <4> QED BY <1>5, <3>2, <3>4, <4>2 DEF OnMother
    <3> QED BY <3>1, <3>5, <3>6, StaleUnwired
  <2>3. CASE Input /\ Head(toGw[mother]).type \notin {"SessionFor", "Reboot"}
    BY <1>a, <2>3, InputLoses, StaleForgets
  <2>4. CASE LinkDown
    <3>1. Loses
      BY <1>a, <2>4, LinkDownLoses
    <3>2. CASE status \in {"running", "booting"}
      <4>1. Done
        BY <1>a, <2>4, <3>2, LostIsGone, GoneIsDone
      <4>2. \A s \in Socks : toGw[s] = <<>>
        <5>1. NothingUnread
          BY DEF Firm, Known, OneInv
        <5> QED BY <1>a, <2>4, <5>1, AllTypes DEF OnMother, NothingUnread, LinkDown, isConnectedToGameServer
      <4>3. \A s \in Socks : toGw'[s] = <<>>
        BY <1>3, <4>2 DEF Shrinks
      <4> QED BY <3>1, <4>1, <4>3, StaleUnwired
    <3>3. CASE status \notin {"running", "booting"}
      <4>1. UNCHANGED desc
        BY <2>4, <3>3 DEF LinkDown
      <4> QED BY <3>1, <4>1, StaleForgets DEF Forgets
    <3> QED BY <3>2, <3>3
  <2>5. CASE ~(Input \/ LinkDown)
    BY <1>a, <2>5, AsideForgets, StaleForgets DEF GatewayLoop
  <2> QED BY <2>1, <2>2, <2>3, <2>4, <2>5
<1> QED BY <1>1, <1>2, <1>5, <1>6, <1>7 DEF SurviveInv, GatewaySurvives

LEMMA FirmInit == Orderly /\ Init => Firm
<1> SUFFICES ASSUME Orderly, Init PROVE Firm
  OBVIOUS
<1>1. /\ \A s \in Socks : toGw[s] = <<>> /\ toGame[s] = <<>>
      /\ \A s \in Socks : gdesc[s] = NoDesc
      /\ \A c \in Clients : desc[c].session = None
      /\ pc = "net"
  BY DEF Init, NetInit, GatewayInit, GameInit, Fresh
<1>2. \A k \in Keys : k # None
  BY NetAssumption
<1>3. SurviveInv
  BY <1>1, <1>2 DEF SurviveInv, NothingUnsent, InSession, OnMother, RebootLast, StaleKeys, GatewaySurvives, NoDesc
<1> QED BY <1>3, KnownInit, AllInit, KeyInit DEF Firm

LEMMA FirmStep == Firm /\ [Next]_vars => Firm'
<1> SUFFICES ASSUME Firm, [Next]_vars PROVE Firm'
  OBVIOUS
<1>a. InOrder
  BY DEF Firm, Known
<1>1. SurviveInv'
  <2>1. CASE GatewayStep
    BY <2>1, LiveGateway DEF GatewayStep
  <2>2. CASE Wait60
    BY <2>2, LiveGateway DEF Wait60
  <2>3. CASE UNCHANGED vars
    <3>1. SurviveInv
      BY DEF Firm
    <3> QED BY <2>3, <3>1 DEF vars, netVars, gatewayVars, gameVars, SurviveInv, NothingUnsent, InSession, OnMother,
               RebootLast, StaleKeys, GatewaySurvives, Done, Closed, Playing, Asked, Asks
  <2>4. CASE GameStep
    BY <2>4, LiveGame DEF GameStep
  <2>5. CASE Fault
    <3>1. ASSUME NEW e \in {"start", "restart", "break"} PROVE ~Spend(e)
      BY <1>a DEF InOrder, Spend
    <3>2. CASE UNCHANGED gatewayVars /\ (\/ Stop \/ Expire \/ (\E p \in Pids : Crash(p))
                                         \/ (\E t \in {"Shutdown", "Restart"} : SetOnReboot(t))
                                         \/ \E s \in Socks : Kick(s))
      BY <3>2, LiveGame
    <3>3. CASE UNCHANGED gameVars /\ \E c \in Clients : Forward(c)
      BY <3>3, LiveGateway
    <3> QED BY <2>5, <3>1, <3>2, <3>3 DEF Fault
  <2> QED BY <2>1, <2>2, <2>3, <2>4, <2>5 DEF Next, Over
<1>2. Known' /\ All' /\ KeyInv'
  BY KnownStep, AllStep, KeyStep DEF Firm
<1> QED BY <1>1, <1>2 DEF Firm

\* However the game crashes, stops and comes back, no Close line reaches the
\* gateway for a descriptor that has lost its server connection: the pointer
\* that disconnectDescriptorFromGameAndGateway follows without a look is
\* never null.
THEOREM GatewayLives == Orderly /\ Spec => []GatewaySurvives
<1>1. Firm => GatewaySurvives
  BY DEF Firm, SurviveInv
<1> QED BY <1>1, FirmInit, FirmStep, PTL DEF Spec

-------------------------------------------------------------------------------
(* No client waits for an answer that will never come.                     *)

HostLine(c) == [type |-> "Host", client |-> c]
Asking(c) == desc[c].st = "retrievingSession"
Unasked(c) == desc[c].st \in {"new", "handshaking", "awaitingConnection"}
Linked == isConnectedToGameServer /\ PeerUp(mother)

\* The line m is at most once in the queue q.
AtMostOnce(q, m) == \A i, j \in DOMAIN q : q[i] = m /\ q[j] = m => i = j

\* Nobody waits for an answer while the gateway takes its game for gone, or
\* for one that is going.
Settled ==
  /\ status \in {"notRunning", "shuttingDown"} \/ rebooting => \A c \in Clients : ~Asking(c)
  /\ status \in {"notRunning", "shuttingDown"} => rebooting \/ mother = None

\* A game that is done has said so, and the gateway has read it or will.
LastWord == Done /\ Linked => rebooting \/ Message("Reboot") \in Lines(toGw[mother])

\* The mother connection is no player's.
MotherApart == mother # None => gdesc[mother].state = "none"

\* A client asks a game once: a request that was answered is not asked again,
\* and who has not asked has neither a request nor a pending session.
AskedOnce ==
  /\ phase = "off" => pending = {}
  /\ ~Done => \A c \in Clients :
       /\ \A e, f \in pending : e.host = c /\ f.host = c => e = f
       /\ Unasked(c) => \A e \in pending : e.host # c
       /\ mother # None =>
            /\ AtMostOnce(inbuf[mother], HostLine(c)) /\ AtMostOnce(toGame[mother], HostLine(c))
            /\ HostLine(c) \notin Lines(inbuf[mother]) \cap Lines(toGame[mother])
            /\ Unasked(c) \/ (\E e \in pending : e.host = c) =>
                 HostLine(c) \notin Lines(inbuf[mother]) \union Lines(toGame[mother])

\* RequestUnderWay, by the lines.
UnderWay(c) ==
  \/ HostLine(c) \in Lines(toGame[mother]) \union Lines(inbuf[mother])
  \/ \E m \in Lines(toGw[mother]) : m.type = "Reboot" \/ (m.type = "SessionFor" /\ m.client = c)
AskersServed == \A c \in Clients : Asking(c) /\ Linked => UnderWay(c)

ReqInv == Settled /\ LastWord /\ MotherApart /\ AskedOnce /\ AskersServed

\* There is room in pendingSessions for one session of each client.
Roomy == IsFiniteSet(Clients) /\ Cardinality(Clients) <= MaxPending

LEMMA OnceFirst ==
  ASSUME NEW m
  PROVE  AtMostOnce(<<>>, m) /\ \A n : AtMostOnce(<<n>>, m)
  BY DEF AtMostOnce

LEMMA OnceRead ==
  ASSUME NEW q \in Seq(Messages), q # <<>>, NEW m, AtMostOnce(q, m)
  PROVE  AtMostOnce(Tail(q), m) /\ (Head(q) = m => m \notin Lines(Tail(q)))
<1>1. /\ DOMAIN Tail(q) = 1 .. Len(q) - 1 /\ DOMAIN q = 1 .. Len(q) /\ Len(q) \in Nat \ {0}
      /\ Head(q) = q[1] /\ \A i \in 1 .. Len(q) - 1 : Tail(q)[i] = q[i + 1]
  <2>1. Tail(q) \in Seq(Messages) /\ Len(Tail(q)) = Len(q) - 1 /\ Len(q) \in Nat \ {0}
    OBVIOUS
  <2>2. \A i \in 1 .. Len(q) - 1 : Tail(q)[i] = q[i + 1]
    OBVIOUS
  <2> QED BY <2>1, <2>2
<1>2. PICK r, n : r = Tail(q) /\ n = Len(q)
  OBVIOUS
<1>3. \A i \in 1 .. n - 1 : r[i] = q[i + 1] /\ i + 1 \in 1 .. n /\ i + 1 # 1 /\ i \in Int
  BY ONLY <1>1, <1>2
<1>4. \A i, j \in 1 .. n : q[i] = m /\ q[j] = m => i = j
  BY <1>1, <1>2 DEF AtMostOnce
<1>5. \A i, j \in 1 .. n - 1 : r[i] = m /\ r[j] = m => i = j
  <2> TAKE i, j \in 1 .. n - 1
  <2>1. r[i] = m /\ r[j] = m => i + 1 = j + 1
    BY ONLY <1>3, <1>4
  <2> QED BY ONLY <1>3, <2>1
<1>6. q[1] = m => \A i \in 1 .. n - 1 : r[i] # m
  <2>1. n \in Nat \ {0}
    BY <1>1, <1>2
  <2>2. 1 \in 1 .. n
    BY <2>1
  <2> QED BY ONLY <1>3, <1>4, <2>2
<1> QED BY <1>1, <1>2, <1>5, <1>6 DEF AtMostOnce, Lines

LEMMA OnceWritten ==
  ASSUME NEW q \in Seq(Messages), NEW m, NEW n, AtMostOnce(q, m), n = m => m \notin Lines(q)
  PROVE  AtMostOnce(Append(q, n), m)
<1>1. /\ DOMAIN q = 1..Len(q) /\ Len(q) \in Nat
      /\ DOMAIN Append(q, n) = 1..(Len(q) + 1)
      /\ \A i \in 1..(Len(q) + 1) : Append(q, n)[i] = IF i = Len(q) + 1 THEN n ELSE q[i]
  <2>1. DOMAIN q = 1..Len(q) /\ Len(q) \in Nat
    OBVIOUS
  <2>2. DOMAIN Append(q, n) = 1..(Len(q) + 1)
    OBVIOUS
  <2>3. ASSUME NEW i \in 1..(Len(q) + 1)
        PROVE  Append(q, n)[i] = IF i = Len(q) + 1 THEN n ELSE q[i]
    OBVIOUS
  <2> QED BY ONLY <2>1, <2>2, <2>3
<1>2. PICK r, k : r = Append(q, n) /\ k = Len(q) /\ k \in Nat
  BY <1>1
<1>3. \A i \in 1..(k + 1) : r[i] = (IF i = k + 1 THEN n ELSE q[i]) /\ (i # k + 1 => i \in 1..k)
  BY ONLY <1>1, <1>2
<1>4. /\ \A i, j \in 1..k : q[i] = m /\ q[j] = m => i = j
      /\ n = m => \A i \in 1..k : q[i] # m
  BY <1>1, <1>2 DEF AtMostOnce, Lines
<1>5. \A i, j \in 1..(k + 1) : r[i] = m /\ r[j] = m => i = j
  BY ONLY <1>3, <1>4
<1> QED BY <1>1, <1>2, <1>5 DEF AtMostOnce

LEMMA OnceJoined ==
  ASSUME NEW q \in Seq(Messages), NEW r \in Seq(Messages), NEW m,
         AtMostOnce(q, m), AtMostOnce(r, m), m \notin Lines(q) \cap Lines(r)
  PROVE  AtMostOnce(q \o r, m)
<1>1. /\ q \o r \in Seq(Messages) /\ DOMAIN (q \o r) = 1 .. Len(q) + Len(r)
      /\ \A i \in 1 .. Len(q) + Len(r) : (q \o r)[i] = IF i <= Len(q) THEN q[i] ELSE r[i - Len(q)]
  BY ConcatProperties, LenProperties
<1>1a. Len(q) \in Nat /\ Len(r) \in Nat /\ DOMAIN q = 1 .. Len(q) /\ DOMAIN r = 1 .. Len(r)
  BY LenProperties
<1>1c. PICK k \in Nat : k = Len(q)
  BY <1>1a
<1>1d. PICK n \in Nat : n = Len(r)
  BY <1>1a
<1>1e. PICK s : s = q \o r
  OBVIOUS
<1>1b. /\ DOMAIN s = 1 .. k + n /\ DOMAIN q = 1 .. k /\ DOMAIN r = 1 .. n
       /\ \A i \in 1 .. k + n : s[i] = IF i <= k THEN q[i] ELSE r[i - k]
  BY ONLY <1>1, <1>1a, <1>1c, <1>1d, <1>1e
<1>2. \A i \in 1 .. k + n : \/ (i \in 1 .. k /\ s[i] = q[i] /\ i \in Int)
                           \/ (i - k \in 1 .. n /\ s[i] = r[i - k] /\ i \in Int)
  BY ONLY <1>1b, k \in Nat, n \in Nat
<1>3. /\ \A i, j \in 1 .. k : q[i] = m /\ q[j] = m => i = j
      /\ \A i, j \in 1 .. n : r[i] = m /\ r[j] = m => i = j
      /\ \A i \in 1 .. k, j \in 1 .. n : ~(q[i] = m /\ r[j] = m)
  BY <1>1b DEF AtMostOnce, Lines
<1>4. \A i, j \in 1 .. k + n : s[i] = m /\ s[j] = m => i = j
  <2> SUFFICES ASSUME NEW i \in 1 .. k + n, NEW j \in 1 .. k + n, s[i] = m, s[j] = m PROVE i = j
    OBVIOUS
  <2>1. i - k \in 1 .. n /\ j - k \in 1 .. n => i - k = j - k
    BY ONLY <1>2, <1>3, s[i] = m, s[j] = m, i \in 1 .. k + n, j \in 1 .. k + n
  <2> QED BY ONLY <1>2, <1>3, s[i] = m, s[j] = m, i \in 1 .. k + n, j \in 1 .. k + n, k \in Nat
<1> QED BY <1>1b, <1>1e, <1>4 DEF AtMostOnce

LEMMA RequestLines == RequestUnderWay <=> AskersServed
<1>1. ASSUME NEW c
      PROVE  UnderWay(c) <=>
               \/ \E i \in DOMAIN toGame[mother] : toGame[mother][i] = [type |-> "Host", client |-> c]
               \/ \E i \in DOMAIN inbuf[mother] : inbuf[mother][i] = [type |-> "Host", client |-> c]
               \/ \E i \in DOMAIN toGw[mother] :
                    toGw[mother][i].type = "Reboot"
                    \/ (toGw[mother][i].type = "SessionFor" /\ toGw[mother][i].client = c)
  BY Zenon DEF UnderWay, Lines, HostLine
<1> QED BY <1>1 DEF RequestUnderWay, AskersServed, Linked, Asking

-------------------------------------------------------------------------------
(* The gateway's steps.                                                    *)

\* What most of them leave: the mother connection and what it carries, unless
\* they close it; and who asks or has not asked did so before.
Beside ==
  /\ UNCHANGED <<mother, rebooting, status>>
  /\ mother # None =>
       /\ gwEnd'[mother] => gwEnd[mother] /\ toGw'[mother] = toGw[mother]
       /\ PeerUp(mother)' => PeerUp(mother)
       /\ toGame'[mother] = toGame[mother]
  /\ \A c \in Clients : (Asking(c)' => Asking(c)) /\ (Unasked(c)' => Unasked(c))

LEMMA BesideKeeps ==
  ASSUME Firm, ReqInv, UNCHANGED gameVars, Beside
  PROVE  ReqInv'
<1>1. /\ UNCHANGED <<mother, rebooting, status, phase, inbuf, pending, gdesc>>
      /\ Done' = Done
  BY DEF Beside, gameVars, Done
<1>2. Settled /\ LastWord /\ MotherApart /\ AskedOnce /\ AskersServed
  BY DEF ReqInv
<1>3. Linked' => Linked /\ toGw'[mother] = toGw[mother] /\ toGame'[mother] = toGame[mother]
  BY <1>1 DEF Linked, isConnectedToGameServer, Beside, PeerUp
<1>4. Settled'
  BY <1>1, <1>2 DEF Settled, Beside
<1>5. LastWord'
  BY <1>1, <1>2, <1>3 DEF LastWord
<1>6. MotherApart'
  BY <1>1, <1>2 DEF MotherApart
<1>7. AskedOnce'
  BY <1>1, <1>2 DEF AskedOnce, Beside
<1>8. AskersServed'
  BY <1>1, <1>2, <1>3 DEF AskersServed, Beside, UnderWay
<1> QED BY <1>4, <1>5, <1>6, <1>7, <1>8 DEF ReqInv

\* Clients who leave, and connections that are closed, ask nothing.
LEMMA DropBeside ==
  ASSUME All, NEW C, NEW A, Drop(C), GatewayCloses(A),
         UNCHANGED <<mother, rebooting, status, gameEnd, toGame>>
  PROVE  Beside
<1>1. \A c \in Clients : desc'[c] = desc[c] \/ desc'[c].st = "gone"
  BY DEF Drop, Fresh
<1>2. \A c \in Clients : (Asking(c)' => Asking(c)) /\ (Unasked(c)' => Unasked(c))
  BY <1>1 DEF Asking, Unasked
<1>3. mother # None => mother \in Socks
  BY AllTypes
<1> QED BY <1>2, <1>3 DEF Beside, GatewayCloses, PeerUp

LEMMA GatewayBeside ==
  ASSUME All,
         \/ NetDone \/ InputDone \/ ClientsDone \/ ClientStep \/ Cooldown
         \/ (Supervise /\ ~Finished)
         \/ \E c \in Clients : ServerLost(c) \/ Forward(c)
  PROVE  Beside
<1>1. CASE NetDone
  BY <1>1, DropBeside DEF NetDone
<1>2. CASE \E c \in Clients : ClientLeaves(c) \/ ServerLost(c)
  BY <1>2, DropBeside DEF ClientLeaves, ServerLost
<1>3. ASSUME UNCHANGED <<mother, rebooting, status, gameEnd, toGame, desc>>,
             UNCHANGED <<gwEnd, toGw>> \/ \E A : GatewayCloses(A)
      PROVE  Beside
  <2>1. mother # None => mother \in Socks
    BY AllTypes
  <2>2. \A c \in Clients : (Asking(c)' => Asking(c)) /\ (Unasked(c)' => Unasked(c))
    BY <1>3 DEF Asking, Unasked
  <2>3. ASSUME mother # None
        PROVE  /\ gwEnd'[mother] => gwEnd[mother] /\ toGw'[mother] = toGw[mother]
               /\ PeerUp(mother)' => PeerUp(mother)
               /\ toGame'[mother] = toGame[mother]
    BY <1>3, <2>1, <2>3 DEF GatewayCloses, PeerUp
  <2> QED BY <1>3, <2>2, <2>3 DEF Beside
<1>4. CASE InputDone \/ ClientsDone \/ Cooldown
  BY <1>3, <1>4 DEF InputDone, ClientsDone, Cooldown, netVars
<1>5. CASE Supervise /\ ~Finished
  BY <1>3, <1>5 DEF Supervise
<1>6. CASE \E c \in Clients : ClientArrives(c) \/ Handshake(c)
  <2> PICK c \in Clients : ClientArrives(c) \/ Handshake(c)
    BY <1>6
  <2>1. UNCHANGED <<mother, rebooting, status, gameEnd, toGame, gwEnd, toGw>>
    BY DEF ClientArrives, Handshake, netVars
  <2>2. \A d \in Clients : d # c => desc'[d] = desc[d]
    BY AllTypes DEF ClientArrives, Handshake
  <2>3. Unasked(c) /\ ~(Asking(c)')
    <3>1. DOMAIN desc = Clients
      BY AllTypes
    <3>2. CASE ClientArrives(c)
      <4> DEFINE new == [Fresh(FirstStatus(c)) EXCEPT !.open = TRUE]
      <4>1. desc'[c] = new /\ desc[c].st = "new"
        BY <3>1, <3>2 DEF ClientArrives
      <4>2. new.st \in {"handshaking", "awaitingConnection"}
        BY DEF Fresh, FirstStatus
      <4> QED BY <4>1, <4>2 DEF Unasked, Asking
    <3>3. CASE Handshake(c)
      <4>1. desc[c].st = "handshaking" /\ desc[c] \in Descriptors
        BY <3>3, AllTypes DEF Handshake
      <4>2. \/ desc' = [desc EXCEPT ![c].st = "awaitingConnection", ![c].shaken = TRUE]
            \/ desc' = [desc EXCEPT ![c].st = "disconnected"]
        BY <3>3 DEF Handshake
      <4>3. \/ desc'[c] = [desc[c] EXCEPT !.st = "awaitingConnection", !.shaken = TRUE]
            \/ desc'[c] = [desc[c] EXCEPT !.st = "disconnected"]
        BY <3>1, <4>2
      <4>4. desc'[c].st \in {"awaitingConnection", "disconnected"}
        BY <4>1, <4>3 DEF Descriptors
      <4> QED BY <4>1, <4>4 DEF Unasked, Asking
    <3> QED BY <3>2, <3>3
  <2>4. \A d \in Clients : (Asking(d)' => Asking(d)) /\ (Unasked(d)' => Unasked(d))
    BY <2>2, <2>3 DEF Asking, Unasked
  <2> QED BY <2>1, <2>4 DEF Beside, PeerUp
<1>7. CASE \E c \in Clients : Forward(c)
  <2> PICK c \in Clients : Forward(c)
    BY <1>7
  <2>1. /\ UNCHANGED <<mother, rebooting, status, gameEnd, desc, gwEnd, toGw>>
        /\ toGame' = [toGame EXCEPT ![desc[c].srv] = <<Message("Line")>>]
        /\ desc[c].st = "connected" /\ pc = "clients"
    BY DEF Forward, gatewayVars
  <2>2. mother # None => mother \in Socks /\ desc[c].srv # mother
    BY <2>1, AllTypes DEF All, WiredInv, OwnServerConnection, Wired, ConnectedOnly
  <2>3. mother # None => toGame'[mother] = toGame[mother]
    BY <2>1, <2>2, AllTypes
  <2>4. \A d \in Clients : (Asking(d)' => Asking(d)) /\ (Unasked(d)' => Unasked(d))
    BY <2>1 DEF Asking, Unasked
  <2> QED BY <2>1, <2>3, <2>4 DEF Beside, PeerUp
<1> QED BY <1>1, <1>2, <1>4, <1>5, <1>6, <1>7 DEF ClientStep

\* A request is written on the connection, unless that is lost.
LEMMA AskKeeps ==
  ASSUME Firm, ReqInv, UNCHANGED gameVars, NEW c \in Clients, RequestSession(c)
  PROVE  ReqInv'
<1>1. /\ UNCHANGED <<mother, rebooting, status, gameEnd, phase, inbuf, pending, gdesc>>
      /\ Done' = Done /\ All
  BY DEF RequestSession, gameVars, Done, Firm
<1>2. Settled /\ LastWord /\ MotherApart /\ AskedOnce /\ AskersServed
  BY DEF ReqInv
<1>3. mother \in Socks /\ mother # None /\ ~rebooting /\ desc[c].st = "awaitingConnection"
  BY <1>1, AllTypes DEF RequestSession, MayAsk, mudIsDown
<1>4. status \notin {"notRunning", "shuttingDown"}
  BY <1>2, <1>3 DEF Settled
<1>5. /\ \A d \in Clients : d # c => desc'[d] = desc[d]
      /\ desc'[c].st = "retrievingSession"
  <2>1. DOMAIN desc = Clients /\ desc[c] \in Descriptors
    BY <1>1, AllTypes
  <2>2. desc' = [desc EXCEPT ![c].st = "retrievingSession"]
    BY DEF RequestSession
  <2> QED BY <2>1, <2>2 DEF Descriptors
<1>6. /\ Unasked(c) /\ ~(Unasked(c)') /\ Asking(c)'
      /\ \A d \in Clients : d # c => (Asking(d)' <=> Asking(d)) /\ (Unasked(d)' <=> Unasked(d))
  BY <1>3, <1>5 DEF Asking, Unasked
<1>7. /\ toGame'[mother] \in {toGame[mother], Append(toGame[mother], HostLine(c))}
      /\ Linked' => /\ Linked /\ toGw'[mother] = toGw[mother]
                    /\ toGame'[mother] = Append(toGame[mother], HostLine(c))
  <2>1. CASE gwEnd[mother] /\ PeerUp(mother)
    <3>1. toGame' = [toGame EXCEPT ![mother] = Append(@, [type |-> "Host", client |-> c])]
          /\ UNCHANGED <<gwEnd, toGw>>
      BY <2>1 DEF RequestSession
    <3>2. toGame'[mother] = Append(toGame[mother], [type |-> "Host", client |-> c])
      BY <1>1, <1>3, <3>1, AllTypes
    <3> QED BY <1>3, <2>1, <3>1, <3>2 DEF HostLine, Linked, isConnectedToGameServer
  <2>2. CASE ~(gwEnd[mother] /\ PeerUp(mother))
    <3>1. UNCHANGED toGame /\ (GatewayCloses({mother}) \/ UNCHANGED <<gwEnd, toGw>>)
      BY <2>2 DEF RequestSession
    <3>2. ~(Linked')
      BY <1>1, <1>3, <2>2, <3>1 DEF Linked, isConnectedToGameServer, GatewayCloses, PeerUp
    <3> QED BY <3>1, <3>2
  <2> QED BY <2>1, <2>2
<1>8. toGame[mother] \in Seq(Messages)
  BY <1>1, <1>3, AllTypes
<1>9. Lines(Append(toGame[mother], HostLine(c))) = Lines(toGame[mother]) \union {HostLine(c)}
  BY <1>8, LinesAppend
<1>10. \A d \in Clients : HostLine(d) = HostLine(c) => d = c
  BY DEF HostLine
<1>11. Settled'
  BY <1>1, <1>3, <1>4 DEF Settled
<1>12. LastWord'
  BY <1>1, <1>2, <1>7 DEF LastWord
<1>13. MotherApart'
  BY <1>1, <1>2 DEF MotherApart
<1>14. AskedOnce'
  <2> SUFFICES ASSUME ~Done, NEW d \in Clients
               PROVE  /\ \A e, f \in pending : e.host = d /\ f.host = d => e = f
                      /\ Unasked(d)' => \A e \in pending : e.host # d
                      /\ AtMostOnce(inbuf[mother], HostLine(d)) /\ AtMostOnce(toGame'[mother], HostLine(d))
                      /\ HostLine(d) \notin Lines(inbuf[mother]) \cap Lines(toGame'[mother])
                      /\ Unasked(d)' \/ (\E e \in pending : e.host = d) =>
                           HostLine(d) \notin Lines(inbuf[mother]) \union Lines(toGame'[mother])
    BY <1>1, <1>2 DEF AskedOnce
  <2>1. /\ \A e, f \in pending : e.host = d /\ f.host = d => e = f
        /\ Unasked(d) => \A e \in pending : e.host # d
        /\ AtMostOnce(inbuf[mother], HostLine(d)) /\ AtMostOnce(toGame[mother], HostLine(d))
        /\ HostLine(d) \notin Lines(inbuf[mother]) \cap Lines(toGame[mother])
        /\ Unasked(d) \/ (\E e \in pending : e.host = d) =>
             HostLine(d) \notin Lines(inbuf[mother]) \union Lines(toGame[mother])
    BY <1>2, <1>3 DEF AskedOnce
  <2>2. AtMostOnce(Append(toGame[mother], HostLine(c)), HostLine(d))
    <3>1. HostLine(c) = HostLine(d) => HostLine(d) \notin Lines(toGame[mother])
      BY <1>6, <1>10, <2>1
    <3> QED BY ONLY <1>8, <2>1, <3>1, OnceWritten
  <2>3. AtMostOnce(toGame'[mother], HostLine(d))
    BY ONLY <1>7, <2>1, <2>2
  <2>4. Lines(toGame'[mother]) \subseteq Lines(toGame[mother]) \union {HostLine(c)}
    BY <1>7, <1>9
  <2>5. CASE d = c
    BY <1>6, <2>1, <2>3, <2>4, <2>5
  <2>6. CASE d # c
    <3>1. HostLine(d) # HostLine(c)
      BY <1>10, <2>6
    <3> QED BY <1>6, <2>1, <2>3, <2>4, <2>6, <3>1
  <2> QED BY <2>5, <2>6
<1>15. AskersServed'
  <2> SUFFICES ASSUME NEW d \in Clients, Asking(d)', Linked' PROVE UnderWay(d)'
    BY DEF AskersServed
  <2>1. Lines(toGame'[mother]) = Lines(toGame[mother]) \union {HostLine(c)}
    BY <1>7, <1>9
  <2>2. CASE d = c
    BY <1>1, <2>1, <2>2 DEF UnderWay
  <2>3. CASE d # c
    <3>1. UnderWay(d)
      BY <1>2, <1>6, <1>7, <2>3 DEF AskersServed
    <3> QED BY <1>1, <1>7, <2>1, <3>1 DEF UnderWay
  <2> QED BY <2>2, <2>3
<1> QED BY <1>11, <1>12, <1>13, <1>14, <1>15 DEF ReqInv

\* Without a mother connection there is little to keep.
LEMMA UnlinkedKeeps ==
  ASSUME Firm, ReqInv, UNCHANGED gameVars, mother' = None, Settled',
         \A c \in Clients : Unasked(c)' => Unasked(c) \/ Done
  PROVE  ReqInv'
<1>1. /\ UNCHANGED <<phase, pending>> /\ Done' = Done /\ ~(Linked') /\ AskedOnce
  BY DEF gameVars, Done, Linked, isConnectedToGameServer, ReqInv
<1>2. LastWord' /\ MotherApart' /\ AskersServed'
  BY <1>1 DEF LastWord, MotherApart, AskersServed
<1>3. AskedOnce'
  BY <1>1 DEF AskedOnce
<1> QED BY <1>2, <1>3 DEF ReqInv

LEMMA FinishedKeeps ==
  ASSUME Firm, ReqInv, UNCHANGED gameVars, Supervise, Finished
  PROVE  ReqInv'
<1>1. Settled /\ status = "shuttingDown"
  BY DEF ReqInv, Finished
<1>2. mother' = None /\ (UNCHANGED desc \/ \E C : Drop(C))
  BY DEF Supervise
<1>3. \A c \in Clients : (Asking(c)' => Asking(c)) /\ (Unasked(c)' => Unasked(c))
  BY <1>2 DEF Asking, Unasked, Drop, Fresh
<1>4. Settled'
  BY <1>1, <1>2, <1>3 DEF Settled
<1> QED BY <1>2, <1>3, <1>4, UnlinkedKeeps

\* A new connection carries the greeting only, and is the game's first.
LEMMA LinkKeepsRequests ==
  ASSUME Firm, ReqInv, UNCHANGED gameVars, LinkDown
  PROVE  ReqInv'
<1> DEFINE crash == status \in {"running", "booting"}
<1>1. /\ All /\ Settled /\ AskedOnce /\ UNCHANGED <<phase, inbuf, pending, gdesc>> /\ Done' = Done
      /\ pc # "dead"
  BY DEF Firm, ReqInv, gameVars, Done, SurviveInv, GatewaySurvives
<1>2. crash => Done
  BY LostIsGone, GoneIsDone, <1>1
<1>3. \A c \in Clients : ~(Asking(c)')
  <2>1. CASE crash
    BY <2>1, <1>1, AllTypes DEF LinkDown, Shutdown, Asking, Descriptors
  <2>2. CASE ~crash
    <3>1. UNCHANGED desc /\ status \in {"notRunning", "shuttingDown"}
      BY <1>1, <2>2, AllTypes DEF LinkDown, GatewayTypeOK, MudStatuses
    <3> QED BY <1>1, <3>1 DEF Settled, Asking
  <2> QED BY <2>1, <2>2
<1>4. \A c \in Clients : Unasked(c)' => Unasked(c) \/ Done
  <2>1. ~crash => UNCHANGED desc
    BY DEF LinkDown
  <2> QED BY <1>2, <2>1 DEF Unasked
<1>5. CASE Listening = {}
  <2>1. mother' = None
    BY <1>5 DEF LinkDown
  <2>2. Settled'
    BY <1>3, <2>1 DEF Settled
  <2> QED BY <1>4, <2>1, <2>2, UnlinkedKeeps
<1>6. CASE Listening # {}
  <2>1. /\ mother' = FreeSock /\ status' = "booting" /\ rebooting' = FALSE
        /\ \E p, A : Connect(FreeSock, p, Message("Validate"), A)
        /\ UsableSocks # {}
    BY <1>6 DEF LinkDown
  <2>2. PICK s \in Socks : s = FreeSock /\ Unused(s) /\ s # None
    BY <1>1, <2>1, AllTypes DEF FreeSock, UsableSocks
  <2>3. toGame'[s] = <<Message("Validate")>> /\ inbuf[s] = <<>> /\ gdesc[s].state = "none"
    <3>1. toGame' = [toGame EXCEPT ![s] = <<Message("Validate")>>]
      BY <2>1, <2>2 DEF Connect
    <3>2. toGame'[s] = <<Message("Validate")>>
      BY <1>1, <3>1, AllTypes
    <3>3. gameEnd[s] = "gone"
      BY <2>2 DEF Unused
    <3> QED BY <1>1, <3>2, <3>3 DEF All, PortInv, Buffers, PointersAlive
  <2>4. ~Done
    <3>1. game # None
      BY <1>6, KnownTypes DEF Firm, Listening
    <3>2. Alone(game) \/ Greeting(game) \/ Admitted(game)
      BY <1>1, <3>1, GameStage DEF Firm
    <3>3. ~LinkedTo(game)
      BY DEF LinkDown, isConnectedToGameServer, LinkedTo
    <3> QED BY <3>2, <3>3 DEF Alone, Greeting, Admitted, Waiting, Done
  <2>5. Settled' /\ LastWord' /\ AskersServed'
    BY <1>1, <1>3, <2>1, <2>4 DEF Settled, LastWord, AskersServed
  <2>6. MotherApart'
    BY <1>1, <2>1, <2>2, <2>3 DEF MotherApart
  <2>7. AskedOnce'
    <3>1. \A c \in Clients : HostLine(c) # Message("Validate")
      <4>1. \A c : HostLine(c).type = "Host" /\ Message("Validate").type = "Validate"
        BY DEF HostLine, Message
      <4> QED BY <4>1
    <3>2. Lines(toGame'[s]) = {Message("Validate")} /\ Lines(inbuf[s]) = {}
      BY <2>3, LinesOne DEF Lines
    <3>3. \A c \in Clients : /\ AtMostOnce(inbuf[s], HostLine(c)) /\ AtMostOnce(toGame'[s], HostLine(c))
                             /\ HostLine(c) \notin Lines(inbuf[s]) \union Lines(toGame'[s])
      BY <2>3, <3>1, <3>2, OnceFirst
    <3> QED BY <1>1, <1>4, <2>1, <2>2, <3>3 DEF AskedOnce
  <2> QED BY <2>5, <2>6, <2>7 DEF ReqInv
<1> QED BY <1>5, <1>6

LEMMA LinesSplit ==
  ASSUME NEW q \in Seq(Messages), q # <<>>
  PROVE  Lines(q) = {Head(q)} \union Lines(Tail(q))
<1>1. Head(q) \in Lines(q) /\ Lines(Tail(q)) \subseteq Lines(q)
  BY LineFacts
<1>2. Lines(q) \subseteq {Head(q)} \union Lines(Tail(q))
  <2>1. /\ Tail(q) \in Seq(Messages) /\ Len(Tail(q)) = Len(q) - 1 /\ Len(q) \in Nat \ {0}
        /\ DOMAIN q = 1 .. Len(q) /\ DOMAIN Tail(q) = 1 .. Len(q) - 1 /\ Head(q) = q[1]
    OBVIOUS
  <2>2. \A i \in 1 .. Len(q) - 1 : Tail(q)[i] = q[i + 1]
    OBVIOUS
  <2>3. PICK r, n : r = Tail(q) /\ n = Len(q)
    OBVIOUS
  <2>4. \A i \in 1 .. n : i = 1 \/ (i - 1 \in 1 .. n - 1 /\ q[i] = r[i - 1])
    <3>1. \A i \in 1 .. n - 1 : r[i] = q[i + 1]
      BY ONLY <2>2, <2>3
    <3>2. n \in Nat
      BY ONLY <2>1, <2>3
    <3> TAKE i \in 1 .. n
    <3>3. i # 1 => i - 1 \in 1 .. n - 1 /\ (i - 1) + 1 = i
      BY ONLY <3>2, i \in 1 .. n
    <3> QED BY ONLY <3>1, <3>3
  <2>5. ASSUME NEW i \in 1 .. n
        PROVE  q[i] \in {Head(q)} \union Lines(Tail(q))
    <3>1. i = 1 => q[i] = Head(q)
      BY ONLY <2>1
    <3>2. i # 1 => q[i] \in Lines(Tail(q))
      BY <2>1, <2>3, <2>4, <2>5 DEF Lines
    <3> QED BY <3>1, <3>2
  <2> QED BY <2>1, <2>3, <2>5 DEF Lines
<1> QED BY <1>1, <1>2

\* A line that is read: the Reboot line puts everybody back, an answer is its
\* client's, and no other line is anybody's who asks.
LEMMA ReadKinds ==
  ASSUME All, Input, pc' # "dead"
  PROVE  \/ /\ Head(toGw[mother]).type = "Reboot" /\ rebooting'
            /\ \A d \in Clients : ~(Asking(d)')
         \/ /\ Head(toGw[mother]).type # "Reboot" /\ rebooting' = rebooting
            /\ status' \in {status, "running"}
            /\ \A d \in Clients :
                 /\ Unasked(d)' => Unasked(d)
                 /\ Asking(d)' =>
                      Asking(d) /\ ~(Head(toGw[mother]).type = "SessionFor" /\ Head(toGw[mother]).client = d)
<1> DEFINE m == Head(toGw[mother])
<1>1. mother \in Socks /\ toGw[mother] # <<>>
  BY AllTypes DEF Input, Reading, isConnectedToGameServer
<1>2. m \in Messages /\ (m.type = "SessionFor" => m.client \in Clients)
  BY <1>1, HeadTypes, MessageFields, AllTypes
<1>3. rebooting' = (m.type = "Reboot" \/ rebooting) /\ rebooting \in BOOLEAN
  BY AllTypes DEF Input, GatewayTypeOK
<1>4. DOMAIN desc = Clients /\ \A d \in Clients : desc[d] \in Descriptors
  BY AllTypes
<1> HIDE DEF m
<1>5. CASE m.type = "Reboot"
  <2>1. desc' = Shutdown(desc)
    BY <1>5 DEF Input, m
  <2>2. \A d \in Clients : ~(Asking(d)')
    BY <1>4, <2>1 DEF Shutdown, Asking, Descriptors
  <2> QED BY <1>3, <1>5, <2>2 DEF m
<1>6. CASE m.type = "SessionFor"
  <2>1. OpenSession(m.client, m.key) /\ UNCHANGED status
    BY <1>6 DEF Input, m
  <2>2. PICK c \in Clients : c = m.client
    BY <1>2, <1>6
  <2>3. \A d \in Clients : d # c => desc'[d] = desc[d]
    BY <1>4, <2>1, <2>2 DEF OpenSession
  <2>4. ~(Asking(c)') /\ (Unasked(c)' => Unasked(c))
    <3>1. CASE ~Present(c)
      <4>1. desc' = desc
        BY <2>1, <2>2, <3>1 DEF OpenSession
      <4> QED BY <3>1, <4>1 DEF Present, Asking, Unasked
    <3>2. CASE Present(c)
      <4>1. desc'[c].st \in {"disconnected", "connected"}
        BY <1>4, <2>1, <2>2, <3>2 DEF OpenSession, Descriptors
      <4> QED BY <4>1 DEF Asking, Unasked
    <3> QED BY <3>1, <3>2
  <2>5. \A d \in Clients : /\ Unasked(d)' => Unasked(d)
                           /\ Asking(d)' => Asking(d) /\ m.client # d
    BY <2>2, <2>3, <2>4 DEF Asking, Unasked
  <2> QED BY <1>3, <1>6, <2>1, <2>5 DEF m, Asking, Unasked
<1>7. CASE m.type = "Close"
  <2>1. CloseSession(m.key) /\ UNCHANGED status
    BY <1>7 DEF Input, m
  <2>2. \A d \in Clients : desc'[d] \in {desc[d], Fresh("gone")}
    BY <1>4, <2>1 DEF CloseSession
  <2>3. \A d \in Clients : /\ Unasked(d)' => Unasked(d)
                           /\ Asking(d)' => Asking(d)
    BY <2>2 DEF Asking, Unasked, Fresh
  <2> QED BY <1>3, <1>7, <2>1, <2>3 DEF m, Asking, Unasked
<1>8. CASE m.type \notin {"Reboot", "SessionFor", "Close"}
  <2>1. UNCHANGED desc /\ status' = IF m.type = "FinishedBooting" THEN "running" ELSE status
    BY <1>8 DEF Input, m
  <2>2. \A d \in Clients : /\ Unasked(d)' => Unasked(d)
                           /\ Asking(d)' => Asking(d)
    BY <2>1 DEF Asking, Unasked
  <2> QED BY <1>3, <1>8, <2>1, <2>2 DEF m, Asking, Unasked
<1> QED BY <1>5, <1>6, <1>7, <1>8

LEMMA InputKeepsRequests ==
  ASSUME Firm, ReqInv, UNCHANGED gameVars, Input
  PROVE  ReqInv'
<1> DEFINE m == Head(toGw[mother])
<1>1. /\ All /\ Known /\ Settled /\ LastWord /\ MotherApart /\ AskedOnce /\ AskersServed
      /\ UNCHANGED <<phase, inbuf, pending, gdesc, mother>> /\ Done' = Done
      /\ pc' # "dead"
  BY StaysAlive DEF Firm, ReqInv, gameVars, Done, GatewayLoop, Input
<1>2. mother \in Socks /\ mother # None /\ toGw[mother] # <<>> /\ toGw[mother] \in Seq(Messages)
      /\ status # "notRunning" /\ gwEnd[mother]
  BY <1>1, AllTypes DEF Input, Reading, isConnectedToGameServer
<1>3. gwEnd'[mother] /\ gameEnd'[mother] = gameEnd[mother]
  BY <1>1, MotherStands
<1>4. toGw'[mother] = Tail(toGw[mother])
  BY <1>2, <1>3 DEF Input
<1>5. toGame'[mother] = toGame[mother]
  <2>1. CASE Head(toGw[mother]).type = "SessionFor"
    <3>1. OpenSession(Head(toGw[mother]).client, Head(toGw[mother]).key)
      BY <2>1 DEF Input
    <3>2. UNCHANGED toGame \/ (UsableSocks # {} /\ \E k : toGame' = [toGame EXCEPT ![FreeSock] = k])
      BY <3>1 DEF OpenSession, Connect
    <3>3. UsableSocks # {} => FreeSock # mother
      BY DEF UsableSocks, FreeSock
    <3> QED BY <1>1, <1>2, <3>2, <3>3, AllTypes
  <2>2. CASE Head(toGw[mother]).type # "SessionFor"
    BY <2>2 DEF Input
  <2> QED BY <2>1, <2>2
<1>6. Lines(toGw[mother]) = {m} \union Lines(toGw'[mother])
  BY <1>2, <1>4, LinesSplit
<1>7. Linked' => Linked
  BY <1>1, <1>2, <1>3 DEF Linked, isConnectedToGameServer, PeerUp
<1>8. MotherApart'
  BY <1>1 DEF MotherApart
<1>9. \/ m.type = "Reboot" /\ rebooting' /\ \A d \in Clients : ~(Asking(d)')
      \/ /\ m.type # "Reboot" /\ rebooting' = rebooting
         /\ status' \in {status, "running"}
         /\ \A d \in Clients :
              /\ Unasked(d)' => Unasked(d)
              /\ Asking(d)' => Asking(d) /\ ~(m.type = "SessionFor" /\ m.client = d)
  BY <1>1, ReadKinds
<1> HIDE DEF m
<1>10. CASE m.type = "Reboot" /\ rebooting' /\ \A d \in Clients : ~(Asking(d)')
  <2>1. Done
    <3>1. RebootLast
      BY DEF Firm, SurviveInv
    <3>2. m \in Lines(toGw[mother])
      BY <1>6
    <3> QED BY <1>2, <1>10, <3>1, <3>2 DEF RebootLast, Lines
  <2> QED BY <1>1, <1>8, <1>10, <2>1 DEF ReqInv, Settled, LastWord, AskedOnce, AskersServed
<1>11. CASE /\ m.type # "Reboot" /\ rebooting' = rebooting
            /\ status' \in {status, "running"}
            /\ \A d \in Clients :
                 /\ Unasked(d)' => Unasked(d)
                 /\ Asking(d)' => Asking(d) /\ ~(m.type = "SessionFor" /\ m.client = d)
  <2>1. Settled'
    BY <1>1, <1>11 DEF Settled
  <2>2. LastWord'
    <3>1. Message("Reboot").type = "Reboot"
      BY DEF Message
    <3> QED BY <1>1, <1>6, <1>7, <1>11, <3>1 DEF LastWord
  <2>3. AskedOnce'
    BY <1>1, <1>5, <1>11 DEF AskedOnce
  <2>4. AskersServed'
    <3> SUFFICES ASSUME NEW d \in Clients, Asking(d)', Linked' PROVE UnderWay(d)'
      BY DEF AskersServed
    <3>1. UnderWay(d) /\ ~(m.type = "SessionFor" /\ m.client = d)
      BY <1>1, <1>7, <1>11 DEF AskersServed
    <3> QED BY <1>1, <1>5, <1>6, <1>11, <3>1 DEF UnderWay
  <2> QED BY <1>8, <2>1, <2>2, <2>3, <2>4 DEF ReqInv
<1> QED BY <1>9, <1>10, <1>11

\* Whatever the gateway does.
LEMMA GatewayKeepsRequests ==
  ASSUME Firm, ReqInv, UNCHANGED gameVars,
         GatewayLoop \/ ClientStep \/ Cooldown \/ \E c \in Clients : Forward(c)
  PROVE  ReqInv'
<1>1. All
  BY DEF Firm
<1>2. CASE \E c \in Clients : RequestSession(c)
  BY <1>2, AskKeeps
<1>3. CASE Supervise /\ Finished
  BY <1>3, FinishedKeeps
<1>4. CASE \/ NetDone \/ InputDone \/ ClientsDone \/ ClientStep \/ Cooldown
           \/ (Supervise /\ ~Finished)
           \/ \E c \in Clients : ServerLost(c) \/ Forward(c)
  BY <1>1, <1>4, GatewayBeside, BesideKeeps
<1> QED BY <1>2, <1>3, <1>4, LinkKeepsRequests, InputKeepsRequests DEF GatewayLoop

-------------------------------------------------------------------------------
(* The game's steps.                                                       *)

GameActs ==
  \/ GameLoop \/ ProcessStep \/ Quit \/ Stop \/ Expire \/ (\E p \in Pids : Crash(p))
  \/ (\E t \in {"Shutdown", "Restart"} : SetOnReboot(t)) \/ \E s \in Socks : Kick(s)

\* The steps other than the two that read a line.
LEMMA ActsFade ==
  ASSUME All, GameActs
  PROVE  \/ GameFades
         \/ \E k \in Keys : GatewayCommand(k)
         \/ \E s \in Socks : PlayerInput(s)
<1>1. CASE Keys \ KeysHeld # {} /\ GatewayCommand(randomToken)
  BY <1>1, TokenType
<1>2. CASE CloseListener
  <2>1. game \in Pids
    BY <1>2 DEF CloseListener, All, TypeInv, TypeOK, GameTypeOK
  <2> QED BY <1>2, <2>1, EndFades
<1> QED BY <1>1, <1>2, PulseFades, ReapFades, AcceptFades, ScanFades, KickFades, OtherFades, EndFades
        DEF GameActs, GameLoop, ProcessStep, Quit

LEMMA ActQueues == ASSUME All, GameActs PROVE GameQueues
<1>1. CASE \E k \in Keys : GatewayCommand(k)
  BY <1>1, AllTypes DEF GatewayCommand, GameQueues
<1>2. CASE \E s \in Socks : PlayerInput(s)
  BY <1>2, AllTypes DEF PlayerInput, GameQueues
<1> QED BY <1>1, <1>2, ActsFade DEF GameFades

\* What the game has written stays for the gateway to read.
WordsKept == \A s \in Socks : Lines(toGw[s]) \subseteq Lines(toGw'[s])

LEMMA WriteKept ==
  ASSUME All, NEW s, NEW m, WriteTo(s, m)
  PROVE  WordsKept
<1>1. CASE ~Deliverable(s)
  BY <1>1 DEF WriteTo, WordsKept
<1>2. CASE Deliverable(s)
  <2>1. \A t \in Socks : toGw'[t] \in {toGw[t], Append(toGw[t], m)}
    BY <1>2, AllTypes DEF WriteTo
  <2>2. \A t \in Socks : Lines(Append(toGw[t], m)) = Lines(toGw[t]) \union {m}
    BY AllTypes, LinesAppend
  <2> QED BY <2>1, <2>2 DEF WordsKept
<1> QED BY <1>1, <1>2

LEMMA ScanKept == ASSUME All, Scan PROVE WordsKept
<1> DEFINE id == [type |-> "ProcessID", pid |-> game]
           done == IF booted THEN <<Message("FinishedBooting")>> ELSE <<>>
           i1 == <<id>>
<1>1. UNCHANGED toGw \/ \E s \in Socks : toGw' = [toGw EXCEPT ![s] = (@ \o i1) \o done]
  BY DEF Scan
<1>2. i1 \in Seq(Messages) /\ done \in Seq(Messages)
  <2>1. game \in Pids
    BY DEF Scan, All, TypeInv, TypeOK, GameTypeOK
  <2>2. id \in Messages /\ Message("FinishedBooting") \in Messages
    BY <2>1, MessageTypes
  <2> QED BY <2>2, EmptySeq
<1> HIDE DEF i1, done
<1>3. ASSUME NEW q \in Seq(Messages) PROVE Lines(q) \subseteq Lines((q \o i1) \o done)
  <2>1. q \o i1 \in Seq(Messages) /\ Lines(q \o i1) = Lines(q) \union Lines(i1)
    BY <1>2, LinesConcat, ConcatProperties
  <2> QED BY <1>2, <2>1, LinesConcat
<1>4. \A t \in Socks : toGw[t] \in Seq(Messages) /\ toGw'[t] \in {toGw[t], (toGw[t] \o i1) \o done}
  BY <1>1, AllTypes
<1> QED BY <1>3, <1>4 DEF WordsKept

LEMMA ActsKeepWords == ASSUME All, GameActs PROVE WordsKept
<1>1. CASE UNCHANGED toGw
  BY <1>1 DEF WordsKept
<1>2. ASSUME NEW s, NEW m, WriteTo(s, m) PROVE WordsKept
  BY <1>2, WriteKept
<1>3. ASSUME NEW s, NEW g, Disconnect(s, g) PROVE WordsKept
  BY <1>1, <1>2, <1>3 DEF Disconnect
<1>4. CASE Boot \/ Halt \/ \E t \in {"Shutdown", "Restart"} : SetOnReboot(t)
  BY <1>2, <1>4 DEF Boot, Halt, SetOnReboot
<1>5. ASSUME NEW k, GatewayCommand(k) PROVE WordsKept
  BY <1>1, <1>2, <1>5 DEF GatewayCommand, Host
<1>6. CASE \E s \in Socks : PlayerInput(s)
  BY <1>1, <1>3, <1>6 DEF PlayerInput, Admit
<1>7. CASE (\E s \in Socks : Reap(s)) \/ (\E s \in Socks : Kick(s))
  BY <1>1, <1>3, <1>7 DEF Reap, Kick
<1> QED BY <1>1, <1>4, <1>5, <1>6, <1>7, ScanKept
        DEF GameActs, GameLoop, ProcessStep, Quit, WorkDone, Pulse, Accept, CloseListener, Bind, CloseSockets,
            Exit, Stop, Expire, Crash, netVars

\* No connection comes back.
LEMMA ActsEnd ==
  ASSUME All, GameActs
  PROVE  \A s \in Socks : PeerUp(s)' => PeerUp(s)
<1>1. CASE UNCHANGED gameEnd
  BY <1>1 DEF PeerUp
<1>2. CASE \E A : GameVanishes(A)
  BY <1>2 DEF GameVanishes, PeerUp
<1>3. CASE \E s \in Socks : Reap(s)
  BY <1>3, AllTypes DEF Reap, PeerUp
<1>4. CASE Accept
  <2>1. UNCHANGED gameEnd \/ \E s \in Socks : gameEnd[s] = "backlog" /\ gameEnd' = [gameEnd EXCEPT ![s] = "open"]
    BY <1>4 DEF Accept
  <2> QED BY <2>1, AllTypes DEF PeerUp
<1>5. CASE Pulse
  BY <1>5 DEF Pulse, PeerUp
<1>6. CASE Scan
  BY <1>6 DEF Scan, PeerUp
<1> QED BY <1>1, <1>2, <1>3, <1>4, <1>5, <1>6
        DEF GameActs, GameLoop, ProcessStep, Quit, Boot, GatewayCommand, PlayerInput, WorkDone, Halt,
            CloseListener, Bind, CloseSockets, Exit, Kick, Stop, Expire, Crash, SetOnReboot, netVars

\* A game that is done has said so, or has died.
LEMMA DoneHow ==
  ASSUME All, GameActs, ~Done, Done'
  PROVE  Halt \/ \E p \in Pids : Crash(p) /\ p = game
<1>1. phase \notin {"off", "saving"} /\ phase' \in {"off", "saving"}
  BY DEF Done
<1>2. ~(UNCHANGED phase)
  BY <1>1
<1>3. \A ph, ends : AfterReads(ph, ends) \notin {"off", "saving"}
  BY DEF AfterReads
<1>4. ~CloseListener
  BY <1>1 DEF CloseListener
<1>5. ~Boot /\ ~WorkDone /\ ~Pulse /\ ~Accept /\ ~Scan /\ \A s \in Socks : ~Reap(s)
  <2>1. ~Boot /\ ~WorkDone /\ ~Accept
    BY <1>1 DEF Boot, WorkDone, Accept
  <2>2. ~Scan
    <3>1. Scan => phase' \in {"accept", "work", "boot"}
      BY DEF Scan
    <3> QED BY <1>1, <3>1
  <2>3. ~Pulse /\ \A s \in Socks : ~Reap(s)
    <3>1. Pulse => phase' = AfterReads(phase, gameEnd')
      BY DEF Pulse
    <3>2. \A s \in Socks : Reap(s) => phase' = AfterReads(phase, gameEnd')
      BY DEF Reap
    <3> QED BY <1>1, <1>3, <3>1, <3>2
  <2> QED BY <2>1, <2>2, <2>3
<1>6. \A p \in Pids : ~Bind(p)
  BY <1>1, <1>2 DEF Bind, gameVars
<1>7. \A p \in Pids : Crash(p) => p = game
  BY <1>2 DEF Crash, gameVars
<1> QED BY <1>2, <1>4, <1>5, <1>6, <1>7
        DEF GameActs, GameLoop, ProcessStep, Quit, GatewayCommand, PlayerInput, CloseSockets, Exit, Kick,
            Stop, Expire, SetOnReboot, gameVars

LEMMA LastWordGame ==
  ASSUME Firm, ReqInv, UNCHANGED <<gatewayVars, gwEnd>>, GameActs
  PROVE  LastWord'
<1> SUFFICES ASSUME Done', Linked', ~rebooting PROVE Message("Reboot") \in Lines(toGw'[mother])
  BY DEF LastWord, gatewayVars
<1>1. All /\ Known /\ pc # "dead" /\ LastWord /\ UNCHANGED mother
  BY DEF Firm, SurviveInv, GatewaySurvives, ReqInv, gatewayVars
<1>2. mother \in Socks /\ mother # None
  BY <1>1, AllTypes DEF Linked, isConnectedToGameServer
<1>3. Linked /\ PeerUp(mother)'
  BY <1>1, <1>2, ActsEnd DEF Linked, isConnectedToGameServer, PeerUp
<1>4. CASE Done
  <2>1. UNCHANGED toGw
    BY <1>1, <1>4, DoneIsQuiet DEF GameActs
  <2> QED BY <1>1, <1>3, <1>4, <2>1 DEF LastWord
<1>5. CASE Halt
  <2>1. game # None /\ phase = "halt" /\ WriteTo(gwc, Message("Reboot"))
    BY <1>1, <1>5 DEF Halt, All, TypeInv
  <2>2. Admitted(game) /\ proc[game] = "listening"
    BY <1>1, <2>1, GameStage DEF Alone, Greeting, Waiting
  <2>3. gwc = mother
    BY <2>2 DEF Admitted
  <2>4. Deliverable(gwc)
    BY <1>1, <1>2, <1>3, <2>3 DEF Deliverable, All, PortInv, PointersAlive, Linked, isConnectedToGameServer, PeerUp
  <2>5. toGw'[mother] = Append(toGw[mother], Message("Reboot"))
    BY <1>1, <1>2, <2>1, <2>3, <2>4, AllTypes DEF WriteTo
  <2> QED BY <1>1, <1>2, <2>5, AllTypes, LinesAppend
<1>6. CASE \E p \in Pids : Crash(p) /\ p = game
  <2>1. game # None /\ GameVanishes(OwnedBy(game))
    BY <1>1, <1>6, KnownTypes DEF Crash
  <2>2. mother \in OwnedBy(game)
    <3>1. gameEnd[mother] # "gone"
      BY <1>3 DEF Linked, PeerUp
    <3>2. owner[mother] \in AtWork
      BY <1>1, <1>2, <3>1 DEF All, PortInv, AtWork
    <3>3. owner[mother] = game
      BY <1>1, <2>1, <3>2, GameStage
    <3> QED BY <1>2, <3>1, <3>3 DEF OwnedBy
  <2>3. gameEnd'[mother] = "gone"
    BY <1>2, <2>1, <2>2 DEF GameVanishes
  <2> QED BY <1>1, <1>3, <2>3 DEF PeerUp
<1> QED BY <1>1, <1>4, <1>5, <1>6, DoneHow

\* Only an accept makes a descriptor, of a connection of the backlog.
LEMMA DescsCome ==
  ASSUME All, GameActs, NEW s \in Socks, gdesc[s].state = "none", gdesc'[s].state # "none"
  PROVE  gwc # None /\ gameEnd[s] = "backlog"
<1>0. gdesc \in [Socks -> GdescType]
  BY AllTypes
<1>1. ~(UNCHANGED gdesc)
  OBVIOUS
<1>2. ASSUME NEW t, NEW g, Disconnect(t, g) PROVE FALSE
  BY <1>0, <1>2 DEF Disconnect, NoDesc
<1>3. ~Blank
  BY DEF Blank, NoDesc
<1>4. \A t \in Socks : ~PlayerInput(t)
  <2> SUFFICES ASSUME NEW t \in Socks, PlayerInput(t) PROVE FALSE
    OBVIOUS
  <2>1. gdesc[t].state # "none" /\ t # s
    BY DEF PlayerInput
  <2>2. UNCHANGED gdesc \/ Admit(t, Head(inbuf[t]).key)
    BY DEF PlayerInput
  <2>3. \E k : gdesc' = [gdesc EXCEPT ![t] = k]
    BY <1>1, <1>2, <2>2 DEF Admit
  <2> QED BY <1>0, <2>1, <2>3
<1>5. \A t \in Socks : ~Reap(t) /\ ~Kick(t)
  BY <1>1, <1>2 DEF Reap, Kick
<1>6. CASE Accept
  <2>1. gwc # None /\ \E t \in Socks : gameEnd[t] = "backlog" /\ \E d : gdesc' = [gdesc EXCEPT ![t] = d]
    <3> DEFINE queue == {t \in Socks : owner[t] = game /\ gameEnd[t] = "backlog"}
    <3>1. PICK t \in queue : gdesc' = IF gwc = None THEN gdesc
                            ELSE [gdesc EXCEPT ![t] = [NoDesc EXCEPT !.state = "gateway"]]
      BY <1>1, <1>6 DEF Accept
    <3> QED BY <1>1, <3>1
  <2> QED BY <1>0, <2>1
<1> QED BY <1>1, <1>3, <1>4, <1>5, <1>6
        DEF GameActs, GameLoop, ProcessStep, Quit, Boot, GatewayCommand, WorkDone, Pulse, Scan, Halt, Bind, Exit,
            CloseListener, CloseSockets, Crash, Stop, Expire, SetOnReboot, netVars, gameVars

LEMMA ApartGame ==
  ASSUME Firm, MotherApart, UNCHANGED gatewayVars, GameActs
  PROVE  MotherApart'
<1> SUFFICES ASSUME mother # None, gdesc'[mother].state # "none" PROVE FALSE
  BY DEF MotherApart, gatewayVars
<1>1. All /\ Known /\ pc # "dead" /\ mother \in Socks /\ gdesc[mother].state = "none"
  BY AllTypes DEF Firm, SurviveInv, GatewaySurvives, MotherApart
<1>2. gwc # None /\ gameEnd[mother] = "backlog"
  BY <1>1, DescsCome
<1>3. gwc = mother
  BY <1>1, <1>2, GwcIsMother
<1> QED BY <1>1, <1>2, <1>3 DEF All, PortInv, PointersAlive

LEMMA OffHow ==
  ASSUME GameActs, phase' = "off", phase # "off"
  PROVE  Blank
<1>1. ~(UNCHANGED phase)
  OBVIOUS
<1>2. \A ph, ends : AfterReads(ph, ends) # "off"
  BY DEF AfterReads
<1>3. ~Boot /\ ~WorkDone /\ ~Accept /\ ~Halt
  BY DEF Boot, WorkDone, Accept, Halt
<1>4. ~Scan
  <2>1. Scan => phase' \in {"accept", "work", "boot"}
    BY DEF Scan
  <2> QED BY <2>1
<1>5. ~Pulse /\ \A s \in Socks : ~Reap(s)
  <2>1. Pulse => phase' = AfterReads(phase, gameEnd')
    BY DEF Pulse
  <2>2. \A s \in Socks : Reap(s) => phase' = AfterReads(phase, gameEnd')
    BY DEF Reap
  <2> QED BY <1>2, <2>1, <2>2
<1>6. \A p \in Pids : ~Bind(p)
  BY <1>1 DEF Bind, gameVars
<1>7. (\E p \in Pids : Crash(p)) => Blank
  BY <1>1 DEF Crash, gameVars
<1> QED BY <1>1, <1>3, <1>4, <1>5, <1>6, <1>7
        DEF GameActs, GameLoop, ProcessStep, Quit, GatewayCommand, PlayerInput, CloseListener, CloseSockets,
            Exit, Kick, Stop, Expire, SetOnReboot, gameVars

\* Only a Host line makes a pending session.
Makes(k, c) ==
  /\ GatewayCommand(k) /\ Head(inbuf[gwc]) = HostLine(c)
  /\ pending' = Pruned \union {[key |-> k, host |-> c, old |-> FALSE]}
Ages == pending' = {[e EXCEPT !.old = TRUE] : e \in pending}

LEMMA HostLines ==
  ASSUME NEW m \in Messages, m.type = "Host"
  PROVE  \E c \in Clients : m = HostLine(c)
  BY DEF Messages, HostLine

LEMMA PendingKinds ==
  ASSUME All, GameActs
  PROVE  pending' \subseteq pending \/ Ages \/ \E k \in Keys, c \in Clients : Makes(k, c)
<1>1. CASE Expire
  BY <1>1 DEF Expire, Ages
<1>2. CASE Keys \ KeysHeld # {} /\ GatewayCommand(randomToken)
  <2>1. PICK k \in Keys : k = randomToken
    BY <1>2, TokenType
  <2>2. GatewayCommand(k)
    BY <1>2, <2>1
  <2>3. gwc \in Socks /\ inbuf[gwc] # <<>>
    BY <2>2, AllTypes DEF GatewayCommand
  <2>4. Head(inbuf[gwc]) \in Messages
    BY <2>3, ReadLines
  <2>5. CASE Head(inbuf[gwc]).type = "Host"
    <3>1. PICK c \in Clients : Head(inbuf[gwc]) = HostLine(c)
      BY <2>4, <2>5, HostLines
    <3>2. Host(c, k)
      BY <2>2, <3>1 DEF GatewayCommand, HostLine
    <3>3. Pruned \subseteq pending
      BY DEF Pruned
    <3> QED BY <2>2, <3>1, <3>2, <3>3 DEF Host, Makes
  <2>6. CASE Head(inbuf[gwc]).type # "Host"
    BY <2>2, <2>6 DEF GatewayCommand
  <2> QED BY <2>5, <2>6
<1>3. CASE \E s \in Socks : PlayerInput(s)
  BY <1>3 DEF PlayerInput, Admit
<1>4. Blank => pending' = {}
  BY DEF Blank
<1> QED BY <1>1, <1>2, <1>3, <1>4
        DEF GameActs, GameLoop, ProcessStep, Quit, Boot, WorkDone, Pulse, Reap, Accept, Scan, Halt, CloseListener,
            Bind, CloseSockets, Exit, Kick, Stop, Crash, SetOnReboot, gameVars

\* A session that is pending is one that was.
LEMMA FewerHosts ==
  ASSUME All, pending' \subseteq pending \/ Ages, NEW c,
         \A e, f \in pending : e.host = c /\ f.host = c => e = f
  PROVE  /\ \A e, f \in pending' : e.host = c /\ f.host = c => e = f
         /\ \A e \in pending' : e.host = c => \E f \in pending : f.host = c
<1>1. CASE pending' \subseteq pending
  BY <1>1
<1>2. CASE Ages
  <2>1. ASSUME NEW e \in pending' PROVE \E f \in pending : e = [f EXCEPT !.old = TRUE] /\ e.host = f.host
    <3>1. PICK f \in pending : e = [f EXCEPT !.old = TRUE]
      BY <1>2 DEF Ages
    <3>2. f \in [key : Keys, host : Clients, old : BOOLEAN]
      BY AllTypes
    <3> QED BY <3>1, <3>2
  <2>2. ASSUME NEW e \in pending', NEW f \in pending', e.host = c, f.host = c PROVE e = f
    <3>1. PICK d \in pending : e = [d EXCEPT !.old = TRUE] /\ e.host = d.host
      BY <2>1
    <3>2. PICK g \in pending : f = [g EXCEPT !.old = TRUE] /\ f.host = g.host
      BY <2>1
    <3>3. d = g
      BY <2>2, <3>1, <3>2
    <3> QED BY <3>1, <3>2, <3>3
  <2>3. \A e \in pending' : e.host = c => \E f \in pending : f.host = c
    BY <2>1
  <2> QED BY <2>2, <2>3
<1> QED BY <1>1, <1>2

LEMMA AskedGame ==
  ASSUME Firm, ReqInv, UNCHANGED <<gatewayVars, gwEnd>>, GameActs
  PROVE  AskedOnce'
<1>1. /\ All /\ Known /\ pc # "dead" /\ AskedOnce
      /\ UNCHANGED <<mother, desc>>
  BY DEF Firm, SurviveInv, GatewaySurvives, ReqInv, gatewayVars
<1>2. mother # None => mother \in Socks
  BY <1>1, AllTypes
<1>3. \A c \in Clients : Unasked(c)' <=> Unasked(c)
  BY <1>1 DEF Unasked
<1>4. phase' = "off" => pending' = {}
  <2>1. Blank => pending' = {}
    BY DEF Blank
  <2>2. CASE phase = "off"
    <3>1. pending = {}
      BY <1>1, <2>2 DEF AskedOnce
    <3>2. \A k \in Keys, c \in Clients : ~Makes(k, c)
      BY <2>2 DEF Makes, GatewayCommand
    <3> QED BY <1>1, <3>1, <3>2, PendingKinds DEF Ages
  <2> QED BY <2>1, <2>2, OffHow
<1> SUFFICES ASSUME ~(Done'), NEW c \in Clients
             PROVE  /\ \A e, f \in pending' : e.host = c /\ f.host = c => e = f
                    /\ Unasked(c) => \A e \in pending' : e.host # c
                    /\ mother # None =>
                         /\ AtMostOnce(inbuf'[mother], HostLine(c)) /\ AtMostOnce(toGame'[mother], HostLine(c))
                         /\ HostLine(c) \notin Lines(inbuf'[mother]) \cap Lines(toGame'[mother])
                         /\ Unasked(c) \/ (\E e \in pending' : e.host = c) =>
                              HostLine(c) \notin Lines(inbuf'[mother]) \union Lines(toGame'[mother])
  BY <1>1, <1>3, <1>4 DEF AskedOnce
<1>5. CASE Done
  <2>1. PICK p \in Pids : Bind(p) /\ game = None
    BY <1>1, <1>5, DoneIsQuiet DEF GameActs
  <2>2. pending' = {}
    <3>1. pending = {}
      BY <1>1, <2>1 DEF AskedOnce, All, TypeInv
    <3> QED BY <2>1, <3>1 DEF Bind, gameVars
  <2>3. mother # None => inbuf'[mother] = <<>> /\ toGame'[mother] = <<>>
    <3>1. mother # None => inbuf[mother] = <<>> /\ toGame[mother] = <<>>
      BY <1>2, <2>1, BindBegins
    <3> QED BY <2>1, <3>1 DEF Bind, gameVars
  <2>4. Lines(<<>>) = {}
    BY DEF Lines
  <2> QED BY <2>2, <2>3, <2>4, OnceFirst
<1>6. CASE ~Done
  <2>1. /\ \A e, f \in pending : e.host = c /\ f.host = c => e = f
        /\ Unasked(c) => \A e \in pending : e.host # c
        /\ mother # None =>
             /\ AtMostOnce(inbuf[mother], HostLine(c)) /\ AtMostOnce(toGame[mother], HostLine(c))
             /\ HostLine(c) \notin Lines(inbuf[mother]) \cap Lines(toGame[mother])
             /\ Unasked(c) \/ (\E e \in pending : e.host = c) =>
                  HostLine(c) \notin Lines(inbuf[mother]) \union Lines(toGame[mother])
    BY <1>1, <1>6 DEF AskedOnce
  <2>2. ASSUME mother # None
        PROVE  /\ AtMostOnce(inbuf'[mother], HostLine(c)) /\ AtMostOnce(toGame'[mother], HostLine(c))
               /\ HostLine(c) \notin Lines(inbuf'[mother]) \cap Lines(toGame'[mother])
               /\ Lines(inbuf'[mother]) \union Lines(toGame'[mother])
                    \subseteq Lines(inbuf[mother]) \union Lines(toGame[mother])
    <3>1. mother \in Socks /\ inbuf[mother] \in Seq(Messages) /\ toGame[mother] \in Seq(Messages)
      BY <1>1, <1>2, <2>2, AllTypes
    <3>2. \/ inbuf'[mother] \in {inbuf[mother], <<>>} /\ toGame'[mother] \in {toGame[mother], <<>>}
          \/ inbuf[mother] # <<>> /\ inbuf'[mother] = Tail(inbuf[mother]) /\ toGame'[mother] = toGame[mother]
          \/ inbuf'[mother] = inbuf[mother] \o toGame[mother] /\ toGame'[mother] = <<>>
      BY <1>1, <3>1, ActQueues DEF GameQueues
    <3> DEFINE q == inbuf[mother]
               r == toGame[mother]
               q2 == inbuf'[mother]
               r2 == toGame'[mother]
               m == HostLine(c)
    <3>3. /\ q \in Seq(Messages) /\ r \in Seq(Messages)
          /\ AtMostOnce(q, m) /\ AtMostOnce(r, m) /\ m \notin Lines(q) \cap Lines(r)
          /\ \/ q2 \in {q, <<>>} /\ r2 \in {r, <<>>}
             \/ q # <<>> /\ q2 = Tail(q) /\ r2 = r
             \/ q2 = q \o r /\ r2 = <<>>
      BY <2>1, <2>2, <3>1, <3>2
    <3> HIDE DEF q, r, q2, r2, m
    <3>4. /\ AtMostOnce(q2, m) /\ AtMostOnce(r2, m) /\ m \notin Lines(q2) \cap Lines(r2)
          /\ Lines(q2) \union Lines(r2) \subseteq Lines(q) \union Lines(r)
      <4>1. AtMostOnce(<<>>, m) /\ Lines(<<>>) = {}
        BY OnceFirst DEF Lines
      <4>2. q # <<>> => AtMostOnce(Tail(q), m) /\ Lines(Tail(q)) \subseteq Lines(q)
        BY <3>3, OnceRead, LineFacts
      <4>3. AtMostOnce(q \o r, m) /\ Lines(q \o r) = Lines(q) \union Lines(r)
        BY <3>3, OnceJoined, LinesConcat
      <4> QED BY ONLY <3>3, <4>1, <4>2, <4>3
    <3> QED BY <3>4 DEF q, r, q2, r2, m
  <2>3. CASE pending' \subseteq pending \/ Ages
    <3>1. /\ \A e, f \in pending' : e.host = c /\ f.host = c => e = f
          /\ \A e \in pending' : e.host = c => \E f \in pending : f.host = c
      BY <1>1, <2>1, <2>3, FewerHosts
    <3> QED BY <2>1, <2>2, <3>1
  <2>4. ASSUME NEW k \in Keys, NEW d \in Clients, Makes(k, d)
        PROVE  /\ \A e, f \in pending' : e.host = c /\ f.host = c => e = f
               /\ Unasked(c) => \A e \in pending' : e.host # c
               /\ mother # None => (Unasked(c) \/ (\E e \in pending' : e.host = c) =>
                    HostLine(c) \notin Lines(inbuf'[mother]) \union Lines(toGame'[mother]))
    <3>1. /\ gwc # None /\ inbuf[gwc] # <<>> /\ Head(inbuf[gwc]) = HostLine(d)
          /\ inbuf' = [inbuf EXCEPT ![gwc] = Tail(@)] /\ UNCHANGED toGame
          /\ pending' = Pruned \union {[key |-> k, host |-> d, old |-> FALSE]}
      BY <2>4 DEF Makes, GatewayCommand
    <3>2. gwc = mother /\ mother # None /\ mother \in Socks
      BY <1>1, <1>2, <3>1, GwcIsMother
    <3>3. inbuf[mother] \in Seq(Messages) /\ inbuf'[mother] = Tail(inbuf[mother])
      BY <1>1, <3>1, <3>2, AllTypes
    <3>4. HostLine(d) \in Lines(inbuf[mother])
      BY <3>1, <3>2, <3>3, LineFacts
    <3>5. \A e \in Pruned : e \in pending
      BY DEF Pruned
    <3>6. CASE c = d
      <4>1. ~Unasked(c) /\ \A e \in pending : e.host # c
        BY <2>1, <3>2, <3>4, <3>6
      <4>2. HostLine(c) \notin Lines(toGame[mother])
        BY <2>1, <3>2, <3>4, <3>6
      <4>3. HostLine(c) \notin Lines(Tail(inbuf[mother]))
        BY <2>1, <3>1, <3>2, <3>3, <3>6, OnceRead
      <4>4. \A e, f \in pending' : e.host = c /\ f.host = c => e = f
        BY <3>1, <3>5, <4>1
      <4> QED BY <3>1, <3>3, <4>1, <4>2, <4>3, <4>4
    <3>7. CASE c # d
      <4>1. \A e \in pending' : e.host = c => e \in pending
        BY <3>1, <3>5, <3>7
      <4> QED BY <2>1, <2>2, <4>1
    <3> QED BY <3>6, <3>7
  <2> QED BY <1>1, <2>2, <2>3, <2>4, PendingKinds
<1> QED BY <1>5, <1>6

\* A request reaches the game, unless its connection does not last.
LEMMA AskKept ==
  ASSUME Firm, MotherApart, UNCHANGED gatewayVars, GameActs, ~(Done'), mother # None, PeerUp(mother)',
         NEW c, HostLine(c) \in Lines(toGame[mother]) \union Lines(inbuf[mother])
  PROVE  \/ HostLine(c) \in Lines(toGame'[mother]) \union Lines(inbuf'[mother])
         \/ \E k \in Keys : GatewayCommand(k) /\ gwc = mother /\ Head(inbuf[mother]) = HostLine(c)
<1>1. /\ All /\ Known /\ pc # "dead" /\ mother \in Socks /\ gdesc[mother].state = "none"
      /\ inbuf \in [Socks -> Seq(Messages)] /\ toGame \in [Socks -> Seq(Messages)]
      /\ UNCHANGED mother
  BY AllTypes DEF Firm, SurviveInv, GatewaySurvives, MotherApart, gatewayVars
<1>2. CASE inbuf'[mother] = inbuf[mother] /\ toGame'[mother] = toGame[mother]
  BY <1>2
<1>3. ASSUME NEW A, GameVanishes(A) PROVE toGame'[mother] = toGame[mother]
  BY <1>1, <1>3 DEF GameVanishes, PeerUp
<1>4. ~Blank
  BY DEF Blank, Done
<1>5. CASE CloseListener \/ \E p \in Pids : CloseSockets(p) \/ Exit(p) \/ Crash(p)
  BY <1>2, <1>3, <1>4, <1>5 DEF CloseListener, CloseSockets, Exit, Crash, gameVars
<1>6. CASE Pulse
  <2>1. \/ inbuf'[mother] = inbuf[mother] /\ toGame'[mother] = toGame[mother]
        \/ inbuf'[mother] = inbuf[mother] \o toGame[mother]
    BY <1>1, <1>6 DEF Pulse
  <2>2. Lines(inbuf[mother] \o toGame[mother]) = Lines(inbuf[mother]) \union Lines(toGame[mother])
    BY <1>1, LinesConcat
  <2> QED BY <1>2, <2>1, <2>2
<1>7. ASSUME NEW s \in Socks, Reap(s) PROVE s # mother /\ inbuf'[mother] = inbuf[mother] /\ toGame'[mother] = toGame[mother]
  <2>1. gameEnd' = [gameEnd EXCEPT ![s] = "gone"] /\ gameEnd \in [Socks -> GameEnds]
    BY <1>1, <1>7, AllTypes DEF Reap
  <2>2. s # mother
    BY <1>1, <2>1 DEF PeerUp
  <2> QED BY <1>1, <1>7, <2>2 DEF Reap
<1>8. ASSUME NEW s \in Socks, PlayerInput(s) PROVE inbuf'[mother] = inbuf[mother] /\ toGame'[mother] = toGame[mother]
  BY <1>1, <1>8 DEF PlayerInput
<1>9. ASSUME inbuf[mother] # <<>>, Head(inbuf[mother]) # HostLine(c), inbuf'[mother] = Tail(inbuf[mother]),
             toGame'[mother] = toGame[mother]
      PROVE  HostLine(c) \in Lines(toGame'[mother]) \union Lines(inbuf'[mother])
  BY <1>1, <1>9, LinesSplit
<1>10. CASE Scan
  <2> DEFINE open == {s \in Socks : owner[s] = game /\ gameEnd[s] = "open"}
             talking == {s \in open : inbuf[s] # <<>>}
             valid == {s \in talking : Head(inbuf[s]).type = "Validate"}
  <2>1. HostLine(c).type = "Host"
    BY DEF HostLine
  <2>2. UNCHANGED toGame
    BY <1>10 DEF Scan
  <2>3. CASE valid = {}
    <3>1. /\ gameEnd' = [s \in Socks |-> IF s \in talking THEN "shut" ELSE gameEnd[s]]
          /\ inbuf' = [s \in Socks |-> IF s \in talking THEN Tail(inbuf[s]) ELSE inbuf[s]]
      BY <1>10, <2>3 DEF Scan
    <3> HIDE DEF talking
    <3>2. mother \notin talking
      BY <1>1, <3>1 DEF PeerUp
    <3>3. inbuf'[mother] = inbuf[mother]
      BY <1>1, <3>1, <3>2
    <3> QED BY <1>2, <2>2, <3>3
  <2>4. CASE valid # {}
    <3>1. PICK s \in valid : inbuf' = [t \in Socks |-> IF t \in {s} THEN Tail(inbuf[t]) ELSE inbuf[t]]
      BY <1>10, <2>4 DEF Scan
    <3>2. CASE s # mother
      BY <1>1, <1>2, <2>2, <3>1, <3>2
    <3>3. CASE s = mother
      <4>1. inbuf[mother] # <<>> /\ Head(inbuf[mother]).type = "Validate"
        BY <3>3
      <4>2. inbuf'[mother] = Tail(inbuf[mother])
        BY <1>1, <3>1, <3>3
      <4> QED BY <1>9, <2>1, <2>2, <4>1, <4>2
    <3> QED BY <3>2, <3>3
  <2> QED BY <2>3, <2>4
<1>11. CASE Keys \ KeysHeld # {} /\ GatewayCommand(randomToken)
  <2>1. PICK k \in Keys : k = randomToken
    BY <1>11, TokenType
  <2>2. /\ GatewayCommand(k) /\ gwc # None /\ inbuf[gwc] # <<>> /\ UNCHANGED toGame
        /\ inbuf' = [inbuf EXCEPT ![gwc] = Tail(@)]
    BY <1>11, <2>1 DEF GatewayCommand
  <2>3. gwc = mother
    BY <1>1, <2>2, GwcIsMother
  <2>4. inbuf'[mother] = Tail(inbuf[mother])
    BY <1>1, <2>2, <2>3
  <2> QED BY <1>9, <2>2, <2>3, <2>4
<1> QED BY <1>2, <1>5, <1>6, <1>7, <1>8, <1>10, <1>11
        DEF GameActs, GameLoop, ProcessStep, Quit, Boot, WorkDone, Accept, Halt, Bind, Kick, Stop, Expire,
            SetOnReboot, gameVars, netVars

\* With room for a session of each client, there is room for that of a client
\* who has none.
LEMMA RoomLeft ==
  ASSUME All, Roomy, AskedOnce, ~Done, NEW c \in Clients, \A e \in pending : e.host # c
  PROVE  ~Full
<1> DEFINE f == [e \in pending |-> e.host]
           others == Clients \ {c}
<1>1. \A e \in pending : e.host \in Clients
  BY AllTypes
<1>2. f \in Injection(pending, others)
  <2>1. \A e, d \in pending : e.host = d.host => e = d
    BY <1>1 DEF AskedOnce
  <2> QED BY <1>1, <2>1 DEF Injection, IsInjective
<1>3. IsFiniteSet(others) /\ Cardinality(others) = Cardinality(Clients) - 1
  BY FS_RemoveElement DEF Roomy
<1> HIDE DEF f, others
<1>4. Cardinality(pending) <= Cardinality(others)
  BY <1>2, <1>3, FS_Injection
<1>5. IsFiniteSet(pending)
  BY DEF All, TypeInv
<1>6. Cardinality(Pruned) <= Cardinality(pending) /\ IsFiniteSet(Pruned)
  <2>1. Pruned \in SUBSET pending
    BY DEF Pruned
  <2> QED BY <1>5, <2>1, FS_Subset
<1>7. /\ Cardinality(Pruned) \in Nat /\ Cardinality(pending) \in Nat
      /\ Cardinality(others) \in Nat /\ Cardinality(Clients) \in Nat
  BY <1>3, <1>5, <1>6, FS_CardinalityType DEF Roomy
<1> QED BY <1>3, <1>4, <1>6, <1>7, MaxPendingAssumption DEF Full, Roomy

\* The request is answered.
LEMMA RequestAnswered ==
  ASSUME Firm, AskedOnce, Roomy, Linked, NEW c \in Clients, NEW k \in Keys,
         GatewayCommand(k), gwc = mother, Head(inbuf[mother]) = HostLine(c)
  PROVE  \E m \in Lines(toGw'[mother]) : m.type = "SessionFor" /\ m.client = c
<1> DEFINE m == [type |-> "SessionFor", client |-> c, key |-> k]
<1>1. /\ All /\ mother # None /\ mother \in Socks /\ gwEnd[mother] /\ PeerUp(mother)
  BY AllTypes DEF Firm, Linked, isConnectedToGameServer
<1>2. inbuf[mother] # <<>> /\ ~Done /\ Host(c, k)
  BY DEF GatewayCommand, Done, HostLine
<1>3. inbuf[mother] \in Seq(Messages) /\ toGw \in [Socks -> Seq(Messages)]
  BY <1>1, AllTypes
<1>4. HostLine(c) \in Lines(inbuf[mother])
  BY <1>2, <1>3, LineFacts
<1>5. \A e \in pending : e.host # c
  BY <1>1, <1>2, <1>4 DEF AskedOnce
<1>6. ~Full
  BY <1>1, <1>2, <1>5, RoomLeft
<1>7. Deliverable(gwc)
  BY <1>1, <1>2 DEF Deliverable, PeerUp, All, PortInv, Buffers
<1>8. toGw'[mother] = Append(toGw[mother], m)
  BY <1>1, <1>2, <1>3, <1>6, <1>7 DEF Host, WriteTo
<1>9. m \in Lines(toGw'[mother])
  BY <1>1, <1>3, <1>8, LinesAppend
<1> QED BY <1>9

LEMMA ServedGame ==
  ASSUME Firm, ReqInv, Roomy, UNCHANGED <<gatewayVars, gwEnd>>, GameActs, LastWord'
  PROVE  AskersServed'
<1> SUFFICES ASSUME NEW c \in Clients, Asking(c), Linked' PROVE UnderWay(c)'
  BY DEF AskersServed, Asking, gatewayVars
<1>1. All /\ UNCHANGED <<mother, rebooting>> /\ Settled /\ AskedOnce /\ MotherApart /\ AskersServed
  BY DEF Firm, ReqInv, gatewayVars
<1>2. ~rebooting
  BY <1>1 DEF Settled
<1>3. mother \in Socks /\ mother # None /\ Linked /\ PeerUp(mother)'
  <2>1. mother # None /\ mother \in Socks
    BY <1>1, AllTypes DEF Linked, isConnectedToGameServer
  <2> QED BY <1>1, <2>1, ActsEnd DEF Linked, isConnectedToGameServer, PeerUp
<1>4. CASE Done'
  <2>1. Message("Reboot") \in Lines(toGw'[mother])
    BY <1>1, <1>2, <1>4 DEF LastWord
  <2>2. Message("Reboot").type = "Reboot"
    BY DEF Message
  <2> QED BY <1>1, <2>1, <2>2 DEF UnderWay
<1>5. CASE ~(Done')
  <2>1. UnderWay(c)
    BY <1>1, <1>3 DEF AskersServed
  <2>2. CASE HostLine(c) \in Lines(toGame[mother]) \union Lines(inbuf[mother])
    <3>1. CASE HostLine(c) \in Lines(toGame'[mother]) \union Lines(inbuf'[mother])
      BY <1>1, <3>1 DEF UnderWay
    <3>2. CASE \E k \in Keys : GatewayCommand(k) /\ gwc = mother /\ Head(inbuf[mother]) = HostLine(c)
      <4>1. \E m \in Lines(toGw'[mother]) : m.type = "SessionFor" /\ m.client = c
        BY <1>1, <1>3, <3>2, RequestAnswered
      <4> QED BY <1>1, <4>1 DEF UnderWay
    <3> QED BY <1>1, <1>3, <1>5, <2>2, <3>1, <3>2, AskKept
  <2>3. CASE HostLine(c) \notin Lines(toGame[mother]) \union Lines(inbuf[mother])
    <3>1. Lines(toGw[mother]) \subseteq Lines(toGw'[mother])
      BY <1>1, <1>3, ActsKeepWords DEF WordsKept
    <3> QED BY <1>1, <2>1, <2>3, <3>1 DEF UnderWay
  <2> QED BY <2>2, <2>3
<1> QED BY <1>4, <1>5

LEMMA GameKeepsRequests ==
  ASSUME Firm, ReqInv, Roomy, UNCHANGED gatewayVars, GameActs
  PROVE  ReqInv'
<1>1. UNCHANGED gwEnd
  BY GameLeavesGwEnd DEF GameActs
<1>2. LastWord' /\ MotherApart' /\ AskedOnce'
  BY <1>1, LastWordGame, ApartGame, AskedGame DEF ReqInv
<1>3. Settled'
  BY DEF ReqInv, Settled, Asking, gatewayVars
<1>4. AskersServed'
  BY <1>1, <1>2, ServedGame
<1> QED BY <1>2, <1>3, <1>4 DEF ReqInv

-------------------------------------------------------------------------------

LEMMA RequestInit == Init => ReqInv
<1> SUFFICES ASSUME Init PROVE ReqInv
  OBVIOUS
<1>1. /\ \A c \in Clients : desc[c].st = "new"
      /\ mother = None /\ phase = "off" /\ pending = {}
  BY DEF Init, GatewayInit, GameInit, Fresh
<1> QED BY <1>1 DEF ReqInv, Settled, LastWord, MotherApart, AskedOnce, AskersServed, Asking, Linked,
           isConnectedToGameServer, Done

LEMMA RequestStep == Roomy /\ Firm /\ ReqInv /\ [Next]_vars => ReqInv'
<1> SUFFICES ASSUME Roomy, Firm, ReqInv, [Next]_vars PROVE ReqInv'
  OBVIOUS
<1>1. CASE GatewayStep
  BY <1>1, GatewayKeepsRequests DEF GatewayStep
<1>2. CASE Wait60
  BY <1>2, GatewayKeepsRequests DEF Wait60
<1>3. CASE UNCHANGED vars
  <2>1. UNCHANGED gameVars /\ Beside
    BY <1>3 DEF vars, gatewayVars, netVars, Beside, PeerUp, Asking, Unasked
  <2> QED BY <2>1, BesideKeeps
<1>4. CASE GameStep
  BY <1>4, GameKeepsRequests DEF GameStep, GameActs
<1>5. CASE Fault
  <2>1. InOrder
    BY DEF Firm, Known
  <2>2. ASSUME NEW e \in {"start", "restart", "break"} PROVE ~Spend(e)
    BY <2>1 DEF InOrder, Spend
  <2>3. CASE UNCHANGED gatewayVars /\ (\/ Stop \/ Expire \/ (\E p \in Pids : Crash(p))
                                       \/ (\E t \in {"Shutdown", "Restart"} : SetOnReboot(t))
                                       \/ \E s \in Socks : Kick(s))
    BY <2>3, GameKeepsRequests DEF GameActs
  <2>4. CASE UNCHANGED gameVars /\ \E c \in Clients : Forward(c)
    BY <2>4, GatewayKeepsRequests
  <2> QED BY <1>5, <2>2, <2>3, <2>4 DEF Fault
<1> QED BY <1>1, <1>2, <1>3, <1>4, <1>5 DEF Next, Over

\* With room in pendingSessions for a session of each client, no client waits
\* for an answer that will never come: its Host line, the SessionFor line or a
\* Reboot line is under way, or the connection is lost and it will be put back
\* to ask again.
THEOREM RequestsUnderWay == Orderly /\ Roomy /\ Spec => []RequestUnderWay
<1> SUFFICES ASSUME Roomy PROVE Orderly /\ Spec => []RequestUnderWay
  OBVIOUS
<1>1. Firm /\ ReqInv => RequestUnderWay
  BY RequestLines DEF ReqInv
<1>2. Orderly /\ Init => Firm /\ ReqInv
  BY FirmInit, RequestInit
<1>3. (Firm /\ ReqInv) /\ [Next]_vars => (Firm /\ ReqInv)'
  BY FirmStep, RequestStep
<1> QED BY <1>1, <1>2, <1>3, PTL DEF Spec
===============================================================================

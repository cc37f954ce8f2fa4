------------------------------ MODULE LoginProofs ------------------------------
(***************************************************************************)
(* PlayerLogin for any number of descriptors, bodies and players, and any  *)
(* order of dialogues, sign-ins, lost links and extractions: descriptors   *)
(* and characters point at each other, snoops pair up, a player is in the  *)
(* world once and comes back with all that was done.  Nobody logs in while *)
(* the player's last body awaits PurgeQueue, and nobody who has a          *)
(* character sends "User Creation" ("hasty" and "recreate" are not in      *)
(* Risks): with either the code breaks all this.  Two dialogues that       *)
(* create one name are allowed.                                            *)
(***************************************************************************)
EXTENDS PlayerLogin, TLAPS

InDialogue == {"name", "password", "confirm", "create"}
Sent == {"close", "disconnect"}
States == InDialogue \cup Sent \cup {"gone", "weblogin", "playing"}

DescType ==
  [state : States, web : BOOLEAN,
   character : AnyBody \cup {None}, original : Body \cup {None},
   loggedIn : BOOLEAN,
   snooping : Desc \cup {None}, snoop_by : Desc \cup {None}]
BodyType ==
  [st : {"free", "copy", "in", "purged"}, id : Ids \cup {None},
   name : Users \cup {NewName, None}, desc : Desc \cup {None}, ver : Nat]

LoginTypeOK ==
  /\ desc \in [Desc -> DescType] /\ body \in [AnyBody -> BodyType]
  /\ table \subseteq [name : Users \cup {NewName}, id : Ids]
  /\ row \in [Ids -> Nat] /\ left \in [Ids -> Nat]
  /\ phase \in {"input", "pulse", "heart"}

(* What the state of a descriptor says of its character: a dialogue has a  *)
(* copy or none, only immortals are switched, and who was extracted is let *)
(* go of before the heartbeat that deletes characters.                     *)
StateOK(d) ==
  LET c == desc[d].character
      o == desc[d].original IN
  /\ desc[d].state = "gone" => desc[d] = NoDesc
  /\ desc[d].state = "weblogin" => c = None
  /\ desc[d].state \in InDialogue \ {"name"} => c # None
  /\ desc[d].state \in InDialogue /\ c # None => body[c].st = "copy"
  /\ desc[d].state = "password" => body[c].id # None
  /\ c = Mob => o # None
  /\ o # None => body[o].id \in Immortals
  /\ phase = "heart" /\ c # None => body[c].st # "purged"
StatesOK == \A d \in Desc : StateOK(d)

(* Whoever has an id is in the users table, and all in the world have one. *)
BodiesOK ==
  /\ \A b \in AnyBody : body[b].st = "free" => body[b] = NoBody
  /\ \A b \in Body : /\ body[b].st = "in" => body[b].id # None
                     /\ body[b].id # None => \E e \in table : e.id = body[b].id
  /\ body[Mob].id = None /\ body[Mob].st # "copy"

(* Nothing that may still get into the world, from the database, from a    *)
(* dialogue at the password or from the list of characters, is older than  *)
(* what its player had on leaving.                                         *)
KeptOK ==
  /\ \A i \in Ids : row[i] >= left[i]
  /\ \A i \in Ids : (\A e \in table : e.id # i) => left[i] = 0
  /\ \A b \in Body : body[b].st = "in" => body[b].ver >= left[body[b].id]
  /\ \A d \in Desc : desc[d].state = "password" =>
       body[desc[d].character].ver >= left[body[desc[d].character].id]

LoginInv ==
  LoginTypeOK /\ Wired /\ OneBody /\ SnoopsPair /\ StatesOK /\ BodiesOK /\ KeptOK

USE LoginAssumption DEF AnyBody, InWorld, IsPlayer, InDialogue, Sent, NoDesc, NoBody

--------------------------------------------------------------------------------
(* Lemmas about the parts.                                                      *)

(* The snoops stay paired while nobody's ends are touched and nobody goes. *)
LEMMA SnoopsKept ==
  ASSUME SnoopsPair,
         \A e \in Desc : /\ desc'[e].snooping = desc[e].snooping
                         /\ desc'[e].snoop_by = desc[e].snoop_by
                         /\ desc[e].state # "gone" => desc'[e].state # "gone"
  PROVE  SnoopsPair'
<1> SUFFICES ASSUME NEW d \in Desc, NEW e \in Desc
             PROVE  /\ (desc'[d].snooping = e) <=> (desc'[e].snoop_by = d)
                    /\ desc'[d].snooping = e =>
                         desc'[d].state # "gone" /\ desc'[e].state # "gone"
  BY DEF SnoopsPair
<1>1. /\ (desc[d].snooping = e) <=> (desc[e].snoop_by = d)
      /\ desc[d].snooping = e => desc[d].state # "gone" /\ desc[e].state # "gone"
  BY DEF SnoopsPair
<1> QED BY <1>1

(* A descriptor that keeps its character, as it was, keeps what its state  *)
(* says of it, also when it is told to go.                                 *)
LEMMA StateKept ==
  ASSUME NEW d \in Desc, StateOK(d),
         desc'[d].character = desc[d].character,
         desc'[d].original = desc[d].original,
         \/ desc'[d] = desc[d]
         \/ desc'[d].state \in Sent
         \/ desc'[d].state = "create" /\ desc[d].state = "confirm"
         \/ desc'[d].state = "name" /\ desc[d].state = "confirm",
         \A c \in {desc[d].character, desc[d].original} \ {None} :
           body'[c].st = body[c].st /\ body'[c].id = body[c].id,
         phase' = "heart" => phase = "heart"
  PROVE  StateOK(d)'
<1>1. CASE desc'[d] = desc[d]
  BY <1>1 DEF StateOK
<1>2. CASE desc'[d].state \in Sent
  BY <1>2 DEF StateOK
<1>3. CASE desc'[d].state \in {"create", "name"} /\ desc[d].state = "confirm"
  BY <1>3 DEF StateOK
<1> QED BY <1>1, <1>2, <1>3

(* A descriptor is told to go, or goes on to the creation menus.           *)
LEMMA StateSteps ==
  ASSUME LoginInv, NEW d \in Desc,
         \/ HangUp(d) \/ NameYes(d) \/ NameBanned(d) \/ IllegalState(d) \/ WebRefused(d)
         \/ Timeout(d)
  PROVE  LoginInv'
<1>0. LoginTypeOK /\ Wired /\ OneBody /\ SnoopsPair /\ StatesOK /\ BodiesOK /\ KeptOK
  BY DEF LoginInv
<1>1. /\ desc[d].state # "gone"
      /\ \E s \in Sent \cup {"create"} :
           /\ s = "create" => desc[d].state = "confirm"
           /\ desc' = [desc EXCEPT ![d].state = s]
      /\ UNCHANGED <<body, table, row, left, phase>>
  BY DEF HangUp, NameYes, NameBanned, IllegalState, WebRefused, SendsCommand, Timeout, Says,
         Closes
<1>2. LoginTypeOK'
  BY <1>0, <1>1 DEF LoginTypeOK, DescType, BodyType, States
<1>3. Wired'
  BY <1>0, <1>1 DEF LoginTypeOK, DescType, BodyType, Wired
<1>4. OneBody' /\ BodiesOK'
  BY <1>0, <1>1 DEF OneBody, BodiesOK
<1>5. SnoopsPair'
  BY <1>0, <1>1, SnoopsKept DEF LoginTypeOK, DescType, BodyType
<1>6. StatesOK'
  <2>1. \A e \in Desc :
          /\ desc'[e].character = desc[e].character /\ desc'[e].original = desc[e].original
          /\ \/ desc'[e] = desc[e]
             \/ desc'[e].state \in Sent
             \/ desc'[e].state = "create" /\ desc[e].state = "confirm"
    BY <1>0, <1>1 DEF LoginTypeOK, DescType, BodyType
  <2>2. StatesOK /\ UNCHANGED <<body, phase>>
    BY <1>0, <1>1
  <2> QED BY <2>1, <2>2, StateKept DEF StatesOK
<1>7. KeptOK'
  BY <1>0, <1>1 DEF LoginTypeOK, DescType, BodyType, KeptOK
<1> QED BY <1>2, <1>3, <1>4, <1>5, <1>6, <1>7 DEF LoginInv

(* The steps of the loop that are none of the descriptors'.                *)
LEMMA LoopSteps ==
  ASSUME LoginInv, EndInput \/ EndHeart \/ MobLoads \/ PurgeQueue
  PROVE  LoginInv'
<1>1. LoginTypeOK /\ Wired /\ OneBody /\ SnoopsPair /\ StatesOK /\ BodiesOK /\ KeptOK
  BY DEF LoginInv
<1>2. /\ UNCHANGED <<desc, table, row, left>>
      /\ phase' \in {"input", "pulse", "heart"} /\ (phase' = "heart" => phase = "heart")
  BY <1>1 DEF EndInput, EndHeart, MobLoads, PurgeQueue, LoginTypeOK, DescType, BodyType
<1>3. \A b \in AnyBody :
        \/ body'[b] = body[b]
        \/ b = Mob /\ body[b].st = "free" /\ body'[b] = [body[b] EXCEPT !.st = "in"]
        \/ phase = "heart" /\ body[b].st = "purged" /\ body'[b] = NoBody
  BY <1>1 DEF LoginTypeOK, DescType, BodyType, EndInput, EndHeart, MobLoads, PurgeQueue
<1>4. \A b \in Body : body'[b] = body[b] \/ (body[b].st = "purged" /\ body'[b] = NoBody)
  BY <1>3
<1>5. body[Mob].st = "free" => body[Mob] = NoBody
  BY <1>1 DEF BodiesOK
<1>6. \/ body'[Mob] = body[Mob]
      \/ body'[Mob] = [NoBody EXCEPT !.st = "in"]
      \/ phase = "heart" /\ body[Mob].st = "purged" /\ body'[Mob] = NoBody
  BY <1>3, <1>5
<1>7. ASSUME NEW d \in Desc, desc[d].character # None
      PROVE  body'[desc[d].character] = body[desc[d].character]
  <2>1. /\ desc[d].character \in AnyBody
        /\ body[desc[d].character].st # "free"
        /\ phase = "heart" => body[desc[d].character].st # "purged"
    BY <1>1, <1>7 DEF LoginTypeOK, DescType, BodyType, Wired, StatesOK, StateOK
  <2> QED BY <1>3, <2>1
<1>8. ASSUME NEW d \in Desc, desc[d].original # None
      PROVE  body'[desc[d].original] = body[desc[d].original]
  <2>1. desc[d].original \in Body /\ body[desc[d].original].st = "in"
    BY <1>1, <1>8 DEF LoginTypeOK, DescType, BodyType, Wired
  <2> QED BY <1>4, <2>1
<1>9. \A b \in Body : body'[b].st = "in" => body'[b] = body[b]
  BY <1>4
<1>10. LoginTypeOK'
  <2>1. body' \in [AnyBody -> BodyType]
    BY <1>1 DEF LoginTypeOK, DescType, BodyType, EndInput, EndHeart, MobLoads, PurgeQueue
  <2> QED BY <1>1, <1>2, <2>1 DEF LoginTypeOK, DescType, BodyType
<1>11. Wired'
  <2>1. \A b \in AnyBody : body'[b].desc # None => body'[b].desc = body[b].desc
    BY <1>4, <1>6
  <2> QED BY <1>1, <1>2, <1>7, <1>8, <2>1 DEF Wired
<1>12. OneBody'
  BY <1>1, <1>9 DEF OneBody
<1>13. SnoopsPair'
  BY <1>1, <1>2, SnoopsKept
<1>14. StatesOK'
  BY <1>1, <1>2, <1>7, <1>8 DEF StatesOK, StateOK
<1>15. BodiesOK'
  BY <1>1, <1>2, <1>4, <1>6 DEF BodiesOK
<1>16. KeptOK'
  <2>1. \A d \in Desc : desc[d].state = "password" => desc[d].character # None
    BY <1>1 DEF StatesOK, StateOK
  <2> QED BY <1>1, <1>2, <1>7, <1>9, <2>1 DEF KeptOK
<1> QED
  BY <1>10, <1>11, <1>12, <1>13, <1>14, <1>15, <1>16 DEF LoginInv

(* What a player does with a character, and what is written to its row.    *)
LEMMA PlaySteps ==
  ASSUME LoginInv, NEW d, NEW b \in Body,
         \/ Save(b)
         \/ d \in Desc /\ (Play(d, b) \/ \E last \in BOOLEAN : WrongPassword(d, last))
  PROVE  LoginInv'
<1>0. LoginTypeOK /\ Wired /\ OneBody /\ SnoopsPair /\ StatesOK /\ BodiesOK /\ KeptOK
  BY DEF LoginInv
<1>1. CASE d \in Desc /\ Play(d, b)
  <2>1. /\ body[b].st = "in" /\ body' = [body EXCEPT ![b].ver = body[b].ver + 1]
        /\ UNCHANGED <<desc, table, row, left, phase>>
    BY <1>0, <1>1 DEF Play, Plays
  <2>2. LoginTypeOK'
    BY <1>0, <2>1 DEF LoginTypeOK, DescType, BodyType
  <2>3. Wired'
    BY <1>0, <2>1 DEF LoginTypeOK, DescType, BodyType, Wired
  <2>4. OneBody' /\ BodiesOK'
    BY <1>0, <2>1 DEF LoginTypeOK, DescType, BodyType, OneBody, BodiesOK
  <2>5. SnoopsPair'
    BY <1>0, <2>1, SnoopsKept
  <2>6. StatesOK'
    BY <1>0, <2>1 DEF LoginTypeOK, DescType, BodyType, StatesOK, StateOK
  <2>7. KeptOK'
    BY <1>0, <2>1 DEF LoginTypeOK, DescType, BodyType, KeptOK, StatesOK, StateOK, BodiesOK
  <2> QED BY <2>2, <2>3, <2>4, <2>5, <2>6, <2>7 DEF LoginInv
<1>2. CASE Save(b) \/ (d \in Desc /\ \E last \in BOOLEAN : WrongPassword(d, last))
  <2>1. /\ \/ desc' = desc
           \/ d \in Desc /\ desc[d].state = "password" /\ desc' = [desc EXCEPT ![d].state = "close"]
        /\ \E c \in Body :
             /\ body[c].id \in Ids /\ body[c].ver \in Nat /\ body[c].ver >= left[body[c].id]
             /\ row' = [row EXCEPT ![body[c].id] = body[c].ver]
        /\ UNCHANGED <<body, table, left, phase>>
    <3>1. CASE Save(b)
      BY <1>0, <3>1 DEF Save, LoginTypeOK, DescType, BodyType, BodiesOK, KeptOK
    <3>2. CASE d \in Desc /\ \E last \in BOOLEAN : WrongPassword(d, last)
      <4>1. /\ d \in Desc /\ desc[d].state = "password"
            /\ row' = [row EXCEPT ![body[desc[d].character].id] = body[desc[d].character].ver]
            /\ desc' = desc \/ desc' = [desc EXCEPT ![d].state = "close"]
            /\ UNCHANGED <<body, table, left, phase>>
        BY <3>2 DEF WrongPassword, Says
      <4>2. /\ desc[d].character \in Body
            /\ body[desc[d].character].id \in Ids /\ body[desc[d].character].ver \in Nat
            /\ body[desc[d].character].ver >= left[body[desc[d].character].id]
        BY <1>0, <4>1 DEF LoginTypeOK, DescType, BodyType, StatesOK, StateOK, BodiesOK, KeptOK
      <4> QED BY <4>1, <4>2
    <3> QED BY <1>2, <3>1, <3>2
  <2>2. LoginTypeOK'
    BY <1>0, <2>1 DEF LoginTypeOK, DescType, BodyType, States
  <2>3. Wired'
    BY <1>0, <2>1 DEF LoginTypeOK, DescType, BodyType, Wired
  <2>4. OneBody' /\ BodiesOK'
    BY <1>0, <2>1 DEF OneBody, BodiesOK
  <2>5. SnoopsPair'
    BY <1>0, <2>1, SnoopsKept DEF LoginTypeOK, DescType, BodyType
  <2>6. StatesOK'
    <3>1. \A e \in Desc :
            /\ desc'[e].character = desc[e].character
            /\ desc'[e].original = desc[e].original
            /\ desc'[e] = desc[e] \/ desc'[e].state \in Sent
      BY <1>0, <2>1 DEF LoginTypeOK, DescType, BodyType
    <3>2. StatesOK /\ UNCHANGED <<body, phase>>
      BY <1>0, <2>1
    <3> QED BY <3>1, <3>2, StateKept DEF StatesOK
  <2>7. KeptOK'
    BY <1>0, <2>1 DEF LoginTypeOK, DescType, BodyType, KeptOK
  <2> QED BY <2>2, <2>3, <2>4, <2>5, <2>6, <2>7 DEF LoginInv
<1> QED BY <1>1, <1>2

(* The gateway's key is accepted.                                          *)
LEMMA ConnectSteps ==
  ASSUME LoginInv, NEW d \in Desc, NEW web \in BOOLEAN, Connect(d, web)
  PROVE  LoginInv'
<1>1. LoginTypeOK /\ Wired /\ OneBody /\ SnoopsPair /\ StatesOK /\ BodiesOK /\ KeptOK
  BY DEF LoginInv
<1>2. /\ desc[d].state = "gone" /\ desc[d] = NoDesc
      /\ desc' = [desc EXCEPT ![d] = [NoDesc EXCEPT !.web = web,
                    !.state = IF web THEN "weblogin" ELSE "name"]]
      /\ UNCHANGED <<body, table, row, left, phase>>
  BY <1>1 DEF Connect, Says, StatesOK, StateOK
<1>3. /\ desc'[d].state \in {"weblogin", "name"} /\ desc'[d].character = None
      /\ desc'[d].original = None
      /\ desc'[d].snooping = None /\ desc'[d].snoop_by = None
      /\ \A e \in Desc \ {d} : desc'[e] = desc[e]
  BY <1>1, <1>2 DEF LoginTypeOK, DescType, BodyType
<1>4. LoginTypeOK'
  BY <1>1, <1>2 DEF LoginTypeOK, DescType, BodyType, States
<1>5. Wired'
  BY <1>1, <1>2, <1>3 DEF Wired
<1>6. OneBody' /\ BodiesOK'
  BY <1>1, <1>2 DEF OneBody, BodiesOK
<1>7. SnoopsPair'
  <2>1. \A e \in Desc : /\ desc'[e].snooping = desc[e].snooping
                        /\ desc'[e].snoop_by = desc[e].snoop_by
                        /\ desc[e].state # "gone" => desc'[e].state # "gone"
    BY <1>2, <1>3
  <2> QED BY <1>1, <2>1, SnoopsKept
<1>8. StatesOK'
  BY <1>1, <1>2, <1>3 DEF StatesOK, StateOK
<1>9. KeptOK'
  BY <1>1, <1>2, <1>3 DEF KeptOK
<1> QED BY <1>4, <1>5, <1>6, <1>7, <1>8, <1>9 DEF LoginInv

(* A name: the descriptor's old copy goes, and a copy from the database or *)
(* an empty one takes its place; or the name is taken back.                *)
LEMMA NameSteps ==
  ASSUME LoginInv, NEW d \in Desc, GetKnownName(d) \/ GetNewName(d) \/ NameNo(d)
  PROVE  LoginInv'
<1>1. LoginTypeOK /\ Wired /\ OneBody /\ SnoopsPair /\ StatesOK /\ BodiesOK /\ KeptOK
  BY DEF LoginInv
<1> DEFINE c == desc[d].character
<1>2. /\ desc[d].state \in {"name", "confirm"} /\ desc[d].original = None
      /\ c # None => c \in Body /\ body[c].st = "copy" /\ body[c].desc = d
  BY <1>1 DEF GetKnownName, GetNewName, NameNo, Says, LoginTypeOK, DescType, BodyType,
              Wired, StatesOK, StateOK, BodiesOK
<1>3. PICK b \in Body :
        /\ body[b].st = "free" \/ b = c
        /\ body'[b].st = "copy" /\ body'[b].desc = d
        /\ body' \in [AnyBody -> BodyType]
        /\ \A x \in AnyBody \ {b} : body'[x] = IF x = c THEN NoBody ELSE body[x]
        /\ desc' = [desc EXCEPT ![d].character = b, ![d].state = desc'[d].state]
        /\ \/ /\ desc'[d].state = "password"
              /\ \E e \in table : body'[b].id = e.id /\ body'[b].ver = row[e.id]
           \/ /\ desc'[d].state = "confirm" /\ body'[b].id = None
           \/ /\ desc'[d].state = "name" /\ body'[b].id = body[b].id /\ b = c
  <2>1. CASE GetKnownName(d)
    <3>1. PICK e \in table, b \in Body :
            /\ body[b].st = "free"
            /\ body' = [x \in AnyBody |->
                         IF x = b THEN Copy(e.id, e.name, d)
                         ELSE IF x = c THEN NoBody ELSE body[x]]
            /\ desc' = [desc EXCEPT ![d].character = b, ![d].state = "password"]
      BY <2>1 DEF GetKnownName, Free
    <3>2. e.id \in Ids /\ e.name \in Users \cup {NewName} /\ e.id # None
      BY <1>1 DEF LoginTypeOK, DescType, BodyType, Ids, Users
    <3>3. body'[b] = [st |-> "copy", id |-> e.id, name |-> e.name, desc |-> d,
                      ver |-> row[e.id]]
      BY <3>1, <3>2 DEF Copy
    <3>4. \A x \in AnyBody \ {b} : body'[x] = IF x = c THEN NoBody ELSE body[x]
      BY <3>1
    <3>5. body' \in [AnyBody -> BodyType]
      BY <1>1, <3>1, <3>2 DEF LoginTypeOK, DescType, BodyType, Copy
    <3>6. desc'[d].state = "password"
      BY <1>1, <3>1 DEF LoginTypeOK, DescType, BodyType
    <3>7. desc' = [desc EXCEPT ![d].character = b, ![d].state = desc'[d].state]
      BY <3>1, <3>6
    <3>8. /\ body'[b].st = "copy" /\ body'[b].desc = d
          /\ body'[b].id = e.id /\ body'[b].ver = row[e.id]
      BY <3>3
    <3> HIDE DEF c
    <3> QED BY <3>1, <3>4, <3>5, <3>6, <3>7, <3>8
  <2>2. CASE GetNewName(d)
    <3>1. PICK b \in IF c = None THEN Free ELSE {c} :
            /\ body' = [body EXCEPT ![b] = Copy(None, NewName, d)]
            /\ desc' = [desc EXCEPT ![d].character = b, ![d].state = "confirm"]
      BY <2>2 DEF GetNewName
    <3>2. b \in Body /\ (body[b].st = "free" \/ b = c) /\ (c # None => b = c)
      BY <1>2, <3>1 DEF Free
    <3>3. body' \in [AnyBody -> BodyType]
      BY <1>1, <3>1, <3>2 DEF LoginTypeOK, DescType, BodyType, Copy
    <3>4. /\ body'[b].st = "copy" /\ body'[b].desc = d /\ body'[b].id = None
          /\ \A x \in AnyBody \ {b} : body'[x] = body[x]
          /\ desc'[d].state = "confirm"
      BY <1>1, <3>1, <3>2 DEF LoginTypeOK, DescType, BodyType, Copy
    <3>5. desc' = [desc EXCEPT ![d].character = b, ![d].state = desc'[d].state]
      BY <3>1, <3>4
    <3>6. \A x \in AnyBody \ {b} : body'[x] = IF x = c THEN NoBody ELSE body[x]
      BY <1>2, <3>2, <3>4
    <3> HIDE DEF c
    <3> QED BY <3>2, <3>3, <3>4, <3>5, <3>6
  <2>3. CASE NameNo(d)
    <3>1. /\ desc' = [desc EXCEPT ![d].state = "name"]
          /\ body' = [body EXCEPT ![c].name = None] /\ desc[d].state = "confirm"
      BY <2>3 DEF NameNo, Says
    <3>2. c \in Body /\ body[c].st = "copy" /\ body[c].desc = d
      BY <1>1, <1>2, <3>1 DEF StatesOK, StateOK
    <3>3. /\ body'[c].st = "copy" /\ body'[c].desc = d /\ body'[c].id = body[c].id
          /\ \A x \in AnyBody \ {c} : body'[x] = body[x]
      BY <1>1, <3>1, <3>2 DEF LoginTypeOK, DescType, BodyType
    <3>4. body' \in [AnyBody -> BodyType]
      BY <1>1, <3>1, <3>2 DEF LoginTypeOK, DescType, BodyType
    <3>5. desc'[d].state = "name"
      BY <1>1, <3>1 DEF LoginTypeOK, DescType
    <3>6. desc' = [desc EXCEPT ![d].character = c, ![d].state = "name"]
      <4>1. desc[d] = [desc[d] EXCEPT !.character = c]
        BY <1>1 DEF LoginTypeOK, DescType
      <4> QED BY <1>1, <3>1, <4>1 DEF LoginTypeOK
    <3>7. \A x \in AnyBody \ {c} : body'[x] = IF x = c THEN NoBody ELSE body[x]
      BY <3>3
    <3> HIDE DEF c
    <3> QED BY <3>2, <3>3, <3>4, <3>5, <3>6, <3>7
  <2> QED BY <2>1, <2>2, <2>3
<1>4. UNCHANGED <<table, row, left, phase>>
  BY DEF GetKnownName, GetNewName, NameNo
<1>5. /\ desc'[d].character = b /\ desc'[d].original = None
      /\ desc'[d].state \in {"password", "confirm", "name"}
      /\ desc'[d].snooping = desc[d].snooping /\ desc'[d].snoop_by = desc[d].snoop_by
      /\ \A e \in Desc \ {d} : desc'[e] = desc[e]
  BY <1>1, <1>2, <1>3 DEF LoginTypeOK, DescType, BodyType
<1>6. \A e \in Desc \ {d} :
        /\ desc[e].character # None => desc[e].character \notin {b, c}
        /\ desc[e].original # None => desc[e].original \notin {b, c}
  BY <1>1, <1>2, <1>3 DEF Wired
<1>7. \A x \in AnyBody \ {b} : body'[x] = body[x] \/ (x = c /\ body'[x] = NoBody)
  <2> HIDE DEF NoBody
  <2> SUFFICES ASSUME NEW x \in AnyBody \ {b}
               PROVE  body'[x] = body[x] \/ (x = c /\ body'[x] = NoBody)
    OBVIOUS
  <2>1. body'[x] = IF x = c THEN NoBody ELSE body[x]
    BY <1>3
  <2> QED BY <2>1
<1>8. LoginTypeOK'
  BY <1>1, <1>3, <1>4 DEF LoginTypeOK, DescType, BodyType, States
<1>9. \A e \in Desc \ {d} : \A x \in {desc[e].character, desc[e].original} \ {None} :
        body'[x] = body[x]
  BY <1>1, <1>3, <1>6, <1>7 DEF LoginTypeOK, DescType, BodyType
<1>10. Wired'
  <2>1. \A x \in AnyBody : body'[x].desc # None =>
          desc'[body'[x].desc].character = x
    <3> SUFFICES ASSUME NEW x \in AnyBody, body'[x].desc # None
                 PROVE  desc'[body'[x].desc].character = x
      OBVIOUS
    <3>1. CASE x = b
      BY <1>3, <1>5, <3>1
    <3>2. CASE x # b
      <4>1. body'[x] = body[x] /\ x # c /\ body[x].desc \in Desc
        BY <1>1, <1>3, <1>7, <3>2 DEF LoginTypeOK, DescType, BodyType
      <4>2. body[x].desc # d
        BY <1>1, <4>1 DEF Wired
      <4> QED BY <1>1, <1>5, <4>1, <4>2 DEF Wired
    <3> QED BY <3>1, <3>2
  <2>2. \A e \in Desc \ {d} :
          /\ desc[e].character # None =>
               body'[desc[e].character].st # "free" /\ body'[desc[e].character].desc = e
          /\ desc[e].original # None =>
               /\ body'[desc[e].original].st = "in" /\ body'[desc[e].original].desc = None
               /\ desc[e].character = Mob
          /\ desc[e].state = "playing" =>
               desc[e].character # None /\ body'[desc[e].character].st = "in"
    BY <1>1, <1>9 DEF Wired
  <2> QED BY <1>3, <1>5, <2>1, <2>2 DEF Wired
<1>11. \A x \in Body : body'[x].st = "in" => body'[x] = body[x]
  BY <1>3, <1>7
<1>12. OneBody'
  BY <1>1, <1>11 DEF OneBody
<1>13. SnoopsPair'
  BY <1>1, <1>2, <1>5, SnoopsKept
<1>14. StatesOK'
  <2>1. \A e \in Desc \ {d} : StateOK(e)'
    BY <1>1, <1>4, <1>5, <1>9, StateKept DEF StatesOK
  <2>2. StateOK(d)'
    <3>1. desc'[d].state = "password" => body'[b].id # None
      BY <1>1, <1>3 DEF LoginTypeOK, DescType, BodyType, Ids, Users
    <3> QED BY <1>3, <1>5, <3>1 DEF StateOK
  <2> QED BY <2>1, <2>2 DEF StatesOK
<1>15. BodiesOK'
  BY <1>1, <1>3, <1>4, <1>5, <1>7 DEF BodiesOK
<1>16. KeptOK'
  <2>1. \A e \in Desc \ {d} : desc'[e].state = "password" =>
          body'[desc'[e].character].ver >= left[body'[desc'[e].character].id]
    <3> SUFFICES ASSUME NEW e \in Desc \ {d}, desc[e].state = "password"
                 PROVE  body'[desc[e].character].ver >= left[body'[desc[e].character].id]
      BY <1>5
    <3>1. body'[desc[e].character] = body[desc[e].character]
      BY <1>1, <1>9 DEF StatesOK, StateOK
    <3> QED BY <1>1, <3>1 DEF KeptOK
  <2>2. desc'[d].state = "password" => body'[b].ver >= left[body'[b].id]
    BY <1>1, <1>3 DEF LoginTypeOK, DescType, BodyType, KeptOK
  <2> QED BY <1>1, <1>4, <1>5, <1>11, <2>1, <2>2 DEF KeptOK
<1> QED
  BY <1>8, <1>10, <1>12, <1>13, <1>14, <1>15, <1>16 DEF LoginInv

(* Descriptor d is attached to character c, or body b to a descriptor that *)
(* lets go of body c: what the new array has.                              *)
DescAttached(E, D, d, c, o) ==
  /\ E \in [Desc -> DescType]
  /\ E[d].character = c /\ E[d].original = o
  /\ \A e \in Desc \ {d} : E[e] = D[e]
  /\ \A e \in Desc : /\ E[e].state = D[e].state
                     /\ E[e].snooping = D[e].snooping
                     /\ E[e].snoop_by = D[e].snoop_by
BodyAttached(C, B, d, b, c) ==
  /\ C \in [AnyBody -> BodyType]
  /\ C[b].desc = d /\ C[c].desc = None
  /\ \A x \in AnyBody \ {b, c} : C[x] = B[x]
  /\ \A x \in AnyBody : /\ C[x].st = B[x].st /\ C[x].id = B[x].id
                        /\ C[x].ver = B[x].ver

(* What the two assignments of do_switch and do_return make of desc.       *)
LEMMA DescAttach ==
  ASSUME NEW D, D \in [Desc -> DescType], NEW d \in Desc, NEW c \in AnyBody,
         NEW o \in Body \cup {None}, NEW E,
         E = [D EXCEPT ![d].character = c, ![d].original = o]
  PROVE  DescAttached(E, D, d, c, o)
<1> DEFINE s == [D[d] EXCEPT !.character = c, !.original = o]
<1> HIDE DEF AnyBody
<1>1. /\ s \in DescType /\ s.character = c /\ s.original = o /\ s.state = D[d].state
      /\ s.snooping = D[d].snooping /\ s.snoop_by = D[d].snoop_by
  <2>1. D[d] \in DescType
    OBVIOUS
  <2> QED BY <2>1 DEF DescType
<1>2. E = [D EXCEPT ![d] = s]
  OBVIOUS
<1> HIDE DEF s
<1> QED BY <1>1, <1>2 DEF DescAttached

(* And of body, in either order.                                           *)
LEMMA BodyAttach ==
  ASSUME NEW B, B \in [AnyBody -> BodyType], NEW d \in Desc, NEW b \in AnyBody,
         NEW c \in AnyBody, b # c, NEW C,
         \/ C = [B EXCEPT ![b].desc = d, ![c].desc = None]
         \/ C = [B EXCEPT ![c].desc = None, ![b].desc = d]
  PROVE  BodyAttached(C, B, d, b, c)
<1> HIDE DEF AnyBody
<1> DEFINE s == [B[b] EXCEPT !.desc = d]
           t == [B[c] EXCEPT !.desc = None]
<1>1. /\ s \in BodyType /\ s.desc = d /\ s.st = B[b].st /\ s.id = B[b].id /\ s.ver = B[b].ver
      /\ t \in BodyType /\ t.desc = None /\ t.st = B[c].st /\ t.id = B[c].id
      /\ t.ver = B[c].ver
  <2>1. B[b] \in BodyType /\ B[c] \in BodyType
    OBVIOUS
  <2> QED BY <2>1 DEF BodyType
<1>2. C = [[B EXCEPT ![b] = s] EXCEPT ![c] = t]
  OBVIOUS
<1> HIDE DEF s, t
<1> QED BY <1>1, <1>2 DEF BodyAttached

(* A god goes into the mobile.                                             *)
LEMMA SwitchSteps ==
  ASSUME LoginInv, NEW d \in Desc, NEW b \in Body, Switch(d, b)
  PROVE  LoginInv'
<1>1. LoginTypeOK /\ Wired /\ OneBody /\ SnoopsPair /\ StatesOK /\ BodiesOK /\ KeptOK
  BY DEF LoginInv
<1>2. /\ desc[d].state = "playing" /\ desc[d].character = b /\ desc[d].original = None
      /\ body[b].st = "in" /\ body[b].id \in Immortals /\ body[b].desc = d
      /\ body[Mob].st = "in" /\ body[Mob].desc = None
      /\ desc' = [desc EXCEPT ![d].character = Mob, ![d].original = b]
      /\ body' = [body EXCEPT ![Mob].desc = d, ![b].desc = None]
      /\ UNCHANGED <<table, row, left, phase>>
  BY DEF Switch, IsGod, Plays, Says
<1>3. DescAttached(desc', desc, d, Mob, b)
  BY <1>1, <1>2, DescAttach DEF LoginTypeOK
<1>4. BodyAttached(body', body, d, Mob, b)
  BY <1>1, <1>2, BodyAttach DEF LoginTypeOK
<1> USE DEF DescAttached, BodyAttached
<1>5. LoginTypeOK'
  BY <1>1, <1>2, <1>3, <1>4 DEF LoginTypeOK
<1> HIDE DEF AnyBody
<1>12. /\ b # Mob /\ b \in AnyBody /\ Mob \in AnyBody /\ b # None /\ Mob # None /\ d # None
  BY DEF AnyBody
<1>13. ASSUME NEW e \in Desc \ {d}
       PROVE  desc[e].character \notin {b, Mob} /\ desc[e].original = None
  <2>1. desc[e].character \notin {b, Mob}
    BY <1>1, <1>2, <1>12 DEF Wired
  <2> QED BY <1>1, <2>1 DEF Wired
<1>6. Wired'
  <2>1. ASSUME NEW x \in AnyBody, body'[x].desc # None
        PROVE  desc'[body'[x].desc].character = x
    <3>1. CASE x \in {b, Mob}
      BY <1>3, <1>4, <2>1, <3>1
    <3>2. CASE x \notin {b, Mob}
      <4>1. body'[x] = body[x] /\ body[x].desc \in Desc
        BY <1>1, <1>4, <2>1, <3>2 DEF LoginTypeOK, BodyType
      <4>2. desc[body[x].desc].character = x
        BY <1>1, <2>1, <4>1 DEF Wired
      <4> QED BY <1>2, <1>3, <3>2, <4>1, <4>2
    <3> QED BY <3>1, <3>2
  <2>2. \A e \in Desc \ {d} :
          /\ desc'[e].character # None =>
               /\ body'[desc'[e].character].st # "free"
               /\ body'[desc'[e].character].desc = e
          /\ desc'[e].original = None
          /\ desc'[e].state = "playing" =>
               desc'[e].character # None /\ body'[desc'[e].character].st = "in"
    BY <1>1, <1>3, <1>4, <1>13 DEF Wired, LoginTypeOK, DescType
  <2>3. /\ desc'[d].character = Mob /\ desc'[d].original = b
        /\ body'[Mob].st = "in" /\ body'[Mob].desc = d
        /\ body'[b].st = "in" /\ body'[b].desc = None
    BY <1>2, <1>3, <1>4, <1>12
  <2> QED BY <1>12, <2>1, <2>2, <2>3 DEF Wired
<1>7. OneBody'
  BY <1>1, <1>4 DEF OneBody, AnyBody
<1>8. SnoopsPair'
  BY <1>1, <1>3, SnoopsKept
<1>9. StatesOK'
  <2>1. \A e \in Desc \ {d} : StateOK(e)'
    BY <1>1, <1>2, <1>3, <1>4, StateKept DEF StatesOK, LoginTypeOK, DescType
  <2>2. StateOK(d)'
    BY <1>2, <1>3, <1>4, <1>12 DEF StateOK
  <2> QED BY <2>1, <2>2 DEF StatesOK
<1>10. BodiesOK'
  <2>1. \A x \in AnyBody : body'[x].st = "free" => body'[x] = body[x]
    BY <1>2, <1>4
  <2> QED BY <1>1, <1>2, <1>4, <1>12, <2>1 DEF BodiesOK, AnyBody
<1>11. KeptOK'
  BY <1>1, <1>2, <1>3, <1>4 DEF AnyBody,
 KeptOK, StatesOK, StateOK, LoginTypeOK, DescType
<1> QED
  BY <1>5, <1>6, <1>7, <1>8, <1>9, <1>10, <1>11 DEF LoginInv

(* do_return: as nobody has taken the god's own body, no thief is found.   *)
LEMMA ReturnFacts ==
  ASSUME LoginInv, NEW d \in Desc, body[Mob].desc = d,
         NEW D, D \in [Desc -> DescType],
         \A e \in Desc : D[e].original = desc[e].original
  PROVE  \E o \in Body :
           /\ o = desc[d].original /\ body[o].st = "in" /\ body[o].desc = None
           /\ desc[d].character = Mob /\ desc[d].state \in {"playing", "close", "disconnect"}
           /\ DescAttached(DReturned(D, body, Mob), D, d, o, None)
           /\ BodyAttached(BReturned(D, body, Mob), body, d, o, Mob)
<1>1. desc[d].character = Mob /\ desc[d].original # None /\ desc[d].original \in Body
  BY DEF LoginInv, LoginTypeOK, DescType, Wired, StatesOK, StateOK
<1>2. PICK o \in Body : o = desc[d].original
  BY <1>1
<1>3. body[o].st = "in" /\ body[o].desc = None
  BY <1>1, <1>2 DEF LoginInv, Wired
<1>4. desc[d].state \in {"playing", "close", "disconnect"}
  BY <1>1 DEF LoginInv, LoginTypeOK, DescType, States, StatesOK, StateOK, BodiesOK
<1>5. D[d].original = o
  BY <1>2
<1>6. DReturned(D, body, Mob) = [D EXCEPT ![d].character = o, ![d].original = None]
  BY <1>3, <1>5 DEF DReturned
<1>7. BReturned(D, body, Mob) = [body EXCEPT ![o].desc = d, ![Mob].desc = None]
  BY <1>5 DEF BReturned
<1>8. DescAttached(DReturned(D, body, Mob), D, d, o, None)
  BY <1>6, DescAttach
<1>9. BodyAttached(BReturned(D, body, Mob), body, d, o, Mob)
  <2>1. body \in [AnyBody -> BodyType] /\ o # Mob
    BY DEF LoginInv, LoginTypeOK
  <2> QED BY <1>7, <2>1, BodyAttach
<1> QED BY <1>1, <1>2, <1>3, <1>4, <1>8, <1>9

(* The snoops around d are forgotten.                                      *)
Forgotten(E, D, d) ==
  /\ E \in [Desc -> DescType]
  /\ \A e \in Desc :
       /\ E[e].state = D[e].state /\ E[e].web = D[e].web
       /\ E[e].character = D[e].character /\ E[e].original = D[e].original
       /\ E[e].loggedIn = D[e].loggedIn
       /\ E[e].snooping = IF D[e].snooping = d \/ e = d THEN None ELSE D[e].snooping
       /\ E[e].snoop_by = IF D[e].snoop_by = d \/ e = d THEN None ELSE D[e].snoop_by
       /\ D[e] = NoDesc => E[e] = D[e]

(* ForgetSnoops touches nothing but the snoops of d and of its partners.   *)
LEMMA ForgetFacts ==
  ASSUME NEW D, D \in [Desc -> DescType], NEW d \in Desc
  PROVE  Forgotten(ForgetSnoops(D, d), D, d)
<1> HIDE DEF AnyBody
<1>1. \A e \in Desc : D[e] \in DescType
  OBVIOUS
<1> DEFINE F(e) == [D[e] EXCEPT
                      !.snoop_by = IF @ = d \/ e = d THEN None ELSE @,
                      !.snooping = IF @ = d \/ e = d THEN None ELSE @]
<1>2. \A e \in Desc :
        /\ F(e) \in DescType
        /\ F(e).state = D[e].state /\ F(e).web = D[e].web
        /\ F(e).character = D[e].character /\ F(e).original = D[e].original
        /\ F(e).loggedIn = D[e].loggedIn
        /\ F(e).snooping = IF D[e].snooping = d \/ e = d
                           THEN None ELSE D[e].snooping
        /\ F(e).snoop_by = IF D[e].snoop_by = d \/ e = d
                           THEN None ELSE D[e].snoop_by
  <2> SUFFICES ASSUME NEW e \in Desc
               PROVE  /\ F(e) \in DescType
                      /\ F(e).state = D[e].state /\ F(e).web = D[e].web
                      /\ F(e).character = D[e].character
                      /\ F(e).original = D[e].original
                      /\ F(e).loggedIn = D[e].loggedIn
                      /\ F(e).snooping = IF D[e].snooping = d \/ e = d
                                         THEN None ELSE D[e].snooping
                      /\ F(e).snoop_by = IF D[e].snoop_by = d \/ e = d
                                         THEN None ELSE D[e].snoop_by
    OBVIOUS
  <2>1. D[e] \in DescType
    BY <1>1
  <2> QED BY <2>1 DEF DescType
<1>3. ASSUME NEW e \in Desc, D[e] = NoDesc
      PROVE  F(e) = D[e]
  <2>1. D[e].snooping = None /\ D[e].snoop_by = None
    BY <1>3
  <2>2. /\ F(e) \in DescType /\ D[e] \in DescType
        /\ F(e).state = D[e].state /\ F(e).web = D[e].web
        /\ F(e).character = D[e].character /\ F(e).original = D[e].original
        /\ F(e).loggedIn = D[e].loggedIn
        /\ F(e).snooping = D[e].snooping /\ F(e).snoop_by = D[e].snoop_by
    BY <1>1, <1>2, <2>1
  <2> HIDE DEF F
  <2> QED BY <2>2 DEF DescType
<1>4. ForgetSnoops(D, d) = [e \in Desc |-> F(e)]
  BY DEF ForgetSnoops
<1> HIDE DEF F
<1> QED BY <1>2, <1>3, <1>4 DEF Forgotten

(* Who was in the mobile is back, and the mobile goes on or is dead.       *)
LEMMA MobileSteps ==
  ASSUME LoginInv, MobDies \/ \E d \in Desc : Return(d)
  PROVE  LoginInv'
<1>1. LoginTypeOK /\ Wired /\ OneBody /\ SnoopsPair /\ StatesOK /\ BodiesOK /\ KeptOK
  BY DEF LoginInv
<1>2. /\ body[Mob].st = "in" /\ body[Mob].id = None
      /\ UNCHANGED <<table, row, left, phase>>
  BY <1>1 DEF MobDies, Return, Plays, BodiesOK
<1>3. CASE body[Mob].desc = None
  <2>1. desc' = desc /\ body' = [body EXCEPT ![Mob].st = "purged"]
    BY <1>3 DEF MobDies, Return
  <2>2. /\ \A x \in Body : body'[x] = body[x]
        /\ body'[Mob].st = "purged" /\ body'[Mob].desc = None /\ body'[Mob].id = None
    BY <1>1, <1>2, <1>3, <2>1 DEF LoginTypeOK, BodyType
  <2>3. \A e \in Desc : desc[e].character # Mob
    BY <1>1, <1>3 DEF Wired
  <2>4. LoginTypeOK'
    BY <1>1, <1>2, <2>1 DEF LoginTypeOK, BodyType
  <2>5. Wired'
    BY <1>1, <2>1, <2>2, <2>3 DEF Wired, LoginTypeOK, DescType
  <2>6. OneBody' /\ BodiesOK'
    BY <1>1, <1>2, <2>2 DEF OneBody, BodiesOK
  <2>7. SnoopsPair'
    BY <1>1, <2>1, SnoopsKept
  <2>8. StatesOK'
    BY <1>1, <1>2, <2>1, <2>2, <2>3, StateKept DEF StatesOK, LoginTypeOK, DescType
  <2>9. KeptOK'
    BY <1>1, <1>2, <2>1, <2>2, <2>3 DEF KeptOK, StatesOK, StateOK, LoginTypeOK, DescType
  <2> QED
    BY <2>4, <2>5, <2>6, <2>7, <2>8, <2>9 DEF LoginInv
<1>4. CASE body[Mob].desc # None
  <2>1. PICK d \in Desc : d = body[Mob].desc
    BY <1>1, <1>4 DEF LoginTypeOK, BodyType
  <2> DEFINE Back(D, B, o) ==
          /\ D \in [Desc -> DescType]
          /\ \A e \in Desc : /\ D[e].state = desc[e].state
                             /\ D[e].character = desc[e].character
                             /\ D[e].original = desc[e].original
                             /\ desc[e].state = "gone" => D[e] = desc[e]
          /\ \/ \A e \in Desc : /\ D[e].snooping = desc[e].snooping
                                /\ D[e].snoop_by = desc[e].snoop_by
             \/ \A e \in Desc : /\ D[e].snooping = IF desc[e].snooping = d \/ e = d
                                                   THEN None ELSE desc[e].snooping
                                /\ D[e].snoop_by = IF desc[e].snoop_by = d \/ e = d
                                                   THEN None ELSE desc[e].snoop_by
          /\ o = desc[d].original /\ body[o].st = "in" /\ body[o].desc = None
          /\ desc[d].character = Mob /\ desc[d].state \in {"playing", "close", "disconnect"}
          /\ DescAttached(desc', D, d, o, None)
          /\ BodyAttached(B, body, d, o, Mob)
          /\ body' = B \/ body' = [B EXCEPT ![Mob].st = "purged"]
  <2>13. \E o \in Body : \E D : \E B : Back(D, B, o)
    <3>0.  desc \in [Desc -> DescType]
      BY <1>1 DEF LoginTypeOK
    <3>1. CASE \E e \in Desc : Return(e)
      <4>1. desc' = DReturned(desc, body, Mob) /\ body' = BReturned(desc, body, Mob)
        BY <3>1 DEF Return
      <4>2. PICK o \in Body :
              /\ o = desc[d].original /\ body[o].st = "in" /\ body[o].desc = None
              /\ desc[d].character = Mob
              /\ desc[d].state \in {"playing", "close", "disconnect"}
              /\ DescAttached(desc', desc, d, o, None)
              /\ BodyAttached(body', body, d, o, Mob)
        BY <2>1, <3>0, <4>1, ReturnFacts
      <4>3. Back(desc, body', o)
        BY <3>0, <4>2
      <4> HIDE DEF Back
      <4> QED BY <4>3
    <3>2. CASE MobDies
      <4>1. PICK D : D = ForgetSnoops(desc, d)
        OBVIOUS
      <4>2. PICK B : B = BReturned(D, body, Mob)
        OBVIOUS
      <4>3. desc' = DReturned(D, body, Mob) /\ body' = [B EXCEPT ![Mob].st = "purged"]
        BY <2>1, <3>2, <4>1, <4>2 DEF MobDies
      <4>4. /\ D \in [Desc -> DescType]
            /\ \A e \in Desc :
                 /\ D[e].state = desc[e].state
                 /\ D[e].character = desc[e].character
                 /\ D[e].original = desc[e].original
                 /\ D[e].snooping = IF desc[e].snooping = d \/ e = d
                                    THEN None ELSE desc[e].snooping
                 /\ D[e].snoop_by = IF desc[e].snoop_by = d \/ e = d
                                    THEN None ELSE desc[e].snoop_by
                 /\ desc[e].state = "gone" => D[e] = desc[e]
        <5>1. Forgotten(D, desc, d)
          BY <3>0, <4>1, ForgetFacts
        <5> QED BY <1>1, <5>1 DEF Forgotten, StatesOK, StateOK
      <4>5. PICK o \in Body :
              /\ o = desc[d].original /\ body[o].st = "in" /\ body[o].desc = None
              /\ desc[d].character = Mob
              /\ desc[d].state \in {"playing", "close", "disconnect"}
              /\ DescAttached(desc', D, d, o, None)
              /\ BodyAttached(B, body, d, o, Mob)
        BY <2>1, <4>2, <4>3, <4>4, ReturnFacts
      <4>6. Back(D, B, o)
        BY <4>3, <4>4, <4>5
      <4> HIDE DEF Back
      <4> QED BY <4>6
    <3> HIDE DEF Back
    <3> QED BY <3>1, <3>2
  <2> HIDE DEF Back
  <2>14. PICK o \in Body : \E D : \E B : Back(D, B, o)
    BY <2>13
  <2>15. PICK D : \E B : Back(D, B, o)
    BY <2>14
  <2>2. PICK B : Back(D, B, o)
    BY <2>15
  <2> USE DEF Back
  <2>3. /\ desc'[d].character = o /\ desc'[d].original = None
        /\ \A e \in Desc \ {d} : /\ desc'[e].character = desc[e].character
                                 /\ desc'[e].original = desc[e].original
        /\ \A e \in Desc : desc'[e].state = desc[e].state
        /\ \A e \in Desc : desc[e].state = "gone" => desc'[e] = desc[e]
        /\ desc' \in [Desc -> DescType]
    BY <2>2 DEF DescAttached
  <2>12. SnoopsPair'
    <3>1. \A e \in Desc : /\ desc'[e].snooping = D[e].snooping
                          /\ desc'[e].snoop_by = D[e].snoop_by
      BY <2>2 DEF DescAttached
    <3> QED BY <1>1, <2>1, <2>2, <2>3, <3>1 DEF SnoopsPair
  <2>4. /\ body'[o].desc = d /\ body'[Mob].desc = None /\ body'[Mob].id = None
        /\ body'[Mob].st \in {"in", "purged"}
        /\ \A x \in AnyBody \ {o, Mob} : body'[x] = body[x]
        /\ \A x \in Body : /\ body'[x].st = body[x].st /\ body'[x].id = body[x].id
                           /\ body'[x].ver = body[x].ver
        /\ body' \in [AnyBody -> BodyType]
    <3>1. /\ B \in [AnyBody -> BodyType]
          /\ B[o].desc = d /\ B[Mob].desc = None
          /\ \A x \in AnyBody \ {o, Mob} : B[x] = body[x]
          /\ \A x \in AnyBody : /\ B[x].st = body[x].st /\ B[x].id = body[x].id
                                /\ B[x].ver = body[x].ver
      BY <2>2 DEF BodyAttached
    <3>2. CASE body' = B
      BY <1>2, <2>2, <3>1, <3>2
    <3>3. CASE body' = [B EXCEPT ![Mob].st = "purged"]
      <4>1. body'[Mob] = [B[Mob] EXCEPT !.st = "purged"]
        BY <3>1, <3>3
      <4>2. \A x \in Body : body'[x] = B[x]
        BY <3>1, <3>3
      <4>3. /\ body'[Mob].st = "purged" /\ body'[Mob].desc = None
            /\ body'[Mob].id = None /\ body'[Mob] \in BodyType
        BY <1>2, <3>1, <4>1 DEF BodyType
      <4>4. body' = [x \in AnyBody |-> body'[x]]
        BY <3>1, <3>3
      <4> QED BY <2>2, <3>1, <4>2, <4>3, <4>4
    <3> QED BY <2>2, <3>2, <3>3
  <2>5. \A e \in Desc \ {d} : desc[e].character \notin {o, Mob} /\ desc[e].original # o
    <3> SUFFICES ASSUME NEW e \in Desc \ {d}
                 PROVE  desc[e].character \notin {o, Mob} /\ desc[e].original # o
      OBVIOUS
    <3>1. desc[e].character # Mob
      BY <1>1, <2>1 DEF Wired
    <3>2. desc[e].character # o
      BY <1>1, <2>1, <2>2 DEF Wired
    <3>3. desc[e].original # None => desc[e].character = Mob
      BY <1>1 DEF Wired
    <3> QED BY <2>2, <3>1, <3>2, <3>3
  <2>6. LoginTypeOK'
    BY <1>1, <1>2, <2>3, <2>4 DEF LoginTypeOK
  <2>7. Wired'
    <3>1. ASSUME NEW x \in AnyBody, body'[x].desc # None
          PROVE  desc'[body'[x].desc].character = x
      <4>1. CASE x = o
        BY <2>1, <2>2, <2>3, <2>4, <4>1
      <4>2. CASE x # o /\ x # Mob
        <5>1. body'[x] = body[x] /\ body[x].desc \in Desc
          BY <1>1, <2>4, <3>1, <4>2 DEF LoginTypeOK, BodyType
        <5>2. desc[body[x].desc].character = x
          BY <1>1, <3>1, <5>1 DEF Wired
        <5>3. body[x].desc # d
          BY <2>2, <4>2, <5>2
        <5> QED BY <2>3, <5>1, <5>2, <5>3
      <4> QED BY <2>4, <3>1, <4>1, <4>2
    <3>2. \A e \in Desc \ {d} :
            /\ desc'[e].character # None =>
                 /\ body'[desc'[e].character].st # "free"
                 /\ body'[desc'[e].character].desc = e
            /\ desc'[e].original # None =>
                 /\ body'[desc'[e].original].st = "in"
                 /\ body'[desc'[e].original].desc = None
                 /\ desc'[e].character = Mob
            /\ desc'[e].state = "playing" =>
                 desc'[e].character # None /\ body'[desc'[e].character].st = "in"
      BY <1>1, <2>3, <2>4, <2>5 DEF Wired, LoginTypeOK, DescType
    <3>3. /\ desc'[d].character = o /\ desc'[d].original = None
          /\ body'[o].st = "in" /\ body'[o].desc = d
      BY <2>2, <2>3, <2>4
    <3> HIDE DEF Back
    <3> QED BY <3>1, <3>2, <3>3 DEF Wired
  <2>8. OneBody'
    BY <1>1, <2>4 DEF OneBody
  <2>9. StatesOK'
    <3>1. ASSUME NEW e \in Desc \ {d} PROVE StateOK(e)'
      <4>1. \A x \in {desc[e].character, desc[e].original} \ {None} :
              body'[x].st = body[x].st /\ body'[x].id = body[x].id
        BY <1>1, <2>4, <2>5 DEF Wired, LoginTypeOK, DescType
      <4> QED BY <1>1, <1>2, <2>3, <4>1 DEF StatesOK, StateOK
    <3>2. StateOK(d)'
      BY <1>2, <2>1, <2>2, <2>3, <2>4 DEF StateOK
    <3> QED BY <3>1, <3>2 DEF StatesOK
  <2>10. BodiesOK'
    BY <1>1, <1>2, <2>2, <2>4 DEF BodiesOK
  <2>11. KeptOK'
    <3>1. ASSUME NEW e \in Desc, desc'[e].state = "password"
          PROVE  body'[desc'[e].character].ver >= left[body'[desc'[e].character].id]
      <4>1. e # d /\ desc[e].state = "password" /\ desc[e].character # None
        BY <1>1, <2>2, <2>3, <3>1 DEF StatesOK, StateOK
      <4>2. desc'[e].character = desc[e].character /\ desc[e].character \in Body
        BY <1>1, <2>1, <2>3, <2>5, <4>1 DEF LoginTypeOK, DescType
      <4> QED BY <1>1, <2>4, <4>1, <4>2 DEF KeptOK
    <3> QED BY <1>1, <1>2, <2>4, <3>1 DEF KeptOK
  <2> QED
    BY <2>6, <2>7, <2>12, <2>8, <2>9, <2>10, <2>11 DEF LoginInv
<1> QED BY <1>3, <1>4

(* Only one end of a snoop is changed.                                     *)
SameButSnoops(E, D) ==
  /\ E \in [Desc -> DescType]
  /\ \A e \in Desc : /\ E[e].state = D[e].state /\ E[e].web = D[e].web
                     /\ E[e].character = D[e].character
                     /\ E[e].original = D[e].original
                     /\ E[e].loggedIn = D[e].loggedIn

SnoopingSet(E, D, d, v) ==
  /\ SameButSnoops(E, D)
  /\ \A e \in Desc : /\ E[e].snooping = IF e = d THEN v ELSE D[e].snooping
                     /\ E[e].snoop_by = D[e].snoop_by
                     /\ e # d => E[e] = D[e]
SnoopBySet(E, D, d, v) ==
  /\ SameButSnoops(E, D)
  /\ \A e \in Desc : /\ E[e].snoop_by = IF e = d THEN v ELSE D[e].snoop_by
                     /\ E[e].snooping = D[e].snooping
                     /\ e # d => E[e] = D[e]

(* One end of a snoop is set.                                              *)
LEMMA SetSnooping ==
  ASSUME NEW D, D \in [Desc -> DescType], NEW d \in Desc, NEW v \in Desc \cup {None},
         NEW E, E = [D EXCEPT ![d].snooping = v]
  PROVE  SnoopingSet(E, D, d, v)
<1> DEFINE s == [D[d] EXCEPT !.snooping = v]
<1> HIDE DEF AnyBody
<1>1. /\ s \in DescType /\ s.character = D[d].character /\ s.original = D[d].original
      /\ s.state = D[d].state /\ s.web = D[d].web /\ s.loggedIn = D[d].loggedIn
      /\ s.snooping = v /\ s.snoop_by = D[d].snoop_by
  <2>1. D[d] \in DescType
    OBVIOUS
  <2> QED BY <2>1 DEF DescType
<1>2. E = [D EXCEPT ![d] = s]
  OBVIOUS
<1> HIDE DEF s
<1> QED BY <1>1, <1>2 DEF SameButSnoops, SnoopingSet

(* The other end is set.                                                   *)
LEMMA SetSnoopBy ==
  ASSUME NEW D, D \in [Desc -> DescType], NEW d \in Desc, NEW v \in Desc \cup {None},
         NEW E, E = [D EXCEPT ![d].snoop_by = v]
  PROVE  SnoopBySet(E, D, d, v)
<1> DEFINE s == [D[d] EXCEPT !.snoop_by = v]
<1> HIDE DEF AnyBody
<1>1. /\ s \in DescType /\ s.character = D[d].character /\ s.original = D[d].original
      /\ s.state = D[d].state /\ s.web = D[d].web /\ s.loggedIn = D[d].loggedIn
      /\ s.snoop_by = v /\ s.snooping = D[d].snooping
  <2>1. D[d] \in DescType
    OBVIOUS
  <2> QED BY <2>1 DEF DescType
<1>2. E = [D EXCEPT ![d] = s]
  OBVIOUS
<1> HIDE DEF s
<1> QED BY <1>1, <1>2 DEF SameButSnoops, SnoopBySet

(* Nothing but SnoopsPair is about snoops.                                 *)
LEMMA SnoopsOnly ==
  ASSUME LoginInv, SameButSnoops(desc', desc), SnoopsPair',
         \A e \in Desc : desc[e].state = "gone" => desc'[e] = desc[e],
         UNCHANGED <<body, table, row, left, phase>>
  PROVE  LoginInv'
<1>1. LoginTypeOK /\ Wired /\ OneBody /\ SnoopsPair /\ StatesOK /\ BodiesOK /\ KeptOK
  BY DEF LoginInv
<1>2. LoginTypeOK'
  BY <1>1 DEF LoginTypeOK, SameButSnoops
<1>3. /\ \A e \in Desc : /\ desc'[e].state = desc[e].state
                         /\ desc'[e].character = desc[e].character
                         /\ desc'[e].original = desc[e].original
      /\ UNCHANGED <<body, phase>>
  BY DEF SameButSnoops
<1>4. Wired'
  BY <1>1, <1>3 DEF Wired, LoginTypeOK, BodyType
<1>5. OneBody' /\ BodiesOK'
  BY <1>1 DEF OneBody, BodiesOK
<1>6. StatesOK'
  <2> SUFFICES ASSUME NEW e \in Desc PROVE StateOK(e)'
    BY DEF StatesOK
  <2>1. StateOK(e) /\ (desc[e].state = "gone" => desc'[e] = desc[e])
    BY <1>1 DEF StatesOK
  <2> QED BY <1>3, <2>1 DEF StateOK
<1>7. KeptOK'
  BY <1>1, <1>3 DEF KeptOK
<1> QED BY <1>1, <1>2, <1>4, <1>5, <1>6, <1>7 DEF LoginInv

(* do_snoop, which may steal the end of an earlier snoop, and stopSnooping.*)
LEMMA SnoopSteps ==
  ASSUME LoginInv, NEW d \in Desc, NEW b \in Body,
         StopSnooping(d, b) \/ \E c \in AnyBody : Snoop(d, b, c)
  PROVE  LoginInv'
<1>1. LoginTypeOK /\ Wired /\ OneBody /\ SnoopsPair /\ StatesOK /\ BodiesOK /\ KeptOK
  BY DEF LoginInv
<1>2. desc \in [Desc -> DescType]
  BY <1>1 DEF LoginTypeOK
<1>3. \A e \in Desc : /\ desc[e].snooping \in Desc \cup {None}
                      /\ desc[e].snoop_by \in Desc \cup {None}
  BY <1>2 DEF DescType
<1>4. \A e \in Desc : desc[e].state = "gone" =>
        desc[e].character = None /\ desc[e].snooping = None /\ desc[e].snoop_by = None
  BY <1>1 DEF StatesOK, StateOK
<1>5. desc[d].state = "playing" /\ desc[d].character = b /\ body[b].desc = d
  BY DEF StopSnooping, Snoop, IsGod, Plays, Says
<1>6. CASE StopSnooping(d, b)
  <2>1. PICK e \in Desc : e = desc[d].snooping
    BY <1>3, <1>6 DEF StopSnooping
  <2>2. PICK D : D = [desc EXCEPT ![d].snooping = None]
    OBVIOUS
  <2>3. desc' = [D EXCEPT ![e].snoop_by = None] /\ UNCHANGED <<body, table, row, left, phase>>
    BY <1>6, <2>1, <2>2 DEF StopSnooping
  <2>4. SnoopingSet(D, desc, d, None)
    BY <1>2, <2>2, SetSnooping
  <2>5. SnoopBySet(desc', D, e, None)
    <3>1. D \in [Desc -> DescType]
      BY <2>4 DEF SnoopingSet, SameButSnoops
    <3> QED BY <2>3, <3>1, SetSnoopBy
  <2> USE DEF SnoopingSet, SnoopBySet
  <2>6. SameButSnoops(desc', desc)
    BY <2>4, <2>5 DEF SameButSnoops
  <2>7. desc[e].snoop_by = d /\ desc[e].state # "gone"
    BY <1>1, <2>1 DEF SnoopsPair
  <2>8. \A x \in Desc : desc[x].state = "gone" => desc'[x] = desc[x]
    BY <1>5, <2>4, <2>5, <2>7
  <2>9. SnoopsPair'
    <3> SUFFICES ASSUME NEW x \in Desc, NEW y \in Desc
                 PROVE  /\ (desc'[x].snooping = y) <=> (desc'[y].snoop_by = x)
                        /\ desc'[x].snooping = y =>
                             desc'[x].state # "gone" /\ desc'[y].state # "gone"
      BY DEF SnoopsPair
    <3>1. /\ (desc[x].snooping = y) <=> (desc[y].snoop_by = x)
          /\ desc[x].snooping = y => desc[x].state # "gone" /\ desc[y].state # "gone"
      BY <1>1 DEF SnoopsPair
    <3>2. /\ desc'[x].snooping = IF x = d THEN None ELSE desc[x].snooping
          /\ desc'[y].snoop_by = IF y = e THEN None ELSE desc[y].snoop_by
          /\ desc'[x].state = desc[x].state /\ desc'[y].state = desc[y].state
      BY <2>4, <2>5, <2>6 DEF SameButSnoops
    <3> QED BY <2>1, <2>7, <3>1, <3>2
  <2> QED BY <2>3, <2>6, <2>8, <2>9, SnoopsOnly
<1>7. ASSUME NEW c \in AnyBody, Snoop(d, b, c)
      PROVE  LoginInv'
  <2>1. PICK e \in Desc : e = body[c].desc
    BY <1>1, <1>7 DEF Snoop, LoginTypeOK, BodyType
  <2>2. PICK old \in Desc \cup {None} : old = desc[d].snooping
    BY <1>3
  <2>3. PICK D : D = IF old = None THEN desc ELSE [desc EXCEPT ![old].snoop_by = None]
    OBVIOUS
  <2>4. PICK E : E = [D EXCEPT ![d].snooping = e]
    OBVIOUS
  <2>5. /\ c # b /\ desc[e].snoop_by = None
        /\ desc' = [E EXCEPT ![e].snoop_by = d] /\ UNCHANGED <<body, table, row, left, phase>>
    BY <1>7, <2>1, <2>2, <2>3, <2>4 DEF Snoop
  <2>6. desc[e].character = c /\ d # e
    BY <1>1, <1>5, <2>1, <2>5 DEF Wired
  <2>7. SnoopBySet(D, desc, old, None)
    <3>1. CASE old = None
      BY <1>2, <2>3, <3>1 DEF SameButSnoops, SnoopBySet
    <3>2. CASE old # None
      BY <1>2, <2>3, <3>2, SetSnoopBy
    <3> QED BY <3>1, <3>2
  <2>8. SnoopingSet(E, D, d, e)
    <3>1. D \in [Desc -> DescType]
      BY <2>7 DEF SnoopBySet, SameButSnoops
    <3> QED BY <2>4, <3>1, SetSnooping
  <2>9. SnoopBySet(desc', E, e, d)
    <3>1. E \in [Desc -> DescType]
      BY <2>8 DEF SnoopingSet, SameButSnoops
    <3> QED BY <2>5, <3>1, SetSnoopBy
  <2> USE DEF SnoopingSet, SnoopBySet
  <2>10. SameButSnoops(desc', desc)
    BY <2>7, <2>8, <2>9 DEF SameButSnoops
  <2>11. /\ desc[e].state # "gone"
         /\ old # None => desc[old].snoop_by = d /\ desc[old].state # "gone"
    BY <1>1, <1>4, <2>2, <2>6 DEF SnoopsPair
  <2>12. \A x \in Desc : desc[x].state = "gone" => desc'[x] = desc[x]
    BY <1>5, <2>7, <2>8, <2>9, <2>11
  <2>13. SnoopsPair'
    <3> SUFFICES ASSUME NEW x \in Desc, NEW y \in Desc
                 PROVE  /\ (desc'[x].snooping = y) <=> (desc'[y].snoop_by = x)
                        /\ desc'[x].snooping = y =>
                             desc'[x].state # "gone" /\ desc'[y].state # "gone"
      BY DEF SnoopsPair
    <3>1. /\ (desc[x].snooping = y) <=> (desc[y].snoop_by = x)
          /\ desc[x].snooping = y => desc[x].state # "gone" /\ desc[y].state # "gone"
      BY <1>1 DEF SnoopsPair
    <3>2. /\ desc'[x].snooping = IF x = d THEN e ELSE desc[x].snooping
          /\ desc'[y].snoop_by =
               IF y = e THEN d ELSE IF y = old THEN None ELSE desc[y].snoop_by
          /\ desc'[x].state = desc[x].state /\ desc'[y].state = desc[y].state
      BY <2>7, <2>8, <2>9, <2>10 DEF SameButSnoops
    <3> QED BY <1>5, <2>2, <2>5, <2>6, <2>11, <3>1, <3>2
  <2> QED BY <2>5, <2>10, <2>12, <2>13, SnoopsOnly
<1> QED BY <1>6, <1>7
(* What BCleaned leaves of a body.                                         *)
LEMMA CleanedBodies ==
  ASSUME LoginInv, NEW ds \in SUBSET Desc
  PROVE  LET C == BCleaned(desc, body, ds) IN
         /\ C \in [AnyBody -> BodyType]
         /\ \A b \in AnyBody :
              \/ C[b] = body[b]
              \/ C[b] = NoBody /\ body[b].st = "copy" /\ body[b].desc \in ds
              \/ /\ C[b].st = body[b].st /\ C[b].id = body[b].id
                 /\ C[b].ver = body[b].ver /\ C[b].desc = None /\ body[b].st # "free"
                 /\ body[b].desc \in ds \cup {None}
         /\ \A b \in AnyBody : C[b].desc = None \/ C[b].desc \notin ds
<1>1. LoginTypeOK /\ Wired
  BY DEF LoginInv
<1> DEFINE gone == {desc[d].character : d \in ds} \ {None}
           originals == {desc[d].original : d \in ds} \ {None}
<1>2. ASSUME NEW b \in AnyBody
      PROVE  /\ b \in gone => body[b].desc \in ds
             /\ b \in originals => body[b].desc = None
             /\ body[b].desc \in ds => b \in gone
             /\ b \in gone \cup originals => body[b].st # "free"
  <2>1. \A d \in ds : desc[d].character = b /\ b # None => body[b].desc = d
    BY <1>1 DEF Wired
  <2>2. \A d \in ds : desc[d].original = b /\ b # None => body[b].desc = None
    BY <1>1 DEF Wired
  <2>3. body[b].desc \in ds => desc[body[b].desc].character = b /\ b # None
    BY <1>1 DEF Wired
  <2>4. \A d \in ds : b # None /\ (desc[d].character = b \/ desc[d].original = b) =>
          body[b].st # "free"
    BY <1>1 DEF Wired
  <2> QED BY <2>1, <2>2, <2>3, <2>4
<1>3. ASSUME NEW b \in AnyBody
      PROVE  LET x == [body[b] EXCEPT !.desc = None] IN
             /\ x \in BodyType /\ x.desc = None /\ x.st = body[b].st
             /\ x.id = body[b].id /\ x.ver = body[b].ver
  BY <1>1 DEF LoginTypeOK, BodyType
<1>4. NoBody \in BodyType /\ NoBody.desc = None
  BY DEF BodyType
<1>5. BCleaned(desc, body, ds) =
        [b \in AnyBody |-> IF b \in gone /\ body[b].st = "copy" THEN NoBody
                           ELSE IF b \in gone \cup originals
                                THEN [body[b] EXCEPT !.desc = None] ELSE body[b]]
  BY DEF BCleaned
<1>6. \A b \in AnyBody : body[b] \in BodyType
  BY <1>1 DEF LoginTypeOK
<1> HIDE DEF gone, originals, NoBody, AnyBody
<1> QED BY <1>2, <1>3, <1>4, <1>5, <1>6

(* Descriptors are cleaned up, one or all that are closing.                *)
LEMMA Cleaned ==
  ASSUME LoginInv, NEW ds \in SUBSET Desc,
         desc' \in [Desc -> DescType],
         \A d \in ds : desc'[d] = NoDesc,
         \A d \in Desc \ ds :
           /\ desc'[d].state = desc[d].state
           /\ desc'[d].character = desc[d].character
           /\ desc'[d].original = desc[d].original
           /\ desc'[d].snooping = IF desc[d].snooping \in ds THEN None ELSE desc[d].snooping
           /\ desc'[d].snoop_by = IF desc[d].snoop_by \in ds THEN None ELSE desc[d].snoop_by
           /\ desc[d] = NoDesc => desc'[d] = desc[d],
         body' = BCleaned(desc, body, ds), phase = "pulse",
         phase' = "pulse" \/ (phase' = "heart" /\ Closing \subseteq ds),
         UNCHANGED <<table, row, left>>
  PROVE  LoginInv'
<1>1. LoginTypeOK /\ Wired /\ OneBody /\ SnoopsPair /\ StatesOK /\ BodiesOK /\ KeptOK
  BY DEF LoginInv
<1>2. /\ body' \in [AnyBody -> BodyType]
      /\ \A b \in AnyBody :
           \/ body'[b] = body[b]
           \/ body'[b] = NoBody /\ body[b].st = "copy" /\ body[b].desc \in ds
           \/ /\ body'[b].st = body[b].st /\ body'[b].id = body[b].id
              /\ body'[b].ver = body[b].ver /\ body'[b].desc = None
              /\ body[b].st # "free" /\ body[b].desc \in ds \cup {None}
      /\ \A b \in AnyBody : body'[b].desc = None \/ body'[b].desc \notin ds
  <2> HIDE DEF NoBody, NoDesc, AnyBody
  <2> QED BY CleanedBodies
<1>3. ASSUME NEW d \in Desc \ ds, desc[d].character # None
      PROVE  /\ desc[d].character \in AnyBody
             /\ body'[desc[d].character] = body[desc[d].character]
  <2>1. desc[d].character \in AnyBody /\ body[desc[d].character].desc = d
    BY <1>1, <1>3 DEF LoginTypeOK, DescType, Wired
  <2>2. d \notin ds \cup {None}
    OBVIOUS
  <2> QED BY <1>2, <2>1, <2>2
<1>4. ASSUME NEW d \in Desc \ ds, desc[d].original # None
      PROVE  LET o == desc[d].original IN
             /\ o \in Body /\ body'[o].st = "in" /\ body'[o].desc = None
             /\ body'[o].id = body[o].id
  <2>1. /\ desc[d].original \in Body /\ body[desc[d].original].desc = None
        /\ body[desc[d].original].st = "in"
    BY <1>1, <1>4 DEF LoginTypeOK, DescType, Wired
  <2> QED BY <1>2, <2>1
<1>5. LoginTypeOK'
  BY <1>1, <1>2 DEF LoginTypeOK
<1>6. Wired'
  <2>1. ASSUME NEW d \in Desc
        PROVE  /\ desc'[d].character # None =>
                    /\ body'[desc'[d].character].st # "free"
                    /\ body'[desc'[d].character].desc = d
               /\ desc'[d].original # None =>
                    /\ body'[desc'[d].original].st = "in"
                    /\ body'[desc'[d].original].desc = None
                    /\ desc'[d].character = Mob
               /\ desc'[d].state = "playing" =>
                    desc'[d].character # None /\ body'[desc'[d].character].st = "in"
    <3>1. CASE d \in ds
      BY <3>1
    <3>2. CASE d \notin ds
      BY <1>1, <1>3, <1>4, <3>2 DEF Wired
    <3> QED BY <3>1, <3>2
  <2>2. ASSUME NEW b \in AnyBody, body'[b].desc # None
        PROVE  desc'[body'[b].desc].character = b
    <3>1. body'[b].desc = body[b].desc /\ body'[b].desc \in Desc \ ds
      BY <1>2, <2>2 DEF BodyType
    <3>2. desc[body[b].desc].character = b
      BY <1>1, <2>2, <3>1 DEF Wired
    <3> QED BY <3>1, <3>2
  <2> QED BY <2>1, <2>2 DEF Wired
<1>7. \A b \in Body : body'[b].st = "in" =>
        body[b].st = "in" /\ body'[b].id = body[b].id /\ body'[b].ver = body[b].ver
  BY <1>2
<1>8. OneBody'
  BY <1>1, <1>7 DEF OneBody
<1>9. SnoopsPair'
  <2> SUFFICES ASSUME NEW x \in Desc, NEW y \in Desc
               PROVE  /\ (desc'[x].snooping = y) <=> (desc'[y].snoop_by = x)
                      /\ desc'[x].snooping = y =>
                           desc'[x].state # "gone" /\ desc'[y].state # "gone"
    BY DEF SnoopsPair
  <2>1. /\ (desc[x].snooping = y) <=> (desc[y].snoop_by = x)
        /\ desc[x].snooping = y => desc[x].state # "gone" /\ desc[y].state # "gone"
    BY <1>1 DEF SnoopsPair
  <2>2. /\ x \in ds => desc'[x].snooping = None
        /\ y \in ds => desc'[y].snoop_by = None
    OBVIOUS
  <2> QED BY <2>1, <2>2
<1>10. StatesOK'
  <2> SUFFICES ASSUME NEW d \in Desc PROVE StateOK(d)'
    BY DEF StatesOK
  <2>1. CASE d \in ds
    BY <2>1 DEF StateOK
  <2>2. CASE d \notin ds
    <3>1. StateOK(d)
      BY <1>1 DEF StatesOK
    <3>2. phase' = "heart" /\ desc[d].character # None =>
            body'[desc[d].character].st # "purged"
      <4>1. phase' = "heart" => desc[d].state \in States \ Sent
        BY <1>1, <2>2 DEF Closing, LoginTypeOK, DescType
      <4> QED BY <1>1, <1>3, <2>2, <3>1, <4>1 DEF StateOK, States, Wired
    <3> HIDE DEF NoDesc, AnyBody
    <3> QED BY <1>3, <1>4, <2>2, <3>1, <3>2 DEF StateOK
  <2> QED BY <2>1, <2>2
<1>11. BodiesOK'
  <2>1. \A b \in AnyBody : body'[b].st = "free" => body'[b] = NoBody
    <3> SUFFICES ASSUME NEW b \in AnyBody, body'[b].st = "free" PROVE body'[b] = NoBody
      OBVIOUS
    <3>1. body[b].st = "free" => body[b] = NoBody
      BY <1>1 DEF BodiesOK
    <3> HIDE DEF NoBody
    <3> QED BY <1>2, <3>1
  <2>2. body'[Mob].id = None /\ body'[Mob].st # "copy"
    BY <1>1, <1>2 DEF BodiesOK
  <2>3. \A b \in Body : /\ body'[b].st = "in" => body'[b].id # None
                        /\ body'[b].id # None => body'[b].id = body[b].id
    BY <1>1, <1>2 DEF BodiesOK
  <2> QED BY <1>1, <2>1, <2>2, <2>3 DEF BodiesOK
<1>12. KeptOK'
  <2>1. ASSUME NEW d \in Desc, desc'[d].state = "password"
        PROVE  body'[desc'[d].character].ver >= left[body'[desc'[d].character].id]
    <3>1. d \notin ds /\ desc[d].state = "password" /\ desc[d].character # None
      BY <1>1, <2>1 DEF StatesOK, StateOK
    <3> QED BY <1>1, <1>3, <3>1 DEF KeptOK
  <2> QED BY <1>1, <1>7, <2>1 DEF KeptOK
<1> QED BY <1>5, <1>6, <1>8, <1>9, <1>10, <1>11, <1>12 DEF LoginInv

(* The kick-out loop and onDescriptorClose.                                *)
LEMMA CleanedSteps ==
  ASSUME LoginInv, Kick \/ \E d \in Desc : Lost(d)
  PROVE  LoginInv'
<1>1. desc \in [Desc -> DescType] /\ \A d \in Desc : desc[d] \in DescType
  BY DEF LoginInv, LoginTypeOK
<1>2. NoDesc \in DescType
  BY DEF DescType, States
<1>3. CASE Kick
  <2> DEFINE F(d) == [desc[d] EXCEPT !.snooping = IF @ \in Closing THEN None ELSE @,
                                     !.snoop_by = IF @ \in Closing THEN None ELSE @]
  <2>1. ASSUME NEW d \in Desc
        PROVE  /\ F(d) \in DescType
               /\ F(d).state = desc[d].state /\ F(d).web = desc[d].web
               /\ F(d).character = desc[d].character
               /\ F(d).original = desc[d].original
               /\ F(d).loggedIn = desc[d].loggedIn
               /\ F(d).snooping = IF desc[d].snooping \in Closing
                                  THEN None ELSE desc[d].snooping
               /\ F(d).snoop_by = IF desc[d].snoop_by \in Closing
                                  THEN None ELSE desc[d].snoop_by
    <3> HIDE DEF AnyBody
    <3>1. desc[d] \in DescType
      BY <1>1
    <3> QED BY <3>1 DEF DescType
  <2>2. ASSUME NEW d \in Desc, desc[d] = NoDesc
        PROVE  F(d) = desc[d]
    <3>1. /\ desc[d].snooping = None /\ desc[d].snoop_by = None
          /\ None \notin Closing
      BY <2>2 DEF Closing
    <3>2. /\ F(d) \in DescType /\ desc[d] \in DescType
          /\ F(d).state = desc[d].state /\ F(d).web = desc[d].web
          /\ F(d).character = desc[d].character /\ F(d).original = desc[d].original
          /\ F(d).loggedIn = desc[d].loggedIn
          /\ F(d).snooping = desc[d].snooping /\ F(d).snoop_by = desc[d].snoop_by
      BY <1>1, <2>1, <3>1
    <3> HIDE DEF F
    <3> QED BY <3>2 DEF DescType
  <2>3. desc' = [d \in Desc |-> IF d \in Closing THEN NoDesc ELSE F(d)]
    BY <1>3 DEF Kick
  <2> HIDE DEF F
  <2>4. /\ desc' \in [Desc -> DescType]
        /\ \A d \in Closing : desc'[d] = NoDesc
        /\ \A d \in Desc \ Closing : desc'[d] = F(d)
    <3>1. Closing \subseteq Desc
      BY DEF Closing
    <3> HIDE DEF NoDesc
    <3> QED BY <1>2, <2>1, <2>3, <3>1
  <2>5. /\ body' = BCleaned(desc, body, Closing) /\ phase = "pulse" /\ phase' = "heart"
        /\ UNCHANGED <<table, row, left>> /\ Closing \in SUBSET Desc
    BY <1>3 DEF Kick, Closing
  <2>6. \A d \in Desc \ Closing :
           /\ desc'[d].state = desc[d].state
           /\ desc'[d].character = desc[d].character
           /\ desc'[d].original = desc[d].original
           /\ desc'[d].snooping = IF desc[d].snooping \in Closing
                                  THEN None ELSE desc[d].snooping
           /\ desc'[d].snoop_by = IF desc[d].snoop_by \in Closing
                                  THEN None ELSE desc[d].snoop_by
           /\ desc[d] = NoDesc => desc'[d] = desc[d]
    BY <2>1, <2>2, <2>4
  <2> QED BY <2>4, <2>5, <2>6, Cleaned
<1>4. ASSUME NEW d \in Desc, Lost(d)
      PROVE  LoginInv'
  <2>1. PICK D : D = ForgetSnoops(desc, d)
    OBVIOUS
  <2>2. /\ D \in [Desc -> DescType]
        /\ \A e \in Desc :
             /\ D[e].state = desc[e].state
             /\ D[e].character = desc[e].character /\ D[e].original = desc[e].original
             /\ D[e].snooping = IF desc[e].snooping = d \/ e = d
                                THEN None ELSE desc[e].snooping
             /\ D[e].snoop_by = IF desc[e].snoop_by = d \/ e = d
                                THEN None ELSE desc[e].snoop_by
             /\ desc[e] = NoDesc => D[e] = desc[e]
    <3>1. Forgotten(D, desc, d)
      BY <1>1, <2>1, ForgetFacts
    <3> QED BY <3>1 DEF Forgotten
  <2>3. /\ desc' = [D EXCEPT ![d] = NoDesc] /\ body' = BCleaned(desc, body, {d})
        /\ phase = "pulse" /\ UNCHANGED <<table, row, left, phase>>
    BY <1>4, <2>1 DEF Lost, DCleaned
  <2>4. /\ desc' \in [Desc -> DescType] /\ desc'[d] = NoDesc
        /\ \A e \in Desc \ {d} : desc'[e] = D[e]
    <3> HIDE DEF NoDesc
    <3> QED BY <1>2, <2>2, <2>3
  <2>5. \A e \in Desc \ {d} :
           /\ desc'[e].state = desc[e].state
           /\ desc'[e].character = desc[e].character
           /\ desc'[e].original = desc[e].original
           /\ desc'[e].snooping = IF desc[e].snooping \in {d}
                                  THEN None ELSE desc[e].snooping
           /\ desc'[e].snoop_by = IF desc[e].snoop_by \in {d}
                                  THEN None ELSE desc[e].snoop_by
           /\ desc[e] = NoDesc => desc'[e] = desc[e]
    BY <2>2, <2>4
  <2>6. {d} \in SUBSET Desc /\ \A e \in {d} : desc'[e] = NoDesc
    BY <2>4
  <2> QED BY <2>3, <2>4, <2>5, <2>6, Cleaned
<1> QED BY <1>3, <1>4
(* A character leaves the world: who played it is sent away, and so are    *)
(* the player's dialogues that would bring in something older.             *)
LEMMA Leaving ==
  ASSUME LoginInv, NEW b \in Body, body[b].st = "in",
         \A e \in Desc : desc[e].original # b,
         desc' \in [Desc -> DescType], SnoopsPair',
         \A e \in Desc :
           /\ desc'[e].state = desc[e].state \/ desc'[e].state \in Sent
           /\ desc'[e].original = desc[e].original
           /\ \/ desc'[e].character = desc[e].character
              \/ desc[e].character = b /\ desc'[e].character = None
           /\ desc[e].character = b => desc'[e].state \in Sent
           /\ desc'[e].character = b => phase # "heart"
           /\ desc[e].state = "gone" => desc'[e] = desc[e],
         body' \in [AnyBody -> BodyType],
         body'[b].st = "purged", body'[b].id = body[b].id,
         \/ body'[b].desc = body[b].desc /\ \A e \in Desc : desc'[e].character = desc[e].character
         \/ body'[b].desc = None /\ \A e \in Desc : desc'[e].character # b,
         \A x \in AnyBody \ {b} : body'[x] = body[x],
         row' = [row EXCEPT ![body[b].id] = body[b].ver],
         \/ left' = left
         \/ /\ left' = [left EXCEPT ![body[b].id] = body[b].ver]
            /\ \A e \in Desc : desc'[e].state = "password" =>
                 body[desc'[e].character].id # body[b].id,
         UNCHANGED <<table, phase>>
  PROVE  LoginInv'
<1>1. LoginTypeOK /\ Wired /\ OneBody /\ SnoopsPair /\ StatesOK /\ BodiesOK /\ KeptOK
  BY DEF LoginInv
<1>2. PICK i \in Ids : i = body[b].id /\ \E e \in table : e.id = i
  BY <1>1 DEF LoginTypeOK, BodyType, BodiesOK
<1>3. body[b].ver \in Nat /\ body[b].ver >= left[i]
  BY <1>1, <1>2 DEF LoginTypeOK, BodyType, KeptOK
<1>4. LoginTypeOK'
  BY <1>1, <1>2, <1>3 DEF LoginTypeOK
<1>5. \A x \in AnyBody : body'[x].st # "free" <=> body[x].st # "free"
  OBVIOUS
<1>6. \A e \in Desc : /\ desc[e].character \in AnyBody \cup {None}
                      /\ desc[e].original \in Body \cup {None}
  BY <1>1 DEF LoginTypeOK, DescType
<1>7. Wired'
  <2>1. ASSUME NEW e \in Desc
        PROVE  /\ desc'[e].character # None =>
                    /\ body'[desc'[e].character].st # "free"
                    /\ body'[desc'[e].character].desc = e
               /\ desc'[e].original # None =>
                    /\ body'[desc'[e].original].st = "in"
                    /\ body'[desc'[e].original].desc = None
                    /\ desc'[e].character = Mob
               /\ desc'[e].state = "playing" =>
                    desc'[e].character # None /\ body'[desc'[e].character].st = "in"
    <3>1. /\ desc[e].character # None => body[desc[e].character].st # "free"
                                         /\ body[desc[e].character].desc = e
          /\ desc[e].original # None => /\ body[desc[e].original].st = "in"
                                        /\ body[desc[e].original].desc = None
                                        /\ desc[e].character = Mob
          /\ desc[e].state = "playing" =>
               desc[e].character # None /\ body[desc[e].character].st = "in"
      BY <1>1 DEF Wired
    <3>2. CASE desc[e].character = b
      <4>1. desc[e].original = None /\ desc'[e].state \in Sent
        BY <3>1, <3>2
      <4> QED BY <3>1, <3>2, <4>1
    <3>3. CASE desc[e].character # b
      BY <1>6, <3>1, <3>3
    <3> QED BY <3>2, <3>3
  <2>2. ASSUME NEW x \in AnyBody, body'[x].desc # None
        PROVE  desc'[body'[x].desc].character = x
    <3>1. body[x].desc = body'[x].desc /\ body[x].desc \in Desc
      BY <1>1, <2>2 DEF LoginTypeOK, BodyType
    <3>2. desc[body[x].desc].character = x
      BY <1>1, <2>2, <3>1 DEF Wired
    <3> QED BY <2>2, <3>1, <3>2
  <2> QED BY <2>1, <2>2 DEF Wired
<1>8. \A x \in Body : body'[x].st = "in" => x # b /\ body'[x] = body[x]
  OBVIOUS
<1>9. OneBody'
  BY <1>1, <1>8 DEF OneBody
<1>10. StatesOK'
  <2> SUFFICES ASSUME NEW e \in Desc PROVE StateOK(e)'
    BY DEF StatesOK
  <2>1. StateOK(e)
    BY <1>1 DEF StatesOK
  <2>2. CASE desc[e].character = b
    <3>1. desc[e].original = None
      BY <1>1, <2>2 DEF Wired
    <3> QED BY <2>2, <3>1 DEF StateOK
  <2>3. CASE desc[e].character # b
    <3>1. desc[e].character # None => body'[desc[e].character] = body[desc[e].character]
      BY <1>6, <2>3
    <3>2. desc[e].original # None => body'[desc[e].original] = body[desc[e].original]
      BY <1>6
    <3> HIDE DEF NoDesc
    <3> QED BY <2>1, <2>3, <3>1, <3>2 DEF StateOK
  <2> QED BY <2>2, <2>3
<1>11. BodiesOK'
  BY <1>1 DEF BodiesOK
<1>12. KeptOK'
  <2>1. \A j \in Ids : row'[j] >= left'[j]
    BY <1>1, <1>2, <1>3 DEF LoginTypeOK, KeptOK
  <2>2. \A j \in Ids : (\A e \in table' : e.id # j) => left'[j] = 0
    BY <1>1, <1>2 DEF LoginTypeOK, KeptOK
  <2>3. \A x \in Body : body'[x].st = "in" => body'[x].ver >= left'[body'[x].id]
    <3> SUFFICES ASSUME NEW x \in Body, body'[x].st = "in"
                 PROVE  body'[x].ver >= left'[body'[x].id]
      OBVIOUS
    <3>1. x # b /\ body'[x] = body[x] /\ body[x].id # i /\ body[x].id \in Ids
      BY <1>1, <1>2, <1>8 DEF OneBody, BodiesOK, LoginTypeOK, BodyType
    <3> QED BY <1>1, <1>2, <3>1 DEF KeptOK, LoginTypeOK
  <2>4. ASSUME NEW e \in Desc, desc'[e].state = "password"
        PROVE  body'[desc'[e].character].ver >= left'[body'[desc'[e].character].id]
    <3>1. desc[e].state = "password" /\ desc[e].character # b
      BY <2>4
    <3>2. PICK c \in Body : c = desc[e].character /\ c # b /\ body[c].id # None
      BY <1>1, <1>6, <3>1 DEF StatesOK, StateOK, BodiesOK
    <3>3. /\ desc'[e].character = c /\ body'[c] = body[c] /\ body[c].id \in Ids
          /\ body[c].ver >= left[body[c].id]
      BY <1>1, <3>1, <3>2 DEF KeptOK, LoginTypeOK, BodyType
    <3>4. left' = left \/ (left' = [left EXCEPT ![i] = body[b].ver] /\ body[c].id # i)
      BY <1>2, <2>4, <3>3
    <3> QED BY <1>1, <1>2, <3>3, <3>4 DEF LoginTypeOK
  <2> QED BY <2>1, <2>2, <2>3, <2>4 DEF KeptOK
<1> QED BY <1>4, <1>7, <1>9, <1>10, <1>11, <1>12 DEF LoginInv

(* SendAway, and a descriptor that is told to go or lets go of its         *)
(* character: what the new array has.                                      *)
Gone(E, D, ds, s) ==
  /\ E \in [Desc -> DescType]
  /\ \A e \in Desc :
       /\ e \in ds => E[e].state = s
       /\ e \notin ds => E[e] = D[e]
       /\ E[e].original = D[e].original
       /\ E[e].snooping = D[e].snooping /\ E[e].snoop_by = D[e].snoop_by

Told(E, D, ds, s) ==
  Gone(E, D, ds, s) /\ \A e \in Desc : E[e].character = D[e].character
LetGo(E, D, d, s) == Gone(E, D, {d}, s) /\ E[d].character = None

(* SendAway tells the player's other descriptors to go.                    *)
LEMMA Sending ==
  ASSUME NEW D, D \in [Desc -> DescType], NEW B, NEW i, NEW d
  PROVE  Told(SendAway(D, B, i, d), D,
              {e \in Desc : e # d /\ Controls(e, D, i, B)}, "disconnect")
<1> DEFINE F(e) == [D[e] EXCEPT !.state = "disconnect"]
<1>1. ASSUME NEW e \in Desc
      PROVE  /\ F(e) \in DescType /\ F(e).state = "disconnect"
             /\ F(e).character = D[e].character /\ F(e).original = D[e].original
             /\ F(e).snooping = D[e].snooping /\ F(e).snoop_by = D[e].snoop_by
  <2> HIDE DEF AnyBody
  <2>1. D[e] \in DescType
    OBVIOUS
  <2> QED BY <2>1 DEF DescType, States
<1>2. SendAway(D, B, i, d) =
        [e \in Desc |-> IF e # d /\ Controls(e, D, i, B) THEN F(e) ELSE D[e]]
  BY DEF SendAway
<1>3. \A e \in Desc : D[e] \in DescType
  OBVIOUS
<1> HIDE DEF F
<1> QED BY <1>1, <1>2, <1>3 DEF Gone, Told

(* check_idling and do_purge let go of the descriptor they close.          *)
LEMMA LettingGo ==
  ASSUME NEW D, D \in [Desc -> DescType], NEW d \in Desc, NEW s \in Sent, NEW E,
         E = [D EXCEPT ![d].state = s, ![d].character = None]
  PROVE  LetGo(E, D, d, s)
<1> DEFINE r == [D[d] EXCEPT !.state = s, !.character = None]
<1> HIDE DEF AnyBody
<1>1. /\ r \in DescType /\ r.state = s /\ r.character = None
      /\ r.original = D[d].original
      /\ r.snooping = D[d].snooping /\ r.snoop_by = D[d].snoop_by
  <2>1. D[d] \in DescType /\ s \in States
    BY DEF States
  <2> QED BY <2>1 DEF DescType
<1>2. E = [D EXCEPT ![d] = r]
  OBVIOUS
<1>3. /\ E[d] = r /\ \A e \in Desc \ {d} : E[e] = D[e]
  BY <1>2
<1> HIDE DEF r, Sent
<1>4. E \in [Desc -> DescType]
  BY <1>1, <1>2
<1> QED BY <1>1, <1>3, <1>4 DEF Gone, LetGo

(* Extract closes the descriptor of the body.                              *)
LEMMA ToldToClose ==
  ASSUME NEW D, D \in [Desc -> DescType], NEW d \in Desc, NEW E,
         E = [D EXCEPT ![d].state = "close"]
  PROVE  Told(E, D, {d}, "close")
<1> DEFINE r == [D[d] EXCEPT !.state = "close"]
<1> HIDE DEF AnyBody
<1>1. /\ r \in DescType /\ r.state = "close" /\ r.character = D[d].character
      /\ r.original = D[d].original
      /\ r.snooping = D[d].snooping /\ r.snoop_by = D[d].snoop_by
  <2>1. D[d] \in DescType
    OBVIOUS
  <2> QED BY <2>1 DEF DescType, States
<1>2. E = [D EXCEPT ![d] = r]
  OBVIOUS
<1> HIDE DEF r
<1> QED BY <1>1, <1>2 DEF Gone, Told

(* quit, rent, idling and purging.                                         *)
LEMMA LeavingSteps ==
  ASSUME LoginInv, NEW d, NEW b \in Body,
         Idle(b) \/ (d \in Desc /\ (Quit(d, b) \/ Purge(d, b)))
  PROVE  LoginInv'
<1>1. LoginTypeOK /\ Wired /\ OneBody /\ SnoopsPair /\ StatesOK /\ BodiesOK /\ KeptOK
  BY DEF LoginInv
<1>2. desc \in [Desc -> DescType] /\ \A e \in Desc : desc[e] \in DescType
  BY <1>1 DEF LoginTypeOK
<1>3. body[b].st = "in" /\ b # Mob /\ body[b].desc \in Desc \cup {None}
  BY <1>1 DEF Quit, Idle, Purge, Plays, LoginTypeOK, BodyType
<1>4. \A e \in Desc : desc[e].state = "gone" => desc[e] = NoDesc
  BY <1>1 DEF StatesOK, StateOK
<1>5. \A e \in Desc : desc[e].character = b => body[b].desc = e
  BY <1>1 DEF Wired
<1>6. CASE d \in Desc /\ Quit(d, b)
  <2>0. d \in Desc
    BY <1>6
  <2> USE <2>0
  <2>1. /\ desc[d].state = "playing" /\ desc[d].character = b /\ body[b].desc = d
        /\ phase = "input" /\ UNCHANGED <<table, phase>>
        /\ left' = [left EXCEPT ![body[b].id] = body[b].ver]
    BY <1>6 DEF Quit, Plays, Says, Leaves
  <2>2. PICK S : S = SendAway(desc, body, body[b].id, d)
    OBVIOUS
  <2>3. Told(S, desc, {e \in Desc : e # d /\ Controls(e, desc, body[b].id, body)},
             "disconnect")
    BY <1>2, <2>2, Sending
  <2> USE DEF Told
  <2>4. PICK F : F = ForgetSnoops(S, d)
    OBVIOUS
  <2>5. Forgotten(F, S, d)
    BY <2>3, <2>4, ForgetFacts DEF Gone
  <2>6. /\ desc' = [F EXCEPT ![d].state = "close"]
        /\ body' = [body EXCEPT ![b].st = "purged"]
        /\ row' = [row EXCEPT ![body[b].id] = body[b].ver]
    <3>1. Extract(S, body, b) /\ body[b].desc # None
      BY <1>6, <2>1, <2>2 DEF Quit
    <3> QED BY <2>1, <2>4, <3>1 DEF Extract, DExtracted, BExtracted
  <2>7. Told(desc', F, {d}, "close")
    <3>1. F \in [Desc -> DescType]
      BY <2>5 DEF Forgotten
    <3> HIDE DEF Told
    <3> QED BY <2>6, <3>1, ToldToClose
  <2>8. \A e \in Desc :
          /\ desc'[e].state = desc[e].state \/ desc'[e].state \in Sent
          /\ desc'[e].original = desc[e].original
          /\ desc'[e].character = desc[e].character
          /\ desc[e].character = b => desc'[e].state \in Sent
          /\ desc'[e].snooping = IF desc[e].snooping = d \/ e = d
                                 THEN None ELSE desc[e].snooping
          /\ desc'[e].snoop_by = IF desc[e].snoop_by = d \/ e = d
                                 THEN None ELSE desc[e].snoop_by
          /\ desc'[e].state = "password" =>
               (desc[e].character # None => body[desc'[e].character].id # body[b].id)
    <3> SUFFICES ASSUME NEW e \in Desc
                 PROVE  /\ desc'[e].state = desc[e].state \/ desc'[e].state \in Sent
                        /\ desc'[e].original = desc[e].original
                        /\ desc'[e].character = desc[e].character
                        /\ desc[e].character = b => desc'[e].state \in Sent
                        /\ desc'[e].snooping = IF desc[e].snooping = d \/ e = d
                                               THEN None ELSE desc[e].snooping
                        /\ desc'[e].snoop_by = IF desc[e].snoop_by = d \/ e = d
                                               THEN None ELSE desc[e].snoop_by
                        /\ desc'[e].state = "password" =>
                             (desc[e].character # None =>
                               body[desc'[e].character].id # body[b].id)
      OBVIOUS
    <3>1. /\ S[e].state = desc[e].state \/ S[e].state = "disconnect"
          /\ S[e].original = desc[e].original /\ S[e].character = desc[e].character
          /\ S[e].snooping = desc[e].snooping /\ S[e].snoop_by = desc[e].snoop_by
          /\ e # d /\ desc[e].character # None /\ body[desc[e].character].id = body[b].id
               => S[e].state = "disconnect"
      BY <2>3 DEF Gone, Controls
    <3>2. /\ F[e].state = S[e].state
          /\ F[e].original = S[e].original /\ F[e].character = S[e].character
          /\ F[e].snooping = IF S[e].snooping = d \/ e = d THEN None ELSE S[e].snooping
          /\ F[e].snoop_by = IF S[e].snoop_by = d \/ e = d THEN None ELSE S[e].snoop_by
      BY <2>5 DEF Forgotten
    <3>3. /\ desc'[e].state = IF e = d THEN "close" ELSE F[e].state
          /\ desc'[e].original = F[e].original /\ desc'[e].character = F[e].character
          /\ desc'[e].snooping = F[e].snooping /\ desc'[e].snoop_by = F[e].snoop_by
      BY <2>7 DEF Gone
    <3>4. desc[e].character = b => e = d
      BY <1>5, <2>1
    <3> QED BY <3>1, <3>2, <3>3, <3>4
  <2>9. ASSUME NEW e \in Desc, desc[e].state = "gone"
        PROVE  desc'[e] = desc[e]
    <3>1. desc[e] = NoDesc /\ e # d
      BY <1>4, <2>1, <2>9
    <3>2. S[e] = desc[e]
      BY <2>3, <3>1 DEF Gone, Controls
    <3>3. F[e] = S[e]
      BY <2>5, <3>1, <3>2 DEF Forgotten
    <3> QED BY <2>7, <3>1, <3>2, <3>3 DEF Gone
  <2>10. SnoopsPair'
    <3> SUFFICES ASSUME NEW x \in Desc, NEW y \in Desc
                 PROVE  /\ (desc'[x].snooping = y) <=> (desc'[y].snoop_by = x)
                        /\ desc'[x].snooping = y =>
                             desc'[x].state # "gone" /\ desc'[y].state # "gone"
      BY DEF SnoopsPair
    <3>1. /\ (desc[x].snooping = y) <=> (desc[y].snoop_by = x)
          /\ desc[x].snooping = y => desc[x].state # "gone" /\ desc[y].state # "gone"
      BY <1>1 DEF SnoopsPair
    <3> QED BY <2>8, <3>1
  <2>11. /\ body' \in [AnyBody -> BodyType]
         /\ body'[b].st = "purged" /\ body'[b].id = body[b].id
         /\ body'[b].desc = body[b].desc
         /\ \A x \in AnyBody \ {b} : body'[x] = body[x]
    BY <1>1, <2>6 DEF LoginTypeOK, BodyType
  <2>12. \A e \in Desc : desc[e].original # b
    BY <1>1, <2>1 DEF Wired
  <2>13. \A e \in Desc : desc'[e].state = "password" =>
           body[desc'[e].character].id # body[b].id
    BY <1>1, <2>8 DEF StatesOK, StateOK
  <2>14. /\ desc' \in [Desc -> DescType] /\ phase # "heart"
    BY <2>1, <2>7 DEF Gone
  <2>15. \A x \in Desc :
           /\ desc'[x].state = desc[x].state \/ desc'[x].state \in Sent
           /\ desc'[x].original = desc[x].original
           /\ \/ desc'[x].character = desc[x].character
              \/ desc[x].character = b /\ desc'[x].character = None
           /\ desc[x].character = b => desc'[x].state \in Sent
           /\ desc'[x].character = b => phase # "heart"
           /\ desc[x].state = "gone" => desc'[x] = desc[x]
    BY <2>8, <2>9, <2>14
  <2>16. \/ /\ body'[b].desc = body[b].desc
            /\ \A x \in Desc : desc'[x].character = desc[x].character
         \/ body'[b].desc = None /\ \A x \in Desc : desc'[x].character # b
    BY <2>8, <2>11
  <2>17. \/ left' = left
         \/ /\ left' = [left EXCEPT ![body[b].id] = body[b].ver]
            /\ \A x \in Desc : desc'[x].state = "password" =>
                 body[desc'[x].character].id # body[b].id
    BY <2>1, <2>13
  <2>18. row' = [row EXCEPT ![body[b].id] = body[b].ver] /\ UNCHANGED <<table, phase>>
    BY <2>1, <2>6
  <2>19. /\ body' \in [AnyBody -> BodyType]
         /\ body'[b].st = "purged" /\ body'[b].id = body[b].id
         /\ \A x \in AnyBody \ {b} : body'[x] = body[x]
    BY <2>11
  <2> HIDE DEF Sent, AnyBody
  <2> QED
    BY <1>3, <2>10, <2>12, <2>14, <2>15, <2>16, <2>17, <2>18, <2>19, Leaving
<1>7. CASE Idle(b) \/ (d \in Desc /\ Purge(d, b))
  <2>1. /\ body[b].id \notin Immortals /\ UNCHANGED <<table, phase>>
    BY <1>7 DEF Idle, Purge
  <2>2. \A e \in Desc : desc[e].original # b
    BY <1>1, <2>1 DEF StatesOK, StateOK
  <2>3. PICK e \in Desc \cup {None} : e = body[b].desc
    BY <1>3
  <2>4. PICK B : B = [body EXCEPT ![b].desc = None]
    OBVIOUS
  <2>5. B[b].desc = None
    BY <1>1, <2>4 DEF LoginTypeOK, BodyType
  <2> DEFINE Lets(D, s) ==
               D = IF e = None THEN desc
                   ELSE [desc EXCEPT ![e].state = s, ![e].character = None]
  <2>6. \E s \in Sent : \E D :
          /\ Lets(D, s)
          /\ \/ Idle(b) /\ Extract(SendAway(D, B, body[b].id, None), B, b)
                /\ left' = [left EXCEPT ![body[b].id] = body[b].ver]
             \/ Purge(d, b) /\ Extract(D, B, b) /\ left' = left
    <3>1. CASE Idle(b)
      <4>1. PICK D : Lets(D, "disconnect")
        OBVIOUS
      <4>2. Extract(SendAway(D, B, body[b].id, None), B, b)
        BY <2>3, <2>4, <3>1, <4>1 DEF Idle
      <4>3. left' = [left EXCEPT ![body[b].id] = body[b].ver]
        BY <3>1 DEF Idle, Leaves
      <4> HIDE DEF Lets
      <4> QED BY <3>1, <4>1, <4>2, <4>3
    <3>2. CASE Purge(d, b)
      <4>1. PICK D : Lets(D, "close")
        OBVIOUS
      <4>2. Extract(D, B, b)
        BY <2>3, <2>4, <3>2, <4>1 DEF Purge
      <4>3. left' = left
        BY <3>2 DEF Purge
      <4> HIDE DEF Lets
      <4> QED BY <3>2, <4>1, <4>2, <4>3
    <3> HIDE DEF Lets
    <3> QED BY <1>7, <3>1, <3>2
  <2> HIDE DEF Lets
  <2>7. PICK s \in Sent : \E D :
          /\ Lets(D, s)
          /\ \/ Idle(b) /\ Extract(SendAway(D, B, body[b].id, None), B, b)
                /\ left' = [left EXCEPT ![body[b].id] = body[b].ver]
             \/ Purge(d, b) /\ Extract(D, B, b) /\ left' = left
    BY <2>6
  <2>8. PICK D :
          /\ Lets(D, s)
          /\ \/ Idle(b) /\ Extract(SendAway(D, B, body[b].id, None), B, b)
                /\ left' = [left EXCEPT ![body[b].id] = body[b].ver]
             \/ Purge(d, b) /\ Extract(D, B, b) /\ left' = left
    BY <2>7
  <2>9. /\ D \in [Desc -> DescType]
        /\ \A x \in Desc :
             /\ IF x = e THEN D[x].state = s /\ D[x].character = None ELSE D[x] = desc[x]
             /\ D[x].original = desc[x].original
             /\ D[x].snooping = desc[x].snooping /\ D[x].snoop_by = desc[x].snoop_by
    <3>1. CASE e = None
      BY <1>2, <2>8, <3>1 DEF Lets
    <3>2. CASE e # None
      <4>1. LetGo(D, desc, e, s)
        <5>1. D = [desc EXCEPT ![e].state = s, ![e].character = None] /\ e \in Desc
          BY <2>8, <3>2 DEF Lets
        <5> HIDE DEF Sent
        <5> QED BY <1>2, <5>1, LettingGo
      <4> QED BY <4>1 DEF LetGo, Gone
    <3> QED BY <3>1, <3>2
  <2>10. PICK E :
           /\ \/ E = SendAway(D, B, body[b].id, None) /\ Idle(b)
                 /\ left' = [left EXCEPT ![body[b].id] = body[b].ver]
              \/ E = D /\ left' = left
           /\ Extract(E, B, b)
    BY <2>8
  <2>11. /\ E \in [Desc -> DescType]
         /\ \A x \in Desc :
              /\ E[x].state = D[x].state \/ E[x].state = "disconnect"
              /\ E[x].original = desc[x].original
              /\ E[x].character = D[x].character
              /\ E[x].snooping = desc[x].snooping /\ E[x].snoop_by = desc[x].snoop_by
              /\ D[x].character = None => E[x] = D[x]
         /\ \/ left' = left
            \/ /\ left' = [left EXCEPT ![body[b].id] = body[b].ver]
               /\ \A x \in Desc :
                    D[x].character # None /\ B[D[x].character].id = body[b].id =>
                      E[x].state = "disconnect"
    <3>1. CASE E = D /\ left' = left
      BY <2>9, <3>1
    <3>2. CASE /\ E = SendAway(D, B, body[b].id, None)
               /\ left' = [left EXCEPT ![body[b].id] = body[b].ver]
      <4>1. Told(E, D, {x \in Desc : x # None /\ Controls(x, D, body[b].id, B)},
                 "disconnect")
        BY <2>9, <3>2, Sending
      <4> QED BY <2>9, <3>2, <4>1 DEF Told, Gone, Controls
    <3> QED BY <2>10, <3>1, <3>2
  <2>12. /\ desc' = E /\ body' = [B EXCEPT ![b].st = "purged"]
         /\ row' = [row EXCEPT ![body[b].id] = body[b].ver]
    <3>1. SwitchedOut(E, B, b) = {}
      BY <2>2, <2>11 DEF SwitchedOut
    <3>2. desc' = E
      BY <2>5, <2>10, <3>1 DEF Extract, DExtracted
    <3>3. row' = [row EXCEPT ![body[b].id] = body[b].ver]
      BY <2>10 DEF Extract
    <3>4. ~(B[b].desc = None /\ SwitchedOut(E, B, b) # {})
      BY <3>1
    <3>5. body' = [B EXCEPT ![b].st = "purged"]
      BY <2>10, <3>4, Zenon DEF Extract, BExtracted
    <3> QED BY <3>2, <3>3, <3>5
  <2>13. /\ B \in [AnyBody -> BodyType]
         /\ B[b].id = body[b].id /\ B[b].ver = body[b].ver
         /\ \A x \in AnyBody : B[x].id = body[x].id
         /\ \A x \in AnyBody \ {b} : B[x] = body[x]
    BY <1>1, <2>4 DEF LoginTypeOK, BodyType
  <2>14. /\ body' \in [AnyBody -> BodyType]
         /\ body'[b].st = "purged" /\ body'[b].id = body[b].id /\ body'[b].desc = None
         /\ \A x \in AnyBody \ {b} : body'[x] = body[x]
    <3> HIDE DEF AnyBody
    <3>1. b \in AnyBody
      BY DEF AnyBody
    <3>2. body'[b] = [B[b] EXCEPT !.st = "purged"]
      BY <2>12, <2>13, <3>1
    <3>3. /\ body'[b] \in BodyType
          /\ body'[b].st = "purged" /\ body'[b].id = body[b].id /\ body'[b].desc = None
      BY <2>5, <2>13, <3>1, <3>2 DEF BodyType
    <3>4. \A x \in AnyBody \ {b} : body'[x] = body[x]
      BY <2>12, <2>13
    <3>5. body' = [x \in AnyBody |-> body'[x]]
      BY <2>12, <2>13
    <3> QED BY <2>13, <3>3, <3>4, <3>5
  <2>15. \A x \in Desc :
           /\ desc'[x].state = desc[x].state \/ desc'[x].state \in Sent
           /\ desc'[x].original = desc[x].original
           /\ \/ desc'[x].character = desc[x].character
              \/ desc[x].character = b /\ desc'[x].character = None
           /\ desc[x].character = b => desc'[x].state \in Sent
           /\ desc'[x].character # b
    <3> SUFFICES ASSUME NEW x \in Desc
                 PROVE  /\ desc'[x].state = desc[x].state \/ desc'[x].state \in Sent
                        /\ desc'[x].original = desc[x].original
                        /\ \/ desc'[x].character = desc[x].character
                           \/ desc[x].character = b /\ desc'[x].character = None
                        /\ desc[x].character = b => desc'[x].state \in Sent
                        /\ desc'[x].character # b
      OBVIOUS
    <3>1. x = e => desc[x].character = b
      BY <1>1, <2>3 DEF Wired
    <3>2. desc[x].character = b => x = e
      BY <1>5, <2>3
    <3>3. /\ IF x = e THEN D[x].state = s /\ D[x].character = None ELSE D[x] = desc[x]
      BY <2>9
    <3>4. /\ desc'[x].state = D[x].state \/ desc'[x].state = "disconnect"
          /\ desc'[x].original = desc[x].original
          /\ desc'[x].character = D[x].character
          /\ D[x].character = None => desc'[x].state = D[x].state
      BY <2>11, <2>12
    <3> QED BY <3>1, <3>2, <3>3, <3>4
  <2>16. ASSUME NEW x \in Desc, desc[x].state = "gone"
         PROVE  desc'[x] = desc[x]
    <3>0. desc[x] = NoDesc
      <4> HIDE DEF NoDesc
      <4> QED BY <1>4, <2>16
    <3>1. desc[x].character = None
      BY <3>0
    <3>2. x = e => desc[x].character = b
      BY <1>1, <2>3 DEF Wired
    <3>3. x # e /\ D[x].character = None
      BY <2>9, <3>1, <3>2
    <3> HIDE DEF NoDesc
    <3> QED BY <2>9, <2>11, <2>12, <3>0, <3>3
  <2>17. SnoopsPair'
    BY <1>1, <2>11, <2>12, <2>15, SnoopsKept
  <2>18. \/ left' = left
         \/ /\ left' = [left EXCEPT ![body[b].id] = body[b].ver]
            /\ \A x \in Desc : desc'[x].state = "password" =>
                 body[desc'[x].character].id # body[b].id
    <3>1. ASSUME NEW x \in Desc, desc'[x].state = "password",
                 desc'[x].character = None \/ body[desc'[x].character].id = body[b].id
          PROVE  D[x].character # None /\ B[D[x].character].id = body[b].id
      <4>1. desc[x].state = "password" /\ desc'[x].character = desc[x].character
        BY <2>15, <3>1
      <4>2. desc[x].character # None /\ desc[x].character \in AnyBody
        BY <1>1, <1>2, <4>1 DEF StatesOK, StateOK, DescType
      <4> QED BY <2>11, <2>12, <2>13, <3>1, <4>1, <4>2
    <3> QED BY <2>11, <2>12, <3>1
  <2>19. row' = [row EXCEPT ![body[b].id] = body[b].ver] /\ desc' \in [Desc -> DescType]
    BY <2>11, <2>12, <2>13
  <2>20. \A x \in Desc :
           /\ desc'[x].state = desc[x].state \/ desc'[x].state \in Sent
           /\ desc'[x].original = desc[x].original
           /\ \/ desc'[x].character = desc[x].character
              \/ desc[x].character = b /\ desc'[x].character = None
           /\ desc[x].character = b => desc'[x].state \in Sent
           /\ desc'[x].character = b => phase # "heart"
           /\ desc[x].state = "gone" => desc'[x] = desc[x]
    BY <2>15, <2>16
  <2>21. \/ /\ body'[b].desc = body[b].desc
            /\ \A x \in Desc : desc'[x].character = desc[x].character
         \/ body'[b].desc = None /\ \A x \in Desc : desc'[x].character # b
    BY <2>14, <2>15
  <2> HIDE DEF Sent, AnyBody
  <2> QED
    BY <1>3, <2>1, <2>2, <2>14, <2>17, <2>18, <2>19, <2>20, <2>21, Leaving
<1> QED BY <1>6, <1>7
(* The step connects d to body t, the only one of player i, and closes the *)
(* descriptors os, which had it or another body of i.                      *)
Arrives(d, os, t, i) ==
  /\ phase = "input" /\ desc[d].state # "gone"
  /\ desc[d].character # None => body[desc[d].character].st = "copy"
  /\ \A k \in os : desc[k].state # "gone"
  /\ desc' \in [Desc -> DescType]
  /\ desc'[d].state = "playing" /\ desc'[d].character = t /\ desc'[d].original = None
  /\ \A k \in os : /\ desc'[k].state = "close" /\ desc'[k].character = None
                   /\ desc'[k].original = None
  /\ \A k \in Desc : /\ desc'[k].snooping = desc[k].snooping
                     /\ desc'[k].snoop_by = desc[k].snoop_by
                     /\ k \notin os \cup {d} => /\ desc'[k] = desc[k]
                                                /\ desc[k].character # t
                                                /\ desc[k].original # t
  /\ body' \in [AnyBody -> BodyType]
  /\ body'[t].st = "in" /\ body'[t].id = i /\ body'[t].desc = d /\ body'[t].ver >= left[i]
  /\ \A x \in AnyBody \ {t} :
       \/ body'[x] = body[x] /\ body[x].desc \notin os \cup {d}
       \/ body'[x] = NoBody /\ body[x].desc \in os \cup {d} /\ body[x].st = "copy"
       \/ /\ body'[x].st = body[x].st /\ body'[x].id = body[x].id
          /\ body'[x].ver = body[x].ver /\ body'[x].desc = None
          /\ body[x].desc \in os
  /\ \A y \in Body \ {t} : body[y].st = "in" => body[y].id # i
  /\ table \subseteq table' /\ table' \subseteq [name : Users \cup {NewName}, id : Ids]
  /\ \E e \in table' : e.id = i
  /\ row' \in [Ids -> Nat] /\ \A j \in Ids : row'[j] >= left[j]
  /\ UNCHANGED <<left, phase>>

(* Such a step keeps every part of the invariant.                          *)
LEMMA Arriving ==
  ASSUME LoginInv, NEW d \in Desc, NEW os \in SUBSET (Desc \ {d}), NEW t \in Body,
         NEW i \in Ids, Arrives(d, os, t, i)
  PROVE  LoginInv'
<1> USE DEF Arrives
<1>1. LoginTypeOK /\ Wired /\ OneBody /\ SnoopsPair /\ StatesOK /\ BodiesOK /\ KeptOK
  BY DEF LoginInv
<1>2. LoginTypeOK'
  BY <1>1 DEF LoginTypeOK
<1>3. \A k \in Desc : /\ desc[k].character \in AnyBody \cup {None}
                      /\ desc[k].original \in Body \cup {None}
  BY <1>1 DEF LoginTypeOK, DescType
<1>4. ASSUME NEW k \in Desc \ (os \cup {d}), desc[k].character # None
      PROVE  body'[desc[k].character] = body[desc[k].character]
  <2>1. desc[k].character \in AnyBody \ {t} /\ body[desc[k].character].desc = k
    BY <1>1, <1>3, <1>4 DEF Wired
  <2>2. k \notin os \cup {d} \cup {None}
    OBVIOUS
  <2> HIDE DEF AnyBody, NoBody
  <2> QED BY <2>1, <2>2
<1>5. ASSUME NEW k \in Desc \ (os \cup {d}), desc[k].original # None
      PROVE  body'[desc[k].original] = body[desc[k].original]
  <2>1. desc[k].original \in AnyBody \ {t} /\ body[desc[k].original].desc = None
    BY <1>1, <1>3, <1>5 DEF Wired
  <2>2. None \notin os \cup {d}
    OBVIOUS
  <2> HIDE DEF AnyBody, NoBody
  <2> QED BY <2>1, <2>2
<1>6. Wired'
  <2>1. ASSUME NEW k \in Desc
        PROVE  /\ desc'[k].character # None =>
                    /\ body'[desc'[k].character].st # "free"
                    /\ body'[desc'[k].character].desc = k
               /\ desc'[k].original # None =>
                    /\ body'[desc'[k].original].st = "in"
                    /\ body'[desc'[k].original].desc = None
                    /\ desc'[k].character = Mob
               /\ desc'[k].state = "playing" =>
                    desc'[k].character # None /\ body'[desc'[k].character].st = "in"
    <3>1. CASE k = d
      BY <3>1
    <3>2. CASE k \in os
      BY <3>2
    <3>3. CASE k \notin os \cup {d}
      <4>1. desc'[k] = desc[k]
        BY <3>3
      <4>2. /\ desc[k].character # None => body[desc[k].character].st # "free"
                                           /\ body[desc[k].character].desc = k
            /\ desc[k].original # None => /\ body[desc[k].original].st = "in"
                                          /\ body[desc[k].original].desc = None
                                          /\ desc[k].character = Mob
            /\ desc[k].state = "playing" =>
                 desc[k].character # None /\ body[desc[k].character].st = "in"
        BY <1>1 DEF Wired
      <4> QED BY <1>4, <1>5, <3>3, <4>1, <4>2
    <3> QED BY <3>1, <3>2, <3>3
  <2>2. ASSUME NEW x \in AnyBody, body'[x].desc # None
        PROVE  desc'[body'[x].desc].character = x
    <3>1. CASE x = t
      BY <3>1
    <3>2. CASE x # t
      <4>1. body'[x].desc = body[x].desc /\ body[x].desc \notin os \cup {d}
        BY <2>2, <3>2
      <4>2. body[x].desc \in Desc /\ desc[body[x].desc].character = x
        BY <1>1, <2>2, <4>1 DEF Wired, LoginTypeOK, BodyType
      <4> QED BY <4>1, <4>2
    <3> QED BY <3>1, <3>2
  <2> QED BY <2>1, <2>2 DEF Wired
<1>7. \A x \in Body \ {t} : body'[x].st = "in" =>
        /\ body[x].st = "in" /\ body'[x].id = body[x].id /\ body'[x].ver = body[x].ver
  OBVIOUS
<1>8. OneBody'
  <2> SUFFICES ASSUME NEW x \in Body, NEW y \in Body, body'[x].st = "in", body'[y].st = "in",
                      body'[x].id = body'[y].id
               PROVE  x = y
    BY DEF OneBody
  <2> QED BY <1>1, <1>7 DEF OneBody
<1>9. SnoopsPair'
  <2>1. \A k \in Desc : desc[k].state # "gone" => desc'[k].state # "gone"
    <3> SUFFICES ASSUME NEW k \in Desc, desc[k].state # "gone" PROVE desc'[k].state # "gone"
      OBVIOUS
    <3> QED OBVIOUS
  <2> QED BY <1>1, <2>1, SnoopsKept
<1>10. StatesOK'
  <2> SUFFICES ASSUME NEW k \in Desc PROVE StateOK(k)'
    BY DEF StatesOK
  <2>1. CASE k = d
    BY <2>1 DEF StateOK
  <2>2. CASE k \in os
    BY <2>2 DEF StateOK
  <2>3. CASE k \notin os \cup {d}
    <3>1. StateOK(k) /\ desc'[k] = desc[k]
      BY <1>1, <2>3 DEF StatesOK
    <3>2. \A c \in {desc[k].character, desc[k].original} \ {None} :
            body'[c].st = body[c].st /\ body'[c].id = body[c].id
      BY <1>4, <1>5, <2>3
    <3> QED BY <3>1, <3>2, StateKept
  <2> QED BY <2>1, <2>2, <2>3
<1>11. BodiesOK'
  <2>1. ASSUME NEW x \in AnyBody, body'[x].st = "free"
        PROVE  body'[x] = NoBody
    <3>1. x # t
      BY <2>1
    <3>2. body[x].desc \in os => body[x].st # "free"
      BY <1>1 DEF Wired
    <3>3. body[x].st = "free" => body[x] = NoBody
      BY <1>1 DEF BodiesOK
    <3> HIDE DEF NoBody, AnyBody
    <3> QED BY <2>1, <3>1, <3>2, <3>3
  <2>2. body'[Mob].id = None /\ body'[Mob].st # "copy"
    <3>1. Mob \in AnyBody \ {t}
      OBVIOUS
    <3>2. body[Mob].id = None /\ body[Mob].st # "copy"
      BY <1>1 DEF BodiesOK
    <3> QED BY <3>1, <3>2
  <2>3. ASSUME NEW x \in Body
        PROVE  /\ body'[x].st = "in" => body'[x].id # None
               /\ body'[x].id # None => \E e \in table' : e.id = body'[x].id
    <3>1. CASE x = t
      BY <3>1 DEF Ids, Users
    <3>2. CASE x # t
      <4>1. body'[x].id = None \/ body'[x].id = body[x].id
        BY <3>2
      <4> QED BY <1>1, <1>7, <3>2, <4>1 DEF BodiesOK
    <3> QED BY <3>1, <3>2
  <2> QED BY <2>1, <2>2, <2>3 DEF BodiesOK
<1>12. KeptOK'
  <2>1. \A j \in Ids : (\A e \in table' : e.id # j) => left'[j] = 0
    BY <1>1 DEF KeptOK
  <2>2. \A x \in Body : body'[x].st = "in" => body'[x].ver >= left'[body'[x].id]
    BY <1>1, <1>7 DEF KeptOK
  <2>3. ASSUME NEW k \in Desc, desc'[k].state = "password"
        PROVE  body'[desc'[k].character].ver >= left'[body'[desc'[k].character].id]
    <3>1. k \notin os \cup {d}
      BY <2>3
    <3>2. desc'[k] = desc[k]
      BY <3>1
    <3>3. body'[desc[k].character] = body[desc[k].character]
      BY <1>1, <1>4, <2>3, <3>1, <3>2 DEF StatesOK, StateOK
    <3> QED BY <1>1, <2>3, <3>2, <3>3 DEF KeptOK
  <2> QED BY <2>1, <2>2, <2>3 DEF KeptOK
<1> QED BY <1>2, <1>6, <1>8, <1>9, <1>10, <1>11, <1>12 DEF LoginInv
(* performDupeCheck: what is let go of and whom it may find.               *)
LEMMA DupesDesc ==
  ASSUME LoginInv, NEW d \in Desc, NEW i \in Ids
  PROVE  LET os == Others(d, i)
             D == DDupes(d, i) IN
         /\ os \in SUBSET (Desc \ {d}) /\ D \in [Desc -> DescType]
         /\ \A k \in os :
              /\ desc[k].state # "gone" /\ D[k].state = "close"
              /\ D[k].character = None /\ D[k].original = None
         /\ \A k \in Desc :
              /\ D[k].snooping = desc[k].snooping /\ D[k].snoop_by = desc[k].snoop_by
              /\ k \notin os => D[k] = desc[k]
         /\ \A k \in Desc \ (os \cup {d}) :
              /\ desc[k].character # None => body[desc[k].character].id # i
              /\ desc[k].original # None => body[desc[k].original].id # i
<1>1. LoginTypeOK /\ Wired /\ StatesOK
  BY DEF LoginInv
<1>2. desc \in [Desc -> DescType] /\ \A e \in Desc : desc[e] \in DescType
  BY <1>1 DEF LoginTypeOK
<1>3. PICK os \in SUBSET (Desc \ {d}) : os = Others(d, i)
  BY DEF Others
<1>4. \A k \in os : desc[k].character # None
  BY <1>1, <1>3 DEF Others, Controls, Wired
<1>5. \A k \in os : desc[k].state # "gone"
  BY <1>1, <1>4 DEF StatesOK, StateOK
<1>6. \A k \in Desc \ (os \cup {d}) :
        /\ desc[k].character # None => body[desc[k].character].id # i
        /\ desc[k].original # None => body[desc[k].original].id # i
  BY <1>3 DEF Others, Controls
<1> DEFINE F(k) == [desc[k] EXCEPT !.state = "close", !.character = None, !.original = None]
<1>7. ASSUME NEW k \in Desc
      PROVE  /\ F(k) \in DescType /\ F(k).state = "close"
             /\ F(k).character = None /\ F(k).original = None
             /\ F(k).snooping = desc[k].snooping /\ F(k).snoop_by = desc[k].snoop_by
  <2> HIDE DEF AnyBody
  <2>1. desc[k] \in DescType
    BY <1>2
  <2> QED BY <2>1 DEF DescType, States
<1>8. DDupes(d, i) = [k \in Desc |-> IF k \in os THEN F(k) ELSE desc[k]]
  BY <1>3 DEF DDupes
<1> HIDE DEF F
<1> QED BY <1>2, <1>3, <1>5, <1>6, <1>7, <1>8

(* What becomes of the bodies the other descriptors had.                   *)
LEMMA DupesBody ==
  ASSUME LoginInv, NEW d \in Desc, NEW i \in Ids
  PROVE  LET os == Others(d, i)
             B == BDupes(d, i) IN
         /\ B \in [AnyBody -> BodyType]
         /\ \A x \in AnyBody :
              \/ B[x] = body[x] /\ body[x].desc \notin os
              \/ B[x] = NoBody /\ body[x].desc \in os /\ body[x].st = "copy"
              \/ /\ B[x].st = body[x].st /\ B[x].id = body[x].id
                 /\ B[x].ver = body[x].ver /\ B[x].desc = None
                 /\ body[x].desc \in os
         /\ \A x \in AnyBody : x \in DroppedBodies(d, i) <=> body[x].desc \in os
<1>1. LoginTypeOK /\ Wired
  BY DEF LoginInv
<1>2. PICK os \in SUBSET Desc : os = Others(d, i)
  BY DEF Others
<1>3. ASSUME NEW x \in AnyBody
      PROVE  x \in DroppedBodies(d, i) <=> body[x].desc \in os
  <2>1. x # None
    OBVIOUS
  <2>2. \A k \in os : desc[k].character = x => body[x].desc = k
    BY <1>1, <2>1 DEF Wired
  <2>3. body[x].desc \in os => desc[body[x].desc].character = x
    BY <1>1 DEF Wired
  <2> HIDE DEF AnyBody
  <2> QED BY <1>2, <2>1, <2>2, <2>3 DEF DroppedBodies
<1> DEFINE F(x) == [body[x] EXCEPT !.desc = None]
<1>4. ASSUME NEW x \in AnyBody
      PROVE  /\ F(x) \in BodyType /\ F(x).st = body[x].st /\ F(x).id = body[x].id
             /\ F(x).ver = body[x].ver /\ F(x).desc = None /\ body[x] \in BodyType
  BY <1>1 DEF LoginTypeOK, BodyType
<1>5. NoBody \in BodyType
  BY DEF BodyType
<1>6. BDupes(d, i) = [x \in AnyBody |->
                       IF x \in DroppedBodies(d, i)
                       THEN IF body[x].st = "copy" THEN NoBody ELSE F(x) ELSE body[x]]
  BY DEF BDupes
<1> HIDE DEF F, NoBody, AnyBody
<1> QED BY <1>2, <1>3, <1>4, <1>5, <1>6

(* What performDupeCheck finds is the player's body in the world.          *)
LEMMA TargetsFound ==
  ASSUME LoginInv, NEW d \in Desc, NEW i \in Ids, ~PendingPurge(i),
         NEW t \in Targets(d, i)
  PROVE  t \in Body /\ body[t].st = "in" /\ body[t].id = i
<1>1. LoginTypeOK /\ Wired /\ BodiesOK /\ i # None
  BY DEF LoginInv, Ids, Users
<1>2. CASE t \in FromDescriptors(d, i)
  <2>1. PICK k \in Others(d, i) :
          /\ Switched(k, i) \/ desc[k].state = "playing"
          /\ t = IF Switched(k, i) THEN desc[k].original ELSE desc[k].character
    BY <1>2 DEF FromDescriptors
  <2>2. k \in Desc
    BY DEF Others
  <2>3. CASE Switched(k, i)
    BY <1>1, <2>1, <2>2, <2>3 DEF Switched, Wired, LoginTypeOK, DescType
  <2>4. CASE ~Switched(k, i)
    <3>1. /\ desc[k].character # None /\ body[desc[k].character].id = i
          /\ desc[k].state = "playing" /\ t = desc[k].character
      BY <2>1, <2>4 DEF Others, Controls, Switched
    <3>2. t \in AnyBody /\ body[t].st = "in" /\ t # Mob
      BY <1>1, <2>2, <3>1 DEF Wired, LoginTypeOK, DescType, BodiesOK
    <3> QED BY <3>1, <3>2
  <2> QED BY <2>3, <2>4
<1>3. CASE t \in Linkless(d, i)
  BY <1>3 DEF Linkless, PendingPurge
<1> QED BY <1>2, <1>3 DEF Targets

(* When it finds nothing, the player is not in the world.                  *)
LEMMA NobodyFound ==
  ASSUME LoginInv, NEW d \in Desc, NEW i \in Ids, Targets(d, i) = {},
         desc[d].character # None => body[desc[d].character].st = "copy"
  PROVE  \A y \in Body : body[y].st = "in" => body[y].id # i
<1>1. LoginTypeOK /\ Wired
  BY DEF LoginInv
<1> SUFFICES ASSUME NEW y \in Body, body[y].st = "in", body[y].id = i
             PROVE  FALSE
  OBVIOUS
<1>2. y \notin Linkless(d, i)
  BY DEF Targets
<1>3. body[y].desc # None /\ y \notin DroppedBodies(d, i)
  BY <1>2 DEF Linkless
<1>4. PICK k \in Desc : k = body[y].desc /\ desc[k].character = y
  BY <1>1, <1>3 DEF LoginTypeOK, BodyType, Wired
<1>5. k # d
  BY <1>4
<1>6. k \in Others(d, i)
  BY <1>4, <1>5 DEF Others, Controls
<1> QED BY <1>3, <1>4, <1>6 DEF DroppedBodies

(* A player is connected to t once performDupeCheck has let the player's   *)
(* other descriptors go.                                                   *)
LEMMA Connected ==
  ASSUME LoginInv, NEW d \in Desc, NEW i \in Ids, NEW t \in Body,
         phase = "input", desc[d].state # "gone",
         desc[d].character # None => body[desc[d].character].st = "copy",
         desc' \in [Desc -> DescType],
         desc'[d].state = "playing", desc'[d].character = t, desc'[d].original = None,
         desc'[d].snooping = desc[d].snooping, desc'[d].snoop_by = desc[d].snoop_by,
         \A k \in Desc \ {d} : desc'[k] = DDupes(d, i)[k],
         \A k \in Desc \ (Others(d, i) \cup {d}) :
           desc[k].character # t /\ desc[k].original # t,
         body' \in [AnyBody -> BodyType],
         body'[t].st = "in", body'[t].id = i, body'[t].desc = d, body'[t].ver >= left[i],
         \A x \in AnyBody \ {t} :
           body'[x] = IF x = desc[d].character THEN NoBody ELSE BDupes(d, i)[x],
         \A y \in Body \ {t} : body[y].st = "in" => body[y].id # i,
         \E e \in table : e.id = i,
         UNCHANGED <<table, row, left, phase>>
  PROVE  LoginInv'
<1>1. LoginTypeOK /\ Wired /\ KeptOK
  BY DEF LoginInv
<1>2. PICK os \in SUBSET (Desc \ {d}) : os = Others(d, i)
  BY DEF Others
<1>3. PICK D \in [Desc -> DescType] : D = DDupes(d, i)
  BY DupesDesc
<1>4. /\ \A k \in os : /\ desc[k].state # "gone" /\ D[k].state = "close"
                       /\ D[k].character = None /\ D[k].original = None
      /\ \A k \in Desc : /\ D[k].snooping = desc[k].snooping
                         /\ D[k].snoop_by = desc[k].snoop_by
                         /\ k \notin os => D[k] = desc[k]
  BY <1>2, <1>3, DupesDesc
<1>5. \A k \in os : /\ desc'[k].state = "close" /\ desc'[k].character = None
                    /\ desc'[k].original = None
  BY <1>3, <1>4
<1>6. ASSUME NEW k \in Desc
      PROVE  /\ desc'[k].snooping = desc[k].snooping
             /\ desc'[k].snoop_by = desc[k].snoop_by
             /\ k \notin os \cup {d} => /\ desc'[k] = desc[k]
                                        /\ desc[k].character # t
                                        /\ desc[k].original # t
  <2>1. CASE k = d
    BY <2>1
  <2>2. CASE k # d
    BY <1>2, <1>3, <1>4, <2>2
  <2> QED BY <2>1, <2>2
<1>7. PICK B \in [AnyBody -> BodyType] : B = BDupes(d, i)
  BY DupesBody
<1>8. \A x \in AnyBody :
        \/ B[x] = body[x] /\ body[x].desc \notin os
        \/ B[x] = NoBody /\ body[x].desc \in os /\ body[x].st = "copy"
        \/ /\ B[x].st = body[x].st /\ B[x].id = body[x].id
           /\ B[x].ver = body[x].ver /\ B[x].desc = None
           /\ body[x].desc \in os
  BY <1>2, <1>7, DupesBody
<1>9. ASSUME NEW x \in AnyBody \ {t}
      PROVE  \/ body'[x] = body[x] /\ body[x].desc \notin os \cup {d}
             \/ body'[x] = NoBody /\ body[x].desc \in os \cup {d} /\ body[x].st = "copy"
             \/ /\ body'[x].st = body[x].st /\ body'[x].id = body[x].id
                /\ body'[x].ver = body[x].ver /\ body'[x].desc = None
                /\ body[x].desc \in os
  <2>1. CASE x = desc[d].character
    <3>1. x # None
      OBVIOUS
    <3>2. body[x].desc = d /\ body[x].st = "copy"
      BY <1>1, <2>1, <3>1 DEF Wired
    <3>3. body'[x] = NoBody
      BY <2>1
    <3> HIDE DEF AnyBody, NoBody
    <3> QED BY <3>2, <3>3
  <2>2. CASE x # desc[d].character
    <3>1. body[x].desc # d
      <4> SUFFICES ASSUME body[x].desc = d PROVE FALSE
        OBVIOUS
      <4>1. d # None
        OBVIOUS
      <4> QED BY <1>1, <2>2, <4>1 DEF Wired
    <3>2. body'[x] = B[x]
      BY <1>7, <2>2
    <3> HIDE DEF AnyBody, NoBody
    <3> QED BY <1>8, <3>1, <3>2
  <2> QED BY <2>1, <2>2
<1>10. /\ row' \in [Ids -> Nat] /\ \A j \in Ids : row'[j] >= left[j]
       /\ table \subseteq table' /\ table' \subseteq [name : Users \cup {NewName}, id : Ids]
       /\ \E e \in table' : e.id = i
  BY <1>1 DEF LoginTypeOK, KeptOK
<1>11. /\ \A k \in os : desc[k].state # "gone"
       /\ UNCHANGED <<left, phase>>
  BY <1>4
<1>12. \A k \in Desc : /\ desc'[k].snooping = desc[k].snooping
                       /\ desc'[k].snoop_by = desc[k].snoop_by
                       /\ k \notin os \cup {d} => /\ desc'[k] = desc[k]
                                                  /\ desc[k].character # t
                                                  /\ desc[k].original # t
  BY <1>6
<1> HIDE DEF AnyBody, NoBody
<1>13. \A x \in AnyBody \ {t} :
         \/ body'[x] = body[x] /\ body[x].desc \notin os \cup {d}
         \/ body'[x] = NoBody /\ body[x].desc \in os \cup {d} /\ body[x].st = "copy"
         \/ /\ body'[x].st = body[x].st /\ body'[x].id = body[x].id
            /\ body'[x].ver = body[x].ver /\ body'[x].desc = None
            /\ body[x].desc \in os
  BY <1>9
<1>14. Arrives(d, os, t, i)
  BY <1>5, <1>10, <1>11, <1>12, <1>13 DEF Arrives
<1> QED BY <1>14, Arriving

(* RECON, USURP and UNSWITCH.                                              *)
LEMMA Reconnecting ==
  ASSUME LoginInv, NEW d \in Desc, NEW i \in Ids, ~PendingPurge(i), Reconnect(d, i),
         phase = "input", desc[d].state # "gone",
         desc[d].character # None => body[desc[d].character].st = "copy",
         \E e \in table : e.id = i
  PROVE  LoginInv'
<1>1. LoginTypeOK /\ Wired /\ OneBody /\ KeptOK
  BY DEF LoginInv
<1>2. PICK D \in [Desc -> DescType] : D = DDupes(d, i)
  BY DupesDesc
<1>3. PICK B \in [AnyBody -> BodyType] : B = BDupes(d, i)
  BY DupesBody
<1>4. PICK t \in Targets(d, i) :
        LET unswitch == \E k \in Others(d, i) : desc[k].original = t
            extra == {b \in Linkless(d, i) : b # t /\ body[b].st = "in"} IN
        /\ desc' = [DDupes(d, i) EXCEPT
                      ![d] = [@ EXCEPT !.state = "playing", !.character = t,
                                !.original = None, !.loggedIn = @ \/ ~unswitch]]
        /\ body' = [b \in AnyBody |->
                     IF b = desc[d].character THEN NoBody
                     ELSE IF b = t THEN [body[t] EXCEPT !.desc = d]
                     ELSE IF b \in extra THEN [body[b] EXCEPT !.st = "purged"]
                     ELSE BDupes(d, i)[b]]
        /\ row' = IF extra = {} THEN row
                  ELSE [row EXCEPT ![i] = body[CHOOSE b \in extra : TRUE].ver]
        /\ UNCHANGED <<table, left, phase>>
  <2> HIDE DEF AnyBody, NoBody
  <2> QED BY DEF Reconnect
<1>5. t \in Body /\ body[t].st = "in" /\ body[t].id = i
  BY TargetsFound
<1>6. {b \in Linkless(d, i) : b # t /\ body[b].st = "in"} = {}
  BY <1>1, <1>5 DEF Linkless, OneBody
<1>7. /\ UNCHANGED <<table, row, left, phase>>
      /\ \A x \in AnyBody :
           body'[x] = IF x = desc[d].character THEN NoBody
                      ELSE IF x = t THEN [body[t] EXCEPT !.desc = d] ELSE B[x]
      /\ body' = [x \in AnyBody |-> body'[x]]
  <2> HIDE DEF AnyBody, NoBody
  <2> QED BY <1>3, <1>4, <1>6
<1>8. t # desc[d].character
  BY <1>5
<1>9. /\ body'[t].st = "in" /\ body'[t].id = i /\ body'[t].desc = d
      /\ body'[t].ver >= left[i] /\ body'[t] \in BodyType
  <2>1. body[t] \in BodyType /\ body[t].ver >= left[i]
    BY <1>1, <1>5 DEF LoginTypeOK, KeptOK
  <2>2. body'[t] = [body[t] EXCEPT !.desc = d]
    BY <1>5, <1>7, <1>8
  <2> QED BY <1>5, <2>1, <2>2 DEF BodyType
<1>10. \A x \in AnyBody \ {t} : body'[x] = IF x = desc[d].character THEN NoBody ELSE B[x]
  <2> HIDE DEF AnyBody, NoBody
  <2> QED BY <1>7
<1>11. body' \in [AnyBody -> BodyType]
  <2>1. NoBody \in BodyType
    BY DEF BodyType
  <2> HIDE DEF AnyBody, NoBody
  <2> QED BY <1>3, <1>7, <1>9, <1>10, <2>1
<1>12. DDupes(d, i)[d] = desc[d] /\ desc[d] \in DescType
  BY <1>2, DupesDesc
<1>13. PICK v \in BOOLEAN :
         desc' = [DDupes(d, i) EXCEPT
                   ![d] = [DDupes(d, i)[d] EXCEPT !.state = "playing", !.character = t,
                                                  !.original = None, !.loggedIn = v]]
  BY <1>4, Zenon
<1> DEFINE r == [DDupes(d, i)[d] EXCEPT !.state = "playing", !.character = t,
                                        !.original = None, !.loggedIn = v]
<1>14. desc' = [DDupes(d, i) EXCEPT ![d] = r]
  BY <1>13
<1>15. /\ r \in DescType /\ r.state = "playing" /\ r.character = t /\ r.original = None
       /\ r.snooping = desc[d].snooping /\ r.snoop_by = desc[d].snoop_by
  <2>1. t \in AnyBody
    BY <1>5
  <2> HIDE DEF AnyBody
  <2> QED BY <1>5, <1>12, <1>13, <2>1 DEF DescType, States
<1> HIDE DEF r
<1>16. \A k \in Desc \ {d} : desc'[k] = D[k]
  BY <1>2, <1>14
<1>17. desc' \in [Desc -> DescType] /\ desc'[d] = r
  BY <1>2, <1>14, <1>15
<1>18. \A k \in Desc \ (Others(d, i) \cup {d}) :
         desc[k].character # t /\ desc[k].original # t
  <2>1. t # None
    BY <1>5
  <2> QED BY <1>5, <2>1, DupesDesc
<1>19. \A y \in Body \ {t} : body[y].st = "in" => body[y].id # i
  BY <1>1, <1>5 DEF OneBody
<1>20. /\ desc'[d].state = "playing" /\ desc'[d].character = t /\ desc'[d].original = None
       /\ desc'[d].snooping = desc[d].snooping /\ desc'[d].snoop_by = desc[d].snoop_by
  BY <1>15, <1>17
<1>21. /\ \A k \in Desc \ {d} : desc'[k] = DDupes(d, i)[k]
       /\ \A x \in AnyBody \ {t} :
           body'[x] = IF x = desc[d].character THEN NoBody ELSE BDupes(d, i)[x]
  <2> HIDE DEF AnyBody, NoBody
  <2> QED BY <1>2, <1>3, <1>10, <1>16
<1> HIDE DEF AnyBody, NoBody
<1> QED BY <1>5, <1>7, <1>9, <1>11, <1>17, <1>18, <1>19, <1>20, <1>21, Connected

(* Nobody was found: completeEnterGame.                                    *)
LEMMA Entering ==
  ASSUME LoginInv, NEW d \in Desc, NEW i \in Ids, NEW b \in Body, NEW x \in BodyType,
         Enters(d, i, b, x), phase = "input", desc[d].state # "gone",
         \/ b = desc[d].character /\ body[b].st = "copy"
         \/ desc[d].character = None /\ body[b].st = "free",
         x.id = i, x.ver >= left[i],
         \E e \in table : e.id = i
  PROVE  LoginInv'
<1>1. LoginTypeOK /\ Wired /\ BodiesOK
  BY DEF LoginInv
<1>2. DDupes(d, i) \in [Desc -> DescType] /\ BDupes(d, i) \in [AnyBody -> BodyType]
  BY DupesDesc, DupesBody
<1>3. DDupes(d, i)[d] = desc[d] /\ desc[d] \in DescType
  BY <1>2, DupesDesc
<1>4. b # None /\ b \in AnyBody /\ b # Mob
  OBVIOUS
<1>5. desc[d].original = None
  BY <1>1, <1>4 DEF Wired
<1>6. desc[d].character # None => body[desc[d].character].st = "copy"
  OBVIOUS
<1> DEFINE r == [DDupes(d, i)[d] EXCEPT !.state = "playing", !.character = b,
                                        !.loggedIn = TRUE]
           y == [x EXCEPT !.st = "in", !.desc = d]
<1>7. /\ r \in DescType /\ r.state = "playing" /\ r.character = b /\ r.original = None
      /\ r.snooping = desc[d].snooping /\ r.snoop_by = desc[d].snoop_by
  <2> HIDE DEF AnyBody
  <2> QED BY <1>3, <1>4, <1>5 DEF DescType, States
<1>8. /\ y \in BodyType /\ y.st = "in" /\ y.id = i /\ y.desc = d /\ y.ver >= left[i]
  BY DEF BodyType
<1>9. /\ desc' = [DDupes(d, i) EXCEPT ![d] = r] /\ Targets(d, i) = {}
      /\ body' = [BDupes(d, i) EXCEPT ![b] = y]
      /\ UNCHANGED <<table, row, left, phase>>
  BY DEF Enters, Entered
<1> HIDE DEF r, y
<1>10. /\ desc' \in [Desc -> DescType] /\ desc'[d] = r
       /\ \A k \in Desc \ {d} : desc'[k] = DDupes(d, i)[k]
  BY <1>2, <1>7, <1>9
<1>11. /\ body' \in [AnyBody -> BodyType] /\ body'[b] = y
       /\ \A z \in AnyBody \ {b} : body'[z] = BDupes(d, i)[z]
  <2> HIDE DEF AnyBody
  <2> QED BY <1>2, <1>4, <1>8, <1>9
<1>12. \A z \in AnyBody \ {b} :
         body'[z] = IF z = desc[d].character THEN NoBody ELSE BDupes(d, i)[z]
  <2>1. \A z \in AnyBody \ {b} : z # desc[d].character
    OBVIOUS
  <2> HIDE DEF AnyBody, NoBody
  <2> QED BY <1>11, <2>1
<1>13. \A k \in Desc \ (Others(d, i) \cup {d}) :
         desc[k].character # b /\ desc[k].original # b
  BY <1>1, <1>4 DEF Wired
<1>14. \A z \in Body \ {b} : body[z].st = "in" => body[z].id # i
  BY <1>6, <1>9, NobodyFound
<1>15. /\ desc'[d].state = "playing" /\ desc'[d].character = b /\ desc'[d].original = None
       /\ desc'[d].snooping = desc[d].snooping /\ desc'[d].snoop_by = desc[d].snoop_by
       /\ body'[b].st = "in" /\ body'[b].id = i /\ body'[b].desc = d
       /\ body'[b].ver >= left[i]
  BY <1>7, <1>8, <1>10, <1>11
<1> HIDE DEF AnyBody, NoBody
<1> QED BY <1>6, <1>9, <1>10, <1>11, <1>12, <1>13, <1>14, <1>15, Connected

(* newbieMenuFinish and completeEnterGame, from either kind of client.     *)
LEMMA CreateSteps ==
  ASSUME LoginInv, NEW d \in Desc, NEW b \in Body, Create(d, b),
         phase = "input", desc[d].state # "gone",
         \/ b = desc[d].character /\ body[b].st = "copy"
         \/ desc[d].character = None /\ body[b].st = "free"
  PROVE  LoginInv'
<1>1. LoginTypeOK /\ Wired /\ BodiesOK /\ KeptOK
  BY DEF LoginInv
<1>2. PICK i \in NewIds :
        /\ \A e \in table : e.id # i
        /\ table' = table \cup {[name |-> NewName, id |-> i]}
        /\ row' = [row EXCEPT ![i] = 0]
        /\ desc' = Entered(desc, d, b)
        /\ body' = [body EXCEPT ![b] = [Copy(None, NewName, d) EXCEPT
                                          !.st = "in", !.id = i]]
        /\ UNCHANGED <<left, phase>>
  BY DEF Create
<1>3. i \in Ids /\ i # None /\ desc[d] \in DescType
  BY <1>1 DEF Ids, LoginTypeOK
<1>4. b # None /\ b \in AnyBody /\ b # Mob
  OBVIOUS
<1>5. desc[d].original = None
  BY <1>1, <1>4 DEF Wired
<1> DEFINE r == [desc[d] EXCEPT !.state = "playing", !.character = b, !.loggedIn = TRUE]
           y == [Copy(None, NewName, d) EXCEPT !.st = "in", !.id = i]
<1>6. /\ r \in DescType /\ r.state = "playing" /\ r.character = b /\ r.original = None
      /\ r.snooping = desc[d].snooping /\ r.snoop_by = desc[d].snoop_by
  <2> HIDE DEF AnyBody
  <2> QED BY <1>3, <1>4, <1>5 DEF DescType, States
<1>7. y \in BodyType /\ y.st = "in" /\ y.id = i /\ y.desc = d /\ y.ver = 0
  BY <1>3 DEF BodyType, Copy
<1>8. desc' = [desc EXCEPT ![d] = r] /\ body' = [body EXCEPT ![b] = y]
  BY <1>2 DEF Entered
<1> HIDE DEF r, y
<1>9. /\ desc' \in [Desc -> DescType] /\ desc'[d] = r
      /\ \A k \in Desc \ {d} : desc'[k] = desc[k]
  BY <1>1, <1>6, <1>8 DEF LoginTypeOK
<1>10. /\ body' \in [AnyBody -> BodyType] /\ body'[b] = y
       /\ \A z \in AnyBody \ {b} : body'[z] = body[z]
  <2> HIDE DEF AnyBody
  <2> QED BY <1>1, <1>4, <1>7, <1>8 DEF LoginTypeOK
<1>11. left[i] = 0
  BY <1>1, <1>2, <1>3 DEF KeptOK
<1>12. \A z \in Body \ {b} : body[z].st = "in" => body[z].id # i
  BY <1>1, <1>2 DEF BodiesOK
<1>13. ASSUME NEW z \in AnyBody \ {b}
       PROVE  body'[z] = body[z] /\ body[z].desc # d
  <2>1. body[z].desc = d => desc[d].character = z
    BY <1>1 DEF Wired
  <2>2. z # None
    OBVIOUS
  <2> HIDE DEF AnyBody
  <2> QED BY <1>10, <2>1, <2>2
<1>14. ASSUME NEW k \in Desc
       PROVE  /\ desc'[k].snooping = desc[k].snooping
              /\ desc'[k].snoop_by = desc[k].snoop_by
              /\ k # d => /\ desc'[k] = desc[k]
                          /\ desc[k].character # b
                          /\ desc[k].original # b
  <2>1. CASE k = d
    BY <1>6, <1>9, <2>1
  <2>2. CASE k # d
    BY <1>1, <1>4, <1>9, <2>2 DEF Wired
  <2> QED BY <2>1, <2>2
<1>15. /\ row' \in [Ids -> Nat] /\ \A j \in Ids : row'[j] >= left[j]
       /\ table \subseteq table' /\ \E e \in table' : e.id = i
  <2>1. [name |-> NewName, id |-> i] \in table'
    BY <1>2
  <2>2. row' \in [Ids -> Nat] /\ \A j \in Ids : row'[j] >= left[j]
    BY <1>1, <1>2, <1>3, <1>11 DEF LoginTypeOK, KeptOK
  <2>3. \E e \in table' : e.id = i
    BY <2>1
  <2> QED BY <1>2, <2>2, <2>3
<1>16. table'\subseteq [name : Users \cup {NewName}, id : Ids]
  BY <1>1, <1>2, <1>3 DEF LoginTypeOK
<1>17. PICK os \in SUBSET (Desc \ {d}) : os = {}
  OBVIOUS
<1>18. \A k \in Desc : /\ desc'[k].snooping = desc[k].snooping
                       /\ desc'[k].snoop_by = desc[k].snoop_by
                       /\ k \notin os \cup {d} => /\ desc'[k] = desc[k]
                                                  /\ desc[k].character # b
                                                  /\ desc[k].original # b
  BY <1>14
<1>19. /\ desc'[d].state = "playing" /\ desc'[d].character = b /\ desc'[d].original = None
       /\ body'[b].st = "in" /\ body'[b].id = i /\ body'[b].desc = d
       /\ body'[b].ver >= left[i]
  BY <1>6, <1>7, <1>9, <1>10, <1>11
<1> HIDE DEF AnyBody, NoBody
<1>20. \A z \in AnyBody \ {b} :
         \/ body'[z] = body[z] /\ body[z].desc \notin os \cup {d}
         \/ body'[z] = NoBody /\ body[z].desc \in os \cup {d} /\ body[z].st = "copy"
         \/ /\ body'[z].st = body[z].st /\ body'[z].id = body[z].id
            /\ body'[z].ver = body[z].ver /\ body'[z].desc = None
            /\ body[z].desc \in os
  BY <1>13, <1>17
<1>21. desc[d].character # None => body[desc[d].character].st = "copy"
  OBVIOUS
<1>22. Arrives(d, os, b, i)
  BY <1>2, <1>9, <1>10, <1>12, <1>15, <1>16, <1>17, <1>18, <1>19, <1>20, <1>21
     DEF Arrives
<1> QED BY <1>3, <1>22, Arriving

(* Who signs in or creates a character, when nobody comes back while the   *)
(* last body is still to be deleted.                                       *)
LEMMA EnterSteps ==
  ASSUME "hasty" \notin Risks, "recreate" \notin Risks, LoginInv, NEW d \in Desc,
         Password(d) \/ FinishCreation(d) \/ WebSignIn(d) \/ WebCreate(d)
  PROVE  LoginInv'
<1>1. LoginTypeOK /\ Wired /\ StatesOK /\ StateOK(d) /\ BodiesOK /\ KeptOK
  BY DEF LoginInv, StatesOK
<1>2. desc[d] \in DescType /\ desc[d].character \in AnyBody \cup {None}
  BY <1>1 DEF LoginTypeOK, DescType
<1>3. \A e \in table : e.id \in Ids /\ e.name \in Users \cup {NewName}
  BY <1>1 DEF LoginTypeOK
<1>4. CASE Password(d)
  <2> DEFINE b == desc[d].character
             i == body[b].id
  <2>1. phase = "input" /\ desc[d].state = "password" /\ b # None
    BY <1>1, <1>4 DEF Password, Says, StateOK
  <2>2. body[b].st = "copy" /\ body[b].desc = d /\ b \in Body
    BY <1>1, <1>2, <2>1 DEF StateOK, Wired, BodiesOK
  <2>3. i \in Ids /\ \E e \in table : e.id = i
    BY <1>1, <1>3, <2>1, <2>2 DEF StateOK, BodiesOK
  <2>4. body[b] \in BodyType /\ body[b].ver >= left[i]
    BY <1>1, <2>1, <2>2 DEF LoginTypeOK, KeptOK
  <2>5. CASE Closes(d)
    BY <2>1, <2>5, StateSteps DEF HangUp, Says
  <2>6. CASE Allowed(i) /\ Reconnect(d, i)
    BY <2>1, <2>2, <2>3, <2>6, Reconnecting DEF Allowed
  <2>7. CASE Enters(d, i, b, body[b])
    <3> HIDE DEF AnyBody, NoBody
    <3> QED BY <2>1, <2>2, <2>3, <2>4, <2>7, Entering
  <2> QED BY <1>4, <2>5, <2>6, <2>7 DEF Password
<1>5. CASE WebSignIn(d)
  <2>1. /\ phase = "input" /\ desc[d].state # "gone" /\ desc[d].character = None
    BY <1>5 DEF WebSignIn, SendsCommand
  <2>2. PICK e \in table :
          \/ Allowed(e.id) /\ Reconnect(d, e.id)
          \/ \E b \in Free : Enters(d, e.id, b, Copy(e.id, e.name, d))
    BY <1>5 DEF WebSignIn
  <2>3. e.id \in Ids /\ e.id # None
    BY <1>3 DEF Ids, Users
  <2>4. CASE Allowed(e.id) /\ Reconnect(d, e.id)
    BY <2>1, <2>3, <2>4, Reconnecting DEF Allowed
  <2>5. CASE \E b \in Free : Enters(d, e.id, b, Copy(e.id, e.name, d))
    <3>1. PICK b \in Body : body[b].st = "free" /\ Enters(d, e.id, b, Copy(e.id, e.name, d))
      BY <2>5 DEF Free
    <3> DEFINE x == Copy(e.id, e.name, d)
    <3>2. x \in BodyType /\ x.id = e.id /\ x.ver >= left[e.id]
      BY <1>1, <1>3, <2>3, <3>1 DEF Copy, BodyType, LoginTypeOK, KeptOK
    <3>3. Enters(d, e.id, b, x)
      BY <3>1
    <3> HIDE DEF x
    <3> QED BY <2>1, <2>3, <3>1, <3>2, <3>3, Entering
  <2> QED BY <2>2, <2>4, <2>5
<1>6. CASE FinishCreation(d)
  <2>1. /\ phase = "input" /\ desc[d].state = "create"
        /\ desc[d].character # None /\ body[desc[d].character].st = "copy"
    BY <1>1, <1>6 DEF FinishCreation, Says, StateOK
  <2>2. desc[d].character \in Body
    BY <1>1, <1>2, <2>1 DEF BodiesOK
  <2> QED BY <1>6, <2>1, <2>2, CreateSteps DEF FinishCreation
<1>7. CASE WebCreate(d)
  <2>1. phase = "input" /\ desc[d].state # "gone" /\ desc[d].character = None
    BY <1>7 DEF WebCreate, SendsCommand
  <2>2. PICK b \in Body : body[b].st = "free" /\ Create(d, b)
    BY <1>7 DEF WebCreate, Free
  <2> QED BY <2>1, <2>2, CreateSteps
<1> QED BY <1>4, <1>5, <1>6, <1>7

--------------------------------------------------------------------------------
(* The theorems.                                                                *)

(* The invariant holds at boot and every step keeps it.                    *)
LEMMA LoginStart == Init => LoginInv
<1> SUFFICES ASSUME Init PROVE LoginInv
  OBVIOUS
<1>1. \A d \in Desc : desc[d] = NoDesc
  BY DEF Init
<1>2. /\ \A b \in Body : body[b] = NoBody
      /\ body[Mob].st = "in" /\ body[Mob].id = None /\ body[Mob].desc = None
  BY DEF Init
<1>3. LoginTypeOK
  <2>1. NoDesc \in DescType
    BY DEF DescType, States
  <2>2. NoBody \in BodyType /\ [NoBody EXCEPT !.st = "in"] \in BodyType
    BY DEF BodyType
  <2>3. desc \in [Desc -> DescType] /\ body \in [AnyBody -> BodyType]
    <3> HIDE DEF AnyBody, NoBody, NoDesc
    <3> QED BY <2>1, <2>2 DEF Init
  <2>4. table \subseteq [name : Users \cup {NewName}, id : Ids]
    BY DEF Init, Ids
  <2>5. row \in [Ids -> Nat] /\ left \in [Ids -> Nat] /\ phase = "input"
    BY DEF Init
  <2> QED BY <2>3, <2>4, <2>5 DEF LoginTypeOK
<1>4. Wired
  BY <1>1, <1>2 DEF Wired
<1>5. OneBody /\ SnoopsPair /\ StatesOK
  <2>1. OneBody
    BY <1>2 DEF OneBody
  <2>2. SnoopsPair
    BY <1>1 DEF SnoopsPair
  <2>3. ASSUME NEW d \in Desc PROVE StateOK(d)
    <3>1. NoDesc.state = "gone" /\ NoDesc.character = None /\ NoDesc.original = None
      OBVIOUS
    <3> HIDE DEF NoDesc
    <3>2. desc[d] = NoDesc
      BY <1>1
    <3> QED BY <3>1, <3>2 DEF StateOK <2> QED BY <2>1, <2>2, <2>3 DEF StatesOK
<1>6. BodiesOK
  BY <1>2 DEF BodiesOK
<1>7. KeptOK
  BY <1>1, <1>2 DEF Init, KeptOK
<1> QED BY <1>3, <1>4, <1>5, <1>6, <1>7 DEF LoginInv

(* Every action, by the lemma that deals with it.                          *)
LEMMA LoginStep ==
  ASSUME "hasty" \notin Risks, "recreate" \notin Risks, LoginInv, [Next]_vars
  PROVE  LoginInv'
<1>1. ASSUME NEW d \in Desc, Dialogue(d)
      PROVE  LoginInv'
  <2>1. CASE \E web \in BOOLEAN : Connect(d, web)
    BY <2>1, ConnectSteps
  <2>2. CASE GetKnownName(d) \/ GetNewName(d) \/ NameNo(d)
    BY <2>2, NameSteps
  <2>3. CASE HangUp(d) \/ NameYes(d) \/ NameBanned(d) \/ IllegalState(d) \/ WebRefused(d)
    BY <2>3, StateSteps
  <2>4. CASE \E last \in BOOLEAN : WrongPassword(d, last)
    <3>1. LoginTypeOK /\ StatesOK /\ BodiesOK
      BY DEF LoginInv
    <3>2. desc[d].state = "password" /\ desc[d].character \in AnyBody \cup {None}
      BY <2>4, <3>1 DEF WrongPassword, Says, LoginTypeOK, DescType
    <3>3. desc[d].character \in Body
      BY <3>1, <3>2 DEF StatesOK, StateOK, BodiesOK
    <3> QED BY <2>4, <3>3, PlaySteps
  <2>5. CASE Password(d) \/ FinishCreation(d) \/ WebSignIn(d) \/ WebCreate(d)
    BY <2>5, EnterSteps
  <2> QED BY <1>1, <2>1, <2>2, <2>3, <2>4, <2>5 DEF Dialogue
<1>2. CASE \E d \in Desc : Commands(d)
  BY <1>2, PlaySteps, LeavingSteps, SwitchSteps, SnoopSteps, MobileSteps DEF Commands
<1>3. CASE Loop
  <2>1. CASE EndInput \/ EndHeart \/ MobLoads \/ PurgeQueue
    BY <2>1, LoopSteps
  <2>2. CASE Kick \/ \E d \in Desc : Lost(d)
    BY <2>2, CleanedSteps
  <2>3. CASE MobDies
    BY <2>3, MobileSteps
  <2>4. CASE \E d \in Desc : Timeout(d)
    BY <2>4, StateSteps
  <2>5. CASE \E b \in Body : Save(b)
    BY <2>5, PlaySteps
  <2>6. CASE \E b \in Body : Idle(b)
    BY <2>6, LeavingSteps
  <2> QED BY <1>3, <2>1, <2>2, <2>3, <2>4, <2>5, <2>6 DEF Loop
<1>4. CASE UNCHANGED vars
  BY <1>4 DEF vars, LoginInv, LoginTypeOK, Wired, OneBody, SnoopsPair, StatesOK, StateOK,
              BodiesOK, KeptOK
<1> QED BY <1>1, <1>2, <1>3, <1>4 DEF Next

(* What a player had on leaving is only ever replaced by more.             *)
LEMMA LeftGrows ==
  ASSUME LoginInv, Next, NEW i \in Ids
  PROVE  left'[i] >= left[i]
<1>1. LoginTypeOK /\ BodiesOK /\ KeptOK
  BY DEF LoginInv
<1>2. ASSUME NEW b \in Body, InWorld(b), Leaves(b)
      PROVE  left'[i] >= left[i]
  BY <1>1, <1>2 DEF Leaves, LoginTypeOK, KeptOK
<1>3. CASE left' = left
  BY <1>1, <1>3 DEF LoginTypeOK
<1>4. CASE \E d \in Desc : Dialogue(d)
  <2>1. PICK d \in Desc : Dialogue(d)
    BY <1>4
  <2>2. left' = left
    <3>1. CASE Password(d) \/ WebSignIn(d)
      BY <3>1 DEF Password, WebSignIn, Closes, Reconnect, Enters
    <3>2. CASE FinishCreation(d) \/ WebCreate(d)
      BY <3>2 DEF FinishCreation, WebCreate, Create
    <3>3. CASE GetKnownName(d) \/ GetNewName(d)
      BY <3>3 DEF GetKnownName, GetNewName
    <3>4. CASE \E last \in BOOLEAN : WrongPassword(d, last)
      BY <3>4 DEF WrongPassword
    <3>5. CASE \/ \E web \in BOOLEAN : Connect(d, web)
               \/ HangUp(d) \/ NameYes(d) \/ NameNo(d) \/ NameBanned(d) \/ IllegalState(d)
               \/ WebRefused(d)
      BY <3>5 DEF Connect, HangUp, NameYes, NameNo, NameBanned, IllegalState, WebRefused, Closes
    <3> QED BY <2>1, <3>1, <3>2, <3>3, <3>4, <3>5 DEF Dialogue
  <2> QED BY <1>3, <2>2
<1>5. CASE \E d \in Desc : Commands(d)
  <2>1. PICK d \in Desc : Commands(d)
    BY <1>5
  <2>2. CASE \E b \in Body : Quit(d, b)
    BY <1>2, <2>2 DEF Quit, Plays
  <2>3. CASE \/ \E b \in Body : Play(d, b) \/ Purge(d, b) \/ Switch(d, b)
             \/ Return(d)
    BY <1>3, <2>3 DEF Play, Purge, Switch, Return
  <2>4. CASE \/ \E b \in Body : StopSnooping(d, b)
             \/ \E b \in Body, c \in AnyBody : Snoop(d, b, c)
    BY <1>3, <2>4 DEF StopSnooping, Snoop
  <2> QED BY <2>1, <2>2, <2>3, <2>4 DEF Commands
<1>6. CASE Loop
  BY <1>2, <1>3, <1>6 DEF Loop, EndInput, Kick, PurgeQueue, EndHeart, MobDies, MobLoads, Lost,
                          Timeout, Closes, Save, Idle
<1> QED BY <1>4, <1>5, <1>6 DEF Next

(* The inductive invariant, of which the properties below are parts.       *)
THEOREM LoginInvariant ==
  ASSUME "hasty" \notin Risks, "recreate" \notin Risks
  PROVE  Spec => []LoginInv
<1>1. LoginInv /\ [Next]_vars => LoginInv'
  BY LoginStep
<1> QED BY LoginStart, <1>1, PTL DEF Spec

(* performDupeCheck, quit, rent, idling, purging, switching and lost       *)
(* sockets leave every descriptor and its character pointing at each       *)
(* other, and nobody commands a character that is extracted or deleted.    *)
THEOREM LoginWired ==
  ASSUME "hasty" \notin Risks, "recreate" \notin Risks
  PROVE  Spec => []Wired
<1>1. LoginInv => Wired
  BY DEF LoginInv
<1> QED BY LoginInvariant, <1>1, PTL

(* A player is in the world at most once.                                  *)
THEOREM LoginOneBody ==
  ASSUME "hasty" \notin Risks, "recreate" \notin Risks
  PROVE  Spec => []OneBody
<1>1. LoginInv => OneBody
  BY DEF LoginInv
<1> QED BY LoginInvariant, <1>1, PTL

(* Both ends of a snoop agree, and neither outlives its descriptor.        *)
THEOREM LoginSnoopsPair ==
  ASSUME "hasty" \notin Risks, "recreate" \notin Risks
  PROVE  Spec => []SnoopsPair
<1>1. LoginInv => SnoopsPair
  BY DEF LoginInv
<1> QED BY LoginInvariant, <1>1, PTL

(* Whoever comes into the world has all that was done when the player last *)
(* left it: rows and copies older than that are never used.                *)
THEOREM LoginBackWithAll ==
  ASSUME "hasty" \notin Risks, "recreate" \notin Risks
  PROVE  Spec => BackWithAll
<1>1. ASSUME LoginInv, LoginInv', Next
      PROVE  \A b \in Body : ~InWorld(b) /\ InWorld(b)' /\ body[b]'.id # None =>
               body'[b].ver >= left[body'[b].id]
  <2> SUFFICES ASSUME NEW b \in Body, body'[b].st = "in", body'[b].id # None
               PROVE  body'[b].ver >= left[body'[b].id]
    OBVIOUS
  <2>1. body'[b].ver >= left'[body'[b].id]
    BY <1>1 DEF LoginInv, KeptOK
  <2>2. body'[b].id \in Ids /\ body'[b].ver \in Nat
    BY <1>1 DEF LoginInv, LoginTypeOK, BodyType
  <2>3. left'[body'[b].id] >= left[body'[b].id]
    BY <1>1, <2>2, LeftGrows
  <2>4. left'[body'[b].id] \in Nat /\ left[body'[b].id] \in Nat
    BY <1>1, <2>2 DEF LoginInv, LoginTypeOK
  <2> QED BY <2>1, <2>2, <2>3, <2>4
<1>2. LoginInv /\ LoginInv' /\ [Next]_vars =>
        [\A b \in Body : ~InWorld(b) /\ InWorld(b)' /\ body[b]'.id # None =>
           body'[b].ver >= left[body'[b].id]]_vars
  BY <1>1
<1> QED BY LoginInvariant, <1>2, PTL DEF Spec, BackWithAll

================================================================================

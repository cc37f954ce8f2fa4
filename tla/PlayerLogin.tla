----------------------------- MODULE PlayerLogin -----------------------------
(***************************************************************************)
(* Descriptors, the characters they are attached to and the users table:   *)
(* the login dialogue (Descriptor::nanny), the web client's one-step       *)
(* sign-in and registration, performDupeCheck, leaving the game (quit,     *)
(* rent, idling, purge, a lost socket), switching and snooping.            *)
(*                                                                         *)
(* A body is a Character in memory: a copy read from the database that     *)
(* only its descriptor points to, a member of character_list ("in"), or a  *)
(* member that Extract has marked and PurgeQueue has not deleted yet       *)
(* ("purged").  Of a character's data only its age is kept: ver counts     *)
(* what the player has done with it.                                       *)
(***************************************************************************)
EXTENDS Naturals, FiniteSets

CONSTANTS
  Desc,        \* descriptor slots
  Body,        \* places for a player's Character
  Mob,         \* one mobile, always in the world
  None,
  Mortals, Immortals,   \* players the users table already has
  NewName,     \* a name nobody has yet
  NewIds,      \* the ids the users table gives to new rows
  MaxVer,      \* bound on what a player does with a character
  Risks        \* the risky sequences the clients may play, see below

(* "twins": two dialogues create the same name; "hasty": a login while the *)
(* player's last body awaits PurgeQueue; "recreate": a web client that has *)
(* a character sends "User Creation" all the same.                         *)
ASSUME LoginAssumption ==
  /\ Risks \subseteq {"twins", "hasty", "recreate"}
  /\ MaxVer \in Nat
  /\ Mob \notin Body /\ None \notin Body \cup {Mob} \cup Desc
  /\ None \notin Mortals \cup Immortals \cup NewIds

VARIABLES
  desc,        \* [Desc -> state, character, original, loggedIn, snooping, ...]
  body,        \* [Body \cup {Mob} -> st, id, name, desc, ver]
  table,       \* PlayerTable: the set of [name, id]
  row,         \* the age of the data in the row of each id
  left,        \* history: the age it had when its player last left the game
  phase        \* where the game loop is: "input", "pulse" or "heart"

vars == <<desc, body, table, row, left, phase>>

Users == Mortals \cup Immortals
Ids == Users \cup NewIds
AnyBody == Body \cup {Mob}

NoDesc == [state |-> "gone", web |-> FALSE, character |-> None,
           original |-> None, loggedIn |-> FALSE,
           snooping |-> None, snoop_by |-> None]
NoBody == [st |-> "free", id |-> None, name |-> None, desc |-> None, ver |-> 0]

Init ==
  /\ desc = [d \in Desc |-> NoDesc]
  /\ body = [b \in AnyBody |->
              IF b = Mob THEN [NoBody EXCEPT !.st = "in"] ELSE NoBody]
  /\ table = {[name |-> u, id |-> u] : u \in Users}
  /\ row = [i \in Ids |-> 0]
  /\ left = [i \in Ids |-> 0]
  /\ phase = "input"

Free == {b \in Body : body[b].st = "free"}
playerExists(n) == \E e \in table : e.name = n
Controls(d, D, i, B) == D[d].character # None /\ B[D[d].character].id = i
PendingPurge(i) == \E b \in Body : body[b].st = "purged" /\ body[b].id = i

--------------------------------------------------------------------------
(* What leaves the game.                                                   *)

(* Forgetting a snoop from either end.                                     *)
MForgetSnoops(D, d) == [D EXCEPT ![d].snooping = None]  \* one end only
ForgetSnoops(D, d) ==
  [e \in Desc |->
     [D[e] EXCEPT !.snoop_by = IF @ = d \/ e = d THEN None ELSE @,
                  !.snooping = IF @ = d \/ e = d THEN None ELSE @]]

(* do_return for the player switched into body b.                          *)
DReturned(D, B, b) ==
  LET d == B[b].desc
      o == D[d].original
      thief == B[o].desc
      D1 == IF thief = None THEN D
            ELSE [D EXCEPT ![thief].state = "disconnect"]
  IN [D1 EXCEPT ![d].character = o, ![d].original = None]
BReturned(D, B, b) ==
  LET d == B[b].desc IN
  [B EXCEPT ![D[d].original].desc = d, ![b].desc = None]

(* The descriptors of player i other than d are sent away, as do_quit and  *)
(* rentSave do.                                                            *)
MSendAway(D, B, i, d) == D
SendAway(D, B, i, d) ==
  [e \in Desc |-> IF e # d /\ Controls(e, D, i, B)
                  THEN [D[e] EXCEPT !.state = "disconnect"] ELSE D[e]]

(* Character::Extract on a player's body: a player switched out of it is   *)
(* returned to it first, the snoops end, the descriptor is closed.         *)
SwitchedOut(D, B, b) == {t \in Desc : D[t].original = b}
DExtracted(D, B, b) ==
  LET back == B[b].desc = None /\ SwitchedOut(D, B, b) # {}
      t == CHOOSE t \in SwitchedOut(D, B, b) : TRUE
      D1 == IF back THEN DReturned(D, B, D[t].character) ELSE D
      d == IF back THEN t ELSE B[b].desc
  IN IF d = None THEN D1
     ELSE [ForgetSnoops(D1, d) EXCEPT ![d].state = "close"]
BExtracted(D, B, b) ==
  LET back == B[b].desc = None /\ SwitchedOut(D, B, b) # {}
      t == CHOOSE t \in SwitchedOut(D, B, b) : TRUE
      B1 == IF back THEN BReturned(D, B, D[t].character) ELSE B
  IN [B1 EXCEPT ![b].st = "purged"]

(* Descriptor::cleanup: what one descriptor leaves behind.                 *)
DCleaned(D, d) == [ForgetSnoops(D, d) EXCEPT ![d] = NoDesc]
MBCleaned(D, B, ds) == B
BCleaned(D, B, ds) ==
  LET gone == {D[d].character : d \in ds} \ {None}
      originals == {D[d].original : d \in ds} \ {None}
  IN [b \in AnyBody |->
       IF b \in gone /\ B[b].st = "copy" THEN NoBody
       ELSE IF b \in gone \cup originals THEN [B[b] EXCEPT !.desc = None]
       ELSE B[b]]

--------------------------------------------------------------------------
(* Logging in.                                                             *)

(* performDupeCheck: whom the player of copy b finds already there.  The   *)
(* others are the descriptors of the same id.                              *)
Others(d, i) ==
  {k \in Desc \ {d} : \/ desc[k].original # None /\ body[desc[k].original].id = i
                      \/ Controls(k, desc, i, body)}
Switched(k, i) == desc[k].original # None /\ body[desc[k].original].id = i
FromDescriptors(d, i) ==
  {IF Switched(k, i) THEN desc[k].original ELSE desc[k].character :
     k \in {x \in Others(d, i) : Switched(x, i) \/ desc[x].state = "playing"}}
DroppedBodies(d, i) == {desc[k].character : k \in Others(d, i)} \ {None}
MLinkless(d, i) == {}
Linkless(d, i) ==
  {b \in Body : /\ body[b].st \in {"in", "purged"} /\ body[b].id = i
                /\ body[b].desc = None \/ b \in DroppedBodies(d, i)}
Targets(d, i) ==
  IF FromDescriptors(d, i) # {} THEN FromDescriptors(d, i) ELSE Linkless(d, i)

(* The descriptors of the same player are closed and let go of.            *)
DDupes(d, i) ==
  [k \in Desc |-> IF k \in Others(d, i)
                  THEN [desc[k] EXCEPT !.state = "close", !.character = None,
                                       !.original = None]
                  ELSE desc[k]]
BDupes(d, i) ==
  [b \in AnyBody |->
    IF b \in DroppedBodies(d, i)
    THEN IF body[b].st = "copy" THEN NoBody ELSE [body[b] EXCEPT !.desc = None]
    ELSE body[b]]

(* The player's copy is deleted and d is connected to the body found; any  *)
(* second one is extracted.  UNSWITCH does not set loggedIn.               *)
Reconnect(d, i) ==
  \E t \in Targets(d, i) :
    LET unswitch == \E k \in Others(d, i) : desc[k].original = t
        extra == {b \in Linkless(d, i) : b # t /\ body[b].st = "in"}
    IN /\ desc' = [DDupes(d, i) EXCEPT
                     ![d] = [@ EXCEPT !.state = "playing", !.character = t,
                               !.original = None,
                               !.loggedIn = @ \/ ~unswitch]]
       /\ body' = [b \in AnyBody |->
                    IF b = desc[d].character THEN NoBody
                    ELSE IF b = t THEN [body[t] EXCEPT !.desc = d]
                    ELSE IF b \in extra THEN [body[b] EXCEPT !.st = "purged"]
                    ELSE BDupes(d, i)[b]]
       /\ row' = IF extra = {} THEN row
                 ELSE [row EXCEPT ![i] = body[CHOOSE b \in extra : TRUE].ver]
       /\ UNCHANGED <<table, left, phase>>

(* completeEnterGame: the copy becomes a member of character_list.         *)
Entered(D, d, b) ==
  [D EXCEPT ![d] = [@ EXCEPT !.state = "playing", !.character = b,
                             !.loggedIn = TRUE]]
Enters(d, i, b, x) ==
  /\ Targets(d, i) = {}
  /\ desc' = Entered(DDupes(d, i), d, b)
  /\ body' = [BDupes(d, i) EXCEPT ![b] = [x EXCEPT !.st = "in", !.desc = d]]
  /\ UNCHANGED <<table, row, left, phase>>

Copy(i, n, d) == [st |-> "copy", id |-> i, name |-> n, desc |-> d,
                  ver |-> IF i = None THEN 0 ELSE row[i]]
Allowed(i) == "hasty" \in Risks \/ ~PendingPurge(i)
Says(d, state) == phase = "input" /\ desc[d].state = state
Closes(d) == /\ desc' = [desc EXCEPT ![d].state = "close"]
             /\ UNCHANGED <<body, table, row, left, phase>>

(* The gateway's session key is accepted (CON_GATEWAY).                    *)
Connect(d, web) ==
  /\ Says(d, "gone")
  /\ desc' = [desc EXCEPT ![d] = [NoDesc EXCEPT !.web = web,
                !.state = IF web THEN "weblogin" ELSE "name"]]
  /\ UNCHANGED <<body, table, row, left, phase>>

(* CON_GET_NAME, a name the index has: a copy is loaded.                   *)
GetKnownName(d) ==
  /\ Says(d, "name")
  /\ \E e \in table, b \in Free :
       /\ body' = [x \in AnyBody |->
                    IF x = b THEN Copy(e.id, e.name, d)
                    ELSE IF x = desc[d].character THEN NoBody ELSE body[x]]
       /\ desc' = [desc EXCEPT ![d].character = b, ![d].state = "password"]
  /\ UNCHANGED <<table, row, left, phase>>

(* CON_GET_NAME, a new name: an empty character carries it.                *)
GetNewName(d) ==
  /\ Says(d, "name") /\ ~playerExists(NewName)
  /\ \E b \in IF desc[d].character = None THEN Free ELSE {desc[d].character} :
       /\ body' = [body EXCEPT ![b] = Copy(None, NewName, d)]
       /\ desc' = [desc EXCEPT ![d].character = b, ![d].state = "confirm"]
  /\ UNCHANGED <<table, row, left, phase>>

(* An empty line, at the name as at the password.                          *)
HangUp(d) == (Says(d, "name") \/ Says(d, "password")) /\ Closes(d)

(* CON_NAME_CNFRM.                                                         *)
Creating == {d \in Desc : desc[d].state = "create"}
NameYes(d) ==
  /\ Says(d, "confirm")
  /\ "twins" \in Risks \/ (Creating = {} /\ ~playerExists(NewName))
  /\ desc' = [desc EXCEPT ![d].state = "create"]
  /\ UNCHANGED <<body, table, row, left, phase>>
NameNo(d) ==
  /\ Says(d, "confirm")
  /\ desc' = [desc EXCEPT ![d].state = "name"]
  /\ body' = [body EXCEPT ![desc[d].character].name = None]
  /\ UNCHANGED <<table, row, left, phase>>
NameBanned(d) == Says(d, "confirm") /\ Closes(d)

(* CON_PASSWORD, a wrong one: the copy is saved for its count of failures. *)
WrongPassword(d, last) ==
  /\ Says(d, "password")
  /\ LET c == body[desc[d].character] IN row' = [row EXCEPT ![c.id] = c.ver]
  /\ desc' = IF last THEN [desc EXCEPT ![d].state = "close"] ELSE desc
  /\ UNCHANGED <<body, table, left, phase>>

(* CON_PASSWORD, the right one: refused, reconnected or in.                *)
Password(d) ==
  /\ Says(d, "password")
  /\ LET b == desc[d].character
         i == body[b].id
     IN \/ Closes(d)
        \/ Allowed(i) /\ Reconnect(d, i)
        \/ Enters(d, i, b, body[b])

(* newbieMenuFinish and completeEnterGame.  Of a name there was before,    *)
(* MySQLDeleteAll deletes nothing (its first line is "return").            *)
Create(d, b) ==
  \E i \in NewIds :
    /\ \A e \in table : e.id # i
    /\ table' = table \cup {[name |-> NewName, id |-> i]}
    /\ row' = [row EXCEPT ![i] = 0]
    /\ desc' = Entered(desc, d, b)
    /\ body' = [body EXCEPT ![b] = [Copy(None, NewName, d) EXCEPT
                                      !.st = "in", !.id = i]]
    /\ UNCHANGED <<left, phase>>
(* The last creation menu.                                                 *)
FinishCreation(d) == Says(d, "create") /\ Create(d, desc[d].character)

(* The web client's commands are obeyed in every state.  "Sign In" asks    *)
(* that the descriptor has no character.                                   *)
SendsCommand(d) == phase = "input" /\ desc[d].web /\ desc[d].state # "gone"
WebSignIn(d) ==
  /\ SendsCommand(d) /\ desc[d].character = None
  /\ \E e \in table :
       \/ Allowed(e.id) /\ Reconnect(d, e.id)
       \/ \E b \in Free : Enters(d, e.id, b, Copy(e.id, e.name, d))
(* "User Creation" does not even ask that: the new character takes the     *)
(* place of the one that is there, which keeps its desc.                   *)
WebCreate(d) ==
  /\ SendsCommand(d) /\ ~playerExists(NewName)
  /\ "recreate" \in Risks \/ desc[d].character = None
  /\ \E b \in Free : Create(d, b)
(* Either may be refused and the descriptor closed: the site is banned,    *)
(* or the game restricted.                                                 *)
WebRefused(d) == SendsCommand(d) /\ Closes(d)

(* Any line while the descriptor is in a state nanny does not know.        *)
IllegalState(d) ==
  /\ phase = "input" /\ desc[d].state \in {"weblogin", "close"}
  /\ desc' = [desc EXCEPT ![d].state = "disconnect"]
  /\ UNCHANGED <<body, table, row, left, phase>>

--------------------------------------------------------------------------
(* Playing.                                                                *)

InWorld(b) == body[b].st = "in"
Plays(d, b) == Says(d, "playing") /\ desc[d].character = b /\ InWorld(b)
IsPlayer(b) == b # Mob

Play(d, b) ==
  /\ Plays(d, b) /\ IsPlayer(b) /\ body[b].ver < MaxVer
  /\ body' = [body EXCEPT ![b].ver = @ + 1]
  /\ UNCHANGED <<desc, table, row, left, phase>>

(* do_save and autoSave.                                                   *)
Save(b) ==
  /\ phase # "pulse" /\ InWorld(b) /\ IsPlayer(b)
  /\ row' = [row EXCEPT ![body[b].id] = body[b].ver]
  /\ UNCHANGED <<desc, body, table, left, phase>>

(* Extract of body b, after D and B were changed by its caller.            *)
Extract(D, B, b) ==
  /\ desc' = DExtracted(D, B, b)
  /\ body' = BExtracted(D, B, b)
  /\ row' = [row EXCEPT ![body[b].id] = body[b].ver]
Leaves(b) == left' = [left EXCEPT ![body[b].id] = body[b].ver]

(* do_quit, and the receptionist's rent: the player's other descriptors    *)
(* are sent away and the character leaves with all it did.                 *)
Quit(d, b) ==
  /\ Plays(d, b) /\ IsPlayer(b) /\ body[b].desc = d
  /\ Extract(SendAway(desc, body, body[b].id, d), body, b)
  /\ Leaves(b)
  /\ UNCHANGED <<table, phase>>

(* check_idling: the descriptor is let go of, the character rented.        *)
Idle(b) ==
  /\ phase = "heart" /\ InWorld(b) /\ IsPlayer(b) /\ body[b].id \notin Immortals
  /\ LET d == body[b].desc
         D == IF d = None THEN desc
              ELSE [desc EXCEPT ![d].state = "disconnect", ![d].character = None]
         B == [body EXCEPT ![b].desc = None]
     IN Extract(SendAway(D, B, body[b].id, None), B, b)
  /\ Leaves(b)
  /\ UNCHANGED <<table, phase>>

(* do_purge by an immortal.                                                *)
IsGod(d, b) == Plays(d, b) /\ body[b].id \in Immortals
Purge(d, b) ==
  /\ \E c \in Body : IsGod(d, c)
  /\ b \in Body /\ InWorld(b) /\ body[b].id \notin Immortals
  /\ LET e == body[b].desc
         D == IF e = None THEN desc
              ELSE [desc EXCEPT ![e].state = "close", ![e].character = None]
     IN Extract(D, [body EXCEPT ![b].desc = None], b)
  /\ UNCHANGED <<table, left, phase>>

(* do_switch into the mobile, and do_return.                               *)
Switch(d, b) ==
  /\ IsGod(d, b) /\ desc[d].original = None /\ InWorld(Mob)
  /\ body[Mob].desc = None /\ body[b].desc = d
  /\ desc' = [desc EXCEPT ![d].character = Mob, ![d].original = b]
  /\ body' = [body EXCEPT ![Mob].desc = d, ![b].desc = None]
  /\ UNCHANGED <<table, row, left, phase>>
Return(d) ==
  /\ Plays(d, Mob) /\ body[Mob].desc = d
  /\ desc' = DReturned(desc, body, Mob) /\ body' = BReturned(desc, body, Mob)
  /\ UNCHANGED <<table, row, left, phase>>

(* The mobile is killed (Extract of an NPC; who was switched into it is    *)
(* returned and stays), and a zone reset loads another one.                *)
MobDies ==
  /\ phase # "pulse" /\ InWorld(Mob)
  /\ LET d == body[Mob].desc
         D == IF d = None THEN desc ELSE ForgetSnoops(desc, d)
     IN /\ desc' = IF d = None THEN desc ELSE DReturned(D, body, Mob)
        /\ body' = [(IF d = None THEN body ELSE BReturned(D, body, Mob))
                     EXCEPT ![Mob].st = "purged"]
  /\ UNCHANGED <<table, row, left, phase>>
MobLoads ==
  /\ phase = "heart" /\ body[Mob].st = "free"
  /\ body' = [body EXCEPT ![Mob].st = "in"]
  /\ UNCHANGED <<desc, table, row, left, phase>>

(* do_snoop on the descriptor of a character, and stopSnooping.            *)
Snoop(d, b, c) ==
  LET e == body[c].desc
      old == desc[d].snooping
      D1 == IF old = None THEN desc ELSE [desc EXCEPT ![old].snoop_by = None]
  IN /\ IsGod(d, b) /\ body[b].desc = d /\ InWorld(c) /\ c # b /\ e # None
     /\ desc[e].snoop_by = None /\ desc[e].snooping # d
     /\ desc' = [D1 EXCEPT ![d].snooping = e, ![e].snoop_by = d]
     /\ UNCHANGED <<body, table, row, left, phase>>
StopSnooping(d, b) ==
  LET e == desc[d].snooping
  IN /\ IsGod(d, b) /\ body[b].desc = d /\ e # None
     /\ desc' = [desc EXCEPT ![d].snooping = None, ![e].snoop_by = None]
     /\ UNCHANGED <<body, table, row, left, phase>>

--------------------------------------------------------------------------
(* The rest of the loop.                                                   *)

EndInput == phase = "input" /\ phase' = "pulse"
            /\ UNCHANGED <<desc, body, table, row, left>>

(* onDescriptorClose, while listener->pulse() reads the sockets.           *)
Lost(d) ==
  /\ phase = "pulse" /\ desc[d].state # "gone"
  /\ desc' = DCleaned(desc, d) /\ body' = BCleaned(desc, body, {d})
  /\ UNCHANGED <<table, row, left, phase>>

(* The descriptors in CON_CLOSE and CON_DISCONNECT are kicked out.         *)
Closing == {d \in Desc : desc[d].state \in {"close", "disconnect"}}
Kick ==
  /\ phase = "pulse" /\ phase' = "heart"
  /\ desc' = [d \in Desc |->
       IF d \in Closing THEN NoDesc
       ELSE [desc[d] EXCEPT !.snooping = IF @ \in Closing THEN None ELSE @,
                            !.snoop_by = IF @ \in Closing THEN None ELSE @]]
  /\ body' = BCleaned(desc, body, Closing)
  /\ UNCHANGED <<table, row, left>>

(* checkIdlePasswords.                                                     *)
Timeout(d) ==
  /\ phase = "heart" /\ desc[d].state # "gone"
  /\ desc[d].state \in {"name", "password"} \/ ~desc[d].loggedIn
  /\ Closes(d)

(* PurgeQueue deletes every extracted character.                           *)
PurgeQueue ==
  /\ phase = "heart" /\ \E b \in AnyBody : body[b].st = "purged"
  /\ body' = [b \in AnyBody |-> IF body[b].st = "purged" THEN NoBody ELSE body[b]]
  /\ UNCHANGED <<desc, table, row, left, phase>>

EndHeart == phase = "heart" /\ phase' = "input"
            /\ UNCHANGED <<desc, body, table, row, left>>

Dialogue(d) ==
  \/ \E web \in BOOLEAN : Connect(d, web)
  \/ GetKnownName(d) \/ GetNewName(d) \/ HangUp(d)
  \/ NameYes(d) \/ NameNo(d) \/ NameBanned(d)
  \/ \E last \in BOOLEAN : WrongPassword(d, last)
  \/ Password(d) \/ FinishCreation(d) \/ IllegalState(d)
  \/ WebSignIn(d) \/ WebCreate(d) \/ WebRefused(d)
Commands(d) ==
  \/ \E b \in Body : \/ Play(d, b) \/ Quit(d, b) \/ Purge(d, b)
                     \/ Switch(d, b) \/ StopSnooping(d, b)
  \/ Return(d)
  \/ \E b \in Body, c \in AnyBody : Snoop(d, b, c)
Loop ==
  \/ EndInput \/ Kick \/ PurgeQueue \/ EndHeart \/ MobDies \/ MobLoads
  \/ \E d \in Desc : Lost(d) \/ Timeout(d)
  \/ \E b \in Body : Save(b) \/ Idle(b)

Next == (\E d \in Desc : Dialogue(d) \/ Commands(d)) \/ Loop

Spec == Init /\ [][Next]_vars

--------------------------------------------------------------------------
(* Properties.                                                             *)

(* A player is in the world once, whatever mixture of dialogues, sign-ins, *)
(* reconnections and lost links led there.                                 *)
OneBody ==
  \A b, c \in Body : InWorld(b) /\ InWorld(c) /\ body[b].id = body[c].id => b = c

(* Descriptor and character point at each other or not at all, a switched  *)
(* player's own body waits without a descriptor, and no player gives       *)
(* commands to a character that was extracted or deleted.                  *)
Wired ==
  /\ \A d \in Desc :
       LET c == desc[d].character
          o == desc[d].original IN
       /\ c # None => body[c].st # "free" /\ body[c].desc = d
       /\ o # None => InWorld(o) /\ body[o].desc = None /\ c = Mob
       /\ desc[d].state = "playing" => c # None /\ InWorld(c)
  /\ \A b \in AnyBody : body[b].desc # None => desc[body[b].desc].character = b

(* The pointers of a snoop agree and never outlive a descriptor.           *)
SnoopsPair ==
  \A d, e \in Desc :
    /\ (desc[d].snooping = e) <=> (desc[e].snoop_by = d)
    /\ desc[d].snooping = e => desc[d].state # "gone" /\ desc[e].state # "gone"

(* Whoever quits, rents or is idled out is back with everything done by    *)
(* then: no copy read before gets into the world.                          *)
BackWithAll ==
  [][\A b \in Body : ~InWorld(b) /\ InWorld(b)' /\ body[b]'.id # None =>
        body'[b].ver >= left[body'[b].id]]_vars
=============================================================================

---------------------------- MODULE MCCharacters ----------------------------
(***************************************************************************)
(* Characters, seen three times: their descriptors and rows (PlayerLogin), *)
(* what they do to each other in the world (Combat), and the guilds their  *)
(* players found (Guilds).  The three models share no state, so a          *)
(* behaviour is one of one part, with the others at rest.                  *)
(*                                                                         *)
(* The parts of Combat: "duel", a player and his horse; "fights", three    *)
(* who neither follow nor ride; "brawl", two against two in a room that    *)
(* only one leaves; "riders" and "herd", three who follow and ride, and    *)
(* may die, but do not fight.  Those of Guilds: "mishap", one application, *)
(* and a query that fails or a crash; "gods", one that two gods decide at  *)
(* once; "second", two to be signed; "joins", a founding, then two who ask *)
(* to join, and a mishap.                                                  *)
(***************************************************************************)
EXTENDS PlayerLogin, Combat, Guilds, TLC, Sequences

CONSTANTS
  ann, bob, wolf, horse,   \* the characters of Combat
  god, imm                 \* the gods of Guilds

MostRows == [apps |-> 2, sigs |-> 3, guilds |-> 2, members |-> 6, joins |-> 2]

VARIABLE part

Slots == Permutations(Desc) \cup Permutations(Body)

Taking ==
  [duel |-> {ann, horse}, fights |-> {ann, bob, wolf}, brawl |-> Char,
   riders |-> {ann, bob, horse}, herd |-> {ann, wolf, horse}]

MCInit ==
  /\ Init /\ turn = Nobody /\ GuildsInit
  /\ \/ /\ part \in {"login", "duel", "fights", "riders", "herd",
                     "mishap", "gods", "second", "joins"}
        /\ CombatInit
     \/ /\ part = "brawl"
        /\ world = [Unmade EXCEPT !.out = {}, !.people[Start] = <<ann, bob, wolf, horse>>,
                                  !.room = [c \in Char |-> Start]]

Unled == \A c \in Char : world'.master[c] = Nobody /\ world'.mount[c] = Nobody
Peaceful(S) == \A c \in S : world'.foe[c] \notin S

(* The commands of those who fight; only ann leaves.                       *)
Brawl ==
  /\ part = "brawl" /\ turn' = Nobody
  /\ \/ \E c \in Char, v \in Char :
          Attack(c, v) \/ Skill(c, v) \/ Assist(c, v) \/ Rescue(c, v)
     \/ Vanish(ann) \/ \E r \in Rooms : Travel(ann, r) \/ Load(ann, r)
     \/ PurgeChars
  /\ Peaceful({ann, bob}) /\ Peaceful({wolf, horse})
  /\ \A c \in Char \ {ann} : world'.room[c] = Start

(* The commands of Between that start no fight.                            *)
Herd ==
  /\ part \in {"riders", "herd"} /\ turn' = Nobody
  /\ \/ \E c \in Taking[part], v \in Taking[part] : Perish(c, v) \/ Follow(c, v) \/ Ride(c, v)
     \/ \E c \in Taking[part] : FollowSelf(c) \/ Ungroup(c) \/ Alight(c) \/ Vanish(c)
     \/ \E c \in Taking[part], r \in Rooms :
          Walk(c, r) \/ Travel(c, r) \/ Teleport(c, r) \/ Load(c, r)
     \/ PurgeChars

(* What the parts of Guilds leave out: who looks at a guild matters only   *)
(* where somebody may join it; where there is one application, ann writes  *)
(* it; and under two gods it is signed in one order.                       *)
Founding ==
  LET many == [t \in Tables |-> Len(tables'[t])] IN
  /\ GuildsNext
  /\ part \in {"gods", "second"} => mishaps' = 0
  /\ part = "joins" => mishaps' = 0 \/ many.joins > 0
  /\ part # "second" => many.apps <= 1 /\ \A u \in Folk \ {ann} : screen'[u].at # "create"
  /\ part \in {"second", "joins"} => many.sigs <= 2
  /\ part = "gods" => \A s \in DOMAIN tables'.sigs : tables'.sigs[s].by = <<bob, god, imm>>[s]
  /\ part # "joins" => \A u \in Folk \ Gods : screen'[u].at # "guild"
  /\ part \in {"mishap", "second"} => screen'[imm] = NoMenu
  /\ part = "joins" => screen'[imm].at \notin {"approve", "deny"}
  /\ part = "second" => \A u \in Folk : screen'[u].at \notin {"signatures", "approve", "deny"}

MCNext ==
  /\ UNCHANGED part
  /\ \/ part = "login" /\ Next /\ UNCHANGED <<combatVars, guildVars>>
     \/ /\ UNCHANGED <<vars, guildVars>>
        /\ Herd \/ Brawl \/ (part \in {"duel", "fights"} /\ CombatNext)
        /\ Char \ world'.out \subseteq Taking[part]
        /\ part = "fights" => Unled
     \/ /\ part \in {"mishap", "gods", "second", "joins"}
        /\ Founding /\ UNCHANGED <<vars, combatVars>>

MCSpec == MCInit /\ [][MCNext]_<<part, vars, combatVars, guildVars>>
=============================================================================

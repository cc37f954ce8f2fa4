------------------------------- MODULE Combat -------------------------------
(***************************************************************************)
(* Who stands where, fights whom, follows and rides whom: the pointers     *)
(* between characters that every command, script and round of              *)
(* perform_violence rewrites, combat_list with the cursor the round walks  *)
(* it by, and the deletion of characters (Extract, PurgeQueue).            *)
(*                                                                         *)
(* The world is one record and the code's methods are functions of it,     *)
(* named for what they have done (Stopped, Engaged, Left ...), so that an  *)
(* action is the composition its handler performs.  How hard a blow is,    *)
(* whether a skill works and what a script decides are open choices.       *)
(***************************************************************************)
EXTENDS Lists, FiniteSets

CONSTANTS
  Char,              \* characters of this instance
  Players, Horses,   \* the players among them, and the mobiles one can ride
  Greymen,           \* those who can shadowstep
  Rooms, Traps,      \* the rooms, and the deathtraps among them
  Start,             \* StartRoom()
  Nobody, Nowhere    \* null pointers

ASSUME CombatAssumption ==
  /\ Players \subseteq Char /\ Horses \subseteq Char \ Players
  /\ Greymen \subseteq Char
  /\ Traps \subseteq Rooms /\ Start \in Rooms \ Traps
  /\ Nobody \notin Char /\ Nowhere \notin Rooms /\ IsFiniteSet(Char)

VARIABLES
  world,   \* see Unmade
  turn     \* whose turn it is in perform_violence (ch), Nobody between rounds

combatVars == <<world, turn>>

(* The world before anybody is loaded.                                     *)
Unmade ==
  [room |-> [c \in Char |-> Nowhere],        \* in_room
   people |-> [r \in Rooms |-> <<>>],        \* latest first
   foe |-> [c \in Char |-> Nobody],          \* FIGHTING
   list |-> <<>>,                            \* combat_list
   cursor |-> Nobody,                        \* next_combat_list
   master |-> [c \in Char |-> Nobody],
   followers |-> [c \in Char |-> <<>>],      \* latest first
   mount |-> [c \in Char |-> Nobody],        \* MOUNT
   rider |-> [c \in Char |-> Nobody],        \* RIDDEN_BY
   purged |-> <<>>,                          \* CharPurgeList
   out |-> Char,                             \* not in memory
   \* history:
   due |-> {}, had |-> {},                   \* turns of the running round
   stepped |-> {},                           \* fight since do_shadowstep, unlisted
   robbed |-> {},                            \* another took their horse
   dumped |-> FALSE]                         \* core_dump() was called

CombatInit == world = Unmade /\ turn = Nobody

--------------------------------------------------------------------------
FirstOf(s, T) == IF Range(s) \cap T = {} THEN Nobody ELSE Foremost(s, T)
Near(w, c) == IF w.room[c] = Nowhere THEN <<>> ELSE w.people[w.room[c]]
AttackersOf(w, c) == {t \in Char : w.foe[t] = c}

(* StopFighting for everyone in S: the cursor moves past those it meets.   *)
MStopped(w, S) ==   \* the cursor stays
  [w EXCEPT !.list = Without(@, S), !.due = @ \ S, !.stepped = @ \ S,
            !.foe = [c \in Char |-> IF c \in S THEN Nobody ELSE @[c]]]
Stopped(w, S) ==
  [w EXCEPT !.cursor = IF @ \in S THEN FirstOf(w.list, From(w.list, @) \ S) ELSE @,
            !.list = Without(@, S), !.due = @ \ S, !.stepped = @ \ S,
            !.foe = [c \in Char |-> IF c \in S THEN Nobody ELSE @[c]]]

(* a->SetFighting(v): onto the head of the list; v strikes back.           *)
Engaged(w, a, v) ==
  IF v \in {a, Nobody} \/ w.room[a] # w.room[v] THEN w
  ELSE IF w.foe[a] # Nobody THEN [w EXCEPT !.dumped = TRUE]
  ELSE IF w.foe[v] # Nobody THEN [w EXCEPT !.list = <<a>> \o @, !.foe[a] = v]
  ELSE [w EXCEPT !.list = <<v, a>> \o @, !.foe[a] = v, !.foe[v] = a]

(* The fights of one who leaves: he stops, and everyone in the room who    *)
(* fought him turns, in the room's order, to the first who fights him      *)
(* (SetNewFighting).                                                       *)
Deserted(w, c) ==
  LET T == AttackersOf(w, c) \cap Range(Near(w, c))
      w1 == Stopped(w, {c} \cup T)
      next == [t \in T |-> FirstOf(Near(w, c), AttackersOf(w1, t))]
      turning == {t \in T : next[t] # Nobody}
  IN [w1 EXCEPT !.list = Backward(Without(Near(w, c), Char \ turning)) \o @,
                !.foe = [t \in Char |-> IF t \in T THEN next[t] ELSE @[t]]]

(* RemoveFromRoom and MoveToRoom.                                          *)
MLeft(w, c) ==   \* nobody turns from him
  [w EXCEPT !.people = [r \in Rooms |-> Without(@[r], {c})], !.room[c] = Nowhere]
Left(w, c) ==
  IF w.room[c] = Nowhere THEN w
  ELSE [Deserted(w, c) EXCEPT !.people[w.room[c]] = Without(@, {c}), !.room[c] = Nowhere]
Arrived(w, c, r) ==
  LET w1 == [w EXCEPT !.people[r] = <<c>> \o @, !.room[c] = r]
  IN IF w.foe[c] # Nobody /\ w1.room[w.foe[c]] # r
     THEN Stopped(w1, {c, w.foe[c]}) ELSE w1
Moved(w, c, r) == Arrived(Left(w, c), c, r)

(* SimpleMove and its like: the horse comes along, wherever it is.         *)
Carried(w, c, r) ==
  IF w.mount[c] = Nobody THEN Moved(w, c, r) ELSE Moved(Moved(w, c, r), w.mount[c], r)

(* Dismount().  A deleted horse is written to in freed memory.             *)
Dismounted(w, c) ==
  LET h == w.mount[c] IN
  IF h = Nobody THEN w
  ELSE [w EXCEPT !.mount[c] = Nobody,
                 !.rider = IF h \in w.out THEN @ ELSE [@ EXCEPT ![h] = Nobody],
                 !.robbed = (@ \cup {w.rider[h]}) \ {c, Nobody}]

(* stopFollowing() of everyone in S, add_follower(), die_follower() and    *)
(* circleFollow().                                                         *)
Unfollowed(w, S) ==
  [w EXCEPT !.dumped = @ \/ \E c \in S : w.master[c] = Nobody,
            !.followers = [l \in Char |-> Without(@[l], {c \in S : w.master[c] = l})],
            !.master = [c \in Char |-> IF c \in S THEN Nobody ELSE @[c]]]
Followed(w, c, l) ==
  IF {c, l} \cap Range(w.purged) # {} THEN w
  ELSE IF w.master[c] # Nobody THEN [w EXCEPT !.dumped = TRUE]
  ELSE [w EXCEPT !.master[c] = l, !.followers[l] = <<c>> \o @]
MForsaken(w, c) == IF w.master[c] = Nobody THEN w ELSE Unfollowed(w, {c})
Forsaken(w, c) ==
  LET w1 == IF w.master[c] = Nobody THEN w ELSE Unfollowed(w, {c})
  IN Unfollowed(w1, Range(w1.followers[c]))
CircleFollow(w, c, l) ==
  \A S \in SUBSET Char :
    l \in S /\ (\A k \in S : w.master[k] \in S \cup {Nobody}) => c \in S

(* Extract(): off everyone's pointers and out of the room, except that a   *)
(* rider keeps his horse until PurgeQueue.                                 *)
Extracted(w, c) ==
  IF c \in Range(w.purged) THEN w
  ELSE LET w1 == Forsaken(Dismounted(w, c), c)
           w2 == Stopped(w1, AttackersOf(w1, c) \cup {c})
       IN [Left(w2, c) EXCEPT !.purged = Append(@, c)]

(* Die(): the killer stops, his victim's foe stops, a mobile is extracted  *)
(* and a player wakes in his start room.                                   *)
Died(w, v, k) ==
  LET w1 == Stopped(Dismounted(w, v), {k, v} \cup (IF k = v THEN {} ELSE {w.foe[v]}))
  IN IF v \in Players THEN Moved(w1, v, Start) ELSE Extracted(w1, v)

--------------------------------------------------------------------------
(* Blows: the set of the worlds one may lead to.                           *)

(* damage(), up to the blow itself: the two engage (a stunned victim does  *)
(* not), and a pet leaves a master who hits it.                            *)
Provoked(w, a, v) ==
  IF a = v THEN {w}
  ELSE LET w1 == IF w.foe[a] = Nobody THEN Engaged(w, a, v) ELSE w
           W == IF w1.foe[v] = Nobody THEN {w1, Engaged(w1, v, a)} ELSE {w1}
       IN {IF x.master[v] = a THEN Unfollowed(x, {v}) ELSE x : x \in W}

(* The rest of damage(): the victim stands it, flees or dies; and in a     *)
(* peaceful room nothing happens at all.                                   *)
Fled(w, v) == IF w.mount[v] \in w.out THEN {} ELSE {Carried(w, v, r) : r \in Rooms \ Traps}
Struck(w, a, v) ==
  {w} \cup UNION {{x, Died(Stopped(x, {v}), v, a)} \cup (IF a = v THEN {} ELSE Fled(x, v))
                  : x \in Provoked(w, a, v)}

(* hit(): refused where it is too crowded; a rider gets off the horse he   *)
(* hits.                                                                   *)
Hit(w, a, v) ==
  LET w1 == IF w.mount[a] = v THEN Dismounted(w, a) ELSE w
  IN {w} \cup IF w.room[a] # w.room[v] THEN {w1} ELSE Struck(w1, a, v)

(* HitAllFighting(), with a chain: everyone in the room he fights or who   *)
(* fights him.  The walk goes astray when the next of the room leaves it.  *)
HitAll(w, a) ==
  LET near == Near(w, a)
      Next2(s, v) ==
        IF s.astray \/ s.w.room[v] # w.room[a] THEN {[s EXCEPT !.astray = TRUE]}
        ELSE IF s.w.foe[v] = a \/ s.w.foe[a] = v
             THEN {[s EXCEPT !.w = x] : x \in Hit(s.w, a, v)}
        ELSE {s}
      ends[n \in 0..Len(near)] ==
        IF n = 0 THEN {[w |-> w, astray |-> FALSE]}
        ELSE UNION {Next2(s, near[n]) : s \in ends[n-1]}
  IN {s.w : s \in ends[Len(near)]}

(* One or two blows, or a chain's.                                         *)
Blows(w, a) ==
  LET Blow(W) == UNION {Hit(x, a, x.foe[a]) : x \in {x \in W : x.foe[a] # Nobody}}
  IN Blow({w}) \cup Blow(Blow({w})) \cup HitAll(w, a)

(* faceoff(): a victim in a fight may be covered by one of his group.      *)
Faceoff(w, v) ==
  {v} \cup IF w.foe[v] = Nobody THEN {}
           ELSE {t \in Range(Near(w, v)) :
                   \/ w.master[v] # Nobody /\ w.master[t] = w.master[v]
                   \/ t = w.master[v] \/ w.master[t] = v}

--------------------------------------------------------------------------
(* The round: perform_violence walks combat_list from its head.            *)
RoundStart ==
  /\ turn = Nobody /\ world.list # <<>>
  /\ turn' = Head(world.list)
  /\ world' = [world EXCEPT !.due = Range(world.list)]

(* The fight trigger of a script, run with the cursor already moved on, may *)
(* extract, move or stop either of the two.                                *)
Triggered(w, c) ==
  {w} \cup UNION {{Extracted(w, x), Stopped(w, {x})} \cup {Moved(w, x, r) : r \in Rooms \ Traps}
                  : x \in {c, w.foe[c]} \ {Nobody}}

(* One turn: he is busy (waiting, casting, down), has nobody to fight any  *)
(* more, or strikes.                                                       *)
Turn ==
  LET c == turn
      w == [world EXCEPT !.cursor = FirstOf(world.list, From(world.list, c) \ {c}),
                         !.due = @ \ {c}, !.had = @ \cup {c}]
      Over(x) == x.foe[c] = Nobody \/ x.room[c] # x.room[x.foe[c]]
      ends == UNION {{x} \cup IF Over(x) THEN {Stopped(x, {c})} ELSE Blows(x, c)
                     : x \in Triggered(w, c)}
  IN /\ turn # Nobody
     /\ \E x \in ends :
          /\ turn' = x.cursor
          /\ world' = IF x.cursor = Nobody THEN [x EXCEPT !.had = {}] ELSE x

--------------------------------------------------------------------------
(* Commands, between the rounds.                                           *)
Here(c) == world.room[c] # Nowhere /\ c \notin Range(world.purged)
Together(c, v) == Here(c) /\ c # v /\ world.room[v] = world.room[c]

(* do_hit: the first blow, or the switch of targets.                       *)
Attack(c, v) ==
  /\ Together(c, v)
  /\ \E p \in Faceoff(world, v) :
       \/ world.foe[c] = Nobody /\ world' \in Hit(world, c, p)
       \/ /\ world.foe[c] \notin {Nobody, p} /\ world.foe[p] = c
          /\ world' = [world EXCEPT !.foe[c] = p]

(* bash, kick and their like: the blow, and who opened the fight with it   *)
(* faces whoever now covers his victim.                                    *)
Skill(c, v) ==
  /\ Together(c, v)
  /\ \E w \in Struck(world, c, v) :
       IF world.foe[c] = Nobody /\ w.foe[c] # Nobody
       THEN \E p \in Faceoff(w, v) : world' = Engaged(Stopped(w, {c}), c, p)
       ELSE world' = w

(* perform_assist.                                                         *)
Assist(c, h) ==
  LET o == IF world.foe[h] # Nobody THEN world.foe[h]
           ELSE FirstOf(Near(world, c), AttackersOf(world, h))
  IN /\ Together(c, h) /\ world.foe[c] = Nobody /\ o # Nobody
     /\ \E p \in Faceoff(world, o) : world' = Engaged(world, c, p)

(* do_rescue: v and the first who fights him let go, and c steps between.  *)
MRescue(c, v) ==   \* without his own StopFighting
  LET t == FirstOf(Near(world, c), AttackersOf(world, v))
      w == Stopped(world, {t} \cup (IF world.foe[v] = t THEN {v} ELSE {}))
  IN /\ Together(c, v) /\ world.foe[c] # v /\ t # Nobody
     /\ world' = Engaged(w, c, t)
Rescue(c, v) ==
  LET t == FirstOf(Near(world, c), AttackersOf(world, v))
      w == Stopped(world, {c, t} \cup (IF world.foe[v] = t THEN {v} ELSE {}))
  IN /\ Together(c, v) /\ world.foe[c] # v /\ t # Nobody
     /\ world' = Engaged(w, c, t)

(* perform_shadowstep: straight at v, without SetFighting; or out of the   *)
(* fight he is in.                                                         *)
Shadowstep(c, v) ==
  LET w == [world EXCEPT !.foe[c] = v,
                         !.stepped = IF c \in Range(world.list) THEN @ ELSE @ \cup {c}]
  IN /\ c \in Greymen /\ Together(c, v)
     /\ world' \in {w} \cup UNION {{x} \cup Fled(x, v) : x \in Provoked(w, c, v)}
StepBack(c) ==
  /\ c \in Greymen /\ Here(c) /\ world.foe[c] # Nobody
  /\ world' = Deserted(world, c)

(* A weave that goes on working kills for k, wherever he is by then.       *)
Perish(v, k) ==
  /\ Here(v) /\ Here(k)
  /\ world' = Died(Stopped(world, {v}), v, k)

--------------------------------------------------------------------------
(* Coming and going.                                                       *)

(* Those who may come along with c, in perform_move's order: each after    *)
(* his leader.                                                             *)
Column(w, c) ==
  LET led[n \in 0..Cardinality(Char)] ==
        IF n = 0 THEN [k \in Char |-> <<>>]
        ELSE [k \in Char |-> <<k>> \o Joined([i \in DOMAIN w.followers[k] |->
                                               led[n-1][w.followers[k][i]]])]
  IN led[Cardinality(Char)][c]

(* perform_move: whoever stands at his leader's side and does not fight    *)
(* goes too; a leader who walks into a deathtrap goes alone.               *)
Walk(c, r) ==
  LET from == world.room[c]
      Steps(w, k) ==
        IF /\ w.foe[k] = Nobody /\ w.room[k] = from /\ w.mount[k] \notin w.out
           /\ k = c \/ w.room[w.master[k]] = r
        THEN Carried(w, k, r) ELSE w
  IN /\ Here(c) /\ r # from /\ world.foe[c] = Nobody /\ world.mount[c] \notin world.out
     /\ IF r \in Traps
        THEN world' = LET w == Carried(world, c, r)
                      IN IF c \in Players THEN Died(w, c, c) ELSE Extracted(w, c)
        ELSE \E S \in SUBSET Range(Column(world, c)) :
               LET line == Without(Column(world, c), Char \ S)
                   walked[n \in 0..Len(line)] ==
                     IF n = 0 THEN world ELSE Steps(walked[n-1], line[n])
               IN c \in S /\ world' = walked[Len(line)]

(* The timed half of flee, goto, a tornado, a gate (whose followers step   *)
(* through one by one).                                                    *)
Travel(c, r) ==
  /\ Here(c) /\ r \notin Traps /\ world.mount[c] \notin world.out
  /\ world' = Carried(world, c, r)

(* Moved without the horse: trans, teleport, at, fade, a script, back from *)
(* the void; and idle into the void, where the fight is stopped first.     *)
Teleport(c, r) ==
  /\ Here(c) /\ r \notin Traps
  /\ world' = Moved(world, c, r)
Void(c, r) ==
  /\ Here(c) /\ c \in Players /\ r \notin Traps /\ world.foe[c] # Nobody
  /\ world' = Moved(Stopped(world, {c, world.foe[c]}), c, r)

Follow(c, l) ==
  /\ Together(c, l) /\ world.master[c] # l /\ ~CircleFollow(world, c, l)
  /\ world' = Followed(IF world.master[c] = Nobody THEN world ELSE Unfollowed(world, {c}), c, l)
FollowSelf(c) ==
  /\ Here(c) /\ world.master[c] # Nobody
  /\ world' = Unfollowed(world, {c})
(* do_ungroup of the whole group, which those in it (S) leave.             *)
Ungroup(c) ==
  /\ Here(c) /\ world.master[c] = Nobody
  /\ \E S \in SUBSET Range(world.followers[c]) : world' = Unfollowed(world, S)

(* do_ride: also a horse whose rider is not here; it stops following.      *)
Ride(c, h) ==
  /\ Together(c, h) /\ h \in Horses
  /\ world.mount[c] = Nobody /\ world.foe[h] = Nobody /\ world.rider[c] = Nobody
  /\ world.rider[h] # Nobody => world.room[world.rider[h]] # world.room[h]
  /\ LET w == [world EXCEPT !.mount[c] = h, !.rider[h] = c,
                            !.robbed = @ \cup ({world.rider[h]} \ {Nobody})]
     IN world' = IF w.master[h] = Nobody THEN w ELSE Unfollowed(w, {h})
Alight(c) ==
  /\ Here(c) /\ world.mount[c] # Nobody
  /\ world' = Dismounted(world, c)

(* Quit, rent, idling out, purge, a script: Extract.                       *)
Vanish(c) ==
  /\ c \notin world.out
  /\ world' = Extracted(world, c)

(* PurgeQueue(), and ~Character for each.                                  *)
MDeleted(w, c) ==   \* its rider stays on it
  LET w1 == Dismounted(Left(w, c), c)
  IN [w1 EXCEPT !.out = @ \cup {c}, !.foe[c] = Nobody, !.master[c] = Nobody,
                !.followers[c] = <<>>, !.rider[c] = Nobody]
Deleted(w, c) ==
  LET w1 == Dismounted(Left(w, c), c)
      w2 == IF w1.rider[c] = Nobody THEN w1 ELSE Dismounted(w1, w1.rider[c])
  IN [w2 EXCEPT !.out = @ \cup {c}, !.foe[c] = Nobody, !.master[c] = Nobody,
                !.followers[c] = <<>>, !.rider[c] = Nobody]
PurgeChars ==
  LET after[n \in 0..Len(world.purged)] ==
        IF n = 0 THEN [world EXCEPT !.purged = <<>>]
        ELSE Deleted(after[n-1], world.purged[n])
  IN world.purged # <<>> /\ world' = after[Len(world.purged)]

(* A new Character: a zone reset, perhaps behind the mobile loaded before  *)
(* it, or a login, perhaps with the horse the player left on.  (Memory a   *)
(* stray pointer still names is not given out again.)                      *)
Unnamed(c) == \A k \in Char : world.mount[k] # c
Load(c, r) ==
  LET w == Arrived([world EXCEPT !.out = @ \ {c}], c, r) IN
  /\ c \in world.out /\ Unnamed(c) /\ r \notin Traps
  /\ \/ world' = w
     \/ /\ c \notin Players
        /\ \E l \in Char \ (Players \cup w.out \cup {c}) : world' = Followed(w, c, l)
     \/ /\ c \in Players
        /\ \E h \in Horses \cap w.out :
             LET w1 == Arrived([w EXCEPT !.out = @ \ {h}], h, r) IN
             /\ Unnamed(h)
             /\ world' \in {[w1 EXCEPT !.mount[c] = h, !.rider[h] = c], Followed(w1, h, c)}

Between ==
  \/ \E c \in Char, v \in Char :
       \/ Attack(c, v) \/ Skill(c, v) \/ Assist(c, v) \/ Rescue(c, v)
       \/ Shadowstep(c, v) \/ Perish(c, v) \/ Follow(c, v) \/ Ride(c, v)
  \/ \E c \in Char : StepBack(c) \/ FollowSelf(c) \/ Ungroup(c) \/ Alight(c) \/ Vanish(c)
  \/ \E c \in Char, r \in Rooms :
       Walk(c, r) \/ Travel(c, r) \/ Teleport(c, r) \/ Void(c, r) \/ Load(c, r)
  \/ PurgeChars

CombatNext ==
  \/ RoundStart
  \/ Turn
  \/ turn = Nobody /\ Between /\ UNCHANGED turn

CombatSpec == CombatInit /\ [][CombatNext]_combatVars

--------------------------------------------------------------------------
(* combat_list holds whoever fights, once; foes stand in one room; and only *)
(* a greyman who came out of the shadows fights without being listed.      *)
FightsListed ==
  /\ IsInjective(world.list)
  /\ world.cursor \in Range(world.list) \cup {Nobody}
  /\ \A c \in Char :
       /\ c \in Range(world.list) => world.foe[c] # Nobody
       /\ world.foe[c] # Nobody =>
            /\ c \in Range(world.list) \cup world.stepped
            /\ world.foe[c] # c /\ world.room[c] # Nowhere
            /\ world.room[world.foe[c]] = world.room[c]

(* Whatever the turns of a round do to the list it walks, nobody has a     *)
(* second turn in it, and whoever was listed when it began and has not     *)
(* left off fighting has had his when it ends.                             *)
FairRounds ==
  /\ turn \notin world.had
  /\ turn = Nobody => world.due = {}

(* Leaders and followers, horses and riders name each other; nobody        *)
(* follows in a circle; and the extracted neither lead nor follow.         *)
LeadersAgree ==
  /\ \A c \in Char, l \in Char :
       /\ world.master[c] = l <=> c \in Range(world.followers[l])
       /\ world.master[c] = l => ~CircleFollow(world, c, l)
       /\ world.rider[l] = c => world.mount[c] = l
  /\ \A c \in Char :
       /\ IsInjective(world.followers[c])
       /\ c \in Range(world.purged) => world.master[c] = Nobody /\ world.followers[c] = <<>>
       /\ world.mount[c] # Nobody =>
            c \in {world.rider[world.mount[c]]} \cup world.robbed

(* Nothing points to a deleted character, except the rider whose horse     *)
(* another mounted while he was away from it.                              *)
NothingDangles ==
  /\ world.out \cap (Range(world.list) \cup {turn, world.cursor}) = {}
  /\ \A c \in Char \ world.out :
       /\ {world.foe[c], world.master[c], world.rider[c]} \cap world.out = {}
       /\ Range(world.followers[c]) \cap world.out = {}
       /\ world.mount[c] \in world.out => c \in world.robbed
  /\ \A r \in Rooms : Range(world.people[r]) \cap world.out = {}

(* No command, script or round reaches one of the core_dump()s of          *)
(* SetFighting, add_follower and stopFollowing.                            *)
NoCoreDump == ~world.dumped
=============================================================================

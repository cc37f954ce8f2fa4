---------------------------- MODULE CharacterProofs ----------------------------
(***************************************************************************)
(* Proofs about what characters do.  Combat, for any number of characters  *)
(* and rooms: the fights and the round that walks them, who follows and    *)
(* rides whom, and that no command, script or deletion leaves a pointer    *)
(* astray.  Guilds, for any number of players and gods, rows, failed       *)
(* queries and restarts: what backs a guild, what was decided, and that    *)
(* nobody has two under way.                                               *)
(***************************************************************************)
EXTENDS Combat, Guilds, ListProofs, FiniteSetTheorems, SequenceTheorems

Worlds ==
  [room: [Char -> Rooms \union {Nowhere}], people: [Rooms -> Seq(Char)],
   foe: [Char -> Char \union {Nobody}], list: Seq(Char), cursor: Char \union {Nobody},
   master: [Char -> Char \union {Nobody}], followers: [Char -> Seq(Char)],
   mount: [Char -> Char \union {Nobody}], rider: [Char -> Char \union {Nobody}],
   purged: Seq(Char), out: SUBSET Char, due: SUBSET Char, had: SUBSET Char,
   stepped: SUBSET Char, robbed: SUBSET Char, dumped: BOOLEAN]

\* Everyone is in one room, once, and the deleted are in none.
Placed(w) ==
  /\ \A r \in Rooms : Once(w.people[r])
  /\ \A c \in Char, r \in Rooms : c \in Range(w.people[r]) <=> w.room[c] = r
  /\ \A c \in w.out : w.room[c] = Nowhere

\* FightsListed, without the cursor.
Listed(w) ==
  /\ Once(w.list)
  /\ \A c \in Char : c \in Range(w.list) => w.foe[c] # Nobody
  /\ \A c \in Char : w.foe[c] # Nobody =>
       /\ c \in Range(w.list) \union w.stepped
       /\ w.foe[c] # c /\ w.room[c] # Nowhere /\ w.room[w.foe[c]] = w.room[c]

\* Those from x on are the ones who await their turn.
Walked(w, x) ==
  /\ x \in Range(w.list) \union {Nobody}
  /\ w.due = From(w.list, x) /\ w.had \cap w.due = {}

\* Leaders and followers know each other, in no circle; the extracted do neither.
Led(w) ==
  /\ \A c \in Char, l \in Char : w.master[c] = l <=> c \in Range(w.followers[l])
  /\ \A l \in Char : Once(w.followers[l])
  /\ \A c \in Char, l \in Char : w.master[c] = l => ~CircleFollow(w, c, l)
  /\ Once(w.purged) /\ Range(w.purged) \cap w.out = {}
  /\ \A c \in Range(w.purged) \union w.out : w.master[c] = Nobody /\ w.followers[c] = <<>>

\* Riders and horses know each other, but for those who were robbed.
Ridden(w) ==
  /\ \A c \in Char, h \in Char : w.rider[h] = c => w.mount[c] = h
  /\ \A c \in Char : w.mount[c] # Nobody => c \in {w.rider[w.mount[c]]} \union w.robbed
  /\ \A c \in Char : w.mount[c] \in w.out => c \in w.robbed
  /\ \A c \in w.out : w.mount[c] = Nobody /\ w.rider[c] = Nobody

Sound(w) == w \in Worlds /\ Placed(w) /\ Listed(w) /\ Led(w) /\ Ridden(w) /\ ~w.dumped
Good(w) == Sound(w) /\ Walked(w, w.cursor)

CombatInv ==
  /\ Sound(world) /\ Walked(world, turn)
  /\ world.cursor \in {turn, Nobody}
  /\ turn = Nobody => world.had = {}

\* What a function leaves as it was; where nobody walks the list, nobody will.
SameParty(w, T) ==
  /\ T.master = w.master /\ T.followers = w.followers
  /\ T.mount = w.mount /\ T.rider = w.rider /\ T.robbed = w.robbed
  /\ T.purged = w.purged /\ T.out = w.out /\ T.had = w.had
  /\ w.cursor = Nobody => T.cursor = Nobody
SamePlaces(w, T) == T.room = w.room /\ T.people = w.people
SameFights(w, T) ==
  /\ T.foe = w.foe /\ T.list = w.list /\ T.cursor = w.cursor
  /\ T.due = w.due /\ T.stepped = w.stepped /\ T.had = w.had

\* The types of what a world consists of.
LEMMA Fields ==
  ASSUME NEW w \in Worlds
  PROVE  /\ w.room \in [Char -> Rooms \union {Nowhere}] /\ w.people \in [Rooms -> Seq(Char)]
         /\ w.foe \in [Char -> Char \union {Nobody}] /\ w.list \in Seq(Char)
         /\ w.cursor \in Char \union {Nobody}
         /\ w.master \in [Char -> Char \union {Nobody}] /\ w.followers \in [Char -> Seq(Char)]
         /\ w.mount \in [Char -> Char \union {Nobody}] /\ w.rider \in [Char -> Char \union {Nobody}]
         /\ w.purged \in Seq(Char) /\ w.out \subseteq Char /\ w.due \subseteq Char
         /\ w.had \subseteq Char /\ w.stepped \subseteq Char /\ w.robbed \subseteq Char
         /\ w.dumped \in BOOLEAN
BY DEF Worlds

LEMMA InList ==
  ASSUME NEW S, NEW s \in Seq(S)
  PROVE  Range(s) \subseteq S
BY DEF Range

\* What is not about fights does not mind them.
LEMMA OnlyFights ==
  ASSUME NEW w, Sound(w), NEW T \in Worlds, SameParty(w, T), SamePlaces(w, T),
         T.dumped = w.dumped, Listed(T)
  PROVE  Sound(T)
<1>1. Placed(T)
  BY DEF Sound, Placed, SameParty, SamePlaces
<1>2. Led(T)
  <2>1. \A c, l \in Char : CircleFollow(T, c, l) <=> CircleFollow(w, c, l)
    BY DEF CircleFollow, SameParty
  <2> QED BY <2>1 DEF Sound, Led, SameParty
<1>3. Ridden(T)
  BY DEF Sound, Ridden, SameParty
<1> QED BY <1>1, <1>2, <1>3 DEF Sound

-------------------------------------------------------------------------------
(* Fights.                                                                 *)

\* The cursor of a walk is moved past those who are taken off the list.
LEMMA CursorFacts ==
  ASSUME NEW s \in Seq(Char), NEW S, NEW x, Once(s), x \in Range(s) \union {Nobody}
  PROVE  LET y == IF x \in S THEN FirstOf(s, From(s, x) \ S) ELSE x IN
         /\ y \in (Range(s) \ S) \union {Nobody}
         /\ From(Without(s, S), y) = From(s, x) \ S
         /\ x = Nobody => y = Nobody
<1> DEFINE y == IF x \in S THEN FirstOf(s, From(s, x) \ S) ELSE x
           t == Without(s, S)
<1>1. Range(s) \subseteq Char /\ Range(t) = Range(s) \ S /\ t \in Seq(Char)
  BY InList, WithoutFacts
<1>2. Nobody \notin Range(s) /\ Nobody \notin Range(t) /\ From(s, Nobody) = {} /\ From(t, Nobody) = {}
  <2>1. Nobody \notin Range(s) /\ Nobody \notin Range(t)
    BY <1>1, CombatAssumption
  <2>2. Once(t)
    BY WithoutOnce
  <2>3. From(s, Nobody) = {}
    BY <2>1, CutFacts
  <2> HIDE DEF t
  <2>4. From(t, Nobody) = {}
    BY <1>1, <2>1, <2>2, CutFacts
  <2> QED BY <2>1, <2>3, <2>4
<1>3. From(s, x) \subseteq Range(s)
  BY DEF From
<1>4. x = Nobody => y = Nobody
  BY <1>2 DEF FirstOf
<1>5. CASE x \notin S
  BY <1>4, <1>5, <1>1, CutFacts
<1>6. CASE x \in S /\ From(s, x) \ S = {}
  <2>1. y = Nobody
    BY <1>6 DEF FirstOf
  <2> QED BY <2>1, <1>2, <1>4, <1>6
<1>7. CASE x \in S /\ From(s, x) \ S # {}
  <2>1. y = Foremost(s, From(s, x) \ S)
    BY <1>3, <1>7 DEF FirstOf
  <2>2. Foremost(s, From(s, x) \ S) \in From(s, x) \ S
        /\ From(t, Foremost(s, From(s, x) \ S)) = From(s, x) \ S
    BY <1>7, CutFacts
  <2> QED BY <2>1, <2>2, <1>3, <1>4
<1> QED BY <1>4, <1>5, <1>6, <1>7

\* StopFighting takes its characters off the list, and the cursor past them.
LEMMA StoppedKeeps ==
  ASSUME NEW w, Good(w), NEW S
  PROVE  LET T == Stopped(w, S) IN
         /\ Good(T) /\ SameParty(w, T) /\ SamePlaces(w, T)
         /\ \A c \in Char : T.foe[c] = IF c \in S THEN Nobody ELSE w.foe[c]
         /\ Range(T.list) = Range(w.list) \ S
<1> DEFINE x == IF w.cursor \in S THEN FirstOf(w.list, From(w.list, w.cursor) \ S) ELSE w.cursor
           list == Without(w.list, S)
           due == w.due \ S
           stepped == w.stepped \ S
           foe == [c \in Char |-> IF c \in S THEN Nobody ELSE w.foe[c]]
<1>1. w \in Worlds /\ w.list \in Seq(Char) /\ w.foe \in [Char -> Char \union {Nobody}]
  BY Fields DEF Good, Sound
<1>2. list \in Seq(Char) /\ Range(list) = Range(w.list) \ S /\ Once(list)
  BY <1>1, WithoutFacts, WithoutOnce DEF Good, Sound, Listed
<1>3. /\ x \in (Range(w.list) \ S) \union {Nobody} /\ From(list, x) = From(w.list, w.cursor) \ S
      /\ w.cursor = Nobody => x = Nobody
  <2>1. Once(w.list) /\ w.cursor \in Range(w.list) \union {Nobody}
    BY DEF Good, Sound, Listed, Walked
  <2> QED BY <1>1, <2>1, CursorFacts
<1>4. x \in Char \union {Nobody} /\ foe \in [Char -> Char \union {Nobody}]
  BY <1>1, <1>3, InList
<1>5. due \subseteq Char /\ stepped \subseteq Char /\ due = From(list, x)
  BY <1>1, <1>3, Fields DEF Good, Walked
<1>6. PICK T : T = Stopped(w, S)
  OBVIOUS
<1>7. T = [w EXCEPT !.cursor = x, !.list = list, !.due = due, !.stepped = stepped, !.foe = foe]
  BY <1>1, <1>6 DEF Stopped
<1>8. \A c \in Char : foe[c] = IF c \in S THEN Nobody ELSE w.foe[c]
  OBVIOUS
<1> HIDE DEF x, list, foe
<1>9. /\ T \in Worlds /\ T.cursor = x /\ T.list = list /\ T.due = due /\ T.stepped = stepped
      /\ T.foe = foe /\ SameParty(w, T) /\ SamePlaces(w, T) /\ T.dumped = w.dumped
  BY <1>1, <1>2, <1>3, <1>4, <1>5, <1>7 DEF Worlds, SameParty, SamePlaces
<1>10. Listed(T)
  BY <1>1, <1>2, <1>8, <1>9 DEF Good, Sound, Listed, SamePlaces
<1>11. Walked(T, T.cursor)
  BY <1>2, <1>3, <1>5, <1>9 DEF Good, Walked, SameParty
<1>12. Good(T)
  BY <1>9, <1>10, <1>11, OnlyFights DEF Good
<1> QED BY <1>2, <1>6, <1>8, <1>9, <1>12

\* All but the fights themselves.
SameRest(w, T) ==
  /\ SameParty(w, T) /\ SamePlaces(w, T) /\ T.cursor = w.cursor /\ T.due = w.due
  /\ T.stepped = w.stepped /\ T.dumped = w.dumped

\* Fights that begin are put at the head of the list, behind a walk of it.
LEMMA FightsAdded ==
  ASSUME NEW w, Good(w), NEW p \in Seq(Char), Once(p), Range(p) \cap Range(w.list) = {},
         NEW T \in Worlds, SameRest(w, T), T.list = p \o w.list,
         \A c \in Range(p) : T.foe[c] # Nobody,
         \A c \in Char : T.foe[c] # w.foe[c] =>
           /\ c \in Range(p) \union Range(w.list) \union w.stepped
           /\ T.foe[c] \in Char /\ T.foe[c] # c
           /\ w.room[c] # Nowhere /\ w.room[T.foe[c]] = w.room[c]
  PROVE  Good(T) /\ SameParty(w, T) /\ SamePlaces(w, T)
<1>1. w \in Worlds /\ w.list \in Seq(Char) /\ w.foe \in [Char -> Char \union {Nobody}]
  BY Fields DEF Good, Sound
<1>2. PICK list, foe : list = T.list /\ foe = T.foe
  OBVIOUS
<1>3. /\ list \in Seq(Char) /\ Range(list) = Range(p) \union Range(w.list) /\ Once(list)
      /\ \A c \in Range(w.list) : From(list, c) = From(w.list, c)
  BY <1>1, <1>2, ConcatFacts DEF Good, Sound, Listed
<1>5. /\ T.list = list /\ T.foe = foe /\ T.cursor = w.cursor /\ T.due = w.due
      /\ T.stepped = w.stepped /\ T.dumped = w.dumped /\ SameParty(w, T) /\ SamePlaces(w, T)
  BY <1>2 DEF SameRest
<1>6. Listed(T)
  <2>1. \A c \in Char : c \in Range(list) => foe[c] # Nobody
    BY <1>3, <1>5, CombatAssumption DEF Good, Sound, Listed
  <2>2. \A c \in Char : foe[c] # Nobody =>
          /\ c \in Range(list) \union w.stepped
          /\ foe[c] # c /\ w.room[c] # Nowhere /\ w.room[foe[c]] = w.room[c]
    BY <1>3, <1>5 DEF Good, Sound, Listed
  <2> QED BY <1>3, <1>5, <2>1, <2>2 DEF Listed, SamePlaces
<1>7. Walked(T, T.cursor)
  <2>1. /\ w.cursor \in Range(w.list) \union {Nobody} /\ w.due = From(w.list, w.cursor)
        /\ w.had \cap w.due = {} /\ Once(w.list)
    BY DEF Good, Sound, Walked, Listed
  <2>2. From(list, w.cursor) = From(w.list, w.cursor)
    <3>1. CASE w.cursor \in Range(w.list)
      BY <1>3, <3>1
    <3>2. CASE w.cursor = Nobody
      <4>1. Nobody \notin Range(w.list) /\ Nobody \notin Range(list)
        BY <1>1, <1>3, InList, CombatAssumption
      <4>2. From(w.list, Nobody) = {}
        BY <1>1, <2>1, <4>1, CutFacts
      <4>3. From(list, Nobody) = {}
        BY <1>3, <4>1, CutFacts
      <4> QED BY <3>2, <4>2, <4>3
    <3> QED BY <2>1, <3>1, <3>2
  <2> QED BY <1>3, <1>5, <2>1, <2>2 DEF Walked, SameParty
<1>8. Good(T)
  BY <1>5, <1>6, <1>7, OnlyFights DEF Good
<1> QED BY <1>5, <1>8

\* Two make a list.
LEMMA TwoFacts ==
  ASSUME NEW v \in Char, NEW a \in Char, v # a
  PROVE  <<v, a>> \in Seq(Char) /\ Range(<<v, a>>) = {v, a} /\ Once(<<v, a>>)
<1>1. PICK p : p = <<v, a>>
  OBVIOUS
<1>2. p \in Seq(Char) /\ DOMAIN p = {1, 2} /\ p[1] = v /\ p[2] = a
  BY <1>1
<1>3. Range(p) = {v, a} /\ Once(p)
  BY <1>2 DEF Range, Once
<1> QED BY <1>1, <1>2, <1>3

\* SetFighting, for one who is in a room and does not fight.
LEMMA EngagedKeeps ==
  ASSUME NEW w, Good(w), NEW a \in Char, NEW v \in Char \union {Nobody},
         w.room[a] # Nowhere, w.foe[a] = Nobody
  PROVE  LET T == Engaged(w, a, v) IN
         Good(T) /\ SameParty(w, T) /\ SamePlaces(w, T)
<1>1. w \in Worlds /\ w.list \in Seq(Char) /\ w.foe \in [Char -> Char \union {Nobody}]
  BY Fields DEF Good, Sound
<1>2. CASE v \in {a, Nobody} \/ w.room[a] # w.room[v]
  BY <1>2 DEF Engaged, SameParty, SamePlaces
<1>3. CASE ~(v \in {a, Nobody} \/ w.room[a] # w.room[v]) /\ w.foe[v] # Nobody
  <2>1. PICK p : p = <<a>>
    OBVIOUS
  <2>2. p \in Seq(Char) /\ Range(p) = {a} /\ Once(p)
    BY <2>1, OneFacts
  <2>3. PICK foe : foe = [w.foe EXCEPT ![a] = v]
    OBVIOUS
  <2>4. foe \in [Char -> Char \union {Nobody}] /\ \A c \in Char : foe[c] = IF c = a THEN v ELSE w.foe[c]
    BY <1>1, <2>3
  <2>5. PICK T : T = [w EXCEPT !.list = p \o w.list, !.foe = foe]
    OBVIOUS
  <2>6. T = Engaged(w, a, v)
    BY <1>1, <1>3, <2>1, <2>3, <2>5 DEF Engaged, Worlds
  <2>7. Range(p) \cap Range(w.list) = {}
    BY <2>2 DEF Good, Sound, Listed
  <2>8. /\ \A c \in Range(p) : foe[c] # Nobody
        /\ \A c \in Char : foe[c] # w.foe[c] =>
             /\ c \in Range(p) \union Range(w.list) \union w.stepped
             /\ foe[c] \in Char /\ foe[c] # c
             /\ w.room[c] # Nowhere /\ w.room[foe[c]] = w.room[c]
    BY <1>3, <2>2, <2>4
  <2>9. T \in Worlds /\ T.list = p \o w.list /\ T.foe = foe /\ SameRest(w, T)
    <3>1. PICK list : list = p \o w.list
      OBVIOUS
    <3>2. list \in Seq(Char)
      BY <1>1, <2>2, <3>1, ConcatFacts
    <3> QED BY <1>1, <2>4, <2>5, <3>1, <3>2 DEF Worlds, SameRest, SameParty, SamePlaces
  <2>10. Good(T) /\ SameParty(w, T) /\ SamePlaces(w, T)
    BY <2>2, <2>7, <2>8, <2>9, FightsAdded
  <2> QED BY <2>6, <2>10
<1>4. CASE ~(v \in {a, Nobody} \/ w.room[a] # w.room[v]) /\ w.foe[v] = Nobody
  <2>1. PICK p : p = <<v, a>>
    OBVIOUS
  <2>2. p \in Seq(Char) /\ Range(p) = {v, a} /\ Once(p)
    BY <1>4, <2>1, TwoFacts
  <2>3. PICK foe : foe = [w.foe EXCEPT ![a] = v, ![v] = a]
    OBVIOUS
  <2>4. /\ foe \in [Char -> Char \union {Nobody}]
        /\ \A c \in Char : foe[c] = IF c = v THEN a ELSE IF c = a THEN v ELSE w.foe[c]
    BY <1>1, <1>4, <2>3
  <2>5. PICK T : T = [w EXCEPT !.list = p \o w.list, !.foe = foe]
    OBVIOUS
  <2>6. T = Engaged(w, a, v)
    BY <1>1, <1>4, <2>1, <2>3, <2>5 DEF Engaged, Worlds
  <2>7. Range(p) \cap Range(w.list) = {}
    BY <1>4, <2>2 DEF Good, Sound, Listed
  <2>8. /\ \A c \in Range(p) : foe[c] # Nobody
        /\ \A c \in Char : foe[c] # w.foe[c] =>
             /\ c \in Range(p) \union Range(w.list) \union w.stepped
             /\ foe[c] \in Char /\ foe[c] # c
             /\ w.room[c] # Nowhere /\ w.room[foe[c]] = w.room[c]
    BY <1>4, <2>2, <2>4, CombatAssumption
  <2>9. T \in Worlds /\ T.list = p \o w.list /\ T.foe = foe /\ SameRest(w, T)
    <3>1. PICK list : list = p \o w.list
      OBVIOUS
    <3>2. list \in Seq(Char)
      BY <1>1, <2>2, <3>1, ConcatFacts
    <3> QED BY <1>1, <2>4, <2>5, <3>1, <3>2 DEF Worlds, SameRest, SameParty, SamePlaces
  <2>10. Good(T) /\ SameParty(w, T) /\ SamePlaces(w, T)
    BY <2>2, <2>7, <2>8, <2>9, FightsAdded
  <2> QED BY <2>6, <2>10
<1> QED BY <1>2, <1>3, <1>4

\* Those who stand where c does, and the first of some of them.
LEMMA NearFacts ==
  ASSUME NEW w, Sound(w), NEW c \in Char
  PROVE  /\ Near(w, c) \in Seq(Char) /\ Once(Near(w, c))
         /\ \A t \in Char : t \in Range(Near(w, c)) <=> w.room[c] # Nowhere /\ w.room[t] = w.room[c]
<1>1. w.room \in [Char -> Rooms \union {Nowhere}] /\ w.people \in [Rooms -> Seq(Char)]
  BY Fields DEF Sound
<1>2. CASE w.room[c] = Nowhere
  <2>1. Near(w, c) = <<>>
    BY <1>2 DEF Near
  <2> QED BY <1>2, <2>1 DEF Once, Range
<1>3. CASE w.room[c] # Nowhere
  <2>1. Near(w, c) = w.people[w.room[c]] /\ w.room[c] \in Rooms
    BY <1>1, <1>3 DEF Near
  <2> QED BY <1>1, <1>3, <2>1 DEF Sound, Placed
<1> QED BY <1>2, <1>3

LEMMA FirstOfFacts ==
  ASSUME NEW s \in Seq(Char), NEW T
  PROVE  /\ FirstOf(s, T) \in Char \union {Nobody}
         /\ FirstOf(s, T) # Nobody => FirstOf(s, T) \in Range(s) \cap T
BY InList, ForemostFacts DEF FirstOf

\* SetNewFighting: nobody fights c any more, and those who did have turned to
\* one who fights them.
LEMMA DesertedKeeps ==
  ASSUME NEW w, Good(w), NEW c \in Char
  PROVE  LET T == Deserted(w, c) IN
         /\ Good(T) /\ SameParty(w, T) /\ SamePlaces(w, T)
         /\ T.foe[c] = Nobody /\ \A t \in Char : T.foe[t] # c
<1> DEFINE A == AttackersOf(w, c) \cap Range(Near(w, c))
<1>1. PICK w1 : w1 = Stopped(w, {c} \union A)
  OBVIOUS
<1>2. /\ Good(w1) /\ SameParty(w, w1) /\ SamePlaces(w, w1)
      /\ \A t \in Char : w1.foe[t] = IF t \in {c} \union A THEN Nobody ELSE w.foe[t]
  BY <1>1, StoppedKeeps
<1>3. PICK near : near = Near(w, c)
  OBVIOUS
<1>4. /\ near \in Seq(Char) /\ Once(near)
      /\ \A t \in Char : t \in Range(near) <=> w.room[c] # Nowhere /\ w.room[t] = w.room[c]
  BY <1>3, NearFacts DEF Good
<1>5. A \subseteq Range(near) /\ A \subseteq Char
  BY <1>3 DEF AttackersOf
<1>6. \A t \in Char : w.foe[t] = c => t \in A
  BY <1>3, <1>4, CombatAssumption DEF AttackersOf, Good, Sound, Listed
<1>7. w1.foe \in [Char -> Char \union {Nobody}] /\ w1 \in Worlds
  BY <1>2, Fields DEF Good, Sound
<1> HIDE DEF A
<1> DEFINE next == [t \in A |-> FirstOf(near, AttackersOf(w1, t))]
           turning == {t \in A : next[t] # Nobody}
           left == Without(near, Char \ turning)
           p == Backward(left)
           foe == [t \in Char |-> IF t \in A THEN next[t] ELSE w1.foe[t]]
<1>8. ASSUME NEW t \in A
      PROVE  /\ next[t] \in Char \union {Nobody}
             /\ next[t] # Nobody => next[t] \in Range(near) /\ w1.foe[next[t]] = t
  BY <1>4, FirstOfFacts DEF AttackersOf
<1> HIDE DEF next
<1>9. left \in Seq(Char) /\ Once(left) /\ Range(left) = Range(near) \ (Char \ turning)
  BY <1>4, WithoutFacts, WithoutOnce
<1>10. Range(left) = turning
  BY <1>4, <1>5, <1>9, InList
<1> HIDE DEF left
<1>11. p \in Seq(Char) /\ Once(p) /\ Range(p) = turning
  BY <1>9, <1>10, BackwardFacts
<1>12. /\ foe \in [Char -> Char \union {Nobody}]
       /\ \A t \in Char : foe[t] = IF t \in A THEN next[t] ELSE w1.foe[t]
  BY <1>7, <1>8
<1> HIDE DEF p, foe
<1>13. Range(p) \cap Range(w1.list) = {}
  BY <1>2, <1>5, <1>11 DEF Good, Sound, Listed
<1>14. \A t \in Range(p) : foe[t] # Nobody
  BY <1>5, <1>11, <1>12
<1>15. ASSUME NEW t \in Char, foe[t] # w1.foe[t]
       PROVE  /\ t \in Range(p) \union Range(w1.list) \union w1.stepped
              /\ foe[t] \in Char /\ foe[t] # t
              /\ w1.room[t] # Nowhere /\ w1.room[foe[t]] = w1.room[t]
  <2>1. t \in A /\ foe[t] = next[t] /\ next[t] # Nobody
    BY <1>2, <1>12, <1>15
  <2>2. t \in Range(p) /\ foe[t] \in Char /\ foe[t] \in Range(near) /\ w1.foe[foe[t]] = t
    BY <1>8, <1>11, <2>1
  <2>3. foe[t] # t
    BY <1>2, <2>2, CombatAssumption DEF Good, Sound, Listed
  <2>4. w.room[t] # Nowhere /\ w.room[foe[t]] = w.room[t]
    BY <1>4, <1>5, <2>1, <2>2
  <2> QED BY <1>2, <2>2, <2>3, <2>4 DEF SamePlaces
<1>16. PICK T : T = [w1 EXCEPT !.list = p \o w1.list, !.foe = foe]
  OBVIOUS
<1>17. Good(T) /\ SameParty(w1, T) /\ SamePlaces(w1, T) /\ T.foe = foe
  <2>1. PICK list : list = p \o w1.list
    OBVIOUS
  <2>2. list \in Seq(Char)
    BY <1>7, <1>11, <2>1, Fields, ConcatFacts
  <2>3. T \in Worlds /\ T.list = p \o w1.list /\ T.foe = foe /\ SameRest(w1, T)
    BY <1>7, <1>12, <1>16, <2>1, <2>2 DEF Worlds, SameRest, SameParty, SamePlaces
  <2>4. \A t \in Char : T.foe[t] # w1.foe[t] =>
          /\ t \in Range(p) \union Range(w1.list) \union w1.stepped
          /\ T.foe[t] \in Char /\ T.foe[t] # t
          /\ w1.room[t] # Nowhere /\ w1.room[T.foe[t]] = w1.room[t]
    BY <1>15, <2>3
  <2>5. Good(w1) /\ p \in Seq(Char) /\ Once(p)
    BY <1>2, <1>11
  <2>6. \A t \in Range(p) : T.foe[t] # Nobody
    BY <1>14, <2>3
  <2> QED BY ONLY <1>13, <2>3, <2>4, <2>5, <2>6, FightsAdded
<1>18. Deserted(w, c) = T
  <2>1. Deserted(w, c)
         = [w1 EXCEPT !.list = p \o w1.list,
                      !.foe = [t \in Char |-> IF t \in A THEN next[t] ELSE w1.foe[t]]]
    BY <1>1, <1>3, <1>7 DEF Deserted, A, next, p, left, Worlds
  <2> QED BY <1>16, <2>1 DEF foe
<1>19. foe[c] = Nobody
  <2>1. c \notin A
    BY <1>5, CombatAssumption DEF A, AttackersOf, Good, Sound, Listed
  <2> QED BY <1>2, <1>12, <2>1
<1>20. ASSUME NEW t \in Char PROVE foe[t] # c
  <2>1. CASE t \in A
    BY <1>2, <1>8, <1>12, <2>1, CombatAssumption
  <2>2. CASE t \notin A
    BY <1>2, <1>6, <1>12, <2>2, CombatAssumption
  <2> QED BY <2>1, <2>2
<1> QED BY <1>2, <1>17, <1>18, <1>19, <1>20 DEF SameParty, SamePlaces

-------------------------------------------------------------------------------
(* From room to room.                                                      *)

\* Who has moved still leads, follows and rides whom he did.
LEMMA PartyKept ==
  ASSUME NEW w, Sound(w), NEW T, SameParty(w, T)
  PROVE  Led(T) /\ Ridden(T)
<1>1. \A c, l \in Char : CircleFollow(T, c, l) <=> CircleFollow(w, c, l)
  BY DEF CircleFollow, SameParty
<1> QED BY <1>1 DEF Sound, Led, Ridden, SameParty

\* Only who is in a room fights, and is fought.
LEMMA Away ==
  ASSUME NEW w, Sound(w), NEW c \in Char, w.room[c] = Nowhere
  PROVE  w.foe[c] = Nobody /\ \A t \in Char : w.foe[t] # c
<1>1. w.foe[c] = Nobody
  BY DEF Sound, Listed
<1>2. ASSUME NEW t \in Char, w.foe[t] = c PROVE FALSE
  BY <1>2, CombatAssumption DEF Sound, Listed
<1> QED BY <1>1, <1>2

\* RemoveFromRoom: who leaves does not fight, and is not fought.
LEMMA LeftKeeps ==
  ASSUME NEW w, Good(w), NEW c \in Char
  PROVE  LET T == Left(w, c) IN
         /\ Good(T) /\ SameParty(w, T)
         /\ \A d \in Char : T.room[d] = IF d = c THEN Nowhere ELSE w.room[d]
<1>1. CASE w.room[c] = Nowhere
  BY <1>1 DEF Left, SameParty
<1>2. CASE w.room[c] # Nowhere
  <2>1. PICK w1 : w1 = Deserted(w, c)
    OBVIOUS
  <2>2. /\ Good(w1) /\ SameParty(w, w1) /\ SamePlaces(w, w1)
        /\ w1.foe[c] = Nobody /\ \A t \in Char : w1.foe[t] # c
    BY <2>1, DesertedKeeps
  <2>3. PICK r : r = w.room[c]
    OBVIOUS
  <2>4. /\ w1 \in Worlds /\ w1.room \in [Char -> Rooms \union {Nowhere}]
        /\ w1.people \in [Rooms -> Seq(Char)] /\ r \in Rooms
    BY <1>2, <2>2, <2>3, Fields DEF Good, Sound, SamePlaces
  <2> DEFINE left == Without(w1.people[r], {c})
             people == [w1.people EXCEPT ![r] = left]
             room == [w1.room EXCEPT ![c] = Nowhere]
  <2>5. w1.people[r] \in Seq(Char) /\ Once(w1.people[r])
    BY <2>2, <2>4 DEF Good, Sound, Placed
  <2>6. left \in Seq(Char) /\ Once(left) /\ Range(left) = Range(w1.people[r]) \ {c}
    BY <2>5, WithoutFacts, WithoutOnce
  <2> HIDE DEF left
  <2>7. /\ people \in [Rooms -> Seq(Char)]
        /\ \A q \in Rooms : people[q] = IF q = r THEN left ELSE w1.people[q]
    BY <2>4, <2>6
  <2>8. /\ room \in [Char -> Rooms \union {Nowhere}]
        /\ \A d \in Char : room[d] = IF d = c THEN Nowhere ELSE w1.room[d]
    BY <2>4
  <2>9. PICK T : T = [w1 EXCEPT !.people = people, !.room = room]
    OBVIOUS
  <2>10. T = Left(w, c)
    BY <1>2, <2>1, <2>3, <2>4, <2>9 DEF Left, Worlds, left
  <2> HIDE DEF people, room
  <2>11. /\ T \in Worlds /\ T.people = people /\ T.room = room /\ SameParty(w1, T)
         /\ SameFights(w1, T) /\ T.dumped = w1.dumped
    BY <2>4, <2>7, <2>8, <2>9 DEF Worlds, SameParty, SameFights
  <2>12. Placed(T)
    <3>1. \A q \in Rooms : Once(people[q])
      BY <2>2, <2>6, <2>7 DEF Good, Sound, Placed
    <3>2. ASSUME NEW d \in Char, NEW q \in Rooms
          PROVE  d \in Range(people[q]) <=> room[d] = q
      <4>1. d \in Range(w1.people[q]) <=> w1.room[d] = q
        BY <2>2 DEF Good, Sound, Placed
      <4>2. w1.room[c] = r /\ Nowhere # q
        BY <2>2, <2>3, CombatAssumption DEF SamePlaces
      <4> QED BY <2>6, <2>7, <2>8, <4>1, <4>2
    <3>3. \A d \in w1.out : room[d] = Nowhere
      BY <2>2, <2>4, <2>8, Fields DEF Good, Sound, Placed
    <3> QED BY <2>11, <3>1, <3>2, <3>3 DEF Placed, SameParty
  <2>13. Listed(T)
    <3>1. ASSUME NEW d \in Char, w1.foe[d] # Nobody
          PROVE  room[d] = w1.room[d] /\ room[w1.foe[d]] = w1.room[w1.foe[d]]
      BY <2>2, <2>4, <2>8, <3>1, Fields
    <3> QED BY <2>2, <2>11, <3>1 DEF Good, Sound, Listed, SameFights
  <2>14. Walked(T, T.cursor)
    BY <2>2, <2>11 DEF Good, Walked, SameFights
  <2>15. Good(T)
    BY <2>2, <2>11, <2>12, <2>13, <2>14, PartyKept DEF Good, Sound
  <2>16. SameParty(w, T) /\ \A d \in Char : T.room[d] = IF d = c THEN Nowhere ELSE w.room[d]
    BY <2>2, <2>8, <2>11 DEF SameParty, SamePlaces
  <2> QED BY <2>10, <2>15, <2>16
<1> QED BY <1>1, <1>2

\* MoveToRoom, for one who is in no room.
LEMMA ArrivedKeeps ==
  ASSUME NEW w, Good(w), NEW c \in Char, w.room[c] = Nowhere, c \notin w.out, NEW r \in Rooms
  PROVE  LET T == Arrived(w, c, r) IN
         /\ Good(T) /\ SameParty(w, T)
         /\ \A d \in Char : T.room[d] = IF d = c THEN r ELSE w.room[d]
<1>1. /\ w \in Worlds /\ w.room \in [Char -> Rooms \union {Nowhere}]
      /\ w.people \in [Rooms -> Seq(Char)]
  BY Fields DEF Good, Sound
<1>2. w.foe[c] = Nobody /\ \A t \in Char : w.foe[t] # c
  BY Away DEF Good
<1> DEFINE met == <<c>> \o w.people[r]
           people == [w.people EXCEPT ![r] = met]
           room == [w.room EXCEPT ![c] = r]
<1>3. w.people[r] \in Seq(Char) /\ Once(w.people[r]) /\ c \notin Range(w.people[r])
  BY <1>1, CombatAssumption DEF Good, Sound, Placed
<1>4. met \in Seq(Char) /\ Once(met) /\ Range(met) = Range(w.people[r]) \union {c}
  BY <1>3, PutFacts
<1> HIDE DEF met
<1>5. /\ people \in [Rooms -> Seq(Char)]
      /\ \A q \in Rooms : people[q] = IF q = r THEN met ELSE w.people[q]
  BY <1>1, <1>4
<1>6. /\ room \in [Char -> Rooms \union {Nowhere}]
      /\ \A d \in Char : room[d] = IF d = c THEN r ELSE w.room[d]
  BY <1>1
<1>7. PICK T : T = [w EXCEPT !.people = people, !.room = room]
  OBVIOUS
<1>8. T = Arrived(w, c, r)
  BY <1>1, <1>2, <1>7 DEF Arrived, Worlds, met
<1> HIDE DEF people, room
<1>9. /\ T \in Worlds /\ T.people = people /\ T.room = room /\ SameParty(w, T)
      /\ SameFights(w, T) /\ T.dumped = w.dumped
  BY <1>1, <1>5, <1>6, <1>7 DEF Worlds, SameParty, SameFights
<1>10. Placed(T)
  <2>1. \A q \in Rooms : Once(people[q])
    BY <1>4, <1>5 DEF Good, Sound, Placed
  <2>2. ASSUME NEW d \in Char, NEW q \in Rooms
        PROVE  d \in Range(people[q]) <=> room[d] = q
    <3>1. d \in Range(w.people[q]) <=> w.room[d] = q
      BY DEF Good, Sound, Placed
    <3>2. w.room[c] # q
      BY CombatAssumption
    <3> QED BY <1>4, <1>5, <1>6, <3>1, <3>2
  <2>3. \A d \in w.out : room[d] = Nowhere
    BY <1>1, <1>6, Fields DEF Good, Sound, Placed
  <2> QED BY <1>9, <2>1, <2>2, <2>3 DEF Placed, SameParty
<1>11. Listed(T)
  <2>1. ASSUME NEW d \in Char, w.foe[d] # Nobody
        PROVE  room[d] = w.room[d] /\ room[w.foe[d]] = w.room[w.foe[d]]
    BY <1>1, <1>2, <1>6, <2>1, Fields
  <2> QED BY <1>9, <2>1 DEF Good, Sound, Listed, SameFights
<1>12. Walked(T, T.cursor)
  BY <1>9 DEF Good, Walked, SameFights
<1>13. Good(T)
  BY <1>9, <1>10, <1>11, <1>12, PartyKept DEF Good, Sound
<1> QED BY <1>6, <1>8, <1>9, <1>13

\* From one room to another, alone, or with his horse.
LEMMA MovedKeeps ==
  ASSUME NEW w, Good(w), NEW c \in Char, c \notin w.out, NEW r \in Rooms
  PROVE  LET T == Moved(w, c, r) IN
         /\ Good(T) /\ SameParty(w, T)
         /\ \A d \in Char : T.room[d] = IF d = c THEN r ELSE w.room[d]
<1>1. PICK w1 : w1 = Left(w, c)
  OBVIOUS
<1>2. /\ Good(w1) /\ SameParty(w, w1)
      /\ \A d \in Char : w1.room[d] = IF d = c THEN Nowhere ELSE w.room[d]
  BY <1>1, LeftKeeps
<1>3. PICK T : T = Arrived(w1, c, r)
  OBVIOUS
<1>4. w1.room[c] = Nowhere /\ c \notin w1.out
  BY <1>2 DEF SameParty
<1>5. Good(T) /\ SameParty(w1, T) /\ \A d \in Char : T.room[d] = IF d = c THEN r ELSE w1.room[d]
  BY <1>2, <1>3, <1>4, ArrivedKeeps
<1>6. SameParty(w, T) /\ T = Moved(w, c, r)
  BY <1>1, <1>2, <1>3, <1>5 DEF SameParty, Moved
<1> QED BY <1>2, <1>5, <1>6

LEMMA CarriedKeeps ==
  ASSUME NEW w, Good(w), NEW c \in Char, c \notin w.out, w.mount[c] \notin w.out, NEW r \in Rooms
  PROVE  Good(Carried(w, c, r)) /\ SameParty(w, Carried(w, c, r))
<1>1. w.mount[c] \in Char \union {Nobody}
  BY Fields DEF Good, Sound
<1>2. PICK w1 : w1 = Moved(w, c, r)
  OBVIOUS
<1>3. Good(w1) /\ SameParty(w, w1)
  BY <1>2, MovedKeeps
<1>4. CASE w.mount[c] = Nobody
  BY <1>2, <1>3, <1>4 DEF Carried
<1>5. CASE w.mount[c] # Nobody
  <2>1. PICK h \in Char : h = w.mount[c]
    BY <1>1, <1>5
  <2>2. h \notin w1.out
    BY <1>3, <2>1 DEF SameParty
  <2>3. Good(Moved(w1, h, r)) /\ SameParty(w1, Moved(w1, h, r))
    BY <1>3, <2>2, MovedKeeps
  <2> QED BY <1>2, <1>3, <1>5, <2>1, <2>3 DEF Carried, SameParty
<1> QED BY <1>4, <1>5

-------------------------------------------------------------------------------
(* Riders and horses, leaders and followers.                               *)

SameLeads(w, T) == T.master = w.master /\ T.followers = w.followers /\ T.purged = w.purged
SameRides(w, T) == T.mount = w.mount /\ T.rider = w.rider /\ T.robbed = w.robbed

LEMMA RidesOnly ==
  ASSUME NEW w, Good(w), NEW T \in Worlds, SamePlaces(w, T), SameFights(w, T), SameLeads(w, T),
         T.out = w.out, T.dumped = w.dumped, Ridden(T)
  PROVE  Good(T)
<1>1. Placed(T) /\ Listed(T) /\ Walked(T, T.cursor)
  BY DEF Good, Sound, Placed, Listed, Walked, SamePlaces, SameFights
<1>2. Led(T)
  <2>1. \A c, l \in Char : CircleFollow(T, c, l) <=> CircleFollow(w, c, l)
    BY DEF CircleFollow, SameLeads
  <2> QED BY <2>1 DEF Good, Sound, Led, SameLeads
<1> QED BY <1>1, <1>2 DEF Good, Sound

LEMMA LeadsOnly ==
  ASSUME NEW w, Good(w), NEW T \in Worlds, SamePlaces(w, T), SameFights(w, T), SameRides(w, T),
         T.out = w.out, T.dumped = w.dumped, Led(T)
  PROVE  Good(T)
<1>1. Placed(T) /\ Listed(T) /\ Walked(T, T.cursor)
  BY DEF Good, Sound, Placed, Listed, Walked, SamePlaces, SameFights
<1>2. Ridden(T)
  BY DEF Good, Sound, Ridden, SameRides
<1> QED BY <1>1, <1>2 DEF Good, Sound

\* Dismount: the horse knows its rider no more, unless it has been deleted;
\* and who has its place is robbed.
LEMMA DismountedKeeps ==
  ASSUME NEW w, Good(w), NEW c \in Char
  PROVE  LET T == Dismounted(w, c) IN
         /\ Good(T) /\ SamePlaces(w, T) /\ SameFights(w, T) /\ SameLeads(w, T) /\ T.out = w.out
         /\ \A d \in Char : T.mount[d] = IF d = c THEN Nobody ELSE w.mount[d]
         /\ \A h \in Char \ w.out : T.rider[h] = IF w.mount[c] = h THEN Nobody ELSE w.rider[h]
<1>1. /\ w \in Worlds /\ w.mount \in [Char -> Char \union {Nobody}]
      /\ w.rider \in [Char -> Char \union {Nobody}] /\ w.robbed \subseteq Char
  BY Fields DEF Good, Sound
<1>2. CASE w.mount[c] = Nobody
  <2>1. Dismounted(w, c) = w
    BY <1>2 DEF Dismounted
  <2> QED BY <1>1, <1>2, <2>1, CombatAssumption DEF SamePlaces, SameFights, SameLeads
<1>3. CASE w.mount[c] # Nobody
  <2>1. PICK h \in Char : h = w.mount[c]
    BY <1>1, <1>3
  <2> DEFINE mount == [w.mount EXCEPT ![c] = Nobody]
             rider == IF h \in w.out THEN w.rider ELSE [w.rider EXCEPT ![h] = Nobody]
             robbed == (w.robbed \union {w.rider[h]}) \ {c, Nobody}
  <2>2. /\ mount \in [Char -> Char \union {Nobody}]
        /\ \A d \in Char : mount[d] = IF d = c THEN Nobody ELSE w.mount[d]
    BY <1>1
  <2>3. /\ rider \in [Char -> Char \union {Nobody}]
        /\ \A k \in Char : rider[k] = IF k = h /\ k \notin w.out THEN Nobody ELSE w.rider[k]
    BY <1>1
  <2>4. robbed \subseteq Char
    BY <1>1
  <2>5. PICK T : T = [w EXCEPT !.mount = mount, !.rider = rider, !.robbed = robbed]
    OBVIOUS
  <2>6. T = Dismounted(w, c)
    BY <1>1, <1>3, <2>1, <2>5 DEF Dismounted, Worlds
  <2> HIDE DEF mount, rider
  <2>7. /\ T \in Worlds /\ T.mount = mount /\ T.rider = rider /\ T.robbed = robbed
        /\ SamePlaces(w, T) /\ SameFights(w, T) /\ SameLeads(w, T)
        /\ T.out = w.out /\ T.dumped = w.dumped
    BY <1>1, <2>2, <2>3, <2>4, <2>5 DEF Worlds, SamePlaces, SameFights, SameLeads
  <2>8. Ridden(T)
    <3>1. ASSUME NEW d \in Char, NEW k \in Char, rider[k] = d PROVE mount[d] = k
      <4>1. w.rider[k] = d /\ ~(k = h /\ k \notin w.out)
        BY <2>3, <3>1, CombatAssumption
      <4>2. w.mount[d] = k
        BY <4>1 DEF Good, Sound, Ridden
      <4>3. d # c
        <5>1. ASSUME d = c PROVE FALSE
          <6>1. k = h /\ k \in w.out
            BY <2>1, <4>1, <4>2, <5>1
          <6> QED BY <1>1, <3>1, <4>1, <6>1, CombatAssumption DEF Good, Sound, Ridden
        <5> QED BY <5>1
      <4> QED BY <2>2, <4>2, <4>3
    <3>2. ASSUME NEW d \in Char, mount[d] # Nobody PROVE d \in {rider[mount[d]]} \union robbed
      <4>1. d # c /\ mount[d] = w.mount[d] /\ mount[d] \in Char
        BY <1>1, <2>2, <3>2
      <4>2. d \in {w.rider[mount[d]]} \union w.robbed
        BY <3>2, <4>1 DEF Good, Sound, Ridden
      <4> QED BY <1>1, <2>3, <4>1, <4>2, CombatAssumption
    <3>3. ASSUME NEW d \in Char, mount[d] \in w.out PROVE d \in robbed
      <4>1. d # c /\ mount[d] = w.mount[d]
        BY <1>1, <2>2, <3>3, CombatAssumption, Fields
      <4> QED BY <3>3, <4>1, CombatAssumption DEF Good, Sound, Ridden
    <3>4. \A d \in w.out : mount[d] = Nobody /\ rider[d] = Nobody
      BY <1>1, <2>2, <2>3, Fields DEF Good, Sound, Ridden
    <3> HIDE DEF robbed
    <3> QED BY <2>7, <3>1, <3>2, <3>3, <3>4 DEF Ridden
  <2>9. Good(T)
    BY <2>7, <2>8, RidesOnly
  <2> QED BY <1>1, <2>1, <2>2, <2>3, <2>6, <2>7, <2>9
<1> QED BY <1>2, <1>3

\* Nobody, in a list of nobody.
LEMMA Empty ==
  ASSUME NEW S, NEW s \in Seq(S)
  PROVE  Range(s) = {} <=> s = <<>>
<1>1. DOMAIN s = 1..Len(s) /\ Len(s) \in Nat
  OBVIOUS
<1>2. ASSUME Range(s) = {} PROVE s = <<>>
  <2>1. 1 \notin DOMAIN s
    BY <1>2 DEF Range
  <2>2. Len(s) = 0
    BY <1>1, <2>1
  <2> QED BY <2>2
<1>3. ASSUME s = <<>> PROVE Range(s) = {}
  BY <1>3 DEF Range
<1> QED BY <1>2, <1>3

\* c does not lead l, nor those who lead l.
Apart(w, c, l) ==
  \E S \in SUBSET Char :
    l \in S /\ c \notin S /\ \A k \in S : w.master[k] \in S \union {Nobody}

LEMMA NoCircle ==
  ASSUME NEW w, NEW c, NEW l
  PROVE  ~CircleFollow(w, c, l) <=> Apart(w, c, l)
BY DEF CircleFollow, Apart

\* stopFollowing, of some who follow.
LEMMA UnfollowedKeeps ==
  ASSUME NEW w, Good(w), NEW S, S \subseteq Char, \A c \in S : w.master[c] # Nobody
  PROVE  LET T == Unfollowed(w, S) IN
         /\ Good(T) /\ SamePlaces(w, T) /\ SameFights(w, T) /\ SameRides(w, T)
         /\ T.out = w.out /\ T.purged = w.purged
         /\ \A c \in Char : T.master[c] = IF c \in S THEN Nobody ELSE w.master[c]
         /\ \A l \in Char : Range(T.followers[l]) = {c \in Range(w.followers[l]) : c \notin S}
<1>1. /\ w \in Worlds /\ w.master \in [Char -> Char \union {Nobody}]
      /\ w.followers \in [Char -> Seq(Char)] /\ w.dumped = FALSE
  BY Fields DEF Good, Sound
<1> DEFINE left(l) == Without(w.followers[l], {c \in S : w.master[c] = l})
           followers == [l \in Char |-> left(l)]
           master == [c \in Char |-> IF c \in S THEN Nobody ELSE w.master[c]]
<1>2. ASSUME NEW l \in Char
      PROVE  /\ left(l) \in Seq(Char) /\ Once(left(l))
             /\ \A c \in Char : c \in Range(left(l)) <=> c \in Range(w.followers[l]) /\ c \notin S
  <2>1. w.followers[l] \in Seq(Char) /\ Once(w.followers[l])
    BY <1>1 DEF Good, Sound, Led
  <2>2. /\ left(l) \in Seq(Char) /\ Once(left(l))
        /\ Range(left(l)) = Range(w.followers[l]) \ {c \in S : w.master[c] = l}
    BY <2>1, WithoutFacts, WithoutOnce
  <2>3. \A c \in Char : c \in Range(w.followers[l]) => w.master[c] = l
    BY DEF Good, Sound, Led
  <2> QED BY <2>2, <2>3
<1> HIDE DEF left
<1>3. followers \in [Char -> Seq(Char)] /\ \A l \in Char : followers[l] = left(l)
  BY <1>2
<1>4. /\ master \in [Char -> Char \union {Nobody}]
      /\ \A c \in Char : master[c] = IF c \in S THEN Nobody ELSE w.master[c]
  BY <1>1
<1>5. PICK T : T = [w EXCEPT !.followers = followers, !.master = master]
  OBVIOUS
<1>6. T = Unfollowed(w, S)
  <2>1. (w.dumped \/ \E c \in S : w.master[c] = Nobody) = FALSE
    BY <1>1
  <2> QED BY <1>1, <1>5, <2>1 DEF Unfollowed, Worlds, left
<1> HIDE DEF followers, master
<1>7. /\ T \in Worlds /\ T.followers = followers /\ T.master = master
      /\ SamePlaces(w, T) /\ SameFights(w, T) /\ SameRides(w, T)
      /\ T.out = w.out /\ T.purged = w.purged /\ T.dumped = w.dumped
  BY <1>1, <1>3, <1>4, <1>5 DEF Worlds, SamePlaces, SameFights, SameRides
<1>8. Led(T)
  <2>1. ASSUME NEW c \in Char, NEW l \in Char
        PROVE  master[c] = l <=> c \in Range(followers[l])
    <3>1. w.master[c] = l <=> c \in Range(w.followers[l])
      BY DEF Good, Sound, Led
    <3> QED BY <1>2, <1>3, <1>4, <3>1, CombatAssumption
  <2>2. \A l \in Char : Once(followers[l])
    BY <1>2, <1>3
  <2>3. ASSUME NEW c \in Char, NEW l \in Char, master[c] = l PROVE ~CircleFollow(T, c, l)
    <3>1. w.master[c] = l
      BY <1>4, <2>3, CombatAssumption
    <3>2. Apart(w, c, l)
      BY <3>1, NoCircle DEF Good, Sound, Led
    <3>3. Apart(T, c, l)
      BY <1>4, <1>7, <3>2 DEF Apart
    <3> QED BY <3>3, NoCircle
  <2>4. ASSUME NEW c \in Range(w.purged) \union w.out
        PROVE  master[c] = Nobody /\ followers[c] = <<>>
    <3>1. c \in Char
      BY <1>1, Fields, InList
    <3>2. w.master[c] = Nobody /\ w.followers[c] = <<>>
      BY DEF Good, Sound, Led
    <3>3. Range(followers[c]) = {} /\ followers[c] \in Seq(Char)
      BY <1>1, <1>2, <1>3, <3>1, <3>2, Empty, InList
    <3> QED BY <1>4, <3>1, <3>2, <3>3, Empty
  <2> QED BY <1>7, <2>1, <2>2, <2>3, <2>4 DEF Good, Sound, Led
<1>9. Good(T)
  BY <1>7, <1>8, LeadsOnly
<1>10. \A l \in Char : Range(followers[l]) = {c \in Range(w.followers[l]) : c \notin S}
  BY <1>1, <1>2, <1>3, InList
<1> QED BY <1>4, <1>6, <1>7, <1>9, <1>10

\* add_follower: of one who follows nobody, and does not lead his leader.
LEMMA FollowedKeeps ==
  ASSUME NEW w, Good(w), NEW c \in Char, NEW l \in Char,
         w.master[c] = Nobody, c \notin w.out, l \notin w.out, ~CircleFollow(w, c, l)
  PROVE  LET T == Followed(w, c, l) IN
         /\ Good(T) /\ SamePlaces(w, T) /\ SameFights(w, T) /\ SameRides(w, T)
         /\ T.out = w.out /\ T.purged = w.purged
<1>1. /\ w \in Worlds /\ w.master \in [Char -> Char \union {Nobody}]
      /\ w.followers \in [Char -> Seq(Char)]
  BY Fields DEF Good, Sound
<1>2. CASE {c, l} \cap Range(w.purged) # {}
  BY <1>2 DEF Followed, SamePlaces, SameFights, SameRides
<1>3. CASE {c, l} \cap Range(w.purged) = {}
  <2> DEFINE led == <<c>> \o w.followers[l]
             followers == [w.followers EXCEPT ![l] = led]
             master == [w.master EXCEPT ![c] = l]
  <2>1. w.followers[l] \in Seq(Char) /\ Once(w.followers[l]) /\ c \notin Range(w.followers[l])
    BY <1>1, CombatAssumption DEF Good, Sound, Led
  <2>2. led \in Seq(Char) /\ Once(led) /\ Range(led) = Range(w.followers[l]) \union {c}
    BY <2>1, PutFacts
  <2> HIDE DEF led
  <2>3. /\ followers \in [Char -> Seq(Char)]
        /\ \A k \in Char : followers[k] = IF k = l THEN led ELSE w.followers[k]
    BY <1>1, <2>2
  <2>4. /\ master \in [Char -> Char \union {Nobody}]
        /\ \A k \in Char : master[k] = IF k = c THEN l ELSE w.master[k]
    BY <1>1
  <2>5. PICK T : T = [w EXCEPT !.master = master, !.followers = followers]
    OBVIOUS
  <2>6. T = Followed(w, c, l)
    BY <1>1, <1>3, <2>5, CombatAssumption DEF Followed, Worlds, led
  <2> HIDE DEF followers, master
  <2>7. /\ T \in Worlds /\ T.followers = followers /\ T.master = master
        /\ SamePlaces(w, T) /\ SameFights(w, T) /\ SameRides(w, T)
        /\ T.out = w.out /\ T.purged = w.purged /\ T.dumped = w.dumped
    BY <1>1, <2>3, <2>4, <2>5 DEF Worlds, SamePlaces, SameFights, SameRides
  <2>8. Led(T)
    <3>1. ASSUME NEW d \in Char, NEW k \in Char
          PROVE  master[d] = k <=> d \in Range(followers[k])
      <4>1. w.master[d] = k <=> d \in Range(w.followers[k])
        BY DEF Good, Sound, Led
      <4> QED BY <2>1, <2>2, <2>3, <2>4, <4>1, CombatAssumption
    <3>2. \A k \in Char : Once(followers[k])
      BY <2>2, <2>3 DEF Good, Sound, Led
    <3>3. PICK U \in SUBSET Char :
            l \in U /\ c \notin U /\ \A k \in U : w.master[k] \in U \union {Nobody}
      BY NoCircle DEF Apart
    <3>4. ASSUME NEW d \in Char, NEW k \in Char, master[d] = k PROVE ~CircleFollow(T, d, k)
      <4>1. CASE d = c
        <5>1. k = l /\ \A j \in U : master[j] \in U \union {Nobody}
          BY <2>4, <3>3, <3>4, <4>1
        <5>2. Apart(T, d, k)
          BY <2>7, <3>3, <4>1, <5>1 DEF Apart
        <5> QED BY <5>2, NoCircle
      <4>2. CASE d # c
        <5>1. w.master[d] = k
          BY <2>4, <3>4, <4>2
        <5>2. Apart(w, d, k)
          BY <5>1, NoCircle DEF Good, Sound, Led
        <5>3. PICK S \in SUBSET Char :
                k \in S /\ d \notin S /\ \A j \in S : w.master[j] \in S \union {Nobody}
          BY <5>2 DEF Apart
        <5>4. CASE d \notin U
          <6>1. PICK V : V = S \union U
            OBVIOUS
          <6>2. k \in V /\ d \notin V /\ \A j \in V : master[j] \in V \union {Nobody}
            BY <2>4, <3>3, <5>3, <5>4, <6>1
          <6> QED BY <2>7, <6>1, <6>2, NoCircle DEF Apart
        <5>5. CASE d \in U
          <6>1. PICK V : V = S \cap U
            OBVIOUS
          <6>2. k \in V /\ d \notin V /\ \A j \in V : master[j] \in V \union {Nobody}
            BY <2>4, <3>3, <5>1, <5>3, <5>5, <6>1, CombatAssumption
          <6> QED BY <2>7, <6>1, <6>2, NoCircle DEF Apart
        <5> QED BY <5>4, <5>5
      <4> QED BY <4>1, <4>2
    <3>5. ASSUME NEW k \in Range(w.purged) \union w.out
          PROVE  master[k] = Nobody /\ followers[k] = <<>>
      <4>1. k \in Char /\ k # c /\ k # l
        BY <1>1, <1>3, Fields, InList
      <4>2. w.master[k] = Nobody /\ w.followers[k] = <<>>
        BY DEF Good, Sound, Led
      <4>3. master[k] = w.master[k] /\ followers[k] = w.followers[k]
        BY <2>3, <2>4, <4>1
      <4> QED BY <4>2, <4>3
    <3> QED BY <2>7, <3>1, <3>2, <3>4, <3>5 DEF Good, Sound, Led
  <2>9. Good(T)
    BY <2>7, <2>8, LeadsOnly
  <2> QED BY <2>6, <2>7, <2>9
<1> QED BY <1>2, <1>3

\* die_follower: c neither leads nor follows.
LEMMA ForsakenKeeps ==
  ASSUME NEW w, Good(w), NEW c \in Char
  PROVE  LET T == Forsaken(w, c) IN
         /\ Good(T) /\ SamePlaces(w, T) /\ SameFights(w, T) /\ SameRides(w, T)
         /\ T.out = w.out /\ T.purged = w.purged
         /\ T.master[c] = Nobody /\ T.followers[c] = <<>>
<1>1. PICK w1 : w1 = IF w.master[c] = Nobody THEN w ELSE Unfollowed(w, {c})
  OBVIOUS
<1>2. /\ Good(w1) /\ SamePlaces(w, w1) /\ SameFights(w, w1) /\ SameRides(w, w1)
      /\ w1.out = w.out /\ w1.purged = w.purged /\ w1.master[c] = Nobody
  <2>1. CASE w.master[c] = Nobody
    BY <1>1, <2>1 DEF SamePlaces, SameFights, SameRides
  <2>2. CASE w.master[c] # Nobody
    BY <1>1, <2>2, UnfollowedKeeps
  <2> QED BY <2>1, <2>2
<1>3. PICK S : S = Range(w1.followers[c])
  OBVIOUS
<1>4. w1.followers[c] \in Seq(Char) /\ S \subseteq Char
  BY <1>2, <1>3, Fields, InList DEF Good, Sound
<1>5. \A k \in S : w1.master[k] = c
  BY <1>2, <1>3, <1>4 DEF Good, Sound, Led
<1>6. PICK T : T = Unfollowed(w1, S)
  OBVIOUS
<1>7. \A k \in S : w1.master[k] # Nobody
  BY <1>5, CombatAssumption
<1>8. /\ Good(T) /\ SamePlaces(w1, T) /\ SameFights(w1, T) /\ SameRides(w1, T)
      /\ T.out = w1.out /\ T.purged = w1.purged
      /\ \A k \in Char : T.master[k] = IF k \in S THEN Nobody ELSE w1.master[k]
      /\ \A l \in Char : Range(T.followers[l]) = {k \in Range(w1.followers[l]) : k \notin S}
  BY <1>2, <1>4, <1>6, <1>7, UnfollowedKeeps
<1>9. T.followers[c] \in Seq(Char)
  BY <1>8, Fields DEF Good, Sound
<1>10. Range(T.followers[c]) = {}
  BY <1>3, <1>8
<1>11. T.followers[c] = <<>>
  BY <1>9, <1>10, Empty
<1>12. T = Forsaken(w, c)
  BY <1>1, <1>3, <1>6 DEF Forsaken
<1> QED BY <1>2, <1>8, <1>11, <1>12 DEF SamePlaces, SameFights, SameRides

\* What a handler's functions keep, one after the other.
Kept(w, T) ==
  /\ Good(T) /\ T.out = w.out /\ T.had = w.had
  /\ w.cursor = Nobody => T.cursor = Nobody

LEMMA KeptAll ==
  ASSUME NEW w, NEW x, NEW T, Kept(w, x), Kept(x, T)
  PROVE  Kept(w, T)
BY DEF Kept

\* Extract.
LEMMA ExtractedKeeps ==
  ASSUME NEW w, Good(w), NEW c \in Char, c \notin w.out
  PROVE  Kept(w, Extracted(w, c))
<1>1. CASE c \in Range(w.purged)
  BY <1>1 DEF Extracted, Kept
<1>2. CASE c \notin Range(w.purged)
  <2>1. PICK x : x = Dismounted(w, c)
    OBVIOUS
  <2>2. Good(x) /\ SameFights(w, x) /\ SameLeads(w, x) /\ x.out = w.out
    BY <2>1, DismountedKeeps
  <2>3. PICK w1 : w1 = Forsaken(x, c)
    OBVIOUS
  <2>4. /\ Good(w1) /\ SameFights(x, w1) /\ w1.out = x.out /\ w1.purged = x.purged
        /\ w1.master[c] = Nobody /\ w1.followers[c] = <<>>
    BY <2>2, <2>3, ForsakenKeeps
  <2>5. PICK w2 : w2 = Stopped(w1, AttackersOf(w1, c) \union {c})
    OBVIOUS
  <2>6. Good(w2) /\ SameParty(w1, w2)
    BY <2>4, <2>5, StoppedKeeps
  <2>7. PICK w3 : w3 = Left(w2, c)
    OBVIOUS
  <2>8. Good(w3) /\ SameParty(w2, w3)
    BY <2>6, <2>7, LeftKeeps
  <2>9. PICK purged : purged = Append(w3.purged, c)
    OBVIOUS
  <2>10. /\ w3.out = w.out /\ w3.purged = w.purged /\ w3.had = w.had
         /\ w3.master[c] = Nobody /\ w3.followers[c] = <<>>
         /\ w.cursor = Nobody => w3.cursor = Nobody
    BY <2>2, <2>4, <2>6, <2>8 DEF SameParty, SameFights, SameLeads
  <2>11. w3 \in Worlds /\ w3.purged \in Seq(Char) /\ Once(w3.purged)
    BY <2>8, Fields DEF Good, Sound, Led
  <2>12. purged \in Seq(Char) /\ Range(purged) = Range(w3.purged) \union {c} /\ Once(purged)
    BY <1>2, <2>9, <2>10, <2>11, AppendFacts
  <2>13. PICK T : T = [w3 EXCEPT !.purged = purged]
    OBVIOUS
  <2>14. T = Extracted(w, c)
    BY <1>2, <2>1, <2>3, <2>5, <2>7, <2>9, <2>11, <2>13 DEF Extracted, Worlds
  <2>15. /\ T \in Worlds /\ SamePlaces(w3, T) /\ SameFights(w3, T) /\ SameRides(w3, T)
         /\ T.master = w3.master /\ T.followers = w3.followers /\ T.purged = purged
         /\ T.out = w3.out /\ T.dumped = w3.dumped
    BY <2>11, <2>12, <2>13 DEF Worlds, SamePlaces, SameFights, SameRides
  <2>16. Led(T)
    <3>1. \A d, l \in Char : CircleFollow(T, d, l) <=> CircleFollow(w3, d, l)
      BY <2>15 DEF CircleFollow
    <3>2. Range(purged) \cap w3.out = {}
      BY <2>8, <2>10, <2>12 DEF Good, Sound, Led
    <3>3. \A d \in Range(purged) \union w3.out : w3.master[d] = Nobody /\ w3.followers[d] = <<>>
      BY <2>8, <2>10, <2>12 DEF Good, Sound, Led
    <3> QED BY <2>8, <2>12, <2>15, <3>1, <3>2, <3>3 DEF Good, Sound, Led
  <2>17. Good(T)
    BY <2>8, <2>15, <2>16, LeadsOnly
  <2>18. T.out = w.out /\ T.had = w.had /\ (w.cursor = Nobody => T.cursor = Nobody)
    BY <2>10, <2>15 DEF SameFights
  <2> QED BY <2>14, <2>17, <2>18 DEF Kept
<1> QED BY <1>1, <1>2

\* Die.
LEMMA DiedKeeps ==
  ASSUME NEW w, Good(w), NEW v \in Char, v \notin w.out, NEW k
  PROVE  Kept(w, Died(w, v, k))
<1>1. PICK x : x = Dismounted(w, v)
  OBVIOUS
<1>2. Good(x) /\ SameFights(w, x) /\ x.out = w.out
  BY <1>1, DismountedKeeps
<1>3. PICK S : S = {k, v} \union (IF k = v THEN {} ELSE {w.foe[v]})
  OBVIOUS
<1>4. PICK w1 : w1 = Stopped(x, S)
  OBVIOUS
<1>5. Good(w1) /\ SameParty(x, w1)
  BY <1>2, <1>4, StoppedKeeps
<1>6. Kept(w, w1) /\ v \notin w1.out
  BY <1>2, <1>5 DEF Kept, SameParty, SameFights
<1>7. CASE v \in Players
  <2>1. Start \in Rooms
    BY CombatAssumption
  <2>2. Good(Moved(w1, v, Start)) /\ SameParty(w1, Moved(w1, v, Start))
    BY <1>5, <1>6, <2>1, MovedKeeps
  <2>3. Died(w, v, k) = Moved(w1, v, Start)
    BY <1>1, <1>3, <1>4, <1>7 DEF Died
  <2> QED BY <1>6, <2>2, <2>3 DEF Kept, SameParty
<1>8. CASE v \notin Players
  <2>1. Kept(w1, Extracted(w1, v))
    BY <1>5, <1>6, ExtractedKeeps
  <2>2. Died(w, v, k) = Extracted(w1, v)
    BY <1>1, <1>3, <1>4, <1>8 DEF Died
  <2> QED BY <1>6, <2>1, <2>2, KeptAll
<1> QED BY <1>7, <1>8

-------------------------------------------------------------------------------
(* Blows.                                                                  *)

\* damage(), up to the blow.
LEMMA ProvokedKeeps ==
  ASSUME NEW w, Good(w), NEW a \in Char, NEW v \in Char,
         w.room[v] # Nowhere, w.room[a] = w.room[v], NEW T \in Provoked(w, a, v)
  PROVE  Kept(w, T) /\ SamePlaces(w, T)
<1>1. CASE a = v
  <2>1. T = w
    BY <1>1 DEF Provoked
  <2> QED BY <2>1 DEF Kept, SamePlaces
<1>2. CASE a # v
  <2>1. PICK w1 : w1 = IF w.foe[a] = Nobody THEN Engaged(w, a, v) ELSE w
    OBVIOUS
  <2>2. Good(w1) /\ Kept(w, w1) /\ SamePlaces(w, w1)
    <3>1. CASE w.foe[a] = Nobody
      <4>1. Good(w1) /\ SameParty(w, w1) /\ SamePlaces(w, w1)
        BY <2>1, <3>1, EngagedKeeps
      <4> QED BY <4>1 DEF Kept, SameParty
    <3>2. CASE w.foe[a] # Nobody
      BY <2>1, <3>2 DEF Kept, SamePlaces
    <3> QED BY <3>1, <3>2
  <2>3. PICK W : W = IF w1.foe[v] = Nobody THEN {w1, Engaged(w1, v, a)} ELSE {w1}
    OBVIOUS
  <2>4. PICK x \in W : T = IF x.master[v] = a THEN Unfollowed(x, {v}) ELSE x
    BY <1>2, <2>1, <2>3 DEF Provoked
  <2>5. Good(x) /\ Kept(w1, x) /\ SamePlaces(w1, x)
    <3>1. CASE x = w1
      BY <2>2, <3>1 DEF Kept, SamePlaces
    <3>2. CASE x # w1
      <4>1. x = Engaged(w1, v, a) /\ w1.foe[v] = Nobody
        BY <2>3, <3>2
      <4>2. w1.room[v] # Nowhere
        BY <2>2 DEF SamePlaces
      <4>3. Good(x) /\ SameParty(w1, x) /\ SamePlaces(w1, x)
        BY <2>2, <4>1, <4>2, EngagedKeeps
      <4> QED BY <4>3 DEF Kept, SameParty
    <3> QED BY <3>1, <3>2
  <2>6. Kept(x, T) /\ SamePlaces(x, T)
    <3>1. CASE x.master[v] # a
      BY <2>4, <2>5, <3>1 DEF Kept, SamePlaces
    <3>2. CASE x.master[v] = a
      <4>1. T = Unfollowed(x, {v}) /\ \A c \in {v} : x.master[c] # Nobody
        BY <2>4, <3>2, CombatAssumption
      <4>2. Good(T) /\ SamePlaces(x, T) /\ SameFights(x, T) /\ T.out = x.out
        BY <2>5, <4>1, UnfollowedKeeps
      <4> QED BY <4>2 DEF Kept, SameFights
    <3> QED BY <3>1, <3>2
  <2> QED BY <2>2, <2>5, <2>6, KeptAll DEF SamePlaces
<1> QED BY <1>1, <1>2

\* He who flees takes his horse along.
LEMMA FledKeeps ==
  ASSUME NEW w, Good(w), NEW v \in Char, v \notin w.out, NEW T \in Fled(w, v)
  PROVE  Kept(w, T)
<1>1. w.mount[v] \notin w.out /\ \E r \in Rooms : T = Carried(w, v, r)
  BY DEF Fled
<1>2. PICK r \in Rooms : T = Carried(w, v, r)
  BY <1>1
<1>3. Good(T) /\ SameParty(w, T)
  BY <1>1, <1>2, CarriedKeeps
<1> QED BY <1>3 DEF Kept, SameParty

\* Only who is not deleted is in a room.
LEMMA Alive ==
  ASSUME NEW w, Sound(w), NEW c \in Char, w.room[c] # Nowhere
  PROVE  c \notin w.out
BY DEF Sound, Placed

\* damage().
LEMMA StruckKeeps ==
  ASSUME NEW w, Good(w), NEW a \in Char, NEW v \in Char,
         w.room[v] # Nowhere, w.room[a] = w.room[v], NEW T \in Struck(w, a, v)
  PROVE  Kept(w, T)
<1>1. CASE T = w
  BY <1>1 DEF Kept
<1>2. CASE T # w
  <2>1. PICK x \in Provoked(w, a, v) :
          T \in {x, Died(Stopped(x, {v}), v, a)} \union (IF a = v THEN {} ELSE Fled(x, v))
    BY <1>2 DEF Struck
  <2>2. Good(x) /\ Kept(w, x) /\ SamePlaces(w, x)
    BY ProvokedKeeps DEF Kept
  <2>3. v \notin x.out
    BY <2>2, Alive DEF SamePlaces, Good
  <2>4. CASE T = x
    BY <2>2, <2>4
  <2>5. CASE T \in Fled(x, v)
    <3>1. Kept(x, T)
      BY <2>2, <2>3, <2>5, FledKeeps
    <3> QED BY <2>2, <3>1, KeptAll
  <2>6. CASE T = Died(Stopped(x, {v}), v, a)
    <3>1. PICK y : y = Stopped(x, {v})
      OBVIOUS
    <3>2. Good(y) /\ SameParty(x, y)
      BY <2>2, <3>1, StoppedKeeps
    <3>3. Kept(x, y) /\ v \notin y.out
      BY <2>3, <3>2 DEF Kept, SameParty
    <3>4. Kept(y, T)
      BY <2>6, <3>1, <3>2, <3>3, DiedKeeps
    <3> QED BY <2>2, <3>3, <3>4, KeptAll
  <2> QED BY <2>1, <2>4, <2>5, <2>6
<1> QED BY <1>1, <1>2

\* hit().
LEMMA HitKeeps ==
  ASSUME NEW w, Good(w), NEW a \in Char, NEW v \in Char, w.room[v] # Nowhere,
         NEW T \in Hit(w, a, v)
  PROVE  Kept(w, T)
<1>1. PICK w1 : w1 = IF w.mount[a] = v THEN Dismounted(w, a) ELSE w
  OBVIOUS
<1>2. Good(w1) /\ Kept(w, w1) /\ SamePlaces(w, w1)
  <2>1. CASE w.mount[a] = v
    <3>1. Good(w1) /\ SamePlaces(w, w1) /\ SameFights(w, w1) /\ w1.out = w.out
      BY <1>1, <2>1, DismountedKeeps
    <3> QED BY <3>1 DEF Kept, SameFights
  <2>2. CASE w.mount[a] # v
    BY <1>1, <2>2 DEF Kept, SamePlaces
  <2> QED BY <2>1, <2>2
<1>3. T = w \/ T = w1 \/ (T \in Struck(w1, a, v) /\ w.room[a] = w.room[v])
  BY <1>1 DEF Hit
<1>4. CASE T = w
  BY <1>4 DEF Kept
<1>5. CASE T \in Struck(w1, a, v) /\ w.room[a] = w.room[v]
  <2>1. w1.room[v] # Nowhere /\ w1.room[a] = w1.room[v]
    BY <1>2, <1>5 DEF SamePlaces
  <2>2. Kept(w1, T)
    BY <1>2, <1>5, <2>1, StruckKeeps
  <2> QED BY <1>2, <2>2, KeptAll
<1> QED BY <1>2, <1>3, <1>4, <1>5

\* HitAllFighting().
LEMMA HitAllKeeps ==
  ASSUME NEW w, Good(w), NEW a \in Char, NEW T \in HitAll(w, a)
  PROVE  Kept(w, T)
<1> DEFINE near == Near(w, a)
           Next2(s, v) ==
             IF s.astray \/ s.w.room[v] # w.room[a] THEN {[s EXCEPT !.astray = TRUE]}
             ELSE IF s.w.foe[v] = a \/ s.w.foe[a] = v
                  THEN {[s EXCEPT !.w = x] : x \in Hit(s.w, a, v)}
             ELSE {s}
           After(q, k) == UNION {Next2(s, near[k]) : s \in q}
           none == {[w |-> w, astray |-> FALSE]}
           Ends(f, k) == IF k = 0 THEN none ELSE After(f[k-1], k)
           W == {x \in Worlds : Kept(w, x)}
           Q == SUBSET [w : W, astray : BOOLEAN]
<1>1. PICK n \in Nat : n = Len(near)
  BY NearFacts DEF Good
<1>2. PICK ends : ends = (CHOOSE f : f = [k \in 0..n |-> Ends(f, k)])
  OBVIOUS
<1>3. T \in {s.w : s \in ends[n]}
  <2>1. HitAll(w, a) = {s.w : s \in ends[n]}
    BY <1>1, <1>2, Zenon DEF HitAll
  <2> QED BY <2>1
<1>4. \A k \in 1..n : near[k] \in Char /\ w.room[a] # Nowhere
  <2>1. /\ near \in Seq(Char)
        /\ \A t \in Char : t \in Range(near) => w.room[a] # Nowhere
    BY NearFacts DEF Good
  <2> HIDE DEF near
  <2> QED BY <1>1, <2>1 DEF Range
<1>5. none \in Q
  BY DEF Kept, Good, Sound
<1>6. ASSUME NEW q \in Q, NEW k \in 1..n PROVE After(q, k) \in Q
  <2>1. PICK v \in Char : v = near[k]
    BY <1>4
  <2>2. w.room[a] # Nowhere
    BY <1>4
  <2> HIDE DEF near
  <2>3. ASSUME NEW s \in q, NEW t \in Next2(s, v) PROVE t \in [w : W, astray : BOOLEAN]
    <3>1. s \in [w : W, astray : BOOLEAN] /\ Good(s.w) /\ Kept(w, s.w)
      BY DEF Kept
    <3>2. CASE t = [s EXCEPT !.astray = TRUE] \/ t = s
      BY <3>1, <3>2
    <3>3. CASE s.w.room[v] = w.room[a] /\ \E x \in Hit(s.w, a, v) : t = [s EXCEPT !.w = x]
      <4>1. PICK x \in Hit(s.w, a, v) : t = [s EXCEPT !.w = x]
        BY <3>3
      <4>2. PICK y : y = s.w
        OBVIOUS
      <4>3. Kept(y, x)
        BY <2>2, <3>1, <3>3, <4>1, <4>2, HitKeeps
      <4>4. Kept(w, x)
        BY <3>1, <4>2, <4>3, KeptAll
      <4>5. x \in Worlds
        BY <4>4 DEF Kept, Good, Sound
      <4>6. x \in W
        BY <4>4, <4>5
      <4> HIDE DEF W
      <4> QED BY <3>1, <4>1, <4>6
    <3> QED BY <3>2, <3>3
  <2> HIDE DEF Next2, W
  <2>4. UNION {Next2(s, v) : s \in q} \subseteq [w : W, astray : BOOLEAN]
    BY <2>3
  <2> QED BY <2>1, <2>4
<1>7. ASSUME NEW f, NEW k \in 1..n PROVE Ends(f, k) = After(f[k-1], k)
  <2>1. k # 0
    OBVIOUS
  <2> QED BY <2>1, Zenon
<1>8. ASSUME NEW f PROVE Ends(f, 0) = none
  OBVIOUS
<1>9. ASSUME NEW k \in 0..n, k # 0 PROVE k \in 1..n /\ k - 1 \in 0..n
  BY <1>9
<1>10. \A q \in Q : \A s \in q : Kept(w, s.w)
  OBVIOUS
<1> HIDE DEF After, Ends, none, Q
<1>11. PICK f \in [0..n -> Q] : f[0] = none /\ \A k \in 1..n : f[k] = After(f[k-1], k)
  <2> DEFINE step == [k \in 1..n |-> [q \in Q |-> After(q, k)]]
  <2>1. step \in [1..n -> [Q -> Q]]
    BY <1>6
  <2>2. ASSUME NEW q \in Q, NEW k \in 1..n PROVE step[k][q] = After(q, k)
    OBVIOUS
  <2>3. ASSUME NEW k \in 1..n PROVE k - 1 \in 0..n
    OBVIOUS
  <2> HIDE DEF step
  <2>4. PICK f \in [0..n -> Q] : f[0] = none /\ \A k \in 1..n : f[k] = step[k][f[k-1]]
    BY ONLY <1>5, <2>1, n \in Nat, Recursion
  <2>5. \A k \in 1..n : f[k-1] \in Q
    BY ONLY <2>3, <2>4
  <2>6. \A k \in 1..n : f[k] = After(f[k-1], k)
    BY ONLY <2>2, <2>4, <2>5
  <2> QED BY ONLY <2>4, <2>6
<1>12. f = [k \in 0..n |-> Ends(f, k)]
  <2>1. \A k \in 0..n : f[k] = Ends(f, k)
    BY ONLY <1>7, <1>8, <1>9, <1>11
  <2> QED BY ONLY <1>11, <2>1
<1>13. ends = [k \in 0..n |-> Ends(ends, k)]
  BY ONLY <1>2, <1>12, Zenon
<1>14. ends[n] \in Q
  <2> DEFINE D == {k \in 0..n : ends[k] \in Q}
  <2>1. \A k \in 0..n : ends[k] = Ends(ends, k)
    BY ONLY <1>13
  <2>2. 0 \in D
    BY ONLY <1>5, <1>8, <2>1, n \in Nat
  <2>3. ASSUME NEW k \in D, k \in 0..(n-1) PROVE k + 1 \in D
    <3>1. k + 1 \in 1..n /\ k + 1 \in 0..n /\ (k + 1) - 1 = k
      BY ONLY <2>3, n \in Nat
    <3>2. ends[k + 1] = After(ends[k], k + 1)
      BY ONLY <1>7, <2>1, <3>1
    <3>3. ends[k] \in Q
      OBVIOUS
    <3> QED BY ONLY <1>6, <3>1, <3>2, <3>3
  <2>4. \A k \in D : k \in 0..(n-1) => k + 1 \in D
    BY ONLY <2>3
  <2> HIDE DEF D
  <2>5. 0..n \subseteq D
    BY ONLY <2>2, <2>4, n \in Nat, Induct
  <2>6. n \in D
    BY ONLY <2>5, n \in Nat
  <2> QED BY <2>6 DEF D
<1> QED BY <1>3, <1>10, <1>14

\* Who fights, fights one who stands in his room.
LEMMA FoeFacts ==
  ASSUME NEW w, Sound(w), NEW a \in Char, w.foe[a] # Nobody
  PROVE  /\ w.foe[a] \in Char /\ w.foe[a] # a
         /\ w.room[a] # Nowhere /\ w.room[w.foe[a]] = w.room[a]
         /\ a \notin w.out /\ w.foe[a] \notin w.out
<1>1. /\ w.foe[a] \in Char /\ w.foe[a] # a
      /\ w.room[a] # Nowhere /\ w.room[w.foe[a]] = w.room[a]
  BY Fields DEF Sound, Listed
<1> QED BY <1>1, Alive

\* One blow at his foe, and all that he has in a turn.
LEMMA BlowKeeps ==
  ASSUME NEW w, Good(w), NEW a \in Char, w.foe[a] # Nobody, NEW T \in Hit(w, a, w.foe[a])
  PROVE  Kept(w, T)
<1>1. PICK v \in Char : v = w.foe[a] /\ w.room[v] # Nowhere
  BY FoeFacts DEF Good
<1> QED BY <1>1, HitKeeps

LEMMA BlowsKeep ==
  ASSUME NEW w, Good(w), NEW a \in Char, NEW T \in Blows(w, a)
  PROVE  Kept(w, T)
<1>1. \/ w.foe[a] # Nobody /\ T \in Hit(w, a, w.foe[a])
      \/ \E x : /\ w.foe[a] # Nobody /\ x \in Hit(w, a, w.foe[a])
                /\ x.foe[a] # Nobody /\ T \in Hit(x, a, x.foe[a])
      \/ T \in HitAll(w, a)
  BY DEF Blows
<1>2. CASE w.foe[a] # Nobody /\ T \in Hit(w, a, w.foe[a])
  BY <1>2, BlowKeeps
<1>3. ASSUME NEW x, w.foe[a] # Nobody, x \in Hit(w, a, w.foe[a]),
             x.foe[a] # Nobody, T \in Hit(x, a, x.foe[a])
      PROVE  Kept(w, T)
  <2>1. Kept(w, x) /\ Good(x)
    BY <1>3, BlowKeeps DEF Kept
  <2>2. Kept(x, T)
    BY <1>3, <2>1, BlowKeeps
  <2> QED BY <2>1, <2>2, KeptAll
<1> QED BY <1>1, <1>2, <1>3, HitAllKeeps

\* Whom faceoff() gives stands where the victim does.
LEMMA FaceoffFacts ==
  ASSUME NEW w, Sound(w), NEW v \in Char, NEW p \in Faceoff(w, v)
  PROVE  p \in Char /\ w.room[p] = w.room[v]
<1>1. Near(w, v) \in Seq(Char)
      /\ \A t \in Char : t \in Range(Near(w, v)) => w.room[t] = w.room[v]
  BY NearFacts
<1>2. p = v \/ p \in Range(Near(w, v))
  BY DEF Faceoff
<1> QED BY <1>1, <1>2, InList

\* The fight trigger, of one who fights.
LEMMA TriggeredKeeps ==
  ASSUME NEW w, Good(w), NEW c \in Char, w.foe[c] # Nobody, NEW T \in Triggered(w, c)
  PROVE  Kept(w, T)
<1>1. \/ T = w
      \/ \E x \in {c, w.foe[c]} :
           T = Extracted(w, x) \/ T = Stopped(w, {x}) \/ \E r \in Rooms : T = Moved(w, x, r)
  BY DEF Triggered
<1>2. \A x \in {c, w.foe[c]} : x \in Char /\ x \notin w.out
  BY FoeFacts DEF Good
<1>3. CASE T = w
  BY <1>3 DEF Kept
<1>4. ASSUME NEW x \in Char, x \notin w.out, T = Extracted(w, x) PROVE Kept(w, T)
  BY <1>4, ExtractedKeeps
<1>5. ASSUME NEW x \in Char, T = Stopped(w, {x}) PROVE Kept(w, T)
  <2>1. Good(T) /\ SameParty(w, T)
    BY <1>5, StoppedKeeps
  <2> QED BY <2>1 DEF Kept, SameParty
<1>6. ASSUME NEW x \in Char, x \notin w.out, NEW r \in Rooms, T = Moved(w, x, r) PROVE Kept(w, T)
  <2>1. Good(T) /\ SameParty(w, T)
    BY <1>6, MovedKeeps
  <2> QED BY <2>1 DEF Kept, SameParty
<1> QED BY <1>1, <1>2, <1>3, <1>4, <1>5, <1>6

-------------------------------------------------------------------------------
(* Deletion.                                                               *)

\* Who is in no room, rides nobody, is ridden by nobody, leads and follows
\* nobody may be deleted.
LEMMA OutKeeps ==
  ASSUME NEW w, Good(w), NEW c \in Char, c \notin Range(w.purged), w.room[c] = Nowhere,
         w.mount[c] = Nobody, w.rider[c] = Nobody, w.master[c] = Nobody, w.followers[c] = <<>>,
         NEW T \in Worlds, SamePlaces(w, T), SameFights(w, T), SameLeads(w, T), SameRides(w, T),
         T.out = w.out \union {c}, T.dumped = w.dumped
  PROVE  Good(T)
<1>1. Placed(T) /\ Listed(T) /\ Walked(T, T.cursor)
  BY DEF Good, Sound, Placed, Listed, Walked, SamePlaces, SameFights
<1>2. Led(T)
  <2>1. \A d, l \in Char : CircleFollow(T, d, l) <=> CircleFollow(w, d, l)
    BY DEF CircleFollow, SameLeads
  <2>2. /\ Range(w.purged) \cap (w.out \union {c}) = {}
        /\ \A d \in Range(w.purged) \union (w.out \union {c}) :
             w.master[d] = Nobody /\ w.followers[d] = <<>>
    BY DEF Good, Sound, Led
  <2> QED BY <2>1, <2>2 DEF Good, Sound, Led, SameLeads
<1>3. Ridden(T)
  <2>1. ASSUME NEW k \in Char, w.mount[k] = c PROVE k \in w.robbed
    <3>1. k \in {w.rider[c]} \union w.robbed
      BY <2>1, CombatAssumption DEF Good, Sound, Ridden
    <3> QED BY <3>1, CombatAssumption
  <2>2. \A k \in Char : w.mount[k] \in w.out \union {c} => k \in w.robbed
    BY <2>1 DEF Good, Sound, Ridden
  <2>3. \A k \in w.out \union {c} : w.mount[k] = Nobody /\ w.rider[k] = Nobody
    BY DEF Good, Sound, Ridden
  <2> QED BY <2>2, <2>3 DEF Good, Sound, Ridden, SameRides
<1> QED BY <1>1, <1>2, <1>3 DEF Good, Sound

\* ~Character, of one who neither leads nor follows.
LEMMA DeletedKeeps ==
  ASSUME NEW w, Good(w), NEW c \in Char, c \notin Range(w.purged),
         w.master[c] = Nobody, w.followers[c] = <<>>
  PROVE  LET T == Deleted(w, c) IN
         /\ Good(T) /\ T.purged = w.purged /\ T.had = w.had
         /\ w.cursor = Nobody => T.cursor = Nobody
         /\ T.master = w.master /\ T.followers = w.followers
<1>1. PICK x : x = Left(w, c)
  OBVIOUS
<1>2. Good(x) /\ SameParty(w, x) /\ x.room[c] = Nowhere
  BY <1>1, LeftKeeps
<1>3. PICK w1 : w1 = Dismounted(x, c)
  OBVIOUS
<1>4. /\ Good(w1) /\ SamePlaces(x, w1) /\ SameFights(x, w1) /\ SameLeads(x, w1)
      /\ w1.mount[c] = Nobody
  BY <1>2, <1>3, DismountedKeeps
<1>5. PICK w2 : w2 = IF w1.rider[c] = Nobody THEN w1 ELSE Dismounted(w1, w1.rider[c])
  OBVIOUS
<1>6. /\ Good(w2) /\ SamePlaces(w1, w2) /\ SameFights(w1, w2) /\ SameLeads(w1, w2)
      /\ w2.mount[c] = Nobody /\ w2.rider[c] = Nobody
  <2>1. CASE w1.rider[c] = Nobody
    BY <1>4, <1>5, <2>1 DEF SamePlaces, SameFights, SameLeads
  <2>2. CASE w1.rider[c] # Nobody
    <3>1. PICK k \in Char : k = w1.rider[c]
      BY <1>4, <2>2, Fields DEF Good, Sound
    <3>2. w1.mount[k] = c /\ c \notin w1.out
      BY <1>4, <2>2, <3>1 DEF Good, Sound, Ridden
    <3>3. w2 = Dismounted(w1, k)
      BY <1>5, <2>2, <3>1
    <3>4. /\ Good(w2) /\ SamePlaces(w1, w2) /\ SameFights(w1, w2) /\ SameLeads(w1, w2)
          /\ \A d \in Char : w2.mount[d] = IF d = k THEN Nobody ELSE w1.mount[d]
          /\ \A h \in Char \ w1.out : w2.rider[h] = IF w1.mount[k] = h THEN Nobody ELSE w1.rider[h]
      <4>1. Good(w1)
        BY <1>4
      <4>2. LET T == Dismounted(w1, k) IN
            /\ Good(T) /\ SamePlaces(w1, T) /\ SameFights(w1, T) /\ SameLeads(w1, T) /\ T.out = w1.out
            /\ \A d \in Char : T.mount[d] = IF d = k THEN Nobody ELSE w1.mount[d]
            /\ \A h \in Char \ w1.out : T.rider[h] = IF w1.mount[k] = h THEN Nobody ELSE w1.rider[h]
        BY ONLY <4>1, k \in Char, DismountedKeeps
      <4>3. PICK z : z = Dismounted(w1, k)
        OBVIOUS
      <4> QED BY ONLY <3>3, <4>2, <4>3
    <3> QED BY <1>4, <3>2, <3>4
  <2> QED BY <2>1, <2>2
<1>7. /\ w2.master = w.master /\ w2.followers = w.followers /\ w2.purged = w.purged
      /\ w2.had = w.had /\ w2.room[c] = Nowhere
      /\ w.cursor = Nobody => w2.cursor = Nobody
  BY <1>2, <1>4, <1>6 DEF SameParty, SameLeads, SameFights, SamePlaces
<1>8. w2.foe[c] = Nobody /\ w2 \in Worlds
  BY <1>6, <1>7, Away DEF Good, Sound
<1>9. PICK out : out = w2.out \union {c}
  OBVIOUS
<1>10. PICK T : T = [w2 EXCEPT !.out = out]
  OBVIOUS
<1>11. out \subseteq Char
  BY <1>8, <1>9, Fields
<1>12. /\ T \in Worlds /\ SamePlaces(w2, T) /\ SameFights(w2, T) /\ SameLeads(w2, T)
       /\ SameRides(w2, T) /\ T.out = w2.out \union {c} /\ T.dumped = w2.dumped
  BY <1>8, <1>9, <1>10, <1>11 DEF Worlds, SamePlaces, SameFights, SameLeads, SameRides
<1>13. T = Deleted(w, c)
  <2>1. /\ w2.foe = [w2.foe EXCEPT ![c] = Nobody]
        /\ w2.rider = [w2.rider EXCEPT ![c] = Nobody]
    BY <1>6, <1>8, Fields
  <2>2. /\ w2.master = [w2.master EXCEPT ![c] = Nobody]
        /\ w2.followers = [w2.followers EXCEPT ![c] = <<>>]
    <3>1. w2.master \in [Char -> Char \union {Nobody}] /\ w2.followers \in [Char -> Seq(Char)]
      BY <1>8, Fields
    <3> QED BY <1>7, <3>1
  <2>3. PICK foe, rider, master, followers :
          /\ foe = [w2.foe EXCEPT ![c] = Nobody] /\ rider = [w2.rider EXCEPT ![c] = Nobody]
          /\ master = [w2.master EXCEPT ![c] = Nobody]
          /\ followers = [w2.followers EXCEPT ![c] = <<>>]
    OBVIOUS
  <2>4. Deleted(w, c) = [w2 EXCEPT !.out = out, !.foe = foe, !.master = master,
                                   !.followers = followers, !.rider = rider]
    <3>1. PICK z : z = [w2 EXCEPT !.out = @ \union {c}, !.foe[c] = Nobody, !.master[c] = Nobody,
                                  !.followers[c] = <<>>, !.rider[c] = Nobody]
      OBVIOUS
    <3>2. z = Deleted(w, c)
      BY <1>1, <1>3, <1>5, <3>1 DEF Deleted
    <3>3. z = [w2 EXCEPT !.out = out, !.foe = foe, !.master = master,
                         !.followers = followers, !.rider = rider]
      BY ONLY <1>8, <1>9, <2>3, <3>1 DEF Worlds
    <3> QED BY ONLY <3>2, <3>3
  <2>5. foe = w2.foe /\ rider = w2.rider /\ master = w2.master /\ followers = w2.followers
    BY <2>1, <2>2, <2>3
  <2> QED BY ONLY <1>8, <1>10, <2>4, <2>5 DEF Worlds
<1>14. Good(T)
  BY <1>6, <1>7, <1>8, <1>12, OutKeeps
<1> QED BY <1>7, <1>12, <1>13, <1>14 DEF SameFights, SameLeads

\* PurgeQueue deletes all who are extracted.
LEMMA PurgeCharsKeeps ==
  ASSUME Good(world), world.cursor = Nobody, PurgeChars
  PROVE  Good(world') /\ world'.had = world.had /\ world'.cursor = Nobody
<1> DEFINE p == world.purged
           none == [world EXCEPT !.purged = <<>>]
           After(f, k) == IF k = 0 THEN none ELSE Deleted(f[k-1], p[k])
           Q == {x \in Worlds :
                  /\ Good(x) /\ x.had = world.had /\ x.cursor = Nobody /\ x.purged = <<>>
                  /\ \A c \in Range(p) : x.master[c] = Nobody /\ x.followers[c] = <<>>}
<1>1. PICK n \in Nat : n = Len(p)
  BY Fields DEF Good, Sound
<1>2. PICK after : after = (CHOOSE f : f = [k \in 0..n |-> After(f, k)])
  OBVIOUS
<1>3. world' = after[n]
  BY <1>1, <1>2, Zenon DEF PurgeChars
<1>4. none \in Q
  <2> PICK e : e = <<>>
    OBVIOUS
  <2>1. PICK T : T = [world EXCEPT !.purged = e]
    OBVIOUS
  <2>2. world \in Worlds /\ e \in Seq(Char)
    BY DEF Good, Sound
  <2> HIDE DEF none, Q
  <2>3. /\ T \in Worlds /\ T.purged = e /\ SamePlaces(world, T) /\ SameFights(world, T)
        /\ SameRides(world, T) /\ T.master = world.master /\ T.followers = world.followers
        /\ T.out = world.out /\ T.dumped = world.dumped
    BY ONLY <2>1, <2>2 DEF Worlds, SamePlaces, SameFights, SameRides
  <2>4. Range(e) = {} /\ Once(e)
    BY DEF Range, Once
  <2>5. Led(T)
    <3>1. \A d, l \in Char : CircleFollow(T, d, l) <=> CircleFollow(world, d, l)
      BY <2>3 DEF CircleFollow
    <3> QED BY <2>3, <2>4, <3>1 DEF Good, Sound, Led
  <2>6. Good(T)
    BY <2>3, <2>5, LeadsOnly
  <2>7. \A c \in Range(p) : T.master[c] = Nobody /\ T.followers[c] = <<>>
    BY <2>3 DEF Good, Sound, Led
  <2>8. T.had = world.had /\ T.cursor = Nobody
    BY <2>3 DEF SameFights
  <2> HIDE DEF p
  <2>9. T = none
    BY <2>1 DEF none
  <2> QED BY <2>3, <2>6, <2>7, <2>8, <2>9 DEF Q
<1>5. \A k \in 1..n : p[k] \in Char /\ p[k] \in Range(p)
  <2>1. p \in Seq(Char)
    BY Fields DEF Good, Sound
  <2> HIDE DEF p
  <2> QED BY <1>1, <2>1 DEF Range
<1>6. ASSUME NEW x \in Q, NEW k \in 1..n PROVE Deleted(x, p[k]) \in Q
  <2>1. PICK c \in Char : c = p[k] /\ c \in Range(p)
    BY <1>5
  <2>2. /\ Good(x) /\ x.had = world.had /\ x.cursor = Nobody /\ x.purged = <<>>
        /\ \A d \in Range(p) : x.master[d] = Nobody /\ x.followers[d] = <<>>
    OBVIOUS
  <2>3. c \notin Range(x.purged) /\ x.master[c] = Nobody /\ x.followers[c] = <<>>
    <3>1. Range(<<>>) = {}
      BY DEF Range
    <3> QED BY <2>1, <2>2, <3>1
  <2> HIDE DEF Q, p
  <2>4. PICK T : T = Deleted(x, c)
    OBVIOUS
  <2>5. /\ Good(T) /\ T.purged = x.purged /\ T.had = x.had
        /\ x.cursor = Nobody => T.cursor = Nobody
        /\ T.master = x.master /\ T.followers = x.followers
    BY ONLY <2>2, <2>3, <2>4, c \in Char, DeletedKeeps
  <2>6. T \in Worlds
    BY <2>5 DEF Good, Sound
  <2> QED BY <2>1, <2>2, <2>4, <2>5, <2>6 DEF Q
<1>7. ASSUME NEW f, NEW k \in 1..n PROVE After(f, k) = Deleted(f[k-1], p[k])
  <2>1. k # 0
    OBVIOUS
  <2> QED BY <2>1, Zenon
<1>8. ASSUME NEW f PROVE After(f, 0) = none
  OBVIOUS
<1>9. ASSUME NEW k \in 0..n, k # 0 PROVE k \in 1..n /\ k - 1 \in 0..n
  BY <1>9
<1>10. \A x \in Q : Good(x) /\ x.had = world.had /\ x.cursor = Nobody
  OBVIOUS
<1> HIDE DEF After, none, Q, p
<1>11. PICK f \in [0..n -> Q] : f[0] = none /\ \A k \in 1..n : f[k] = Deleted(f[k-1], p[k])
  <2> DEFINE step == [k \in 1..n |-> [x \in Q |-> Deleted(x, p[k])]]
  <2>1. step \in [1..n -> [Q -> Q]]
    BY <1>6
  <2>2. ASSUME NEW x \in Q, NEW k \in 1..n PROVE step[k][x] = Deleted(x, p[k])
    OBVIOUS
  <2>3. ASSUME NEW k \in 1..n PROVE k - 1 \in 0..n
    OBVIOUS
  <2> HIDE DEF step
  <2>4. PICK f \in [0..n -> Q] : f[0] = none /\ \A k \in 1..n : f[k] = step[k][f[k-1]]
    BY ONLY <1>4, <2>1, n \in Nat, Recursion
  <2>5. \A k \in 1..n : f[k-1] \in Q
    BY ONLY <2>3, <2>4
  <2>6. \A k \in 1..n : f[k] = Deleted(f[k-1], p[k])
    BY ONLY <2>2, <2>4, <2>5
  <2> QED BY ONLY <2>4, <2>6
<1>12. f = [k \in 0..n |-> After(f, k)]
  <2>1. \A k \in 0..n : f[k] = After(f, k)
    BY ONLY <1>7, <1>8, <1>9, <1>11
  <2> QED BY ONLY <1>11, <2>1
<1>13. after = [k \in 0..n |-> After(after, k)]
  BY ONLY <1>2, <1>12, Zenon
<1>14. after[n] \in Q
  <2> DEFINE D == {k \in 0..n : after[k] \in Q}
  <2>1. \A k \in 0..n : after[k] = After(after, k)
    BY ONLY <1>13
  <2>2. 0 \in D
    BY ONLY <1>4, <1>8, <2>1, n \in Nat
  <2>3. ASSUME NEW k \in D, k \in 0..(n-1) PROVE k + 1 \in D
    <3>1. k + 1 \in 1..n /\ k + 1 \in 0..n /\ (k + 1) - 1 = k
      BY ONLY <2>3, n \in Nat
    <3>2. after[k + 1] = Deleted(after[k], p[k + 1])
      BY ONLY <1>7, <2>1, <3>1
    <3>3. after[k] \in Q
      OBVIOUS
    <3> QED BY ONLY <1>6, <3>1, <3>2, <3>3
  <2>4. \A k \in D : k \in 0..(n-1) => k + 1 \in D
    BY ONLY <2>3
  <2> HIDE DEF D
  <2>5. 0..n \subseteq D
    BY ONLY <2>2, <2>4, n \in Nat, Induct
  <2>6. n \in D
    BY ONLY <2>5, n \in Nat
  <2> QED BY <2>6 DEF D
<1> QED BY <1>3, <1>10, <1>14

-------------------------------------------------------------------------------
(* The column that walks behind its leader.                                *)

\* Those who may come along are characters, level by level of who leads whom.
LEMMA ColumnFacts ==
  ASSUME NEW w, Good(w), NEW c \in Char
  PROVE  Column(w, c) \in Seq(Char)
<1> DEFINE none == [k \in Char |-> <<>>]
           Next(q) == [k \in Char |-> <<k>> \o Joined([i \in DOMAIN w.followers[k] |->
                                                        q[w.followers[k][i]]])]
           Level(f, k) == IF k = 0 THEN none ELSE Next(f[k-1])
           Q == [Char -> Seq(Char)]
<1>1. PICK n \in Nat : n = Cardinality(Char)
  BY CombatAssumption, FS_CardinalityType
<1>2. PICK led : led = (CHOOSE f : f = [m \in 0..n |-> Level(f, m)])
  OBVIOUS
<1>3. Column(w, c) = led[n][c]
  BY <1>1, <1>2, Zenon DEF Column
<1>4. none \in Q
  OBVIOUS
<1>5. ASSUME NEW q \in Q PROVE Next(q) \in Q
  <2>1. ASSUME NEW k \in Char
        PROVE  <<k>> \o Joined([i \in DOMAIN w.followers[k] |-> q[w.followers[k][i]]]) \in Seq(Char)
    <3>1. PICK s \in Seq(Char) : s = w.followers[k]
      BY Fields DEF Good, Sound
    <3>2. PICK ss : ss = [i \in DOMAIN s |-> q[s[i]]]
      OBVIOUS
    <3>3. \A i \in DOMAIN s : s[i] \in Char
      OBVIOUS
    <3>4. \A i \in DOMAIN s : q[s[i]] \in Seq(Char)
      BY ONLY q \in [Char -> Seq(Char)], <3>3
    <3>5. DOMAIN s = 1..Len(s) /\ Len(s) \in Nat
      OBVIOUS
    <3>6. ss \in Seq(Seq(Char))
      BY ONLY <3>2, <3>4, <3>5
    <3>7. PICK t : t = Joined(ss)
      OBVIOUS
    <3>8. t \in Seq(Char)
      BY ONLY <3>6, <3>7, JoinedFacts
    <3>9. <<k>> \o t \in Seq(Char)
      BY <3>8
    <3> QED BY ONLY <3>1, <3>2, <3>7, <3>9
  <2> QED BY ONLY <2>1
<1>6. ASSUME NEW f, NEW k \in 1..n PROVE Level(f, k) = Next(f[k-1])
  <2>1. k # 0
    OBVIOUS
  <2> HIDE DEF Next
  <2> QED BY <2>1, Zenon
<1>7. ASSUME NEW f PROVE Level(f, 0) = none
  OBVIOUS
<1>8. ASSUME NEW k \in 0..n, k # 0 PROVE k \in 1..n /\ k - 1 \in 0..n
  BY <1>8
<1>9. \A q \in Q : q[c] \in Seq(Char)
  OBVIOUS
<1> HIDE DEF Next, Level, none, Q
<1>10. PICK f \in [0..n -> Q] : f[0] = none /\ \A k \in 1..n : f[k] = Next(f[k-1])
  <2> DEFINE step == [k \in 1..n |-> [q \in Q |-> Next(q)]]
  <2>1. step \in [1..n -> [Q -> Q]]
    BY <1>5
  <2>2. ASSUME NEW q \in Q, NEW k \in 1..n PROVE step[k][q] = Next(q)
    OBVIOUS
  <2>3. ASSUME NEW k \in 1..n PROVE k - 1 \in 0..n
    OBVIOUS
  <2> HIDE DEF step
  <2>4. PICK f \in [0..n -> Q] : f[0] = none /\ \A k \in 1..n : f[k] = step[k][f[k-1]]
    BY ONLY <1>4, <2>1, n \in Nat, Recursion
  <2>5. \A k \in 1..n : f[k-1] \in Q
    BY ONLY <2>3, <2>4
  <2>6. \A k \in 1..n : f[k] = Next(f[k-1])
    BY ONLY <2>2, <2>4, <2>5
  <2> QED BY ONLY <2>4, <2>6
<1>11. f = [k \in 0..n |-> Level(f, k)]
  <2>1. \A k \in 0..n : f[k] = Level(f, k)
    BY ONLY <1>6, <1>7, <1>8, <1>10
  <2> QED BY ONLY <1>10, <2>1
<1>12. led = [k \in 0..n |-> Level(led, k)]
  BY ONLY <1>2, <1>11, Zenon
<1>13. led[n] \in Q
  <2> DEFINE D == {k \in 0..n : led[k] \in Q}
  <2>1. \A k \in 0..n : led[k] = Level(led, k)
    BY ONLY <1>12
  <2>2. 0 \in D
    BY ONLY <1>4, <1>7, <2>1, n \in Nat
  <2>3. ASSUME NEW k \in D, k \in 0..(n-1) PROVE k + 1 \in D
    <3>1. k + 1 \in 1..n /\ k + 1 \in 0..n /\ (k + 1) - 1 = k
      BY ONLY <2>3, n \in Nat
    <3>2. led[k + 1] = Next(led[k])
      BY ONLY <1>6, <2>1, <3>1
    <3>3. led[k] \in Q
      OBVIOUS
    <3> QED BY ONLY <1>5, <3>1, <3>2, <3>3
  <2>4. \A k \in D : k \in 0..(n-1) => k + 1 \in D
    BY ONLY <2>3
  <2> HIDE DEF D
  <2>5. 0..n \subseteq D
    BY ONLY <2>2, <2>4, n \in Nat, Induct
  <2>6. n \in D
    BY ONLY <2>5, n \in Nat
  <2> QED BY <2>6 DEF D
<1> QED BY <1>3, <1>9, <1>13

\* perform_move: nobody in the column moves a deleted horse, or in vain.
LEMMA WalkKeeps ==
  ASSUME Good(world), NEW c \in Char, NEW r \in Rooms, Walk(c, r)
  PROVE  Kept(world, world')
<1> DEFINE from == world.room[c]
           Steps(w, k) ==
             IF /\ w.foe[k] = Nobody /\ w.room[k] = from /\ w.mount[k] \notin w.out
                /\ k = c \/ w.room[w.master[k]] = r
             THEN Carried(w, k, r) ELSE w
<1>1. Here(c) /\ world.mount[c] \notin world.out
  BY DEF Walk
<1>2. from # Nowhere /\ c \notin world.out
  BY <1>1, Alive DEF Here, Good
<1>3. CASE r \in Traps
  <2>1. PICK w : w = Carried(world, c, r)
    OBVIOUS
  <2>2. Good(w) /\ SameParty(world, w)
    BY <1>1, <1>2, <2>1, CarriedKeeps
  <2>3. Kept(world, w) /\ c \notin w.out
    BY <1>2, <2>2 DEF Kept, SameParty
  <2>4. world' = Died(w, c, c) \/ world' = Extracted(w, c)
    BY <1>3, <2>1 DEF Walk
  <2>5. Kept(w, world')
    <3>1. CASE world' = Died(w, c, c)
      <4>1. Kept(w, Died(w, c, c))
        BY <2>2, <2>3, DiedKeeps
      <4> QED BY <3>1, <4>1
    <3>2. CASE world' = Extracted(w, c)
      <4>1. Kept(w, Extracted(w, c))
        BY <2>2, <2>3, ExtractedKeeps
      <4> QED BY <3>2, <4>1
    <3> QED BY <2>4, <3>1, <3>2
  <2> QED BY <2>3, <2>5, KeptAll
<1>4. CASE r \notin Traps
  <2>1. PICK S, column :
          /\ column = Column(world, c)
          /\ LET line == Without(column, Char \ S)
                 walked[n \in 0..Len(line)] ==
                   IF n = 0 THEN world ELSE Steps(walked[n-1], line[n])
             IN world' = walked[Len(line)]
    BY <1>4 DEF Walk
  <2>2. PICK line : line = Without(column, Char \ S)
    OBVIOUS
  <2>3. line \in Seq(Char)
    <3>1. column \in Seq(Char)
      BY <2>1, ColumnFacts
    <3> QED BY <2>2, <3>1, WithoutFacts
  <2>4. PICK n \in Nat : n = Len(line)
    BY <2>3
  <2> DEFINE Walked2(f, k) == IF k = 0 THEN world ELSE Steps(f[k-1], line[k])
             Q == {x \in Worlds : Kept(world, x)}
  <2>5. PICK walked : walked = (CHOOSE f : f = [k \in 0..n |-> Walked2(f, k)])
    OBVIOUS
  <2> HIDE DEF Steps
  <2>6. world' = walked[n]
    BY <2>1, <2>2, <2>4, <2>5, Zenon
  <2>7. world \in Q
    BY DEF Kept, Good, Sound
  <2>8. \A k \in 1..n : line[k] \in Char
    BY <2>3, <2>4
  <2>9. ASSUME NEW x \in Q, NEW k \in 1..n PROVE Steps(x, line[k]) \in Q
    <3>1. PICK d \in Char : d = line[k]
      BY <2>8
    <3>2. Kept(world, x) /\ x \in Worlds /\ Good(x)
      BY DEF Kept
    <3>3. CASE Steps(x, d) = x
      BY <3>1, <3>3
    <3>4. CASE Steps(x, d) # x
      <4>1. /\ x.room[d] = from /\ x.mount[d] \notin x.out
            /\ Steps(x, d) = Carried(x, d, r)
        BY <3>4 DEF Steps
      <4>2. d \notin x.out
        BY <1>2, <3>2, <4>1, Alive DEF Good
      <4>3. PICK T : T = Carried(x, d, r)
        OBVIOUS
      <4>4. Good(T) /\ SameParty(x, T)
        BY <3>2, <4>1, <4>2, <4>3, CarriedKeeps
      <4>5. Kept(x, T) /\ T \in Worlds
        BY <4>4 DEF Kept, SameParty, Good, Sound
      <4>6. Kept(world, T)
        BY <3>2, <4>5, KeptAll
      <4> QED BY <3>1, <4>1, <4>3, <4>5, <4>6
    <3> QED BY <3>3, <3>4
  <2>10. ASSUME NEW f, NEW k \in 1..n PROVE Walked2(f, k) = Steps(f[k-1], line[k])
    <3>1. k # 0
      OBVIOUS
    <3> QED BY <3>1, Zenon
  <2>11. ASSUME NEW f PROVE Walked2(f, 0) = world
    OBVIOUS
  <2>12. ASSUME NEW k \in 0..n, k # 0 PROVE k \in 1..n /\ k - 1 \in 0..n
    BY <2>12
  <2>13. \A x \in Q : Kept(world, x)
    OBVIOUS
  <2> HIDE DEF Walked2, Q
  <2>14. PICK f \in [0..n -> Q] :
           f[0] = world /\ \A k \in 1..n : f[k] = Steps(f[k-1], line[k])
    <3> DEFINE step == [k \in 1..n |-> [x \in Q |-> Steps(x, line[k])]]
    <3>1. step \in [1..n -> [Q -> Q]]
      BY <2>9
    <3>2. ASSUME NEW x \in Q, NEW k \in 1..n PROVE step[k][x] = Steps(x, line[k])
      OBVIOUS
    <3>3. ASSUME NEW k \in 1..n PROVE k - 1 \in 0..n
      OBVIOUS
    <3> HIDE DEF step
    <3>4. PICK f \in [0..n -> Q] : f[0] = world /\ \A k \in 1..n : f[k] = step[k][f[k-1]]
      BY ONLY <2>7, <3>1, n \in Nat, Recursion
    <3>5. \A k \in 1..n : f[k-1] \in Q
      BY ONLY <3>3, <3>4
    <3>6. \A k \in 1..n : f[k] = Steps(f[k-1], line[k])
      BY ONLY <3>2, <3>4, <3>5
    <3> QED BY ONLY <3>4, <3>6
  <2>15. f = [k \in 0..n |-> Walked2(f, k)]
    <3>1. \A k \in 0..n : f[k] = Walked2(f, k)
      BY ONLY <2>10, <2>11, <2>12, <2>14
    <3> QED BY ONLY <2>14, <3>1
  <2>16. walked = [k \in 0..n |-> Walked2(walked, k)]
    BY ONLY <2>5, <2>15, Zenon
  <2>17. walked[n] \in Q
    <3> DEFINE D == {k \in 0..n : walked[k] \in Q}
    <3>1. \A k \in 0..n : walked[k] = Walked2(walked, k)
      BY ONLY <2>16
    <3>2. 0 \in D
      BY ONLY <2>7, <2>11, <3>1, n \in Nat
    <3>3. ASSUME NEW k \in D, k \in 0..(n-1) PROVE k + 1 \in D
      <4>1. k + 1 \in 1..n /\ k + 1 \in 0..n /\ (k + 1) - 1 = k
        BY ONLY <3>3, n \in Nat
      <4>2. walked[k + 1] = Steps(walked[k], line[k + 1])
        BY ONLY <2>10, <3>1, <4>1
      <4>3. walked[k] \in Q
        OBVIOUS
      <4> QED BY ONLY <2>9, <4>1, <4>2, <4>3
    <3>4. \A k \in D : k \in 0..(n-1) => k + 1 \in D
      BY ONLY <3>3
    <3> HIDE DEF D
    <3>5. 0..n \subseteq D
      BY ONLY <3>2, <3>4, n \in Nat, Induct
    <3>6. n \in D
      BY ONLY <3>5, n \in Nat
    <3> QED BY <3>6 DEF D
  <2> QED BY <2>6, <2>13, <2>17
<1> QED BY <1>3, <1>4

-------------------------------------------------------------------------------
(* Commands.                                                               *)

\* He who fights, or is about to, faces another in his room.
LEMMA FacingKeeps ==
  ASSUME NEW w, Good(w), NEW c \in Char, NEW p \in Char, c # p,
         w.room[c] # Nowhere, w.room[p] = w.room[c], c \in Range(w.list) \union w.stepped
  PROVE  LET T == [w EXCEPT !.foe[c] = p] IN Kept(w, T) /\ SamePlaces(w, T)
<1>1. w \in Worlds /\ w.foe \in [Char -> Char \union {Nobody}] /\ w.list \in Seq(Char)
  BY Fields DEF Good, Sound
<1>2. PICK foe : foe = [w.foe EXCEPT ![c] = p]
  OBVIOUS
<1>3. /\ foe \in [Char -> Char \union {Nobody}]
      /\ \A d \in Char : foe[d] = IF d = c THEN p ELSE w.foe[d]
  BY <1>1, <1>2
<1>4. PICK e : e = <<>>
  OBVIOUS
<1>5. e \in Seq(Char) /\ e \o w.list = w.list
  BY <1>1, <1>4
<1>6. Range(e) = {} /\ Once(e)
  BY <1>4 DEF Range, Once
<1>7. PICK T : T = [w EXCEPT !.foe = foe]
  OBVIOUS
<1>8. T \in Worlds /\ T.list = w.list /\ T.foe = foe /\ SameRest(w, T)
  BY <1>1, <1>3, <1>7 DEF Worlds, SameRest, SameParty, SamePlaces
<1>9. T.list = e \o w.list
  BY <1>5, <1>8
<1>10. \A d \in Char : foe[d] # w.foe[d] =>
         /\ d \in Range(e) \union Range(w.list) \union w.stepped
         /\ foe[d] \in Char /\ foe[d] # d
         /\ w.room[d] # Nowhere /\ w.room[foe[d]] = w.room[d]
  BY <1>3
<1>11. Good(T) /\ SameParty(w, T) /\ SamePlaces(w, T)
  <2>1. Range(e) \cap Range(w.list) = {} /\ \A d \in Range(e) : T.foe[d] # Nobody
    BY <1>6
  <2> QED BY <1>5, <1>6, <1>8, <1>9, <1>10, <2>1, FightsAdded
<1>12. T = [w EXCEPT !.foe[c] = p]
  BY <1>1, <1>2, <1>7 DEF Worlds
<1> QED BY <1>11, <1>12 DEF Kept, SameParty

\* No walk of the list is under way, and none begins.
Calm(T) == Good(T) /\ T.had = {} /\ T.cursor = Nobody

LEMMA KeptCalm ==
  ASSUME NEW w, Calm(w), NEW T, Kept(w, T)
  PROVE  Calm(T)
BY DEF Calm, Kept

LEMMA TogetherFacts ==
  ASSUME Good(world), NEW c \in Char, NEW v \in Char, Together(c, v)
  PROVE  /\ world.room[c] # Nowhere /\ world.room[v] = world.room[c] /\ c # v
         /\ c \notin world.out /\ v \notin world.out
BY Alive DEF Together, Here, Good

LEMMA AttackKeeps ==
  ASSUME Good(world), NEW c \in Char, NEW v \in Char, Attack(c, v)
  PROVE  Kept(world, world')
<1>1. world.room[c] # Nowhere /\ world.room[v] = world.room[c]
  BY TogetherFacts DEF Attack
<1>2. PICK p \in Faceoff(world, v) :
        \/ world.foe[c] = Nobody /\ world' \in Hit(world, c, p)
        \/ /\ world.foe[c] \notin {Nobody, p} /\ world.foe[p] = c
           /\ world' = [world EXCEPT !.foe[c] = p]
  BY DEF Attack
<1>3. p \in Char /\ world.room[p] = world.room[c]
  BY <1>1, FaceoffFacts DEF Good
<1>4. CASE world' \in Hit(world, c, p)
  BY <1>1, <1>3, <1>4, HitKeeps
<1>5. CASE /\ world.foe[c] \notin {Nobody, p} /\ world.foe[p] = c
           /\ world' = [world EXCEPT !.foe[c] = p]
  <2>1. c # p /\ c \in Range(world.list) \union world.stepped
    BY <1>5, CombatAssumption DEF Good, Sound, Listed
  <2> QED BY <1>1, <1>3, <1>5, <2>1, FacingKeeps
<1> QED BY <1>2, <1>4, <1>5

LEMMA SkillKeeps ==
  ASSUME Good(world), NEW c \in Char, NEW v \in Char, Skill(c, v)
  PROVE  Kept(world, world')
<1>1. world.room[v] # Nowhere /\ world.room[c] = world.room[v]
  BY TogetherFacts DEF Skill
<1>2. PICK w \in Struck(world, c, v) :
        IF world.foe[c] = Nobody /\ w.foe[c] # Nobody
        THEN \E p \in Faceoff(w, v) : world' = Engaged(Stopped(w, {c}), c, p)
        ELSE world' = w
  BY DEF Skill
<1>3. Kept(world, w) /\ Good(w)
  BY <1>1, StruckKeeps DEF Kept
<1>4. CASE world' = w
  BY <1>3, <1>4
<1>5. ASSUME w.foe[c] # Nobody, NEW p \in Faceoff(w, v), world' = Engaged(Stopped(w, {c}), c, p)
      PROVE  Kept(world, world')
  <2>1. p \in Char /\ w.room[c] # Nowhere
    BY <1>3, <1>5, FaceoffFacts, FoeFacts DEF Good
  <2>2. PICK x : x = Stopped(w, {c})
    OBVIOUS
  <2>3. /\ Good(x) /\ SameParty(w, x) /\ SamePlaces(w, x)
        /\ \A d \in Char : x.foe[d] = IF d \in {c} THEN Nobody ELSE w.foe[d]
    BY <1>3, <2>2, StoppedKeeps
  <2>4. x.room[c] # Nowhere /\ x.foe[c] = Nobody
    BY <2>1, <2>3 DEF SamePlaces
  <2>5. Good(world') /\ SameParty(x, world')
    BY <1>5, <2>1, <2>2, <2>3, <2>4, EngagedKeeps
  <2> QED BY <1>3, <2>3, <2>5 DEF Kept, SameParty
<1> QED BY <1>2, <1>4, <1>5

LEMMA AssistKeeps ==
  ASSUME Good(world), NEW c \in Char, NEW v \in Char, Assist(c, v)
  PROVE  Kept(world, world')
<1>1. PICK o : o = IF world.foe[v] # Nobody THEN world.foe[v]
                   ELSE FirstOf(Near(world, c), AttackersOf(world, v))
  OBVIOUS
<1>2. o # Nobody /\ world.foe[c] = Nobody /\ world.room[c] # Nowhere
      /\ \E p \in Faceoff(world, o) : world' = Engaged(world, c, p)
  BY <1>1, TogetherFacts DEF Assist
<1>3. o \in Char
  <2>1. Near(world, c) \in Seq(Char)
    BY NearFacts DEF Good
  <2>2. world.foe[v] \in Char \union {Nobody}
    BY Fields DEF Good, Sound
  <2> QED BY <1>1, <1>2, <2>1, <2>2, FirstOfFacts
<1>4. PICK p \in Char : world' = Engaged(world, c, p)
  BY <1>2, <1>3, FaceoffFacts DEF Good
<1>5. Good(world') /\ SameParty(world, world')
  BY <1>2, <1>4, EngagedKeeps
<1> QED BY <1>5 DEF Kept, SameParty

LEMMA RescueKeeps ==
  ASSUME Good(world), NEW c \in Char, NEW v \in Char, Rescue(c, v)
  PROVE  Kept(world, world')
<1>1. PICK t : t = FirstOf(Near(world, c), AttackersOf(world, v))
  OBVIOUS
<1>2. PICK w : w = Stopped(world, {c, t} \union (IF world.foe[v] = t THEN {v} ELSE {}))
  OBVIOUS
<1>3. t # Nobody /\ world.room[c] # Nowhere /\ world' = Engaged(w, c, t)
  BY <1>1, <1>2, TogetherFacts DEF Rescue
<1>4. t \in Char
  <2>1. Near(world, c) \in Seq(Char)
    BY NearFacts DEF Good
  <2> QED BY <1>1, <1>3, <2>1, FirstOfFacts
<1>5. /\ Good(w) /\ SameParty(world, w) /\ SamePlaces(world, w) /\ w.foe[c] = Nobody
  BY <1>2, StoppedKeeps
<1>6. w.room[c] # Nowhere
  BY <1>3, <1>5 DEF SamePlaces
<1>7. Good(world') /\ SameParty(w, world')
  BY <1>3, <1>4, <1>5, <1>6, EngagedKeeps
<1> QED BY <1>5, <1>7 DEF Kept, SameParty

LEMMA ShadowstepKeeps ==
  ASSUME Good(world), NEW c \in Char, NEW v \in Char, Shadowstep(c, v)
  PROVE  Kept(world, world')
<1>1. /\ world.room[c] # Nowhere /\ world.room[v] = world.room[c] /\ c # v
      /\ v \notin world.out
  BY TogetherFacts DEF Shadowstep
<1>2. world \in Worlds
  BY DEF Good, Sound
<1>3. PICK stepped : stepped = IF c \in Range(world.list) THEN world.stepped
                               ELSE world.stepped \union {c}
  OBVIOUS
<1>4. PICK w : w = [world EXCEPT !.stepped = stepped]
  OBVIOUS
<1>5. /\ w \in Worlds /\ SameParty(world, w) /\ SamePlaces(world, w) /\ w.dumped = world.dumped
      /\ w.foe = world.foe /\ w.list = world.list /\ w.cursor = world.cursor /\ w.due = world.due
      /\ w.stepped = stepped
  <2>1. stepped \subseteq Char
    BY <1>2, <1>3, Fields
  <2> QED BY <1>2, <1>4, <2>1 DEF Worlds, SameParty, SamePlaces
<1>6. Listed(w)
  BY <1>3, <1>5 DEF Good, Sound, Listed, SamePlaces
<1>7. Good(w)
  <2>1. Sound(w)
    BY <1>5, <1>6, OnlyFights DEF Good
  <2> QED BY <1>5, <2>1 DEF Good, Walked, SameParty
<1>8. c \in Range(w.list) \union w.stepped /\ w.room[c] # Nowhere /\ w.room[v] = w.room[c]
  BY <1>1, <1>3, <1>5 DEF SamePlaces
<1>9. PICK T : T = [w EXCEPT !.foe[c] = v]
  OBVIOUS
<1>10. Kept(w, T) /\ SamePlaces(w, T)
  BY <1>1, <1>7, <1>8, <1>9, FacingKeeps
<1>11. T = [world EXCEPT !.foe[c] = v,
                         !.stepped = IF c \in Range(world.list) THEN @ ELSE @ \cup {c}]
  BY <1>2, <1>3, <1>4, <1>9 DEF Worlds
<1>12. \/ world' = T
       \/ \E x \in Provoked(T, c, v) : world' = x \/ world' \in Fled(x, v)
  BY <1>11 DEF Shadowstep
<1>13. Kept(world, T) /\ Good(T)
  BY <1>5, <1>10 DEF Kept, SameParty
<1>14. T.room[v] # Nowhere /\ T.room[c] = T.room[v] /\ v \notin T.out
  BY <1>1, <1>8, <1>10, <1>13 DEF SamePlaces, Kept
<1>15. CASE world' = T
  BY <1>13, <1>15
<1>16. ASSUME NEW x \in Provoked(T, c, v), world' = x \/ world' \in Fled(x, v)
       PROVE  Kept(world, world')
  <2>1. Kept(T, x)
    BY <1>13, <1>14, ProvokedKeeps
  <2>2. Kept(world, x)
    BY <1>13, <2>1, KeptAll
  <2>3. Kept(world, x) /\ Good(x) /\ v \notin x.out
    BY <1>14, <2>1, <2>2 DEF Kept
  <2>4. CASE world' = x
    BY <2>3, <2>4
  <2>5. CASE world' \in Fled(x, v)
    <3>1. Kept(x, world')
      BY <2>3, <2>5, FledKeeps
    <3> QED BY <2>3, <3>1, KeptAll
  <2> QED BY <1>16, <2>4, <2>5
<1> QED BY <1>12, <1>15, <1>16

LEMMA StepBackKeeps ==
  ASSUME Good(world), NEW c \in Char, StepBack(c)
  PROVE  Kept(world, world')
<1>1. world' = Deserted(world, c)
  BY DEF StepBack
<1>2. Good(world') /\ SameParty(world, world')
  BY <1>1, DesertedKeeps
<1> QED BY <1>2 DEF Kept, SameParty

LEMMA PerishKeeps ==
  ASSUME Good(world), NEW v \in Char, NEW k \in Char, Perish(v, k)
  PROVE  Kept(world, world')
<1>1. PICK w : w = Stopped(world, {v})
  OBVIOUS
<1>2. world' = Died(w, v, k) /\ v \notin world.out
  BY <1>1, Alive DEF Perish, Here, Good
<1>3. Good(w) /\ SameParty(world, w)
  BY <1>1, StoppedKeeps
<1>4. Kept(world, w) /\ v \notin w.out
  BY <1>2, <1>3 DEF Kept, SameParty
<1>5. Kept(w, world')
  BY <1>2, <1>3, <1>4, DiedKeeps
<1> QED BY <1>4, <1>5, KeptAll

LEMMA TravelKeeps ==
  ASSUME Good(world), NEW c \in Char, NEW r \in Rooms, Travel(c, r) \/ Teleport(c, r) \/ Void(c, r)
  PROVE  Kept(world, world')
<1>1. c \notin world.out
  BY Alive DEF Travel, Teleport, Void, Here, Good
<1>2. CASE Travel(c, r)
  <2>1. Good(world') /\ SameParty(world, world')
    BY <1>1, <1>2, CarriedKeeps DEF Travel
  <2> QED BY <2>1 DEF Kept, SameParty
<1>3. CASE Teleport(c, r)
  <2>1. Good(world') /\ SameParty(world, world')
    BY <1>1, <1>3, MovedKeeps DEF Teleport
  <2> QED BY <2>1 DEF Kept, SameParty
<1>4. CASE Void(c, r)
  <2>1. PICK w : w = Stopped(world, {c, world.foe[c]})
    OBVIOUS
  <2>2. Good(w) /\ SameParty(world, w) /\ world' = Moved(w, c, r)
    BY <1>4, <2>1, StoppedKeeps DEF Void
  <2>3. c \notin w.out
    BY <1>1, <2>2 DEF SameParty
  <2>4. Good(world') /\ SameParty(w, world')
    BY <2>2, <2>3, MovedKeeps
  <2> QED BY <2>2, <2>4 DEF Kept, SameParty
<1> QED BY <1>2, <1>3, <1>4

LEMMA FollowKeeps ==
  ASSUME Good(world), NEW c \in Char, NEW l \in Char, Follow(c, l)
  PROVE  Kept(world, world')
<1>1. c \notin world.out /\ l \notin world.out /\ ~CircleFollow(world, c, l)
  BY TogetherFacts DEF Follow
<1>2. PICK w : w = IF world.master[c] = Nobody THEN world ELSE Unfollowed(world, {c})
  OBVIOUS
<1>3. /\ Good(w) /\ SameFights(world, w) /\ w.out = world.out
      /\ \A k \in Char : w.master[k] \in {world.master[k], Nobody}
      /\ w.master[c] = Nobody
  <2>1. CASE world.master[c] = Nobody
    BY <1>2, <2>1 DEF SameFights
  <2>2. CASE world.master[c] # Nobody
    BY <1>2, <2>2, UnfollowedKeeps
  <2> QED BY <2>1, <2>2
<1>4. ~CircleFollow(w, c, l)
  <2>1. Apart(world, c, l)
    BY <1>1, NoCircle
  <2>2. Apart(w, c, l)
    BY <1>3, <2>1 DEF Apart
  <2> QED BY <2>2, NoCircle
<1>5. world' = Followed(w, c, l)
  BY <1>2 DEF Follow
<1>6. Good(world') /\ SameFights(w, world') /\ world'.out = w.out
  <2>1. c \notin w.out /\ l \notin w.out
    BY <1>1, <1>3
  <2>2. Good(w) /\ w.master[c] = Nobody
    BY <1>3
  <2> QED BY <1>4, <1>5, <2>1, <2>2, FollowedKeeps
<1> QED BY <1>3, <1>6 DEF Kept, SameFights

\* follow self, and ungroup.
LEMMA UngroupKeeps ==
  ASSUME Good(world), NEW c \in Char, FollowSelf(c) \/ Ungroup(c)
  PROVE  Kept(world, world')
<1>1. PICK S : S \subseteq Char /\ (\A k \in S : world.master[k] # Nobody)
               /\ world' = Unfollowed(world, S)
  <2>1. CASE FollowSelf(c)
    BY <2>1 DEF FollowSelf
  <2>2. CASE Ungroup(c)
    <3>1. PICK S : S \subseteq Range(world.followers[c]) /\ world' = Unfollowed(world, S)
      BY <2>2 DEF Ungroup
    <3>2. Range(world.followers[c]) \subseteq Char
      BY Fields, InList DEF Good, Sound
    <3>3. \A k \in S : k \in Char /\ world.master[k] = c
      BY <3>1, <3>2 DEF Good, Sound, Led
    <3> QED BY <3>1, <3>3, CombatAssumption
  <2> QED BY <2>1, <2>2
<1>2. Good(world') /\ SameFights(world, world') /\ world'.out = world.out
  BY <1>1, UnfollowedKeeps
<1> QED BY <1>2 DEF Kept, SameFights

\* Whoever sat on h is robbed of it.
LEMMA MountedKeeps ==
  ASSUME NEW w, Good(w), NEW c \in Char, NEW h \in Char, c \notin w.out, h \notin w.out,
         w.mount[c] = Nobody, NEW T \in Worlds,
         SamePlaces(w, T), SameFights(w, T), SameLeads(w, T), T.out = w.out, T.dumped = w.dumped,
         \A d \in Char : T.mount[d] = IF d = c THEN h ELSE w.mount[d],
         \A k \in Char : T.rider[k] = IF k = h THEN c ELSE w.rider[k],
         T.robbed = w.robbed \union ({w.rider[h]} \ {Nobody})
  PROVE  Good(T)
<1>1. w.mount \in [Char -> Char \union {Nobody}] /\ w.out \subseteq Char
  BY Fields DEF Good, Sound
<1>2. ASSUME NEW d \in Char, NEW k \in Char, T.rider[k] = d PROVE T.mount[d] = k
  <2>1. CASE k = h
    BY <1>2, <2>1
  <2>2. CASE k # h
    <3>1. w.mount[d] = k
      BY <1>2, <2>2 DEF Good, Sound, Ridden
    <3> QED BY <3>1, CombatAssumption
  <2> QED BY <2>1, <2>2
<1>3. ASSUME NEW d \in Char, T.mount[d] # Nobody PROVE d \in {T.rider[T.mount[d]]} \union T.robbed
  <2>1. CASE d = c
    BY <2>1
  <2>2. CASE d # c
    <3>1. T.mount[d] = w.mount[d] /\ w.mount[d] \in Char
      BY <1>1, <1>3, <2>2
    <3>2. d \in {w.rider[w.mount[d]]} \union w.robbed
      BY <1>3, <3>1 DEF Good, Sound, Ridden
    <3> QED BY <3>1, <3>2, CombatAssumption
  <2> QED BY <2>1, <2>2
<1>4. \A d \in Char : T.mount[d] \in w.out => d \in T.robbed
  BY DEF Good, Sound, Ridden
<1>5. \A d \in w.out : T.mount[d] = Nobody /\ T.rider[d] = Nobody
  BY <1>1 DEF Good, Sound, Ridden
<1>6. Ridden(T)
  BY <1>2, <1>3, <1>4, <1>5 DEF Ridden
<1> QED BY <1>6, RidesOnly

LEMMA RideKeeps ==
  ASSUME Good(world), NEW c \in Char, NEW h \in Char, Ride(c, h)
  PROVE  Kept(world, world')
<1>1. /\ c \notin world.out /\ h \notin world.out /\ world.mount[c] = Nobody
  BY TogetherFacts DEF Ride
<1>2. /\ world \in Worlds /\ world.mount \in [Char -> Char \union {Nobody}]
      /\ world.rider \in [Char -> Char \union {Nobody}] /\ world.robbed \subseteq Char
  BY Fields DEF Good, Sound
<1>3. PICK mount, rider, robbed :
        /\ mount = [world.mount EXCEPT ![c] = h] /\ rider = [world.rider EXCEPT ![h] = c]
        /\ robbed = world.robbed \union ({world.rider[h]} \ {Nobody})
  OBVIOUS
<1>4. /\ mount \in [Char -> Char \union {Nobody}] /\ rider \in [Char -> Char \union {Nobody}]
      /\ robbed \subseteq Char
      /\ \A d \in Char : mount[d] = IF d = c THEN h ELSE world.mount[d]
      /\ \A k \in Char : rider[k] = IF k = h THEN c ELSE world.rider[k]
  BY <1>2, <1>3
<1>5. PICK w : w = [world EXCEPT !.mount = mount, !.rider = rider, !.robbed = robbed]
  OBVIOUS
<1>6. world' = IF w.master[h] = Nobody THEN w ELSE Unfollowed(w, {h})
  <2>1. w = [world EXCEPT !.mount[c] = h, !.rider[h] = c,
                          !.robbed = @ \union ({world.rider[h]} \ {Nobody})]
    BY <1>2, <1>3, <1>5 DEF Worlds
  <2> QED BY <2>1 DEF Ride
<1>7. /\ w \in Worlds /\ w.mount = mount /\ w.rider = rider /\ w.robbed = robbed
      /\ SamePlaces(world, w) /\ SameFights(world, w) /\ SameLeads(world, w)
      /\ w.out = world.out /\ w.dumped = world.dumped
  BY <1>2, <1>4, <1>5 DEF Worlds, SamePlaces, SameFights, SameLeads
<1>8. Good(w)
  BY <1>1, <1>3, <1>4, <1>7, MountedKeeps
<1>9. CASE w.master[h] = Nobody
  BY <1>6, <1>7, <1>8, <1>9 DEF Kept, SameFights
<1>10. CASE w.master[h] # Nobody
  <2>1. world' = Unfollowed(w, {h}) /\ \A k \in {h} : w.master[k] # Nobody
    BY <1>6, <1>10
  <2>2. Good(world') /\ SameFights(w, world') /\ world'.out = w.out
    BY <1>8, <2>1, UnfollowedKeeps
  <2> QED BY <1>7, <2>2 DEF Kept, SameFights
<1> QED BY <1>9, <1>10

LEMMA AlightKeeps ==
  ASSUME Good(world), NEW c \in Char, Alight(c)
  PROVE  Kept(world, world')
<1>1. world' = Dismounted(world, c)
  BY DEF Alight
<1>2. Good(world') /\ SameFights(world, world') /\ world'.out = world.out
  BY <1>1, DismountedKeeps
<1> QED BY <1>2 DEF Kept, SameFights

LEMMA VanishKeeps ==
  ASSUME Good(world), NEW c \in Char, Vanish(c)
  PROVE  Kept(world, world')
BY ExtractedKeeps DEF Vanish

-------------------------------------------------------------------------------
(* Loading.                                                                *)

\* Memory that nobody's pointers name is given out again.
LEMMA MadeKeeps ==
  ASSUME NEW w, Calm(w), NEW c \in w.out, NEW r \in Rooms
  PROVE  LET T == Arrived([w EXCEPT !.out = @ \ {c}], c, r) IN
         /\ Calm(T) /\ SameLeads(w, T) /\ SameRides(w, T) /\ T.out = w.out \ {c}
         /\ w.master[c] = Nobody /\ w.followers[c] = <<>>
         /\ w.mount[c] = Nobody /\ w.rider[c] = Nobody
<1>1. w \in Worlds /\ c \in Char /\ w.room[c] = Nowhere
  BY Fields DEF Calm, Good, Sound, Placed
<1>2. PICK out : out = w.out \ {c}
  OBVIOUS
<1>3. PICK x : x = [w EXCEPT !.out = out]
  OBVIOUS
<1>4. /\ x \in Worlds /\ SamePlaces(w, x) /\ SameFights(w, x) /\ SameLeads(w, x)
      /\ SameRides(w, x) /\ x.out = out /\ x.dumped = w.dumped
  <2>1. out \subseteq Char
    BY <1>1, <1>2, Fields
  <2> QED BY <1>1, <1>3, <2>1 DEF Worlds, SamePlaces, SameFights, SameLeads, SameRides
<1>5. Good(x)
  <2>1. Placed(x) /\ Listed(x) /\ Walked(x, x.cursor)
    BY <1>2, <1>4 DEF Calm, Good, Sound, Placed, Listed, Walked, SamePlaces, SameFights
  <2>2. Led(x)
    <3>1. \A d, l \in Char : CircleFollow(x, d, l) <=> CircleFollow(w, d, l)
      BY <1>4 DEF CircleFollow, SameLeads
    <3>2. Range(w.purged) \cap out = {}
      BY <1>2 DEF Calm, Good, Sound, Led
    <3>3. \A d \in Range(w.purged) \union out : w.master[d] = Nobody /\ w.followers[d] = <<>>
      BY <1>2 DEF Calm, Good, Sound, Led
    <3> QED BY <1>4, <3>1, <3>2, <3>3 DEF Calm, Good, Sound, Led, SameLeads
  <2>3. Ridden(x)
    BY <1>2, <1>4 DEF Calm, Good, Sound, Ridden, SameRides
  <2> QED BY <1>4, <2>1, <2>2, <2>3 DEF Calm, Good, Sound
<1>6. PICK T : T = Arrived(x, c, r)
  OBVIOUS
<1>7. Good(T) /\ SameParty(x, T)
  <2>1. x.room[c] = Nowhere /\ c \notin x.out
    BY <1>1, <1>2, <1>4 DEF SamePlaces
  <2> QED BY <1>1, <1>5, <1>6, <2>1, ArrivedKeeps
<1>8. T = Arrived([w EXCEPT !.out = @ \ {c}], c, r)
  BY <1>2, <1>3, <1>6
<1>9. /\ w.master[c] = Nobody /\ w.followers[c] = <<>>
      /\ w.mount[c] = Nobody /\ w.rider[c] = Nobody
  BY DEF Calm, Good, Sound, Led, Ridden
<1>10. Calm(T) /\ SameLeads(w, T) /\ SameRides(w, T) /\ T.out = w.out \ {c}
  BY <1>2, <1>4, <1>7 DEF Calm, SameParty, SameFights, SameLeads, SameRides
<1> QED BY <1>8, <1>9, <1>10

\* Who leads nobody may follow anybody else.
LEMMA LoneFacts ==
  ASSUME NEW w, Good(w), NEW c \in Char, w.followers[c] = <<>>, NEW l \in Char, l # c
  PROVE  ~CircleFollow(w, c, l)
<1>1. w.master \in [Char -> Char \union {Nobody}]
  BY Fields DEF Good, Sound
<1>2. ASSUME NEW k \in Char, w.master[k] = c PROVE FALSE
  <2>1. k \in Range(w.followers[c])
    BY <1>2 DEF Good, Sound, Led
  <2> QED BY <2>1 DEF Range
<1>3. PICK S : S = Char \ {c}
  OBVIOUS
<1>4. l \in S /\ c \notin S /\ S \in SUBSET Char /\ \A k \in S : w.master[k] \in S \union {Nobody}
  BY <1>1, <1>2, <1>3
<1>5. Apart(w, c, l)
  BY <1>4 DEF Apart
<1> QED BY <1>5, NoCircle

LEMMA LoadKeeps ==
  ASSUME Calm(world), NEW c \in Char, NEW r \in Rooms, Load(c, r)
  PROVE  Calm(world')
<1>1. PICK w : w = Arrived([world EXCEPT !.out = @ \ {c}], c, r)
  OBVIOUS
<1>2. c \in world.out
  BY DEF Load
<1>3. /\ Calm(w) /\ Good(w) /\ SameLeads(world, w) /\ SameRides(world, w) /\ w.out = world.out \ {c}
      /\ w.master[c] = Nobody /\ w.followers[c] = <<>> /\ w.mount[c] = Nobody
  <2>1. /\ Calm(w) /\ SameLeads(world, w) /\ SameRides(world, w) /\ w.out = world.out \ {c}
        /\ world.master[c] = Nobody /\ world.followers[c] = <<>> /\ world.mount[c] = Nobody
    BY <1>1, <1>2, MadeKeeps
  <2> QED BY <2>1 DEF Calm, SameLeads, SameRides
<1>4. \/ world' = w
      \/ \E l \in Char : l \notin w.out /\ l # c /\ world' = Followed(w, c, l)
      \/ \E h \in Char : LET w1 == Arrived([w EXCEPT !.out = @ \ {h}], h, r) IN
           /\ h \in w.out
           /\ world' \in {[w1 EXCEPT !.mount[c] = h, !.rider[h] = c], Followed(w1, h, c)}
  <2>1. Horses \subseteq Char
    BY CombatAssumption
  <2> QED BY <1>1, <2>1 DEF Load
<1>5. CASE world' = w
  BY <1>3, <1>5
<1>6. ASSUME NEW l \in Char, l \notin w.out, l # c, world' = Followed(w, c, l)
      PROVE  Calm(world')
  <2>1. ~CircleFollow(w, c, l) /\ c \notin w.out
    BY <1>3, <1>6, LoneFacts
  <2>2. Good(world') /\ SameFights(w, world')
    BY <1>3, <1>6, <2>1, FollowedKeeps
  <2> QED BY <1>3, <2>2 DEF Calm, SameFights
<1>7. ASSUME NEW h \in Char, h \in w.out,
             world' \in {[Arrived([w EXCEPT !.out = @ \ {h}], h, r) EXCEPT !.mount[c] = h, !.rider[h] = c],
                         Followed(Arrived([w EXCEPT !.out = @ \ {h}], h, r), h, c)}
      PROVE  Calm(world')
  <2>1. PICK w1 : w1 = Arrived([w EXCEPT !.out = @ \ {h}], h, r)
    OBVIOUS
  <2>2. /\ Calm(w1) /\ SameLeads(w, w1) /\ SameRides(w, w1) /\ w1.out = w.out \ {h}
        /\ w.master[h] = Nobody /\ w.followers[h] = <<>>
        /\ w.mount[h] = Nobody /\ w.rider[h] = Nobody
    <3>1. Calm(w) /\ h \in w.out
      BY <1>3, <1>7
    <3> QED BY ONLY <2>1, <3>1, r \in Rooms, MadeKeeps
  <2>3. /\ Good(w1) /\ h \notin w1.out /\ c \notin w1.out /\ h # c
        /\ w1.master[h] = Nobody /\ w1.followers[h] = <<>> /\ w1.rider[h] = Nobody
        /\ w1.mount[c] = Nobody
    BY <1>3, <1>7, <2>2 DEF Calm, SameLeads, SameRides
  <2>4. CASE world' = Followed(w1, h, c)
    <3>1. ~CircleFollow(w1, h, c)
      BY <2>3, LoneFacts
    <3>2. Good(world') /\ SameFights(w1, world')
      BY <2>3, <2>4, <3>1, FollowedKeeps
    <3> QED BY <2>2, <3>2 DEF Calm, SameFights
  <2>5. CASE world' = [w1 EXCEPT !.mount[c] = h, !.rider[h] = c]
    <3>1. /\ w1 \in Worlds /\ w1.mount \in [Char -> Char \union {Nobody}]
          /\ w1.rider \in [Char -> Char \union {Nobody}]
      BY <2>3, Fields DEF Good, Sound
    <3>2. PICK mount, rider : /\ mount = [w1.mount EXCEPT ![c] = h]
                              /\ rider = [w1.rider EXCEPT ![h] = c]
      OBVIOUS
    <3>3. /\ mount \in [Char -> Char \union {Nobody}] /\ rider \in [Char -> Char \union {Nobody}]
          /\ \A d \in Char : mount[d] = IF d = c THEN h ELSE w1.mount[d]
          /\ \A k \in Char : rider[k] = IF k = h THEN c ELSE w1.rider[k]
      BY <3>1, <3>2
    <3>4. PICK T : T = [w1 EXCEPT !.mount = mount, !.rider = rider]
      OBVIOUS
    <3>5. world' = T
      BY <2>5, <3>1, <3>2, <3>4 DEF Worlds
    <3>6. /\ T \in Worlds /\ T.mount = mount /\ T.rider = rider /\ T.robbed = w1.robbed
          /\ SamePlaces(w1, T) /\ SameFights(w1, T) /\ SameLeads(w1, T)
          /\ T.out = w1.out /\ T.dumped = w1.dumped
      BY <3>1, <3>3, <3>4 DEF Worlds, SamePlaces, SameFights, SameLeads
    <3>7. T.robbed = w1.robbed \union ({w1.rider[h]} \ {Nobody})
      BY <2>3, <3>6
    <3>8. Good(T)
      BY <2>3, <3>3, <3>6, <3>7, MountedKeeps
    <3> QED BY <2>2, <3>5, <3>6, <3>8 DEF Calm, SameFights
  <2> QED BY <1>7, <2>1, <2>4, <2>5
<1> QED BY <1>4, <1>5, <1>6, <1>7

-------------------------------------------------------------------------------
(* The round.                                                              *)

LEMMA BetweenKeeps ==
  ASSUME Calm(world), Between
  PROVE  Calm(world')
<1>1. Good(world) /\ world.cursor = Nobody
  BY DEF Calm
<1>2. CASE \E c \in Char, v \in Char :
             \/ Attack(c, v) \/ Skill(c, v) \/ Assist(c, v) \/ Rescue(c, v)
             \/ Shadowstep(c, v) \/ Perish(c, v) \/ Follow(c, v) \/ Ride(c, v)
  <2>1. PICK c \in Char, v \in Char :
             \/ Attack(c, v) \/ Skill(c, v) \/ Assist(c, v) \/ Rescue(c, v)
             \/ Shadowstep(c, v) \/ Perish(c, v) \/ Follow(c, v) \/ Ride(c, v)
    BY <1>2
  <2>2. Kept(world, world')
    BY ONLY <1>1, <2>1, c \in Char, v \in Char, AttackKeeps, SkillKeeps, AssistKeeps,
            RescueKeeps, ShadowstepKeeps, PerishKeeps, FollowKeeps, RideKeeps
  <2> QED BY <2>2, KeptCalm
<1>3. CASE \E c \in Char : StepBack(c) \/ FollowSelf(c) \/ Ungroup(c) \/ Alight(c) \/ Vanish(c)
  <2>1. PICK c \in Char : StepBack(c) \/ FollowSelf(c) \/ Ungroup(c) \/ Alight(c) \/ Vanish(c)
    BY <1>3
  <2>2. Kept(world, world')
    BY ONLY <1>1, <2>1, c \in Char, StepBackKeeps, UngroupKeeps, AlightKeeps, VanishKeeps
  <2> QED BY <2>2, KeptCalm
<1>4. CASE \E c \in Char, r \in Rooms :
             Walk(c, r) \/ Travel(c, r) \/ Teleport(c, r) \/ Void(c, r) \/ Load(c, r)
  <2>1. PICK c \in Char, r \in Rooms :
             Walk(c, r) \/ Travel(c, r) \/ Teleport(c, r) \/ Void(c, r) \/ Load(c, r)
    BY <1>4
  <2>2. CASE Load(c, r)
    BY <2>2, LoadKeeps
  <2>3. CASE Walk(c, r) \/ Travel(c, r) \/ Teleport(c, r) \/ Void(c, r)
    <3>1. Kept(world, world')
      BY ONLY <1>1, <2>3, c \in Char, r \in Rooms, WalkKeeps, TravelKeeps
    <3> QED BY <3>1, KeptCalm
  <2> QED BY <2>1, <2>2, <2>3
<1>5. CASE PurgeChars
  BY <1>1, <1>5, PurgeCharsKeeps DEF Calm
<1> QED BY <1>2, <1>3, <1>4, <1>5 DEF Between

\* The head of the list, and all behind it.
LEMMA HeadFacts ==
  ASSUME NEW S, NEW s \in Seq(S), s # <<>>
  PROVE  Head(s) \in Range(s) /\ From(s, Head(s)) = Range(s)
<1>1. PICK n \in Nat \ {0} : n = Len(s)
  BY Empty DEF Range
<1>2. DOMAIN s = 1..n /\ Head(s) = s[1]
  BY <1>1
<1>3. Head(s) \in Range(s)
  BY <1>2 DEF Range
<1>4. ASSUME NEW y \in Range(s) PROVE Before(s, Head(s), y)
  <2>1. PICK k \in 1..n : y = s[k]
    BY <1>2 DEF Range
  <2> QED BY <1>2, <2>1 DEF Before
<1> QED BY <1>3, <1>4 DEF From

LEMMA RoundStartKeeps ==
  ASSUME CombatInv, RoundStart
  PROVE  CombatInv'
<1>1. /\ Sound(world) /\ world \in Worlds /\ world.list \in Seq(Char) /\ world.list # <<>>
      /\ turn' = Head(world.list) /\ world.had = {} /\ world.cursor = Nobody
  BY Fields DEF CombatInv, RoundStart, Sound
<1>2. PICK due : due = Range(world.list)
  OBVIOUS
<1>3. Head(world.list) \in Range(world.list) /\ From(world.list, Head(world.list)) = due
  BY <1>1, <1>2, HeadFacts
<1>4. due \subseteq Char
  BY <1>1, <1>2, InList
<1>5. world' = [world EXCEPT !.due = due]
  BY <1>2 DEF RoundStart
<1>6. PICK T : T = world'
  OBVIOUS
<1>7. /\ T \in Worlds /\ SameParty(world, T) /\ SamePlaces(world, T) /\ T.dumped = world.dumped
      /\ T.foe = world.foe /\ T.list = world.list /\ T.cursor = Nobody /\ T.due = due
      /\ T.stepped = world.stepped /\ T.had = {}
  BY <1>1, <1>4, <1>5, <1>6 DEF Worlds, SameParty, SamePlaces
<1>8. Sound(T)
  <2>1. Listed(T)
    BY <1>1, <1>7 DEF Sound, Listed, SamePlaces
  <2> QED BY <1>1, <1>7, <2>1, OnlyFights
<1>9. Walked(T, turn')
  BY <1>1, <1>2, <1>3, <1>7 DEF Walked
<1> QED BY <1>6, <1>7, <1>8, <1>9 DEF CombatInv

LEMMA TurnKeeps ==
  ASSUME CombatInv, Turn
  PROVE  CombatInv'
<1>1. PICK c \in Char : c = turn /\ c \in Range(world.list)
  BY Fields, InList DEF CombatInv, Turn, Sound, Walked
<1>2. /\ Sound(world) /\ world \in Worlds /\ world.list \in Seq(Char) /\ Once(world.list)
      /\ world.due = From(world.list, c) /\ world.had \cap world.due = {}
      /\ world.had \subseteq Char /\ world.due \subseteq Char
  BY <1>1, Fields DEF CombatInv, Sound, Walked, Listed
<1>3. PICK y, due, had :
        /\ y = FirstOf(world.list, From(world.list, c) \ {c})
        /\ due = world.due \ {c} /\ had = world.had \union {c}
  OBVIOUS
<1>4. y \in Range(world.list) \union {Nobody} /\ From(world.list, y) = due
  <2>1. From(world.list, c) \subseteq Range(world.list)
    BY DEF From
  <2>2. CASE From(world.list, c) \ {c} = {}
    <3>1. y = Nobody
      BY <1>3, <2>2 DEF FirstOf
    <3>2. Nobody \notin Range(world.list)
      BY <1>2, InList, CombatAssumption
    <3>3. From(world.list, Nobody) = {}
      BY <1>2, <3>2, CutFacts
    <3> QED BY <1>2, <1>3, <2>2, <3>1, <3>3
  <2>3. CASE From(world.list, c) \ {c} # {}
    <3>1. y = Foremost(world.list, From(world.list, c) \ {c})
      BY <1>3, <2>1, <2>3 DEF FirstOf
    <3>2. /\ y \in From(world.list, c) \ {c}
          /\ From(world.list, y) = From(world.list, c) \ {c}
      BY <1>2, <2>3, <3>1, CutFacts
    <3> QED BY <1>2, <1>3, <2>1, <3>2
  <2> QED BY <2>2, <2>3
<1>5. PICK w : w = [world EXCEPT !.cursor = y, !.due = due, !.had = had]
  OBVIOUS
<1>6. /\ w \in Worlds /\ SamePlaces(world, w) /\ w.dumped = world.dumped
      /\ w.foe = world.foe /\ w.list = world.list /\ w.cursor = y /\ w.due = due
      /\ w.stepped = world.stepped /\ w.had = had
      /\ SameLeads(world, w) /\ SameRides(world, w) /\ w.out = world.out
  <2>1. y \in Char \union {Nobody} /\ due \subseteq Char /\ had \subseteq Char
    BY <1>2, <1>3, <1>4, InList
  <2> QED BY <1>2, <1>5, <2>1 DEF Worlds, SamePlaces, SameLeads, SameRides
<1>7. Good(w)
  <2>1. Placed(w) /\ Listed(w) /\ Ridden(w)
    BY <1>2, <1>6 DEF Sound, Placed, Listed, Ridden, SamePlaces, SameRides
  <2>2. Led(w)
    <3>1. \A d, l \in Char : CircleFollow(w, d, l) <=> CircleFollow(world, d, l)
      BY <1>6 DEF CircleFollow, SameLeads
    <3> QED BY <1>2, <1>6, <3>1 DEF Sound, Led, SameLeads
  <2>3. Walked(w, w.cursor)
    BY <1>2, <1>3, <1>4, <1>6 DEF Walked
  <2> QED BY <1>2, <1>6, <2>1, <2>2, <2>3 DEF Good, Sound
<1>8. w.foe[c] # Nobody
  BY <1>1, <1>2, <1>6 DEF Sound, Listed
<1>9. PICK x, T :
        /\ x \in Triggered(w, c)
        /\ T \in {x} \union IF x.foe[c] = Nobody \/ x.room[c] # x.room[x.foe[c]]
                            THEN {Stopped(x, {c})} ELSE Blows(x, c)
        /\ turn' = T.cursor
        /\ world' = IF T.cursor = Nobody THEN [T EXCEPT !.had = {}] ELSE T
  BY <1>1, <1>3, <1>5 DEF Turn
<1>10. Kept(w, x) /\ Good(x)
  BY <1>7, <1>8, <1>9, TriggeredKeeps DEF Kept
<1>11. Good(T)
  <2>1. CASE T = x
    BY <1>10, <2>1
  <2>2. CASE T = Stopped(x, {c})
    BY <1>10, <2>2, StoppedKeeps
  <2>3. CASE T \in Blows(x, c)
    BY <1>10, <2>3, BlowsKeep DEF Kept
  <2> QED BY <1>9, <2>1, <2>2, <2>3
<1>12. CASE T.cursor # Nobody
  BY <1>9, <1>11, <1>12 DEF CombatInv, Good
<1>13. CASE T.cursor = Nobody
  <2>1. PICK z : z = world'
    OBVIOUS
  <2>2. T \in Worlds /\ z = [T EXCEPT !.had = {}]
    BY <1>9, <1>11, <1>13, <2>1 DEF Good, Sound
  <2>3. /\ z \in Worlds /\ SamePlaces(T, z) /\ z.dumped = T.dumped
        /\ z.foe = T.foe /\ z.list = T.list /\ z.cursor = Nobody /\ z.due = T.due
        /\ z.stepped = T.stepped /\ z.had = {}
        /\ SameLeads(T, z) /\ SameRides(T, z) /\ z.out = T.out
    BY <1>13, <2>2 DEF Worlds, SamePlaces, SameLeads, SameRides
  <2>4. Placed(z) /\ Listed(z) /\ Ridden(z)
    BY <1>11, <2>3 DEF Good, Sound, Placed, Listed, Ridden, SamePlaces, SameRides
  <2>5. Led(z)
    <3>1. \A d, l \in Char : CircleFollow(z, d, l) <=> CircleFollow(T, d, l)
      BY <2>3 DEF CircleFollow, SameLeads
    <3> QED BY <1>11, <2>3, <3>1 DEF Good, Sound, Led, SameLeads
  <2>6. Walked(z, Nobody)
    BY <1>11, <1>13, <2>3 DEF Good, Walked
  <2>7. Sound(z)
    BY <1>11, <2>3, <2>4, <2>5 DEF Good, Sound
  <2>8. turn' = Nobody
    BY <1>9, <1>13
  <2> QED BY <2>1, <2>3, <2>6, <2>7, <2>8 DEF CombatInv
<1> QED BY <1>12, <1>13

LEMMA CombatStarts == CombatInit => CombatInv
<1> SUFFICES ASSUME CombatInit PROVE CombatInv
  OBVIOUS
<1>1. world = Unmade /\ turn = Nobody
  BY DEF CombatInit
<1>2. Range(<<>>) = {} /\ Once(<<>>)
  BY DEF Range, Once
<1>3. PICK w : w = Unmade
  OBVIOUS
<1>4. w \in Worlds
  BY <1>3 DEF Unmade, Worlds
<1>5. Placed(w) /\ Listed(w)
  BY <1>2, <1>3, CombatAssumption DEF Unmade, Placed, Listed
<1>6. Led(w)
  BY <1>2, <1>3, CombatAssumption DEF Unmade, Led
<1>7. Ridden(w)
  BY <1>3, CombatAssumption DEF Unmade, Ridden
<1>8. Walked(w, Nobody) /\ w.cursor = Nobody /\ w.had = {} /\ ~w.dumped
  <2>1. From(<<>>, Nobody) = {}
    BY <1>2 DEF From
  <2> QED BY <1>2, <1>3, <2>1 DEF Unmade, Walked
<1> QED BY <1>1, <1>3, <1>4, <1>5, <1>6, <1>7, <1>8 DEF CombatInv, Sound

LEMMA CombatGoesOn == CombatInv /\ [CombatNext]_combatVars => CombatInv'
<1> SUFFICES ASSUME CombatInv, [CombatNext]_combatVars PROVE CombatInv'
  OBVIOUS
<1>1. CASE RoundStart
  BY <1>1, RoundStartKeeps
<1>2. CASE Turn
  BY <1>2, TurnKeeps
<1>3. CASE turn = Nobody /\ Between /\ UNCHANGED turn
  <2>1. Calm(world)
    BY <1>3 DEF CombatInv, Calm, Good
  <2>2. Calm(world')
    BY <1>3, <2>1, BetweenKeeps
  <2> QED BY <1>3, <2>2 DEF CombatInv, Calm, Good
<1>4. CASE UNCHANGED combatVars
  BY <1>4 DEF CombatInv, combatVars
<1> QED BY <1>1, <1>2, <1>3, <1>4 DEF CombatNext

\* The fights, the round, the parties and the deletions agree with each other
\* after every round, command, script and deletion.
THEOREM CombatHolds == CombatSpec => []CombatInv
BY CombatStarts, CombatGoesOn, PTL DEF CombatSpec

\* combat_list holds whoever fights, once, with his foe in the same room: only
\* do_shadowstep fights without being listed.
THEOREM WhoFightsIsListed == CombatSpec => []FightsListed
<1>1. CombatInv => FightsListed
  <2> SUFFICES ASSUME CombatInv PROVE FightsListed
    OBVIOUS
  <2>1. IsInjective(world.list)
    BY DEF CombatInv, Sound, Listed, Once, IsInjective
  <2>2. world.cursor \in Range(world.list) \union {Nobody}
    BY DEF CombatInv, Walked
  <2> QED BY <2>1, <2>2 DEF CombatInv, Sound, Listed, FightsListed
<1> QED BY <1>1, CombatHolds, PTL

\* perform_violence gives nobody two turns in a round, and whoever fights
\* through it one.
THEOREM RoundsAreFair == CombatSpec => []FairRounds
<1>1. CombatInv => FairRounds
  <2> SUFFICES ASSUME CombatInv PROVE FairRounds
    OBVIOUS
  <2>1. /\ world.list \in Seq(Char) /\ Once(world.list) /\ world.had \subseteq Char
        /\ turn \in Range(world.list) \union {Nobody}
        /\ world.due = From(world.list, turn) /\ world.had \cap world.due = {}
    BY Fields DEF CombatInv, Sound, Listed, Walked
  <2>2. CASE turn \in Range(world.list)
    <3>1. turn \in From(world.list, turn) /\ turn # Nobody
      <4>1. turn \in From(world.list, turn)
        BY ONLY <2>1, <2>2, CutFacts
      <4>2. turn \in Char
        BY <2>1, <2>2, InList
      <4> QED BY <4>1, <4>2, CombatAssumption
    <3> QED BY <2>1, <3>1 DEF FairRounds
  <2>3. CASE turn = Nobody
    <3>1. Nobody \notin Range(world.list) /\ Nobody \notin world.had
      BY <2>1, InList, CombatAssumption
    <3>2. From(world.list, Nobody) = {}
      BY <2>1, <3>1, CutFacts
    <3> QED BY <2>1, <2>3, <3>1, <3>2 DEF FairRounds
  <2> QED BY <2>1, <2>2, <2>3
<1> QED BY <1>1, CombatHolds, PTL

\* add_follower, stopFollowing, die_follower and Dismount keep both sides of
\* every pair, and make no circle.
THEOREM PartiesAgree == CombatSpec => []LeadersAgree
<1>1. CombatInv => LeadersAgree
  <2> SUFFICES ASSUME CombatInv PROVE LeadersAgree
    OBVIOUS
  <2>1. \A c \in Char : IsInjective(world.followers[c])
    BY DEF CombatInv, Sound, Led, Once, IsInjective
  <2>2. Led(world) /\ Ridden(world)
    BY DEF CombatInv, Sound
  <2>3. \A c \in Char, l \in Char :
          /\ world.master[c] = l <=> c \in Range(world.followers[l])
          /\ world.master[c] = l => ~CircleFollow(world, c, l)
          /\ world.rider[l] = c => world.mount[c] = l
    BY <2>2 DEF Led, Ridden
  <2>4. \A c \in Char :
          /\ c \in Range(world.purged) => world.master[c] = Nobody /\ world.followers[c] = <<>>
          /\ world.mount[c] # Nobody => c \in {world.rider[world.mount[c]]} \union world.robbed
    BY <2>2 DEF Led, Ridden
  <2> QED BY <2>1, <2>3, <2>4 DEF LeadersAgree
<1> QED BY <1>1, CombatHolds, PTL

\* PurgeQueue frees a character whom nobody names any more, but for the
\* rider of a stolen horse.
THEOREM DeletedAreForgotten == CombatSpec => []NothingDangles
<1>1. CombatInv => NothingDangles
  <2> SUFFICES ASSUME CombatInv PROVE NothingDangles
    OBVIOUS
  <2>1. Sound(world) /\ world \in Worlds /\ Nobody \notin world.out /\ Nowhere \notin Rooms
    BY Fields, CombatAssumption DEF CombatInv, Sound
  <2>2. \A c \in world.out :
          c \in Char /\ world.room[c] = Nowhere /\ world.foe[c] = Nobody
          /\ \A t \in Char : world.foe[t] # c
    BY <2>1, Away, Fields DEF Sound, Placed
  <2>3. world.out \cap (Range(world.list) \union {turn, world.cursor}) = {}
    <3>1. \A c \in world.out : c \notin Range(world.list)
      BY <2>1, <2>2 DEF Sound, Listed
    <3> QED BY <2>1, <3>1 DEF CombatInv, Walked
  <2>4. ASSUME NEW c \in Char
        PROVE  /\ world.foe[c] \notin world.out /\ world.master[c] \notin world.out
               /\ world.rider[c] \notin world.out /\ Range(world.followers[c]) \cap world.out = {}
               /\ world.mount[c] \in world.out => c \in world.robbed
    <3>1. world.foe[c] \notin world.out
      BY <2>2
    <3>2. world.master[c] \notin world.out
      <4>1. \A l \in world.out : world.master[c] # l
        BY <2>1, <2>2 DEF Sound, Led, Range
      <4> QED BY <4>1
    <3>3. world.rider[c] \notin world.out
      <4>1. \A k \in world.out : world.rider[c] # k
        BY <2>1, <2>2, CombatAssumption DEF Sound, Ridden
      <4> QED BY <4>1
    <3>4. Range(world.followers[c]) \cap world.out = {}
      <4>1. \A k \in world.out : world.master[k] = Nobody
        BY <2>1 DEF Sound, Led
      <4>2. \A k \in world.out : k \notin Range(world.followers[c])
        BY <2>1, <2>2, <4>1, CombatAssumption DEF Sound, Led
      <4> QED BY <4>2
    <3> QED BY <2>1, <3>1, <3>2, <3>3, <3>4 DEF Sound, Ridden
  <2>5. ASSUME NEW r \in Rooms PROVE Range(world.people[r]) \cap world.out = {}
    BY <2>1, <2>2 DEF Sound, Placed
  <2> QED BY <2>3, <2>4, <2>5 DEF NothingDangles
<1> QED BY <1>1, CombatHolds, PTL

\* SetFighting, add_follower and stopFollowing are never called on one who
\* fights, follows or does not follow already.
THEOREM NobodyDumpsCore == CombatSpec => []NoCoreDump
<1>1. CombatInv => NoCoreDump
  BY DEF CombatInv, Sound, NoCoreDump
<1> QED BY <1>1, CombatHolds, PTL

-------------------------------------------------------------------------------
(***************************************************************************)
(* Guilds.  A handler stores a list of rows, and may end after any of      *)
(* them: the tables and the database then differ, or both have but part of *)
(* it.  The invariant is therefore about rows no mishap hit; Failed and    *)
(* Aftermath show it after a mishap, whatever the handler was.             *)
(***************************************************************************)
RowOf ==
  [apps    |-> [by : Folk, status : {"pending", "reviewing", "approved", "denied"}],
   sigs    |-> [by : Folk, app : Nat, status : AllStatuses],
   guilds  |-> [app : Nat],
   members |-> [by : Folk, guild : Nat],
   joins   |-> [by : Folk, guild : Nat, status : {"reviewing", "removed"}]]
Menus == {"none", "view", "approve", "deny", "signatures", "create", "guild", "joining"}

Filled(all) == \A t \in Tables : \E n \in Nat : all[t] \in [1..n -> RowOf[t]]
GuildsTyped ==
  /\ Filled(tables) /\ Filled(stored)
  /\ screen \in [Folk -> [at : Menus, id : Nat]]

\* q has the rows of p, as far as they are not of what is lost.
SameRows(p, q, lost) ==
  /\ \A t \in {"apps", "sigs", "joins"} : DOMAIN p[t] = DOMAIN q[t]
  /\ \A a \in DOMAIN p.apps :
       /\ p.apps[a].by = q.apps[a].by
       /\ <<"apps", a>> \notin lost => p.apps[a] = q.apps[a]
  /\ \A s \in DOMAIN p.sigs :
       /\ p.sigs[s].by = q.sigs[s].by /\ p.sigs[s].app = q.sigs[s].app
       /\ <<"apps", p.sigs[s].app>> \notin lost => p.sigs[s] = q.sigs[s]
  /\ \A j \in DOMAIN p.joins :
       /\ p.joins[j].by = q.joins[j].by
       /\ <<"joins", j>> \notin lost => p.joins[j] = q.joins[j]

Alike(p, q, lost) == SameRows(p, q, lost) /\ p.guilds = q.guilds /\ p.members = q.members

\* Nothing is under way at a row that is not there.
Referred ==
  /\ \A s \in Rows("sigs") :
       LET a == tables.sigs[s].app IN a \in Rows("apps") /\ tables.sigs[s].by # tables.apps[a].by
  /\ \A g \in Rows("guilds") : tables.guilds[g].app \in Rows("apps")
  /\ \A m \in Rows("members") : tables.members[m].guild \in Rows("guilds")
  /\ \A u \in Folk : screen[u].at \in {"view", "approve", "deny", "signatures"} => App(u) \in Rows("apps")

\* What a menu was opened for still holds of what is whole.
MenusHold ==
  \A u \in Folk :
    /\ At(u, "signatures") /\ App(u) \in Whole("apps") => MayAdmit(u, App(u))
    /\ screen[u].at \in {"approve", "deny"} /\ App(u) \in Whole("apps") =>
         tables.apps[App(u)].status # "pending"
    /\ At(u, "create") => OwnOpen(u) \cap Whole("apps") = {}
    /\ At(u, "joining") => OwnReviewing(u) \cap Whole("joins") = {}

\* Nobody has two signatures on an application that are not removed.
SignedOnce ==
  \A r, s \in Rows("sigs") :
    /\ tables.sigs[r].app = tables.sigs[s].app /\ tables.sigs[r].by = tables.sigs[s].by
    /\ tables.sigs[r].app \in Whole("apps")
    /\ tables.sigs[r].status # "removed" /\ tables.sigs[s].status # "removed"
    => r = s

\* There is no guild of an application that awaits its signatures.
FoundedLate ==
  \A g \in Rows("guilds") :
    tables.guilds[g].app \in Whole("apps") => tables.apps[tables.guilds[g].app].status # "pending"

\* Nobody has two under way.
Single ==
  \A u \in Folk :
    /\ \A a, b \in OwnOpen(u) \cap Whole("apps") : a = b
    /\ \A i, j \in OwnReviewing(u) \cap Whole("joins") : i = j

\* The inductive invariant.
GuildInv ==
  /\ GuildsTyped /\ Alike(tables, stored, torn) /\ Referred /\ MenusHold
  /\ SignedOnce /\ FoundedLate /\ Single /\ Backed

\* The rows of a table after the first n of ws: old ones, and those of ws.
LEMMA PutWhat ==
  ASSUME NEW p, NEW ws, NEW n, NEW t \in Tables
  PROVE  LET q == PutFirst(p, ws, n)[t] IN
         /\ \A i : i \in DOMAIN q <=> i \in DOMAIN p[t] \/ \E k \in 1..n : ws[k].table = t /\ ws[k].id = i
         /\ \A i \in DOMAIN q :
              \/ /\ i \in DOMAIN p[t] /\ q[i] = p[t][i]
                 /\ \A k \in 1..n : ws[k].table = t => ws[k].id # i
              \/ \E k \in 1..n : ws[k].table = t /\ ws[k].id = i /\ q[i] = ws[k].row
<1> DEFINE put == {k \in 1..n : ws[k].table = t}
           q == PutFirst(p, ws, n)[t]
<1>1. q = [i \in DOMAIN p[t] \cup {ws[k].id : k \in put} |->
             IF \E k \in put : ws[k].id = i THEN ws[CHOOSE k \in put : ws[k].id = i].row ELSE p[t][i]]
  BY DEF PutFirst, Put
<1>2. \A i : i \in DOMAIN q <=> i \in DOMAIN p[t] \/ \E k \in 1..n : ws[k].table = t /\ ws[k].id = i
  BY <1>1
<1>3. ASSUME NEW i \in DOMAIN q
      PROVE  \/ /\ i \in DOMAIN p[t] /\ q[i] = p[t][i]
                /\ \A k \in 1..n : ws[k].table = t => ws[k].id # i
             \/ \E k \in 1..n : ws[k].table = t /\ ws[k].id = i /\ q[i] = ws[k].row
  <2>1. CASE \E k \in put : ws[k].id = i
    <3> DEFINE k == CHOOSE k \in put : ws[k].id = i
    <3>1. k \in put /\ ws[k].id = i
      BY <2>1
    <3>2. q[i] = ws[k].row
      BY <1>1, <1>3, <2>1
    <3> HIDE DEF k, q
    <3> QED BY <3>1, <3>2
  <2>2. CASE ~\E k \in put : ws[k].id = i
    <3>1. \A k \in 1..n : ws[k].table = t => ws[k].id # i
      BY <2>2
    <3>2. i \in DOMAIN p[t] /\ q[i] = p[t][i]
      BY <1>1, <1>3, <2>2
    <3> QED BY <3>1, <3>2
  <2> QED BY <2>1, <2>2
<1> HIDE DEF q
<1>4. (\A i : i \in DOMAIN q <=> i \in DOMAIN p[t] \/ \E k \in 1..n : ws[k].table = t /\ ws[k].id = i)
      /\ \A i \in DOMAIN q :
              \/ /\ i \in DOMAIN p[t] /\ q[i] = p[t][i]
                 /\ \A k \in 1..n : ws[k].table = t => ws[k].id # i
              \/ \E k \in 1..n : ws[k].table = t /\ ws[k].id = i /\ q[i] = ws[k].row
  BY <1>2, <1>3
<1> QED BY <1>4 DEF q

\* Two databases that are alike stay so.
LEMMA PutAlike ==
  ASSUME NEW p, NEW q, NEW ws, NEW n, NEW lost, Alike(p, q, lost)
  PROVE  Alike(PutFirst(p, ws, n), PutFirst(q, ws, n), lost)
<1> DEFINE P == PutFirst(p, ws, n)
           Q == PutFirst(q, ws, n)
           Same(t, i) == \/ /\ i \in DOMAIN p[t] /\ i \in DOMAIN q[t] /\ P[t][i] = p[t][i] /\ Q[t][i] = q[t][i]
                         \/ P[t][i] = Q[t][i]
<1>1. ASSUME NEW t \in {"apps", "sigs", "joins"}
      PROVE  DOMAIN P[t] = DOMAIN Q[t] /\ \A i \in DOMAIN P[t] : Same(t, i)
  <2> DEFINE put == {k \in 1..n : ws[k].table = t}
  <2>1. t \in Tables /\ DOMAIN p[t] = DOMAIN q[t]
    BY DEF Alike, SameRows, Tables
  <2>2. /\ P[t] = [i \in DOMAIN p[t] \cup {ws[k].id : k \in put} |->
             IF \E k \in put : ws[k].id = i THEN ws[CHOOSE k \in put : ws[k].id = i].row ELSE p[t][i]]
        /\ Q[t] = [i \in DOMAIN q[t] \cup {ws[k].id : k \in put} |->
             IF \E k \in put : ws[k].id = i THEN ws[CHOOSE k \in put : ws[k].id = i].row ELSE q[t][i]]
    BY <2>1 DEF PutFirst, Put
  <2> HIDE DEF P, Q, put
  <2> QED BY <2>1, <2>2
<1>2. P.guilds = Q.guilds /\ P.members = Q.members
  <2>1. p.guilds = q.guilds /\ p.members = q.members
    BY DEF Alike
  <2>2. "guilds" \in Tables /\ "members" \in Tables
    BY DEF Tables
  <2> QED BY <2>1, <2>2 DEF PutFirst
<1> HIDE DEF P, Q
<1>3. ASSUME NEW a \in DOMAIN P.apps
      PROVE  P.apps[a].by = Q.apps[a].by /\ (<<"apps", a>> \notin lost => P.apps[a] = Q.apps[a])
  <2>1. Same("apps", a)
    BY <1>1
  <2> QED BY <2>1 DEF Alike, SameRows
<1>4. ASSUME NEW s \in DOMAIN P.sigs
      PROVE  /\ P.sigs[s].by = Q.sigs[s].by /\ P.sigs[s].app = Q.sigs[s].app
             /\ <<"apps", P.sigs[s].app>> \notin lost => P.sigs[s] = Q.sigs[s]
  <2>1. Same("sigs", s)
    BY <1>1
  <2> QED BY <2>1 DEF Alike, SameRows
<1>5. ASSUME NEW j \in DOMAIN P.joins
      PROVE  P.joins[j].by = Q.joins[j].by /\ (<<"joins", j>> \notin lost => P.joins[j] = Q.joins[j])
  <2>1. Same("joins", j)
    BY <1>1
  <2> QED BY <2>1 DEF Alike, SameRows
<1>6. Alike(P, Q, lost)
  BY <1>1, <1>2, <1>3, <1>4, <1>5 DEF Alike, SameRows
<1> QED BY <1>6 DEF P, Q

LEMMA AlikeTurns ==
  ASSUME NEW p, NEW q, NEW lost, Alike(p, q, lost)
  PROVE  Alike(q, p, lost)
BY DEF Alike, SameRows

LEMMA AlikeChain ==
  ASSUME NEW p, NEW q, NEW r, NEW lost, Alike(p, q, lost), Alike(q, r, lost)
  PROVE  Alike(p, r, lost)
<1> USE DEF Alike
<1>1. \A t \in {"apps", "sigs", "joins"} : DOMAIN p[t] = DOMAIN r[t]
  BY DEF SameRows
<1> QED BY <1>1 DEF SameRows

LEMMA AlikeMore ==
  ASSUME NEW p, NEW q, NEW lost, NEW more, lost \subseteq more, Alike(p, q, lost)
  PROVE  Alike(p, q, more)
BY DEF Alike, SameRows

\* The row w changes one of p, and is about what is lost.
Concerns(w, p, lost) ==
  \/ /\ w.table = "apps" /\ w.id \in DOMAIN p.apps /\ <<"apps", w.id>> \in lost
     /\ w.row.by = p.apps[w.id].by
  \/ /\ w.table = "sigs" /\ w.id \in DOMAIN p.sigs /\ <<"apps", p.sigs[w.id].app>> \in lost
     /\ w.row.by = p.sigs[w.id].by /\ w.row.app = p.sigs[w.id].app
  \/ /\ w.table = "joins" /\ w.id \in DOMAIN p.joins /\ <<"joins", w.id>> \in lost
     /\ w.row.by = p.joins[w.id].by

\* Changes of what is lost.
LEMMA ChangesAlike ==
  ASSUME NEW p, NEW ws, NEW n, NEW lost, \A k \in 1..n : Concerns(ws[k], p, lost),
         \A t \in {"guilds", "members"} : p[t] = [i \in DOMAIN p[t] |-> p[t][i]]
  PROVE  Alike(p, PutFirst(p, ws, n), lost)
<1> DEFINE q == PutFirst(p, ws, n)
<1>1. ASSUME NEW t \in Tables
      PROVE  /\ DOMAIN q[t] = DOMAIN p[t]
             /\ \A i \in DOMAIN p[t] :
                  \/ q[t][i] = p[t][i]
                  \/ \E k \in 1..n : ws[k].table = t /\ ws[k].id = i /\ q[t][i] = ws[k].row
  <2>1. \A k \in 1..n : ws[k].table = t => ws[k].id \in DOMAIN p[t]
    BY DEF Concerns
  <2>2. /\ \A i : i \in DOMAIN q[t] <=> i \in DOMAIN p[t] \/ \E k \in 1..n : ws[k].table = t /\ ws[k].id = i
        /\ \A i \in DOMAIN q[t] :
             \/ i \in DOMAIN p[t] /\ q[t][i] = p[t][i]
             \/ \E k \in 1..n : ws[k].table = t /\ ws[k].id = i /\ q[t][i] = ws[k].row
    BY PutWhat
  <2> HIDE DEF q
  <2>3. \A i : i \in DOMAIN q[t] <=> i \in DOMAIN p[t]
    BY <2>1, <2>2
  <2>4. DOMAIN q[t] = DOMAIN p[t]
    BY <2>3
  <2> QED BY <2>2, <2>4
<1>2. ASSUME NEW t \in {"guilds", "members"} PROVE q[t] = p[t]
  <2>1. t \in Tables /\ {k \in 1..n : ws[k].table = t} = {}
    BY DEF Tables, Concerns
  <2>2. q[t] = [i \in DOMAIN p[t] |-> p[t][i]]
    BY <2>1 DEF PutFirst, Put
  <2> QED BY <2>2
<1> HIDE DEF q
<1>3. "apps" \in Tables /\ "sigs" \in Tables /\ "joins" \in Tables
  BY DEF Tables
<1>4. ASSUME NEW a \in DOMAIN p.apps
      PROVE  p.apps[a].by = q.apps[a].by /\ (<<"apps", a>> \notin lost => p.apps[a] = q.apps[a])
  <2>1. \/ q.apps[a] = p.apps[a]
        \/ \E k \in 1..n : ws[k].table = "apps" /\ ws[k].id = a /\ q.apps[a] = ws[k].row
    BY <1>1, <1>3
  <2>2. ASSUME NEW k \in 1..n, ws[k].table = "apps", ws[k].id = a, q.apps[a] = ws[k].row
        PROVE  q.apps[a].by = p.apps[a].by /\ <<"apps", a>> \in lost
    <3>1. Concerns(ws[k], p, lost)
      OBVIOUS
    <3> QED BY <2>2, <3>1 DEF Concerns
  <2> QED BY <2>1, <2>2
<1>5. ASSUME NEW s \in DOMAIN p.sigs
      PROVE  /\ p.sigs[s].by = q.sigs[s].by /\ p.sigs[s].app = q.sigs[s].app
             /\ <<"apps", p.sigs[s].app>> \notin lost => p.sigs[s] = q.sigs[s]
  <2>1. \/ q.sigs[s] = p.sigs[s]
        \/ \E k \in 1..n : ws[k].table = "sigs" /\ ws[k].id = s /\ q.sigs[s] = ws[k].row
    BY <1>1, <1>3
  <2>2. ASSUME NEW k \in 1..n, ws[k].table = "sigs", ws[k].id = s, q.sigs[s] = ws[k].row
        PROVE  q.sigs[s].by = p.sigs[s].by /\ <<"apps", p.sigs[s].app>> \in lost /\ q.sigs[s].app = p.sigs[s].app
    <3>1. Concerns(ws[k], p, lost)
      OBVIOUS
    <3> QED BY <2>2, <3>1 DEF Concerns
  <2> QED BY <2>1, <2>2
<1>6. ASSUME NEW j \in DOMAIN p.joins
      PROVE  p.joins[j].by = q.joins[j].by /\ (<<"joins", j>> \notin lost => p.joins[j] = q.joins[j])
  <2>1. \/ q.joins[j] = p.joins[j]
        \/ \E k \in 1..n : ws[k].table = "joins" /\ ws[k].id = j /\ q.joins[j] = ws[k].row
    BY <1>1, <1>3
  <2>2. ASSUME NEW k \in 1..n, ws[k].table = "joins", ws[k].id = j, q.joins[j] = ws[k].row
        PROVE  q.joins[j].by = p.joins[j].by /\ <<"joins", j>> \in lost
    <3>1. Concerns(ws[k], p, lost)
      OBVIOUS
    <3> QED BY <2>2, <3>1 DEF Concerns
  <2> QED BY <2>1, <2>2
<1>7. Alike(p, q, lost)
  BY <1>1, <1>2, <1>3, <1>4, <1>5, <1>6 DEF Alike, SameRows
<1> QED BY <1>7 DEF q

-------------------------------------------------------------------------------
\* q is p with changes of what is lost, and guilds for it.
Grown(p, q, lost) ==
  /\ SameRows(p, q, lost)
  /\ \A g \in DOMAIN p.guilds : g \in DOMAIN q.guilds /\ q.guilds[g] = p.guilds[g]
  /\ \A g \in DOMAIN q.guilds \ DOMAIN p.guilds :
       q.guilds[g].app \in DOMAIN p.apps /\ <<"apps", q.guilds[g].app>> \in lost
  /\ \A m \in DOMAIN p.members : m \in DOMAIN q.members /\ q.members[m] = p.members[m]
  /\ \A m \in DOMAIN q.members \ DOMAIN p.members :
       q.members[m].guild \in DOMAIN q.guilds \ DOMAIN p.guilds

LEMMA AlikeGrown ==
  ASSUME NEW p, NEW q, NEW lost, Alike(p, q, lost)
  PROVE  Grown(p, q, lost)
BY DEF Alike, Grown

LEMMA GrownAlike ==
  ASSUME NEW p, NEW q, NEW r, NEW lost, Grown(p, q, lost), Alike(q, r, lost)
  PROVE  Grown(p, r, lost)
<1>1. SameRows(p, r, lost)
  <2>1. SameRows(p, q, lost) /\ SameRows(q, r, lost)
    BY DEF Alike, Grown
  <2>2. \A t \in {"apps", "sigs", "joins"} : DOMAIN p[t] = DOMAIN r[t]
    BY <2>1 DEF SameRows
  <2> QED BY <2>1, <2>2 DEF SameRows
<1>2. r.guilds = q.guilds /\ r.members = q.members
  BY DEF Alike
<1> QED BY <1>1, <1>2 DEF Grown

BackedAt(a) ==
  /\ tables.apps[a].status \in {"reviewing", "approved", "denied"} =>
       Cardinality(Signers(a) \ {tables.apps[a].by}) >= Required
  /\ \A g \in Rows("guilds") : tables.guilds[g].app = a =>
       /\ \A m, n \in MembersOf(g) : tables.members[m].by = tables.members[n].by => m = n
       /\ {tables.members[m].by : m \in MembersOf(g)} = Signers(a) \cup {tables.apps[a].by}

\* The signatures of a, and the members of its guilds, are as they were.
Unsigned(a) ==
  /\ ValidSignatures(a)' = ValidSignatures(a)
  /\ \A s \in ValidSignatures(a) : tables'.sigs[s].by = tables.sigs[s].by
Unmanned(a) ==
  \A g \in Rows("guilds")' : tables'.guilds[g].app = a =>
    /\ g \in Rows("guilds") /\ tables.guilds[g].app = a
    /\ MembersOf(g)' = MembersOf(g)
    /\ \A m \in MembersOf(g) : tables'.members[m].by = tables.members[m].by

LEMMA BackedKept ==
  ASSUME NEW a, BackedAt(a), Unsigned(a), Unmanned(a),
         tables'.apps[a].by = tables.apps[a].by,
         tables'.apps[a].status \in {"reviewing", "approved", "denied"}
           => tables.apps[a].status \in {"reviewing", "approved", "denied"}
  PROVE  BackedAt(a)'
<1>1. Signers(a)' = Signers(a)
  BY DEF Unsigned, Signers
<1>2. ASSUME NEW g \in Rows("guilds")', tables'.guilds[g].app = a
      PROVE  /\ \A m, n \in MembersOf(g)' : tables'.members[m].by = tables'.members[n].by => m = n
             /\ {tables'.members[m].by : m \in MembersOf(g)'} = Signers(a)' \cup {tables'.apps[a].by}
  <2>1. /\ g \in Rows("guilds") /\ tables.guilds[g].app = a /\ MembersOf(g)' = MembersOf(g)
        /\ \A m \in MembersOf(g) : tables'.members[m].by = tables.members[m].by
    BY <1>2 DEF Unmanned
  <2>2. {tables'.members[m].by : m \in MembersOf(g)'} = {tables.members[m].by : m \in MembersOf(g)}
    BY <2>1
  <2>3. /\ \A m, n \in MembersOf(g) : tables.members[m].by = tables.members[n].by => m = n
        /\ {tables.members[m].by : m \in MembersOf(g)} = Signers(a) \cup {tables.apps[a].by}
    BY <2>1 DEF BackedAt
  <2>4. \A m, n \in MembersOf(g)' : tables'.members[m].by = tables'.members[n].by => m = n
    BY <2>1, <2>3
  <2> QED BY <1>1, <2>2, <2>3, <2>4
<1> QED BY <1>1, <1>2 DEF BackedAt

\* What is lost may change, and be given guilds: of the rest nothing is said
\* that was not said before.
LEMMA Aftermath ==
  ASSUME GuildInv, GuildsTyped', Grown(tables, tables', torn'), Alike(tables', stored', torn'),
         torn \subseteq torn', \A u \in Folk : screen'[u] \in {screen[u], NoMenu}
  PROVE  GuildInv'
<1> USE DEF Rows
<1>1. /\ Rows("apps")' = Rows("apps") /\ Rows("sigs")' = Rows("sigs") /\ Rows("joins")' = Rows("joins")
      /\ Whole("apps")' \subseteq Whole("apps") /\ Whole("joins")' \subseteq Whole("joins")
      /\ \A a \in Rows("apps") : tables'.apps[a].by = tables.apps[a].by
      /\ \A s \in Rows("sigs") : /\ tables'.sigs[s].by = tables.sigs[s].by
                                 /\ tables'.sigs[s].app = tables.sigs[s].app
      /\ \A j \in Rows("joins") : tables'.joins[j].by = tables.joins[j].by
  BY DEF Grown, SameRows, Whole
<1>2. /\ \A a \in Whole("apps")' : tables'.apps[a] = tables.apps[a]
      /\ \A s \in Rows("sigs") : tables'.sigs[s].app \in Whole("apps")' => tables'.sigs[s] = tables.sigs[s]
      /\ \A j \in Whole("joins")' : tables'.joins[j] = tables.joins[j]
  BY <1>1 DEF Grown, SameRows, Whole
<1>3. Referred'
  <2>1. \A s \in Rows("sigs")' : /\ tables'.sigs[s].app \in Rows("apps")'
                                 /\ tables'.sigs[s].by # tables'.apps[tables'.sigs[s].app].by
    BY <1>1 DEF GuildInv, Referred
  <2>2. \A g \in Rows("guilds")' : tables'.guilds[g].app \in Rows("apps")'
    BY <1>1 DEF GuildInv, Referred, Grown
  <2>3. \A m \in Rows("members")' : tables'.members[m].guild \in Rows("guilds")'
    BY DEF GuildInv, Referred, Grown
  <2>4. \A u \in Folk : screen'[u].at \in {"view", "approve", "deny", "signatures"}
                          => screen'[u].id \in Rows("apps")'
    BY <1>1 DEF GuildInv, Referred, NoMenu, App
  <2> QED BY <2>1, <2>2, <2>3, <2>4 DEF Referred, App
<1>4. \A u \in Folk : /\ OwnOpen(u)' \cap Whole("apps")' \subseteq OwnOpen(u) \cap Whole("apps")
                      /\ OwnReviewing(u)' \cap Whole("joins")' \subseteq OwnReviewing(u) \cap Whole("joins")
  BY <1>1, <1>2 DEF OwnOpen, OwnReviewing, Open, Whole
<1>5. Single'
  BY <1>4 DEF Single, GuildInv
<1>6. MenusHold'
  <2> SUFFICES ASSUME NEW u \in Folk
               PROVE  /\ At(u, "signatures")' /\ App(u)' \in Whole("apps")' => MayAdmit(u, App(u))'
                      /\ screen'[u].at \in {"approve", "deny"} /\ App(u)' \in Whole("apps")' =>
                           tables'.apps[App(u)'].status # "pending"
                      /\ At(u, "create")' => OwnOpen(u)' \cap Whole("apps")' = {}
                      /\ At(u, "joining")' => OwnReviewing(u)' \cap Whole("joins")' = {}
    BY DEF MenusHold
  <2>1. CASE screen'[u] = NoMenu
    BY <2>1 DEF NoMenu, At
  <2>2. CASE screen'[u] = screen[u]
    BY <1>1, <1>2, <1>4, <2>2 DEF GuildInv, MenusHold, At, App, MayAdmit
  <2> QED BY <2>1, <2>2
<1>7. SignedOnce'
  BY <1>1, <1>2 DEF SignedOnce, GuildInv
<1>8. FoundedLate'
  <2> SUFFICES ASSUME NEW g \in Rows("guilds")', tables'.guilds[g].app \in Whole("apps")'
               PROVE  tables'.apps[tables'.guilds[g].app].status # "pending"
    BY DEF FoundedLate
  <2>1. g \in Rows("guilds") /\ tables'.guilds[g] = tables.guilds[g]
    BY DEF Grown, Whole
  <2>2. tables.guilds[g].app \in Whole("apps")
    BY <1>1, <2>1
  <2>3. tables.apps[tables.guilds[g].app].status # "pending"
    BY <2>1, <2>2 DEF FoundedLate, GuildInv
  <2> QED BY <1>2, <2>1, <2>3
<1>9. ASSUME NEW a \in Whole("apps")' PROVE BackedAt(a)'
  <2>1. BackedAt(a) /\ a \in Rows("apps") /\ tables'.apps[a] = tables.apps[a] /\ <<"apps", a>> \notin torn'
    BY <1>1, <1>2 DEF GuildInv, Backed, BackedAt, Whole
  <2>2. Unsigned(a)
    BY <1>1, <1>2 DEF Unsigned, ValidSignatures
  <2>3. Unmanned(a)
    <3> SUFFICES ASSUME NEW g \in Rows("guilds")', tables'.guilds[g].app = a
                 PROVE  /\ g \in Rows("guilds") /\ tables.guilds[g].app = a
                        /\ MembersOf(g)' = MembersOf(g)
                        /\ \A m \in MembersOf(g) : tables'.members[m].by = tables.members[m].by
      BY DEF Unmanned
    <3>1. g \in Rows("guilds") /\ tables.guilds[g].app = a
      BY <2>1 DEF Grown
    <3>2. MembersOf(g)' = MembersOf(g)
      BY <3>1 DEF Grown, MembersOf
    <3> QED BY <3>1, <3>2 DEF Grown, MembersOf
  <2> QED BY <2>1, <2>2, <2>3, BackedKept
<1>10. Backed'
  BY <1>9 DEF Backed, BackedAt
<1> QED BY <1>3, <1>5, <1>6, <1>7, <1>8, <1>10 DEF GuildInv

-------------------------------------------------------------------------------
\* Rows to store that are rows, with ids that leave no gaps.
Stores(ws, n) ==
  /\ \A k \in 1..n : ws[k].table \in Tables /\ ws[k].row \in RowOf[ws[k].table]
  /\ \A m \in 0..n, t \in Tables : \E l \in Nat : DOMAIN PutFirst(tables, ws, m)[t] = 1..l

LEMMA AlikeDomains ==
  ASSUME NEW p, NEW q, NEW lost, Alike(p, q, lost), NEW t \in Tables
  PROVE  DOMAIN p[t] = DOMAIN q[t]
<1>1. t \in {"apps", "sigs", "joins"} \/ t = "guilds" \/ t = "members"
  BY DEF Tables
<1> QED BY <1>1 DEF Alike, SameRows

LEMMA AlikeSelf ==
  ASSUME NEW p, NEW lost
  PROVE  Alike(p, p, lost)
BY DEF Alike, SameRows

LEMMA PutFilled ==
  ASSUME NEW p, Filled(p), NEW n \in Nat, NEW ws, NEW m \in 0..n,
         \A k \in 1..n : ws[k].table \in Tables /\ ws[k].row \in RowOf[ws[k].table],
         \A t \in Tables : \E l \in Nat : DOMAIN PutFirst(p, ws, m)[t] = 1..l
  PROVE  Filled(PutFirst(p, ws, m))
<1> DEFINE q == PutFirst(p, ws, m)
<1> SUFFICES ASSUME NEW t \in Tables PROVE \E l \in Nat : q[t] \in [1..l -> RowOf[t]]
  BY DEF Filled
<1>1. PICK l \in Nat : DOMAIN q[t] = 1..l
  OBVIOUS
<1>2. q[t] = [i \in DOMAIN q[t] |-> q[t][i]]
  BY DEF PutFirst, Put
<1>3. ASSUME NEW i \in DOMAIN q[t] PROVE q[t][i] \in RowOf[t]
  <2>1. \/ i \in DOMAIN p[t] /\ q[t][i] = p[t][i]
        \/ \E k \in 1..m : ws[k].table = t /\ ws[k].id = i /\ q[t][i] = ws[k].row
    BY <1>3, PutWhat
  <2>2. CASE i \in DOMAIN p[t] /\ q[t][i] = p[t][i]
    <3>1. PICK j \in Nat : p[t] \in [1..j -> RowOf[t]]
      BY DEF Filled
    <3> QED BY <2>2, <3>1
  <2> HIDE DEF q
  <2>3. CASE \E k \in 1..m : ws[k].table = t /\ ws[k].id = i /\ q[t][i] = ws[k].row
    BY <2>3
  <2> QED BY <2>1, <2>2, <2>3
<1> HIDE DEF q
<1> QED BY <1>1, <1>2, <1>3

LEMMA StoreFilled ==
  ASSUME GuildInv, NEW n \in Nat, NEW ws, Stores(ws, n), NEW m \in 0..n
  PROVE  Filled(PutFirst(tables, ws, m)) /\ Filled(PutFirst(stored, ws, m))
<1>1. Filled(tables) /\ Filled(stored) /\ Alike(tables, stored, torn)
  BY DEF GuildInv, GuildsTyped
<1>2. Alike(PutFirst(tables, ws, m), PutFirst(stored, ws, m), torn)
  BY <1>1, PutAlike
<1>3. ASSUME NEW t \in Tables
      PROVE  \E l \in Nat : DOMAIN PutFirst(tables, ws, m)[t] = 1..l /\ DOMAIN PutFirst(stored, ws, m)[t] = 1..l
  BY <1>2, AlikeDomains DEF Stores
<1>4. \A k \in 1..n : ws[k].table \in Tables /\ ws[k].row \in RowOf[ws[k].table]
  BY DEF Stores
<1>5. Filled(PutFirst(tables, ws, m))
  BY <1>1, <1>3, <1>4, PutFilled
<1>6. Filled(PutFirst(stored, ws, m))
  BY <1>1, <1>3, <1>4, PutFilled
<1> QED BY <1>5, <1>6

\* What becomes of the tables, and of what is told of them, in a handler.
Succeeds(u, ws, n, next) ==
  /\ tables' = PutFirst(tables, ws, n) /\ stored' = PutFirst(stored, ws, n)
  /\ screen' = [screen EXCEPT ![u] = next] /\ torn' = torn
IsNew(w) == w.id \notin Rows(w.table)
Fails(u, ws, what, k) ==
  /\ stored' = PutFirst(stored, ws, k - 1)
  /\ torn' = IF k = 1 /\ IsNew(ws[k]) THEN torn ELSE torn \cup what
  /\ \/ /\ tables' = PutFirst(tables, ws, IF IsNew(ws[k]) THEN k - 1 ELSE k)
        /\ \/ UNCHANGED screen
           \/ screen' = [screen EXCEPT ![u] = NoMenu]
     \/ tables' = stored' /\ screen' = [v \in Folk |-> NoMenu]

LEMMA StoreKinds ==
  ASSUME NEW u, NEW ws, NEW what, NEW next, Store(u, ws, what, next),
         NEW n \in Nat, DOMAIN ws = 1..n, Len(ws) = n
  PROVE  Succeeds(u, ws, n, next) \/ \E k \in 1..n : Fails(u, ws, what, k)
BY DEF Store, Succeeds, Fails, IsNew

LEMMA Failed ==
  ASSUME GuildInv, NEW u \in Folk, NEW n \in Nat, NEW ws, NEW what, NEW k \in 1..n,
         Stores(ws, n), Fails(u, ws, what, k),
         Grown(tables, PutFirst(tables, ws, k - 1), torn'),
         IsNew(ws[k]) \/ Alike(PutFirst(tables, ws, k - 1), PutFirst(tables, ws, k), torn')
  PROVE  GuildInv'
<1> DEFINE P(m) == PutFirst(tables, ws, m)
           S(m) == PutFirst(stored, ws, m)
<1>1. GuildsTyped /\ Alike(tables, stored, torn)
  BY DEF GuildInv
<1>2. torn \subseteq torn'
  BY DEF Fails
<1>3. Alike(P(k-1), S(k-1), torn')
  <2>1. Alike(tables, stored, torn')
    BY <1>1, <1>2, AlikeMore
  <2> QED BY <2>1, PutAlike
<1>4. NoMenu \in [at : Menus, id : Nat]
  BY DEF NoMenu, Menus
<1>5. Filled(P(k-1)) /\ Filled(S(k-1)) /\ Filled(P(k))
  <2>1. k - 1 \in 0..n /\ k \in 0..n
    OBVIOUS
  <2> QED BY <2>1, StoreFilled
<1>6. stored' = S(k-1)
  BY DEF Fails
<1>7. CASE tables' = stored' /\ screen' = [v \in Folk |-> NoMenu]
  <2>1. Grown(tables, tables', torn')
    BY <1>3, <1>6, <1>7, GrownAlike
  <2>2. Alike(tables', stored', torn')
    BY <1>7, AlikeSelf
  <2>3. GuildsTyped' /\ \A v \in Folk : screen'[v] = NoMenu
    BY <1>4, <1>5, <1>6, <1>7 DEF GuildsTyped
  <2> QED BY <1>2, <2>1, <2>2, <2>3, Aftermath
<1>8. CASE /\ tables' = PutFirst(tables, ws, IF IsNew(ws[k]) THEN k - 1 ELSE k)
           /\ \/ UNCHANGED screen
              \/ screen' = [screen EXCEPT ![u] = NoMenu]
  <2>1. \/ tables' = P(k-1)
        \/ tables' = P(k) /\ Alike(P(k-1), P(k), torn')
    BY <1>8
  <2>2. Grown(tables, tables', torn')
    BY <2>1, GrownAlike
  <2>3. Alike(tables', stored', torn')
    <3>1. CASE tables' = P(k-1)
      BY <1>3, <1>6, <3>1
    <3>2. CASE tables' = P(k) /\ Alike(P(k-1), P(k), torn')
      <4>1. Alike(P(k), P(k-1), torn')
        BY <3>2, AlikeTurns
      <4> QED BY <1>3, <1>6, <3>2, <4>1, AlikeChain
    <3> QED BY <2>1, <3>1, <3>2
  <2>4. GuildsTyped'
    <3>1. Filled(tables') /\ Filled(stored')
      BY <1>5, <1>6, <2>1
    <3>2. screen' \in [Folk -> [at : Menus, id : Nat]]
      BY <1>1, <1>4, <1>8 DEF GuildsTyped
    <3> QED BY <3>1, <3>2 DEF GuildsTyped
  <2>5. \A v \in Folk : screen'[v] \in {screen[v], NoMenu}
    BY <1>1, <1>8 DEF GuildsTyped
  <2> QED BY <1>2, <2>2, <2>3, <2>4, <2>5, Aftermath
<1> QED BY <1>7, <1>8 DEF Fails

\* A handler that changes what it is about.
LEMMA ChangesStored ==
  ASSUME GuildInv, NEW u \in Folk, NEW n \in Nat, NEW ws, NEW what, NEW next,
         DOMAIN ws = 1..n, Len(ws) = n, Store(u, ws, what, next),
         \A k \in 1..n : Concerns(ws[k], tables, torn \cup what),
         \A k \in 1..n : ws[k].table \in Tables /\ ws[k].row \in RowOf[ws[k].table]
  PROVE  Stores(ws, n) /\ (GuildInv' \/ Succeeds(u, ws, n, next))
<1> DEFINE P(m) == PutFirst(tables, ws, m)
<1>1. \A t \in Tables : \E l \in Nat : tables[t] \in [1..l -> RowOf[t]]
  BY DEF GuildInv, GuildsTyped, Filled
<1>2. \A m \in 0..n : Alike(tables, P(m), torn \cup what)
  <2>1. \A t \in {"guilds", "members"} : tables[t] = [i \in DOMAIN tables[t] |-> tables[t][i]]
    BY <1>1 DEF Tables
  <2>2. ASSUME NEW m \in 0..n PROVE \A k \in 1..m : Concerns(ws[k], tables, torn \cup what)
    <3> SUFFICES ASSUME NEW k \in 1..m PROVE Concerns(ws[k], tables, torn \cup what)
      OBVIOUS
    <3>1. k \in 1..n
      OBVIOUS
    <3> QED BY <3>1
  <2>3. ASSUME NEW m \in 0..n PROVE Alike(tables, P(m), torn \cup what)
    BY <2>1, <2>2, ChangesAlike
  <2> QED BY <2>3
<1>3. Stores(ws, n)
  <2>1. ASSUME NEW m \in 0..n, NEW t \in Tables PROVE \E l \in Nat : DOMAIN P(m)[t] = 1..l
    <3>1. DOMAIN P(m)[t] = DOMAIN tables[t]
      BY <1>2, AlikeDomains
    <3> HIDE DEF P
    <3> QED BY <1>1, <3>1
  <2> QED BY <2>1 DEF Stores
<1>4. ASSUME NEW k \in 1..n, Fails(u, ws, what, k) PROVE GuildInv'
  <2>1. ~IsNew(ws[k])
    BY DEF IsNew, Concerns, Rows
  <2>2. torn' = torn \cup what
    BY <1>4, <2>1 DEF Fails
  <2>3. Alike(tables, P(k-1), torn') /\ Alike(tables, P(k), torn')
    <3>1. k - 1 \in 0..n /\ k \in 0..n
      OBVIOUS
    <3> HIDE DEF P
    <3> QED BY <1>2, <2>2, <3>1
  <2>4. Grown(tables, P(k-1), torn')
    BY <2>3, AlikeGrown
  <2>5. Alike(P(k-1), P(k), torn')
    BY <2>3, AlikeTurns, AlikeChain
  <2> QED BY <1>3, <1>4, <2>4, <2>5, Failed
<1> QED BY <1>3, <1>4, StoreKinds

\* A handler that stores one new row.
LEMMA NewStored ==
  ASSUME GuildInv, NEW u \in Folk, NEW t \in Tables, NEW row \in RowOf[t], NEW what, NEW next,
         Store(u, <<New(t, 1, row)>>, what, next)
  PROVE  /\ Stores(<<New(t, 1, row)>>, 1)
         /\ GuildInv' \/ Succeeds(u, <<New(t, 1, row)>>, 1, next)
         /\ \E l \in Nat : DOMAIN tables[t] = 1..l /\ New(t, 1, row).id = l + 1
<1> DEFINE w == New(t, 1, row)
           ws == <<w>>
           P(m) == PutFirst(tables, ws, m)
<1>1. \A x \in Tables : \E l \in Nat : tables[x] \in [1..l -> RowOf[x]]
  BY DEF GuildInv, GuildsTyped, Filled
<1>2. \E l \in Nat : DOMAIN tables[t] = 1..l /\ w.id = l + 1
  <2>1. PICK l \in Nat : tables[t] \in [1..l -> RowOf[t]]
    BY <1>1
  <2>2. Len(tables[t]) = l
    BY <2>1
  <2> QED BY <2>1, <2>2 DEF New
<1>3. w.table = t /\ w.row = row
  BY DEF New
<1> HIDE DEF w
<1>4. ws[1] = w /\ DOMAIN ws = 1..1 /\ Len(ws) = 1
  OBVIOUS
<1> HIDE DEF ws
<1>5. ASSUME NEW m \in 0..1, NEW x \in Tables PROVE \E l \in Nat : DOMAIN P(m)[x] = 1..l
  <2>1. PICK l \in Nat : DOMAIN tables[x] = 1..l
    BY <1>1
  <2>2. \A i : i \in DOMAIN P(m)[x] <=> i \in 1..l \/ \E k \in 1..m : ws[k].table = x /\ ws[k].id = i
    BY <2>1, PutWhat
  <2> HIDE DEF P
  <2>3. CASE m = 1 /\ x = t
    <3>1. \A i : i \in DOMAIN P(m)[x] <=> i \in 1..l \/ i = w.id
      BY <1>3, <1>4, <2>2, <2>3
    <3>2. w.id = l + 1
      BY <1>2, <2>1, <2>3
    <3>3. \A i : i \in DOMAIN P(m)[x] <=> i \in 1..(l + 1)
      BY <3>1, <3>2
    <3> DEFINE ids == DOMAIN P(m)[x]
               n == l + 1
    <3>4. \A i : i \in ids <=> i \in 1..n
      BY <3>3
    <3>5. n \in Nat
      OBVIOUS
    <3> HIDE DEF ids, n
    <3>6. ids = 1..n
      BY <3>4
    <3> QED BY <3>5, <3>6 DEF ids
  <2>4. CASE m = 0 \/ x # t
    <3>1. \A i : i \in DOMAIN P(m)[x] <=> i \in 1..l
      BY <1>3, <1>4, <2>2, <2>4
    <3>2. DOMAIN P(m)[x] = 1..l
      BY <3>1
    <3> QED BY <3>2
  <2> QED BY <2>3, <2>4
<1>6. Stores(ws, 1)
  BY <1>3, <1>4, <1>5 DEF Stores
<1>7. ASSUME NEW k \in 1..1, Fails(u, ws, what, k) PROVE GuildInv'
  <2>1. k = 1 /\ IsNew(ws[k])
    BY <1>2, <1>3, <1>4 DEF IsNew, Rows
  <2>2. Alike(tables, P(0), torn')
    <3>1. \A x \in {"guilds", "members"} : tables[x] = [i \in DOMAIN tables[x] |-> tables[x][i]]
      BY <1>1 DEF Tables
    <3>2. \A j \in 1..0 : Concerns(ws[j], tables, torn')
      OBVIOUS
    <3> QED BY <3>1, <3>2, ChangesAlike
  <2>3. Grown(tables, P(k-1), torn')
    BY <2>1, <2>2, AlikeGrown
  <2> QED BY <1>6, <1>7, <2>1, <2>3, Failed
<1>8. GuildInv' \/ Succeeds(u, ws, 1, next)
  BY <1>4, <1>7, StoreKinds DEF ws, w
<1> QED BY <1>2, <1>6, <1>8 DEF ws, w

-------------------------------------------------------------------------------
LEMMA FilledFcn ==
  ASSUME NEW p, Filled(p), NEW t \in Tables
  PROVE  /\ p[t] = [i \in DOMAIN p[t] |-> p[t][i]]
         /\ \A i \in DOMAIN p[t] : p[t][i] \in RowOf[t] /\ i \in Nat \ {0}
         /\ \E l \in Nat : DOMAIN p[t] = 1..l
<1>1. PICK l \in Nat : p[t] \in [1..l -> RowOf[t]]
  BY DEF Filled
<1> QED BY <1>1

\* A table no row of ws is for.
LEMMA PutElsewhere ==
  ASSUME NEW p, Filled(p), NEW t \in Tables, NEW ws, NEW n, \A k \in 1..n : ws[k].table # t
  PROVE  PutFirst(p, ws, n)[t] = p[t]
<1>1. p[t] = [i \in DOMAIN p[t] |-> p[t][i]]
  BY FilledFcn
<1>2. {k \in 1..n : ws[k].table = t} = {}
  OBVIOUS
<1>3. PutFirst(p, ws, n)[t] = [i \in DOMAIN p[t] |-> p[t][i]]
  BY <1>2 DEF PutFirst, Put
<1> QED BY <1>1, <1>3

LEMMA Succeeded ==
  ASSUME GuildInv, NEW u \in Folk, NEW n \in Nat, NEW ws, NEW next \in [at : Menus, id : Nat],
         Stores(ws, n), Succeeds(u, ws, n, next)
  PROVE  /\ GuildsTyped' /\ Alike(tables', stored', torn')
         /\ screen'[u] = next /\ \A v \in Folk \ {u} : screen'[v] = screen[v]
<1>1. GuildsTyped /\ Alike(tables, stored, torn)
  BY DEF GuildInv
<1>2. n \in 0..n
  OBVIOUS
<1>3. Filled(tables') /\ Filled(stored')
  BY <1>2, StoreFilled DEF Succeeds
<1>4. Alike(tables', stored', torn')
  BY <1>1, PutAlike DEF Succeeds
<1>5. screen' = [screen EXCEPT ![u] = next] /\ screen \in [Folk -> [at : Menus, id : Nat]]
  BY <1>1 DEF Succeeds, GuildsTyped
<1> QED BY <1>3, <1>4, <1>5 DEF GuildsTyped

\* What a new row leaves as it was.
LEMMA NewRow ==
  ASSUME GuildInv, NEW u \in Folk, NEW t \in Tables, NEW row \in RowOf[t], NEW next,
         Succeeds(u, <<New(t, 1, row)>>, 1, next),
         \E l \in Nat : DOMAIN tables[t] = 1..l /\ New(t, 1, row).id = l + 1
  PROVE  /\ \A x \in Tables \ {t} : tables'[x] = tables[x]
         /\ \E l \in Nat : /\ Rows(t) = 1..l /\ Rows(t)' = 1..(l + 1)
                           /\ tables'[t][l + 1] = row
                           /\ \A i \in 1..l : tables'[t][i] = tables[t][i]
<1> DEFINE w == New(t, 1, row)
           ws == <<w>>
<1>1. Filled(tables)
  BY DEF GuildInv, GuildsTyped
<1>2. PICK l \in Nat : DOMAIN tables[t] = 1..l /\ w.id = l + 1
  OBVIOUS
<1>3. w.table = t /\ w.row = row
  BY DEF New
<1>4. tables' = PutFirst(tables, ws, 1)
  BY DEF Succeeds
<1> HIDE DEF w
<1>5. ws[1] = w
  OBVIOUS
<1> HIDE DEF ws
<1>6. \A x \in Tables \ {t} : tables'[x] = tables[x]
  BY <1>1, <1>3, <1>4, <1>5, PutElsewhere
<1> DEFINE q == tables'[t]
<1>7. /\ \A i : i \in DOMAIN q <=> i \in 1..l \/ \E k \in 1..1 : ws[k].table = t /\ ws[k].id = i
      /\ \A i \in DOMAIN q :
           \/ /\ i \in 1..l /\ q[i] = tables[t][i]
              /\ \A k \in 1..1 : ws[k].table = t => ws[k].id # i
           \/ \E k \in 1..1 : ws[k].table = t /\ ws[k].id = i /\ q[i] = ws[k].row
  BY <1>2, <1>4, PutWhat
<1> HIDE DEF q
<1>8. /\ \A i : i \in DOMAIN q <=> i \in 1..l \/ i = l + 1
      /\ \A i \in DOMAIN q : (i \in 1..l /\ q[i] = tables[t][i]) \/ (i = l + 1 /\ q[i] = row)
  BY <1>2, <1>3, <1>5, <1>7
<1>9. DOMAIN q = 1..(l + 1)
  <2> DEFINE ids == DOMAIN q
             n == l + 1
  <2>1. \A i : i \in ids <=> i \in 1..n
    BY <1>8
  <2> HIDE DEF ids, n
  <2>2. ids = 1..n
    BY <2>1
  <2> QED BY <2>2 DEF ids, n
<1>10. q[l + 1] = row /\ \A i \in 1..l : q[i] = tables[t][i]
  <2>1. l + 1 \in DOMAIN q /\ l + 1 \notin 1..l
    BY <1>8
  <2>2. \A i \in 1..l : i \in DOMAIN q /\ i # l + 1
    BY <1>8
  <2> QED BY <1>8, <2>1, <2>2
<1> QED BY <1>2, <1>6, <1>9, <1>10 DEF q, Rows

\* What changes leave as it was.
LEMMA ChangedRows ==
  ASSUME GuildInv, NEW u \in Folk, NEW n \in Nat, NEW ws, NEW next, Succeeds(u, ws, n, next),
         \A k \in 1..n : ws[k].table \in Tables /\ ws[k].id \in Rows(ws[k].table)
  PROVE  /\ \A t \in Tables : (\A k \in 1..n : ws[k].table # t) => tables'[t] = tables[t]
         /\ \A t \in Tables : Rows(t)' = Rows(t) /\ \A i \in Rows(t) :
              \/ /\ tables'[t][i] = tables[t][i]
                 /\ \A k \in 1..n : ws[k].table = t => ws[k].id # i
              \/ \E k \in 1..n : ws[k].table = t /\ ws[k].id = i /\ tables'[t][i] = ws[k].row
<1>1. Filled(tables)
  BY DEF GuildInv, GuildsTyped
<1>2. tables' = PutFirst(tables, ws, n)
  BY DEF Succeeds
<1>3. \A t \in Tables : (\A k \in 1..n : ws[k].table # t) => tables'[t] = tables[t]
  BY <1>1, <1>2, PutElsewhere
<1>4. ASSUME NEW t \in Tables
      PROVE  Rows(t)' = Rows(t) /\ \A i \in Rows(t) :
              \/ /\ tables'[t][i] = tables[t][i]
                 /\ \A k \in 1..n : ws[k].table = t => ws[k].id # i
              \/ \E k \in 1..n : ws[k].table = t /\ ws[k].id = i /\ tables'[t][i] = ws[k].row
  <2>1. /\ \A i : i \in DOMAIN tables'[t] <=>
                   i \in DOMAIN tables[t] \/ \E k \in 1..n : ws[k].table = t /\ ws[k].id = i
        /\ \A i \in DOMAIN tables'[t] :
              \/ /\ i \in DOMAIN tables[t] /\ tables'[t][i] = tables[t][i]
                 /\ \A k \in 1..n : ws[k].table = t => ws[k].id # i
              \/ \E k \in 1..n : ws[k].table = t /\ ws[k].id = i /\ tables'[t][i] = ws[k].row
    BY <1>2, PutWhat
  <2>2. \A i : i \in DOMAIN tables'[t] <=> i \in DOMAIN tables[t]
    BY <2>1 DEF Rows
  <2>3. DOMAIN tables'[t] = DOMAIN tables[t]
    BY <2>2
  <2> QED BY <2>1, <2>3 DEF Rows
<1> QED BY <1>3, <1>4

LEMMA GuildsStart == GuildsInit => GuildInv
<1> SUFFICES ASSUME GuildsInit PROVE GuildInv
  OBVIOUS
<1>1. /\ tables = [t \in Tables |-> <<>>] /\ stored = tables /\ screen = [u \in Folk |-> NoMenu]
  BY DEF GuildsInit
<1>2. \A t \in Tables : DOMAIN tables[t] = {} /\ tables[t] \in [1..0 -> RowOf[t]]
  BY <1>1
<1>3. Filled(tables) /\ Filled(stored)
  <2>1. 0 \in Nat
    OBVIOUS
  <2> QED BY <1>1, <1>2, <2>1 DEF Filled
<1>4. NoMenu \in [at : Menus, id : Nat] /\ NoMenu.at = "none"
  BY DEF NoMenu, Menus
<1>5. GuildsTyped
  BY <1>1, <1>3, <1>4 DEF GuildsTyped
<1>6. Alike(tables, stored, torn)
  BY <1>1, AlikeSelf
<1>7. \A t \in Tables : Rows(t) = {}
  BY <1>2 DEF Rows
<1>8. /\ Rows("apps") = {} /\ Rows("sigs") = {} /\ Rows("guilds") = {} /\ Rows("members") = {}
      /\ Rows("joins") = {} /\ Whole("apps") = {} /\ Whole("joins") = {}
      /\ \A u \in Folk : screen[u].at = "none"
  BY <1>1, <1>4, <1>7 DEF Tables, Whole
<1> QED BY <1>5, <1>6, <1>8 DEF GuildInv, Referred, MenusHold, At, SignedOnce, FoundedLate, Single, Backed

\* From menu to menu.
LEMMA Shown ==
  ASSUME GuildInv, NEW u \in Folk, NEW menu \in Menus, NEW id \in Nat, Show(u, menu, id),
         menu \in {"view", "approve", "deny", "signatures"} => id \in Rows("apps"),
         menu = "signatures" => MayAdmit(u, id),
         menu \in {"approve", "deny"} /\ id \in Whole("apps") => tables.apps[id].status # "pending",
         menu = "create" => OwnOpen(u) = {},
         menu = "joining" => OwnReviewing(u) = {}
  PROVE  GuildInv'
<1>1. UNCHANGED <<tables, stored, torn>>
  BY DEF Show
<1>2. screen' = [screen EXCEPT ![u] = [at |-> menu, id |-> id]]
      /\ screen \in [Folk -> [at : Menus, id : Nat]]
  BY DEF Show, GuildInv, GuildsTyped
<1>3. /\ screen' \in [Folk -> [at : Menus, id : Nat]]
      /\ screen'[u].at = menu /\ screen'[u].id = id /\ \A v \in Folk \ {u} : screen'[v] = screen[v]
  BY <1>2
<1>4. GuildsTyped'
  BY <1>1, <1>3 DEF GuildInv, GuildsTyped
<1>5. Alike(tables, stored, torn)'
  BY <1>1 DEF GuildInv
<1>6. /\ \A t \in Tables : Rows(t)' = Rows(t) /\ Whole(t)' = Whole(t)
      /\ Rows("apps")' = Rows("apps") /\ Whole("apps")' = Whole("apps") /\ Whole("joins")' = Whole("joins")
      /\ \A v \in Folk : OwnOpen(v)' = OwnOpen(v) /\ OwnReviewing(v)' = OwnReviewing(v)
  BY <1>1 DEF Rows, Whole, OwnOpen, OwnReviewing, Open
<1>7. Referred'
  BY <1>1, <1>3, <1>6 DEF GuildInv, Referred, App, Rows
<1>8. MenusHold'
  <2> SUFFICES ASSUME NEW v \in Folk
               PROVE  /\ At(v, "signatures")' /\ App(v)' \in Whole("apps")' => MayAdmit(v, App(v))'
                      /\ screen'[v].at \in {"approve", "deny"} /\ App(v)' \in Whole("apps")' =>
                           tables'.apps[App(v)'].status # "pending"
                      /\ At(v, "create")' => OwnOpen(v)' \cap Whole("apps")' = {}
                      /\ At(v, "joining")' => OwnReviewing(v)' \cap Whole("joins")' = {}
    BY DEF MenusHold
  <2>1. CASE v = u
    BY <1>1, <1>3, <1>6, <2>1 DEF At, App, MayAdmit
  <2>2. CASE v # u
    BY <1>1, <1>3, <1>6, <2>2 DEF GuildInv, MenusHold, At, App, MayAdmit
  <2> QED BY <2>1, <2>2
<1>9. SignedOnce' /\ FoundedLate' /\ Single' /\ Backed'
  <2>1. SignedOnce' /\ FoundedLate'
    BY <1>1 DEF GuildInv, SignedOnce, FoundedLate, Rows, Whole
  <2>2. Single'
    BY <1>6 DEF GuildInv, Single
  <2>3. Backed'
    <3>1. ASSUME NEW a \in Whole("apps") PROVE BackedAt(a)'
      <4>1. BackedAt(a)
        BY DEF GuildInv, Backed, BackedAt
      <4>2. Unsigned(a) /\ Unmanned(a)
        BY <1>1 DEF Unsigned, Unmanned, ValidSignatures, MembersOf, Rows
      <4> QED BY <1>1, <4>1, <4>2, BackedKept
    <3> QED BY <1>6, <3>1 DEF Backed, BackedAt
  <2> QED BY <2>1, <2>2, <2>3
<1> QED BY <1>4, <1>5, <1>7, <1>8, <1>9 DEF GuildInv

-------------------------------------------------------------------------------
LEMMA Rebooted == ASSUME GuildInv, Reboot PROVE GuildInv'
<1>1. Alike(tables, stored, torn)
  BY DEF GuildInv
<1>2. tables' = stored /\ stored' = stored /\ torn' = torn /\ screen' = [u \in Folk |-> NoMenu]
  BY DEF Reboot
<1>3. Grown(tables, tables', torn')
  BY <1>1, <1>2, AlikeGrown
<1>4. Alike(tables', stored', torn')
  BY <1>2, AlikeSelf
<1>5. NoMenu \in [at : Menus, id : Nat]
  BY DEF NoMenu, Menus
<1>6. GuildsTyped' /\ \A u \in Folk : screen'[u] = NoMenu
  BY <1>2, <1>5 DEF GuildInv, GuildsTyped
<1> QED BY <1>2, <1>3, <1>4, <1>6, Aftermath

LEMMA MenuSteps ==
  ASSUME GuildInv, NEW u \in Folk,
         \/ LeaveMenu(u) \/ OpenApprove(u) \/ OpenDeny(u) \/ OpenSignatures(u) \/ OpenCreate(u)
         \/ OpenJoin(u) \/ (\E a \in Rows("apps") : ViewApplication(u, a))
         \/ \E g \in Rows("guilds") : ViewGuild(u, g)
  PROVE  GuildInv'
<1>1. screen[u].at \in Menus /\ screen[u].id \in Nat /\ App(u) \in Nat
  BY DEF GuildInv, GuildsTyped, App
<1>2. screen[u].at \in {"view", "approve", "deny", "signatures"} => App(u) \in Rows("apps")
  BY DEF GuildInv, Referred
<1>3. Filled(tables)
  BY DEF GuildInv, GuildsTyped
<1>4. \A t \in Tables : \A i \in Rows(t) : i \in Nat
  BY <1>3, FilledFcn DEF Rows
<1> USE DEF Menus
<1>5. CASE LeaveMenu(u)
  <2>1. CASE Show(u, "none", 0)
    BY <2>1, Shown
  <2>2. CASE screen[u].at \in {"approve", "deny", "signatures"} /\ Show(u, "view", App(u))
    BY <1>1, <1>2, <2>2, Shown
  <2>3. CASE At(u, "joining") /\ Show(u, "guild", screen[u].id)
    BY <1>1, <2>3, Shown
  <2> QED BY <1>5, <2>1, <2>2, <2>3 DEF LeaveMenu
<1>6. CASE OpenApprove(u) \/ OpenDeny(u)
  <2>1. /\ \/ Show(u, "approve", App(u))
           \/ Show(u, "deny", App(u))
        /\ App(u) \in Rows("apps") /\ tables.apps[App(u)].status = "reviewing"
    BY <1>2, <1>6 DEF OpenApprove, OpenDeny, MayDecide, RequiresReview, At
  <2> QED BY <1>1, <2>1, Shown
<1>7. CASE OpenSignatures(u)
  <2>1. Show(u, "signatures", App(u)) /\ App(u) \in Rows("apps") /\ MayAdmit(u, App(u))
    BY <1>2, <1>7 DEF OpenSignatures, At
  <2> QED BY <1>1, <2>1, Shown
<1>8. CASE OpenCreate(u)
  <2>1. Show(u, "create", 0) /\ OwnOpen(u) = {}
    BY <1>8 DEF OpenCreate, MayCreate
  <2> QED BY <2>1, Shown
<1>9. CASE OpenJoin(u)
  <2>1. Show(u, "joining", screen[u].id) /\ OwnReviewing(u) = {}
    BY <1>9 DEF OpenJoin
  <2> QED BY <1>1, <2>1, Shown
<1>10. CASE \E a \in Rows("apps") : ViewApplication(u, a)
  <2>1. PICK a \in Rows("apps") : Show(u, "view", a)
    BY <1>10 DEF ViewApplication
  <2>2. a \in Nat
    BY <1>4 DEF Tables
  <2> QED BY <2>1, <2>2, Shown
<1>11. CASE \E g \in Rows("guilds") : ViewGuild(u, g)
  <2>1. PICK g \in Rows("guilds") : Show(u, "guild", g)
    BY <1>11 DEF ViewGuild
  <2>2. g \in Nat
    BY <1>4 DEF Tables
  <2> QED BY <2>1, <2>2, Shown
<1> QED BY <1>5, <1>6, <1>7, <1>8, <1>9, <1>10, <1>11

\* The menus after a handler that opened and closed nothing of others.
LEMMA MenusKept ==
  ASSUME MenusHold, NEW u \in Folk, \A v \in Folk \ {u} : screen'[v] = screen[v],
         screen'[u].at \in {"none", "view", "guild"} \/ screen'[u] = screen[u],
         \A v \in Folk : screen'[v] = screen[v] =>
           /\ OwnOpen(v)' \cap Whole("apps")' \subseteq OwnOpen(v) \cap Whole("apps")
           /\ OwnReviewing(v)' \cap Whole("joins")' \subseteq OwnReviewing(v) \cap Whole("joins"),
         \A v \in Folk, a \in Whole("apps")' :
           /\ screen'[v] = screen[v] /\ screen[v].at \in {"signatures", "approve", "deny"} /\ App(v) = a
           => /\ a \in Whole("apps") /\ tables'.apps[a].by = tables.apps[a].by
              /\ \/ tables'.apps[a].status = tables.apps[a].status
                 \/ tables.apps[a].status # "pending" /\ tables'.apps[a].status # "pending"
  PROVE  MenusHold'
<1> SUFFICES ASSUME NEW v \in Folk
             PROVE  /\ At(v, "signatures")' /\ App(v)' \in Whole("apps")' => MayAdmit(v, App(v))'
                    /\ screen'[v].at \in {"approve", "deny"} /\ App(v)' \in Whole("apps")' =>
                         tables'.apps[App(v)'].status # "pending"
                    /\ At(v, "create")' => OwnOpen(v)' \cap Whole("apps")' = {}
                    /\ At(v, "joining")' => OwnReviewing(v)' \cap Whole("joins")' = {}
  BY DEF MenusHold
<1>1. CASE screen'[v].at \in {"none", "view", "guild"}
  BY <1>1 DEF At
<1>2. CASE screen'[v] = screen[v]
  BY <1>2 DEF MenusHold, At, App, MayAdmit
<1> QED BY <1>1, <1>2

LEMMA SubmitStep == ASSUME GuildInv, NEW u \in Folk, Submit(u) PROVE GuildInv'
<1> DEFINE row == [by |-> u, status |-> "pending"]
           ws == <<New("apps", 1, row)>>
<1>1. "apps" \in Tables /\ row \in RowOf["apps"]
  BY DEF Tables, RowOf
<1>2. \E what : Store(u, ws, what, NoMenu)
  BY DEF Submit
<1>3. /\ Stores(ws, 1) /\ (GuildInv' \/ Succeeds(u, ws, 1, NoMenu))
      /\ \E l \in Nat : DOMAIN tables["apps"] = 1..l /\ New("apps", 1, row).id = l + 1
  BY <1>1, <1>2, NewStored
<1> SUFFICES ASSUME Succeeds(u, ws, 1, NoMenu) PROVE GuildInv'
  BY <1>3
<1>4. NoMenu \in [at : Menus, id : Nat] /\ NoMenu.at = "none" /\ NoMenu.id = 0
  BY DEF NoMenu, Menus
<1>5. /\ GuildsTyped' /\ Alike(tables', stored', torn')
      /\ screen'[u] = NoMenu /\ \A v \in Folk \ {u} : screen'[v] = screen[v]
  BY <1>3, <1>4, Succeeded
<1>6. /\ \A x \in Tables \ {"apps"} : tables'[x] = tables[x]
      /\ \E l \in Nat : /\ Rows("apps") = 1..l /\ Rows("apps")' = 1..(l + 1)
                        /\ tables'["apps"][l + 1] = row
                        /\ \A i \in 1..l : tables'["apps"][i] = tables["apps"][i]
  BY <1>1, <1>3, NewRow
<1>7. PICK l \in Nat : /\ Rows("apps") = 1..l /\ Rows("apps")' = 1..(l + 1)
                       /\ tables'.apps[l + 1] = row
                       /\ \A i \in 1..l : tables'.apps[i] = tables.apps[i]
  BY <1>6
<1>8. /\ tables'.sigs = tables.sigs /\ tables'.guilds = tables.guilds /\ tables'.members = tables.members
      /\ tables'.joins = tables.joins
  BY <1>6 DEF Tables
<1>9. torn' = torn /\ row.by = u /\ row.status = "pending" /\ l + 1 \notin 1..l /\ 1..l \subseteq 1..(l + 1)
  BY DEF Succeeds
<1> HIDE DEF row, ws
<1>10. /\ Rows("sigs")' = Rows("sigs") /\ Rows("guilds")' = Rows("guilds")
       /\ Rows("members")' = Rows("members") /\ Rows("joins")' = Rows("joins")
       /\ Whole("apps") \subseteq Whole("apps")' /\ Whole("joins")' = Whole("joins")
       /\ \A a \in Whole("apps")' : a = l + 1 \/ (a \in Whole("apps") /\ tables'.apps[a] = tables.apps[a])
  BY <1>7, <1>8, <1>9 DEF Rows, Whole
<1>11. Referred /\ MenusHold /\ SignedOnce /\ FoundedLate /\ Single /\ Backed
  BY DEF GuildInv
<1>12. Referred'
  <2>1. \A s \in Rows("sigs")' : /\ tables'.sigs[s].app \in Rows("apps")'
                                 /\ tables'.sigs[s].by # tables'.apps[tables'.sigs[s].app].by
    BY <1>7, <1>8, <1>9, <1>10, <1>11 DEF Referred
  <2>2. /\ \A g \in Rows("guilds")' : tables'.guilds[g].app \in Rows("apps")'
        /\ \A m \in Rows("members")' : tables'.members[m].guild \in Rows("guilds")'
    BY <1>7, <1>8, <1>9, <1>10, <1>11 DEF Referred
  <2>3. \A v \in Folk : screen'[v].at \in {"view", "approve", "deny", "signatures"} => App(v)' \in Rows("apps")'
    BY <1>4, <1>5, <1>7, <1>9, <1>11 DEF Referred, App
  <2> QED BY <2>1, <2>2, <2>3 DEF Referred
<1>13. \A v \in Folk : OwnOpen(v)' \cap Whole("apps")' \subseteq
                         (OwnOpen(v) \cap Whole("apps")) \cup (IF v = u THEN {l + 1} ELSE {})
  <2> SUFFICES ASSUME NEW v \in Folk, NEW a \in OwnOpen(v)' \cap Whole("apps")'
               PROVE  a \in OwnOpen(v) \cap Whole("apps") \/ (v = u /\ a = l + 1)
    OBVIOUS
  <2>1. a \in Rows("apps")' /\ tables'.apps[a].by = v /\ Open(a)'
    BY DEF OwnOpen
  <2>2. CASE a = l + 1
    BY <1>7, <1>9, <2>1, <2>2
  <2>3. CASE a \in Whole("apps") /\ tables'.apps[a] = tables.apps[a]
    BY <2>1, <2>3 DEF OwnOpen, Open, Whole
  <2> QED BY <1>10, <2>2, <2>3
<1>14. \A v \in Folk : OwnReviewing(v)' = OwnReviewing(v)
  BY <1>8, <1>10 DEF OwnReviewing
<1>15. Single'
  <2>1. OwnOpen(u) \cap Whole("apps") = {}
    BY <1>11 DEF MenusHold, Submit
  <2> QED BY <1>10, <1>11, <1>13, <1>14, <2>1 DEF Single
<1>16. MenusHold'
  <2>1. ASSUME NEW v \in Folk, screen'[v] = screen[v] PROVE v # u
    BY <1>4, <1>5, <2>1 DEF Submit, At
  <2>2. ASSUME NEW v \in Folk, NEW a \in Whole("apps")',
               screen[v].at \in {"signatures", "approve", "deny"}, App(v) = a
        PROVE  a \in Whole("apps") /\ tables'.apps[a] = tables.apps[a]
    BY <1>7, <1>9, <1>10, <1>11, <2>2 DEF Referred
  <2> QED BY <1>4, <1>5, <1>10, <1>11, <1>13, <1>14, <2>1, <2>2, MenusKept
<1>17. SignedOnce'
  BY <1>7, <1>8, <1>9, <1>10, <1>11 DEF SignedOnce, Referred
<1>18. FoundedLate'
  BY <1>7, <1>8, <1>9, <1>10, <1>11 DEF FoundedLate, Referred
<1>19. ASSUME NEW a \in Whole("apps")' PROVE BackedAt(a)'
  <2>1. CASE a = l + 1
    <3>1. \A g \in Rows("guilds")' : tables'.guilds[g].app # a
      BY <1>7, <1>8, <1>9, <1>10, <1>11, <2>1 DEF Referred
    <3> QED BY <1>7, <1>9, <2>1, <3>1 DEF BackedAt
  <2>2. CASE a \in Whole("apps") /\ tables'.apps[a] = tables.apps[a]
    <3>1. BackedAt(a)
      BY <1>11, <2>2 DEF Backed, BackedAt
    <3>2. Unsigned(a) /\ Unmanned(a)
      BY <1>8, <1>10 DEF Unsigned, Unmanned, ValidSignatures, MembersOf
    <3> QED BY <2>2, <3>1, <3>2, BackedKept
  <2> QED BY <1>10, <2>1, <2>2
<1>20. Backed'
  BY <1>19 DEF Backed, BackedAt
<1> QED BY <1>5, <1>12, <1>15, <1>16, <1>17, <1>18, <1>20 DEF GuildInv

LEMMA SignStep == ASSUME GuildInv, NEW u \in Folk, Sign(u) PROVE GuildInv'
<1> DEFINE b == App(u)
           row == [by |-> u, app |-> b, status |-> "pending"]
           ws == <<New("sigs", 1, row)>>
<1>1. /\ b \in Rows("apps") /\ b \in Nat /\ tables.apps[b].by # u /\ screen[u] \in [at : Menus, id : Nat]
      /\ ~\E s \in Rows("sigs") :
            tables.sigs[s].by = u /\ tables.sigs[s].app = b /\ tables.sigs[s].status # "removed"
  BY DEF Sign, At, App, GuildInv, GuildsTyped, Referred
<1>2. "sigs" \in Tables /\ row \in RowOf["sigs"]
  BY <1>1 DEF Tables, RowOf, AllStatuses
<1>3. \E what : Store(u, ws, what, screen[u])
  BY DEF Sign
<1>4. /\ Stores(ws, 1) /\ (GuildInv' \/ Succeeds(u, ws, 1, screen[u]))
      /\ \E l \in Nat : DOMAIN tables["sigs"] = 1..l /\ New("sigs", 1, row).id = l + 1
  BY <1>2, <1>3, NewStored
<1> SUFFICES ASSUME Succeeds(u, ws, 1, screen[u]) PROVE GuildInv'
  BY <1>4
<1>5. GuildsTyped' /\ Alike(tables', stored', torn') /\ \A v \in Folk : screen'[v] = screen[v]
  BY <1>1, <1>4, Succeeded
<1>6. /\ \A x \in Tables \ {"sigs"} : tables'[x] = tables[x]
      /\ \E l \in Nat : /\ Rows("sigs") = 1..l /\ Rows("sigs")' = 1..(l + 1)
                        /\ tables'["sigs"][l + 1] = row
                        /\ \A i \in 1..l : tables'["sigs"][i] = tables["sigs"][i]
  BY <1>2, <1>4, NewRow
<1>7. PICK l \in Nat : /\ Rows("sigs") = 1..l /\ Rows("sigs")' = 1..(l + 1)
                       /\ tables'.sigs[l + 1] = row
                       /\ \A i \in 1..l : tables'.sigs[i] = tables.sigs[i]
  BY <1>6
<1>8. /\ tables'.apps = tables.apps /\ tables'.guilds = tables.guilds /\ tables'.members = tables.members
      /\ tables'.joins = tables.joins
  BY <1>6 DEF Tables
<1>9. torn' = torn /\ row.by = u /\ row.app = b /\ row.status = "pending"
  BY DEF Succeeds
<1> HIDE DEF row, ws, b
<1>10. /\ Rows("apps")' = Rows("apps") /\ Rows("guilds")' = Rows("guilds")
       /\ Rows("members")' = Rows("members") /\ Rows("joins")' = Rows("joins")
       /\ Whole("apps")' = Whole("apps") /\ Whole("joins")' = Whole("joins")
  BY <1>8, <1>9 DEF Rows, Whole
<1>11. \A s \in Rows("sigs")' : (s \in Rows("sigs") /\ tables'.sigs[s] = tables.sigs[s])
                                \/ (s = l + 1 /\ s \notin Rows("sigs"))
  BY <1>7
<1>12. Referred /\ MenusHold /\ SignedOnce /\ FoundedLate /\ Single /\ Backed
  BY DEF GuildInv
<1>13. Referred'
  <2>1. \A s \in Rows("sigs")' : /\ tables'.sigs[s].app \in Rows("apps")'
                                 /\ tables'.sigs[s].by # tables'.apps[tables'.sigs[s].app].by
    BY <1>1, <1>7, <1>8, <1>9, <1>10, <1>11, <1>12 DEF Referred
  <2>2. /\ \A g \in Rows("guilds")' : tables'.guilds[g].app \in Rows("apps")'
        /\ \A m \in Rows("members")' : tables'.members[m].guild \in Rows("guilds")'
        /\ \A v \in Folk : screen'[v].at \in {"view", "approve", "deny", "signatures"} => App(v)' \in Rows("apps")'
    BY <1>5, <1>8, <1>10, <1>12 DEF Referred, App
  <2> QED BY <2>1, <2>2 DEF Referred
<1>14. \A v \in Folk : OwnOpen(v)' = OwnOpen(v) /\ OwnReviewing(v)' = OwnReviewing(v)
  BY <1>8, <1>10 DEF OwnOpen, OwnReviewing, Open
<1>15. Single' /\ FoundedLate' /\ MenusHold'
  <2>1. Single'
    BY <1>10, <1>12, <1>14 DEF Single
  <2>2. FoundedLate'
    BY <1>8, <1>10, <1>12 DEF FoundedLate
  <2>3. MenusHold'
    BY <1>5, <1>8, <1>10, <1>12, <1>14, MenusKept
  <2> QED BY <2>1, <2>2, <2>3
<1>16. SignedOnce'
  <2> SUFFICES ASSUME NEW r \in Rows("sigs")', NEW s \in Rows("sigs")',
                      tables'.sigs[r].app = tables'.sigs[s].app, tables'.sigs[r].by = tables'.sigs[s].by,
                      tables'.sigs[r].app \in Whole("apps")',
                      tables'.sigs[r].status # "removed", tables'.sigs[s].status # "removed"
               PROVE  r = s
    BY DEF SignedOnce
  <2>1. CASE r \in Rows("sigs") /\ s \in Rows("sigs")
    BY <1>10, <1>11, <1>12, <2>1 DEF SignedOnce
  <2>2. CASE r = l + 1 /\ s \in Rows("sigs")
    BY <1>1, <1>7, <1>9, <2>2
  <2>3. CASE s = l + 1 /\ r \in Rows("sigs")
    BY <1>1, <1>7, <1>9, <2>3
  <2> QED BY <1>11, <2>1, <2>2, <2>3
<1>17. ASSUME NEW a \in Whole("apps")' PROVE BackedAt(a)'
  <2>1. BackedAt(a)
    BY <1>10, <1>12 DEF Backed, BackedAt
  <2>2. Unsigned(a)
    BY <1>7, <1>9, <1>11 DEF Unsigned, ValidSignatures
  <2>3. Unmanned(a)
    BY <1>8, <1>10 DEF Unmanned, MembersOf
  <2> QED BY <1>8, <2>1, <2>2, <2>3, BackedKept
<1>18. Backed'
  BY <1>17 DEF Backed, BackedAt
<1> QED BY <1>5, <1>13, <1>15, <1>16, <1>18 DEF GuildInv

LEMMA SubmitJoinStep == ASSUME GuildInv, NEW u \in Folk, SubmitJoin(u) PROVE GuildInv'
<1> DEFINE b == screen[u].id
           row == [by |-> u, guild |-> b, status |-> "reviewing"]
           ws == <<New("joins", 1, row)>>
           next == [at |-> "guild", id |-> b]
<1>1. b \in Nat /\ next \in [at : Menus, id : Nat] /\ next.at = "guild"
  BY DEF GuildInv, GuildsTyped, Menus
<1>2. "joins" \in Tables /\ row \in RowOf["joins"]
  BY <1>1 DEF Tables, RowOf
<1>3. \E what : Store(u, ws, what, next)
  BY DEF SubmitJoin
<1>4. /\ Stores(ws, 1) /\ (GuildInv' \/ Succeeds(u, ws, 1, next))
      /\ \E l \in Nat : DOMAIN tables["joins"] = 1..l /\ New("joins", 1, row).id = l + 1
  BY <1>2, <1>3, NewStored
<1> SUFFICES ASSUME Succeeds(u, ws, 1, next) PROVE GuildInv'
  BY <1>4
<1>5. /\ GuildsTyped' /\ Alike(tables', stored', torn')
      /\ screen'[u] = next /\ \A v \in Folk \ {u} : screen'[v] = screen[v]
  BY <1>1, <1>4, Succeeded
<1>6. /\ \A x \in Tables \ {"joins"} : tables'[x] = tables[x]
      /\ \E l \in Nat : /\ Rows("joins") = 1..l /\ Rows("joins")' = 1..(l + 1)
                        /\ tables'["joins"][l + 1] = row
                        /\ \A i \in 1..l : tables'["joins"][i] = tables["joins"][i]
  BY <1>2, <1>4, NewRow
<1>7. PICK l \in Nat : /\ Rows("joins") = 1..l /\ Rows("joins")' = 1..(l + 1)
                       /\ tables'.joins[l + 1] = row
                       /\ \A i \in 1..l : tables'.joins[i] = tables.joins[i]
  BY <1>6
<1>8. /\ tables'.apps = tables.apps /\ tables'.guilds = tables.guilds /\ tables'.members = tables.members
      /\ tables'.sigs = tables.sigs
  BY <1>6 DEF Tables
<1>9. torn' = torn /\ row.by = u
  BY DEF Succeeds
<1> HIDE DEF row, ws, b, next
<1>10. /\ Rows("apps")' = Rows("apps") /\ Rows("guilds")' = Rows("guilds")
       /\ Rows("members")' = Rows("members") /\ Rows("sigs")' = Rows("sigs")
       /\ Whole("apps")' = Whole("apps")
       /\ \A j \in Whole("joins")' : j = l + 1 \/ (j \in Whole("joins") /\ tables'.joins[j] = tables.joins[j])
  BY <1>7, <1>8, <1>9 DEF Rows, Whole
<1>11. Referred /\ MenusHold /\ SignedOnce /\ FoundedLate /\ Single /\ Backed
  BY DEF GuildInv
<1>12. Referred'
  <2>1. \A v \in Folk : screen'[v].at \in {"view", "approve", "deny", "signatures"} => App(v)' \in Rows("apps")'
    BY <1>1, <1>5, <1>10, <1>11 DEF Referred, App
  <2> QED BY <1>8, <1>10, <1>11, <2>1 DEF Referred
<1>13. \A v \in Folk : OwnOpen(v)' = OwnOpen(v)
  BY <1>8, <1>10 DEF OwnOpen, Open
<1>14. \A v \in Folk : OwnReviewing(v)' \cap Whole("joins")' \subseteq
                         (OwnReviewing(v) \cap Whole("joins")) \cup (IF v = u THEN {l + 1} ELSE {})
  <2> SUFFICES ASSUME NEW v \in Folk, NEW j \in OwnReviewing(v)' \cap Whole("joins")'
               PROVE  j \in OwnReviewing(v) \cap Whole("joins") \/ (v = u /\ j = l + 1)
    OBVIOUS
  <2>1. j \in Rows("joins")' /\ tables'.joins[j].by = v /\ tables'.joins[j].status = "reviewing"
    BY DEF OwnReviewing
  <2>2. CASE j = l + 1
    BY <1>7, <1>9, <2>1, <2>2
  <2>3. CASE j \in Whole("joins") /\ tables'.joins[j] = tables.joins[j]
    BY <2>1, <2>3 DEF OwnReviewing, Whole
  <2> QED BY <1>10, <2>2, <2>3
<1>15. Single'
  <2>1. OwnReviewing(u) \cap Whole("joins") = {}
    BY <1>11 DEF MenusHold, SubmitJoin
  <2>2. ASSUME NEW v \in Folk PROVE \A a, c \in OwnOpen(v)' \cap Whole("apps")' : a = c
    BY <1>10, <1>11, <1>13 DEF Single
  <2>3. ASSUME NEW v \in Folk PROVE \A i, j \in OwnReviewing(v)' \cap Whole("joins")' : i = j
    BY <1>11, <1>14, <2>1 DEF Single
  <2> QED BY <2>2, <2>3 DEF Single
<1>16. MenusHold'
  <2>1. screen'[u] # screen[u]
    BY <1>1, <1>5 DEF SubmitJoin, At
  <2>2. \A v \in Folk : screen'[v] = screen[v] =>
          /\ OwnOpen(v)' \cap Whole("apps")' \subseteq OwnOpen(v) \cap Whole("apps")
          /\ OwnReviewing(v)' \cap Whole("joins")' \subseteq OwnReviewing(v) \cap Whole("joins")
    BY <1>10, <1>13, <1>14, <2>1
  <2> QED BY <1>1, <1>5, <1>8, <1>10, <1>11, <2>2, MenusKept
<1>17. SignedOnce' /\ FoundedLate'
  BY <1>8, <1>10, <1>11 DEF SignedOnce, FoundedLate
<1>18. ASSUME NEW a \in Whole("apps")' PROVE BackedAt(a)'
  <2>1. BackedAt(a)
    BY <1>10, <1>11 DEF Backed, BackedAt
  <2>2. Unsigned(a) /\ Unmanned(a)
    BY <1>8, <1>10 DEF Unsigned, Unmanned, ValidSignatures, MembersOf
  <2> QED BY <1>8, <2>1, <2>2, BackedKept
<1>19. Backed'
  BY <1>18 DEF Backed, BackedAt
<1> QED BY <1>5, <1>12, <1>15, <1>16, <1>17, <1>19 DEF GuildInv

\* The ids of a set, each once.
LEMMA OrderFacts ==
  ASSUME NEW ids, IsFiniteSet(ids), ids \subseteq Nat, NEW order \in Orders(ids)
  PROVE  /\ Cardinality(ids) \in Nat /\ order \in [1..Cardinality(ids) -> ids]
         /\ \A j, k \in 1..Cardinality(ids) : order[j] = order[k] => j = k
         /\ \A i \in ids : \E k \in 1..Cardinality(ids) : order[k] = i
<1> DEFINE n == Cardinality(ids)
<1>1. n \in Nat
  BY FS_CardinalityType
<1>2. order \in [1..n -> ids] /\ \A j, k \in 1..n : j < k => order[j] < order[k]
  BY DEF Orders
<1> HIDE DEF n
<1>3. ASSUME NEW j \in 1..n, NEW k \in 1..n, order[j] = order[k] PROVE j = k
  <2>1. order[j] \in Nat /\ order[k] \in Nat
    BY <1>2
  <2>2. ~(order[j] < order[k]) /\ ~(order[k] < order[j])
    BY <1>3, <2>1
  <2>3. ~(j < k) /\ ~(k < j)
    BY <1>2, <2>2
  <2> QED BY <1>1, <2>3
<1>4. order \in Injection(1..n, ids)
  BY <1>2, <1>3 DEF Injection, IsInjective
<1>5. IsFiniteSet(1..n) /\ Cardinality(1..n) = n
  BY <1>1, FS_Interval
<1>6. order \in Surjection(1..n, ids)
  BY <1>4, <1>5, FS_Injection DEF n
<1>7. \A i \in ids : \E k \in 1..n : order[k] = i
  BY <1>6 DEF Surjection
<1> QED BY <1>1, <1>2, <1>3, <1>7 DEF n

LEMMA RowsFinite ==
  ASSUME GuildInv, NEW t \in Tables, NEW ids \in SUBSET Rows(t)
  PROVE  IsFiniteSet(ids) /\ ids \subseteq Nat
<1>1. PICK l \in Nat : Rows(t) = 1..l
  BY FilledFcn DEF GuildInv, GuildsTyped, Rows
<1>2. IsFiniteSet(Rows(t))
  BY <1>1, FS_Interval
<1> QED BY <1>1, <1>2, FS_Subset

LEMMA RemovedRows ==
  ASSUME GuildInv, NEW t \in {"sigs", "joins"}, NEW ids \in SUBSET Rows(t), NEW order \in Orders(ids),
         NEW n, n = Cardinality(ids), NEW ws, ws = Removed(t, order)
  PROVE  /\ n \in Nat /\ DOMAIN ws = 1..n /\ Len(ws) = n
         /\ \A k \in 1..n : /\ ws[k].table = t /\ ws[k].id \in ids
                            /\ ws[k].row \in RowOf[t] /\ ws[k].row.status = "removed"
                            /\ ws[k].row.by = tables[t][ws[k].id].by
                            /\ t = "sigs" => ws[k].row.app = tables[t][ws[k].id].app
<1>1. t \in Tables
  BY DEF Tables
<1>2. IsFiniteSet(ids) /\ ids \subseteq Nat
  BY <1>1, RowsFinite
<1>3. n \in Nat /\ order \in [1..n -> ids]
  <2>1. Cardinality(ids) \in Nat /\ order \in [1..Cardinality(ids) -> ids]
    BY <1>2, OrderFacts
  <2> QED BY <2>1
<1>4. ws = [k \in 1..n |-> Changed(t, order[k], "removed")]
  BY <1>3 DEF Removed
<1>5. DOMAIN ws = 1..n /\ Len(ws) = n
  BY <1>3, <1>4
<1>6. ASSUME NEW k \in 1..n
      PROVE  /\ ws[k].table = t /\ ws[k].id \in ids
             /\ ws[k].row \in RowOf[t] /\ ws[k].row.status = "removed"
             /\ ws[k].row.by = tables[t][ws[k].id].by
             /\ t = "sigs" => ws[k].row.app = tables[t][ws[k].id].app
  <2> DEFINE i == order[k]
             r == tables[t][i]
  <2>1. ws[k].table = t /\ ws[k].id = i /\ ws[k].row = [r EXCEPT !.status = "removed"] /\ i \in ids
    BY <1>3, <1>4 DEF Changed
  <2>2. r \in RowOf[t]
    <3>1. Filled(tables)
      BY DEF GuildInv, GuildsTyped
    <3> QED BY <1>1, <2>1, <3>1, FilledFcn DEF Rows
  <2> HIDE DEF i, r
  <2>3. /\ [r EXCEPT !.status = "removed"] \in RowOf[t] /\ [r EXCEPT !.status = "removed"].status = "removed"
        /\ [r EXCEPT !.status = "removed"].by = r.by
        /\ t = "sigs" => [r EXCEPT !.status = "removed"].app = r.app
    <3>1. CASE t = "sigs"
      <4>1. r \in [by : Folk, app : Nat, status : AllStatuses]
        BY <2>2, <3>1 DEF RowOf
      <4>2. [r EXCEPT !.status = "removed"] \in RowOf["sigs"]
        BY <4>1 DEF RowOf, AllStatuses
      <4> QED BY <3>1, <4>1, <4>2
    <3>2. CASE t = "joins"
      <4>1. r \in [by : Folk, guild : Nat, status : {"reviewing", "removed"}]
        BY <2>2, <3>2 DEF RowOf
      <4>2. [r EXCEPT !.status = "removed"] \in RowOf["joins"]
        BY <4>1 DEF RowOf
      <4> QED BY <3>2, <4>1, <4>2
    <3> QED BY <3>1, <3>2
  <2> QED BY <2>1, <2>3 DEF r
<1> QED BY <1>3, <1>5, <1>6

LEMMA RemoveSignatureStep == ASSUME GuildInv, NEW u \in Folk, RemoveSignature(u) PROVE GuildInv'
<1> DEFINE b == App(u)
           ids == Withdrawn(u, b)
           n == Cardinality(ids)
<1>1. /\ b \in Rows("apps") /\ tables.apps[b].status = "pending" /\ screen[u] \in [at : Menus, id : Nat]
  BY DEF RemoveSignature, Withdraw, At, App, GuildInv, GuildsTyped, Referred
<1>2. PICK order \in Orders(ids) : Store(u, Removed("sigs", order), {<<"apps", b>>}, screen[u])
  BY DEF RemoveSignature, Withdraw
<1>3. ids \in SUBSET Rows("sigs") /\ \A s \in ids : tables.sigs[s].app = b
  BY DEF Withdrawn
<1> DEFINE ws == Removed("sigs", order)
<1>4. /\ n \in Nat /\ DOMAIN ws = 1..n /\ Len(ws) = n
      /\ \A k \in 1..n : /\ ws[k].table = "sigs" /\ ws[k].id \in ids
                         /\ ws[k].row \in RowOf["sigs"] /\ ws[k].row.status = "removed"
                         /\ ws[k].row.by = tables.sigs[ws[k].id].by
                         /\ ws[k].row.app = tables.sigs[ws[k].id].app
  BY <1>3, RemovedRows
<1> HIDE DEF ws, n, ids, b
<1>5. "sigs" \in Tables
  BY DEF Tables
<1>6. Store(u, ws, {<<"apps", b>>}, screen[u])
  BY <1>2 DEF ws
<1>7. \A k \in 1..n : Concerns(ws[k], tables, torn \cup {<<"apps", b>>})
  BY <1>3, <1>4 DEF Concerns, Rows
<1>8. Stores(ws, n) /\ (GuildInv' \/ Succeeds(u, ws, n, screen[u]))
  BY <1>4, <1>5, <1>6, <1>7, ChangesStored
<1> SUFFICES ASSUME Succeeds(u, ws, n, screen[u]) PROVE GuildInv'
  BY <1>8
<1>9. GuildsTyped' /\ Alike(tables', stored', torn') /\ \A v \in Folk : screen'[v] = screen[v]
  BY <1>1, <1>4, <1>8, Succeeded
<1>10. /\ \A t \in Tables : (\A k \in 1..n : ws[k].table # t) => tables'[t] = tables[t]
       /\ \A t \in Tables : Rows(t)' = Rows(t) /\ \A i \in Rows(t) :
              \/ /\ tables'[t][i] = tables[t][i]
                 /\ \A k \in 1..n : ws[k].table = t => ws[k].id # i
              \/ \E k \in 1..n : ws[k].table = t /\ ws[k].id = i /\ tables'[t][i] = ws[k].row
  <2>1. \A k \in 1..n : ws[k].table \in Tables /\ ws[k].id \in Rows(ws[k].table)
    BY <1>3, <1>4, <1>5
  <2> QED BY <1>4, <2>1, ChangedRows
<1>11. /\ tables'.apps = tables.apps /\ tables'.guilds = tables.guilds /\ tables'.members = tables.members
       /\ tables'.joins = tables.joins
  BY <1>4, <1>10 DEF Tables
<1>12. /\ Rows("sigs")' = Rows("sigs")
       /\ \A s \in Rows("sigs") :
            \/ tables'.sigs[s] = tables.sigs[s]
            \/ /\ tables'.sigs[s].status = "removed" /\ tables'.sigs[s].by = tables.sigs[s].by
               /\ tables.sigs[s].app = b /\ tables'.sigs[s].app = b
  BY <1>3, <1>4, <1>5, <1>10
<1>13. /\ Rows("apps")' = Rows("apps") /\ Rows("guilds")' = Rows("guilds")
       /\ Rows("members")' = Rows("members") /\ Rows("joins")' = Rows("joins")
       /\ Whole("apps")' = Whole("apps") /\ Whole("joins")' = Whole("joins")
  BY <1>11 DEF Rows, Whole, Succeeds
<1>14. Referred /\ MenusHold /\ SignedOnce /\ FoundedLate /\ Single /\ Backed
  BY DEF GuildInv
<1>15. Referred'
  <2>1. \A s \in Rows("sigs")' : /\ tables'.sigs[s].app \in Rows("apps")'
                                 /\ tables'.sigs[s].by # tables'.apps[tables'.sigs[s].app].by
    BY <1>11, <1>12, <1>13, <1>14 DEF Referred
  <2>2. /\ \A g \in Rows("guilds")' : tables'.guilds[g].app \in Rows("apps")'
        /\ \A m \in Rows("members")' : tables'.members[m].guild \in Rows("guilds")'
        /\ \A v \in Folk : screen'[v].at \in {"view", "approve", "deny", "signatures"} => App(v)' \in Rows("apps")'
    BY <1>9, <1>11, <1>13, <1>14 DEF Referred, App
  <2> QED BY <2>1, <2>2 DEF Referred
<1>16. \A v \in Folk : OwnOpen(v)' = OwnOpen(v) /\ OwnReviewing(v)' = OwnReviewing(v)
  BY <1>11, <1>13 DEF OwnOpen, OwnReviewing, Open
<1>17. Single' /\ FoundedLate' /\ MenusHold'
  <2>1. Single'
    BY <1>13, <1>14, <1>16 DEF Single
  <2>2. FoundedLate'
    BY <1>11, <1>13, <1>14 DEF FoundedLate
  <2>3. MenusHold'
    BY <1>9, <1>11, <1>13, <1>14, <1>16, MenusKept
  <2> QED BY <2>1, <2>2, <2>3
<1>18. SignedOnce'
  <2> SUFFICES ASSUME NEW r \in Rows("sigs"), NEW s \in Rows("sigs"),
                      tables'.sigs[r].app = tables'.sigs[s].app, tables'.sigs[r].by = tables'.sigs[s].by,
                      tables'.sigs[r].app \in Whole("apps"),
                      tables'.sigs[r].status # "removed", tables'.sigs[s].status # "removed"
               PROVE  r = s
    BY <1>12, <1>13 DEF SignedOnce
  <2>1. tables'.sigs[r] = tables.sigs[r] /\ tables'.sigs[s] = tables.sigs[s]
    BY <1>12
  <2> QED BY <1>14, <2>1 DEF SignedOnce
<1>19. ASSUME NEW a \in Whole("apps") PROVE BackedAt(a)'
  <2>1. BackedAt(a)
    BY <1>14 DEF Backed, BackedAt
  <2>2. CASE a = b
    <3>1. \A g \in Rows("guilds") : tables.guilds[g].app # a
      BY <1>1, <1>14, <1>19, <2>2 DEF FoundedLate
    <3> QED BY <1>1, <1>11, <1>13, <2>2, <3>1 DEF BackedAt
  <2>3. CASE a # b
    <3>1. Unsigned(a)
      BY <1>12, <2>3 DEF Unsigned, ValidSignatures
    <3>2. Unmanned(a)
      BY <1>11, <1>13 DEF Unmanned, MembersOf
    <3> QED BY <1>11, <2>1, <3>1, <3>2, BackedKept
  <2> QED BY <2>2, <2>3
<1>20. Backed'
  BY <1>13, <1>19 DEF Backed, BackedAt
<1> QED BY <1>9, <1>15, <1>17, <1>18, <1>20 DEF GuildInv

LEMMA RemoveJoinsStep ==
  ASSUME GuildInv, NEW u \in Folk, NEW js \in SUBSET Rows("joins"), RemoveJoins(u, js)
  PROVE  GuildInv'
<1> DEFINE n == Cardinality(js)
           what == {<<"joins", j>> : j \in js}
<1>1. screen[u] \in [at : Menus, id : Nat]
  BY DEF GuildInv, GuildsTyped
<1>2. PICK order \in Orders(js) : Store(u, Removed("joins", order), what, screen[u])
  BY DEF RemoveJoins
<1> DEFINE ws == Removed("joins", order)
<1>3. /\ n \in Nat /\ DOMAIN ws = 1..n /\ Len(ws) = n
      /\ \A k \in 1..n : /\ ws[k].table = "joins" /\ ws[k].id \in js
                         /\ ws[k].row \in RowOf["joins"] /\ ws[k].row.status = "removed"
                         /\ ws[k].row.by = tables.joins[ws[k].id].by
  BY RemovedRows
<1> HIDE DEF ws, n
<1>4. "joins" \in Tables
  BY DEF Tables
<1>5. Store(u, ws, what, screen[u])
  BY <1>2 DEF ws
<1>6. \A k \in 1..n : Concerns(ws[k], tables, torn \cup what)
  BY <1>3 DEF Concerns, Rows
<1>7. Stores(ws, n) /\ (GuildInv' \/ Succeeds(u, ws, n, screen[u]))
  BY <1>3, <1>4, <1>5, <1>6, ChangesStored
<1> SUFFICES ASSUME Succeeds(u, ws, n, screen[u]) PROVE GuildInv'
  BY <1>7
<1>8. GuildsTyped' /\ Alike(tables', stored', torn') /\ \A v \in Folk : screen'[v] = screen[v]
  BY <1>1, <1>3, <1>7, Succeeded
<1>9. /\ \A t \in Tables : (\A k \in 1..n : ws[k].table # t) => tables'[t] = tables[t]
      /\ \A t \in Tables : Rows(t)' = Rows(t) /\ \A i \in Rows(t) :
              \/ /\ tables'[t][i] = tables[t][i]
                 /\ \A k \in 1..n : ws[k].table = t => ws[k].id # i
              \/ \E k \in 1..n : ws[k].table = t /\ ws[k].id = i /\ tables'[t][i] = ws[k].row
  <2>1. \A k \in 1..n : ws[k].table \in Tables /\ ws[k].id \in Rows(ws[k].table)
    BY <1>3, <1>4
  <2> QED BY <1>3, <2>1, ChangedRows
<1>10. /\ tables'.apps = tables.apps /\ tables'.guilds = tables.guilds /\ tables'.members = tables.members
       /\ tables'.sigs = tables.sigs
  BY <1>3, <1>9 DEF Tables
<1>11. /\ Rows("joins")' = Rows("joins")
       /\ \A j \in Rows("joins") : \/ tables'.joins[j] = tables.joins[j]
                                   \/ tables'.joins[j].status = "removed"
  BY <1>3, <1>4, <1>9
<1>12. /\ Rows("apps")' = Rows("apps") /\ Rows("guilds")' = Rows("guilds")
       /\ Rows("members")' = Rows("members") /\ Rows("sigs")' = Rows("sigs")
       /\ Whole("apps")' = Whole("apps") /\ Whole("joins")' = Whole("joins")
  BY <1>10, <1>11 DEF Rows, Whole, Succeeds
<1>13. Referred /\ MenusHold /\ SignedOnce /\ FoundedLate /\ Single /\ Backed
  BY DEF GuildInv
<1>14. Referred'
  BY <1>8, <1>10, <1>12, <1>13 DEF Referred, App
<1>15. \A v \in Folk : OwnOpen(v)' = OwnOpen(v) /\ OwnReviewing(v)' \subseteq OwnReviewing(v)
  BY <1>10, <1>11, <1>12 DEF OwnOpen, OwnReviewing, Open
<1>16. Single' /\ FoundedLate' /\ SignedOnce' /\ MenusHold'
  <2>1. Single'
    BY <1>12, <1>13, <1>15 DEF Single
  <2>2. FoundedLate' /\ SignedOnce'
    BY <1>10, <1>12, <1>13 DEF FoundedLate, SignedOnce
  <2>3. MenusHold'
    BY <1>8, <1>10, <1>12, <1>13, <1>15, MenusKept
  <2> QED BY <2>1, <2>2, <2>3
<1>17. ASSUME NEW a \in Whole("apps") PROVE BackedAt(a)'
  <2>1. BackedAt(a)
    BY <1>13 DEF Backed, BackedAt
  <2>2. Unsigned(a) /\ Unmanned(a)
    BY <1>10, <1>12 DEF Unsigned, Unmanned, ValidSignatures, MembersOf
  <2> QED BY <1>10, <2>1, <2>2, BackedKept
<1>18. Backed'
  BY <1>12, <1>17 DEF Backed, BackedAt
<1> QED BY <1>8, <1>14, <1>16, <1>18 DEF GuildInv

LEMMA StatusChanged ==
  ASSUME GuildInv, NEW t \in {"apps", "sigs"}, NEW id \in Rows(t), NEW status,
         t = "apps" => status \in {"pending", "reviewing", "approved", "denied"},
         t = "sigs" => status \in AllStatuses
  PROVE  LET w == Changed(t, id, status) IN
         /\ w.table = t /\ w.id = id /\ w.row \in RowOf[t] /\ w.row.status = status
         /\ w.row.by = tables[t][id].by /\ (t = "sigs" => w.row.app = tables[t][id].app)
<1> DEFINE r == tables[t][id]
           w == Changed(t, id, status)
<1>1. w.table = t /\ w.id = id /\ w.row = [r EXCEPT !.status = status]
  BY DEF Changed
<1>2. r \in RowOf[t]
  <2>1. t \in Tables /\ Filled(tables)
    BY DEF Tables, GuildInv, GuildsTyped
  <2> QED BY <2>1, FilledFcn DEF Rows
<1> HIDE DEF r, w
<1>3. /\ w.row \in RowOf[t] /\ w.row.status = status /\ w.row.by = r.by
      /\ t = "sigs" => w.row.app = r.app
  <2>1. CASE t = "apps"
    <3>1. r \in [by : Folk, status : {"pending", "reviewing", "approved", "denied"}]
      BY <1>2, <2>1 DEF RowOf
    <3>2. [r EXCEPT !.status = status] \in RowOf["apps"]
      BY <2>1, <3>1 DEF RowOf
    <3> QED BY <1>1, <2>1, <3>1, <3>2
  <2>2. CASE t = "sigs"
    <3>1. r \in [by : Folk, app : Nat, status : AllStatuses]
      BY <1>2, <2>2 DEF RowOf
    <3>2. [r EXCEPT !.status = status] \in RowOf["sigs"]
      BY <2>2, <3>1 DEF RowOf
    <3> QED BY <1>1, <2>2, <3>1, <3>2
  <2> QED BY <2>1, <2>2
<1>4. /\ w.table = t /\ w.id = id /\ w.row \in RowOf[t] /\ w.row.status = status
      /\ w.row.by = tables[t][id].by /\ (t = "sigs" => w.row.app = tables[t][id].app)
  BY <1>1, <1>3 DEF r
<1> QED BY <1>4 DEF w

LEMMA DenyStep == ASSUME GuildInv, NEW u \in Folk, DenyApplication(u) PROVE GuildInv'
<1> DEFINE b == App(u)
           w == Changed("apps", b, "denied")
           ws == <<w>>
           next == Back(u)
<1>1. b \in Rows("apps") /\ b \in Nat /\ next = [at |-> "view", id |-> b] /\ next \in [at : Menus, id : Nat]
  BY DEF DenyApplication, At, App, GuildInv, GuildsTyped, Referred, Back, Menus
<1>2. Store(u, ws, {<<"apps", b>>}, next)
  BY DEF DenyApplication
<1>3. /\ w.table = "apps" /\ w.id = b /\ w.row \in RowOf["apps"] /\ w.row.status = "denied"
      /\ w.row.by = tables.apps[b].by
  BY <1>1, StatusChanged
<1> HIDE DEF w
<1>4. ws[1] = w /\ DOMAIN ws = 1..1 /\ Len(ws) = 1
  OBVIOUS
<1> HIDE DEF ws, b, next
<1>5. "apps" \in Tables
  BY DEF Tables
<1>6. \A k \in 1..1 : Concerns(ws[k], tables, torn \cup {<<"apps", b>>})
  BY <1>1, <1>3, <1>4 DEF Concerns, Rows
<1>7. Stores(ws, 1) /\ (GuildInv' \/ Succeeds(u, ws, 1, next))
  <2>1. \A k \in 1..1 : ws[k].table \in Tables /\ ws[k].row \in RowOf[ws[k].table]
    BY <1>3, <1>4, <1>5
  <2> QED BY <1>2, <1>4, <1>6, <2>1, ChangesStored
<1> SUFFICES ASSUME Succeeds(u, ws, 1, next) PROVE GuildInv'
  BY <1>7
<1>8. /\ GuildsTyped' /\ Alike(tables', stored', torn')
      /\ screen'[u] = next /\ \A v \in Folk \ {u} : screen'[v] = screen[v]
  BY <1>1, <1>7, Succeeded
<1>9. /\ \A t \in Tables : (\A k \in 1..1 : ws[k].table # t) => tables'[t] = tables[t]
      /\ \A t \in Tables : Rows(t)' = Rows(t) /\ \A i \in Rows(t) :
              \/ /\ tables'[t][i] = tables[t][i]
                 /\ \A k \in 1..1 : ws[k].table = t => ws[k].id # i
              \/ \E k \in 1..1 : ws[k].table = t /\ ws[k].id = i /\ tables'[t][i] = ws[k].row
  <2>1. \A k \in 1..1 : ws[k].table \in Tables /\ ws[k].id \in Rows(ws[k].table)
    BY <1>1, <1>3, <1>4, <1>5
  <2> QED BY <2>1, ChangedRows
<1>10. /\ tables'.sigs = tables.sigs /\ tables'.guilds = tables.guilds /\ tables'.members = tables.members
       /\ tables'.joins = tables.joins
  BY <1>3, <1>4, <1>9 DEF Tables
<1>11. /\ Rows("apps")' = Rows("apps")
       /\ \A a \in Rows("apps") : \/ a # b /\ tables'.apps[a] = tables.apps[a]
                                  \/ a = b /\ tables'.apps[a] = w.row
  BY <1>3, <1>4, <1>5, <1>9
<1>12. /\ Rows("sigs")' = Rows("sigs") /\ Rows("guilds")' = Rows("guilds")
       /\ Rows("members")' = Rows("members") /\ Rows("joins")' = Rows("joins")
       /\ Whole("apps")' = Whole("apps") /\ Whole("joins")' = Whole("joins")
  BY <1>10, <1>11 DEF Rows, Whole, Succeeds
<1>13. Referred /\ MenusHold /\ SignedOnce /\ FoundedLate /\ Single /\ Backed
  BY DEF GuildInv
<1>14. b \in Whole("apps") => tables.apps[b].status # "pending"
  BY <1>13 DEF MenusHold, DenyApplication, At, b
<1>15. \A a \in Rows("apps") : tables'.apps[a].by = tables.apps[a].by
  BY <1>3, <1>11
<1>16. Referred'
  <2>1. \A s \in Rows("sigs")' : /\ tables'.sigs[s].app \in Rows("apps")'
                                 /\ tables'.sigs[s].by # tables'.apps[tables'.sigs[s].app].by
    BY <1>10, <1>11, <1>12, <1>13, <1>15 DEF Referred
  <2>2. /\ \A g \in Rows("guilds")' : tables'.guilds[g].app \in Rows("apps")'
        /\ \A m \in Rows("members")' : tables'.members[m].guild \in Rows("guilds")'
    BY <1>10, <1>11, <1>12, <1>13 DEF Referred
  <2>3. \A v \in Folk : screen'[v].at \in {"view", "approve", "deny", "signatures"} => App(v)' \in Rows("apps")'
    BY <1>1, <1>8, <1>11, <1>13 DEF Referred, App
  <2> QED BY <2>1, <2>2, <2>3 DEF Referred
<1>17. \A v \in Folk : OwnOpen(v)' \subseteq OwnOpen(v) /\ OwnReviewing(v)' = OwnReviewing(v)
  BY <1>3, <1>10, <1>11, <1>12 DEF OwnOpen, OwnReviewing, Open, ApplicationClosed
<1>18. Single' /\ SignedOnce'
  <2>1. Single'
    BY <1>12, <1>13, <1>17 DEF Single
  <2> QED BY <1>10, <1>12, <1>13, <2>1 DEF SignedOnce
<1>19. \A a \in Whole("apps") :
         \/ tables'.apps[a] = tables.apps[a]
         \/ tables.apps[a].status # "pending" /\ tables'.apps[a].status = "denied"
  BY <1>3, <1>11, <1>14 DEF Whole
<1>20. FoundedLate'
  BY <1>10, <1>12, <1>13, <1>19 DEF FoundedLate
<1>21. MenusHold'
  <2>1. screen'[u].at = "view"
    BY <1>1, <1>8
  <2>2. \A a \in Whole("apps") : a \in Rows("apps")
    BY DEF Whole
  <2> QED BY <1>8, <1>12, <1>13, <1>15, <1>17, <1>19, <2>1, <2>2, MenusKept
<1>22. ASSUME NEW a \in Whole("apps") PROVE BackedAt(a)'
  <2>1. BackedAt(a) /\ a \in Rows("apps")
    BY <1>13 DEF Backed, BackedAt, Whole
  <2>2. Unsigned(a) /\ Unmanned(a)
    BY <1>10, <1>12 DEF Unsigned, Unmanned, ValidSignatures, MembersOf
  <2>3. tables.apps[a].status \in {"pending", "reviewing", "approved", "denied"}
    <3>1. Filled(tables)
      BY DEF GuildInv, GuildsTyped
    <3>2. tables.apps[a] \in RowOf["apps"]
      BY <1>5, <2>1, <3>1, FilledFcn DEF Rows
    <3> QED BY <3>2 DEF RowOf
  <2>4. tables'.apps[a].status \in {"reviewing", "approved", "denied"}
          => tables.apps[a].status \in {"reviewing", "approved", "denied"}
    BY <1>19, <2>3
  <2> QED BY <1>15, <2>1, <2>2, <2>4, BackedKept
<1>23. Backed'
  BY <1>12, <1>22 DEF Backed, BackedAt
<1> QED BY <1>8, <1>16, <1>18, <1>20, <1>21, <1>23 DEF GuildInv

LEMMA EachOnce ==
  ASSUME NEW V, IsFiniteSet(V), NEW f, \A x, y \in V : f[x] = f[y] => x = y
  PROVE  IsFiniteSet({f[x] : x \in V}) /\ Cardinality({f[x] : x \in V}) = Cardinality(V)
<1> DEFINE T == {f[x] : x \in V}
           g == [x \in V |-> f[x]]
<1>1. g \in [V -> T] /\ (\A x, y \in V : g[x] = g[y] => x = y) /\ \A y \in T : \E x \in V : g[x] = y
  OBVIOUS
<1> HIDE DEF T, g
<1>2. g \in Bijection(V, T)
  BY <1>1 DEF Bijection, Injection, Surjection, IsInjective
<1>3. ExistsBijection(V, T)
  BY <1>2 DEF ExistsBijection
<1>4. IsFiniteSet(T) /\ Cardinality(T) = Cardinality(V)
  BY <1>3, FS_Bijection
<1> QED BY <1>4 DEF T

\* As many signers as signatures that were admitted, none of them the founder.
LEMMA SignersCounted ==
  ASSUME GuildInv, NEW a \in Whole("apps")
  PROVE  /\ IsFiniteSet(ValidSignatures(a)) /\ IsFiniteSet(Signers(a))
         /\ \A r, s \in ValidSignatures(a) : tables.sigs[r].by = tables.sigs[s].by => r = s
         /\ Cardinality(Signers(a)) = Cardinality(ValidSignatures(a))
         /\ tables.apps[a].by \notin Signers(a)
<1> DEFINE V == ValidSignatures(a)
           f == [s \in V |-> tables.sigs[s].by]
<1>1. V \in SUBSET Rows("sigs") /\ \A s \in V : tables.sigs[s].app = a /\ tables.sigs[s].status = "approved"
  BY DEF ValidSignatures
<1>2. IsFiniteSet(V)
  <2>1. "sigs" \in Tables
    BY DEF Tables
  <2> QED BY <1>1, <2>1, RowsFinite
<1>3. \A r, s \in V : tables.sigs[r].by = tables.sigs[s].by => r = s
  BY <1>1 DEF GuildInv, SignedOnce
<1>4. Signers(a) = {f[s] : s \in V} /\ \A r, s \in V : f[r] = f[s] => r = s
  BY <1>3 DEF Signers
<1>5. tables.apps[a].by \notin Signers(a)
  <2>1. \A s \in V : tables.sigs[s].by # tables.apps[a].by
    BY <1>1 DEF GuildInv, Referred
  <2> QED BY <2>1 DEF Signers
<1> HIDE DEF V, f
<1>6. IsFiniteSet(Signers(a)) /\ Cardinality(Signers(a)) = Cardinality(V)
  BY <1>2, <1>4, EachOnce
<1> QED BY <1>2, <1>3, <1>5, <1>6 DEF V

LEMMA ApproveSignatureStep ==
  ASSUME GuildInv, NEW u \in Folk, NEW s \in Rows("sigs"), ApproveSignature(u, s)
  PROVE  GuildInv'
<1> DEFINE b == App(u)
           enough == Cardinality(ValidSignatures(b)) + 1 >= Required
           w == Changed("sigs", s, "approved")
           x == Changed("apps", b, "reviewing")
           ws == <<w>> \o (IF enough THEN <<x>> ELSE <<>>)
           n == IF enough THEN 2 ELSE 1
           next == Back(u)
<1>1. /\ b \in Rows("apps") /\ b \in Nat /\ next = [at |-> "view", id |-> b] /\ next \in [at : Menus, id : Nat]
      /\ tables.sigs[s].app = b /\ tables.sigs[s].status = "pending"
  BY DEF ApproveSignature, At, App, GuildInv, GuildsTyped, Referred, Back, Menus
<1>2. Store(u, ws, {<<"apps", b>>}, next)
  BY DEF ApproveSignature
<1>3. /\ w.table = "sigs" /\ w.id = s /\ w.row \in RowOf["sigs"] /\ w.row.status = "approved"
      /\ w.row.by = tables.sigs[s].by /\ w.row.app = b
  BY <1>1, StatusChanged DEF AllStatuses
<1>4. /\ x.table = "apps" /\ x.id = b /\ x.row \in RowOf["apps"] /\ x.row.status = "reviewing"
      /\ x.row.by = tables.apps[b].by
  BY <1>1, StatusChanged
<1> HIDE DEF w, x, enough
<1>5. /\ n \in 1..2 /\ n \in Nat /\ ws[1] = w /\ (n = 2 => ws[2] = x) /\ DOMAIN ws = 1..n /\ Len(ws) = n
      /\ n = 2 <=> enough
  <2>1. CASE enough
    BY <2>1
  <2>2. CASE ~enough
    BY <2>2
  <2> QED BY <2>1, <2>2
<1> HIDE DEF ws, b, next, n
<1>6. /\ "apps" \in Tables /\ "sigs" \in Tables /\ "sigs" # "apps"
      /\ \A k \in 1..n : k = 1 \/ (k = 2 /\ n = 2)
      /\ 1 \in 1..n /\ (n = 2 => 2 \in 1..n)
  BY <1>5 DEF Tables
<1>7. \A k \in 1..n : Concerns(ws[k], tables, torn \cup {<<"apps", b>>})
  <2>1. Concerns(w, tables, torn \cup {<<"apps", b>>})
    BY <1>1, <1>3 DEF Concerns, Rows
  <2>2. Concerns(x, tables, torn \cup {<<"apps", b>>})
    BY <1>1, <1>4 DEF Concerns, Rows
  <2> QED BY <1>5, <1>6, <2>1, <2>2
<1>8. Stores(ws, n) /\ (GuildInv' \/ Succeeds(u, ws, n, next))
  <2>1. \A k \in 1..n : ws[k].table \in Tables /\ ws[k].row \in RowOf[ws[k].table]
    BY <1>3, <1>4, <1>5, <1>6
  <2> QED BY <1>2, <1>5, <1>7, <2>1, ChangesStored
<1> SUFFICES ASSUME Succeeds(u, ws, n, next) PROVE GuildInv'
  BY <1>8
<1>9. /\ GuildsTyped' /\ Alike(tables', stored', torn')
      /\ screen'[u] = next /\ \A v \in Folk \ {u} : screen'[v] = screen[v]
  BY <1>1, <1>5, <1>8, Succeeded
<1>10. /\ \A t \in Tables : (\A k \in 1..n : ws[k].table # t) => tables'[t] = tables[t]
       /\ \A t \in Tables : Rows(t)' = Rows(t) /\ \A i \in Rows(t) :
              \/ /\ tables'[t][i] = tables[t][i]
                 /\ \A k \in 1..n : ws[k].table = t => ws[k].id # i
              \/ \E k \in 1..n : ws[k].table = t /\ ws[k].id = i /\ tables'[t][i] = ws[k].row
  <2>1. \A k \in 1..n : ws[k].table \in Tables /\ ws[k].id \in Rows(ws[k].table)
    BY <1>1, <1>3, <1>4, <1>5, <1>6
  <2>2. n \in Nat
    BY <1>5
  <2> QED BY <2>1, <2>2, ChangedRows
<1>11. /\ tables'.guilds = tables.guilds /\ tables'.members = tables.members /\ tables'.joins = tables.joins
  <2>1. \A k \in 1..n : ws[k].table \in {"apps", "sigs"}
    BY <1>3, <1>4, <1>5, <1>6
  <2>2. ASSUME NEW t \in {"guilds", "members", "joins"} PROVE tables'[t] = tables[t]
    <3>1. t \in Tables /\ \A k \in 1..n : ws[k].table # t
      BY <2>1 DEF Tables
    <3> QED BY <1>10, <3>1
  <2> QED BY <2>2
<1>12. /\ Rows("apps")' = Rows("apps")
       /\ \A a \in Rows("apps") : \/ tables'.apps[a] = tables.apps[a] /\ (a = b => ~enough)
                                  \/ enough /\ a = b /\ tables'.apps[a] = x.row
  <2>1. \A a \in Rows("apps") :
          \/ /\ tables'["apps"][a] = tables["apps"][a]
             /\ \A k \in 1..n : ws[k].table = "apps" => ws[k].id # a
          \/ \E k \in 1..n : ws[k].table = "apps" /\ ws[k].id = a /\ tables'["apps"][a] = ws[k].row
    BY <1>6, <1>10
  <2> QED BY <1>3, <1>4, <1>5, <1>6, <1>10, <2>1
<1>13. /\ Rows("sigs")' = Rows("sigs")
       /\ \A r \in Rows("sigs") : \/ r # s /\ tables'.sigs[r] = tables.sigs[r]
                                  \/ r = s /\ tables'.sigs[r] = w.row
  <2>1. \A r \in Rows("sigs") :
          \/ /\ tables'["sigs"][r] = tables["sigs"][r]
             /\ \A k \in 1..n : ws[k].table = "sigs" => ws[k].id # r
          \/ \E k \in 1..n : ws[k].table = "sigs" /\ ws[k].id = r /\ tables'["sigs"][r] = ws[k].row
    BY <1>6, <1>10
  <2> QED BY <1>3, <1>4, <1>5, <1>6, <1>10, <2>1
<1>14. /\ Rows("guilds")' = Rows("guilds") /\ Rows("members")' = Rows("members") /\ Rows("joins")' = Rows("joins")
       /\ Whole("apps")' = Whole("apps") /\ Whole("joins")' = Whole("joins")
  BY <1>11, <1>12 DEF Rows, Whole, Succeeds
<1>15. Referred /\ MenusHold /\ SignedOnce /\ FoundedLate /\ Single /\ Backed
  BY DEF GuildInv
<1>16. b \in Whole("apps") => tables.apps[b].status = "pending" /\ tables.apps[b].by = u
  BY <1>15 DEF MenusHold, ApproveSignature, At, b, MayAdmit
<1>17. /\ \A a \in Rows("apps") : tables'.apps[a].by = tables.apps[a].by
       /\ \A r \in Rows("sigs") : tables'.sigs[r].by = tables.sigs[r].by /\ tables'.sigs[r].app = tables.sigs[r].app
  BY <1>1, <1>3, <1>4, <1>12, <1>13
<1>18. Referred'
  <2>1. \A r \in Rows("sigs")' : /\ tables'.sigs[r].app \in Rows("apps")'
                                 /\ tables'.sigs[r].by # tables'.apps[tables'.sigs[r].app].by
    BY <1>12, <1>13, <1>15, <1>17 DEF Referred
  <2>2. /\ \A g \in Rows("guilds")' : tables'.guilds[g].app \in Rows("apps")'
        /\ \A m \in Rows("members")' : tables'.members[m].guild \in Rows("guilds")'
    BY <1>11, <1>12, <1>14, <1>15 DEF Referred
  <2>3. \A v \in Folk : screen'[v].at \in {"view", "approve", "deny", "signatures"} => App(v)' \in Rows("apps")'
    BY <1>1, <1>9, <1>12, <1>15 DEF Referred, App
  <2> QED BY <2>1, <2>2, <2>3 DEF Referred
<1>19. \A a \in Whole("apps") :
         \/ tables'.apps[a] = tables.apps[a]
         \/ a = b /\ tables.apps[a].status = "pending" /\ tables'.apps[a].status = "reviewing"
  BY <1>4, <1>12, <1>16 DEF Whole
<1>20. \A v \in Folk : /\ OwnOpen(v)' \cap Whole("apps") \subseteq OwnOpen(v)
                       /\ OwnReviewing(v)' = OwnReviewing(v)
  BY <1>11, <1>12, <1>14, <1>17, <1>19 DEF OwnOpen, OwnReviewing, Open, ApplicationClosed
<1>21. Single'
  BY <1>14, <1>15, <1>20 DEF Single
<1>22. SignedOnce'
  <2>1. \A r \in Rows("sigs") : tables'.sigs[r].status # "removed" => tables.sigs[r].status # "removed"
    BY <1>1, <1>13
  <2> QED BY <1>13, <1>14, <1>15, <1>17, <2>1 DEF SignedOnce
<1>23. FoundedLate'
  <2> SUFFICES ASSUME NEW g \in Rows("guilds"), tables.guilds[g].app \in Whole("apps")
               PROVE  tables'.apps[tables.guilds[g].app].status # "pending"
    BY <1>11, <1>14 DEF FoundedLate
  <2>1. tables.apps[tables.guilds[g].app].status # "pending"
    BY <1>15 DEF FoundedLate
  <2> QED BY <1>19, <2>1
<1>24. MenusHold'
  <2>1. screen'[u].at = "view" /\ screen[u].at = "signatures"
    BY <1>1, <1>9 DEF ApproveSignature, At
  <2>2. ASSUME NEW v \in Folk, NEW a \in Whole("apps"), screen'[v] = screen[v],
               screen[v].at \in {"signatures", "approve", "deny"}, App(v) = a
        PROVE  tables'.apps[a] = tables.apps[a] /\ a \in Rows("apps")
    <3>1. a \in Rows("apps") /\ v # u
      BY <2>1, <2>2 DEF Whole
    <3>2. ASSUME a = b, tables.apps[a].status = "pending" PROVE FALSE
      <4>1. tables.apps[b].by = u /\ screen[v].at = "signatures"
        BY <1>15, <1>16, <2>2, <3>2 DEF MenusHold
      <4>2. tables.apps[b].by = v
        BY <1>15, <2>2, <3>2, <4>1 DEF MenusHold, At, MayAdmit
      <4> QED BY <3>1, <4>1, <4>2
    <3> QED BY <1>19, <3>1, <3>2
  <2> QED BY <1>9, <1>14, <1>15, <1>20, <2>1, <2>2, MenusKept
<1>25. ASSUME NEW a \in Whole("apps") PROVE BackedAt(a)'
  <2>1. BackedAt(a) /\ a \in Rows("apps")
    BY <1>15 DEF Backed, BackedAt, Whole
  <2>2. CASE a # b
    <3>1. tables'.apps[a] = tables.apps[a]
      BY <1>19, <2>2
    <3>2. Unsigned(a)
      <4>1. \A r \in Rows("sigs") : /\ tables'.sigs[r].app = tables.sigs[r].app
                                    /\ tables.sigs[r].app = a => tables'.sigs[r] = tables.sigs[r]
        BY <1>1, <1>13, <1>17, <2>2
      <4> QED BY <1>13, <4>1 DEF Unsigned, ValidSignatures
    <3>3. Unmanned(a)
      BY <1>11, <1>14 DEF Unmanned, MembersOf
    <3> QED BY <2>1, <3>1, <3>2, <3>3, BackedKept
  <2>3. CASE a = b
    <3>1. \A g \in Rows("guilds") : tables.guilds[g].app # a
      BY <1>15, <1>16, <1>25, <2>3 DEF FoundedLate
    <3>2. ASSUME tables'.apps[a].status \in {"reviewing", "approved", "denied"}
          PROVE  Cardinality(Signers(a)' \ {tables'.apps[a].by}) >= Required
      <4>1. Cardinality(ValidSignatures(a)) + 1 >= Required
        BY <1>16, <1>12, <2>1, <2>3, <3>2, <1>25 DEF enough
      <4>2. /\ IsFiniteSet(ValidSignatures(a)) /\ IsFiniteSet(Signers(a))
            /\ Cardinality(Signers(a)) = Cardinality(ValidSignatures(a))
            /\ tables.apps[a].by \notin Signers(a)
        BY SignersCounted
      <4>3. tables.sigs[s].by \notin Signers(a) /\ tables.sigs[s].by # tables.apps[a].by
        <5>1. ASSUME NEW r \in ValidSignatures(a), tables.sigs[r].by = tables.sigs[s].by PROVE FALSE
          <6>1. r \in Rows("sigs") /\ tables.sigs[r].app = a /\ tables.sigs[r].status = "approved"
            BY DEF ValidSignatures
          <6>2. r = s
            BY <1>1, <1>15, <2>3, <5>1, <6>1 DEF SignedOnce
          <6> QED BY <1>1, <6>1, <6>2
        <5>2. tables.sigs[s].by # tables.apps[a].by
          BY <1>1, <1>15, <2>3 DEF Referred
        <5> QED BY <5>1, <5>2 DEF Signers
      <4>4. Signers(a)' = Signers(a) \cup {tables.sigs[s].by}
        <5>1. ValidSignatures(a)' = ValidSignatures(a) \cup {s}
          BY <1>1, <1>3, <1>13, <2>3 DEF ValidSignatures
        <5>2. \A r \in ValidSignatures(a) \cup {s} : tables'.sigs[r].by = tables.sigs[r].by
          BY <1>17 DEF ValidSignatures
        <5> QED BY <5>1, <5>2 DEF Signers
      <4>5. Cardinality(Signers(a)') = Cardinality(Signers(a)) + 1
        BY <4>2, <4>3, <4>4, FS_AddElement
      <4>6. Signers(a)' \ {tables'.apps[a].by} = Signers(a)'
        BY <1>17, <2>1, <4>2, <4>3, <4>4
      <4> QED BY <4>1, <4>2, <4>5, <4>6
    <3> QED BY <1>11, <1>14, <3>1, <3>2 DEF BackedAt
  <2> QED BY <2>2, <2>3
<1>26. Backed'
  BY <1>14, <1>25 DEF Backed, BackedAt
<1> QED BY <1>9, <1>18, <1>21, <1>22, <1>23, <1>24, <1>26 DEF GuildInv

\* One list behind another.
ListsOf(S, n) == [1..n -> S]

Both(s, t) == s \o t
IsBoth(r, S, s, m, t, n) ==
  /\ r \in ListsOf(S, m + n) /\ Len(r) = m + n
  /\ \A k \in 1..m : r[k] = s[k]
  /\ \A k \in 1..n : r[m + k] = t[k]

LEMMA TwoLists ==
  ASSUME NEW S, NEW m \in Nat, NEW n \in Nat, NEW s \in ListsOf(S, m), NEW t \in ListsOf(S, n)
  PROVE  IsBoth(Both(s, t), S, s, m, t, n)
<1> DEFINE r == Both(s, t)
<1>1. s \in Seq(S) /\ t \in Seq(S) /\ Len(s) = m /\ Len(t) = n
  BY DEF ListsOf
<1>2. /\ r \in Seq(S) /\ Len(r) = m + n
      /\ \A i \in 1..(m + n) : r[i] = IF i <= m THEN s[i] ELSE t[i - m]
  <2>1. /\ s \o t \in Seq(S) /\ Len(s \o t) = Len(s) + Len(t)
        /\ \A i \in 1..(Len(s) + Len(t)) : (s \o t)[i] = IF i <= Len(s) THEN s[i] ELSE t[i - Len(s)]
    BY <1>1, ConcatProperties, Zenon
  <2> QED BY <1>1, <2>1, Zenon DEF Both
<1> HIDE DEF r
<1>3. r \in ListsOf(S, m + n)
  <2>1. r \in [1..Len(r) -> S]
    BY <1>2, LenProperties, Zenon
  <2> QED BY <1>2, <2>1, Zenon DEF ListsOf
<1>4. \A k \in 1..m : k \in 1..(m + n) /\ k <= m
  OBVIOUS
<1>5. \A k \in 1..n : m + k \in 1..(m + n) /\ ~(m + k <= m) /\ (m + k) - m = k
  OBVIOUS
<1>6. (\A k \in 1..m : r[k] = s[k]) /\ \A k \in 1..n : r[m + k] = t[k]
  BY <1>2, <1>4, <1>5
<1> QED BY <1>2, <1>3, <1>6 DEF r, IsBoth

\* The rows of a founding: the application, the guild, and its members.
Founds(ws, b, founders, c, lg, lm) ==
  /\ DOMAIN ws = 1..(c + 3) /\ Len(ws) = c + 3
  /\ ws[1].table = "apps" /\ ws[1].id = b /\ ws[1].row \in RowOf["apps"]
  /\ ws[1].row.status = "approved" /\ ws[1].row.by = tables.apps[b].by
  /\ ws[2] = [table |-> "guilds", id |-> lg + 1, row |-> [app |-> b]]
  /\ \A k \in 1..(c + 1) :
       ws[k + 2] = [table |-> "members", id |-> lm + k, row |-> [by |-> founders[k], guild |-> lg + 1]]

\* Of the founders the one who wants the guild is the first.
Founders(b, founders, order, c) ==
  /\ founders \in [1..(c + 1) -> Folk] /\ founders[1] = tables.apps[b].by
  /\ \A k \in 1..c : founders[k + 1] = tables.sigs[order[k]].by

FoundersOf(b, order) ==
  <<tables.apps[b].by>> \o [k \in DOMAIN order |-> tables.sigs[order[k]].by]

LEMMA FoundingWrites ==
  ASSUME GuildInv, NEW b \in Rows("apps"), NEW order \in Orders(ValidSignatures(b)),
         NEW c, c = Cardinality(ValidSignatures(b)), NEW founders, NEW ws,
         founders = FoundersOf(b, order),
         ws = FoundingRows(b, founders)
  PROVE  /\ c \in Nat /\ Founders(b, founders, order, c)
         /\ \E lg, lm \in Nat :
              Rows("guilds") = 1..lg /\ Rows("members") = 1..lm /\ Founds(ws, b, founders, c, lg, lm)
<1> DEFINE V == ValidSignatures(b)
<1>1. Filled(tables) /\ "apps" \in Tables /\ "sigs" \in Tables /\ "guilds" \in Tables /\ "members" \in Tables
  BY DEF GuildInv, GuildsTyped, Tables
<1>2. V \in SUBSET Rows("sigs")
  BY DEF ValidSignatures
<1>3. IsFiniteSet(V) /\ V \subseteq Nat
  BY <1>1, <1>2, RowsFinite
<1>4. c \in Nat /\ order \in [1..c -> V]
  <2>1. Cardinality(V) \in Nat /\ order \in [1..Cardinality(V) -> V]
    BY <1>3, OrderFacts
  <2> QED BY <2>1
<1> HIDE DEF V
<1>5. tables.apps[b].by \in Folk /\ \A s \in V : tables.sigs[s].by \in Folk
  <2>1. tables.apps[b] \in RowOf["apps"]
    BY <1>1, FilledFcn DEF Rows
  <2>2. \A s \in V : tables.sigs[s] \in RowOf["sigs"]
    BY <1>1, <1>2, FilledFcn DEF Rows
  <2> QED BY <2>1, <2>2 DEF RowOf
<1> DEFINE signers == [k \in 1..c |-> tables.sigs[order[k]].by]
           first == <<tables.apps[b].by>>
<1>6. signers \in [1..c -> Folk] /\ \A k \in 1..c : signers[k] = tables.sigs[order[k]].by
  BY <1>4, <1>5
<1>7. founders = Both(first, signers)
  BY <1>4 DEF FoundersOf, Both
<1>8. first \in [1..1 -> Folk] /\ first[1] = tables.apps[b].by
  BY <1>5
<1> HIDE DEF signers, first
<1>9. /\ founders \in [1..(c + 1) -> Folk] /\ founders[1] = tables.apps[b].by
      /\ \A k \in 1..c : founders[k + 1] = signers[k]
  <2> DEFINE one == 1
  <2>1. one \in Nat /\ 1 \in 1..one /\ one + c = c + 1 /\ \A k \in 1..c : one + k = k + 1
    BY <1>4
  <2>2. first \in ListsOf(Folk, one) /\ signers \in ListsOf(Folk, c)
    BY <1>6, <1>8 DEF ListsOf
  <2> HIDE DEF one
  <2>3. IsBoth(founders, Folk, first, one, signers, c)
    BY <1>4, <1>7, <2>1, <2>2, TwoLists
  <2>4. /\ founders \in ListsOf(Folk, one + c)
        /\ \A k \in 1..one : founders[k] = first[k]
        /\ \A k \in 1..c : founders[one + k] = signers[k]
    BY <2>3 DEF IsBoth
  <2>5. founders[1] = first[1] /\ \A k \in 1..c : founders[k + 1] = signers[k]
    BY <2>1, <2>4
  <2>6. founders \in [1..(c + 1) -> Folk]
    BY <2>1, <2>4 DEF ListsOf
  <2> QED BY <1>8, <2>5, <2>6
<1>10. Founders(b, founders, order, c)
  BY <1>6, <1>9 DEF Founders
<1>11. PICK lg, lm \in Nat : /\ tables.guilds \in [1..lg -> RowOf["guilds"]]
                             /\ tables.members \in [1..lm -> RowOf["members"]]
  BY <1>1 DEF Filled
<1>12. Len(tables.guilds) = lg /\ Len(tables.members) = lm /\ Rows("guilds") = 1..lg /\ Rows("members") = 1..lm
  <2>1. ASSUME NEW f, NEW S, NEW l \in Nat, f \in [1..l -> S] PROVE Len(f) = l
    BY <2>1
  <2> QED BY <1>11, <2>1 DEF Rows
<1> DEFINE w == Changed("apps", b, "approved")
           g == [table |-> "guilds", id |-> lg + 1, row |-> [app |-> b]]
           m == [k \in 1..(c + 1) |->
                   [table |-> "members", id |-> lm + k, row |-> [by |-> founders[k], guild |-> lg + 1]]]
<1>13. ws = <<w, g>> \o m
  <2>1. DOMAIN founders = 1..(c + 1)
    BY <1>9
  <2>2. ws = <<w, New("guilds", 1, [app |-> b])>>
             \o [k \in 1..(c + 1) |-> New("members", k, [by |-> founders[k], guild |-> lg + 1])]
    BY <1>12, <2>1 DEF FoundingRows
  <2>3. New("guilds", 1, [app |-> b]) = g
    BY <1>12 DEF New
  <2>4. \A k \in 1..(c + 1) : New("members", k, [by |-> founders[k], guild |-> lg + 1]) = m[k]
    BY <1>12 DEF New
  <2>5. [k \in 1..(c + 1) |-> New("members", k, [by |-> founders[k], guild |-> lg + 1])] = m
    BY <2>4
  <2> QED BY <2>2, <2>3, <2>5
<1>14. /\ w.table = "apps" /\ w.id = b /\ w.row \in RowOf["apps"]
       /\ w.row.status = "approved" /\ w.row.by = tables.apps[b].by
  BY StatusChanged
<1>15. \A k \in 1..(c + 1) :
         m[k] = [table |-> "members", id |-> lm + k, row |-> [by |-> founders[k], guild |-> lg + 1]]
  OBVIOUS
<1> DEFINE two == <<w, g>>
           Any == {w, g} \cup {m[k] : k \in 1..(c + 1)}
<1>16. two \in [1..2 -> Any] /\ two[1] = w /\ two[2] = g
  OBVIOUS
<1>17. m \in [1..(c + 1) -> Any] /\ ws = two \o m
  BY <1>13
<1> HIDE DEF w, g, m, two, Any
<1> DEFINE l == 2
           r == Both(two, m)
<1>18. /\ c + 1 \in Nat /\ l \in Nat /\ l + (c + 1) = c + 3 /\ 1 \in 1..l /\ 2 \in 1..l
       /\ \A k \in 1..(c + 1) : l + k = k + 2
  BY <1>4
<1>19. two \in ListsOf(Any, l) /\ m \in ListsOf(Any, c + 1)
  BY <1>16, <1>17 DEF ListsOf
<1> HIDE DEF l
<1>20. /\ DOMAIN ws = 1..(c + 3) /\ Len(ws) = c + 3
       /\ ws[1] = w /\ ws[2] = g /\ \A k \in 1..(c + 1) : ws[k + 2] = m[k]
  <2>0. IsBoth(r, Any, two, l, m, c + 1)
    BY <1>18, <1>19, TwoLists
  <2>1. /\ r \in ListsOf(Any, l + (c + 1)) /\ Len(r) = l + (c + 1)
        /\ \A k \in 1..l : r[k] = two[k]
        /\ \A k \in 1..(c + 1) : r[l + k] = m[k]
    BY <2>0 DEF IsBoth
  <2> HIDE DEF r
  <2>2. r[1] = w /\ r[2] = g /\ \A k \in 1..(c + 1) : r[k + 2] = m[k]
    BY <1>16, <1>18, <2>1, Zenon
  <2>3. Len(r) = c + 3 /\ r \in [1..(c + 3) -> Any]
    BY <1>18, <2>1, Zenon DEF ListsOf
  <2>4. ws = r
    BY <1>17 DEF r, Both
  <2> QED BY <2>2, <2>3, <2>4
<1>21. Founds(ws, b, founders, c, lg, lm)
  BY <1>14, <1>15, <1>20 DEF Founds, g
<1> QED BY <1>4, <1>10, <1>12, <1>21

\* What the first m of them make of the tables.
Founded(q, ws, b, founders, lg, lm, m) ==
  /\ q.sigs = tables.sigs /\ q.joins = tables.joins
  /\ DOMAIN q.apps = Rows("apps") /\ \A a \in Rows("apps") \ {b} : q.apps[a] = tables.apps[a]
  /\ q.apps[b] = IF m = 0 THEN tables.apps[b] ELSE ws[1].row
  /\ DOMAIN q.guilds = 1..(IF m < 2 THEN lg ELSE lg + 1)
  /\ \A g \in 1..lg : q.guilds[g] = tables.guilds[g]
  /\ m >= 2 => q.guilds[lg + 1] = [app |-> b]
  /\ DOMAIN q.members = 1..(IF m < 2 THEN lm ELSE lm + m - 2)
  /\ \A i \in 1..lm : q.members[i] = tables.members[i]
  /\ m >= 2 => \A k \in 1..(m - 2) : q.members[lm + k] = [by |-> founders[k], guild |-> lg + 1]

LEMMA FoundingPut ==
  ASSUME GuildInv, NEW b \in Rows("apps"), NEW founders, NEW c \in Nat, NEW lg \in Nat, NEW lm \in Nat,
         Rows("guilds") = 1..lg, Rows("members") = 1..lm,
         NEW ws, Founds(ws, b, founders, c, lg, lm), NEW m \in 0..(c + 3),
         NEW q, q = PutFirst(tables, ws, m)
  PROVE  Founded(q, ws, b, founders, lg, lm, m)
<1>1. Filled(tables) /\ \A t \in {"apps", "sigs", "joins", "guilds", "members"} : t \in Tables
  BY DEF GuildInv, GuildsTyped, Tables
<1>2. ASSUME NEW k \in 1..(c + 3)
      PROVE  \/ k = 1
             \/ k = 2
             \/ k - 2 \in 1..(c + 1) /\ (k - 2) + 2 = k /\ k \notin {1, 2}
  OBVIOUS
<1>3. /\ ws[1].table = "apps" /\ ws[1].id = b
      /\ ws[2] = [table |-> "guilds", id |-> lg + 1, row |-> [app |-> b]]
      /\ \A k \in 1..(c + 1) :
           ws[k + 2] = [table |-> "members", id |-> lm + k, row |-> [by |-> founders[k], guild |-> lg + 1]]
  BY DEF Founds
<1>4. \A k \in 1..m : /\ k \in 1..(c + 3)
                      /\ ws[k].table = "apps" <=> k = 1
                      /\ ws[k].table = "guilds" <=> k = 2
                      /\ ws[k].table \in {"apps", "guilds", "members"}
  <2> SUFFICES ASSUME NEW k \in 1..m
               PROVE  /\ k \in 1..(c + 3)
                      /\ ws[k].table = "apps" <=> k = 1
                      /\ ws[k].table = "guilds" <=> k = 2
                      /\ ws[k].table \in {"apps", "guilds", "members"}
    OBVIOUS
  <2>1. k \in 1..(c + 3)
    OBVIOUS
  <2>2. CASE k - 2 \in 1..(c + 1) /\ (k - 2) + 2 = k /\ k \notin {1, 2}
    <3>1. ws[k].table = "members"
      <4> DEFINE j == k - 2
      <4>1. j \in 1..(c + 1) /\ j + 2 = k
        BY <2>2
      <4> HIDE DEF j
      <4>2. ws[j + 2] = [table |-> "members", id |-> lm + j, row |-> [by |-> founders[j], guild |-> lg + 1]]
        BY <1>3, <4>1
      <4> QED BY <4>1, <4>2
    <3> QED BY <2>1, <2>2, <3>1
  <2>3. CASE k = 1 \/ k = 2
    BY <1>3, <2>1, <2>3
  <2> QED BY <1>2, <2>1, <2>2, <2>3
<1>5. q.sigs = tables.sigs /\ q.joins = tables.joins
  BY <1>1, <1>4, PutElsewhere
<1>6. ASSUME NEW t \in Tables
      PROVE  /\ \A i : i \in DOMAIN q[t] <=> i \in DOMAIN tables[t] \/ \E k \in 1..m : ws[k].table = t /\ ws[k].id = i
             /\ \A i \in DOMAIN q[t] :
                  \/ /\ i \in DOMAIN tables[t] /\ q[t][i] = tables[t][i]
                     /\ \A k \in 1..m : ws[k].table = t => ws[k].id # i
                  \/ \E k \in 1..m : ws[k].table = t /\ ws[k].id = i /\ q[t][i] = ws[k].row
  BY PutWhat
<1>7. /\ DOMAIN q.apps = Rows("apps") /\ \A a \in Rows("apps") \ {b} : q.apps[a] = tables.apps[a]
      /\ q.apps[b] = IF m = 0 THEN tables.apps[b] ELSE ws[1].row
  <2>1. /\ \A i : i \in DOMAIN q.apps <=> i \in Rows("apps") \/ \E k \in 1..m : ws[k].table = "apps" /\ ws[k].id = i
        /\ \A i \in DOMAIN q.apps :
              \/ /\ i \in Rows("apps") /\ q.apps[i] = tables.apps[i]
                 /\ \A k \in 1..m : ws[k].table = "apps" => ws[k].id # i
              \/ \E k \in 1..m : ws[k].table = "apps" /\ ws[k].id = i /\ q.apps[i] = ws[k].row
    BY <1>1, <1>6 DEF Rows
  <2>2. \A i : i \in DOMAIN q.apps <=> i \in Rows("apps")
    BY <1>3, <1>4, <2>1
  <2>3. DOMAIN q.apps = Rows("apps")
    BY <2>2
  <2>4. \A a \in Rows("apps") \ {b} : q.apps[a] = tables.apps[a]
    BY <1>3, <1>4, <2>1, <2>3
  <2>5. CASE m = 0
    BY <2>1, <2>3, <2>5
  <2>6. CASE m # 0
    <3>1. 1 \in 1..m
      BY <2>6
    <3> QED BY <1>3, <1>4, <2>1, <2>3, <2>4, <2>6, <3>1
  <2> QED BY <2>3, <2>4, <2>5, <2>6
<1>8. /\ DOMAIN q.guilds = 1..(IF m < 2 THEN lg ELSE lg + 1)
      /\ \A g \in 1..lg : q.guilds[g] = tables.guilds[g]
      /\ m >= 2 => q.guilds[lg + 1] = [app |-> b]
  <2>1. /\ \A i : i \in DOMAIN q.guilds <=> i \in 1..lg \/ \E k \in 1..m : ws[k].table = "guilds" /\ ws[k].id = i
        /\ \A i \in DOMAIN q.guilds :
              \/ /\ i \in 1..lg /\ q.guilds[i] = tables.guilds[i]
                 /\ \A k \in 1..m : ws[k].table = "guilds" => ws[k].id # i
              \/ \E k \in 1..m : ws[k].table = "guilds" /\ ws[k].id = i /\ q.guilds[i] = ws[k].row
    BY <1>1, <1>6 DEF Rows
  <2>2. ws[2].id = lg + 1 /\ ws[2].row = [app |-> b]
    BY <1>3
  <2>3. /\ \A i : i \in DOMAIN q.guilds <=> (i \in 1..lg \/ (2 \in 1..m /\ i = lg + 1))
        /\ \A i \in DOMAIN q.guilds :
             (i \in 1..lg /\ q.guilds[i] = tables.guilds[i]) \/ (i = lg + 1 /\ q.guilds[i] = [app |-> b])
    <3>1. \A k \in 1..m : ws[k].table = "guilds" <=> k = 2
      BY <1>4
    <3>2. \A i : (\E k \in 1..m : ws[k].table = "guilds" /\ ws[k].id = i) <=> (2 \in 1..m /\ i = lg + 1)
      BY <2>2, <3>1
    <3>3. ASSUME NEW i \in DOMAIN q.guilds
          PROVE  (i \in 1..lg /\ q.guilds[i] = tables.guilds[i]) \/ (i = lg + 1 /\ q.guilds[i] = [app |-> b])
      BY <2>1, <2>2, <3>1
    <3> QED BY <2>1, <3>2, <3>3
  <2> DEFINE l == IF m < 2 THEN lg ELSE lg + 1
             ids == DOMAIN q.guilds
  <2>4. 2 \in 1..m <=> ~(m < 2)
    OBVIOUS
  <2>5. \A i : i \in ids <=> i \in 1..l
    BY <2>3, <2>4
  <2> HIDE DEF l, ids
  <2>6. ids = 1..l
    BY <2>5
  <2>7. \A g \in 1..lg : g \in ids /\ g # lg + 1
    BY <2>3 DEF ids
  <2>8. m >= 2 => lg + 1 \in ids /\ lg + 1 \notin 1..lg
    BY <2>3, <2>4 DEF ids
  <2> QED BY <2>3, <2>6, <2>7, <2>8 DEF l, ids
<1>9. /\ DOMAIN q.members = 1..(IF m < 2 THEN lm ELSE lm + m - 2)
      /\ \A i \in 1..lm : q.members[i] = tables.members[i]
      /\ m >= 2 => \A k \in 1..(m - 2) : q.members[lm + k] = [by |-> founders[k], guild |-> lg + 1]
  <2>1. /\ \A i : i \in DOMAIN q.members <=> i \in 1..lm \/ \E k \in 1..m : ws[k].table = "members" /\ ws[k].id = i
        /\ \A i \in DOMAIN q.members :
              \/ /\ i \in 1..lm /\ q.members[i] = tables.members[i]
                 /\ \A k \in 1..m : ws[k].table = "members" => ws[k].id # i
              \/ \E k \in 1..m : ws[k].table = "members" /\ ws[k].id = i /\ q.members[i] = ws[k].row
    BY <1>1, <1>6 DEF Rows
  <2>2. ASSUME NEW k \in 1..(m - 2), m >= 2
        PROVE  /\ k + 2 \in 1..m /\ ws[k + 2].table = "members" /\ ws[k + 2].id = lm + k
               /\ ws[k + 2].row = [by |-> founders[k], guild |-> lg + 1]
    <3>1. k \in 1..(c + 1) /\ k + 2 \in 1..m
      BY <2>2
    <3>2. ws[k + 2] = [table |-> "members", id |-> lm + k, row |-> [by |-> founders[k], guild |-> lg + 1]]
      BY <1>3, <3>1
    <3> QED BY <3>1, <3>2
  <2>3. ASSUME NEW k \in 1..m, ws[k].table = "members"
        PROVE  m >= 2 /\ k - 2 \in 1..(m - 2) /\ (k - 2) + 2 = k
    <3>1. k # 1 /\ k # 2
      BY <1>4, <2>3
    <3> QED BY <3>1
  <2>4. ASSUME NEW i \in DOMAIN q.members
        PROVE  \/ i \in 1..lm /\ q.members[i] = tables.members[i]
               \/ m >= 2 /\ \E k \in 1..(m - 2) :
                    i = lm + k /\ q.members[i] = [by |-> founders[k], guild |-> lg + 1]
    <3>1. CASE i \in 1..lm /\ q.members[i] = tables.members[i]
      BY <3>1
    <3>2. CASE \E k \in 1..m : ws[k].table = "members" /\ ws[k].id = i /\ q.members[i] = ws[k].row
      <4>1. PICK k \in 1..m : ws[k].table = "members" /\ ws[k].id = i /\ q.members[i] = ws[k].row
        BY <3>2
      <4>2. m >= 2 /\ k - 2 \in 1..(m - 2) /\ (k - 2) + 2 = k
        BY <2>3, <4>1
      <4>3. ws[(k - 2) + 2].id = lm + (k - 2) /\ ws[(k - 2) + 2].row = [by |-> founders[k - 2], guild |-> lg + 1]
        BY <2>2, <4>2
      <4> QED BY <4>1, <4>2, <4>3
    <3> QED BY <2>1, <3>1, <3>2
  <2> DEFINE l == IF m < 2 THEN lm ELSE lm + m - 2
             ids == DOMAIN q.members
  <2>5. ASSUME NEW i \in 1..l PROVE i \in ids
    <3>1. CASE i \in 1..lm
      BY <2>1, <3>1
    <3>2. CASE i \notin 1..lm
      <4>1. m >= 2 /\ i - lm \in 1..(m - 2) /\ lm + (i - lm) = i
        BY <2>5, <3>2
      <4>2. (i - lm) + 2 \in 1..m /\ ws[(i - lm) + 2].table = "members" /\ ws[(i - lm) + 2].id = lm + (i - lm)
        BY <2>2, <4>1
      <4> QED BY <2>1, <4>1, <4>2
    <3> QED BY <3>1, <3>2
  <2>6. ASSUME NEW i \in ids PROVE i \in 1..l
    <3>1. i \in 1..lm \/ (m >= 2 /\ \E k \in 1..(m - 2) : i = lm + k)
      BY <2>4
    <3> QED BY <3>1
  <2> HIDE DEF l, ids
  <2>7. ids = 1..l
    BY <2>5, <2>6
  <2>8. ASSUME NEW i \in 1..lm PROVE q.members[i] = tables.members[i]
    <3>1. i \in ids
      BY <2>1 DEF ids
    <3>2. ~\E k \in 1..(m - 2) : i = lm + k
      OBVIOUS
    <3> QED BY <2>4, <3>1, <3>2 DEF ids
  <2>9. ASSUME m >= 2, NEW k \in 1..(m - 2)
        PROVE  q.members[lm + k] = [by |-> founders[k], guild |-> lg + 1]
    <3>1. lm + k \in 1..l /\ lm + k \notin 1..lm
      BY <2>9 DEF l
    <3>2. lm + k \in DOMAIN q.members
      BY <2>7, <3>1 DEF ids
    <3>3. PICK j \in 1..(m - 2) : lm + k = lm + j /\ q.members[lm + k] = [by |-> founders[j], guild |-> lg + 1]
      BY <2>4, <3>1, <3>2
    <3>4. j = k
      BY <3>3
    <3> QED BY <3>3, <3>4
  <2> QED BY <2>7, <2>8, <2>9 DEF l, ids
<1> QED BY <1>5, <1>7, <1>8, <1>9 DEF Founded

LEMMA FoundedGrown ==
  ASSUME GuildInv, NEW b \in Rows("apps"), NEW founders, NEW lg \in Nat, NEW lm \in Nat,
         Rows("guilds") = 1..lg, Rows("members") = 1..lm,
         NEW ws, ws[1].row.by = tables.apps[b].by, NEW m \in Nat,
         NEW q, Founded(q, ws, b, founders, lg, lm, m), NEW lost, <<"apps", b>> \in lost
  PROVE  Grown(tables, q, lost)
<1>1. SameRows(tables, q, lost)
  <2>1. \A t \in {"apps", "sigs", "joins"} : DOMAIN tables[t] = DOMAIN q[t]
    BY DEF Founded, Rows
  <2>2. ASSUME NEW a \in DOMAIN tables.apps
        PROVE  tables.apps[a].by = q.apps[a].by /\ (<<"apps", a>> \notin lost => tables.apps[a] = q.apps[a])
    <3>1. CASE a = b
      BY <3>1 DEF Founded
    <3>2. CASE a # b
      BY <3>2 DEF Founded, Rows
    <3> QED BY <3>1, <3>2
  <2> QED BY <2>1, <2>2 DEF SameRows, Founded
<1>2. /\ \A g \in DOMAIN tables.guilds : g \in DOMAIN q.guilds /\ q.guilds[g] = tables.guilds[g]
      /\ \A g \in DOMAIN q.guilds \ DOMAIN tables.guilds : m >= 2 /\ g = lg + 1
  BY DEF Founded, Rows
<1>3. \A g \in DOMAIN q.guilds \ DOMAIN tables.guilds :
        q.guilds[g].app \in DOMAIN tables.apps /\ <<"apps", q.guilds[g].app>> \in lost
  <2>1. m >= 2 => q.guilds[lg + 1].app = b
    BY DEF Founded
  <2> QED BY <1>2, <2>1 DEF Rows
<1>4. \A i \in DOMAIN tables.members : i \in DOMAIN q.members /\ q.members[i] = tables.members[i]
  BY DEF Founded, Rows
<1>5. ASSUME NEW i \in DOMAIN q.members \ DOMAIN tables.members
      PROVE  q.members[i].guild \in DOMAIN q.guilds \ DOMAIN tables.guilds
  <2>1. m >= 2 /\ i - lm \in 1..(m - 2) /\ lm + (i - lm) = i
    BY DEF Founded, Rows
  <2> DEFINE k == i - lm
  <2>2. k \in 1..(m - 2) /\ lm + k = i
    BY <2>1
  <2> HIDE DEF k
  <2>3. q.members[lm + k] = [by |-> founders[k], guild |-> lg + 1]
    BY <2>1, <2>2 DEF Founded
  <2>4. lg + 1 \in DOMAIN q.guilds /\ lg + 1 \notin DOMAIN tables.guilds
    BY <2>1 DEF Founded, Rows
  <2> QED BY <2>2, <2>3, <2>4
<1> QED BY <1>1, <1>2, <1>3, <1>4, <1>5 DEF Grown

\* The founders are the one who wants the guild and those who signed for it.
LEMMA FoundersOnce ==
  ASSUME GuildInv, NEW b \in Whole("apps"), NEW order \in Orders(ValidSignatures(b)),
         NEW c, c = Cardinality(ValidSignatures(b)), NEW founders, Founders(b, founders, order, c)
  PROVE  /\ \A j, k \in 1..(c + 1) : founders[j] = founders[k] => j = k
         /\ {founders[k] : k \in 1..(c + 1)} = Signers(b) \cup {tables.apps[b].by}
<1> DEFINE V == ValidSignatures(b)
           by(s) == tables.sigs[s].by
           own == tables.apps[b].by
<1>1. IsFiniteSet(V) /\ V \subseteq Nat
  <2>1. "sigs" \in Tables /\ V \in SUBSET Rows("sigs")
    BY DEF Tables, ValidSignatures
  <2> QED BY <2>1, RowsFinite
<1>2. /\ c \in Nat /\ order \in [1..c -> V]
      /\ \A j, k \in 1..c : order[j] = order[k] => j = k
      /\ \A i \in V : \E k \in 1..c : order[k] = i
  BY <1>1, OrderFacts
<1>3. /\ own \notin Signers(b) /\ Signers(b) = {by(s) : s \in V}
  BY SignersCounted DEF Signers
<1>4. ASSUME NEW r \in V, NEW s \in V, by(r) = by(s) PROVE r = s
  BY <1>4 DEF GuildInv, SignedOnce, ValidSignatures
<1>5. founders[1] = own /\ \A k \in 1..c : founders[k + 1] = by(order[k])
  BY DEF Founders
<1> HIDE DEF V, by, own
<1>6. ASSUME NEW k \in 1..(c + 1)
      PROVE  \/ k = 1 /\ founders[k] = own
             \/ k - 1 \in 1..c /\ founders[k] = by(order[k - 1]) /\ order[k - 1] \in V
  <2>1. CASE k = 1
    BY <1>5, <2>1
  <2>2. CASE k # 1
    <3> DEFINE j == k - 1
    <3>1. j \in 1..c /\ j + 1 = k
      BY <1>2, <2>2
    <3> HIDE DEF j
    <3>2. founders[k] = by(order[j]) /\ order[j] \in V
      BY <1>2, <1>5, <3>1
    <3> QED BY <3>1, <3>2 DEF j
  <2> QED BY <2>1, <2>2
<1>7. ASSUME NEW j \in 1..(c + 1), NEW k \in 1..(c + 1), founders[j] = founders[k] PROVE j = k
  <2>1. \A s \in V : by(s) # own
    BY <1>3
  <2>2. CASE j = 1 \/ k = 1
    BY <1>6, <1>7, <2>1, <2>2
  <2>3. CASE j # 1 /\ k # 1
    <3>1. /\ j - 1 \in 1..c /\ founders[j] = by(order[j - 1]) /\ order[j - 1] \in V
          /\ k - 1 \in 1..c /\ founders[k] = by(order[k - 1]) /\ order[k - 1] \in V
      BY <1>6, <2>3
    <3>2. order[j - 1] = order[k - 1]
      BY <1>4, <1>7, <3>1
    <3>3. j - 1 = k - 1
      BY <1>2, <3>1, <3>2
    <3> QED BY <1>2, <3>3
  <2> QED BY <2>2, <2>3
<1>8. \A p : p \in {founders[k] : k \in 1..(c + 1)} <=> p \in Signers(b) \cup {own}
  <2>1. ASSUME NEW k \in 1..(c + 1) PROVE founders[k] \in Signers(b) \cup {own}
    BY <1>3, <1>6
  <2>2. ASSUME NEW s \in V PROVE \E k \in 1..(c + 1) : founders[k] = by(s)
    <3>1. PICK k \in 1..c : order[k] = s
      BY <1>2
    <3>2. k + 1 \in 1..(c + 1)
      BY <1>2
    <3> QED BY <1>5, <3>1, <3>2
  <2>3. 1 \in 1..(c + 1)
    BY <1>2
  <2> QED BY <1>3, <1>5, <2>1, <2>2, <2>3
<1>9. {founders[k] : k \in 1..(c + 1)} = Signers(b) \cup {own}
  BY <1>8, Zenon
<1> QED BY <1>7, <1>9 DEF own

LEMMA FoundingStored ==
  ASSUME GuildInv, NEW u \in Folk, NEW b \in Rows("apps"), NEW founders, NEW order, NEW c \in Nat,
         Founders(b, founders, order, c), NEW lg \in Nat, NEW lm \in Nat,
         Rows("guilds") = 1..lg, Rows("members") = 1..lm,
         NEW ws, Founds(ws, b, founders, c, lg, lm), NEW next, Store(u, ws, {<<"apps", b>>}, next)
  PROVE  Stores(ws, c + 3) /\ (GuildInv' \/ Succeeds(u, ws, c + 3, next))
<1> DEFINE P(m) == PutFirst(tables, ws, m)
           what == {<<"apps", b>>}
<1>1. Filled(tables) /\ \A t \in {"apps", "sigs", "joins", "guilds", "members"} : t \in Tables
  BY DEF GuildInv, GuildsTyped, Tables
<1>2. \A m \in 0..(c + 3) : Founded(P(m), ws, b, founders, lg, lm, m)
  BY FoundingPut
<1>3. /\ DOMAIN ws = 1..(c + 3) /\ Len(ws) = c + 3
      /\ ws[1].table = "apps" /\ ws[1].id = b /\ ws[1].row \in RowOf["apps"] /\ ws[1].row.by = tables.apps[b].by
      /\ ws[2] = [table |-> "guilds", id |-> lg + 1, row |-> [app |-> b]]
  BY DEF Founds
<1>4. b \in Nat
  BY <1>1, FilledFcn DEF Rows
<1>5. ws[2].table = "guilds" /\ ws[2].id = lg + 1 /\ ws[2].row \in RowOf["guilds"]
  BY <1>3, <1>4 DEF RowOf
<1>6. ASSUME NEW k \in 1..(c + 3), k # 1, k # 2
      PROVE  ws[k].table = "members" /\ ws[k].id \notin 1..lm /\ ws[k].row \in RowOf["members"]
  <2> DEFINE j == k - 2
  <2>1. j \in 1..(c + 1) /\ j + 2 = k /\ lm + j \notin 1..lm
    BY <1>6
  <2> HIDE DEF j
  <2>2. ws[j + 2] = [table |-> "members", id |-> lm + j, row |-> [by |-> founders[j], guild |-> lg + 1]]
    BY <2>1 DEF Founds
  <2>3. founders[j] \in Folk /\ lg + 1 \in Nat
    BY <2>1 DEF Founders
  <2>4. [by |-> founders[j], guild |-> lg + 1] \in RowOf["members"]
    BY <2>3 DEF RowOf
  <2> QED BY <2>1, <2>2, <2>4
<1>7. Stores(ws, c + 3)
  <2>1. ASSUME NEW k \in 1..(c + 3) PROVE ws[k].table \in Tables /\ ws[k].row \in RowOf[ws[k].table]
    <3>1. CASE k = 1
      BY <1>1, <1>3, <3>1
    <3>2. CASE k = 2
      BY <1>1, <1>5, <3>2
    <3>3. CASE k # 1 /\ k # 2
      BY <1>1, <1>6, <3>3
    <3> QED BY <3>1, <3>2, <3>3
  <2>2. ASSUME NEW m \in 0..(c + 3), NEW t \in Tables PROVE \E l \in Nat : DOMAIN P(m)[t] = 1..l
    <3> DEFINE q == P(m)
    <3>1. Founded(q, ws, b, founders, lg, lm, m)
      BY <1>2
    <3>2. \E l \in Nat : DOMAIN tables[t] = 1..l
      BY <1>1, FilledFcn
    <3> HIDE DEF q
    <3>3. t \in {"apps", "sigs", "joins"} => DOMAIN q[t] = DOMAIN tables[t]
      BY <3>1 DEF Founded, Rows
    <3>4. \E l \in Nat : DOMAIN q.guilds = 1..l
      <4>1. /\ DOMAIN q.guilds = 1..(IF m < 2 THEN lg ELSE lg + 1)
            /\ (IF m < 2 THEN lg ELSE lg + 1) \in Nat
        BY <3>1 DEF Founded
      <4> QED BY <4>1
    <3>5. \E l \in Nat : DOMAIN q.members = 1..l
      <4>1. /\ DOMAIN q.members = 1..(IF m < 2 THEN lm ELSE lm + m - 2)
            /\ (IF m < 2 THEN lm ELSE lm + m - 2) \in Nat
        BY <3>1 DEF Founded
      <4> QED BY <4>1
    <3>6. \E l \in Nat : DOMAIN q[t] = 1..l
      BY <3>2, <3>3, <3>4, <3>5 DEF Tables
    <3> QED BY <3>6 DEF q
  <2> QED BY <2>1, <2>2 DEF Stores
<1>8. ASSUME NEW k \in 1..(c + 3), Fails(u, ws, what, k) PROVE GuildInv'
  <2>1. IsNew(ws[k]) <=> k # 1
    <3>1. CASE k = 1
      BY <1>3, <3>1 DEF IsNew
    <3>2. CASE k = 2
      BY <1>5, <3>2 DEF IsNew
    <3>3. CASE k # 1 /\ k # 2
      BY <1>6, <3>3 DEF IsNew
    <3> QED BY <3>1, <3>2, <3>3
  <2>2. torn' = torn \cup what
    BY <1>8, <2>1 DEF Fails
  <2>3. <<"apps", b>> \in torn'
    BY <2>2
  <2>4. k - 1 \in 0..(c + 3) /\ k - 1 \in Nat
    OBVIOUS
  <2>5. Founded(P(k - 1), ws, b, founders, lg, lm, k - 1)
    BY <1>2, <2>4
  <2> HIDE DEF P, what
  <2>6. Grown(tables, P(k - 1), torn')
    BY <1>3, <2>3, <2>4, <2>5, FoundedGrown
  <2>7. CASE k = 1
    <3>1. \A t \in {"guilds", "members"} : tables[t] = [i \in DOMAIN tables[t] |-> tables[t][i]]
      BY <1>1, FilledFcn
    <3>2. Concerns(ws[1], tables, torn')
      BY <1>3, <2>3 DEF Concerns, Rows
    <3>3. (\A i \in 1..0 : Concerns(ws[i], tables, torn')) /\ \A i \in 1..1 : Concerns(ws[i], tables, torn')
      BY <3>2
    <3>4. Alike(tables, P(0), torn')
      BY <3>1, <3>3, ChangesAlike DEF P
    <3>5. Alike(tables, P(1), torn')
      BY <3>1, <3>3, ChangesAlike DEF P
    <3>6. Alike(P(0), P(1), torn')
      BY <3>4, <3>5, AlikeTurns, AlikeChain
    <3>7. Alike(P(k - 1), P(k), torn')
      BY <2>7, <3>6
    <3> QED BY <1>7, <1>8, <2>6, <3>7, Failed DEF P
  <2>8. CASE k # 1
    BY <1>7, <1>8, <2>1, <2>6, <2>8, Failed DEF P
  <2> QED BY <2>7, <2>8
<1>9. c + 3 \in Nat
  OBVIOUS
<1> HIDE DEF P
<1> QED BY <1>3, <1>7, <1>8, <1>9, StoreKinds

LEMMA ApproveStep == ASSUME GuildInv, NEW u \in Folk, ApproveApplication(u) PROVE GuildInv'
<1> DEFINE b == App(u)
           c == Cardinality(ValidSignatures(b))
           next == Back(u)
<1>1. b \in Rows("apps") /\ b \in Nat /\ next = [at |-> "view", id |-> b] /\ next \in [at : Menus, id : Nat]
  BY DEF ApproveApplication, At, App, GuildInv, GuildsTyped, Referred, Back, Menus
<1>2. PICK order \in Orders(ValidSignatures(b)) :
        Store(u, FoundingRows(b, FoundersOf(b, order)), {<<"apps", b>>}, next)
  BY DEF ApproveApplication, FoundersOf
<1> DEFINE founders == FoundersOf(b, order)
           ws == FoundingRows(b, founders)
<1>3. /\ c \in Nat /\ Founders(b, founders, order, c)
      /\ \E lg, lm \in Nat :
           Rows("guilds") = 1..lg /\ Rows("members") = 1..lm /\ Founds(ws, b, founders, c, lg, lm)
  BY <1>1, FoundingWrites
<1>4. Store(u, ws, {<<"apps", b>>}, next)
  BY <1>2
<1>5. b \in Whole("apps") =>
        /\ \A j, k \in 1..(c + 1) : founders[j] = founders[k] => j = k
        /\ {founders[k] : k \in 1..(c + 1)} = Signers(b) \cup {tables.apps[b].by}
  BY <1>3, FoundersOnce
<1>6. b \in Whole("apps") => tables.apps[b].status # "pending"
  BY DEF GuildInv, MenusHold, ApproveApplication, At
<1>7. At(u, "approve")
  BY DEF ApproveApplication
<1> HIDE DEF b, c, next, founders, ws
<1>8. PICK lg \in Nat, lm \in Nat :
        Rows("guilds") = 1..lg /\ Rows("members") = 1..lm /\ Founds(ws, b, founders, c, lg, lm)
  BY <1>3
<1>9. Stores(ws, c + 3) /\ (GuildInv' \/ Succeeds(u, ws, c + 3, next))
  BY <1>1, <1>3, <1>4, <1>8, FoundingStored
<1> SUFFICES ASSUME Succeeds(u, ws, c + 3, next) PROVE GuildInv'
  BY <1>9
<1>10. /\ GuildsTyped' /\ Alike(tables', stored', torn')
       /\ screen'[u] = next /\ \A v \in Folk \ {u} : screen'[v] = screen[v]
  <2>1. c + 3 \in Nat
    BY <1>3
  <2> QED BY <1>1, <1>9, <2>1, Succeeded
<1>11. Founded(tables', ws, b, founders, lg, lm, c + 3)
  <2>1. c + 3 \in 0..(c + 3)
    BY <1>3
  <2> QED BY <1>1, <1>3, <1>8, <2>1, FoundingPut DEF Succeeds
<1>12. /\ tables'.sigs = tables.sigs /\ tables'.joins = tables.joins
       /\ Rows("apps")' = Rows("apps") /\ \A a \in Rows("apps") \ {b} : tables'.apps[a] = tables.apps[a]
       /\ tables'.apps[b].by = tables.apps[b].by /\ tables'.apps[b].status = "approved"
  BY <1>3, <1>8, <1>11 DEF Founded, Founds, Rows
<1>13. /\ Rows("guilds")' = 1..(lg + 1) /\ \A g \in 1..lg : tables'.guilds[g] = tables.guilds[g]
       /\ tables'.guilds[lg + 1] = [app |-> b]
  BY <1>3, <1>11 DEF Founded, Rows
<1> DEFINE new(k) == lm + k
<1>14. /\ Rows("members")' = 1..(lm + c + 1) /\ \A i \in 1..lm : tables'.members[i] = tables.members[i]
       /\ \A k \in 1..(c + 1) : tables'.members[new(k)].by = founders[k] /\ tables'.members[new(k)].guild = lg + 1
  <2> DEFINE n == c + 3
  <2>1. /\ DOMAIN tables'.members = 1..(IF n < 2 THEN lm ELSE lm + n - 2)
        /\ \A i \in 1..lm : tables'.members[i] = tables.members[i]
        /\ n >= 2 => \A k \in 1..(n - 2) : tables'.members[lm + k] = [by |-> founders[k], guild |-> lg + 1]
    BY <1>11 DEF Founded
  <2>2. ~(n < 2) /\ n >= 2 /\ n - 2 = c + 1 /\ lm + n - 2 = lm + c + 1
    BY <1>3
  <2> HIDE DEF n
  <2>3. \A k \in 1..(n - 2) : tables'.members[lm + k] = [by |-> founders[k], guild |-> lg + 1]
    BY <2>1, <2>2
  <2>4. DOMAIN tables'.members = 1..(lm + n - 2)
    BY <2>1, <2>2
  <2>5. ASSUME NEW k \in 1..(c + 1)
        PROVE  tables'.members[lm + k].by = founders[k] /\ tables'.members[lm + k].guild = lg + 1
    <3>1. tables'.members[lm + k] = [by |-> founders[k], guild |-> lg + 1]
      BY <2>2, <2>3
    <3> QED BY <3>1
  <2> QED BY <2>1, <2>2, <2>4, <2>5 DEF Rows
<1>15. ASSUME NEW i \in Rows("members")'
       PROVE  i \in 1..lm \/ \E k \in 1..(c + 1) : i = new(k)
  <2>1. i \notin 1..lm => i - lm \in 1..(c + 1) /\ lm + (i - lm) = i
    BY <1>3, <1>14
  <2> QED BY <2>1
<1>16. /\ 1..lg \subseteq Rows("guilds")' /\ lg + 1 \in Rows("guilds")' /\ lg + 1 \notin 1..lg
       /\ \A g \in Rows("guilds")' : g \in 1..lg \/ g = lg + 1
       /\ 1..lm \subseteq Rows("members")'
       /\ \A k \in 1..(c + 1) : new(k) \in Rows("members")' /\ new(k) \notin 1..lm
       /\ \A j, k \in 1..(c + 1) : new(j) = new(k) => j = k
  BY <1>3, <1>13, <1>14
<1> HIDE DEF new
<1>17. /\ Rows("sigs")' = Rows("sigs") /\ Rows("joins")' = Rows("joins")
       /\ Whole("apps")' = Whole("apps") /\ Whole("joins")' = Whole("joins")
  BY <1>12 DEF Rows, Whole, Succeeds
<1>18. Referred /\ MenusHold /\ SignedOnce /\ FoundedLate /\ Single /\ Backed
  BY DEF GuildInv
<1>19. \A a \in Rows("apps") : /\ tables'.apps[a].by = tables.apps[a].by
                               /\ a = b \/ tables'.apps[a] = tables.apps[a]
  BY <1>12
<1>20. Referred'
  <2>1. \A s \in Rows("sigs")' : /\ tables'.sigs[s].app \in Rows("apps")'
                                 /\ tables'.sigs[s].by # tables'.apps[tables'.sigs[s].app].by
    BY <1>12, <1>17, <1>18, <1>19 DEF Referred
  <2>2. ASSUME NEW g \in Rows("guilds")' PROVE tables'.guilds[g].app \in Rows("apps")'
    <3>1. CASE g \in 1..lg
      BY <1>8, <1>12, <1>13, <1>18, <3>1 DEF Referred
    <3>2. CASE g = lg + 1
      BY <1>1, <1>12, <1>13, <3>2
    <3> QED BY <1>16, <3>1, <3>2
  <2>3. ASSUME NEW i \in Rows("members")' PROVE tables'.members[i].guild \in Rows("guilds")'
    <3>1. CASE i \in 1..lm
      BY <1>8, <1>14, <1>16, <1>18, <3>1 DEF Referred
    <3>2. CASE \E k \in 1..(c + 1) : i = new(k)
      <4>1. PICK k \in 1..(c + 1) : i = new(k)
        BY <3>2
      <4> QED BY <1>14, <1>16, <4>1
    <3> QED BY <1>15, <3>1, <3>2
  <2>4. \A v \in Folk : screen'[v].at \in {"view", "approve", "deny", "signatures"} => App(v)' \in Rows("apps")'
    BY <1>1, <1>10, <1>12, <1>18 DEF Referred, App
  <2> QED BY <2>1, <2>2, <2>3, <2>4 DEF Referred
<1>21. \A v \in Folk : OwnOpen(v)' \subseteq OwnOpen(v) /\ OwnReviewing(v)' = OwnReviewing(v)
  BY <1>12, <1>17, <1>19 DEF OwnOpen, OwnReviewing, Open, ApplicationClosed
<1>22. Single' /\ SignedOnce'
  <2>1. Single'
    BY <1>17, <1>18, <1>21 DEF Single
  <2> QED BY <1>12, <1>17, <1>18, <2>1 DEF SignedOnce
<1>23. \A a \in Whole("apps") :
         \/ tables'.apps[a] = tables.apps[a]
         \/ a = b /\ tables.apps[a].status # "pending" /\ tables'.apps[a].status = "approved"
  BY <1>6, <1>12, <1>19 DEF Whole
<1>24. FoundedLate'
  <2> SUFFICES ASSUME NEW g \in Rows("guilds")', tables'.guilds[g].app \in Whole("apps")
               PROVE  tables'.apps[tables'.guilds[g].app].status # "pending"
    BY <1>17 DEF FoundedLate
  <2>1. CASE g \in 1..lg
    <3>1. tables'.guilds[g] = tables.guilds[g] /\ tables.apps[tables.guilds[g].app].status # "pending"
      BY <1>8, <1>13, <1>18, <2>1 DEF FoundedLate
    <3> QED BY <1>23, <3>1
  <2>2. CASE g = lg + 1
    BY <1>12, <1>13, <2>2
  <2> QED BY <1>16, <2>1, <2>2
<1>25. MenusHold'
  <2>1. screen'[u].at = "view"
    BY <1>1, <1>10
  <2>2. \A a \in Whole("apps") : a \in Rows("apps")
    BY DEF Whole
  <2> QED BY <1>10, <1>17, <1>18, <1>19, <1>21, <1>23, <2>1, <2>2, MenusKept
<1>26. \A a \in Rows("apps") : /\ ValidSignatures(a)' = ValidSignatures(a) /\ Signers(a)' = Signers(a)
                               /\ Unsigned(a)
  BY <1>12, <1>17 DEF Unsigned, ValidSignatures, Signers
<1>27. \A g \in 1..lg : MembersOf(g)' = MembersOf(g) /\ \A i \in MembersOf(g) : tables'.members[i] = tables.members[i]
  <2> SUFFICES ASSUME NEW g \in 1..lg
               PROVE  MembersOf(g)' = MembersOf(g) /\ \A i \in MembersOf(g) : tables'.members[i] = tables.members[i]
    OBVIOUS
  <2>1. \A i \in MembersOf(g) : i \in 1..lm /\ tables'.members[i] = tables.members[i] /\ tables.members[i].guild = g
    BY <1>8, <1>14 DEF MembersOf
  <2>2. \A i \in MembersOf(g) : i \in MembersOf(g)'
    BY <1>16, <2>1 DEF MembersOf
  <2>3. ASSUME NEW i \in MembersOf(g)' PROVE i \in MembersOf(g)
    <3>1. i \in Rows("members")' /\ tables'.members[i].guild = g
      BY DEF MembersOf
    <3>2. CASE i \in 1..lm
      BY <1>8, <1>14, <3>1, <3>2 DEF MembersOf
    <3>3. CASE \E k \in 1..(c + 1) : i = new(k)
      <4>1. PICK k \in 1..(c + 1) : i = new(k)
        BY <3>3
      <4>2. tables'.members[i].guild = lg + 1 /\ g # lg + 1
        BY <1>14, <1>16, <4>1
      <4> QED BY <3>1, <4>2
    <3> QED BY <1>15, <3>1, <3>2, <3>3
  <2>4. MembersOf(g)' = MembersOf(g)
    BY <2>2, <2>3, Zenon
  <2> QED BY <2>1, <2>4
<1>28. \A i : i \in MembersOf(lg + 1)' <=> \E k \in 1..(c + 1) : i = new(k)
  <2>1. ASSUME NEW i \in MembersOf(lg + 1)' PROVE \E k \in 1..(c + 1) : i = new(k)
    <3>1. i \in Rows("members")' /\ tables'.members[i].guild = lg + 1
      BY DEF MembersOf
    <3>2. ~(i \in 1..lm)
      BY <1>8, <1>14, <1>16, <1>18, <3>1 DEF Referred
    <3> QED BY <1>15, <3>1, <3>2
  <2>2. ASSUME NEW k \in 1..(c + 1) PROVE new(k) \in MembersOf(lg + 1)'
    BY <1>14, <1>16 DEF MembersOf
  <2> QED BY <2>1, <2>2
<1>29. ASSUME NEW a \in Whole("apps") PROVE BackedAt(a)'
  <2>1. BackedAt(a) /\ a \in Rows("apps")
    BY <1>18 DEF Backed, BackedAt, Whole
  <2>2. CASE a # b
    <3>1. tables'.apps[a] = tables.apps[a]
      BY <1>19, <2>1, <2>2
    <3>2. Unmanned(a)
      BY <1>8, <1>13, <1>16, <1>27, <2>2 DEF Unmanned
    <3> QED BY <1>26, <2>1, <3>1, <3>2, BackedKept
  <2>3. CASE a = b
    <3>1. tables.apps[b].status \in {"reviewing", "approved", "denied"}
      <4>1. "apps" \in Tables /\ Filled(tables)
        BY DEF Tables, GuildInv, GuildsTyped
      <4>2. tables.apps[b] \in RowOf["apps"]
        BY <1>1, <4>1, FilledFcn DEF Rows
      <4>3. tables.apps[b].status \in {"pending", "reviewing", "approved", "denied"}
        BY <4>2 DEF RowOf
      <4> QED BY <1>6, <2>3, <4>3
    <3>2. Cardinality(Signers(a)' \ {tables'.apps[b].by}) >= Required
      BY <1>12, <1>26, <2>1, <2>3, <3>1 DEF BackedAt
    <3>3. ASSUME NEW g \in Rows("guilds")', tables'.guilds[g].app = b
          PROVE  /\ \A i, j \in MembersOf(g)' : tables'.members[i].by = tables'.members[j].by => i = j
                 /\ {tables'.members[i].by : i \in MembersOf(g)'} = Signers(a)' \cup {tables'.apps[b].by}
      <4>1. CASE g \in 1..lg
        <5>1. /\ \A i, j \in MembersOf(g) : tables.members[i].by = tables.members[j].by => i = j
              /\ {tables.members[i].by : i \in MembersOf(g)} = Signers(b) \cup {tables.apps[b].by}
          BY <1>8, <1>13, <2>1, <2>3, <3>3, <4>1 DEF BackedAt
        <5>2. {tables'.members[i].by : i \in MembersOf(g)'} = {tables.members[i].by : i \in MembersOf(g)}
          BY <1>27, <4>1
        <5>3. \A i, j \in MembersOf(g)' : tables'.members[i].by = tables'.members[j].by => i = j
          BY <1>27, <4>1, <5>1
        <5> QED BY <1>12, <1>26, <2>1, <2>3, <5>1, <5>2, <5>3
      <4>2. CASE g = lg + 1
        <5>1. /\ \A j, k \in 1..(c + 1) : founders[j] = founders[k] => j = k
              /\ {founders[k] : k \in 1..(c + 1)} = Signers(b) \cup {tables.apps[b].by}
          BY <1>5, <2>3
        <5>2. \A k \in 1..(c + 1) : tables'.members[new(k)].by = founders[k]
          BY <1>14
        <5>3. ASSUME NEW i \in MembersOf(g)', NEW j \in MembersOf(g)', tables'.members[i].by = tables'.members[j].by
              PROVE  i = j
          <6>1. PICK x \in 1..(c + 1) : i = new(x)
            BY <1>28, <4>2
          <6>2. PICK y \in 1..(c + 1) : j = new(y)
            BY <1>28, <4>2
          <6> QED BY <5>1, <5>2, <5>3, <6>1, <6>2
        <5>4. \A p : p \in {tables'.members[i].by : i \in MembersOf(g)'} <=> p \in {founders[k] : k \in 1..(c + 1)}
          BY <1>28, <4>2, <5>2
        <5>5. {tables'.members[i].by : i \in MembersOf(g)'} = {founders[k] : k \in 1..(c + 1)}
          BY <5>4, Zenon
        <5>6. Signers(a)' = Signers(b) /\ tables'.apps[b].by = tables.apps[b].by
          BY <1>12, <1>26, <2>1, <2>3
        <5> QED BY <5>1, <5>3, <5>5, <5>6
      <4> QED BY <1>16, <4>1, <4>2
    <3> QED BY <2>3, <3>2, <3>3 DEF BackedAt
  <2> QED BY <2>2, <2>3
<1>30. Backed'
  BY <1>17, <1>29 DEF Backed, BackedAt
<1> QED BY <1>10, <1>20, <1>22, <1>24, <1>25, <1>30 DEF GuildInv

LEMMA GuildsKept == ASSUME GuildInv, [GuildsNext]_guildVars PROVE GuildInv'
<1>1. CASE Reboot
  BY <1>1, Rebooted
<1>2. ASSUME NEW u \in Folk,
             \/ LeaveMenu(u) \/ OpenApprove(u) \/ OpenDeny(u) \/ OpenSignatures(u) \/ OpenCreate(u)
             \/ OpenJoin(u) \/ (\E a \in Rows("apps") : ViewApplication(u, a))
             \/ \E g \in Rows("guilds") : ViewGuild(u, g)
      PROVE  GuildInv'
  BY <1>2, MenuSteps
<1>3. ASSUME NEW u \in Folk,
             \/ Submit(u) \/ Sign(u) \/ RemoveSignature(u) \/ DenyApplication(u)
             \/ ApproveApplication(u) \/ SubmitJoin(u) \/ \E s \in Rows("sigs") : ApproveSignature(u, s)
      PROVE  GuildInv'
  <2>1. CASE Submit(u)
    BY <2>1, SubmitStep
  <2>2. CASE Sign(u)
    BY <2>2, SignStep
  <2>3. CASE RemoveSignature(u)
    BY <2>3, RemoveSignatureStep
  <2>4. CASE DenyApplication(u)
    BY <2>4, DenyStep
  <2>5. CASE ApproveApplication(u)
    BY <2>5, ApproveStep
  <2>6. CASE SubmitJoin(u)
    BY <2>6, SubmitJoinStep
  <2>7. CASE \E s \in Rows("sigs") : ApproveSignature(u, s)
    BY <2>7, ApproveSignatureStep
  <2> QED BY <1>3, <2>1, <2>2, <2>3, <2>4, <2>5, <2>6, <2>7
<1>4. ASSUME NEW u \in Folk, RemoveJoin(u) \/ RemoveAllJoins(u) PROVE GuildInv'
  <2>1. OwnReviewing(u) \in SUBSET Rows("joins")
    BY DEF OwnReviewing
  <2>2. CASE RemoveJoin(u)
    <3>1. PICK j \in OwnReviewing(u) : RemoveJoins(u, {j})
      BY <2>2 DEF RemoveJoin
    <3>2. {j} \in SUBSET Rows("joins")
      BY <2>1
    <3> QED BY <3>1, <3>2, RemoveJoinsStep
  <2>3. CASE RemoveAllJoins(u)
    <3>1. FoundJoins(u, screen[u].id) \in SUBSET Rows("joins")
      BY <2>1 DEF FoundJoins
    <3> QED BY <2>3, <3>1, RemoveJoinsStep DEF RemoveAllJoins
  <2> QED BY <1>4, <2>2, <2>3
<1>5. CASE UNCHANGED guildVars
  <2>1. tables' = tables /\ stored' = stored /\ screen' = screen /\ torn' = torn
    BY <1>5 DEF guildVars
  <2>2. Grown(tables, tables', torn')
    BY <2>1, AlikeSelf, AlikeGrown
  <2>3. GuildsTyped' /\ Alike(tables', stored', torn')
    BY <2>1 DEF GuildInv, GuildsTyped
  <2> QED BY <2>1, <2>2, <2>3, Aftermath
<1> QED BY <1>1, <1>2, <1>3, <1>4, <1>5 DEF GuildsNext

\* The tables hold rows, with ids that leave no gaps, in memory and in the
\* database, and, but for what a mishap hit, the same ones; nothing is about
\* a row that is not there, and what a menu was opened for still holds.
THEOREM GuildInvHolds == GuildsSpec => []GuildInv
<1>1. GuildsInit => GuildInv
  BY GuildsStart
<1>2. GuildInv /\ [GuildsNext]_guildVars => GuildInv'
  BY GuildsKept
<1> QED BY <1>1, <1>2, PTL DEF GuildsSpec

\* What lies before the gods, and every guild they let found, is backed by
\* enough signatures of players other than the one who wants it, and the
\* guild has them and nobody else for members, and each of them once.
THEOREM GuildsBacked == GuildsSpec => []Backed
<1>1. GuildInv => Backed
  BY DEF GuildInv
<1> QED BY <1>1, GuildInvHolds, PTL

LEMMA AtMostOne ==
  ASSUME NEW S, \A x, y \in S : x = y
  PROVE  Cardinality(S) <= 1
<1>1. CASE S = {}
  BY <1>1, FS_EmptySet
<1>2. CASE S # {}
  <2>1. PICK x \in S : TRUE
    BY <1>2
  <2>2. S = {x}
    BY <2>1
  <2>3. Cardinality({x}) = 1
    BY FS_Singleton
  <2> QED BY <2>2, <2>3
<1> QED BY <1>1, <1>2

\* Nobody has two guilds under way or asks twice to join one: the menus that
\* were opened before the others did not go out of date.
THEOREM OneGuildAtATime == GuildsSpec => []OneAtATime
<1>1. GuildInv => OneAtATime
  <2> SUFFICES ASSUME GuildInv, NEW u \in Folk
               PROVE  /\ Cardinality(OwnOpen(u) \cap Whole("apps")) <= 1
                      /\ Cardinality(OwnReviewing(u) \cap Whole("joins")) <= 1
    BY DEF OneAtATime
  <2>1. /\ \A a, b \in OwnOpen(u) \cap Whole("apps") : a = b
        /\ \A i, j \in OwnReviewing(u) \cap Whole("joins") : i = j
    BY DEF GuildInv, Single
  <2> QED BY <2>1, AtMostOne
<1> QED BY <1>1, GuildInvHolds, PTL

-------------------------------------------------------------------------------
\* a is decided, and stays decided.
Decided(a) == ApplicationClosed(stored.apps[a].status)
StayClosed(a) == ApplicationClosed(stored'.apps[a].status) /\ ApplicationClosed(tables'.apps[a].status)

LEMMA ClosedPut ==
  ASSUME NEW p, NEW ws, NEW n \in Nat, NEW m \in 0..n, NEW a \in DOMAIN p.apps,
         ApplicationClosed(p.apps[a].status),
         \A k \in 1..n : ws[k].table = "apps" /\ ws[k].id = a => ApplicationClosed(ws[k].row.status)
  PROVE  ApplicationClosed(PutFirst(p, ws, m).apps[a].status)
<1> DEFINE q == PutFirst(p, ws, m)
<1>1. "apps" \in Tables
  BY DEF Tables
<1>2. /\ \A i : i \in DOMAIN q["apps"] <=>
                i \in DOMAIN p["apps"] \/ \E k \in 1..m : ws[k].table = "apps" /\ ws[k].id = i
      /\ \A i \in DOMAIN q["apps"] :
           \/ /\ i \in DOMAIN p["apps"] /\ q["apps"][i] = p["apps"][i]
              /\ \A k \in 1..m : ws[k].table = "apps" => ws[k].id # i
           \/ \E k \in 1..m : ws[k].table = "apps" /\ ws[k].id = i /\ q["apps"][i] = ws[k].row
  BY <1>1, PutWhat
<1> HIDE DEF q
<1>3. \/ q.apps[a] = p.apps[a]
      \/ \E k \in 1..m : ws[k].table = "apps" /\ ws[k].id = a /\ q.apps[a] = ws[k].row
  BY <1>2
<1>4. ASSUME NEW k \in 1..m, ws[k].table = "apps", ws[k].id = a, q.apps[a] = ws[k].row
      PROVE  ApplicationClosed(q.apps[a].status)
  <2>1. k \in 1..n
    OBVIOUS
  <2> QED BY <1>4, <2>1
<1>5. ApplicationClosed(q.apps[a].status)
  BY <1>3, <1>4
<1> QED BY <1>5 DEF q

\* A handler that stores nothing about a, or decides about it.
LEMMA ClosedStored ==
  ASSUME GuildInv, NEW u, NEW ws, NEW what, NEW next, Store(u, ws, what, next),
         NEW n \in Nat, DOMAIN ws = 1..n, Len(ws) = n,
         NEW a \in DOMAIN stored.apps, Decided(a), <<"apps", a>> \notin torn',
         a \in Whole("apps") /\ ApplicationClosed(tables.apps[a].status) =>
           \A k \in 1..n : ws[k].table = "apps" /\ ws[k].id = a => ApplicationClosed(ws[k].row.status)
  PROVE  StayClosed(a)
<1>1. Succeeds(u, ws, n, next) \/ \E k \in 1..n : Fails(u, ws, what, k)
  BY StoreKinds
<1>2. a \in DOMAIN tables.apps /\ ApplicationClosed(tables.apps[a].status) /\ a \in Whole("apps")
  <2>1. <<"apps", a>> \notin torn
    BY <1>1 DEF Succeeds, Fails
  <2> QED BY <2>1 DEF GuildInv, Alike, SameRows, Decided, Whole, Rows
<1>3. \A m \in 0..n : /\ ApplicationClosed(PutFirst(tables, ws, m).apps[a].status)
                      /\ ApplicationClosed(PutFirst(stored, ws, m).apps[a].status)
  BY <1>2, ClosedPut DEF Decided
<1>4. CASE Succeeds(u, ws, n, next)
  <2>1. n \in 0..n
    OBVIOUS
  <2> QED BY <1>3, <1>4, <2>1 DEF Succeeds, StayClosed
<1>5. ASSUME NEW k \in 1..n, Fails(u, ws, what, k) PROVE StayClosed(a)
  <2>1. k \in 0..n /\ k - 1 \in 0..n
    OBVIOUS
  <2>2. stored' = PutFirst(stored, ws, k - 1)
    BY <1>5 DEF Fails
  <2>3. tables' = stored' \/ tables' = PutFirst(tables, ws, k - 1) \/ tables' = PutFirst(tables, ws, k)
    BY <1>5 DEF Fails
  <2> QED BY <1>3, <2>1, <2>2, <2>3 DEF StayClosed
<1> QED BY <1>1, <1>4, <1>5

LEMMA OneRowStored ==
  ASSUME GuildInv, NEW u, NEW w, NEW what, NEW next, Store(u, <<w>>, what, next),
         NEW a \in DOMAIN stored.apps, Decided(a), <<"apps", a>> \notin torn',
         w.table = "apps" /\ w.id = a => ApplicationClosed(w.row.status)
  PROVE  StayClosed(a)
<1> DEFINE ws == <<w>>
<1>1. ws[1] = w /\ DOMAIN ws = 1..1 /\ Len(ws) = 1
  OBVIOUS
<1>2. Store(u, ws, what, next)
  OBVIOUS
<1> HIDE DEF ws
<1>3. \A k \in 1..1 : ws[k].table = "apps" /\ ws[k].id = a => ApplicationClosed(ws[k].row.status)
  BY <1>1
<1> QED BY <1>1, <1>2, <1>3, ClosedStored

LEMMA RemovedStored ==
  ASSUME GuildInv, NEW u, NEW t \in {"sigs", "joins"}, NEW ids \in SUBSET Rows(t), NEW order \in Orders(ids),
         NEW what, NEW next, Store(u, Removed(t, order), what, next),
         NEW a \in DOMAIN stored.apps, Decided(a), <<"apps", a>> \notin torn'
  PROVE  StayClosed(a)
<1> DEFINE n == Cardinality(ids)
           ws == Removed(t, order)
<1>1. n \in Nat /\ DOMAIN ws = 1..n /\ Len(ws) = n /\ \A k \in 1..n : ws[k].table = t
  BY RemovedRows
<1>2. Store(u, ws, what, next)
  OBVIOUS
<1> HIDE DEF ws, n
<1> QED BY <1>1, <1>2, ClosedStored

LEMMA SignatureClosed ==
  ASSUME GuildInv, NEW u \in Folk, NEW s \in Rows("sigs"), ApproveSignature(u, s),
         NEW a \in DOMAIN stored.apps, Decided(a), <<"apps", a>> \notin torn'
  PROVE  StayClosed(a)
<1> DEFINE b == App(u)
           enough == Cardinality(ValidSignatures(b)) + 1 >= Required
           w == Changed("sigs", s, "approved")
           x == Changed("apps", b, "reviewing")
           ws == <<w>> \o (IF enough THEN <<x>> ELSE <<>>)
           n == IF enough THEN 2 ELSE 1
           next == Back(u)
<1>1. Store(u, ws, {<<"apps", b>>}, next)
  BY DEF ApproveSignature
<1>2. w.table = "sigs" /\ x.id = b
  BY DEF Changed
<1>3. b \in Whole("apps") => tables.apps[b].status = "pending"
  BY DEF ApproveSignature, At, GuildInv, MenusHold, MayAdmit
<1> HIDE DEF w, x, enough
<1>4. /\ n \in Nat /\ ws[1] = w /\ (n = 2 => ws[2] = x) /\ DOMAIN ws = 1..n /\ Len(ws) = n
      /\ \A k \in 1..n : k = 1 \/ (k = 2 /\ n = 2)
  <2>1. CASE enough
    BY <2>1
  <2>2. CASE ~enough
    BY <2>2
  <2> QED BY <2>1, <2>2
<1> HIDE DEF ws, b, next, n
<1>5. ASSUME a \in Whole("apps"), ApplicationClosed(tables.apps[a].status), NEW k \in 1..n,
             ws[k].table = "apps", ws[k].id = a
      PROVE  FALSE
  <2>1. a = b
    BY <1>2, <1>4, <1>5
  <2> QED BY <1>3, <1>5, <2>1 DEF ApplicationClosed
<1> QED BY <1>1, <1>4, <1>5, ClosedStored

LEMMA FoundingClosed ==
  ASSUME GuildInv, NEW u \in Folk, ApproveApplication(u),
         NEW a \in DOMAIN stored.apps, Decided(a), <<"apps", a>> \notin torn'
  PROVE  StayClosed(a)
<1> DEFINE b == App(u)
           c == Cardinality(ValidSignatures(b))
           next == Back(u)
<1>1. b \in Rows("apps")
  BY DEF ApproveApplication, At, App, GuildInv, Referred
<1>2. PICK order \in Orders(ValidSignatures(b)) :
        Store(u, FoundingRows(b, FoundersOf(b, order)), {<<"apps", b>>}, next)
  BY DEF ApproveApplication, FoundersOf
<1> DEFINE founders == FoundersOf(b, order)
           ws == FoundingRows(b, founders)
<1>3. c \in Nat /\ \E lg, lm \in Nat : Founds(ws, b, founders, c, lg, lm)
  BY <1>1, FoundingWrites
<1>4. Store(u, ws, {<<"apps", b>>}, next)
  BY <1>2
<1> HIDE DEF b, c, next, founders, ws
<1>5. PICK lg \in Nat, lm \in Nat : Founds(ws, b, founders, c, lg, lm)
  BY <1>3
<1>6. /\ DOMAIN ws = 1..(c + 3) /\ Len(ws) = c + 3 /\ c + 3 \in Nat
      /\ ws[1].row.status = "approved" /\ ws[2].table = "guilds"
  BY <1>3, <1>5 DEF Founds
<1>7. ASSUME NEW k \in 1..(c + 3), ws[k].table = "apps" PROVE ApplicationClosed(ws[k].row.status)
  <2>1. CASE k = 1
    BY <1>6, <2>1 DEF ApplicationClosed
  <2>2. CASE k = 2
    BY <1>6, <1>7, <2>2
  <2>3. CASE k # 1 /\ k # 2
    <3> DEFINE j == k - 2
    <3>1. j \in 1..(c + 1) /\ j + 2 = k
      BY <1>3, <2>3
    <3> HIDE DEF j
    <3>2. ws[j + 2] = [table |-> "members", id |-> lm + j, row |-> [by |-> founders[j], guild |-> lg + 1]]
      BY <1>5, <3>1 DEF Founds
    <3> QED BY <1>7, <3>1, <3>2
  <2> QED BY <2>1, <2>2, <2>3
<1> QED BY <1>4, <1>6, <1>7, ClosedStored

LEMMA ClosedKept ==
  ASSUME GuildInv, [GuildsNext]_guildVars, NEW a \in DOMAIN stored.apps, Decided(a), <<"apps", a>> \notin torn'
  PROVE  StayClosed(a)
<1>1. ASSUME stored' = stored, torn' = torn, tables' = tables \/ tables' = stored PROVE StayClosed(a)
  BY <1>1 DEF GuildInv, Alike, SameRows, Decided, StayClosed
<1>2. CASE Reboot
  BY <1>1, <1>2 DEF Reboot
<1>3. ASSUME NEW u \in Folk,
             \/ LeaveMenu(u) \/ OpenApprove(u) \/ OpenDeny(u) \/ OpenSignatures(u) \/ OpenCreate(u)
             \/ OpenJoin(u) \/ (\E b \in Rows("apps") : ViewApplication(u, b))
             \/ \E g \in Rows("guilds") : ViewGuild(u, g)
      PROVE  StayClosed(a)
  BY <1>1, <1>3 DEF LeaveMenu, OpenApprove, OpenDeny, OpenSignatures, OpenCreate, OpenJoin,
                    ViewApplication, ViewGuild, Show
<1>4. ASSUME NEW u \in Folk, Submit(u) PROVE StayClosed(a)
  <2> DEFINE w == New("apps", 1, [by |-> u, status |-> "pending"])
  <2>1. \E what : Store(u, <<w>>, what, NoMenu)
    BY <1>4 DEF Submit
  <2>2. w.id \notin DOMAIN stored.apps
    <3>1. Filled(tables) /\ "apps" \in Tables /\ DOMAIN tables.apps = DOMAIN stored.apps
      BY DEF GuildInv, GuildsTyped, Tables, Alike, SameRows
    <3>2. PICK l \in Nat : tables.apps \in [1..l -> RowOf["apps"]]
      BY <3>1 DEF Filled
    <3>3. Len(tables.apps) = l /\ DOMAIN tables.apps = 1..l
      BY <3>2
    <3>4. w.id = l + 1
      BY <3>3 DEF New
    <3> HIDE DEF w
    <3> QED BY <3>1, <3>3, <3>4
  <2> HIDE DEF w
  <2> QED BY <2>1, <2>2, OneRowStored
<1>5. ASSUME NEW u \in Folk, Sign(u) PROVE StayClosed(a)
  <2> DEFINE w == New("sigs", 1, [by |-> u, app |-> App(u), status |-> "pending"])
  <2>1. \E what : Store(u, <<w>>, what, screen[u])
    BY <1>5 DEF Sign
  <2>2. w.table # "apps"
    BY DEF New
  <2> HIDE DEF w
  <2> QED BY <2>1, <2>2, OneRowStored
<1>6. ASSUME NEW u \in Folk, SubmitJoin(u) PROVE StayClosed(a)
  <2> DEFINE w == New("joins", 1, [by |-> u, guild |-> screen[u].id, status |-> "reviewing"])
  <2>1. \E what, next : Store(u, <<w>>, what, next)
    BY <1>6 DEF SubmitJoin
  <2>2. w.table # "apps"
    BY DEF New
  <2> HIDE DEF w
  <2> QED BY <2>1, <2>2, OneRowStored
<1>7. ASSUME NEW u \in Folk, DenyApplication(u) PROVE StayClosed(a)
  <2> DEFINE w == Changed("apps", App(u), "denied")
  <2>1. \E what, next : Store(u, <<w>>, what, next)
    BY <1>7 DEF DenyApplication
  <2>2. w.id = App(u) /\ App(u) \in Rows("apps")
    BY <1>7 DEF DenyApplication, At, GuildInv, Referred, Changed
  <2>3. ApplicationClosed(w.row.status)
    BY <2>2, StatusChanged DEF ApplicationClosed
  <2> HIDE DEF w
  <2> QED BY <2>1, <2>3, OneRowStored
<1>8. ASSUME NEW u \in Folk, RemoveSignature(u) PROVE StayClosed(a)
  <2>1. PICK order \in Orders(Withdrawn(u, App(u))) :
          Store(u, Removed("sigs", order), {<<"apps", App(u)>>}, screen[u])
    BY <1>8 DEF RemoveSignature, Withdraw
  <2>2. Withdrawn(u, App(u)) \in SUBSET Rows("sigs")
    BY DEF Withdrawn
  <2> QED BY <2>1, <2>2, RemovedStored
<1>9. ASSUME NEW u \in Folk, NEW js \in SUBSET Rows("joins"), RemoveJoins(u, js) PROVE StayClosed(a)
  <2>1. PICK order \in Orders(js) : \E what : Store(u, Removed("joins", order), what, screen[u])
    BY <1>9 DEF RemoveJoins
  <2> QED BY <2>1, RemovedStored
<1>10. ASSUME NEW u \in Folk, RemoveJoin(u) \/ RemoveAllJoins(u) PROVE StayClosed(a)
  <2>1. /\ OwnReviewing(u) \in SUBSET Rows("joins")
        /\ \A j \in OwnReviewing(u) : {j} \in SUBSET Rows("joins")
        /\ FoundJoins(u, screen[u].id) \in SUBSET Rows("joins")
    BY DEF OwnReviewing, FoundJoins
  <2> QED BY <1>9, <1>10, <2>1 DEF RemoveJoin, RemoveAllJoins
<1>11. CASE UNCHANGED guildVars
  BY <1>1, <1>11 DEF guildVars
<1> QED BY <1>2, <1>3, <1>4, <1>5, <1>6, <1>7, <1>8, <1>10, <1>11, SignatureClosed, FoundingClosed DEF GuildsNext

\* An application that was decided is never open again, in memory or in the
\* database: not by the owner, who may have had the menu open that sends it to
\* the gods, nor by a failed query or a restart that is not about it.
THEOREM DecisionsStand == GuildsSpec => StaysClosed
<1>1. GuildInv /\ [GuildsNext]_guildVars =>
        [\A a \in DOMAIN stored.apps :
           /\ ApplicationClosed(stored.apps[a].status) /\ <<"apps", a>> \notin torn'
           => /\ ApplicationClosed(stored'.apps[a].status)
              /\ ApplicationClosed(tables'.apps[a].status)]_guildVars
  BY ClosedKept DEF Decided, StayClosed
<1> QED BY <1>1, GuildInvHolds, PTL DEF GuildsSpec, StaysClosed
===============================================================================

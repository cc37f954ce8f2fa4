----------------------------- MODULE ItemSaving -----------------------------
(***************************************************************************)
(* Objects, who holds them, and the table `objects` in which they survive  *)
(* the game: get, drop, give, put, quit, rent, death, the autosave, and a  *)
(* game that stops, or crashes between two commands or between two         *)
(* statements of a save (the tables know no transactions).                 *)
(***************************************************************************)
EXTENDS Integers, FiniteSets, SequencesExt, Lists

CONSTANTS
  Players, Rooms,
  Callers,      \* players of whom a copy may wait at the password
  Vaults,       \* the rooms whose contents are saved, ROOM_VAULT
  Chest,        \* a chest, reset with its zone, in a room of its own
  Things,       \* objects that hold nothing
  Bags,         \* containers
  Corpses,      \* corpses to be
  Nobody,       \* the empty holder
  Gone,         \* no holder
  MaxStops      \* how often the game stops or crashes

Containers == Bags \cup Corpses
Items   == Things \cup Containers
Holders == Players \cup Rooms \cup {Chest} \cup Items

\* A row has a letter for each kind of holder.
ASSUME ItemAssumption ==
  /\ Callers \subseteq Players /\ Vaults \subseteq Rooms /\ Rooms # Vaults
  /\ IsFiniteSet(Holders) /\ MaxStops \in Nat
  /\ Gone # Nobody /\ {Gone, Nobody} \cap Holders = {}
  /\ Players \cap (Rooms \cup {Chest} \cup Items) = {} /\ Rooms \cap ({Chest} \cup Items) = {}
  /\ Chest \notin Items

VARIABLES
  where,        \* who holds an object in the game, Gone if it is not there
  saved,        \* its row in the table
  link,         \* the players: "out" of the game, "in", or "linkless" in it
  prompts,      \* the players of whom a copy waits at the password
  corpseRooms,  \* Room::corpseRooms
  stops         \* stops and crashes so far

itemVars == <<where, saved, link, prompts, corpseRooms, stops>>

NoRow == [holder |-> Gone, top |-> Gone]

-------------------------------------------------------------------------------
(* Holding.                                                                *)

Held(at, h) == {o \in Items : at[o] = h}

\* The objects of S and all they contain, by the holders `at`.
Under(at, S) ==
  LET deepest == Cardinality(Containers)
      grow[n \in 0..deepest] ==
        IF n = 0 THEN S ELSE LET T == grow[n - 1] IN T \cup {o \in Items : at[o] \in T}
  IN grow[deepest]

Carried(at, h) == Under(at, Held(at, h))

\* What is left when S and all it contains are extracted.
Extracted(at, S) == [o \in Items |-> IF o \in Under(at, S) THEN Gone ELSE at[o]]

-------------------------------------------------------------------------------
(* Saving. A save is a sequence of statements; what it saves is given as a *)
(* function from top-level holders to the objects they hold directly.      *)

\* All that was saved under these holders goes first.
Cleared(t, holders) == [o \in Items |-> IF t[o].top \in holders THEN NoRow ELSE t[o]]

\* What the table has inside the objects to be saved is put in limbo.
MLimbo(t, new) == t
Limbo(t, new) ==
  [o \in Items |-> IF t[o].holder \in new THEN [t[o] EXCEPT !.holder = Nobody] ELSE t[o]]

\* Object::saveItems: the row of an object saved under h.
Row(at, what, h, o) == [holder |-> IF o \in what[h] THEN h ELSE at[o], top |-> h]

\* saveHolderItems, saveMultipleHolderItems: the table after each statement.
Statements(t, at, what, delete) ==
  LET new     == Under(at, UNION {what[h] : h \in DOMAIN what})
      cleared == IF delete THEN Cleared(t, DOMAIN what) ELSE t
      limbo   == Limbo(cleared, new)
      removed == [o \in Items |-> IF o \in new THEN NoRow ELSE limbo[o]]
      top(o)  == CHOOSE h \in DOMAIN what : o \in Under(at, what[h])
  IN <<cleared, limbo, removed,
       [o \in Items |-> IF o \in new THEN Row(at, what, top(o), o) ELSE removed[o]]>>

\* A save: in which state of the game, of whom, with the deletion or without.
SaveOf(at, what) == [at |-> at, what |-> what, delete |-> TRUE]
ItemSave(at, h) == SaveOf(at, [x \in {h} |-> Held(at, h)])
CorpseSave(at, r) == SaveOf(at, [x \in {r} |-> Held(at, r) \cap Corpses])

\* saveItemToTopLevelHolder('\0', "", o), as o is taken from a vault.
Unsave(o) == [at     |-> [where EXCEPT ![o] = Gone],
              what   |-> [x \in {Nobody} |-> {o}],
              delete |-> FALSE]

\* The tables that a sequence of saves goes through, beginning with the present.
Tables(saves) ==
  LET after[n \in 0..Len(saves)] ==
        IF n = 0 THEN <<saved>>
        ELSE LET ts == after[n - 1]
                 s  == saves[n]
             IN ts \o Statements(Last(ts), s.at, s.what, s.delete)
  IN after[Len(saves)]

-------------------------------------------------------------------------------
(* Loading.                                                                *)

\* Character::loadItems: what a player's rows bring into the game.
LoadedBy(t, p) == Carried([o \in Items |-> t[o].holder], p)

\* Room::bootWorld and preloadChestItems read the rows by the kind of their
\* top-level holder and put each object into its holder, if that was read too.
Booted(t) ==
  LET kind(o) == IF t[o].top \in Rooms THEN Rooms ELSE {t[o].top} \cap {Chest}
      at == [o \in Items |->
               LET h == t[o].holder IN
                 IF h \in kind(o) \/ (h \in Items /\ kind(o) # {} /\ kind(h) = kind(o))
                 THEN h ELSE Gone]
      placed == UNION {Carried(at, h) : h \in Rooms \cup {Chest}}
  IN [o \in Items |-> IF o \in placed THEN at[o] ELSE Gone]

\* MoveToRoom remembers the rooms with corpses that no itemSave covers.
MRoomsWithCorpses(at) == {r \in Rooms : Held(at, r) \cap Corpses # {}}
RoomsWithCorpses(at) == {r \in Rooms \ Vaults : Held(at, r) \cap Corpses # {}}

\* A new process reads the table t.
Boot(t) ==
  /\ stops < MaxStops /\ stops' = stops + 1
  /\ saved' = t
  /\ where' = Booted(t)
  /\ link' = [p \in Players |-> "out"] /\ prompts' = {}
  /\ corpseRooms' = RoomsWithCorpses(Booted(t))

\* The objects end up as `at`, the players as `links`, and these saves are made;
\* or the game dies between two of their statements. Who leaves sends the other
\* descriptors of the same player away.
Command(at, links, saves) ==
  \E ts \in {Tables(saves)} :
    \/ /\ where' = at /\ link' = links /\ saved' = Last(ts)
       /\ corpseRooms' = corpseRooms \cup (RoomsWithCorpses(at) \ RoomsWithCorpses(where))
       /\ prompts' = prompts \ {p \in Players : link[p] # "out" /\ links[p] = "out"}
       /\ UNCHANGED stops
    \/ \E i \in 2..(Len(ts) - 1) : Boot(ts[i])

Moved(o, h) == [where EXCEPT ![o] = h]

\* Only a vault and a chest are saved as soon as they change.
AtOnce(h, saves) == IF h \in Vaults \cup {Chest} THEN saves ELSE <<>>

-------------------------------------------------------------------------------
(* Commands.                                                               *)

\* get_from_room: what is taken from a vault is unsaved, then the vault saved.
GetFromRoom(p, o) ==
  /\ where[o] \in Rooms
  /\ Command(Moved(o, p), link,
             AtOnce(where[o], <<Unsave(o), ItemSave(Moved(o, p), where[o])>>))

DropItem(p, o, r) ==
  /\ where[o] = p
  /\ Command(Moved(o, r), link, AtOnce(r, <<ItemSave(Moved(o, r), r)>>))

Give(p, o, q) ==
  /\ where[o] = p /\ q # p /\ link[q] # "out"
  /\ Command(Moved(o, q), link, <<>>)

\* A container that p can reach: carried, on the floor, or the chest.
InReach(p, c) == c = Chest \/ (c \in Items /\ where[c] \in Rooms \cup {p})

Put(p, o, c) ==
  /\ where[o] = p /\ c # o /\ InReach(p, c)
  /\ Command(Moved(o, c), link, AtOnce(c, <<ItemSave(Moved(o, c), c)>>))

GetFromContainer(p, o) ==
  LET c == where[o] IN
    /\ InReach(p, c)
    /\ Command(Moved(o, p), link, AtOnce(c, <<ItemSave(Moved(o, p), c)>>))

\* Coins taken from a corpse: what is in it is saved, under the corpse. Whether
\* there are coins on it is left open.
GetCoins(p, c) ==
  /\ InReach(p, c)
  /\ Command(where, link, <<ItemSave(where, c)>>)

SaveCommand(p) == Command(where, link, <<ItemSave(where, p)>>)

ItemCommand(p) ==
  /\ link[p] = "in"
  /\ \/ SaveCommand(p)
     \/ \E o \in Items : GetFromRoom(p, o) \/ GetFromContainer(p, o)
     \/ \E c \in Corpses : GetCoins(p, c)
     \/ \E o \in Items, r \in Rooms : DropItem(p, o, r)
     \/ \E o \in Items, q \in Players : Give(p, o, q)
     \/ \E o \in Items, c \in Bags \cup {Chest} : Put(p, o, c)

-------------------------------------------------------------------------------
(* Coming, going and dying.                                                *)

\* A name is entered, and a copy of the player waits for the password.
AskPassword(p) ==
  /\ p \in Callers \ prompts /\ prompts' = prompts \cup {p}
  /\ UNCHANGED <<where, saved, link, corpseRooms, stops>>

Enter(p) ==
  /\ link[p] = "out" /\ link' = [link EXCEPT ![p] = "in"]
  /\ where' = [o \in Items |-> IF o \in LoadedBy(saved, p) THEN saved[o].holder ELSE where[o]]
  /\ prompts' = prompts \ {p}
  /\ UNCHANGED <<saved, corpseRooms, stops>>

LoseLink(p) ==
  /\ link[p] = "in" /\ link' = [link EXCEPT ![p] = "linkless"]
  /\ UNCHANGED <<where, saved, prompts, corpseRooms, stops>>

Relink(p) ==
  /\ link[p] = "linkless" /\ link' = [link EXCEPT ![p] = "in"]
  /\ UNCHANGED <<where, saved, prompts, corpseRooms, stops>>

Left(p) == [link EXCEPT ![p] = "out"]

\* The innkeeper, or check_idling: rentSave saves, then extracts everything.
Rent(p) ==
  /\ link[p] # "out"
  /\ Command(Extracted(where, Held(where, p)), Left(p), <<ItemSave(where, p)>>)

\* Character::Extract drops what is still carried, piece after piece: the
\* objects as they then are, and the saves of a vault.
Dropped(at, p, r) == [o \in Items |-> IF at[o] = p THEN r ELSE at[o]]
DropSaves(at, p, r) ==
  LET mine == SetToSeq(Held(at, p))
      after(n) == [o \in Items |-> IF o \in {mine[i] : i \in 1..n} THEN r ELSE at[o]]
  IN AtOnce(r, [n \in 1..Len(mine) |-> ItemSave(after(n), r)])

\* do_quit of a mortal: Extract, then a save of nothing.
QuitWithout(p, r) ==
  LET at == Dropped(where, p, r) IN
    /\ link[p] = "in"
    /\ Command(at, Left(p), Append(DropSaves(where, p, r), ItemSave(at, p)))

\* MakeCorpse and the itemSave of Die: everything goes into a new object.
Die(p, c, r) ==
  LET at == [o \in Items |-> IF o = c THEN r ELSE IF where[o] = p THEN c ELSE where[o]] IN
    /\ link[p] # "out" /\ where[c] = Gone /\ saved[c] = NoRow
    /\ Command(at, link, <<IF r \in Vaults THEN ItemSave(at, r) ELSE CorpseSave(at, r),
                           ItemSave(at, p)>>)

\* point_update: a corpse rots with what is in it; one in a vault is unsaved.
Rot(c) ==
  /\ where[c] # Gone
  /\ Command(Extracted(where, {c}), link, IF where[c] \in Vaults THEN <<Unsave(c)>> ELSE <<>>)

-------------------------------------------------------------------------------
(* The game.                                                               *)

\* autoSave: everybody in the game, linked or not, and the rooms with corpses.
SavePlayersAndCorpses(ps) ==
  SaveOf(where, [h \in ps \cup corpseRooms |->
                   IF h \in ps THEN Held(where, h) ELSE Held(where, h) \cap Corpses])
MAutoSavePurged == SavePlayersAndCorpses(Players)
MAutoSaveLinked == SavePlayersAndCorpses({p \in Players : link[p] = "in"})
AutoSaved == SavePlayersAndCorpses({p \in Players : link[p] # "out"})

AutoSave ==
  \E ts \in {Tables(<<AutoSaved>>)} :
    \/ /\ saved' = Last(ts)
       /\ corpseRooms' = corpseRooms \cap RoomsWithCorpses(where)
       /\ UNCHANGED <<where, link, prompts, stops>>
    \/ \E i \in 2..(Len(ts) - 1) : Boot(ts[i])

Crash == Boot(saved)

\* The end of a game that shuts down: the characters with a descriptor are saved
\* one after the other and what they carry is extracted; the linkless drop theirs.
\* A copy at the password is such a character, and holds nothing: it matters only
\* whether its descriptor comes before that of the body.
ShutDown ==
  \E r \in Rooms, early \in SUBSET prompts :
    LET bodies == SetToSeq({p \in Players : link[p] = "in"})
        rented(n) == Extracted(where, UNION {Held(where, bodies[i]) : i \in 1..n})
        rentSaves == [n \in 1..Len(bodies) |-> ItemSave(rented(n - 1), bodies[n])]
        copies(S) == LET ps == SetToSeq(S) IN
                       [n \in 1..Len(ps) |-> SaveOf(where, [x \in {ps[n]} |-> {}])]
        lost == SetToSeq({p \in Players : link[p] = "linkless"})
        left(n) == LET at == rented(Len(bodies)) IN
                     [o \in Items |-> IF at[o] \in {lost[i] : i \in 1..n} THEN r ELSE at[o]]
        dropSaves == [n \in 1..Len(lost) |-> DropSaves(left(n - 1), lost[n], r)]
    IN Boot(Last(Tables(copies(early) \o rentSaves \o copies(prompts \ early)
                        \o Joined(dropSaves))))

ItemsInit ==
  /\ \E r \in Rooms \ Vaults, found \in SUBSET (Things \cup Bags) :
       where = [o \in Items |-> IF o \in found THEN r ELSE Gone]
  /\ saved = [o \in Items |-> NoRow]
  /\ link = [p \in Players |-> "out"]
  /\ prompts = {} /\ corpseRooms = {} /\ stops = 0

ItemsNext ==
  \/ \E p \in Players :
       ItemCommand(p) \/ AskPassword(p) \/ Enter(p) \/ LoseLink(p) \/ Relink(p) \/ Rent(p)
  \/ \E p \in Players, r \in Rooms : QuitWithout(p, r) \/ \E c \in Corpses : Die(p, c, r)
  \/ \E c \in Corpses : Rot(c)
  \/ AutoSave \/ Crash \/ ShutDown

ItemsSpec == ItemsInit /\ [][ItemsNext]_itemVars

-------------------------------------------------------------------------------
(* Properties.                                                             *)

\* What a player who is out would bring at the next login is nowhere in the
\* game: no sequence of commands, saves and crashes doubles an object.
NothingTwice ==
  \A p \in Players : link[p] = "out" => \A o \in LoadedBy(saved, p) : where[o] = Gone

\* Nothing that happens in the game, nor its end or a crash in the middle of a
\* save, touches what is kept for a player who is out (and of whom no copy is
\* there to be saved in the player's place, see BelongingsStored).
AbsentKeepAll ==
  [][\A p \in Players \ prompts : link[p] = "out" /\ link'[p] = "out" =>
       LoadedBy(saved, p) \subseteq LoadedBy(saved', p)]_itemVars

\* o and the objects it is in.
Chain(at, o) == {x \in Items : o \in Under(at, {x})}

\* The table has o, and all it is in, where the game has it.
Recorded(t, at, o) ==
  at[o] # Gone /\ \A x \in Chain(at, o) : t[x].holder = at[x]

\* A save of one holder spoils no true record of an object that stays where it
\* is, whoever holds it.
SavesKeepOthers ==
  [][stops' = stops =>
       \A o \in Items :
         /\ Recorded(saved, where, o)
         /\ \A x \in Chain(where, o) : where'[x] = where[x]
         => Recorded(saved', where', o)]_itemVars

\* After an orderly end of the game all who were linked find at their next
\* login all they carried, and after an autosave so would all in the game.
SavedInFull ==
  [][/\ stops' = stops /\ UNCHANGED where /\ AutoSave =>
          \A p \in Players : link[p] # "out" => LoadedBy(saved', p) = Carried(where, p)
     /\ stops' # stops /\ ShutDown =>
          \A p \in Players \ prompts :
            link[p] = "in" => Carried(where, p) \subseteq LoadedBy(saved', p)]_itemVars

\* "$n stores your belongings and helps you into your private chamber."
\* (genReceptionist): what was rented is there after an orderly end of the game.
BelongingsStored ==
  [][ShutDown => \A p \in Players : link[p] = "out" =>
                   LoadedBy(saved, p) \subseteq LoadedBy(saved', p)]_itemVars
===============================================================================

------------------------------- MODULE Guilds -------------------------------
(***************************************************************************)
(* How guilds come to be (guilds/, editor-interface/): applications, the   *)
(* signatures they gather, the gods' decision, the founding, and the       *)
(* applications to join.  Every player at it has a stack of menus; some    *)
(* checks are made when a menu is opened, others when a line is typed in   *)
(* it, and in between the others type theirs.                              *)
(*                                                                         *)
(* The tables are kept in memory and, row by row, written to the database. *)
(* A handler is the list of rows it stores: a query may fail (the handler  *)
(* ends there, having changed the row in memory if it was an old one), and *)
(* the game may go down between two of them.                               *)
(*                                                                         *)
(* All players are of one race and of level 30; who can pay for a guild is *)
(* left open.  Guild ranks are not modelled, nor is the menu that denies a *)
(* signature: its check never lets anyone in.                              *)
(***************************************************************************)
EXTENDS Naturals, Sequences, FiniteSets

CONSTANTS
  Folk,        \* the players
  Gods,        \* those of LVL_GOD among them
  Required,    \* numberOfRequiredSignaturesForNewGuild
  Most,        \* the most rows of each table (a bound)
  MaxMishaps   \* failed queries and crashes (a bound)

Tables == {"apps", "sigs", "guilds", "members", "joins"}

ASSUME GuildsAssumption ==
  /\ Gods \subseteq Folk /\ IsFiniteSet(Folk) /\ Required \in Nat \ {0}
  /\ Most \in [Tables -> Nat] /\ MaxMishaps \in Nat

VARIABLES
  tables,    \* the maps of GuildUtil: of each table its rows, by their id
  stored,    \* the same in the database
  screen,    \* the top menu of each player, and what it is about
  torn,      \* history: the applications a mishap hit, as <<table, id>>
  mishaps    \* how many there were

guildVars == <<tables, stored, screen, torn, mishaps>>

(* The main menu and the two lists, which keep nothing, are "none" too.    *)
NoMenu == [at |-> "none", id |-> 0]

GuildsInit ==
  /\ tables = [t \in Tables |-> <<>>] /\ stored = tables
  /\ screen = [u \in Folk |-> NoMenu]
  /\ torn = {} /\ mishaps = 0

--------------------------------------------------------------------------
(* Reading the tables.                                                     *)

Rows(t) == DOMAIN tables[t]
ApplicationClosed(status) == status \in {"approved", "denied"}
Open(a) == ~ApplicationClosed(tables.apps[a].status)
RequiresReview(a) == tables.apps[a].status = "reviewing"
ValidSignatures(a) ==
  {s \in Rows("sigs") : tables.sigs[s].app = a /\ tables.sigs[s].status = "approved"}
InGuild(u) == \E m \in Rows("members") : tables.members[m].by = u
OwnOpen(u) == {a \in Rows("apps") : tables.apps[a].by = u /\ Open(a)}
OwnReviewing(u) ==
  {j \in Rows("joins") : tables.joins[j].by = u /\ tables.joins[j].status = "reviewing"}
(* Those of his signatures that are on an open application.                *)
SignedOpen(u, statuses) ==
  {s \in Rows("sigs") : /\ tables.sigs[s].by = u /\ tables.sigs[s].status \in statuses
                        /\ Open(tables.sigs[s].app)}

--------------------------------------------------------------------------
(* Storing rows: the k-th new one of a table, or an old one with another   *)
(* status.                                                                 *)

New(t, k, row) == [table |-> t, id |-> Len(tables[t]) + k, row |-> row]
Changed(t, id, status) ==
  [table |-> t, id |-> id, row |-> [tables[t][id] EXCEPT !.status = status]]

(* The ids of rows, as the maps have them.                                 *)
Orders(ids) ==
  {order \in [1..Cardinality(ids) -> ids] :
     \A j, k \in DOMAIN order : j < k => order[j] < order[k]}
Removed(t, order) == [k \in DOMAIN order |-> Changed(t, order[k], "removed")]

(* rows with the first n of ws, as far as they are of the table t; no      *)
(* handler stores a row twice.                                             *)
Put(rows, t, ws, n) ==
  LET put == {k \in 1..n : ws[k].table = t} IN
  [i \in DOMAIN rows \cup {ws[k].id : k \in put} |->
     IF \E k \in put : ws[k].id = i THEN ws[CHOOSE k \in put : ws[k].id = i].row ELSE rows[i]]
PutFirst(all, ws, n) == [t \in Tables |-> Put(all[t], t, ws, n)]

(* u's handler stores ws, for the sake of the rows what, and leads to a    *)
(* menu.                                                                   *)
Store(u, ws, what, next) ==
  /\ \A k \in DOMAIN ws : ws[k].id <= Most[ws[k].table]
  /\ \/ /\ tables' = PutFirst(tables, ws, Len(ws)) /\ stored' = PutFirst(stored, ws, Len(ws))
        /\ screen' = [screen EXCEPT ![u] = next]
        /\ UNCHANGED <<torn, mishaps>>
     \/ /\ mishaps < MaxMishaps /\ mishaps' = mishaps + 1
        /\ \E k \in DOMAIN ws :
             LET new == ws[k].id \notin Rows(ws[k].table) IN
             /\ stored' = PutFirst(stored, ws, k - 1)
             /\ torn' = IF k = 1 /\ new THEN torn ELSE torn \cup what
             /\ \/ /\ tables' = PutFirst(tables, ws, IF new THEN k - 1 ELSE k)
                   /\ \/ UNCHANGED screen
                      \/ screen' = [screen EXCEPT ![u] = NoMenu]
                \/ tables' = stored' /\ screen' = [v \in Folk |-> NoMenu]

(* The game starts again, and loads the tables.                            *)
Reboot ==
  /\ tables # stored \/ \E u \in Folk : screen[u] # NoMenu
  /\ tables' = stored /\ screen' = [u \in Folk |-> NoMenu]
  /\ UNCHANGED <<stored, torn, mishaps>>

--------------------------------------------------------------------------
(* From menu to menu.                                                      *)

At(u, menu) == screen[u].at = menu
App(u) == screen[u].id
Show(u, menu, id) ==
  /\ screen' = [screen EXCEPT ![u] = [at |-> menu, id |-> id]]
  /\ UNCHANGED <<tables, stored, torn, mishaps>>
Back(u) == [at |-> "view", id |-> App(u)]

(* Quit or, when he leaves the game, out of all of them.                   *)
LeaveMenu(u) ==
  /\ screen[u] # NoMenu
  /\ \/ Show(u, "none", 0)
     \/ screen[u].at \in {"approve", "deny", "signatures"} /\ Show(u, "view", App(u))
     \/ At(u, "joining") /\ Show(u, "guild", screen[u].id)

ViewApplication(u, a) == At(u, "none") /\ Open(a) /\ Show(u, "view", a)

MayDecide(u, a) ==
  u \in Gods /\ RequiresReview(a) /\ Cardinality(ValidSignatures(a)) >= Required
OpenApprove(u) == At(u, "view") /\ MayDecide(u, App(u)) /\ Show(u, "approve", App(u))
OpenDeny(u) == At(u, "view") /\ MayDecide(u, App(u)) /\ Show(u, "deny", App(u))

MMayAdmit(u, a) == tables.apps[a].status = "pending"   \* whoever he is
MayAdmit(u, a) == tables.apps[a].by = u /\ tables.apps[a].status = "pending"
OpenSignatures(u) == At(u, "view") /\ MayAdmit(u, App(u)) /\ Show(u, "signatures", App(u))

AllStatuses == {"pending", "approved", "removed"}
MayCreate(u) == ~InGuild(u) /\ OwnOpen(u) = {} /\ SignedOpen(u, AllStatuses) = {}
OpenCreate(u) == At(u, "none") /\ MayCreate(u) /\ Show(u, "create", 0)

--------------------------------------------------------------------------
(* Applications for a guild.                                               *)

MSubmit(u) ==   \* and another one
  /\ At(u, "create")
  /\ Store(u, <<New("apps", 1, [by |-> u, status |-> "pending"])>>,
           {<<"apps", Len(tables.apps) + 1>>}, screen[u])
Submit(u) ==
  /\ At(u, "create")
  /\ Store(u, <<New("apps", 1, [by |-> u, status |-> "pending"])>>,
           {<<"apps", Len(tables.apps) + 1>>}, NoMenu)

Sign(u) ==
  LET a == App(u) IN
  /\ At(u, "view")
  /\ tables.apps[a].by # u /\ ~InGuild(u) /\ tables.apps[a].status = "pending"
  /\ ~\E s \in Rows("sigs") :
        tables.sigs[s].by = u /\ tables.sigs[s].app = a /\ tables.sigs[s].status # "removed"
  /\ Store(u, <<New("sigs", 1, [by |-> u, app |-> a, status |-> "pending"])>>,
           {<<"apps", a>>}, screen[u])

(* His signatures are taken back.                                          *)
Withdrawn(u, a) ==
  {s \in Rows("sigs") : /\ tables.sigs[s].by = u /\ tables.sigs[s].app = a
                        /\ tables.sigs[s].status # "removed"}
Withdraw(u) ==
  /\ At(u, "view") /\ Withdrawn(u, App(u)) # {}
  /\ \E order \in Orders(Withdrawn(u, App(u))) :
       Store(u, Removed("sigs", order), {<<"apps", App(u)>>}, screen[u])
MRemoveSignature(u) == Withdraw(u)   \* also when the gods have it
RemoveSignature(u) == Withdraw(u) /\ tables.apps[App(u)].status = "pending"

(* With the last one that was missing, the application goes to the gods.   *)
ApproveSignature(u, s) ==
  LET a == App(u)
      enough == Cardinality(ValidSignatures(a)) + 1 >= Required
  IN /\ At(u, "signatures")
     /\ tables.sigs[s].app = a /\ tables.sigs[s].status = "pending"
     /\ Store(u, <<Changed("sigs", s, "approved")>>
                 \o (IF enough THEN <<Changed("apps", a, "reviewing")>> ELSE <<>>),
              {<<"apps", a>>}, Back(u))

DenyApplication(u) ==
  /\ At(u, "deny")
  /\ Store(u, <<Changed("apps", App(u), "denied")>>, {<<"apps", App(u)>>}, Back(u))

(* approveGuildApplication, createGuild and initNewlyCreatedGuild.         *)
FoundingRows(a, founders) ==
  <<Changed("apps", a, "approved"), New("guilds", 1, [app |-> a])>>
  \o [k \in DOMAIN founders |->
        New("members", k, [by |-> founders[k], guild |-> Len(tables.guilds) + 1])]
ApproveApplication(u) ==
  LET a == App(u) IN
  /\ At(u, "approve")
  /\ \E order \in Orders(ValidSignatures(a)) :
       Store(u,
             FoundingRows(a, <<tables.apps[a].by>> \o [k \in DOMAIN order |-> tables.sigs[order[k]].by]),
             {<<"apps", a>>}, Back(u))

--------------------------------------------------------------------------
(* Applications to join one (which nobody ever decides).                   *)

ViewGuild(u, g) == At(u, "none") /\ Show(u, "guild", g)
OpenJoin(u) ==
  /\ At(u, "guild")
  /\ ~InGuild(u) /\ OwnReviewing(u) = {} /\ OwnOpen(u) = {}
  /\ SignedOpen(u, {"pending", "approved"}) = {}
  /\ Show(u, "joining", screen[u].id)
SubmitJoin(u) ==
  /\ At(u, "joining")
  /\ Store(u, <<New("joins", 1, [by |-> u, guild |-> screen[u].id, status |-> "reviewing"])>>,
           {<<"joins", Len(tables.joins) + 1>>}, [at |-> "guild", id |-> screen[u].id])
(* What getGuildJoinApplications finds for u and the guild g: all that u   *)
(* has, whichever guild they are for, or, if he never wrote one, what      *)
(* anybody wrote to g.                                                     *)
FoundJoins(u, g) ==
  IF \E j \in Rows("joins") : tables.joins[j].by = u THEN OwnReviewing(u)
  ELSE {j \in Rows("joins") :
          tables.joins[j].guild = g /\ tables.joins[j].status = "reviewing"}
(* One of his own, from the list; all that are found, in the guild's menu. *)
RemoveJoins(u, js) ==
  \E order \in Orders(js) :
    Store(u, Removed("joins", order), {<<"joins", j>> : j \in js}, screen[u])
RemoveJoin(u) == At(u, "none") /\ \E j \in OwnReviewing(u) : RemoveJoins(u, {j})
RemoveAllJoins(u) ==
  LET js == FoundJoins(u, screen[u].id) IN
  At(u, "guild") /\ js # {} /\ RemoveJoins(u, js)

GuildsNext ==
  \/ Reboot
  \/ \E u \in Folk :
       \/ LeaveMenu(u) \/ OpenApprove(u) \/ OpenDeny(u) \/ OpenSignatures(u) \/ OpenCreate(u)
       \/ Submit(u) \/ Sign(u) \/ RemoveSignature(u)
       \/ DenyApplication(u) \/ ApproveApplication(u) \/ OpenJoin(u) \/ SubmitJoin(u)
       \/ RemoveJoin(u) \/ RemoveAllJoins(u)
       \/ \E a \in Rows("apps") : ViewApplication(u, a)
       \/ \E s \in Rows("sigs") : ApproveSignature(u, s)
       \/ \E g \in Rows("guilds") : ViewGuild(u, g)

GuildsSpec == GuildsInit /\ [][GuildsNext]_guildVars

--------------------------------------------------------------------------
Whole(t) == {id \in Rows(t) : <<t, id>> \notin torn}

Signers(a) == {tables.sigs[s].by : s \in ValidSignatures(a)}
MembersOf(g) == {m \in Rows("members") : tables.members[m].guild = g}

(* What lies before the gods, and every guild they let found, is backed by *)
(* enough players beside the one who wants it, and the guild has them, and *)
(* them once, for members: nobody can take a signature back, or have one   *)
(* counted twice, however many have the application on their screens.      *)
Backed ==
  \A a \in Whole("apps") :
    /\ tables.apps[a].status \in {"reviewing", "approved", "denied"} =>
         Cardinality(Signers(a) \ {tables.apps[a].by}) >= Required
    /\ \A g \in Rows("guilds") : tables.guilds[g].app = a =>
         /\ \A m, n \in MembersOf(g) : tables.members[m].by = tables.members[n].by => m = n
         /\ {tables.members[m].by : m \in MembersOf(g)} = Signers(a) \cup {tables.apps[a].by}

(* An application that was decided is never open again, though its owner   *)
(* may have the menu in his hands that sends it to the gods, and though    *)
(* the game starts again.                                                  *)
StaysClosed ==
  [][\A a \in DOMAIN stored.apps :
       /\ ApplicationClosed(stored.apps[a].status) /\ <<"apps", a>> \notin torn'
       => /\ ApplicationClosed(stored'.apps[a].status)
          /\ ApplicationClosed(tables'.apps[a].status)]_guildVars

(* Nobody has two guilds under way, or asks to join twice, though that is  *)
(* checked when the menu opens and not when it is sent off.                *)
OneAtATime ==
  \A u \in Folk :
    /\ Cardinality(OwnOpen(u) \cap Whole("apps")) <= 1
    /\ Cardinality(OwnReviewing(u) \cap Whole("joins")) <= 1
=============================================================================

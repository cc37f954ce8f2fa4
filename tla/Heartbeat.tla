------------------------------- MODULE Heartbeat -------------------------------
(***************************************************************************)
(* What heartbeat (src/src/comm.cpp) counts down for characters: the timed *)
(* events of dg_event.cpp, with a bashed character's standing up and the   *)
(* weaves' effects among them, and the lag of WaitingList; and the deeds,  *)
(* in a command or in the rest of a heartbeat, that set them.              *)
(*                                                                         *)
(* Where characters are is not modelled (anybody may attack anybody), nor  *)
(* positions: a bashed character sits.                                     *)
(***************************************************************************)
EXTENDS Integers, SequencesExt, Lists

CONSTANTS
  Chars, None,
  Mobs,          \* those without a descriptor
  Affs,          \* where an affected_type may be allocated
  BashTime,      \* PULSE_VIOLENCE
  FleeLag,       \* FLEE_LAG
  Lags,          \* lags of other deeds
  CallTime,      \* between two calls of an effect
  PurgeEvery     \* pulses between two PurgeQueue (PASSES_PER_SEC)

ASSUME HeartbeatAssumption ==
  /\ Mobs \subseteq Chars /\ None \notin Chars \union Affs
  /\ BashTime \in Nat \ {0} /\ FleeLag \in Nat \ {0} /\ Lags \subseteq Nat \ {0}
  /\ CallTime \in Nat \ {0} /\ PurgeEvery \in Nat \ {0}

VARIABLES
  life,       \* life[c]: extracted characters are deleted by PurgeQueue
  wait, waitingList,   \* a character's lag; those who have one
  fleeing,    \* FLEE_GO: flees when the lag is over
  foe,        \* FIGHTING
  bashed, stands,      \* is_bashed; BashStandQueue: characters and events
  affected,   \* the effects on a character
  events,     \* event_list
  part, cur   \* where heartbeat is, and its iterator

pulse == <<part, cur>>
people == <<life, wait, waitingList, fleeing, foe, bashed, stands, affected, events>>

Lives == {"here", "purged", "gone"}
Parts == {"none", "events", "waits", "rest"}
EventType == [id: Nat, time: Int, what: {"stand", "effect"}, who: Chars \union {None},
              aff: Affs \union {None}]

HeartbeatTypeOK ==
  /\ life \in [Chars -> Lives]
  /\ wait \in [Chars -> Int] /\ waitingList \in Seq(Chars)
  /\ fleeing \in [Chars -> BOOLEAN] /\ foe \in [Chars -> Chars \union {None}]
  /\ bashed \in [Chars -> BOOLEAN] /\ stands \in SUBSET [who: Chars, id: Nat]
  /\ affected \in [Chars -> SUBSET Affs]
  /\ events \in Seq(EventType)
  /\ part \in Parts /\ cur \in Nat \union Chars \union {None}

HeartbeatInit ==
  /\ life = [c \in Chars |-> "here"]
  /\ wait = [c \in Chars |-> 0] /\ waitingList = <<>>
  /\ fleeing = [c \in Chars |-> FALSE] /\ foe = [c \in Chars |-> None]
  /\ bashed = [c \in Chars |-> FALSE] /\ stands = {}
  /\ affected = [c \in Chars |-> {}]
  /\ events = <<>>
  /\ part = "none" /\ cur = None

\* One deed calls several of the functions below, each with the state the one
\* before it has left: they take and return a record of it.
Current ==
  [life |-> life, wait |-> wait, list |-> waitingList, fleeing |-> fleeing, foe |-> foe,
   bashed |-> bashed, stands |-> stands, affected |-> affected, events |-> events]
Become(S) ==
  /\ life' = S.life /\ wait' = S.wait /\ waitingList' = S.list
  /\ fleeing' = S.fleeing /\ foe' = S.foe
  /\ bashed' = S.bashed /\ stands' = S.stands
  /\ affected' = S.affected /\ events' = S.events

\* The element after x, or None.
After(s, x) ==
  LET later == {k \in 2..Len(s) : s[k-1] = x} IN IF later = {} THEN None ELSE s[Min(later)]
First(s) == IF s = <<>> THEN None ELSE Head(s)

-------------------------------------------------------------------------------
(* dg_event.cpp.                                                            *)

AtLeast(n, m) == IF m > n THEN m ELSE n
Ids(evs) == {evs[k].id : k \in DOMAIN evs}
FreeId(evs) == Min((1..Len(evs) + 1) \ Ids(evs))
EventOf(evs, id) == evs[CHOOSE k \in DOMAIN evs : evs[k].id = id]
NextEvent(evs, id) ==
  LET k == CHOOSE j \in DOMAIN evs : evs[j].id = id
  IN IF k = Len(evs) THEN None ELSE evs[k+1].id
FirstEvent(evs) == IF evs = <<>> THEN None ELSE Head(evs).id

\* remove_event, of those with the given ids.
RemoveEvents(evs, ids) == Without(evs, {e \in Range(evs) : e.id \in ids})

\* add_event: before a head that is due no earlier, or before the first of the
\* others that is due no later.
Place(evs, time) ==
  IF evs = <<>> \/ time <= evs[1].time THEN 1
  ELSE Min({k \in 2..Len(evs) : evs[k].time <= time} \union {Len(evs) + 1})
AddEvent(S, time, what, who, aff) ==
  [S EXCEPT !.events = InsertAt(@, Place(@, time),
     [id |-> FreeId(@), time |-> time, what |-> what, who |-> who, aff |-> aff])]

-------------------------------------------------------------------------------
(* Lag, bashes and flight.                                                  *)

\* WaitState(n), n > 0.
LagPushed(S, c, n) == [S EXCEPT !.list = Append(@, c), !.wait[c] = n]
Lag(S, c, n) ==
  [S EXCEPT !.list = IF S.wait[c] = 0 THEN Append(@, c) ELSE @, !.wait[c] = n]

\* WaitState(n) of a character that sits, and cannot flee.
LagSitting(S, c, n) ==
  IF n > 0 THEN Lag(S, c, n)
  ELSE [S EXCEPT !.list = Without(@, {c}), !.wait[c] = n,
                 !.fleeing[c] = IF S.life[c] = "here" THEN FALSE ELSE @]

\* setBashState(n): one event per character, its pulses added up.
StandIn(S, c, n) ==
  [AddEvent(S, n, "stand", c, None)
     EXCEPT !.stands = @ \union {[who |-> c, id |-> FreeId(S.events)]}]
Longer(S, s, n) ==
  [S EXCEPT !.events = [k \in DOMAIN @ |->
     IF @[k].id # s.id THEN @[k]
     ELSE LET time == AtLeast(0, @[k].time + n)
          IN [@[k] EXCEPT !.time = time]]]
BashAnew(S, c, n) ==
  StandIn(LagSitting([S EXCEPT !.bashed[c] = TRUE], c, S.wait[c] + n), c, n)
Bash(S, c, n) ==
  LET T == LagSitting([S EXCEPT !.bashed[c] = TRUE], c, S.wait[c] + n)
      mine == {s \in S.stands : s.who = c}
  IN IF mine = {} THEN StandIn(T, c, n)
     ELSE Longer(T, CHOOSE s \in mine : TRUE, n)

\* c leaves the room: whoever fought c fights one of their own attackers
\* (SetNewFighting) or nobody.
Attackers(S, t, c) == {k \in Chars \ {c} : S.foe[k] = t}
Gone(S, c) ==
  {[S EXCEPT !.foe = f] : f \in
     {g \in [Chars -> Chars \union {None}] : \A t \in Chars :
        IF t = c THEN g[t] = None
        ELSE IF S.foe[t] # c THEN g[t] = S.foe[t]
        ELSE g[t] \in Attackers(S, t, c) \/ (Attackers(S, t, c) = {} /\ g[t] = None)}}

\* performFlee: a foe that is bashed and now fights nobody is relieved of a round.
Relieved(S, b) ==
  IF b # None /\ S.bashed[b] /\ S.foe[b] = None THEN Bash(S, b, -BashTime) ELSE S
Flee(S, c) ==
  IF S.life[c] # "here" THEN {S}
  ELSE LET T == [S EXCEPT !.fleeing[c] = FALSE]
       IN {T} \union (IF T.bashed[c] THEN {}
                      ELSE {Relieved(U, T.foe[c]) : U \in Gone(T, c)})

\* do_flee, where there is an exit.
TryToFlee(S, c) ==
  IF S.fleeing[c] \/ S.foe[c] = None THEN Flee(S, c)
  ELSE {Lag([S EXCEPT !.fleeing[c] = TRUE], c, FleeLag)}

\* Fighting begins on both sides, and v is bashed for n pulses.
Engage(S, c, v) ==
  [S EXCEPT !.foe = [t \in Chars |-> IF t = c /\ @[c] = None THEN v
                                     ELSE IF t = v /\ @[v] = None THEN c ELSE @[t]]]
Hit(S, c, v, n) == Bash(Engage(S, c, v), v, n)

\* Extract: an effect's event outlives its character, its data cleared.
ExtractAlone(S, c) ==
  [S EXCEPT !.life[c] = "purged",
            !.foe = [t \in Chars |-> IF t = c \/ @[t] = c THEN None ELSE @[t]]]
Extract(S, c) ==
  [S EXCEPT !.life[c] = "purged",
            !.foe = [t \in Chars |-> IF t = c \/ @[t] = c THEN None ELSE @[t]],
            !.events = [k \in DOMAIN @ |->
               IF @[k].what = "effect" /\ @[k].who = c
                 THEN [@[k] EXCEPT !.who = None, !.aff = None] ELSE @[k]]]

\* affect_to_char; affect_remove leaves the event.
Affect(S, c, a) ==
  AddEvent([S EXCEPT !.affected[c] = @ \union {a}], CallTime, "effect", c, a)
Cure(S, c, a) == [S EXCEPT !.affected[c] = @ \ {a}]

-------------------------------------------------------------------------------
(* The parts of a heartbeat.                                                *)

Call(id) == EventOf(events, id)
CountDown(id) ==
  [k \in DOMAIN events |->
     IF events[k].id = id THEN [events[k] EXCEPT !.time = @ - 1] ELSE events[k]]

\* BashStand.
Stand(S, e) ==
  [S EXCEPT !.bashed[e.who] = FALSE, !.stands = {s \in @ : s.id # e.id}]

\* effMainCallback: an effect that lasts is called, which may kill a mobile,
\* and its data is put into a new event.
NeverAgain(S, id) == S
Again(S, id) ==
  LET e == EventOf(S.events, id)
  IN AddEvent(S, CallTime, "effect", e.who, e.aff)
Persists(S, e) == e.who # None /\ e.aff \in S.affected[e.who]
Effect(S, e) ==
  IF ~Persists(S, e) THEN {S}
  ELSE {Again(S, e.id)} \union
       (IF e.who \in Mobs THEN {Again(Extract(S, e.who), e.id)} ELSE {})

Fire(S, e) == IF e.what = "stand" THEN {Stand(S, e)} ELSE Effect(S, e)

\* process_events, event by event; it removes what it has called, after it.
IsDue(e) == e.time - 1 <= 0
ProcessEvent ==
  /\ part = "events" /\ cur # None
  /\ LET S == [Current EXCEPT !.events = CountDown(cur)] IN
       IF IsDue(Call(cur))
         THEN \E T \in Fire(S, Call(cur)) :
                /\ cur' = NextEvent(T.events, cur)
                /\ Become([T EXCEPT !.events = RemoveEvents(@, {cur})])
         ELSE cur' = NextEvent(events, cur) /\ Become(S)
  /\ UNCHANGED part

\* CheckWaitState, character by character; past the end of a lag, the one
\* after it is passed over.
WaitEvents(S, c) == IF S.fleeing[c] THEN Flee(S, c) ELSE {S}
LagOver(c, S) ==
  /\ cur' = After(S.list, After(S.list, c))
  /\ Become([S EXCEPT !.list = Without(@, {c})])
WaitUpdate ==
  /\ part = "waits" /\ cur # None
  /\ LET S == [Current EXCEPT !.wait[cur] = @ - 1] IN
       IF S.wait[cur] = 0 THEN \E T \in WaitEvents(S, cur) : LagOver(cur, T)
       ELSE cur' = After(waitingList, cur) /\ Become(S)
  /\ UNCHANGED part

\* PurgeQueue deletes the characters extracted, their lag and their standing up.
Purged == {c \in Chars : life[c] = "purged"}
Delete ==
  LET ids == {s.id : s \in {t \in stands : t.who \in Purged}} IN
  [Current EXCEPT !.life = [c \in Chars |-> IF c \in Purged THEN "gone" ELSE @[c]],
                  !.list = Without(@, Purged),
                  !.stands = {s \in @ : s.who \notin Purged},
                  !.events = RemoveEvents(@, ids),
                  !.affected = [c \in Chars |-> IF c \in Purged THEN {} ELSE @[c]]]

HeartbeatBegins ==
  /\ part = "none" /\ part' = "events" /\ cur' = FirstEvent(events) /\ UNCHANGED people
EventsDone ==
  /\ part = "events" /\ cur = None
  /\ part' = "waits" /\ cur' = First(waitingList) /\ UNCHANGED people
WaitsDone ==
  /\ part = "waits" /\ cur = None /\ part' = "rest" /\ UNCHANGED <<people, cur>>
\* The pulses-th heartbeat ends.
HeartbeatEnds(pulses) ==
  /\ part = "rest" /\ part' = "none" /\ UNCHANGED cur
  /\ IF pulses % PurgeEvery = 0 THEN Become(Delete) ELSE UNCHANGED people
===============================================================================

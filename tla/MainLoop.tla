------------------------------- MODULE MainLoop -------------------------------
(***************************************************************************)
(* gameLoop (src/src/comm.cpp): in each iteration it sleeps to the next    *)
(* deadline, sees to the database, lets each player whose lag is over give *)
(* a command, and runs the heartbeats that are due.  Sessions and sockets  *)
(* are in GameServer.                                                      *)
(***************************************************************************)
EXTENDS LoopTiming, Heartbeat

CONSTANTS
  Delays,    \* by how much a step may be late
  Limits,    \* how many deeds of each kind a behaviour may have
  Horizon    \* no new iteration begins after it

Kinds == {"delay", "outage", "lag", "flee", "hit", "extract", "affect", "cure"}

ASSUME LoopAssumption ==
  /\ Delays \subseteq Nat \ {0} /\ Horizon \in Nat
  /\ Limits \subseteq [Kinds -> Nat]

VARIABLES
  ready,     \* the players whose command is not processed yet in this iteration
  budget     \* what is left of them

vars == <<timing, people, pulse, ready, budget>>

TypeOK ==
  /\ TimingTypeOK /\ HeartbeatTypeOK
  /\ ready \in SUBSET (Chars \ Mobs) /\ budget \in [Kinds -> Nat]

Init == TimingInit /\ HeartbeatInit /\ ready = {} /\ budget \in Limits

Spend(k) == budget[k] > 0 /\ budget' = [budget EXCEPT ![k] = @ - 1]

\* Time is t or later.
Elapse(t, Step(_)) ==
  \/ Step(t) /\ UNCHANGED budget
  \/ Spend("delay") /\ \E d \in Delays : Step(t + d)

-------------------------------------------------------------------------------

\* What c can do or what can happen to c, given the state S; a bashed
\* character sits, and can neither attack nor be told to flee.
Deed(S, c) ==
  \/ Spend("lag") /\ \E n \in Lags : Become(Lag(S, c, n))
  \/ Spend("hit") /\ ~S.bashed[c]
       /\ \E v \in {x \in Chars \ {c} : S.life[x] = "here"}, n \in {BashTime, 2 * BashTime} :
            /\ n > BashTime => ~S.bashed[v]
            /\ Become(Hit(S, c, v, n))
  \/ Spend("extract") /\ Become(Extract(S, c))
  \/ Spend("affect")
       /\ \E a \in Affs \ UNION {S.affected[x] : x \in Chars} : Become(Affect(S, c, a))
  \/ Spend("cure") /\ \E a \in S.affected[c] : Become(Cure(S, c, a))
DeedOfFlight(S, c) == Spend("flee") /\ \E T \in TryToFlee(S, c) : Become(T)

\* processInput.
Command(c) ==
  /\ phase = "work" /\ c \in ready /\ life[c] = "here" /\ wait[c] <= 0
  /\ LET S == [Current EXCEPT !.wait[c] = 0] IN
       \/ Become(S) /\ UNCHANGED budget
       \/ Deed(S, c)
       \/ ~bashed[c] /\ DeedOfFlight(S, c)
  /\ ready' = ready \ {c}
  /\ UNCHANGED <<timing, pulse>>

\* The rest of a heartbeat: delayed commands, fights, scripts, mobiles, spells
\* that wear off.  One who is hurt may flee even bashed (damage).
Happen(c) ==
  /\ phase = "beat" /\ part = "rest" /\ life[c] = "here"
  /\ Deed(Current, c) \/ DeedOfFlight(Current, c)
  /\ UNCHANGED <<timing, pulse, ready>>

\* The database is up unless there is an outage.
NextIteration ==
  /\ nextTick <= Horizon
  /\ \/ Elapse(AtLeast(now, nextTick), LAMBDA t : Wake(t, TRUE))
     \/ Spend("outage") /\ Wake(AtLeast(now, nextTick), FALSE)
  /\ ready' = Chars \ Mobs
  /\ UNCHANGED <<people, pulse>>

ConsumeTicks ==
  /\ Elapse(now, Consume) /\ ready' = {} /\ UNCHANGED <<people, pulse>>

Heartbeats ==
  \/ phase = "beat" /\ due > 0 /\ HeartbeatBegins /\ UNCHANGED <<timing, ready, budget>>
  \/ (ProcessEvent \/ EventsDone \/ WaitUpdate \/ WaitsDone)
       /\ UNCHANGED <<timing, ready, budget>>
  \/ HeartbeatEnds(pulses + 1) /\ Elapse(now, Beat) /\ UNCHANGED ready
  \/ part = "none" /\ BatchDone /\ UNCHANGED <<people, pulse, ready, budget>>

Shutdown ==
  part = "none" /\ EndLoop /\ UNCHANGED <<people, pulse, ready, budget>>
Over == phase = "over" /\ UNCHANGED vars

Next ==
  \/ NextIteration \/ ConsumeTicks \/ Heartbeats \/ Shutdown \/ Over
  \/ \E c \in Chars : Command(c) \/ Happen(c)

Spec == Init /\ [][Next]_vars

-------------------------------------------------------------------------------
(* Properties.                                                             *)

\* A heartbeat's parts put characters on WaitingList, take them off and walk
\* it; nobody is on it twice (and would wait half as long), or without a lag
\* (and would never come off).
WaitsOnce ==
  /\ \A j, k \in DOMAIN waitingList : waitingList[j] = waitingList[k] => j = k
  /\ \A k \in DOMAIN waitingList : wait[waitingList[k]] > 0

\* "We NEVER want more than one event in the queue per char" (setBashState),
\* and no less: who is bashed will be stood up, by the event that
\* BashStandQueue points to.
Standing(c) == {s \in stands : s.who = c}
StandsUp ==
  \A c \in Chars :
    IF life[c] # "gone" /\ bashed[c]
      THEN \E s \in Standing(c) :
             /\ Standing(c) = {s} /\ s.id \in Ids(events)
             /\ Call(s.id).what = "stand" /\ Call(s.id).who = c
      ELSE Standing(c) = {}

\* No event is left with a pointer to a deleted character: "This event should
\* ONLY ever be called if the Character is valid" (BashStand), and
\* effMainCallback looks into its character.
EventsOfTheLiving == \A k \in DOMAIN events : events[k].who # None => life[events[k].who] # "gone"

\* An effect that lasts is called again, whatever its last call did and
\* whoever's memory its own is.
EffectsGoOn ==
  \A c \in Chars : life[c] = "here" =>
    \A a \in affected[c] :
      \E k \in DOMAIN events : events[k].who = c /\ events[k].aff = a

\* "They were not on the list before..." (comm.cpp, WaitState, of a character
\* whose wait is 0): who has a lag is on WaitingList, and it will end.
LagIsListed ==
  \A c \in Chars : life[c] # "gone" /\ wait[c] > 0 => Contains(waitingList, c)
===============================================================================

# Verification of KinslayerMUD

TLA+ models of the KinslayerMUD server (`src/src/`), TLC configurations that
model-check them on small instances, and TLAPS proofs of their main properties
for every instance. Each definition is translated from the C++ code;
`PROJECT.json` maps it to its lines. Paths below are relative to the
repository's root (`src/gateway/...` is `src/src/gateway/...` in `PROJECT.json`).

## 1. The system

KinslayerMUD is two programs and a database.

* **The gateway** (`src/gateway`, one thread) owns the clients' telnet and
  websocket connections and outlives the game. It starts the game, watches it,
  restarts it, and opens one loopback connection to the game's port for each
  player and one "mother" connection for itself.
* **The game** (`src/comm.cpp` and nearly everything else, one thread plus a few
  background writers) accepts these connections, runs seven ticks a second, and
  saves the world to MySQL.
* **MySQL** (MyISAM, no transactions) is written by the game only.

### Components

| component | state it keeps | operations | what must hold |
|---|---|---|---|
| Gateway process (`gateway/GatewayServer.cpp`) | `mudStatus`, `crashed`, `rebooting`, `mudProcessId`, mother connection, one `GatewayDescriptor` per client | accept, hand-shake, request a session, relay, handle the game's lines, supervise the process | nobody waits for ever, nobody is wired to somebody else's session, one game at a time, the gateway itself survives |
| Game: start-up, loop, descriptors (`comm.cpp`, `Descriptor.cpp`) | `gatewayConnection`, `pendingSessions`, the `Descriptor` list | boot, wait for a gateway, `gameLoop`, `nanny` in `CON_GATEWAY`, shutdown | a session is used once, by the client it was made for; no pointer to a closed socket |
| Socket library (`ku/`) | descriptor map, input and output buffers | `bind`, `pulse`, `acceptNewHosts`, `connect`, `send` | FIFO; end of file is seen after the data |
| Loop timing (`utils/GameLoopTiming.h`) | deadline, next database check | `consume`, `poll` | ticks neither lost nor piled up; bounded catch-up; retries spaced |
| Timed events and lag (`dg_event.cpp`, `WaitingList` in `comm.cpp`) | list of events, characters with a lag | `add_event`, `remove_event`, `process_events`, `WaitState`, `CheckWaitState` | fire once, when due, with a character that exists; a lag ends |
| Background threads (`threaded_jobs.cpp`, `utils/ThreadedLogFile.cpp`, `MobLoadLogger.cpp`, `ObjectMoveLogger.cpp`, `utils/ParallelFileLoader.h`) | job lists, write queues | submit, run, collect, stop | every entry is written once, in order; no lost wake-up |
| Auction house (`auction.cpp`) | `auctionItem`, `auctionBid` rows, cached items, purses | bid, buy out, expire, pay, retrieve | money is conserved, paid once, the winner gets the item |
| Poker tables (`poker.cpp`) | seats, bets, pot, turn | join, bet, fold, deal, pay | chips are conserved, the turn moves on |
| Guilds (`guilds/`, `editor-interface/`) | applications, signatures, guilds, memberships, each player's stack of menus | apply, sign, withdraw, approve, deny, join | what the gods decide is backed by signatures, and stays decided |
| Objects and rooms (`handler.cpp`, `objsave.cpp`, `rooms/`) | who holds each object, the table `objects` | get, drop, give, put, rent, quit, die, save, boot | no object is there twice; nobody's save costs another anything |
| Login (`interpreter.cpp`, `accounts.cpp`) | connection state, account, character | `nanny`, `performDupeCheck` | one body per character |
| Combat (`fight.cpp`, `act.offensive.cpp`, `act.movement.cpp`, `handler.cpp`) | `combat_list`, and of each character the room, foe, leader, followers, horse, rider | hit, rescue, flee, follow, ride, move, die, `perform_violence`, `Extract`, `PurgeQueue` | every round is fair; pointers agree and never dangle |
| Zones, shops, clans, player portal | see `PROJECT.json` | | |
| Commands, spells, mobiles, OLC, scripts | one record each | about 60,000 lines of independent commands | not modelled, see section 11 |

### Interaction

The gateway and the game talk over the mother connection in lines
(`Host`, `SessionFor`, `Close`, `ProcessID`, `FinishedBooting`, `Reboot`,
`Shutdown`, `Restart`, `Validate`, `Ping`); each player's own connection begins
with `Session <key>`. They also meet in the operating system: the port (one
process can bind it), the process table (`processExists`) and the kernel's
sockets, which outlive either side's view of them.

### What is hard

Two loops that are never synchronised; a crash of either side between any two
lines; connections whose end of file is seen late, behind data; state that is
kept across a restart on purpose (session keys) next to state that is not
(sockets); 30-second and 60-second timeouts; caps; cached rows that another
player changes. `PROJECT.json` lists each such hazard at its line.

## 2. Plan

1. Gateway and game: `GatewayNet`, `GatewayServer`, `GameServer`, `GatewaySystem`, `Seats`
   (done), and ten theorems: type correctness, server connections, pointers, one game
   at a time, the gateway stops last, sessions, the refinement of `Seats`, the life of
   a key, the gateway's survival, requests under way (done).
2. The auction house: `Escrow`, what is promised, and `AuctionHouse`, which
   implements it (done). Type correctness, `NoLateBids`, `PaysTheRaise` and the refinement of `Escrow` proved, each with its hypothesis (done).
3. The main loop: `LoopTiming`, its two schedules by the clock (done, all four
   properties proved), `Heartbeat`, what a pulse counts down for characters, and
   `MainLoop`, which composes them (done), all four invariants of characters proved (done).
4. The threads: `ParallelFileLoader`, `ThreadedJobs`, `MessageLog` and `ThreadedLogFile`, `ScriptImports` (done),
   `ListedJobsLive` and the refinement of `MessageLog` proved (done).
5. Logging in and out: `PlayerLogin` (done), all four of its properties proved, under two hypotheses (done).
6. Objects and their saves: `ItemSaving` (done). `NothingTwice`, `AbsentKeepAll`, `SavedInFull` and `SavesKeepOthers` proved (done).
7. Characters in the world: `Combat` (done), all five of its properties proved (done).
8. The founding of guilds: `Guilds` (done). `Backed`, `OneAtATime` and `StaysClosed` proved (done).

What the plan leaves to TLC: all that is said under fairness.

## 3. Gateway and game

### Modules

* `GatewayNet`: what both programs share: processes (`proc`), connections (`gwEnd`,
  `gameEnd`, `owner`) and their queues (`toGame`, `toGw`). A queue is the writer's
  output buffer and the kernel's buffers together, one FIFO of whole lines.
* `GatewayServer`: the gateway's loop. `pc` splits a pass of `run()` only where
  another process can get in between: client sockets (`net`), mother connection
  (`link`), process supervision (`supervise`), lines from the game (`input`),
  descriptors (`clients`). One action per handler.
* `GameServer`: the game's side, `phase` splitting a pass of `gameLoop` (and of
  `waitForGatewayConnection`) in the same way; the variables belong to the process
  that holds the port, and a process that has closed its listener keeps only its
  sockets.
* `GatewaySystem`: the composition, the faults (each with a budget, `Limits`), the
  fairness, the properties.
* `Seats`: the abstract specification: clients, the session a client sits in, the
  host the game knows it by. A seat is taken only by a client that is present,
  with a key nobody else has, under the client's own host name, and is left or
  cleared. `GatewaySystem` implements it under `S == INSTANCE Seats WITH ...`.
* `MCGateway`: the budgets of the runs.

A key is abstract: `randomToken` is a key that nothing holds (128 random bits in
the code). A process id can come back once its process is gone. Which free
socket number the kernel hands out does not matter, so it is `CHOOSE`n.

### Runs

| run | question | bounds |
|---|---|---|
| `gateway_stops` | crash and orderly reboot anywhere: sessions, waiting clients, overlap of games, survival, refinement of `Seats` | 2 clients (1 websocket), 4 keys, 2 pids, 5 sockets |
| `gateway_faults` | no automatic restart, games started by hand; the gateway dies and comes back, with idle descriptors, a stall, the cap of pending sessions; or the mother connection breaks while both programs live, and a crash | 2 clients, `MaxPending` 1; 1 or 2 starts; the gateway may die of a break (see below), so deadlock is not checked |
| `gateway_live` | liveness under fairness; `ShutdownOnReboot`, `RestartOnReboot` | 1 client; 1 crash and 1 reboot, or 2 reboots and 2 orders |

Two clients are enough for one to be confused with the other; the sockets are
enough for the mother connection, both players, and old connections the game has
not reaped yet (a run in which no socket is free simply waits for one), the keys
for every session and pending session at once; two process ids for an old and a new
game. A client is used once: a second connection of the same person is another
client. The budgets allow each fault to hit every state of the fault-free
behaviour, which is why they are small but not zero.

### Fairness

Both loops are weakly fair: each is a thread that sleeps 5 ms or one tick at a
time and never waits for the other. A forked game binds, a closing one exits
(weak fairness per process). `Wait60`, the passing of a minute, is strongly fair,
because the gateway's loop comes back to where it looks at the clock again and
again; it is enabled only when no game is between `fork` and `bind`, i.e. a game
needs less than a minute for that. Clients, administrators and faults owe nothing.

### Counterexamples worth knowing

A comment of the code (`GatewayServer.cpp:565`) says that a lost mother connection
is to "disconnect all players and set them in 'awaiting connection' mode". A crashed
game closes the players' own connections as well, and the descriptor loop drops
those players in the pass before the crash is noticed: nobody is left to wait.

Met while modelling, and part of the model: `Descriptor::disconnect` is said to "also
send a message to the gateway to close the client connection", but does so only for
a descriptor that has a session, so a session refused after 30 seconds leaves the
client with a connection the game has forgotten. A reboot during a websocket
handshake puts the client in `awaitingConnection` (`handleGameShutdown` resets every
status), and it is served without one.

Some properties hold only without some faults, and the runs leave those out:

* with a broken mother connection under a living game (`break`),
  `RequestUnderWay` fails: data before the end of file hides it for one pulse of the
  game, the gateway's new connection is accepted as an ordinary player, its
  `Validate` line is eaten by `nanny`, and both sides wait. `GatewaySurvives` fails
  too: a stale `Close` line meets a descriptor that kept its key and lost its
  connection (`GatewayServer.cpp:417-422`, `482-486`).
* after a gateway restart, or when games are started by hand, two game processes may
  exist for a moment; the second one exits when it cannot bind, so `OneGame` is
  checked without these faults.

### Proofs (`GatewayProofs`, `SessionProofs`)

Ten theorems, for every value of the constants: any number of clients, keys, processes
and sockets. `TypeCorrect`, `ServerConnections`, `PointersStayAlive`,
`AdmittedToOneClient`, `SeatsImplemented` and `NoCloseStrays` assume nothing about faults;
`OneGameAtATime`, `GatewayIsLast`, `GatewayLives` and `RequestsUnderWay` leave three kinds out,
and the last also assumes room in `pendingSessions`.

`TypeCorrect == Spec => []TypeOK`, which no run repeats. `TypeOK` is not inductive: `CloseListener`
writes `proc[game]`, so `game` must not be `None` there (`phase # "off" => game #
None`), and the bound on `pendingSessions` needs the list to be finite. `TypeInv`
adds both. One lemma per action, and helper lemmas for what several actions do
(`ConnectTypes`, `NetTypes`, `VanishTypes`, `DisconnectTypes`, `HostTypes`). The cap:
`Host` adds one entry only when the pruned list is below the cap; `Expire` maps
the list onto one that is no larger (`FS_Surjection`).

`ServerConnections == Spec => []OwnServerConnection`. The property holds while the
gateway lives; a dead gateway leaves its descriptors behind until it is restarted,
and the restart needs to know that those without a connection have none recorded,
hence `ConnectedOnly` in `WiredInv`. The game's steps do not touch the gateway's
ends (`GameLeavesGwEnd`); the gateway's steps drop clients (`DropKeeps`), close the
mother connection (`MotherCloses`), unwire everybody (`ShutdownUnwires`) or change
one status (`StatusKeeps`); a new connection is on a socket nobody uses
(`WiredSession`, `WiredLinkDown`).

`PointersStayAlive == Spec => []PointersAlive`. The pointers are cleared when a connection
is reaped, but they are the pointers of *one* process: that they are never those of a
process that died, was replaced or stopped listening needs `PortInv`, which says that the process
that listens is the one whose variables they are, and only a process that listens or is closing has ends of
connections; and that what was read and not processed came over a connection the game still
has (`Buffers`). The gateway can only connect, fork or leave the port alone (`Touches`).

`OneGameAtATime` and `GatewayIsLast`, under `Orderly`: no games started by hand, no gateway that
dies, no mother connection that breaks between two living processes; any number of crashes, reboots
and orders. These are the conditions of `gateway_stops` and `gateway_live`; with the other faults
`OneGame` is false. The argument is about the stages of the process at work:
`Starting` (forked, and the gateway waits 60 seconds for it), `Alone` (listening, nobody has
connected), `Greeting` (the gateway has connected and its `Validate` is the first line) and `Admitted`
(linked, and the gateway has the process id or is about to read it). `OneInv` says that
the process at work is unique and in one of them, as long as the gateway lives. In `Starting`
no attempt is due; in the other stages the status is not `notRunning`, or becomes so only because the process
the gateway knows is gone.

`AdmittedToOneClient == Spec => []WiredToOneClient`. The property relates the gateway's table
to the game's over two pairs of queues, and is inductive only with what is under way (`SessInv`): a key asked for on a
connection is the key of the client it belongs to, if the gateway still has it
(`AskedByOwner`, over the lines of both buffers); a pending entry names the host of whoever has
the key (`PendingOwner`) and of whoever it is sent to (`AnswerOwner`). The gateway's steps but one
only forget (`Keeps`), as do the game's but two (`GameOnlyDrops`); what is left is the three steps of a session: `Host` makes a
key nobody holds (`Answers`, by `HostKind`), `OpenSession` gives it to a client and a new connection (`AnswerOpens`), `Admit`
finds the entry (`Admits`, by `InputKind`).

`SeatsImplemented == Spec => SeatsSpec`. Every step is a step of `Seats` or leaves the seats alone. The
gateway's steps move clients off their connections, or onto one that the game has no player on yet
(`Moves`: a free socket is one the game has no end of, hence no `Descriptor`, by `PointersAlive`); the game's
steps drop players, or make a key, or admit one (`GameKinds`). The one step that takes a seat is `Admits`: the client behind the
connection, if there still is one, holds the key, nobody else's seat has it, and the recorded host is
the client's (`AdmitsSeats`). `SessInv` says this of a living gateway only; a dead one keeps its table until it is restarted while
the game plays on, so the proof carries `SeatInv`, the same of every client's own
connection: it follows from `SessInv` as long as the gateway lives (`LiveSeats`), and the steps of and after its death
keep it (`DeadSteps`).

`NoCloseStrays == Spec => NoStrayClose`. `CloseSession` drops whichever client holds the key of the line, so the
property rests on where a key can be: in an answer, with a client, with a `Descriptor` that has asked for
the session or plays it, in a Close line. `LifeOf` says that it goes through these one after the other, on one
connection, which is its client's if that has one, and that once the Close line is written that connection has no player and
will not get one. It is inductive only with `SessionFirst` (a session is asked for once on a connection, in the
first line: a second request on it would admit a second player, or ask again after the Close) and `AnsweredOnce` (a key that is
sent twice would be held by two clients). All steps but three only move a key on: they lose answers and clients (`Loses`), read an
answer (`Takes`), or lose players and write their Close lines (`Fades`); `Host` makes a key that is nowhere (`NowhereKey`).

`GatewayLives == Orderly /\ Spec => []GatewaySurvives`. `disconnectDescriptorFromGameAndGateway` follows the server
connection of the descriptor it drops without a look, so a Close line must never name a client that has lost it.
A client loses it with the game, or is given its key when no game listens; the game might still write the line, or have written it.
That it cannot is `StaleKeys`: the key of such a client is in no Close line and, unless the game is done, with no player.
It needs an order of things on the mother connection: the Reboot line is the last (`RebootLast`), everything else is said
before; a game that is saving or gone says nothing (`DoneIsQuiet`); and the gateway gives up the connection only when it has
read it all (`MotherEmpty`) and the game is gone (`LostIsGone`, which is where the faults would come in). A game that takes
the port finds nothing said (`BindBegins`).

`RequestsUnderWay == Orderly /\ Roomy /\ Spec => []RequestUnderWay`. `Roomy` says that there are no more clients than
`pendingSessions` has room for. Without it the property is false (two clients and one place are enough for TLC): a `Host` that
finds the list full is dropped and nobody answers it; the client waits until the game ends. Without `Orderly` it is false too, by the break described above. The
invariant is `ReqInv`, on top of that of `GatewayLives`:

* `AskersServed`, the property by the lines of the queues: who waits has its `Host` in one of the two buffers on the
  way to the game, or its `SessionFor` or a Reboot on the way back;
* `AskedOnce`, which is why the list is never full: a client has at most one request or pending session with a game, so when
  its `Host` is processed the sessions pending are of other clients (`RoomLeft`). A client asks again only after its game
  is gone, and a new process starts with an empty list;
* `LastWord`: a game that is done has sent Reboot, as long as the connection stands (`DoneHow`);
* `Settled`: nobody waits while the gateway takes the game for gone or going. Reading a Reboot puts everyone back who waits,
  and `retrieveSession` is not called until a new game is connected;
* `MotherApart`: a `Host` arrives on the mother connection, which is never a player's, so no player's line or departure
  empties its buffer.

What a game that is done leaves unread is lost with it, and `AskedOnce` claims nothing of it: by then `LastWord` has the Reboot on its way.

The liveness properties of this part are out of the prover's reach.

## 4. Auction house

### Modules

* `Escrow`: what the house promises. `purse`, `held` (what it holds for each item
  of each player who has bid: nothing and 0 are not the same), `sale`. `List`, `Bid`, `Close`; money only moves between
  purses and the house, a closed auction stays closed.
* `AuctionHouse`: the code. Tables `auction` (`auctionItem`), `bids`
  (`auctionBid`) and `users`; `body`, a character's copy of its row and whether it
  is in `character_list`; per player the menu (`OLC_MODE`), the loaded auctions
  (`view`, the code's `aiCache`), the selection and the bid to confirm. A menu
  choice is one step, as `processInput` makes it. `UpdateAuctions` is a SELECT
  (`SelectExpired`), a payment per row (`PayExpired`) and an UPDATE (`Deactivate`)
  during which nobody else moves (`Idle`), but each of which may fail
  (`dberror`): the exceptions caught in `ReimburseLosers`, `RewardOwner`, `Refresh`,
  `placeBid` and those only caught outside are different outcomes.
* `MCAuction`: how often each event (`web` or `telnet` login after leaving, `death`,
  `dberror`) happens.

Prices, bids and money are integers of either sign. `SetStartingPrice` and `SetBuyoutPrice` (`olc.cpp:125-184`) are
given what `atoi` makes of a line (`auction.cpp:1363-1404`) and their fields are `int`, so a `-2` typed for the coppers is a
price of -2; `placeAuction`'s only condition (`auction.cpp:1273`) is that a positive buyout is not below the start, and a
buyout that is not positive is none. `isNumber` takes a minus sign too: where the start is -100 or less, a bid of 0 is enough.
Whoever bids less than 0 is given money, gives it back when outbid, and the owner pays it; the look at the purse
compares it with the bid and not with the raise. How wide the columns of the database are is not in the repository;
the model stores what it is given.

An item is listed at most once, bids have no timestamps (an auction's time
passes in one step, `Ends`), the least raise of 100 coppers is 1, and a player earns and
spends money in the auction house only, or loses it in a corpse. The sell menu is
one step, because nobody else sees its fields. A save of a character does not
fail, and happens when one leaves or dies.

### Refinement

`E == INSTANCE Escrow WITH purse <- Money, held <- Held, sale <- ...`: a player's
money is on the body or, if not playing, in the table; the house holds a player's
highest recorded bid while the auction is active and not yet paid in this round of
`UpdateAuctions` (`Open`). A payment is `Close`, a confirmed bid `Bid` (a
buyout includes the closing), everything else stutters; in particular
`Deactivate` does, which is the point: it must hit just those that were paid.

### Runs

| run | question | bounds |
|---|---|---|
| `auction_escrow` | the refinement (a bid of the buyout closes); no late bid | 3 players, 1 item, bids -1, 0 and 4, starting price and buyout -2 or 3, purses of 3, one return |
| `auction_live` | an auction whose time has passed is closed; a bid costs the raise, whatever fails | 2 players, bids -1, 2 and 4, starting price and buyout -2 or 3, purses of 3, 1 failure, 1 death, 1 Telnet login, in any order |
| `auction_retrieve` | *violated*: the item goes to the winner | 1 return |

Three players are a seller and two who outbid each other; with bids of -1 and 0
and a buyout at 3 a loser may have bid twice, a winner been outbid in between, and a
bid of 0 is held although it is worth nothing. A 4 is lowered to the buyout; without one only who
has been given 1 for a bid of -1 has as much. A start of 3 is met by the buyout of 3 only. The bidders are interchangeable, so the safety runs use symmetry (not
`auction_live`). Everybody may leave for good, so deadlock is not checked.

Fairness: the game loop calls `UpdateAuctions` every MUD hour as long as it runs
(`WF_vars(UpdateAuctions)`); players owe nothing.

### Proofs (`AuctionProofs`, on `ListProofs`)

Four theorems, for any number of players and items, and any integers as purses, prices and bids
(`AuctionAssumption` asks for no more than that, and that the least raise is positive).

`HouseCorrect == Spec => []HouseInv` has no hypothesis: any query may fail at any time, anybody die or come by
Telnet. `HouseInv` is what the code never gives up:

* `RowInv`: a row never written has no bids; a written one has an owner; no bid is above the buyout;
* `UpdateInv`: what `UpdateAuctions` still has to pay is among what it has selected, and all of that is active and its
  time has passed, which is why `Deactivate` hits just those that were paid;
* `ViewInv`: the bids a player has loaded are the first of those in the table, in the same order (`Earlier`), and an
  item `Refresh` has zeroed is over. This ties the cache to the tables without saying that it is fresh;
* `MenuInv`: who is in a menu is in the game and has loaded what is selected; nobody is asked to
  confirm a bid for an item of their own, and the bid was at least the next minimum, or the buyout, by what was loaded.

The other three add what each needs, as a hypothesis about `Limits`, and no more:

| theorem | hypothesis | without it |
|---|---|---|
| `NoLateBidsHolds` | no query fails | P2 and P3 have loaded the item, P2 buys it out, P3's `Refresh` fails, which keeps what it had: P3's bid is recorded for a sold item |
| `PaysTheRaiseHolds` | at most one query fails | a buyout is recorded, then `RewardOwner`'s query throws and the menu stays at the confirmation; a second `Y`, whose `Refresh` fails, records it again, and charges it in full, as the first is not among the bids loaded |
| `EscrowImplemented` | no query fails, nobody dies or comes by Telnet | *Bidding from the grave*, *Paid under the copy* below |

TLC finds the first two of these within seconds, with three bidders and one failure, and with one bidder and two failures.

`NoLateBidsHolds` follows from `RereadFacts`: what `Refresh` finds is active. `PaysTheRaiseHolds` needs
`OwnBidsSeen`: until the one failure, what a player has loaded has all of *their own* bids, because after each own bid the
menu is reset and what was loaded is dropped; so an old list is wrong about others' bids only, which cost nothing.
`EscrowImplemented` needs `Calm`: bids rise strictly (`Rising`), so one bidder is on top and `Losers` are just those whom
`Escrow` repays (`DueIs`; a bid of 0 is repaid as 0, who has not bid is nobody's loser), and an active auction has no bid of the buyout. `BidTaken` shows that the bid that was enough by
an old list is still enough by the new one, unless the player is told of being outbid: the number of bids is compared,
and that is enough only because a list of the same length is the same list (`Earlier`). Each action then
is `Bid` (`BidBids`), `Close` (`PayCloses`), `List` (`PlaceLists`) or a stutter.

`EndedCloses` is liveness and stays with TLC. `WinnerRetrieves` is false (see below).

### Counterexamples worth knowing

* *The loser's prize* (`WinnerRetrieves`). P1 leads and is asked to confirm a
  higher bid. P2 buys out; P1 is reimbursed. P1's `Y` refreshes the item, no active
  row is found, and `zero()` clears it, all but `BidQuery`. Back in the browser, it is
  an inactive, unretrieved item whose top bidder is P1.
* *Bidding from the grave*. The money is looked at when the amount is
  entered; the character dies at the confirmation, and the bid makes its gold
  negative.
* *Paid under the copy* (no run: the refinement speaks of rows and bodies). At the password prompt the row is
  already loaded; a refund in the meantime goes to the table, and a wrong password
  saves the copy over it.
* *Sold twice* (no run; two failures, see the table under "Proofs"): the owner's payment fails with the exception that leaves
  the menu at the confirmation, the next `Refresh` fails, and the same buyout is recorded and charged again.
* With a failing query more goes wrong than the properties of `auction_live` say:
  a loser whose payment fails is never paid, and if the last UPDATE fails, everybody is
  paid again an hour later.


## 5. Main loop and heartbeat

### Modules

* `LoopTiming`: `GameTickSchedule` and `DatabaseHealthSchedule` with the steps of
  `gameLoop` that use them, by a clock. `Wake` (`sleep_until` returns, `poll`),
  `Consume`, `Beat` (a heartbeat of the batch returns), `BatchDone`, `EndLoop`. Each
  happens at any time no earlier than the one before. `pulses`, `dropped` and
  `lastReconnect` are history; the rest is the code's state.
* `Heartbeat`: `event_list` with the events that end a bash (`BashStand`) and that
  call a weave's effect (`effMainCallback`); `wait` and `WaitingList`; `FLEE_GO`,
  `FIGHTING`, `is_bashed`, `BashStandQueue`; `life`, for `Extract` now and `PurgeQueue`
  later. `process_events` and `CheckWaitState` are one step per element, with their
  iterators (`cur`). A deed such as a bash changes several of these through nested
  calls, so the functions of the code are operators from a state to a state.
* `MainLoop`: `gameLoop`. An iteration polls, lets each player without a lag give
  a command (`Command`), consumes, and runs the heartbeats due (`Heartbeats`,
  which go through events, lags and the rest). `Happen` is what the rest of a
  heartbeat does: fights, scripts, mobiles, delayed commands, spells that wear off.
* `MCLoop`: how many deeds and delays a behaviour has.
* `Lists`: the loops over lists that this part and `Combat` (section 9) share, such as `Without`.
* `LoopProofs`: theorems about `LoopTiming` and `MainLoop`; `ListProofs`: lemmas about `Lists`.

Not modelled: where characters are (anybody may attack anybody, and a room has an
exit), positions other than a bashed one's sitting, the timers in the rest of the
heartbeat. `pulse` is not rolled over after ten hours; the period of `PurgeQueue`
divides it. An address of a freed `affected_type` may be given again at once.

### Runs

| run | question | bounds |
|---|---|---|
| `loop` | ticks, lags, bashes, effects | pulse 2, batch 2, ping 3, retry 7; delays 1, 3, 6; 2 players, 1 mobile, 1 address; new iterations until time 8 |
| `loop_lag` | *violated*: a lag ends | the fights only |

A behaviour of `loop` has one of five sets of deeds: up to 3 delays and 4 outages (a
delay of 6 is a stall beyond the batch, one of 1 falls between two deadlines, 3
passes one and a half); 2 bashes with 2 flights and a lag, the most that can add up
within 4 pulses; 2 bashes and a death; a bash, a flight and a death; and 2 weaves, a
cure, a bash and a death, with one address, so that the second weave reuses the
first one's. The clock and the characters do not disturb each other but through
the order of commands and heartbeats, so delays need not be combined with fights.
A bash lasts 2 pulses or, the strong one, 4; the purge comes at every second.
The two players are interchangeable. After the last iteration the loop may always shut
down, and `Over` stutters, so deadlock is checked.

### Counterexamples worth knowing

* *The endless lag* (`LagIsListed`). P2 is bashed, and waits. P1, who fought P2,
  flees; P2 has nobody left to fight and is relieved of `PULSE_VIOLENCE`. If less than that
  was left, `WaitState` removes P2 from `WaitingList` and leaves `wait` below zero.
  A player's next command clears it; but if P2 is bashed or delayed first, and always if
  P2 is a mobile, `wait` is not zero, P2 is not pushed, and the new lag is never counted
  down.
* *The neighbour's pulse*. `CheckWaitState` assigns what `erase` returns and the loop
  increments it: who is next on the list waits one pulse more.
* *Two calls for one effect*. An effect is recognised by its address. A
  cured one's event stays in the list; if the next effect of the same character gets
  the address, both events call it. `EffectsGoOn` says only that it is called.
* *Next-to-fire order*. `add_event` promises it ("sort the event into the list in
  next-to-fire order", `dg_event.cpp:43`), but its loop goes on while events are due
  later, so behind the head the list is in no order. `process_events` visits every
  event, so they fire when due all the same, but for an effect
  put behind its own event: it is counted down at once and fires a pulse early.

### Proofs (`LoopProofs`, on `ListProofs`)

`TicksAccounted`, and `NeverAhead`, `DropsOnlyInStalls` and `RetriesSpaced`, which no run repeats, for every interval, cap,
period and delay (`TimingAssumption`: all positive), of the whole `MainLoop`.

`TimingInv` is the inductive invariant. `TicksAccounted` alone is not: `consume`
overwrites what is due, so nothing may be due between batches; `RetriesSpaced`
needs that in an outage `nextReconnect` is `RetryEvery` after the last reconnect. One
lemma per step; `PassedFacts` is the arithmetic of `consume`: with `q` whole
intervals since the deadline, `1 + q` deadlines have passed, and more than a batch
have only if `q` is at least the batch (`DivFacts`, `Monotone`). `LoopStepsTiming`
maps each step of `MainLoop` to a step of `LoopTiming` or to none, which gives
`LoopImplementsTiming == Spec => TimingSpec`; the invariant is then carried over.

`WaitsOnce`, `StandsUp`, `EventsOfTheLiving` and `EffectsGoOn`, for any number of
characters, effects, deeds and pulses (`HeartbeatAssumption`: periods and lags are
positive, `None` is nobody). `LoopInv` is the inductive invariant: the state that deeds
pass on is `Good`, and `Cursor` says where the iterators of a heartbeat may point.
`Good(S, x)` has five parts, each of which another one needs:

* `Foes`: only those who are here fight. Else `performFlee` could relieve, and so
  bash anew, one who has been deleted.
* `Lagged(S, x)`: `WaitsOnce`, but for `x`, whose `wait` the walk has just counted down to 0
  and who comes off the list in the same step, with a flight in between that may bash
  somebody else.
* `IdsOnce`: no two events share memory. Without it `remove_event` could take off more
  than what was called, and `BashStandQueue` could point to an effect.
* `Upright`: `BashStandQueue` is the set of the "stand" events, one for everyone who is
  bashed and not deleted. `StandsUp` alone does not say that a "stand" event has an entry.
* `Effects`: events of effects are about those who are here, a stronger fact than
  `EventsOfTheLiving`: `Extract` clears them at once, `PurgeQueue` deletes later.

One lemma per function of the code says that it keeps `Good` (`BashKeeps`, `GoneKeeps`,
`FleeKeeps`, `HitKeeps`, `ExtractKeeps`, `AffectKeeps`, `CureKeeps`, `DeleteKeeps`); a
call of them is a chain of these. An event that is called is the hard case: `Stand` is not `Good`
until its event is removed, so `FireKeeps` is about the call and the removal together.
`FreeIdFacts` (a free id exists: fewer events than numbers), `InsertFacts`, `WithoutFacts` and
`WithoutOnce` are what the lists do. `Without` is recursive, so its lemma needs an
induction; `Least`, `Induct` and `Recursion` derive one over sets of naturals from the
well-foundedness of `<`, without an operator as a parameter.

## 6. Background threads

The game process has one main thread; the only others are these, and what they share
with it are queues. Each part shares nothing with the other parts, so `MCGame` explores them one at a
time (`part`), and with them the objects of section 8: a behaviour is one of one part, with the others at rest, and the size of
the run is the sum of theirs.

### Modules

* `ParallelFileLoader`: the pool that reads script files. The worker of `workerLoop`
  is `NextPath` (wait and pop), `Load`, `Count`; the user's calls are `Submit`, `SubmitAll`, `Wait`,
  `Take`, `Finish`, `Join`. Both condition variables are the set of threads asleep in them,
  so a notification that comes too early is lost, and one may come for nothing (`Spurious`).
* `ThreadedJobs`: `addJob` starts a detached thread (`Routine`, `Unlist`, `Hand`), and the
  heartbeat runs what follows (`CycleBegins`, `Post`, `CycleEnds`, under `finishedJobsMutex`). At boot
  the zone threads call `get()`, whose test and allocation are not atomic, so the model has a manager per
  thread that allocated one.
* `MessageLog` (abstract) and `ThreadedLogFile`: two queues and a thread that swaps
  them, goes through `*flushQueue` entry by entry (`flushed`), complains into the log itself when the
  directory is missing or the file does not open, clears the queue, and
  drains once more after `terminate`. `Log == INSTANCE MessageLog WITH ...` is the refinement.
* `ScriptImports`: from an edited script to the running game, through two threads, a table and a pair of queues.

### Runs

| run | question | bounds |
|---|---|---|
| `game` | no lost wake-up, no deleted job on a list, log order and drain, edits arrive | 3 workers, 3 files; 2 zone threads, 2 later jobs; 5 messages; 2 scripts, 3 edits, 3 seconds, 1 failed query |
| `game_imports` | *violated*: what is queued is compiled | the imports only, main thread may stall |

Three workers of which one sleeps, one reads and one is between two states; five messages
are enough for two swaps with messages on both sides; three edits for a file edited again
while its first row is on its way. Each part really comes to rest (the pool is joined, the jobs are
deleted, the log is closed), so deadlock is not checked.

Fairness: every thread runs (`WF` per thread); the user that submits, the builder who edits and the game that stops owe nothing.

### Proofs (the first part of `GameProofs`)

For any number of jobs, zone threads and messages.

* `JobsListedLive` (`ListedJobsLive`) and `NoJobDeletedTwice`. `JobsInv` says who owns a job in each
  state, and, for a cycle under way (`cycled`), that exactly the first `cycled` entries of the manager's
  finished list are deleted: without that conjunct `Post` could meet a deleted job, as the code deletes
  before it erases. Nothing is assumed of the managers: there may be several.
* `LogKeepsPromise`: `LogSpec => KeepsPromise`, that is, `ThreadedLogFile` refines `MessageLog`, each step
  being a step of it or none. `QueuesInv` says that `*flushQueue` from entry `flushed` on,
  followed by `*writeQueue`, is all that was logged and is not through, in order, and
  `StopInv` that after `terminate` one more swap is to come until the last round has begun.

### Counterexamples worth knowing

* *The lost import* (`QueuedIsCompiled`). `monitorScriptImportTable` swaps the queues, clears
  the one the main thread had, and deletes the new one's rows from the table. If the main thread
  has not come by since the last swap (it may be away for more than five seconds: a save of the world, a
  slow query), those imports are gone from the queue and from the table. `ScriptsReload`
  holds while the heartbeat comes by between two swaps (`MainStalls = FALSE`), which is the assumption the
  code makes.
* *An edit in the same second* (`EditsCollide`). The scanner compares seconds; a file saved twice in
  one second after a scan is not seen the second time. The run excludes it.
* *Two managers*. Two zone threads find `pSelf` null; the job of the first
  is added to a manager the heartbeat never looks at: its thread runs, its cleanup in the
  main thread never happens.

## 7. Logging in and out

### Modules

`PlayerLogin` has the descriptors (`desc`: state, `character`, `original`, `loggedIn`,
`snooping`, `snoop_by`), the characters in memory (`body`), `PlayerTable` (`table`) and the
`users` table (`row`). A `Character` is a *copy* only its descriptor points to, a
member of `character_list` ("in"), or extracted and waiting for `PurgeQueue` ("purged");
of its contents only an age is kept, counting what the player did with it.

* `Descriptor::nanny`: `GetKnownName`, `GetNewName`, `HangUp`, `NameYes`, `NameNo`, `NameBanned`,
  `WrongPassword` (which saves the copy), `Password`, `FinishCreation`, `IllegalState`. The menus
  between the name and the last creation step touch only the copy and are one state.
* the web client, whose commands are obeyed in every state of the descriptor (`SendsCommand`): `WebSignIn` asks
  nothing but that `character` is null, and does the whole login in one step; `WebCreate` ("User Creation",
  `Descriptor.cpp:947`) does not ask even that; `WebRefused` is either of them from a banned site, or a sign-in to a restricted game.
  (A "User Creation" from a banned site logs the name of the descriptor's character before it closes the descriptor, line 1038,
  and if there is no character it reads through a null pointer. A game that ends there is not followed here.)
* `performDupeCheck`: `Targets` is whom it finds (first a descriptor's body, then a linkless one),
  `DDupes`/`BDupes` what it undoes, `Reconnect` what it does.
* out again: `Quit` (and rent), `Idle`, `Purge`, `Lost`, `Timeout`, then `Kick` and `PurgeQueue`.
  `DExtracted`/`BExtracted` are `Extract`, `DCleaned`/`BCleaned` are `cleanup`.
* `phase` is the place in the game loop: commands; sockets and the kick pass; heartbeat. Within
  a phase any number of commands come in any order, more than the code's one per descriptor.

`Risks` names three sequences the clients may play, each of which the code does not stand:

* `"twins"`: two dialogues create the same name: both are asked only about bans, and both create;
* `"hasty"`: a login while the last body of the player is extracted and not yet deleted: `performDupeCheck` reconnects
  the player to it, and `PurgeQueue` deletes it;
* `"recreate"`: a web client that has a character sends "User Creation" all the same. `Descriptor.cpp:1057` puts the new
  character in the place of the one that plays, which stays in `character_list` with its `desc`.

The run leaves all three out. With `"twins"` TLC shows two entries of one name, with `"hasty"` a player in a deleted
body, and with `"recreate"` a body with a descriptor that has another (`Wired`, in four states) and, if only `OneBody` is
asked, a player with two bodies, in six (see below). What the run says of this part is
therefore said of clients that play none of the three, and what the theorems say of those that do not play the last two.
"User Creation" on a descriptor that has no character is in both, in every state, also when it is about to be closed.

### Runs

| run | question | bounds |
|---|---|---|
| `characters` (part `login`) | one body per player; pointers agree; snoops agree; nothing older enters than what left | 2 connections, 3 characters in memory, an immortal, a player to be created, a mobile |

Two connections are what a duplicate login needs, and three characters are a copy at a password, a body
and an extracted one. The dialogue may always be abandoned; somebody can always connect, so deadlock is
checked.

### Proofs (`LoginProofs`)

`LoginWired`, `LoginOneBody`, `LoginSnoopsPair` and `LoginBackWithAll`, for any number of connections, players,
characters and ids, under two hypotheses: nobody logs in while the player's last body awaits
`PurgeQueue` (`"hasty" \notin Risks`), and no web client that has a character sends "User Creation"
(`"recreate" \notin Risks`). Without either `OneBody` and `Wired` are false of the code. Dialogues that
create one name twice are allowed: what they break is not among these four.

None of the four is inductive, nor are they together: `LoginInv` adds

* `StatesOK`: what a descriptor's state says of its character. A dialogue has a copy or
  nothing (so `performDupeCheck` may delete it), only immortals are switched, and who is extracted has no
  commanding descriptor when `PurgeQueue` comes;
* `BodiesOK`: who has an id is in the users table, so a new row is nobody's;
* `KeptOK`: rows, bodies in the world and copies *at the password* are not older than `left`. The last is why
  `Quit` and `Idle` send the player's other descriptors away before they save.

The order of the argument is that of the code: what `ForgetSnoops`, `do_return`, `SendAway` and
`performDupeCheck` make of the arrays (`Forgotten`, `DescAttached`, `Told`, `DupesDesc`, `DupesBody`), what leaving (`Leaving`),
closing (`Cleaned`) and arriving (`Arriving`) keep, then one lemma per group of actions. `BackWithAll` follows
from `KeptOK` after the step and `LeftGrows`.

### Counterexamples worth knowing

* *The timed-out immortal*: no property, a behaviour of the model. An immortal switches into a mobile and logs in again from
  elsewhere. Case `UNSWITCH` connects the new descriptor to the body but leaves `loggedIn` false; after fifteen
  rounds of `checkIdlePasswords` it is closed with "Timed out... goodbye."
* *The body left behind* (no run, but `Risks = {"recreate"}` in `MCCharacters.cfg` shows it). A web client signs in and
  plays; it sends "User Creation" with a new name, and its descriptor has a new character in the world
  (`Descriptor.cpp:1057`). The old one stays, with a `desc` that points at a descriptor that knows nothing of it, and at
  freed memory once that is closed: `cleanup` clears the `desc` of the descriptor's character only. When its
  player signs in from elsewhere, `performDupeCheck` finds no descriptor of the player and passes over the body,
  because it has a `desc` (`interpreter.cpp:701`): a second body comes from the row, without what was done since the
  last save, and the two are saved over each other. A snoop on the old body links to whoever has the descriptor. The model
  has descriptors in slots, so there the stale `desc` names the next one in its slot; what the code does through the
  stale pointer is undefined, and not followed further.
* *Two implementors*. One who switches into the empty body of another immortal is disconnected when
  that one returns, and `cleanup` then clears the `desc` of the body it no longer has. Implementors in players' bodies
  are left out of the model, and this with them.

## 8. Objects and the table they survive in

### Modules

`ItemSaving` has every object twice: who holds it in the game (`where`: `carried_by`, `in_room`, `in_obj`)
and its row (`saved`: `holder_type`/`holder_id` and `top_level_holder_type`/`_id`, `NoRow` if it has none).
`link` says whether a player is in `character_list` and has a descriptor, `prompts` of whom a copy waits at the
password, `corpseRooms` is `Room::corpseRooms`.

* A save is what `saveHolderItems` sends: delete what was saved under the top-level holder, put into limbo the
  rows inside the objects to be saved, delete the rows of these, insert them. `Statements` is the table
  after each; nothing is a transaction, so a command is either all its effects or a crash with the
  table of one of the statements between (`Command`).
* `Character::itemSave`, `Room::itemSave`, `Object::itemSave` are `ItemSave`, `Room::corpseSave` is `CorpseSave`.
  Only vaults and chests are saved when they change (`AtOnce`); what is taken from a vault is unsaved first (`Unsave`,
  from `RemoveFromRoom`).
* Commands: `GetFromRoom`, `GetFromContainer`, `GetCoins`, `DropItem`, `Give`, `Put`, `SaveCommand`. A
  command on "all" is these, one after the other; wearing is a way of carrying; whether a corpse has coins is left open.
* Coming and going: `AskPassword`, `Enter` (`completeEnterGame` loads the objects), `LoseLink`, `Relink`, `Rent` (also what
  `check_idling` does), `QuitWithout` (a mortal's quit: all is dropped, then nothing is saved),
  `Die`, `Rot`.
* The game: `AutoSave`, `ShutDown` (`initiateGame` after its loop: `rentSave` and `Extract` for the
  character of each descriptor, the linkless afterwards) and `Crash`; each of the last two ends with `Boot`, which reads
  the rooms' and the chests' rows as `Room::bootWorld` and `preloadChestItems` do. At shutdown only the order of a copy and the body of
  the same player is varied: other orders differ in whose rows are written first.

### Runs

| run | question | bounds |
|---|---|---|
| `game` | nothing is there twice, absent players keep all, a save spoils nobody else's record, a full save is full | 2 players, a vault, another room, a chest, one plain object and one bag (part `bags`) or one corpse (part `corpses`), one stop or crash |
| `items_stored` | *violated*: what was rented is there after an orderly end of the game | the part `bags` |

Two players are needed for an object to change hands between two saves, a bag or a corpse for a row whose holder
moves elsewhere. One stop is enough for a crash between any two statements and whatever comes afterwards: what a second one meets
is a state the first left. Corpses and copies at a password are not explored together.

* `NothingTwice` rests on the limbo UPDATE: without it (its mutant), q's row says that a coin is in the bag that p has
  since been given and saved, and p brings the coin q still holds.
* `AbsentKeepAll` and `SavedInFull` are about the loops that choose whom to save, `SavesKeepOthers` about
  the deletion by top-level holder: `corpseSave` of a vault would delete what else lies in it, and `MoveToRoom`
  keeps vaults out of `corpseRooms`.

### Proofs (the second part of `GameProofs`, on `ListProofs`)

For any players, rooms, chest and objects, finitely many, of disjoint kinds (a row has one letter for each kind of holder:
`ItemAssumption`): `ItemsTyped`, `NothingTwiceHolds`, `AbsentKeepAllHolds`, `SavedInFullHolds` and `SavesKeepOthersHolds`, all of
`ItemsSpec`, in which copies at a password and corpses come together.

* The invariant, `ItemInv`, is `NothingTwice` and the types; but the type of `saved` is `Rows`, tables that are `Matched`: the
  row of what a player carries has that player as top-level holder, the row of what is in something has the top-level holder of
  that thing's row, or the thing itself. Without it a save could clear, by top-level holder, half of what another player would
  load by holder.
* What is under something (`Under`) is a fixed depth of unfoldings in the model; by induction on its levels (`UnderLevels`),
  `UnderFacts`, `UnderLeast`, `UnderMono` and `UnderUnion` say of it what a closure promises. That the levels are enough,
  `UnderClosed` shows by counting: each level that is not yet closed has one container more than the one before.
* A save spares a player (`Spares`) if that player is not among its top-level holders and nothing it saves is among what the
  player would load. `SaveKeeps`: each of the four statements of such a save leaves what the player would load as it is.
  `TablesKept`: so does a sequence of them, at whichever statement it breaks off. Every command, and the end of the
  game, is a sequence of saves that spare everybody who is out: that is `NothingTwice` once more, as what is stored for them is
  nowhere in the game, and a save takes what it saves from the game. The copies at a password are the exception, and the reason
  for the hypothesis of `AbsentKeepAll`.
* `SavedInFull` is the converse: `LoadsSaved` (what `Character::itemSave` writes is what `Character::loadItems` reads), and the saves
  that come later spare who was saved (`AutoSaveFull`, `ShutDownFull`; what was rented is gone from the game when the next character's turn comes).

`SavesKeepOthersHolds` is about every row in the table and not only those of players who are out: an object that stays where it
is, with all it is in, and has its true row, keeps it through whatever the others do and save.

* It needs a second invariant, `Standing`. In the game, nothing is in circles or in what is not there (`Grounded`; here the guards
  of `put` come in: what a player can reach is not in another thing). In the table, a row directly under a player, a room or
  the chest has that holder as its top level, and in a room that is no vault only corpses have rows (`Filed`). And
  `corpseRooms` has no vaults.
* A save is `Faithful` to the objects that did not move if it files them where they are, and saves again whatever of them its
  deletion clears; the saves of which that is true are `Trusty`. `SaveRecords`: such a save leaves a true row true, if the rows of all
  the object is in are. If its top level was cleared, one of these has that top level as its holder (`Grounded`, `Filed`), is
  therefore saved again, and everything in it with it (`UnderClosed`). `RecordsKept`: so does a sequence of such saves.
* `HolderTrusty`, `UnsaveTrusty`, `DropsTrusty`, `AutoSaveTrusty` and `LastSavesTrusty`: the saves the code makes are trusty. `corpseSave`
  is one only for a room that is no vault, the reason why `MoveToRoom` must keep vaults out of `corpseRooms`. What
  is above the object stays above it (`ChainStays`), and each command keeps the game grounded, as a login and a boot do:
  they bring the rows of one holder back (`CarriedGrounded`).

### Counterexamples worth knowing

* *The stored belongings* (`BelongingsStored`). A player rents; then somebody enters that name, and a copy of the player
  waits for the password when the game shuts down. `initiateGame` calls `rentSave` for the characters of all descriptors, and
  this one holds nothing: all rows of the player are deleted and none is written.
* Told here and in no property: coins taken from a corpse save its contents under the corpse as top-level holder (`'O'`), and a
  boot, which reads by `'R'`, does not find them; the corpse is empty after a crash until the next autosave has put
  that right. Two chests in one room have the same key. "This function will completely re-synchronize a
  container's contents" (`objsave.cpp:791`) holds by top-level holder, not by holder. A crash inside a save costs that holder what the
  deletion took. `autoSave` does not advance over a room that no longer exists.
## 9. Characters in the world

### Modules

`Combat` has the pointers between characters that nearly every command, script and round rewrites: where one stands
(`room`, `people`), whom one fights (`foe`, the code's `FIGHTING`), leads and follows (`master`, `followers`), rides
(`mount`, `rider`); `combat_list` (`list`) and `next_combat_list` (`cursor`); `CharPurgeList` (`purged`) and who is
not in memory (`out`). All of it is one record, `world`, because the code's methods call each other: each is a function
from a world to a world, named for what it has done, and an action is the composition its handler makes.

| code | in `Combat` |
|---|---|
| `StopFighting`, `SetFighting`, `SetNewFighting` | `Stopped`, `Engaged`, `Deserted` |
| `RemoveFromRoom`, `MoveToRoom`, `Dismount` | `Left`, `Arrived`, `Dismounted` |
| `stopFollowing`, `add_follower`, `die_follower`, `circleFollow` | `Unfollowed`, `Followed`, `Forsaken`, `CircleFollow` |
| `Extract`, `Die`, `~Character` | `Extracted`, `Died`, `Deleted` |
| `damage`, `hit`, `HitAllFighting`, `faceoff`, `performFlee` | `Provoked` and `Struck`, `Hit`, `HitAll`, `Faceoff`, `Fled` |
| `perform_violence` | `RoundStart`, then a `Turn` for each; `turn` is the loop's `ch` |
| commands | `Attack`, `Skill` (bash, kick), `Assist`, `Rescue`, `Shadowstep`, `StepBack`, `Walk`, `Follow`, `FollowSelf`, `Ungroup`, `Ride`, `Alight` |
| from outside | `Travel`, `Teleport`, `Void`, `Perish` (a weave that lasts), `Vanish`, `Load`, `PurgeChars` |

`Struck`, `Hit`, `Blows` are sets of worlds, one for each way a blow may go: it is stood, the victim flees to any room,
or dies. A fight trigger (`Triggered`), run with the cursor already moved on, may extract, move or stop either of the
two. Left open, so that any choice the code makes is among the model's: skills and damage, positions and lag, who belongs to a
group, how crowded a fight is, which rooms have exits. A fight trigger does not start another fight, and immortals, whom
a deathtrap spares, are left out. A gate's followers step through one by one.

### Runs

`characters` explores `PlayerLogin`, `Combat` and `Guilds`, which share no variable, one at a time (`MCCharacters`); `Combat` again in parts, with
two rooms, a deathtrap, a start room that is one of the two, and:

| part | who | what for |
|---|---|---|
| `duel` | a player and a horse | everything two can do, the deletion of one under the other included |
| `fights` | two players, a mobile | rounds among three, who neither follow nor ride |
| `brawl` | two against two, in one room that only one leaves; blows, skills, assists and rescues, no rounds | who turns to whom when a foe leaves, and targets covered by others |
| `riders` | two players, a horse | leaders and horses without fights, horses mounted by another |
| `herd` | a player, a mobile, a horse | as before, with columns of leader, follower and horse |

Three are what a cursor needs to be moved on by another's turn (`fights`), four what a fighter needs to have a second foe to
turn to while another fights on (`brawl`). The parts without fights keep the numbers down: a leader and a fight meet in `duel`
(a pet struck by its master). One player can shadowstep. Somebody can always be loaded or do something, so deadlock is checked.

* `FightsListed`: foes stand in one room, and whoever fights is on `combat_list`, once. It rests on `RemoveFromRoom` turning the attackers
  of one who leaves (its mutant does not) and on `MoveToRoom` and `Die` stopping both.
* `FairRounds`: nobody has two turns in a round, nobody who was listed and fights on has none. It rests on `StopFighting` moving
  `next_combat_list` on, and on `SetFighting` putting newcomers at the head, behind the cursor. Without the former, a
  turn is given to one who has left the list, whose `next_fighting` is null, and the round ends there.
* `LeadersAgree` and `NothingDangles`: both directions of each pair of pointers agree, but for riders as told below; after
  `PurgeQueue` nobody names the deleted.
* `NoCoreDump`: `SetFighting` of one who fights, `add_follower` of one who follows, and `stopFollowing` of one who does not call
  `core_dump()`; no sequence reaches them. `do_rescue` and bash must stop before they set.

### Counterexamples worth knowing

* *Out of the shadows*. `perform_shadowstep` sets `FIGHTING` itself (`act.offensive.cpp:2404`). If the victim is already
  fighting, `damage` calls neither `SetFighting`, and the greyman fights without being on `combat_list`: he strikes no blow until his
  fight ends. `FightsListed` excepts him (`stepped`).
* *The dead horse*. "Extract a ch completely from the world" (`handler.cpp:1451`), but a rider keeps his extracted horse until
  `PurgeQueue`; if he moves within that second, `SimpleMove` puts the purged horse into the new room, and `~Character` takes it out again.
* *The stolen horse*. A rider who is moved without his horse (the void, teleport, trans) keeps `MOUNT`. Another may
  mount it, for its rider is elsewhere. Then `RIDDEN_BY` names the new rider only, and when the horse is deleted, the
  first rider's `MOUNT` dangles: his next step reads freed memory. `NothingDangles` excepts him (`robbed`), and
  he does nothing in the model from then on that would follow the pointer.
* *The astray walk*. `HitAllFighting` keeps the next in the room before a blow; if that blow makes the next one leave (the
  horse of a rider who flees), the walk goes on in the other room, or ends.


### Proofs (`CharacterProofs`, on `ListProofs`)

`FightsListed`, `FairRounds`, `LeadersAgree`, `NothingDangles` and `NoCoreDump`, for any number of characters and
rooms, with every player able to shadowstep. `CombatInv` is the inductive invariant; `CombatHolds` proves it once and
the five theorems follow from it. It says of the record `world` that it is `Sound`, that is, well-typed and:

* `Placed`: `room` and `people` agree, each character is in a room once, and the deleted are in none;
* `Listed`: who is on `combat_list` fights, once, and who fights is on it, in the room of the foe and is not that foe;
* `Led`: `master` and `followers` agree, nobody is listed twice, nobody follows in a circle of two, and the extracted
  and the deleted neither lead nor follow. `LeadersAgree` alone is not enough for `die_follower` to end with an empty list;
* `Ridden`: a horse's rider rides it, a rider's horse has that rider unless `robbed`;

and of the round, `Walked`: those with a turn to come (`due`) are `turn` and who is behind it, and none of them has had one.
The deleted are not looked for in `foe`: they are in no room, hence fight nobody and nobody fights them.

Every function of the code has a lemma that says what it keeps: the fights (`StoppedKeeps`, `EngagedKeeps`,
`DesertedKeeps`), the places, the pairs of riders and of leaders (`DismountedKeeps`, `UnfollowedKeeps`, `FollowedKeeps`,
`ForsakenKeeps`), and from these `ExtractedKeeps`, `DiedKeeps`, `StruckKeeps`, up to a whole column of followers
(`ColumnFacts`, `WalkKeeps`) and a whole room of blows (`HitAllKeeps`). Between two such calls the cursor of the walk is
`world.cursor`, no longer `turn`, and `Good` is what they pass on; an action outside a round needs `Calm`, that
no walk is under way. Two of them are the crux. `CursorFacts`: a cursor moved on past those who leave the list, and
no other, has the same ones before it, which is what `StopFighting` does; and `FightsAdded`: who is put at the head of the list
is not behind the cursor. `DesertedKeeps` is where `SetNewFighting` sets several foes at once: each attacker turns to one
who fights him, in the same room, so `Listed` holds of the new pairs too.

`ListProofs` has what the loops over lists compute: `WithoutFacts`, `WithoutOnce`, `CutFacts`, `ForemostFacts`,
`BackwardFacts`, `JoinedFacts`, `ConcatFacts`. The loops are recursive functions over a list's length, so these need the
induction of section 5.
## 10. Guilds

### Modules

`Guilds` has the five tables that `GuildUtil` keeps in maps (`tables`: applications, signatures, guilds, members,
applications to join), the same in the database (`stored`), and the top of every player's menu stack with what it is about
(`screen`). One line typed at a menu is one action. `Show` opens a menu, after the check of its `preReqOperator`; `Store` is a
handler that writes rows. The checks that come with the opening are in `MayDecide`, `MayAdmit`, `MayCreate`, `OpenJoin`; those of
`Sign`, `RemoveSignature` and `ApproveSignature` come with the line itself.

A handler's rows are a list: `Changed` is an old row with another status, `New` the next one of its table, `Orders` the order
in which a handler goes through a set of rows. `PutFirst` is what the first of them make of the tables.
`StoreDataObjectSQLBuilder` writes one row at a time. An old row has been changed in memory before its query, a new one enters
the maps after it. If a query fails the handler ends there, and the menu stays or is closed, by the type of the exception; a
crash may come between two queries; either way `torn` remembers which rows the handler was about. `Reboot` loads the tables and forgets
the screens.

Left out: ranks and roles (never loaded at boot); denying a signature, because its `preReqOperator` returns "Done.", so the menu
never opens (`GuildEditorInterface.cpp:767`); names, race, level and the price, which say only who may apply. Nothing in the
menus ends a membership or decides an application to join.

### Runs

The parts of `characters`, with two mortals, two gods (who may sign too) and guilds that need two signatures (three in the code):

| part | what | bounds |
|---|---|---|
| `mishap` | a founding, with one failed query or crash at any write | one god; one application, 3 signature rows, so that one can be taken back and given again |
| `gods` | a founding with two gods, each with a menu open | one application, signed by all three others, one more than it needs |
| `second` | applications and signatures before any is admitted | two applications, 2 signature rows |
| `joins` | a founding, then who is no member asks to join | two applications to join; one mishap among them |

Where there is only one application, one of the two mortals, who are alike, is the one to write it. Somebody can always open or leave a menu, so deadlock is checked.

* `Backed`: what the gods have before them, or have decided, has signatures of enough others, and each guild has those and the
  founder for members, once each. It rests on signatures being taken back only while the application is pending, and on
  `Sign` looking for one that the same player has not removed.
* `StaysClosed`: over every step and reboot, a decided application is not open again. The owner's menu to admit signatures sends
  it to the gods without a look at its status; it is closed by the approval that does so, and only he has it.
* `OneAtATime`: nobody has two open applications, or two to join. Both are checked when the menu opens, and hold because sending closes it.

### Counterexamples worth knowing

* *Two decisions*. Two gods open their menus; one denies, the other approves afterwards. The application is approved, with the other's
  reason for denial; if both approve there are two guilds of the same members.
* *Two guilds*. A player may sign several applications, and is made a member of each guild that comes of them.
* *Everybody's applications*. "Remove Join Application" in a guild's menu removes what `getGuildJoinApplications` finds for the player
  and the guild (`FoundJoins`): all of the player's own, for whichever guild, but, for one who never wrote any,
  everybody's for this guild (`GuildUtil.cpp:695-698`).
* *The withdrawn signature returns*. It is changed in memory, its query fails, and the next boot has it as before.
* *Approved, but no guild*. The application is stored as approved before the guild is; after a crash between, no menu leads to it again.

### Proofs (`CharacterProofs`)

`Backed`, `OneAtATime` and `StaysClosed`, for any number of mortals, gods, rows, mishaps and required signatures; the only
assumption is `GuildsAssumption`. `GuildInv` is the inductive invariant (`GuildInvHolds`). No property is inductive alone: each rests
on what a menu was opened for being true still when its line is typed. `GuildInv` says

* `GuildsTyped`: the tables hold rows, with ids from 1 on without gaps;
* `Alike`: memory and database are the same, but for the status of what is `torn`, so that a boot brings nothing unexpected;
* `Referred`: signatures, guilds, members and screens are about rows that exist, and nobody signed for himself;
* `MenusHold`: who has the menu to admit signatures, or to create or to join, may still do so, and the gods' menus are about applications
  that are no longer pending;
* `SignedOnce`: a player has one signature on an application, apart from removed ones. Without it the signatures that are counted
  would not be as many signers;
* `FoundedLate`: there is no guild of a pending application, so no signature changes under a guild;
* `Single`, and `Backed` itself.

All but the first three are about rows no mishap hit. Of a handler that ends early one shows only that it `Stores` proper rows
and is about what it changed (`ChangesStored`, `NewStored`): by `Failed`, memory and database are then alike but for `torn`, and by
`Aftermath`, for which a boot is one case among others, the rest of the invariant follows from `Grown`: old rows that are not lost did not change.
`Succeeded` and the lemma of each handler (`SignStep`, `DenyStep`, ...) treat the handler that reached its end.

A founding is the handler with many rows. `FoundingWrites` says what they are, `FoundingPut` what the first n of them make of the
tables (`Founded`: the status, perhaps the guild, perhaps some of its members), `FoundersOnce` that the founder and the signers are different people,
and `SignersCounted` that there are as many as admitted signatures. `ClosedStored` is to `StaysClosed` what `Stores` is to the
invariant: a handler stores nothing about a decided application, or decides about it. Only `ApproveSignature` could reopen one, and `MayAdmit`, kept by `MenusHold`, forbids it.

## 11. What is not modelled

* Commands, spells, mobile behaviour, formulas, formatting, editors: independent
  operations on one record with nothing between them for a model to check.
* Vendored code (`jsoncpp`, `md5`, `sha1`, SpiderMonkey bindings) and the 1,000
  JavaScript files of world content.
* SQL itself: a query is the change of rows it makes, and it may fail where the
  code handles or forgets that.

Model-checked on the stated bounds and not proved is what is said under fairness, which is out of the prover's reach:
`ClientServed`, `GameComesBack`, `EndedCloses`, `PoolCloses` and `ScriptsReload`. Every other property of a run that
passes is stated by a theorem.

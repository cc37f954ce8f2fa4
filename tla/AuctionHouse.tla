----------------------------- MODULE AuctionHouse -----------------------------
(***************************************************************************)
(* The auction house (src/src/auction.cpp): the tables auctionItem,        *)
(* auctionBid and users, the players' copies of their own row, and each    *)
(* player's menus with the auctions they have loaded.  The game is one     *)
(* thread: a menu choice is one step, and UpdateAuctions a series of       *)
(* statements in which nobody else takes a step, but any may fail.         *)
(*                                                                         *)
(* An item is auctioned at most once.  The money of a player who is not    *)
(* playing is in the users table; that of one who is, on the body.         *)
(***************************************************************************)
EXTENDS Integers, SequencesExt

CONSTANTS
  Players, Items, None,
  Sellers,      \* the players who may have an item at first
  Amounts,      \* what may be typed as a bid: isNumber takes a minus sign
  Prices,       \* what a starting price or a buyout may be set to: they may be
                \* negative too, and a buyout that is not positive is none
  Purses,       \* the money a player may have at first, on the body or in the bank
  Increment,    \* the least raise (100 coppers, GetNextMinBid)
  Limits        \* how many events of each kind a behaviour may have

\* web, telnet: a player who has left comes back.  death: a character is killed.
\* dberror: a query fails.
Events == {"web", "telnet", "death", "dberror"}

ASSUME AuctionAssumption ==
  /\ Sellers \subseteq Players /\ Amounts \subseteq Int /\ Prices \subseteq Int /\ Purses \subseteq Int
  /\ Increment \in Nat \ {0}
  /\ Limits \subseteq [Events -> Nat]
  /\ None \notin Players \union Items

VARIABLES
  users,     \* users[p]: gold and bank_gold in the users table
  body,      \* body[p]: the copy in memory, and where it is
  auction,   \* auction[i]: the row of auctionItem
  bids,      \* bids[i]: the rows of auctionBid, in the order they were made
  copies,    \* copies[i][p]: how many objects with the id of i p carries
  chosen,    \* UpdateAuctions: the auctions its SELECT has found, ...
  todo,      \* ... and those of them not paid yet
  menu,      \* menu[p]: OLC_MODE
  view,      \* view[p][i]: aiCache, what p has loaded of auction i
  sel,       \* sel[p]: the selected item
  req,       \* req[p]: the bid to confirm (bidRequest)
  budget     \* what is left of them

tables == <<users, auction, bids>>
update == <<chosen, todo>>
screen == <<menu, view, sel, req>>
vars == <<tables, body, copies, update, screen, budget>>

Menus == {"none", "menu", "browse", "item", "amount", "confirm", "over", "outbid"}
\* out: not in memory.  login: held by a descriptor that has not entered the
\* game, and not in character_list.  in: in character_list.
Places == {"out", "login", "in"}
Bids == [bidder: Players, amount: Int]

TypeOK ==
  /\ users \in [Players -> [gold: Int, bank: Int]]
  /\ body \in [Players -> [at: Places, gold: Int, bank: Int]]
  /\ auction \in [Items -> [state: {"none", "active", "inactive"}, ended: BOOLEAN,
                     retrieved: BOOLEAN, owner: Players \union {None},
                     start: Int, buyout: Int]]
  /\ bids \in [Items -> Seq(Bids)]
  /\ copies \in [Items -> [Players -> Nat]]
  /\ chosen \in SUBSET Items /\ todo \in SUBSET chosen
  /\ menu \in [Players -> Menus]
  /\ view \in [Players -> [Items -> [kind: {"none", "live", "over", "zero"},
                                      retrieved: BOOLEAN, bids: Seq(Bids)]]]
  /\ sel \in [Players -> Items \union {None}]
  /\ req \in [Players -> Int]
  /\ budget \in [Events -> Nat]

NoView == [kind |-> "none", retrieved |-> FALSE, bids |-> <<>>]

Init ==
  /\ users \in [Players -> [gold: Purses, bank: Purses]]
  /\ body = [p \in Players |-> [at |-> "in", gold |-> users[p].gold, bank |-> users[p].bank]]
  /\ auction = [i \in Items |-> [state |-> "none", ended |-> FALSE, retrieved |-> FALSE,
                                 owner |-> None, start |-> 0, buyout |-> 0]]
  /\ bids = [i \in Items |-> <<>>]
  /\ copies \in [Items -> {[p \in Players |-> IF p = o THEN 1 ELSE 0] : o \in Sellers}]
  /\ chosen = {} /\ todo = {}
  /\ menu = [p \in Players |-> "none"]
  /\ view = [p \in Players |-> [i \in Items |-> NoView]]
  /\ sel = [p \in Players |-> None]
  /\ req = [p \in Players |-> 0]
  /\ budget \in Limits

Spend(e) == budget[e] > 0 /\ budget' = [budget EXCEPT ![e] = @ - 1]
NoFault == UNCHANGED budget

\* Nobody else moves while UpdateAuctions runs.
Idle == chosen = {}

-------------------------------------------------------------------------------
(* Bids and money.                                                         *)

Bidders(bs) == {bs[k].bidder : k \in DOMAIN bs}
GetLastBid(bs, p) ==
  IF p \in Bidders(bs)
    THEN Max({bs[k].amount : k \in {j \in DOMAIN bs : bs[j].bidder = p}}) ELSE 0
\* The first of the bids, highest first, when there are any.
Top(bs) == Max({bs[k].amount : k \in DOMAIN bs})

\* ORDER BY bid_amount DESC LIMIT 1: any of them if several bid the same.
TopBidders(bs) == {p \in Bidders(bs) : GetLastBid(bs, p) = Top(bs)}

LosersAll(bs, winner) == Bidders(bs)
Losers(bs, winner) == Bidders(bs) \ {winner}

\* getOnlineCharacterById: a character that has entered the game is paid on
\* the body (b[p]), any other in the users table.
Credit(b, c) ==
  /\ body' = [p \in Players |->
                IF b[p].at = "in" THEN [b[p] EXCEPT !.bank = @ + c[p]] ELSE b[p]]
  /\ users' = [p \in Players |->
                IF b[p].at = "in" THEN users[p] ELSE [users[p] EXCEPT !.bank = @ + c[p]]]

\* ReimburseLosers for those in L, and RewardOwner if rewarded: each loser's
\* highest bid, and the highest of all for the owner.
Pay(b, i, bs, L, rewarded) ==
  Credit(b, [p \in Players |->
               (IF p \in L THEN GetLastBid(bs, p) ELSE 0)
               + (IF rewarded /\ p = auction[i].owner THEN Top(bs) ELSE 0)])

\* A failing UPDATE ends ReimburseLosers: lower bids than those in L are left.
Cut(bs, winner, L) ==
  /\ L \subseteq Losers(bs, winner) /\ L # Losers(bs, winner)
  /\ \A p \in L, q \in Losers(bs, winner) \ L : GetLastBid(bs, p) >= GetLastBid(bs, q)

\* An auction is paid; if a query fails, one of its two halves is left out.
Settle(b, i, bs, winner) ==
  \/ NoFault /\ Pay(b, i, bs, Losers(bs, winner), TRUE)
  \/ Spend("dberror") /\ Pay(b, i, bs, Losers(bs, winner), FALSE)
  \/ Spend("dberror")
       /\ \E L \in SUBSET Players : Cut(bs, winner, L) /\ Pay(b, i, bs, L, TRUE)

-------------------------------------------------------------------------------
(* UpdateAuctions, once a MUD hour.                                        *)

ExpiredWithBids ==
  {i \in Items : auction[i].state = "active" /\ auction[i].ended /\ bids[i] # <<>>}
Expired == {i \in Items : auction[i].state = "active" /\ auction[i].ended}

SelectExpired ==
  /\ Idle /\ Expired # {}
  /\ chosen' = Expired /\ todo' = Expired
  /\ UNCHANGED <<tables, body, copies, screen, budget>>

\* One row of the result.  An auction without bids only ends.
PayExpired(i) ==
  /\ i \in todo
  /\ IF bids[i] = <<>>
       THEN NoFault /\ UNCHANGED <<users, body>>
       ELSE \E w \in TopBidders(bids[i]) : Settle(body, i, bids[i], w)
  /\ todo' = todo \ {i}
  /\ UNCHANGED <<auction, bids, copies, chosen, screen>>

\* RewardOwner's UPDATE for an owner who is not playing is not caught before
\* UpdateAuctions: whatever was paid stays paid, and nothing is deactivated.
PayAborted(i) ==
  /\ i \in todo /\ bids[i] # <<>> /\ body[auction[i].owner].at # "in"
  /\ Spend("dberror")
  /\ \E w \in TopBidders(bids[i]) : Pay(body, i, bids[i], Losers(bids[i], w), FALSE)
  /\ chosen' = {} /\ todo' = {}
  /\ UNCHANGED <<auction, bids, copies, screen>>

\* The UPDATE uses the time of the SELECT: it deactivates what was paid.
Deactivate ==
  /\ ~Idle /\ todo = {}
  /\ \/ /\ NoFault
        /\ auction' = [i \in Items |-> IF i \in chosen
                         THEN [auction[i] EXCEPT !.state = "inactive"] ELSE auction[i]]
     \/ Spend("dberror") /\ UNCHANGED auction
  /\ chosen' = {} /\ UNCHANGED todo
  /\ UNCHANGED <<users, bids, body, copies, screen>>

\* The end_time of an auction passes.
Ends(i) ==
  /\ auction[i].state = "active" /\ ~auction[i].ended
  /\ auction' = [auction EXCEPT ![i].ended = TRUE]
  /\ UNCHANGED <<users, bids, body, copies, update, screen, budget>>
-------------------------------------------------------------------------------
(* The players' characters.                                                *)

Unmoved == UNCHANGED <<auction, bids, copies, update>>

\* What p has selected is read until the browser is shown, and what p has loaded
\* until the main menu is (whose choices clear it first) or the link is lost
\* (cleanup_olc); from then on it is not kept here.
Reset(p, m) ==
  /\ menu' = [menu EXCEPT ![p] = m] /\ sel' = [sel EXCEPT ![p] = None]
  /\ view' = [view EXCEPT ![p] = [i \in Items |-> NoView]]
  /\ req' = [req EXCEPT ![p] = 0]

Load(p, place) ==
  body' = [body EXCEPT ![p] = [at |-> place, gold |-> users[p].gold, bank |-> users[p].bank]]
Save(p) == users' = [users EXCEPT ![p] = [gold |-> body[p].gold, bank |-> body[p].bank]]

\* The web client loads the row and enters in one step.
WebLogin(p) ==
  /\ Idle /\ body[p].at = "out" /\ Spend("web") /\ Load(p, "in")
  /\ UNCHANGED <<users, screen>> /\ Unmoved

\* Telnet: the row is loaded with the name, used when the password is right.
GiveName(p) ==
  /\ Idle /\ body[p].at = "out" /\ Spend("telnet") /\ Load(p, "login")
  /\ UNCHANGED <<users, screen>> /\ Unmoved
WrongPassword(p) ==
  /\ Idle /\ body[p].at = "login" /\ Save(p)
  /\ UNCHANGED <<body, screen, budget>> /\ Unmoved
Password(p) ==
  /\ Idle /\ body[p].at = "login" /\ body' = [body EXCEPT ![p].at = "in"]
  /\ UNCHANGED <<users, screen, budget>> /\ Unmoved
GiveUp(p) ==
  /\ Idle /\ body[p].at = "login" /\ body' = [body EXCEPT ![p].at = "out"]
  /\ UNCHANGED <<users, screen, budget>> /\ Unmoved

\* Quitting or idling out (Character::Extract saves the character).
LeaveGame(p) ==
  /\ Idle /\ body[p].at = "in" /\ Save(p)
  /\ body' = [body EXCEPT ![p].at = "out"]
  /\ Reset(p, "none") /\ UNCHANGED budget /\ Unmoved

\* Money and things stay in the corpse; the character goes on with 1 hit point,
\* the descriptor in its menu (Character::Die).
Die(p) ==
  /\ Idle /\ body[p].at = "in" /\ Spend("death")
  /\ body' = [body EXCEPT ![p].gold = 0]
  /\ users' = [users EXCEPT ![p] = [gold |-> 0, bank |-> body[p].bank]]
  /\ copies' = [i \in Items |-> [copies[i] EXCEPT ![p] = 0]]
  /\ UNCHANGED <<auction, bids, update, screen>>

\* Losing the link: the body stays.
LoseLink(p) ==
  /\ Idle /\ menu[p] # "none" /\ Reset(p, "none")
  /\ UNCHANGED <<users, body, budget>> /\ Unmoved

-------------------------------------------------------------------------------
(* The menus (AuctionParse).                                               *)

\* p is shown the menu m and nothing else happens.
Show(p, m) ==
  /\ menu' = [menu EXCEPT ![p] = m]
  /\ UNCHANGED <<view, sel, req, tables, body, budget, copies, update>>

OpenHouse(p) == Idle /\ body[p].at = "in" /\ menu[p] = "none" /\ Show(p, "menu")
Leave(p) == Idle /\ menu[p] = "menu" /\ Reset(p, "none")
            /\ UNCHANGED <<users, body, budget>> /\ Unmoved

\* A row of auctionItem with its bids, as loaded into an AuctionItem.
Snapshot(i) ==
  [kind |-> IF auction[i].state = "active" THEN "live" ELSE "over",
   retrieved |-> auction[i].retrieved, bids |-> bids[i]]

\* loadItems, loadMyBids, loadMyAuctions.
OnOffer(p) == {i \in Items : auction[i].state = "active" /\ ~auction[i].ended}
MyBids(p) ==
  {i \in Items : auction[i].state # "none" /\ ~auction[i].retrieved /\ GetLastBid(bids[i], p) > 0}
MyAuctions(p) ==
  {i \in Items : auction[i].state # "none" /\ ~auction[i].retrieved /\ auction[i].owner = p}

Browse(p, found) ==
  /\ Idle /\ menu[p] = "menu"
  /\ menu' = [menu EXCEPT ![p] = "browse"]
  /\ view' = [view EXCEPT ![p] = [i \in Items |-> IF i \in found THEN Snapshot(i)
                                                  ELSE NoView]]
  /\ UNCHANGED <<sel, req, users, body, budget>> /\ Unmoved

Select(p, i) ==
  /\ Idle /\ menu[p] = "browse" /\ view[p][i].kind # "none"
  /\ menu' = [menu EXCEPT ![p] = "item"] /\ sel' = [sel EXCEPT ![p] = i]
  /\ req' = [req EXCEPT ![p] = 0]
  /\ UNCHANGED <<view, users, body, budget>> /\ Unmoved

ShowBrowser(p) ==
  /\ menu' = [menu EXCEPT ![p] = "browse"] /\ sel' = [sel EXCEPT ![p] = None]
  /\ req' = [req EXCEPT ![p] = 0]

\* The answers that only lead from one menu to another.
Back(p) ==
  /\ Idle /\ UNCHANGED <<users, body, budget>> /\ Unmoved
  /\ \/ menu[p] = "browse" /\ Reset(p, "menu")
     \/ /\ menu[p] \in {"item", "confirm", "over", "outbid"}
        /\ ShowBrowser(p) /\ UNCHANGED view
     \/ /\ menu[p] \in {"amount", "outbid"}
        /\ menu' = [menu EXCEPT ![p] = "item"] /\ req' = [req EXCEPT ![p] = 0]
        /\ UNCHANGED <<view, sel>>

\* What the selected AuctionItem says; a zeroed one has no owner, no buyout,
\* and a starting price of 0, but still its bids.
Seen(p) == view[p][sel[p]]
Zeroed(p) == Seen(p).kind = "zero"
Owner(p) == IF Zeroed(p) THEN None ELSE auction[sel[p]].owner
Buyout(p) == IF Zeroed(p) THEN 0 ELSE auction[sel[p]].buyout
GetTopBid(p) ==
  IF Seen(p).bids # <<>> THEN Top(Seen(p).bids)
  ELSE IF Zeroed(p) THEN 0 ELSE auction[sel[p]].start
GetNextMinBid(p) == GetTopBid(p) + Increment

ManualBid(p) == Idle /\ menu[p] = "item" /\ Owner(p) # p /\ Show(p, "amount")

Ask(p, bid) ==
  /\ menu' = [menu EXCEPT ![p] = "confirm"] /\ req' = [req EXCEPT ![p] = bid]
  /\ UNCHANGED <<view, sel, users, body, budget>> /\ Unmoved

EnterAmount(p, a) ==
  /\ Idle /\ menu[p] = "amount"
  /\ LET bid == IF Buyout(p) > 0 /\ Buyout(p) < a THEN Buyout(p) ELSE a IN
       bid >= GetNextMinBid(p) /\ body[p].gold >= bid /\ Ask(p, bid)

BuyoutOptionAny(p) ==
  /\ Idle /\ menu[p] = "item" /\ Owner(p) # p
  /\ body[p].gold >= Buyout(p) /\ Ask(p, Buyout(p))
BuyoutOption(p) ==
  /\ Idle /\ menu[p] = "item" /\ Owner(p) # p
  /\ Buyout(p) > 0 /\ body[p].gold >= Buyout(p) /\ Ask(p, Buyout(p))
-------------------------------------------------------------------------------
(* Confirming a bid.                                                       *)

\* Refresh: only an active auction whose time has not passed is found; if it
\* is not, the AuctionItem is zeroed, all but its bids.
RefreshedKeeps(p) ==
  IF sel[p] \in OnOffer(p) THEN Snapshot(sel[p]) ELSE Seen(p)
Refreshed(p) ==
  IF sel[p] \in OnOffer(p) THEN Snapshot(sel[p])
  ELSE [Seen(p) EXCEPT !.kind = "zero", !.retrieved = FALSE]

Over(p, v) == v.kind # "live" \/ auction[sel[p]].ended
Outbid(p, v) == Len(v.bids) > Len(Seen(p).bids)

\* placeBid: the bids after it, what it charges, and whether it is a buyout.
WithBid(p) == Append(bids[sel[p]], [bidder |-> p, amount |-> req[p]])
ChargedInFull(p, v) == [body EXCEPT ![p].gold = @ - req[p]]
Charged(p, v) == [body EXCEPT ![p].gold = @ - (req[p] - GetLastBid(v.bids, p))]
IsBuyout(p) == auction[sel[p]].buyout > 0 /\ req[p] >= auction[sel[p]].buyout
SellNow(p) == auction' = [auction EXCEPT ![sel[p]].state = "inactive"]
Insert(p) == bids' = [bids EXCEPT ![sel[p]] = WithBid(p)]

GoTo(p, m, v) ==
  /\ IF m = "menu" THEN Reset(p, m)
     ELSE /\ menu' = [menu EXCEPT ![p] = m] /\ view' = [view EXCEPT ![p][sel[p]] = v]
          /\ UNCHANGED <<sel, req>>
  /\ UNCHANGED <<copies, update>>

PlaceBid(p, v) ==
  /\ Insert(p)
  /\ IF IsBuyout(p)
       THEN /\ SellNow(p)
            /\ Pay(Charged(p, v), sel[p], WithBid(p), Losers(WithBid(p), p), TRUE)
       ELSE body' = Charged(p, v) /\ UNCHANGED <<users, auction>>

\* "Y", when the AuctionItem has become v.
Confirm(p, v) ==
  /\ Idle /\ menu[p] = "confirm"
  /\ \/ Over(p, v) /\ GoTo(p, "over", v) /\ UNCHANGED <<tables, body>>
     \/ /\ ~Over(p, v) /\ Outbid(p, v)
        /\ GoTo(p, "outbid", v) /\ UNCHANGED <<tables, body>>
     \/ ~Over(p, v) /\ ~Outbid(p, v) /\ GoTo(p, "menu", v) /\ PlaceBid(p, v)

ConfirmBid(p) == Confirm(p, Refreshed(p)) /\ NoFault

\* The queries behind it may fail: Refresh keeps what it had; the bid is not
\* recorded; the auction bought out stays active; the losers or the owner are
\* not paid, the latter with the exception that leaves the menu as it is.
ConfirmFails(p) ==
  /\ Idle /\ menu[p] = "confirm" /\ Spend("dberror")
  /\ \/ Confirm(p, Seen(p))
     \/ LET v == Refreshed(p)
            i == sel[p]
            others == Losers(WithBid(p), p)
        IN /\ ~Over(p, v) /\ ~Outbid(p, v)
           /\ \/ GoTo(p, "menu", v) /\ UNCHANGED <<tables, body>>
              \/ /\ IsBuyout(p) /\ GoTo(p, "menu", v) /\ Insert(p)
                 /\ body' = Charged(p, v) /\ UNCHANGED <<users, auction>>
              \/ /\ IsBuyout(p) /\ Insert(p) /\ SellNow(p)
                 /\ \/ /\ GoTo(p, "menu", v)
                       /\ \E L \in SUBSET others :
                            Cut(WithBid(p), p, L) /\ Pay(Charged(p, v), i, WithBid(p), L, TRUE)
                    \/ /\ \E m \in {"menu", "confirm"} : GoTo(p, m, v)
                       /\ Pay(Charged(p, v), i, WithBid(p), others, FALSE)

-------------------------------------------------------------------------------
(* Items.                                                                  *)

CanBeRetrievedBy(p) ==
  /\ Seen(p).kind \in {"over", "zero"} /\ ~Seen(p).retrieved
  /\ \/ Seen(p).bids = <<>> /\ Owner(p) = p
     \/ p \in TopBidders(Seen(p).bids)

\* retrieveItem: the object is loaded again by its id, wherever it is.
Retrieve(p) ==
  /\ Idle /\ menu[p] = "item" /\ CanBeRetrievedBy(p)
  /\ copies' = [copies EXCEPT ![sel[p]][p] = @ + 1]
  /\ \/ NoFault /\ auction' = [auction EXCEPT ![sel[p]].retrieved = TRUE]
     \/ Spend("dberror") /\ UNCHANGED auction
  /\ ShowBrowser(p) /\ view' = [view EXCEPT ![p][sel[p]] = NoView]
  /\ UNCHANGED <<users, body, bids, update>>

\* The sell menu, whose choices only p sees, and placeAuction.
PlaceAuction(p, i, start, buyout) ==
  /\ Idle /\ menu[p] = "menu"
  /\ copies[i][p] > 0 /\ auction[i].state = "none"
  /\ buyout <= 0 \/ buyout >= start
  /\ copies' = [copies EXCEPT ![i][p] = @ - 1]
  /\ auction' = [auction EXCEPT ![i] = [state |-> "active", ended |-> FALSE,
                   retrieved |-> FALSE, owner |-> p, start |-> start, buyout |-> buyout]]
  /\ UNCHANGED <<users, bids, body, update, screen, budget>>

-------------------------------------------------------------------------------

UpdateAuctions ==
  \/ SelectExpired \/ Deactivate
  \/ \E i \in Items : PayExpired(i) \/ PayAborted(i)

Come(p) == WebLogin(p) \/ GiveName(p) \/ WrongPassword(p) \/ Password(p) \/ GiveUp(p)
Go(p) == LeaveGame(p) \/ LoseLink(p) \/ Die(p)

Choose(p) ==
  \/ OpenHouse(p) \/ Leave(p) \/ Back(p) \/ ManualBid(p) \/ BuyoutOption(p)
  \/ Browse(p, OnOffer(p))
  \/ Browse(p, MyBids(p)) \/ Browse(p, MyAuctions(p))
  \/ \E i \in Items : Select(p, i)
  \/ \E a \in Amounts : EnterAmount(p, a)

Trade(p) ==
  \/ ConfirmBid(p) \/ ConfirmFails(p) \/ Retrieve(p)
  \/ \E i \in Items, a, b \in Prices : PlaceAuction(p, i, a, b)

Next ==
  \/ UpdateAuctions
  \/ \E i \in Items : Ends(i)
  \/ \E p \in Players : Come(p) \/ Go(p) \/ Choose(p) \/ Trade(p)

Spec == Init /\ [][Next]_vars

\* The game loop calls UpdateAuctions for as long as it runs.
FairSpec == Spec /\ WF_vars(UpdateAuctions)

-------------------------------------------------------------------------------
(* Properties.                                                             *)

\* The auctions still to be paid, and what the house holds for i, of whom.
Open(i) == auction[i].state = "active" /\ (i \in chosen => i \in todo)
Held(i) == [p \in (IF Open(i) THEN Bidders(bids[i]) ELSE {}) |-> GetLastBid(bids[i], p)]

Money(p) ==
  IF body[p].at = "in" THEN body[p].gold + body[p].bank ELSE users[p].gold + users[p].bank

E == INSTANCE Escrow WITH
       purse <- [p \in Players |-> Money(p)],
       held <- [i \in Items |-> Held(i)],
       sale <- [i \in Items |->
                  [state |-> CASE auction[i].state = "none" -> "unlisted"
                               [] Open(i) -> "open" [] OTHER -> "closed",
                   owner |-> auction[i].owner, start |-> auction[i].start,
                   buyout |-> auction[i].buyout]]

\* The three tables, the bodies and the menus together are an escrow: while no
\* query fails and nobody is between name and password, each bidder is charged
\* and repaid once, against prices that only rise.
EscrowSpec == E!Spec

\* No bid is recorded for an auction whose time has passed or that is sold,
\* however old the list is from which a player bids.
NoLateBids ==
  [][\A i \in Items : bids'[i] # bids[i] =>
       auction[i].state = "active" /\ ~auction[i].ended]_vars

\* Whoever makes a bid pays what it adds to their own highest one, even if the
\* bids on the screen are old because the query that reloads them failed.
PaysTheRaise ==
  [][\A p \in Players, i \in Items :
       bids'[i] # bids[i] /\ Last(bids'[i]).bidder = p =>
         body[p].gold - body'[p].gold = GetLastBid(bids'[i], p) - GetLastBid(bids[i], p)]_vars

\* An auction whose time has passed is closed in the end, although a query
\* fails and a round of UpdateAuctions is given up.
EndedCloses ==
  \A i \in Items :
    auction[i].state = "active" /\ auction[i].ended ~> auction[i].state = "inactive"

\* "Auction has ended and the browser is the winner. Let them retrieve the
\* item." (auction.cpp, AuctionDispItemBidMenu): who is offered the item of an
\* auction with bids is the highest bidder.
WinnerRetrieves ==
  \A p \in Players :
    menu[p] = "item" /\ CanBeRetrievedBy(p) /\ bids[sel[p]] # <<>> =>
      p \in TopBidders(bids[sel[p]])
===============================================================================

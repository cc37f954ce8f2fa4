-------------------------------- MODULE Escrow --------------------------------
(***************************************************************************)
(* What an auction house promises: a bidder pays when the bid is made, an  *)
(* auction holds each bidder's highest bid, and when it closes the highest *)
(* of them goes to the owner and every other one back to its bidder.       *)
(* Nothing is ever made or lost, and a closed auction stays closed.  An    *)
(* amount may be negative: who bids it is paid, and gives it back.         *)
(***************************************************************************)
EXTENDS Integers, FiniteSetsExt

CONSTANTS Players, Items, Amounts, Prices, Increment, None

VARIABLES
  purse,   \* purse[p]: the money of p, on the body and in the bank
  held,    \* held[i][p]: what the house holds for item i of p, who has bid
  sale     \* sale[i]: the state and terms of the auction of item i

vars == <<purse, held, sale>>

States == {"unlisted", "open", "closed"}

Nothing == [p \in {} |-> 0]

Init ==
  /\ purse \in [Players -> Int]
  /\ held = [i \in Items |-> Nothing]
  /\ sale = [i \in Items |-> [state |-> "unlisted", owner |-> None, start |-> 0,
                              buyout |-> 0]]

Highest(h) == Max({h[p] : p \in DOMAIN h})
Of(h, p) == IF p \in DOMAIN h THEN h[p] ELSE 0

\* The price to beat: an auction without bids stands at its starting price.
Price(i) == IF DOMAIN held[i] = {} THEN sale[i].start ELSE Highest(held[i])

List(p, i, start, buyout) ==
  /\ sale[i].state = "unlisted"
  /\ sale' = [sale EXCEPT ![i] = [state |-> "open", owner |-> p, start |-> start,
                                  buyout |-> buyout]]
  /\ UNCHANGED <<purse, held>>

\* What p gets when i closes with the bids h.
Due(i, h, p) ==
  (IF p \in DOMAIN h /\ h[p] # Highest(h) THEN h[p] ELSE 0)
  + (IF p = sale[i].owner /\ DOMAIN h # {} THEN Highest(h) ELSE 0)

\* p raises the price, at least by Increment; the buyout, which may be less,
\* closes the auction.
Bid(p, i, amount) ==
  /\ sale[i].state = "open" /\ p # sale[i].owner
  /\ \/ amount >= Price(i) + Increment
     \/ amount = sale[i].buyout /\ amount > 0 /\ \A q \in DOMAIN held[i] : amount > held[i][q]
  /\ LET h == [q \in DOMAIN held[i] \union {p} |-> IF q = p THEN amount ELSE held[i][q]]
         closes == sale[i].buyout > 0 /\ amount >= sale[i].buyout
         paid == [purse EXCEPT ![p] = @ - (amount - Of(held[i], p))]
     IN IF closes
          THEN /\ purse' = [q \in Players |-> paid[q] + Due(i, h, q)]
               /\ held' = [held EXCEPT ![i] = Nothing]
               /\ sale' = [sale EXCEPT ![i].state = "closed"]
          ELSE /\ purse' = paid /\ held' = [held EXCEPT ![i] = h]
               /\ UNCHANGED sale

Close(i) ==
  /\ sale[i].state = "open"
  /\ purse' = [q \in Players |-> purse[q] + Due(i, held[i], q)]
  /\ held' = [held EXCEPT ![i] = Nothing]
  /\ sale' = [sale EXCEPT ![i].state = "closed"]

\* The state of an auction decides what may happen to it.
Next ==
  \E i \in Items :
    \/ /\ sale[i].state = "unlisted" /\ sale'[i].state = "open"
       /\ \E p \in Players, a, b \in Prices : List(p, i, a, b)
    \/ /\ sale[i].state = "open" /\ <<held'[i], sale'[i]>> # <<held[i], sale[i]>>
       /\ Close(i) \/ \E p \in Players, a \in Amounts \union Prices : Bid(p, i, a)

Spec == Init /\ [][Next]_vars
===============================================================================

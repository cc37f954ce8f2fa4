------------------------------ MODULE MCAuction ------------------------------
(* Instances of AuctionHouse for TLC: how many events of each kind a run has, *)
(* and prices that may be negative.                                           *)
EXTENDS AuctionHouse, TLC

Of(kinds) == [e \in Events |-> IF e \in kinds THEN 1 ELSE 0]
\* One who leaves may come back through the web.
Quiet == {Of({"web"})}
\* ... or by Telnet.
Telnet == {Of({"telnet"})}
AllAtOnce == {Of({"telnet", "death", "dberror"})}

\* A starting price of -2 is met by a bid of -1; as a buyout it is none.  A bid
\* of 0 is not the same as none, and one of 4 is cut to the buyout of 3.
SomePrices == {-2, 3}
SomeAmounts == {-1, 0, 4}
FewAmounts == {-1, 2, 4}

\* The players who have nothing to sell are alike.
Ordinary == Permutations(Players \ Sellers)
===============================================================================

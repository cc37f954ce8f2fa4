---------------------------- MODULE AuctionProofs ----------------------------
(***************************************************************************)
(* Proofs about AuctionHouse, for any number of players and items, and any *)
(* purses, prices and bids.                                                *)
(*                                                                         *)
(* HouseInv holds whatever fails, and whoever dies or comes by Telnet.  On *)
(* it rest three theorems that need a hypothesis on Limits, each no more   *)
(* than what TLC shows to be needed: a bid is late only if a query fails   *)
(* (NeverFails), the raise is charged wrongly only if two do (FailsOnce),  *)
(* and Escrow, which knows neither failures nor corpses nor saves at the   *)
(* password prompt, is implemented if there are none (Undisturbed).        *)
(***************************************************************************)
EXTENDS AuctionHouse, ListProofs

\* Each bid beats the ones before it.
Rising(bs) == \A j, k \in DOMAIN bs : j < k => bs[j].amount < bs[k].amount

\* What was loaded is what there was, from the first bid on.
Earlier(old, bs) == Len(old) <= Len(bs) /\ \A k \in 1..Len(old) : old[k] = bs[k]

\* A row that was never written has no bids.  Nobody bids more than the buyout.
RowInv(i) ==
  /\ auction[i].state = "none" =>
       bids[i] = <<>> /\ auction[i] = [state |-> "none", ended |-> FALSE, retrieved |-> FALSE,
                                       owner |-> None, start |-> 0, buyout |-> 0]
  /\ auction[i].state # "none" => auction[i].owner \in Players /\ auction[i].buyout \in Prices
  /\ auction[i].buyout > 0 => \A k \in DOMAIN bids[i] : bids[i][k].amount <= auction[i].buyout

\* UpdateAuctions pays what it has found to be over, one after the other.
UpdateInv ==
  /\ todo \subseteq chosen
  /\ \A i \in chosen : auction[i].state = "active" /\ auction[i].ended

\* What p has loaded.
ViewInv(p) ==
  \A i \in Items : view[p][i].kind # "none" =>
    /\ auction[i].state # "none" /\ Earlier(view[p][i].bids, bids[i])
    /\ view[p][i].kind = "zero" => auction[i].state = "inactive" \/ auction[i].ended

\* What p has been asked to confirm was enough, by what p had loaded.
AskedEnough(p) ==
  /\ req[p] \in Amounts \union Prices
  /\ \/ req[p] >= GetNextMinBid(p) /\ (Buyout(p) > 0 => req[p] <= Buyout(p))
     \/ Buyout(p) > 0 /\ req[p] = Buyout(p)

MenuInv(p) ==
  /\ menu[p] # "none" => body[p].at = "in"
  /\ menu[p] \in {"item", "amount", "confirm", "over", "outbid"} =>
       sel[p] \in Items /\ Seen(p).kind # "none"
  /\ menu[p] \in {"amount", "confirm"} => Owner(p) # p
  /\ menu[p] = "confirm" => AskedEnough(p)

\* What is so whatever fails.
HouseInv ==
  /\ TypeOK /\ UpdateInv
  /\ \A i \in Items : RowInv(i)
  /\ \A p \in Players : ViewInv(p) /\ MenuInv(p)

\* No query fails, nobody dies, and nobody comes by Telnet; then each bid beats
\* the ones before it, and whoever bids the buyout ends the auction.
CalmRow(i) ==
  /\ Rising(bids[i])
  /\ auction[i].state = "active" /\ auction[i].buyout > 0 =>
       \A k \in DOMAIN bids[i] : bids[i][k].amount # auction[i].buyout

Calm ==
  /\ \A e \in {"telnet", "death", "dberror"} : budget[e] = 0
  /\ \A p \in Players : body[p].at # "login"
  /\ \A i \in Items : CalmRow(i)

\* At most one query fails.  Until it does, each player who may bid has loaded
\* every bid they made.
OwnBidsSeen ==
  /\ budget["dberror"] <= 1
  /\ budget["dberror"] = 1 =>
       \A p \in Players, i \in Items : view[p][i].kind = "live" =>
         /\ GetLastBid(view[p][i].bids, p) = GetLastBid(bids[i], p)
         /\ p \in Bidders(bids[i]) => p \in Bidders(view[p][i].bids)


-------------------------------------------------------------------------------
(* Bids.                                                                   *)

LEMMA MaxIs ==
  ASSUME NEW S, S \subseteq Int, NEW m \in S, \A x \in S : x <= m
  PROVE  Max(S) = m
<1>1. m \in S /\ \A y \in S : m >= y
  OBVIOUS
<1>2. Max(S) \in S /\ \A y \in S : Max(S) >= y
  BY ONLY <1>1 DEF Max
<1>3. Max(S) >= m /\ m >= Max(S) /\ Max(S) \in Int /\ m \in Int
  BY <1>1, <1>2
<1> QED BY ONLY <1>3

LEMMA MaxFacts ==
  ASSUME NEW S, S \subseteq Int, S # {}, NEW n \in Int, \A x \in S : x <= n
  PROVE  Max(S) \in S /\ \A x \in S : x <= Max(S)
<1> DEFINE T == {n - x : x \in S}
<1>1. T \subseteq Nat /\ T # {}
  <2>1. \A x \in S : n - x \in Nat
    OBVIOUS
  <2> QED BY <2>1
<1> HIDE DEF T
<1>2. PICK t \in T : \A u \in T : t <= u
  BY <1>1, Least
<1> USE DEF T
<1>3. PICK m \in S : t = n - m
  OBVIOUS
<1>4. \A x \in S : n - x \in T
  OBVIOUS
<1> HIDE DEF T
<1>5. \A x \in S : x <= m
  BY <1>2, <1>3, <1>4
<1>6. S \subseteq Int
  OBVIOUS
<1>7. Max(S) = m
  BY ONLY <1>3, <1>5, <1>6, MaxIs
<1> QED BY ONLY <1>3, <1>5, <1>7

\* There are as many bids as there are, so one is the highest.
LEMMA Bounded ==
  ASSUME NEW bs \in Seq(Bids)
  PROVE  \E n \in Int : \A k \in DOMAIN bs : bs[k].amount <= n
<1> PICK n, f : n = Len(bs) /\ f = [k \in 1..Len(bs) |-> bs[k].amount]
  OBVIOUS
<1>1. n \in Nat /\ DOMAIN bs = 1..n /\ \A k \in 1..n : bs[k].amount = f[k]
  OBVIOUS
<1>2. \A k \in 1..n : f[k] \in Int
  <2>1. \A k \in DOMAIN bs : bs[k] \in Bids
    OBVIOUS
  <2> QED BY ONLY <1>1, <2>1 DEF Bids
<1> DEFINE Cap(m, top) == \A k \in 1..n : k <= m => f[k] <= top
           T == {m \in Nat : \E top \in Int : Cap(m, top)}
<1>3. 0 \in T
  <2>1. Cap(0, 0)
    BY ONLY <1>1
  <2> QED BY ONLY <2>1
<1>4. ASSUME NEW m \in T PROVE m + 1 \in T
  <2>1. PICK top \in Int : Cap(m, top)
    OBVIOUS
  <2>2. PICK new \in Int : top <= new /\ (m + 1 \in 1..n => f[m + 1] <= new)
    <3>1. CASE m + 1 \in 1..n /\ f[m + 1] >= top
      BY ONLY <1>2, <3>1
    <3>2. CASE ~(m + 1 \in 1..n /\ f[m + 1] >= top)
      <4>1. m + 1 \in 1..n => f[m + 1] <= top
        BY ONLY <1>2, <2>1, <3>2
      <4> QED BY ONLY <4>1, top \in Int
    <3> QED BY <3>1, <3>2
  <2>3. ASSUME NEW k \in 1..n, k <= m + 1 PROVE f[k] <= new
    <3>1. k = m + 1 \/ k <= m
      BY <1>1, <2>3
    <3>2. k <= m => f[k] <= new
      BY ONLY <1>2, <2>1, <2>2
    <3> QED BY <2>2, <3>1, <3>2
  <2>4. Cap(m + 1, new)
    BY <2>3
  <2> HIDE DEF Cap
  <2> QED BY <2>4
<1> HIDE DEF T
<1>5. 0..n \subseteq T
  BY ONLY <1>1, <1>3, <1>4, Induct
<1>6. n \in T
  BY ONLY <1>1, <1>5
<1>7. PICK top \in Int : Cap(n, top)
  BY <1>6 DEF T
<1>8. \A k \in 1..n : k <= n
  BY <1>1
<1>9. \A k \in 1..n : f[k] <= top
  BY ONLY <1>7, <1>8
<1>10. \A k \in DOMAIN bs : bs[k].amount <= top
  BY ONLY <1>1, <1>9
<1> QED BY ONLY <1>10, top \in Int

LEMMA BidFacts ==
  ASSUME NEW bs \in Seq(Bids)
  PROVE  /\ \A k \in DOMAIN bs : bs[k].bidder \in Players /\ bs[k].amount \in Int
         /\ bs # <<>> => /\ Top(bs) \in Int /\ \A k \in DOMAIN bs : bs[k].amount <= Top(bs)
                         /\ \E k \in DOMAIN bs : bs[k].amount = Top(bs)
         /\ bs = <<>> <=> DOMAIN bs = {}
         /\ bs = <<>> <=> Bidders(bs) = {}
<1>1. \A k \in DOMAIN bs : bs[k].bidder \in Players /\ bs[k].amount \in Int
  <2>1. \A k \in DOMAIN bs : bs[k] \in Bids
    OBVIOUS
  <2> QED BY ONLY <2>1 DEF Bids
<1>2. PICK n \in Int : \A k \in DOMAIN bs : bs[k].amount <= n
  BY Bounded
<1>3. PICK S : S = {bs[k].amount : k \in DOMAIN bs}
  OBVIOUS
<1>4. bs = <<>> => DOMAIN bs = {}
  OBVIOUS
<1>5. bs # <<>> => 1 \in DOMAIN bs
  OBVIOUS
<1>6. ASSUME bs # <<>> PROVE Max(S) \in S /\ \A x \in S : x <= Max(S)
  <2>1. S \subseteq Int /\ S # {} /\ \A x \in S : x <= n
    BY <1>1, <1>2, <1>3, <1>5, <1>6
  <2> QED BY ONLY <2>1, n \in Int, MaxFacts
<1>7. Top(bs) = Max(S)
  BY <1>3 DEF Top
<1>8. Bidders(bs) = {} <=> DOMAIN bs = {}
  BY DEF Bidders
<1> QED BY ONLY <1>1, <1>3, <1>4, <1>5, <1>6, <1>7, <1>8

LEMMA LastBidFacts ==
  ASSUME NEW bs \in Seq(Bids), NEW p
  PROVE  /\ GetLastBid(bs, p) \in Int
         /\ \A k \in DOMAIN bs : bs[k].bidder = p => bs[k].amount <= GetLastBid(bs, p)
         /\ IF p \in Bidders(bs)
              THEN /\ \E k \in DOMAIN bs : bs[k].bidder = p /\ bs[k].amount = GetLastBid(bs, p)
                   /\ GetLastBid(bs, p) <= Top(bs)
              ELSE GetLastBid(bs, p) = 0
<1>1. p \in Bidders(bs) <=> \E k \in DOMAIN bs : bs[k].bidder = p
  BY DEF Bidders
<1>2. CASE p \in Bidders(bs)
  <2>1. bs # <<>>
    BY <1>2, BidFacts
  <2>2. /\ \A k \in DOMAIN bs : bs[k].amount \in Int /\ bs[k].amount <= Top(bs)
        /\ Top(bs) \in Int
    BY <2>1, BidFacts
  <2>3. PICK S : S = {bs[k].amount : k \in {j \in DOMAIN bs : bs[j].bidder = p}}
    OBVIOUS
  <2>4. S \subseteq Int /\ S # {} /\ \A x \in S : x <= Top(bs)
    BY <1>1, <1>2, <2>2, <2>3
  <2>5. Max(S) \in S /\ \A x \in S : x <= Max(S)
    BY ONLY <2>2, <2>4, MaxFacts
  <2>6. GetLastBid(bs, p) = Max(S)
    BY <1>2, <2>3 DEF GetLastBid
  <2>7. GetLastBid(bs, p) \in Int /\ GetLastBid(bs, p) <= Top(bs)
    BY ONLY <2>4, <2>5, <2>6
  <2>8. \A k \in DOMAIN bs : bs[k].bidder = p => bs[k].amount <= GetLastBid(bs, p)
    BY ONLY <2>3, <2>5, <2>6
  <2>9. \E k \in DOMAIN bs : bs[k].bidder = p /\ bs[k].amount = GetLastBid(bs, p)
    BY ONLY <2>3, <2>5, <2>6
  <2> QED BY ONLY <1>2, <2>7, <2>8, <2>9
<1>3. CASE p \notin Bidders(bs)
  <2>1. GetLastBid(bs, p) = 0
    BY <1>3 DEF GetLastBid
  <2> QED BY ONLY <1>1, <1>3, <2>1
<1> QED BY ONLY <1>2, <1>3

\* Another bid of p, and what it is to the others.
LEMMA AppendedFacts ==
  ASSUME NEW bs \in Seq(Bids), NEW p \in Players, NEW a \in Int
  PROVE  LET c == Append(bs, [bidder |-> p, amount |-> a]) IN
         /\ c \in Seq(Bids) /\ c # bs /\ c # <<>> /\ Len(c) = Len(bs) + 1 /\ Earlier(bs, c)
         /\ c[Len(c)].bidder = p /\ Last(c).bidder = p
         /\ DOMAIN c = 1..(Len(bs) + 1) /\ DOMAIN bs = 1..Len(bs)
         /\ c[Len(bs) + 1].amount = a /\ \A k \in 1..Len(bs) : c[k] = bs[k]
         /\ Bidders(c) = Bidders(bs) \union {p}
         /\ \A q \in Players \ {p} : GetLastBid(c, q) = GetLastBid(bs, q)
         /\ (p \in Bidders(bs) => a >= GetLastBid(bs, p)) => GetLastBid(c, p) = a
         /\ (bs # <<>> => a >= Top(bs)) => Top(c) = a
<1>1. PICK b : b = [bidder |-> p, amount |-> a]
  OBVIOUS
<1>2. b \in Bids /\ b.bidder = p /\ b.amount = a
  BY <1>1 DEF Bids
<1>3. PICK c, n : c = Append(bs, b) /\ n = Len(bs)
  OBVIOUS
<1>4. /\ c \in Seq(Bids) /\ n \in Nat /\ DOMAIN c = 1..(n + 1) /\ DOMAIN bs = 1..n /\ Len(c) = n + 1
      /\ c[n + 1] = b /\ \A k \in 1..n : c[k] = bs[k]
  BY <1>2, <1>3
<1>5. c # bs /\ c # <<>>
  <2>1. Len(bs) = n /\ Len(<<>>) = 0 /\ Len(c) = n + 1 /\ n + 1 # n /\ n + 1 # 0
    BY <1>3, <1>4
  <2> QED BY ONLY <2>1
<1>6. Earlier(bs, c)
  BY <1>3, <1>4 DEF Earlier
<1>7. Last(c).bidder = p
  BY <1>2, <1>4 DEF Last
<1>8. \A k \in 1..(n + 1) : k = n + 1 \/ k \in 1..n
  BY ONLY <1>4
<1>9. \A k \in 1..n : k \in 1..(n + 1)
  BY ONLY <1>4
<1>10. n + 1 \in 1..(n + 1)
  BY ONLY <1>4
<1>11. Bidders(c) = Bidders(bs) \union {p}
  <2>1. Bidders(c) = {c[k].bidder : k \in 1..(n + 1)} /\ Bidders(bs) = {bs[k].bidder : k \in 1..n}
    BY <1>4 DEF Bidders
  <2>2. \A k \in 1..n : c[k].bidder = bs[k].bidder
    BY <1>4
  <2>3. c[n + 1].bidder = p
    BY <1>2, <1>4
  <2> QED BY ONLY <1>8, <1>9, <1>10, <2>1, <2>2, <2>3
<1>12. ASSUME NEW q \in Players \ {p} PROVE GetLastBid(c, q) = GetLastBid(bs, q)
  <2>1. {c[k].amount : k \in {j \in DOMAIN c : c[j].bidder = q}}
        = {bs[k].amount : k \in {j \in DOMAIN bs : bs[j].bidder = q}}
    BY ONLY <1>2, <1>4, <1>8, <1>9, <1>12
  <2>2. q \in Bidders(c) <=> q \in Bidders(bs)
    BY ONLY <1>11, <1>12
  <2> QED BY ONLY <2>1, <2>2 DEF GetLastBid
<1>13. \A k \in 1..n : bs[k].amount \in Int
  BY <1>4, BidFacts
<1>14. ASSUME p \in Bidders(bs) => a >= GetLastBid(bs, p) PROVE GetLastBid(c, p) = a
  <2>1. PICK S : S = {c[k].amount : k \in {j \in DOMAIN c : c[j].bidder = p}}
    OBVIOUS
  <2>2. \A k \in 1..n : bs[k].bidder = p => bs[k].amount <= a
    <3>1. \A k \in 1..n : bs[k].bidder = p => bs[k].amount <= GetLastBid(bs, p)
      BY <1>4, LastBidFacts
    <3>2. GetLastBid(bs, p) \in Int
      BY LastBidFacts
    <3>3. \A k \in 1..n : bs[k].bidder = p => p \in Bidders(bs)
      BY <1>4 DEF Bidders
    <3> QED BY ONLY a \in Int, <1>13, <1>14, <3>1, <3>2, <3>3
  <2>3. \A k \in DOMAIN c : c[k].bidder = p => c[k].amount <= a /\ c[k].amount \in Int
    BY ONLY <1>2, <1>4, <1>8, <1>13, <2>2, a \in Int
  <2>4. S \subseteq Int /\ a \in S /\ \A x \in S : x <= a
    <3>1. a \in S
      BY <1>2, <1>4, <1>10, <2>1
    <3>2. \A x \in S : x \in Int /\ x <= a
      BY ONLY <2>1, <2>3, a \in Int
    <3> QED BY <3>1, <3>2
  <2>5. Max(S) = a
    BY ONLY <2>4, MaxIs
  <2>6. p \in Bidders(c)
    BY <1>11
  <2> QED BY <2>1, <2>5, <2>6 DEF GetLastBid
<1>15. ASSUME bs # <<>> => a >= Top(bs) PROVE Top(c) = a
  <2>1. PICK S : S = {c[k].amount : k \in DOMAIN c}
    OBVIOUS
  <2>2. \A k \in 1..n : bs[k].amount <= a
    <3>1. ASSUME NEW k \in 1..n PROVE bs[k].amount <= a
      <4>1. bs # <<>>
        BY <1>4
      <4>2. bs[k].amount <= Top(bs) /\ Top(bs) \in Int
        BY <1>4, <4>1, BidFacts
      <4> QED BY ONLY a \in Int, k \in 1..n, <1>13, <1>15, <4>1, <4>2
    <3> QED BY <3>1
  <2>3. \A k \in DOMAIN c : c[k].amount <= a /\ c[k].amount \in Int
    BY ONLY <1>2, <1>4, <1>8, <1>13, <2>2, a \in Int
  <2>4. S \subseteq Int /\ a \in S /\ \A x \in S : x <= a
    <3>1. a \in S
      BY <1>2, <1>4, <1>10, <2>1
    <3>2. \A x \in S : x \in Int /\ x <= a
      BY ONLY <2>1, <2>3, a \in Int
    <3> QED BY <3>1, <3>2
  <2>5. Max(S) = a
    BY ONLY <2>4, MaxIs
  <2> QED BY <2>1, <2>5 DEF Top
<1> QED BY <1>1, <1>2, <1>3, <1>4, <1>5, <1>6, <1>7, <1>11, <1>12, <1>14, <1>15

\* Who wins is who bid last, and everybody else has bid less.
LEMMA RisingFacts ==
  ASSUME NEW bs \in Seq(Bids), Rising(bs), NEW w \in TopBidders(bs)
  PROVE  \A p \in Players :
           p \in Losers(bs, w) <=> p \in Bidders(bs) /\ GetLastBid(bs, p) # Top(bs)
<1>1. w \in Bidders(bs) /\ GetLastBid(bs, w) = Top(bs)
  BY DEF TopBidders
<1>2. PICK k \in DOMAIN bs : bs[k].bidder = w /\ bs[k].amount = Top(bs)
  BY <1>1, LastBidFacts
<1>3. ASSUME NEW p \in Players, p \in Bidders(bs), GetLastBid(bs, p) = Top(bs) PROVE p = w
  <2>1. PICK j \in DOMAIN bs : bs[j].bidder = p /\ bs[j].amount = GetLastBid(bs, p)
    BY <1>3, LastBidFacts
  <2>2. bs[j].amount \in Int /\ bs[k].amount \in Int
    BY BidFacts
  <2>3. j \in Nat /\ k \in Nat
    OBVIOUS
  <2>4. bs[j].amount = bs[k].amount => j = k
    BY <2>2, <2>3 DEF Rising
  <2> QED BY ONLY <1>2, <1>3, <2>1, <2>4
<1> QED BY ONLY <1>1, <1>3 DEF Losers

-------------------------------------------------------------------------------
(* What a step leaves as it was.                                           *)

UserType == [gold : Int, bank : Int]
BodyType == [at : Places, gold : Int, bank : Int]
RowType ==
  [state : {"none", "active", "inactive"}, ended : BOOLEAN, retrieved : BOOLEAN,
   owner : Players \union {None}, start : Int, buyout : Int]
ViewType ==
  [kind : {"none", "live", "over", "zero"}, retrieved : BOOLEAN, bids : Seq(Bids)]

LEMMA Types ==
  /\ TypeOK <=>
       /\ users \in [Players -> UserType] /\ body \in [Players -> BodyType]
       /\ auction \in [Items -> RowType] /\ bids \in [Items -> Seq(Bids)]
       /\ copies \in [Items -> [Players -> Nat]]
       /\ chosen \in SUBSET Items /\ todo \in SUBSET chosen
       /\ menu \in [Players -> Menus] /\ view \in [Players -> [Items -> ViewType]]
       /\ sel \in [Players -> Items \union {None}] /\ req \in [Players -> Int]
       /\ budget \in [Events -> Nat]
  /\ None \notin Items /\ None \notin Players
BY AuctionAssumption DEF TypeOK, UserType, BodyType, RowType, ViewType

LEMMA RowFields ==
  ASSUME NEW r \in RowType
  PROVE  /\ r.state \in {"none", "active", "inactive"} /\ r.ended \in BOOLEAN
         /\ r.owner \in Players \union {None} /\ r.start \in Int /\ r.buyout \in Int
BY DEF RowType

LEMMA EarlierFacts ==
  /\ \A s \in Seq(Bids) : Earlier(s, s)
  /\ \A r, s, t \in Seq(Bids) : Earlier(r, s) /\ Earlier(s, t) => Earlier(r, t)
<1>1. \A s \in Seq(Bids) : Len(s) \in Nat
  OBVIOUS
<1>2. \A s \in Seq(Bids) : Earlier(s, s)
  BY <1>1 DEF Earlier
<1>3. ASSUME NEW r \in Seq(Bids), NEW s \in Seq(Bids), NEW t \in Seq(Bids),
             Earlier(r, s), Earlier(s, t)
      PROVE  Earlier(r, t)
  <2>1. Len(r) <= Len(s) /\ Len(s) <= Len(t)
    BY <1>3 DEF Earlier
  <2>2. \A k \in 1..Len(r) : k \in 1..Len(s)
    BY <1>1, <2>1
  <2>3. \A k \in 1..Len(r) : r[k] = t[k]
    BY <1>3, <2>2 DEF Earlier
  <2> QED BY <1>1, <2>1, <2>3 DEF Earlier
<1> QED BY <1>2, <1>3

\* A list with as many bids as the old one is the old one.
LEMMA NotOutbid ==
  ASSUME NEW s \in Seq(Bids), NEW t \in Seq(Bids), Earlier(s, t), Len(t) <= Len(s)
  PROVE  s = t
<1>1. Len(s) = Len(t) /\ Len(s) \in Nat
  BY DEF Earlier
<1>2. \A k \in 1..Len(s) : s[k] = t[k]
  BY DEF Earlier
<1> QED BY <1>1, <1>2

\* What the tables may do while somebody looks at an old copy of them.
Grow ==
  \A i \in Items :
    /\ Earlier(bids[i], bids'[i])
    /\ auction[i].state # "none" =>
         /\ auction'[i].state # "none" /\ auction'[i].owner = auction[i].owner
         /\ auction'[i].start = auction[i].start /\ auction'[i].buyout = auction[i].buyout
    /\ auction[i].state = "inactive" \/ auction[i].ended =>
         auction'[i].state = "inactive" \/ auction'[i].ended

SameScreen(p) ==
  menu'[p] = menu[p] /\ view'[p] = view[p] /\ sel'[p] = sel[p] /\ req'[p] = req[p]

LEMMA NothingGrows ==
  ASSUME TypeOK, UNCHANGED <<auction, bids>>
  PROVE  Grow
BY Types, EarlierFacts DEF Grow

\* Whoever has not chosen anything is asked what was asked before.
LEMMA ScreenKept ==
  ASSUME TypeOK, TypeOK', Grow, NEW p \in Players, ViewInv(p), MenuInv(p), SameScreen(p),
         menu[p] # "none" => body'[p].at = body[p].at
  PROVE  ViewInv(p)' /\ MenuInv(p)'
<1>1. ASSUME NEW i \in Items, view'[p][i].kind # "none"
      PROVE  /\ auction'[i].state # "none" /\ Earlier(view'[p][i].bids, bids'[i])
             /\ view'[p][i].kind = "zero" => auction'[i].state = "inactive" \/ auction'[i].ended
  <2>1. /\ auction[i].state # "none" /\ Earlier(view[p][i].bids, bids[i])
        /\ view[p][i].kind = "zero" => auction[i].state = "inactive" \/ auction[i].ended
    BY <1>1 DEF ViewInv, SameScreen
  <2>2. Earlier(bids[i], bids'[i])
    BY DEF Grow
  <2>3. view[p][i].bids \in Seq(Bids) /\ bids[i] \in Seq(Bids) /\ bids'[i] \in Seq(Bids)
    <3>1. view[p][i] \in ViewType /\ bids[i] \in Seq(Bids)
      BY Types
    <3>2. bids' \in [Items -> Seq(Bids)]
      BY DEF TypeOK
    <3> QED BY <3>1, <3>2 DEF ViewType
  <2>4. Earlier(view[p][i].bids, bids'[i])
    BY ONLY <2>1, <2>2, <2>3, EarlierFacts
  <2> QED BY <2>1, <2>4 DEF Grow, SameScreen
<1>2. ViewInv(p)'
  BY <1>1 DEF ViewInv
<1>3. ASSUME menu[p] \in {"item", "amount", "confirm", "over", "outbid"}
      PROVE  /\ sel[p] \in Items /\ Seen(p).kind # "none"
             /\ Seen(p)' = Seen(p) /\ Owner(p)' = Owner(p) /\ Buyout(p)' = Buyout(p)
             /\ GetNextMinBid(p)' = GetNextMinBid(p)
  <2>1. sel[p] \in Items /\ Seen(p).kind # "none"
    BY <1>3 DEF MenuInv
  <2>2. auction[sel[p]].state # "none"
    BY <2>1 DEF ViewInv, Seen
  <2>3. Seen(p)' = Seen(p)
    BY DEF Seen, SameScreen
  <2>4. /\ auction'[sel[p]].owner = auction[sel[p]].owner /\ sel'[p] = sel[p]
        /\ auction'[sel[p]].start = auction[sel[p]].start
        /\ auction'[sel[p]].buyout = auction[sel[p]].buyout
    BY <2>1, <2>2 DEF Grow, SameScreen
  <2>5. GetTopBid(p)' = GetTopBid(p)
    BY <2>3, <2>4 DEF GetTopBid, Zeroed
  <2> QED BY <2>1, <2>3, <2>4, <2>5 DEF Owner, Buyout, Zeroed, GetNextMinBid
<1>4. /\ menu'[p] = menu[p] /\ sel'[p] = sel[p] /\ req'[p] = req[p]
      /\ menu[p] # "none" => body'[p].at = "in"
  BY DEF SameScreen, MenuInv
<1>5. menu[p] \in {"item", "amount", "confirm", "over", "outbid"} =>
        sel[p] \in Items /\ Seen(p)'.kind # "none"
  BY <1>3
<1>6. menu[p] \in {"amount", "confirm"} => Owner(p)' # p
  BY <1>3 DEF MenuInv
<1>7. menu[p] = "confirm" => AskedEnough(p)'
  <2>1. SUFFICES ASSUME menu[p] = "confirm" PROVE AskedEnough(p)'
    OBVIOUS
  <2>2. AskedEnough(p)
    BY <2>1 DEF MenuInv
  <2> QED BY <1>3, <1>4, <2>1, <2>2 DEF AskedEnough
<1>8. MenuInv(p)'
  BY <1>4, <1>5, <1>6, <1>7 DEF MenuInv
<1> QED BY <1>2, <1>8

\* A step of the tables, and of nobody's screen but p's.
LEMMA Together ==
  ASSUME HouseInv, TypeOK', Grow, UpdateInv', \A i \in Items : RowInv(i)',
         \A q \in Players :
           \/ SameScreen(q) /\ (menu[q] # "none" => body'[q].at = body[q].at)
           \/ ViewInv(q)' /\ MenuInv(q)'
  PROVE  HouseInv'
<1>1. \A q \in Players : ViewInv(q)' /\ MenuInv(q)'
  BY ScreenKept DEF HouseInv
<1> QED BY <1>1 DEF HouseInv

LEMMA TablesKept ==
  ASSUME HouseInv, TypeOK', UNCHANGED <<auction, bids, update>>
  PROVE  Grow /\ UpdateInv' /\ \A i \in Items : RowInv(i)'
BY NothingGrows DEF HouseInv, UpdateInv, RowInv, update

\* A choice that only changes what p is shown.
LEMMA OnlyScreen ==
  ASSUME HouseInv, NEW p \in Players, UNCHANGED <<users, body>>, Unmoved,
         budget' \in [Events -> Nat],
         menu' \in [Players -> Menus], view' \in [Players -> [Items -> ViewType]],
         sel' \in [Players -> Items \union {None}], req' \in [Players -> Int],
         \A q \in Players \ {p} : SameScreen(q),
         ViewInv(p)', MenuInv(p)'
  PROVE  HouseInv'
<1>1. TypeOK'
  BY Types DEF HouseInv, Unmoved, update, TypeOK, ViewType
<1>2. \A q \in Players : (SameScreen(q) /\ body'[q].at = body[q].at) \/ (ViewInv(q)' /\ MenuInv(q)')
  OBVIOUS
<1>3. Grow /\ UpdateInv' /\ \A i \in Items : RowInv(i)'
  BY <1>1, TablesKept DEF Unmoved
<1> QED BY ONLY HouseInv, <1>1, <1>2, <1>3, Together

-------------------------------------------------------------------------------
(* Money.                                                                  *)

LEMMA CreditFacts ==
  ASSUME NEW b \in [Players -> BodyType], users \in [Players -> UserType],
         NEW c, \A p \in Players : c[p] \in Int, Credit(b, c)
  PROVE  /\ body' \in [Players -> BodyType] /\ users' \in [Players -> UserType]
         /\ \A p \in Players :
              /\ body'[p].at = b[p].at /\ body'[p].gold = b[p].gold
              /\ Money(p)' = (IF b[p].at = "in" THEN b[p].gold + b[p].bank
                              ELSE users[p].gold + users[p].bank) + c[p]
<1>1. body' = [p \in Players |-> IF b[p].at = "in" THEN [b[p] EXCEPT !.bank = @ + c[p]] ELSE b[p]]
  BY DEF Credit
<1>2. users' = [p \in Players |-> IF b[p].at = "in" THEN users[p]
                                  ELSE [users[p] EXCEPT !.bank = @ + c[p]]]
  BY DEF Credit
<1>3. \A p \in Players :
        /\ b[p] \in BodyType /\ b[p].gold \in Int /\ b[p].bank \in Int
        /\ users[p] \in UserType /\ users[p].gold \in Int /\ users[p].bank \in Int
  BY DEF BodyType, UserType
<1>4. ASSUME NEW p \in Players
      PROVE  /\ body'[p] \in BodyType /\ users'[p] \in UserType
             /\ body'[p].at = b[p].at /\ body'[p].gold = b[p].gold
             /\ Money(p)' = (IF b[p].at = "in" THEN b[p].gold + b[p].bank
                             ELSE users[p].gold + users[p].bank) + c[p]
  <2>1. CASE b[p].at = "in"
    <3>1. body'[p] = [b[p] EXCEPT !.bank = @ + c[p]] /\ users'[p] = users[p]
      BY <1>1, <1>2, <2>1
    <3>2. body'[p] \in BodyType /\ body'[p].at = b[p].at /\ body'[p].gold = b[p].gold
          /\ body'[p].bank = b[p].bank + c[p]
      BY <1>3, <3>1 DEF BodyType
    <3> QED BY <1>3, <2>1, <3>1, <3>2 DEF Money
  <2>2. CASE b[p].at # "in"
    <3>1. body'[p] = b[p] /\ users'[p] = [users[p] EXCEPT !.bank = @ + c[p]]
      BY <1>1, <1>2, <2>2
    <3>2. users'[p] \in UserType /\ users'[p].gold = users[p].gold
          /\ users'[p].bank = users[p].bank + c[p]
      BY <1>3, <3>1 DEF UserType
    <3> QED BY <1>3, <2>2, <3>1, <3>2 DEF Money
  <2> QED BY <2>1, <2>2
<1>5. body' \in [Players -> BodyType] /\ users' \in [Players -> UserType]
  BY <1>1, <1>2, <1>4
<1> QED BY <1>4, <1>5

\* What p gets when the auction i is paid.
Owed(p, i, bs, L, rewarded) ==
  (IF p \in L THEN GetLastBid(bs, p) ELSE 0)
  + (IF rewarded /\ p = auction[i].owner THEN Top(bs) ELSE 0)

LEMMA PayFacts ==
  ASSUME NEW b \in [Players -> BodyType], users \in [Players -> UserType], NEW i,
         NEW bs \in Seq(Bids), bs # <<>>, NEW L, NEW rewarded \in BOOLEAN, Pay(b, i, bs, L, rewarded)
  PROVE  /\ body' \in [Players -> BodyType] /\ users' \in [Players -> UserType]
         /\ \A p \in Players :
              /\ body'[p].at = b[p].at /\ body'[p].gold = b[p].gold
              /\ Money(p)' = (IF b[p].at = "in" THEN b[p].gold + b[p].bank
                              ELSE users[p].gold + users[p].bank) + Owed(p, i, bs, L, rewarded)
<1>1. PICK c : c = [p \in Players |-> Owed(p, i, bs, L, rewarded)]
  OBVIOUS
<1>2. Credit(b, c)
  BY <1>1 DEF Pay, Owed
<1>3. \A p \in Players : c[p] = Owed(p, i, bs, L, rewarded)
  BY <1>1
<1>4. \A p : GetLastBid(bs, p) \in Int
  BY LastBidFacts
<1>5. Top(bs) \in Int
  BY BidFacts
<1>6. \A p \in Players : c[p] \in Int
  BY ONLY <1>3, <1>4, <1>5 DEF Owed
<1>7. /\ body' \in [Players -> BodyType] /\ users' \in [Players -> UserType]
      /\ \A p \in Players :
           /\ body'[p].at = b[p].at /\ body'[p].gold = b[p].gold
           /\ Money(p)' = (IF b[p].at = "in" THEN b[p].gold + b[p].bank
                           ELSE users[p].gold + users[p].bank) + c[p]
  BY ONLY b \in [Players -> BodyType], users \in [Players -> UserType], <1>2, <1>6, CreditFacts
<1> QED BY ONLY <1>3, <1>7

LEMMA PayMoneyOf ==
  ASSUME NEW b \in [Players -> BodyType], users \in [Players -> UserType], NEW i,
         NEW bs \in Seq(Bids), bs # <<>>, NEW L, NEW rewarded \in BOOLEAN, Pay(b, i, bs, L, rewarded),
         NEW p \in Players
  PROVE  Money(p)' = (IF b[p].at = "in" THEN b[p].gold + b[p].bank
                      ELSE users[p].gold + users[p].bank) + Owed(p, i, bs, L, rewarded)
BY PayFacts

LEMMA PayMoney ==
  ASSUME body \in [Players -> BodyType], users \in [Players -> UserType], NEW i,
         NEW bs \in Seq(Bids), bs # <<>>, NEW L, NEW rewarded \in BOOLEAN, Pay(body, i, bs, L, rewarded),
         NEW p \in Players
  PROVE  Money(p)' = Money(p) + Owed(p, i, bs, L, rewarded)
<1>1. Money(p)' = (IF body[p].at = "in" THEN body[p].gold + body[p].bank
                   ELSE users[p].gold + users[p].bank) + Owed(p, i, bs, L, rewarded)
  BY PayFacts
<1> QED BY <1>1 DEF Money

-------------------------------------------------------------------------------
(* UpdateAuctions and the end of an auction.                               *)

LEMMA SelectKeeps ==
  ASSUME HouseInv, SelectExpired
  PROVE  HouseInv'
<1>1. TypeOK'
  BY Types DEF HouseInv, SelectExpired, tables, screen, TypeOK, Expired, ViewType
<1>2. Grow
  BY NothingGrows DEF HouseInv, SelectExpired, tables
<1>3. UpdateInv'
  BY DEF SelectExpired, UpdateInv, Expired, tables
<1>4. \A i \in Items : RowInv(i)'
  BY DEF HouseInv, RowInv, SelectExpired, tables
<1>5. \A q \in Players : SameScreen(q) /\ body'[q].at = body[q].at
  BY DEF SameScreen, SelectExpired, screen
<1> QED BY ONLY HouseInv, <1>1, <1>2, <1>3, <1>4, <1>5, Together

LEMMA SpendFacts ==
  ASSUME budget \in [Events -> Nat], NEW e, Spend(e)
  PROVE  /\ budget' \in [Events -> Nat] /\ budget[e] > 0
         /\ \A d \in Events : budget'[d] = IF d = e THEN budget[d] - 1 ELSE budget[d]
<1>1. budget[e] > 0 /\ budget' = [budget EXCEPT ![e] = @ - 1]
  BY DEF Spend
<1>2. budget' = [d \in Events |-> IF d = e THEN budget[d] - 1 ELSE budget[d]]
  BY <1>1
<1>3. \A d \in Events : (IF d = e THEN budget[d] - 1 ELSE budget[d]) \in Nat
  BY <1>1
<1> QED BY <1>1, <1>2, <1>3

\* However it ends, a payment only moves money.
LEMMA SettleFacts ==
  ASSUME HouseInv, NEW i \in Items, bids[i] # <<>>, NEW w, Settle(body, i, bids[i], w)
  PROVE  /\ body' \in [Players -> BodyType] /\ users' \in [Players -> UserType]
         /\ \A p \in Players : body'[p].at = body[p].at /\ body'[p].gold = body[p].gold
         /\ budget' \in [Events -> Nat]
<1>1. \E rewarded \in BOOLEAN : \E L : Pay(body, i, bids[i], L, rewarded)
  BY Zenon DEF Settle
<1>2. PICK rewarded \in BOOLEAN : \E L : Pay(body, i, bids[i], L, rewarded)
  BY <1>1
<1>3. PICK L : Pay(body, i, bids[i], L, rewarded)
  BY <1>2
<1>4. /\ body \in [Players -> BodyType] /\ users \in [Players -> UserType] /\ bids[i] \in Seq(Bids)
      /\ budget \in [Events -> Nat]
  BY Types DEF HouseInv
<1>5. budget' \in [Events -> Nat]
  <2>1. NoFault \/ Spend("dberror")
    BY DEF Settle
  <2> QED BY <1>4, <2>1, SpendFacts DEF NoFault
<1> QED BY ONLY bids[i] # <<>>, <1>2, <1>3, <1>4, <1>5, PayFacts

LEMMA PayKeeps ==
  ASSUME HouseInv, NEW i \in Items, PayExpired(i) \/ PayAborted(i)
  PROVE  HouseInv'
<1>1. /\ UNCHANGED <<auction, bids, copies, screen>>
      /\ chosen' \subseteq chosen /\ todo' \subseteq todo /\ todo' \subseteq chosen'
  BY DEF PayExpired, PayAborted, HouseInv, UpdateInv
<1>2. /\ body \in [Players -> BodyType] /\ users \in [Players -> UserType] /\ bids[i] \in Seq(Bids)
      /\ budget \in [Events -> Nat]
  BY Types DEF HouseInv
<1>3. /\ body' \in [Players -> BodyType] /\ users' \in [Players -> UserType]
      /\ \A p \in Players : body'[p].at = body[p].at
      /\ budget' \in [Events -> Nat]
  <2>1. CASE PayAborted(i)
    <3>1. bids[i] # <<>> /\ \E L : Pay(body, i, bids[i], L, FALSE)
      BY <2>1 DEF PayAborted
    <3>2. budget' \in [Events -> Nat]
      BY <1>2, <2>1, SpendFacts DEF PayAborted
    <3>3. PICK L : Pay(body, i, bids[i], L, FALSE)
      BY <3>1
    <3> QED BY ONLY <1>2, <3>1, <3>2, <3>3, PayFacts
  <2>2. CASE PayExpired(i) /\ bids[i] = <<>>
    BY <1>2, <2>2 DEF PayExpired, NoFault
  <2>3. CASE PayExpired(i) /\ bids[i] # <<>>
    <3>1. PICK w : Settle(body, i, bids[i], w)
      BY <2>3 DEF PayExpired
    <3> QED BY ONLY HouseInv, i \in Items, <2>3, <3>1, SettleFacts
  <2> QED BY <2>1, <2>2, <2>3
<1>4. TypeOK'
  BY <1>1, <1>3, Types DEF HouseInv, screen, TypeOK, ViewType, BodyType, UserType
<1>5. Grow
  BY <1>1, NothingGrows DEF HouseInv
<1>6. UpdateInv' /\ \A j \in Items : RowInv(j)'
  BY <1>1 DEF HouseInv, UpdateInv, RowInv
<1>7. \A q \in Players : SameScreen(q) /\ body'[q].at = body[q].at
  BY <1>1, <1>3 DEF SameScreen, screen
<1> QED BY ONLY HouseInv, <1>4, <1>5, <1>6, <1>7, Together

\* A row keeps its terms, whatever becomes of the auction.
LEMMA RowsKept ==
  ASSUME HouseInv, bids' = bids, auction' \in [Items -> RowType],
         \A i \in Items :
           \/ auction'[i] = auction[i]
           \/ /\ auction[i].state # "none"
              /\ \/ auction'[i] = [auction[i] EXCEPT !.state = "inactive"]
                 \/ auction'[i] = [auction[i] EXCEPT !.ended = TRUE]
                 \/ auction'[i] = [auction[i] EXCEPT !.retrieved = TRUE]
  PROVE  Grow /\ \A i \in Items : RowInv(i)'
<1>1. ASSUME NEW i \in Items
      PROVE  /\ auction[i].state = "none" => auction'[i] = auction[i]
             /\ auction[i].state # "none" =>
                  /\ auction'[i].state # "none" /\ auction'[i].owner = auction[i].owner
                  /\ auction'[i].start = auction[i].start /\ auction'[i].buyout = auction[i].buyout
             /\ auction[i].state = "inactive" \/ auction[i].ended =>
                  auction'[i].state = "inactive" \/ auction'[i].ended
  <2>1. auction[i] \in RowType
    BY Types DEF HouseInv
  <2> QED BY <2>1 DEF RowType
<1>2. \A i \in Items : Earlier(bids[i], bids'[i])
  BY Types, EarlierFacts DEF HouseInv
<1>3. Grow
  BY <1>1, <1>2 DEF Grow
<1>4. ASSUME NEW i \in Items PROVE RowInv(i)'
  <2>1. RowInv(i)
    BY DEF HouseInv
  <2>2. CASE auction[i].state = "none"
    BY <1>1, <2>1, <2>2 DEF RowInv
  <2>3. CASE auction[i].state # "none"
    BY <1>1, <2>1, <2>3 DEF RowInv
  <2> QED BY <2>2, <2>3
<1> QED BY <1>3, <1>4

LEMMA DeactivateKeeps ==
  ASSUME HouseInv, Deactivate
  PROVE  HouseInv'
<1>1. UNCHANGED <<users, bids, body, copies, screen, todo>> /\ chosen' = {} /\ todo = {}
  BY DEF Deactivate
<1>2. \A i \in chosen : auction[i].state = "active"
  BY DEF HouseInv, UpdateInv
<1>3. auction \in [Items -> RowType] /\ budget \in [Events -> Nat]
  BY Types DEF HouseInv
<1>4. /\ auction' \in [Items -> RowType] /\ budget' \in [Events -> Nat]
      /\ \A i \in Items :
           \/ auction'[i] = auction[i]
           \/ auction[i].state # "none" /\ auction'[i] = [auction[i] EXCEPT !.state = "inactive"]
  <2>1. CASE NoFault /\ auction' = [i \in Items |-> IF i \in chosen
                         THEN [auction[i] EXCEPT !.state = "inactive"] ELSE auction[i]]
    <3>1. \A i \in Items :
            \/ auction'[i] = auction[i]
            \/ auction[i].state # "none" /\ auction'[i] = [auction[i] EXCEPT !.state = "inactive"]
      BY <1>2, <2>1
    <3>2. \A i \in Items : [auction[i] EXCEPT !.state = "inactive"] \in RowType /\ auction[i] \in RowType
      BY <1>3 DEF RowType
    <3>3. \A i \in Items : auction'[i] \in RowType
      BY <3>1, <3>2
    <3> QED BY <1>3, <2>1, <3>1, <3>3 DEF NoFault
  <2>2. CASE Spend("dberror") /\ UNCHANGED auction
    BY <1>3, <2>2, SpendFacts
  <2> QED BY <2>1, <2>2 DEF Deactivate
<1>5. TypeOK'
  BY <1>1, <1>4, Types DEF HouseInv, screen, TypeOK, ViewType, RowType
<1>6. Grow /\ \A i \in Items : RowInv(i)'
  BY ONLY HouseInv, <1>1, <1>4, RowsKept
<1>7. UpdateInv'
  BY <1>1 DEF UpdateInv
<1>8. \A q \in Players : SameScreen(q) /\ body'[q].at = body[q].at
  BY <1>1 DEF SameScreen, screen
<1> QED BY ONLY HouseInv, <1>5, <1>6, <1>7, <1>8, Together

LEMMA EndsKeeps ==
  ASSUME HouseInv, NEW i \in Items, Ends(i)
  PROVE  HouseInv'
<1>1. /\ UNCHANGED <<users, bids, body, copies, update, screen, budget>>
      /\ auction[i].state = "active" /\ auction' = [auction EXCEPT ![i].ended = TRUE]
  BY DEF Ends
<1>2. auction \in [Items -> RowType]
  BY Types DEF HouseInv
<1>3. [auction[i] EXCEPT !.ended = TRUE] \in RowType
  BY <1>2 DEF RowType
<1>4. auction' = [auction EXCEPT ![i] = [auction[i] EXCEPT !.ended = TRUE]]
  BY <1>1, <1>2
<1>5. /\ auction' \in [Items -> RowType]
      /\ \A j \in Items : \/ auction'[j] = auction[j]
                          \/ auction[j].state # "none" /\ auction'[j] = [auction[j] EXCEPT !.ended = TRUE]
  BY <1>1, <1>2, <1>3, <1>4
<1>6. TypeOK'
  BY <1>1, <1>5, Types DEF HouseInv, screen, update, TypeOK, ViewType, RowType
<1>7. Grow /\ \A j \in Items : RowInv(j)'
  BY ONLY HouseInv, <1>1, <1>5, RowsKept
<1>8. UpdateInv'
  <2>1. \A j \in Items : auction[j].state = "active" /\ auction[j].ended =>
          auction'[j].state = "active" /\ auction'[j].ended
    <3>1. \A j \in Items : auction[j] \in RowType
      BY <1>2
    <3> QED BY <1>5, <3>1, <1>1, <1>4 DEF RowType
  <2>2. chosen \subseteq Items
    BY Types DEF HouseInv
  <2> QED BY <1>1, <2>1, <2>2 DEF HouseInv, UpdateInv, update
<1>9. \A q \in Players : SameScreen(q) /\ body'[q].at = body[q].at
  BY <1>1 DEF SameScreen, screen
<1> QED BY ONLY HouseInv, <1>6, <1>7, <1>8, <1>9, Together

-------------------------------------------------------------------------------
(* The players' characters.                                                *)

LEMMA ResetFacts ==
  ASSUME TypeOK, NEW p \in Players, NEW m \in {"none", "menu"}, Reset(p, m)
  PROVE  /\ menu' \in [Players -> Menus] /\ view' \in [Players -> [Items -> ViewType]]
         /\ sel' \in [Players -> Items \union {None}] /\ req' \in [Players -> Int]
         /\ menu'[p] = m /\ ViewInv(p)'
         /\ (m # "none" => body'[p].at = "in") => MenuInv(p)'
         /\ \A q \in Players \ {p} : SameScreen(q)
<1>1. /\ menu \in [Players -> Menus] /\ view \in [Players -> [Items -> ViewType]]
      /\ sel \in [Players -> Items \union {None}] /\ req \in [Players -> Int]
  BY Types
<1>2. /\ menu' = [menu EXCEPT ![p] = m] /\ sel' = [sel EXCEPT ![p] = None]
      /\ view' = [view EXCEPT ![p] = [i \in Items |-> NoView]]
      /\ req' = [req EXCEPT ![p] = 0]
  BY DEF Reset
<1>3. NoView \in ViewType /\ NoView.kind = "none"
  <2>1. <<>> \in Seq(Bids)
    OBVIOUS
  <2> QED BY <2>1 DEF NoView, ViewType
<1>4. m \in Menus /\ menu' \in [Players -> Menus] /\ menu'[p] = m
  BY <1>1, <1>2 DEF Menus
<1>5. [i \in Items |-> NoView] \in [Items -> ViewType]
  BY <1>3
<1>6. view' \in [Players -> [Items -> ViewType]] /\ \A i \in Items : view'[p][i] = NoView
  BY <1>1, <1>2, <1>5
<1>7. sel' \in [Players -> Items \union {None}] /\ req' \in [Players -> Int]
  BY <1>1, <1>2
<1>8. \A q \in Players \ {p} : SameScreen(q)
  BY <1>1, <1>2 DEF SameScreen
<1>9. ViewInv(p)'
  BY <1>3, <1>6 DEF ViewInv
<1>10. (m # "none" => body'[p].at = "in") => MenuInv(p)'
  BY <1>4 DEF MenuInv
<1> QED BY <1>4, <1>6, <1>7, <1>8, <1>9, <1>10

LEMMA SaveLoadFacts ==
  ASSUME TypeOK, NEW p \in Players
  PROVE  /\ Save(p) => /\ users' \in [Players -> UserType]
                       /\ users'[p].gold = body[p].gold /\ users'[p].bank = body[p].bank
                       /\ \A q \in Players \ {p} : users'[q] = users[q]
         /\ \A place \in Places : Load(p, place) =>
              /\ body' \in [Players -> BodyType] /\ body'[p].at = place
              /\ body'[p].gold = users[p].gold /\ body'[p].bank = users[p].bank
              /\ \A q \in Players \ {p} : body'[q] = body[q]
         /\ \A place \in Places : body' = [body EXCEPT ![p].at = place] =>
              /\ body' \in [Players -> BodyType] /\ body'[p].at = place
              /\ body'[p].gold = body[p].gold /\ body'[p].bank = body[p].bank
              /\ \A q \in Players \ {p} : body'[q] = body[q]
<1>1. /\ body \in [Players -> BodyType] /\ users \in [Players -> UserType]
      /\ body[p] \in BodyType /\ users[p] \in UserType
      /\ body[p].gold \in Int /\ body[p].bank \in Int /\ users[p].gold \in Int /\ users[p].bank \in Int
  BY Types DEF BodyType, UserType
<1>2. ASSUME Save(p)
      PROVE  /\ users' \in [Players -> UserType]
             /\ users'[p].gold = body[p].gold /\ users'[p].bank = body[p].bank
             /\ \A q \in Players \ {p} : users'[q] = users[q]
  <2>1. [gold |-> body[p].gold, bank |-> body[p].bank] \in UserType
    BY <1>1 DEF UserType
  <2>2. users' = [users EXCEPT ![p] = [gold |-> body[p].gold, bank |-> body[p].bank]]
    BY <1>2 DEF Save
  <2> QED BY <1>1, <2>1, <2>2
<1>3. ASSUME NEW place \in Places, Load(p, place)
      PROVE  /\ body' \in [Players -> BodyType] /\ body'[p].at = place
             /\ body'[p].gold = users[p].gold /\ body'[p].bank = users[p].bank
             /\ \A q \in Players \ {p} : body'[q] = body[q]
  <2>1. [at |-> place, gold |-> users[p].gold, bank |-> users[p].bank] \in BodyType
    BY <1>1 DEF BodyType
  <2>2. body' = [body EXCEPT ![p] = [at |-> place, gold |-> users[p].gold, bank |-> users[p].bank]]
    BY <1>3 DEF Load
  <2> QED BY <1>1, <2>1, <2>2
<1>4. ASSUME NEW place \in Places, body' = [body EXCEPT ![p].at = place]
      PROVE  /\ body' \in [Players -> BodyType] /\ body'[p].at = place
             /\ body'[p].gold = body[p].gold /\ body'[p].bank = body[p].bank
             /\ \A q \in Players \ {p} : body'[q] = body[q]
  <2>1. [body[p] EXCEPT !.at = place] \in BodyType
    BY <1>1 DEF BodyType
  <2>2. body' = [body EXCEPT ![p] = [body[p] EXCEPT !.at = place]]
    BY <1>1, <1>4
  <2>3. body'[p] = [body[p] EXCEPT !.at = place]
    BY <1>1, <2>2
  <2> QED BY <1>1, <2>1, <2>2, <2>3 DEF BodyType
<1> QED BY <1>2, <1>3, <1>4

\* Who is not playing has no menu open.
LEMMA ComeKeeps ==
  ASSUME HouseInv, NEW p \in Players, Come(p)
  PROVE  HouseInv'
<1>1. TypeOK /\ MenuInv(p) /\ body \in [Players -> BodyType] /\ users \in [Players -> UserType]
      /\ budget \in [Events -> Nat]
  BY Types DEF HouseInv
<1>2. UNCHANGED <<auction, bids, copies, update, screen>> /\ body[p].at # "in"
  BY DEF Come, WebLogin, GiveName, WrongPassword, Password, GiveUp, Unmoved, update
<1>3. budget' \in [Events -> Nat]
  BY <1>1, SpendFacts DEF Come, WebLogin, GiveName, WrongPassword, Password, GiveUp
<1>4. /\ body' \in [Players -> BodyType] /\ users' \in [Players -> UserType]
      /\ \A q \in Players \ {p} : body'[q] = body[q]
  BY <1>1, SaveLoadFacts DEF Come, WebLogin, GiveName, WrongPassword, Password, GiveUp, Places
<1>5. TypeOK'
  BY <1>1, <1>2, <1>3, <1>4, Types DEF screen, update, TypeOK, UserType, BodyType, ViewType
<1>6. menu[p] = "none"
  BY <1>1, <1>2 DEF MenuInv
<1>7. \A q \in Players : SameScreen(q) /\ (menu[q] # "none" => body'[q].at = body[q].at)
  BY <1>2, <1>4, <1>6 DEF SameScreen, screen
<1>8. Grow /\ UpdateInv' /\ \A i \in Items : RowInv(i)'
  BY ONLY HouseInv, <1>2, <1>5, TablesKept
<1> QED BY ONLY HouseInv, <1>5, <1>7, <1>8, Together

LEMMA GoKeeps ==
  ASSUME HouseInv, NEW p \in Players, LeaveGame(p) \/ LoseLink(p) \/ Leave(p)
  PROVE  HouseInv'
<1>1. TypeOK /\ body \in [Players -> BodyType] /\ users \in [Players -> UserType]
  BY Types DEF HouseInv
<1>2. UNCHANGED <<auction, bids, copies, update, budget>> /\ Reset(p, "none")
  BY DEF LeaveGame, LoseLink, Leave, Unmoved, update
<1>3. /\ menu' \in [Players -> Menus] /\ view' \in [Players -> [Items -> ViewType]]
      /\ sel' \in [Players -> Items \union {None}] /\ req' \in [Players -> Int]
      /\ ViewInv(p)' /\ MenuInv(p)' /\ \A q \in Players \ {p} : SameScreen(q)
  BY ONLY <1>1, p \in Players, <1>2, ResetFacts
<1>4. /\ body' \in [Players -> BodyType] /\ users' \in [Players -> UserType]
      /\ \A q \in Players \ {p} : body'[q] = body[q]
  BY <1>1, SaveLoadFacts DEF LeaveGame, LoseLink, Leave, Places
<1>5. TypeOK'
  BY <1>1, <1>2, <1>3, <1>4, Types DEF update, TypeOK, UserType, BodyType, ViewType
<1>6. Grow /\ UpdateInv' /\ \A i \in Items : RowInv(i)'
  BY ONLY HouseInv, <1>2, <1>5, TablesKept
<1>7. \A q \in Players : \/ SameScreen(q) /\ (menu[q] # "none" => body'[q].at = body[q].at)
                         \/ ViewInv(q)' /\ MenuInv(q)'
  BY <1>3, <1>4
<1> QED BY ONLY HouseInv, <1>5, <1>6, <1>7, Together

LEMMA DieKeeps ==
  ASSUME HouseInv, NEW p \in Players, Die(p)
  PROVE  HouseInv'
<1>1. /\ TypeOK /\ body \in [Players -> BodyType] /\ users \in [Players -> UserType]
      /\ budget \in [Events -> Nat] /\ copies \in [Items -> [Players -> Nat]]
      /\ body[p] \in BodyType /\ body[p].bank \in Int
  BY Types DEF HouseInv, BodyType
<1>2. /\ UNCHANGED <<auction, bids, update, screen>> /\ Spend("death")
      /\ body' = [body EXCEPT ![p].gold = 0]
      /\ users' = [users EXCEPT ![p] = [gold |-> 0, bank |-> body[p].bank]]
      /\ copies' = [i \in Items |-> [copies[i] EXCEPT ![p] = 0]]
  BY DEF Die
<1>3. [body[p] EXCEPT !.gold = 0] \in BodyType /\ [body[p] EXCEPT !.gold = 0].at = body[p].at
  BY <1>1 DEF BodyType
<1>4. body' = [body EXCEPT ![p] = [body[p] EXCEPT !.gold = 0]]
  BY <1>1, <1>2
<1>5. body' \in [Players -> BodyType] /\ \A q \in Players : body'[q].at = body[q].at
  BY <1>1, <1>3, <1>4
<1>6. [gold |-> 0, bank |-> body[p].bank] \in UserType
  BY <1>1 DEF UserType
<1>7. users' \in [Players -> UserType]
  BY <1>1, <1>2, <1>6
<1>8. copies' \in [Items -> [Players -> Nat]]
  BY <1>1, <1>2
<1>9. budget' \in [Events -> Nat]
  BY <1>1, <1>2, SpendFacts
<1>10. TypeOK'
  BY <1>1, <1>2, <1>5, <1>7, <1>8, <1>9, Types DEF update, screen, TypeOK, UserType, BodyType, ViewType
<1>11. Grow /\ UpdateInv' /\ \A i \in Items : RowInv(i)'
  BY ONLY HouseInv, <1>2, <1>10, TablesKept
<1>12. \A q \in Players : SameScreen(q) /\ (menu[q] # "none" => body'[q].at = body[q].at)
  BY <1>2, <1>5 DEF SameScreen, screen
<1> QED BY ONLY HouseInv, <1>10, <1>11, <1>12, Together

-------------------------------------------------------------------------------
(* The menus.                                                              *)

\* What p has selected.
LEMMA SeenFacts ==
  ASSUME HouseInv, NEW p \in Players,
         menu[p] \in {"item", "amount", "confirm", "over", "outbid"}
  PROVE  /\ sel[p] \in Items /\ Seen(p) \in ViewType /\ Seen(p).kind # "none" /\ body[p].at = "in"
         /\ auction[sel[p]] \in RowType /\ auction[sel[p]].state # "none"
         /\ Earlier(Seen(p).bids, bids[sel[p]])
         /\ Seen(p).bids \in Seq(Bids) /\ bids[sel[p]] \in Seq(Bids)
         /\ Buyout(p) \in Int /\ GetTopBid(p) \in Int /\ GetNextMinBid(p) = GetTopBid(p) + Increment
         /\ Buyout(p) > 0 => ~Zeroed(p) /\ Buyout(p) = auction[sel[p]].buyout /\ Buyout(p) \in Prices
         /\ req[p] \in Int /\ Increment \in Nat /\ Increment > 0
<1>1. /\ body \in [Players -> BodyType] /\ auction \in [Items -> RowType] /\ bids \in [Items -> Seq(Bids)]
      /\ view \in [Players -> [Items -> ViewType]] /\ req \in [Players -> Int]
      /\ ViewInv(p) /\ MenuInv(p)
  BY Types DEF HouseInv
<1>2. sel[p] \in Items /\ Seen(p).kind # "none" /\ body[p].at = "in"
  BY <1>1 DEF MenuInv
<1>3. auction[sel[p]].state # "none" /\ Earlier(Seen(p).bids, bids[sel[p]])
  BY <1>1, <1>2 DEF ViewInv, Seen
<1>4. Seen(p) \in ViewType /\ auction[sel[p]] \in RowType /\ bids[sel[p]] \in Seq(Bids)
  BY <1>1, <1>2 DEF Seen
<1>5. Seen(p).bids \in Seq(Bids)
  BY <1>4 DEF ViewType
<1>6. auction[sel[p]].buyout \in Int /\ auction[sel[p]].start \in Int
  BY <1>4 DEF RowType
<1>7. RowInv(sel[p])
  BY <1>2 DEF HouseInv
<1>8. auction[sel[p]].buyout \in Prices
  BY <1>3, <1>7 DEF RowInv
<1>9. /\ Buyout(p) \in Int
      /\ Buyout(p) > 0 => ~Zeroed(p) /\ Buyout(p) = auction[sel[p]].buyout /\ Buyout(p) \in Prices
  BY <1>6, <1>8 DEF Buyout
<1>10. GetTopBid(p) \in Int
  <2>1. Seen(p).bids # <<>> => Top(Seen(p).bids) \in Int
    BY <1>5, BidFacts
  <2> QED BY <1>6, <2>1 DEF GetTopBid
<1>11. Increment \in Nat /\ Increment > 0
  BY AuctionAssumption
<1> QED BY <1>1, <1>2, <1>3, <1>4, <1>5, <1>9, <1>10, <1>11 DEF GetNextMinBid

LEMMA SameSeen ==
  ASSUME NEW p, UNCHANGED <<auction, view>>, sel'[p] = sel[p]
  PROVE  /\ Seen(p)' = Seen(p) /\ Owner(p)' = Owner(p) /\ Buyout(p)' = Buyout(p)
         /\ GetNextMinBid(p)' = GetNextMinBid(p)
BY DEF Seen, Owner, Buyout, GetNextMinBid, GetTopBid, Zeroed

\* A choice for which nothing is loaded.
LEMMA OnlyMenu ==
  ASSUME HouseInv, NEW p \in Players, UNCHANGED <<users, body>>, Unmoved,
         budget' \in [Events -> Nat], view' = view,
         menu' \in [Players -> Menus],
         sel' \in [Players -> Items \union {None}], req' \in [Players -> Int],
         \A q \in Players \ {p} : menu'[q] = menu[q] /\ sel'[q] = sel[q] /\ req'[q] = req[q],
         MenuInv(p)'
  PROVE  HouseInv'
<1>1. view' \in [Players -> [Items -> ViewType]]
  BY Types DEF HouseInv
<1>2. \A q \in Players \ {p} : SameScreen(q)
  BY DEF SameScreen
<1>3. ViewInv(p)'
  BY DEF HouseInv, ViewInv, Unmoved
<1> QED BY <1>1, <1>2, <1>3, OnlyScreen

LEMMA ScreenTypes ==
  ASSUME HouseInv
  PROVE  /\ menu \in [Players -> Menus] /\ view \in [Players -> [Items -> ViewType]]
         /\ sel \in [Players -> Items \union {None}] /\ req \in [Players -> Int]
         /\ budget \in [Events -> Nat] /\ body \in [Players -> BodyType]
         /\ auction \in [Items -> RowType] /\ bids \in [Items -> Seq(Bids)]
         /\ \A p \in Players : ViewInv(p) /\ MenuInv(p)
BY Types DEF HouseInv

LEMMA ShowKeeps ==
  ASSUME HouseInv, NEW p \in Players, OpenHouse(p) \/ ManualBid(p)
  PROVE  HouseInv'
<1>1. PICK m : /\ m = "menu" \/ (m = "amount" /\ menu[p] = "item" /\ Owner(p) # p)
               /\ Show(p, m) /\ body[p].at = "in"
  BY DEF OpenHouse, ManualBid, HouseInv, MenuInv
<1>2. /\ menu' = [menu EXCEPT ![p] = m] /\ UNCHANGED <<users, body, view, sel, req, budget>> /\ Unmoved
  BY <1>1 DEF Show, Unmoved, tables
<1>3. /\ menu \in [Players -> Menus] /\ sel \in [Players -> Items \union {None}]
      /\ req \in [Players -> Int] /\ budget \in [Events -> Nat]
  BY ScreenTypes
<1>4. m \in Menus /\ menu' \in [Players -> Menus] /\ menu'[p] = m
      /\ \A q \in Players \ {p} : menu'[q] = menu[q]
  BY <1>1, <1>2, <1>3 DEF Menus
<1>5. /\ Seen(p)' = Seen(p) /\ Owner(p)' = Owner(p)
  BY <1>2, SameSeen DEF Unmoved
<1>6. m = "amount" => sel[p] \in Items /\ Seen(p).kind # "none"
  BY <1>1, SeenFacts
<1>7. MenuInv(p)'
  BY <1>1, <1>2, <1>4, <1>5, <1>6 DEF MenuInv
<1> QED BY <1>2, <1>3, <1>4, <1>7, OnlyMenu

LEMMA AskKeeps ==
  ASSUME HouseInv, NEW p \in Players, NEW bid \in Int, Ask(p, bid), menu[p] \in {"item", "amount"},
         Owner(p) # p, bid \in Amounts \union Prices,
         \/ bid >= GetNextMinBid(p) /\ (Buyout(p) > 0 => bid <= Buyout(p))
         \/ Buyout(p) > 0 /\ bid = Buyout(p),
         budget' = budget
  PROVE  HouseInv'
<1>1. /\ menu' = [menu EXCEPT ![p] = "confirm"] /\ req' = [req EXCEPT ![p] = bid]
      /\ UNCHANGED <<view, sel, users, body>> /\ Unmoved
  BY DEF Ask
<1>2. /\ menu \in [Players -> Menus] /\ sel \in [Players -> Items \union {None}]
      /\ req \in [Players -> Int] /\ budget \in [Events -> Nat]
  BY ScreenTypes
<1>3. /\ menu' \in [Players -> Menus] /\ menu'[p] = "confirm" /\ req' \in [Players -> Int]
      /\ req'[p] = bid
      /\ \A q \in Players \ {p} : menu'[q] = menu[q] /\ sel'[q] = sel[q] /\ req'[q] = req[q]
  BY <1>1, <1>2 DEF Menus
<1>4. /\ Seen(p)' = Seen(p) /\ Owner(p)' = Owner(p) /\ Buyout(p)' = Buyout(p)
      /\ GetNextMinBid(p)' = GetNextMinBid(p)
  BY <1>1, SameSeen DEF Unmoved
<1>5. sel[p] \in Items /\ Seen(p).kind # "none" /\ body[p].at = "in"
  BY SeenFacts
<1>6. AskedEnough(p)'
  BY <1>3, <1>4 DEF AskedEnough
<1>7. MenuInv(p)'
  BY <1>1, <1>3, <1>4, <1>5, <1>6 DEF MenuInv
<1> QED BY <1>1, <1>2, <1>3, <1>7, OnlyMenu

LEMMA AmountKeeps ==
  ASSUME HouseInv, NEW p \in Players, NEW a \in Amounts, EnterAmount(p, a)
  PROVE  HouseInv'
<1>1. PICK bid : bid = (IF Buyout(p) > 0 /\ Buyout(p) < a THEN Buyout(p) ELSE a)
  OBVIOUS
<1>2. menu[p] = "amount" /\ bid >= GetNextMinBid(p) /\ Ask(p, bid) /\ budget' = budget
  BY <1>1 DEF EnterAmount, Ask
<1>3. Owner(p) # p
  BY <1>2 DEF HouseInv, MenuInv
<1>4. Buyout(p) \in Int /\ (Buyout(p) > 0 => Buyout(p) \in Prices) /\ a \in Int
  BY <1>2, SeenFacts, AuctionAssumption
<1>5. bid \in Int /\ bid \in Amounts \union Prices /\ (Buyout(p) > 0 => bid <= Buyout(p))
  BY <1>1, <1>4
<1> QED BY <1>2, <1>3, <1>5, AskKeeps

LEMMA BuyoutKeeps ==
  ASSUME HouseInv, NEW p \in Players, BuyoutOption(p)
  PROVE  HouseInv'
<1>1. menu[p] = "item" /\ Owner(p) # p /\ Buyout(p) > 0 /\ Ask(p, Buyout(p)) /\ budget' = budget
  BY DEF BuyoutOption, Ask
<1>2. Buyout(p) \in Int /\ Buyout(p) \in Prices
  BY <1>1, SeenFacts
<1> QED BY <1>1, <1>2, AskKeeps

LEMMA SelectItemKeeps ==
  ASSUME HouseInv, NEW p \in Players, NEW i \in Items, Select(p, i)
  PROVE  HouseInv'
<1>1. /\ menu[p] = "browse" /\ view[p][i].kind # "none"
      /\ menu' = [menu EXCEPT ![p] = "item"] /\ sel' = [sel EXCEPT ![p] = i]
      /\ req' = [req EXCEPT ![p] = 0]
      /\ UNCHANGED <<view, users, body, budget>> /\ Unmoved
  BY DEF Select
<1>2. /\ menu \in [Players -> Menus] /\ sel \in [Players -> Items \union {None}]
      /\ req \in [Players -> Int] /\ budget \in [Events -> Nat] /\ MenuInv(p)
  BY ScreenTypes
<1>3. /\ menu' \in [Players -> Menus] /\ menu'[p] = "item" /\ req' \in [Players -> Int]
      /\ sel' \in [Players -> Items \union {None}] /\ sel'[p] = i
      /\ \A q \in Players \ {p} : menu'[q] = menu[q] /\ sel'[q] = sel[q] /\ req'[q] = req[q]
  BY <1>1, <1>2 DEF Menus
<1>4. body[p].at = "in"
  BY <1>1, <1>2 DEF MenuInv
<1>5. MenuInv(p)'
  BY <1>1, <1>3, <1>4 DEF MenuInv, Seen
<1> QED BY <1>1, <1>2, <1>3, <1>5, OnlyMenu

\* Back to the list, or to the selected item.
LEMMA BackKeeps ==
  ASSUME HouseInv, NEW p \in Players, Back(p)
  PROVE  HouseInv'
<1>1. /\ UNCHANGED <<users, body, budget>> /\ Unmoved
      /\ \/ menu[p] = "browse" /\ Reset(p, "menu")
         \/ /\ menu[p] \in {"item", "confirm", "over", "outbid"}
            /\ ShowBrowser(p) /\ UNCHANGED view
         \/ /\ menu[p] \in {"amount", "outbid"}
            /\ menu' = [menu EXCEPT ![p] = "item"] /\ req' = [req EXCEPT ![p] = 0]
            /\ UNCHANGED <<view, sel>>
  BY DEF Back
<1>2. /\ menu \in [Players -> Menus] /\ sel \in [Players -> Items \union {None}]
      /\ req \in [Players -> Int] /\ budget \in [Events -> Nat] /\ MenuInv(p)
  BY ScreenTypes
<1>3. TypeOK /\ body[p].at = "in"
  BY <1>1, <1>2 DEF MenuInv, HouseInv
<1>4. CASE menu[p] = "browse" /\ Reset(p, "menu")
  <2>1. /\ menu' \in [Players -> Menus] /\ view' \in [Players -> [Items -> ViewType]]
        /\ sel' \in [Players -> Items \union {None}] /\ req' \in [Players -> Int]
        /\ ViewInv(p)' /\ ((body'[p].at = "in") => MenuInv(p)')
        /\ \A q \in Players \ {p} : SameScreen(q)
    BY ONLY <1>3, <1>4, p \in Players, ResetFacts
  <2> QED BY <1>1, <1>2, <1>3, <2>1, OnlyScreen
<1>5. CASE ShowBrowser(p) /\ UNCHANGED view
  <2>1. /\ menu' \in [Players -> Menus] /\ menu'[p] = "browse" /\ req' \in [Players -> Int]
        /\ sel' \in [Players -> Items \union {None}]
        /\ \A q \in Players \ {p} : menu'[q] = menu[q] /\ sel'[q] = sel[q] /\ req'[q] = req[q]
    BY <1>2, <1>5 DEF ShowBrowser, Menus
  <2>2. MenuInv(p)'
    BY <1>1, <1>3, <2>1 DEF MenuInv
  <2> QED BY <1>1, <1>2, <1>5, <2>1, <2>2, OnlyMenu
<1>6. CASE /\ menu[p] \in {"amount", "outbid"}
           /\ menu' = [menu EXCEPT ![p] = "item"] /\ req' = [req EXCEPT ![p] = 0]
           /\ UNCHANGED <<view, sel>>
  <2>1. /\ menu' \in [Players -> Menus] /\ menu'[p] = "item" /\ req' \in [Players -> Int]
        /\ \A q \in Players \ {p} : menu'[q] = menu[q] /\ sel'[q] = sel[q] /\ req'[q] = req[q]
    BY <1>2, <1>6 DEF Menus
  <2>2. sel[p] \in Items /\ Seen(p).kind # "none"
    BY <1>6, SeenFacts
  <2>3. MenuInv(p)'
    BY <1>1, <1>3, <1>6, <2>1, <2>2 DEF MenuInv, Seen
  <2> QED BY <1>1, <1>2, <1>6, <2>1, <2>3, OnlyMenu
<1> QED BY <1>1, <1>4, <1>5, <1>6

LEMMA SnapshotFacts ==
  ASSUME HouseInv, NEW i \in Items
  PROVE  /\ Snapshot(i) \in ViewType /\ Snapshot(i).bids = bids[i]
         /\ Snapshot(i).kind = (IF auction[i].state = "active" THEN "live" ELSE "over")
<1>1. auction[i] \in RowType /\ bids[i] \in Seq(Bids)
  BY ScreenTypes
<1>2. auction[i].retrieved \in BOOLEAN
  BY <1>1 DEF RowType
<1> QED BY <1>1, <1>2 DEF Snapshot, ViewType

LEMMA BrowseKeeps ==
  ASSUME HouseInv, NEW p \in Players,
         NEW found, found \in {OnOffer(p), MyBids(p), MyAuctions(p)}, Browse(p, found)
  PROVE  HouseInv'
<1>1. /\ menu[p] = "menu" /\ menu' = [menu EXCEPT ![p] = "browse"]
      /\ view' = [view EXCEPT ![p] = [i \in Items |-> IF i \in found THEN Snapshot(i) ELSE NoView]]
      /\ UNCHANGED <<sel, req, users, body, budget>> /\ Unmoved
  BY DEF Browse
<1>2. /\ menu \in [Players -> Menus] /\ sel \in [Players -> Items \union {None}]
      /\ req \in [Players -> Int] /\ budget \in [Events -> Nat] /\ MenuInv(p)
      /\ view \in [Players -> [Items -> ViewType]] /\ bids \in [Items -> Seq(Bids)]
  BY ScreenTypes
<1>3. \A i \in found : i \in Items /\ auction[i].state # "none"
  BY DEF OnOffer, MyBids, MyAuctions
<1>4. NoView \in ViewType /\ NoView.kind = "none"
  <2>1. <<>> \in Seq(Bids)
    OBVIOUS
  <2> QED BY <2>1 DEF NoView, ViewType
<1>5. PICK new : new = [i \in Items |-> IF i \in found THEN Snapshot(i) ELSE NoView]
  OBVIOUS
<1>6. new \in [Items -> ViewType]
  BY <1>4, <1>5, SnapshotFacts
<1>7. /\ menu' \in [Players -> Menus] /\ menu'[p] = "browse"
      /\ view' \in [Players -> [Items -> ViewType]] /\ view'[p] = new
      /\ \A q \in Players \ {p} : SameScreen(q)
  BY <1>1, <1>2, <1>5, <1>6 DEF SameScreen, Menus
<1>8. ViewInv(p)'
  <2>1. ASSUME NEW i \in Items, new[i].kind # "none"
        PROVE  /\ auction[i].state # "none" /\ Earlier(new[i].bids, bids[i]) /\ new[i].kind # "zero"
    <3>1. i \in found /\ new[i] = Snapshot(i)
      BY <1>4, <1>5, <2>1
    <3>2. Earlier(bids[i], bids[i])
      BY <1>2, EarlierFacts
    <3> QED BY <1>3, <3>1, <3>2, SnapshotFacts
  <2> QED BY <1>1, <1>7, <2>1 DEF ViewInv, Unmoved
<1>9. MenuInv(p)'
  BY <1>1, <1>2, <1>7 DEF MenuInv
<1> QED BY <1>1, <1>2, <1>7, <1>8, <1>9, OnlyScreen

-------------------------------------------------------------------------------
(* Confirming a bid.                                                       *)

\* What the selected AuctionItem may become.
Reread(p, v) ==
  /\ v \in ViewType /\ v.kind # "none" /\ Earlier(v.bids, bids[sel[p]])
  /\ v.kind = "zero" => auction[sel[p]].state = "inactive" \/ auction[sel[p]].ended

LEMMA RereadFacts ==
  ASSUME HouseInv, NEW p \in Players, menu[p] = "confirm"
  PROVE  /\ Reread(p, Seen(p)) /\ Reread(p, Refreshed(p))
         /\ ~Over(p, Refreshed(p)) =>
              /\ sel[p] \in OnOffer(p) /\ Refreshed(p) = Snapshot(sel[p])
              /\ auction[sel[p]].state = "active" /\ ~auction[sel[p]].ended
<1>1. /\ sel[p] \in Items /\ Seen(p) \in ViewType /\ Seen(p).kind # "none"
      /\ auction[sel[p]] \in RowType /\ auction[sel[p]].state # "none"
      /\ Earlier(Seen(p).bids, bids[sel[p]]) /\ bids[sel[p]] \in Seq(Bids)
  BY SeenFacts
<1>2. Reread(p, Seen(p))
  BY <1>1 DEF HouseInv, ViewInv, Seen, Reread
<1>3. CASE sel[p] \in OnOffer(p)
  <2>1. Refreshed(p) = Snapshot(sel[p]) /\ auction[sel[p]].state = "active" /\ ~auction[sel[p]].ended
    BY <1>3 DEF Refreshed, OnOffer
  <2>2. Earlier(bids[sel[p]], bids[sel[p]])
    BY <1>1, EarlierFacts
  <2>3. Reread(p, Refreshed(p))
    BY <1>1, <2>1, <2>2, SnapshotFacts DEF Reread
  <2> QED BY <1>2, <1>3, <2>1, <2>3
<1>4. CASE sel[p] \notin OnOffer(p)
  <2>1. Refreshed(p) = [Seen(p) EXCEPT !.kind = "zero", !.retrieved = FALSE]
    BY <1>4 DEF Refreshed
  <2>2. Refreshed(p) \in ViewType /\ Refreshed(p).kind = "zero" /\ Refreshed(p).bids = Seen(p).bids
    BY <1>1, <2>1 DEF ViewType
  <2>3. auction[sel[p]].state = "inactive" \/ auction[sel[p]].ended
    BY <1>1, <1>4 DEF OnOffer, RowType
  <2> QED BY <1>1, <1>2, <2>2, <2>3 DEF Reread, Over
<1> QED BY <1>3, <1>4

\* A bid is recorded, with the AuctionItem read again as v.
Recorded(p, m, v) ==
  /\ ~Over(p, v) /\ ~Outbid(p, v) /\ Insert(p) /\ GoTo(p, m, v)
  /\ auction' = auction \/ (IsBuyout(p) /\ SellNow(p))
  /\ \/ users' = users /\ body' = Charged(p, v)
     \/ \E L : \E rewarded \in BOOLEAN :
          Pay(Charged(p, v), sel[p], WithBid(p), L, rewarded)

\* Whatever fails, nothing is recorded or a bid is.
LEMMA ConfirmCases ==
  ASSUME NEW p, ConfirmBid(p) \/ ConfirmFails(p)
  PROVE  /\ Idle /\ menu[p] = "confirm" /\ (budget' = budget \/ Spend("dberror"))
         /\ \E v :
              /\ v = Refreshed(p) \/ (v = Seen(p) /\ Spend("dberror"))
              /\ \/ /\ UNCHANGED <<tables, body>>
                    /\ \E m \in {"over", "outbid", "menu"} : GoTo(p, m, v)
                 \/ Recorded(p, "menu", v)
                 \/ Recorded(p, "confirm", v) /\ v = Refreshed(p) /\ Spend("dberror")
<1>1. /\ Idle /\ menu[p] = "confirm" /\ (budget' = budget \/ Spend("dberror"))
  BY DEF ConfirmBid, ConfirmFails, Confirm, NoFault
<1> DEFINE Kept(v) == /\ UNCHANGED <<tables, body>>
                      /\ \E m \in {"over", "outbid", "menu"} : GoTo(p, m, v)
<1>2. ASSUME NEW v, Confirm(p, v) PROVE Kept(v) \/ Recorded(p, "menu", v)
  <2>1. CASE Over(p, v) /\ GoTo(p, "over", v) /\ UNCHANGED <<tables, body>>
    BY <2>1
  <2>2. CASE Outbid(p, v) /\ GoTo(p, "outbid", v) /\ UNCHANGED <<tables, body>>
    BY <2>2
  <2>3. CASE ~Over(p, v) /\ ~Outbid(p, v) /\ GoTo(p, "menu", v) /\ PlaceBid(p, v)
    <3>1. Insert(p) /\ (auction' = auction \/ (IsBuyout(p) /\ SellNow(p)))
      BY <2>3 DEF PlaceBid
    <3>2. \/ users' = users /\ body' = Charged(p, v)
          \/ \E L : \E rewarded \in BOOLEAN :
               Pay(Charged(p, v), sel[p], WithBid(p), L, rewarded)
      BY <2>3, Zenon DEF PlaceBid
    <3> QED BY <2>3, <3>1, <3>2 DEF Recorded
  <2> QED BY <1>2, <2>1, <2>2, <2>3 DEF Confirm
<1>3. CASE ConfirmBid(p)
  BY <1>1, <1>2, <1>3 DEF ConfirmBid
<1>4. CASE ConfirmFails(p)
  <2>1. Spend("dberror")
    BY <1>4 DEF ConfirmFails
  <2>2. CASE Confirm(p, Seen(p))
    BY <1>1, <1>2, <2>1, <2>2
  <2>3. CASE ~Confirm(p, Seen(p))
    <3>1. PICK v, i, others :
            /\ v = Refreshed(p) /\ i = sel[p] /\ others = Losers(WithBid(p), p)
            /\ ~Over(p, v) /\ ~Outbid(p, v)
            /\ \/ GoTo(p, "menu", v) /\ UNCHANGED <<tables, body>>
               \/ /\ IsBuyout(p) /\ GoTo(p, "menu", v) /\ Insert(p)
                  /\ body' = Charged(p, v) /\ UNCHANGED <<users, auction>>
               \/ /\ IsBuyout(p) /\ Insert(p) /\ SellNow(p)
                  /\ \/ /\ GoTo(p, "menu", v)
                        /\ \E L \in SUBSET others :
                             Cut(WithBid(p), p, L) /\ Pay(Charged(p, v), i, WithBid(p), L, TRUE)
                     \/ /\ \E m \in {"menu", "confirm"} : GoTo(p, m, v)
                        /\ Pay(Charged(p, v), i, WithBid(p), others, FALSE)
      BY <1>4, <2>3 DEF ConfirmFails
    <3>2. CASE GoTo(p, "menu", v) /\ UNCHANGED <<tables, body>>
      BY <1>1, <2>1, <3>1, <3>2
    <3>3. CASE /\ IsBuyout(p) /\ GoTo(p, "menu", v) /\ Insert(p)
               /\ body' = Charged(p, v) /\ UNCHANGED <<users, auction>>
      <4>1. Recorded(p, "menu", v)
        BY <3>1, <3>3 DEF Recorded
      <4> QED BY <1>1, <3>1, <4>1
    <3>4. CASE /\ IsBuyout(p) /\ Insert(p) /\ SellNow(p) /\ GoTo(p, "menu", v)
               /\ \E L \in SUBSET others :
                    Cut(WithBid(p), p, L) /\ Pay(Charged(p, v), i, WithBid(p), L, TRUE)
      <4>1. \E L : \E rewarded \in BOOLEAN : Pay(Charged(p, v), sel[p], WithBid(p), L, rewarded)
        BY <3>1, <3>4, Zenon
      <4>2. Recorded(p, "menu", v)
        BY <3>1, <3>4, <4>1 DEF Recorded
      <4> QED BY <1>1, <3>1, <4>2
    <3>5. CASE /\ IsBuyout(p) /\ Insert(p) /\ SellNow(p)
               /\ \E m \in {"menu", "confirm"} : GoTo(p, m, v)
               /\ Pay(Charged(p, v), i, WithBid(p), others, FALSE)
      <4>1. \E L : \E rewarded \in BOOLEAN : Pay(Charged(p, v), sel[p], WithBid(p), L, rewarded)
        BY <3>1, <3>5, Zenon
      <4>2. Recorded(p, "menu", v) \/ Recorded(p, "confirm", v)
        BY <3>1, <3>5, <4>1 DEF Recorded
      <4> QED BY <1>1, <2>1, <3>1, <4>2
    <3> QED BY <3>1, <3>2, <3>3, <3>4, <3>5
  <2> QED BY <2>2, <2>3
<1> QED BY <1>3, <1>4

\* What was asked about is what is on offer.
LEMMA RecordedFacts ==
  ASSUME HouseInv, NEW p \in Players, menu[p] = "confirm",
         NEW v, v = Refreshed(p) \/ v = Seen(p), ~Over(p, v)
  PROVE  /\ ~Zeroed(p) /\ sel[p] \in Items /\ auction[sel[p]].owner # p
         /\ req[p] \in Int /\ req[p] \in Amounts \union Prices
         /\ auction[sel[p]].buyout > 0 => req[p] <= auction[sel[p]].buyout
         /\ v \in ViewType /\ v.kind = "live" /\ v.bids \in Seq(Bids)
         /\ bids[sel[p]] \in Seq(Bids) /\ auction[sel[p]] \in RowType /\ ~auction[sel[p]].ended
         /\ auction[sel[p]].state # "none"
<1>1. Reread(p, Seen(p)) /\ v \in ViewType
  BY RereadFacts DEF Reread
<1>2. v.kind = "live" /\ ~auction[sel[p]].ended
  BY DEF Over
<1>3. ~Zeroed(p)
  <2>1. CASE v = Seen(p)
    BY <1>2, <2>1 DEF Zeroed
  <2>2. CASE v = Refreshed(p)
    BY <1>1, <1>2, <2>2, RereadFacts DEF Zeroed, Reread
  <2> QED BY <2>1, <2>2
<1>4. /\ Owner(p) = auction[sel[p]].owner /\ Buyout(p) = auction[sel[p]].buyout
  BY <1>3 DEF Owner, Buyout
<1>5. /\ sel[p] \in Items /\ auction[sel[p]] \in RowType /\ bids[sel[p]] \in Seq(Bids)
      /\ Buyout(p) \in Int /\ GetTopBid(p) \in Int /\ GetNextMinBid(p) = GetTopBid(p) + Increment
      /\ req[p] \in Int /\ Increment \in Nat /\ Increment > 0 /\ auction[sel[p]].state # "none"
  BY SeenFacts
<1>6. Owner(p) # p /\ AskedEnough(p)
  BY DEF HouseInv, MenuInv
<1>7. /\ req[p] \in Amounts \union Prices
      /\ \/ req[p] >= GetNextMinBid(p) /\ (Buyout(p) > 0 => req[p] <= Buyout(p))
         \/ Buyout(p) > 0 /\ req[p] = Buyout(p)
  BY <1>6 DEF AskedEnough
<1>8. auction[sel[p]].buyout > 0 => req[p] <= auction[sel[p]].buyout
  BY ONLY <1>4, <1>5, <1>7
<1>9. v.bids \in Seq(Bids)
  BY <1>1 DEF ViewType
<1> QED BY <1>1, <1>2, <1>3, <1>4, <1>5, <1>6, <1>7, <1>8, <1>9

LEMMA GoToFacts ==
  ASSUME HouseInv, NEW p \in Players, menu[p] = "confirm", NEW v \in ViewType,
         NEW m \in {"menu", "over", "outbid", "confirm"}, GoTo(p, m, v)
  PROVE  /\ menu' \in [Players -> Menus] /\ view' \in [Players -> [Items -> ViewType]]
         /\ sel' \in [Players -> Items \union {None}] /\ req' \in [Players -> Int]
         /\ UNCHANGED <<copies, update>> /\ \A q \in Players \ {p} : SameScreen(q)
         /\ menu'[p] = m
         /\ m = "menu" => Reset(p, m)
         /\ m # "menu" => /\ sel' = sel /\ req' = req
                          /\ \A i \in Items : view'[p][i] = IF i = sel[p] THEN v ELSE view[p][i]
<1>1. /\ menu \in [Players -> Menus] /\ view \in [Players -> [Items -> ViewType]]
      /\ sel \in [Players -> Items \union {None}] /\ req \in [Players -> Int]
  BY ScreenTypes
<1>2. TypeOK /\ sel[p] \in Items
  BY SeenFacts DEF HouseInv
<1>3. CASE m = "menu"
  <2>1. Reset(p, m) /\ UNCHANGED <<copies, update>>
    BY <1>3 DEF GoTo
  <2>2. m \in {"none", "menu"}
    BY <1>3
  <2>3. /\ menu' \in [Players -> Menus] /\ view' \in [Players -> [Items -> ViewType]]
        /\ sel' \in [Players -> Items \union {None}] /\ req' \in [Players -> Int]
        /\ menu'[p] = m /\ \A q \in Players \ {p} : SameScreen(q)
    BY ONLY <1>2, <2>1, <2>2, p \in Players, ResetFacts
  <2> QED BY <1>3, <2>1, <2>3
<1>4. CASE m # "menu"
  <2>1. /\ menu' = [menu EXCEPT ![p] = m] /\ view' = [view EXCEPT ![p][sel[p]] = v]
        /\ UNCHANGED <<sel, req, copies, update>>
    BY <1>4 DEF GoTo
  <2>2. menu' \in [Players -> Menus] /\ menu'[p] = m /\ m \in Menus
    BY <1>1, <2>1 DEF Menus
  <2>3. view' = [view EXCEPT ![p] = [view[p] EXCEPT ![sel[p]] = v]]
    BY <1>1, <2>1
  <2>4. [view[p] EXCEPT ![sel[p]] = v] \in [Items -> ViewType]
    BY <1>1
  <2>5. /\ view' \in [Players -> [Items -> ViewType]] /\ view'[p] = [view[p] EXCEPT ![sel[p]] = v]
        /\ \A q \in Players \ {p} : view'[q] = view[q] /\ menu'[q] = menu[q]
    BY <1>1, <2>1, <2>3, <2>4
  <2>6. \A i \in Items : view'[p][i] = IF i = sel[p] THEN v ELSE view[p][i]
    BY <1>1, <1>2, <2>5
  <2> QED BY <1>1, <1>4, <2>1, <2>2, <2>5, <2>6 DEF SameScreen
<1> QED BY <1>3, <1>4

\* What p has loaded is still of what there is, and p is in a menu.
LEMMA GoToKeeps ==
  ASSUME HouseInv, TypeOK', Grow, NEW p \in Players, menu[p] = "confirm", NEW v, Reread(p, v),
         NEW m \in {"menu", "over", "outbid", "confirm"}, GoTo(p, m, v), body'[p].at = body[p].at,
         m = "confirm" => /\ v.kind # "zero" /\ v.bids = Seen(p).bids /\ ~Zeroed(p)
  PROVE  ViewInv(p)' /\ MenuInv(p)'
<1>1. /\ sel[p] \in Items /\ body[p].at = "in" /\ auction[sel[p]].state # "none"
      /\ view \in [Players -> [Items -> ViewType]] /\ bids \in [Items -> Seq(Bids)]
      /\ bids' \in [Items -> Seq(Bids)] /\ ViewInv(p)
  BY ScreenTypes, SeenFacts, Types DEF TypeOK
<1>2. /\ v \in ViewType /\ v.kind # "none" /\ Earlier(v.bids, bids[sel[p]])
      /\ v.kind = "zero" => auction[sel[p]].state = "inactive" \/ auction[sel[p]].ended
  BY DEF Reread
<1>3. /\ menu'[p] = m
      /\ m = "menu" => Reset(p, m)
      /\ m # "menu" => /\ sel' = sel /\ req' = req
                       /\ \A i \in Items : view'[p][i] = IF i = sel[p] THEN v ELSE view[p][i]
  BY <1>2, GoToFacts
<1>4. CASE m = "menu"
  <2>1. TypeOK /\ Reset(p, m) /\ m \in {"none", "menu"}
    BY <1>3, <1>4 DEF HouseInv
  <2>2. ViewInv(p)' /\ ((body'[p].at = "in") => MenuInv(p)')
    BY ONLY <2>1, p \in Players, ResetFacts
  <2> QED BY <1>1, <2>2
<1>5. CASE m # "menu"
  <2>1. \A i \in Items : view'[p][i] = IF i = sel[p] THEN v ELSE view[p][i]
    BY <1>3, <1>5
  <2>2. ASSUME NEW i \in Items, NEW w \in ViewType, Earlier(w.bids, bids[i])
        PROVE  Earlier(w.bids, bids'[i])
    <3>1. Earlier(bids[i], bids'[i])
      BY DEF Grow
    <3>2. w.bids \in Seq(Bids) /\ bids[i] \in Seq(Bids) /\ bids'[i] \in Seq(Bids)
      BY <1>1 DEF ViewType
    <3> QED BY ONLY <2>2, <3>1, <3>2, EarlierFacts
  <2>3. ASSUME NEW i \in Items, view'[p][i].kind # "none"
        PROVE  /\ auction'[i].state # "none" /\ Earlier(view'[p][i].bids, bids'[i])
               /\ view'[p][i].kind = "zero" => auction'[i].state = "inactive" \/ auction'[i].ended
    <3>1. CASE i = sel[p]
      <4>1. view'[p][i] = v /\ Earlier(v.bids, bids'[i])
        BY <1>2, <2>1, <2>2, <3>1
      <4> QED BY <1>1, <1>2, <3>1, <4>1 DEF Grow
    <3>2. CASE i # sel[p]
      <4>1. view'[p][i] = view[p][i] /\ view[p][i] \in ViewType
        BY <1>1, <2>1, <3>2
      <4>2. auction[i].state # "none" /\ Earlier(view[p][i].bids, bids[i])
            /\ (view[p][i].kind = "zero" => auction[i].state = "inactive" \/ auction[i].ended)
        BY <1>1, <2>3, <4>1 DEF ViewInv
      <4>3. Earlier(view[p][i].bids, bids'[i])
        BY <2>2, <4>1, <4>2
      <4> QED BY <4>1, <4>2, <4>3 DEF Grow
    <3> QED BY <3>1, <3>2
  <2>4. ViewInv(p)'
    BY <2>3 DEF ViewInv
  <2>5. sel'[p] = sel[p] /\ req'[p] = req[p] /\ Seen(p)' = v
    BY <1>1, <1>3, <1>5, <2>1 DEF Seen
  <2>6. m = "confirm" => Owner(p)' # p /\ AskedEnough(p)'
    <3>1. SUFFICES ASSUME m = "confirm" PROVE Owner(p)' # p /\ AskedEnough(p)'
      OBVIOUS
    <3>2. ~Zeroed(p) /\ ~Zeroed(p)'
      BY <2>5, <3>1 DEF Zeroed
    <3>3. /\ auction'[sel[p]].owner = auction[sel[p]].owner
          /\ auction'[sel[p]].start = auction[sel[p]].start
          /\ auction'[sel[p]].buyout = auction[sel[p]].buyout
      BY <1>1 DEF Grow
    <3>4. Owner(p)' = Owner(p) /\ Buyout(p)' = Buyout(p)
      BY <2>5, <3>2, <3>3 DEF Owner, Buyout
    <3>5. GetNextMinBid(p)' = GetNextMinBid(p)
      BY <2>5, <3>1, <3>2, <3>3 DEF GetNextMinBid, GetTopBid
    <3>6. Owner(p) # p /\ AskedEnough(p)
      BY DEF HouseInv, MenuInv
    <3> QED BY <2>5, <3>4, <3>5, <3>6 DEF AskedEnough
  <2>7. MenuInv(p)'
    BY <1>1, <1>2, <1>3, <1>5, <2>5, <2>6 DEF MenuInv
  <2> QED BY <2>4, <2>7
<1> QED BY <1>4, <1>5

\* What p is charged is p's alone.
LEMMA ChargedFacts ==
  ASSUME HouseInv, NEW p \in Players, NEW v \in ViewType
  PROVE  /\ Charged(p, v) \in [Players -> BodyType]
         /\ \A q \in Players :
              /\ Charged(p, v)[q].at = body[q].at /\ Charged(p, v)[q].bank = body[q].bank
              /\ Charged(p, v)[q].gold
                 = IF q = p THEN body[p].gold - (req[p] - GetLastBid(v.bids, p)) ELSE body[q].gold
<1>1. body \in [Players -> BodyType] /\ req[p] \in Int
  BY ScreenTypes
<1>2. v.bids \in Seq(Bids)
  BY DEF ViewType
<1>3. GetLastBid(v.bids, p) \in Int
  BY <1>2, LastBidFacts
<1>4. PICK n : n = body[p].gold - (req[p] - GetLastBid(v.bids, p))
  OBVIOUS
<1>5. \A q \in Players : body[q] \in BodyType
  BY <1>1
<1>6. n \in Int
  BY <1>1, <1>3, <1>4, <1>5 DEF BodyType
<1>7. Charged(p, v) = [body EXCEPT ![p] = [body[p] EXCEPT !.gold = n]]
  BY <1>1, <1>4 DEF Charged
<1>8. /\ [body[p] EXCEPT !.gold = n] \in BodyType /\ [body[p] EXCEPT !.gold = n].gold = n
      /\ [body[p] EXCEPT !.gold = n].at = body[p].at /\ [body[p] EXCEPT !.gold = n].bank = body[p].bank
  BY <1>5, <1>6 DEF BodyType
<1> QED BY ONLY p \in Players, <1>1, <1>4, <1>7, <1>8

\* What the tables and the bodies are after a bid.
LEMMA RecordedTables ==
  ASSUME HouseInv, NEW p \in Players, menu[p] = "confirm", NEW m,
         NEW v, v = Refreshed(p) \/ v = Seen(p), Recorded(p, m, v)
  PROVE  /\ bids' \in [Items -> Seq(Bids)] /\ auction' \in [Items -> RowType]
         /\ body' \in [Players -> BodyType] /\ users' \in [Players -> UserType]
         /\ \A q \in Players :
              /\ body'[q].at = body[q].at
              /\ body'[q].gold = IF q = p THEN body[p].gold - (req[p] - GetLastBid(v.bids, p))
                                 ELSE body[q].gold
         /\ bids'[sel[p]] = WithBid(p)
         /\ \A i \in Items \ {sel[p]} : auction'[i] = auction[i] /\ bids'[i] = bids[i]
         /\ auction'[sel[p]] \in {auction[sel[p]], [auction[sel[p]] EXCEPT !.state = "inactive"]}
<1>1. /\ sel[p] \in Items /\ req[p] \in Int /\ v \in ViewType
      /\ bids[sel[p]] \in Seq(Bids) /\ auction[sel[p]] \in RowType
  BY RecordedFacts DEF Recorded
<1>2. /\ auction \in [Items -> RowType] /\ bids \in [Items -> Seq(Bids)]
      /\ users \in [Players -> UserType]
  BY Types DEF HouseInv
<1>3. WithBid(p) \in Seq(Bids) /\ WithBid(p) # <<>>
  <2>1. [bidder |-> p, amount |-> req[p]] \in Bids
    BY <1>1 DEF Bids
  <2> QED BY <1>1, <2>1, AppendedFacts DEF WithBid
<1>4. bids' = [bids EXCEPT ![sel[p]] = WithBid(p)]
  BY DEF Recorded, Insert
<1> HIDE DEF WithBid
<1>5. /\ bids' \in [Items -> Seq(Bids)] /\ bids'[sel[p]] = WithBid(p)
      /\ \A i \in Items \ {sel[p]} : bids'[i] = bids[i]
  BY ONLY <1>1, <1>2, <1>3, <1>4
<1>6. PICK r : r = [auction[sel[p]] EXCEPT !.state = "inactive"]
  OBVIOUS
<1>7. r \in RowType
  BY <1>1, <1>6 DEF RowType
<1>8. auction' = auction \/ auction' = [auction EXCEPT ![sel[p]] = r]
  BY <1>1, <1>2, <1>6 DEF Recorded, SellNow
<1>9. /\ auction' \in [Items -> RowType] /\ auction'[sel[p]] \in {auction[sel[p]], r}
      /\ \A i \in Items \ {sel[p]} : auction'[i] = auction[i]
  BY ONLY <1>1, <1>2, <1>7, <1>8
<1>10. PICK b : b = Charged(p, v)
  OBVIOUS
<1>11. /\ b \in [Players -> BodyType]
       /\ \A q \in Players :
            /\ b[q].at = body[q].at
            /\ b[q].gold = IF q = p THEN body[p].gold - (req[p] - GetLastBid(v.bids, p))
                           ELSE body[q].gold
  BY <1>1, <1>10, ChargedFacts
<1>12. /\ body' \in [Players -> BodyType] /\ users' \in [Players -> UserType]
       /\ \A q \in Players : body'[q].at = b[q].at /\ body'[q].gold = b[q].gold
  <2>1. CASE users' = users /\ body' = b
    BY ONLY <1>2, <1>11, <2>1
  <2>2. CASE \E L : \E rewarded \in BOOLEAN : Pay(b, sel[p], WithBid(p), L, rewarded)
    <3>1. PICK L : \E rewarded \in BOOLEAN : Pay(b, sel[p], WithBid(p), L, rewarded)
      BY <2>2
    <3>2. PICK rewarded \in BOOLEAN : Pay(b, sel[p], WithBid(p), L, rewarded)
      BY <3>1
    <3>3. b \in [Players -> BodyType] /\ users \in [Players -> UserType]
          /\ WithBid(p) \in Seq(Bids) /\ WithBid(p) # <<>>
      BY ONLY <1>2, <1>3, <1>11
    <3>4. /\ body' \in [Players -> BodyType] /\ users' \in [Players -> UserType]
          /\ \A q \in Players : body'[q].at = b[q].at /\ body'[q].gold = b[q].gold
      BY ONLY <3>2, <3>3, rewarded \in BOOLEAN, PayFacts
    <3> QED BY ONLY <3>4
  <2> QED BY <1>10, <2>1, <2>2 DEF Recorded
<1> QED BY ONLY <1>5, <1>6, <1>9, <1>11, <1>12

LEMMA RecordedKeeps ==
  ASSUME HouseInv, NEW p \in Players, menu[p] = "confirm", Idle, budget' \in [Events -> Nat],
         NEW v, v = Refreshed(p) \/ v = Seen(p), NEW m \in {"menu", "confirm"},
         Recorded(p, m, v), m = "confirm" => v = Refreshed(p)
  PROVE  HouseInv'
<1>1. /\ bids' \in [Items -> Seq(Bids)] /\ auction' \in [Items -> RowType]
      /\ body' \in [Players -> BodyType] /\ users' \in [Players -> UserType]
      /\ \A q \in Players : body'[q].at = body[q].at
      /\ bids'[sel[p]] = WithBid(p)
      /\ \A i \in Items \ {sel[p]} : auction'[i] = auction[i] /\ bids'[i] = bids[i]
      /\ auction'[sel[p]] \in {auction[sel[p]], [auction[sel[p]] EXCEPT !.state = "inactive"]}
  BY RecordedTables
<1>2. /\ ~Zeroed(p) /\ sel[p] \in Items
      /\ req[p] \in Int
      /\ auction[sel[p]].buyout > 0 => req[p] <= auction[sel[p]].buyout
      /\ v \in ViewType /\ v.kind = "live" /\ v.bids \in Seq(Bids)
      /\ bids[sel[p]] \in Seq(Bids) /\ auction[sel[p]] \in RowType /\ auction[sel[p]].state # "none"
  BY RecordedFacts DEF Recorded
<1>3. /\ auction \in [Items -> RowType] /\ bids \in [Items -> Seq(Bids)]
      /\ copies \in [Items -> [Players -> Nat]] /\ chosen \in SUBSET Items /\ todo \in SUBSET chosen
      /\ None \notin Items
  BY Types DEF HouseInv
<1>4. GoTo(p, m, v) /\ ~Over(p, v) /\ ~Outbid(p, v)
  BY DEF Recorded
<1>5. /\ menu' \in [Players -> Menus] /\ view' \in [Players -> [Items -> ViewType]]
      /\ sel' \in [Players -> Items \union {None}] /\ req' \in [Players -> Int]
      /\ UNCHANGED <<copies, update>> /\ \A q \in Players \ {p} : SameScreen(q)
  BY ONLY HouseInv, p \in Players, menu[p] = "confirm", m \in {"menu", "confirm"}, <1>2, <1>4, GoToFacts
<1>6. TypeOK'
  BY ONLY <1>1, <1>3, <1>5, budget' \in [Events -> Nat]
     DEF update, TypeOK, UserType, BodyType, RowType, ViewType
<1>7. PICK c, n : c = WithBid(p) /\ n = Len(bids[sel[p]])
  OBVIOUS
<1>8. /\ Earlier(bids[sel[p]], c) /\ DOMAIN c = 1..(n + 1) /\ DOMAIN bids[sel[p]] = 1..n
      /\ c[n + 1].amount = req[p] /\ \A k \in 1..n : c[k] = bids[sel[p]][k]
      /\ n \in Nat
  BY <1>2, <1>7, AppendedFacts DEF WithBid
<1>9. ASSUME NEW i \in Items PROVE Earlier(bids[i], bids'[i])
  <2>1. CASE i = sel[p]
    BY ONLY <1>1, <1>7, <1>8, <2>1
  <2>2. CASE i # sel[p]
    <3>1. bids'[i] = bids[i] /\ bids[i] \in Seq(Bids)
      BY ONLY <1>1, <1>3, <1>9, <2>2
    <3> QED BY ONLY <3>1, EarlierFacts
  <2> QED BY <2>1, <2>2
<1>10. ASSUME NEW i \in Items
       PROVE  /\ auction'[i].state = "none" => auction[i].state = "none"
              /\ auction'[i].owner = auction[i].owner
              /\ auction'[i].start = auction[i].start /\ auction'[i].buyout = auction[i].buyout
              /\ auction[i].state = "inactive" \/ auction[i].ended =>
                   auction'[i].state = "inactive" \/ auction'[i].ended
              /\ auction[i].state # "none" => auction'[i].state # "none"
  <2>1. CASE auction'[i] = auction[i]
    BY <2>1
  <2>2. CASE i = sel[p] /\ auction'[i] = [auction[i] EXCEPT !.state = "inactive"]
    BY <1>2, <2>2 DEF RowType
  <2> QED BY <1>1, <2>1, <2>2
<1>11. Grow
  BY <1>9, <1>10 DEF Grow
<1>12. UpdateInv'
  BY <1>5 DEF UpdateInv, Idle, update, HouseInv
<1>13. ASSUME NEW i \in Items PROVE RowInv(i)'
  <2>1. RowInv(i)
    BY DEF HouseInv
  <2>2. CASE i # sel[p]
    BY <1>1, <2>1, <2>2 DEF RowInv
  <2>3. CASE i = sel[p]
    <3>1. auction'[i].state # "none"
      BY <1>2, <1>10, <2>3
    <3>2. auction'[i].owner \in Players /\ auction'[i].buyout \in Prices
      BY <1>2, <1>10, <2>1, <2>3 DEF RowInv
    <3>3. ASSUME auction'[i].buyout > 0, NEW k \in DOMAIN bids'[i]
          PROVE  bids'[i][k].amount <= auction'[i].buyout
      <4>1. bids'[i] = c /\ auction'[i].buyout = auction[i].buyout
        BY <1>1, <1>7, <1>10, <2>3
      <4>2. \A j \in 1..n : bids[i][j].amount <= auction[i].buyout
        BY <1>8, <2>1, <2>3, <3>3, <4>1 DEF RowInv
      <4>3. k \in 1..(n + 1)
        BY <1>8, <3>3, <4>1
      <4>4. k = n + 1 \/ k \in 1..n
        BY ONLY <1>8, <4>3
      <4> QED BY ONLY <1>2, <1>8, <2>3, <3>3, <4>1, <4>2, <4>4
    <3> QED BY <3>1, <3>2, <3>3 DEF RowInv
  <2> QED BY <2>2, <2>3
<1>14. ViewInv(p)' /\ MenuInv(p)'
  <2>1. Reread(p, v)
    BY RereadFacts
  <2>2. m = "confirm" => v.kind # "zero" /\ v.bids = Seen(p).bids /\ ~Zeroed(p)
    <3>1. SUFFICES ASSUME m = "confirm" PROVE v.bids = Seen(p).bids
      BY <1>2
    <3>2. v.bids = bids[sel[p]]
      BY <1>2, <1>4, <3>1, RereadFacts, SnapshotFacts
    <3>3. /\ Seen(p).bids \in Seq(Bids) /\ Earlier(Seen(p).bids, bids[sel[p]])
      BY SeenFacts
    <3>4. Len(v.bids) <= Len(Seen(p).bids)
      <4>1. ~(Len(v.bids) > Len(Seen(p).bids))
        BY <1>4 DEF Outbid
      <4>2. Len(v.bids) \in Nat /\ Len(Seen(p).bids) \in Nat
        BY <1>2, <3>3
      <4> QED BY ONLY <4>1, <4>2
    <3> QED BY ONLY <1>2, <3>2, <3>3, <3>4, NotOutbid
  <2>3. m \in {"menu", "over", "outbid", "confirm"} /\ body'[p].at = body[p].at
    BY <1>1
  <2> QED BY ONLY HouseInv, p \in Players, menu[p] = "confirm", <1>4, <1>6, <1>11, <2>1, <2>2, <2>3, GoToKeeps
<1>15. \A q \in Players : \/ SameScreen(q) /\ (menu[q] # "none" => body'[q].at = body[q].at)
                          \/ ViewInv(q)' /\ MenuInv(q)'
  BY <1>1, <1>5, <1>14
<1> QED BY ONLY HouseInv, <1>6, <1>11, <1>12, <1>13, <1>15, Together

LEMMA ConfirmKeeps ==
  ASSUME HouseInv, NEW p \in Players, ConfirmBid(p) \/ ConfirmFails(p)
  PROVE  HouseInv'
<1>1. /\ Idle /\ menu[p] = "confirm" /\ (budget' = budget \/ Spend("dberror"))
      /\ \E v :
           /\ v = Refreshed(p) \/ (v = Seen(p) /\ Spend("dberror"))
           /\ \/ /\ UNCHANGED <<tables, body>>
                 /\ \E m \in {"over", "outbid", "menu"} : GoTo(p, m, v)
              \/ Recorded(p, "menu", v)
              \/ Recorded(p, "confirm", v) /\ v = Refreshed(p) /\ Spend("dberror")
  BY ConfirmCases
<1>2. PICK v :
        /\ v = Refreshed(p) \/ v = Seen(p)
        /\ \/ /\ UNCHANGED <<tables, body>>
              /\ \E m \in {"over", "outbid", "menu"} : GoTo(p, m, v)
           \/ Recorded(p, "menu", v)
           \/ Recorded(p, "confirm", v) /\ v = Refreshed(p)
  BY <1>1
<1>3. budget' \in [Events -> Nat]
  BY <1>1, ScreenTypes, SpendFacts
<1>4. CASE /\ UNCHANGED <<tables, body>>
           /\ \E m \in {"over", "outbid", "menu"} : GoTo(p, m, v)
  <2>1. PICK m \in {"over", "outbid", "menu"} : GoTo(p, m, v)
    BY <1>4
  <2>2. Reread(p, v) /\ v \in ViewType
    BY <1>1, <1>2, RereadFacts DEF Reread
  <2>3. m \in {"menu", "over", "outbid", "confirm"} /\ m # "confirm"
    OBVIOUS
  <2>4. /\ menu' \in [Players -> Menus] /\ view' \in [Players -> [Items -> ViewType]]
        /\ sel' \in [Players -> Items \union {None}] /\ req' \in [Players -> Int]
        /\ UNCHANGED <<copies, update>> /\ \A q \in Players \ {p} : SameScreen(q)
    BY ONLY HouseInv, p \in Players, <1>1, <2>1, <2>2, <2>3, GoToFacts
  <2>5. TypeOK'
    BY <1>3, <1>4, <2>4, Types DEF HouseInv, tables, update, TypeOK, ViewType
  <2>6. Grow /\ UNCHANGED <<users, body>> /\ Unmoved
    BY <1>4, <2>4, NothingGrows DEF HouseInv, tables, Unmoved
  <2>7. ViewInv(p)' /\ MenuInv(p)'
    BY ONLY HouseInv, p \in Players, <1>1, <2>1, <2>2, <2>3, <2>5, <2>6, GoToKeeps
  <2> QED BY ONLY HouseInv, p \in Players, <1>3, <2>4, <2>6, <2>7, OnlyScreen
<1>5. CASE Recorded(p, "menu", v)
  BY <1>1, <1>2, <1>3, <1>5, RecordedKeeps
<1>6. CASE Recorded(p, "confirm", v) /\ v = Refreshed(p)
  BY <1>1, <1>2, <1>3, <1>6, RecordedKeeps
<1> QED BY <1>2, <1>4, <1>5, <1>6

-------------------------------------------------------------------------------
(* Items, and the whole house.                                             *)

LEMMA RetrieveKeeps ==
  ASSUME HouseInv, NEW p \in Players, Retrieve(p)
  PROVE  HouseInv'
<1>1. /\ Idle /\ menu[p] = "item"
      /\ copies' = [copies EXCEPT ![sel[p]][p] = @ + 1]
      /\ \/ NoFault /\ auction' = [auction EXCEPT ![sel[p]].retrieved = TRUE]
         \/ Spend("dberror") /\ UNCHANGED auction
      /\ ShowBrowser(p) /\ view' = [view EXCEPT ![p][sel[p]] = NoView]
      /\ UNCHANGED <<users, body, bids, update>>
  BY DEF Retrieve
<1>2. /\ menu \in [Players -> Menus] /\ view \in [Players -> [Items -> ViewType]]
      /\ sel \in [Players -> Items \union {None}] /\ req \in [Players -> Int]
      /\ budget \in [Events -> Nat] /\ auction \in [Items -> RowType]
      /\ bids \in [Items -> Seq(Bids)] /\ ViewInv(p)
  BY ScreenTypes
<1>3. sel[p] \in Items /\ auction[sel[p]] \in RowType /\ auction[sel[p]].state # "none"
      /\ body[p].at = "in"
  BY <1>1, SeenFacts
<1>4. copies' \in [Items -> [Players -> Nat]]
  <2>1. copies \in [Items -> [Players -> Nat]]
    BY Types DEF HouseInv
  <2>2. copies[sel[p]] \in [Players -> Nat]
    BY <1>3, <2>1
  <2>3. [copies[sel[p]] EXCEPT ![p] = @ + 1] \in [Players -> Nat]
    BY <2>2
  <2>4. copies' = [copies EXCEPT ![sel[p]] = [copies[sel[p]] EXCEPT ![p] = @ + 1]]
    BY <1>1, <1>3, <2>1
  <2> QED BY <2>1, <2>3, <2>4
<1>5. budget' \in [Events -> Nat]
  BY <1>1, <1>2, SpendFacts DEF NoFault
<1>6. /\ auction' \in [Items -> RowType]
      /\ \A i \in Items :
           \/ auction'[i] = auction[i]
           \/ auction[i].state # "none" /\ auction'[i] = [auction[i] EXCEPT !.retrieved = TRUE]
  <2>1. PICK r : r = [auction[sel[p]] EXCEPT !.retrieved = TRUE]
    OBVIOUS
  <2>2. r \in RowType
    BY <1>3, <2>1 DEF RowType
  <2>3. auction' = auction \/ auction' = [auction EXCEPT ![sel[p]] = r]
    BY <1>1, <1>2, <2>1
  <2> QED BY ONLY <1>2, <1>3, <2>1, <2>2, <2>3
<1>7. NoView \in ViewType /\ NoView.kind = "none"
  <2>1. <<>> \in Seq(Bids)
    OBVIOUS
  <2> QED BY <2>1 DEF NoView, ViewType
<1>8. /\ menu' \in [Players -> Menus] /\ menu'[p] = "browse" /\ req' \in [Players -> Int]
      /\ sel' \in [Players -> Items \union {None}]
      /\ \A q \in Players \ {p} : menu'[q] = menu[q] /\ sel'[q] = sel[q] /\ req'[q] = req[q]
  BY <1>1, <1>2 DEF ShowBrowser, Menus
<1>9. /\ view' \in [Players -> [Items -> ViewType]]
      /\ \A q \in Players \ {p} : view'[q] = view[q]
      /\ \A i \in Items : view'[p][i] = IF i = sel[p] THEN NoView ELSE view[p][i]
  <2>1. view' = [view EXCEPT ![p] = [view[p] EXCEPT ![sel[p]] = NoView]]
    BY <1>1, <1>2
  <2>2. [view[p] EXCEPT ![sel[p]] = NoView] \in [Items -> ViewType]
    BY <1>2, <1>7
  <2>3. view'[p] = [view[p] EXCEPT ![sel[p]] = NoView]
    BY <1>2, <2>1
  <2> QED BY <1>2, <1>3, <2>1, <2>2, <2>3
<1>10. TypeOK'
  BY <1>1, <1>4, <1>5, <1>6, <1>8, <1>9, Types DEF HouseInv, TypeOK, update, UserType, BodyType, RowType, ViewType
<1>11. Grow /\ \A i \in Items : RowInv(i)'
  BY ONLY HouseInv, <1>1, <1>6, RowsKept
<1>12. UpdateInv'
  BY <1>1 DEF UpdateInv, Idle, update, HouseInv
<1>13. ViewInv(p)'
  <2>1. ASSUME NEW i \in Items, view'[p][i].kind # "none"
        PROVE  /\ auction'[i].state # "none" /\ Earlier(view'[p][i].bids, bids'[i])
               /\ view'[p][i].kind = "zero" => auction'[i].state = "inactive" \/ auction'[i].ended
    <3>1. view'[p][i] = view[p][i] /\ bids'[i] = bids[i]
      BY <1>1, <1>7, <1>9, <2>1
    <3>2. /\ auction[i].state # "none" /\ Earlier(view[p][i].bids, bids[i])
          /\ view[p][i].kind = "zero" => auction[i].state = "inactive" \/ auction[i].ended
      BY <1>2, <2>1, <3>1 DEF ViewInv
    <3> QED BY <1>11, <3>1, <3>2 DEF Grow
  <2> QED BY <2>1 DEF ViewInv
<1>14. MenuInv(p)'
  BY <1>1, <1>3, <1>8 DEF MenuInv
<1>15. \A q \in Players : \/ SameScreen(q) /\ (menu[q] # "none" => body'[q].at = body[q].at)
                          \/ ViewInv(q)' /\ MenuInv(q)'
  BY <1>1, <1>8, <1>9, <1>13, <1>14 DEF SameScreen
<1> QED BY ONLY HouseInv, <1>10, <1>11, <1>12, <1>15, Together

LEMMA PlaceKeeps ==
  ASSUME HouseInv, NEW p \in Players, NEW i \in Items, NEW start \in Prices, NEW buyout \in Prices,
         PlaceAuction(p, i, start, buyout)
  PROVE  HouseInv'
<1>1. PICK r : r = [state |-> "active", ended |-> FALSE, retrieved |-> FALSE, owner |-> p,
                    start |-> start, buyout |-> buyout]
  OBVIOUS
<1>2. /\ Idle /\ copies[i][p] > 0 /\ auction[i].state = "none"
      /\ copies' = [copies EXCEPT ![i][p] = @ - 1]
      /\ auction' = [auction EXCEPT ![i] = r]
      /\ UNCHANGED <<users, bids, body, update, screen, budget>>
  BY <1>1 DEF PlaceAuction
<1>3. start \in Int /\ buyout \in Int
  BY AuctionAssumption
<1>4. r \in RowType
  BY <1>1, <1>3 DEF RowType
<1>5. auction \in [Items -> RowType] /\ bids \in [Items -> Seq(Bids)]
  BY ScreenTypes
<1>6. /\ auction' \in [Items -> RowType] /\ auction'[i] = r
      /\ \A j \in Items \ {i} : auction'[j] = auction[j]
  BY <1>2, <1>4, <1>5
<1>7. copies' \in [Items -> [Players -> Nat]]
  <2>1. copies \in [Items -> [Players -> Nat]]
    BY Types DEF HouseInv
  <2>2. copies[i] \in [Players -> Nat] /\ copies[i][p] - 1 \in Nat
    BY <1>2, <2>1
  <2>3. [copies[i] EXCEPT ![p] = @ - 1] \in [Players -> Nat]
    BY <2>2
  <2>4. copies' = [copies EXCEPT ![i] = [copies[i] EXCEPT ![p] = @ - 1]]
    BY <1>2, <2>1
  <2> QED BY <2>1, <2>3, <2>4
<1>8. TypeOK'
  BY <1>2, <1>6, <1>7, Types DEF HouseInv, TypeOK, update, screen, UserType, BodyType, RowType, ViewType
<1>9. RowInv(i)
  BY DEF HouseInv
<1>10. bids[i] = <<>> /\ ~auction[i].ended
  BY <1>2, <1>9 DEF RowInv
<1>11. Grow
  <2>1. \A j \in Items : Earlier(bids[j], bids'[j])
    BY <1>2, <1>5, EarlierFacts
  <2> QED BY <1>2, <1>6, <1>10, <2>1 DEF Grow
<1>12. ASSUME NEW j \in Items PROVE RowInv(j)'
  <2>1. CASE j # i
    <3>1. RowInv(j) /\ auction'[j] = auction[j] /\ bids'[j] = bids[j]
      BY <1>2, <1>6, <2>1 DEF HouseInv
    <3> QED BY <3>1 DEF RowInv
  <2>2. CASE j = i
    <3>1. DOMAIN bids'[j] = {}
      BY <1>2, <1>10, <2>2
    <3>2. auction'[j].state # "none" /\ auction'[j].owner = p /\ auction'[j].buyout = buyout
      BY <1>1, <1>6, <2>2
    <3> QED BY <3>1, <3>2 DEF RowInv
  <2> QED BY <2>1, <2>2
<1>13. UpdateInv'
  BY <1>2 DEF UpdateInv, Idle, update, HouseInv
<1>14. \A q \in Players : SameScreen(q) /\ body'[q].at = body[q].at
  BY <1>2 DEF SameScreen, screen
<1> QED BY ONLY HouseInv, <1>8, <1>11, <1>12, <1>13, <1>14, Together

LEMMA HouseInit ==
  ASSUME Init
  PROVE  HouseInv
<1>1. /\ users \in [Players -> [gold: Purses, bank: Purses]]
      /\ body = [p \in Players |-> [at |-> "in", gold |-> users[p].gold, bank |-> users[p].bank]]
      /\ auction = [i \in Items |-> [state |-> "none", ended |-> FALSE, retrieved |-> FALSE,
                                     owner |-> None, start |-> 0, buyout |-> 0]]
      /\ bids = [i \in Items |-> <<>>]
      /\ copies \in [Items -> {[p \in Players |-> IF p = o THEN 1 ELSE 0] : o \in Sellers}]
      /\ chosen = {} /\ todo = {}
      /\ menu = [p \in Players |-> "none"]
      /\ view = [p \in Players |-> [i \in Items |-> NoView]]
      /\ sel = [p \in Players |-> None]
      /\ req = [p \in Players |-> 0]
      /\ budget \in Limits
  BY DEF Init
<1>2. Purses \subseteq Int /\ Limits \subseteq [Events -> Nat]
  BY AuctionAssumption
<1>3. users \in [Players -> UserType]
  <2>1. ASSUME NEW u \in [gold: Purses, bank: Purses] PROVE u \in UserType
    <3>1. u = [gold |-> u.gold, bank |-> u.bank] /\ u.gold \in Purses /\ u.bank \in Purses
      OBVIOUS
    <3>2. u.gold \in Int /\ u.bank \in Int
      BY ONLY <1>2, <3>1, Zenon
    <3> QED BY ONLY <3>1, <3>2 DEF UserType
  <2>2. \A p \in Players : users[p] \in [gold: Purses, bank: Purses]
    BY <1>1
  <2> QED BY <1>1, <2>1, <2>2
<1>4. body \in [Players -> BodyType]
  BY <1>1, <1>3 DEF BodyType, UserType, Places
<1>5. auction \in [Items -> RowType]
  BY <1>1 DEF RowType
<1>6. bids \in [Items -> Seq(Bids)]
  BY <1>1
<1>7. copies \in [Items -> [Players -> Nat]]
  <2>1. PICK S : S = {[p \in Players |-> IF p = o THEN 1 ELSE 0] : o \in Sellers}
    OBVIOUS
  <2>2. \A f \in S : f \in [Players -> Nat]
    BY ONLY <2>1
  <2>3. copies \in [Items -> S]
    BY ONLY <1>1, <2>1
  <2> QED BY ONLY <2>2, <2>3
<1>8. NoView \in ViewType /\ NoView.kind = "none"
  <2>1. <<>> \in Seq(Bids)
    OBVIOUS
  <2> QED BY <2>1 DEF NoView, ViewType
<1>9. view \in [Players -> [Items -> ViewType]]
  BY <1>1, <1>8
<1>10. menu \in [Players -> Menus] /\ sel \in [Players -> Items \union {None}] /\ req \in [Players -> Int]
  BY <1>1 DEF Menus
<1>11. TypeOK
  BY <1>1, <1>2, <1>3, <1>4, <1>5, <1>6, <1>7, <1>9, <1>10, Types
<1>12. UpdateInv
  BY <1>1 DEF UpdateInv
<1>13. ASSUME NEW i \in Items PROVE RowInv(i)
  BY <1>1 DEF RowInv
<1>14. ASSUME NEW p \in Players PROVE ViewInv(p) /\ MenuInv(p)
  BY <1>1, <1>8 DEF ViewInv, MenuInv
<1> QED BY <1>11, <1>12, <1>13, <1>14 DEF HouseInv

LEMMA HouseNext ==
  ASSUME HouseInv, [Next]_vars
  PROVE  HouseInv'
<1>1. CASE UNCHANGED vars
  BY <1>1 DEF HouseInv, TypeOK, UpdateInv, RowInv, ViewInv, MenuInv, AskedEnough, Seen, Owner, Buyout,
              GetNextMinBid, GetTopBid, Zeroed, vars, tables, update, screen
<1>2. CASE UpdateAuctions
  BY <1>2, SelectKeeps, PayKeeps, DeactivateKeeps DEF UpdateAuctions
<1>3. ASSUME NEW i \in Items, Ends(i) PROVE HouseInv'
  BY <1>3, EndsKeeps
<1>4. ASSUME NEW p \in Players, Come(p) PROVE HouseInv'
  BY <1>4, ComeKeeps
<1>5. ASSUME NEW p \in Players, Go(p) PROVE HouseInv'
  BY <1>5, GoKeeps, DieKeeps DEF Go
<1>6. ASSUME NEW p \in Players, Choose(p) PROVE HouseInv'
  <2>1. \/ OpenHouse(p) \/ Leave(p) \/ Back(p) \/ ManualBid(p) \/ BuyoutOption(p)
        \/ Browse(p, OnOffer(p)) \/ Browse(p, MyBids(p)) \/ Browse(p, MyAuctions(p))
        \/ (\E i \in Items : Select(p, i)) \/ (\E a \in Amounts : EnterAmount(p, a))
    BY <1>6, Zenon DEF Choose
  <2>2. Browse(p, OnOffer(p)) \/ Browse(p, MyBids(p)) \/ Browse(p, MyAuctions(p)) => HouseInv'
    BY BrowseKeeps
  <2> QED BY <2>1, <2>2, ShowKeeps, GoKeeps, BackKeeps, BuyoutKeeps, SelectItemKeeps, AmountKeeps
<1>7. ASSUME NEW p \in Players, Trade(p) PROVE HouseInv'
  BY <1>7, ConfirmKeeps, RetrieveKeeps, PlaceKeeps DEF Trade
<1> QED BY <1>1, <1>2, <1>3, <1>4, <1>5, <1>6, <1>7 DEF Next

\* Whatever fails, what players have loaded is a beginning of what is in the tables,
\* what they are asked to confirm was enough when they were asked, nobody bids for
\* an item of their own or more than the buyout, and UpdateAuctions pays only what
\* is over and still active (HouseInv).
THEOREM HouseCorrect == Spec => []HouseInv
<1>1. Init => HouseInv
  BY HouseInit
<1>2. HouseInv /\ [Next]_vars => HouseInv'
  BY HouseNext
<1> QED BY <1>1, <1>2, PTL DEF Spec

-------------------------------------------------------------------------------
(* Who bids, and what is paid for it.                                      *)

LEMMA BudgetFalls ==
  ASSUME HouseInv, [Next]_vars
  PROVE  budget' = budget \/ \E e \in Events : Spend(e)
<1> DEFINE Fine == budget' = budget \/ \E e \in Events : Spend(e)
<1>1. "dberror" \in Events /\ "web" \in Events /\ "telnet" \in Events /\ "death" \in Events
  BY DEF Events
<1>2. CASE UNCHANGED vars
  BY <1>2 DEF vars
<1>3. CASE UpdateAuctions
  <2>1. \A i, w : Settle(body, i, bids[i], w) => Fine
    BY <1>1 DEF Settle, NoFault
  <2> QED BY <1>1, <1>3, <2>1 DEF UpdateAuctions, SelectExpired, Deactivate, PayExpired, PayAborted, NoFault
<1>4. ASSUME NEW i \in Items, Ends(i) PROVE Fine
  BY <1>4 DEF Ends
<1>5. ASSUME NEW p \in Players, Come(p) PROVE Fine
  BY <1>1, <1>5 DEF Come, WebLogin, GiveName, WrongPassword, Password, GiveUp
<1>6. ASSUME NEW p \in Players, Go(p) PROVE Fine
  BY <1>1, <1>6 DEF Go, LeaveGame, LoseLink, Die
<1>7. ASSUME NEW p \in Players, Choose(p) PROVE Fine
  BY <1>7 DEF Choose, OpenHouse, Leave, Back, ManualBid, BuyoutOption, Browse, Select, EnterAmount, Ask, Show
<1>8. ASSUME NEW p \in Players, Trade(p) PROVE Fine
  <2>1. ConfirmBid(p) \/ ConfirmFails(p) => Fine
    BY <1>1, ConfirmCases
  <2> QED BY <1>1, <1>8, <2>1 DEF Trade, Retrieve, PlaceAuction, NoFault
<1> QED BY <1>2, <1>3, <1>4, <1>5, <1>6, <1>7, <1>8 DEF Next

LEMMA LimitKept ==
  ASSUME HouseInv, [Next]_vars, NEW e \in Events
  PROVE  budget[e] \in Nat /\ budget'[e] \in Nat /\ budget'[e] <= budget[e]
<1>1. budget \in [Events -> Nat]
  BY ScreenTypes
<1>2. CASE budget' = budget
  BY <1>1, <1>2
<1>3. ASSUME NEW d \in Events, Spend(d) PROVE budget'[e] \in Nat /\ budget'[e] <= budget[e]
  BY <1>1, <1>3, SpendFacts
<1> QED BY <1>1, <1>2, <1>3, BudgetFalls

\* A bid is recorded only by a player who confirms it.
LEMMA BidsChange ==
  ASSUME HouseInv, [Next]_vars, bids' # bids
  PROVE  \E p \in Players : \E m \in {"menu", "confirm"} : \E v :
           /\ menu[p] = "confirm" /\ (ConfirmBid(p) \/ ConfirmFails(p)) /\ Recorded(p, m, v)
           /\ v = Refreshed(p) \/ (v = Seen(p) /\ Spend("dberror"))
           /\ m = "confirm" => Spend("dberror")
<1>1. CASE UNCHANGED vars
  BY <1>1 DEF vars, tables
<1>2. CASE UpdateAuctions
  BY <1>2 DEF UpdateAuctions, SelectExpired, Deactivate, PayExpired, PayAborted, tables
<1>3. ASSUME NEW i \in Items, Ends(i) PROVE FALSE
  BY <1>3 DEF Ends
<1>4. ASSUME NEW p \in Players, Come(p) \/ Go(p) PROVE FALSE
  BY <1>4 DEF Come, WebLogin, GiveName, WrongPassword, Password, GiveUp, Go, LeaveGame, LoseLink, Die, Unmoved
<1>5. ASSUME NEW p \in Players, Choose(p) PROVE FALSE
  BY <1>5 DEF Choose, OpenHouse, Leave, Back, ManualBid, BuyoutOption, Browse, Select, EnterAmount, Ask, Show,
              Unmoved, tables
<1>6. ASSUME NEW p \in Players, Trade(p)
      PROVE  menu[p] = "confirm" /\ \E m \in {"menu", "confirm"} : \E v :
               /\ (ConfirmBid(p) \/ ConfirmFails(p)) /\ Recorded(p, m, v)
               /\ v = Refreshed(p) \/ (v = Seen(p) /\ Spend("dberror"))
               /\ m = "confirm" => Spend("dberror")
  <2>1. ConfirmBid(p) \/ ConfirmFails(p)
    BY <1>6 DEF Trade, Retrieve, PlaceAuction
  <2> QED BY <2>1, ConfirmCases DEF tables
<1> QED BY <1>1, <1>2, <1>3, <1>4, <1>5, <1>6 DEF Next

\* ... for the item they have selected.
LEMMA BidMade ==
  ASSUME HouseInv, [Next]_vars, NEW i \in Items, bids'[i] # bids[i]
  PROVE  \E p \in Players : \E m \in {"menu", "confirm"} : \E v :
           /\ menu[p] = "confirm" /\ Recorded(p, m, v) /\ i = sel[p] /\ bids'[i] = WithBid(p)
           /\ v = Refreshed(p) \/ (v = Seen(p) /\ Spend("dberror"))
           /\ m = "confirm" => Spend("dberror")
<1>1. PICK p \in Players : \E m \in {"menu", "confirm"} : \E v :
        /\ menu[p] = "confirm" /\ Recorded(p, m, v)
        /\ v = Refreshed(p) \/ (v = Seen(p) /\ Spend("dberror"))
        /\ m = "confirm" => Spend("dberror")
  BY BidsChange
<1>2. PICK m \in {"menu", "confirm"} : \E v :
        /\ menu[p] = "confirm" /\ Recorded(p, m, v)
        /\ v = Refreshed(p) \/ (v = Seen(p) /\ Spend("dberror"))
        /\ m = "confirm" => Spend("dberror")
  BY <1>1
<1>3. PICK v :
        /\ menu[p] = "confirm" /\ Recorded(p, m, v)
        /\ v = Refreshed(p) \/ (v = Seen(p) /\ Spend("dberror"))
        /\ m = "confirm" => Spend("dberror")
  BY <1>2
<1>4. /\ bids'[sel[p]] = WithBid(p)
      /\ \A j \in Items \ {sel[p]} : bids'[j] = bids[j]
  BY <1>3, RecordedTables
<1>5. i = sel[p]
  BY <1>4
<1> QED BY <1>3, <1>4, <1>5

NeverFails == \A b \in Limits : b["dberror"] = 0
FailsOnce == \A b \in Limits : b["dberror"] <= 1

\* No bid is recorded for an auction that is over (NoLateBids): the AuctionItem is
\* read again before the bid is, and says so.  It does not if the query fails.
THEOREM NoLateBidsHolds ==
  ASSUME NeverFails
  PROVE  Spec => NoLateBids
<1> DEFINE Never == budget["dberror"] = 0
<1>1. Init => Never
  BY DEF Init, NeverFails
<1>2. HouseInv /\ Never /\ [Next]_vars => Never'
  <2>1. "dberror" \in Events
    BY DEF Events
  <2> QED BY <2>1, LimitKept
<1>3. HouseInv /\ Never /\ [Next]_vars =>
        [\A i \in Items : bids'[i] # bids[i] =>
           auction[i].state = "active" /\ ~auction[i].ended]_vars
  <2>1. SUFFICES ASSUME HouseInv, Never, [Next]_vars, NEW i \in Items, bids'[i] # bids[i]
                 PROVE  auction[i].state = "active" /\ ~auction[i].ended
    OBVIOUS
  <2>2. ~Spend("dberror")
    BY <2>1 DEF Spend
  <2>3. PICK p \in Players : \E m \in {"menu", "confirm"} : \E v :
          menu[p] = "confirm" /\ Recorded(p, m, v) /\ i = sel[p] /\ v = Refreshed(p)
    BY <2>1, <2>2, BidMade
  <2>4. menu[p] = "confirm" /\ i = sel[p] /\ ~Over(p, Refreshed(p))
    BY <2>3 DEF Recorded
  <2> QED BY <2>1, <2>4, RereadFacts
<1> QED BY <1>1, <1>2, <1>3, HouseCorrect, PTL DEF Spec, NoLateBids

\* What a step leaves p with, if no query fails.
LEMMA ViewSteps ==
  ASSUME HouseInv, [Next]_vars, ~Spend("dberror"), NEW q \in Players, NEW i \in Items
  PROVE  \/ view'[q] = view[q] \/ view'[q][i] = view[q][i]
         \/ view'[q][i].kind # "live" \/ (view'[q][i].bids = bids'[i] /\ bids' = bids)
<1>1. view \in [Players -> [Items -> ViewType]]
  BY ScreenTypes
<1>2. NoView.kind = "none"
  BY DEF NoView
<1>3. ASSUME NEW p \in Players, NEW m, Reset(p, m)
      PROVE  view'[q] = view[q] \/ view'[q][i].kind # "live"
  BY <1>1, <1>2, <1>3 DEF Reset
<1>4. CASE UNCHANGED vars
  BY <1>4 DEF vars, screen
<1>5. CASE UpdateAuctions
  BY <1>5 DEF UpdateAuctions, SelectExpired, Deactivate, PayExpired, PayAborted, screen
<1>6. ASSUME NEW j \in Items, Ends(j) PROVE view' = view
  BY <1>6 DEF Ends, screen
<1>7. ASSUME NEW p \in Players, Come(p) \/ Go(p)
      PROVE  view' = view \/ \E m : Reset(p, m)
  BY <1>7 DEF Come, WebLogin, GiveName, WrongPassword, Password, GiveUp, Go, LeaveGame, LoseLink, Die, screen
<1>8. ASSUME NEW p \in Players, Choose(p)
      PROVE  \/ view'[q] = view[q] \/ view'[q][i].kind # "live"
             \/ (view'[q][i].bids = bids'[i] /\ bids' = bids)
  <2>1. ASSUME NEW found, Browse(p, found)
        PROVE  \/ view'[q] = view[q] \/ view'[q][i].kind # "live"
               \/ (view'[q][i].bids = bids'[i] /\ bids' = bids)
    <3>1. view' = [view EXCEPT ![p] = [j \in Items |-> IF j \in found THEN Snapshot(j) ELSE NoView]]
      BY <2>1 DEF Browse
    <3>2. bids' = bids
      BY <2>1 DEF Browse, Unmoved
    <3> QED BY <1>1, <1>2, <3>1, <3>2, SnapshotFacts
  <2>2. Leave(p) \/ Back(p) => view' = view \/ \E m : Reset(p, m)
    BY DEF Leave, Back
  <2>3. OpenHouse(p) \/ ManualBid(p) \/ BuyoutOption(p) => view' = view
    BY DEF OpenHouse, ManualBid, BuyoutOption, Ask, Show
  <2>4. \A j \in Items : Select(p, j) => view' = view
    BY DEF Select
  <2>5. \A a \in Amounts : EnterAmount(p, a) => view' = view
    BY DEF EnterAmount, Ask
  <2> QED BY <1>3, <1>8, <2>1, <2>2, <2>3, <2>4, <2>5 DEF Choose
<1>9. ASSUME NEW p \in Players, ConfirmBid(p) \/ ConfirmFails(p)
      PROVE  \/ view'[q] = view[q] \/ view'[q][i] = view[q][i]
             \/ view'[q][i].kind # "live" \/ (view'[q][i].bids = bids'[i] /\ bids' = bids)
  <2>1. /\ menu[p] = "confirm"
        /\ \/ /\ UNCHANGED <<tables, body>>
              /\ \E m \in {"over", "outbid", "menu"} : GoTo(p, m, Refreshed(p))
           \/ GoTo(p, "menu", Refreshed(p))
    BY <1>9, ConfirmCases DEF Recorded
  <2>2. PICK m \in {"over", "outbid", "menu", "confirm"} :
          GoTo(p, m, Refreshed(p)) /\ (bids' = bids \/ m = "menu")
    BY <2>1 DEF tables
  <2>3. PICK v : v = Refreshed(p)
    OBVIOUS
  <2>4. v \in ViewType
    BY <2>1, <2>3, RereadFacts DEF Reread
  <2>5. /\ \A r \in Players \ {p} : SameScreen(r)
        /\ m = "menu" => Reset(p, m)
        /\ m # "menu" => \A j \in Items : view'[p][j] = IF j = sel[p] THEN v ELSE view[p][j]
    BY <2>1, <2>2, <2>3, <2>4, GoToFacts
  <2>6. CASE q # p
    BY <2>5, <2>6 DEF SameScreen
  <2>7. CASE q = p /\ m = "menu"
    BY <1>3, <2>5, <2>7
  <2>8. CASE q = p /\ m # "menu" /\ i # sel[p]
    BY <2>5, <2>8
  <2>9. CASE q = p /\ m # "menu" /\ i = sel[p]
    <3>1. view'[q][i] = v /\ bids' = bids
      BY <2>2, <2>5, <2>9
    <3>2. v = Snapshot(i) \/ v = [Seen(p) EXCEPT !.kind = "zero", !.retrieved = FALSE]
      BY <2>3, <2>9 DEF Refreshed
    <3>3. Seen(p) \in ViewType
      BY <2>1, SeenFacts
    <3>4. v.bids = bids[i] \/ v.kind = "zero"
      <4>1. CASE v = Snapshot(i)
        BY <4>1, SnapshotFacts
      <4>2. CASE v = [Seen(p) EXCEPT !.kind = "zero", !.retrieved = FALSE]
        BY <3>3, <4>2 DEF ViewType
      <4> QED BY <3>2, <4>1, <4>2
    <3> QED BY <3>1, <3>4
  <2> QED BY <2>6, <2>7, <2>8, <2>9
<1>10. ASSUME NEW p \in Players, Retrieve(p)
       PROVE  view'[q] = view[q] \/ view'[q][i] = view[q][i] \/ view'[q][i].kind # "live"
  <2>1. view' = [view EXCEPT ![p][sel[p]] = NoView] /\ sel[p] \in Items
    BY <1>10, SeenFacts DEF Retrieve
  <2>2. view' = [view EXCEPT ![p] = [view[p] EXCEPT ![sel[p]] = NoView]]
    BY <1>1, <2>1
  <2> QED BY <1>1, <1>2, <2>1, <2>2
<1>11. ASSUME NEW p \in Players, Trade(p)
       PROVE  \/ view'[q] = view[q] \/ view'[q][i] = view[q][i]
              \/ view'[q][i].kind # "live" \/ (view'[q][i].bids = bids'[i] /\ bids' = bids)
  <2>1. \A j \in Items, a \in Prices, b \in Prices : PlaceAuction(p, j, a, b) => view' = view
    BY DEF PlaceAuction, screen
  <2> QED BY <1>9, <1>10, <1>11, <2>1 DEF Trade
<1> QED BY <1>3, <1>4, <1>5, <1>6, <1>7, <1>8, <1>11 DEF Next

LEMMA OwnBidsNext ==
  ASSUME HouseInv, OwnBidsSeen, [Next]_vars
  PROVE  OwnBidsSeen'
<1>1. "dberror" \in Events
  BY DEF Events
<1>2. /\ budget["dberror"] \in Nat /\ budget'["dberror"] \in Nat
      /\ budget'["dberror"] <= budget["dberror"] /\ budget["dberror"] <= 1
  BY <1>1, LimitKept DEF OwnBidsSeen
<1>3. ASSUME budget'["dberror"] = 1, NEW q \in Players, NEW i \in Items, view'[q][i].kind = "live"
      PROVE  /\ GetLastBid(view'[q][i].bids, q) = GetLastBid(bids'[i], q)
             /\ q \in Bidders(bids'[i]) => q \in Bidders(view'[q][i].bids)
  <2>1. ~Spend("dberror")
    <3>1. budget \in [Events -> Nat]
      BY ScreenTypes
    <3>2. Spend("dberror") => budget'["dberror"] = budget["dberror"] - 1
      BY <1>1, <3>1, SpendFacts
    <3> QED BY ONLY <1>2, <1>3, <3>2
  <2>2. budget["dberror"] = 1
    BY ONLY <1>2, <1>3
  <2>3. \/ view'[q][i] = view[q][i]
        \/ (view'[q][i].bids = bids'[i] /\ bids' = bids)
    BY <1>3, <2>1, ViewSteps
  <2>4. CASE view'[q][i].bids = bids'[i]
    BY <2>4
  <2>5. CASE view'[q][i] = view[q][i]
    <3>1. /\ GetLastBid(view'[q][i].bids, q) = GetLastBid(bids[i], q)
          /\ q \in Bidders(bids[i]) => q \in Bidders(view'[q][i].bids)
      BY <1>3, <2>2, <2>5 DEF OwnBidsSeen
    <3>2. CASE bids'[i] = bids[i]
      BY <3>1, <3>2
    <3>3. CASE bids'[i] # bids[i]
      <4>1. \E p \in Players : \E m \in {"menu", "confirm"} : \E v :
              /\ menu[p] = "confirm" /\ Recorded(p, m, v) /\ i = sel[p] /\ bids'[i] = WithBid(p)
              /\ v = Refreshed(p) \/ (v = Seen(p) /\ Spend("dberror"))
              /\ m = "confirm" => Spend("dberror")
        BY ONLY HouseInv, [Next]_vars, i \in Items, <3>3, BidMade
      <4>2. \E p \in Players :
              /\ menu[p] = "confirm" /\ i = sel[p] /\ bids'[i] = WithBid(p)
              /\ Recorded(p, "menu", Refreshed(p))
        BY ONLY <2>1, <4>1
      <4>3. PICK p \in Players :
              /\ menu[p] = "confirm" /\ i = sel[p] /\ bids'[i] = WithBid(p)
              /\ Recorded(p, "menu", Refreshed(p))
        BY <4>2
      <4>4. q # p
        <5>1. Reset(p, "menu")
          BY <4>3 DEF Recorded, GoTo
        <5>2. view \in [Players -> [Items -> ViewType]]
          BY ScreenTypes
        <5>3. view'[p][i].kind = "none"
          BY <5>1, <5>2 DEF Reset, NoView
        <5> QED BY <1>3, <5>3
      <4>5. req[p] \in Int /\ bids[i] \in Seq(Bids)
        BY <4>3, RecordedFacts DEF Recorded
      <4>6. bids'[i] = Append(bids[i], [bidder |-> p, amount |-> req[p]])
        BY <4>3 DEF WithBid
      <4>7. /\ GetLastBid(bids'[i], q) = GetLastBid(bids[i], q)
            /\ q \in Bidders(bids'[i]) => q \in Bidders(bids[i])
        BY <4>4, <4>5, <4>6, AppendedFacts
      <4> QED BY <3>1, <4>7
    <3> QED BY <3>2, <3>3
  <2> QED BY <2>3, <2>4, <2>5
<1> QED BY <1>2, <1>3 DEF OwnBidsSeen

\* Whoever bids has bid less before.
LEMMA Raises ==
  ASSUME HouseInv, OwnBidsSeen, NEW p \in Players, menu[p] = "confirm", NEW m, NEW v,
         v = Refreshed(p) \/ (v = Seen(p) /\ Spend("dberror")), Recorded(p, m, v)
  PROVE  /\ GetLastBid(v.bids, p) = GetLastBid(bids[sel[p]], p)
         /\ p \in Bidders(bids[sel[p]]) => GetLastBid(bids[sel[p]], p) <= req[p]
<1>1. /\ ~Over(p, v) /\ ~Outbid(p, v) /\ (v = Refreshed(p) \/ v = Seen(p))
  BY DEF Recorded
<1>2. /\ ~Zeroed(p) /\ sel[p] \in Items /\ req[p] \in Int
      /\ v \in ViewType /\ v.kind = "live" /\ v.bids \in Seq(Bids) /\ bids[sel[p]] \in Seq(Bids)
      /\ auction[sel[p]] \in RowType
  BY <1>1, RecordedFacts
<1>3. /\ Seen(p).bids \in Seq(Bids) /\ Earlier(Seen(p).bids, bids[sel[p]])
      /\ Buyout(p) \in Int /\ GetTopBid(p) \in Int /\ GetNextMinBid(p) = GetTopBid(p) + Increment
      /\ Increment \in Nat
  BY SeenFacts
<1>4. /\ v.bids = Seen(p).bids
      /\ GetLastBid(v.bids, p) = GetLastBid(bids[sel[p]], p)
      /\ p \in Bidders(bids[sel[p]]) => p \in Bidders(v.bids)
  <2>1. CASE v = Refreshed(p)
    <3>1. v.bids = bids[sel[p]]
      BY <1>1, <1>2, <2>1, RereadFacts, SnapshotFacts
    <3>2. Len(v.bids) <= Len(Seen(p).bids)
      <4>1. ~(Len(v.bids) > Len(Seen(p).bids))
        BY <1>1 DEF Outbid
      <4>2. Len(v.bids) \in Nat /\ Len(Seen(p).bids) \in Nat
        BY <1>2, <1>3
      <4> QED BY ONLY <4>1, <4>2
    <3>3. Seen(p).bids = v.bids
      BY ONLY <1>2, <1>3, <3>1, <3>2, NotOutbid
    <3> QED BY <3>1, <3>3
  <2>2. CASE v = Seen(p) /\ Spend("dberror")
    <3>1. "dberror" \in Events /\ budget \in [Events -> Nat]
      BY ScreenTypes DEF Events
    <3>2. budget["dberror"] = 1
      BY <2>2, <3>1 DEF Spend, OwnBidsSeen
    <3> QED BY <1>2, <2>2, <3>2 DEF OwnBidsSeen, Seen
  <2> QED BY <2>1, <2>2
<1>5. GetLastBid(v.bids, p) \in Int
  BY <1>2, LastBidFacts
<1>6. p \in Bidders(v.bids) => GetLastBid(v.bids, p) <= GetTopBid(p)
  <2>1. SUFFICES ASSUME p \in Bidders(v.bids) PROVE GetLastBid(v.bids, p) <= GetTopBid(p)
    OBVIOUS
  <2>2. v.bids # <<>> /\ GetLastBid(v.bids, p) <= Top(v.bids)
    BY <1>2, <2>1, BidFacts, LastBidFacts
  <2>3. GetTopBid(p) = Top(v.bids)
    BY <1>4, <2>2 DEF GetTopBid
  <2> QED BY <2>2, <2>3
<1>7. AskedEnough(p)
  BY DEF HouseInv, MenuInv
<1>8. CASE req[p] >= GetNextMinBid(p)
  BY ONLY <1>2, <1>3, <1>4, <1>5, <1>6, <1>8
<1>9. CASE Buyout(p) > 0 /\ req[p] = Buyout(p)
  <2>1. Buyout(p) = auction[sel[p]].buyout /\ RowInv(sel[p])
    BY <1>2 DEF Buyout, HouseInv
  <2>2. \A k \in DOMAIN bids[sel[p]] : bids[sel[p]][k].amount <= req[p]
    BY <1>9, <2>1 DEF RowInv
  <2>3. p \in Bidders(bids[sel[p]]) =>
          \E k \in DOMAIN bids[sel[p]] : bids[sel[p]][k].amount = GetLastBid(bids[sel[p]], p)
    BY <1>2, LastBidFacts
  <2> QED BY ONLY <1>2, <1>4, <2>2, <2>3
<1> QED BY <1>4, <1>7, <1>8, <1>9 DEF AskedEnough

\* Whoever bids pays what the bid adds to their own highest one (PaysTheRaise), if
\* at most one query fails: then the AuctionItem may be old, but not in the bids of
\* the player's own.
THEOREM PaysTheRaiseHolds ==
  ASSUME FailsOnce
  PROVE  Spec => PaysTheRaise
<1>1. Init => OwnBidsSeen
  BY DEF Init, FailsOnce, OwnBidsSeen, NoView
<1>2. HouseInv /\ OwnBidsSeen /\ [Next]_vars => OwnBidsSeen'
  BY OwnBidsNext
<1>3. HouseInv /\ OwnBidsSeen /\ [Next]_vars =>
        [\A p \in Players, i \in Items :
           bids'[i] # bids[i] /\ Last(bids'[i]).bidder = p =>
             body[p].gold - body'[p].gold = GetLastBid(bids'[i], p) - GetLastBid(bids[i], p)]_vars
  <2>1. SUFFICES ASSUME HouseInv, OwnBidsSeen, [Next]_vars, NEW p \in Players, NEW i \in Items,
                        bids'[i] # bids[i], Last(bids'[i]).bidder = p
                 PROVE  body[p].gold - body'[p].gold = GetLastBid(bids'[i], p) - GetLastBid(bids[i], p)
    OBVIOUS
  <2>2. PICK q \in Players : \E m \in {"menu", "confirm"} : \E v :
          /\ menu[q] = "confirm" /\ Recorded(q, m, v) /\ i = sel[q] /\ bids'[i] = WithBid(q)
          /\ v = Refreshed(q) \/ (v = Seen(q) /\ Spend("dberror"))
    BY <2>1, BidMade
  <2>3. PICK m \in {"menu", "confirm"} : \E v :
          /\ menu[q] = "confirm" /\ Recorded(q, m, v) /\ i = sel[q] /\ bids'[i] = WithBid(q)
          /\ v = Refreshed(q) \/ (v = Seen(q) /\ Spend("dberror"))
    BY <2>2
  <2>4. PICK v :
          /\ menu[q] = "confirm" /\ Recorded(q, m, v) /\ i = sel[q] /\ bids'[i] = WithBid(q)
          /\ v = Refreshed(q) \/ (v = Seen(q) /\ Spend("dberror"))
    BY <2>3
  <2>5. req[q] \in Int /\ bids[i] \in Seq(Bids) /\ v.bids \in Seq(Bids)
    BY <2>1, <2>4, RecordedFacts DEF Recorded
  <2>6. /\ GetLastBid(v.bids, q) = GetLastBid(bids[i], q)
        /\ q \in Bidders(bids[i]) => GetLastBid(bids[i], q) <= req[q]
    BY <2>1, <2>4, Raises
  <2>7. bids'[i] = Append(bids[i], [bidder |-> q, amount |-> req[q]])
    BY <2>4 DEF WithBid
  <2>8. q = p /\ GetLastBid(bids'[i], q) = req[q]
    <3>1. GetLastBid(bids[i], q) \in Int
      BY <2>5, LastBidFacts
    <3>2. q \in Bidders(bids[i]) => req[q] >= GetLastBid(bids[i], q)
      BY ONLY <2>5, <2>6, <3>1
    <3> QED BY <2>1, <2>5, <2>7, <3>2, AppendedFacts
  <2>9. body'[q].gold = body[q].gold - (req[q] - GetLastBid(v.bids, q))
    <3>1. HouseInv /\ menu[q] = "confirm" /\ Recorded(q, m, v) /\ (v = Refreshed(q) \/ v = Seen(q))
      BY <2>1, <2>4
    <3>2. \A r \in Players :
            body'[r].gold = IF r = q THEN body[q].gold - (req[q] - GetLastBid(v.bids, q)) ELSE body[r].gold
      BY ONLY q \in Players, <3>1, RecordedTables
    <3> QED BY ONLY <3>2, q \in Players
  <2>10. body[q].gold \in Int /\ GetLastBid(bids[i], q) \in Int
    <3>1. body[q] \in BodyType
      BY <2>1, ScreenTypes
    <3> QED BY <2>5, <3>1, LastBidFacts DEF BodyType
  <2> QED BY ONLY <2>5, <2>6, <2>8, <2>9, <2>10
<1> QED BY <1>1, <1>2, <1>3, HouseCorrect, PTL DEF Spec, PaysTheRaise

-------------------------------------------------------------------------------
(* When nothing fails.                                                     *)

\* The steps that are left.
CalmStep ==
  \/ UNCHANGED vars \/ SelectExpired
  \/ Deactivate /\ auction' = [i \in Items |-> IF i \in chosen
                                 THEN [auction[i] EXCEPT !.state = "inactive"] ELSE auction[i]]
  \/ \E i \in Items :
       \/ PayExpired(i)
            /\ (bids[i] # <<>> => \E w \in TopBidders(bids[i]) :
                                    Pay(body, i, bids[i], Losers(bids[i], w), TRUE))
       \/ Ends(i)
  \/ \E p \in Players :
       \/ WebLogin(p) \/ LeaveGame(p) \/ LoseLink(p) \/ Choose(p) \/ ConfirmBid(p)
       \/ Retrieve(p) /\ auction' = [auction EXCEPT ![sel[p]].retrieved = TRUE]
       \/ \E i \in Items, a \in Prices, b \in Prices : PlaceAuction(p, i, a, b)

LEMMA CalmSteps ==
  ASSUME HouseInv, Calm, [Next]_vars
  PROVE  CalmStep
<1>1. ~Spend("dberror") /\ ~Spend("telnet") /\ ~Spend("death")
  BY DEF Calm, Spend
<1>2. CASE UNCHANGED vars
  BY <1>2 DEF CalmStep
<1>3. CASE UpdateAuctions
  <2>1. ASSUME Deactivate PROVE CalmStep
    BY <1>1, <2>1 DEF Deactivate, CalmStep
  <2>2. ASSUME NEW i \in Items, PayExpired(i) PROVE CalmStep
    <3>1. bids[i] # <<>> => \E w \in TopBidders(bids[i]) : Settle(body, i, bids[i], w)
      BY <2>2 DEF PayExpired
    <3>2. \A w : Settle(body, i, bids[i], w) => Pay(body, i, bids[i], Losers(bids[i], w), TRUE)
      BY <1>1 DEF Settle
    <3> QED BY <2>2, <3>1, <3>2 DEF CalmStep
  <2>3. ~\E i \in Items : PayAborted(i)
    BY <1>1 DEF PayAborted
  <2> QED BY <1>3, <2>1, <2>2, <2>3 DEF UpdateAuctions, CalmStep
<1>4. ASSUME NEW i \in Items, Ends(i) PROVE CalmStep
  BY <1>4 DEF CalmStep
<1>5. ASSUME NEW p \in Players, Come(p) PROVE CalmStep
  <2>1. body[p].at # "login"
    BY DEF Calm
  <2>2. WebLogin(p)
    BY <1>1, <1>5, <2>1 DEF Come, GiveName, WrongPassword, Password, GiveUp
  <2> QED BY <2>2 DEF CalmStep
<1>6. ASSUME NEW p \in Players, Go(p) PROVE CalmStep
  BY <1>1, <1>6 DEF Go, Die, CalmStep
<1>7. ASSUME NEW p \in Players, Choose(p) PROVE CalmStep
  BY <1>7 DEF CalmStep
<1>8. ASSUME NEW p \in Players, Trade(p) PROVE CalmStep
  <2>1. ~ConfirmFails(p)
    BY <1>1 DEF ConfirmFails
  <2>2. Retrieve(p) => auction' = [auction EXCEPT ![sel[p]].retrieved = TRUE]
    BY <1>1 DEF Retrieve
  <2>3. ConfirmBid(p) \/ Retrieve(p) \/ \E i \in Items, a \in Prices, b \in Prices : PlaceAuction(p, i, a, b)
    BY <1>8, <2>1, Zenon DEF Trade
  <2> QED BY <2>2, <2>3 DEF CalmStep
<1> QED BY <1>2, <1>3, <1>4, <1>5, <1>6, <1>7, <1>8 DEF Next

\* The bid that is recorded beats all the others.
LEMMA BidTaken ==
  ASSUME HouseInv, Calm, NEW p \in Players, menu[p] = "confirm",
         ~Over(p, Refreshed(p)), ~Outbid(p, Refreshed(p))
  PROVE  /\ Refreshed(p).bids = bids[sel[p]] /\ auction[sel[p]].state = "active"
         /\ bids[sel[p]] # <<>> => req[p] > Top(bids[sel[p]])
         /\ \/ req[p] >= (IF bids[sel[p]] = <<>> THEN auction[sel[p]].start ELSE Top(bids[sel[p]]))
                         + Increment
            \/ auction[sel[p]].buyout > 0 /\ req[p] = auction[sel[p]].buyout
<1>1. PICK v : v = Refreshed(p)
  OBVIOUS
<1>2. /\ ~Zeroed(p) /\ sel[p] \in Items /\ req[p] \in Int
      /\ v \in ViewType /\ v.bids \in Seq(Bids) /\ bids[sel[p]] \in Seq(Bids)
      /\ auction[sel[p]] \in RowType
  BY <1>1, RecordedFacts
<1>3. /\ Seen(p).bids \in Seq(Bids) /\ Earlier(Seen(p).bids, bids[sel[p]])
      /\ Buyout(p) \in Int /\ GetTopBid(p) \in Int /\ GetNextMinBid(p) = GetTopBid(p) + Increment
      /\ Increment \in Nat /\ Increment > 0
  BY SeenFacts
<1>4. v.bids = bids[sel[p]] /\ auction[sel[p]].state = "active"
  BY <1>1, <1>2, RereadFacts, SnapshotFacts
<1>5. Seen(p).bids = bids[sel[p]]
  <2>1. ~(Len(v.bids) > Len(Seen(p).bids))
    BY <1>1 DEF Outbid
  <2>2. Len(v.bids) \in Nat /\ Len(Seen(p).bids) \in Nat
    BY <1>2, <1>3
  <2>3. Len(v.bids) <= Len(Seen(p).bids)
    BY ONLY <2>1, <2>2
  <2> QED BY ONLY <1>2, <1>3, <1>4, <2>3, NotOutbid
<1>6. GetTopBid(p) = IF bids[sel[p]] = <<>> THEN auction[sel[p]].start ELSE Top(bids[sel[p]])
  BY <1>2, <1>5 DEF GetTopBid
<1>7. bids[sel[p]] # <<>> =>
        /\ Top(bids[sel[p]]) \in Int
        /\ \E k \in DOMAIN bids[sel[p]] : bids[sel[p]][k].amount = Top(bids[sel[p]])
  BY <1>2, BidFacts
<1>8. AskedEnough(p)
  BY DEF HouseInv, MenuInv
<1>9. CASE req[p] >= GetNextMinBid(p)
  <2>1. bids[sel[p]] # <<>> => req[p] > Top(bids[sel[p]])
    BY ONLY <1>2, <1>3, <1>6, <1>7, <1>9
  <2> QED BY <1>1, <1>3, <1>4, <1>6, <1>9, <2>1
<1>10. CASE Buyout(p) > 0 /\ req[p] = Buyout(p)
  <2>1. Buyout(p) = auction[sel[p]].buyout
    BY <1>2 DEF Buyout
  <2>2. RowInv(sel[p]) /\ CalmRow(sel[p])
    BY <1>2 DEF HouseInv, Calm
  <2>3. \A k \in DOMAIN bids[sel[p]] :
          /\ bids[sel[p]][k].amount <= auction[sel[p]].buyout
          /\ bids[sel[p]][k].amount # auction[sel[p]].buyout
    BY <1>4, <1>10, <2>1, <2>2 DEF RowInv, CalmRow
  <2>4. bids[sel[p]] # <<>> => req[p] > Top(bids[sel[p]])
    BY ONLY <1>2, <1>7, <1>10, <2>1, <2>3
  <2> QED BY <1>1, <1>4, <1>10, <2>1, <2>4
<1> QED BY <1>8, <1>9, <1>10 DEF AskedEnough

LEMMA RowStaysCalm ==
  ASSUME NEW i, CalmRow(i), bids'[i] = bids[i],
         auction'[i].state = "active" =>
           auction[i].state = "active" /\ auction'[i].buyout = auction[i].buyout
  PROVE  CalmRow(i)'
BY DEF CalmRow

\* After the bid of p, the bids still rise, and none is the buyout.
LEMMA BidStaysCalm ==
  ASSUME HouseInv, Calm, NEW p \in Players, menu[p] = "confirm", ConfirmBid(p),
         ~Over(p, Refreshed(p)), ~Outbid(p, Refreshed(p))
  PROVE  /\ Rising(WithBid(p)) /\ Recorded(p, "menu", Refreshed(p)) /\ PlaceBid(p, Refreshed(p))
         /\ \A i \in Items : CalmRow(i)'
<1>1. /\ sel[p] \in Items /\ req[p] \in Int /\ auction[sel[p]].state # "none"
      /\ bids[sel[p]] \in Seq(Bids) /\ auction[sel[p]] \in RowType
  BY RecordedFacts
<1>2. (bids[sel[p]] # <<>> => req[p] > Top(bids[sel[p]])) /\ auction[sel[p]].state = "active"
  BY BidTaken
<1>3. PICK c, n, bs : c = WithBid(p) /\ n = Len(bids[sel[p]]) /\ bs = bids[sel[p]]
  OBVIOUS
<1>4. /\ DOMAIN c = 1..(n + 1) /\ DOMAIN bs = 1..n /\ n \in Nat
      /\ c[n + 1].amount = req[p] /\ \A k \in 1..n : c[k] = bs[k]
  BY <1>1, <1>3, AppendedFacts DEF WithBid
<1>5. \A k \in 1..n : bs[k].amount \in Int /\ bs[k].amount < req[p]
  <2>1. SUFFICES ASSUME bs # <<>> PROVE \A k \in 1..n : bs[k].amount \in Int /\ bs[k].amount < req[p]
    BY <1>4
  <2>2. Top(bs) \in Int /\ \A k \in 1..n : bs[k].amount \in Int /\ bs[k].amount <= Top(bs)
    BY <1>1, <1>3, <1>4, <2>1, BidFacts
  <2> QED BY ONLY <1>1, <1>2, <1>3, <2>1, <2>2
<1>6. \A j, k \in 1..n : j < k => bs[j].amount < bs[k].amount
  BY <1>1, <1>3, <1>4 DEF Calm, CalmRow, Rising
<1>7. Rising(c)
  <2>1. ASSUME NEW j \in 1..(n + 1), NEW k \in 1..(n + 1), j < k
        PROVE  c[j].amount < c[k].amount
    <3>1. j \in 1..n /\ (k \in 1..n \/ k = n + 1)
      BY ONLY <1>4, <2>1
    <3> QED BY ONLY <1>4, <1>5, <1>6, <2>1, <3>1
  <2> QED BY <1>4, <2>1 DEF Rising
<1>8. PlaceBid(p, Refreshed(p)) /\ GoTo(p, "menu", Refreshed(p))
  BY DEF ConfirmBid, Confirm
<1>9. Recorded(p, "menu", Refreshed(p))
  <2>1. Insert(p) /\ (auction' = auction \/ (IsBuyout(p) /\ SellNow(p)))
    BY <1>8 DEF PlaceBid
  <2>2. \/ users' = users /\ body' = Charged(p, Refreshed(p))
        \/ \E L : \E rewarded \in BOOLEAN :
             Pay(Charged(p, Refreshed(p)), sel[p], WithBid(p), L, rewarded)
    BY <1>8, Zenon DEF PlaceBid
  <2> QED BY <1>8, <2>1, <2>2 DEF Recorded
<1>10. /\ bids'[sel[p]] = WithBid(p)
       /\ \A i \in Items \ {sel[p]} : auction'[i] = auction[i] /\ bids'[i] = bids[i]
       /\ auction'[sel[p]] \in {auction[sel[p]], [auction[sel[p]] EXCEPT !.state = "inactive"]}
  BY <1>9, RecordedTables
<1>11. ASSUME NEW i \in Items PROVE CalmRow(i)'
  <2>1. CASE i # sel[p]
    BY <1>10, <2>1, RowStaysCalm DEF Calm
  <2>2. CASE i = sel[p]
    <3>1. bids'[i] = c
      BY <1>3, <1>10, <2>2
    <3>2. ASSUME auction'[i].state = "active", auction'[i].buyout > 0, NEW k \in 1..(n + 1)
          PROVE  c[k].amount # auction'[i].buyout
      <4>1. auction'[i] = auction[i]
        BY <1>1, <1>10, <2>2, <3>2 DEF RowType
      <4>2. auction' # [auction EXCEPT ![sel[p]].state = "inactive"]
        <5>1. auction \in [Items -> RowType]
          BY ScreenTypes
        <5>2. SUFFICES ASSUME auction' = [auction EXCEPT ![sel[p]].state = "inactive"] PROVE FALSE
          OBVIOUS
        <5>3. auction'[i] = [auction[i] EXCEPT !.state = "inactive"]
          BY <1>1, <2>2, <5>1, <5>2
        <5>4. auction'[i].state = "inactive"
          BY <1>1, <2>2, <5>3 DEF RowType
        <5> QED BY <3>2, <5>4
      <4>3. ~IsBuyout(p)
        BY <1>8, <4>2 DEF PlaceBid, SellNow
      <4>4. auction[i].buyout \in Int /\ req[p] < auction[i].buyout
        BY <1>1, <2>2, <3>2, <4>1, <4>3 DEF IsBuyout, RowType
      <4>5. k \in 1..n \/ k = n + 1
        BY ONLY <1>4, <3>2
      <4> QED BY ONLY <1>1, <1>4, <1>5, <4>1, <4>4, <4>5
    <3> QED BY <1>4, <1>7, <3>1, <3>2 DEF CalmRow
  <2> QED BY <2>1, <2>2
<1> QED BY <1>3, <1>7, <1>8, <1>9, <1>11

LEMMA CalmKeeps ==
  ASSUME HouseInv, Calm, [Next]_vars
  PROVE  Calm'
<1>1. \A e \in {"telnet", "death", "dberror"} : budget'[e] = 0
  <2>1. \A e \in {"telnet", "death", "dberror"} : e \in Events /\ budget[e] = 0
    BY DEF Calm, Events
  <2> QED BY <2>1, LimitKept
<1>2. CalmStep /\ body \in [Players -> BodyType] /\ auction \in [Items -> RowType]
  BY CalmSteps, ScreenTypes
<1>3. \A p \in Players : body[p].at # "login"
  BY DEF Calm
<1>4. \A i \in Items : CalmRow(i)
  BY DEF Calm
<1> DEFINE SameBodies == \A p \in Players : body'[p].at # "login"
           SameRows == \A i \in Items : CalmRow(i)'
<1>5. ASSUME UNCHANGED <<auction, bids>> PROVE SameRows
  BY <1>4, <1>5, RowStaysCalm
<1>6. ASSUME bids' = bids,
             \A i \in Items :
               \/ auction'[i] = auction[i]
               \/ /\ auction[i].state # "none"
                  /\ \/ auction'[i] = [auction[i] EXCEPT !.state = "inactive"]
                     \/ auction'[i] = [auction[i] EXCEPT !.ended = TRUE]
                     \/ auction'[i] = [auction[i] EXCEPT !.retrieved = TRUE]
      PROVE  SameRows
  <2>1. ASSUME NEW i \in Items
        PROVE  auction'[i].state = "active" =>
                 auction[i].state = "active" /\ auction'[i].buyout = auction[i].buyout
    <3>1. auction[i] \in RowType
      BY <1>2
    <3> QED BY <1>6, <3>1 DEF RowType
  <2> QED BY <1>4, <1>6, <2>1, RowStaysCalm
<1> HIDE DEF SameRows, SameBodies
<1>7. body' = body => SameBodies
  BY <1>3 DEF SameBodies
<1>8. ASSUME UNCHANGED vars \/ SelectExpired PROVE SameRows /\ SameBodies
  BY <1>5, <1>7, <1>8 DEF vars, tables, SelectExpired
<1>9. ASSUME Deactivate,
             auction' = [i \in Items |-> IF i \in chosen
                           THEN [auction[i] EXCEPT !.state = "inactive"] ELSE auction[i]]
      PROVE  SameRows /\ SameBodies
  <2>1. \A i \in chosen : auction[i].state = "active"
    BY DEF HouseInv, UpdateInv
  <2>2. bids' = bids /\ body' = body
    BY <1>9 DEF Deactivate
  <2> QED BY <1>6, <1>7, <1>9, <2>1, <2>2
<1>10. ASSUME NEW i \in Items, PayExpired(i),
              bids[i] # <<>> => \E w \in TopBidders(bids[i]) :
                                  Pay(body, i, bids[i], Losers(bids[i], w), TRUE)
       PROVE  SameRows /\ SameBodies
  <2>1. UNCHANGED <<auction, bids>>
    BY <1>10 DEF PayExpired
  <2>2. CASE bids[i] = <<>>
    BY <1>5, <1>7, <1>10, <2>1, <2>2 DEF PayExpired
  <2>3. CASE bids[i] # <<>>
    <3>1. PICK L : Pay(body, i, bids[i], L, TRUE)
      BY <1>10, <2>3
    <3>2. users \in [Players -> UserType] /\ bids[i] \in Seq(Bids)
      BY Types DEF HouseInv
    <3>3. \A p \in Players : body'[p].at = body[p].at
      BY ONLY <1>2, <2>3, <3>1, <3>2, PayFacts
    <3> QED BY <1>3, <1>5, <2>1, <3>3 DEF SameBodies
  <2> QED BY <2>2, <2>3
<1>11. ASSUME NEW i \in Items, Ends(i) PROVE SameRows /\ SameBodies
  <2>1. /\ auction[i].state = "active" /\ auction' = [auction EXCEPT ![i].ended = TRUE]
        /\ bids' = bids /\ body' = body
    BY <1>11 DEF Ends
  <2>2. \A j \in Items : \/ auction'[j] = auction[j]
                         \/ auction[j].state # "none" /\ auction'[j] = [auction[j] EXCEPT !.ended = TRUE]
    BY <1>2, <2>1
  <2> QED BY <1>6, <1>7, <2>1, <2>2
<1>12. ASSUME NEW p \in Players, WebLogin(p) \/ LeaveGame(p) \/ LoseLink(p)
       PROVE  SameRows /\ SameBodies
  <2>1. UNCHANGED <<auction, bids>>
    BY <1>12 DEF WebLogin, LeaveGame, LoseLink, Unmoved
  <2>2. TypeOK
    BY DEF HouseInv
  <2>3. body' = body \/ Load(p, "in") \/ body' = [body EXCEPT ![p].at = "out"]
    BY <1>12 DEF WebLogin, LeaveGame, LoseLink
  <2>4. \A q \in Players : body'[q].at \in {body[q].at, "in", "out"}
    <3>1. "in" \in Places /\ "out" \in Places
      BY DEF Places
    <3> QED BY <2>2, <2>3, <3>1, SaveLoadFacts
  <2> QED BY <1>3, <1>5, <2>1, <2>4 DEF SameBodies
<1>13. ASSUME NEW p \in Players, Choose(p) PROVE SameRows /\ SameBodies
  <2>1. UNCHANGED <<auction, bids, body>>
    BY <1>13 DEF Choose, OpenHouse, Leave, Back, ManualBid, BuyoutOption, Browse, Select, EnterAmount, Ask, Show,
              Unmoved, tables
  <2> QED BY <1>5, <1>7, <2>1
<1>14. ASSUME NEW p \in Players, ConfirmBid(p) PROVE SameRows /\ SameBodies
  <2>1. menu[p] = "confirm"
    BY <1>14 DEF ConfirmBid, Confirm
  <2>2. CASE Over(p, Refreshed(p)) \/ Outbid(p, Refreshed(p))
    <3>1. UNCHANGED <<tables, body>>
      BY <1>14, <2>2 DEF ConfirmBid, Confirm
    <3> QED BY <1>5, <1>7, <3>1 DEF tables
  <2>3. CASE ~Over(p, Refreshed(p)) /\ ~Outbid(p, Refreshed(p))
    <3>1. Recorded(p, "menu", Refreshed(p)) /\ \A i \in Items : CalmRow(i)'
      BY <1>14, <2>1, <2>3, BidStaysCalm
    <3>2. \A q \in Players : body'[q].at = body[q].at
      BY <2>1, <3>1, RecordedTables
    <3> QED BY <1>3, <3>1, <3>2 DEF SameRows, SameBodies
  <2> QED BY <2>2, <2>3
<1>15. ASSUME NEW p \in Players, Retrieve(p), auction' = [auction EXCEPT ![sel[p]].retrieved = TRUE]
       PROVE  SameRows /\ SameBodies
  <2>1. bids' = bids /\ body' = body /\ menu[p] = "item"
    BY <1>15 DEF Retrieve
  <2>2. sel[p] \in Items /\ auction[sel[p]].state # "none"
    BY <2>1, SeenFacts
  <2>3. \A j \in Items : \/ auction'[j] = auction[j]
                         \/ auction[j].state # "none" /\ auction'[j] = [auction[j] EXCEPT !.retrieved = TRUE]
    BY <1>2, <1>15, <2>2
  <2> QED BY <1>6, <1>7, <2>1, <2>3
<1>16. ASSUME NEW p \in Players, NEW i \in Items, NEW a \in Prices, NEW b \in Prices,
              PlaceAuction(p, i, a, b)
       PROVE  SameRows /\ SameBodies
  <2>1. /\ bids' = bids /\ body' = body /\ auction[i].state = "none"
        /\ \A j \in Items \ {i} : auction'[j] = auction[j]
    BY <1>2, <1>16 DEF PlaceAuction
  <2>2. bids[i] = <<>>
    BY <2>1 DEF HouseInv, RowInv
  <2>3. CalmRow(i)'
    BY <2>1, <2>2 DEF CalmRow, Rising
  <2>4. \A j \in Items \ {i} : CalmRow(j)'
    BY <1>4, <2>1, RowStaysCalm
  <2> QED BY <1>7, <2>1, <2>3, <2>4 DEF SameRows
<1>17. SameRows /\ SameBodies
  BY <1>2, <1>8, <1>9, <1>10, <1>11, <1>12, <1>13, <1>14, <1>15, <1>16 DEF CalmStep
<1> QED BY <1>1, <1>17 DEF Calm, SameRows, SameBodies

Undisturbed == \A b \in Limits : \A e \in {"telnet", "death", "dberror"} : b[e] = 0

LEMMA CalmInit ==
  ASSUME Undisturbed, Init
  PROVE  Calm
<1>1. \A e \in {"telnet", "death", "dberror"} : budget[e] = 0
  BY DEF Undisturbed, Init
<1>2. \A p \in Players : body[p].at = "in"
  BY DEF Init
<1>3. \A i \in Items : bids[i] = <<>>
  BY DEF Init
<1>4. \A i \in Items : CalmRow(i)
  BY <1>3 DEF CalmRow, Rising
<1> QED BY <1>1, <1>2, <1>4 DEF Calm

-------------------------------------------------------------------------------
(* The house as an escrow.                                                 *)

Purse == [p \in Players |-> Money(p)]
Holding == [i \in Items |-> Held(i)]
\* What is held with the bids h and another of p.
With(h, p, a) == [q \in DOMAIN h \union {p} |-> IF q = p THEN a ELSE h[q]]
SaleOf(i) ==
  [state |-> CASE auction[i].state = "none" -> "unlisted" [] Open(i) -> "open" [] OTHER -> "closed",
   owner |-> auction[i].owner, start |-> auction[i].start, buyout |-> auction[i].buyout]
Sale == [i \in Items |-> SaleOf(i)]

LEMMA EscrowVars == UNCHANGED E!vars <=> UNCHANGED <<Purse, Holding, Sale>>
BY DEF E!vars, Purse, Holding, SaleOf, Sale

LEMMA EscrowInit ==
  E!Init <=> /\ Purse \in [Players -> Int]
             /\ Holding = [i \in Items |-> E!Nothing]
             /\ Sale = [i \in Items |-> [state |-> "unlisted", owner |-> None, start |-> 0, buyout |-> 0]]
BY DEF E!Init, Purse, Holding, SaleOf, Sale

LEMMA EscrowMax ==
  ASSUME NEW S
  PROVE  E!Max(S) = Max(S)
BY DEF E!Max, Max

LEMMA EscrowHighest ==
  ASSUME NEW h
  PROVE  E!Highest(h) = Max({h[p] : p \in DOMAIN h})
<1>1. E!Highest(h) = E!Max({h[p] : p \in DOMAIN h})
  BY DEF E!Highest
<1> QED BY <1>1, EscrowMax

LEMMA EscrowDue ==
  ASSUME NEW i, NEW h, NEW p
  PROVE  E!Due(i, h, p) = (IF p \in DOMAIN h /\ h[p] # E!Highest(h) THEN h[p] ELSE 0)
                          + (IF p = Sale[i].owner /\ DOMAIN h # {} THEN E!Highest(h) ELSE 0)
BY DEF E!Due, SaleOf, Sale

LEMMA EscrowClose ==
  ASSUME NEW i
  PROVE  E!Close(i) <=>
           /\ Sale[i].state = "open"
           /\ Purse' = [q \in Players |-> Purse[q] + E!Due(i, Holding[i], q)]
           /\ Holding' = [Holding EXCEPT ![i] = E!Nothing]
           /\ Sale' = [Sale EXCEPT ![i].state = "closed"]
BY DEF E!Close, Purse, Holding, SaleOf, Sale

LEMMA EscrowBid ==
  ASSUME NEW i, NEW p, NEW amount
  PROVE  E!Bid(p, i, amount) <=>
           /\ Sale[i].state = "open" /\ p # Sale[i].owner
           /\ \/ amount >= E!Price(i) + Increment
              \/ /\ amount = Sale[i].buyout /\ amount > 0
                 /\ \A q \in DOMAIN Holding[i] : amount > Holding[i][q]
           /\ IF Sale[i].buyout > 0 /\ amount >= Sale[i].buyout
                THEN /\ Purse' = [q \in Players |->
                                    [Purse EXCEPT ![p] = @ - (amount - E!Of(Holding[i], p))][q]
                                    + E!Due(i, With(Holding[i], p, amount), q)]
                     /\ Holding' = [Holding EXCEPT ![i] = E!Nothing]
                     /\ Sale' = [Sale EXCEPT ![i].state = "closed"]
                ELSE /\ Purse' = [Purse EXCEPT ![p] = @ - (amount - E!Of(Holding[i], p))]
                     /\ Holding' = [Holding EXCEPT ![i] = With(Holding[i], p, amount)]
                     /\ Sale' = Sale
BY DEF E!Bid, With, Purse, Holding, SaleOf, Sale

LEMMA EscrowList ==
  ASSUME NEW i, NEW p, NEW a, NEW b
  PROVE  E!List(p, i, a, b) <=>
           /\ Sale[i].state = "unlisted"
           /\ Sale' = [Sale EXCEPT ![i] = [state |-> "open", owner |-> p, start |-> a, buyout |-> b]]
           /\ Purse' = Purse /\ Holding' = Holding
BY DEF E!List, Purse, Holding, SaleOf, Sale

LEMMA EscrowNext ==
  E!Next <=>
    \E i \in Items :
      \/ /\ Sale[i].state = "unlisted" /\ Sale'[i].state = "open"
         /\ \E p \in Players, a \in Prices, b \in Prices : E!List(p, i, a, b)
      \/ /\ Sale[i].state = "open" /\ <<Holding'[i], Sale'[i]>> # <<Holding[i], Sale[i]>>
         /\ E!Close(i) \/ \E p \in Players, a \in Amounts \union Prices : E!Bid(p, i, a)
BY DEF E!Next, Holding, SaleOf, Sale

\* What the house holds for an auction: of each bidder the last bid, as long as
\* it is open.
LEMMA HeldIs ==
  ASSUME NEW i \in Items, NEW bs, bs = bids[i]
  PROVE  /\ Open(i) => Holding[i] = [q \in Bidders(bs) |-> GetLastBid(bs, q)]
         /\ Open(i) => \A p : E!Of(Holding[i], p) = GetLastBid(bs, p)
         /\ ~Open(i) => Held(i) = E!Nothing
         /\ bs = <<>> => Held(i) = E!Nothing
<1>1. Open(i) => Holding[i] = [q \in Bidders(bs) |-> GetLastBid(bs, q)]
  BY DEF Holding, Held
<1>2. ASSUME Open(i), NEW p PROVE E!Of(Holding[i], p) = GetLastBid(bs, p)
  <2>1. E!Of(Holding[i], p) = IF p \in Bidders(bs) THEN GetLastBid(bs, p) ELSE 0
    BY <1>1, <1>2 DEF E!Of
  <2> QED BY <2>1 DEF GetLastBid
<1>3. ~Open(i) => Held(i) = E!Nothing
  BY DEF Held, E!Nothing
<1>4. bs = <<>> => Held(i) = E!Nothing
  <2>1. bs = <<>> => Bidders(bs) = {}
    BY DEF Bidders
  <2> QED BY <2>1 DEF Held, E!Nothing
<1> QED BY <1>1, <1>2, <1>3, <1>4

LEMMA LastBidsMax ==
  ASSUME NEW bs \in Seq(Bids), bs # <<>>
  PROVE  Max({GetLastBid(bs, q) : q \in Bidders(bs)}) = Top(bs)
<1>1. PICK S : S = {GetLastBid(bs, q) : q \in Bidders(bs)}
  OBVIOUS
<1>2. \A q \in Bidders(bs) : GetLastBid(bs, q) \in Int /\ GetLastBid(bs, q) <= Top(bs)
  BY LastBidFacts
<1>3. Top(bs) \in Int /\ \E k \in DOMAIN bs : bs[k].amount = Top(bs)
  BY BidFacts
<1>4. Top(bs) \in S
  <2>1. PICK k \in DOMAIN bs : Top(bs) = bs[k].amount
    BY <1>3
  <2>2. PICK q \in Bidders(bs) : q = bs[k].bidder
    BY DEF Bidders
  <2>3. bs[k].amount <= GetLastBid(bs, q)
    BY <2>2, LastBidFacts
  <2>4. GetLastBid(bs, q) = Top(bs)
    BY ONLY q \in Bidders(bs), <1>2, <1>3, <2>1, <2>3
  <2> QED BY ONLY q \in Bidders(bs), <1>1, <2>4
<1>5. S \subseteq Int /\ \A x \in S : x <= Top(bs)
  BY ONLY <1>1, <1>2
<1>6. Max(S) = Top(bs)
  BY ONLY <1>4, <1>5, MaxIs
<1> QED BY <1>1, <1>6

\* The highest of what is held is the highest bid.
LEMMA HighestIs ==
  ASSUME NEW bs \in Seq(Bids), bs # <<>>, NEW h, h = [q \in Bidders(bs) |-> GetLastBid(bs, q)]
  PROVE  E!Highest(h) = Top(bs)
<1>1. DOMAIN h = Bidders(bs) /\ {h[q] : q \in DOMAIN h} = {GetLastBid(bs, q) : q \in Bidders(bs)}
  OBVIOUS
<1> QED BY <1>1, EscrowHighest, LastBidsMax

\* What the escrow owes for the bids bs is what ReimburseLosers and RewardOwner pay.
LEMMA DueIs ==
  ASSUME NEW i \in Items, NEW bs \in Seq(Bids), Rising(bs), NEW w \in TopBidders(bs),
         NEW h, h = [q \in Bidders(bs) |-> GetLastBid(bs, q)], NEW p \in Players
  PROVE  E!Due(i, h, p) = Owed(p, i, bs, Losers(bs, w), TRUE)
<1>1. bs # <<>> /\ Bidders(bs) # {}
  <2>1. w \in Bidders(bs)
    BY DEF TopBidders
  <2> QED BY <2>1, BidFacts
<1>2. E!Highest(h) = Top(bs)
  BY <1>1, HighestIs
<1>3. Sale[i].owner = auction[i].owner
  BY DEF Sale, SaleOf
<1>4. p \in Losers(bs, w) <=> p \in Bidders(bs) /\ GetLastBid(bs, p) # Top(bs)
  BY RisingFacts
<1>5. DOMAIN h = Bidders(bs) /\ (p \in Bidders(bs) => h[p] = GetLastBid(bs, p))
  OBVIOUS
<1>6. E!Due(i, h, p) = (IF p \in Bidders(bs) /\ h[p] # Top(bs) THEN h[p] ELSE 0)
                       + (IF p = auction[i].owner THEN Top(bs) ELSE 0)
  BY <1>1, <1>2, <1>3, <1>5, EscrowDue
<1>7. (IF p \in Bidders(bs) /\ h[p] # Top(bs) THEN h[p] ELSE 0)
      = (IF p \in Losers(bs, w) THEN GetLastBid(bs, p) ELSE 0)
  BY ONLY <1>4, <1>5
<1> QED BY ONLY <1>6, <1>7 DEF Owed

LEMMA NothingDue ==
  ASSUME NEW i \in Items, NEW p \in Players
  PROVE  E!Due(i, E!Nothing, p) = 0
<1>1. DOMAIN E!Nothing = {}
  BY DEF E!Nothing
<1> QED BY <1>1, EscrowDue

\* A step of the code that the escrow does not see.
LEMMA Stutters ==
  ASSUME bids' = bids, \A p \in Players : Money(p)' = Money(p),
         \A i \in Items :
           /\ Open(i)' <=> Open(i)
           /\ auction'[i].state = "none" <=> auction[i].state = "none"
           /\ auction'[i].owner = auction[i].owner
           /\ auction'[i].start = auction[i].start /\ auction'[i].buyout = auction[i].buyout
  PROVE  UNCHANGED E!vars
<1>1. Purse' = Purse
  BY DEF Purse
<1>2. \A i \in Items : Held(i)' = Held(i)
  BY DEF Held
<1>3. Holding' = Holding
  BY <1>2 DEF Holding
<1>4. \A i \in Items : SaleOf(i)' = SaleOf(i)
  BY DEF SaleOf
<1>5. Sale' = Sale
  BY <1>4 DEF Sale
<1> QED BY <1>1, <1>3, <1>5, EscrowVars

LEMMA TablesStutter ==
  ASSUME UNCHANGED <<auction, bids, update>>, \A p \in Players : Money(p)' = Money(p)
  PROVE  UNCHANGED E!vars
BY Stutters DEF Open, update

LEMMA SelectStutters ==
  ASSUME HouseInv, SelectExpired
  PROVE  UNCHANGED E!vars
<1>1. UNCHANGED <<users, auction, bids, body>> /\ chosen = {} /\ chosen' = todo'
  BY DEF SelectExpired, tables, Idle
<1>2. \A p \in Players : Money(p)' = Money(p)
  BY <1>1 DEF Money
<1>3. \A i \in Items : Open(i)' <=> Open(i)
  BY <1>1 DEF Open
<1> QED BY <1>1, <1>2, <1>3, Stutters

LEMMA DeactivateStutters ==
  ASSUME HouseInv, Deactivate,
         auction' = [i \in Items |-> IF i \in chosen
                       THEN [auction[i] EXCEPT !.state = "inactive"] ELSE auction[i]]
  PROVE  UNCHANGED E!vars
<1>1. UNCHANGED <<users, bids, body>> /\ chosen' = {} /\ todo = {}
  BY DEF Deactivate
<1>2. \A p \in Players : Money(p)' = Money(p)
  BY <1>1 DEF Money
<1>3. ASSUME NEW i \in Items
      PROVE  /\ Open(i)' <=> Open(i)
             /\ auction'[i].state = "none" <=> auction[i].state = "none"
             /\ auction'[i].owner = auction[i].owner
             /\ auction'[i].start = auction[i].start /\ auction'[i].buyout = auction[i].buyout
  <2>1. auction[i] \in RowType
    BY ScreenTypes
  <2>2. CASE i \in chosen
    <3>1. auction'[i] = [auction[i] EXCEPT !.state = "inactive"] /\ auction[i].state = "active"
      BY <2>2 DEF HouseInv, UpdateInv
    <3>2. auction'[i].state = "inactive"
      BY <2>1, <3>1 DEF RowType
    <3> QED BY <1>1, <2>1, <2>2, <3>1, <3>2 DEF Open, RowType
  <2>3. CASE i \notin chosen
    BY <1>1, <2>3 DEF Open
  <2> QED BY <2>2, <2>3
<1> QED BY ONLY <1>1, <1>2, <1>3, Stutters

LEMMA RowStutters ==
  ASSUME HouseInv, UNCHANGED <<users, body, bids, update>>,
         NEW r \in Items, auction[r].state # "none",
         \/ auction' = [auction EXCEPT ![r].ended = TRUE]
         \/ auction' = [auction EXCEPT ![r].retrieved = TRUE]
  PROVE  UNCHANGED E!vars
<1>1. \A p \in Players : Money(p)' = Money(p)
  BY DEF Money
<1>2. ASSUME NEW i \in Items
      PROVE  /\ auction'[i].state = auction[i].state /\ auction'[i].owner = auction[i].owner
             /\ auction'[i].start = auction[i].start /\ auction'[i].buyout = auction[i].buyout
  <2>1. auction \in [Items -> RowType]
    BY ScreenTypes
  <2>2. \/ auction'[i] = auction[i] \/ auction'[i] = [auction[i] EXCEPT !.ended = TRUE]
        \/ auction'[i] = [auction[i] EXCEPT !.retrieved = TRUE]
    BY <2>1
  <2> QED BY <2>1, <2>2 DEF RowType
<1>3. \A i \in Items : Open(i)' <=> Open(i)
  BY <1>2 DEF Open, update
<1> QED BY <1>1, <1>2, <1>3, Stutters

\* Coming and going takes the money along.
LEMMA ComeAndGoStutter ==
  ASSUME HouseInv, NEW p \in Players, WebLogin(p) \/ LeaveGame(p)
  PROVE  UNCHANGED E!vars
<1>1. UNCHANGED <<auction, bids, update>> /\ TypeOK
  BY DEF WebLogin, LeaveGame, Unmoved, HouseInv
<1>2. \A q \in Players : Money(q)' = Money(q)
  <2>1. CASE WebLogin(p)
    <3>1. body[p].at = "out" /\ Load(p, "in") /\ users' = users /\ "in" \in Places
      BY <2>1 DEF WebLogin, Places
    <3>2. /\ body'[p].at = "in" /\ body'[p].gold = users[p].gold /\ body'[p].bank = users[p].bank
          /\ \A q \in Players \ {p} : body'[q] = body[q]
      BY <1>1, <3>1, SaveLoadFacts
    <3> QED BY <3>1, <3>2 DEF Money
  <2>2. CASE LeaveGame(p)
    <3>1. /\ body[p].at = "in" /\ Save(p) /\ body' = [body EXCEPT ![p].at = "out"]
          /\ "out" \in Places
      BY <2>2 DEF LeaveGame, Places
    <3>2. /\ body'[p].at = "out" /\ \A q \in Players \ {p} : body'[q] = body[q]
          /\ users'[p].gold = body[p].gold /\ users'[p].bank = body[p].bank
          /\ \A q \in Players \ {p} : users'[q] = users[q]
      BY <1>1, <3>1, SaveLoadFacts
    <3> QED BY <3>1, <3>2 DEF Money
  <2> QED BY <2>1, <2>2
<1> QED BY <1>1, <1>2, TablesStutter

\* An auction that is paid is closed.
LEMMA CloseIs ==
  ASSUME NEW i \in Items, Open(i), auction[i].state # "none", ~Open(i)', auction'[i].state # "none",
         \A q \in Players : Money(q)' = Money(q) + E!Due(i, Holding[i], q),
         \A j \in Items \ {i} : /\ Open(j)' <=> Open(j)
                                /\ auction'[j] = auction[j] /\ bids'[j] = bids[j],
         auction'[i].owner = auction[i].owner,
         auction'[i].start = auction[i].start, auction'[i].buyout = auction[i].buyout
  PROVE  E!Next
<1>1. Sale[i].state = "open" /\ Sale'[i].state = "closed"
  BY DEF Sale, SaleOf
<1>2. Purse' = [q \in Players |-> Purse[q] + E!Due(i, Holding[i], q)]
  BY DEF Purse
<1>3. Holding' = [Holding EXCEPT ![i] = E!Nothing]
  <2>1. Held(i)' = E!Nothing
    BY DEF Held, E!Nothing
  <2>2. \A j \in Items \ {i} : Held(j)' = Held(j)
    BY DEF Held
  <2> QED BY <2>1, <2>2 DEF Holding
<1>4. Sale' = [Sale EXCEPT ![i].state = "closed"]
  <2>1. SaleOf(i)' = [SaleOf(i) EXCEPT !.state = "closed"]
    BY DEF SaleOf
  <2>2. \A j \in Items \ {i} : SaleOf(j)' = SaleOf(j)
    BY DEF SaleOf
  <2> QED BY <2>1, <2>2 DEF Sale
<1>5. E!Close(i)
  BY <1>1, <1>2, <1>3, <1>4, EscrowClose
<1> QED BY <1>1, <1>5, EscrowNext

LEMMA PayCloses ==
  ASSUME HouseInv, Calm, NEW i \in Items, PayExpired(i),
         bids[i] # <<>> => \E w \in TopBidders(bids[i]) : Pay(body, i, bids[i], Losers(bids[i], w), TRUE)
  PROVE  E!Next
<1>1. /\ i \in todo /\ todo' = todo \ {i} /\ UNCHANGED <<auction, bids, chosen>>
  BY DEF PayExpired
<1>2. i \in chosen /\ auction[i].state = "active"
  BY <1>1 DEF HouseInv, UpdateInv
<1>3. /\ Open(i) /\ ~Open(i)' /\ auction[i].state # "none"
      /\ \A j \in Items \ {i} : Open(j)' <=> Open(j)
  BY <1>1, <1>2 DEF Open
<1>4. bids[i] \in Seq(Bids) /\ body \in [Players -> BodyType] /\ users \in [Players -> UserType]
      /\ Rising(bids[i])
  BY Types DEF HouseInv, Calm, CalmRow
<1>5. Holding[i] = [q \in Bidders(bids[i]) |-> GetLastBid(bids[i], q)]
  BY <1>3, HeldIs
<1>6. \A q \in Players : Money(q) \in Int
  BY <1>4 DEF Money, BodyType, UserType
<1>7. ASSUME NEW q \in Players PROVE Money(q)' = Money(q) + E!Due(i, Holding[i], q)
  <2>1. CASE bids[i] = <<>>
    <3>1. users' = users /\ body' = body
      BY <2>1 DEF PayExpired
    <3>2. Holding[i] = E!Nothing
      <4>1. Held(i) = E!Nothing
        BY <2>1, HeldIs
      <4> QED BY <4>1 DEF Holding
    <3>3. E!Due(i, Holding[i], q) = 0
      BY <3>2, NothingDue
    <3>4. Money(q)' = Money(q)
      BY <3>1 DEF Money
    <3> QED BY ONLY q \in Players, <1>6, <3>3, <3>4
  <2>2. CASE bids[i] # <<>>
    <3>1. PICK w \in TopBidders(bids[i]) : Pay(body, i, bids[i], Losers(bids[i], w), TRUE)
      BY <2>2
    <3>2. E!Due(i, Holding[i], q) = Owed(q, i, bids[i], Losers(bids[i], w), TRUE)
      BY <1>4, <1>5, DueIs
    <3>3. PICK L : L = Losers(bids[i], w)
      OBVIOUS
    <3>4. Pay(body, i, bids[i], L, TRUE) /\ TRUE \in BOOLEAN
      BY <3>1, <3>3
    <3>5. Money(q)' = Money(q) + Owed(q, i, bids[i], L, TRUE)
      BY ONLY q \in Players, <1>4, <2>2, <3>4, PayMoney
    <3> QED BY <3>2, <3>3, <3>5
  <2> QED BY <2>1, <2>2
<1> QED BY ONLY i \in Items, <1>1, <1>3, <1>7, CloseIs

LEMMA PlaceLists ==
  ASSUME HouseInv, NEW p \in Players, NEW i \in Items, NEW a \in Prices, NEW b \in Prices,
         PlaceAuction(p, i, a, b)
  PROVE  E!Next
<1>1. /\ Idle /\ auction[i].state = "none" /\ UNCHANGED <<users, bids, body, update>>
      /\ auction' = [auction EXCEPT ![i] = [state |-> "active", ended |-> FALSE,
                       retrieved |-> FALSE, owner |-> p, start |-> a, buyout |-> b]]
  BY DEF PlaceAuction
<1>2. auction \in [Items -> RowType] /\ bids[i] = <<>>
  BY <1>1, ScreenTypes DEF HouseInv, RowInv
<1>3. auction'[i] = [state |-> "active", ended |-> FALSE, retrieved |-> FALSE, owner |-> p,
                     start |-> a, buyout |-> b]
      /\ \A j \in Items \ {i} : auction'[j] = auction[j]
  BY <1>1, <1>2
<1>4. ~Open(i) /\ Open(i)' /\ \A j \in Items \ {i} : Open(j)' <=> Open(j)
  BY <1>1, <1>3 DEF Open, Idle, update
<1>5. SaleOf(i).state = "unlisted"
      /\ SaleOf(i)' = [state |-> "open", owner |-> p, start |-> a, buyout |-> b]
      /\ \A j \in Items \ {i} : SaleOf(j)' = SaleOf(j)
  BY <1>1, <1>3, <1>4 DEF SaleOf
<1>6. /\ Sale[i].state = "unlisted" /\ Sale'[i].state = "open"
      /\ Sale' = [Sale EXCEPT ![i] = [state |-> "open", owner |-> p, start |-> a, buyout |-> b]]
  <2>1. PICK r : r = [state |-> "open", owner |-> p, start |-> a, buyout |-> b]
    OBVIOUS
  <2>2. SaleOf(i)' = r /\ r.state = "open"
    BY <1>5, <2>1
  <2>3. Sale' = [j \in Items |-> IF j = i THEN r ELSE SaleOf(j)]
    BY <1>5, <2>2 DEF Sale
  <2>4. Sale' = [Sale EXCEPT ![i] = r]
    BY <2>3 DEF Sale
  <2>5. Sale[i].state = "unlisted" /\ Sale'[i].state = "open"
    BY <1>5, <2>2, <2>3 DEF Sale
  <2> QED BY <2>1, <2>4, <2>5
<1>7. Purse' = Purse
  BY <1>1 DEF Purse, Money
<1>8. Holding' = Holding
  <2>1. Held(i) = E!Nothing /\ Held(i)' = E!Nothing
    <3>1. Bidders(bids[i]) = {} /\ bids' = bids
      BY <1>1, <1>2 DEF Bidders
    <3> QED BY <3>1 DEF Held, E!Nothing
  <2>2. \A j \in Items : Held(j)' = Held(j)
    <3>1. \A j \in Items \ {i} : Held(j)' = Held(j)
      BY <1>1, <1>4 DEF Held
    <3> QED BY <2>1, <3>1
  <2> QED BY <2>2 DEF Holding
<1>9. E!List(p, i, a, b)
  BY <1>6, <1>7, <1>8, EscrowList
<1> QED BY <1>6, <1>9, EscrowNext

\* A bid of p in the escrow: what it does to the purses, ...
LEMMA BidIs ==
  ASSUME NEW i \in Items, NEW p \in Players, NEW a \in Amounts \union Prices,
         auction[i].state = "active", Open(i), p # auction[i].owner, auction'[i].state # "none",
         With(Holding[i], p, a) # Holding[i],
         \/ a >= E!Price(i) + Increment
         \/ a = auction[i].buyout /\ a > 0 /\ \A q \in DOMAIN Holding[i] : a > Holding[i][q],
         \A j \in Items \ {i} : /\ Open(j)' <=> Open(j)
                                /\ auction'[j] = auction[j] /\ bids'[j] = bids[j],
         auction'[i].owner = auction[i].owner,
         auction'[i].start = auction[i].start, auction'[i].buyout = auction[i].buyout,
         IF auction[i].buyout > 0 /\ a >= auction[i].buyout
           THEN /\ ~Open(i)'
                /\ \A q \in Players :
                     Money(q)' = (IF q = p THEN Money(p) - (a - GetLastBid(bids[i], p)) ELSE Money(q))
                                 + E!Due(i, With(Holding[i], p, a), q)
           ELSE /\ Open(i)' /\ Held(i)' = With(Holding[i], p, a)
                /\ \A q \in Players :
                     Money(q)' = IF q = p THEN Money(p) - (a - GetLastBid(bids[i], p)) ELSE Money(q)
  PROVE  E!Next
<1>1. /\ Sale[i].state = "open" /\ Sale[i].owner = auction[i].owner
      /\ Sale[i].buyout = auction[i].buyout
  BY DEF Sale, SaleOf
<1>2. E!Of(Holding[i], p) = GetLastBid(bids[i], p)
  <2>1. PICK bs : bs = bids[i]
    OBVIOUS
  <2>2. \A q : E!Of(Holding[i], q) = GetLastBid(bs, q)
    BY ONLY i \in Items, Open(i), <2>1, HeldIs
  <2> QED BY <2>1, <2>2
<1>3. \A j \in Items \ {i} : SaleOf(j)' = SaleOf(j) /\ Held(j)' = Held(j)
  BY DEF SaleOf, Held
<1>4. PICK paid : paid = [Purse EXCEPT ![p] = @ - (a - E!Of(Holding[i], p))]
  OBVIOUS
<1>5. \A q \in Players : paid[q] = IF q = p THEN Money(p) - (a - GetLastBid(bids[i], p)) ELSE Money(q)
  BY <1>2, <1>4 DEF Purse
<1>6. CASE auction[i].buyout > 0 /\ a >= auction[i].buyout
  <2>1. PICK h : h = With(Holding[i], p, a)
    OBVIOUS
  <2>2. ~Open(i)' /\ \A q \in Players : Money(q)' = paid[q] + E!Due(i, h, q)
    BY <1>5, <1>6, <2>1
  <2>3. Purse' = [q \in Players |-> paid[q] + E!Due(i, h, q)]
    BY <2>2 DEF Purse
  <2>4. Holding' = [Holding EXCEPT ![i] = E!Nothing]
    <3>1. Held(i)' = E!Nothing
      BY <2>2 DEF Held, E!Nothing
    <3> QED BY <1>3, <3>1 DEF Holding
  <2>5. Sale' = [Sale EXCEPT ![i].state = "closed"] /\ Sale'[i].state = "closed"
    <3>1. SaleOf(i)' = [SaleOf(i) EXCEPT !.state = "closed"] /\ SaleOf(i)'.state = "closed"
      BY <2>2 DEF SaleOf
    <3> QED BY <1>3, <3>1 DEF Sale
  <2>6. Purse' = [q \in Players |-> [Purse EXCEPT ![p] = @ - (a - E!Of(Holding[i], p))][q]
                                    + E!Due(i, With(Holding[i], p, a), q)]
    BY <1>4, <2>1, <2>3
  <2>7. E!Bid(p, i, a)
    BY <1>1, <1>6, <2>4, <2>5, <2>6, EscrowBid
  <2> QED BY <1>1, <2>5, <2>7, EscrowNext
<1>7. CASE ~(auction[i].buyout > 0 /\ a >= auction[i].buyout)
  <2>1. /\ Open(i)' /\ \A q \in Players : Money(q)' = paid[q]
        /\ Held(i)' = With(Holding[i], p, a)
    BY <1>5, <1>7
  <2>2. Purse' = paid
    <3>1. paid = [q \in Players |-> paid[q]]
      BY <1>4 DEF Purse
    <3> QED BY <2>1, <3>1 DEF Purse
  <2>3. Holding' = [Holding EXCEPT ![i] = With(Holding[i], p, a)] /\ Holding'[i] # Holding[i]
    <3>1. PICK h : h = With(Holding[i], p, a)
      OBVIOUS
    <3>2. Holding' = [j \in Items |-> IF j = i THEN h ELSE Holding[j]]
      BY <1>3, <2>1, <3>1 DEF Holding
    <3>3. Holding = [j \in Items |-> Holding[j]] /\ h # Holding[i]
      BY <3>1 DEF Holding
    <3>4. Holding' = [Holding EXCEPT ![i] = h] /\ Holding'[i] # Holding[i]
      BY ONLY i \in Items, <3>2, <3>3
    <3> QED BY <3>1, <3>4
  <2>4. Sale' = Sale
    <3>1. SaleOf(i)' = SaleOf(i)
      BY <2>1 DEF SaleOf
    <3> QED BY <1>3, <3>1 DEF Sale
  <2>5. E!Bid(p, i, a)
    BY <1>1, <1>4, <1>7, <2>2, <2>3, <2>4, EscrowBid
  <2>6. <<Holding'[i], Sale'[i]>> # <<Holding[i], Sale[i]>>
    BY <2>3
  <2> QED BY <1>1, <2>5, <2>6, EscrowNext
<1> QED BY <1>6, <1>7

LEMMA EscrowPrice ==
  ASSUME NEW i
  PROVE  E!Price(i) = IF DOMAIN Holding[i] = {} THEN Sale[i].start ELSE E!Highest(Holding[i])
BY DEF E!Price, Holding, Sale, SaleOf

\* Before the owner and the others are paid, p has paid what the bid adds.
LEMMA ChargedMoney ==
  ASSUME HouseInv, NEW p \in Players, menu[p] = "confirm", NEW v \in ViewType, NEW b, b = Charged(p, v),
         GetLastBid(v.bids, p) = GetLastBid(bids[sel[p]], p), NEW q \in Players
  PROVE  (IF b[q].at = "in" THEN b[q].gold + b[q].bank ELSE users[q].gold + users[q].bank)
         = IF q = p THEN Money(p) - (req[p] - GetLastBid(bids[sel[p]], p)) ELSE Money(q)
<1>1. /\ b[q].at = body[q].at /\ b[q].bank = body[q].bank
      /\ b[q].gold = IF q = p THEN body[p].gold - (req[p] - GetLastBid(v.bids, p)) ELSE body[q].gold
  BY ChargedFacts
<1>2. body[p].at = "in" /\ req[p] \in Int /\ bids[sel[p]] \in Seq(Bids)
  BY SeenFacts
<1>3. GetLastBid(bids[sel[p]], p) \in Int
  BY <1>2, LastBidFacts
<1>4. body[p].gold \in Int /\ body[p].bank \in Int
  <2>1. body[p] \in BodyType
    BY ScreenTypes
  <2> QED BY <2>1 DEF BodyType
<1>5. CASE q = p
  <2>1. Money(p) = body[p].gold + body[p].bank
    BY <1>2 DEF Money
  <2> QED BY ONLY GetLastBid(v.bids, p) = GetLastBid(bids[sel[p]], p), <1>1, <1>2, <1>3, <1>4, <1>5, <2>1
<1>6. CASE q # p
  BY <1>1, <1>6 DEF Money
<1> QED BY <1>5, <1>6

LEMMA BidBids ==
  ASSUME HouseInv, Calm, NEW p \in Players, menu[p] = "confirm", Idle, ConfirmBid(p),
         ~Over(p, Refreshed(p)), ~Outbid(p, Refreshed(p))
  PROVE  E!Next
<1>1. PICK i, a, v, c, bs :
        i = sel[p] /\ a = req[p] /\ v = Refreshed(p) /\ c = WithBid(p) /\ bs = bids[sel[p]]
  OBVIOUS
<1>2. /\ v.bids = bs /\ auction[i].state = "active" /\ (bs # <<>> => a > Top(bs))
      /\ \/ a >= (IF bs = <<>> THEN auction[i].start ELSE Top(bs)) + Increment
         \/ auction[i].buyout > 0 /\ a = auction[i].buyout
  BY <1>1, BidTaken
<1>3. /\ Rising(c) /\ Recorded(p, "menu", v) /\ PlaceBid(p, v)
  BY <1>1, BidStaysCalm
<1>4. /\ i \in Items /\ auction[i].owner # p /\ a \in Int /\ a \in Amounts \union Prices
      /\ v \in ViewType /\ bs \in Seq(Bids) /\ auction[i] \in RowType
  BY <1>1, RecordedFacts
<1>5. /\ bids'[i] = c
      /\ \A j \in Items \ {i} : auction'[j] = auction[j] /\ bids'[j] = bids[j]
      /\ auction'[i] \in {auction[i], [auction[i] EXCEPT !.state = "inactive"]}
  BY <1>1, <1>3, RecordedTables
<1>6. chosen = {} /\ chosen' = {}
  BY <1>3 DEF Idle, Recorded, GoTo, update
<1>7. Open(i) /\ \A j \in Items \ {i} : Open(j)' <=> Open(j)
  BY <1>2, <1>5, <1>6 DEF Open
<1>8. /\ bs # <<>> => Top(bs) \in Int
      /\ bs = <<>> <=> Bidders(bs) = {}
  BY <1>4, BidFacts
<1>9. /\ GetLastBid(bs, p) \in Int
      /\ \A q \in Bidders(bs) : GetLastBid(bs, q) \in Int /\ GetLastBid(bs, q) <= Top(bs)
  BY <1>4, LastBidFacts
<1>10. /\ c \in Seq(Bids) /\ c # <<>> /\ Bidders(c) = Bidders(bs) \union {p} /\ Top(c) = a
       /\ GetLastBid(c, p) = a /\ \A q \in Players \ {p} : GetLastBid(c, q) = GetLastBid(bs, q)
  <2>1. (bs # <<>> => a >= Top(bs)) /\ (p \in Bidders(bs) => a >= GetLastBid(bs, p))
    BY ONLY <1>2, <1>4, <1>8, <1>9
  <2>2. c = Append(bs, [bidder |-> p, amount |-> a])
    BY <1>1 DEF WithBid
  <2> QED BY <1>4, <2>1, <2>2, AppendedFacts
<1>11. Holding[i] = [q \in Bidders(bs) |-> GetLastBid(bs, q)]
  BY <1>1, <1>4, <1>7, HeldIs
<1>12. With(Holding[i], p, a) # Holding[i]
  <2>1. With(Holding[i], p, a)[p] = a /\ p \in DOMAIN With(Holding[i], p, a)
    BY DEF With
  <2>2. CASE p \in Bidders(bs)
    <3>1. Holding[i][p] = GetLastBid(bs, p) /\ a > GetLastBid(bs, p)
      BY <1>2, <1>4, <1>8, <1>9, <1>11, <2>2
    <3> QED BY ONLY <1>4, <1>9, <2>1, <3>1
  <2>3. CASE p \notin Bidders(bs)
    BY <1>11, <2>1, <2>3
  <2> QED BY <2>2, <2>3
<1>13. With(Holding[i], p, a) = [q \in Bidders(c) |-> GetLastBid(c, q)]
  <2>1. Bidders(c) \subseteq Players
    <3>1. \A k \in DOMAIN c : c[k].bidder \in Players
      BY <1>10, BidFacts
    <3> QED BY <3>1 DEF Bidders
  <2>2. DOMAIN Holding[i] = Bidders(bs) /\ \A q \in Bidders(bs) : Holding[i][q] = GetLastBid(bs, q)
    BY <1>11
  <2>3. \A q \in Bidders(c) : (IF q = p THEN a ELSE Holding[i][q]) = GetLastBid(c, q)
    BY ONLY <1>10, <2>1, <2>2
  <2> QED BY ONLY <1>10, <2>2, <2>3 DEF With
<1>14. \/ a >= E!Price(i) + Increment
       \/ a = auction[i].buyout /\ a > 0 /\ \A q \in DOMAIN Holding[i] : a > Holding[i][q]
  <2>1. Sale[i].start = auction[i].start
    BY <1>4 DEF Sale, SaleOf
  <2>2. DOMAIN Holding[i] = Bidders(bs) /\ \A q \in Bidders(bs) : Holding[i][q] = GetLastBid(bs, q)
    BY <1>11
  <2>3. E!Price(i) = IF bs = <<>> THEN auction[i].start ELSE Top(bs)
    <3>1. bs # <<>> => E!Highest(Holding[i]) = Top(bs)
      BY <1>4, <1>11, HighestIs
    <3> QED BY <1>8, <2>1, <2>2, <3>1, EscrowPrice
  <2>4. \A q \in DOMAIN Holding[i] : a > Holding[i][q]
    BY ONLY <1>2, <1>4, <1>8, <1>9, <2>2
  <2> QED BY ONLY <1>2, <2>3, <2>4
<1>15. /\ auction'[i].owner = auction[i].owner /\ auction'[i].start = auction[i].start
       /\ auction'[i].buyout = auction[i].buyout /\ auction'[i].state # "none"
  BY <1>2, <1>4, <1>5 DEF RowType
<1>16. PICK b : b = Charged(p, v)
  OBVIOUS
<1>17. ASSUME NEW q \in Players
       PROVE  (IF b[q].at = "in" THEN b[q].gold + b[q].bank ELSE users[q].gold + users[q].bank)
              = IF q = p THEN Money(p) - (a - GetLastBid(bs, p)) ELSE Money(q)
  BY <1>1, <1>2, <1>4, <1>16, ChargedMoney
<1>18. b \in [Players -> BodyType] /\ users \in [Players -> UserType]
  BY <1>4, <1>16, ChargedFacts, Types DEF HouseInv
<1>19. IsBuyout(p) <=> auction[i].buyout > 0 /\ a >= auction[i].buyout
  BY <1>1 DEF IsBuyout
<1>20. CASE IsBuyout(p)
  <2>1. SellNow(p) /\ Pay(b, i, c, Losers(c, p), TRUE)
    BY <1>1, <1>3, <1>16, <1>20 DEF PlaceBid
  <2>2. ~Open(i)'
    <3>1. auction \in [Items -> RowType]
      BY ScreenTypes
    <3>2. auction'[i] = [auction[i] EXCEPT !.state = "inactive"]
      BY <1>1, <1>4, <2>1, <3>1 DEF SellNow
    <3>3. auction'[i].state = "inactive"
      BY <1>4, <3>2 DEF RowType
    <3> QED BY <3>3 DEF Open
  <2>3. PICK L, r : L = Losers(c, p) /\ r = TRUE
    OBVIOUS
  <2>4. ASSUME NEW q \in Players
        PROVE  Money(q)' = (IF b[q].at = "in" THEN b[q].gold + b[q].bank
                            ELSE users[q].gold + users[q].bank) + Owed(q, i, c, L, r)
    <3>1. Pay(b, i, c, L, r) /\ r \in BOOLEAN
      BY <2>1, <2>3, Zenon
    <3>2. c \in Seq(Bids) /\ c # <<>>
      BY <1>10
    <3> QED BY ONLY q \in Players, <1>18, <3>1, <3>2, PayMoneyOf
  <2>5. PICK h : h = With(Holding[i], p, a)
    OBVIOUS
  <2>6. h = [q \in Bidders(c) |-> GetLastBid(c, q)]
    BY <1>13, <2>5
  <2>7. p \in TopBidders(c)
    BY ONLY <1>10 DEF TopBidders
  <2>8. ASSUME NEW q \in Players PROVE E!Due(i, h, q) = Owed(q, i, c, L, r)
    <3>1. i \in Items /\ c \in Seq(Bids) /\ Rising(c)
      BY <1>3, <1>4, <1>10
    <3>2. E!Due(i, h, q) = Owed(q, i, c, Losers(c, p), TRUE)
      BY ONLY q \in Players, <3>1, <2>6, <2>7, DueIs, Zenon
    <3> QED BY ONLY <2>3, <3>2, Zenon
  <2>9. ASSUME NEW q \in Players
        PROVE  Money(q)' = (IF q = p THEN Money(p) - (a - GetLastBid(bs, p)) ELSE Money(q))
                           + E!Due(i, With(Holding[i], p, a), q)
    <3>1. /\ Money(q)' = (IF b[q].at = "in" THEN b[q].gold + b[q].bank
                          ELSE users[q].gold + users[q].bank) + Owed(q, i, c, L, r)
          /\ E!Due(i, With(Holding[i], p, a), q) = Owed(q, i, c, L, r)
      BY <2>4, <2>5, <2>8
    <3>2. (IF b[q].at = "in" THEN b[q].gold + b[q].bank ELSE users[q].gold + users[q].bank)
          = IF q = p THEN Money(p) - (a - GetLastBid(bs, p)) ELSE Money(q)
      BY <1>17
    <3> QED BY ONLY <3>1, <3>2
  <2>10. auction[i].buyout > 0 /\ a >= auction[i].buyout
    BY <1>19, <1>20
  <2>11. IF auction[i].buyout > 0 /\ a >= auction[i].buyout
           THEN /\ ~Open(i)'
                /\ \A q \in Players :
                     Money(q)' = (IF q = p THEN Money(p) - (a - GetLastBid(bs, p)) ELSE Money(q))
                                 + E!Due(i, With(Holding[i], p, a), q)
           ELSE /\ Open(i)' /\ Held(i)' = With(Holding[i], p, a)
                /\ \A q \in Players :
                     Money(q)' = IF q = p THEN Money(p) - (a - GetLastBid(bs, p)) ELSE Money(q)
    BY ONLY <2>2, <2>9, <2>10
  <2> QED BY ONLY p \in Players, <1>1, <1>2, <1>4, <1>5, <1>7, <1>12, <1>14, <1>15, <2>11, BidIs
<1>21. CASE ~IsBuyout(p)
  <2>1. body' = b /\ users' = users /\ auction' = auction
    BY <1>1, <1>3, <1>16, <1>21 DEF PlaceBid
  <2>2. Open(i)' /\ Held(i)' = With(Holding[i], p, a)
    <3>1. Open(i)'
      BY <1>2, <1>6, <2>1 DEF Open
    <3> QED BY <1>5, <1>13, <3>1 DEF Held
  <2>3. ASSUME NEW q \in Players
        PROVE  Money(q)' = IF q = p THEN Money(p) - (a - GetLastBid(bs, p)) ELSE Money(q)
    <3>1. Money(q)' = IF b[q].at = "in" THEN b[q].gold + b[q].bank ELSE users[q].gold + users[q].bank
      BY <2>1 DEF Money
    <3> QED BY <1>17, <3>1
  <2>4. ~(auction[i].buyout > 0 /\ a >= auction[i].buyout)
    BY <1>19, <1>21
  <2>5. IF auction[i].buyout > 0 /\ a >= auction[i].buyout
           THEN /\ ~Open(i)'
                /\ \A q \in Players :
                     Money(q)' = (IF q = p THEN Money(p) - (a - GetLastBid(bs, p)) ELSE Money(q))
                                 + E!Due(i, With(Holding[i], p, a), q)
           ELSE /\ Open(i)' /\ Held(i)' = With(Holding[i], p, a)
                /\ \A q \in Players :
                     Money(q)' = IF q = p THEN Money(p) - (a - GetLastBid(bs, p)) ELSE Money(q)
    BY ONLY <2>2, <2>3, <2>4
  <2> QED BY ONLY p \in Players, <1>1, <1>2, <1>4, <1>5, <1>7, <1>12, <1>14, <1>15, <2>5, BidIs
<1> QED BY <1>20, <1>21

LEMMA EscrowStep ==
  ASSUME HouseInv, Calm, [Next]_vars
  PROVE  [E!Next]_(E!vars)
<1>1. CalmStep
  BY CalmSteps
<1>2. ASSUME UNCHANGED <<users, body, auction, bids, update>> PROVE UNCHANGED E!vars
  BY <1>2, TablesStutter DEF Money
<1>3. CASE UNCHANGED vars
  BY <1>2, <1>3 DEF vars, tables
<1>4. CASE SelectExpired
  BY <1>4, SelectStutters
<1>5. CASE Deactivate /\ auction' = [i \in Items |-> IF i \in chosen
                                  THEN [auction[i] EXCEPT !.state = "inactive"] ELSE auction[i]]
  BY <1>5, DeactivateStutters
<1>6. ASSUME NEW i \in Items, PayExpired(i),
             bids[i] # <<>> => \E w \in TopBidders(bids[i]) :
                                 Pay(body, i, bids[i], Losers(bids[i], w), TRUE)
      PROVE  E!Next
  BY <1>6, PayCloses
<1>7. ASSUME NEW i \in Items, Ends(i) PROVE UNCHANGED E!vars
  <2>1. UNCHANGED <<users, body, bids, update>> /\ auction[i].state # "none"
        /\ auction' = [auction EXCEPT ![i].ended = TRUE]
    BY <1>7 DEF Ends
  <2> QED BY <2>1, RowStutters
<1>8. ASSUME NEW p \in Players, WebLogin(p) \/ LeaveGame(p) PROVE UNCHANGED E!vars
  BY <1>8, ComeAndGoStutter
<1>9. ASSUME NEW p \in Players, LoseLink(p) \/ Choose(p) PROVE UNCHANGED E!vars
  BY <1>2, <1>9 DEF LoseLink, Choose, OpenHouse, Leave, Back, ManualBid, BuyoutOption, Browse, Select,
                    EnterAmount, Ask, Show, Unmoved, tables
<1>10. ASSUME NEW p \in Players, ConfirmBid(p) PROVE UNCHANGED E!vars \/ E!Next
  <2>1. Idle /\ menu[p] = "confirm"
    BY <1>10 DEF ConfirmBid, Confirm
  <2>2. CASE Over(p, Refreshed(p)) \/ Outbid(p, Refreshed(p))
    <3>1. UNCHANGED <<tables, body, update>>
      BY <1>10, <2>2 DEF ConfirmBid, Confirm, GoTo
    <3> QED BY <1>2, <3>1 DEF tables
  <2>3. CASE ~Over(p, Refreshed(p)) /\ ~Outbid(p, Refreshed(p))
    BY <1>10, <2>1, <2>3, BidBids
  <2> QED BY <2>2, <2>3
<1>11. ASSUME NEW p \in Players, Retrieve(p), auction' = [auction EXCEPT ![sel[p]].retrieved = TRUE]
       PROVE  UNCHANGED E!vars
  <2>1. UNCHANGED <<users, body, bids, update>> /\ menu[p] = "item"
    BY <1>11 DEF Retrieve
  <2>2. sel[p] \in Items /\ auction[sel[p]].state # "none"
    BY <2>1, SeenFacts
  <2> QED BY <1>11, <2>1, <2>2, RowStutters
<1>12. ASSUME NEW p \in Players, NEW i \in Items, NEW a \in Prices, NEW b \in Prices,
              PlaceAuction(p, i, a, b)
       PROVE  E!Next
  BY <1>12, PlaceLists
<1> QED BY <1>1, <1>3, <1>4, <1>5, <1>6, <1>7, <1>8, <1>9, <1>10, <1>11, <1>12 DEF CalmStep

LEMMA EscrowStarts ==
  ASSUME Init, HouseInv
  PROVE  E!Init
<1>1. /\ \A i \in Items : bids[i] = <<>> /\ auction[i].state = "none" /\ auction[i].owner = None
                          /\ auction[i].start = 0 /\ auction[i].buyout = 0
      /\ \A p \in Players : body[p].at = "in"
  BY DEF Init
<1>2. \A p \in Players : Money(p) \in Int
  <2>1. \A p \in Players : body[p] \in BodyType
    BY ScreenTypes
  <2> QED BY <1>1, <2>1 DEF Money, BodyType
<1>3. \A i \in Items : ~Open(i) /\ Held(i) = E!Nothing
  BY <1>1, HeldIs DEF Open
<1>4. ASSUME NEW i \in Items
      PROVE  SaleOf(i) = [state |-> "unlisted", owner |-> None, start |-> 0, buyout |-> 0]
  <2>1. auction[i].state = "none" /\ auction[i].owner = None /\ auction[i].start = 0
        /\ auction[i].buyout = 0 /\ ~Open(i)
    BY <1>1, <1>3
  <2> QED BY <2>1 DEF SaleOf
<1> QED BY <1>2, <1>3, <1>4, EscrowInit DEF Purse, Holding, Sale

\* The code implements the escrow (EscrowSpec): each bidder is charged and repaid
\* once, against prices that only rise, and an auction that is closed stays closed,
\* as long as no query fails, nobody dies, and nobody comes by Telnet.
THEOREM EscrowImplemented ==
  ASSUME Undisturbed
  PROVE  Spec => EscrowSpec
<1>1. Init => HouseInv /\ Calm /\ E!Init
  BY HouseInit, CalmInit, EscrowStarts
<1>2. HouseInv /\ Calm /\ [Next]_vars => Calm'
  BY CalmKeeps
<1>3. HouseInv /\ Calm /\ [Next]_vars => [E!Next]_(E!vars)
  BY EscrowStep
<1> QED BY <1>1, <1>2, <1>3, HouseCorrect, PTL DEF Spec, EscrowSpec, E!Spec
===============================================================================

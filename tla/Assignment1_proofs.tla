------------------------- MODULE Assignment1_proofs -------------------------
(***************************************************************************)
(* Proofs about the three parts of assignment-1, Market.tla, GroupChat.tla *)
(* and VideoNotify.tla, which share nothing but this module.               *)
(*                                                                         *)
(* The shop keeps its promises for any number of clients, threads, items,  *)
(* updates, purchases and ratings: one inductive invariant, with a         *)
(* conjunct for each promise, and what it implies.                         *)
(*                                                                         *)
(* A member that asks a group for the messages since the newest it has     *)
(* seen misses none of that day, for any number of groups, members,        *)
(* messages and seconds: messages are numbered as they are stored, their   *)
(* times are in that order within a day, and what a member was shown is    *)
(* still stored as long as the group lives.                                *)
(*                                                                         *)
(* A user sees videos in the order of publication, each at most once, for  *)
(* any number of users and videos and whatever restarts: the numbers grow  *)
(* along what was seen, what waits in the mailbox, and what the server has *)
(* not consumed yet.  What is lost in between only makes gaps.  And the    *)
(* server follows the last request of each user about each youtuber, in    *)
(* whatever order requests are sent and consumed.                          *)
(***************************************************************************)
EXTENDS Market, GroupChat, VideoNotify,
        TLAPS, SequenceTheorems, FiniteSetTheorems, WellFoundedInduction

-----------------------------------------------------------------------------
(***************************************************************************)
(* The shop: the inductive invariant                                       *)
(***************************************************************************)
Item == [product_name : STRING, category : STRING, quantity : Nat, version : [Attribute -> Nat],
         seller : Seller \X Nat, wishlist : Seq(Shopper), rating : 0..50,
         raters : SUBSET Shopper, stars : Nat]

Listing == [view : BOOLEAN, size : Nat, ids : SUBSET Nat, last : Nat, seen : [Attribute -> Nat]]

Requests(c) ==
  (IF c \in Buyer THEN BuyerRequests ELSE SellerRequests \cup [op : {"register"}])
    \cup [op : {"none"}]

Ids == 1..Len(items)

Typed ==
  /\ items \in Seq(Item) /\ items_dict \subseteq Ids
  /\ holder \in Shopper \cup {NoOne}
  /\ running \in [Shopper -> {"up", "gone", "stuck"}]
  /\ uuid \in [Seller -> Nat]
  /\ at \in [Shopper -> Working \cup {"idle", "sent", "ended"}]
  /\ DOMAIN req = Shopper /\ req = [c \in Shopper |-> req[c]]
  /\ \A c \in Shopper : req[c] \in Requests(c)
  /\ todo \in [Shopper -> Seq(Shopper)]
  /\ listing \in [Shopper -> Listing]
  /\ called \in [Buyer -> [Ids -> Nat]]

\* The request of a call in the middle of a change is about an item, and its check holds.
StepOK(c) ==
  /\ at[c] \in {"write", "take", "notify"} => req[c].item_id \in Ids
  /\ at[c] = "write" => req[c].quantity \in Nat
  /\ at[c] = "take" => req[c].quantity \in Nat /\ req[c].quantity <= items[req[c].item_id].quantity

Steps == \A c \in Shopper : StepOK(c)

\* The price of an item is at least as new as its stock.
PriceFirst(item) == item.version["quantity"] <= item.version["price_per_unit"]

\* What a listing shows: the stock, while the price is still to be read, is not newer than
\* the price of the item.
ListingOK(c) ==
  /\ listing[c].ids \subseteq Ids
  /\ at[c] = "read" => /\ listing[c].last \in Ids
                       /\ listing[c].seen["quantity"]
                            <= items[listing[c].last].version["price_per_unit"]
  /\ at[c] # "read" => listing[c].seen["quantity"] <= listing[c].seen["price_per_unit"]

Listings == \A c \in Shopper : ListingOK(c)

\* No rating without raters, and the bound of RatingDrift
RatingOK(item) ==
  /\ IsFiniteSet(item.raters)
  /\ item.raters = {} => item.stars = 0
  /\ LET k == Cardinality(item.raters)
         drift == 2 * (item.rating * k - 10 * item.stars)
     IN  k > 0 => 2 * drift <= k * (k + 1) - 2 /\ -2 * drift <= k * (k + 1) - 2

ItemsOK == \A i \in Ids : PriceFirst(items[i]) /\ RatingOK(items[i])

\* The handler of c is going to call b about item i.
WillCall(c, i, b) ==
  /\ req[c].item_id = i
  /\ at[c] = "write" \/ (at[c] = "notify" /\ Contains(todo[c], b))

\* A buyer that wishes for an item has been called about its price, or is going to be.
Called(i, b) ==
  Contains(items[i].wishlist, b) =>
    called[b][i] = items[i].version["price_per_unit"] \/ \E c \in Shopper : WillCall(c, i, b)

Wishes == \A i \in Ids, b \in Buyer : Called(i, b)

MarketInv ==
  Typed /\ ChangesHoldMutex /\ Steps /\ ItemsOK /\ Listings /\ OneOfAName /\ Wishes

-----------------------------------------------------------------------------
(***************************************************************************)
(* Items, requests, ratings                                                *)
(***************************************************************************)
\* The two attributes of an item
LEMMA Attributes ==
  /\ FirstSet = "price_per_unit" /\ FirstRead = "quantity"
  /\ (CHOOSE a \in Attribute : a # FirstSet) = "quantity"
  /\ (CHOOSE a \in Attribute : a # FirstRead) = "price_per_unit"
  /\ "quantity" \in Attribute \ {"price_per_unit"}
  /\ "price_per_unit" \in Attribute \ {"quantity"}
<1>1. (CHOOSE a \in Attribute : a # "price_per_unit") = "quantity"
  BY DEF Attribute
<1>2. (CHOOSE a \in Attribute : a # "quantity") = "price_per_unit"
  BY DEF Attribute
<1> QED  BY <1>1, <1>2 DEF FirstSet, FirstRead, Attribute

\* The items are a function on their ids.
LEMMA ItemsFunction ==
  ASSUME Typed
  PROVE  /\ Len(items) \in Nat /\ DOMAIN items = Ids
         /\ \A i \in Ids : items[i] \in Item
BY LenProperties, ElementOfSeq DEF Typed, Ids

\* One item takes the place of another.
LEMMA ItemReplaced ==
  ASSUME Typed, NEW i \in Ids, NEW new \in Item, items' = [items EXCEPT ![i] = new]
  PROVE  /\ items' \in Seq(Item) /\ Ids' = Ids
         /\ items'[i] = new /\ \A j \in Ids \ {i} : items'[j] = items[j]
BY ExceptSeq DEF Typed, Ids

\* What the request of a client holds, by its operation
LEMMA MarketRequestTypes ==
  ASSUME Typed, NEW c \in Shopper
  PROVE  /\ req[c].op \in {"register", "sell", "update", "delete", "display"} => c \in Seller
         /\ req[c].op \in {"search", "buy", "wish", "rate"} => c \in Buyer
         /\ req[c].op = "sell" => req[c] \in SellReq(STRING, STRING, Nat)
         /\ req[c].op = "update" => req[c] \in UpdateReq(Nat, Nat)
         /\ req[c].op = "buy" => req[c] \in BuyReq(Nat, Nat)
         /\ req[c].op = "rate" => req[c] \in RateReq(Nat, Nat)
<1>1. req[c] \in Requests(c)
  BY DEF Typed
<1>2. CASE c \in Buyer
  <2>1. req[c] \in BuyerRequests \cup [op : {"none"}]
    BY <1>1, <1>2 DEF Requests
  <2>2. req[c].op \in {"search", "buy", "wish", "rate", "none"}
    BY <2>1 DEF BuyerRequests, SearchReq, BuyReq, WishReq, RateReq
  <2>3. req[c].op = "buy" => req[c] \in BuyReq(Nat, Nat)
    BY <2>1 DEF BuyerRequests, SearchReq, BuyReq, WishReq, RateReq
  <2>4. req[c].op = "rate" => req[c] \in RateReq(Nat, Nat)
    BY <2>1 DEF BuyerRequests, SearchReq, BuyReq, WishReq, RateReq
  <2> QED  BY <1>2, <2>2, <2>3, <2>4
<1>3. CASE c \notin Buyer
  <2>1. req[c] \in SellerRequests \cup [op : {"register"}] \cup [op : {"none"}]
    BY <1>1, <1>3 DEF Requests
  <2>2. req[c].op \in {"sell", "update", "delete", "display", "register", "none"}
    BY <2>1 DEF SellerRequests, SellReq, UpdateReq, DeleteReq, DisplayReq
  <2>3. req[c].op = "sell" => req[c] \in SellReq(STRING, STRING, Nat)
    BY <2>1 DEF SellerRequests, SellReq, UpdateReq, DeleteReq, DisplayReq
  <2>4. req[c].op = "update" => req[c] \in UpdateReq(Nat, Nat)
    BY <2>1 DEF SellerRequests, SellReq, UpdateReq, DeleteReq, DisplayReq
  <2> QED  BY <1>3, <2>2, <2>3, <2>4 DEF Shopper
<1> QED  BY <1>2, <1>3

\* A rounded mean: the distance from the sum of the ratings grows by half a rater.
LEMMA RoundedIsNear ==
  ASSUME NEW num \in Nat, NEW den \in Nat, NEW n \in Rounded(num, den)
  PROVE  n \in 0..50 /\ 2 * (n * den - num) <= den /\ 2 * (num - n * den) <= den
BY DEF Rounded

\* One more rating keeps the bound of the drift.
LEMMA OneMoreRating ==
  ASSUME NEW item \in Item, RatingOK(item), NEW c \in Shopper, c \notin item.raters,
         NEW stars \in RATED, NEW new \in AddRating(item, c, stars)
  PROVE  /\ new \in Item /\ RatingOK(new)
         /\ new.product_name = item.product_name /\ new.seller = item.seller
         /\ new.version = item.version /\ new.wishlist = item.wishlist
         /\ new.quantity = item.quantity
<1> DEFINE k == Cardinality(item.raters)
<1>1. /\ item.rating \in 0..50 /\ item.stars \in Nat /\ item.raters \in SUBSET Shopper
      /\ stars \in 1..5
  BY DEF Item, RATED
<1>2. PICK r \in IF item.raters = {} THEN {10 * stars} ELSE NewMean(item.rating, k, stars) :
        new = [item EXCEPT !.rating = r, !.raters = @ \cup {c}, !.stars = @ + stars]
  BY DEF AddRating
<1>3. /\ new.rating = r /\ new.raters = item.raters \cup {c} /\ new.stars = item.stars + stars
      /\ new.product_name = item.product_name /\ new.seller = item.seller
      /\ new.version = item.version /\ new.wishlist = item.wishlist
      /\ new.quantity = item.quantity
  BY <1>2 DEF Item
<1>4. k \in Nat /\ IsFiniteSet(new.raters) /\ Cardinality(new.raters) = k + 1
  <2>1. IsFiniteSet(item.raters)
    BY DEF RatingOK
  <2>2. Cardinality(item.raters) \in Nat
    BY <2>1, FS_CardinalityType
  <2>3. /\ IsFiniteSet(item.raters \cup {c})
        /\ Cardinality(item.raters \cup {c}) = Cardinality(item.raters) + 1
    BY <2>1, FS_AddElement
  <2> QED  BY <1>3, <2>2, <2>3
<1>5. new.raters # {} /\ (r \in 0..50 => new \in Item)
  <2>1. new.raters # {}
    BY <1>3
  <2>2. new.raters \in SUBSET Shopper /\ new.stars \in Nat
    BY <1>1, <1>3
  <2>3. r \in 0..50 => new \in Item
    BY <1>2, <1>3, <2>2 DEF Item
  <2> QED  BY <2>1, <2>3
<1>6. CASE item.raters = {}
  <2>1. r = 10 * stars /\ item.stars = 0 /\ k = 0
    BY <1>2, <1>6, FS_EmptySet DEF RatingOK
  <2>2. r \in 0..50
    BY <1>1, <2>1
  <2>3. r * (k + 1) - 10 * (item.stars + stars) = 0
    BY <1>1, <2>1
  <2>4. (k + 1) * (k + 1 + 1) - 2 = 0
    BY <2>1
  <2>5. RatingOK(new)
    BY <1>3, <1>4, <1>5, <2>3, <2>4 DEF RatingOK
  <2>6. new \in Item
    BY <1>5, <2>2
  <2> QED  BY <1>3, <2>5, <2>6
<1>7. CASE item.raters # {}
  <2>1. k > 0
    BY <1>4, <1>7, FS_EmptySet DEF RatingOK
  <2> DEFINE a == item.rating * k b == r * (k + 1) num == a + 10 * stars
  <2>2. a \in Nat /\ num \in Nat /\ k + 1 \in Nat
    BY <1>1, <1>4
  <2>3. r \in Rounded(num, k + 1)
    BY <1>2, <1>7 DEF NewMean
  <2>4. r \in 0..50 /\ 2 * (b - num) <= k + 1 /\ 2 * (num - b) <= k + 1
    BY <2>2, <2>3, RoundedIsNear
  <2>5. b \in Nat /\ k * (k + 1) \in Nat
    BY <1>4, <2>4
  <2>6. /\ 2 * (2 * (a - 10 * item.stars)) <= k * (k + 1) - 2
        /\ -2 * (2 * (a - 10 * item.stars)) <= k * (k + 1) - 2
    BY <2>1 DEF RatingOK
  <2>7. (k + 1) * (k + 1 + 1) = k * (k + 1) + 2 * (k + 1)
    BY <1>4
  <2> DEFINE p == k * (k + 1) p1 == (k + 1) * (k + 1 + 1) s == item.stars + stars
  <2>8. p \in Nat /\ p1 = p + 2 * (k + 1)
        /\ 2 * (2 * (a - 10 * item.stars)) <= p - 2
        /\ -2 * (2 * (a - 10 * item.stars)) <= p - 2
    BY <2>5, <2>6, <2>7
  <2> HIDE DEF a, b, p, p1
  <2>9. /\ 2 * (2 * (b - 10 * s)) <= p1 - 2
        /\ -2 * (2 * (b - 10 * s)) <= p1 - 2
    BY <1>1, <1>4, <2>2, <2>4, <2>5, <2>8
  <2>10. RatingOK(new)
    BY <1>3, <1>4, <1>5, <2>9 DEF RatingOK, b, p1
  <2>11. new \in Item
    BY <1>5, <2>4
  <2> QED  BY <1>3, <2>10, <2>11
<1> QED  BY <1>6, <1>7

\* The least of some ids is one of them.
LEMMA LeastId ==
  ASSUME NEW S \in SUBSET Nat, S # {}
  PROVE  Min(S) \in S
<1>1. PICK x \in S : \A y \in S : ~(<<y, x>> \in OpToRel(<, Nat))
  BY NatLessThanWellFounded, WFMin, Zenon
<1>2. \A y \in S : x =< y
  <2>1. \A y \in S : x \in Nat /\ y \in Nat /\ ~(y < x)
    BY <1>1 DEF OpToRel
  <2> QED  BY <2>1
<1> QED  BY <1>2 DEF Min

-----------------------------------------------------------------------------
(***************************************************************************)
(* What a step may change                                                  *)
(***************************************************************************)
Places == Working \cup {"idle", "sent", "ended"}
Changing == {"write", "take", "notify"}

\* A handler that has the mutex, or finds it free, is the only one that could change items.
LEMMA OnlyHolder ==
  ASSUME MarketInv, NEW c \in Shopper, holder \in {NoOne, c}
  PROVE  /\ \A d \in Shopper \ {c} : at[d] \notin Changing
         /\ holder = NoOne => at[c] \notin Changing
BY MarketAssumption DEF MarketInv, ChangesHoldMutex, Changing

\* The call of c moves on, no other one.
LEMMA Moves ==
  ASSUME Typed, NEW c \in Shopper, NEW p \in Places, at' = [at EXCEPT ![c] = p]
  PROVE  at' \in [Shopper -> Places] /\ at'[c] = p /\ \A d \in Shopper \ {c} : at'[d] = at[d]
BY DEF Typed, Places

\* A change of one item that keeps its name and its seller, and does not set its price back
LEMMA ItemChange ==
  ASSUME MarketInv, NEW i \in Ids, NEW new \in Item,
         items' = [items EXCEPT ![i] = new], UNCHANGED <<items_dict, listing>>,
         new.product_name = items[i].product_name, new.seller = items[i].seller,
         items[i].version["price_per_unit"] <= new.version["price_per_unit"],
         PriceFirst(new), RatingOK(new),
         \A d \in Shopper : at'[d] = "read" <=> at[d] = "read"
  PROVE  /\ items' \in Seq(Item) /\ Ids' = Ids
         /\ items'[i] = new /\ \A j \in Ids \ {i} : items'[j] = items[j]
         /\ ItemsOK' /\ Listings' /\ OneOfAName' /\ items_dict' \subseteq Ids'
<1> USE DEF MarketInv
<1>1. /\ items' \in Seq(Item) /\ Ids' = Ids
      /\ items'[i] = new /\ \A j \in Ids \ {i} : items'[j] = items[j]
  BY ItemReplaced
<1>2. ItemsOK'
  <2>1. \A j \in Ids : PriceFirst(items'[j]) /\ RatingOK(items'[j])
    BY <1>1 DEF ItemsOK
  <2> QED  BY <1>1, <2>1 DEF ItemsOK
<1>3. items_dict' \subseteq Ids' /\ items_dict \subseteq Ids
  BY <1>1 DEF Typed
<1>4. \A j \in Ids : items'[j].product_name = items[j].product_name /\ items'[j].seller = items[j].seller
  BY <1>1
<1>5. OneOfAName'
  BY <1>3, <1>4 DEF OneOfAName
<1>6. \A j \in Ids : items[j].version["price_per_unit"] <= items'[j].version["price_per_unit"]
  <2>1. \A j \in Ids : items[j].version["price_per_unit"] \in Nat
    BY ItemsFunction, Attributes DEF Item
  <2> QED  BY <1>1, <2>1
<1>7. ASSUME NEW d \in Shopper
      PROVE  ListingOK(d)'
  <2>1. ListingOK(d) /\ listing'[d] = listing[d] /\ (at'[d] = "read" <=> at[d] = "read")
    BY DEF Listings
  <2>2. CASE at[d] = "read"
    <3>1. /\ listing[d].last \in Ids
          /\ listing[d].seen["quantity"] <= items[listing[d].last].version["price_per_unit"]
      BY <2>1, <2>2 DEF ListingOK
    <3>2. /\ listing[d].seen["quantity"] \in Nat
          /\ items[listing[d].last].version["price_per_unit"] \in Nat
          /\ items'[listing[d].last].version["price_per_unit"] \in Nat
      <4>1. listing[d].seen["quantity"] \in Nat
        BY Attributes DEF Typed, Listing
      <4>2. items[listing[d].last] \in Item /\ items'[listing[d].last] \in Item
        BY <1>1, <3>1, ItemsFunction
      <4> QED  BY <4>1, <4>2, Attributes DEF Item
    <3>3. listing[d].seen["quantity"] <= items'[listing[d].last].version["price_per_unit"]
      BY <1>6, <3>1, <3>2
    <3> QED  BY <1>1, <2>1, <2>2, <3>1, <3>3 DEF ListingOK
  <2>3. CASE at[d] # "read"
    BY <1>1, <2>1, <2>3 DEF ListingOK
  <2> QED  BY <2>2, <2>3
<1>8. Listings'
  BY <1>7 DEF Listings
<1> QED  BY <1>1, <1>2, <1>3, <1>5, <1>8

\* Whom a buyer was called about, or was to be called about, it still is.
LEMMA CalledStill ==
  ASSUME NEW i, NEW b, Called(i, b),
         items'[i].wishlist = items[i].wishlist,
         items'[i].version["price_per_unit"] = items[i].version["price_per_unit"],
         called'[b][i] = called[b][i],
         \A c \in Shopper : WillCall(c, i, b) => WillCall(c, i, b)'
  PROVE  Called(i, b)'
BY DEF Called

\* A step of c outside of any change, that leaves the items alone.
LEMMA Quiet ==
  ASSUME MarketInv, NEW c \in Shopper, NEW p \in Places \ Changing, at[c] \notin Changing,
         at' = [at EXCEPT ![c] = p],
         \A d \in Shopper \ {c} : req'[d] = req[d] /\ listing'[d] = listing[d],
         UNCHANGED <<items, holder, todo, called>>, items_dict' \subseteq items_dict,
         ListingOK(c)'
  PROVE  /\ ChangesHoldMutex' /\ Steps' /\ ItemsOK' /\ Listings' /\ OneOfAName' /\ Wishes'
         /\ items' \in Seq(Item) /\ Ids' = Ids /\ items_dict' \subseteq Ids'
         /\ at' \in [Shopper -> Places]
<1> USE DEF MarketInv
<1>1. at' \in [Shopper -> Places] /\ at'[c] = p /\ \A d \in Shopper \ {c} : at'[d] = at[d]
  BY Moves
<1>2. ChangesHoldMutex'
  BY <1>1 DEF ChangesHoldMutex, Changing
<1>3. Ids' = Ids /\ items' \in Seq(Item) /\ items_dict' \subseteq Ids' /\ items_dict \subseteq Ids
  BY DEF Ids, Typed
<1>4. Steps'
  BY <1>1, <1>3 DEF Steps, StepOK, Changing
<1>5. ItemsOK' /\ OneOfAName'
  BY <1>3 DEF ItemsOK, OneOfAName
<1>6. Listings'
  BY <1>1, <1>3 DEF Listings, ListingOK
<1>7. ASSUME NEW i \in Ids, NEW b \in Buyer
      PROVE  Called(i, b)'
  <2>1. \A d \in Shopper : WillCall(d, i, b) => WillCall(d, i, b)'
    BY <1>1 DEF WillCall, Changing
  <2>2. Called(i, b)
    BY DEF Wishes
  <2> QED  BY <2>1, <2>2, CalledStill
<1>8. Wishes'
  BY <1>3, <1>7 DEF Wishes
<1> QED  BY <1>1, <1>2, <1>3, <1>4, <1>5, <1>6, <1>8

\* The call of c is not in the middle of a listing, which it leaves as it is.
LEMMA SameListing ==
  ASSUME MarketInv, NEW c \in Shopper, UNCHANGED <<items, listing>>,
         at[c] # "read", at'[c] # "read"
  PROVE  ListingOK(c)' /\ listing' \in [Shopper -> Listing]
<1>1. ListingOK(c) /\ listing' \in [Shopper -> Listing]
  BY DEF MarketInv, Listings, Typed
<1> QED  BY <1>1 DEF ListingOK, Ids

-----------------------------------------------------------------------------
(***************************************************************************)
(* The clients                                                             *)
(***************************************************************************)
LEMMA CallStep ==
  ASSUME MarketInv, NEW c \in Shopper, NEW r \in Requests(c), Call(c, r),
         at[c] \in {"idle", "ended"},
         UNCHANGED <<sellers, items, items_dict, holder, todo, listing, called>>,
         running' \in [Shopper -> {"up", "gone", "stuck"}], uuid' \in [Seller -> Nat]
  PROVE  MarketInv'
<1>1. /\ at' = [at EXCEPT ![c] = "sent"] /\ "sent" \in Places \ Changing
      /\ at[c] \notin Changing /\ at[c] # "read" /\ at'[c] # "read"
  BY DEF Call, Places, Changing, MarketInv, Typed
<1>2. /\ DOMAIN req' = Shopper /\ req' = [d \in Shopper |-> req'[d]]
      /\ req'[c] = r /\ \A d \in Shopper \ {c} : req'[d] = req[d]
  BY DEF Call, MarketInv, Typed
<1>3. ListingOK(c)'
  BY <1>1, SameListing
<1>4. /\ ChangesHoldMutex' /\ Steps' /\ ItemsOK' /\ Listings' /\ OneOfAName' /\ Wishes'
      /\ items' \in Seq(Item) /\ Ids' = Ids /\ items_dict' \subseteq Ids'
      /\ at' \in [Shopper -> Places]
  BY <1>1, <1>2, <1>3, Quiet
<1>5. \A d \in Shopper : req'[d] \in Requests(d)
  BY <1>2 DEF MarketInv, Typed
<1>6. Typed'
  BY <1>2, <1>4, <1>5 DEF MarketInv, Typed, Places
<1> QED  BY <1>4, <1>6 DEF MarketInv

LEMMA StartSellerStep ==
  ASSUME MarketInv, NEW c \in Seller, StartSeller(c)
  PROVE  MarketInv'
<1>1. c \in Shopper /\ c \notin Buyer
  BY MarketAssumption DEF Shopper
<1>2. [op |-> "register"] \in Requests(c) /\ Call(c, [op |-> "register"])
  BY <1>1 DEF Requests, StartSeller
<1>3. running' = [running EXCEPT ![c] = "up"] /\ uuid' = [uuid EXCEPT ![c] = @ + 1]
      /\ at[c] \in {"idle", "ended"}
      /\ UNCHANGED <<sellers, items, items_dict, holder, todo, listing, called>>
  BY DEF StartSeller
<1>4. running' \in [Shopper -> {"up", "gone", "stuck"}] /\ uuid' \in [Seller -> Nat]
  BY <1>1, <1>3 DEF MarketInv, Typed
<1> QED  BY <1>1, <1>2, <1>3, <1>4, CallStep

LEMMA StartBuyerStep ==
  ASSUME MarketInv, NEW c \in Buyer, StartBuyer(c)
  PROVE  MarketInv'
<1>1. c \in Shopper
  BY DEF Shopper
<1>2. /\ running' = [running EXCEPT ![c] = "up"] /\ at[c] \in {"idle", "ended"}
      /\ at' = [at EXCEPT ![c] = "idle"]
      /\ UNCHANGED <<sellers, items, items_dict, holder, uuid, req, todo, listing, called>>
  BY DEF StartBuyer
<1>3. /\ "idle" \in Places \ Changing /\ at[c] \notin Changing
      /\ at[c] # "read" /\ at'[c] # "read"
  BY <1>1, <1>2 DEF Places, Changing, MarketInv, Typed
<1>4. ListingOK(c)'
  BY <1>1, <1>2, <1>3, SameListing
<1>5. /\ ChangesHoldMutex' /\ Steps' /\ ItemsOK' /\ Listings' /\ OneOfAName' /\ Wishes'
      /\ items' \in Seq(Item) /\ Ids' = Ids /\ items_dict' \subseteq Ids'
      /\ at' \in [Shopper -> Places]
  BY <1>1, <1>2, <1>3, <1>4, Quiet
<1>6. running' \in [Shopper -> {"up", "gone", "stuck"}]
  BY <1>1, <1>2 DEF MarketInv, Typed
<1>7. Typed'
  BY <1>2, <1>5, <1>6 DEF MarketInv, Typed, Places
<1> QED  BY <1>5, <1>7 DEF MarketInv

LEMMA CommandStep ==
  ASSUME MarketInv, NEW c \in Shopper, NEW r \in Requests(c), Command(c, r)
  PROVE  MarketInv'
<1>1. /\ Call(c, r) /\ at[c] \in {"idle", "ended"}
      /\ UNCHANGED <<sellers, items, items_dict, holder, running, uuid, todo, listing, called>>
  BY DEF Command
<1>2. running' \in [Shopper -> {"up", "gone", "stuck"}] /\ uuid' \in [Seller -> Nat]
  BY <1>1 DEF MarketInv, Typed
<1> QED  BY <1>1, <1>2, CallStep

\* A process ends, hangs or goes on.
LEMMA BecomesStep ==
  ASSUME MarketInv, NEW c \in Shopper, NEW from \in {"up", "stuck"},
         NEW to \in {"up", "gone", "stuck"}, Becomes(c, from, to)
  PROVE  MarketInv'
<1>1. /\ running[c] = from /\ running' = [running EXCEPT ![c] = to]
      /\ UNCHANGED <<sellers, items, items_dict, holder, uuid, at, req, todo, listing, called>>
  BY DEF Becomes
<1>2. Typed' /\ Ids' = Ids
  BY <1>1 DEF MarketInv, Typed, Ids
<1>3. ChangesHoldMutex' /\ Steps' /\ ItemsOK' /\ Listings' /\ OneOfAName'
  BY <1>1, <1>2
     DEF MarketInv, ChangesHoldMutex, Steps, StepOK, ItemsOK, Listings, ListingOK, OneOfAName
<1>4. Wishes'
  BY <1>1, <1>2 DEF MarketInv, Wishes, Called, WillCall
<1> QED  BY <1>2, <1>3, <1>4 DEF MarketInv

-----------------------------------------------------------------------------
(***************************************************************************)
(* Calls that change no item                                               *)
(***************************************************************************)
\* A step of the service that moves the call of c and changes at most its listing.
LEMMA ServiceQuiet ==
  ASSUME MarketInv, NEW c \in Shopper, NEW p \in Places \ Changing, at[c] \notin Changing,
         at' = [at EXCEPT ![c] = p],
         \A d \in Shopper \ {c} : listing'[d] = listing[d],
         UNCHANGED <<items, holder, running, uuid, req, todo, called>>,
         items_dict' \subseteq items_dict,
         ListingOK(c)', listing' \in [Shopper -> Listing]
  PROVE  MarketInv'
<1>1. /\ ChangesHoldMutex' /\ Steps' /\ ItemsOK' /\ Listings' /\ OneOfAName' /\ Wishes'
      /\ items' \in Seq(Item) /\ Ids' = Ids /\ items_dict' \subseteq Ids'
      /\ at' \in [Shopper -> Places]
  BY Quiet
<1>2. Typed'
  BY <1>1 DEF MarketInv, Typed, Places
<1> QED  BY <1>1, <1>2 DEF MarketInv

\* A call that ends without a change: it is refused, or was about no item.
LEMMA EndsQuietly ==
  ASSUME MarketInv, NEW c \in Shopper, at[c] = "sent",
         NEW p \in {"idle", "ended"}, at' = [at EXCEPT ![c] = p],
         UNCHANGED <<items, holder, running, uuid, req, todo, called, listing>>,
         items_dict' \subseteq items_dict
  PROVE  MarketInv'
<1>1. p \in Places \ Changing /\ at[c] \notin Changing /\ at[c] # "read" /\ at'[c] # "read"
  BY DEF Places, Changing, MarketInv, Typed
<1>2. ListingOK(c)' /\ listing' \in [Shopper -> Listing]
  BY <1>1, SameListing
<1> QED  BY <1>1, <1>2, ServiceQuiet

LEMMA RegisterStep ==
  ASSUME MarketInv, NEW c \in Shopper, RegisterSeller(c)
  PROVE  MarketInv'
<1>1. PICK p \in {"idle", "ended"} : at' = [at EXCEPT ![c] = p]
  BY DEF RegisterSeller, Goto
<1>2. at[c] = "sent"
      /\ UNCHANGED <<items, items_dict, holder, running, uuid, req, todo, called, listing>>
  BY DEF RegisterSeller, Enters
<1> QED  BY <1>1, <1>2, EndsQuietly

LEMMA DeleteStep ==
  ASSUME MarketInv, NEW c \in Shopper, DeleteItem(c)
  PROVE  MarketInv'
<1>1. at' = [at EXCEPT ![c] = "idle"] /\ at[c] = "sent"
      /\ UNCHANGED <<items, holder, running, uuid, req, todo, called, listing>>
  BY DEF DeleteItem, Enters, Goto
<1>2. items_dict' \subseteq items_dict
  BY DEF DeleteItem
<1> QED  BY <1>1, <1>2, EndsQuietly

\* A listing that starts has shown nothing yet.
LEMMA NoListingOK == NoListing \in Listing /\ NoListing.seen["quantity"] <= NoListing.seen["price_per_unit"]
<1>1. NoListing.seen = [a \in Attribute |-> 0]
  BY DEF NoListing
<1> QED  BY <1>1, Attributes DEF NoListing, Listing

\* A listing of ids on offer is collected, and its conversion begins.
LEMMA CollectStep ==
  ASSUME MarketInv, NEW c \in Shopper, at[c] = "sent", NEW p \in {"view", "list"},
         NEW new \in Listing, new.ids \subseteq items_dict, new.seen = NoListing.seen,
         at' = [at EXCEPT ![c] = p], listing' = [listing EXCEPT ![c] = new],
         UNCHANGED <<sellers, items, items_dict, holder, running, uuid, req, todo, called>>
  PROVE  MarketInv'
<1>1. p \in Places \ Changing /\ at[c] \notin Changing /\ at'[c] # "read"
  BY DEF Places, Working, Changing, MarketInv, Typed
<1>2. new.ids \subseteq Ids
  BY DEF MarketInv, Typed
<1>3. /\ listing'[c] = new /\ \A d \in Shopper \ {c} : listing'[d] = listing[d]
      /\ listing' \in [Shopper -> Listing]
  BY DEF MarketInv, Typed
<1>4. ListingOK(c)'
  BY <1>1, <1>2, <1>3, NoListingOK DEF ListingOK, Ids
<1> QED  BY <1>1, <1>3, <1>4, ServiceQuiet

\* A new listing of ids on offer
LEMMA NewListing ==
  ASSUME MarketInv, NEW ids \in SUBSET items_dict, NEW view \in BOOLEAN
  PROVE  /\ [NoListing EXCEPT !.ids = ids] \in Listing
         /\ [NoListing EXCEPT !.ids = ids].ids = ids
         /\ [NoListing EXCEPT !.ids = ids].seen = NoListing.seen
         /\ [NoListing EXCEPT !.view = view, !.ids = ids] \in Listing
         /\ [NoListing EXCEPT !.view = view, !.ids = ids].ids = ids
         /\ [NoListing EXCEPT !.view = view, !.ids = ids].seen = NoListing.seen
<1>1. ids \in SUBSET Nat
  BY DEF MarketInv, Typed, Ids
<1> QED  BY <1>1, NoListingOK DEF NoListing, Listing

LEMMA DisplayStep ==
  ASSUME MarketInv, NEW c \in Shopper, DisplaySellerItems(c)
  PROVE  MarketInv'
<1>1. SellerItems(c) \in SUBSET items_dict
  BY DEF SellerItems
<1> DEFINE new == [NoListing EXCEPT !.ids = SellerItems(c)]
<1>2. new \in Listing /\ new.ids \subseteq items_dict /\ new.seen = NoListing.seen
  BY <1>1, NewListing
<1>3. /\ listing' = [listing EXCEPT ![c] = new]
      /\ at[c] = "sent" /\ at' = [at EXCEPT ![c] = "list"]
      /\ UNCHANGED <<sellers, items, items_dict, holder, running, uuid, req, todo, called>>
  BY DEF DisplaySellerItems, Enters, Goto
<1> HIDE DEF new
<1> QED  BY <1>2, <1>3, CollectStep

LEMMA SearchStep ==
  ASSUME MarketInv, NEW c \in Shopper, SearchItem(c)
  PROVE  MarketInv'
<1> DEFINE everything == req[c].product_name = "ANY" /\ req[c].category = "ANY"
           ids == SearchItems(req[c].product_name, req[c].category)
           new == [NoListing EXCEPT !.view = everything, !.ids = ids]
<1>1. ids \in SUBSET items_dict /\ everything \in BOOLEAN
  BY DEF SearchItems
<1>2. /\ listing' = [listing EXCEPT ![c] = new]
      /\ at[c] = "sent" /\ at' = [at EXCEPT ![c] = IF everything THEN "view" ELSE "list"]
      /\ UNCHANGED <<sellers, items, items_dict, holder, running, uuid, req, todo, called>>
  BY DEF SearchItem, Enters, Goto
<1>3. (IF everything THEN "view" ELSE "list") \in {"view", "list"}
  OBVIOUS
<1> HIDE DEF everything, ids
<1>4. new \in Listing /\ new.ids \subseteq items_dict /\ new.seen = NoListing.seen
  BY <1>1, NewListing
<1> HIDE DEF new
<1> QED  BY <1>2, <1>3, <1>4, CollectStep

LEMMA BeginViewStep ==
  ASSUME MarketInv, NEW c \in Shopper, BeginView(c)
  PROVE  MarketInv'
<1>1. /\ at[c] = "view" /\ at' = [at EXCEPT ![c] = "list"]
      /\ listing' = [listing EXCEPT ![c].size = Cardinality(items_dict)]
      /\ UNCHANGED <<sellers, items, items_dict, holder, running, uuid, req, todo, called>>
  BY DEF BeginView, Goto
<1>2. "list" \in Places \ Changing /\ at[c] \notin Changing /\ at'[c] # "read"
  BY <1>1 DEF Places, Working, Changing, MarketInv, Typed
<1>3. Cardinality(items_dict) \in Nat
  <2>1. IsFiniteSet(Ids)
    BY ItemsFunction, FS_Interval DEF MarketInv, Ids
  <2> QED  BY <2>1, FS_Subset, FS_CardinalityType DEF MarketInv, Typed
<1>4. listing[c] \in Listing
  BY DEF MarketInv, Typed
<1> DEFINE new == [listing[c] EXCEPT !.size = Cardinality(items_dict)]
<1>5. new \in Listing /\ new.ids = listing[c].ids /\ new.seen = listing[c].seen
  BY <1>3, <1>4 DEF Listing
<1>6. listing' = [listing EXCEPT ![c] = new]
  BY <1>1
<1> HIDE DEF new
<1>7. /\ listing'[c] = new /\ \A d \in Shopper \ {c} : listing'[d] = listing[d]
      /\ listing' \in [Shopper -> Listing]
  BY <1>5, <1>6 DEF MarketInv, Typed
<1>8. ListingOK(c)'
  BY <1>1, <1>2, <1>5, <1>7 DEF MarketInv, Listings, ListingOK, Ids
<1> QED  BY <1>1, <1>2, <1>7, <1>8, ServiceQuiet

LEMMA EndListingStep ==
  ASSUME MarketInv, NEW c \in Shopper, EndListing(c)
  PROVE  MarketInv'
<1>1. PICK p \in {"idle", "ended"} : at' = [at EXCEPT ![c] = p]
  BY DEF EndListing, Goto
<1>2. /\ at[c] = "list" /\ listing' = [listing EXCEPT ![c] = NoListing]
      /\ UNCHANGED <<sellers, items, items_dict, holder, running, uuid, req, todo, called>>
  BY DEF EndListing
<1>3. p \in Places \ Changing /\ at[c] \notin Changing /\ at'[c] # "read"
  BY <1>1, <1>2 DEF Places, Working, Changing, MarketInv, Typed
<1>4. /\ listing'[c] = NoListing /\ \A d \in Shopper \ {c} : listing'[d] = listing[d]
      /\ listing' \in [Shopper -> Listing]
  BY <1>2, NoListingOK DEF MarketInv, Typed
<1>5. ListingOK(c)'
  BY <1>3, <1>4, NoListingOK DEF ListingOK, NoListing
<1> QED  BY <1>1, <1>2, <1>3, <1>4, <1>5, ServiceQuiet

\* What c sees of an item: the listing of c is at that item.
LEMMA SeesListing ==
  ASSUME MarketInv, NEW c \in Shopper, NEW i \in Ids, NEW a \in Attribute, NEW p, Sees(c, i, a, p)
  PROVE  /\ listing' \in [Shopper -> Listing]
         /\ \A d \in Shopper \ {c} : listing'[d] = listing[d]
         /\ listing'[c].last = i /\ listing'[c].ids = listing[c].ids
         /\ listing'[c].seen[a] = items[i].version[a]
         /\ \A x \in Attribute \ {a} : listing'[c].seen[x] = listing[c].seen[x]
<1>1. listing[c] \in Listing /\ items[i] \in Item /\ i \in Nat
  BY ItemsFunction DEF MarketInv, Typed, Ids
<1>2. items[i].version[a] \in Nat
  BY <1>1 DEF Item
<1> DEFINE stamps == [listing[c].seen EXCEPT ![a] = items[i].version[a]]
           new == [listing[c] EXCEPT !.last = i, !.seen = stamps]
<1>3. /\ stamps \in [Attribute -> Nat] /\ stamps[a] = items[i].version[a]
      /\ \A x \in Attribute \ {a} : stamps[x] = listing[c].seen[x]
  BY <1>1, <1>2 DEF Listing
<1>4. listing' = [listing EXCEPT ![c] = new]
  BY <1>1 DEF Sees, Listing
<1> HIDE DEF stamps
<1>5. new \in Listing /\ new.last = i /\ new.ids = listing[c].ids /\ new.seen = stamps
  BY <1>1, <1>3 DEF Listing
<1> HIDE DEF new
<1>6. listing'[c] = new /\ listing' \in [Shopper -> Listing]
      /\ \A d \in Shopper \ {c} : listing'[d] = listing[d]
  BY <1>4, <1>5 DEF MarketInv, Typed
<1> QED  BY <1>3, <1>5, <1>6

LEMMA ReadItemStep ==
  ASSUME MarketInv, NEW c \in Shopper, ReadItem(c)
  PROVE  MarketInv'
<1> DEFINE i == Min(Left(c))
<1>1. i \in Ids
  <2>1. Left(c) \subseteq Ids
    BY DEF Left, MarketInv, Typed, Listings, ListingOK
  <2>2. Left(c) # {} /\ Left(c) \in SUBSET Nat
    BY <2>1 DEF ReadItem, Ids
  <2> QED  BY <2>1, <2>2, LeastId
<1> HIDE DEF i
<1>2. /\ at[c] = "list" /\ Sees(c, i, "quantity", "read") /\ at' = [at EXCEPT ![c] = "read"]
      /\ UNCHANGED <<sellers, items, items_dict, holder, running, uuid, req, todo, called>>
  BY Attributes DEF ReadItem, Sees, Goto, i
<1>3. /\ listing' \in [Shopper -> Listing]
      /\ \A d \in Shopper \ {c} : listing'[d] = listing[d]
      /\ listing'[c].last = i /\ listing'[c].ids = listing[c].ids
      /\ listing'[c].seen["quantity"] = items[i].version["quantity"]
  BY <1>1, <1>2, SeesListing, Attributes
<1>4. "read" \in Places \ Changing /\ at[c] \notin Changing /\ at'[c] = "read"
  BY <1>2 DEF Places, Working, Changing, MarketInv, Typed
<1>5. items[i].version["quantity"] <= items[i].version["price_per_unit"]
  BY <1>1 DEF MarketInv, ItemsOK, PriceFirst
<1>6. ListingOK(c)'
  BY <1>1, <1>2, <1>3, <1>4, <1>5 DEF MarketInv, Listings, ListingOK, Ids
<1> QED  BY <1>2, <1>3, <1>4, <1>6, ServiceQuiet

LEMMA ReadOnStep ==
  ASSUME MarketInv, NEW c \in Shopper, ReadOn(c)
  PROVE  MarketInv'
<1> DEFINE i == listing[c].last
<1>1. /\ at[c] = "read" /\ Sees(c, i, "price_per_unit", "list") /\ at' = [at EXCEPT ![c] = "list"]
      /\ UNCHANGED <<sellers, items, items_dict, holder, running, uuid, req, todo, called>>
  BY Attributes DEF ReadOn, Sees, Goto
<1>2. i \in Ids /\ listing[c].seen["quantity"] <= items[i].version["price_per_unit"]
  BY <1>1 DEF MarketInv, Listings, ListingOK
<1> HIDE DEF i
<1>3. /\ listing' \in [Shopper -> Listing]
      /\ \A d \in Shopper \ {c} : listing'[d] = listing[d]
      /\ listing'[c].ids = listing[c].ids
      /\ listing'[c].seen["price_per_unit"] = items[i].version["price_per_unit"]
      /\ listing'[c].seen["quantity"] = listing[c].seen["quantity"]
  BY <1>1, <1>2, SeesListing, Attributes
<1>4. "list" \in Places \ Changing /\ at[c] \notin Changing /\ at'[c] # "read"
  BY <1>1 DEF Places, Working, Changing, MarketInv, Typed
<1>5. ListingOK(c)'
  BY <1>1, <1>2, <1>3, <1>4 DEF MarketInv, Listings, ListingOK, Ids
<1> QED  BY <1>1, <1>3, <1>4, <1>5, ServiceQuiet

-----------------------------------------------------------------------------
(***************************************************************************)
(* Calls that change items                                                 *)
(***************************************************************************)
\* When the mutex is free, every buyer has been called about the prices of its wishes.
LEMMA AllCalled ==
  ASSUME MarketInv, holder = NoOne, NEW i \in Ids, NEW b \in Buyer,
         Contains(items[i].wishlist, b)
  PROVE  called[b][i] = items[i].version["price_per_unit"]
<1>1. \A c \in Shopper : ~WillCall(c, i, b)
  BY MarketAssumption DEF MarketInv, ChangesHoldMutex, WillCall
<1>2. Called(i, b)
  BY DEF MarketInv, Wishes
<1> QED  BY <1>1, <1>2 DEF Called

\* A new item, for which no one wishes yet, goes to the end of the list.
LEMMA SellStep ==
  ASSUME MarketInv, NEW c \in Shopper, SellItem(c)
  PROVE  MarketInv'
<1> DEFINE r == req[c]
           sold == Registered(c) /\ ~r.badPrice /\ ~Present(c, r.product_name)
           new == NewItem(c, r)
<1>1. /\ at[c] = "sent" /\ at' = [at EXCEPT ![c] = "idle"]
      /\ UNCHANGED <<sellers, holder, running, uuid, req, todo, listing>>
      /\ called' = [b \in Buyer |-> [i \in DOMAIN items' |-> IF i \in DOMAIN items THEN called[b][i] ELSE 0]]
  BY DEF SellItem, Enters, Goto
<1>2. DOMAIN items = Ids /\ Len(items) \in Nat /\ \A i \in Ids : items[i] \in Item
  BY ItemsFunction DEF MarketInv
<1>3. CASE ~sold
  <2>1. UNCHANGED <<items, items_dict>>
    BY <1>3 DEF SellItem
  <2>2. called' = [b \in Buyer |-> [i \in Ids |-> called[b][i]]]
    BY <1>1, <1>2, <2>1
  <2>3. called' = called
    BY <2>2 DEF MarketInv, Typed
  <2> QED  BY <1>1, <2>1, <2>3, EndsQuietly
<1>4. CASE sold
  <2> USE DEF MarketInv
  <2>1. items' = Append(items, new) /\ items_dict' = items_dict \cup {Len(items) + 1}
    BY <1>4 DEF SellItem
  <2>2. r \in SellReq(STRING, STRING, Nat) /\ c \in Seller
    BY MarketRequestTypes DEF SellItem, Enters
  <2>3. new \in Item
    <3>1. Who(c) \in Seller \X Nat
      BY <2>2 DEF Who, Typed
    <3>2. [a \in Attribute |-> 1] \in [Attribute -> Nat] /\ <<>> \in Seq(Shopper)
      BY EmptySeq
    <3> QED  BY <2>2, <3>1, <3>2 DEF NewItem, Item, SellReq
  <2>4. /\ new.wishlist = <<>> /\ new.raters = {} /\ new.stars = 0
        /\ new.version = [a \in Attribute |-> 1]
        /\ new.seller = Who(c) /\ new.product_name = r.product_name
    BY DEF NewItem
  <2>5. PriceFirst(new)
    BY <2>4, Attributes DEF PriceFirst
  <2>6. RatingOK(new)
    BY <2>4, FS_EmptySet DEF RatingOK
  <2> DEFINE n == Len(items) + 1
  <2> HIDE DEF new, sold
  <2>7. /\ items' \in Seq(Item) /\ Len(items') = n
        /\ \A i \in Ids : items'[i] = items[i]
        /\ items'[n] = new
    BY <2>1, <2>3, AppendProperties DEF Typed, Ids
  <2>8. /\ Ids' = Ids \cup {n} /\ n \notin Ids /\ n \in Ids'
        /\ DOMAIN items' = Ids' /\ items_dict' \subseteq Ids'
    <3>1. DOMAIN items' = 1..n /\ Ids' = 1..n
      BY <2>7, LenProperties DEF Ids
    <3> QED  BY <1>2, <2>1, <3>1 DEF Ids, Typed
  <2> HIDE DEF n
  <2>9. /\ at' \in [Shopper -> Places] /\ at'[c] = "idle"
        /\ \A d \in Shopper \ {c} : at'[d] = at[d]
    BY <1>1, Moves DEF Places
  <2>10. \A b \in Buyer, i \in Ids : called'[b][i] = called[b][i]
    BY <1>1, <1>2, <2>8
  <2>11. called' \in [Buyer -> [Ids' -> Nat]]
    BY <1>1, <1>2, <2>8 DEF Typed
  <2>12. Typed'
    BY <1>1, <2>7, <2>8, <2>9, <2>11 DEF Typed, Places
  <2>13. ChangesHoldMutex'
    BY <1>1, <2>9 DEF ChangesHoldMutex
  <2>14. Steps'
    BY <1>1, <2>7, <2>8, <2>9 DEF Steps, StepOK
  <2>15. ItemsOK'
    BY <2>5, <2>6, <2>7, <2>8 DEF ItemsOK
  <2>16. Listings'
    BY <1>1, <2>7, <2>8, <2>9 DEF Listings, ListingOK
  <2>17. OneOfAName'
    <3>1. \A i \in items_dict : ~(items[i].product_name = new.product_name /\ items[i].seller = new.seller)
      BY <1>4, <2>4 DEF sold, Present
    <3>2. \A i \in items_dict : i \in Ids /\ items'[i] = items[i]
      BY <2>7 DEF Typed
    <3>3. items_dict' = items_dict \cup {n}
      BY <2>1 DEF n
    <3> QED  BY <2>7, <3>1, <3>2, <3>3 DEF OneOfAName
  <2>18. ASSUME NEW i \in Ids, NEW b \in Buyer
         PROVE  Called(i, b)'
    <3>1. \A d \in Shopper : WillCall(d, i, b) => WillCall(d, i, b)'
      BY <1>1, <2>9 DEF WillCall
    <3>2. Called(i, b)
      BY DEF Wishes
    <3> QED  BY <1>1, <2>7, <2>10, <3>1, <3>2, CalledStill
  <2>19. ASSUME NEW i, i = n, NEW b \in Buyer
         PROVE  Called(i, b)'
    <3>1. ~Contains(new.wishlist, b)
      BY <2>4, EmptySeq DEF Contains
    <3>2. ~Contains(items'[i].wishlist, b)
      BY <2>7, <2>19, <3>1
    <3> QED  BY <3>2 DEF Called
  <2>20. Wishes'
    BY <2>8, <2>18, <2>19 DEF Wishes
  <2> QED  BY <2>12, <2>13, <2>14, <2>15, <2>16, <2>17, <2>20
<1> QED  BY <1>3, <1>4

\* The item new is item with another version of one attribute, and perhaps another quantity.
Sets(new, item, a, v) ==
  /\ new \in Item /\ new.version[a] = v
  /\ \A x \in Attribute \ {a} : new.version[x] = item.version[x]
  /\ new.product_name = item.product_name /\ new.seller = item.seller
  /\ new.wishlist = item.wishlist
  /\ new.rating = item.rating /\ new.raters = item.raters /\ new.stars = item.stars

LEMMA AttributeSet ==
  ASSUME NEW item \in Item, NEW a \in Attribute, NEW v \in Nat, NEW q \in Nat
  PROVE  Sets(SetAttribute(item, a, v, q), item, a, v)
<1> DEFINE version == [item.version EXCEPT ![a] = v]
           quantity == IF a = "quantity" THEN q ELSE item.quantity
           new == SetAttribute(item, a, v, q)
<1>1. version \in [Attribute -> Nat] /\ quantity \in Nat /\ version[a] = v
      /\ \A x \in Attribute \ {a} : version[x] = item.version[x]
  BY DEF Item
<1>2. new = [item EXCEPT !.version = version, !.quantity = quantity]
  BY DEF SetAttribute, Item
<1> HIDE DEF version, quantity, new
<1>3. /\ new \in Item /\ new.version = version
      /\ new.product_name = item.product_name /\ new.seller = item.seller
      /\ new.wishlist = item.wishlist
      /\ new.rating = item.rating /\ new.raters = item.raters /\ new.stars = item.stars
  BY <1>1, <1>2 DEF Item
<1>4. Sets(new, item, a, v)
  BY <1>1, <1>3 DEF Sets
<1> QED  BY <1>4 DEF new

\* The price of an item is changed: the handler has the mutex and the others to tell.
LEMMA BeginUpdateStep ==
  ASSUME MarketInv, NEW c \in Shopper, BeginUpdate(c)
  PROVE  MarketInv'
<1> USE DEF MarketInv
<1> DEFINE i == req[c].item_id
<1>1. /\ at[c] = "sent" /\ holder = NoOne
      /\ UNCHANGED <<sellers, items_dict, running, uuid, req, todo, listing, called>>
  BY DEF BeginUpdate, Enters
<1>2. CASE ~(Owns(c, i) /\ ~req[c].badPrice)
  <2>1. at' = [at EXCEPT ![c] = "idle"] /\ UNCHANGED <<items, holder>>
    BY <1>2 DEF BeginUpdate, Goto
  <2> QED  BY <1>1, <2>1, EndsQuietly
<1>3. CASE Owns(c, i) /\ ~req[c].badPrice
  <2> DEFINE v == items[i].version["price_per_unit"] + 1
             new == SetAttribute(items[i], "price_per_unit", v, req[c].quantity)
  <2>1. i \in Ids
    BY <1>3 DEF Owns, Typed
  <2>2. /\ items' = [items EXCEPT ![i] = new]
        /\ holder' = c /\ at' = [at EXCEPT ![c] = "write"]
    <3>1. DOMAIN items = Ids
      BY ItemsFunction
    <3> QED  BY <1>3, <2>1, <3>1, Attributes DEF BeginUpdate, Goto
  <2>3. req[c] \in UpdateReq(Nat, Nat)
    BY MarketRequestTypes DEF BeginUpdate, Enters
  <2>4. items[i] \in Item /\ items[i].version["price_per_unit"] \in Nat
        /\ items[i].version["quantity"] \in Nat
    BY <2>1, ItemsFunction, Attributes DEF Item
  <2>5. v \in Nat /\ items[i].version["price_per_unit"] <= v
    BY <2>4
  <2>6. /\ new \in Item /\ new.version["price_per_unit"] = v
        /\ new.version["quantity"] = items[i].version["quantity"]
        /\ new.product_name = items[i].product_name /\ new.seller = items[i].seller
        /\ new.wishlist = items[i].wishlist
        /\ new.rating = items[i].rating /\ new.raters = items[i].raters
        /\ new.stars = items[i].stars
    <3>1. req[c].quantity \in Nat
      BY <2>3 DEF UpdateReq
    <3> HIDE DEF v
    <3>2. Sets(new, items[i], "price_per_unit", v)
      BY <2>4, <2>5, <3>1, AttributeSet, Attributes
    <3> HIDE DEF new
    <3> QED  BY <3>2, Attributes DEF Sets
  <2> HIDE DEF new
  <2>7. PriceFirst(items[i]) /\ RatingOK(items[i])
    BY <2>1 DEF ItemsOK
  <2>8. PriceFirst(new) /\ RatingOK(new)
    BY <2>4, <2>5, <2>6, <2>7 DEF PriceFirst, RatingOK
  <2> HIDE DEF v
  <2>9. /\ at' \in [Shopper -> Places] /\ at'[c] = "write"
        /\ \A d \in Shopper \ {c} : at'[d] = at[d]
    BY <2>2, Moves DEF Places, Working
  <2>10. \A d \in Shopper : at'[d] = "read" <=> at[d] = "read"
    BY <1>1, <2>9
  <2>11. /\ items' \in Seq(Item) /\ Ids' = Ids
         /\ items'[i] = new /\ \A j \in Ids \ {i} : items'[j] = items[j]
         /\ ItemsOK' /\ Listings' /\ OneOfAName' /\ items_dict' \subseteq Ids'
    BY <1>1, <2>1, <2>2, <2>5, <2>6, <2>8, <2>10, ItemChange
  <2>12. \A d \in Shopper \ {c} : at[d] \notin Changing
    BY <1>1, OnlyHolder
  <2>13. ChangesHoldMutex'
    BY <2>2, <2>9, <2>12 DEF ChangesHoldMutex, Changing
  <2>14. Steps'
    BY <1>1, <2>1, <2>3, <2>9, <2>11, <2>12 DEF Steps, StepOK, Changing, UpdateReq
  <2>15. Typed'
    BY <1>1, <2>2, <2>9, <2>11 DEF Typed, Places
  <2>16. ASSUME NEW j \in Ids, NEW b \in Buyer
         PROVE  Called(j, b)'
    <3>1. CASE j = i
      <4>1. req'[c].item_id = j /\ at'[c] = "write"
        BY <1>1, <2>9, <3>1
      <4>2. WillCall(c, j, b)'
        BY <4>1 DEF WillCall
      <4> QED  BY <4>2 DEF Called
    <3>2. CASE j # i
      <4>1. items'[j] = items[j]
        BY <2>11, <3>2
      <4>2. Contains(items[j].wishlist, b) =>
              called[b][j] = items[j].version["price_per_unit"]
        BY <1>1, AllCalled
      <4> QED  BY <1>1, <4>1, <4>2 DEF Called
    <3> QED  BY <3>1, <3>2
  <2>17. Wishes'
    BY <2>11, <2>16 DEF Wishes
  <2> QED  BY <2>11, <2>13, <2>14, <2>15, <2>17
<1> QED  BY <1>2, <1>3

\* A change by a handler that has, and keeps, the mutex and goes on to notify the clients
\* in the list: those it was to tell are in it.
LEMMA ToNotify ==
  ASSUME MarketInv, NEW c \in Shopper, at[c] \in {"write", "take"}, NEW i \in Ids,
         i = req[c].item_id, NEW new \in Item, NEW list \in Seq(Shopper),
         items' = [items EXCEPT ![i] = new], todo' = [todo EXCEPT ![c] = list],
         at' = [at EXCEPT ![c] = "notify"],
         UNCHANGED <<sellers, items_dict, holder, running, uuid, req, listing, called>>,
         new.product_name = items[i].product_name, new.seller = items[i].seller,
         new.wishlist = items[i].wishlist,
         new.version["price_per_unit"] = items[i].version["price_per_unit"],
         PriceFirst(new), RatingOK(new),
         at[c] = "write" => list = items[i].wishlist
  PROVE  MarketInv'
<1> USE DEF MarketInv
<1>1. /\ at' \in [Shopper -> Places] /\ at'[c] = "notify"
      /\ \A d \in Shopper \ {c} : at'[d] = at[d]
  BY Moves DEF Places, Working
<1>2. \A d \in Shopper : at'[d] = "read" <=> at[d] = "read"
  BY <1>1
<1>3. items[i].version["price_per_unit"] <= new.version["price_per_unit"]
  <2>1. items[i].version["price_per_unit"] \in Nat
    BY ItemsFunction, Attributes DEF Item
  <2> QED  BY <2>1
<1>4. /\ items' \in Seq(Item) /\ Ids' = Ids
      /\ items'[i] = new /\ \A j \in Ids \ {i} : items'[j] = items[j]
      /\ ItemsOK' /\ Listings' /\ OneOfAName' /\ items_dict' \subseteq Ids'
  BY <1>2, <1>3, ItemChange
<1>5. holder = c
  BY DEF ChangesHoldMutex
<1>6. \A d \in Shopper \ {c} : at[d] \notin Changing
  BY <1>5, OnlyHolder
<1>7. ChangesHoldMutex'
  BY <1>1, <1>5, <1>6 DEF ChangesHoldMutex, Changing
<1>8. Steps'
  BY <1>1, <1>4, <1>6 DEF Steps, StepOK, Changing
<1>9. todo' \in [Shopper -> Seq(Shopper)] /\ todo'[c] = list
      /\ \A d \in Shopper \ {c} : todo'[d] = todo[d]
  BY DEF Typed
<1>10. Typed'
  BY <1>1, <1>4, <1>9 DEF Typed, Places
<1>11. ASSUME NEW j \in Ids, NEW b \in Buyer
       PROVE  Called(j, b)'
  <2>1. Called(j, b)
    BY DEF Wishes
  <2>2. /\ items'[j].wishlist = items[j].wishlist
        /\ items'[j].version["price_per_unit"] = items[j].version["price_per_unit"]
    BY <1>4
  <2>3. \A d \in Shopper \ {c} : WillCall(d, j, b) => WillCall(d, j, b)'
    BY <1>1, <1>9 DEF WillCall
  <2>4. Contains(items[j].wishlist, b) /\ WillCall(c, j, b) => WillCall(c, j, b)'
    BY <1>1, <1>9 DEF WillCall
  <2> QED  BY <2>1, <2>2, <2>3, <2>4 DEF Called
<1>12. Wishes'
  BY <1>4, <1>11 DEF Wishes
<1> QED  BY <1>4, <1>7, <1>8, <1>10, <1>12

LEMMA EndUpdateStep ==
  ASSUME MarketInv, NEW c \in Shopper, EndUpdate(c)
  PROVE  MarketInv'
<1> DEFINE i == req[c].item_id
           v == items[i].version["price_per_unit"]
           new == SetAttribute(items[i], "quantity", v, req[c].quantity)
<1>1. at[c] = "write" /\ i \in Ids /\ req[c].quantity \in Nat
  BY DEF EndUpdate, MarketInv, Steps, StepOK
<1>2. DOMAIN items = Ids /\ items[i] \in Item
  BY <1>1, ItemsFunction DEF MarketInv
<1>3. v \in Nat /\ items[i].wishlist \in Seq(Shopper)
  BY <1>2, Attributes DEF Item
<1>4. /\ items' = [items EXCEPT ![i] = new]
      /\ todo' = [todo EXCEPT ![c] = items[i].wishlist]
      /\ at' = [at EXCEPT ![c] = "notify"]
      /\ UNCHANGED <<sellers, items_dict, holder, running, uuid, req, listing, called>>
  BY <1>1, <1>2, Attributes DEF EndUpdate, Goto
<1>5. /\ new \in Item /\ new.version["quantity"] = v /\ new.version["price_per_unit"] = v
      /\ new.product_name = items[i].product_name /\ new.seller = items[i].seller
      /\ new.wishlist = items[i].wishlist
      /\ new.rating = items[i].rating /\ new.raters = items[i].raters
      /\ new.stars = items[i].stars
  <2> HIDE DEF v
  <2>1. Sets(new, items[i], "quantity", v)
    BY <1>1, <1>2, <1>3, AttributeSet, Attributes
  <2> HIDE DEF new
  <2>2. /\ new \in Item /\ new.version["quantity"] = v
        /\ new.version["price_per_unit"] = items[i].version["price_per_unit"]
        /\ new.product_name = items[i].product_name /\ new.seller = items[i].seller
        /\ new.wishlist = items[i].wishlist
        /\ new.rating = items[i].rating /\ new.raters = items[i].raters
        /\ new.stars = items[i].stars
    BY <2>1, Attributes DEF Sets
  <2> QED  BY <2>2 DEF v
<1>6. RatingOK(items[i])
  BY <1>1 DEF MarketInv, ItemsOK
<1> HIDE DEF new
<1>7. PriceFirst(new) /\ RatingOK(new)
  BY <1>3, <1>5, <1>6 DEF PriceFirst, RatingOK
<1> HIDE DEF i
<1>8. i = req[c].item_id
  BY DEF i
<1> QED  BY <1>1, <1>3, <1>4, <1>5, <1>7, <1>8, ToNotify

\* The check of BeginBuy still holds: the mutex is held.
LEMMA EndBuyStep ==
  ASSUME MarketInv, NEW c \in Shopper, EndBuy(c)
  PROVE  MarketInv'
<1> DEFINE i == req[c].item_id
           n == items[i].quantity - req[c].quantity
           new == [items[i] EXCEPT !.quantity = n]
           list == <<items[i].seller[1]>>
<1>1. /\ at[c] = "take" /\ i \in Ids
      /\ req[c].quantity \in Nat /\ req[c].quantity <= items[i].quantity
  BY DEF EndBuy, MarketInv, Steps, StepOK
<1>2. DOMAIN items = Ids /\ items[i] \in Item
  BY <1>1, ItemsFunction DEF MarketInv
<1>3. n \in Nat /\ list \in Seq(Shopper)
  <2>1. items[i].quantity \in Nat /\ items[i].seller \in Seller \X Nat
    BY <1>2 DEF Item
  <2> QED  BY <1>1, <2>1 DEF Shopper
<1>4. /\ items' = [items EXCEPT ![i] = new]
      /\ todo' = [todo EXCEPT ![c] = list]
      /\ at' = [at EXCEPT ![c] = "notify"]
      /\ UNCHANGED <<sellers, items_dict, holder, running, uuid, req, listing, called>>
  BY <1>1, <1>2 DEF EndBuy, Goto
<1> HIDE DEF list, n
<1>5. /\ new \in Item /\ new.version = items[i].version
      /\ new.product_name = items[i].product_name /\ new.seller = items[i].seller
      /\ new.wishlist = items[i].wishlist
      /\ new.rating = items[i].rating /\ new.raters = items[i].raters
      /\ new.stars = items[i].stars
  BY <1>2, <1>3 DEF Item
<1>6. PriceFirst(items[i]) /\ RatingOK(items[i])
  BY <1>1 DEF MarketInv, ItemsOK
<1> HIDE DEF new
<1>7. PriceFirst(new) /\ RatingOK(new)
  BY <1>5, <1>6 DEF PriceFirst, RatingOK
<1> HIDE DEF i
<1>8. i = req[c].item_id
  BY DEF i
<1> QED  BY <1>1, <1>3, <1>4, <1>5, <1>7, <1>8, ToNotify

\* The mutex is taken for a purchase that was checked.
LEMMA BeginBuyStep ==
  ASSUME MarketInv, NEW c \in Shopper, BeginBuy(c)
  PROVE  MarketInv'
<1> USE DEF MarketInv
<1> DEFINE i == req[c].item_id n == req[c].quantity
           fits == i \in items_dict /\ n > 0 /\ items[i].quantity >= n
<1>1. /\ at[c] = "sent" /\ holder = NoOne
      /\ UNCHANGED <<sellers, items, items_dict, running, uuid, req, todo, listing, called>>
  BY DEF BeginBuy, Enters
<1>2. CASE ~fits
  <2>1. at' = [at EXCEPT ![c] = "idle"] /\ UNCHANGED holder
    BY <1>2 DEF BeginBuy, Goto
  <2> QED  BY <1>1, <2>1, EndsQuietly
<1>3. CASE fits
  <2>1. holder' = c /\ at' = [at EXCEPT ![c] = "take"]
    BY <1>3 DEF BeginBuy, Goto
  <2>2. req[c] \in BuyReq(Nat, Nat)
    BY MarketRequestTypes DEF BeginBuy, Enters
  <2>3. n \in Nat /\ i \in Ids
    BY <1>3, <2>2 DEF BuyReq, Typed
  <2>4. items[i].quantity \in Nat
    BY <2>3, ItemsFunction DEF Item
  <2>5. n <= items[i].quantity
    BY <1>3, <2>3, <2>4
  <2>6. /\ at' \in [Shopper -> Places] /\ at'[c] = "take"
        /\ \A d \in Shopper \ {c} : at'[d] = at[d]
    BY <2>1, Moves DEF Places, Working
  <2>7. \A d \in Shopper \ {c} : at[d] \notin Changing
    BY <1>1, OnlyHolder
  <2>8. Ids' = Ids
    BY <1>1 DEF Ids
  <2>9. Typed'
    BY <1>1, <2>1, <2>6, <2>8 DEF Typed, Places
  <2>10. ChangesHoldMutex'
    BY <2>1, <2>6, <2>7 DEF ChangesHoldMutex, Changing
  <2>11. Steps'
    BY <1>1, <2>3, <2>5, <2>6, <2>7, <2>8 DEF Steps, StepOK, Changing
  <2>12. ItemsOK' /\ OneOfAName'
    BY <1>1, <2>8 DEF ItemsOK, OneOfAName
  <2>13. Listings'
    BY <1>1, <2>6, <2>8 DEF Listings, ListingOK
  <2>14. ASSUME NEW j \in Ids, NEW b \in Buyer
         PROVE  Called(j, b)'
    <3>1. \A d \in Shopper : WillCall(d, j, b) => WillCall(d, j, b)'
      BY <1>1, <2>6 DEF WillCall
    <3>2. Called(j, b)
      BY DEF Wishes
    <3> QED  BY <1>1, <3>1, <3>2, CalledStill
  <2>15. Wishes'
    BY <2>8, <2>14 DEF Wishes
  <2> QED  BY <2>9, <2>10, <2>11, <2>12, <2>13, <2>15
<1> QED  BY <1>2, <1>3

\* Whoever is in a list is its head, or in its tail.
LEMMA HeadOrTail ==
  ASSUME NEW S, NEW s \in Seq(S), s # <<>>, NEW e, Contains(s, e)
  PROVE  e = Head(s) \/ Contains(Tail(s), e)
<1>1. PICK k \in 1..Len(s) : s[k] = e
  BY DEF Contains
<1>2. Head(s) = s[1]
  BY SMT
<1>3. /\ Len(s) \in Nat /\ Len(Tail(s)) = Len(s) - 1
      /\ \A j \in 1..Len(Tail(s)) : Tail(s)[j] = s[j + 1]
  BY LenProperties, HeadTailProperties
<1>4. CASE k = 1
  BY <1>1, <1>2, <1>4
<1>5. CASE k # 1
  <2>1. k - 1 \in 1..Len(Tail(s)) /\ k - 1 + 1 = k
    BY <1>3, <1>5
  <2>2. Tail(s)[k - 1] = e
    BY <1>1, <1>3, <2>1
  <2> QED  BY <2>1, <2>2 DEF Contains
<1> QED  BY <1>4, <1>5

\* The first client in the list is called, whatever becomes of the call.
LEMMA NotifyStep ==
  ASSUME MarketInv, NEW c \in Shopper, Notify(c)
  PROVE  MarketInv'
<1> USE DEF MarketInv
<1> DEFINE to == Head(todo[c]) i == req[c].item_id
           price == items[i].version["price_per_unit"]
<1>1. /\ at[c] = "notify" /\ todo[c] # <<>> /\ running[to] # "stuck"
      /\ todo' = [todo EXCEPT ![c] = Tail(todo[c])]
      /\ called' = IF to \in Buyer THEN [called EXCEPT ![to][i] = price] ELSE called
      /\ UNCHANGED <<sellers, items, items_dict, holder, running, uuid, at, req, listing>>
  BY DEF Notify, Rest
<1>2. i \in Ids
  BY <1>1 DEF Steps, StepOK
<1>3. price \in Nat
  BY <1>2, ItemsFunction, Attributes DEF Item
<1>4. todo[c] \in Seq(Shopper) /\ to \in Shopper /\ Tail(todo[c]) \in Seq(Shopper)
  BY <1>1, HeadTailProperties DEF Typed
<1>5. Ids' = Ids
  BY <1>1 DEF Ids
<1> HIDE DEF price
<1>6. /\ called' \in [Buyer -> [Ids -> Nat]]
      /\ \A b \in Buyer, j \in Ids :
           called'[b][j] = IF b = to /\ j = i THEN price ELSE called[b][j]
  <2>1. called \in [Buyer -> [Ids -> Nat]]
    BY DEF Typed
  <2>2. CASE to \in Buyer
    <3>1. called' = [called EXCEPT ![to][i] = price]
      BY <1>1, <2>2
    <3> HIDE DEF to, i
    <3> QED  BY <1>2, <1>3, <2>1, <2>2, <3>1
  <2>3. CASE to \notin Buyer
    BY <1>1, <2>1, <2>3
  <2> QED  BY <2>2, <2>3
<1>7. todo' \in [Shopper -> Seq(Shopper)] /\ todo'[c] = Tail(todo[c])
      /\ \A d \in Shopper \ {c} : todo'[d] = todo[d]
  BY <1>1, <1>4 DEF Typed
<1>8. Typed'
  BY <1>1, <1>5, <1>6, <1>7 DEF Typed
<1>9. ChangesHoldMutex' /\ Steps' /\ ItemsOK' /\ Listings' /\ OneOfAName'
  BY <1>1, <1>5 DEF ChangesHoldMutex, Steps, StepOK, ItemsOK, Listings, ListingOK, OneOfAName
<1>10. ASSUME NEW j \in Ids, NEW b \in Buyer
       PROVE  Called(j, b)'
  <2>1. Called(j, b)
    BY DEF Wishes
  <2>2. \A d \in Shopper \ {c} : WillCall(d, j, b) => WillCall(d, j, b)'
    BY <1>1, <1>7 DEF WillCall
  <2>3. called[b][j] = items[j].version["price_per_unit"] =>
          called'[b][j] = items[j].version["price_per_unit"]
    BY <1>6 DEF price
  <2>4. WillCall(c, j, b) =>
          WillCall(c, j, b)' \/ called'[b][j] = items[j].version["price_per_unit"]
    <3>1. SUFFICES ASSUME WillCall(c, j, b)
                   PROVE  WillCall(c, j, b)' \/ called'[b][j] = items[j].version["price_per_unit"]
      OBVIOUS
    <3>2. j = i /\ Contains(todo[c], b)
      BY <1>1, <3>1 DEF WillCall
    <3>3. b = to \/ Contains(Tail(todo[c]), b)
      BY <1>1, <1>4, <3>2, HeadOrTail
    <3>4. CASE b = to
      BY <1>6, <3>2, <3>4 DEF price
    <3>5. CASE Contains(Tail(todo[c]), b)
      BY <1>1, <1>7, <3>2, <3>5 DEF WillCall
    <3> QED  BY <3>3, <3>4, <3>5
  <2> QED  BY <1>1, <2>1, <2>2, <2>3, <2>4 DEF Called
<1>11. Wishes'
  BY <1>5, <1>10 DEF Wishes
<1> QED  BY <1>8, <1>9, <1>11

LEMMA NotifiedStep ==
  ASSUME MarketInv, NEW c \in Shopper, Notified(c)
  PROVE  MarketInv'
<1> USE DEF MarketInv
<1>1. /\ at[c] = "notify" /\ todo[c] = <<>>
      /\ holder' = NoOne /\ at' = [at EXCEPT ![c] = "idle"]
      /\ UNCHANGED <<sellers, items, items_dict, running, uuid, req, todo, listing, called>>
  BY DEF Notified, Goto
<1>2. /\ at' \in [Shopper -> Places] /\ at'[c] = "idle"
      /\ \A d \in Shopper \ {c} : at'[d] = at[d]
  BY <1>1, Moves DEF Places
<1>3. holder = c
  BY <1>1 DEF ChangesHoldMutex
<1>4. \A d \in Shopper \ {c} : at[d] \notin Changing
  BY <1>3, OnlyHolder
<1>5. ChangesHoldMutex'
  BY <1>1, <1>2, <1>4, MarketAssumption DEF ChangesHoldMutex, Changing
<1>6. Ids' = Ids
  BY <1>1 DEF Ids
<1>7. Typed'
  BY <1>1, <1>2, <1>6 DEF Typed, Places
<1>8. Steps'
  BY <1>1, <1>2, <1>6 DEF Steps, StepOK
<1>9. ItemsOK' /\ OneOfAName'
  BY <1>1, <1>6 DEF ItemsOK, OneOfAName
<1>10. Listings'
  BY <1>1, <1>2, <1>6 DEF Listings, ListingOK
<1>11. ASSUME NEW j \in Ids, NEW b \in Buyer
       PROVE  Called(j, b)'
  <2>1. ~Contains(todo[c], b)
    BY <1>1, EmptySeq DEF Contains
  <2>2. \A d \in Shopper : WillCall(d, j, b) => WillCall(d, j, b)'
    BY <1>1, <1>2, <2>1 DEF WillCall
  <2>3. Called(j, b)
    BY DEF Wishes
  <2> QED  BY <1>1, <2>2, <2>3, CalledStill
<1>12. Wishes'
  BY <1>6, <1>11 DEF Wishes
<1> QED  BY <1>5, <1>7, <1>8, <1>9, <1>10, <1>12

\* A wish is written down: the buyer is called about the updates to come.
LEMMA WishStep ==
  ASSUME MarketInv, NEW c \in Shopper, AddToWishList(c)
  PROVE  MarketInv'
<1> USE DEF MarketInv
<1> DEFINE i == req[c].item_id
           price == items[i].version["price_per_unit"]
           list == WishedBy(items[i].wishlist, c)
           new == [items[i] EXCEPT !.wishlist = list]
<1>1. /\ at[c] = "sent" /\ holder = NoOne
      /\ UNCHANGED <<sellers, items_dict, holder, running, uuid, req, todo, listing>>
  BY DEF AddToWishList, Enters
<1>2. CASE i \notin items_dict
  <2>1. at' = [at EXCEPT ![c] = "ended"] /\ UNCHANGED <<items, called>>
    BY <1>2 DEF AddToWishList, Goto
  <2> QED  BY <1>1, <2>1, EndsQuietly
<1>3. CASE i \in items_dict
  <2>1. i \in Ids /\ DOMAIN items = Ids /\ items[i] \in Item
    BY <1>3, ItemsFunction DEF Typed
  <2>2. /\ items' = [items EXCEPT ![i] = new]
        /\ called' = IF Contains(items[i].wishlist, c) THEN called ELSE [called EXCEPT ![c][i] = price]
        /\ at' = [at EXCEPT ![c] = "idle"]
    BY <1>3, <2>1 DEF AddToWishList, Goto
  <2>3. c \in Buyer
    BY MarketRequestTypes DEF AddToWishList, Enters
  <2>4. items[i].wishlist \in Seq(Shopper) /\ price \in Nat
    BY <2>1, Attributes DEF Item
  <2>5. /\ list \in Seq(Shopper)
        /\ \A b \in Buyer \ {c} : Contains(list, b) => Contains(items[i].wishlist, b)
    <3>1. CASE Contains(items[i].wishlist, c)
      BY <2>4, <3>1 DEF WishedBy
    <3>2. CASE ~Contains(items[i].wishlist, c)
      <4> DEFINE old == items[i].wishlist
      <4>1. list = Append(old, c) /\ old \in Seq(Shopper) /\ Len(old) \in Nat
        BY <2>4, <3>2, LenProperties DEF WishedBy
      <4> HIDE DEF list, old
      <4>2. /\ list \in Seq(Shopper) /\ Len(list) = Len(old) + 1
            /\ \A k \in 1..Len(old) : list[k] = old[k]
            /\ list[Len(old) + 1] = c
        BY <4>1, AppendProperties
      <4>3. ASSUME NEW b \in Buyer \ {c}, Contains(list, b)
            PROVE  Contains(old, b)
        <5>1. PICK k \in 1..Len(list) : list[k] = b
          BY <4>3 DEF Contains
        <5>2. k \in 1..Len(old) \/ k = Len(old) + 1
          BY <4>1, <4>2
        <5> QED  BY <4>2, <4>3, <5>1, <5>2 DEF Contains
      <4> QED  BY <4>2, <4>3 DEF old
    <3> QED  BY <3>1, <3>2
  <2> HIDE DEF list
  <2>6. /\ new \in Item /\ new.version = items[i].version /\ new.wishlist = list
        /\ new.product_name = items[i].product_name /\ new.seller = items[i].seller
        /\ new.rating = items[i].rating /\ new.raters = items[i].raters
        /\ new.stars = items[i].stars /\ new.quantity = items[i].quantity
    BY <2>1, <2>5 DEF Item
  <2> HIDE DEF new
  <2>7. PriceFirst(items[i]) /\ RatingOK(items[i])
    BY <2>1 DEF ItemsOK
  <2>8. PriceFirst(new) /\ RatingOK(new) /\ price <= new.version["price_per_unit"]
    BY <2>4, <2>6, <2>7 DEF PriceFirst, RatingOK
  <2>9. /\ at' \in [Shopper -> Places] /\ at'[c] = "idle"
        /\ \A d \in Shopper \ {c} : at'[d] = at[d]
    BY <2>2, Moves DEF Places
  <2>10. \A d \in Shopper : at'[d] = "read" <=> at[d] = "read"
    BY <1>1, <2>9
  <2>11. /\ items' \in Seq(Item) /\ Ids' = Ids
         /\ items'[i] = new /\ \A j \in Ids \ {i} : items'[j] = items[j]
         /\ ItemsOK' /\ Listings' /\ OneOfAName' /\ items_dict' \subseteq Ids'
    BY <1>1, <2>1, <2>2, <2>6, <2>8, <2>10, ItemChange
  <2>12. ChangesHoldMutex'
    BY <1>1, <2>9 DEF ChangesHoldMutex
  <2>13. Steps'
    BY <1>1, <2>6, <2>9, <2>11 DEF Steps, StepOK
  <2> HIDE DEF price
  <2>14. /\ called' \in [Buyer -> [Ids -> Nat]]
         /\ \A b \in Buyer, j \in Ids :
              called'[b][j] = IF b = c /\ j = i /\ ~Contains(items[i].wishlist, c) THEN price ELSE called[b][j]
    <3>1. called \in [Buyer -> [Ids -> Nat]]
      BY DEF Typed
    <3>2. CASE Contains(items[i].wishlist, c)
      BY <2>2, <3>1, <3>2
    <3>3. CASE ~Contains(items[i].wishlist, c)
      <4>1. called' = [called EXCEPT ![c][i] = price]
        BY <2>2, <3>3
      <4> HIDE DEF i
      <4> QED  BY <2>1, <2>3, <2>4, <3>1, <3>3, <4>1
    <3> QED  BY <3>2, <3>3
  <2>15. Typed'
    BY <1>1, <2>9, <2>11, <2>14 DEF Typed, Places
  <2>16. ASSUME NEW j \in Ids, NEW b \in Buyer
         PROVE  Called(j, b)'
    <3>1. Contains(items[j].wishlist, b) =>
            called[b][j] = items[j].version["price_per_unit"]
      BY <1>1, AllCalled
    <3>2. CASE j # i
      <4>1. items'[j] = items[j] /\ called'[b][j] = called[b][j]
        BY <2>11, <2>14, <3>2
      <4> QED  BY <1>1, <3>1, <4>1 DEF Called
    <3>3. CASE j = i
      <4>1. items'[j].version["price_per_unit"] = price /\ items'[j].wishlist = list
        BY <2>6, <2>11, <3>3 DEF price
      <4>2. CASE b = c
        BY <1>1, <2>14, <3>1, <3>3, <4>1, <4>2 DEF Called, price
      <4>3. CASE b # c
        <5>1. called'[b][j] = called[b][j]
          BY <2>14, <4>3
        <5>2. Contains(list, b) => Contains(items[j].wishlist, b)
          BY <2>5, <3>3, <4>3
        <5> QED  BY <1>1, <3>1, <3>3, <4>1, <5>1, <5>2 DEF Called, price
      <4> QED  BY <4>2, <4>3
    <3> QED  BY <3>2, <3>3
  <2>17. Wishes'
    BY <2>11, <2>16 DEF Wishes
  <2> QED  BY <2>11, <2>12, <2>13, <2>15, <2>17
<1> QED  BY <1>2, <1>3

LEMMA RateStep ==
  ASSUME MarketInv, NEW c \in Shopper, RateItem(c)
  PROVE  MarketInv'
<1> USE DEF MarketInv
<1> DEFINE i == req[c].item_id stars == req[c].rating
           rates == i \in items_dict /\ stars \in RATED /\ c \notin items[i].raters
<1>1. /\ at[c] = "sent" /\ at' = [at EXCEPT ![c] = "idle"]
      /\ UNCHANGED <<sellers, items_dict, holder, running, uuid, req, todo, listing, called>>
  BY DEF RateItem, Enters, Goto
<1>2. CASE ~rates
  <2>1. UNCHANGED items
    BY <1>2 DEF RateItem
  <2> QED  BY <1>1, <2>1, EndsQuietly
<1>3. CASE rates
  <2>1. PICK new \in AddRating(items[i], c, stars) : items' = [items EXCEPT ![i] = new]
    BY <1>3 DEF RateItem
  <2>2. i \in Ids /\ items[i] \in Item /\ RatingOK(items[i]) /\ PriceFirst(items[i])
    BY <1>3, ItemsFunction DEF Typed, ItemsOK
  <2>3. /\ new \in Item /\ RatingOK(new)
        /\ new.product_name = items[i].product_name /\ new.seller = items[i].seller
        /\ new.version = items[i].version /\ new.wishlist = items[i].wishlist
        /\ new.quantity = items[i].quantity
    BY <1>3, <2>2, OneMoreRating
  <2>4. PriceFirst(new)
    BY <2>2, <2>3 DEF PriceFirst
  <2>5. items[i].version["price_per_unit"] <= new.version["price_per_unit"]
    <3>1. items[i].version["price_per_unit"] \in Nat
      BY <2>2, Attributes DEF Item
    <3> QED  BY <2>3, <3>1
  <2>6. /\ at' \in [Shopper -> Places] /\ at'[c] = "idle"
        /\ \A d \in Shopper \ {c} : at'[d] = at[d]
    BY <1>1, Moves DEF Places
  <2>7. \A d \in Shopper : at'[d] = "read" <=> at[d] = "read"
    BY <1>1, <2>6
  <2>8. /\ items' \in Seq(Item) /\ Ids' = Ids
        /\ items'[i] = new /\ \A j \in Ids \ {i} : items'[j] = items[j]
        /\ ItemsOK' /\ Listings' /\ OneOfAName' /\ items_dict' \subseteq Ids'
    BY <1>1, <2>1, <2>2, <2>3, <2>4, <2>5, <2>7, ItemChange
  <2>9. ChangesHoldMutex'
    BY <1>1, <2>6 DEF ChangesHoldMutex
  <2>10. Steps'
    BY <1>1, <2>3, <2>6, <2>8 DEF Steps, StepOK
  <2>11. Typed'
    BY <1>1, <2>6, <2>8 DEF Typed, Places
  <2>12. ASSUME NEW j \in Ids, NEW b \in Buyer
         PROVE  Called(j, b)'
    <3>1. \A d \in Shopper : WillCall(d, j, b) => WillCall(d, j, b)'
      BY <1>1, <2>6 DEF WillCall
    <3>2. Called(j, b)
      BY DEF Wishes
    <3>3. items'[j].wishlist = items[j].wishlist /\ items'[j].version = items[j].version
      BY <2>3, <2>8
    <3> QED  BY <1>1, <3>1, <3>2, <3>3, CalledStill
  <2>13. Wishes'
    BY <2>8, <2>12 DEF Wishes
  <2> QED  BY <2>8, <2>9, <2>10, <2>11, <2>13
<1> QED  BY <1>2, <1>3

-----------------------------------------------------------------------------
(***************************************************************************)
(* The invariant, and what it implies                                      *)
(***************************************************************************)
LEMMA InitInv == MarketInit => MarketInv
<1> SUFFICES ASSUME MarketInit
             PROVE  MarketInv
  OBVIOUS
<1> USE DEF MarketInit
<1>1. items = <<>> /\ Ids = {} /\ items_dict = {} /\ holder = NoOne
  BY EmptySeq DEF Ids
<1>2. \A c \in Shopper : at[c] = "idle" /\ listing[c] = NoListing /\ req[c] = [op |-> "none"]
  OBVIOUS
<1>3. Typed
  <2>1. items \in Seq(Item) /\ items_dict \subseteq Ids
    BY <1>1, EmptySeq
  <2>2. at \in [Shopper -> Working \cup {"idle", "sent", "ended"}]
        /\ running \in [Shopper -> {"up", "gone", "stuck"}]
        /\ uuid \in [Seller -> Nat]
    OBVIOUS
  <2>3. /\ DOMAIN req = Shopper /\ req = [c \in Shopper |-> req[c]]
        /\ \A c \in Shopper : req[c] \in Requests(c)
    BY <1>2 DEF Requests
  <2>4. todo \in [Shopper -> Seq(Shopper)] /\ listing \in [Shopper -> Listing]
    BY EmptySeq, NoListingOK
  <2>5. called \in [Buyer -> [Ids -> Nat]]
    <3>1. <<>> \in Seq(Nat) /\ Len(<<>>) = 0
      BY EmptySeq
    <3>2. <<>> \in [1..0 -> Nat]
      BY <3>1, LenProperties
    <3>3. <<>> \in [Ids -> Nat]
      BY <1>1, <3>2
    <3> QED  BY <3>3
  <2> QED  BY <1>1, <2>1, <2>2, <2>3, <2>4, <2>5 DEF Typed
<1>4. ChangesHoldMutex
  BY <1>1, <1>2, MarketAssumption DEF ChangesHoldMutex
<1>5. Steps /\ ItemsOK /\ OneOfAName /\ Wishes
  BY <1>1, <1>2 DEF Steps, StepOK, ItemsOK, OneOfAName, Wishes
<1>6. Listings
  <2>1. NoListing.ids = {}
    BY DEF NoListing
  <2> QED  BY <1>2, <2>1, NoListingOK DEF Listings, ListingOK
<1> QED  BY <1>3, <1>4, <1>5, <1>6 DEF MarketInv

LEMMA NextInv == MarketInv /\ [MarketNext]_marketvars => MarketInv'
<1> SUFFICES ASSUME MarketInv, [MarketNext]_marketvars
             PROVE  MarketInv'
  OBVIOUS
<1>1. ASSUME NEW c \in Shopper, ServeCall(c)
      PROVE  MarketInv'
  BY <1>1, RegisterStep, SellStep, BeginUpdateStep, EndUpdateStep, DeleteStep, NotifyStep,
     NotifiedStep, BeginBuyStep, EndBuyStep, WishStep, RateStep, DisplayStep, SearchStep,
     BeginViewStep, ReadItemStep, ReadOnStep, EndListingStep DEF ServeCall
<1>2. ASSUME NEW c \in Seller, StartSeller(c)
      PROVE  MarketInv'
  BY <1>2, StartSellerStep
<1>3. ASSUME NEW c \in Buyer, StartBuyer(c)
      PROVE  MarketInv'
  BY <1>3, StartBuyerStep
<1>4. ASSUME NEW c \in Seller, NEW r \in SellerRequests, Command(c, r)
      PROVE  MarketInv'
  <2>1. c \in Shopper /\ r \in Requests(c)
    BY MarketAssumption DEF Shopper, Requests
  <2> QED  BY <1>4, <2>1, CommandStep
<1>5. ASSUME NEW c \in Buyer, NEW r \in BuyerRequests, Command(c, r)
      PROVE  MarketInv'
  <2>1. c \in Shopper /\ r \in Requests(c)
    BY DEF Shopper, Requests
  <2> QED  BY <1>5, <2>1, CommandStep
<1>6. ASSUME NEW c \in Shopper, Goes(c) \/ Hangs(c) \/ Resumes(c)
      PROVE  MarketInv'
  BY <1>6, BecomesStep DEF Goes, Hangs, Resumes
<1>7. CASE UNCHANGED marketvars
  BY <1>7 DEF marketvars, MarketInv, Typed, Ids, ChangesHoldMutex, Steps, StepOK, ItemsOK,
              Listings, ListingOK, OneOfAName, Wishes, Called, WillCall
<1> QED  BY <1>1, <1>2, <1>3, <1>4, <1>5, <1>6, <1>7 DEF MarketNext, MarketServes

\* The inductive invariant holds whatever sellers, buyers and handlers do, in any order.
THEOREM MarketInvariance == MarketSpec => []MarketInv
<1>1. MarketInit => MarketInv
  BY InitInv
<1>2. MarketInv /\ [MarketNext]_marketvars => MarketInv'
  BY NextInv
<1> QED  BY <1>1, <1>2, PTL DEF MarketSpec

\* Whoever is in the middle of a change holds the mutex, and the other way round
\* (market.py:241, 301).
THEOREM MutexHeld == MarketSpec => []ChangesHoldMutex
<1>1. MarketInv => ChangesHoldMutex
  BY DEF MarketInv
<1> QED  BY <1>1, MarketInvariance, PTL

\* A seller never has two items of one name on offer (sell_item), for any number of
\* sellers, names and restarts.
THEOREM NamesAreUnique == MarketSpec => []OneOfAName
<1>1. MarketInv => OneOfAName
  BY DEF MarketInv
<1> QED  BY <1>1, MarketInvariance, PTL

\* No purchase takes what is not there (buy_item), however many buy at a time.
THEOREM StockSuffices == MarketSpec => []NeverOversold
<1>1. MarketInv => NeverOversold
  <2>1. MarketInv => \A i \in DOMAIN items : items[i].quantity \in Nat
    BY ItemsFunction DEF MarketInv, Item
  <2>2. \A n \in Nat : n >= 0
    OBVIOUS
  <2> QED  BY <2>1, <2>2 DEF NeverOversold
<1> QED  BY <1>1, MarketInvariance, PTL

\* No listing shows the new stock of an item at its old price (Item.update sets the price
\* first, item_to_item_details reads it last), for any number of updates meanwhile.
THEOREM ListingsAreSafe == MarketSpec => []NoStockAtOldPrice
<1>1. MarketInv => NoStockAtOldPrice
  BY DEF MarketInv, Listings, ListingOK, NoStockAtOldPrice
<1> QED  BY <1>1, MarketInvariance, PTL

\* Every buyer in a wish list is called about every update of the item (update_item), the
\* one under way excepted, for any number of buyers, updates, failed calls and restarts.
THEOREM WishersAreCalled == MarketSpec => []WishersCalled
<1>1. MarketInv => WishersCalled
  <2>1. SUFFICES ASSUME MarketInv, NEW i \in DOMAIN items, NEW b \in Buyer,
                        Contains(items[i].wishlist, b),
                        called[b][i] # items[i].version["price_per_unit"]
                 PROVE  \E c \in Shopper :
                          /\ at[c] \in {"write", "notify"} /\ req[c].item_id = i
                          /\ at[c] = "notify" => Contains(todo[c], b)
    BY DEF WishersCalled
  <2>2. i \in Ids
    BY <2>1, ItemsFunction DEF MarketInv
  <2>3. Called(i, b)
    BY <2>1, <2>2 DEF MarketInv, Wishes
  <2>4. PICK c \in Shopper : WillCall(c, i, b)
    BY <2>1, <2>3 DEF Called
  <2> QED  BY <2>4 DEF WillCall
<1> QED  BY <1>1, MarketInvariance, PTL

\* The rating of an item stays near the mean of all its ratings (Rating.add_rating), for any
\* number of raters.
THEOREM RatingsStayNear == MarketSpec => []RatingDrift
<1>1. MarketInv => RatingDrift
  <2>1. MarketInv => \A i \in DOMAIN items : RatingOK(items[i])
    BY ItemsFunction DEF MarketInv, ItemsOK
  <2> QED  BY <2>1 DEF RatingDrift, RatingOK
<1> QED  BY <1>1, MarketInvariance, PTL

-----------------------------------------------------------------------------
(***************************************************************************)
(* The type invariant of the model, which needs more than MarketInv: who   *)
(* sells is registered, no one wishes twice, ratings are of five stars,    *)
(* and no more calls are worked on than there are threads.                 *)
(***************************************************************************)
WellKept(item) ==
  /\ IsInjective(item.wishlist)
  /\ item.rating \in {0} \cup 10..50
  /\ item.raters # {} => item.rating \in 10..50

Catalogue == \A i \in Ids : items[i].seller \in sellers /\ WellKept(items[i])
Threads == IsFiniteSet(Workers) /\ Cardinality(Workers) <= MAX_WORKERS

\* One item is replaced by another of the same seller.
LEMMA CatalogueReplaced ==
  ASSUME MarketInv, Catalogue, NEW i \in Ids, NEW new \in Item,
         items' = [items EXCEPT ![i] = new], new.seller = items[i].seller,
         WellKept(new), UNCHANGED sellers
  PROVE  Catalogue'
<1>1. Ids' = Ids /\ items'[i] = new /\ \A j \in Ids \ {i} : items'[j] = items[j]
  BY ItemReplaced DEF MarketInv
<1>2. ASSUME NEW j \in Ids
      PROVE  items'[j].seller \in sellers' /\ WellKept(items'[j])
  <2>1. items[j].seller \in sellers /\ WellKept(items[j])
    BY DEF Catalogue
  <2>2. CASE j = i
    BY <1>1, <2>1, <2>2
  <2>3. CASE j # i
    BY <1>1, <2>1, <2>3
  <2> QED  BY <2>2, <2>3
<1> QED  BY <1>1, <1>2 DEF Catalogue

\* Nothing but the registered sellers changes.
LEMMA CatalogueSame ==
  ASSUME MarketInv, Catalogue, UNCHANGED items, sellers \subseteq sellers'
  PROVE  Catalogue'
BY DEF Catalogue, Ids

\* A mean of ratings of at least one star is at least one star.
LEMMA MeanIsARating ==
  ASSUME NEW rating \in 10..50, NEW k \in Nat, NEW stars \in 1..5, NEW r \in NewMean(rating, k, stars)
  PROVE  r \in 10..50
<1> DEFINE num == rating * k + 10 * stars den == k + 1
<1>1. r \in Rounded(num, den) /\ num \in Nat /\ den \in Nat
  BY DEF NewMean
<1>2. r \in 0..50 /\ 2 * (num - r * den) <= den
  BY <1>1, RoundedIsNear
<1>3. num >= 10 * den
  <2>1. rating * k >= 10 * k
    <3>1. (rating - 10) * k >= 0
      OBVIOUS
    <3>2. (rating - 10) * k = rating * k - 10 * k
      OBVIOUS
    <3>3. rating * k \in Int
      OBVIOUS
    <3> QED  BY <3>1, <3>2, <3>3
  <2>2. rating * k \in Int
    OBVIOUS
  <2> QED  BY <2>1, <2>2
<1>4. CASE r < 10
  <2>1. (9 - r) * den >= 0
    BY <1>1, <1>2, <1>4
  <2>2. (9 - r) * den = 9 * den - r * den
    BY <1>1, <1>2
  <2>3. r * den \in Int /\ r * den <= 9 * den
    BY <1>1, <1>2, <2>1, <2>2
  <2> HIDE DEF num
  <2>4. 2 * (10 * den - 9 * den) <= den /\ den >= 1
    BY <1>1, <1>2, <1>3, <2>3
  <2> QED  BY <1>1, <2>4
<1> QED  BY <1>2, <1>4

\* What the service changes of its items
LEMMA CatalogueServed ==
  ASSUME MarketInv, Catalogue, NEW c \in Shopper, ServeCall(c)
  PROVE  Catalogue'
<1> USE DEF MarketInv
<1> DEFINE i == req[c].item_id
<1>0. DOMAIN items = Ids /\ \A j \in Ids : items[j] \in Item /\ WellKept(items[j])
  BY ItemsFunction DEF Catalogue
<1>1. CASE RegisterSeller(c)
  BY <1>1, CatalogueSame DEF RegisterSeller
<1>2. CASE SellItem(c)
  <2> DEFINE sold == Registered(c) /\ ~req[c].badPrice /\ ~Present(c, req[c].product_name)
             new == NewItem(c, req[c])
  <2>1. UNCHANGED sellers
    BY <1>2 DEF SellItem
  <2>2. CASE ~sold
    BY <1>2, <2>1, <2>2, CatalogueSame DEF SellItem
  <2>3. CASE sold
    <3>1. items' = Append(items, new) /\ Who(c) \in sellers
      BY <1>2, <2>3 DEF SellItem, Registered
    <3>2. new.seller = Who(c) /\ new.wishlist = <<>> /\ new.rating = 0 /\ new.raters = {}
      BY DEF NewItem
    <3>3. new \in Item
      <4>1. req[c] \in SellReq(STRING, STRING, Nat) /\ c \in Seller
        BY <1>2, MarketRequestTypes DEF SellItem, Enters
      <4>2. Who(c) \in Seller \X Nat
        BY <4>1 DEF Who, Typed
      <4>3. [a \in Attribute |-> 1] \in [Attribute -> Nat] /\ <<>> \in Seq(Shopper)
        BY EmptySeq
      <4> QED  BY <4>1, <4>2, <4>3 DEF NewItem, Item, SellReq
    <3> HIDE DEF new
    <3>4. WellKept(new)
      BY <3>2, EmptySeq DEF WellKept, IsInjective
    <3>5. /\ Len(items') = Len(items) + 1 /\ Len(items) \in Nat
          /\ \A j \in Ids : items'[j] = items[j]
          /\ items'[Len(items) + 1] = new
      BY <3>1, <3>3, AppendProperties, LenProperties DEF Typed, Ids
    <3>6. \A j \in Ids' : j \in Ids \/ j = Len(items) + 1
      BY <3>5 DEF Ids
    <3> QED  BY <2>1, <3>1, <3>2, <3>4, <3>5, <3>6 DEF Catalogue
  <2> QED  BY <2>2, <2>3
<1>3. CASE BeginUpdate(c)
  <2>1. UNCHANGED sellers
    BY <1>3 DEF BeginUpdate
  <2>2. CASE ~(Owns(c, i) /\ ~req[c].badPrice)
    BY <1>3, <2>1, <2>2, CatalogueSame DEF BeginUpdate
  <2>3. CASE Owns(c, i) /\ ~req[c].badPrice
    <3> DEFINE v == items[i].version["price_per_unit"] + 1
               new == SetAttribute(items[i], "price_per_unit", v, req[c].quantity)
    <3>1. i \in Ids /\ items[i] \in Item /\ WellKept(items[i])
      BY <1>0, <2>3 DEF Owns, Typed
    <3>2. items' = [items EXCEPT ![i] = new]
      BY <1>0, <1>3, <2>3, <3>1, Attributes DEF BeginUpdate
    <3>3. req[c].quantity \in Nat
      BY <1>3, MarketRequestTypes DEF BeginUpdate, Enters, UpdateReq
    <3>4. v \in Nat
      <4>1. items[i].version \in [Attribute -> Nat]
        BY <3>1 DEF Item
      <4>2. "price_per_unit" \in Attribute
        BY DEF Attribute
      <4> QED  BY <4>1, <4>2
    <3> HIDE DEF v
    <3>5. Sets(new, items[i], "price_per_unit", v)
      BY <3>1, <3>3, <3>4, AttributeSet, Attributes
    <3> HIDE DEF new
    <3>6. new \in Item /\ new.seller = items[i].seller /\ WellKept(new)
      BY <3>1, <3>5 DEF Sets, WellKept
    <3> QED  BY <2>1, <3>1, <3>2, <3>6, CatalogueReplaced
  <2> QED  BY <2>2, <2>3
<1>4. CASE EndUpdate(c)
  <2> DEFINE v == items[i].version["price_per_unit"]
             new == SetAttribute(items[i], "quantity", v, req[c].quantity)
  <2>1. i \in Ids /\ req[c].quantity \in Nat
    BY <1>4 DEF EndUpdate, Steps, StepOK
  <2>2. items[i] \in Item /\ WellKept(items[i])
    BY <1>0, <2>1
  <2>3. v \in Nat
    BY <2>2, Attributes DEF Item
  <2>4. items' = [items EXCEPT ![i] = new] /\ UNCHANGED sellers
    BY <1>0, <1>4, <2>1, Attributes DEF EndUpdate
  <2> HIDE DEF v
  <2>5. Sets(new, items[i], "quantity", v)
    BY <2>1, <2>2, <2>3, AttributeSet, Attributes
  <2> HIDE DEF new
  <2>6. new \in Item /\ new.seller = items[i].seller /\ WellKept(new)
    BY <2>2, <2>5 DEF Sets, WellKept
  <2> QED  BY <2>1, <2>4, <2>6, CatalogueReplaced
<1>5. CASE EndBuy(c)
  <2> DEFINE n == items[i].quantity - req[c].quantity
             new == [items[i] EXCEPT !.quantity = n]
  <2>1. i \in Ids /\ req[c].quantity \in Nat /\ req[c].quantity <= items[i].quantity
    BY <1>5 DEF EndBuy, Steps, StepOK
  <2>2. items[i] \in Item /\ WellKept(items[i])
    BY <1>0, <2>1
  <2>3. n \in Nat
    <3>1. items[i].quantity \in Nat
      BY <2>2 DEF Item
    <3> QED  BY <2>1, <3>1
  <2>4. items' = [items EXCEPT ![i] = new] /\ UNCHANGED sellers
    BY <1>0, <1>5, <2>1 DEF EndBuy
  <2> HIDE DEF n
  <2>5. /\ new \in Item /\ new.seller = items[i].seller /\ new.wishlist = items[i].wishlist
        /\ new.rating = items[i].rating /\ new.raters = items[i].raters
    BY <2>2, <2>3 DEF Item
  <2> HIDE DEF new
  <2>6. WellKept(new)
    BY <2>2, <2>5 DEF WellKept
  <2> QED  BY <2>1, <2>4, <2>5, <2>6, CatalogueReplaced
<1>6. CASE AddToWishList(c)
  <2> DEFINE old == items[i].wishlist list == WishedBy(old, c)
             new == [items[i] EXCEPT !.wishlist = list]
  <2>1. UNCHANGED sellers
    BY <1>6 DEF AddToWishList
  <2>2. CASE i \notin items_dict
    BY <1>6, <2>1, <2>2, CatalogueSame DEF AddToWishList
  <2>3. CASE i \in items_dict
    <3>1. i \in Ids /\ items[i] \in Item /\ WellKept(items[i])
      BY <1>0, <2>3 DEF Typed
    <3>2. items' = [items EXCEPT ![i] = new]
      BY <1>0, <1>6, <2>3, <3>1 DEF AddToWishList
    <3>3. old \in Seq(Shopper) /\ IsInjective(old)
      BY <3>1 DEF Item, WellKept
    <3> HIDE DEF old
    <3>4. list \in Seq(Shopper) /\ IsInjective(list)
      <4>1. CASE Contains(old, c)
        BY <3>3, <4>1 DEF WishedBy
      <4>2. CASE ~Contains(old, c)
        <5>1. list = Append(old, c)
          BY <4>2 DEF WishedBy
        <5> HIDE DEF list
        <5>2. /\ list \in Seq(Shopper) /\ Len(list) = Len(old) + 1 /\ Len(old) \in Nat
              /\ \A k \in 1..Len(old) : list[k] = old[k]
              /\ list[Len(old) + 1] = c
          BY <3>3, <5>1, AppendProperties, LenProperties
        <5>3. DOMAIN list = 1..Len(old) + 1 /\ DOMAIN old = 1..Len(old)
          BY <3>3, <5>2, LenProperties
        <5>4. \A k \in 1..Len(old) : old[k] # c
          BY <4>2 DEF Contains
        <5>5. \A k \in 1..Len(old) + 1 : k \in 1..Len(old) \/ k = Len(old) + 1
          BY <5>2
        <5>6. IsInjective(list)
          BY <3>3, <5>2, <5>3, <5>4, <5>5 DEF IsInjective
        <5> QED  BY <5>2, <5>6
      <4> QED  BY <4>1, <4>2
    <3> HIDE DEF list
    <3>5. /\ new \in Item /\ new.seller = items[i].seller /\ new.wishlist = list
          /\ new.rating = items[i].rating /\ new.raters = items[i].raters
      BY <3>1, <3>4 DEF Item
    <3> HIDE DEF new
    <3>6. WellKept(new)
      BY <3>1, <3>4, <3>5 DEF WellKept
    <3> QED  BY <2>1, <3>1, <3>2, <3>5, <3>6, CatalogueReplaced
  <2> QED  BY <2>2, <2>3
<1>7. CASE RateItem(c)
  <2> DEFINE stars == req[c].rating
             rates == i \in items_dict /\ stars \in RATED /\ c \notin items[i].raters
  <2>1. UNCHANGED sellers
    BY <1>7 DEF RateItem
  <2>2. CASE ~rates
    BY <1>7, <2>1, <2>2, CatalogueSame DEF RateItem
  <2>3. CASE rates
    <3>1. PICK new \in AddRating(items[i], c, stars) : items' = [items EXCEPT ![i] = new]
      BY <1>7, <2>3 DEF RateItem
    <3>2. i \in Ids /\ items[i] \in Item /\ RatingOK(items[i]) /\ WellKept(items[i])
      BY <1>0, <2>3 DEF Typed, ItemsOK
    <3>3. new \in Item /\ new.seller = items[i].seller /\ new.wishlist = items[i].wishlist
      BY <2>3, <3>2, OneMoreRating
    <3>4. PICK r \in IF items[i].raters = {} THEN {10 * stars}
                     ELSE NewMean(items[i].rating, Cardinality(items[i].raters), stars) :
            new = [items[i] EXCEPT !.rating = r, !.raters = @ \cup {c}, !.stars = @ + stars]
      BY DEF AddRating
    <3>5. new.rating = r
      BY <3>2, <3>4 DEF Item
    <3>6. r \in 10..50
      <4>1. stars \in 1..5
        BY <2>3 DEF RATED
      <4>2. CASE items[i].raters = {}
        BY <3>4, <4>1, <4>2
      <4>3. CASE items[i].raters # {}
        <5>1. items[i].rating \in 10..50 /\ Cardinality(items[i].raters) \in Nat
          BY <3>2, <4>3, FS_CardinalityType DEF WellKept, RatingOK
        <5> QED  BY <3>4, <4>1, <4>3, <5>1, MeanIsARating
      <4> QED  BY <4>2, <4>3
    <3>7. WellKept(new)
      BY <3>2, <3>3, <3>5, <3>6 DEF WellKept
    <3> QED  BY <2>1, <3>1, <3>2, <3>3, <3>7, CatalogueReplaced
  <2> QED  BY <2>2, <2>3
<1>8. CASE \/ DeleteItem(c) \/ Notify(c) \/ Notified(c) \/ BeginBuy(c) \/ DisplaySellerItems(c)
           \/ SearchItem(c) \/ BeginView(c) \/ ReadItem(c) \/ ReadOn(c) \/ EndListing(c)
  <2>1. UNCHANGED <<items, sellers>>
    BY <1>8 DEF DeleteItem, Notify, Notified, BeginBuy, DisplaySellerItems, SearchItem, BeginView,
                ReadItem, ReadOn, EndListing
  <2> QED  BY <2>1, CatalogueSame
<1> QED  BY <1>1, <1>2, <1>3, <1>4, <1>5, <1>6, <1>7, <1>8 DEF ServeCall

\* A call that was not worked on is so only when there is a thread for it.
LEMMA ThreadsMoved ==
  ASSUME MarketInv, Threads, NEW c \in Shopper, NEW p, at' = [at EXCEPT ![c] = p],
         at[c] \in Working \/ p \notin Working \/ Cardinality(Workers) < MAX_WORKERS
  PROVE  Threads'
<1>1. Cardinality(Workers) \in Nat /\ MAX_WORKERS \in Nat
  BY FS_CardinalityType, MarketAssumption DEF Threads
<1>2. at'[c] = p /\ \A d \in Shopper \ {c} : at'[d] = at[d]
  BY DEF MarketInv, Typed
<1>3. CASE at[c] \in Working \/ p \notin Working
  <2>1. Workers' \subseteq Workers
    BY <1>2, <1>3 DEF Workers
  <2>2. IsFiniteSet(Workers') /\ Cardinality(Workers') <= Cardinality(Workers)
    BY <2>1, FS_Subset DEF Threads
  <2>3. Cardinality(Workers') \in Nat
    BY <2>2, FS_CardinalityType
  <2> QED  BY <1>1, <2>2, <2>3 DEF Threads
<1>4. CASE Cardinality(Workers) < MAX_WORKERS
  <2>1. Workers' \subseteq Workers \cup {c}
    BY <1>2 DEF Workers
  <2>2. IsFiniteSet(Workers \cup {c}) /\ Cardinality(Workers \cup {c}) <= Cardinality(Workers) + 1
        /\ Cardinality(Workers \cup {c}) \in Nat
    BY <1>1, FS_AddElement DEF Threads
  <2>3. IsFiniteSet(Workers') /\ Cardinality(Workers') <= Cardinality(Workers \cup {c})
    BY <2>1, <2>2, FS_Subset
  <2>4. Cardinality(Workers') \in Nat
    BY <2>3, FS_CardinalityType
  <2> QED  BY <1>1, <1>4, <2>2, <2>3, <2>4 DEF Threads
<1> QED  BY <1>3, <1>4

LEMMA ThreadsServed ==
  ASSUME MarketInv, Threads, NEW c \in Shopper, ServeCall(c)
  PROVE  Threads'
<1>1. ASSUME NEW op, Enters(c, op), NEW p, at' = [at EXCEPT ![c] = p]
      PROVE  Threads'
  BY <1>1, ThreadsMoved DEF Enters
<1>2. ASSUME at[c] \in Working, NEW p, at' = [at EXCEPT ![c] = p]
      PROVE  Threads'
  BY <1>2, ThreadsMoved
<1>3. CASE RegisterSeller(c) \/ SellItem(c) \/ DeleteItem(c) \/ AddToWishList(c) \/ RateItem(c)
  BY <1>1, <1>3 DEF RegisterSeller, SellItem, DeleteItem, AddToWishList, RateItem, Goto
<1>4. CASE BeginUpdate(c) \/ BeginBuy(c) \/ DisplaySellerItems(c) \/ SearchItem(c)
  BY <1>1, <1>4 DEF BeginUpdate, BeginBuy, DisplaySellerItems, SearchItem, Goto
<1>5. CASE EndUpdate(c) \/ Notified(c) \/ EndBuy(c) \/ BeginView(c) \/ ReadItem(c)
           \/ ReadOn(c) \/ EndListing(c)
  BY <1>2, <1>5 DEF EndUpdate, Notified, EndBuy, BeginView, ReadItem, ReadOn, EndListing, Sees,
                    Goto, Working
<1>6. CASE Notify(c)
  <2>1. UNCHANGED at
    BY <1>6 DEF Notify
  <2> QED  BY <2>1 DEF Threads, Workers
<1> QED  BY <1>3, <1>4, <1>5, <1>6 DEF ServeCall

\* Who sells is registered, no one wishes twice for an item, ratings are of one to five
\* stars, and the service works on no more calls than it has threads.
THEOREM MarketTypes == MarketSpec => []MarketTypeOK
<1>1. MarketInit => Catalogue /\ Threads
  <2> SUFFICES ASSUME MarketInit
               PROVE  Catalogue /\ Threads
    OBVIOUS
  <2>1. Ids = {} /\ Workers = {}
    BY EmptySeq DEF MarketInit, Ids, Workers, Working
  <2> QED  BY <2>1, FS_EmptySet, MarketAssumption DEF Catalogue, Threads
<1>2. MarketInv /\ Catalogue /\ Threads /\ [MarketNext]_marketvars => (Catalogue /\ Threads)'
  <2> SUFFICES ASSUME MarketInv, Catalogue, Threads, [MarketNext]_marketvars
               PROVE  (Catalogue /\ Threads)'
    OBVIOUS
  <2>1. ASSUME NEW c \in Shopper, ServeCall(c)
        PROVE  (Catalogue /\ Threads)'
    BY <2>1, CatalogueServed, ThreadsServed
  <2>2. ASSUME NEW c \in Shopper, NEW r, Call(c, r), UNCHANGED <<items, sellers>>
        PROVE  (Catalogue /\ Threads)'
    <3>1. at' = [at EXCEPT ![c] = "sent"] /\ "sent" \notin Working
      BY <2>2 DEF Call, Working
    <3> QED  BY <2>2, <3>1, CatalogueSame, ThreadsMoved
  <2>3. ASSUME NEW c \in Seller, StartSeller(c)
        PROVE  (Catalogue /\ Threads)'
    BY <2>2, <2>3 DEF StartSeller, Shopper
  <2>4. ASSUME NEW c \in Shopper, NEW r, Command(c, r)
        PROVE  (Catalogue /\ Threads)'
    BY <2>2, <2>4 DEF Command
  <2>5. ASSUME UNCHANGED <<items, sellers, at>>
        PROVE  (Catalogue /\ Threads)'
    BY <2>5, CatalogueSame DEF Threads, Workers
  <2>6. ASSUME NEW c \in Shopper, Goes(c) \/ Hangs(c) \/ Resumes(c)
        PROVE  (Catalogue /\ Threads)'
    BY <2>5, <2>6 DEF Goes, Hangs, Resumes, Becomes
  <2>7. ASSUME NEW c \in Buyer, StartBuyer(c)
        PROVE  (Catalogue /\ Threads)'
    <3>1. at' = [at EXCEPT ![c] = "idle"] /\ "idle" \notin Working /\ c \in Shopper
      BY <2>7 DEF StartBuyer, Working, Shopper
    <3> QED  BY <2>7, <3>1, CatalogueSame, ThreadsMoved DEF StartBuyer
  <2>8. CASE UNCHANGED marketvars
    BY <2>5, <2>8 DEF marketvars
  <2> QED  BY <2>1, <2>3, <2>4, <2>6, <2>7, <2>8 DEF MarketNext, MarketServes, Shopper
<1>3. MarketInv /\ Catalogue /\ Threads => MarketTypeOK
  <2> SUFFICES ASSUME MarketInv, Catalogue, Threads
               PROVE  MarketTypeOK
    OBVIOUS
  <2>1. DOMAIN items = Ids /\ \A i \in Ids : items[i] \in Item
    BY ItemsFunction DEF MarketInv
  <2>2. \A i \in DOMAIN items : /\ items[i].seller \in sellers
                                /\ items[i].quantity \in Nat
                                /\ IsInjective(items[i].wishlist)
                                /\ items[i].rating \in {0} \cup 10..50
    BY <2>1 DEF Catalogue, WellKept, Item
  <2>3. /\ items_dict \subseteq DOMAIN items
        /\ holder \in Shopper \cup {NoOne}
        /\ at \in [Shopper -> Working \cup {"idle", "sent", "ended"}]
        /\ todo \in [Shopper -> Seq(Shopper)]
    BY <2>1 DEF MarketInv, Typed
  <2> QED  BY <2>2, <2>3 DEF MarketTypeOK, Threads
<1> QED  BY <1>1, <1>2, <1>3, MarketInvariance, PTL DEF MarketSpec

-----------------------------------------------------------------------------
(***************************************************************************)
(* Group chat: the inductive invariant                                     *)
(***************************************************************************)
Time == 0..SECONDS - 1
Message == [nr : Nat, time : Time, day : Nat]
Request ==
  [to : {"server", NoAnswer}] \cup [to : Group, op : {"join", "leave", "send"}]
    \cup [to : Group, op : {"get"}, since : Message]

ChatTyped ==
  /\ groups \in Seq(Group)
  /\ group \in [Group -> {"off", "registering", "serving", "dead"}]
  /\ clients \in [Group -> Seq(Member)]
  /\ message_store \in [Group -> Seq(Message)]
  /\ now \in [time : Time, day : Nat]
  /\ asks \in [Member -> Request]
  /\ shown \in [Member -> [Group -> SUBSET Message]]

\* A group is in the list once it was registered, and only once.
Listed ==
  /\ \A g \in Group : /\ group[g] = "serving" => Contains(groups, g)
                      /\ group[g] \in {"off", "registering"} => ~Contains(groups, g)
  /\ \A i, j \in 1..Len(groups) : groups[i] = groups[j] => i = j

\* m is not later than u.
NotLater(m, u) == m.day < u.day \/ (m.day = u.day /\ m.time <= u.time)

\* Messages are numbered in the order they are stored, which is the order of time.
StoreOK(s) ==
  /\ \A i \in 1..Len(s) : s[i].nr = i /\ NotLater(s[i], now)
  /\ \A i, j \in 1..Len(s) : i <= j => NotLater(s[i], s[j])

Stores == \A g \in Group : StoreOK(message_store[g])

\* What a member was shown is stored, unless the group died with its messages.
Kept ==
  \A c \in Member, g \in Group : group[g] # "dead" =>
    \A m \in shown[c][g] : m.nr \in 1..Len(message_store[g]) /\ message_store[g][m.nr] = m

\* A member asks for the messages since one that it was shown, or since midnight.
AsksSinceSeen ==
  \A c \in Member, g \in Group : asks[c].to = g /\ asks[c].op = "get" =>
    asks[c].since \in shown[c][g] \/ (asks[c].since.nr = 0 /\ asks[c].since.time = 0)

ChatInv == ChatTyped /\ Listed /\ Stores /\ Kept /\ AsksSinceSeen

-----------------------------------------------------------------------------
(***************************************************************************)
(* Helpers                                                                 *)
(***************************************************************************)
\* The time of day is a number.
LEMMA TimeOfDay == SECONDS \in Nat /\ 0 \in Time /\ \A t \in Time : t \in Nat
BY ChatAssumption DEF Time

\* The first occurrence of an element is removed: the rest is a sequence still.
LEMMA RemoveFirstType ==
  ASSUME NEW S, NEW s \in Seq(S), NEW e
  PROVE  RemoveFirst(s, e) \in Seq(S)
<1>1. Len(s) \in Nat /\ \A i \in 1..Len(s) : s[i] \in S
  BY LenProperties, ElementOfSeq
<1>2. ASSUME NEW k \in 1..Len(s)
      PROVE  RemoveAt(s, k) \in Seq(S)
  <2>1. SubSeq(s, 1, k - 1) \in Seq(S)
    <3>1. 1 \in Int /\ k - 1 \in Int /\ \A i \in 1..k - 1 : s[i] \in S
      BY <1>1
    <3> QED  BY <3>1, SubSeqProperties
  <2>2. SubSeq(s, k + 1, Len(s)) \in Seq(S)
    <3>1. k + 1 \in Int /\ Len(s) \in Int /\ \A i \in k + 1..Len(s) : s[i] \in S
      BY <1>1
    <3> QED  BY <3>1, SubSeqProperties
  <2> QED  BY <2>1, <2>2, ConcatProperties DEF RemoveAt
<1>3. CASE ~\E i \in 1..Len(s) : s[i] = e
  BY <1>3 DEF RemoveFirst
<1>4. CASE \E i \in 1..Len(s) : s[i] = e
  <2> DEFINE I == {i \in 1..Len(s) : s[i] = e}
  <2>1. I # {} /\ I \subseteq 1..Len(s) /\ I \subseteq Nat
    BY <1>4
  <2> HIDE DEF I
  <2>2. PICK x \in I : \A y \in I : ~(<<y, x>> \in OpToRel(<, Nat))
    BY <2>1, NatLessThanWellFounded, WFMin, Zenon
  <2>3. \A y \in I : x =< y
    <3>1. \A y \in I : x \in Nat /\ y \in Nat /\ ~(y < x)
      BY <2>1, <2>2 DEF OpToRel
    <3> QED  BY <3>1
  <2>4. Min(I) \in I
    BY <2>3 DEF Min
  <2>5. RemoveFirst(s, e) = RemoveAt(s, Min(I))
    BY <1>4, <2>1 DEF RemoveFirst, SelectInSeq, I
  <2> QED  BY <1>2, <2>1, <2>4, <2>5
<1> QED  BY <1>3, <1>4

\* Who is in a list that was added to
LEMMA ContainsAppended ==
  ASSUME NEW S, NEW s \in Seq(S), NEW e \in S
  PROVE  /\ Append(s, e) \in Seq(S) /\ Len(Append(s, e)) = Len(s) + 1 /\ Len(s) \in Nat
         /\ \A i \in 1..Len(s) : Append(s, e)[i] = s[i]
         /\ Append(s, e)[Len(s) + 1] = e
         /\ \A x : Contains(Append(s, e), x) <=> x = e \/ Contains(s, x)
<1> DEFINE t == Append(s, e)
<1>1. /\ t \in Seq(S) /\ Len(t) = Len(s) + 1 /\ Len(s) \in Nat
      /\ \A i \in 1..Len(s) : t[i] = s[i]
      /\ t[Len(s) + 1] = e
  BY AppendProperties, LenProperties
<1> HIDE DEF t
<1>2. \A i \in 1..Len(t) : i \in 1..Len(s) \/ i = Len(s) + 1
  BY <1>1
<1>3. \A i \in 1..Len(s) + 1 : i \in 1..Len(t)
  BY <1>1
<1>4. Len(s) + 1 \in 1..Len(t) /\ \A i \in 1..Len(s) : i \in 1..Len(t)
  BY <1>1
<1>5. ASSUME NEW x
      PROVE  Contains(t, x) <=> x = e \/ Contains(s, x)
  BY <1>1, <1>2, <1>4 DEF Contains
<1> QED  BY <1>1, <1>5 DEF t

\* What a client asks, by whom
LEMMA ChatRequestTypes ==
  ASSUME ChatTyped, NEW c \in Member, NEW g \in Group, asks[c].to = g, asks[c].op = "get"
  PROVE  asks[c].since \in Message
<1>1. asks[c] \in Request
  BY DEF ChatTyped
<1>2. asks[c] \notin [to : {"server", NoAnswer}]
  BY ChatAssumption
<1> QED  BY <1>1, <1>2 DEF Request

\* NotLater is an order.
LEMMA NotLaterOrder ==
  ASSUME NEW m, NEW u, NEW w, m.day \in Nat, u.day \in Nat, w.day \in Nat,
         m.time \in Nat, u.time \in Nat, w.time \in Nat
  PROVE  NotLater(m, m) /\ (NotLater(m, u) /\ NotLater(u, w) => NotLater(m, w))
BY DEF NotLater

\* The time and day of what is stored, and of now
LEMMA Numbers ==
  ASSUME ChatTyped
  PROVE  /\ now.time \in Nat /\ now.day \in Nat
         /\ \A g \in Group : Len(message_store[g]) \in Nat
         /\ \A g \in Group : \A i \in 1..Len(message_store[g]) :
              /\ message_store[g][i] \in Message
              /\ message_store[g][i].nr \in Nat
              /\ message_store[g][i].time \in Nat
              /\ message_store[g][i].day \in Nat
<1>1. now.time \in Nat /\ now.day \in Nat
  BY TimeOfDay DEF ChatTyped
<1>2. ASSUME NEW g \in Group
      PROVE  /\ Len(message_store[g]) \in Nat
             /\ \A i \in 1..Len(message_store[g]) : message_store[g][i] \in Message
  <2>1. message_store[g] \in Seq(Message)
    BY DEF ChatTyped
  <2> QED  BY <2>1, LenProperties, ElementOfSeq
<1>3. \A m \in Message : m.nr \in Nat /\ m.time \in Nat /\ m.day \in Nat
  BY TimeOfDay DEF Message
<1> QED  BY <1>1, <1>2, <1>3

-----------------------------------------------------------------------------
(***************************************************************************)
(* The steps                                                               *)
(***************************************************************************)
\* Groups and clients that store and show nothing
LEMMA SameMessages ==
  ASSUME ChatInv, UNCHANGED <<group, message_store, now, shown>>
  PROVE  Stores' /\ Kept'
BY DEF ChatInv, Stores, StoreOK, Kept, NotLater

LEMMA SameGroups ==
  ASSUME ChatInv, UNCHANGED <<groups, group>>
  PROVE  Listed'
BY DEF ChatInv, Listed

\* The answer to a request: it asks for nothing then.
LEMMA AnsweredStep ==
  ASSUME ChatInv, NEW c \in Member, Answered(c),
         \A d \in Member, g \in Group : shown[d][g] \subseteq shown'[d][g]
  PROVE  asks' \in [Member -> Request] /\ AsksSinceSeen'
<1>1. Nothing \in Request /\ \A g \in Group : Nothing.to # g
  BY ChatAssumption DEF Nothing, Request
<1>2. asks' = [asks EXCEPT ![c] = Nothing]
  BY DEF Answered
<1>3. asks' \in [Member -> Request] /\ asks'[c] = Nothing
      /\ \A d \in Member \ {c} : asks'[d] = asks[d]
  BY <1>1, <1>2 DEF ChatInv, ChatTyped
<1>4. AsksSinceSeen'
  BY <1>1, <1>3 DEF ChatInv, AsksSinceSeen
<1> QED  BY <1>3, <1>4

\* A new request
LEMMA AskStep ==
  ASSUME ChatInv, NEW c \in Member, NEW r \in Request, Ask(c, r),
         \A g \in Group : r.to = g /\ r.op = "get" =>
           r.since \in shown[c][g] \/ (r.since.nr = 0 /\ r.since.time = 0)
  PROVE  ChatInv'
<1>1. /\ asks' = [asks EXCEPT ![c] = r]
      /\ UNCHANGED <<groups, group, clients, message_store, now, shown>>
  BY DEF Ask
<1>2. asks' \in [Member -> Request] /\ asks'[c] = r
      /\ \A d \in Member \ {c} : asks'[d] = asks[d]
  BY <1>1 DEF ChatInv, ChatTyped
<1>3. AsksSinceSeen'
  BY <1>1, <1>2 DEF ChatInv, AsksSinceSeen
<1>4. ChatTyped'
  BY <1>1, <1>2 DEF ChatInv, ChatTyped
<1> QED  BY <1>1, <1>3, <1>4, SameMessages, SameGroups DEF ChatInv

LEMMA StartGroupStep ==
  ASSUME ChatInv, NEW g \in Group, StartGroup(g)
  PROVE  ChatInv'
<1>1. /\ group[g] = "off" /\ group' = [group EXCEPT ![g] = "registering"]
      /\ UNCHANGED <<groups, clients, message_store, now, asks, shown>>
  BY DEF StartGroup
<1>2. ChatTyped'
  BY <1>1 DEF ChatInv, ChatTyped
<1>3. group'[g] = "registering" /\ \A h \in Group \ {g} : group'[h] = group[h]
  BY <1>1 DEF ChatInv, ChatTyped
<1>4. Listed'
  BY <1>1, <1>3 DEF ChatInv, Listed
<1>5. Stores' /\ AsksSinceSeen'
  BY <1>1 DEF ChatInv, Stores, StoreOK, NotLater, AsksSinceSeen
<1>6. Kept'
  BY <1>1, <1>3 DEF ChatInv, Kept
<1> QED  BY <1>2, <1>4, <1>5, <1>6 DEF ChatInv

LEMMA RegisterGroupStep ==
  ASSUME ChatInv, NEW g \in Group, RegisterGroup(g)
  PROVE  ChatInv'
<1> USE DEF ChatInv
<1>1. /\ group[g] = "registering" /\ group' = [group EXCEPT ![g] = "serving"]
      /\ groups' = Append(groups, g)
      /\ UNCHANGED <<clients, message_store, now, asks, shown>>
  BY DEF RegisterGroup
<1>2. group'[g] = "serving" /\ \A h \in Group \ {g} : group'[h] = group[h]
  BY <1>1 DEF ChatTyped
<1>3. /\ groups' \in Seq(Group) /\ Len(groups') = Len(groups) + 1 /\ Len(groups) \in Nat
      /\ \A i \in 1..Len(groups) : groups'[i] = groups[i]
      /\ groups'[Len(groups) + 1] = g
      /\ \A x : Contains(groups', x) <=> x = g \/ Contains(groups, x)
  BY <1>1, ContainsAppended DEF ChatTyped
<1>4. ChatTyped'
  BY <1>1, <1>3 DEF ChatTyped
<1>5. Listed'
  <2>1. \A h \in Group : /\ group'[h] = "serving" => Contains(groups', h)
                         /\ group'[h] \in {"off", "registering"} => ~Contains(groups', h)
    BY <1>2, <1>3 DEF Listed
  <2>2. ~Contains(groups, g)
    BY <1>1 DEF Listed
  <2>3. \A i \in 1..Len(groups) : groups[i] # g
    BY <2>2 DEF Contains
  <2>4. \A i \in 1..Len(groups') : i \in 1..Len(groups) \/ i = Len(groups) + 1
    BY <1>3
  <2>5. \A i, j \in 1..Len(groups') : groups'[i] = groups'[j] => i = j
    BY <1>3, <2>3, <2>4 DEF Listed
  <2> QED  BY <2>1, <2>5 DEF Listed
<1>6. Stores' /\ AsksSinceSeen'
  BY <1>1 DEF Stores, StoreOK, NotLater, AsksSinceSeen
<1>7. Kept'
  BY <1>1, <1>2 DEF Kept
<1> QED  BY <1>4, <1>5, <1>6, <1>7

LEMMA GroupDiesStep ==
  ASSUME ChatInv, NEW g \in Group, GroupDies(g)
  PROVE  ChatInv'
<1> USE DEF ChatInv
<1>1. /\ group' = [group EXCEPT ![g] = "dead"]
      /\ clients' = [clients EXCEPT ![g] = <<>>]
      /\ message_store' = [message_store EXCEPT ![g] = <<>>]
      /\ UNCHANGED <<groups, now, asks, shown>>
  BY DEF GroupDies
<1>2. /\ group'[g] = "dead" /\ message_store'[g] = <<>>
      /\ \A h \in Group \ {g} : group'[h] = group[h] /\ message_store'[h] = message_store[h]
  BY <1>1 DEF ChatTyped
<1>3. ChatTyped'
  <2>1. \A S : <<>> \in Seq(S)
    BY EmptySeq
  <2>2. <<>> \in Seq(Member) /\ <<>> \in Seq(Message)
    BY <2>1
  <2> QED  BY <1>1, <2>2 DEF ChatTyped
<1>4. Listed'
  BY <1>1, <1>2 DEF Listed
<1>5. Stores'
  <2>1. \A h \in Group \ {g} : StoreOK(message_store[h])'
    BY <1>1, <1>2 DEF Stores, StoreOK, NotLater
  <2>2. StoreOK(message_store[g])'
    BY <1>2, EmptySeq DEF StoreOK
  <2> QED  BY <2>1, <2>2 DEF Stores
<1>6. Kept' /\ AsksSinceSeen'
  BY <1>1, <1>2 DEF Kept, AsksSinceSeen
<1> QED  BY <1>3, <1>4, <1>5, <1>6

LEMMA TickStep ==
  ASSUME ChatInv, Tick
  PROVE  ChatInv'
<1> USE DEF ChatInv
<1>1. UNCHANGED <<groups, group, clients, message_store, asks, shown>>
  BY DEF Tick
<1>2. now \in [time : Time, day : Nat] /\ now.time \in Time /\ now.day \in Nat
  BY DEF ChatTyped
<1>3. now' \in [time : Time, day : Nat] /\ NotLater(now, now')
  <2>1. CASE now.time + 1 = SECONDS
    <3>1. now' = [time |-> 0, day |-> now.day + 1]
      BY <2>1 DEF Tick
    <3>2. now'.time = 0 /\ now'.day = now.day + 1
      BY <3>1
    <3> QED  BY <1>2, <3>1, <3>2, TimeOfDay DEF NotLater
  <2>2. CASE now.time + 1 # SECONDS
    <3>1. now' = [now EXCEPT !.time = now.time + 1]
      BY <2>2 DEF Tick
    <3>2. now.time + 1 \in Time
      BY <1>2, <2>2, ChatAssumption DEF Time
    <3>3. now' \in [time : Time, day : Nat] /\ now'.day = now.day /\ now'.time = now.time + 1
      BY <1>2, <3>1, <3>2
    <3> QED  BY <1>2, <3>3, TimeOfDay DEF NotLater
  <2> QED  BY <2>1, <2>2
<1>4. ChatTyped'
  BY <1>1, <1>3 DEF ChatTyped
<1>5. Stores'
  <2>1. ASSUME NEW g \in Group, NEW i \in 1..Len(message_store[g])
        PROVE  NotLater(message_store[g][i], now')
    <3>1. NotLater(message_store[g][i], now)
      BY DEF Stores, StoreOK
    <3>2. now'.time \in Nat /\ now'.day \in Nat
      BY <1>3, TimeOfDay
    <3> QED  BY <1>3, <3>1, <3>2, Numbers, NotLaterOrder
  <2> QED  BY <1>1, <2>1 DEF Stores, StoreOK, NotLater
<1>6. Listed' /\ Kept' /\ AsksSinceSeen'
  BY <1>1, SameGroups DEF Kept, AsksSinceSeen
<1> QED  BY <1>4, <1>5, <1>6

\* Joining and leaving
LEMMA ClientsStep ==
  ASSUME ChatInv, NEW g \in Group, NEW c \in Member, NEW list \in Seq(Member),
         clients' = [clients EXCEPT ![g] = list], Answered(c),
         UNCHANGED <<groups, group, message_store, now, shown>>
  PROVE  ChatInv'
<1>1. asks' \in [Member -> Request] /\ AsksSinceSeen'
  BY AnsweredStep
<1>2. ChatTyped'
  BY <1>1 DEF ChatInv, ChatTyped
<1> QED  BY <1>1, <1>2, SameMessages, SameGroups DEF ChatInv

LEMMA AnswerJoinStep ==
  ASSUME ChatInv, NEW g \in Group, NEW c \in Member, AnswerJoin(g, c)
  PROVE  ChatInv'
<1> DEFINE list == Append(clients[g], c)
<1>1. /\ clients' = [clients EXCEPT ![g] = list] /\ Answered(c)
      /\ UNCHANGED <<groups, group, message_store, now, shown>>
  BY DEF AnswerJoin
<1>2. list \in Seq(Member)
  BY AppendProperties DEF ChatInv, ChatTyped
<1> HIDE DEF list
<1> QED  BY <1>1, <1>2, ClientsStep

LEMMA AnswerLeaveStep ==
  ASSUME ChatInv, NEW g \in Group, NEW c \in Member, AnswerLeave(g, c)
  PROVE  ChatInv'
<1> DEFINE list == RemoveFirst(clients[g], c)
<1>1. /\ clients' = [clients EXCEPT ![g] = list] /\ Answered(c)
      /\ UNCHANGED <<groups, group, message_store, now, shown>>
  BY DEF AnswerLeave
<1>2. list \in Seq(Member)
  BY RemoveFirstType DEF ChatInv, ChatTyped
<1> HIDE DEF list
<1> QED  BY <1>1, <1>2, ClientsStep

LEMMA AnswerListStep ==
  ASSUME ChatInv, NEW c \in Member, AnswerList(c)
  PROVE  ChatInv'
<1>1. Answered(c) /\ UNCHANGED <<groups, group, clients, message_store, now, shown>>
  BY DEF AnswerList
<1>2. asks' \in [Member -> Request] /\ AsksSinceSeen'
  BY <1>1, AnsweredStep
<1>3. ChatTyped'
  BY <1>1, <1>2 DEF ChatInv, ChatTyped
<1> QED  BY <1>1, <1>2, <1>3, SameMessages, SameGroups DEF ChatInv

\* What is stored is where its number says.
LEMMA StoredAt ==
  ASSUME ChatInv, NEW g \in Group, NEW m \in Range(message_store[g])
  PROVE  /\ m \in Message /\ m.nr \in 1..Len(message_store[g])
         /\ message_store[g][m.nr] = m
<1>1. DOMAIN message_store[g] = 1..Len(message_store[g])
  <2>1. message_store[g] \in Seq(Message)
    BY DEF ChatInv, ChatTyped
  <2> QED  BY <2>1, LenProperties
<1>2. PICK i \in 1..Len(message_store[g]) : message_store[g][i] = m
  BY <1>1 DEF Range
<1>3. m.nr = i
  BY <1>2 DEF ChatInv, Stores, StoreOK
<1> QED  BY <1>2, <1>3, Numbers DEF ChatInv

\* The messages a member is shown are stored.
LEMMA AnswerGetStep ==
  ASSUME ChatInv, NEW g \in Group, NEW c \in Member, AnswerGet(g, c)
  PROVE  ChatInv'
<1> USE DEF ChatInv
<1> DEFINE messages == {m \in Range(message_store[g]) : IsSince(m, asks[c].since.time)}
           new == shown[c][g] \cup messages
<1>1. /\ Answered(c) /\ UNCHANGED <<groups, group, clients, message_store, now>>
      /\ shown' = IF IsMember(c, g) THEN [shown EXCEPT ![c][g] = new] ELSE shown
  BY DEF AnswerGet
<1>2. \A m \in messages : /\ m \in Message /\ m.nr \in 1..Len(message_store[g])
                          /\ message_store[g][m.nr] = m
  BY StoredAt
<1> HIDE DEF messages
<1>3. new \in SUBSET Message
  BY <1>2 DEF ChatTyped
<1>4. /\ shown' \in [Member -> [Group -> SUBSET Message]]
      /\ \A d \in Member, h \in Group :
           \/ shown'[d][h] = shown[d][h]
           \/ h = g /\ shown'[d][h] = shown[d][h] \cup messages
  <2>1. CASE IsMember(c, g)
    <3>1. shown' = [shown EXCEPT ![c][g] = new]
      BY <1>1, <2>1
    <3>2. \A d \in Member, h \in Group :
            shown'[d][h] = IF d = c /\ h = g THEN new ELSE shown[d][h]
      BY <3>1 DEF ChatTyped
    <3>3. shown' \in [Member -> [Group -> SUBSET Message]]
      BY <1>3, <3>1 DEF ChatTyped
    <3> QED  BY <3>2, <3>3
  <2>2. CASE ~IsMember(c, g)
    BY <1>1, <2>2 DEF ChatTyped
  <2> QED  BY <2>1, <2>2
<1>5. asks' \in [Member -> Request] /\ AsksSinceSeen'
  <2>1. \A d \in Member, h \in Group : shown[d][h] \subseteq shown'[d][h]
    BY <1>4
  <2> QED  BY <1>1, <2>1, AnsweredStep
<1>6. ChatTyped'
  BY <1>1, <1>4, <1>5 DEF ChatTyped
<1>7. Kept'
  <2>1. ASSUME NEW d \in Member, NEW h \in Group, group[h] # "dead", NEW m \in shown'[d][h]
        PROVE  m.nr \in 1..Len(message_store[h]) /\ message_store[h][m.nr] = m
    <3>1. m \in shown[d][h] \/ (h = g /\ m \in messages)
      BY <1>4, <2>1
    <3>2. CASE m \in shown[d][h]
      BY <2>1, <3>2 DEF Kept
    <3>3. CASE h = g /\ m \in messages
      BY <1>2, <3>3
    <3> QED  BY <3>1, <3>2, <3>3
  <2> QED  BY <1>1, <2>1 DEF Kept
<1>8. Listed' /\ Stores'
  BY <1>1, SameGroups DEF Stores, StoreOK, NotLater
<1> QED  BY <1>5, <1>6, <1>7, <1>8

\* A message is stored with the next number, and the time of now.
LEMMA AnswerSendStep ==
  ASSUME ChatInv, NEW g \in Group, NEW c \in Member, AnswerSend(g, c)
  PROVE  ChatInv'
<1> USE DEF ChatInv
<1> DEFINE s == message_store[g]
           m == [nr |-> Len(s) + 1, time |-> now.time, day |-> now.day]
           t == Append(s, m)
<1>1. /\ Answered(c) /\ UNCHANGED <<groups, group, clients, now, shown>>
      /\ message_store' = IF IsMember(c, g) THEN [message_store EXCEPT ![g] = t] ELSE message_store
  BY DEF AnswerSend, Stored
<1>2. asks' \in [Member -> Request] /\ AsksSinceSeen'
  BY <1>1, AnsweredStep
<1>3. s \in Seq(Message) /\ m \in Message
  <2>1. Len(s) \in Nat /\ now.time \in Time /\ now.day \in Nat
    BY Numbers DEF ChatTyped
  <2>2. s \in Seq(Message)
    BY DEF ChatTyped
  <2>3. m \in Message
    BY <2>1 DEF Message
  <2> QED  BY <2>2, <2>3
<1>4. m.nr = Len(s) + 1 /\ m.time = now.time /\ m.day = now.day
  OBVIOUS
<1>5. StoreOK(s) /\ now.time \in Nat /\ now.day \in Nat
  BY Numbers DEF Stores
<1> HIDE DEF m
<1>6. /\ t \in Seq(Message) /\ Len(t) = Len(s) + 1 /\ Len(s) \in Nat
      /\ \A i \in 1..Len(s) : t[i] = s[i]
      /\ t[Len(s) + 1] = m
  BY <1>3, ContainsAppended
<1>7. \A i \in 1..Len(t) : i \in 1..Len(s) \/ i = Len(s) + 1
  BY <1>6
<1> HIDE DEF t
<1>8. NotLater(m, now) /\ NotLater(m, m)
  BY <1>4, <1>5 DEF NotLater
<1>9. \A i \in 1..Len(s) : NotLater(s[i], m)
  BY <1>4, <1>5 DEF StoreOK, NotLater
<1>10. StoreOK(t)
  <2>1. \A i \in 1..Len(t) : t[i].nr = i /\ NotLater(t[i], now)
    BY <1>4, <1>5, <1>6, <1>7, <1>8 DEF StoreOK
  <2>2. ASSUME NEW i \in 1..Len(t), NEW j \in 1..Len(t), i <= j
        PROVE  NotLater(t[i], t[j])
    <3>1. CASE j \in 1..Len(s)
      <4>1. i \in 1..Len(s)
        BY <1>6, <2>2, <3>1
      <4> QED  BY <1>5, <1>6, <2>2, <3>1, <4>1 DEF StoreOK
    <3>2. CASE j = Len(s) + 1
      BY <1>6, <1>7, <1>8, <1>9, <3>2
    <3> QED  BY <1>7, <3>1, <3>2
  <2> QED  BY <2>1, <2>2 DEF StoreOK
<1>11. /\ message_store' \in [Group -> Seq(Message)]
       /\ \A h \in Group : \/ message_store'[h] = message_store[h]
                           \/ h = g /\ message_store'[h] = t
  BY <1>1, <1>6 DEF ChatTyped
<1>12. ChatTyped'
  BY <1>1, <1>2, <1>11 DEF ChatTyped
<1>13. Stores'
  <2>1. ASSUME NEW h \in Group
        PROVE  StoreOK(message_store'[h])
    <3>1. CASE message_store'[h] = message_store[h]
      BY <3>1 DEF Stores
    <3>2. CASE message_store'[h] = t
      BY <1>10, <3>2
    <3> QED  BY <1>11, <3>1, <3>2
  <2> QED  BY <1>1, <2>1 DEF Stores, StoreOK, NotLater
<1>14. Kept'
  <2>1. ASSUME NEW d \in Member, NEW h \in Group, group[h] # "dead", NEW u \in shown[d][h]
        PROVE  u.nr \in 1..Len(message_store'[h]) /\ message_store'[h][u.nr] = u
    <3>1. u.nr \in 1..Len(message_store[h]) /\ message_store[h][u.nr] = u
      BY <2>1 DEF Kept
    <3>2. CASE message_store'[h] = message_store[h]
      BY <3>1, <3>2
    <3>3. CASE h = g /\ message_store'[h] = t
      <4>1. u.nr \in 1..Len(s)
        BY <3>1, <3>3
      <4>2. u.nr \in 1..Len(t)
        BY <1>6, <4>1
      <4>3. t[u.nr] = s[u.nr] /\ s[u.nr] = u
        BY <1>6, <3>1, <3>3, <4>1
      <4> QED  BY <3>3, <4>2, <4>3
    <3> QED  BY <1>11, <3>2, <3>3
  <2> QED  BY <1>1, <2>1 DEF Kept
<1> QED  BY <1>1, <1>2, <1>12, <1>13, <1>14, SameGroups

\* A client asks for the messages since the newest on its screen, or since midnight.
LEMMA GetMessagesStep ==
  ASSUME ChatInv, NEW c \in Member, NEW g \in Group, GetMessages(c, g)
  PROVE  ChatInv'
<1> DEFINE first == [nr |-> 0, time |-> 0, day |-> now.day]
<1>1. PICK m \in shown[c][g] \cup {first} : Ask(c, [to |-> g, op |-> "get", since |-> m])
  BY DEF GetMessages
<1>2. first \in Message /\ first.nr = 0 /\ first.time = 0
  BY TimeOfDay DEF Message, ChatInv, ChatTyped
<1> HIDE DEF first
<1>3. m \in Message /\ (m \in shown[c][g] \/ (m.nr = 0 /\ m.time = 0))
  BY <1>2 DEF ChatInv, ChatTyped
<1> DEFINE r == [to |-> g, op |-> "get", since |-> m]
<1>4. r \in Request /\ r.to = g /\ r.since = m
  BY <1>3 DEF Request
<1>5. Ask(c, r)
  BY <1>1
<1> HIDE DEF r
<1> QED  BY <1>3, <1>4, <1>5, AskStep

-----------------------------------------------------------------------------
LEMMA ChatInitInv == ChatInit => ChatInv
<1> SUFFICES ASSUME ChatInit
             PROVE  ChatInv
  OBVIOUS
<1> USE DEF ChatInit
<1>1. (\A S : <<>> \in Seq(S)) /\ Len(<<>>) = 0
  BY EmptySeq
<1>2. Nothing \in Request /\ \A g \in Group : Nothing.to # g
  BY ChatAssumption DEF Nothing, Request
<1>3. ChatTyped
  <2>1. /\ groups \in Seq(Group)
        /\ clients \in [Group -> Seq(Member)]
        /\ message_store \in [Group -> Seq(Message)]
    BY <1>1
  <2>2. now \in [time : Time, day : Nat]
    BY TimeOfDay
  <2>3. asks \in [Member -> Request] /\ shown \in [Member -> [Group -> SUBSET Message]]
    BY <1>2
  <2> QED  BY <2>1, <2>2, <2>3 DEF ChatTyped
<1>4. Listed
  BY <1>1 DEF Listed, Contains
<1>5. Stores
  BY <1>1 DEF Stores, StoreOK
<1>6. Kept /\ AsksSinceSeen
  BY <1>2 DEF Kept, AsksSinceSeen
<1> QED  BY <1>3, <1>4, <1>5, <1>6 DEF ChatInv

LEMMA ChatNextInv == ChatInv /\ [ChatNext]_chatvars => ChatInv'
<1> SUFFICES ASSUME ChatInv, [ChatNext]_chatvars
             PROVE  ChatInv'
  OBVIOUS
<1>1. ASSUME NEW g \in Group, RegisterGroup(g) \/ StartGroup(g) \/ GroupDies(g)
      PROVE  ChatInv'
  BY <1>1, RegisterGroupStep, StartGroupStep, GroupDiesStep
<1>2. ASSUME NEW c \in Member, AnswerList(c)
      PROVE  ChatInv'
  BY <1>2, AnswerListStep
<1>3. ASSUME NEW g \in Group, NEW c \in Member, ServeChat(g, c)
      PROVE  ChatInv'
  BY <1>3, AnswerJoinStep, AnswerLeaveStep, AnswerGetStep, AnswerSendStep DEF ServeChat
<1>4. CASE Tick
  BY <1>4, TickStep
<1>5. ASSUME NEW c \in Member, GetList(c)
      PROVE  ChatInv'
  <2> DEFINE r == [to |-> "server"]
  <2>1. r \in Request /\ \A g \in Group : r.to # g
    BY ChatAssumption DEF Request
  <2>2. Ask(c, r)
    BY <1>5 DEF GetList
  <2> HIDE DEF r
  <2> QED  BY <2>1, <2>2, AskStep
<1>6. ASSUME NEW c \in Member, NEW g \in Group, NEW op \in {"join", "leave", "send"},
             Ask(c, [to |-> g, op |-> op])
      PROVE  ChatInv'
  <2> DEFINE r == [to |-> g, op |-> op]
  <2>1. r \in Request /\ r.op # "get"
    BY DEF Request
  <2>2. Ask(c, r)
    BY <1>6
  <2> HIDE DEF r
  <2> QED  BY <2>1, <2>2, AskStep
<1>7. ASSUME NEW c \in Member, NEW g \in Group,
             JoinGroup(c, g) \/ LeaveGroup(c, g) \/ SendMessage(c, g) \/ GetMessages(c, g)
      PROVE  ChatInv'
  BY <1>6, <1>7, GetMessagesStep DEF JoinGroup, LeaveGroup, SendMessage
<1>8. CASE UNCHANGED chatvars
  BY <1>8 DEF chatvars, ChatInv, ChatTyped, Listed, Stores, StoreOK, NotLater, Kept, AsksSinceSeen
<1> QED  BY <1>1, <1>2, <1>3, <1>4, <1>5, <1>7, <1>8 DEF ChatNext, ChatServes

\* The inductive invariant holds whatever groups, clients and the clock do, in any order.
THEOREM ChatInvariance == ChatSpec => []ChatInv
<1>1. ChatInit => ChatInv
  BY ChatInitInv
<1>2. ChatInv /\ [ChatNext]_chatvars => ChatInv'
  BY ChatNextInv
<1> QED  BY <1>1, <1>2, PTL DEF ChatSpec

\* Groups that serve are in the list once, messages in the order of time within a day.
THEOREM ChatTypes == ChatSpec => []ChatTypeOK
<1>1. ChatInv => ChatTypeOK
  <2> SUFFICES ASSUME ChatInv
               PROVE  ChatTypeOK
    OBVIOUS
  <2> USE DEF ChatInv
  <2>1. IsInjective(groups)
    <3>1. DOMAIN groups = 1..Len(groups)
      BY LenProperties DEF ChatTyped
    <3> QED  BY <3>1 DEF Listed, IsInjective
  <2>2. ASSUME NEW g \in Group
        PROVE  /\ group[g] \in {"off", "registering", "serving", "dead"}
               /\ group[g] = "serving" => Contains(groups, g)
               /\ clients[g] \in Seq(Member)
    BY DEF ChatTyped, Listed
  <2>3. ASSUME NEW g \in Group, NEW i \in DOMAIN message_store[g], NEW j \in DOMAIN message_store[g],
               i <= j, message_store[g][i].day = message_store[g][j].day
        PROVE  message_store[g][i].time <= message_store[g][j].time
    <3>1. i \in 1..Len(message_store[g]) /\ j \in 1..Len(message_store[g])
      <4>1. message_store[g] \in Seq(Message)
        BY DEF ChatTyped
      <4> QED  BY <4>1, LenProperties
    <3>2. NotLater(message_store[g][i], message_store[g][j])
      BY <2>3, <3>1 DEF Stores, StoreOK
    <3>3. message_store[g][i].day \in Nat
      BY <3>1, Numbers
    <3> QED  BY <2>3, <3>2, <3>3 DEF NotLater
  <2>4. now.time \in 0..SECONDS - 1
    BY DEF ChatTyped, Time
  <2>5. ASSUME NEW c \in Member
        PROVE  asks[c].to \in Group \cup {"server", NoAnswer}
    <3>1. asks[c] \in Request
      BY DEF ChatTyped
    <3> QED  BY <3>1 DEF Request
  <2> QED  BY <2>1, <2>2, <2>3, <2>4, <2>5 DEF ChatTypeOK
<1> QED  BY <1>1, ChatInvariance, PTL

\* A member that asks for the messages since the newest it has seen is shown all that came
\* after it on that day, those of the same second too (group.py:38).
THEOREM NoMessageMissed == ChatSpec => NothingMissed
<1> DEFINE Shows ==
      \A g \in Group, c \in Member : AnswerGet(g, c) /\ IsMember(c, g) =>
        \A m \in Range(message_store[g]) :
          m.nr >= asks[c].since.nr /\ m.day = asks[c].since.day => m \in shown'[c][g]
<1>1. ChatInv => Shows
  <2> SUFFICES ASSUME ChatInv, NEW g \in Group, NEW c \in Member, AnswerGet(g, c), IsMember(c, g),
                      NEW m \in Range(message_store[g]),
                      m.nr >= asks[c].since.nr, m.day = asks[c].since.day
               PROVE  m \in shown'[c][g]
    BY DEF Shows
  <2> USE DEF ChatInv
  <2> DEFINE s == message_store[g] since == asks[c].since
             messages == {u \in Range(s) : IsSince(u, since.time)}
  <2>1. /\ asks[c].to = g /\ asks[c].op = "get" /\ group[g] = "serving"
        /\ shown' = [shown EXCEPT ![c][g] = shown[c][g] \cup messages]
    BY DEF AnswerGet, Serves
  <2>2. m \in Message /\ m.nr \in 1..Len(s) /\ s[m.nr] = m /\ m.nr \in Nat /\ m.time \in Nat /\ m.day \in Nat
    BY StoredAt, Numbers
  <2>3. m.time >= since.time
    <3>1. CASE since.nr = 0 /\ since.time = 0
      BY <2>2, <3>1
    <3>2. CASE since \in shown[c][g]
      <4>1. since.nr \in 1..Len(s) /\ s[since.nr] = since
        BY <2>1, <3>2 DEF Kept
      <4>2. NotLater(since, m)
        BY <2>2, <4>1 DEF Stores, StoreOK
      <4>3. since.time \in Nat /\ since.day \in Nat
        BY <4>1, Numbers
      <4> QED  BY <2>2, <4>2, <4>3 DEF NotLater
    <3> QED  BY <2>1, <3>1, <3>2 DEF AsksSinceSeen
  <2>4. m \in messages
    BY <2>3 DEF IsSince
  <2> HIDE DEF messages
  <2>5. shown'[c][g] = shown[c][g] \cup messages
    BY <2>1 DEF ChatTyped
  <2> QED  BY <2>4, <2>5
<1>2. []ChatInv => [][Shows]_chatvars
  BY <1>1, PTL
<1>3. [][Shows]_chatvars => NothingMissed
  BY DEF NothingMissed, Shows
<1> QED  BY <1>2, <1>3, ChatInvariance

-----------------------------------------------------------------------------
(***************************************************************************)
(* Videos: the inductive invariant                                         *)
(***************************************************************************)
Video == [youtuber : Youtuber, nr : Nat]
UserRequest == [user : User, youtuber : Youtuber, subscribe : BOOLEAN]

VideoTyped ==
  /\ user_requests \in Seq(UserRequest) /\ youtuber_requests \in Seq(Video)
  /\ mailbox \in [User -> Seq(Video)] /\ seen \in [User -> Seq(Video)]
  /\ videos \in Seq(Youtuber)

\* The numbers of the videos of s grow.
Grows(s) == \A i, j \in 1..Len(s) : i < j => s[i].nr < s[j].nr

\* Every video of s is older than every one of t.
Older(s, t) == \A i \in 1..Len(s), j \in 1..Len(t) : s[i].nr < t[j].nr

\* Every video of s has been published.
Published(s) == \A i \in 1..Len(s) : s[i].nr <= Len(videos)

InOrder ==
  /\ Grows(youtuber_requests) /\ Published(youtuber_requests)
  /\ \A u \in User :
       /\ Grows(seen[u]) /\ Grows(mailbox[u])
       /\ Older(seen[u], mailbox[u]) /\ Older(seen[u], youtuber_requests)
       /\ Older(mailbox[u], youtuber_requests)
       /\ Published(seen[u]) /\ Published(mailbox[u])

VideoInv == VideoTyped /\ InOrder

-----------------------------------------------------------------------------
(***************************************************************************)
(* Sequences of videos                                                     *)
(***************************************************************************)
\* Every element of t is one of s: what holds of the videos of s holds of those of t.
Within(t, s) == \A i \in 1..Len(t) : \E k \in 1..Len(s) : t[i] = s[k]

\* What is left of a queue is in order, and part of it.
LEMMA LeftoverInOrder ==
  ASSUME NEW s \in Seq(Video), NEW t \in Leftover(s)
  PROVE  t \in Seq(Video) /\ Within(t, s) /\ (Grows(s) => Grows(t))
<1>1. PICK n \in 1..Len(s) + 1 : t = SubSeq(s, n, Len(s))
  BY DEF Leftover
<1>2. Len(s) \in Nat /\ n \in Int /\ Len(s) \in Int
  BY LenProperties
<1>3. \A i \in n..Len(s) : s[i] \in Video
  BY <1>2, ElementOfSeq
<1>4. /\ t \in Seq(Video)
      /\ Len(t) = IF n <= Len(s) THEN Len(s) - n + 1 ELSE 0
      /\ \A i \in 1..Len(s) - n + 1 : t[i] = s[n + i - 1]
  BY <1>1, <1>2, <1>3, SubSeqProperties
<1>5. \A i \in 1..Len(t) : n + i - 1 \in 1..Len(s) /\ t[i] = s[n + i - 1]
  BY <1>2, <1>4
<1>6. Within(t, s)
  BY <1>5 DEF Within
<1>7. ASSUME Grows(s)
      PROVE  Grows(t)
  <2>1. SUFFICES ASSUME NEW i \in 1..Len(t), NEW j \in 1..Len(t), i < j
                 PROVE  t[i].nr < t[j].nr
    BY DEF Grows
  <2>2. i \in Int /\ j \in Int
    OBVIOUS
  <2>3. n + i - 1 < n + j - 1
    BY <1>2, <2>1, <2>2
  <2> QED  BY <1>5, <1>7, <2>3 DEF Grows
<1> QED  BY <1>4, <1>6, <1>7

\* The tail of a queue is what is left of it without its head, which is older.
LEMMA TailInOrder ==
  ASSUME NEW s \in Seq(Video), s # <<>>, Grows(s)
  PROVE  /\ Tail(s) \in Seq(Video) /\ Within(Tail(s), s) /\ Grows(Tail(s))
         /\ Head(s) = s[1] /\ 1 \in 1..Len(s) /\ Head(s) \in Video
         /\ \A i \in 1..Len(Tail(s)) : s[1].nr < Tail(s)[i].nr
<1>1. Len(s) \in Nat /\ 1 \in 1..Len(s)
  <2>1. Len(s) \in Nat \ {0}
    BY EmptySeq
  <2> QED  BY <2>1
<1>2. Tail(s) = SubSeq(s, 2, Len(s)) /\ 2 \in 1..Len(s) + 1
  BY <1>1, TailIsSubSeq
<1>3. Tail(s) \in Leftover(s)
  BY <1>2 DEF Leftover
<1>4. Len(Tail(s)) = Len(s) - 1 /\ \A i \in 1..Len(Tail(s)) : Tail(s)[i] = s[i + 1]
  BY HeadTailProperties
<1>5. \A i \in 1..Len(Tail(s)) : i + 1 \in 1..Len(s) /\ 1 < i + 1 /\ Tail(s)[i] = s[i + 1]
  BY <1>1, <1>4
<1>6. \A i \in 1..Len(Tail(s)) : s[1].nr < Tail(s)[i].nr
  BY <1>1, <1>5 DEF Grows
<1>7. Head(s) = s[1] /\ Head(s) \in Video
  <2>1. Head(s) = s[1]
    BY SMT
  <2> QED  BY <2>1, HeadTailProperties
<1> QED  BY <1>1, <1>3, <1>6, <1>7, LeftoverInOrder

\* A video newer than all of s is appended in order.
LEMMA AppendInOrder ==
  ASSUME NEW s \in Seq(Video), NEW v \in Video, Grows(s), \A i \in 1..Len(s) : s[i].nr < v.nr
  PROVE  /\ Append(s, v) \in Seq(Video) /\ Grows(Append(s, v))
         /\ \A i \in 1..Len(Append(s, v)) :
              Append(s, v)[i] = v \/ \E k \in 1..Len(s) : Append(s, v)[i] = s[k]
<1> DEFINE t == Append(s, v)
<1>1. Len(s) \in Nat
  BY LenProperties
<1>2. /\ t \in Seq(Video) /\ Len(t) = Len(s) + 1
      /\ \A i \in 1..Len(s) : t[i] = s[i]
      /\ t[Len(s) + 1] = v
  BY AppendProperties
<1>3. \A i \in 1..Len(t) : i \in 1..Len(s) \/ i = Len(s) + 1
  BY <1>1, <1>2
<1>4. \A i, j \in 1..Len(t) : i < j => i \in 1..Len(s)
  BY <1>1, <1>2
<1> HIDE DEF t
<1>5. Grows(t)
  <2>1. SUFFICES ASSUME NEW i \in 1..Len(t), NEW j \in 1..Len(t), i < j
                 PROVE  t[i].nr < t[j].nr
    BY DEF Grows
  <2>2. i \in 1..Len(s) /\ t[i] = s[i]
    BY <1>2, <1>4, <2>1
  <2>3. CASE j = Len(s) + 1
    BY <1>2, <2>2, <2>3
  <2>4. CASE j \in 1..Len(s)
    BY <1>2, <2>1, <2>2, <2>4 DEF Grows
  <2> QED  BY <1>3, <2>3, <2>4
<1>6. \A i \in 1..Len(t) : t[i] = v \/ \E k \in 1..Len(s) : t[i] = s[k]
  BY <1>2, <1>3
<1> QED  BY <1>2, <1>5, <1>6 DEF t

\* Parts of two sequences are as far apart as the sequences.
LEMMA OlderParts ==
  ASSUME NEW s, NEW t, NEW s1, NEW t1, Within(s1, s), Within(t1, t), Older(s, t)
  PROVE  Older(s1, t1)
BY DEF Within, Older

LEMMA PublishedParts ==
  ASSUME NEW s, NEW s1, Within(s1, s), Published(s)
  PROVE  Published(s1)
BY DEF Within, Published

LEMMA WithinItself == \A s : Within(s, s)
BY DEF Within

-----------------------------------------------------------------------------
(***************************************************************************)
(* The steps that move videos                                              *)
(***************************************************************************)
\* Whoever takes nothing from the queues leaves the order as it is.
LEMMA QueuesUnchanged ==
  ASSUME InOrder, UNCHANGED <<youtuber_requests, mailbox, seen, videos>>
  PROVE  InOrder'
BY DEF InOrder, Grows, Older, Published

LEMMA VideoInitInv == VideoInit => VideoInv
<1>1. Len(<<>>) = 0 /\ \A S : <<>> \in Seq(S)
  BY EmptySeq
<1> QED  BY <1>1 DEF VideoInit, VideoInv, VideoTyped, InOrder, Grows, Older, Published

\* The video that is printed is the oldest that waits.
LEMMA ReceiveStep ==
  ASSUME VideoInv, NEW u \in User, ReceiveNotification(u)
  PROVE  VideoInv'
<1> USE DEF VideoInv
<1> DEFINE box == mailbox[u] v == Head(box) new == Append(seen[u], v)
<1>1. /\ box \in Seq(Video) /\ box # <<>> /\ Grows(box)
      /\ seen[u] \in Seq(Video) /\ Grows(seen[u]) /\ Older(seen[u], box)
  BY DEF VideoTyped, InOrder, ReceiveNotification
<1>2. /\ Tail(box) \in Seq(Video) /\ Within(Tail(box), box) /\ Grows(Tail(box))
      /\ v = box[1] /\ 1 \in 1..Len(box) /\ v \in Video
      /\ \A i \in 1..Len(Tail(box)) : v.nr < Tail(box)[i].nr
  BY <1>1, TailInOrder
<1>3. \A i \in 1..Len(seen[u]) : seen[u][i].nr < v.nr
  BY <1>1, <1>2 DEF Older
<1>4. /\ new \in Seq(Video) /\ Grows(new)
      /\ \A i \in 1..Len(new) : new[i] = v \/ \E k \in 1..Len(seen[u]) : new[i] = seen[u][k]
  BY <1>1, <1>2, <1>3, AppendInOrder
<1>5. /\ UNCHANGED <<user_requests, youtuber_requests, videos>>
      /\ seen' = [seen EXCEPT ![u] = new] /\ mailbox' = [mailbox EXCEPT ![u] = Tail(box)]
  BY DEF ReceiveNotification
<1> HIDE DEF box, v, new
<1>6. VideoTyped'
  BY <1>2, <1>4, <1>5 DEF VideoTyped
<1>7. Older(seen[u], Tail(box))
  BY <1>1, <1>2, OlderParts, WithinItself
<1>8. Older(new, Tail(box))
  BY <1>2, <1>4, <1>7 DEF Older
<1>9. Older(new, youtuber_requests) /\ Older(Tail(box), youtuber_requests)
  <2>1. Older(seen[u], youtuber_requests) /\ Older(box, youtuber_requests)
    BY DEF InOrder, box
  <2>2. Older(Tail(box), youtuber_requests)
    BY <1>2, <2>1, OlderParts, WithinItself
  <2> QED  BY <1>2, <1>4, <2>1, <2>2 DEF Older
<1>10. Published(new) /\ Published(Tail(box))
  <2>1. Published(seen[u]) /\ Published(box)
    BY DEF InOrder, box
  <2>2. Published(Tail(box))
    BY <1>2, <2>1, PublishedParts
  <2> QED  BY <1>2, <1>4, <2>1, <2>2 DEF Published
<1>11. seen'[u] = new /\ mailbox'[u] = Tail(box)
  BY <1>5 DEF VideoTyped
<1>12. \A w \in User \ {u} : seen'[w] = seen[w] /\ mailbox'[w] = mailbox[w]
  BY <1>5 DEF VideoTyped
<1>13. InOrder'
  <2>1. Grows(youtuber_requests)' /\ Published(youtuber_requests)'
    BY <1>5 DEF InOrder, Grows, Published
  <2>2. ASSUME NEW w \in User
        PROVE  /\ Grows(seen[w])' /\ Grows(mailbox[w])'
               /\ Older(seen[w], mailbox[w])' /\ Older(seen[w], youtuber_requests)'
               /\ Older(mailbox[w], youtuber_requests)'
               /\ Published(seen[w])' /\ Published(mailbox[w])'
    <3>1. CASE w = u
      BY <1>2, <1>4, <1>5, <1>8, <1>9, <1>10, <1>11, <3>1 DEF Grows, Older, Published
    <3>2. CASE w # u
      BY <1>5, <1>12, <3>2 DEF InOrder, Grows, Older, Published
    <3> QED  BY <3>1, <3>2
  <2> QED  BY <2>1, <2>2 DEF InOrder
<1> QED  BY <1>6, <1>13

\* What was delivered to a user that logs out is lost from the front of its queue.
LEMMA LogOutStep ==
  ASSUME VideoInv, NEW u \in User, LogOut(u)
  PROVE  VideoInv'
<1> USE DEF VideoInv
<1>1. PICK rest \in Leftover(mailbox[u]) : mailbox' = [mailbox EXCEPT ![u] = rest]
  BY DEF LogOut
<1>2. mailbox[u] \in Seq(Video) /\ Grows(mailbox[u])
  BY DEF VideoTyped, InOrder
<1>3. rest \in Seq(Video) /\ Within(rest, mailbox[u]) /\ Grows(rest)
  BY <1>2, LeftoverInOrder
<1>4. UNCHANGED <<user_requests, youtuber_requests, videos, seen>>
  BY DEF LogOut
<1>5. VideoTyped'
  BY <1>1, <1>3, <1>4 DEF VideoTyped
<1>6. Older(seen[u], rest) /\ Older(rest, youtuber_requests) /\ Published(rest)
  BY <1>3, OlderParts, PublishedParts, WithinItself DEF InOrder
<1>7. mailbox'[u] = rest /\ \A w \in User \ {u} : mailbox'[w] = mailbox[w]
  BY <1>1 DEF VideoTyped
<1>8. InOrder'
  BY <1>3, <1>4, <1>6, <1>7 DEF InOrder, Grows, Older, Published
<1> QED  BY <1>5, <1>8

\* The number of a video is the next one.
LEMMA PublishStep ==
  ASSUME VideoInv, NEW y \in Youtuber, PublishVideo(y)
  PROVE  VideoInv'
<1> USE DEF VideoInv
<1> DEFINE v == [youtuber |-> y, nr |-> Len(videos) + 1]
           new == Append(youtuber_requests, v)
<1>1. Len(videos) \in Nat /\ Len(Append(videos, y)) = Len(videos) + 1
      /\ Append(videos, y) \in Seq(Youtuber)
  BY LenProperties, AppendProperties DEF VideoTyped
<1>2. v \in Video /\ youtuber_requests \in Seq(Video) /\ Grows(youtuber_requests)
  BY <1>1 DEF Video, VideoTyped, InOrder
<1>3. videos' = Append(videos, y) /\ youtuber_requests' = new
      /\ UNCHANGED <<user_requests, mailbox, seen>>
  BY <1>1 DEF PublishVideo
<1>4. \A i \in 1..Len(youtuber_requests) :
        youtuber_requests[i].nr \in Nat /\ youtuber_requests[i].nr <= Len(videos)
  <2>1. \A i \in 1..Len(youtuber_requests) : youtuber_requests[i] \in Video
    BY <1>2, ElementOfSeq
  <2>2. Published(youtuber_requests)
    BY DEF InOrder
  <2> QED  BY <2>1, <2>2 DEF Published, Video
<1>5. \A i \in 1..Len(youtuber_requests) : youtuber_requests[i].nr < v.nr
  BY <1>1, <1>4
<1>6. /\ new \in Seq(Video) /\ Grows(new)
      /\ \A i \in 1..Len(new) :
           new[i] = v \/ \E k \in 1..Len(youtuber_requests) : new[i] = youtuber_requests[k]
  BY <1>2, <1>5, AppendInOrder
<1>7. VideoTyped'
  BY <1>1, <1>3, <1>6 DEF VideoTyped
<1>8. ASSUME NEW s \in Seq(Video), Published(s), Older(s, youtuber_requests)
      PROVE  Older(s, new) /\ \A i \in 1..Len(s) : s[i].nr <= Len(videos')
  <2>1. \A i \in 1..Len(s) : s[i].nr \in Nat /\ s[i].nr <= Len(videos)
    <3>1. \A i \in 1..Len(s) : s[i] \in Video
      BY ElementOfSeq
    <3> QED  BY <1>8, <3>1 DEF Published, Video
  <2>2. \A i \in 1..Len(s) : s[i].nr < v.nr /\ s[i].nr <= Len(videos')
    BY <1>1, <1>3, <2>1
  <2> HIDE DEF new, v
  <2> QED  BY <1>6, <1>8, <2>2 DEF Older
<1>9. \A i \in 1..Len(new) : new[i].nr <= Len(videos')
  <2>1. v.nr <= Len(videos')
    BY <1>1, <1>3
  <2>2. \A i \in 1..Len(youtuber_requests) : youtuber_requests[i].nr <= Len(videos')
    BY <1>1, <1>3, <1>4
  <2> HIDE DEF new, v
  <2> QED  BY <1>6, <2>1, <2>2
<1> HIDE DEF new, v
<1>10. \A u \in User : /\ mailbox[u] \in Seq(Video) /\ seen[u] \in Seq(Video)
                       /\ Published(mailbox[u]) /\ Published(seen[u])
                       /\ Older(mailbox[u], youtuber_requests) /\ Older(seen[u], youtuber_requests)
  BY DEF VideoTyped, InOrder
<1>11. \A u \in User : /\ Older(mailbox[u], new) /\ Older(seen[u], new)
                       /\ \A i \in 1..Len(seen[u]) : seen[u][i].nr <= Len(videos')
                       /\ \A i \in 1..Len(mailbox[u]) : mailbox[u][i].nr <= Len(videos')
  BY <1>8, <1>10
<1>12. InOrder'
  BY <1>3, <1>6, <1>9, <1>11 DEF InOrder, Grows, Older, Published
<1> QED  BY <1>7, <1>12

\* The server consumes the oldest video, for some of the users.
LEMMA ConsumeStep ==
  ASSUME VideoInv, ConsumeYoutuberRequest
  PROVE  VideoInv'
<1> USE DEF VideoInv
<1> DEFINE q == youtuber_requests v == Head(q)
<1>1. q \in Seq(Video) /\ q # <<>> /\ Grows(q) /\ Published(q)
  BY DEF VideoTyped, InOrder, ConsumeYoutuberRequest
<1>2. /\ Tail(q) \in Seq(Video) /\ Within(Tail(q), q) /\ Grows(Tail(q))
      /\ v = q[1] /\ 1 \in 1..Len(q) /\ v \in Video
      /\ \A i \in 1..Len(Tail(q)) : v.nr < Tail(q)[i].nr
  BY <1>1, TailInOrder
<1>3. /\ youtuber_requests' = Tail(q)
      /\ UNCHANGED <<user_requests, seen, videos>>
      /\ mailbox' = [u \in User |-> IF v.youtuber \in subscriptions[u] /\ u \in declared
                                    THEN Append(mailbox[u], v) ELSE mailbox[u]]
  BY DEF ConsumeYoutuberRequest, Delivered
<1>4. v.nr <= Len(videos)
  BY <1>1, <1>2 DEF Published
<1>5. ASSUME NEW u \in User
      PROVE  LET box == mailbox'[u]
             IN  /\ box \in Seq(Video) /\ Grows(box) /\ Published(box)
                 /\ Older(seen[u], box) /\ Older(seen[u], Tail(q)) /\ Older(box, Tail(q))
  <2>1. /\ mailbox[u] \in Seq(Video) /\ seen[u] \in Seq(Video)
        /\ Grows(mailbox[u]) /\ Published(mailbox[u])
        /\ Older(seen[u], mailbox[u]) /\ Older(seen[u], q) /\ Older(mailbox[u], q)
    BY DEF VideoTyped, InOrder
  <2>2. Older(seen[u], Tail(q)) /\ Older(mailbox[u], Tail(q))
    BY <1>2, <2>1, OlderParts, WithinItself
  <2>3. /\ \A i \in 1..Len(mailbox[u]) : mailbox[u][i].nr < v.nr
        /\ \A i \in 1..Len(seen[u]) : seen[u][i].nr < v.nr
    BY <1>2, <2>1 DEF Older
  <2> DEFINE new == Append(mailbox[u], v)
  <2>4. /\ new \in Seq(Video) /\ Grows(new)
        /\ \A i \in 1..Len(new) : new[i] = v \/ \E k \in 1..Len(mailbox[u]) : new[i] = mailbox[u][k]
    BY <1>2, <2>1, <2>3, AppendInOrder
  <2>5. mailbox'[u] = new \/ mailbox'[u] = mailbox[u]
    BY <1>3
  <2> HIDE DEF new, q, v
  <2>6. Published(new) /\ Older(seen[u], new) /\ Older(new, Tail(q))
    BY <1>2, <1>4, <2>1, <2>2, <2>3, <2>4 DEF Published, Older
  <2>7. CASE mailbox'[u] = new
    BY <2>2, <2>4, <2>6, <2>7
  <2>8. CASE mailbox'[u] = mailbox[u]
    BY <2>1, <2>2, <2>8
  <2> QED  BY <2>5, <2>7, <2>8
<1>6. Published(Tail(q))
  BY <1>1, <1>2, PublishedParts
<1> HIDE DEF q, v
<1>7. mailbox' \in [User -> Seq(Video)]
  BY <1>3, <1>5
<1>8. VideoTyped'
  BY <1>2, <1>3, <1>7 DEF VideoTyped
<1>9. \A u \in User : Grows(seen[u]) /\ Published(seen[u])
  BY DEF InOrder
<1>10. InOrder'
  BY <1>2, <1>3, <1>5, <1>6, <1>9 DEF InOrder, Grows, Older, Published
<1> QED  BY <1>8, <1>10

\* A server that dies loses messages from the front of its queues.
LEMMA DiesStep ==
  ASSUME VideoInv, ServerDies
  PROVE  VideoInv'
<1> USE DEF VideoInv
<1>1. PICK rest \in Leftover(youtuber_requests) : youtuber_requests' = rest
  BY DEF ServerDies
<1>2. youtuber_requests \in Seq(Video) /\ Grows(youtuber_requests) /\ Published(youtuber_requests)
  BY DEF VideoTyped, InOrder
<1>3. rest \in Seq(Video) /\ Within(rest, youtuber_requests) /\ Grows(rest)
  BY <1>2, LeftoverInOrder
<1>4. UNCHANGED <<mailbox, seen, videos>>
  BY DEF ServerDies
<1>5. user_requests' \in Seq(UserRequest)
  <2>1. PICK n \in 1..Len(user_requests) + 1 :
          user_requests' = SubSeq(user_requests, n, Len(user_requests))
    BY DEF ServerDies, Leftover
  <2>2. user_requests \in Seq(UserRequest) /\ Len(user_requests) \in Nat
    BY LenProperties DEF VideoTyped
  <2>3. n \in Int /\ Len(user_requests) \in Int
        /\ \A i \in n..Len(user_requests) : user_requests[i] \in UserRequest
    BY <2>2, ElementOfSeq
  <2> QED  BY <2>1, <2>3, SubSeqProperties
<1>6. Published(rest)
  BY <1>2, <1>3, PublishedParts
<1>7. \A u \in User : Older(seen[u], rest) /\ Older(mailbox[u], rest)
  BY <1>3, OlderParts, WithinItself DEF InOrder
<1>8. VideoTyped'
  BY <1>1, <1>3, <1>4, <1>5 DEF VideoTyped
<1>9. InOrder'
  BY <1>1, <1>3, <1>4, <1>6, <1>7 DEF InOrder, Grows, Older, Published
<1> QED  BY <1>8, <1>9

-----------------------------------------------------------------------------
\* Every step, one that changes nothing included, keeps the invariant.
LEMMA VideoNextInv == VideoInv /\ [VideoNext]_videovars => VideoInv'
<1> SUFFICES ASSUME VideoInv, [VideoNext]_videovars
             PROVE  VideoInv'
  OBVIOUS
<1>1. ASSUME UNCHANGED <<youtuber_requests, mailbox, seen, videos>>,
             user_requests' \in Seq(UserRequest)
      PROVE  VideoInv'
  BY <1>1, QueuesUnchanged DEF VideoInv, VideoTyped
<1>2. user_requests \in Seq(UserRequest)
  BY DEF VideoInv, VideoTyped
<1>3. CASE ConsumeUserRequest
  <2>1. user_requests' \in Seq(UserRequest)
    BY <1>2, <1>3, HeadTailProperties DEF ConsumeUserRequest
  <2> QED  BY <1>1, <1>3, <2>1 DEF ConsumeUserRequest
<1>4. CASE ConsumeYoutuberRequest
  BY <1>4, ConsumeStep
<1>5. ASSUME NEW u \in User, ReceiveNotification(u)
      PROVE  VideoInv'
  BY <1>5, ReceiveStep
<1>6. CASE ServerDies
  BY <1>6, DiesStep
<1>7. CASE ServerStarts
  BY <1>1, <1>2, <1>7 DEF ServerStarts, broker
<1>8. ASSUME NEW u \in User, LogIn(u)
      PROVE  VideoInv'
  BY <1>1, <1>2, <1>8 DEF LogIn
<1>9. ASSUME NEW u \in User, LogOut(u)
      PROVE  VideoInv'
  BY <1>9, LogOutStep
<1>10. ASSUME NEW u \in User, NEW y \in Youtuber, NEW subscribe \in BOOLEAN,
              StartUser(u, y, subscribe)
       PROVE  VideoInv'
  <2>1. [user |-> u, youtuber |-> y, subscribe |-> subscribe] \in UserRequest
    BY DEF UserRequest
  <2>2. user_requests' \in Seq(UserRequest)
    BY <1>2, <1>10, <2>1, AppendProperties DEF StartUser
  <2> QED  BY <1>1, <1>10, <2>2 DEF StartUser
<1>11. ASSUME NEW y \in Youtuber, PublishVideo(y)
       PROVE  VideoInv'
  BY <1>11, PublishStep
<1>12. CASE UNCHANGED videovars
  BY <1>1, <1>2, <1>12 DEF videovars, broker
<1> QED  BY <1>3, <1>4, <1>5, <1>6, <1>7, <1>8, <1>9, <1>10, <1>11, <1>12 DEF VideoNext, VideoDelivers

\* The inductive invariant holds whatever users and youtubers do, and the server over any
\* number of restarts.
THEOREM VideoInvariance == VideoSpec => []VideoInv
<1>1. VideoInit => VideoInv
  BY VideoInitInv
<1>2. VideoInv /\ [VideoNext]_videovars => VideoInv'
  BY VideoNextInv
<1> QED  BY <1>1, <1>2, PTL DEF VideoSpec

\* The invariant implies the property.
LEMMA InvImpliesOrder == VideoInv => SeenInOrder
<1> SUFFICES ASSUME VideoInv, NEW u \in User
             PROVE  LET both == seen[u] \o mailbox[u]
                    IN  \A i, j \in DOMAIN both : i < j => both[i].nr < both[j].nr
  BY DEF SeenInOrder
<1> DEFINE s == seen[u] t == mailbox[u] both == s \o t
<1>1. s \in Seq(Video) /\ t \in Seq(Video) /\ Grows(s) /\ Grows(t) /\ Older(s, t)
  BY DEF VideoInv, VideoTyped, InOrder
<1>2. Len(s) \in Nat /\ Len(t) \in Nat
  BY <1>1, LenProperties
<1>3. /\ both \in Seq(Video) /\ Len(both) = Len(s) + Len(t)
      /\ \A i \in 1..Len(s) + Len(t) : both[i] = IF i <= Len(s) THEN s[i] ELSE t[i - Len(s)]
  BY <1>1, ConcatProperties
<1>4. DOMAIN both = 1..Len(s) + Len(t)
  BY <1>3, LenProperties
<1> HIDE DEF both, s, t
<1>5. ASSUME NEW i \in DOMAIN both, NEW j \in DOMAIN both, i < j
      PROVE  both[i].nr < both[j].nr
  <2>1. i \in 1..Len(s) + Len(t) /\ j \in 1..Len(s) + Len(t)
    BY <1>4
  <2>2. CASE i <= Len(s) /\ j <= Len(s)
    BY <1>1, <1>2, <1>3, <1>5, <2>1, <2>2 DEF Grows
  <2>3. CASE i <= Len(s) /\ ~(j <= Len(s))
    <3>1. i \in 1..Len(s) /\ j - Len(s) \in 1..Len(t)
      BY <1>2, <2>1, <2>3
    <3> QED  BY <1>1, <1>3, <2>1, <2>3, <3>1 DEF Older
  <2>4. CASE ~(i <= Len(s)) /\ ~(j <= Len(s))
    <3>1. i - Len(s) \in 1..Len(t) /\ j - Len(s) \in 1..Len(t) /\ i - Len(s) < j - Len(s)
      BY <1>2, <1>5, <2>1, <2>4
    <3> QED  BY <1>1, <1>3, <2>1, <2>4, <3>1 DEF Grows
  <2> QED  BY <1>2, <1>5, <2>1, <2>2, <2>3, <2>4
<1> QED  BY <1>5 DEF both, s, t

\* A user sees the videos in the order they were published, each at most once (user.py's
\* callback, youtubeser.py's notify_users), for any number of users, youtubers and videos.
THEOREM VideosInOrder == VideoSpec => []SeenInOrder
<1>1. VideoInv => SeenInOrder
  BY InvImpliesOrder
<1> QED  BY <1>1, VideoInvariance, PTL

-----------------------------------------------------------------------------
(***************************************************************************)
(* Subscriptions.  Of the requests of a user about a youtuber that wait,   *)
(* the last is the one that counts; when none waits, it has been handled.  *)
(***************************************************************************)
About(m, u, y) == m.user = u /\ m.youtuber = y

FollowTyped ==
  /\ subscriptions \in [User -> SUBSET Youtuber]
  /\ asked \in [User -> [Youtuber -> BOOLEAN]]
  /\ restarted \in BOOLEAN

\* No request of u about y comes after the i-th.
LastAbout(i, u, y) ==
  /\ i \in 1..Len(user_requests) /\ About(user_requests[i], u, y)
  /\ \A j \in 1..Len(user_requests) : About(user_requests[j], u, y) => j <= i

RequestsLead ==
  ~restarted => \A u \in User, y \in Youtuber :
    /\ \A i \in 1..Len(user_requests) :
         LastAbout(i, u, y) => user_requests[i].subscribe = asked[u][y]
    /\ (\A i \in 1..Len(user_requests) : ~About(user_requests[i], u, y))
         => (y \in subscriptions[u] <=> asked[u][y])

FollowInv == FollowTyped /\ RequestsLead

LEMMA FollowInit == VideoInit => FollowInv
<1> SUFFICES ASSUME VideoInit PROVE FollowInv
  OBVIOUS
<1>1. FollowTyped
  BY DEF VideoInit, FollowTyped
<1>2. \A i \in 1..Len(user_requests) : FALSE
  BY DEF VideoInit
<1>3. \A u \in User, y \in Youtuber : y \notin subscriptions[u] /\ asked[u][y] = FALSE
  BY DEF VideoInit
<1>. QED
  BY <1>1, <1>2, <1>3 DEF FollowInv, RequestsLead

LEMMA StartUserStep ==
  ASSUME VideoTyped, FollowInv, NEW u \in User, NEW y \in Youtuber, NEW subscribe \in BOOLEAN,
         StartUser(u, y, subscribe)
  PROVE  FollowInv'
<1> DEFINE m == [user |-> u, youtuber |-> y, subscribe |-> subscribe]
<1>1. /\ user_requests' = Append(user_requests, m)
      /\ asked' = [asked EXCEPT ![u][y] = subscribe]
      /\ subscriptions' = subscriptions /\ restarted' = restarted
  BY DEF StartUser
<1>2. m \in UserRequest /\ m.user = u /\ m.youtuber = y /\ m.subscribe = subscribe
  BY DEF UserRequest
<1> HIDE DEF m
<1>3. /\ Len(user_requests) \in Nat /\ Len(user_requests') = Len(user_requests) + 1
      /\ \A i \in 1..Len(user_requests) : user_requests'[i] = user_requests[i]
      /\ user_requests'[Len(user_requests')] = m
  BY <1>1, <1>2, AppendProperties, LenProperties DEF VideoTyped
<1>4. FollowTyped'
  BY <1>1 DEF FollowInv, FollowTyped
<1>5. asked'[u][y] = subscribe
  BY <1>1 DEF FollowInv, FollowTyped
<1>6. \A v \in User, z \in Youtuber : <<v, z>> # <<u, y>> => asked'[v][z] = asked[v][z]
  BY <1>1 DEF FollowInv, FollowTyped
<1>7. ASSUME NEW v \in User, NEW z \in Youtuber, ~restarted
      PROVE  /\ \A i \in 1..Len(user_requests') :
                  LastAbout(i, v, z)' => user_requests'[i].subscribe = asked'[v][z]
             /\ (\A i \in 1..Len(user_requests') : ~About(user_requests'[i], v, z))
                  => (z \in subscriptions'[v] <=> asked'[v][z])
  <2>1. CASE <<v, z>> = <<u, y>>
    <3>1. /\ Len(user_requests') \in 1..Len(user_requests')
          /\ About(user_requests'[Len(user_requests')], v, z)
      BY <1>2, <1>3, <2>1 DEF About
    <3>2. \A i \in 1..Len(user_requests') : LastAbout(i, v, z)' => i = Len(user_requests')
      BY <1>3, <3>1 DEF LastAbout
    <3>. QED
      BY <1>2, <1>3, <1>5, <2>1, <3>1, <3>2
  <2>2. CASE <<v, z>> # <<u, y>>
    <3>1. ~About(user_requests'[Len(user_requests')], v, z)
      BY <1>2, <1>3, <2>2 DEF About
    <3>2. \A i \in 1..Len(user_requests') :
            About(user_requests'[i], v, z) =>
              /\ i \in 1..Len(user_requests) /\ user_requests'[i] = user_requests[i]
              /\ About(user_requests[i], v, z)
      BY <1>3, <3>1
    <3>3. \A i \in 1..Len(user_requests) :
            About(user_requests[i], v, z) =>
              i \in 1..Len(user_requests') /\ About(user_requests'[i], v, z)
      BY <1>3
    <3>4. \A i \in 1..Len(user_requests') : LastAbout(i, v, z)' => LastAbout(i, v, z)
      BY <3>2, <3>3 DEF LastAbout
    <3>. QED
      BY <1>1, <1>6, <1>7, <2>2, <3>2, <3>3, <3>4 DEF FollowInv, RequestsLead, LastAbout
  <2>. QED
    BY <2>1, <2>2
<1>. QED
  BY <1>1, <1>4, <1>7 DEF FollowInv, RequestsLead

LEMMA ConsumeUserStep ==
  ASSUME VideoTyped, FollowInv, ConsumeUserRequest
  PROVE  FollowInv'
<1> DEFINE m == Head(user_requests)
<1>1. /\ user_requests # <<>> /\ user_requests' = Tail(user_requests)
      /\ subscriptions' = [subscriptions EXCEPT ![m.user] = Subscribed(@, m)]
      /\ asked' = asked /\ restarted' = restarted
  BY DEF ConsumeUserRequest
<1>2. /\ Len(user_requests) \in Nat \ {0} /\ m = user_requests[1] /\ m \in UserRequest
      /\ Len(user_requests') = Len(user_requests) - 1
      /\ \A i \in 1..Len(user_requests') : user_requests'[i] = user_requests[i + 1]
  <2>1. user_requests \in Seq(UserRequest) /\ user_requests # <<>>
    BY <1>1 DEF VideoTyped
  <2>2. Len(user_requests) \in Nat \ {0}
    BY <2>1, EmptySeq, LenProperties
  <2>3. m = user_requests[1]
    BY <2>1
  <2>. QED
    BY <1>1, <2>1, <2>2, <2>3, HeadTailProperties
<1> HIDE DEF m
<1>3. m.user \in User /\ m.youtuber \in Youtuber /\ m.subscribe \in BOOLEAN
  BY <1>2 DEF UserRequest
<1>4. FollowTyped'
  BY <1>1, <1>3 DEF FollowInv, FollowTyped, Subscribed
<1>5. ASSUME NEW u \in User, NEW y \in Youtuber, ~restarted
      PROVE  /\ \A i \in 1..Len(user_requests') :
                  LastAbout(i, u, y)' => user_requests'[i].subscribe = asked[u][y]
             /\ (\A i \in 1..Len(user_requests') : ~About(user_requests'[i], u, y))
                  => (y \in subscriptions'[u] <=> asked[u][y])
  <2>1. \A i \in 1..Len(user_requests') :
          i + 1 \in 1..Len(user_requests) /\ user_requests'[i] = user_requests[i + 1]
    BY <1>2
  <2>2. \A j \in 1..Len(user_requests) :
          j # 1 => j - 1 \in 1..Len(user_requests') /\ user_requests'[j - 1] = user_requests[j]
    BY <1>2
  <2>3. ASSUME NEW i \in 1..Len(user_requests'), LastAbout(i, u, y)'
        PROVE  user_requests'[i].subscribe = asked[u][y]
    <3>1. \A j \in 1..Len(user_requests) : About(user_requests[j], u, y) => j <= i + 1
      <4> SUFFICES ASSUME NEW j \in 1..Len(user_requests), About(user_requests[j], u, y), j # 1
                   PROVE  j <= i + 1
        OBVIOUS
      <4>1. j - 1 <= i
        BY <2>2, <2>3 DEF LastAbout
      <4>. QED
        BY <4>1
    <3>2. LastAbout(i + 1, u, y)
      BY <2>1, <2>3, <3>1 DEF LastAbout
    <3>. QED
      BY <1>5, <2>1, <3>2 DEF FollowInv, RequestsLead
  <2>4. ASSUME \A i \in 1..Len(user_requests') : ~About(user_requests'[i], u, y)
        PROVE  y \in subscriptions'[u] <=> asked[u][y]
    <3>1. \A j \in 1..Len(user_requests) : About(user_requests[j], u, y) => j = 1
      BY <2>2, <2>4
    <3>2. 1 \in 1..Len(user_requests)
      BY <1>2
    <3>3. CASE About(m, u, y)
      <4>1. LastAbout(1, u, y)
        BY <1>2, <3>1, <3>2, <3>3 DEF LastAbout
      <4>2. m.subscribe = asked[u][y]
        BY <1>2, <1>5, <3>2, <4>1 DEF FollowInv, RequestsLead
      <4>3. y \in subscriptions'[u] <=> m.subscribe
        BY <1>1, <1>3, <3>3 DEF About, Subscribed, FollowInv, FollowTyped
      <4>. QED
        BY <4>2, <4>3
    <3>4. CASE ~About(m, u, y)
      <4>1. \A j \in 1..Len(user_requests) : ~About(user_requests[j], u, y)
        BY <1>2, <3>1, <3>4
      <4>2. y \in subscriptions[u] <=> asked[u][y]
        BY <1>5, <4>1 DEF FollowInv, RequestsLead
      <4>3. y \in subscriptions'[u] <=> y \in subscriptions[u]
        BY <1>1, <1>3, <3>4 DEF About, Subscribed, FollowInv, FollowTyped
      <4>. QED
        BY <4>2, <4>3
    <3>. QED
      BY <3>3, <3>4
  <2>. QED
    BY <2>3, <2>4
<1>. QED
  BY <1>1, <1>4, <1>5 DEF FollowInv, RequestsLead

LEMMA FollowStep == VideoTyped /\ FollowInv /\ [VideoNext]_videovars => FollowInv'
<1> SUFFICES ASSUME VideoTyped, FollowInv, [VideoNext]_videovars PROVE FollowInv'
  OBVIOUS
<1>1. CASE \E u \in User, y \in Youtuber, subscribe \in BOOLEAN : StartUser(u, y, subscribe)
  BY <1>1, StartUserStep
<1>2. CASE ConsumeUserRequest
  BY <1>2, ConsumeUserStep
\* When the server goes down nothing is promised any more.
<1>3. CASE ServerDies
  BY <1>3 DEF ServerDies, FollowInv, FollowTyped, RequestsLead
<1>4. CASE UNCHANGED <<subscriptions, user_requests, asked, restarted>>
  BY <1>4 DEF FollowInv, FollowTyped, RequestsLead, LastAbout
<1>5. CASE ConsumeYoutuberRequest \/ ServerStarts
  BY <1>4, <1>5 DEF ConsumeYoutuberRequest, ServerStarts, broker
<1>6. CASE \E u \in User : ReceiveNotification(u) \/ LogIn(u) \/ LogOut(u)
  BY <1>4, <1>6 DEF ReceiveNotification, LogIn, LogOut
<1>7. CASE \E y \in Youtuber : PublishVideo(y)
  BY <1>4, <1>7 DEF PublishVideo
<1>8. CASE UNCHANGED videovars
  BY <1>4, <1>8 DEF videovars, broker
<1>. QED
  BY <1>1, <1>2, <1>3, <1>5, <1>6, <1>7, <1>8 DEF VideoNext, VideoDelivers

\* However many requests users send while others wait, the server follows the last
\* one about each youtuber once it has consumed them all, unless it was restarted
\* (user.py, youtubeser.py).
THEOREM SubscriptionsFollow == VideoSpec => []FollowsAsAsked
<1>1. FollowInv => FollowsAsAsked
  <2> SUFFICES ASSUME FollowInv, ~restarted, user_requests = <<>>, NEW u \in User
               PROVE  subscriptions[u] = {y \in Youtuber : asked[u][y]}
    BY DEF FollowsAsAsked
  <2>1. \A i \in 1..Len(user_requests) : FALSE
    OBVIOUS
  <2>2. \A y \in Youtuber : y \in subscriptions[u] <=> asked[u][y]
    BY <2>1 DEF FollowInv, RequestsLead
  <2>. QED
    BY <2>2 DEF FollowInv, FollowTyped
<1>2. VideoInit => FollowInv
  BY FollowInit
<1>3. VideoInv /\ FollowInv /\ [VideoNext]_videovars => FollowInv'
  BY FollowStep DEF VideoInv
<1>. QED
  BY <1>1, <1>2, <1>3, VideoInvariance, PTL DEF VideoSpec

=============================================================================

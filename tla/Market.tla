------------------------------- MODULE Market -------------------------------
(***************************************************************************)
(* assignment-1/part-1: market.py, the online shop, with the sellers and   *)
(* buyers of seller.py and buyer.py.                                       *)
(*                                                                         *)
(* Every RPC of MarketService does its work under one mutex, that of the   *)
(* notifications it sends included: the steps of a handler that someone    *)
(* else can see, or that may block, are actions of their own.  Two of them *)
(* go on after the mutex: the listings are converted to messages without   *)
(* it.  A price is the number of the update that set it.  Sellers are told *)
(* apart by address and uuid, buyers by address (no uuid is empty on one   *)
(* side only, so Client.__eq__ is equality).                               *)
(***************************************************************************)
EXTENDS Integers, Sequences, FiniteSets, SequencesExt, FiniteSetsExt

CONSTANTS
  Seller, Buyer,     \* client processes, by address
  MAX_WORKERS,       \* threads of the service
  NoOne

Shopper == Seller \cup Buyer

ASSUME MarketAssumption ==
  MAX_WORKERS \in Nat \ {0} /\ Seller \cap Buyer = {} /\ NoOne \notin Shopper

VARIABLES
  sellers,      \* Market.sellers: <<address, uuid>>
  items,        \* every Item made; its id is its place
  items_dict,   \* the ids on offer
  holder,       \* whose call holds the mutex
  running,      \* [Shopper -> {"up", "gone", "stuck"}]: the client processes
  uuid,         \* [Seller -> Nat]: the unique_id of a seller's process
  at,           \* [Shopper -> ...]: where the call of a client is
  req,          \* [Shopper -> request]: its last request
  todo,         \* [Shopper -> Seq(Shopper)]: whom its handler has to notify
  listing,      \* [Shopper -> ...]: what its handler converts
  called        \* history: [Buyer -> [id -> the update the shop last called it about]]

marketvars == <<sellers, items, items_dict, holder, running, uuid, at, req, todo, listing, called>>

RATED == 1..5

Attribute == {"price_per_unit", "quantity"}
Working == {"write", "take", "notify", "view", "list", "read"}

NoListing == [view |-> FALSE, size |-> 0, ids |-> {}, last |-> 0,
              seen |-> [a \in Attribute |-> 0]]

MarketInit ==
  /\ sellers = {} /\ items = <<>> /\ items_dict = {} /\ holder = NoOne
  /\ running = [c \in Shopper |-> IF c \in Buyer THEN "up" ELSE "gone"]
  /\ uuid = [c \in Seller |-> 0]
  /\ at = [c \in Shopper |-> "idle"]
  /\ req = [c \in Shopper |-> [op |-> "none"]]
  /\ todo = [c \in Shopper |-> <<>>]
  /\ listing = [c \in Shopper |-> NoListing]
  /\ called = [b \in Buyer |-> <<>>]

-----------------------------------------------------------------------------
(***************************************************************************)
(* The clients: one command at a time, each a call that waits without a    *)
(* deadline; an RPC error ends the command loop (at = "ended").            *)
(***************************************************************************)
Call(c, r) ==
  /\ at' = [at EXCEPT ![c] = "sent"]
  /\ req' = [req EXCEPT ![c] = r]

\* Seller.start_service: a new process has a new uuid, and registers.
StartSeller(c) ==
  /\ running[c] = "gone" /\ at[c] \in {"idle", "ended"}
  /\ running' = [running EXCEPT ![c] = "up"]
  /\ uuid' = [uuid EXCEPT ![c] = @ + 1]
  /\ Call(c, [op |-> "register"])
  /\ UNCHANGED <<sellers, items, items_dict, holder, todo, listing, called>>

\* Buyer.start_service: at the address that wish lists name; it registers nowhere.
StartBuyer(c) ==
  /\ running[c] = "gone" /\ at[c] \in {"idle", "ended"}
  /\ running' = [running EXCEPT ![c] = "up"]
  /\ at' = [at EXCEPT ![c] = "idle"]
  /\ UNCHANGED <<sellers, items, items_dict, holder, uuid, req, todo, listing, called>>

Command(c, r) ==
  /\ running[c] = "up" /\ at[c] = "idle"
  /\ Call(c, r)
  /\ UNCHANGED <<sellers, items, items_dict, holder, running, uuid, todo, listing, called>>

\* A client process that ends, hangs, or goes on
Becomes(c, from, to) ==
  /\ running[c] = from
  /\ running' = [running EXCEPT ![c] = to]
  /\ UNCHANGED <<sellers, items, items_dict, holder, uuid, at, req, todo, listing, called>>

Goes(c) == Becomes(c, "up", "gone")
Hangs(c) == Becomes(c, "up", "stuck")
Resumes(c) == Becomes(c, "stuck", "up")

\* Dialogue.start of seller.py: digits only, so no quantity is negative; a price may be.
SellReq(Name, Category, Quantity) ==
  [op: {"sell"}, product_name: Name, category: Category, quantity: Quantity, badPrice: BOOLEAN]
UpdateReq(Id, Quantity) == [op: {"update"}, item_id: Id, quantity: Quantity, badPrice: BOOLEAN]
DeleteReq(Id) == [op: {"delete"}, item_id: Id]
DisplayReq == [op: {"display"}]

\* Dialogue.start of buyer.py; "ANY" stands for any category and for the empty name.
SearchReq(Name, Category) ==
  [op: {"search"}, product_name: Name \cup {"ANY"}, category: Category \cup {"ANY"}]
BuyReq(Id, Quantity) == [op: {"buy"}, item_id: Id, quantity: Quantity]
WishReq(Id) == [op: {"wish"}, item_id: Id]
RateReq(Id, Rating) == [op: {"rate"}, item_id: Id, rating: Rating]

-----------------------------------------------------------------------------
(***************************************************************************)
(* MarketService: a call takes a thread and the mutex, together; a thread  *)
(* that only waits for the mutex keeps none that could go on.              *)
(***************************************************************************)
Workers == {c \in Shopper : at[c] \in Working}

\* Mistaken variant: the mutex is not taken.
Enters_NoMutex(c, op) ==
  at[c] = "sent" /\ req[c].op = op /\ Cardinality(Workers) < MAX_WORKERS

Enters(c, op) ==
  /\ at[c] = "sent" /\ req[c].op = op
  /\ holder = NoOne /\ Cardinality(Workers) < MAX_WORKERS

Goto(c, p) == at' = [at EXCEPT ![c] = p]
Who(c) == <<c, uuid[c]>>
Registered(c) == Who(c) \in sellers        \* __verify_credentials

\* register_seller
RegisterSeller(c) ==
  /\ Enters(c, "register")
  /\ sellers' = sellers \cup {Who(c)}
  /\ Goto(c, IF Registered(c) THEN "ended" ELSE "idle")
  /\ UNCHANGED <<items, items_dict, holder, running, uuid, req, todo, listing, called>>

\* Mistaken variant: the loop does not stop at the item it found.
Present_Last(c, name) ==
  items_dict # {} /\ LET i == Max(items_dict) IN items[i].product_name = name /\ items[i].seller = Who(c)

Present(c, name) == \E i \in items_dict : items[i].product_name = name /\ items[i].seller = Who(c)

NewItem(c, r) ==
  [product_name |-> r.product_name, category |-> r.category, quantity |-> r.quantity,
   version |-> [a \in Attribute |-> 1], seller |-> Who(c), wishlist |-> <<>>,
   rating |-> 0, raters |-> {}, stars |-> 0]

SellItem(c) ==
  /\ Enters(c, "sell")
  /\ LET r == req[c]
         sold == Registered(c) /\ ~r.badPrice /\ ~Present(c, r.product_name)
     IN  /\ items' = IF sold THEN Append(items, NewItem(c, r)) ELSE items
         /\ items_dict' = IF sold THEN items_dict \cup {Len(items) + 1} ELSE items_dict
  /\ called' = [b \in Buyer |-> [i \in DOMAIN items' |-> IF i \in DOMAIN items THEN called[b][i] ELSE 0]]
  /\ Goto(c, "idle")
  /\ UNCHANGED <<sellers, holder, running, uuid, req, todo, listing>>

\* The item is there, and is the caller's.
Owns(c, i) == Registered(c) /\ i \in items_dict /\ items[i].seller = Who(c)

DeleteItem(c) ==
  /\ Enters(c, "delete")
  /\ items_dict' = IF Owns(c, req[c].item_id) THEN items_dict \ {req[c].item_id} ELSE items_dict
  /\ Goto(c, "idle")
  /\ UNCHANGED <<sellers, items, holder, running, uuid, req, todo, listing, called>>

-----------------------------------------------------------------------------
(***************************************************************************)
(* update_item: the attributes of the item are set one after the other,    *)
(* then those who wish for it are called, the mutex held.                  *)
(***************************************************************************)
\* Mistaken variant: Item.update sets the quantity first.
FirstSet_Quantity == "quantity"
FirstSet == "price_per_unit"

\* Item.update: one attribute, of the next version
SetAttribute(item, a, v, quantity) ==
  [item EXCEPT !.version[a] = v, !.quantity = IF a = "quantity" THEN quantity ELSE @]

BeginUpdate(c) ==
  /\ Enters(c, "update")
  /\ LET i == req[c].item_id
         a == FirstSet
     IN  IF Owns(c, i) /\ ~req[c].badPrice
         THEN /\ items' = [items EXCEPT ![i] = SetAttribute(@, a, @.version[a] + 1, req[c].quantity)]
              /\ holder' = c
              /\ Goto(c, "write")
         ELSE Goto(c, "idle") /\ UNCHANGED <<items, holder>>
  /\ UNCHANGED <<sellers, items_dict, running, uuid, req, todo, listing, called>>

\* The other attribute; whoever wishes for the item then is called.
EndUpdate(c) ==
  /\ at[c] = "write"
  /\ LET i == req[c].item_id
         v == items[i].version[FirstSet]
     IN  /\ items' = [items EXCEPT ![i] =
               SetAttribute(@, CHOOSE a \in Attribute : a # FirstSet, v, req[c].quantity)]
         /\ todo' = [todo EXCEPT ![c] = items[i].wishlist]
  /\ Goto(c, "notify")
  /\ UNCHANGED <<sellers, items_dict, holder, running, uuid, req, listing, called>>

\* Mistaken variant: the first client that is gone ends the loop.
Rest_Abort(c) == IF running[Head(todo[c])] = "gone" THEN <<>> ELSE Tail(todo[c])

\* Mistaken variant: a client that is gone is called again.
Rest_Again(c) == IF running[Head(todo[c])] = "gone" THEN todo[c] ELSE Tail(todo[c])

\* An RpcError of one client is logged, and the next one is called.
Rest(c) == Tail(todo[c])

\* __send_client_notification: one call without a deadline: a client that hangs
\* keeps the handler, and the mutex.  A call that fails, because the client is gone or
\* for any other reason, is not repeated.
Notify(c) ==
  /\ at[c] = "notify" /\ todo[c] # <<>>
  /\ LET to == Head(todo[c])
         i == req[c].item_id
     IN  /\ running[to] # "stuck"
         /\ called' = IF to \in Buyer
                      THEN [called EXCEPT ![to][i] = items[i].version["price_per_unit"]]
                      ELSE called
  /\ todo' = [todo EXCEPT ![c] = Rest(c)]
  /\ UNCHANGED <<sellers, items, items_dict, holder, running, uuid, at, req, listing>>

\* Everyone is called: the mutex is free.
Notified(c) ==
  /\ at[c] = "notify" /\ todo[c] = <<>>
  /\ holder' = NoOne
  /\ Goto(c, "idle")
  /\ UNCHANGED <<sellers, items, items_dict, running, uuid, req, todo, listing, called>>

\* buy_item: the check, the new quantity, and word to the address of the seller
BeginBuy(c) ==
  /\ Enters(c, "buy")
  /\ LET i == req[c].item_id
         n == req[c].quantity
     IN  IF i \in items_dict /\ n > 0 /\ items[i].quantity >= n
         THEN holder' = c /\ Goto(c, "take")
         ELSE Goto(c, "idle") /\ UNCHANGED holder
  /\ UNCHANGED <<sellers, items, items_dict, running, uuid, req, todo, listing, called>>

EndBuy(c) ==
  /\ at[c] = "take"
  /\ LET i == req[c].item_id
     IN  /\ items' = [items EXCEPT ![i].quantity = @ - req[c].quantity]
         /\ todo' = [todo EXCEPT ![c] = <<items[i].seller[1]>>]
  /\ Goto(c, "notify")
  /\ UNCHANGED <<sellers, items_dict, holder, running, uuid, req, listing, called>>

\* Mistaken variant: a buyer that wishes again is in the list twice.
WishedBy_Twice(wishlist, c) == Append(wishlist, c)

\* Item.add_to_wish_list
WishedBy(wishlist, c) == IF Contains(wishlist, c) THEN wishlist ELSE Append(wishlist, c)

\* add_to_wish_list: for an unknown id it returns a pair, which no ItemOpResp takes:
\* the call fails.  The reply has no price: there only is nothing to call the buyer about
\* before its wish.
AddToWishList(c) ==
  /\ Enters(c, "wish")
  /\ LET i == req[c].item_id
     IN  IF i \in items_dict
         THEN /\ items' = [items EXCEPT ![i].wishlist = WishedBy(@, c)]
              /\ called' = IF Contains(items[i].wishlist, c) THEN called
                           ELSE [called EXCEPT ![c][i] = items[i].version["price_per_unit"]]
              /\ Goto(c, "idle")
         ELSE Goto(c, "ended") /\ UNCHANGED <<items, called>>
  /\ UNCHANGED <<sellers, items_dict, holder, running, uuid, req, todo, listing>>

-----------------------------------------------------------------------------
(***************************************************************************)
(* Ratings, in tenths; 0 for an item that is not rated                     *)
(***************************************************************************)
\* round(num / den): the nearest number; of two, either may be nearer in floating point.
Rounded(num, den) == {n \in 0..50 : 2 * (n * den - num) <= den /\ 2 * (num - n * den) <= den}

\* Mistaken variant: the rater is counted before the mean is taken.
NewMean_Counted(rating, k, stars) == Rounded(rating * (k + 1) + 10 * stars, k + 2)

\* The mean so far, weighted by the number of raters, and the new rating
NewMean(rating, k, stars) == Rounded(rating * k + 10 * stars, k + 1)

\* Rating.add_rating
AddRating(item, c, stars) ==
  {[item EXCEPT !.rating = r, !.raters = @ \cup {c}, !.stars = @ + stars] :
     r \in IF item.raters = {} THEN {10 * stars}
           ELSE NewMean(item.rating, Cardinality(item.raters), stars)}

RateItem(c) ==
  /\ Enters(c, "rate")
  /\ LET i == req[c].item_id
         stars == req[c].rating
     IN  IF i \in items_dict /\ stars \in RATED /\ c \notin items[i].raters
         THEN \E item \in AddRating(items[i], c, stars) : items' = [items EXCEPT ![i] = item]
         ELSE UNCHANGED items
  /\ Goto(c, "idle")
  /\ UNCHANGED <<sellers, items_dict, holder, running, uuid, req, todo, listing, called>>

-----------------------------------------------------------------------------
(***************************************************************************)
(* Listings: collected under the mutex, converted without it.  The search  *)
(* for everything collects nothing: it returns the live values of the      *)
(* dictionary, whose iterator fails when their number changes.             *)
(***************************************************************************)
\* seller_items
SellerItems(c) == IF Registered(c) THEN {i \in items_dict : items[i].seller = Who(c)} ELSE {}

\* search_items
SearchItems(name, category) ==
  {i \in items_dict : /\ name \in {"ANY", items[i].product_name}
                      /\ category \in {"ANY", items[i].category}}

DisplaySellerItems(c) ==
  /\ Enters(c, "display")
  /\ listing' = [listing EXCEPT ![c] = [NoListing EXCEPT !.ids = SellerItems(c)]]
  /\ Goto(c, "list")
  /\ UNCHANGED <<sellers, items, items_dict, holder, running, uuid, req, todo, called>>

SearchItem(c) ==
  /\ Enters(c, "search")
  /\ LET r == req[c]
         everything == r.product_name = "ANY" /\ r.category = "ANY"
     IN  /\ listing' = [listing EXCEPT ![c] = [NoListing EXCEPT !.view = everything,
                          !.ids = SearchItems(r.product_name, r.category)]]
         /\ Goto(c, IF everything THEN "view" ELSE "list")
  /\ UNCHANGED <<sellers, items, items_dict, holder, running, uuid, req, todo, called>>

\* The iterator over the values is made.
BeginView(c) ==
  /\ at[c] = "view"
  /\ listing' = [listing EXCEPT ![c].size = Cardinality(items_dict)]
  /\ Goto(c, "list")
  /\ UNCHANGED <<sellers, items, items_dict, holder, running, uuid, req, todo, called>>

\* A dictionary is in the order of insertion, the order of the ids.
Left(c) == {i \in IF listing[c].view THEN items_dict ELSE listing[c].ids : i > listing[c].last}
Changed(c) == listing[c].view /\ Cardinality(items_dict) # listing[c].size

\* Mistaken variant: item_to_item_details reads the price first.
FirstRead_Price == "price_per_unit"
FirstRead == "quantity"

Sees(c, i, a, next) ==
  listing' = [listing EXCEPT ![c].last = i, ![c].seen[a] = items[i].version[a]] /\ Goto(c, next)

\* item_to_item_details: one attribute of the next item, then the other
ReadItem(c) ==
  /\ at[c] = "list" /\ ~Changed(c) /\ Left(c) # {}
  /\ Sees(c, Min(Left(c)), FirstRead, "read")
  /\ UNCHANGED <<sellers, items, items_dict, holder, running, uuid, req, todo, called>>

ReadOn(c) ==
  /\ at[c] = "read"
  /\ Sees(c, listing[c].last, CHOOSE a \in Attribute : a # FirstRead, "list")
  /\ UNCHANGED <<sellers, items, items_dict, holder, running, uuid, req, todo, called>>

\* The list is complete; or the iterator raises, and the call fails.
EndListing(c) ==
  /\ at[c] = "list" /\ (Changed(c) \/ Left(c) = {})
  /\ listing' = [listing EXCEPT ![c] = NoListing]
  /\ Goto(c, IF Changed(c) THEN "ended" ELSE "idle")
  /\ UNCHANGED <<sellers, items, items_dict, holder, running, uuid, req, todo, called>>

-----------------------------------------------------------------------------
\* A step of the service for the call of c
ServeCall(c) ==
  \/ RegisterSeller(c) \/ SellItem(c) \/ BeginUpdate(c) \/ EndUpdate(c) \/ DeleteItem(c)
  \/ Notify(c) \/ Notified(c) \/ BeginBuy(c) \/ EndBuy(c)
  \/ AddToWishList(c) \/ RateItem(c) \/ DisplaySellerItems(c) \/ SearchItem(c)
  \/ BeginView(c) \/ ReadItem(c) \/ ReadOn(c) \/ EndListing(c)

MarketServes == \E c \in Shopper : ServeCall(c)

\* Any client gives any command it can give, any number of times.
SellerRequests ==
  SellReq(STRING, STRING, Nat) \cup UpdateReq(Nat, Nat) \cup DeleteReq(Nat) \cup DisplayReq
BuyerRequests ==
  SearchReq(STRING, STRING) \cup BuyReq(Nat, Nat) \cup WishReq(Nat) \cup RateReq(Nat, Nat)

MarketNext ==
  \/ MarketServes
  \/ \E c \in Seller : StartSeller(c) \/ \E r \in SellerRequests : Command(c, r)
  \/ \E c \in Buyer : StartBuyer(c) \/ \E r \in BuyerRequests : Command(c, r)
  \/ \E c \in Shopper : Goes(c) \/ Hangs(c) \/ Resumes(c)

MarketSpec == MarketInit /\ [][MarketNext]_marketvars

\* The service does not rest while it can go on with some call.
MarketFairness == WF_marketvars(MarketServes)

-----------------------------------------------------------------------------
(***************************************************************************)
(* Properties                                                              *)
(***************************************************************************)
\* Every variable has its type; the wish lists, raters and the calls that hold the
\* mutex are those of known clients.
MarketTypeOK ==
  /\ items_dict \subseteq DOMAIN items
  /\ \A i \in DOMAIN items : /\ items[i].seller \in sellers
                             /\ items[i].quantity \in Nat
                             /\ IsInjective(items[i].wishlist)
                             /\ items[i].rating \in {0} \cup 10..50
  /\ holder \in Shopper \cup {NoOne}
  /\ at \in [Shopper -> Working \cup {"idle", "sent", "ended"}]
  /\ todo \in [Shopper -> Seq(Shopper)]
  /\ Cardinality(Workers) <= MAX_WORKERS

\* Whoever is in the middle of a change, of the notifications for it too, is the one
\* that holds the mutex (market.py:241, 301).
ChangesHoldMutex == \A c \in Shopper : at[c] \in {"write", "take", "notify"} <=> holder = c

\* A seller never has two items of one name on offer (sell_item).
OneOfAName ==
  \A i, j \in items_dict :
    items[i].product_name = items[j].product_name /\ items[i].seller = items[j].seller => i = j

\* No two purchases, at whatever the same time, take the same unit.
NeverOversold == \A i \in DOMAIN items : items[i].quantity >= 0

\* An item converted without the mutex, in the middle of an update perhaps, never shows
\* the new stock at the old price.
NoStockAtOldPrice ==
  \A c \in Shopper : at[c] # "read" =>
    listing[c].seen["quantity"] <= listing[c].seen["price_per_unit"]

\* A buyer that wishes for an item has been called about every update since, whoever of
\* its wish list was gone or came back meanwhile: all but the update under way, whose
\* handler has yet to call it (market.py:457-460, 677-684).
WishersCalled ==
  \A i \in DOMAIN items, b \in Buyer :
    Contains(items[i].wishlist, b) =>
      \/ called[b][i] = items[i].version["price_per_unit"]
      \/ \E c \in Shopper :
           /\ at[c] \in {"write", "notify"} /\ req[c].item_id = i
           /\ at[c] = "notify" => Contains(todo[c], b)

\* The rating kept, each time rounded, is not far from the mean of all ratings:
\* twice the difference, times k raters, is at most 2 + 3 + ... + k.
RatingDrift ==
  \A i \in DOMAIN items :
    LET item == items[i]
        k == Cardinality(item.raters)
        drift == 2 * (item.rating * k - 10 * item.stars)
    IN  k > 0 => 2 * drift <= k * (k + 1) - 2 /\ -2 * drift <= k * (k + 1) - 2

\* The client that the handler of c is about to notify hangs: c holds the mutex.
HeldUp(c) == at[c] = "notify" /\ todo[c] # <<>> /\ running[Head(todo[c])] = "stuck"

\* The calls that wait come to be served, all of them, unless the handler with the mutex
\* notifies a client that hangs.
CallsEnd ==
  (\E c \in Shopper : at[c] = "sent") ~>
    \/ \A c \in Shopper : at[c] \in {"idle", "ended"}
    \/ \E c \in Shopper : HeldUp(c)
=============================================================================

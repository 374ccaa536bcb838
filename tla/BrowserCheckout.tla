--------------------------- MODULE BrowserCheckout ---------------------------
(***************************************************************************)
(* A customer's checkout in the browser: checkout/checkout.js, with the    *)
(* cart of checkout/cart.js, over core/api.js, create-intent, Stripe.js    *)
(* and confirm-order.                                                      *)
(*                                                                         *)
(* All tabs of the browser share the cart, which is in localStorage.  The  *)
(* request id of a checkout, which decides the order, is in the memory of  *)
(* a tab, and a reload forgets it.  A call is one run of processCheckout,  *)
(* and each action of it goes from one await to the next.                  *)
(*                                                                         *)
(* An order is known by the number of its request id.  Abstracted: the     *)
(* customer, who is the same in all tabs; what create-intent does after    *)
(* its order is reserved, and how an order learns of its payment, which is *)
(* in OrderPayment; the simulated mode, in which nothing is paid; the      *)
(* names and prices the cart remembers, which no request carries.          *)
(***************************************************************************)
EXTENDS Integers, Sequences, FiniteSets

CONSTANTS
    Tabs, Calls, Products, None,
    Prices,        \* what a product may cost
    MaxItems,      \* CONFIG.cart.maxItems
    MaxQuantity,   \* CONFIG.cart.maxQuantityPerItem
    MaxRequestIds, \* bounds of a behaviour: request ids drawn,
    MaxEdits,      \* changes of the cart by the customer,
    MaxReloads     \* and reloads of a tab

ASSUME PricesAssumption == Prices \subseteq Nat \ {0}
ASSUME CartAssumption ==
    MaxItems \in Nat /\ MaxQuantity \in Nat /\ IsFiniteSet(Products)
ASSUME BoundsAssumption ==
    MaxRequestIds \in Nat /\ MaxEdits \in Nat /\ MaxReloads \in Nat

VARIABLES
    cart,       \* quantity of each product
    edits,      \* changes of it by the customer
    edition,    \* all changes of it, those of the checkout included (history)
    catalogue,  \* price of each product, 0 while it is not on sale
    tab,        \* the CheckoutManager of each tab
    call,       \* what each call is doing
    orders,     \* one for each request id drawn
    late        \* requests the browser has given up and the server has not

vars == <<cart, edits, edition, catalogue, tab, call, orders, late>>

Empty == [x \in Products |-> 0]
NoBill == [x \in Products |-> <<0, 0>>]
Contents == {x \in Products : cart[x] > 0}
Idle == [step |-> "idle", tab |-> None, id |-> 0, items |-> Empty,
         bill |-> NoBill]

\* A page that has just been loaded.
Loaded(n) == [busy |-> FALSE, id |-> 0, fingerprint |-> Empty, loads |-> n]

Init ==
    /\ cart = Empty
    /\ edits = 0
    /\ edition = 0
    /\ catalogue \in [Products -> Prices]
    /\ tab = [t \in Tabs |-> Loaded(1)]
    /\ call = [c \in Calls |-> Idle]
    /\ orders = <<>>
    /\ late = {}
-----------------------------------------------------------------------------
(* The cart *)

Change(items) ==
    /\ edits < MaxEdits
    /\ edits' = edits + 1
    /\ edition' = edition + 1
    /\ cart' = items
    /\ UNCHANGED <<catalogue, tab, call, orders, late>>

\* Mutant of AddItem: the quantities are not capped.
AddItem_Uncapped(x) ==
    /\ Cardinality(Contents) < MaxItems
    /\ Change([cart EXCEPT ![x] = @ + 1])

\* A full cart refuses the products it has, too.
AddItem(x) ==
    /\ Cardinality(Contents) < MaxItems
    /\ cart[x] < MaxQuantity
    /\ Change([cart EXCEPT ![x] = @ + 1])

RemoveItem(x) ==
    /\ x \in Contents
    /\ Change([cart EXCEPT ![x] = 0])
-----------------------------------------------------------------------------
(* processCheckout *)

Step(c, step) == call' = [call EXCEPT ![c].step = step]

\* Only the flag of the tab is asked: a second call passes while the first one
\* is still being validated.
Press(c, t) ==
    /\ call[c].step = "idle"
    /\ ~tab[t].busy
    /\ Contents # {}
    /\ call' = [call EXCEPT ![c].step = "validate", ![c].tab = t]
    /\ UNCHANGED <<cart, edits, edition, catalogue, tab, orders, late>>

\* What is left of the cart's own validation: it drops malformed items when it
\* is read.
CartIsValid == Contents # {}

\* The total is computed after the session was asked for.  Before the try, a
\* call that is refused leaves the flag alone.
Validate(c) ==
    /\ call[c].step = "validate"
    /\ \/ /\ CartIsValid
          /\ Step(c, "create")
          /\ tab' = [tab EXCEPT ![call[c].tab].busy = TRUE]
       \/ /\ call' = [call EXCEPT ![c] = Idle]
          /\ UNCHANGED tab
    /\ UNCHANGED <<cart, edits, edition, catalogue, orders, late>>

\* An error after that: the finally clause.
Fail(c) ==
    /\ call' = [call EXCEPT ![c] = Idle]
    /\ tab' = [tab EXCEPT ![call[c].tab].busy = FALSE]

\* Mutant of SameCheckout: every attempt draws a request id.
SameCheckout_Never(t) == FALSE

SameCheckout(t) == tab[t].id # 0 /\ tab[t].fingerprint = cart

\* _createIntent reads the cart again, which may have changed or be empty now.
\* page and edition are history: which page drew the request id, of which cart.
CreateIntent(c) ==
    LET t == call[c].tab
        id == IF SameCheckout(t) THEN tab[t].id ELSE Len(orders) + 1
    IN /\ call[c].step = "create"
       /\ id <= MaxRequestIds
       /\ call' = [call EXCEPT ![c].step = "resolve", ![c].id = id,
                               ![c].items = cart]
       /\ tab' = [tab EXCEPT ![t].id = id, ![t].fingerprint = cart]
       /\ IF id <= Len(orders) THEN UNCHANGED orders
          ELSE orders' = Append(orders,
                 [status |-> "none", bill |-> NoBill,
                  page |-> <<t, tab[t].loads>>, edition |-> edition])
       /\ UNCHANGED <<cart, edits, edition, catalogue, late>>

\* What items cost now.
Bill(items) ==
    [x \in Products |-> IF items[x] = 0 THEN <<0, 0>>
                        ELSE <<items[x], catalogue[x]>>]

\* validateRequestedItems; MAX_CART_ITEMS and MAX_QUANTITY are the limits of the
\* browser.
Acceptable(items) ==
    /\ Cardinality({x \in Products : items[x] > 0}) \in 1 .. MaxItems
    /\ \A x \in Products : items[x] <= MaxQuantity

OnSale(items) ==
    Acceptable(items) /\ \A x \in Products : items[x] > 0 => catalogue[x] > 0

\* create-intent validates the items and looks them up.  It refuses an empty
\* cart, a product that is not on sale and a session that has ended meanwhile.
Resolve(c) ==
    LET items == call[c].items
    IN /\ call[c].step = "resolve"
       /\ \/ /\ OnSale(items)
             /\ call' = [call EXCEPT ![c].step = "reserve",
                                     ![c].bill = Bill(items)]
             /\ UNCHANGED tab
          \/ Fail(c)
       /\ UNCHANGED <<cart, edits, edition, catalogue, orders, late>>

\* From now on a late request for the order is a replay or a conflict, of which
\* nobody has the answer.
Place(id, bill) ==
    /\ orders' = [orders EXCEPT ![id].status = "open", ![id].bill = bill]
    /\ late' = {r \in late : r.id # id}

\* Mutant of Replays: the existing order is answered without a look at it.
Replays_Unchecked(id, bill) == orders[id].status # "none"

\* The order exists, with the same cart fingerprint.
Replays(id, bill) == orders[id].status # "none" /\ orders[id].bill = bill

\* reserveOrder: an order that is there is answered again if it is the same,
\* and is a conflict if not.
Reserve(c) ==
    LET id == call[c].id  bill == call[c].bill
    IN /\ call[c].step = "reserve"
       /\ \/ /\ orders[id].status = "none"
             /\ Place(id, bill)
             /\ Step(c, "pay")
             /\ UNCHANGED tab
          \/ /\ Replays(id, bill)
             /\ Step(c, "pay")
             /\ UNCHANGED <<tab, orders, late>>
          \/ /\ orders[id].status # "none" /\ ~Replays(id, bill)
             /\ Fail(c)
             /\ UNCHANGED <<orders, late>>
       /\ UNCHANGED <<cart, edits, edition, catalogue>>

Request(c) ==
    [id |-> call[c].id, items |-> call[c].items, bill |-> call[c].bill]
AtServer(c) == call[c].step \in {"resolve", "reserve"}

\* The requests the calls leave behind.
Leaves(some) ==
    {Request(c) : c \in {d \in some : AtServer(d)
                           /\ orders[call[d].id].status = "none"}}

\* The browser gives up an attempt that goes on at the server, and _withRetry
\* makes the next one or none.
GiveUp(c) ==
    /\ AtServer(c)
    /\ late' = late \cup Leaves({c})
    /\ \/ /\ call' = [call EXCEPT ![c].step = "resolve", ![c].bill = NoBill]
          /\ UNCHANGED tab
       \/ Fail(c)
    /\ UNCHANGED <<cart, edits, edition, catalogue, orders>>

ResolveLate(r) ==
    /\ r.bill = NoBill
    /\ late' = (late \ {r}) \cup
          (IF OnSale(r.items) THEN {[r EXCEPT !.bill = Bill(r.items)]} ELSE {})
    /\ UNCHANGED <<cart, edits, edition, catalogue, tab, call, orders>>

ReserveLate(r) ==
    /\ r.bill # NoBill
    /\ Place(r.id, r.bill)
    /\ UNCHANGED <<cart, edits, edition, catalogue, tab, call>>

\* confirmCardPayment.  Stripe takes the payment of an intent once and refuses
\* it then; the card may be declined, and the answer be lost.
Pay(c) ==
    LET id == call[c].id
        paid == [orders EXCEPT ![id].status = "paid"]
    IN /\ call[c].step = "pay"
       /\ \/ /\ orders[id].status = "open"
             /\ orders' = paid
             /\ Step(c, "confirm")
             /\ UNCHANGED tab
          \/ /\ orders' \in {paid, orders}
             /\ Fail(c)
       /\ UNCHANGED <<cart, edits, edition, catalogue, late>>

ClearCart == cart' = Empty /\ edition' = edition + 1

\* confirm-order, which is asked once.  The whole cart is cleared, whatever it
\* holds now, and the request id of the tab forgotten, whichever it is now.
Confirm(c) ==
    /\ call[c].step = "confirm"
    /\ \/ /\ ClearCart
          /\ tab' = [tab EXCEPT ![call[c].tab] = Loaded(@.loads)]
          /\ call' = [call EXCEPT ![c] = Idle]
       \/ Fail(c) /\ UNCHANGED <<cart, edition>>
    /\ UNCHANGED <<edits, catalogue, orders, late>>
-----------------------------------------------------------------------------
(* Around it *)

\* The memory of the tab is lost, and its calls with it.
Reload(t) ==
    LET mine == {c \in Calls : call[c].tab = t}
    IN /\ tab[t].loads <= MaxReloads
       /\ tab' = [tab EXCEPT ![t] = Loaded(@.loads + 1)]
       /\ call' = [c \in Calls |-> IF c \in mine THEN Idle ELSE call[c]]
       /\ late' = late \cup Leaves(mine)
       /\ UNCHANGED <<cart, edits, edition, catalogue, orders>>

\* An exhibitor edits a stand, or it is hidden and shown.
Offer(x, price) ==
    /\ catalogue' = [catalogue EXCEPT ![x] = price]
    /\ UNCHANGED <<cart, edits, edition, tab, call, orders, late>>

Continue(c) ==
    \/ Validate(c) \/ CreateIntent(c) \/ Resolve(c) \/ Reserve(c)
    \/ GiveUp(c) \/ Pay(c) \/ Confirm(c)

Next ==
    \/ \E x \in Products : AddItem(x) \/ RemoveItem(x)
    \/ \E c \in Calls : Continue(c) \/ \E t \in Tabs : Press(c, t)
    \/ \E r \in late : ResolveLate(r) \/ ReserveLate(r)
    \/ \E t \in Tabs : Reload(t)
    \/ \E x \in Products, price \in Prices \cup {0} : Offer(x, price)

Spec == Init /\ [][Next]_vars
-----------------------------------------------------------------------------
(* Properties *)

Bills == [Products -> (0 .. MaxQuantity) \X (Prices \cup {0})]
Carts == [Products -> 0 .. MaxQuantity]
Ids == DOMAIN orders
Pages == Tabs \X Nat
Orders == [status : {"none", "open", "paid"}, bill : Bills, page : Pages,
           edition : Nat]
Memory == [busy : BOOLEAN, id : Nat, fingerprint : Carts, loads : Nat]
Running ==
    [step : {"idle", "validate", "create", "resolve", "reserve", "pay", "confirm"},
     tab : Tabs \cup {None}, id : Nat, items : Carts, bill : Bills]

TypeOK ==
    /\ cart \in Carts
    /\ Cardinality(Contents) <= MaxItems
    /\ edits \in 0 .. MaxEdits /\ edition \in Nat
    /\ catalogue \in [Products -> Prices \cup {0}]
    /\ orders \in Seq(Orders)
    /\ tab \in [Tabs -> Memory]
    /\ call \in [Calls -> Running]
    /\ \A t \in Tabs : tab[t].id \in Ids \cup {0}
    /\ \A c \in Calls : call[c].id \in Ids \cup {0}
    /\ late \subseteq [id : Ids, items : Carts, bill : Bills]

\* A customer who presses "Pay" again after whatever went wrong, in a page that
\* was not reloaded, does not pay the same cart twice: checkout.js keeps the
\* request id until the cart changes or is cleared.
OneChargePerCart ==
    \A i, j \in Ids :
        /\ orders[i].status = "paid" /\ orders[j].status = "paid"
        /\ orders[i].page = orders[j].page
        /\ orders[i].edition = orders[j].edition
        => i = j

\* What a call has Stripe charge is what the catalogue said in the attempt the
\* call has the answer of, whatever older attempt made the order: reserveOrder
\* compares the cart fingerprint.
PaysWhatItAsked ==
    \A c \in Calls : call[c].step \in {"pay", "confirm"} =>
        orders[call[c].id].bill = call[c].bill
=============================================================================

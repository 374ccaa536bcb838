------------------------ MODULE BrowserCheckoutProofs ------------------------
(***************************************************************************)
(* Theorems about BrowserCheckout for any tabs, calls, products, prices    *)
(* and limits.                                                             *)
(***************************************************************************)
EXTENDS BrowserCheckout, FiniteSetTheorems, TLAPS

\* A call that runs belongs to a tab, and has drawn its request id before it
\* goes to the server.
Placed ==
    \A c \in Calls :
        /\ call[c].step # "idle" => call[c].tab \in Tabs
        /\ call[c].step \in {"resolve", "reserve", "pay", "confirm"} =>
               call[c].id \in Ids

Shape == TypeOK /\ Placed
-----------------------------------------------------------------------------
(* Types *)

LEMMA ConstantTypes ==
    /\ Empty \in Carts /\ NoBill \in Bills /\ Idle \in Running
    /\ \A n \in Nat : Loaded(n) \in Memory
BY CartAssumption
DEF Empty, Carts, NoBill, Bills, Idle, Running, Loaded, Memory

LEMMA EmptyContents == cart = Empty => Cardinality(Contents) <= MaxItems
<1>1. cart = Empty => Contents = {}
  BY DEF Empty, Contents
<1> QED
  BY <1>1, FS_EmptySet, CartAssumption

LEMMA ShapeInit == Init => Shape
<1> SUFFICES ASSUME Init PROVE Shape
  OBVIOUS
<1>1. /\ cart \in Carts /\ Cardinality(Contents) <= MaxItems
      /\ edits \in 0 .. MaxEdits /\ edition \in Nat
      /\ catalogue \in [Products -> Prices \cup {0}]
  BY ConstantTypes, EmptyContents, BoundsAssumption DEF Init
<1>2. orders \in Seq(Orders) /\ Ids = {} /\ late = {}
  BY DEF Init, Ids
<1>3. tab \in [Tabs -> Memory] /\ \A t \in Tabs : tab[t].id = 0
  BY ConstantTypes DEF Init, Loaded
<1>4. call \in [Calls -> Running] /\ \A c \in Calls : call[c].id = 0 /\ call[c].step = "idle"
  BY ConstantTypes DEF Init, Idle
<1> QED
  BY <1>1, <1>2, <1>3, <1>4 DEF Shape, TypeOK, Placed

\* Changes of the cart by the customer.
LEMMA CartShape ==
    ASSUME Shape, NEW items \in Carts,
           Cardinality({x \in Products : items[x] > 0}) <= MaxItems, Change(items)
    PROVE  Shape'
BY BoundsAssumption DEF Change, Shape, TypeOK, Placed, Contents, Ids

LEMMA AddShape == ASSUME Shape, NEW x \in Products, AddItem(x) PROVE Shape'
<1> DEFINE items == [cart EXCEPT ![x] = @ + 1]
<1>1. cart \in Carts /\ cart[x] < MaxQuantity
  BY DEF AddItem, Shape, TypeOK
<1>2. items \in Carts /\ \A y \in Products : items[y] = IF y = x THEN cart[x] + 1 ELSE cart[y]
  BY <1>1, CartAssumption DEF Carts
<1> HIDE DEF items
<1>3. {y \in Products : items[y] > 0} = Contents \cup {x}
  BY <1>1, <1>2, CartAssumption DEF Contents, Carts
<1>4. IsFiniteSet(Contents) /\ Cardinality(Contents) \in Nat
  BY CartAssumption, FS_Subset, FS_CardinalityType DEF Contents
<1>5. Cardinality(Contents) < MaxItems
  BY DEF AddItem
<1>6. Cardinality(Contents \cup {x}) <= MaxItems
  <2>1. Cardinality(Contents \cup {x}) =
            IF x \in Contents THEN Cardinality(Contents) ELSE Cardinality(Contents) + 1
    BY <1>4, FS_AddElement
  <2> QED
    BY <1>4, <1>5, <2>1, CartAssumption
<1>7. Change(items)
  BY DEF AddItem, items
<1> QED
  BY <1>2, <1>3, <1>6, <1>7, CartShape

LEMMA RemoveShape == ASSUME Shape, NEW x \in Products, RemoveItem(x) PROVE Shape'
<1> DEFINE items == [cart EXCEPT ![x] = 0]
<1>1. cart \in Carts
  BY DEF Shape, TypeOK
<1>2. items \in Carts /\ \A y \in Products : items[y] = IF y = x THEN 0 ELSE cart[y]
  BY <1>1, CartAssumption DEF Carts
<1> HIDE DEF items
<1>3. {y \in Products : items[y] > 0} \subseteq Contents
  BY <1>1, <1>2, CartAssumption DEF Contents, Carts
<1>4. IsFiniteSet(Contents) /\ Cardinality(Contents) \in Nat /\ Cardinality(Contents) <= MaxItems
  BY CartAssumption, FS_Subset, FS_CardinalityType DEF Contents, Shape, TypeOK
<1>5. Cardinality({y \in Products : items[y] > 0}) <= MaxItems
  BY <1>3, <1>4, FS_Subset, FS_CardinalityType, CartAssumption
<1>6. Change(items)
  BY DEF RemoveItem, items
<1> QED
  BY <1>2, <1>5, <1>6, CartShape

\* A call and its tab go on.
LEMMA StepShape ==
    ASSUME Shape, NEW c \in Calls, NEW r \in Running, NEW t \in Tabs, NEW m \in Memory,
           call' = [call EXCEPT ![c] = r], tab' = [tab EXCEPT ![t] = m],
           orders' \in Seq(Orders), Ids \subseteq Ids',
           r.id \in Ids' \cup {0}, m.id \in Ids' \cup {0},
           r.step # "idle" => r.tab \in Tabs,
           r.step \in {"resolve", "reserve", "pay", "confirm"} => r.id \in Ids',
           late' \subseteq [id : Ids', items : Carts, bill : Bills],
           UNCHANGED <<cart, edits, edition, catalogue>>
    PROVE  Shape'
BY DEF Shape, TypeOK, Placed, Contents

\* A call fails.
LEMMA FailShape ==
    ASSUME Shape, NEW c \in Calls, call[c].step # "idle", Fail(c),
           UNCHANGED <<cart, edits, edition, catalogue>>,
           orders' \in Seq(Orders), Ids \subseteq Ids',
           late' \subseteq [id : Ids', items : Carts, bill : Bills]
    PROVE  Shape'
<1> DEFINE m == [tab[call[c].tab] EXCEPT !.busy = FALSE]
<1>1. call[c].tab \in Tabs /\ tab \in [Tabs -> Memory] /\ tab[call[c].tab].id \in Ids \cup {0}
  BY DEF Shape, TypeOK, Placed
<1>2. m \in Memory /\ m.id = tab[call[c].tab].id
  BY <1>1 DEF Memory
<1>3. tab' = [tab EXCEPT ![call[c].tab] = m]
  BY <1>1 DEF Fail
<1>4. Idle \in Running /\ Idle.step = "idle" /\ Idle.id = 0
  BY ConstantTypes DEF Idle
<1> HIDE DEF m
<1>5. call' = [call EXCEPT ![c] = Idle]
  BY DEF Fail
<1> QED
  BY <1>1, <1>2, <1>3, <1>4, <1>5, StepShape

\* A call goes on, with all it has, in a tab that does not change.
LEMMA GoShape ==
    ASSUME Shape, NEW c \in Calls, NEW step, Step(c, step),
           step \in {"validate", "create", "resolve", "reserve", "pay", "confirm"},
           call[c].step # "idle",
           step \in {"resolve", "reserve", "pay", "confirm"} => call[c].id \in Ids,
           UNCHANGED <<cart, edits, edition, catalogue, tab>>,
           orders' \in Seq(Orders), Ids \subseteq Ids',
           late' \subseteq [id : Ids', items : Carts, bill : Bills]
    PROVE  Shape'
<1> DEFINE r == [call[c] EXCEPT !.step = step]
<1>1. /\ call[c].tab \in Tabs /\ call \in [Calls -> Running] /\ call[c].id \in Ids \cup {0}
      /\ tab \in [Tabs -> Memory] /\ tab[call[c].tab].id \in Ids \cup {0}
  BY DEF Shape, TypeOK, Placed
<1>2. r \in Running /\ r.id = call[c].id /\ r.tab = call[c].tab /\ r.step = step
  BY <1>1 DEF Running
<1>3. call' = [call EXCEPT ![c] = r]
  BY <1>1 DEF Step
<1>4. tab' = [tab EXCEPT ![call[c].tab] = tab[call[c].tab]]
  BY <1>1
<1> HIDE DEF r
<1> QED
  BY <1>1, <1>2, <1>3, <1>4, StepShape

\* The orders and the late requests as they are.
LEMMA OrderTypes ==
    Shape => /\ orders \in Seq(Orders) /\ Len(orders) \in Nat /\ Ids = 1 .. Len(orders)
             /\ \A id \in Ids : orders[id] \in Orders
             /\ late \subseteq [id : Ids, items : Carts, bill : Bills]
BY DEF Shape, TypeOK, Ids

LEMMA BillType ==
    ASSUME Shape, NEW items \in Carts
    PROVE  Bill(items) \in Bills
BY CartAssumption DEF Shape, TypeOK, Bill, Bills, Carts

\* An order that is placed or paid.
LEMMA PlaceTypes ==
    ASSUME Shape, NEW id \in Ids, NEW bill \in Bills, Place(id, bill)
    PROVE  /\ orders' \in Seq(Orders) /\ Ids' = Ids
           /\ late' \subseteq [id : Ids', items : Carts, bill : Bills]
           /\ \A k \in Ids : k # id => orders'[k] = orders[k]
           /\ orders'[id].status = "open" /\ orders'[id].bill = bill
           /\ orders'[id].page = orders[id].page /\ orders'[id].edition = orders[id].edition
<1> DEFINE o == [orders[id] EXCEPT !.status = "open", !.bill = bill]
<1>1. orders[id] \in Orders
  BY OrderTypes
<1>2. o \in Orders /\ o.status = "open" /\ o.bill = bill /\ o.page = orders[id].page
        /\ o.edition = orders[id].edition
  BY <1>1 DEF Orders
<1>3. orders' = [orders EXCEPT ![id] = o]
  BY OrderTypes DEF Place
<1> HIDE DEF o
<1>4. orders' \in Seq(Orders) /\ Ids' = Ids /\ Len(orders') = Len(orders)
  BY <1>2, <1>3, OrderTypes DEF Ids
<1>5. orders'[id] = o /\ \A k \in Ids : k # id => orders'[k] = orders[k]
  BY <1>3, OrderTypes DEF Ids
<1>6. late' \subseteq late
  BY DEF Place
<1> QED
  BY <1>2, <1>4, <1>5, <1>6, OrderTypes

LEMMA PaidTypes ==
    ASSUME Shape, NEW id \in Ids, orders' \in {[orders EXCEPT ![id].status = "paid"], orders}
    PROVE  /\ orders' \in Seq(Orders) /\ Ids' = Ids
           /\ \A k \in Ids : /\ k # id => orders'[k] = orders[k]
                             /\ orders'[k].bill = orders[k].bill
                             /\ orders[k].status # "none" => orders'[k].status # "none"
                             /\ orders'[k].page = orders[k].page
                             /\ orders'[k].edition = orders[k].edition
<1> DEFINE o == [orders[id] EXCEPT !.status = "paid"]
<1>0. CASE orders' = orders
  BY <1>0, OrderTypes DEF Ids
<1>1. CASE orders' = [orders EXCEPT ![id].status = "paid"]
  <2>1. orders[id] \in Orders
    BY OrderTypes
  <2>2. /\ o \in Orders /\ o.status = "paid" /\ o.bill = orders[id].bill
        /\ o.page = orders[id].page /\ o.edition = orders[id].edition
    BY <2>1 DEF Orders
  <2>3. orders' = [orders EXCEPT ![id] = o]
    BY <1>1, OrderTypes
  <2> HIDE DEF o
  <2>4. orders' \in Seq(Orders) /\ Ids' = Ids /\ Len(orders') = Len(orders)
    BY <2>2, <2>3, OrderTypes DEF Ids
  <2>5. orders'[id] = o /\ \A k \in Ids : k # id => orders'[k] = orders[k]
    BY <2>3, OrderTypes DEF Ids
  <2> QED
    BY <2>2, <2>4, <2>5
<1> QED
  BY <1>0, <1>1

LEMMA CallTypes ==
    ASSUME Shape, NEW c \in Calls
    PROVE  /\ call \in [Calls -> Running] /\ call[c] \in Running
           /\ call[c].id \in Ids \cup {0} /\ call[c].items \in Carts /\ call[c].bill \in Bills
           /\ call[c].step # "idle" => call[c].tab \in Tabs
           /\ call[c].step \in {"resolve", "reserve", "pay", "confirm"} => call[c].id \in Ids
BY DEF Shape, TypeOK, Placed, Running

LEMMA TabTypes ==
    ASSUME Shape, NEW t \in Tabs
    PROVE  /\ tab \in [Tabs -> Memory] /\ tab[t] \in Memory /\ tab[t].id \in Ids \cup {0}
           /\ tab[t].loads \in Nat /\ tab[t].fingerprint \in Carts
BY DEF Shape, TypeOK, Memory

LEMMA PressShape ==
    ASSUME Shape, NEW c \in Calls, NEW t \in Tabs, Press(c, t)
    PROVE  Shape'
<1> DEFINE waiting == [call[c] EXCEPT !.step = "validate"]
           r == [waiting EXCEPT !.tab = t]
<1>1. waiting \in Running /\ waiting.step = "validate" /\ waiting.id = call[c].id
  BY CallTypes DEF Running
<1>2. call' = [call EXCEPT ![c] = r]
  BY CallTypes DEF Press
<1> HIDE DEF waiting
<1>3. r \in Running /\ r.step = "validate" /\ r.id = call[c].id /\ r.tab = t
  BY <1>1 DEF Running
<1> HIDE DEF r
<1>4. tab' = [tab EXCEPT ![t] = tab[t]] /\ tab[t] \in Memory /\ tab[t].id \in Ids \cup {0}
  BY TabTypes DEF Press
<1>5. Ids' = Ids /\ UNCHANGED <<cart, edits, edition, catalogue, orders, late>>
  BY DEF Press, Ids
<1> QED
  BY <1>2, <1>3, <1>4, <1>5, CallTypes, OrderTypes, StepShape

LEMMA ValidateShape ==
    ASSUME Shape, NEW c \in Calls, Validate(c)
    PROVE  Shape'
<1>0. /\ call[c].step = "validate" /\ call[c].tab \in Tabs
      /\ Ids' = Ids /\ UNCHANGED <<cart, edits, edition, catalogue, orders, late>>
  BY CallTypes DEF Validate, Ids
<1>1. CASE Step(c, "create") /\ tab' = [tab EXCEPT ![call[c].tab].busy = TRUE]
  <2> DEFINE t == call[c].tab
             m == [tab[t] EXCEPT !.busy = TRUE]
             r == [call[c] EXCEPT !.step = "create"]
  <2>1. m \in Memory /\ m.id \in Ids \cup {0}
    BY <1>0, TabTypes DEF Memory
  <2>2. tab' = [tab EXCEPT ![t] = m]
    BY <1>0, <1>1, TabTypes
  <2>3. r \in Running /\ r.step = "create" /\ r.id \in Ids \cup {0} /\ r.tab = t
    BY CallTypes DEF Running
  <2>4. call' = [call EXCEPT ![c] = r]
    BY <1>1, CallTypes DEF Step
  <2> HIDE DEF m, r
  <2> QED
    BY <1>0, <2>1, <2>2, <2>3, <2>4, OrderTypes, StepShape
<1>2. CASE call' = [call EXCEPT ![c] = Idle] /\ UNCHANGED tab
  <2>1. tab' = [tab EXCEPT ![call[c].tab] = tab[call[c].tab]]
    BY <1>0, <1>2, TabTypes
  <2>2. tab[call[c].tab] \in Memory /\ tab[call[c].tab].id \in Ids \cup {0}
    BY <1>0, TabTypes
  <2>3. Idle \in Running /\ Idle.step = "idle" /\ Idle.id = 0
    BY ConstantTypes DEF Idle
  <2> QED
    BY <1>0, <1>2, <2>1, <2>2, <2>3, OrderTypes, StepShape
<1> QED
  BY <1>1, <1>2 DEF Validate

\* What _createIntent does to the tab, the call and the orders.
LEMMA CreateIntentEffect ==
    ASSUME Shape, NEW c \in Calls, CreateIntent(c)
    PROVE  LET t == call[c].tab
               id == IF SameCheckout(t) THEN tab[t].id ELSE Len(orders) + 1
           IN /\ t \in Tabs
              /\ id \in Ids'
              /\ Ids \subseteq Ids' /\ orders' \in Seq(Orders)
              /\ \A k \in Ids : orders'[k] = orders[k]
              /\ Ids' \subseteq Ids \cup {id}
              /\ id \notin Ids => /\ orders'[id].page = <<t, tab[t].loads>>
                                /\ orders'[id].edition = edition
              /\ tab' = [tab EXCEPT ![t].id = id, ![t].fingerprint = cart]
              /\ call' = [call EXCEPT ![c].step = "resolve", ![c].id = id, ![c].items = cart]
<1> DEFINE t == call[c].tab
           id == IF SameCheckout(t) THEN tab[t].id ELSE Len(orders) + 1
           o == [status |-> "none", bill |-> NoBill, page |-> <<t, tab[t].loads>>,
                 edition |-> edition]
<1>1. t \in Tabs
  BY CallTypes DEF CreateIntent
<1>2. id \in 1 .. Len(orders) + 1
  BY <1>1, TabTypes, OrderTypes DEF SameCheckout
<1>3. o \in Orders /\ o.page = <<t, tab[t].loads>> /\ o.edition = edition
  BY <1>1, TabTypes, ConstantTypes DEF Orders, Pages, Shape, TypeOK
<1>4. /\ tab' = [tab EXCEPT ![t].id = id, ![t].fingerprint = cart]
      /\ call' = [call EXCEPT ![c].step = "resolve", ![c].id = id, ![c].items = cart]
      /\ IF id <= Len(orders) THEN UNCHANGED orders ELSE orders' = Append(orders, o)
  BY DEF CreateIntent
<1> HIDE DEF id, o
<1>5. CASE id <= Len(orders)
  BY <1>1, <1>2, <1>4, <1>5, OrderTypes DEF Ids, id
<1>6. CASE id = Len(orders) + 1
  <2>1. orders' = Append(orders, o)
    BY <1>4, <1>6, OrderTypes
  <2>2. /\ orders' \in Seq(Orders) /\ Ids' = 1 .. Len(orders) + 1
        /\ \A k \in Ids : orders'[k] = orders[k]
        /\ orders'[id] = o
    BY <1>3, <1>6, <2>1, OrderTypes DEF Ids
  <2>3. Ids' = Ids \cup {id} /\ id \notin Ids
    BY <1>6, <2>2, OrderTypes
  <2> QED
    BY <1>1, <1>3, <1>4, <2>2, <2>3 DEF id
<1> QED
  BY <1>2, <1>5, <1>6, OrderTypes

LEMMA CreateIntentShape ==
    ASSUME Shape, NEW c \in Calls, CreateIntent(c)
    PROVE  Shape'
<1> DEFINE t == call[c].tab
           id == IF SameCheckout(t) THEN tab[t].id ELSE Len(orders) + 1
           m1 == [tab[t] EXCEPT !.id = id]
           m == [m1 EXCEPT !.fingerprint = cart]
           r1 == [call[c] EXCEPT !.step = "resolve"]
           r2 == [r1 EXCEPT !.id = id]
           r == [r2 EXCEPT !.items = cart]
<1>1. t \in Tabs /\ id \in Ids' /\ Ids \subseteq Ids' /\ orders' \in Seq(Orders)
      /\ tab' = [tab EXCEPT ![t].id = id, ![t].fingerprint = cart]
      /\ call' = [call EXCEPT ![c].step = "resolve", ![c].id = id, ![c].items = cart]
  BY CreateIntentEffect
<1>2. id \in Nat /\ cart \in Carts /\ tab[t] \in Memory /\ call[c] \in Running
  BY <1>1, TabTypes, CallTypes, OrderTypes DEF Shape, TypeOK, Memory
<1>3. tab' = [tab EXCEPT ![t] = m] /\ call' = [call EXCEPT ![c] = r]
  BY <1>1, TabTypes, CallTypes
<1> HIDE DEF id
<1>4. m1 \in Memory /\ m1.id = id
  BY <1>2 DEF Memory
<1> HIDE DEF m1
<1>5. m \in Memory /\ m.id = id
  BY <1>2, <1>4 DEF Memory
<1>6. r1 \in Running /\ r1.step = "resolve" /\ r1.tab = t
  BY <1>2 DEF Running
<1> HIDE DEF r1
<1>7. r2 \in Running /\ r2.step = "resolve" /\ r2.tab = t /\ r2.id = id
  BY <1>2, <1>6 DEF Running
<1> HIDE DEF r2
<1>8. r \in Running /\ r.step = "resolve" /\ r.tab = t /\ r.id = id
  BY <1>2, <1>7 DEF Running
<1>9. late' \subseteq [id : Ids', items : Carts, bill : Bills]
      /\ UNCHANGED <<cart, edits, edition, catalogue>>
  BY <1>1, OrderTypes DEF CreateIntent
<1>10. /\ t \in Tabs /\ orders' \in Seq(Orders) /\ Ids \subseteq Ids'
       /\ r.id \in Ids' /\ m.id \in Ids' /\ r.tab \in Tabs
  BY <1>1, <1>5, <1>8
<1> HIDE DEF m, r, t
<1> QED
  BY <1>3, <1>5, <1>8, <1>9, <1>10, StepShape

LEMMA ResolveShape ==
    ASSUME Shape, NEW c \in Calls, Resolve(c)
    PROVE  Shape'
<1>1. Ids' = Ids /\ UNCHANGED <<cart, edits, edition, catalogue, orders, late>>
  BY DEF Resolve, Ids
<1>2. CASE Fail(c)
  BY <1>1, <1>2, OrderTypes, FailShape DEF Resolve
<1>3. CASE UNCHANGED tab /\ call' = [call EXCEPT ![c].step = "reserve",
                                                ![c].bill = Bill(call[c].items)]
  <2> DEFINE t == call[c].tab
             r1 == [call[c] EXCEPT !.step = "reserve"]
             r == [r1 EXCEPT !.bill = Bill(call[c].items)]
  <2>1. /\ call[c] \in Running /\ t \in Tabs /\ call[c].id \in Ids
        /\ Bill(call[c].items) \in Bills
    BY CallTypes, BillType DEF Resolve
  <2>2. call' = [call EXCEPT ![c] = r] /\ tab' = [tab EXCEPT ![t] = tab[t]]
    BY <1>3, <2>1, CallTypes, TabTypes
  <2>3. r1 \in Running /\ r1.step = "reserve" /\ r1.id = call[c].id /\ r1.tab = t
    BY <2>1 DEF Running
  <2> HIDE DEF r1
  <2>4. r \in Running /\ r.step = "reserve" /\ r.id = call[c].id /\ r.tab = t
    BY <2>1, <2>3 DEF Running
  <2>5. tab[t] \in Memory /\ tab[t].id \in Ids \cup {0}
    BY <2>1, TabTypes
  <2> HIDE DEF r, t
  <2> QED
    BY <1>1, <2>1, <2>2, <2>4, <2>5, OrderTypes, StepShape
<1> QED
  BY <1>2, <1>3 DEF Resolve

LEMMA ReserveShape ==
    ASSUME Shape, NEW c \in Calls, Reserve(c)
    PROVE  Shape'
<1>1. /\ call[c].step = "reserve" /\ call[c].id \in Ids /\ call[c].bill \in Bills
      /\ UNCHANGED <<cart, edits, edition, catalogue>>
  BY CallTypes DEF Reserve
<1>2. CASE Place(call[c].id, call[c].bill) /\ Step(c, "pay") /\ UNCHANGED tab
  BY <1>1, <1>2, PlaceTypes, GoShape
<1>3. CASE Step(c, "pay") /\ UNCHANGED <<tab, orders, late>>
  BY <1>1, <1>3, OrderTypes, GoShape DEF Ids
<1>4. CASE Fail(c) /\ UNCHANGED <<orders, late>>
  BY <1>1, <1>4, OrderTypes, FailShape DEF Ids
<1> QED
  BY <1>2, <1>3, <1>4 DEF Reserve

\* What calls leave behind are requests for orders that are not placed.
LEMMA LeavesTypes ==
    ASSUME Shape, NEW some \in SUBSET Calls
    PROVE  \A r \in Leaves(some) :
              /\ r \in [id : Ids, items : Carts, bill : Bills]
              /\ orders[r.id].status = "none"
BY CallTypes DEF Leaves, Request, AtServer

LEMMA GiveUpShape ==
    ASSUME Shape, NEW c \in Calls, GiveUp(c)
    PROVE  Shape'
<1>1. /\ call[c].step \in {"resolve", "reserve"} /\ call[c].id \in Ids /\ Ids' = Ids
      /\ UNCHANGED <<cart, edits, edition, catalogue, orders>>
  BY CallTypes DEF GiveUp, AtServer, Ids
<1>2. late' \subseteq [id : Ids', items : Carts, bill : Bills]
  BY <1>1, LeavesTypes, OrderTypes DEF GiveUp
<1>3. CASE Fail(c)
  BY <1>1, <1>2, <1>3, OrderTypes, FailShape
<1>4. CASE call' = [call EXCEPT ![c].step = "resolve", ![c].bill = NoBill] /\ UNCHANGED tab
  <2> DEFINE t == call[c].tab
             r1 == [call[c] EXCEPT !.step = "resolve"]
             r == [r1 EXCEPT !.bill = NoBill]
  <2>1. call[c] \in Running /\ t \in Tabs /\ NoBill \in Bills
    BY <1>1, CallTypes, ConstantTypes
  <2>2. call' = [call EXCEPT ![c] = r] /\ tab' = [tab EXCEPT ![t] = tab[t]]
    BY <1>4, <2>1, CallTypes, TabTypes
  <2>3. r1 \in Running /\ r1.step = "resolve" /\ r1.id = call[c].id /\ r1.tab = t
    BY <2>1 DEF Running
  <2> HIDE DEF r1
  <2>4. r \in Running /\ r.step = "resolve" /\ r.id = call[c].id /\ r.tab = t
    BY <2>1, <2>3 DEF Running
  <2>5. tab[t] \in Memory /\ tab[t].id \in Ids \cup {0}
    BY <2>1, TabTypes
  <2> HIDE DEF r, t
  <2> QED
    BY <1>1, <1>2, <2>1, <2>2, <2>4, <2>5, OrderTypes, StepShape
<1> QED
  BY <1>3, <1>4 DEF GiveUp

LEMMA PayShape ==
    ASSUME Shape, NEW c \in Calls, Pay(c)
    PROVE  Shape'
<1>1. /\ call[c].step = "pay" /\ call[c].id \in Ids
      /\ UNCHANGED <<cart, edits, edition, catalogue, late>>
      /\ orders' \in {[orders EXCEPT ![call[c].id].status = "paid"], orders}
  BY CallTypes DEF Pay
<1>2. orders' \in Seq(Orders) /\ Ids' = Ids /\ late' \subseteq [id : Ids', items : Carts, bill : Bills]
  BY <1>1, PaidTypes, OrderTypes
<1>3. CASE Step(c, "confirm") /\ UNCHANGED tab
  BY <1>1, <1>2, <1>3, GoShape
<1>4. CASE Fail(c)
  BY <1>1, <1>2, <1>4, FailShape
<1> QED
  BY <1>3, <1>4 DEF Pay

LEMMA ConfirmShape ==
    ASSUME Shape, NEW c \in Calls, Confirm(c)
    PROVE  Shape'
<1>1. call[c].step = "confirm" /\ UNCHANGED <<edits, catalogue, orders, late>> /\ Ids' = Ids
  BY DEF Confirm, Ids
<1>2. CASE Fail(c) /\ UNCHANGED <<cart, edition>>
  BY <1>1, <1>2, OrderTypes, FailShape
<1>3. CASE /\ ClearCart
           /\ tab' = [tab EXCEPT ![call[c].tab] = Loaded(@.loads)]
           /\ call' = [call EXCEPT ![c] = Idle]
  <2> DEFINE t == call[c].tab
             m == Loaded(tab[t].loads)
  <2>1. t \in Tabs /\ tab[t].loads \in Nat
    BY <1>1, CallTypes, TabTypes
  <2>2. m \in Memory /\ m.id = 0
    BY <2>1, ConstantTypes DEF Loaded
  <2>3. tab' = [tab EXCEPT ![t] = m]
    BY <1>3, <2>1, TabTypes
  <2> HIDE DEF m
  <2>4. /\ tab' \in [Tabs -> Memory] /\ \A u \in Tabs : tab'[u].id \in Ids' \cup {0}
    BY <1>1, <2>1, <2>2, <2>3, TabTypes
  <2>5. /\ call' \in [Calls -> Running]
        /\ \A d \in Calls : call'[d] = call[d] \/ call'[d] = Idle
    BY <1>3, CallTypes, ConstantTypes
  <2>6. Idle.id = 0 /\ Idle.step = "idle"
    BY DEF Idle
  <2>7. cart' \in Carts /\ Cardinality(Contents') <= MaxItems /\ edition' \in Nat
    <3>1. cart' = Empty /\ edition' = edition + 1
      BY <1>3 DEF ClearCart
    <3>2. Contents' = {}
      BY <3>1 DEF Contents, Empty
    <3> QED
      BY <3>1, <3>2, ConstantTypes, FS_EmptySet, CartAssumption DEF Shape, TypeOK
  <2> QED
    BY <1>1, <2>4, <2>5, <2>6, <2>7 DEF Shape, TypeOK, Placed
<1> QED
  BY <1>2, <1>3 DEF Confirm

LEMMA ReloadShape ==
    ASSUME Shape, NEW t \in Tabs, Reload(t)
    PROVE  Shape'
<1> DEFINE m == Loaded(tab[t].loads + 1)
<1>1. m \in Memory /\ m.id = 0
  BY ConstantTypes, TabTypes DEF Loaded
<1>2. tab' = [tab EXCEPT ![t] = m] /\ UNCHANGED <<cart, edits, edition, catalogue, orders>>
      /\ Ids' = Ids
  BY TabTypes DEF Reload, Ids
<1> HIDE DEF m
<1>3. tab' \in [Tabs -> Memory] /\ \A u \in Tabs : tab'[u].id \in Ids' \cup {0}
  BY <1>1, <1>2, TabTypes
<1>4. /\ call' \in [Calls -> Running]
      /\ \A d \in Calls : call'[d] = call[d] \/ call'[d] = Idle
  BY CallTypes, ConstantTypes DEF Reload
<1>5. Idle.id = 0 /\ Idle.step = "idle"
  BY DEF Idle
<1>6. late' \subseteq [id : Ids', items : Carts, bill : Bills]
  BY <1>2, LeavesTypes, OrderTypes DEF Reload
<1> QED
  BY <1>2, <1>3, <1>4, <1>5, <1>6 DEF Shape, TypeOK, Placed, Contents

LEMMA LateShape ==
    ASSUME Shape, NEW r \in late, ResolveLate(r) \/ ReserveLate(r)
    PROVE  Shape'
<1>0. r \in [id : Ids, items : Carts, bill : Bills]
  BY OrderTypes
<1>1. /\ orders' \in Seq(Orders) /\ Ids' = Ids
      /\ late' \subseteq [id : Ids', items : Carts, bill : Bills]
  <2>1. CASE ReserveLate(r)
    BY <1>0, <2>1, PlaceTypes DEF ReserveLate
  <2>2. CASE ResolveLate(r)
    <3> DEFINE new == [r EXCEPT !.bill = Bill(r.items)]
    <3>1. Bill(r.items) \in Bills
      BY <1>0, BillType
    <3>2. new \in [id : Ids, items : Carts, bill : Bills]
      BY <1>0, <3>1
    <3>3. late' \subseteq late \cup {new}
      BY <2>2 DEF ResolveLate
    <3> HIDE DEF new
    <3> QED
      BY <2>2, <3>2, <3>3, OrderTypes DEF ResolveLate, Ids
  <2> QED
    BY <2>1, <2>2
<1>2. UNCHANGED <<cart, edits, edition, catalogue, tab, call>>
  BY DEF ResolveLate, ReserveLate
<1> QED
  BY <1>1, <1>2 DEF Shape, TypeOK, Placed, Contents

LEMMA OfferShape ==
    ASSUME Shape, NEW x \in Products, NEW price \in Prices \cup {0}, Offer(x, price)
    PROVE  Shape'
BY DEF Offer, Shape, TypeOK, Placed, Contents, Ids

LEMMA ShapeNext == Shape /\ [Next]_vars => Shape'
<1> SUFFICES ASSUME Shape, [Next]_vars PROVE Shape'
  OBVIOUS
<1>0. CASE UNCHANGED vars
  BY <1>0 DEF vars, Shape, TypeOK, Placed, Contents, Ids
<1>1. CASE \E x \in Products : AddItem(x) \/ RemoveItem(x)
  BY <1>1, AddShape, RemoveShape
<1>2. CASE \E c \in Calls : Continue(c) \/ \E t \in Tabs : Press(c, t)
  BY <1>2, ValidateShape, CreateIntentShape, ResolveShape, ReserveShape, GiveUpShape,
     PayShape, ConfirmShape, PressShape DEF Continue
<1>3. CASE \E r \in late : ResolveLate(r) \/ ReserveLate(r)
  BY <1>3, LateShape
<1>4. CASE \E t \in Tabs : Reload(t)
  BY <1>4, ReloadShape
<1>5. CASE \E x \in Products, price \in Prices \cup {0} : Offer(x, price)
  BY <1>5, OfferShape
<1> QED
  BY <1>0, <1>1, <1>2, <1>3, <1>4, <1>5 DEF Next

\* The cart keeps within its limits, and every call, order and request left
\* behind its type, for any constants.
THEOREM TypeCorrect == Spec => []TypeOK
<1>1. Spec => []Shape
  BY ShapeInit, ShapeNext, PTL DEF Spec
<1>2. Shape => TypeOK
  BY DEF Shape
<1> QED
  BY <1>1, <1>2, PTL
-----------------------------------------------------------------------------
(* What is paid is what was asked for *)

\* A request left behind is for an order nobody has placed.
Unplaced == \A r \in late : orders[r.id].status = "none"

Paying ==
    \A c \in Calls : call[c].step \in {"pay", "confirm"} =>
        /\ orders[call[c].id].status # "none"
        /\ orders[call[c].id].bill = call[c].bill

Asked == Shape /\ Unplaced /\ Paying

\* Calls that do not come to pay, over orders that keep what they are.
LEMMA AskedStep ==
    ASSUME Asked,
           \A k \in Ids : orders[k].status # "none" =>
                /\ orders'[k].status # "none" /\ orders'[k].bill = orders[k].bill,
           \A c \in Calls : call'[c].step \in {"pay", "confirm"} =>
                \/ /\ call[c].step \in {"pay", "confirm"}
                   /\ call'[c].id = call[c].id /\ call'[c].bill = call[c].bill
                \/ /\ orders'[call'[c].id].status # "none"
                   /\ orders'[call'[c].id].bill = call'[c].bill
    PROVE  Paying'
BY CallTypes DEF Asked, Paying

LEMMA AskedCall ==
    ASSUME Asked, NEW c \in Calls, Continue(c)
    PROVE  Unplaced' /\ Paying'
<1>0. /\ Shape /\ call \in [Calls -> Running] /\ call[c] \in Running
      /\ Idle.step = "idle"
      /\ \A r \in late : r.id \in Ids
  BY CallTypes, OrderTypes DEF Asked, Idle
<1>1. CASE Validate(c) \/ Confirm(c)
  <2>1. UNCHANGED <<orders, late>>
    BY <1>1 DEF Validate, Confirm
  <2>2. \A d \in Calls : call'[d].step \in {"pay", "confirm"} => call'[d] = call[d]
    BY <1>0, <1>1 DEF Validate, Confirm, Step, Fail, Running
  <2> QED
    BY <2>1, <2>2, AskedStep DEF Asked, Unplaced
<1>2. CASE CreateIntent(c)
  <2>1. \A k \in Ids : orders'[k] = orders[k]
    BY <1>0, <1>2, CreateIntentEffect
  <2>2. \A d \in Calls : call'[d].step \in {"pay", "confirm"} => call'[d] = call[d]
    BY <1>0, <1>2 DEF CreateIntent, Running
  <2>3. UNCHANGED late
    BY <1>2 DEF CreateIntent
  <2> QED
    BY <1>0, <2>1, <2>2, <2>3, AskedStep DEF Asked, Unplaced
<1>3. CASE Resolve(c)
  <2>1. UNCHANGED <<orders, late>>
    BY <1>3 DEF Resolve
  <2>2. \A d \in Calls : call'[d].step \in {"pay", "confirm"} => call'[d] = call[d]
    BY <1>0, <1>3 DEF Resolve, Fail, Running
  <2> QED
    BY <2>1, <2>2, AskedStep DEF Asked, Unplaced
<1>4. CASE Reserve(c)
  <2> DEFINE id == call[c].id
             bill == call[c].bill
  <2>0. call[c].step = "reserve" /\ id \in Ids /\ bill \in Bills
    BY <1>0, <1>4, CallTypes DEF Reserve
  <2>1. ASSUME Step(c, "pay")
        PROVE  /\ \A d \in Calls : d # c => call'[d] = call[d]
               /\ call'[c].id = id /\ call'[c].bill = bill
    BY <1>0, <2>1 DEF Step, Running
  <2>2. CASE orders[id].status = "none" /\ Place(id, bill) /\ Step(c, "pay")
    <3>1. /\ \A k \in Ids : k # id => orders'[k] = orders[k]
          /\ orders'[id].status = "open" /\ orders'[id].bill = bill
      BY <1>0, <2>0, <2>2, PlaceTypes
    <3>2. late' = {r \in late : r.id # id}
      BY <2>2 DEF Place
    <3>3. Unplaced'
      BY <1>0, <3>1, <3>2 DEF Asked, Unplaced
    <3> HIDE DEF id, bill
    <3>4. Paying'
      BY <2>1, <2>2, <3>1, AskedStep
    <3> QED
      BY <3>3, <3>4
  <2>3. CASE Replays(id, bill) /\ Step(c, "pay") /\ UNCHANGED <<orders, late>>
    <3>1. orders[id].status # "none" /\ orders[id].bill = bill
      BY <2>3 DEF Replays
    <3> HIDE DEF id, bill
    <3>2. Paying'
      BY <2>1, <2>3, <3>1, AskedStep
    <3> QED
      BY <2>3, <3>2 DEF Asked, Unplaced
  <2>4. CASE Fail(c) /\ UNCHANGED <<orders, late>>
    <3>1. \A d \in Calls : call'[d].step \in {"pay", "confirm"} => call'[d] = call[d]
      BY <1>0, <2>4 DEF Fail
    <3> QED
      BY <2>4, <3>1, AskedStep DEF Asked, Unplaced
  <2> QED
    BY <1>4, <2>2, <2>3, <2>4 DEF Reserve
<1>5. CASE GiveUp(c)
  <2>1. UNCHANGED orders /\ Unplaced'
    BY <1>0, <1>5, LeavesTypes DEF GiveUp, Asked, Unplaced
  <2>2. \A d \in Calls : call'[d].step \in {"pay", "confirm"} => call'[d] = call[d]
    BY <1>0, <1>5 DEF GiveUp, Fail, Running
  <2> QED
    BY <2>1, <2>2, AskedStep
<1>6. CASE Pay(c)
  <2>1. call[c].step = "pay" /\ call[c].id \in Ids /\ orders[call[c].id].status # "none"
    BY <1>0, <1>6, CallTypes DEF Pay, Asked, Paying
  <2>2. orders' \in {[orders EXCEPT ![call[c].id].status = "paid"], orders} /\ UNCHANGED late
    BY <1>6 DEF Pay
  <2>3. \A k \in Ids : /\ k # call[c].id => orders'[k] = orders[k]
                       /\ orders'[k].bill = orders[k].bill
                       /\ orders[k].status # "none" => orders'[k].status # "none"
    BY <1>0, <2>1, <2>2, PaidTypes
  <2>4. Unplaced'
    BY <1>0, <2>1, <2>2, <2>3 DEF Asked, Unplaced
  <2>5. \A d \in Calls : call'[d].step \in {"pay", "confirm"} =>
            /\ call[d].step \in {"pay", "confirm"}
            /\ call'[d].id = call[d].id /\ call'[d].bill = call[d].bill
    <3>1. CASE Step(c, "confirm")
      BY <1>0, <2>1, <3>1 DEF Step, Running
    <3>2. CASE Fail(c)
      BY <1>0, <3>2 DEF Fail
    <3> QED
      BY <1>6, <3>1, <3>2 DEF Pay
  <2> QED
    BY <2>3, <2>4, <2>5, AskedStep
<1> QED
  BY <1>1, <1>2, <1>3, <1>4, <1>5, <1>6 DEF Continue

LEMMA AskedNext == Asked /\ [Next]_vars => Asked'
<1> SUFFICES ASSUME Asked, [Next]_vars PROVE Unplaced' /\ Paying'
  BY ShapeNext DEF Asked
<1>t. Shape /\ call \in [Calls -> Running] /\ Idle.step = "idle"
  BY DEF Asked, Shape, TypeOK, Idle
<1>0. CASE UNCHANGED <<call, orders, late>>
  BY <1>0 DEF Asked, Unplaced, Paying
<1>1. ASSUME NEW c \in Calls, Continue(c) PROVE Unplaced' /\ Paying'
  BY <1>1, AskedCall
<1>2. ASSUME NEW c \in Calls, NEW t \in Tabs, Press(c, t) PROVE Unplaced' /\ Paying'
  <2>1. \A d \in Calls : call'[d].step \in {"pay", "confirm"} => call'[d] = call[d]
    BY <1>2, <1>t DEF Press, Running
  <2> QED
    BY <1>2, <2>1, AskedStep DEF Press, Asked, Unplaced
<1>3. ASSUME NEW r \in late, ReserveLate(r) PROVE Unplaced' /\ Paying'
  <2>1. r.id \in Ids /\ r.bill \in Bills /\ orders[r.id].status = "none"
        /\ \A q \in late : q.id \in Ids
    BY <1>t, OrderTypes DEF Asked, Unplaced
  <2>2. Place(r.id, r.bill) /\ UNCHANGED call /\ late' = {q \in late : q.id # r.id}
    BY <1>3 DEF ReserveLate, Place
  <2>3. \A k \in Ids : k # r.id => orders'[k] = orders[k]
    BY <1>t, <2>1, <2>2, PlaceTypes
  <2>4. Unplaced'
    BY <2>1, <2>2, <2>3 DEF Asked, Unplaced
  <2> QED
    BY <2>1, <2>2, <2>3, <2>4, AskedStep
<1>4. ASSUME NEW r \in late, ResolveLate(r) PROVE Unplaced' /\ Paying'
  <2>1. \A q \in late' : \E o \in late : q.id = o.id
    BY <1>4, OrderTypes, <1>t DEF ResolveLate
  <2> QED
    BY <1>4, <2>1 DEF ResolveLate, Asked, Unplaced, Paying
<1>5. ASSUME NEW t \in Tabs, Reload(t) PROVE Unplaced' /\ Paying'
  <2>1. UNCHANGED orders /\ Unplaced'
    BY <1>5, <1>t, LeavesTypes DEF Reload, Asked, Unplaced
  <2>2. \A d \in Calls : call'[d].step \in {"pay", "confirm"} => call'[d] = call[d]
    BY <1>5, <1>t DEF Reload
  <2> QED
    BY <2>1, <2>2, AskedStep
<1>6. ASSUME NEW x \in Products, AddItem(x) \/ RemoveItem(x) PROVE UNCHANGED <<call, orders, late>>
  BY <1>6 DEF AddItem, RemoveItem, Change
<1>7. ASSUME NEW x \in Products, NEW price \in Prices \cup {0}, Offer(x, price)
      PROVE  UNCHANGED <<call, orders, late>>
  BY <1>7 DEF Offer
<1> QED
  BY <1>0, <1>1, <1>2, <1>3, <1>4, <1>5, <1>6, <1>7 DEF Next, vars

\* Whichever attempt made the order, a call that pays pays what the catalogue
\* said in its own.
THEOREM PaysWhatWasAsked == Spec => []PaysWhatItAsked
<1>1. Init => Unplaced /\ Paying
  BY DEF Init, Unplaced, Paying, Idle
<1>2. Asked => PaysWhatItAsked
  BY DEF Asked, Paying, PaysWhatItAsked
<1> QED
  BY <1>1, <1>2, ShapeInit, AskedNext, PTL DEF Spec, Asked
-----------------------------------------------------------------------------
(* One charge for a cart *)

\* A page draws one request id for a cart, and knows it until the cart changes.
Unique ==
    \A i, j \in Ids : /\ orders[i].page = orders[j].page
                      /\ orders[i].edition = orders[j].edition
                      => i = j

\* No order is of a page or a cart to come.
Past ==
    \A k \in Ids : /\ orders[k].edition <= edition
                   /\ orders[k].page[2] <= tab[orders[k].page[1]].loads

Known ==
    \A k \in Ids, t \in Tabs :
        /\ orders[k].page = <<t, tab[t].loads>>
        /\ orders[k].edition = edition
        => tab[t].id = k /\ tab[t].fingerprint = cart

Drawn == Unique /\ Past /\ Known

\* What the history says of the orders does not change.
Keeps ==
    /\ Ids' = Ids
    /\ \A k \in Ids : /\ orders'[k].page = orders[k].page
                      /\ orders'[k].edition = orders[k].edition

LEMMA PageTypes ==
    ASSUME Shape, NEW k \in Ids
    PROVE  /\ orders[k].edition \in Nat /\ edition \in Nat
           /\ orders[k].page[1] \in Tabs /\ orders[k].page[2] \in Nat
           /\ orders[k].page = <<orders[k].page[1], orders[k].page[2]>>
<1>1. orders[k] \in Orders /\ edition \in Nat
  BY OrderTypes DEF Shape, TypeOK
<1> QED
  BY <1>1 DEF Orders, Pages

\* A step that leaves the cart and the memory of the tabs.
LEMMA SameCart ==
    ASSUME Shape, Drawn, Keeps, UNCHANGED <<cart, edition>>,
           \A t \in Tabs : /\ tab'[t].loads = tab[t].loads
                           /\ tab'[t].id = tab[t].id
                           /\ tab'[t].fingerprint = tab[t].fingerprint
    PROVE  Drawn'
<1>1. Unique'
  BY DEF Drawn, Unique, Keeps
<1>2. Past'
  BY PageTypes DEF Drawn, Past, Keeps
<1>3. Known'
  BY DEF Drawn, Known, Keeps
<1> QED
  BY <1>1, <1>2, <1>3 DEF Drawn

\* A change of the cart.
LEMMA NewCart ==
    ASSUME Shape, Drawn, Keeps, edition' = edition + 1,
           \A t \in Tabs : tab'[t].loads = tab[t].loads
    PROVE  Drawn'
<1>1. Unique'
  BY DEF Drawn, Unique, Keeps
<1>2. \A k \in Ids : orders'[k].edition < edition'
  BY PageTypes DEF Drawn, Past, Keeps
<1>3. Past'
  BY <1>2, PageTypes DEF Drawn, Past, Keeps
<1>4. Known'
  BY <1>2, PageTypes DEF Known, Keeps
<1> QED
  BY <1>1, <1>3, <1>4 DEF Drawn

\* A new page has no order.
LEMMA NewPage ==
    ASSUME Shape, Drawn, NEW t \in Tabs, Reload(t)
    PROVE  Drawn'
<1>1. /\ Keeps /\ UNCHANGED <<cart, edition, orders>>
      /\ \A u \in Tabs : u # t => tab'[u] = tab[u]
      /\ tab'[t].loads = tab[t].loads + 1
      /\ \A u \in Tabs : tab[u].loads \in Nat
  BY TabTypes DEF Reload, Loaded, Keeps, Ids
<1>2. Unique'
  BY <1>1 DEF Drawn, Unique, Keeps
<1>3. Past'
  BY <1>1, PageTypes DEF Drawn, Past, Keeps
<1>4. Known'
  BY <1>1, PageTypes DEF Drawn, Past, Known, Keeps
<1> QED
  BY <1>2, <1>3, <1>4 DEF Drawn

LEMMA CreateIntentDrawn ==
    ASSUME Shape, Drawn, NEW c \in Calls, CreateIntent(c)
    PROVE  Drawn'
<1> DEFINE t == call[c].tab
           id == IF SameCheckout(t) THEN tab[t].id ELSE Len(orders) + 1
<1>1. /\ t \in Tabs /\ id \in Ids'
      /\ Ids \subseteq Ids' /\ Ids' \subseteq Ids \cup {id}
      /\ \A k \in Ids : orders'[k] = orders[k]
      /\ id \notin Ids => /\ orders'[id].page = <<t, tab[t].loads>>
                        /\ orders'[id].edition = edition
      /\ tab' = [tab EXCEPT ![t].id = id, ![t].fingerprint = cart]
  BY CreateIntentEffect
<1>2. UNCHANGED <<cart, edition>>
  BY DEF CreateIntent
<1>3. /\ \A u \in Tabs : u # t => tab'[u] = tab[u]
      /\ tab'[t].id = id /\ tab'[t].fingerprint = cart /\ tab'[t].loads = tab[t].loads
      /\ tab[t].loads \in Nat
  BY <1>1, TabTypes DEF Memory
\* An order of this page and this cart is the one the tab knows.
<1>4. \A k \in Ids : /\ orders[k].page = <<t, tab[t].loads>>
                     /\ orders[k].edition = edition
                     => k = id /\ id \in Ids
  BY <1>1, OrderTypes DEF Drawn, Known, SameCheckout
<1> HIDE DEF id, t
<1>5. Unique'
  BY <1>1, <1>4 DEF Drawn, Unique
<1>6. Past'
  <2>1. \A u \in Tabs : tab'[u].loads = tab[u].loads
    BY <1>3
  <2>2. ASSUME NEW k \in Ids
        PROVE  orders'[k].edition <= edition' /\ orders'[k].page[2] <= tab'[orders'[k].page[1]].loads
    BY <1>1, <1>2, <2>1, PageTypes DEF Drawn, Past
  <2>3. ASSUME id \notin Ids
        PROVE  orders'[id].edition <= edition' /\ orders'[id].page[2] <= tab'[orders'[id].page[1]].loads
    BY <1>1, <1>2, <1>3, <2>3 DEF Shape, TypeOK
  <2>4. ASSUME NEW k \in Ids'
        PROVE  orders'[k].edition <= edition' /\ orders'[k].page[2] <= tab'[orders'[k].page[1]].loads
    <3>1. k \in Ids \/ (k \notin Ids /\ k = id)
      BY <1>1
    <3> QED
      BY <2>2, <2>3, <3>1
  <2> QED
    BY <2>4 DEF Past
<1>7. Known'
  <2> SUFFICES ASSUME NEW k \in Ids', NEW u \in Tabs,
                      orders'[k].page = <<u, tab'[u].loads>>, orders'[k].edition = edition'
               PROVE  tab'[u].id = k /\ tab'[u].fingerprint = cart'
    BY DEF Known
  <2>1. tab'[u].loads = tab[u].loads
    BY <1>3
  <2>2. CASE k \in Ids
    <3>1. orders[k].page = <<u, tab[u].loads>> /\ orders[k].edition = edition
      BY <1>1, <1>2, <2>1, <2>2
    <3>2. CASE u = t
      BY <1>2, <1>3, <1>4, <2>2, <3>1, <3>2
    <3>3. CASE u # t
      BY <1>2, <1>3, <2>2, <3>1, <3>3 DEF Drawn, Known
    <3> QED
      BY <3>2, <3>3
  <2>3. CASE k \notin Ids
    <3>1. k = id /\ u = t
      BY <1>1, <2>1, <2>3
    <3> QED
      BY <1>2, <1>3, <3>1
  <2> QED
    BY <2>2, <2>3
<1> QED
  BY <1>5, <1>6, <1>7 DEF Drawn

LEMMA CallDrawn ==
    ASSUME Shape, Drawn, NEW c \in Calls, Continue(c)
    PROVE  Drawn'
<1> DEFINE Same == \A t \in Tabs : /\ tab'[t].loads = tab[t].loads
                                   /\ tab'[t].id = tab[t].id
                                   /\ tab'[t].fingerprint = tab[t].fingerprint
<1>0. tab \in [Tabs -> Memory]
  BY DEF Shape, TypeOK
<1>1. Fail(c) \/ UNCHANGED tab => Same
  BY <1>0 DEF Fail, Memory
<1>2. CASE CreateIntent(c)
  BY <1>2, CreateIntentDrawn
<1>3. CASE Validate(c)
  <2>1. Same
    BY <1>0, <1>3 DEF Validate, Memory
  <2> QED
    BY <1>3, <2>1, SameCart DEF Validate, Keeps, Ids
<1>4. CASE Resolve(c) \/ GiveUp(c)
  <2>1. Fail(c) \/ UNCHANGED tab
    BY <1>4 DEF Resolve, GiveUp
  <2> QED
    BY <1>1, <1>4, <2>1, SameCart DEF Resolve, GiveUp, Keeps, Ids
<1>5. CASE Reserve(c)
  <2>1. (Fail(c) \/ UNCHANGED tab) /\ UNCHANGED <<cart, edition>>
    BY <1>5 DEF Reserve
  <2>2. call[c].id \in Ids /\ call[c].bill \in Bills
    BY <1>5, CallTypes DEF Reserve
  <2>3. Keeps
    BY <1>5, <2>2, PlaceTypes DEF Reserve, Keeps, Ids
  <2> QED
    BY <1>1, <2>1, <2>3, SameCart
<1>6. CASE Pay(c)
  <2>1. (Fail(c) \/ UNCHANGED tab) /\ UNCHANGED <<cart, edition>>
    BY <1>6 DEF Pay
  <2>2. /\ call[c].id \in Ids
        /\ orders' \in {[orders EXCEPT ![call[c].id].status = "paid"], orders}
    BY <1>6, CallTypes DEF Pay
  <2>3. Keeps
    BY <2>2, PaidTypes DEF Keeps
  <2> QED
    BY <1>1, <2>1, <2>3, SameCart
<1>7. CASE Confirm(c)
  <2>1. Keeps
    BY <1>7 DEF Confirm, Keeps, Ids
  <2>2. CASE Fail(c) /\ UNCHANGED <<cart, edition>>
    BY <1>1, <2>1, <2>2, SameCart
  <2>3. CASE ClearCart /\ tab' = [tab EXCEPT ![call[c].tab] = Loaded(@.loads)]
    BY <1>0, <2>1, <2>3, NewCart DEF ClearCart, Loaded
  <2> QED
    BY <1>7, <2>2, <2>3 DEF Confirm
<1> QED
  BY <1>2, <1>3, <1>4, <1>5, <1>6, <1>7 DEF Continue

LEMMA DrawnNext == Shape /\ Drawn /\ [Next]_vars => Drawn'
<1> SUFFICES ASSUME Shape, Drawn, [Next]_vars PROVE Drawn'
  OBVIOUS
<1>0. CASE UNCHANGED <<cart, edition, tab, orders>>
  BY <1>0, SameCart DEF Keeps, Ids
<1>1. ASSUME NEW x \in Products, AddItem(x) \/ RemoveItem(x) PROVE Drawn'
  BY <1>1, NewCart DEF AddItem, RemoveItem, Change, Keeps, Ids
<1>2. ASSUME NEW r \in late, ReserveLate(r) PROVE Drawn'
  <2>1. r.id \in Ids /\ r.bill \in Bills
    BY OrderTypes
  <2>2. Keeps
    BY <1>2, <2>1, PlaceTypes DEF ReserveLate, Keeps
  <2> QED
    BY <1>2, <2>2, SameCart DEF ReserveLate
<1>3. ASSUME NEW r \in late, ResolveLate(r) PROVE UNCHANGED <<cart, edition, tab, orders>>
  BY <1>3 DEF ResolveLate
<1>4. ASSUME NEW c \in Calls, NEW t \in Tabs, Press(c, t)
      PROVE  UNCHANGED <<cart, edition, tab, orders>>
  BY <1>4 DEF Press
<1>5. ASSUME NEW x \in Products, NEW price \in Prices \cup {0}, Offer(x, price)
      PROVE  UNCHANGED <<cart, edition, tab, orders>>
  BY <1>5 DEF Offer
<1> QED
  BY <1>0, <1>1, <1>2, <1>3, <1>4, <1>5, CallDrawn, NewPage DEF Next, vars

\* A customer who presses "Pay" again in the same page pays a cart once, for
\* any number of tabs, calls and changes of the cart.
THEOREM ChargedOnce == Spec => []OneChargePerCart
<1>1. Init => Drawn
  BY DEF Init, Drawn, Unique, Past, Known, Ids
<1>2. Drawn => OneChargePerCart
  BY DEF Drawn, Unique, OneChargePerCart
<1> QED
  BY <1>1, <1>2, ShapeInit, ShapeNext, DrawnNext, PTL DEF Spec
=============================================================================

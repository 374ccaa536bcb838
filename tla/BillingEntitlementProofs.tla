----------------------- MODULE BillingEntitlementProofs -----------------------
(***************************************************************************)
(* Theorems about BillingEntitlement for any number of invocations,        *)
(* submissions, customers, events and plans.                               *)
(***************************************************************************)
EXTENDS BillingEntitlement, TLAPS

ClockShape == now \in 1..MaxTime /\ failures \in 0..MaxFailures

StripeShape ==
    /\ keyed \in Customers \cup {None}
    /\ made \in SUBSET Customers
    /\ session \in [Subscriptions -> Sessions \cup {None}]
    /\ state \in [Subscriptions -> States \cup {"none"}]
    /\ sent \in [Events -> Reports \cup {None}]
    /\ stored \in Customers \cup {None}

EntShape == ent \in Entitlements
RowShape == row \in [Events -> Lease \cup {None}]

\* What an invocation works on, by where it is.
Works(r) ==
    /\ r.step \in {"customer", "save", "session"} => r.work \in Subscriptions
    /\ r.step \in {"save", "session"} => r.customer \in Customers
    /\ r.step \in {"apply", "mark"} => r.work \in Events

ReqShape == req \in [Invocations -> Requests] /\ \A p \in Invocations : Works(req[p])

\* An event that is worked on was sent, and has a lease row.
Delivered ==
    \A p \in Invocations : req[p].step \in {"apply", "mark"} =>
        sent[req[p].work] # None /\ row[req[p].work] # None

RepairShape ==
    /\ repair \in Repairs
    /\ repair.step # "idle" => repair.sub # None
    /\ repair.step = "write" => repair.state # "none"

\* Whatever subscription is spoken of has begun, with a session.
Begun ==
    /\ \A s \in Subscriptions : state[s] # "none" => session[s] # None
    /\ \A e \in Events : sent[e] # None => state[sent[e].sub] # "none"
    /\ ent.sub # None => state[ent.sub] # "none"
    /\ repair.sub # None => state[repair.sub] # "none"

Shape ==
    /\ ClockShape /\ StripeShape /\ EntShape /\ RowShape /\ ReqShape
    /\ Delivered /\ RepairShape /\ Begun
-----------------------------------------------------------------------------
(* Types *)

LEMMA LeaseTypes ==
    /\ FirstClaim \in Lease
    /\ \A r \in Lease : /\ NextClaim(r) \in Lease /\ Completed(r) \in Lease
                        /\ Failed(r) \in Lease /\ Expired(r) \in Lease
<1>1. \A s \in {"processing", "failed", "processed"}, a, t \in Nat : LeaseRow(s, a, t) \in Lease
  BY DEF LeaseRow, Lease
<1>2. \A r \in Lease : r.attempts \in Nat /\ Expired(r) \in Lease
  BY DEF Lease, Expired
<1> QED
  BY <1>1, <1>2 DEF FirstClaim, NextClaim, Completed, Failed

LEMMA Constants ==
    /\ Idle \in Requests /\ Works(Idle)
    /\ Resting \in Repairs /\ Resting.step = "idle" /\ Resting.sub = None
    /\ \A x \in Subscriptions \cup Customers \cup Events \cup Plans \cup Lease
                \cup Sessions \cup Reports : x # None
<1>1. 0 \in 0..MaxTime
  BY BoundsAssumption
<1> QED
  BY <1>1, NoneAssumption DEF Idle, Requests, Works, Resting, Repairs

LEMMA ShapeInit == Init => Shape
<1> SUFFICES ASSUME Init PROVE Shape
  OBVIOUS
<1>0. 1 \in 1..MaxTime /\ 0 \in 0..MaxTime /\ 0 \in 0..MaxFailures
  BY BoundsAssumption
<1>1. ClockShape /\ StripeShape /\ RowShape
  BY <1>0 DEF Init, ClockShape, StripeShape, RowShape
<1>2. EntShape
  BY <1>0, PlanAssumption DEF Init, EntShape, Entitlements
<1>3. ReqShape /\ Delivered /\ RepairShape
  BY Constants DEF Init, ReqShape, Delivered, RepairShape, Idle
<1>4. Begun
  BY Constants DEF Init, Begun
<1> QED
  BY <1>1, <1>2, <1>3, <1>4 DEF Shape

\* An invocation goes on.
LEMMA ReqStep ==
    ASSUME Shape, NEW p \in Invocations, NEW r \in Requests, Works(r),
           req' = [req EXCEPT ![p] = r],
           \A e \in Events : /\ row[e] # None => row'[e] # None
                             /\ sent[e] # None => sent'[e] # None,
           r.step \in {"apply", "mark"} => sent'[r.work] # None /\ row'[r.work] # None
    PROVE  ReqShape' /\ Delivered'
BY DEF Shape, ReqShape, Works, Delivered

\* An invocation returns.
LEMMA ReturnStep ==
    ASSUME Shape, NEW p \in Invocations, Return(p), UNCHANGED sent,
           \A e \in Events : row[e] # None => row'[e] # None
    PROVE  ReqShape' /\ Delivered'
<1>1. Idle.step = "idle"
  BY DEF Idle
<1> HIDE DEF Idle
<1> QED
  BY <1>1, Constants, ReqStep DEF Return

LEMMA ReqTypes ==
    ASSUME Shape, NEW p \in Invocations
    PROVE  /\ req \in [Invocations -> Requests] /\ req[p] \in Requests /\ Works(req[p])
           /\ req[p].step \in {"apply", "mark"} =>
                  /\ req[p].work \in Events
                  /\ row[req[p].work] \in Lease /\ sent[req[p].work] \in Reports
BY DEF Shape, ReqShape, Delivered, Works, RowShape, StripeShape

LEMMA RowStep ==
    ASSUME Shape, NEW e \in Events, NEW r \in Lease, row' = [row EXCEPT ![e] = r]
    PROVE  RowShape' /\ row'[e] # None /\ \A d \in Events : row[d] # None => row'[d] # None
BY Constants DEF Shape, RowShape

LEMMA BeginShape ==
    ASSUME Shape, NEW p \in Invocations, NEW s \in Subscriptions, BeginCheckout(p, s) PROVE Shape'
<1>1. ClockShape' /\ StripeShape' /\ EntShape' /\ RowShape' /\ RepairShape' /\ Begun'
  BY DEF Shape, ClockShape, StripeShape, EntShape, RowShape, RepairShape, Begun, BeginCheckout, stripe
<1> DEFINE step == IF stored = None THEN "customer" ELSE "session"
           r == [step |-> step, work |-> s, token |-> 0, customer |-> stored]
<1> DEFINE a == [Idle EXCEPT !.work = s]
           b == [a EXCEPT !.customer = stored]
<1>2. [b EXCEPT !.step = step] = r
  <2>1. a = [step |-> "idle", work |-> s, token |-> 0, customer |-> None]
    BY DEF Idle
  <2> HIDE DEF a
  <2>2. b = [step |-> "idle", work |-> s, token |-> 0, customer |-> stored]
    BY <2>1
  <2> HIDE DEF b
  <2> QED
    BY <2>2
<1>3. r \in Requests /\ Works(r) /\ r.step \notin {"apply", "mark"}
  BY DEF Requests, Works, Shape, StripeShape
<1>4. req' = [req EXCEPT ![p] = r] /\ UNCHANGED <<row, sent>>
  BY <1>2 DEF BeginCheckout, stripe
<1> HIDE DEF r
<1> QED
  BY <1>1, <1>3, <1>4, ReqStep DEF Shape

LEMMA CustomerShape ==
    ASSUME Shape, NEW p \in Invocations, CreateCustomer(p) PROVE Shape'
<1>1. ClockShape' /\ EntShape' /\ RowShape' /\ RepairShape' /\ Begun'
  BY DEF Shape, ClockShape, EntShape, RowShape, RepairShape, Begun, CreateCustomer
<1>2. PICK c \in Customers : /\ keyed' = c /\ made' = made \cup {c}
                             /\ req' = [req EXCEPT ![p].step = "save", ![p].customer = c]
  BY DEF CreateCustomer, Shape, StripeShape
<1>3. StripeShape'
  BY <1>2 DEF Shape, StripeShape, CreateCustomer
<1> DEFINE q == [req[p] EXCEPT !.step = "save"]
           r == [q EXCEPT !.customer = c]
<1>4. /\ q \in Requests /\ q.step = "save" /\ q.work \in Subscriptions
  BY ReqTypes DEF CreateCustomer, Works, Requests
<1>5. req' = [req EXCEPT ![p] = r]
  BY <1>2, ReqTypes
<1> HIDE DEF q
<1>6. r \in Requests /\ Works(r) /\ r.step = "save"
  BY <1>4 DEF Requests, Works
<1> HIDE DEF r
<1>7. ReqShape' /\ Delivered'
  BY <1>5, <1>6, ReqStep DEF CreateCustomer
<1> QED
  BY <1>1, <1>3, <1>7 DEF Shape

\* An invocation goes on with what it has.
LEMMA GoStep ==
    ASSUME Shape, NEW p \in Invocations,
           NEW step \in {"session", "mark"}, Goto(p, step), UNCHANGED <<row, sent>>,
           step = "session" => req[p].step = "save",
           step = "mark" => req[p].step = "apply"
    PROVE  ReqShape' /\ Delivered'
<1> DEFINE r == [req[p] EXCEPT !.step = step]
<1>1. /\ r \in Requests /\ r.step = step /\ r.work = req[p].work /\ r.customer = req[p].customer
      /\ req' = [req EXCEPT ![p] = r]
  BY ReqTypes DEF Goto, Requests
<1>2. Works(r)
  BY <1>1, ReqTypes DEF Works
<1>3. step = "mark" => sent[r.work] # None /\ row[r.work] # None
  BY <1>1 DEF Shape, Delivered
<1> HIDE DEF r
<1> QED
  BY <1>1, <1>2, <1>3, ReqStep

LEMMA SaveShape ==
    ASSUME Shape, NEW p \in Invocations, SaveCustomer(p) PROVE Shape'
<1>1. ClockShape' /\ EntShape' /\ RowShape' /\ RepairShape' /\ Begun' /\ UNCHANGED <<row, sent>>
  BY DEF Shape, ClockShape, EntShape, RowShape, RepairShape, Begun, SaveCustomer, stripe
<1>2. StripeShape'
  BY ReqTypes DEF Shape, StripeShape, SaveCustomer, stripe, Requests
<1>3. ReqShape' /\ Delivered'
  BY <1>1, GoStep DEF SaveCustomer
<1> QED
  BY <1>1, <1>2, <1>3 DEF Shape

LEMMA SessionShape ==
    ASSUME Shape, NEW p \in Invocations, CreateSession(p) PROVE Shape'
<1>1. ClockShape' /\ EntShape' /\ RowShape' /\ RepairShape' /\ UNCHANGED <<row, sent, state>>
  BY DEF Shape, ClockShape, EntShape, RowShape, RepairShape, CreateSession
<1>2. req[p].work \in Subscriptions /\ req[p].customer \in Customers
  BY ReqTypes DEF CreateSession, Works
<1>3. /\ session' \in [Subscriptions -> Sessions \cup {None}]
      /\ \A s \in Subscriptions : session[s] # None => session'[s] # None
  <2>1. CASE UNCHANGED session
    BY <2>1 DEF Shape, StripeShape
  <2>2. ASSUME NEW plan \in Priced,
               session' = [session EXCEPT ![req[p].work] = [plan |-> plan, customer |-> req[p].customer]],
               session[req[p].work] = None
        PROVE  <1>3!1 /\ <1>3!2
    BY <1>2, <2>2, PlanAssumption DEF Shape, StripeShape, Sessions
  <2> QED
    BY <2>1, <2>2 DEF CreateSession
<1>4. StripeShape'
  BY <1>3 DEF Shape, StripeShape, CreateSession
<1>5. Begun'
  BY <1>1, <1>3 DEF Shape, Begun, CreateSession
<1>6. ReqShape' /\ Delivered'
  BY <1>1, ReturnStep DEF CreateSession
<1> QED
  BY <1>1, <1>4, <1>5, <1>6 DEF Shape

LEMMA DeliverShape ==
    ASSUME Shape, NEW p \in Invocations, NEW e \in Events, Deliver(p, e) PROVE Shape'
<1>1. ClockShape' /\ StripeShape' /\ EntShape' /\ RepairShape' /\ Begun' /\ UNCHANGED sent
  BY DEF Shape, ClockShape, StripeShape, EntShape, RepairShape, Begun, Deliver, stripe
<1>2. Claimed(e) \in Lease
  BY LeaseTypes DEF Claimed, Shape, RowShape, Deliver
<1>3. RowShape' /\ row'[e] # None /\ \A d \in Events : row[d] # None => row'[d] # None
  BY <1>2, RowStep DEF Deliver
<1> DEFINE a == [Idle EXCEPT !.step = "apply"]
           b == [a EXCEPT !.work = e]
           r == [b EXCEPT !.token = Claimed(e).token]
<1>4. r = [step |-> "apply", work |-> e, token |-> Claimed(e).token, customer |-> None]
  <2>1. a = [step |-> "apply", work |-> None, token |-> 0, customer |-> None]
    BY DEF Idle
  <2> HIDE DEF a
  <2>2. b = [step |-> "apply", work |-> e, token |-> 0, customer |-> None]
    BY <2>1
  <2> HIDE DEF b
  <2> QED
    BY <2>2
<1>5. req' = [req EXCEPT ![p] = r]
  BY DEF Deliver
<1>6. Claimed(e).token \in Nat
  BY <1>2 DEF Lease
<1> HIDE DEF r
<1>7. r \in Requests /\ Works(r) /\ r.step = "apply" /\ r.work = e
  BY <1>4, <1>6 DEF Requests, Works
<1>8. sent'[e] # None
  BY <1>1 DEF Deliver
<1>9. ReqShape' /\ Delivered'
  BY <1>1, <1>3, <1>5, <1>7, <1>8, ReqStep
<1> QED
  BY <1>1, <1>3, <1>9 DEF Shape

\* What an event carries, of a subscription that began.
LEMMA CarriedType ==
    ASSUME Shape, NEW e \in Events, sent[e] # None
    PROVE  Carried(e) \in Entitlements /\ Carried(e).sub = sent[e].sub /\ Carried(e).at = sent[e].at
<1>1. sent[e] \in Reports /\ ent.reconciled \in BOOLEAN
  BY DEF Shape, StripeShape, EntShape, Entitlements
<1>2. EntitlementStatus(sent[e].state) \in {"active", "past_due", "suspended"}
  BY <1>1 DEF EntitlementStatus, Reports, States
<1>3. sent[e].at \in 0..MaxTime
  BY <1>1, BoundsAssumption DEF Reports
<1> QED
  BY <1>1, <1>2, <1>3 DEF Carried, Entitlements, Reports

LEMMA ApplyShape ==
    ASSUME Shape, NEW p \in Invocations, Apply(p) PROVE Shape'
<1>1. ClockShape' /\ StripeShape' /\ RowShape' /\ RepairShape' /\ UNCHANGED <<row, sent, state, session>>
  BY DEF Shape, ClockShape, StripeShape, RowShape, RepairShape, Apply, stripe
<1>2. PICK e \in Events : e = req[p].work /\ sent[e] # None
  BY Constants, ReqTypes DEF Apply, Shape, Delivered
<1>3. ent' = ent \/ ent' = Carried(e)
  BY <1>2 DEF Apply
<1>4. EntShape'
  BY <1>2, <1>3, CarriedType DEF Shape, EntShape
<1>5. Begun'
  BY <1>1, <1>2, <1>3, CarriedType DEF Shape, Begun, Apply
<1>6. ReqShape' /\ Delivered'
  BY <1>1, GoStep DEF Apply
<1> QED
  BY <1>1, <1>4, <1>5, <1>6 DEF Shape

\* The lease row of an event worked on is rewritten, and the invocation returns.
LEMMA ReleaseShape ==
    ASSUME Shape, NEW p \in Invocations, NEW e \in Events, NEW r \in Lease,
           row' = [row EXCEPT ![e] = r], Return(p),
           failures' \in 0..MaxFailures, UNCHANGED <<now, stripe, stored, ent, repair>>
    PROVE  Shape'
<1>1. ClockShape' /\ StripeShape' /\ EntShape' /\ RepairShape' /\ Begun' /\ UNCHANGED sent
  BY DEF Shape, ClockShape, StripeShape, EntShape, RepairShape, Begun, stripe
<1>2. RowShape' /\ \A d \in Events : row[d] # None => row'[d] # None
  BY RowStep
<1> QED
  BY <1>1, <1>2, ReturnStep DEF Shape

LEMMA MarkShape ==
    ASSUME Shape, NEW p \in Invocations, Mark(p) PROVE Shape'
<1>1. PICK e \in Events : e = req[p].work /\ row[e] \in Lease
  BY ReqTypes DEF Mark
<1>2. PICK r \in Lease : row' = [row EXCEPT ![e] = r]
  <2>1. row' = [row EXCEPT ![e] = IF Holds(row[e], req[p].token) THEN Completed(row[e]) ELSE row[e]]
    BY <1>1 DEF Mark
  <2> QED
    BY <1>1, <2>1, LeaseTypes
<1> QED
  BY <1>2, ReleaseShape DEF Mark, Shape, ClockShape

\* A failure is counted.
LEMMA FailureCounted ==
    ASSUME Shape, failures < MaxFailures, failures' = failures + 1 PROVE failures' \in 0..MaxFailures
BY BoundsAssumption DEF Shape, ClockShape

LEMMA FailShape ==
    ASSUME Shape, NEW p \in Invocations, FailEvent(p) PROVE Shape'
<1>1. PICK e \in Events : e = req[p].work /\ row[e] \in Lease
  BY ReqTypes DEF FailEvent
<1>2. PICK r \in Lease : row' = [row EXCEPT ![e] = r]
  <2>1. row' = [row EXCEPT ![e] = IF Holds(row[e], req[p].token) THEN Failed(row[e]) ELSE row[e]]
    BY <1>1 DEF FailEvent
  <2> QED
    BY <1>1, <2>1, LeaseTypes
<1> QED
  BY <1>2, ReleaseShape, FailureCounted DEF FailEvent

LEMMA CrashShape ==
    ASSUME Shape, NEW p \in Invocations, Crash(p) PROVE Shape'
<1>1. failures' \in 0..MaxFailures
  BY FailureCounted DEF Crash
<1>2. /\ ClockShape' /\ StripeShape' /\ EntShape' /\ RowShape' /\ RepairShape' /\ Begun'
      /\ UNCHANGED <<row, sent>>
  BY <1>1 DEF Shape, ClockShape, StripeShape, EntShape, RowShape, RepairShape, Begun, Crash, stripe
<1> QED
  BY <1>2, ReturnStep DEF Crash, Shape

\* The lease row of an event is rewritten by nobody who works on it.
LEMMA LeaseShape ==
    ASSUME Shape, NEW e \in Events, NEW r \in Lease, row' = [row EXCEPT ![e] = r],
           UNCHANGED <<now, failures, stripe, stored, ent, req, repair>>
    PROVE  Shape'
<1>1. ClockShape' /\ StripeShape' /\ EntShape' /\ RepairShape' /\ Begun' /\ ReqShape'
  BY DEF Shape, ClockShape, StripeShape, EntShape, RepairShape, Begun, ReqShape, stripe
<1>2. RowShape' /\ \A d \in Events : row[d] # None => row'[d] # None
  BY RowStep
<1>3. Delivered'
  BY <1>2 DEF Shape, Delivered, ReqShape, Works, stripe
<1> QED
  BY <1>1, <1>2, <1>3 DEF Shape

LEMMA ExpiresShape ==
    ASSUME Shape, NEW e \in Events, LeaseExpires(e) \/ AbandonLease(e) PROVE Shape'
<1>1. row[e] \in Lease
  BY DEF LeaseExpires, AbandonLease, Shape, RowShape
<1>2. CASE LeaseExpires(e)
  BY <1>1, <1>2, LeaseTypes, LeaseShape DEF LeaseExpires
<1>3. CASE AbandonLease(e)
  BY <1>1, <1>3, LeaseTypes, LeaseShape DEF AbandonLease
<1> QED
  BY <1>2, <1>3

LEMMA TickShape == ASSUME Shape, Tick PROVE Shape'
<1>1. ClockShape'
  BY BoundsAssumption DEF Tick, Shape, ClockShape
<1> QED
  BY <1>1 DEF Tick, Shape, StripeShape, EntShape, RowShape, ReqShape, Delivered, RepairShape,
              Begun, stripe

LEMMA KeyShape == ASSUME Shape, KeyExpires PROVE Shape'
BY DEF KeyExpires, Shape, ClockShape, StripeShape, EntShape, RowShape, ReqShape, Delivered,
       RepairShape, Begun

\* What a change at Stripe does: the state, and the event that reports it.
LEMMA BecomesStep ==
    ASSUME Shape, NEW s \in Subscriptions, NEW next \in States,
           (Completes(s) /\ next = "active") \/ Changes(s, next)
    PROVE  /\ session[s] \in Sessions
           /\ state' = [state EXCEPT ![s] = next]
           /\ UNCHANGED <<now, failures, keyed, made, session, stored, ent, row, req, repair>>
           /\ \E e \in Events : /\ sent[e] = None
                               /\ sent' = [sent EXCEPT ![e] =
                                     [sub |-> s, plan |-> session[s].plan, state |-> next, at |-> now]]
<1>1. session[s] # None
  BY DEF Completes, Changes, Shape, Begun
<1> QED
  BY <1>1 DEF Completes, Changes, Becomes, PlanFromSubscription, Shape, StripeShape

LEMMA BecomesShape ==
    ASSUME Shape, NEW s \in Subscriptions, NEW next \in States,
           (Completes(s) /\ next = "active") \/ Changes(s, next)
    PROVE  Shape'
<1>1. PICK e \in Events : /\ sent[e] = None
                          /\ sent' = [sent EXCEPT ![e] =
                                [sub |-> s, plan |-> session[s].plan, state |-> next, at |-> now]]
  BY BecomesStep
<1> DEFINE r == [sub |-> s, plan |-> session[s].plan, state |-> next, at |-> now]
<1>2. r \in Reports /\ r.sub = s
  BY BecomesStep DEF Reports, Sessions, Shape, ClockShape
<1>3. sent' = [sent EXCEPT ![e] = r]
  BY <1>1
<1> HIDE DEF r
<1>4. r # None
  BY <1>2, Constants
<1>5. ClockShape' /\ EntShape' /\ RowShape' /\ ReqShape' /\ RepairShape'
  BY BecomesStep DEF Shape, ClockShape, EntShape, RowShape, ReqShape, RepairShape
<1>6. StripeShape'
  BY <1>2, <1>3, BecomesStep DEF Shape, StripeShape
<1>7. Delivered'
  BY <1>3, <1>4, BecomesStep DEF Shape, Delivered, StripeShape
<1>8. \A t \in Subscriptions : state'[t] # "none" => session'[t] # None
  BY BecomesStep, Constants DEF Shape, Begun, StripeShape
<1>9. \A t \in Subscriptions : state[t] # "none" => state'[t] # "none"
  BY BecomesStep DEF Shape, StripeShape, States
<1>10. \A d \in Events : sent'[d] # None => state'[sent'[d].sub] # "none"
  <2> TAKE d \in Events
  <2>1. CASE d = e
    BY <2>1, <1>2, <1>3, BecomesStep DEF Shape, StripeShape, States
  <2>2. CASE d # e
    BY <2>2, <1>3, <1>9 DEF Shape, StripeShape, Begun, Reports
  <2> QED
    BY <2>1, <2>2
<1>11. Begun'
  BY <1>8, <1>9, <1>10, BecomesStep DEF Shape, Begun, EntShape, Entitlements, RepairShape, Repairs
<1> QED
  BY <1>5, <1>6, <1>7, <1>11 DEF Shape

LEMMA RepairShapes ==
    ASSUME Shape, ScanEntitlement \/ RepairRetrieve \/ RepairFails PROVE Shape'
<1>1. /\ ClockShape' /\ StripeShape' /\ EntShape' /\ RowShape' /\ ReqShape' /\ Delivered'
  <2>1. failures' \in 0..MaxFailures
    BY FailureCounted DEF ScanEntitlement, RepairRetrieve, RepairFails, Shape, ClockShape
  <2> QED
    BY <2>1 DEF ScanEntitlement, RepairRetrieve, RepairFails, stripe, Shape, ClockShape,
                StripeShape, EntShape, RowShape, ReqShape, Delivered
<1>2. RepairShape' /\ Begun'
  <2>1. CASE ScanEntitlement
    <3> DEFINE a == [Resting EXCEPT !.step = "retrieve"]
               r == [a EXCEPT !.sub = ent.sub]
    <3>1. r = [step |-> "retrieve", sub |-> ent.sub, state |-> "none", at |-> 0]
      <4>1. a = [step |-> "retrieve", sub |-> None, state |-> "none", at |-> 0]
        BY DEF Resting
      <4> HIDE DEF a
      <4> QED
        BY <4>1
    <3>2. repair' = r
      BY <2>1 DEF ScanEntitlement
    <3> HIDE DEF r
    <3>3. 0 \in 0..MaxTime
      BY BoundsAssumption
    <3> QED
      BY <2>1, <3>1, <3>2, <3>3 DEF ScanEntitlement, Shape, EntShape, Entitlements, RepairShape,
                                  Repairs, Begun, stripe
  <2>2. CASE RepairRetrieve
    <3>1. repair.sub \in Subscriptions /\ state[repair.sub] \in States /\ now \in 0..MaxTime
      BY <2>2 DEF RepairRetrieve, Shape, RepairShape, Repairs, Begun, StripeShape, ClockShape
    <3> DEFINE a == [repair EXCEPT !.step = "write"]
               b == [a EXCEPT !.at = now]
               r == [b EXCEPT !.state = state[repair.sub]]
    <3>2. a \in Repairs /\ a.step = "write" /\ a.sub = repair.sub
      BY DEF Shape, RepairShape, Repairs
    <3>3. repair' = r
      BY <2>2 DEF RepairRetrieve
    <3> HIDE DEF a
    <3>4. b \in Repairs /\ b.step = "write" /\ b.sub = repair.sub
      BY <3>1, <3>2 DEF Repairs
    <3> HIDE DEF b
    <3>5. r \in Repairs /\ r.step = "write" /\ r.sub = repair.sub /\ r.state \in States
      BY <3>1, <3>4 DEF Repairs
    <3> HIDE DEF r
    <3> QED
      BY <2>2, <3>1, <3>3, <3>5, Constants DEF RepairRetrieve, Shape, RepairShape, Begun, States,
                                  stripe
  <2>3. CASE RepairFails
    BY <2>3, Constants DEF RepairFails, Shape, RepairShape, Begun, stripe
  <2> QED
    BY <2>1, <2>2, <2>3
<1> QED
  BY <1>1, <1>2 DEF Shape

\* The reconciler writes what Stripe told it of the subscription it asked for.
LEMMA WriteStep ==
    ASSUME Shape, RepairWrite
    PROVE  /\ ent' \in Entitlements /\ repair' = Resting
           /\ \/ ent' = ent
              \/ /\ ent.sub = repair.sub /\ ent.sub # None
                 /\ ent'.plan = ent.plan /\ ent'.sub = ent.sub
                 /\ ent'.status = EntitlementStatus(repair.state)
                 /\ ent'.reconciled = TRUE
<1>1. CASE ent' = ent
  BY <1>1 DEF RepairWrite, Shape, EntShape
<1>2. CASE ent.sub = repair.sub /\ ent' # ent
  <2>1. repair.state \in States /\ repair.sub # None /\ repair.at \in 0..MaxTime
    BY DEF RepairWrite, Shape, RepairShape, Repairs
  <2>2. PICK stamp \in repair.at..now :
          ent' = [ent EXCEPT !.status = EntitlementStatus(repair.state),
                             !.last = None, !.at = stamp, !.reconciled = TRUE]
    BY <1>2 DEF RepairWrite
  <2>3. stamp \in 0..MaxTime
    BY <2>1, BoundsAssumption DEF Shape, ClockShape
  <2>4. EntitlementStatus(repair.state) \in {"active", "past_due", "suspended"}
    BY <2>1 DEF EntitlementStatus, States
  <2> DEFINE a == [ent EXCEPT !.status = EntitlementStatus(repair.state)]
             b == [a EXCEPT !.last = None]
             c == [b EXCEPT !.at = stamp]
             d == [c EXCEPT !.reconciled = TRUE]
  <2>5. /\ a \in Entitlements /\ a.plan = ent.plan /\ a.sub = ent.sub
        /\ a.status = EntitlementStatus(repair.state)
    BY <2>4 DEF Shape, EntShape, Entitlements
  <2>6. ent' = d
    BY <2>2
  <2> HIDE DEF a
  <2>7. b \in Entitlements /\ b.plan = a.plan /\ b.sub = a.sub /\ b.status = a.status
    BY <2>5 DEF Entitlements
  <2> HIDE DEF b
  <2>8. c \in Entitlements /\ c.plan = a.plan /\ c.sub = a.sub /\ c.status = a.status
    BY <2>3, <2>7 DEF Entitlements
  <2> HIDE DEF c
  <2>9. /\ d \in Entitlements /\ d.plan = a.plan /\ d.sub = a.sub /\ d.status = a.status
        /\ d.reconciled = TRUE
    BY <2>8 DEF Entitlements
  <2> HIDE DEF d
  <2> QED
    BY <1>2, <2>1, <2>5, <2>6, <2>9 DEF RepairWrite
<1> QED
  BY <1>1, <1>2 DEF RepairWrite

LEMMA WriteShape == ASSUME Shape, RepairWrite PROVE Shape'
<1>1. /\ ClockShape' /\ StripeShape' /\ RowShape' /\ ReqShape' /\ Delivered'
  BY DEF RepairWrite, stripe, Shape, ClockShape, StripeShape, RowShape, ReqShape, Delivered
<1>2. EntShape' /\ RepairShape' /\ Begun'
  BY WriteStep, Constants DEF RepairWrite, stripe, Shape, EntShape, RepairShape, Begun
<1> QED
  BY <1>1, <1>2 DEF Shape

LEMMA ShapeNext == ASSUME Shape, [Next]_vars PROVE Shape'
<1>1. CASE UNCHANGED vars
  BY <1>1 DEF vars, Shape, ClockShape, StripeShape, EntShape, RowShape, ReqShape, Delivered,
              RepairShape, Begun
<1>2. ASSUME NEW p \in Invocations,
             \/ \E s \in Subscriptions : BeginCheckout(p, s)
             \/ \E e \in Events : Deliver(p, e)
             \/ Continue(p) \/ FailEvent(p) \/ Crash(p)
      PROVE  Shape'
  BY <1>2, BeginShape, DeliverShape, CustomerShape, SaveShape, SessionShape, ApplyShape, MarkShape,
     FailShape, CrashShape DEF Continue
<1>3. ASSUME NEW s \in Subscriptions, Completes(s) \/ \E next \in States : Changes(s, next)
      PROVE  Shape'
  BY <1>3, BecomesShape DEF States
<1>4. CASE (\E e \in Events : LeaseExpires(e) \/ AbandonLease(e)) \/ Tick \/ KeyExpires
  BY <1>4, ExpiresShape, TickShape, KeyShape
<1>5. CASE Reconcile \/ RepairFails
  BY <1>5, RepairShapes, WriteShape DEF Reconcile
<1> QED
  BY <1>1, <1>2, <1>3, <1>4, <1>5 DEF Next

\* The age of the key of the customer; a straddled key is never forgotten.
AgingShape ==
    /\ maker \in Invocations \cup {None}
    /\ orphan \in BOOLEAN /\ straddled \in BOOLEAN

LEMMA AgingInit == Init => AgingShape
BY DEF Init, AgingShape

LEMMA AgingStep ==
    ASSUME [Next]_vars
    PROVE  \/ UNCHANGED aging
           \/ \E p \in Invocations : CreateCustomer(p) \/ SaveCustomer(p) \/ Crash(p)
           \/ KeyExpires
BY DEF Next, vars, Continue, BeginCheckout, CreateSession, Deliver, Apply, Mark, FailEvent, Completes,
       Changes, Becomes, LeaseExpires, AbandonLease, Tick, Reconcile, ScanEntitlement,
       RepairRetrieve, RepairWrite, RepairFails

LEMMA AgingNext == ASSUME AgingShape, [Next]_vars PROVE AgingShape' /\ (straddled => straddled')
<1>1. CASE UNCHANGED aging
  BY <1>1 DEF aging, AgingShape
<1>2. ASSUME NEW p \in Invocations, CreateCustomer(p) PROVE AgingShape' /\ UNCHANGED straddled
  <2>1. \/ maker' = p /\ orphan' = FALSE
        \/ UNCHANGED <<maker, orphan>>
    BY <1>2 DEF CreateCustomer
  <2> QED
    BY <1>2, <2>1 DEF CreateCustomer, AgingShape
<1>3. ASSUME NEW p \in Invocations, SaveCustomer(p) PROVE AgingShape' /\ UNCHANGED straddled
  BY <1>3 DEF SaveCustomer, AgingShape
<1>4. ASSUME NEW p \in Invocations, Crash(p) PROVE AgingShape' /\ UNCHANGED straddled
  <2>1. \/ maker' = None /\ orphan' = TRUE
        \/ UNCHANGED <<maker, orphan>>
    BY <1>4 DEF Crash
  <2> QED
    BY <1>4, <2>1 DEF Crash, AgingShape
<1>5. CASE KeyExpires
  BY <1>5 DEF KeyExpires, AgingShape
<1> QED
  BY <1>1, <1>2, <1>3, <1>4, <1>5, AgingStep

\* The types hold.
THEOREM TypeCorrect == Spec => []TypeOK
<1>1. Shape /\ AgingShape => TypeOK
  BY DEF Shape, AgingShape, ClockShape, StripeShape, EntShape, RowShape, ReqShape, RepairShape, TypeOK
<1> QED
  BY <1>1, ShapeInit, ShapeNext, AgingInit, AgingNext, PTL DEF Spec
-----------------------------------------------------------------------------
(* One customer *)

\* A request that is to make a customer finds the key's or none recorded; one
\* that is to save has the recorded customer, or the key's if there is none.
OneKey ==
    \A p \in Invocations :
        /\ req[p].step = "customer" => stored \in {None, keyed}
        /\ req[p].step = "save" =>
              /\ req[p].customer # None
              /\ req[p].customer = IF stored = None THEN keyed ELSE stored
        /\ req[p].step = "session" => req[p].customer = stored /\ stored # None

Recorded ==
    \A s \in Subscriptions :
        session[s] # None => session[s].customer = stored /\ stored # None

LEMMA CustomerNext ==
    ASSUME Shape, OneKey, Recorded, ~straddled', [Next]_vars PROVE OneKey' /\ Recorded'
<1>a. req \in [Invocations -> Requests] /\ Idle.step = "idle"
  BY DEF Shape, ReqShape, Idle
<1>1. CASE \E p \in Invocations, s \in Subscriptions : BeginCheckout(p, s)
  <2>1. PICK p \in Invocations, s \in Subscriptions : BeginCheckout(p, s)
    BY <1>1
  <2>2. /\ req'[p].step = IF stored = None THEN "customer" ELSE "session"
        /\ req'[p].customer = stored
        /\ \A q \in Invocations \ {p} : req'[q] = req[q]
    BY <1>a, <2>1 DEF BeginCheckout, Idle
  <2> QED
    BY <2>1, <2>2 DEF BeginCheckout, stripe, OneKey, Recorded
<1>2. CASE \E p \in Invocations : CreateCustomer(p)
  <2>1. PICK p \in Invocations : CreateCustomer(p)
    BY <1>2
  <2>2. PICK c \in Customers : /\ c = keyed \/ keyed = None
                               /\ keyed' = c
                               /\ req' = [req EXCEPT ![p].step = "save", ![p].customer = c]
    BY <2>1 DEF CreateCustomer, Shape, StripeShape
  <2>3. req'[p].step = "save" /\ req'[p].customer = c /\ \A q \in Invocations \ {p} : req'[q] = req[q]
    BY <1>a, <2>2 DEF Requests
  <2> QED
    <3>1. c # None /\ UNCHANGED <<session, stored>> /\ req[p].step = "customer"
      BY <2>1, <2>2, Constants DEF CreateCustomer
    <3>2. stored \in {None, keyed'} /\ stored \in {None, keyed}
      BY <2>2, <3>1 DEF OneKey
    <3>3. \A q \in Invocations \ {p} : req[q].step = "save" => stored = keyed' \/ keyed = keyed'
      BY <2>2, <3>1, <3>2 DEF OneKey
    <3> QED
      BY <2>2, <2>3, <3>1, <3>2, <3>3 DEF OneKey, Recorded
<1>3. CASE \E p \in Invocations : SaveCustomer(p)
  <2>1. PICK p \in Invocations : SaveCustomer(p)
    BY <1>3
  <2>2. /\ req'[p].step = "session" /\ req'[p].customer = req[p].customer
        /\ \A q \in Invocations \ {p} : req'[q] = req[q]
    BY <1>a, <2>1 DEF SaveCustomer, Goto, Requests
  <2> QED
    BY <2>1, <2>2 DEF SaveCustomer, stripe, OneKey, Recorded
<1>4. CASE \E p \in Invocations : CreateSession(p)
  <2>1. PICK p \in Invocations : CreateSession(p)
    BY <1>4
  <2>2. req'[p].step = "idle" /\ \A q \in Invocations \ {p} : req'[q] = req[q]
    BY <1>a, <2>1 DEF CreateSession, Return
  <2>3. req[p].work \in Subscriptions /\ req[p].customer = stored /\ stored # None
    BY <2>1, ReqTypes DEF CreateSession, Works, OneKey
  <2>4. \/ UNCHANGED session
        \/ \E plan \in Priced : session' = [session EXCEPT ![req[p].work] =
                                    [plan |-> plan, customer |-> req[p].customer]]
    BY <2>1 DEF CreateSession
  <2>5. \A s \in Subscriptions : session'[s] = session[s] \/ session'[s].customer = stored
    <3>1. CASE UNCHANGED session
      BY <3>1
    <3>2. ASSUME NEW plan \in Priced,
                 session' = [session EXCEPT ![req[p].work] =
                                [plan |-> plan, customer |-> req[p].customer]]
          PROVE  \A s \in Subscriptions : session'[s] = session[s] \/ session'[s].customer = stored
      BY <2>3, <3>2 DEF Shape, StripeShape
    <3> QED
      BY <2>4, <3>1, <3>2
  <2>6. Recorded'
    BY <2>1, <2>3, <2>5 DEF CreateSession, Recorded
  <2> QED
    BY <2>1, <2>2, <2>6 DEF CreateSession, OneKey
<1>5. CASE KeyExpires
  <2>1. \A p \in Invocations : req[p].step # IF stored = None THEN "save" ELSE "customer"
    BY <1>5 DEF KeyExpires
  <2> QED
    BY <1>5, <2>1 DEF KeyExpires, OneKey, Recorded
<1>6. ASSUME UNCHANGED <<keyed, session, stored>>,
             \A q \in Invocations : req'[q] = req[q]
                                  \/ req'[q].step \notin {"customer", "save", "session"}
      PROVE  OneKey' /\ Recorded'
  BY <1>6 DEF OneKey, Recorded
<1>7. CASE \E p \in Invocations : Mark(p) \/ FailEvent(p) \/ Crash(p)
  BY <1>a, <1>6, <1>7 DEF Mark, FailEvent, Crash, Return, stripe
<1>8. CASE \E p \in Invocations, e \in Events : Deliver(p, e)
  <2>1. PICK p \in Invocations, e \in Events : Deliver(p, e)
    BY <1>8
  <2>2. req'[p].step = "apply" /\ \A q \in Invocations \ {p} : req'[q] = req[q]
    BY <1>a, <2>1 DEF Deliver, Idle
  <2> QED
    BY <1>6, <2>1, <2>2 DEF Deliver, stripe
<1>9. CASE \E p \in Invocations : Apply(p)
  BY <1>a, <1>6, <1>9 DEF Apply, Goto, Requests, stripe
<1>10. CASE \/ UNCHANGED vars
            \/ \E s \in Subscriptions : Completes(s) \/ \E next \in States : Changes(s, next)
            \/ \E e \in Events : LeaseExpires(e) \/ AbandonLease(e)
            \/ Tick \/ Reconcile \/ RepairFails
  <2>1. UNCHANGED <<keyed, session, stored, req>>
    BY <1>10 DEF vars, Completes, Changes, Becomes, LeaseExpires, AbandonLease, Tick, Reconcile,
                 ScanEntitlement, RepairRetrieve, RepairWrite, RepairFails, stripe
  <2> QED
    BY <1>6, <2>1
<1> QED
  BY <1>1, <1>2, <1>3, <1>4, <1>5, <1>7, <1>8, <1>9, <1>10 DEF Next, Continue

\* However often customers submit, retry, overlap and die, all the sessions of an
\* organization are for the customer it records, unless Stripe forgot the key
\* between two requests that overlap: ensureCustomer saves under if_not_exists
\* what it made under one key, and goes on with its own.
THEOREM SameCustomer == Spec => []OneCustomer
<1> DEFINE Kept == straddled \/ (OneKey /\ Recorded)
<1>1. Init => Kept
  BY DEF Init, Idle, OneKey, Recorded
<1>2. Kept => OneCustomer
  BY DEF Recorded, OneCustomer
<1>3. Shape /\ AgingShape /\ Kept /\ [Next]_vars => Kept'
  BY CustomerNext, AgingNext
<1> QED
  BY <1>1, <1>2, <1>3, ShapeInit, ShapeNext, AgingInit, AgingNext, PTL DEF Spec
-----------------------------------------------------------------------------
(* What the entitlement shows *)

\* The plan an event carries is its subscription's; the state of a subscription,
\* and what the reconciler retrieved of it, an event has reported.
Told ==
    /\ \A e \in Events : sent[e] # None => sent[e].plan = session[sent[e].sub].plan
    /\ \A s \in Subscriptions : state[s] # "none" =>
          \E e \in Events : sent[e] # None /\ sent[e].sub = s /\ sent[e].state = state[s]
    /\ repair.step = "write" =>
          \E e \in Events : /\ sent[e] # None /\ sent[e].sub = repair.sub
                           /\ sent[e].state = repair.state

\* Sessions stay, and so does what was sent.
LEMMA Stays ==
    ASSUME Shape, [Next]_vars
    PROVE  /\ \A s \in Subscriptions : session[s] # None => session'[s] = session[s]
           /\ \A e \in Events : sent[e] # None => sent'[e] = sent[e]
<1>1. ASSUME NEW p \in Invocations, CreateSession(p)
      PROVE  \A s \in Subscriptions : session[s] # None => session'[s] = session[s]
  BY <1>1, ReqTypes DEF CreateSession, Works, Shape, StripeShape
<1>2. ASSUME NEW s \in Subscriptions, NEW next \in States, Becomes(s, next)
      PROVE  \A e \in Events : sent[e] # None => sent'[e] = sent[e]
  BY <1>2 DEF Becomes, Shape, StripeShape
<1>3. \/ UNCHANGED session
      \/ \E p \in Invocations : CreateSession(p)
  BY DEF Next, vars, Continue, Reconcile, BeginCheckout, CreateCustomer, SaveCustomer, Deliver,
         Apply, Mark, FailEvent, Crash, Completes, Changes, Becomes, LeaseExpires, AbandonLease,
         Tick, KeyExpires, ScanEntitlement, RepairRetrieve, RepairWrite, RepairFails, stripe
<1>4. \/ UNCHANGED sent
      \/ \E s \in Subscriptions, next \in States : Becomes(s, next)
  BY DEF Next, vars, Continue, Reconcile, BeginCheckout, CreateCustomer, SaveCustomer, Deliver,
         Apply, Mark, FailEvent, Crash, Completes, Changes, LeaseExpires, AbandonLease, States,
         Tick, KeyExpires, ScanEntitlement, RepairRetrieve, RepairWrite, RepairFails, stripe,
         CreateSession
<1> QED
  BY <1>1, <1>2, <1>3, <1>4

LEMMA ToldStep ==
    ASSUME Shape, Told, [Next]_vars, UNCHANGED <<sent, state>>,
           repair'.step = "write" =>
               \/ repair' = repair
               \/ /\ repair'.sub \in Subscriptions /\ state[repair'.sub] # "none"
                  /\ repair'.state = state[repair'.sub]
    PROVE  Told'
BY Stays DEF Told, Shape, Begun, StripeShape, Reports

LEMMA ToldNext == ASSUME Shape, Told, [Next]_vars PROVE Told'
<1>1. ASSUME NEW s \in Subscriptions, NEW next \in States,
             (Completes(s) /\ next = "active") \/ Changes(s, next)
      PROVE  Told'
  <2>1. PICK e \in Events : /\ sent[e] = None
                            /\ sent' = [sent EXCEPT ![e] =
                                  [sub |-> s, plan |-> session[s].plan, state |-> next, at |-> now]]
    BY <1>1, BecomesStep
  <2> DEFINE r == [sub |-> s, plan |-> session[s].plan, state |-> next, at |-> now]
  <2>2. r.sub = s /\ r.plan = session[s].plan /\ r.state = next /\ r \in Reports
    BY <1>1, BecomesStep DEF Reports, Sessions, Shape, ClockShape
  <2>3. sent' = [sent EXCEPT ![e] = r]
    BY <2>1
  <2> HIDE DEF r
  <2>4. /\ sent'[e] = r /\ r # None
        /\ \A d \in Events : sent[d] # None => sent'[d] = sent[d]
        /\ \A d \in Events \ {e} : sent'[d] = sent[d]
    BY <2>1, <2>2, <2>3, Constants DEF Shape, StripeShape
  <2>5. /\ state'[s] = next /\ \A t \in Subscriptions \ {s} : state'[t] = state[t]
        /\ UNCHANGED <<session, repair>>
    BY <1>1, BecomesStep DEF Shape, StripeShape
  <2>6. \A d \in Events : sent'[d] # None => sent'[d].plan = session'[sent'[d].sub].plan
    BY <2>2, <2>4, <2>5 DEF Told
  <2>7. \A t \in Subscriptions : state'[t] # "none" =>
          \E d \in Events : sent'[d] # None /\ sent'[d].sub = t /\ sent'[d].state = state'[t]
    BY <2>2, <2>4, <2>5 DEF Told
  <2>8. repair'.step = "write" =>
          \E d \in Events : /\ sent'[d] # None /\ sent'[d].sub = repair'.sub
                           /\ sent'[d].state = repair'.state
    BY <2>4, <2>5 DEF Told
  <2> QED
    BY <2>6, <2>7, <2>8 DEF Told
<1>2. CASE RepairRetrieve
  <2>1. repair.sub \in Subscriptions /\ state[repair.sub] \in States
    BY <1>2 DEF RepairRetrieve, Shape, RepairShape, Repairs, Begun, StripeShape
  <2>2. repair'.sub = repair.sub /\ repair'.state = state[repair.sub]
    BY <1>2 DEF RepairRetrieve, Shape, RepairShape, Repairs
  <2> QED
    BY <1>2, <2>1, <2>2, ToldStep DEF RepairRetrieve, States, stripe
<1>3. CASE ScanEntitlement
  <2>1. repair'.step = "retrieve"
    BY <1>3 DEF ScanEntitlement, Resting
  <2> QED
    BY <1>3, <2>1, ToldStep DEF ScanEntitlement, stripe
<1>4. CASE RepairWrite \/ RepairFails
  <2>1. repair'.step = "idle" /\ UNCHANGED <<sent, state>>
    BY <1>4, Constants DEF RepairWrite, RepairFails, stripe
  <2> QED
    BY <2>1, ToldStep
<1>5. CASE UNCHANGED <<sent, state, repair>>
  BY <1>5, ToldStep
<1>6. \/ UNCHANGED <<sent, state, repair>>
      \/ \E s \in Subscriptions : Completes(s) \/ \E next \in States : Changes(s, next)
      \/ Reconcile \/ RepairFails
  BY DEF Next, vars, Continue, BeginCheckout, CreateCustomer, SaveCustomer, Deliver,
         Apply, Mark, FailEvent, Crash, LeaseExpires, AbandonLease, Tick, KeyExpires, stripe,
         CreateSession
<1> QED
  BY <1>1, <1>2, <1>3, <1>4, <1>5, <1>6 DEF Reconcile, States

LEMMA RealNext == ASSUME Shape, Told, EntitlementIsReal, [Next]_vars PROVE EntitlementIsReal'
<1>1. CASE UNCHANGED ent
  BY <1>1, Stays DEF EntitlementIsReal, Shape, EntShape, Entitlements
<1>2. ASSUME NEW p \in Invocations, Apply(p) PROVE EntitlementIsReal'
  <2>1. PICK e \in Events : e = req[p].work /\ sent[e] # None
    BY <1>2, Constants, ReqTypes DEF Apply, Shape, Delivered
  <2>2. ent' = ent \/ ent' = Carried(e)
    BY <1>2, <2>1 DEF Apply
  <2>3. Carried(e).plan = sent[e].plan /\ Carried(e).status = EntitlementStatus(sent[e].state)
        /\ Carried(e).sub = sent[e].sub
    BY DEF Carried
  <2>4. session[sent[e].sub] # None /\ sent[e].plan = session[sent[e].sub].plan
    BY <2>1 DEF Told, Shape, Begun, StripeShape, Reports
  <2>5. UNCHANGED <<session, sent>>
    BY <1>2 DEF Apply, stripe
  <2>6. CASE ent' = Carried(e)
    BY <2>1, <2>3, <2>4, <2>5, <2>6 DEF EntitlementIsReal
  <2> QED
    BY <1>1, <2>2, <2>6
<1>3. CASE RepairWrite /\ ent' # ent
  BY <1>3, WriteStep DEF RepairWrite, Told, EntitlementIsReal, stripe
<1>4. \/ UNCHANGED ent
      \/ \E p \in Invocations : Apply(p)
      \/ RepairWrite
  BY DEF Next, vars, Continue, Reconcile, BeginCheckout, CreateCustomer, SaveCustomer, Deliver,
         Mark, FailEvent, Crash, Completes, Changes, Becomes, LeaseExpires, AbandonLease,
         Tick, KeyExpires, ScanEntitlement, RepairRetrieve, RepairFails, CreateSession
<1> QED
  BY <1>1, <1>2, <1>3, <1>4

\* Whoever wrote it last, an event of any age or the reconciler in the middle
\* of a change of subscription, the entitlement shows one subscription, the plan
\* bought with it and a status Stripe has reported of it: applyPlan writes all
\* of it at once, and the reconciler under the condition of the subscription.
THEOREM RealEntitlement == Spec => []EntitlementIsReal
<1>1. Init => Told /\ EntitlementIsReal
  BY DEF Init, Resting, Told, EntitlementIsReal
<1> QED
  BY <1>1, ShapeInit, ShapeNext, ToldNext, RealNext, PTL DEF Spec
-----------------------------------------------------------------------------
(* The order of events *)

\* A lease row is of an event that was sent.
Sent == \A e \in Events : row[e] # None => sent[e] # None

\* Until the reconciler first writes, no event that is processed, or about to be
\* marked so, is newer than the entitlement, and an event carried all of it.
Latest ==
    ~ent.reconciled =>
        /\ \A p \in Invocations : req[p].step = "mark" => sent[req[p].work].at <= ent.at
        /\ \A e \in Events : row[e] # None /\ row[e].status = "processed" => sent[e].at <= ent.at
        /\ ent.last # None =>
              /\ sent[ent.last] # None
              /\ ent.plan = sent[ent.last].plan /\ ent.sub = sent[ent.last].sub
              /\ ent.status = EntitlementStatus(sent[ent.last].state)
              /\ ent.at = sent[ent.last].at

LEMMA SentNext == ASSUME Shape, Sent, [Next]_vars PROVE Sent'
<1>1. \A e \in Events : row'[e] # None => row[e] # None \/ sent[e] # None
  <2>1. ASSUME NEW p \in Invocations, NEW e \in Events, Deliver(p, e)
        PROVE  \A d \in Events : row'[d] # None => row[d] # None \/ sent[d] # None
    BY <2>1 DEF Deliver, Shape, RowShape
  <2>2. ASSUME NEW p \in Invocations, Mark(p) \/ FailEvent(p)
        PROVE  \A d \in Events : row'[d] # None => row[d] # None \/ sent[d] # None
    BY <2>2, ReqTypes, Constants DEF Mark, FailEvent, Shape, RowShape
  <2>3. ASSUME NEW e \in Events, LeaseExpires(e) \/ AbandonLease(e)
        PROVE  \A d \in Events : row'[d] # None => row[d] # None \/ sent[d] # None
    BY <2>3 DEF LeaseExpires, AbandonLease, Shape, RowShape
  <2>4. \/ UNCHANGED row
        \/ \E p \in Invocations, e \in Events : Deliver(p, e)
        \/ \E p \in Invocations : Mark(p) \/ FailEvent(p)
        \/ \E e \in Events : LeaseExpires(e) \/ AbandonLease(e)
    BY DEF Next, vars, Continue, Reconcile, BeginCheckout, CreateCustomer, SaveCustomer, Apply,
           Crash, Completes, Changes, Becomes, Tick, KeyExpires, ScanEntitlement, RepairRetrieve,
           RepairWrite, RepairFails, CreateSession
  <2> QED
    BY <2>1, <2>2, <2>3, <2>4
<1> QED
  BY <1>1, Stays DEF Sent

\* A step that leaves the entitlement, marks no more events and makes none
\* processed that was not marked.
LEMMA LatestStep ==
    ASSUME Shape, Sent, Latest, [Next]_vars, UNCHANGED ent,
           \A p \in Invocations : req'[p].step = "mark" => req'[p] = req[p],
           \A e \in Events : row'[e] # None /\ row'[e].status = "processed" =>
               \/ row'[e] = row[e]
               \/ \E p \in Invocations : req[p].step = "mark" /\ req[p].work = e
    PROVE  Latest'
<1> SUFFICES ASSUME ~ent.reconciled PROVE Latest'
  BY DEF Latest
<1>1. \A p \in Invocations : req'[p].step = "mark" => sent'[req'[p].work].at <= ent'.at
  BY Stays DEF Latest, Shape, Delivered, ReqShape, Works
<1>2. \A e \in Events : row'[e] # None /\ row'[e].status = "processed" => sent'[e].at <= ent'.at
  BY Stays DEF Latest, Shape, Delivered, ReqShape, Works, Sent
<1>3. ent.last # None => ent.last \in Events /\ sent[ent.last] # None
                         /\ sent'[ent.last] = sent[ent.last]
  BY Stays DEF Latest, Shape, EntShape, Entitlements
<1> QED
  BY <1>1, <1>2, <1>3 DEF Latest

LEMMA LatestApply ==
    ASSUME Shape, Sent, Latest, [Next]_vars, NEW p \in Invocations, Apply(p) PROVE Latest'
<1> SUFFICES ASSUME ~ent'.reconciled PROVE Latest'
  BY DEF Latest
<1>1. PICK e \in Events : e = req[p].work /\ sent[e] # None
  BY Constants, ReqTypes DEF Apply, Shape, Delivered
<1>2. UNCHANGED <<sent, row>> /\ ent' = IF ent.at <= sent[e].at THEN Carried(e) ELSE ent
  BY <1>1 DEF Apply, stripe
<1>3. /\ Carried(e).at = sent[e].at /\ Carried(e).reconciled = ent.reconciled
      /\ Carried(e).last = e
  BY DEF Carried
<1>4. ent.at \in Nat /\ sent[e].at \in Nat /\ ent'.at \in Nat
  BY <1>1, <1>2, <1>3, BoundsAssumption
     DEF Shape, EntShape, Entitlements, StripeShape, Reports
<1>5. ent.at <= ent'.at /\ sent[e].at <= ent'.at /\ ~ent.reconciled
  BY <1>2, <1>3, <1>4
<1>6. \A d \in Events : sent[d] # None => sent[d].at \in Nat
  BY DEF Shape, StripeShape, Reports
<1>7. \A q \in Invocations : req'[q].step = "mark" =>
        sent[req'[q].work] # None /\ req'[q].work \in Events /\ sent[req'[q].work].at <= ent'.at
  <2> SUFFICES ASSUME NEW q \in Invocations, req'[q].step = "mark"
               PROVE  /\ sent[req'[q].work] # None /\ req'[q].work \in Events
                      /\ sent[req'[q].work].at <= ent'.at
    OBVIOUS
  <2>1. CASE q = p
    <3>1. req'[q].work = e
      BY <1>1, <2>1, ReqTypes DEF Apply, Goto, Requests
    <3> QED
      BY <1>1, <1>5, <3>1
  <2>2. CASE q # p
    <3>1. req'[q] = req[q]
      BY <2>2, ReqTypes DEF Apply, Goto
    <3>2. /\ sent[req[q].work] # None /\ req[q].work \in Events
          /\ sent[req[q].work].at <= ent.at
      BY <1>5, <3>1, ReqTypes DEF Latest, Shape, Delivered
    <3> QED
      BY <1>4, <1>5, <1>6, <3>1, <3>2
  <2> QED
    BY <2>1, <2>2
<1>8. \A d \in Events : row[d] # None /\ row[d].status = "processed" => sent[d].at <= ent'.at
  BY <1>4, <1>5, <1>6 DEF Latest, Sent
<1>9. \/ ent' = ent
      \/ /\ ent'.last = e /\ ent'.plan = sent[e].plan /\ ent'.sub = sent[e].sub
         /\ ent'.status = EntitlementStatus(sent[e].state) /\ ent'.at = sent[e].at
  BY <1>2 DEF Carried
<1> QED
  BY <1>1, <1>2, <1>5, <1>7, <1>8, <1>9 DEF Latest

LEMMA LatestNext == ASSUME Shape, Sent, Latest, [Next]_vars PROVE Latest'
<1>a. req \in [Invocations -> Requests] /\ Idle.step = "idle" /\ row \in [Events -> Lease \cup {None}]
  BY DEF Shape, ReqShape, RowShape, Idle
<1>1. ASSUME NEW p \in Invocations, NEW e \in Events, Deliver(p, e) PROVE Latest'
  <2>1. Claimed(e).status = "processing"
    BY DEF Claimed, FirstClaim, NextClaim, LeaseRow
  <2>2. /\ req'[p].step = "apply" /\ \A q \in Invocations \ {p} : req'[q] = req[q]
        /\ row'[e] = Claimed(e) /\ \A d \in Events \ {e} : row'[d] = row[d]
    BY <1>a, <1>1 DEF Deliver, Idle
  <2> QED
    BY <1>1, <2>1, <2>2, LatestStep DEF Deliver
<1>2. ASSUME NEW p \in Invocations, Mark(p) PROVE Latest'
  <2>1. /\ \A q \in Invocations : req'[q].step = "mark" => req'[q] = req[q]
        /\ \A d \in Events : row'[d] = row[d] \/ req[p].work = d
    BY <1>a, <1>2 DEF Mark, Return
  <2> QED
    BY <1>2, <2>1, LatestStep DEF Mark
<1>3. ASSUME NEW p \in Invocations, FailEvent(p) PROVE Latest'
  <2>1. /\ \A q \in Invocations : req'[q].step = "mark" => req'[q] = req[q]
        /\ \A d \in Events : row'[d] = row[d] \/ row'[d].status = "failed"
    BY <1>a, <1>3 DEF FailEvent, Return, Failed, LeaseRow
  <2> QED
    BY <1>3, <2>1, LatestStep DEF FailEvent
<1>4. ASSUME NEW e \in Events, LeaseExpires(e) \/ AbandonLease(e) PROVE Latest'
  <2>1. \A d \in Events : row'[d] = row[d] \/ row'[d].status # "processed"
    BY <1>a, <1>4 DEF LeaseExpires, AbandonLease, Expired, Failed, LeaseRow, Lease
  <2> QED
    BY <1>4, <2>1, LatestStep DEF LeaseExpires, AbandonLease
<1>5. CASE UNCHANGED <<ent, row>> /\ \A p \in Invocations : req'[p].step = "mark" => req'[p] = req[p]
  BY <1>5, LatestStep
<1>6. ASSUME NEW p \in Invocations,
             \/ \E s \in Subscriptions : BeginCheckout(p, s)
             \/ CreateCustomer(p) \/ SaveCustomer(p) \/ CreateSession(p) \/ Crash(p)
      PROVE  Latest'
  <2>1. \A q \in Invocations \ {p} : req'[q] = req[q]
    BY <1>a, <1>6 DEF BeginCheckout, CreateCustomer, SaveCustomer, CreateSession, Crash, Goto, Return
  <2>2. req'[p].step # "mark"
    BY <1>a, <1>6 DEF BeginCheckout, CreateCustomer, SaveCustomer, CreateSession, Crash, Goto, Return,
                      Requests, Idle
  <2>3. UNCHANGED <<ent, row>>
    BY <1>6 DEF BeginCheckout, CreateCustomer, SaveCustomer, CreateSession, Crash
  <2> QED
    BY <1>5, <2>1, <2>2, <2>3
<1>7. CASE RepairWrite
  <2>1. UNCHANGED <<req, row>> /\ (ent' = ent \/ ent'.reconciled = TRUE)
    BY <1>7, WriteStep DEF RepairWrite
  <2> QED
    BY <1>5, <2>1 DEF Latest
<1>8. CASE \/ UNCHANGED vars
           \/ \E s \in Subscriptions : Completes(s) \/ \E next \in States : Changes(s, next)
           \/ Tick \/ KeyExpires \/ ScanEntitlement \/ RepairRetrieve \/ RepairFails
  <2>1. UNCHANGED <<ent, row, req>>
    BY <1>8 DEF vars, Completes, Changes, Becomes, Tick, KeyExpires, ScanEntitlement,
                RepairRetrieve, RepairFails
  <2> QED
    BY <1>5, <2>1
<1> QED
  BY <1>1, <1>2, <1>3, <1>4, <1>6, <1>7, <1>8, LatestApply DEF Next, Continue, Reconcile

\* Events come in any order and more than once; until the reconciler first
\* writes, the entitlement is what one event carried, and no event that was
\* processed is newer: applyPlan compares before it writes, in one update.
THEOREM LatestWins == Spec => []LatestEventWins
<1>1. Init => Sent /\ Latest
  BY DEF Init, Idle, Sent, Latest
<1>2. Shape /\ Latest => LatestEventWins
  BY DEF Shape, EntShape, Entitlements, Carried, Latest, LatestEventWins, Processed
<1> QED
  BY <1>1, <1>2, ShapeInit, ShapeNext, SentNext, LatestNext, PTL DEF Spec
=============================================================================

-------------------------- MODULE BillingEntitlement --------------------------
(***************************************************************************)
(* The plan an organization has bought, as billing/index.js and the        *)
(* entitlement pass of payment-reconciliation/index.js keep it: checkouts  *)
(* that make a Stripe customer and a session, subscription events claimed  *)
(* under a lease and applied if they are not older than what is there, and *)
(* a reconciler that asks Stripe for the subscription's state.             *)
(*                                                                         *)
(* One organization; a request is a Lambda invocation and each action one  *)
(* awaited call.  A submission of the checkout form, with its idempotency  *)
(* key, is identified with the subscription it may lead to.  Stripe is     *)
(* external: it makes one object per idempotency key, lets customers pay,  *)
(* change, lose and cancel subscriptions, and sends events that carry the  *)
(* state of their subscription at the moment they are created.             *)
(*                                                                         *)
(* Abstracted: authorization and validation, refused before any write;     *)
(* audit rows, written in the transaction of what they record; limits and  *)
(* features, which the plan determines; validUntil and the price, which    *)
(* accompany the status; the modes without Stripe.  The portal session     *)
(* changes nothing here: what a customer does with it is in Stripe's part. *)
(***************************************************************************)
EXTENDS WebhookLease, FiniteSets

CONSTANTS
    Invocations,    \* concurrent invocations of the billing function
    Subscriptions,  \* submissions of the checkout form
    Customers,      \* customers Stripe may make for the organization
    Events,         \* webhook events Stripe may send
    Plans, Pilot,   \* PLAN_LIMITS, and the plan the organization starts with
    Priced,         \* the plans of PRICE_MAP
    None,
    MaxTime,        \* bound of the clock
    MaxFailures     \* bound on invocations and runs that die in a behaviour

ASSUME PlanAssumption == Pilot \in Plans /\ Priced \subseteq Plans

States == {"active", "past_due", "canceled"}
Sessions == [plan : Plans, customer : Customers]
Reports == [sub : Subscriptions, plan : Plans, state : States, at : 1..MaxTime]

ASSUME NoneAssumption ==
    None \notin Invocations \cup Subscriptions \cup Customers \cup Events
                \cup Plans \cup Lease \cup Sessions \cup Reports
ASSUME FiniteAssumption ==
    IsFiniteSet(Invocations) /\ IsFiniteSet(Subscriptions)
ASSUME BoundsAssumption == MaxTime \in Nat \ {0} /\ MaxFailures \in Nat

VARIABLES
    now, failures,
    keyed,     \* the customer Stripe returns for the key customer-<organization>
    made,      \* the customers Stripe has made
    session,   \* the checkout session of each submission
    state,     \* of each subscription at Stripe
    sent,      \* the state each event carries
    stored,    \* stripeCustomerId of the organization
    ent,       \* the entitlement row
    row,       \* lease row of each event
    req,       \* what each invocation is doing
    repair,    \* what the reconciler is doing
    maker,     \* the invocation that made keyed and has yet to save it
    orphan,    \* it died before it did
    straddled  \* history: two requests that overlap were on both sides of the
               \* moment when Stripe forgot the key

aging == <<maker, orphan, straddled>>
stripe == <<keyed, made, session, state, sent>>
vars == <<now, failures, keyed, made, session, state, sent,
          stored, ent, row, req, repair, aging>>

Idle == [step |-> "idle", work |-> None, token |-> 0, customer |-> None]
Resting == [step |-> "idle", sub |-> None, state |-> "none", at |-> 0]

\* Mutant of EntitlementStatus: a status of Stripe that has no case of its own
\* is kept as it is.
EntitlementStatus_Raw(s) == s

\* entitlementStatus, and subscriptionStatus of the reconciler
EntitlementStatus(s) == IF s = "canceled" THEN "suspended" ELSE s

\* planFromSubscription: the metadata written at the checkout come first.
PlanFromSubscription(s) == session[s].plan

Init ==
    /\ now = 1
    /\ failures = 0
    /\ keyed = None
    /\ made = {}
    /\ session = [s \in Subscriptions |-> None]
    /\ state = [s \in Subscriptions |-> "none"]
    /\ sent = [e \in Events |-> None]
    /\ stored = None
    /\ ent = [plan |-> Pilot, status |-> "active", sub |-> None,
              last |-> None, at |-> 0, reconciled |-> FALSE]
    /\ row = [e \in Events |-> None]
    /\ req = [p \in Invocations |-> Idle]
    /\ repair = Resting
    /\ maker = None /\ orphan = FALSE /\ straddled = FALSE

Running == {p \in Invocations : req[p].step # "idle"}
Goto(p, step) == req' = [req EXCEPT ![p].step = step]
Return(p) == req' = [req EXCEPT ![p] = Idle]
-----------------------------------------------------------------------------
(* createCheckout and ensureCustomer *)

\* The read of the organization, and the branch of ensureCustomer on it.  (The
\* retry of a submission that has its session reads stripeCustomerId, gets the
\* same session and changes nothing; it is left out.)
BeginCheckout(p, s) ==
    /\ req[p] = Idle
    /\ session[s] = None
    /\ req' = [req EXCEPT ![p] =
                 [Idle EXCEPT !.work = s, !.customer = stored,
                    !.step = IF stored = None THEN "customer" ELSE "session"]]
    /\ UNCHANGED <<now, failures, stripe, stored, ent, row, repair, aging>>

\* Mutant of CreateCustomer: customers.create without an idempotency key.
CreateCustomer_NoKey(p) ==
    /\ req[p].step = "customer"
    /\ \E c \in Customers \ made :
          /\ keyed' = c
          /\ made' = made \cup {c}
          /\ req' = [req EXCEPT ![p].step = "save", ![p].customer = c]
    /\ IF keyed = None THEN maker' = p /\ orphan' = FALSE
                       ELSE UNCHANGED <<maker, orphan>>
    /\ UNCHANGED <<now, failures, session, state, sent, stored,
                   ent, row, repair, straddled>>

CreateCustomer(p) ==
    /\ req[p].step = "customer"
    /\ \E c \in IF keyed = None THEN Customers \ made ELSE {keyed} :
          /\ keyed' = c
          /\ made' = made \cup {c}
          /\ req' = [req EXCEPT ![p].step = "save", ![p].customer = c]
    /\ IF keyed = None THEN maker' = p /\ orphan' = FALSE
                       ELSE UNCHANGED <<maker, orphan>>
    /\ UNCHANGED <<now, failures, session, state, sent, stored,
                   ent, row, repair, straddled>>

\* if_not_exists(stripeCustomerId); the request goes on with its own customer.
SaveCustomer(p) ==
    /\ req[p].step = "save"
    /\ stored' = IF stored = None THEN req[p].customer ELSE stored
    /\ maker' = IF maker = p THEN None ELSE maker
    /\ Goto(p, "session")
    /\ UNCHANGED <<now, failures, stripe, ent, row, repair, orphan, straddled>>

\* A retry of the submission has its key, and gets the session there is.
CreateSession(p) ==
    /\ req[p].step = "session"
    /\ LET s == req[p].work
       IN IF session[s] = None
          THEN \E plan \in Priced : session' = [session EXCEPT ![s] =
                   [plan |-> plan, customer |-> req[p].customer]]
          ELSE UNCHANGED session
    /\ Return(p)
    /\ UNCHANGED <<now, failures, keyed, made, state, sent,
                   stored, ent, row, repair, aging>>
-----------------------------------------------------------------------------
(* The webhook: claimEvent, processStripeEvent, completeEvent *)

Claimed(e) == IF row[e] = None THEN FirstClaim ELSE NextClaim(row[e])

\* claimEvent: the put of a new row, or the read of the old one and the update
\* under the condition that was read.  A delivery that finds the event processed
\* or in flight, or loses the update, is answered with 200 and changes nothing.
Deliver(p, e) ==
    /\ req[p] = Idle
    /\ sent[e] # None
    /\ row[e] # None => Reclaimable(row[e])
    /\ row' = [row EXCEPT ![e] = Claimed(e)]
    /\ req' = [req EXCEPT ![p] =
                 [Idle EXCEPT !.step = "apply", !.work = e,
                              !.token = Claimed(e).token]]
    /\ UNCHANGED <<now, failures, stripe, stored, ent, repair, aging>>

Carried(e) ==
    [plan |-> sent[e].plan, status |-> EntitlementStatus(sent[e].state),
     sub |-> sent[e].sub, last |-> e, at |-> sent[e].at,
     reconciled |-> ent.reconciled]

\* Mutant of Apply: the update has no condition on lastStripeEventCreatedAt.
Apply_Unordered(p) ==
    /\ req[p].step = "apply"
    /\ ent' = Carried(req[p].work)
    /\ Goto(p, "mark")
    /\ UNCHANGED <<now, failures, stripe, stored, row, repair, aging>>

\* applyPlan.  An event older than the watermark changes nothing and is
\* completed like the others.
Apply(p) ==
    /\ req[p].step = "apply"
    /\ ent' = IF ent.at <= sent[req[p].work].at
              THEN Carried(req[p].work) ELSE ent
    /\ Goto(p, "mark")
    /\ UNCHANGED <<now, failures, stripe, stored, row, repair, aging>>

\* completeEvent; without the lease it throws, and so does failEvent.
Mark(p) ==
    /\ req[p].step = "mark"
    /\ row' = [row EXCEPT ![req[p].work] =
                  IF Holds(@, req[p].token) THEN Completed(@) ELSE @]
    /\ Return(p)
    /\ UNCHANGED <<now, failures, stripe, stored, ent, repair, aging>>

\* A call of the webhook throws after the claim, and failEvent runs.
FailEvent(p) ==
    /\ req[p].step \in {"apply", "mark"}
    /\ failures < MaxFailures
    /\ failures' = failures + 1
    /\ row' = [row EXCEPT ![req[p].work] =
                  IF Holds(@, req[p].token) THEN Failed(@) ELSE @]
    /\ Return(p)
    /\ UNCHANGED <<now, stripe, stored, ent, repair, aging>>

\* The invocation dies, or a call of a checkout throws.
Crash(p) ==
    /\ p \in Running
    /\ failures < MaxFailures
    /\ failures' = failures + 1
    /\ IF maker = p THEN maker' = None /\ orphan' = TRUE
                    ELSE UNCHANGED <<maker, orphan>>
    /\ Return(p)
    /\ UNCHANGED <<now, stripe, stored, ent, row, repair, straddled>>
-----------------------------------------------------------------------------
(* Time *)

Tick ==
    /\ now < MaxTime
    /\ now' = now + 1
    /\ UNCHANGED <<failures, stripe, stored, ent, row, req, repair, aging>>

\* 120 seconds after the claim, when the claimant, that had 30, is over.
LeaseExpires(e) ==
    /\ row[e] # None
    /\ row[e].status = "processing" /\ ~row[e].expired
    /\ ~\E p \in Invocations :
           /\ req[p].step \in {"apply", "mark"}
           /\ req[p].work = e /\ req[p].token = row[e].token
    /\ row' = [row EXCEPT ![e] = Expired(@)]
    /\ UNCHANGED <<now, failures, stripe, stored, ent, req, repair, aging>>

\* Stripe forgets a key a day after its first use.  If the first user saved its
\* customer, every request that had read none is over by then, and the key is of
\* no more use.  If it died before, requests of a day later may overlap on both
\* sides of that moment, and do so if one of them has the key's customer while
\* none is saved, or has yet to ask for one when one is.  (The step is left out
\* where no request will use the key again.)
KeyExpires ==
    /\ orphan
    /\ stored = None \/ \E p \in Invocations : req[p].step = "customer"
    /\ made # Customers
    /\ keyed' = None /\ orphan' = FALSE
    /\ straddled' = (straddled \/ \E p \in Invocations :
                        req[p].step = IF stored = None THEN "save" ELSE "customer")
    /\ UNCHANGED <<now, failures, made, session, state, sent,
                   stored, ent, row, req, repair, maker>>
-----------------------------------------------------------------------------
(* Stripe *)

\* The subscription goes to a state, and an event reports it.
Becomes(s, next) ==
    /\ state' = [state EXCEPT ![s] = next]
    /\ \E e \in Events :
          /\ sent[e] = None
          /\ sent' = [sent EXCEPT ![e] =
                        [sub |-> s, plan |-> PlanFromSubscription(s),
                         state |-> next, at |-> now]]
    /\ UNCHANGED <<now, failures, keyed, made, session, stored, ent, row, req,
                   repair, aging>>

\* The customer completes the session: checkout.session.completed.
Completes(s) ==
    /\ session[s] # None /\ state[s] = "none"
    /\ Becomes(s, "active")

\* A payment fails or comes through, or the subscription ends: subscription
\* events.  A change to the state it is in stands for an event that repeats it.
Changes(s, next) ==
    /\ state[s] \in {"active", "past_due"}
    /\ Becomes(s, next)

-----------------------------------------------------------------------------
(* payment-reconciliation *)

\* expireAbandonedEventLeases
AbandonLease(e) ==
    /\ row[e] # None
    /\ row[e].status = "processing" /\ row[e].expired
    /\ row' = [row EXCEPT ![e] = Failed(@)]
    /\ UNCHANGED <<now, failures, stripe, stored, ent, req, repair, aging>>

\* reconcileEntitlements: the scan, the call to Stripe, the update.
ScanEntitlement ==
    /\ repair = Resting
    /\ ent.sub # None
    /\ repair' = [Resting EXCEPT !.step = "retrieve", !.sub = ent.sub]
    /\ UNCHANGED <<now, failures, stripe, stored, ent, row, req, aging>>

RepairRetrieve ==
    /\ repair.step = "retrieve"
    /\ repair' = [repair EXCEPT !.step = "write", !.at = now,
                                !.state = state[repair.sub]]
    /\ UNCHANGED <<now, failures, stripe, stored, ent, row, req, aging>>

\* Mutant of RepairWrite: the subscription is not a condition of the update.
RepairWrite_AnySubscription ==
    /\ repair.step = "write"
    /\ repair' = Resting
    /\ \E stamp \in repair.at..now :
          ent' = [ent EXCEPT !.status = EntitlementStatus(repair.state),
                             !.last = None, !.at = stamp, !.reconciled = TRUE]
    /\ UNCHANGED <<now, failures, stripe, stored, row, req, aging>>

\* The time stamp is taken between the answer of Stripe and the update.
RepairWrite ==
    /\ repair.step = "write"
    /\ repair' = Resting
    /\ \/ /\ ent.sub = repair.sub
          /\ \E stamp \in repair.at..now :
                ent' = [ent EXCEPT !.status = EntitlementStatus(repair.state),
                                   !.last = None, !.at = stamp,
                                   !.reconciled = TRUE]
       \/ /\ ent.sub # repair.sub
          /\ UNCHANGED ent
    /\ UNCHANGED <<now, failures, stripe, stored, row, req, aging>>

\* The retrieval fails, or the run dies.
RepairFails ==
    /\ repair # Resting
    /\ failures < MaxFailures
    /\ failures' = failures + 1
    /\ repair' = Resting
    /\ UNCHANGED <<now, stripe, stored, ent, row, req, aging>>
-----------------------------------------------------------------------------
Continue(p) ==
    \/ CreateCustomer(p) \/ SaveCustomer(p) \/ CreateSession(p)
    \/ Apply(p) \/ Mark(p)

Reconcile == ScanEntitlement \/ RepairRetrieve \/ RepairWrite

Next ==
    \/ \E p \in Invocations :
          \/ \E s \in Subscriptions : BeginCheckout(p, s)
          \/ \E e \in Events : Deliver(p, e)
          \/ Continue(p) \/ FailEvent(p) \/ Crash(p)
    \/ \E s \in Subscriptions :
          \/ Completes(s)
          \/ \E next \in States : Changes(s, next)
    \/ \E e \in Events : LeaseExpires(e) \/ AbandonLease(e)
    \/ Tick \/ KeyExpires
    \/ Reconcile \/ RepairFails

Spec == Init /\ [][Next]_vars
-----------------------------------------------------------------------------
Requests == [step : {"idle", "customer", "save", "session", "apply", "mark"},
             work : Subscriptions \cup Events \cup {None}, token : Nat,
             customer : Customers \cup {None}]
Entitlements == [plan : Plans, status : {"active", "past_due", "suspended"},
                 sub : Subscriptions \cup {None}, last : Events \cup {None},
                 at : 0..MaxTime, reconciled : BOOLEAN]
Repairs == [step : {"idle", "retrieve", "write"},
            sub : Subscriptions \cup {None}, state : States \cup {"none"},
            at : 0..MaxTime]

TypeOK ==
    /\ now \in 1..MaxTime /\ failures \in 0..MaxFailures
    /\ keyed \in Customers \cup {None}
    /\ made \in SUBSET Customers
    /\ session \in [Subscriptions -> Sessions \cup {None}]
    /\ state \in [Subscriptions -> States \cup {"none"}]
    /\ sent \in [Events -> Reports \cup {None}]
    /\ stored \in Customers \cup {None}
    /\ ent \in Entitlements
    /\ row \in [Events -> Lease \cup {None}]
    /\ req \in [Invocations -> Requests]
    /\ repair \in Repairs
    /\ maker \in Invocations \cup {None}
    /\ orphan \in BOOLEAN /\ straddled \in BOOLEAN

\* Whoever wrote it last, an event of any age or the reconciler in the middle
\* of a change of subscription, the entitlement shows one subscription: the plan
\* that was bought with it and a status it has had, which Stripe has reported.
EntitlementIsReal ==
    ent.sub # None =>
        /\ session[ent.sub] # None /\ ent.plan = session[ent.sub].plan
        /\ \E e \in Events :
              /\ sent[e] # None /\ sent[e].sub = ent.sub
              /\ ent.status = EntitlementStatus(sent[e].state)

\* However often customers submit, retry, overlap and die, all the sessions of an
\* organization are for the customer it records, unless Stripe forgot the key
\* between two requests that overlap (KeyExpires): if_not_exists then keeps one
\* customer, and ensureCustomer returns the other.
OneCustomer ==
    ~straddled => \A s \in Subscriptions :
        session[s] # None => session[s].customer = stored

Processed == {e \in Events : row[e] # None /\ row[e].status = "processed"}

\* Events come in any order and more than once; until the reconciler first
\* writes, what the entitlement shows is what an event carried, and none of
\* the processed events is newer.
LatestEventWins ==
    ~ent.reconciled =>
        /\ \A e \in Processed : sent[e].at <= ent.at
        /\ ent.last # None => ent = Carried(ent.last)

=============================================================================

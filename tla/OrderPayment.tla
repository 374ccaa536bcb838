---------------------------- MODULE OrderPayment ----------------------------
(***************************************************************************)
(* One order of the product checkout, from the request that reserves it to *)
(* its settlement: checkout/index.js (create-intent, confirm-order and the *)
(* Stripe webhook), the lease rows of its webhook events, and the order    *)
(* and lease passes of payment-reconciliation/index.js.                    *)
(*                                                                         *)
(* A request is a Lambda invocation; each action is one awaited call to    *)
(* DynamoDB or Stripe with the branch taken on its result.  Orders do not  *)
(* interact, so one is enough.  Stripe is external: intents that succeed,  *)
(* fail and are cancelled, an idempotency key it forgets after a day, and  *)
(* events delivered at least once, in any order, until one is acknowledged *)
(* with a 2xx.                                                             *)
(*                                                                         *)
(* Abstracted: carts, prices, ownership and signatures (refused before any *)
(* write), the order's data, "refunded" (no handler writes it), and the    *)
(* payment modes without Stripe.  Time is a clock for the timestamps that  *)
(* order events and two flags for the delays that matter: an invocation    *)
(* lives at most 30 seconds, a lease 120, and an order is stale after 15   *)
(* minutes.                                                                *)
(***************************************************************************)
EXTENDS WebhookLease, FiniteSets

CONSTANTS
    Invocations,  \* concurrent invocations of the checkout function
    Intents,      \* PaymentIntents Stripe may make for the order
    Events,       \* webhook events Stripe may emit
    None,         \* no intent, no event, no row
    MaxTime,      \* bound of the clock
    MaxFailures   \* bound on invocations that die or fail in a behaviour

ASSUME NoneAssumption ==
    None \notin Invocations \cup Intents \cup Events \cup Lease
ASSUME FiniteAssumption ==
    IsFiniteSet(Invocations) /\ IsFiniteSet(Intents) /\ IsFiniteSet(Events)
ASSUME BoundsAssumption == MaxTime \in Nat \ {0} /\ MaxFailures \in Nat

VARIABLES
    now,          \* the clock, in the seconds of Stripe's timestamps
    failures,
    intent,       \* state of each PaymentIntent at Stripe
    keyIntent,    \* the intent Stripe returns for the idempotency key
    handed,       \* intents whose client secret was sent to the customer
    eventType,    \* what each event reports, or "none"
    eventCreated, \* its timestamp
    acked,        \* events acknowledged with a 2xx
    status,       \* of the order
    orderIntent,  \* the order's paymentIntentId
    watermark,    \* lastPaymentEventCreatedAt, 0 if absent
    stale,        \* updatedAt is older than STALE_ORDER_MINUTES
    since,        \* invocations that began before the order's last write
    row,          \* lease row of each event
    pc, work, token, held, read, stamp,     \* of each invocation
    repair, repairRead, repairTarget        \* of the reconciler

stripe == <<intent, keyIntent, handed, eventType, eventCreated, acked>>
order == <<status, orderIntent, watermark, stale>>
calls == <<since, pc, work, token, held, read, stamp>>
repairs == <<repair, repairRead, repairTarget>>
vars == <<now, failures, intent, keyIntent, handed, eventType, eventCreated,
          acked, status, orderIntent, watermark, stale, since, row, pc, work,
          token, held, read, stamp, repair, repairRead, repairTarget>>

Statuses == {"creating", "pending", "paid", "failed", "cancelled"}
Terminal == {"paid", "cancelled"}
LeaseSteps == {"read", "write", "mark"}
Steps == {"idle", "load", "createIntent", "attach", "retrieve", "claim",
          "reclaim"} \cup LeaseSteps

\* ALLOWED_TRANSITIONS
Allowed(from, to) ==
    \/ from = "creating" /\ to \in {"pending", "paid", "failed", "cancelled"}
    \/ from = "pending" /\ to \in {"paid", "failed", "cancelled"}
    \/ from = "failed" /\ to \in {"pending", "paid", "cancelled"}

\* targetByType
TargetOf(type) ==
    CASE type = "succeeded" -> "paid"
      [] type = "failed" -> "failed"
      [] OTHER -> "cancelled"

\* paymentIntentTarget of the reconciler; an intent in processing has none.
RepairTargetOf(state) ==
    CASE state = "succeeded" -> "paid"
      [] state = "canceled" -> "cancelled"
      [] OTHER -> "failed"

Init ==
    /\ now = 1
    /\ failures = 0
    /\ intent = [i \in Intents |-> "none"]
    /\ keyIntent = None
    /\ handed = {}
    /\ eventType = [e \in Events |-> "none"]
    /\ eventCreated = [e \in Events |-> 0]
    /\ acked = {}
    /\ status = "none"
    /\ orderIntent = None
    /\ watermark = 0
    /\ stale = FALSE
    /\ since = {}
    /\ row = [e \in Events |-> None]
    /\ pc = [p \in Invocations |-> "idle"]
    /\ work = [p \in Invocations |-> None]
    /\ token = [p \in Invocations |-> 0]
    /\ held = [p \in Invocations |-> None]
    /\ read = [p \in Invocations |-> "none"]
    /\ stamp = [p \in Invocations |-> 0]
    /\ repair = "idle"
    /\ repairRead = "none"
    /\ repairTarget = "none"
-----------------------------------------------------------------------------
(* Control of an invocation *)

Goto(p, step) == pc' = [pc EXCEPT ![p] = step]

Forget(p) ==
    /\ pc' = [pc EXCEPT ![p] = "idle"]
    /\ work' = [work EXCEPT ![p] = None]
    /\ token' = [token EXCEPT ![p] = 0]
    /\ held' = [held EXCEPT ![p] = None]
    /\ read' = [read EXCEPT ![p] = "none"]
    /\ stamp' = [stamp EXCEPT ![p] = 0]

\* The response is sent, or never will be.
Return(p) == Forget(p) /\ since' = since \ {p}

\* Every write of the order sets updatedAt.
Running == {p \in Invocations : pc[p] # "idle"}
Touch(writers) == stale' = FALSE /\ since' = writers
-----------------------------------------------------------------------------
(* create-intent *)

\* reserveOrder: put the draft if the order does not exist.
ReserveOrder(p) ==
    /\ pc[p] = "idle"
    /\ \/ /\ status = "none"
          /\ status' = "creating"
          /\ Touch(Running \cup {p})
          /\ Goto(p, "createIntent")
       \/ /\ status # "none"
          /\ Goto(p, "load")
          /\ UNCHANGED <<status, stale, since>>
    /\ UNCHANGED <<now, failures, stripe, orderIntent, watermark, row, work,
                   token, held, read, stamp, repairs>>

\* An order that exists is answered from its row once it has an intent or is
\* settled; otherwise the request goes on as the first one would have.
LoadOrder(p) ==
    /\ pc[p] = "load"
    /\ \/ /\ orderIntent # None
          /\ handed' = handed \cup {orderIntent}
          /\ Return(p)
       \/ /\ orderIntent = None /\ status \in Terminal
          /\ Return(p)
          /\ UNCHANGED handed
       \/ /\ orderIntent = None /\ status \notin Terminal
          /\ Goto(p, "createIntent")
          /\ UNCHANGED <<handed, since, work, token, held, read, stamp>>
    /\ UNCHANGED <<now, failures, intent, keyIntent, eventType, eventCreated,
                   acked, order, row, repairs>>

\* paymentIntents.create: one intent per idempotency key.
CreateIntent(p) ==
    /\ pc[p] = "createIntent"
    /\ \/ /\ keyIntent # None
          /\ held' = [held EXCEPT ![p] = keyIntent]
          /\ UNCHANGED <<intent, keyIntent>>
       \/ /\ keyIntent = None
          /\ \E i \in Intents :
                /\ intent[i] = "none"
                /\ intent' = [intent EXCEPT ![i] = "open"]
                /\ keyIntent' = i
                /\ held' = [held EXCEPT ![p] = i]
    /\ Goto(p, "attach")
    /\ UNCHANGED <<now, failures, handed, eventType, eventCreated, acked, order,
                   since, row, work, token, read, stamp, repairs>>

\* attachPaymentIntent; the client secret is in the response.  An order that
\* is neither creating nor failed any more makes the request fail.
AttachIntent(p) ==
    /\ pc[p] = "attach"
    /\ \/ /\ status \in {"creating", "failed"}
          /\ orderIntent' = held[p]
          /\ status' = "pending"
          /\ handed' = handed \cup {held[p]}
          /\ Touch(Running \ {p})
          /\ Forget(p)
       \/ /\ status \notin {"creating", "failed"}
          /\ Return(p)
          /\ UNCHANGED <<orderIntent, status, handed, stale>>
    /\ UNCHANGED <<now, failures, intent, keyIntent, eventType, eventCreated,
                   acked, watermark, row, repairs>>
-----------------------------------------------------------------------------
(* confirm-order, by the customer the client secret was sent to *)

BeginConfirm(p) ==
    /\ pc[p] = "idle"
    /\ orderIntent \in handed
    /\ status # "paid"
    /\ held' = [held EXCEPT ![p] = orderIntent]
    /\ Goto(p, "retrieve")
    /\ UNCHANGED <<now, failures, stripe, order, since, row, work, token, read,
                   stamp, repairs>>

\* Mutant of RetrieveIntent: any intent will do.
RetrieveIntent_Unchecked(p) ==
    /\ pc[p] = "retrieve"
    /\ Goto(p, "read")
    /\ UNCHANGED <<now, failures, stripe, order, since, row, work, token, held,
                   read, stamp, repairs>>

RetrieveIntent(p) ==
    /\ pc[p] = "retrieve"
    /\ \/ /\ intent[held[p]] = "succeeded"
          /\ Goto(p, "read")
          /\ UNCHANGED <<since, work, token, held, read, stamp>>
       \/ /\ intent[held[p]] # "succeeded"
          /\ Return(p)
    /\ UNCHANGED <<now, failures, stripe, order, row, repairs>>
-----------------------------------------------------------------------------
(* transitionOrder, for a confirmation (no event) or a webhook event *)

Target(p) == IF work[p] = None THEN "paid" ELSE TargetOf(eventType[work[p]])
Stamp(p) == IF work[p] = None THEN now ELSE eventCreated[work[p]]

\* What comes after transitionOrder returned.
Conclude(p) ==
    \/ /\ work[p] = None
       /\ Return(p)
    \/ /\ work[p] # None
       /\ Goto(p, "mark")
       /\ UNCHANGED <<since, work, token, held, read, stamp>>

\* The event is newer than what the order reflects, and a change the order
\* admits.
Applies(p) ==
    /\ Stamp(p) >= watermark
    /\ status # Target(p)
    /\ Allowed(status, Target(p))

ReadOrder(p) ==
    /\ pc[p] = "read"
    /\ \/ /\ Applies(p)
          /\ read' = [read EXCEPT ![p] = status]
          /\ stamp' = [stamp EXCEPT ![p] = Stamp(p)]
          /\ Goto(p, "write")
          /\ UNCHANGED <<since, work, token, held>>
       \/ ~Applies(p) /\ Conclude(p)
    /\ UNCHANGED <<now, failures, stripe, order, row, repairs>>

\* The conditional update.  Losing it ("concurrent") is a result like another:
\* a confirmation is answered with success, an event is marked processed.
WriteOrder(p) ==
    /\ pc[p] = "write"
    /\ \/ /\ status = read[p] /\ watermark <= stamp[p]
          /\ status' = Target(p)
          /\ watermark' = stamp[p]
          /\ stale' = FALSE
          /\ \/ /\ work[p] = None
                /\ since' = Running \ {p}
                /\ Forget(p)
             \/ /\ work[p] # None
                /\ since' = Running
                /\ Goto(p, "mark")
                /\ UNCHANGED <<work, token, held, read, stamp>>
       \/ /\ ~(status = read[p] /\ watermark <= stamp[p])
          /\ Conclude(p)
          /\ UNCHANGED <<status, watermark, stale>>
    /\ UNCHANGED <<now, failures, stripe, orderIntent, row, repairs>>
-----------------------------------------------------------------------------
(* The webhook *)

\* The first write of claimWebhookEvent: a put that an existing row refuses.
Deliver(p, e) ==
    /\ pc[p] = "idle"
    /\ eventType[e] # "none"
    /\ work' = [work EXCEPT ![p] = e]
    /\ \/ /\ row[e] = None
          /\ row' = [row EXCEPT ![e] = FirstClaim]
          /\ token' = [token EXCEPT ![p] = FirstClaim.token]
          /\ Goto(p, "read")
       \/ /\ row[e] # None
          /\ Goto(p, "claim")
          /\ UNCHANGED <<row, token>>
    /\ UNCHANGED <<now, failures, stripe, order, since, held, read, stamp,
                   repairs>>

\* The consistent read of the row.  Both a duplicate and an event in flight are
\* answered with a 200.
InspectClaim(p) ==
    /\ pc[p] = "claim"
    /\ \/ /\ Reclaimable(row[work[p]])
          /\ Goto(p, "reclaim")
          /\ UNCHANGED <<acked, since, work, token, held, read, stamp>>
       \/ /\ ~Reclaimable(row[work[p]])
          /\ acked' = acked \cup {work[p]}
          /\ Return(p)
    /\ UNCHANGED <<now, failures, intent, keyIntent, handed, eventType,
                   eventCreated, order, row, repairs>>

\* The conditional update; whoever loses it answers with a 200.
Reclaim(p) ==
    /\ pc[p] = "reclaim"
    /\ \/ /\ Reclaimable(row[work[p]])
          /\ row' = [row EXCEPT ![work[p]] = NextClaim(@)]
          /\ token' = [token EXCEPT ![p] = NextClaim(row[work[p]]).token]
          /\ Goto(p, "read")
          /\ UNCHANGED <<acked, since, work, held, read, stamp>>
       \/ /\ ~Reclaimable(row[work[p]])
          /\ acked' = acked \cup {work[p]}
          /\ Return(p)
          /\ UNCHANGED row
    /\ UNCHANGED <<now, failures, intent, keyIntent, handed, eventType,
                   eventCreated, order, repairs>>

\* markWebhookEventProcessed.  Without the lease the request fails, and so
\* does the attempt to mark the event failed.
Mark(p) ==
    /\ pc[p] = "mark"
    /\ IF Holds(row[work[p]], token[p])
       THEN /\ row' = [row EXCEPT ![work[p]] = Completed(@)]
            /\ acked' = acked \cup {work[p]}
       ELSE UNCHANGED <<row, acked>>
    /\ Return(p)
    /\ UNCHANGED <<now, failures, intent, keyIntent, handed, eventType,
                   eventCreated, order, repairs>>

\* A call of a webhook throws and failWebhookEvent runs.
FailEvent(p) ==
    /\ pc[p] \in LeaseSteps
    /\ work[p] # None
    /\ failures < MaxFailures
    /\ failures' = failures + 1
    /\ row' = [row EXCEPT ![work[p]] =
                  IF Holds(@, token[p]) THEN Failed(@) ELSE @]
    /\ Return(p)
    /\ UNCHANGED <<now, stripe, order, repairs>>

\* The invocation times out or dies, or a call of a request throws.
Crash(p) ==
    /\ pc[p] # "idle"
    /\ failures < MaxFailures
    /\ failures' = failures + 1
    /\ Return(p)
    /\ UNCHANGED <<now, stripe, order, row, repairs>>
-----------------------------------------------------------------------------
(* Time *)

Tick ==
    /\ now < MaxTime
    /\ now' = now + 1
    /\ UNCHANGED <<failures, stripe, order, row, calls, repairs>>

\* Mutant of LeaseExpires: the lease is shorter than the invocation.
LeaseExpires_TooSoon(e) ==
    /\ row[e] # None
    /\ row[e].status = "processing" /\ ~row[e].expired
    /\ row' = [row EXCEPT ![e] = Expired(@)]
    /\ UNCHANGED <<now, failures, stripe, order, calls, repairs>>

\* 120 seconds after the claim, when the claimant, that had 30, is over.
LeaseExpires(e) ==
    /\ row[e] # None
    /\ row[e].status = "processing" /\ ~row[e].expired
    /\ ~\E p \in Invocations :
           pc[p] \in LeaseSteps /\ work[p] = e /\ token[p] = row[e].token
    /\ row' = [row EXCEPT ![e] = Expired(@)]
    /\ UNCHANGED <<now, failures, stripe, order, calls, repairs>>

\* 15 minutes after the order's last write, when every invocation of that
\* moment, and the reconciler's run, are over.
Age ==
    /\ status \in {"creating", "pending"}
    /\ ~stale /\ since = {} /\ repair = "idle"
    /\ stale' = TRUE
    /\ UNCHANGED <<now, failures, stripe, status, orderIntent, watermark, row,
                   calls, repairs>>

\* Stripe forgets an idempotency key after a day; no invocation straddles it.
\* The number of intents bounds how often.
KeyExpires ==
    /\ keyIntent # None
    /\ Running = {}
    /\ \E i \in Intents : intent[i] = "none"
    /\ keyIntent' = None
    /\ UNCHANGED <<now, failures, intent, handed, eventType, eventCreated, acked,
                   order, row, calls, repairs>>
-----------------------------------------------------------------------------
(* Stripe *)

Becomes(i, from, to) ==
    /\ intent[i] \in from
    /\ intent' = [intent EXCEPT ![i] = to]
    /\ UNCHANGED <<now, failures, keyIntent, handed, acked, order, row, calls,
                   repairs>>

Emits(type) == \E e \in Events :
    /\ eventType[e] = "none"
    /\ eventType' = [eventType EXCEPT ![e] = type]
    /\ eventCreated' = [eventCreated EXCEPT ![e] = now]

\* What the customer does with the client secret, or the bank.
BeginsProcessing(i) ==
    i \in handed /\ Becomes(i, {"open"}, "processing")
                 /\ UNCHANGED <<eventType, eventCreated>>
Succeeds(i) ==
    i \in handed /\ Becomes(i, {"open", "processing"}, "succeeded")
                 /\ Emits("succeeded")
PayFails(i) ==
    i \in handed /\ Becomes(i, {"open", "processing"}, "open") /\ Emits("failed")

\* Stripe or the operator cancels an intent.
Cancels(i) == Becomes(i, {"open"}, "canceled") /\ Emits("canceled")
-----------------------------------------------------------------------------
(* payment-reconciliation *)

\* expireAbandonedEventLeases
AbandonLease(e) ==
    /\ row[e] # None
    /\ row[e].status = "processing" /\ row[e].expired
    /\ row' = [row EXCEPT ![e] = Failed(@)]
    /\ UNCHANGED <<now, failures, stripe, order, calls, repairs>>

\* reconcileOrders, for an order without an intent.  The condition on updatedAt
\* makes the scan and the update one step.
FailUnattached ==
    /\ repair = "idle"
    /\ stale /\ status = "creating" /\ orderIntent = None
    /\ status' = "failed"
    /\ Touch(Running)
    /\ UNCHANGED <<now, failures, stripe, orderIntent, watermark, row, pc, work,
                   token, held, read, stamp, repairs>>

\* For an order with one: the scan, the call to Stripe, and the update.
ScanOrder ==
    /\ repair = "idle"
    /\ stale /\ status \in {"creating", "pending"} /\ orderIntent # None
    /\ repair' = "retrieve"
    /\ repairRead' = status
    /\ UNCHANGED <<now, failures, stripe, order, calls, row, repairTarget>>

RepairDone ==
    repair' = "idle" /\ repairRead' = "none" /\ repairTarget' = "none"

\* Mutant of RepairRetrieve: "no target" is written like a target.
RepairRetrieve_NullTarget ==
    /\ repair = "retrieve"
    /\ repair' = "write"
    /\ repairTarget' = IF intent[orderIntent] = "processing"
                      THEN "null" ELSE RepairTargetOf(intent[orderIntent])
    /\ UNCHANGED <<now, failures, stripe, order, calls, row, repairRead>>

\* Mutant of RepairRetrieve: an intent that is still open is left alone.
RepairRetrieve_OnlyFinal ==
    /\ repair = "retrieve"
    /\ \/ /\ intent[orderIntent] \in {"open", "processing"}
          /\ RepairDone
       \/ /\ intent[orderIntent] \notin {"open", "processing"}
          /\ repair' = "write"
          /\ repairTarget' = RepairTargetOf(intent[orderIntent])
          /\ UNCHANGED repairRead
    /\ UNCHANGED <<now, failures, stripe, order, calls, row>>

RepairRetrieve ==
    /\ repair = "retrieve"
    /\ \/ /\ intent[orderIntent] = "processing"
          /\ RepairDone
       \/ /\ intent[orderIntent] # "processing"
          /\ repair' = "write"
          /\ repairTarget' = RepairTargetOf(intent[orderIntent])
          /\ UNCHANGED repairRead
    /\ UNCHANGED <<now, failures, stripe, order, calls, row>>

\* Mutant of RepairWrite: the status the scan read is not a condition.
RepairWrite_Unconditional ==
    /\ repair = "write"
    /\ status' = repairTarget
    /\ watermark' = now
    /\ Touch(Running)
    /\ RepairDone
    /\ UNCHANGED <<now, failures, stripe, orderIntent, row, pc, work, token,
                   held, read, stamp>>

\* The state read from Stripe is stamped with the time of the write.
RepairWrite ==
    /\ repair = "write"
    /\ \/ /\ status = repairRead
          /\ status' = repairTarget
          /\ watermark' = now
          /\ Touch(Running)
       \/ /\ status # repairRead
          /\ UNCHANGED <<status, watermark, stale, since>>
    /\ RepairDone
    /\ UNCHANGED <<now, failures, stripe, orderIntent, row, pc, work, token,
                   held, read, stamp>>

\* The retrieval fails, or the run dies.
RepairFails ==
    /\ repair # "idle"
    /\ failures < MaxFailures
    /\ failures' = failures + 1
    /\ RepairDone
    /\ UNCHANGED <<now, stripe, order, calls, row>>
-----------------------------------------------------------------------------
Continue(p) ==
    \/ LoadOrder(p) \/ CreateIntent(p) \/ AttachIntent(p)
    \/ RetrieveIntent(p) \/ ReadOrder(p) \/ WriteOrder(p)
    \/ InspectClaim(p) \/ Reclaim(p) \/ Mark(p)

Begin(p) ==
    \/ ReserveOrder(p) \/ BeginConfirm(p) \/ \E e \in Events : Deliver(p, e)

Reconcile == FailUnattached \/ ScanOrder \/ RepairRetrieve \/ RepairWrite

Next ==
    \/ \E p \in Invocations :
          Begin(p) \/ Continue(p) \/ FailEvent(p) \/ Crash(p)
    \/ \E e \in Events : LeaseExpires(e) \/ AbandonLease(e)
    \/ \E i \in Intents :
          BeginsProcessing(i) \/ Succeeds(i) \/ PayFails(i) \/ Cancels(i)
    \/ Tick \/ Age \/ KeyExpires
    \/ Reconcile \/ RepairFails

Spec == Init /\ [][Next]_vars

\* Lambda ends every invocation it starts, a run of the reconciler is done with
\* an order it took, and time passes.  That some run takes this order is not
\* assumed: each scan starts again at the head of the table and stops after
\* MAX_SCAN_PAGES pages or MAX_ITEMS candidates, and an order may lie behind.
Fairness ==
    /\ \A p \in Invocations : WF_vars(Continue(p))
    /\ WF_vars(Age)
    /\ WF_vars(RepairRetrieve \/ RepairWrite)

FairSpec == Spec /\ Fairness
-----------------------------------------------------------------------------
TypeOK ==
    /\ now \in 1..MaxTime /\ failures \in 0..MaxFailures
    /\ intent \in [Intents ->
                    {"none", "open", "processing", "succeeded", "canceled"}]
    /\ keyIntent \in Intents \cup {None}
    /\ handed \in SUBSET Intents
    /\ eventType \in [Events -> {"none", "succeeded", "failed", "canceled"}]
    /\ eventCreated \in [Events -> 0..MaxTime]
    /\ acked \in SUBSET Events
    /\ status \in Statuses \cup {"none"}
    /\ orderIntent \in Intents \cup {None}
    /\ watermark \in 0..MaxTime
    /\ stale \in BOOLEAN
    /\ since \in SUBSET Invocations
    /\ row \in [Events -> Lease \cup {None}]
    /\ pc \in [Invocations -> Steps]
    /\ work \in [Invocations -> Events \cup {None}]
    /\ token \in [Invocations -> Nat]
    /\ held \in [Invocations -> Intents \cup {None}]
    /\ read \in [Invocations -> Statuses \cup {"none"}]
    /\ stamp \in [Invocations -> 0..MaxTime]
    /\ repair \in {"idle", "retrieve", "write"}
    /\ repairRead \in Statuses \cup {"none"}
    /\ repairTarget \in Statuses \cup {"none"}

\* An order is paid only if the customer's payment succeeded: whoever wrote it,
\* a confirmation, a webhook event or the reconciler, learnt it from Stripe.
PaidIsReal ==
    status = "paid" => \E i \in Intents : intent[i] = "succeeded"

Working(p, e) == pc[p] \in LeaseSteps /\ work[p] = e

\* The invocation that works on an event holds its lease until it is done, so
\* that completing or failing the event is never refused to it.
WorkerHoldsLease ==
    \A e \in Events : \A p \in Invocations :
        Working(p, e) => row[e] # None /\ Holds(row[e], token[p])

\* Seen from the rows it keeps, the whole is a simpler system, in which an
\* order moves along ALLOWED_TRANSITIONS with time stamps that never go back
\* and an event is taken, given up and finished by one worker at a time.
Worker(e) ==
    IF \E p \in Invocations : Working(p, e)
    THEN CHOOSE p \in Invocations : Working(p, e) ELSE None

Promise == INSTANCE OrderPromise
    WITH worker <- [e \in Events |-> Worker(e)],
         done <- {e \in Events : row[e] # None /\ row[e].status = "processed"}

KeepsPromise == Promise!Spec

\* An order that no run of the reconciler is looking at, though it may.
PassedOver == stale /\ repair = "idle"

\* No order stays creating or pending for ever, unless its payment is still
\* being processed, or from some time on no run of the reconciler reaches it:
\* whatever died on the way, an order that is reached again is settled.
Settles ==
    \/ []<>(\/ status \notin {"creating", "pending"}
            \/ orderIntent # None /\ intent[orderIntent] = "processing")
    \/ <>[]PassedOver

=============================================================================

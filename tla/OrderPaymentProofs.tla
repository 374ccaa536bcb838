-------------------------- MODULE OrderPaymentProofs --------------------------
(***************************************************************************)
(* Theorems about OrderPayment for any number of invocations, intents,     *)
(* events and failures, and that it implements OrderPromise.               *)
(***************************************************************************)
EXTENDS OrderPayment, TLAPS

StripeShape ==
    /\ now \in 1..MaxTime /\ failures \in 0..MaxFailures
    /\ intent \in [Intents ->
                    {"none", "open", "processing", "succeeded", "canceled"}]
    /\ keyIntent \in Intents \cup {None}
    /\ handed \in SUBSET Intents
    /\ eventType \in [Events -> {"none", "succeeded", "failed", "canceled"}]
    /\ eventCreated \in [Events -> 0..MaxTime]
    /\ acked \in SUBSET Events

RowShape == row \in [Events -> Lease \cup {None}]

OrderShape ==
    /\ status \in Statuses \cup {"none"}
    /\ orderIntent \in Intents \cup {None}
    /\ watermark \in 0..MaxTime
    /\ stale \in BOOLEAN

\* Where an invocation is decides whether it has an event and an intent.
CallShape ==
    /\ since \in SUBSET Invocations
    /\ pc \in [Invocations -> Steps]
    /\ work \in [Invocations -> Events \cup {None}]
    /\ token \in [Invocations -> Nat]
    /\ held \in [Invocations -> Intents \cup {None}]
    /\ read \in [Invocations -> Statuses \cup {"none"}]
    /\ stamp \in [Invocations -> 0..MaxTime]
    /\ \A p \in Invocations :
          /\ pc[p] \in {"idle", "load", "createIntent", "attach", "retrieve"} =>
                 work[p] = None
          /\ pc[p] \in {"claim", "reclaim", "mark"} => work[p] # None
          /\ pc[p] \in {"attach", "retrieve"} => held[p] # None

\* The event of an invocation has been emitted and has a lease row.
Delivered ==
    \A p \in Invocations :
        work[p] # None => row[work[p]] # None /\ eventType[work[p]] # "none"

\* The reconciler works on an open order with an intent, towards a verdict.
RepairShape ==
    /\ repair \in {"idle", "retrieve", "write"}
    /\ repairRead \in Statuses \cup {"none"}
    /\ repairTarget \in Statuses \cup {"none"}
    /\ repair # "idle" => repairRead \in {"creating", "pending"} /\ orderIntent # None
    /\ repair = "write" => repairTarget \in {"paid", "failed", "cancelled"}

Shape == StripeShape /\ RowShape /\ OrderShape /\ CallShape /\ Delivered /\ RepairShape
-----------------------------------------------------------------------------
(* Types *)

LEMMA LeaseTypes ==
    /\ FirstClaim \in Lease
    /\ \A r \in Lease : /\ NextClaim(r) \in Lease /\ Completed(r) \in Lease
                        /\ Failed(r) \in Lease /\ Expired(r) \in Lease
<1>1. \A s \in {"processing", "failed", "processed"}, a, t \in Nat : LeaseRow(s, a, t) \in Lease
  BY DEF LeaseRow, Lease
<1>2. \A r \in Lease : r.attempts \in Nat /\ Expired(r) \in Lease
  BY DEF Lease, Expired
<1> QED
  BY <1>1, <1>2 DEF FirstClaim, NextClaim, Completed, Failed

LEMMA Targets ==
    /\ \A type : TargetOf(type) \in {"paid", "failed", "cancelled"}
    /\ \A state : RepairTargetOf(state) \in {"paid", "failed", "cancelled"}
    /\ \A p \in Invocations : Target(p) \in {"paid", "failed", "cancelled"}
BY DEF TargetOf, RepairTargetOf, Target

LEMMA ShapeInit == Init => Shape
<1> SUFFICES ASSUME Init PROVE Shape
  OBVIOUS
<1>1. StripeShape /\ RowShape
  BY BoundsAssumption DEF Init, StripeShape, RowShape
<1>2. OrderShape
  <2>1. 0 \in 0..MaxTime
    BY BoundsAssumption
  <2> QED
    BY <2>1 DEF Init, OrderShape
<1>5. RepairShape
  BY DEF Init, RepairShape
<1>4. Delivered
  BY DEF Init, Delivered
<1>3. CallShape
  BY BoundsAssumption DEF Init, CallShape, Statuses, Steps
<1> QED
  BY <1>1, <1>2, <1>3, <1>4, <1>5 DEF Shape

\* What a call that ends leaves.
LEMMA ReturnShape ==
    ASSUME Shape, NEW p \in Invocations, Forget(p), since' \subseteq Invocations
    PROVE  /\ CallShape'
           /\ \A q \in Invocations : work'[q] \in {work[q], None}
BY BoundsAssumption DEF Shape, CallShape, Forget, Steps, Statuses

LEMMA GoShape ==
    ASSUME Shape, NEW p \in Invocations, NEW s \in Steps, Goto(p, s),
           since' \subseteq Invocations, UNCHANGED <<work, token, held, read, stamp>>,
           s \in {"idle", "load", "createIntent", "attach", "retrieve"} => work[p] = None,
           s \in {"claim", "reclaim", "mark"} => work[p] # None,
           s \in {"attach", "retrieve"} => held[p] # None
    PROVE  CallShape'
BY DEF Shape, CallShape, Goto

LEMMA DeliveredStays ==
    ASSUME Shape,
           \A q \in Invocations : work'[q] \in {work[q], None},
           \A e \in Events : /\ row[e] # None => row'[e] # None
                             /\ eventType[e] # "none" => eventType'[e] # "none"
    PROVE  Delivered'
BY DEF Shape, CallShape, Delivered

LEMMA ReserveShape == ASSUME Shape, NEW p \in Invocations, ReserveOrder(p) PROVE Shape'
<1>1. StripeShape' /\ RowShape' /\ RepairShape' /\ Delivered'
  BY DEF Shape, StripeShape, RowShape, RepairShape, Delivered, ReserveOrder, stripe, repairs
<1>2. OrderShape'
  BY DEF Shape, OrderShape, ReserveOrder, Statuses, Touch
<1>3. since' \subseteq Invocations
  BY DEF Shape, CallShape, ReserveOrder, Touch, Running
<1>4. CallShape'
  BY <1>3 DEF Shape, CallShape, ReserveOrder, Goto, Steps
<1> QED
  BY <1>1, <1>2, <1>4 DEF Shape

LEMMA LoadShape == ASSUME Shape, NEW p \in Invocations, LoadOrder(p) PROVE Shape'
<1>1. StripeShape' /\ RowShape' /\ RepairShape' /\ OrderShape'
  BY DEF Shape, StripeShape, RowShape, RepairShape, OrderShape, LoadOrder, order, repairs
<1>2. CallShape' /\ Delivered'
  <2>1. since' \subseteq Invocations /\ UNCHANGED <<row, eventType>>
    BY DEF Shape, CallShape, LoadOrder, Return
  <2>2. CASE Return(p)
    BY <2>1, <2>2, ReturnShape, DeliveredStays DEF Return
  <2>3. CASE Goto(p, "createIntent") /\ UNCHANGED <<since, work, token, held, read, stamp>>
    <3>1. work[p] = None /\ "createIntent" \in Steps
      BY DEF LoadOrder, Shape, CallShape, Steps
    <3> QED
      BY <2>1, <2>3, <3>1, GoShape, DeliveredStays
  <2> QED
    BY <2>2, <2>3 DEF LoadOrder
<1> QED
  BY <1>1, <1>2 DEF Shape

LEMMA CreateShape == ASSUME Shape, NEW p \in Invocations, CreateIntent(p) PROVE Shape'
<1>1. RowShape' /\ RepairShape' /\ OrderShape' /\ Delivered'
  BY DEF Shape, RowShape, RepairShape, OrderShape, Delivered, CreateIntent, order, repairs
<1>2. StripeShape'
  BY DEF Shape, StripeShape, CreateIntent
<1>3. PICK i \in Intents : held' = [held EXCEPT ![p] = i]
  BY DEF Shape, StripeShape, CreateIntent
<1>4. /\ pc' = [pc EXCEPT ![p] = "attach"] /\ "attach" \in Steps /\ work[p] = None
      /\ UNCHANGED <<since, work, token, read, stamp>>
  BY DEF Shape, CallShape, CreateIntent, Goto, Steps
<1>5. CallShape'
  BY <1>3, <1>4, NoneAssumption DEF Shape, CallShape
<1> QED
  BY <1>1, <1>2, <1>5 DEF Shape

LEMMA AttachShape == ASSUME Shape, NEW p \in Invocations, AttachIntent(p) PROVE Shape'
<1>1. RowShape'
  BY DEF Shape, RowShape, AttachIntent
<1>2. held[p] \in Intents /\ Forget(p) /\ since' \subseteq Invocations
      /\ UNCHANGED <<row, eventType>>
  BY DEF Shape, CallShape, AttachIntent, Touch, Return, Running
<1>3. StripeShape'
  BY <1>2 DEF Shape, StripeShape, AttachIntent
<1>4. OrderShape' /\ (orderIntent # None => orderIntent' # None)
  BY <1>2, NoneAssumption DEF Shape, OrderShape, AttachIntent, Statuses, Touch
<1>5. RepairShape'
  BY <1>4 DEF Shape, RepairShape, AttachIntent, repairs
<1>6. CallShape' /\ Delivered'
  BY <1>2, ReturnShape, DeliveredStays
<1> QED
  BY <1>1, <1>3, <1>4, <1>5, <1>6 DEF Shape

LEMMA ConfirmShape == ASSUME Shape, NEW p \in Invocations, BeginConfirm(p) PROVE Shape'
<1>1. StripeShape' /\ RowShape' /\ RepairShape' /\ OrderShape' /\ Delivered'
  BY DEF Shape, StripeShape, RowShape, RepairShape, OrderShape, Delivered, BeginConfirm, stripe,
     order, repairs
<1>2. orderIntent \in Intents
  BY DEF Shape, StripeShape, BeginConfirm
<1>3. CallShape'
  BY <1>2, NoneAssumption DEF Shape, CallShape, BeginConfirm, Goto, Steps
<1> QED
  BY <1>1, <1>3 DEF Shape

LEMMA RetrieveShape == ASSUME Shape, NEW p \in Invocations, RetrieveIntent(p) PROVE Shape'
<1>1. /\ StripeShape' /\ RowShape' /\ RepairShape' /\ OrderShape'
      /\ UNCHANGED <<row, eventType>> /\ since' \subseteq Invocations
  BY DEF Shape, StripeShape, RowShape, RepairShape, OrderShape, CallShape, RetrieveIntent, stripe,
     order, repairs, Return
<1>2. CASE Return(p)
  BY <1>1, <1>2, ReturnShape, DeliveredStays DEF Return, Shape
<1>3. CASE Goto(p, "read") /\ UNCHANGED <<since, work, token, held, read, stamp>>
  <2>1. "read" \in Steps
    BY DEF Steps, LeaseSteps
  <2> QED
    BY <1>1, <1>3, <2>1, GoShape, DeliveredStays DEF Shape
<1> QED
  BY <1>2, <1>3 DEF RetrieveIntent

\* The end of transitionOrder.
LEMMA ConcludeShape ==
    ASSUME Shape, NEW p \in Invocations, Conclude(p), UNCHANGED <<row, eventType>>
    PROVE  CallShape' /\ Delivered'
<1>1. CASE Return(p)
  <2>1. since' \subseteq Invocations
    BY <1>1 DEF Return, Shape, CallShape
  <2> QED
    BY <1>1, <2>1, ReturnShape, DeliveredStays DEF Return
<1>2. CASE /\ work[p] # None /\ Goto(p, "mark")
           /\ UNCHANGED <<since, work, token, held, read, stamp>>
  <2>1. "mark" \in Steps /\ since' \subseteq Invocations
    BY <1>2 DEF Steps, LeaseSteps, Shape, CallShape
  <2> QED
    BY <1>2, <2>1, GoShape, DeliveredStays
<1> QED
  BY <1>1, <1>2 DEF Conclude

LEMMA StampType == ASSUME Shape, NEW p \in Invocations PROVE Stamp(p) \in 0..MaxTime
<1>1. work[p] \in Events \cup {None}
  BY DEF Shape, CallShape
<1> QED
  BY <1>1, BoundsAssumption DEF Shape, StripeShape, Stamp

LEMMA ReadShape == ASSUME Shape, NEW p \in Invocations, ReadOrder(p) PROVE Shape'
<1>1. /\ StripeShape' /\ RowShape' /\ RepairShape' /\ OrderShape'
      /\ UNCHANGED <<row, eventType>>
  BY DEF Shape, StripeShape, RowShape, RepairShape, OrderShape, ReadOrder, stripe, order, repairs
<1>2. CASE Conclude(p)
  BY <1>1, <1>2, ConcludeShape DEF Shape
<1>3. CASE /\ read' = [read EXCEPT ![p] = status]
           /\ stamp' = [stamp EXCEPT ![p] = Stamp(p)]
           /\ Goto(p, "write")
           /\ UNCHANGED <<since, work, token, held>>
  <2>1. Stamp(p) \in 0..MaxTime /\ status \in Statuses \cup {"none"} /\ "write" \in Steps
    BY StampType DEF Shape, OrderShape, Steps, LeaseSteps
  <2>2. CallShape'
    BY <1>3, <2>1 DEF Shape, CallShape, Goto
  <2>3. Delivered'
    BY <1>1, <1>3 DEF Shape, Delivered
  <2> QED
    BY <1>1, <2>2, <2>3 DEF Shape
<1> QED
  BY <1>2, <1>3 DEF ReadOrder

LEMMA WriteShape == ASSUME Shape, NEW p \in Invocations, WriteOrder(p) PROVE Shape'
<1>1. StripeShape' /\ RowShape' /\ RepairShape' /\ UNCHANGED <<row, eventType>>
  BY DEF Shape, StripeShape, RowShape, RepairShape, WriteOrder, stripe, repairs
<1>2. OrderShape'
  BY Targets DEF Shape, OrderShape, CallShape, WriteOrder, Statuses
<1>3. CASE Conclude(p)
  BY <1>1, <1>2, <1>3, ConcludeShape DEF Shape
<1>4. CASE Forget(p) /\ since' = Running \ {p}
  <2>1. since' \subseteq Invocations
    BY <1>4 DEF Running
  <2> QED
    BY <1>1, <1>2, <1>4, <2>1, ReturnShape, DeliveredStays DEF Shape
<1>5. CASE /\ work[p] # None /\ since' = Running /\ Goto(p, "mark")
           /\ UNCHANGED <<work, token, held, read, stamp>>
  <2>1. since' \subseteq Invocations /\ "mark" \in Steps
    BY <1>5 DEF Running, Steps, LeaseSteps
  <2> QED
    BY <1>1, <1>2, <1>5, <2>1, GoShape, DeliveredStays DEF Shape
<1> QED
  BY <1>3, <1>4, <1>5 DEF WriteOrder

LEMMA DeliverShape ==
    ASSUME Shape, NEW p \in Invocations, NEW e \in Events, Deliver(p, e) PROVE Shape'
<1>1. StripeShape' /\ RepairShape' /\ OrderShape'
  BY DEF Shape, StripeShape, RepairShape, OrderShape, Deliver, stripe, order, repairs
<1>2. RowShape' /\ \A d \in Events : row[d] # None => row'[d] # None
  BY LeaseTypes, NoneAssumption DEF Shape, RowShape, Deliver
<1>3. row'[e] # None
  BY LeaseTypes, NoneAssumption DEF Shape, RowShape, Deliver
<1>4. FirstClaim.token \in Nat /\ {"read", "claim"} \subseteq Steps
  BY DEF FirstClaim, LeaseRow, Steps, LeaseSteps
<1>5. CallShape'
  BY <1>4, NoneAssumption DEF Shape, CallShape, Deliver, Goto
<1>6. /\ work' = [work EXCEPT ![p] = e] /\ work \in [Invocations -> Events \cup {None}]
      /\ eventType' = eventType /\ eventType[e] # "none"
  BY DEF Deliver, Shape, CallShape, stripe
<1>7. Delivered'
  BY <1>2, <1>3, <1>6 DEF Shape, Delivered
<1> QED
  BY <1>1, <1>2, <1>5, <1>7 DEF Shape

LEMMA InspectShape == ASSUME Shape, NEW p \in Invocations, InspectClaim(p) PROVE Shape'
<1>1. /\ RowShape' /\ RepairShape' /\ OrderShape' /\ UNCHANGED <<row, eventType>>
      /\ since' \subseteq Invocations
  BY DEF Shape, RowShape, RepairShape, OrderShape, CallShape, InspectClaim, order, repairs, Return
<1>2. work[p] \in Events
  BY DEF Shape, CallShape, InspectClaim
<1>3. StripeShape'
  BY <1>2 DEF Shape, StripeShape, InspectClaim
<1>4. CASE Return(p)
  BY <1>1, <1>3, <1>4, ReturnShape, DeliveredStays DEF Return, Shape
<1>5. CASE Goto(p, "reclaim") /\ UNCHANGED <<since, work, token, held, read, stamp>>
  <2>1. "reclaim" \in Steps /\ work[p] # None
    BY <1>2, NoneAssumption DEF Steps
  <2> QED
    BY <1>1, <1>3, <1>5, <2>1, GoShape, DeliveredStays DEF Shape
<1> QED
  BY <1>4, <1>5 DEF InspectClaim

\* A write of the row of the event of an invocation.
LEMMA WorkRow ==
    ASSUME Shape, NEW p \in Invocations, work[p] # None
    PROVE  work[p] \in Events /\ row[work[p]] \in Lease
BY DEF Shape, CallShape, RowShape, Delivered

LEMMA RowWrite ==
    ASSUME Shape, NEW e \in Events, NEW r \in Lease, row' = [row EXCEPT ![e] = r]
    PROVE  RowShape' /\ \A d \in Events : row[d] # None => row'[d] # None
BY NoneAssumption DEF Shape, RowShape

LEMMA ReclaimShape == ASSUME Shape, NEW p \in Invocations, Reclaim(p) PROVE Shape'
<1>1. RepairShape' /\ OrderShape' /\ eventType' = eventType /\ since' \subseteq Invocations
  BY DEF Shape, RepairShape, OrderShape, CallShape, Reclaim, order, repairs, Return
<1>2. work[p] # None
  BY DEF Shape, CallShape, Reclaim
<1>3. StripeShape'
  BY <1>2, WorkRow DEF Shape, StripeShape, Reclaim
<1>4. CASE Return(p) /\ UNCHANGED row
  BY <1>1, <1>3, <1>4, ReturnShape, DeliveredStays DEF Return, Shape, RowShape
<1>5. CASE /\ row' = [row EXCEPT ![work[p]] = NextClaim(@)]
           /\ token' = [token EXCEPT ![p] = NextClaim(row[work[p]]).token]
           /\ Goto(p, "read")
           /\ UNCHANGED <<since, work, held, read, stamp>>
  <2> DEFINE r == NextClaim(row[work[p]])
  <2>1. r \in Lease /\ row' = [row EXCEPT ![work[p]] = r]
    BY <1>2, <1>5, WorkRow, LeaseTypes
  <2>2. r.token \in Nat /\ token' = [token EXCEPT ![p] = r.token] /\ "read" \in Steps
    BY <1>5, <2>1 DEF Lease, Steps, LeaseSteps
  <2> HIDE DEF r
  <2>3. RowShape' /\ \A d \in Events : row[d] # None => row'[d] # None
    BY <1>2, <2>1, WorkRow, RowWrite
  <2>4. CallShape'
    BY <1>5, <2>2 DEF Shape, CallShape, Goto
  <2>5. \A q \in Invocations : work'[q] = work[q]
    BY <1>5
  <2>6. Delivered'
    BY <1>1, <2>3, <2>5, DeliveredStays
  <2> QED
    BY <1>1, <1>3, <2>3, <2>4, <2>6 DEF Shape
<1> QED
  BY <1>4, <1>5 DEF Reclaim

LEMMA MarkShape == ASSUME Shape, NEW p \in Invocations, Mark(p) PROVE Shape'
<1>1. RepairShape' /\ OrderShape' /\ eventType' = eventType /\ since' \subseteq Invocations
  BY DEF Shape, RepairShape, OrderShape, CallShape, Mark, order, repairs, Return
<1>2. work[p] # None
  BY DEF Shape, CallShape, Mark
<1>3. StripeShape'
  BY <1>2, WorkRow DEF Shape, StripeShape, Mark
<1>4. RowShape' /\ \A d \in Events : row[d] # None => row'[d] # None
  <2>1. CASE UNCHANGED row
    BY <2>1 DEF Shape, RowShape
  <2>2. CASE row' = [row EXCEPT ![work[p]] = Completed(@)]
    <3>1. Completed(row[work[p]]) \in Lease /\ row' = [row EXCEPT ![work[p]] = Completed(row[work[p]])]
      BY <1>2, <2>2, WorkRow, LeaseTypes
    <3> QED
      BY <1>2, <3>1, WorkRow, RowWrite
  <2> QED
    BY <2>1, <2>2 DEF Mark
<1>5. CallShape' /\ Delivered'
  BY <1>1, <1>4, ReturnShape, DeliveredStays DEF Mark, Return
<1> QED
  BY <1>1, <1>3, <1>4, <1>5 DEF Shape

LEMMA FailShape == ASSUME Shape, NEW p \in Invocations, FailEvent(p) PROVE Shape'
<1>1. RepairShape' /\ OrderShape' /\ eventType' = eventType /\ since' \subseteq Invocations
  BY DEF Shape, RepairShape, OrderShape, CallShape, FailEvent, order, repairs, stripe, Return
<1>2. work[p] # None /\ StripeShape'
  BY BoundsAssumption DEF Shape, StripeShape, FailEvent, stripe
<1>3. RowShape' /\ \A d \in Events : row[d] # None => row'[d] # None
  <2> DEFINE r == IF Holds(row[work[p]], token[p]) THEN Failed(row[work[p]]) ELSE row[work[p]]
  <2>1. r \in Lease /\ row' = [row EXCEPT ![work[p]] = r]
    BY <1>2, WorkRow, LeaseTypes DEF FailEvent
  <2> HIDE DEF r
  <2> QED
    BY <1>2, <2>1, WorkRow, RowWrite
<1>4. CallShape' /\ Delivered'
  BY <1>1, <1>3, ReturnShape, DeliveredStays DEF FailEvent, Return
<1> QED
  BY <1>1, <1>2, <1>3, <1>4 DEF Shape

LEMMA CrashShape == ASSUME Shape, NEW p \in Invocations, Crash(p) PROVE Shape'
<1>1. /\ RepairShape' /\ OrderShape' /\ RowShape' /\ UNCHANGED <<row, eventType>>
      /\ since' \subseteq Invocations
  BY DEF Shape, RepairShape, OrderShape, RowShape, CallShape, Crash, order, repairs, stripe, Return
<1>2. StripeShape'
  BY BoundsAssumption DEF Shape, StripeShape, Crash, stripe
<1>3. CallShape' /\ Delivered'
  BY <1>1, ReturnShape, DeliveredStays DEF Crash, Return
<1> QED
  BY <1>1, <1>2, <1>3 DEF Shape

\* Time, and the leases it ends.
LEMMA TimeShape == ASSUME Shape, Tick \/ Age \/ KeyExpires PROVE Shape'
<1>1. StripeShape'
  BY BoundsAssumption DEF Shape, StripeShape, Tick, Age, KeyExpires, stripe
<1>2. OrderShape'
  BY DEF Shape, OrderShape, Tick, Age, KeyExpires, order
<1>3. RowShape' /\ RepairShape' /\ Delivered'
  BY DEF Shape, RowShape, RepairShape, Delivered, Tick, Age, KeyExpires, stripe, order, calls, repairs
<1>4. CallShape'
  BY DEF Shape, CallShape, Tick, Age, KeyExpires, calls
<1> QED
  BY <1>1, <1>2, <1>3, <1>4 DEF Shape

LEMMA LeaseShape ==
    ASSUME Shape, NEW e \in Events, LeaseExpires(e) \/ AbandonLease(e) PROVE Shape'
<1>1. StripeShape' /\ OrderShape' /\ RepairShape' /\ CallShape' /\ UNCHANGED <<work, eventType>>
  BY DEF Shape, StripeShape, OrderShape, RepairShape, CallShape, LeaseExpires, AbandonLease, stripe,
     order, calls, repairs
<1>2. row[e] \in Lease
  BY DEF Shape, RowShape, LeaseExpires, AbandonLease
<1>3. PICK r \in Lease : row' = [row EXCEPT ![e] = r]
  BY <1>2, LeaseTypes DEF LeaseExpires, AbandonLease
<1>4. RowShape' /\ \A d \in Events : row[d] # None => row'[d] # None
  BY <1>3, RowWrite
<1>5. Delivered'
  BY <1>1, <1>4, DeliveredStays
<1> QED
  BY <1>1, <1>4, <1>5 DEF Shape

LEMMA CustomerShape ==
    ASSUME Shape, NEW i \in Intents,
           BeginsProcessing(i) \/ Succeeds(i) \/ PayFails(i) \/ Cancels(i)
    PROVE  Shape'
<1>1. /\ UNCHANGED <<now, failures, keyIntent, handed, acked, order, row, calls, repairs>>
      /\ \E to \in {"open", "processing", "succeeded", "canceled"} : intent' = [intent EXCEPT ![i] = to]
      /\ \/ UNCHANGED <<eventType, eventCreated>>
         \/ \E type \in {"succeeded", "failed", "canceled"} : Emits(type)
  BY DEF BeginsProcessing, Succeeds, PayFails, Cancels, Becomes
<1>2. /\ eventType' \in [Events -> {"none", "succeeded", "failed", "canceled"}]
      /\ eventCreated' \in [Events -> 0..MaxTime]
      /\ \A e \in Events : eventType[e] # "none" => eventType'[e] # "none"
  BY <1>1, BoundsAssumption DEF Emits, Shape, StripeShape
<1>3. StripeShape'
  BY <1>1, <1>2 DEF Shape, StripeShape
<1>4. OrderShape' /\ RowShape' /\ RepairShape' /\ CallShape'
  BY <1>1 DEF Shape, OrderShape, RowShape, RepairShape, CallShape, order, calls, repairs
<1>5. Delivered'
  BY <1>1, <1>2, DeliveredStays DEF calls
<1> QED
  BY <1>3, <1>4, <1>5 DEF Shape

LEMMA ReconcileShape == ASSUME Shape, Reconcile \/ RepairFails PROVE Shape'
<1>0. /\ RowShape' /\ Delivered' /\ UNCHANGED <<pc, work, token, held, read, stamp>>
      /\ since' \subseteq Invocations
  BY DEF Shape, RowShape, Delivered, CallShape, Reconcile, FailUnattached, ScanOrder, RepairRetrieve,
     RepairWrite, RepairFails, stripe, calls, Touch, Running
<1>1. CallShape'
  BY <1>0 DEF Shape, CallShape
<1>2. StripeShape'
  BY BoundsAssumption DEF Shape, StripeShape, Reconcile, FailUnattached, ScanOrder, RepairRetrieve,
     RepairWrite, RepairFails, stripe
<1>3. OrderShape' /\ orderIntent' = orderIntent
  <2>1. CASE FailUnattached
    BY <2>1 DEF Shape, OrderShape, FailUnattached, Statuses, Touch
  <2>2. CASE RepairWrite
    <3>1. now \in 0..MaxTime /\ repairTarget \in Statuses \cup {"none"}
      BY BoundsAssumption DEF Shape, StripeShape, RepairShape
    <3> QED
      BY <2>2, <3>1 DEF Shape, OrderShape, RepairWrite, Touch
  <2>3. CASE ScanOrder \/ RepairRetrieve \/ RepairFails
    BY <2>3 DEF Shape, OrderShape, ScanOrder, RepairRetrieve, RepairFails, order
  <2> QED
    BY <2>1, <2>2, <2>3 DEF Reconcile
<1>4. RepairShape'
  <2>1. CASE FailUnattached
    BY <1>3, <2>1 DEF Shape, RepairShape, FailUnattached, repairs
  <2>2. CASE ScanOrder
    BY <1>3, <2>2 DEF Shape, RepairShape, ScanOrder, Statuses
  <2>3. CASE RepairRetrieve
    BY <1>3, <2>3, Targets DEF Shape, RepairShape, RepairRetrieve, RepairDone, Statuses
  <2>4. CASE RepairWrite \/ RepairFails
    BY <1>3, <2>4 DEF Shape, RepairShape, RepairWrite, RepairFails, RepairDone
  <2> QED
    BY <2>1, <2>2, <2>3, <2>4 DEF Reconcile
<1> QED
  BY <1>0, <1>1, <1>2, <1>3, <1>4 DEF Shape

LEMMA ShapeNext == Shape /\ [Next]_vars => Shape'
<1> SUFFICES ASSUME Shape, [Next]_vars PROVE Shape'
  OBVIOUS
<1>1. CASE UNCHANGED vars
  BY <1>1 DEF vars, Shape, StripeShape, RowShape, OrderShape, CallShape, Delivered, RepairShape
<1>2. ASSUME NEW p \in Invocations, Begin(p) \/ Continue(p) \/ FailEvent(p) \/ Crash(p) PROVE Shape'
  BY <1>2, ReserveShape, ConfirmShape, DeliverShape, LoadShape, CreateShape, AttachShape,
     RetrieveShape, ReadShape, WriteShape, InspectShape, ReclaimShape, MarkShape, FailShape,
     CrashShape DEF Begin, Continue
<1> QED
  BY <1>1, <1>2, TimeShape, LeaseShape, CustomerShape, ReconcileShape DEF Next

\* The order, its lease rows, Stripe's intents and every invocation keep their
\* types, for any constants.
THEOREM TypeCorrect == Spec => []TypeOK
<1>1. Spec => []Shape
  BY ShapeInit, ShapeNext, PTL DEF Spec
<1>2. Shape => TypeOK
  BY DEF Shape, StripeShape, RowShape, OrderShape, CallShape, RepairShape, TypeOK
<1> QED
  BY <1>1, <1>2, PTL
-----------------------------------------------------------------------------
(* Leases *)

\* Whoever works on an event holds its lease, which has not expired, alone.
Leased ==
    \A p \in Invocations, e \in Events : Working(p, e) =>
        row[e] # None /\ Holds(row[e], token[p]) /\ ~row[e].expired

Alone ==
    \A p, q \in Invocations, e \in Events : Working(p, e) /\ Working(q, e) => p = q

Leases == Shape /\ Leased /\ Alone

\* Nobody begins to work, and whoever goes on finds the row as it was.
LEMMA KeepLeases ==
    ASSUME Leases,
           \A p \in Invocations, e \in Events : Working(p, e)' =>
               Working(p, e) /\ token'[p] = token[p] /\ row'[e] = row[e]
    PROVE  Leased' /\ Alone'
BY DEF Leases, Leased, Alone

\* An invocation takes an event that nobody works on.
LEMMA TakeLease ==
    ASSUME Leases, NEW p \in Invocations, NEW e \in Events, NEW r \in Lease,
           row' = [row EXCEPT ![e] = r], r.status = "processing", ~r.expired,
           token' = [token EXCEPT ![p] = r.token],
           \A q \in Invocations : ~Working(q, e),
           \A q \in Invocations, d \in Events :
               Working(q, d)' => Working(q, d) \/ (q = p /\ d = e),
           \A d \in Events : d # e => ~Working(p, d)'
    PROVE  Leased' /\ Alone'
<1>1. /\ row \in [Events -> Lease \cup {None}] /\ r # None
      /\ token \in [Invocations -> Nat]
  BY NoneAssumption DEF Leases, Shape, RowShape, CallShape
<1>2. Leased'
  <2> SUFFICES ASSUME NEW q \in Invocations, NEW d \in Events, Working(q, d)'
               PROVE  row'[d] # None /\ Holds(row'[d], token'[q]) /\ ~row'[d].expired
    BY DEF Leased
  <2>1. CASE q = p /\ d = e
    BY <1>1, <2>1 DEF Holds
  <2>2. CASE ~(q = p /\ d = e)
    <3>1. Working(q, d) /\ d # e /\ q # p
      BY <2>2
    <3> QED
      BY <1>1, <3>1 DEF Leases, Leased
  <2> QED
    BY <2>1, <2>2
<1>3. Alone'
  BY DEF Leases, Alone
<1> QED
  BY <1>2, <1>3

LEMMA CallLeases ==
    ASSUME Leases, NEW p \in Invocations, Begin(p) \/ Continue(p) \/ FailEvent(p) \/ Crash(p)
    PROVE  Leased' /\ Alone'
<1>0. /\ Shape /\ pc \in [Invocations -> Steps] /\ work \in [Invocations -> Events \cup {None}]
      /\ token \in [Invocations -> Nat] /\ row \in [Events -> Lease \cup {None}]
  BY DEF Leases, Shape, CallShape, RowShape
\* A call that returns works on nothing.
<1>r. ASSUME Forget(p)
      PROVE  \A q \in Invocations, e \in Events : Working(q, e)' =>
                 q # p /\ Working(q, e) /\ token'[q] = token[q]
  BY <1>0, <1>r DEF Forget, Working, LeaseSteps
\* A call that goes on works on what it did.
<1>g. ASSUME NEW s, Goto(p, s), UNCHANGED <<work, token>>, s \in LeaseSteps => pc[p] \in LeaseSteps \/ work[p] = None
      PROVE  \A q \in Invocations, e \in Events : Working(q, e)' =>
                 Working(q, e) /\ token'[q] = token[q]
  BY <1>0, <1>g, NoneAssumption DEF Goto, Working
<1>1. CASE UNCHANGED row /\ Forget(p)
  BY <1>1, <1>r, KeepLeases
<1>2. CASE ReserveOrder(p) \/ BeginConfirm(p) \/ CreateIntent(p)
  <2>1. /\ UNCHANGED <<row, work, token>> 
        /\ \E s \in {"load", "createIntent", "retrieve", "attach"} : Goto(p, s)
    BY <1>2 DEF ReserveOrder, BeginConfirm, CreateIntent
  <2> QED
    BY <1>g, <2>1, KeepLeases DEF LeaseSteps
<1>3. CASE LoadOrder(p) \/ AttachIntent(p) \/ RetrieveIntent(p)
  <2>1. UNCHANGED row
    BY <1>3 DEF LoadOrder, AttachIntent, RetrieveIntent
  <2>2. \/ Forget(p)
        \/ Goto(p, "createIntent") /\ UNCHANGED <<work, token>>
        \/ pc[p] = "retrieve" /\ Goto(p, "read") /\ UNCHANGED <<work, token>>
    BY <1>3 DEF LoadOrder, AttachIntent, RetrieveIntent, Return
  <2>3. pc[p] = "retrieve" => work[p] = None
    BY <1>0 DEF Shape, CallShape
  <2> QED
    BY <1>1, <1>g, <2>1, <2>2, <2>3, KeepLeases DEF LeaseSteps
<1>4. CASE ReadOrder(p) \/ WriteOrder(p)
  <2>1. UNCHANGED row /\ pc[p] \in LeaseSteps
    BY <1>4 DEF ReadOrder, WriteOrder, LeaseSteps
  <2>2. Forget(p) \/ \E s \in {"write", "mark"} : Goto(p, s) /\ UNCHANGED <<work, token>>
    BY <1>4 DEF ReadOrder, WriteOrder, Conclude, Return
  <2> QED
    BY <1>1, <1>g, <2>1, <2>2, KeepLeases
<1>5. ASSUME NEW e \in Events, Deliver(p, e) PROVE Leased' /\ Alone'
  <2>1. CASE row[e] # None
    <3>1. /\ UNCHANGED <<row, token>> /\ Goto(p, "claim")
          /\ work' = [work EXCEPT ![p] = e]
      BY <1>5, <2>1 DEF Deliver
    <3>2. \A q \in Invocations, d \in Events : Working(q, d)' => Working(q, d)
      BY <1>0, <3>1 DEF Goto, Working, LeaseSteps
    <3> QED
      BY <3>1, <3>2, KeepLeases
  <2>2. CASE row[e] = None
    <3>1. /\ row' = [row EXCEPT ![e] = FirstClaim] /\ Goto(p, "read")
          /\ token' = [token EXCEPT ![p] = FirstClaim.token]
          /\ work' = [work EXCEPT ![p] = e] /\ pc[p] = "idle"
      BY <1>5, <2>2 DEF Deliver
    <3>2. FirstClaim \in Lease /\ FirstClaim.status = "processing" /\ ~FirstClaim.expired
      BY LeaseTypes DEF FirstClaim, LeaseRow
    <3>3. /\ \A q \in Invocations, d \in Events : Working(q, d)' => Working(q, d) \/ (q = p /\ d = e)
          /\ \A d \in Events : d # e => ~Working(p, d)'
      BY <1>0, <3>1 DEF Goto, Working, LeaseSteps
    <3>4. \A q \in Invocations : ~Working(q, e)
      BY <2>2 DEF Leases, Leased
    <3> HIDE DEF FirstClaim
    <3> QED
      BY <3>1, <3>2, <3>3, <3>4, TakeLease
  <2> QED
    BY <2>1, <2>2
<1>6. CASE InspectClaim(p)
  <2>1. UNCHANGED row
    BY <1>6 DEF InspectClaim
  <2>2. Forget(p) \/ (Goto(p, "reclaim") /\ UNCHANGED <<work, token>>)
    BY <1>6 DEF InspectClaim, Return
  <2> QED
    BY <1>1, <1>g, <2>1, <2>2, KeepLeases DEF LeaseSteps
<1>7. CASE Reclaim(p)
  <2> DEFINE e == work[p]
             r == NextClaim(row[e])
  <2>1. e \in Events /\ row[e] \in Lease
    BY <1>0, <1>7, WorkRow DEF Reclaim, Shape, CallShape
  <2>2. CASE UNCHANGED row /\ Return(p)
    BY <1>1, <2>2 DEF Return
  <2>3. CASE /\ Reclaimable(row[e])
             /\ row' = [row EXCEPT ![e] = NextClaim(@)]
             /\ token' = [token EXCEPT ![p] = r.token]
             /\ Goto(p, "read")
             /\ UNCHANGED work
    <3>1. r \in Lease /\ r.status = "processing" /\ ~r.expired /\ row' = [row EXCEPT ![e] = r]
      BY <1>0, <2>1, <2>3, LeaseTypes DEF NextClaim, LeaseRow
    <3>2. \A q \in Invocations : ~Working(q, e)
      BY <2>1, <2>3 DEF Leases, Leased, Reclaimable, Holds
    <3>3. /\ \A q \in Invocations, d \in Events : Working(q, d)' => Working(q, d) \/ (q = p /\ d = e)
          /\ \A d \in Events : d # e => ~Working(p, d)'
      BY <1>0, <2>3 DEF Goto, Working, LeaseSteps
    <3> HIDE DEF r, e
    <3> QED
      BY <2>1, <2>3, <3>1, <3>2, <3>3, TakeLease
  <2> QED
    BY <1>7, <2>2, <2>3 DEF Reclaim
<1>8. CASE Mark(p) \/ FailEvent(p)
  <2> DEFINE e == work[p]
  <2>1. Forget(p) /\ pc[p] \in LeaseSteps /\ e \in Events
    BY <1>0, <1>8, WorkRow DEF Mark, FailEvent, Return, LeaseSteps, Shape, CallShape
  <2>2. \A d \in Events : d # e => row'[d] = row[d]
    BY <1>0, <1>8 DEF Mark, FailEvent
  <2>3. \A q \in Invocations : Working(q, e) => q = p
    BY <2>1 DEF Working, Leases, Alone
  <2>4. \A q \in Invocations, d \in Events : Working(q, d)' =>
            Working(q, d) /\ token'[q] = token[q] /\ d # e
    BY <1>r, <2>1, <2>3
  <2> QED
    BY <2>2, <2>4, KeepLeases
<1>9. CASE Crash(p)
  BY <1>1, <1>9 DEF Crash, Return
<1> QED
  BY <1>2, <1>3, <1>4, <1>5, <1>6, <1>7, <1>8, <1>9 DEF Begin, Continue

LEMMA LeasesNext == Leases /\ [Next]_vars => Leases'
<1> SUFFICES ASSUME Leases, [Next]_vars PROVE Leased' /\ Alone'
  BY ShapeNext DEF Leases
<1>0. row \in [Events -> Lease \cup {None}]
  BY DEF Leases, Shape, RowShape
<1>1. CASE UNCHANGED <<pc, work, token, row>>
  BY <1>1, KeepLeases DEF Working
<1>2. ASSUME NEW e \in Events, LeaseExpires(e) \/ AbandonLease(e) PROVE Leased' /\ Alone'
  <2>1. /\ UNCHANGED <<pc, work, token>>
        /\ \A d \in Events : d # e => row'[d] = row[d]
    BY <1>0, <1>2 DEF LeaseExpires, AbandonLease, calls
  <2>2. \A q \in Invocations : ~Working(q, e)
    BY <1>2 DEF LeaseExpires, AbandonLease, Leases, Leased, Working, Holds
  <2>3. \A q \in Invocations, d \in Events : Working(q, d)' => Working(q, d) /\ d # e
    BY <2>1, <2>2 DEF Working
  <2> QED
    BY <2>1, <2>3, KeepLeases
<1>3. CASE \/ \E i \in Intents : BeginsProcessing(i) \/ Succeeds(i) \/ PayFails(i) \/ Cancels(i)
           \/ Tick \/ Age \/ KeyExpires \/ Reconcile \/ RepairFails
  <2>1. UNCHANGED <<pc, work, token, row>>
    BY <1>3 DEF BeginsProcessing, Succeeds, PayFails, Cancels, Becomes, Tick, Age, KeyExpires,
       Reconcile, FailUnattached, ScanOrder, RepairRetrieve, RepairWrite, RepairFails, calls
  <2> QED
    BY <1>1, <2>1
<1> QED
  BY <1>1, <1>2, <1>3, CallLeases DEF Next, vars

\* An invocation that completes or fails an event holds its lease still, for
\* any number of deliveries and failures.
THEOREM HolderWorks == Spec => []WorkerHoldsLease
<1>1. Init => Leased /\ Alone
  BY DEF Init, Leased, Alone, Working, LeaseSteps
<1>2. Leases => WorkerHoldsLease
  BY DEF Leases, Leased, WorkerHoldsLease
<1> QED
  BY <1>1, <1>2, ShapeInit, LeasesNext, PTL DEF Spec, Leases
-----------------------------------------------------------------------------
(* Payments *)

Succeeded == \E i \in Intents : intent[i] = "succeeded"

\* Whoever is about to write "paid" has it from Stripe.
Told ==
    /\ status = "paid" => Succeeded
    /\ \A e \in Events : eventType[e] = "succeeded" => Succeeded
    /\ \A p \in Invocations : pc[p] \in {"read", "write"} /\ work[p] = None => Succeeded
    /\ repair = "write" /\ repairTarget = "paid" => Succeeded

LEMMA SucceededStays == Shape /\ Succeeded /\ [Next]_vars => Succeeded'
<1> SUFFICES ASSUME Shape, NEW i \in Intents, intent[i] = "succeeded", [Next]_vars
             PROVE  intent'[i] = "succeeded"
  BY DEF Succeeded
<1>0. intent \in [Intents -> {"none", "open", "processing", "succeeded", "canceled"}]
  BY DEF Shape, StripeShape
<1>1. ASSUME NEW p \in Invocations, Begin(p) \/ Continue(p) \/ FailEvent(p) \/ Crash(p)
      PROVE  intent'[i] = "succeeded"
  BY <1>0, <1>1 DEF Begin, Continue, ReserveOrder, BeginConfirm, Deliver, LoadOrder, CreateIntent,
     AttachIntent, RetrieveIntent, ReadOrder, WriteOrder, InspectClaim, Reclaim, Mark, FailEvent,
     Crash, stripe
<1>2. ASSUME NEW j \in Intents, BeginsProcessing(j) \/ Succeeds(j) \/ PayFails(j) \/ Cancels(j)
      PROVE  intent'[i] = "succeeded"
  BY <1>0, <1>2 DEF BeginsProcessing, Succeeds, PayFails, Cancels, Becomes
<1>3. CASE \/ \E e \in Events : LeaseExpires(e) \/ AbandonLease(e)
           \/ Tick \/ Age \/ KeyExpires \/ Reconcile \/ RepairFails \/ UNCHANGED vars
  BY <1>3 DEF LeaseExpires, AbandonLease, Tick, Age, KeyExpires, Reconcile, FailUnattached, ScanOrder,
     RepairRetrieve, RepairWrite, RepairFails, stripe, vars
<1> QED
  BY <1>1, <1>2, <1>3 DEF Next

LEMMA TargetTold ==
    ASSUME Shape, Told, NEW p \in Invocations, pc[p] = "write", Target(p) = "paid"
    PROVE  Succeeded
<1>1. work[p] \in Events \cup {None}
  BY DEF Shape, CallShape
<1> QED
  BY <1>1 DEF Told, Target, TargetOf

LEMMA ToldNext == Shape /\ Told /\ [Next]_vars => Told'
<1> SUFFICES ASSUME Shape, Told, [Next]_vars, ~Succeeded PROVE Told'
  BY SucceededStays DEF Told
<1>0. /\ pc \in [Invocations -> Steps] /\ work \in [Invocations -> Events \cup {None}]
      /\ \A p \in Invocations : pc[p] \in {"retrieve", "attach"} => held[p] \in Intents
      /\ orderIntent \in Intents \cup {None}
  BY DEF Shape, CallShape, OrderShape
<1>t. /\ status # "paid" /\ \A e \in Events : eventType[e] # "succeeded"
      /\ \A p \in Invocations : pc[p] \in {"read", "write"} => work[p] # None
      /\ ~(repair = "write" /\ repairTarget = "paid")
  BY DEF Told
<1>1. ASSUME NEW p \in Invocations, Begin(p) \/ Continue(p) \/ FailEvent(p) \/ Crash(p)
      PROVE  Told'
  <2>1. UNCHANGED <<eventType, repair, repairTarget>>
    BY <1>1 DEF Begin, Continue, ReserveOrder, BeginConfirm, Deliver, LoadOrder, CreateIntent,
       AttachIntent, RetrieveIntent, ReadOrder, WriteOrder, InspectClaim, Reclaim, Mark, FailEvent,
       Crash, stripe, repairs
  <2>2. status' # "paid"
    <3>1. CASE WriteOrder(p)
      BY <1>t, <3>1, TargetTold DEF WriteOrder
    <3>2. CASE ~WriteOrder(p)
      BY <1>1, <1>t, <3>2 DEF Begin, Continue, ReserveOrder, BeginConfirm, Deliver, LoadOrder,
         CreateIntent, AttachIntent, RetrieveIntent, ReadOrder, InspectClaim, Reclaim, Mark, FailEvent,
         Crash, order
    <3> QED
      BY <3>1, <3>2
  <2>3. ASSUME NEW q \in Invocations, pc'[q] \in {"read", "write"} PROVE work'[q] # None
    <3>1. CASE Forget(p)
      BY <1>0, <1>t, <2>3, <3>1 DEF Forget
    <3>2. CASE RetrieveIntent(p) \/ LoadOrder(p) \/ AttachIntent(p) \/ CreateIntent(p) \/ ReserveOrder(p)
               \/ BeginConfirm(p)
      <4>1. CASE Goto(p, "read") /\ intent[held[p]] = "succeeded" /\ pc[p] = "retrieve"
        BY <1>0, <4>1 DEF Succeeded
      <4>2. CASE (\E s \in {"createIntent", "attach", "load", "retrieve"} : Goto(p, s)) /\ UNCHANGED work
        BY <1>0, <1>t, <2>3, <4>2 DEF Goto
      <4> QED
        BY <3>1, <3>2, <4>1, <4>2 DEF RetrieveIntent, LoadOrder, AttachIntent, CreateIntent, ReserveOrder,
           BeginConfirm, Return
    <3>3. CASE ReadOrder(p) \/ WriteOrder(p)
      <4>1. CASE (\E s \in {"write", "mark"} : Goto(p, s)) /\ UNCHANGED work
        BY <1>0, <1>t, <2>3, <3>3, <4>1 DEF Goto, ReadOrder, WriteOrder
      <4> QED
        BY <3>1, <3>3, <4>1 DEF ReadOrder, WriteOrder, Conclude, Return
    <3>4. CASE InspectClaim(p) \/ Reclaim(p)
      <4>1. work[p] # None
        BY <3>4 DEF InspectClaim, Reclaim, Shape, CallShape
      <4>2. CASE (\E s \in {"reclaim", "read"} : Goto(p, s)) /\ UNCHANGED work
        BY <1>0, <1>t, <2>3, <4>1, <4>2 DEF Goto
      <4> QED
        BY <3>1, <3>4, <4>2 DEF InspectClaim, Reclaim, Return
    <3>5. CASE \E e \in Events : Deliver(p, e)
      <4>1. PICK e \in Events : work' = [work EXCEPT ![p] = e] /\ \E s : Goto(p, s)
        BY <3>5 DEF Deliver
      <4> QED
        BY <1>0, <1>t, <2>3, <4>1, NoneAssumption DEF Goto
    <3> QED
      BY <1>1, <3>1, <3>2, <3>3, <3>4, <3>5 DEF Begin, Continue, Mark, FailEvent, Crash, Return
  <2> QED
    BY <1>t, <2>1, <2>2, <2>3 DEF Told
<1>2. ASSUME NEW i \in Intents, BeginsProcessing(i) \/ Succeeds(i) \/ PayFails(i) \/ Cancels(i)
      PROVE  Told'
  <2>1. UNCHANGED <<status, pc, work, repair, repairTarget>>
    BY <1>2 DEF BeginsProcessing, Succeeds, PayFails, Cancels, Becomes, order, calls, repairs
  <2>2. CASE Succeeds(i)
    <3>1. intent'[i] = "succeeded"
      BY <2>2 DEF Succeeds, Becomes, Shape, StripeShape
    <3> QED
      BY <3>1 DEF Told, Succeeded
  <2>3. CASE ~Succeeds(i)
    <3>1. \A e \in Events : eventType'[e] # "succeeded"
      BY <1>2, <1>t, <2>3 DEF BeginsProcessing, PayFails, Cancels, Emits, Shape, StripeShape
    <3> QED
      BY <1>t, <2>1, <3>1 DEF Told
  <2> QED
    BY <2>2, <2>3
<1>3. CASE RepairRetrieve
  <2>1. UNCHANGED <<status, eventType, pc, work>>
    BY <1>3 DEF RepairRetrieve, stripe, order, calls
  <2>2. intent[orderIntent] # "succeeded"
    BY <1>0, <1>3 DEF RepairRetrieve, Shape, RepairShape, Succeeded
  <2>3. ~(repair' = "write" /\ repairTarget' = "paid")
    BY <1>3, <2>2 DEF RepairRetrieve, RepairDone, RepairTargetOf
  <2> QED
    BY <1>t, <2>1, <2>3 DEF Told
<1>4. CASE RepairWrite
  BY <1>4, <1>t DEF RepairWrite, RepairDone, Told, stripe
<1>5. CASE FailUnattached
  BY <1>5, <1>t DEF FailUnattached, Told, stripe, repairs
<1>6. CASE ScanOrder \/ RepairFails
  BY <1>6, <1>t DEF ScanOrder, RepairFails, RepairDone, Told, stripe, order, calls
<1>7. CASE \/ \E e \in Events : LeaseExpires(e) \/ AbandonLease(e)
           \/ Tick \/ Age \/ KeyExpires \/ UNCHANGED vars
  <2>1. UNCHANGED <<status, eventType, pc, work, repair, repairTarget>>
    BY <1>7 DEF LeaseExpires, AbandonLease, Tick, Age, KeyExpires, vars, stripe, order, calls, repairs
  <2> QED
    BY <1>t, <2>1 DEF Told
<1> QED
  BY <1>1, <1>2, <1>3, <1>4, <1>5, <1>6, <1>7 DEF Next, Reconcile

\* Whatever order events, confirmations and the reconciler come in, a paid order
\* has a payment that succeeded.
THEOREM PaidByPayment == Spec => []PaidIsReal
<1>1. Init => Told
  BY DEF Init, Told
<1>2. Told => PaidIsReal
  BY DEF Told, PaidIsReal, Succeeded
<1> QED
  BY <1>1, <1>2, ShapeInit, ShapeNext, ToldNext, PTL DEF Spec
-----------------------------------------------------------------------------
(* The refinement *)

\* No time stamp is of the future.
Dated ==
    /\ watermark <= now
    /\ \A e \in Events : eventCreated[e] <= now
    /\ \A p \in Invocations : stamp[p] <= now

\* What is about to be written is a change the order admitted when it was read.
Judged == \A p \in Invocations : pc[p] = "write" => Allowed(read[p], Target(p))

\* An order has one intent: whoever may attach one has it from the key.
Attached ==
    /\ status = "none" => orderIntent = None
    /\ \A p \in Invocations :
          /\ pc[p] \in {"createIntent", "attach"} => orderIntent \in {None, keyIntent}
          /\ pc[p] = "attach" => held[p] = keyIntent

Ordered == Leases /\ Dated /\ Judged /\ Attached

LEMMA DatedNext == Shape /\ Dated /\ [Next]_vars => Dated'
<1> SUFFICES ASSUME Shape, Dated, [Next]_vars PROVE Dated'
  OBVIOUS
<1>0. /\ now \in Nat /\ watermark \in Nat /\ \A e \in Events : eventCreated[e] \in Nat
      /\ \A p \in Invocations : stamp[p] \in Nat
      /\ stamp \in [Invocations -> 0..MaxTime] /\ eventCreated \in [Events -> 0..MaxTime]
      /\ \A p \in Invocations : work[p] \in Events \cup {None}
  BY DEF Shape, StripeShape, OrderShape, CallShape
<1>1. ASSUME NEW p \in Invocations, Begin(p) \/ Continue(p) \/ FailEvent(p) \/ Crash(p)
      PROVE  Dated'
  <2>1. UNCHANGED <<now, eventCreated>>
    BY <1>1 DEF Begin, Continue, ReserveOrder, BeginConfirm, Deliver, LoadOrder, CreateIntent,
       AttachIntent, RetrieveIntent, ReadOrder, WriteOrder, InspectClaim, Reclaim, Mark, FailEvent,
       Crash, stripe
  <2>2. watermark' \in {watermark, stamp[p]}
    BY <1>1 DEF Begin, Continue, ReserveOrder, BeginConfirm, Deliver, LoadOrder, CreateIntent,
       AttachIntent, RetrieveIntent, ReadOrder, WriteOrder, InspectClaim, Reclaim, Mark, FailEvent,
       Crash, order
  <2>3. UNCHANGED stamp \/ \E n \in {0, Stamp(p)} : stamp' = [stamp EXCEPT ![p] = n]
    BY <1>1 DEF Begin, Continue, ReserveOrder, BeginConfirm, Deliver, LoadOrder, CreateIntent,
       AttachIntent, RetrieveIntent, ReadOrder, WriteOrder, InspectClaim, Reclaim, Mark, FailEvent,
       Crash, Conclude, Return, Forget
  <2>4. Stamp(p) <= now
    BY <1>0 DEF Stamp, Dated
  <2> QED
    BY <1>0, <2>1, <2>2, <2>3, <2>4 DEF Dated
<1>2. ASSUME NEW i \in Intents, BeginsProcessing(i) \/ Succeeds(i) \/ PayFails(i) \/ Cancels(i)
      PROVE  Dated'
  <2>1. UNCHANGED <<now, watermark, stamp>>
    BY <1>2 DEF BeginsProcessing, Succeeds, PayFails, Cancels, Becomes, order, calls
  <2>2. UNCHANGED eventCreated \/ \E e \in Events : eventCreated' = [eventCreated EXCEPT ![e] = now]
    BY <1>2 DEF BeginsProcessing, Succeeds, PayFails, Cancels, Emits
  <2> QED
    BY <1>0, <2>1, <2>2 DEF Dated
<1>3. CASE Reconcile \/ RepairFails
  <2>1. UNCHANGED <<now, stamp, eventCreated>> /\ watermark' \in {watermark, now}
    BY <1>3 DEF Reconcile, FailUnattached, ScanOrder, RepairRetrieve, RepairWrite, RepairFails,
       stripe, order, calls
  <2> QED
    BY <1>0, <2>1 DEF Dated
<1>4. CASE \/ \E e \in Events : LeaseExpires(e) \/ AbandonLease(e)
           \/ Tick \/ Age \/ KeyExpires \/ UNCHANGED vars
  <2>1. UNCHANGED <<watermark, stamp, eventCreated>> /\ now' \in {now, now + 1}
    BY <1>4 DEF LeaseExpires, AbandonLease, Tick, Age, KeyExpires, vars, stripe, order, calls
  <2> QED
    BY <1>0, <2>1 DEF Dated
<1> QED
  BY <1>1, <1>2, <1>3, <1>4 DEF Next

\* An event that was emitted reports what it reported.
LEMMA EventsStay ==
    ASSUME Shape, [Next]_vars
    PROVE  \A e \in Events : eventType[e] # "none" => eventType'[e] = eventType[e]
<1>1. UNCHANGED eventType \/ \E type : Emits(type)
  BY DEF Next, vars, Begin, Continue, ReserveOrder, BeginConfirm, Deliver, LoadOrder, CreateIntent,
     AttachIntent, RetrieveIntent, ReadOrder, WriteOrder, InspectClaim, Reclaim, Mark, FailEvent, Crash,
     LeaseExpires, AbandonLease, BeginsProcessing, Succeeds, PayFails, Cancels, Tick, Age, KeyExpires,
     Reconcile, FailUnattached, ScanOrder, RepairRetrieve, RepairWrite, RepairFails, stripe
<1> QED
  BY <1>1 DEF Emits, Shape, StripeShape

LEMMA JudgedNext == Shape /\ Judged /\ [Next]_vars => Judged'
<1> SUFFICES ASSUME Shape, Judged, [Next]_vars,
                    NEW q \in Invocations, pc'[q] = "write"
             PROVE  Allowed(read'[q], Target(q)')
  BY DEF Judged
<1>0. /\ pc \in [Invocations -> Steps] /\ work \in [Invocations -> Events \cup {None}]
      /\ read \in [Invocations -> Statuses \cup {"none"}]
  BY DEF Shape, CallShape
<1>1. ASSUME work'[q] = work[q] PROVE Target(q)' = Target(q)
  BY <1>0, <1>1, EventsStay DEF Target, Shape, Delivered
<1>2. CASE pc[q] = "write" /\ read'[q] = read[q] /\ work'[q] = work[q]
  BY <1>1, <1>2 DEF Judged
<1>3. CASE UNCHANGED <<pc, read, work>>
  BY <1>2, <1>3
<1>4. ASSUME NEW p \in Invocations, Begin(p) \/ Continue(p) \/ FailEvent(p) \/ Crash(p)
      PROVE  Allowed(read'[q], Target(q)')
  <2>1. CASE q # p
    <3>1. pc'[q] = pc[q] /\ read'[q] = read[q] /\ work'[q] = work[q]
      BY <1>0, <1>4, <2>1 DEF Begin, Continue, ReserveOrder, BeginConfirm, Deliver, LoadOrder,
         CreateIntent, AttachIntent, RetrieveIntent, ReadOrder, WriteOrder, InspectClaim, Reclaim, Mark,
         FailEvent, Crash, Conclude, Return, Forget, Goto
    <3> QED
      BY <1>2, <3>1
  <2>2. CASE q = p
    <3>1. /\ Applies(p) /\ read' = [read EXCEPT ![p] = status] /\ UNCHANGED work
      BY <1>0, <1>4, <2>2 DEF Begin, Continue, ReserveOrder, BeginConfirm, Deliver, LoadOrder,
         CreateIntent, AttachIntent, RetrieveIntent, ReadOrder, WriteOrder, InspectClaim, Reclaim, Mark,
         FailEvent, Crash, Conclude, Return, Forget, Goto
    <3> QED
      BY <1>0, <1>1, <2>2, <3>1 DEF Applies
  <2> QED
    BY <2>1, <2>2
<1>5. CASE \/ \E e \in Events : LeaseExpires(e) \/ AbandonLease(e)
           \/ \E i \in Intents : BeginsProcessing(i) \/ Succeeds(i) \/ PayFails(i) \/ Cancels(i)
           \/ Tick \/ Age \/ KeyExpires \/ Reconcile \/ RepairFails \/ UNCHANGED vars
  BY <1>3, <1>5 DEF LeaseExpires, AbandonLease, BeginsProcessing, Succeeds, PayFails, Cancels, Becomes,
     Tick, Age, KeyExpires, Reconcile, FailUnattached, ScanOrder, RepairRetrieve, RepairWrite,
     RepairFails, calls, vars
<1> QED
  BY <1>4, <1>5 DEF Next

LEMMA AttachedNext == Shape /\ Attached /\ [Next]_vars => Attached'
<1> SUFFICES ASSUME Shape, Attached, [Next]_vars PROVE Attached'
  OBVIOUS
<1>0. /\ pc \in [Invocations -> Steps] /\ held \in [Invocations -> Intents \cup {None}]
      /\ keyIntent \in Intents \cup {None}
      /\ \A q \in Invocations : pc[q] = "attach" => held[q] # None
  BY DEF Shape, CallShape, StripeShape
<1>1. ASSUME NEW p \in Invocations, Begin(p) \/ Continue(p) \/ FailEvent(p) \/ Crash(p)
      PROVE  Attached'
  <2>1. /\ pc'[p] \in {"createIntent", "attach"} =>
               ReserveOrder(p) \/ LoadOrder(p) \/ CreateIntent(p)
        /\ \A q \in Invocations : q # p => pc'[q] = pc[q] /\ held'[q] = held[q]
    BY <1>0, <1>1 DEF Begin, Continue, ReserveOrder, BeginConfirm, Deliver, LoadOrder, CreateIntent,
       AttachIntent, RetrieveIntent, ReadOrder, WriteOrder, InspectClaim, Reclaim, Mark, FailEvent,
       Crash, Conclude, Return, Forget, Goto
  <2>2. CASE ReserveOrder(p)
    BY <1>0, <2>1, <2>2 DEF ReserveOrder, Goto, Attached, stripe
  <2>3. CASE LoadOrder(p)
    BY <1>0, <2>1, <2>3 DEF LoadOrder, Goto, Attached, order, Return, Forget
  <2>4. CASE CreateIntent(p)
    <3>1. /\ held' = [held EXCEPT ![p] = keyIntent'] /\ UNCHANGED <<status, orderIntent>>
          /\ keyIntent' \in Intents \cup {None} /\ keyIntent \in {None, keyIntent'}
          /\ pc[p] = "createIntent"
      BY <1>0, <2>4 DEF CreateIntent, order
    <3>2. \A q \in Invocations : q # p /\ pc[q] = "attach" => keyIntent' = keyIntent
      BY <1>0, <2>4 DEF CreateIntent, Attached
    <3> QED
      BY <1>0, <2>1, <3>1, <3>2 DEF Attached
  <2>5. CASE AttachIntent(p)
    BY <1>0, <2>1, <2>5 DEF AttachIntent, Attached, Return, Forget
  <2>6. CASE WriteOrder(p)
    BY <1>0, <2>1, <2>6, Targets DEF WriteOrder, Attached, stripe, LoadOrder, ReserveOrder, CreateIntent
  <2>7. CASE pc'[p] \notin {"createIntent", "attach"} /\ ~AttachIntent(p) /\ ~WriteOrder(p)
    <3>1. ReserveOrder(p) \/ UNCHANGED <<status, orderIntent, keyIntent>>
      BY <1>0, <1>1, <2>7 DEF Begin, Continue, BeginConfirm, Deliver, LoadOrder, CreateIntent, Goto,
         RetrieveIntent, ReadOrder, InspectClaim, Reclaim, Mark, FailEvent, Crash, stripe, order
    <3> QED
      BY <2>1, <2>2, <2>7, <3>1 DEF Attached
  <2> QED
    BY <2>1, <2>2, <2>3, <2>4, <2>5, <2>6, <2>7
<1>2. CASE KeyExpires
  BY <1>0, <1>2 DEF KeyExpires, Running, Attached, order, calls
<1>3. CASE Reconcile \/ RepairFails
  <2>1. UNCHANGED <<pc, held, orderIntent, keyIntent>> /\ (status' = "none" => status = "none")
    BY <1>3 DEF Reconcile, FailUnattached, ScanOrder, RepairRetrieve, RepairWrite, RepairFails, stripe,
       order, calls, Shape, RepairShape
  <2> QED
    BY <2>1 DEF Attached
<1>4. CASE \/ \E e \in Events : LeaseExpires(e) \/ AbandonLease(e)
           \/ \E i \in Intents : BeginsProcessing(i) \/ Succeeds(i) \/ PayFails(i) \/ Cancels(i)
           \/ Tick \/ Age \/ UNCHANGED vars
  <2>1. UNCHANGED <<pc, held, orderIntent, keyIntent, status>>
    BY <1>4 DEF LeaseExpires, AbandonLease, BeginsProcessing, Succeeds, PayFails, Cancels, Becomes, Tick,
       Age, vars, stripe, order, calls
  <2> QED
    BY <2>1 DEF Attached
<1> QED
  BY <1>1, <1>2, <1>3, <1>4 DEF Next

LEMMA OrderedNext == Ordered /\ [Next]_vars => Ordered'
BY LeasesNext, DatedNext, JudgedNext, AttachedNext DEF Ordered, Leases

LEMMA WorkerIs ==
    /\ Alone => \A e \in Events :
          /\ \A p \in Invocations : Working(p, e) => Worker(e) = p
          /\ (\A p \in Invocations : ~Working(p, e)) => Worker(e) = None
    /\ Alone' => \A e \in Events :
          /\ \A p \in Invocations : Working(p, e)' => Worker(e)' = p
          /\ (\A p \in Invocations : ~Working(p, e)') => Worker(e)' = None
<1>1. ASSUME Alone, NEW e \in Events
      PROVE  /\ \A p \in Invocations : Working(p, e) => Worker(e) = p
             /\ (\A p \in Invocations : ~Working(p, e)) => Worker(e) = None
  BY <1>1 DEF Alone, Worker
<1>2. ASSUME Alone', NEW e \in Events
      PROVE  /\ \A p \in Invocations : Working(p, e)' => Worker(e)' = p
             /\ (\A p \in Invocations : ~Working(p, e)') => Worker(e)' = None
  BY <1>2 DEF Alone, Worker
<1> QED
  BY <1>1, <1>2

Processed(e) == row[e] # None /\ row[e].status = "processed"

SameWorkers(events) ==
    \A e \in events : \A p \in Invocations : Working(p, e)' <=> Working(p, e)
SameDone == \A e \in Events : Processed(e)' <=> Processed(e)

LEMMA WorkersStay ==
    ASSUME Alone, Alone', NEW events \in SUBSET Events, SameWorkers(events)
    PROVE  \A e \in events : Worker(e)' = Worker(e)
<1> SUFFICES ASSUME NEW e \in events PROVE Worker(e)' = Worker(e)
  OBVIOUS
<1>1. CASE \E p \in Invocations : Working(p, e)
  BY <1>1, WorkerIs DEF SameWorkers
<1>2. CASE \A p \in Invocations : ~Working(p, e)
  BY <1>2, WorkerIs DEF SameWorkers
<1> QED
  BY <1>1, <1>2

LEMMA DoneStays ==
    ASSUME SameDone
    PROVE  {e \in Events : row[e] # None /\ row[e].status = "processed"}' =
           {e \in Events : row[e] # None /\ row[e].status = "processed"}
BY DEF SameDone, Processed

\* Steps that no promise is about.
LEMMA PromiseStutter ==
    ASSUME Alone, Alone', SameWorkers(Events), SameDone,
           UNCHANGED <<status, orderIntent, watermark>>
    PROVE  UNCHANGED Promise!vars
BY WorkersStay, DoneStays DEF Promise!vars

LEMMA PromiseOpen ==
    ASSUME Alone, Alone', SameWorkers(Events), SameDone,
           status = "none", status' = "creating", UNCHANGED <<orderIntent, watermark>>
    PROVE  Promise!Open
BY WorkersStay, DoneStays DEF Promise!Open

LEMMA PromiseAwait ==
    ASSUME Alone, Alone', SameWorkers(Events), SameDone, NEW i,
           status \in {"creating", "failed"}, orderIntent \in {None, i},
           orderIntent' = i, status' = "pending", watermark' = watermark
    PROVE  Promise!Await(i)
BY WorkersStay, DoneStays DEF Promise!Await

LEMMA PromiseSettle ==
    ASSUME Alone, Alone', SameWorkers(Events), SameDone, NEW to,
           to # "pending", Allowed(status, to), status' = to,
           watermark' >= watermark, orderIntent' = orderIntent
    PROVE  Promise!Settle(to)
BY WorkersStay, DoneStays DEF Promise!Settle, Promise!Allowed, Allowed

LEMMA PromiseTake ==
    ASSUME Alone, Alone', NEW e \in Events, NEW p \in Invocations,
           SameWorkers(Events \ {e}), SameDone, ~Processed(e),
           \A q \in Invocations : ~Working(q, e),
           Working(p, e)', UNCHANGED <<status, orderIntent, watermark>>
    PROVE  Promise!Take(e, p)
<1>1. Worker(e) = None /\ Worker(e)' = p
  BY WorkerIs
<1>2. \A d \in Events \ {e} : Worker(d)' = Worker(d)
  BY WorkersStay
<1> QED
  BY <1>1, <1>2, DoneStays DEF Promise!Take, Processed

LEMMA PromiseGiveUp ==
    ASSUME Alone, Alone', NEW e \in Events, NEW p \in Invocations,
           SameWorkers(Events \ {e}), SameDone,
           Working(p, e), \A q \in Invocations : ~Working(q, e)',
           UNCHANGED <<status, orderIntent, watermark>>
    PROVE  Promise!GiveUp(e)
<1>1. Worker(e) = p /\ Worker(e)' = None
  BY WorkerIs
<1>2. \A d \in Events \ {e} : Worker(d)' = Worker(d)
  BY WorkersStay
<1>3. [d \in Events |-> Worker(d)'] = [[d \in Events |-> Worker(d)] EXCEPT ![e] = None]
  BY <1>1, <1>2
<1>4. p # None
  BY NoneAssumption
<1> QED
  BY <1>1, <1>3, <1>4, DoneStays DEF Promise!GiveUp

LEMMA PromiseFinish ==
    ASSUME Alone, Alone', NEW e \in Events, NEW p \in Invocations,
           SameWorkers(Events \ {e}),
           \A d \in Events \ {e} : Processed(d)' <=> Processed(d), Processed(e)',
           Working(p, e), \A q \in Invocations : ~Working(q, e)',
           UNCHANGED <<status, orderIntent, watermark>>
    PROVE  Promise!Finish(e)
<1>1. Worker(e) = p /\ Worker(e)' = None
  BY WorkerIs
<1>2. \A d \in Events \ {e} : Worker(d)' = Worker(d)
  BY WorkersStay
<1>3. {d \in Events : row[d] # None /\ row[d].status = "processed"}' =
          {d \in Events : row[d] # None /\ row[d].status = "processed"} \cup {e}
  BY DEF Processed
<1> QED
  BY <1>1, <1>2, <1>3, NoneAssumption DEF Promise!Finish

\* Who works on what when a call goes on or returns.
LEMMA GoWorks ==
    ASSUME Shape, NEW p \in Invocations, NEW s, Goto(p, s), UNCHANGED work,
           work[p] = None \/ (s \in LeaseSteps <=> pc[p] \in LeaseSteps)
    PROVE  SameWorkers(Events)
BY NoneAssumption DEF Shape, CallShape, Goto, SameWorkers, Working

LEMMA ForgetWorks ==
    ASSUME Shape, NEW p \in Invocations, Forget(p)
    PROVE  \A q \in Invocations, e \in Events : Working(q, e)' <=> q # p /\ Working(q, e)
BY DEF Shape, CallShape, Forget, Working, LeaseSteps

LEMMA IdleForgets ==
    ASSUME Shape, NEW p \in Invocations, Forget(p), work[p] = None \/ pc[p] \notin LeaseSteps
    PROVE  SameWorkers(Events)
BY ForgetWorks, NoneAssumption DEF SameWorkers, Working

LEMMA SameRows == ASSUME UNCHANGED row PROVE SameDone
BY DEF SameDone, Processed

\* An order of a request that has no event.
LEMMA RequestPromise ==
    ASSUME Ordered, Alone', NEW p \in Invocations,
           \/ ReserveOrder(p) \/ LoadOrder(p) \/ CreateIntent(p) \/ AttachIntent(p)
           \/ BeginConfirm(p) \/ RetrieveIntent(p)
    PROVE  [Promise!Next]_(Promise!vars)
<1>0. Shape /\ Alone /\ Attached /\ work[p] = None
  BY DEF Ordered, Leases, Shape, CallShape, ReserveOrder, LoadOrder, CreateIntent, AttachIntent,
     BeginConfirm, RetrieveIntent
<1>1. SameDone
  BY SameRows DEF ReserveOrder, LoadOrder, CreateIntent, AttachIntent, BeginConfirm, RetrieveIntent
<1>2. \/ Forget(p)
      \/ /\ \E s \in {"createIntent", "load", "attach", "retrieve", "read"} : Goto(p, s)
         /\ UNCHANGED work
  BY DEF ReserveOrder, LoadOrder, CreateIntent, AttachIntent, BeginConfirm, RetrieveIntent, Return, Goto
<1>3. SameWorkers(Events)
  BY <1>0, <1>2, GoWorks, IdleForgets
<1>4. CASE UNCHANGED <<status, orderIntent, watermark>>
  BY <1>0, <1>1, <1>3, <1>4, PromiseStutter
<1>5. CASE ReserveOrder(p)
  <2>1. CASE status = "none" /\ status' = "creating" /\ UNCHANGED <<orderIntent, watermark>>
    BY <1>0, <1>1, <1>3, <2>1, PromiseOpen DEF Promise!Next
  <2> QED
    BY <1>4, <1>5, <2>1 DEF ReserveOrder
<1>6. CASE AttachIntent(p)
  <2>1. held[p] \in Intents /\ orderIntent \in {None, held[p]}
    BY <1>0, <1>6 DEF AttachIntent, Attached, Shape, CallShape
  <2>2. CASE /\ status \in {"creating", "failed"} /\ orderIntent' = held[p]
             /\ status' = "pending" /\ watermark' = watermark
    BY <1>0, <1>1, <1>3, <2>1, <2>2, PromiseAwait DEF Promise!Next
  <2> QED
    BY <1>4, <1>6, <2>2 DEF AttachIntent
<1>7. CASE LoadOrder(p) \/ CreateIntent(p) \/ BeginConfirm(p) \/ RetrieveIntent(p)
  BY <1>4, <1>7 DEF LoadOrder, CreateIntent, BeginConfirm, RetrieveIntent, order
<1> QED
  BY <1>5, <1>6, <1>7

LEMMA TransitionPromise ==
    ASSUME Ordered, Alone', NEW p \in Invocations, ReadOrder(p) \/ WriteOrder(p)
    PROVE  [Promise!Next]_(Promise!vars)
<1>0. Shape /\ Alone /\ Judged
  BY DEF Ordered, Leases
<1>1. SameDone
  BY SameRows DEF ReadOrder, WriteOrder
<1>2. SameWorkers(Events)
  <2>1. CASE Forget(p) /\ work[p] = None
    BY <1>0, <2>1, IdleForgets
  <2>2. CASE UNCHANGED work /\ \E s \in {"write", "mark"} : Goto(p, s)
    <3>1. pc[p] \in LeaseSteps /\ {"write", "mark"} \subseteq LeaseSteps
      BY DEF ReadOrder, WriteOrder, LeaseSteps
    <3> QED
      BY <1>0, <2>2, <3>1, GoWorks
  <2> QED
    BY <2>1, <2>2 DEF ReadOrder, WriteOrder, Conclude, Return
<1>3. CASE UNCHANGED <<status, orderIntent, watermark>>
  BY <1>0, <1>1, <1>2, <1>3, PromiseStutter
<1>4. CASE /\ WriteOrder(p)
           /\ status = read[p] /\ watermark <= stamp[p]
           /\ status' = Target(p)
           /\ watermark' = stamp[p]
  <2> DEFINE to == Target(p)
  <2>1. to \in {"paid", "failed", "cancelled"} /\ Allowed(status, to)
    BY <1>0, <1>4, Targets DEF WriteOrder, Judged
  <2>2. status' = to /\ watermark' >= watermark /\ orderIntent' = orderIntent
    BY <1>4, <1>0 DEF WriteOrder, Shape, OrderShape, CallShape
  <2> HIDE DEF to
  <2>3. Promise!Settle(to)
    BY <1>0, <1>1, <1>2, <2>1, <2>2, PromiseSettle
  <2> QED
    BY <2>1, <2>3 DEF Promise!Next
<1> QED
  BY <1>3, <1>4 DEF ReadOrder, WriteOrder, order

LEMMA ClaimPromise ==
    ASSUME Ordered, Alone', NEW p \in Invocations,
           InspectClaim(p) \/ Reclaim(p) \/ \E e \in Events : Deliver(p, e)
    PROVE  [Promise!Next]_(Promise!vars)
<1>0. /\ Shape /\ Alone /\ Leased /\ UNCHANGED <<status, orderIntent, watermark>>
      /\ pc \in [Invocations -> Steps] /\ work \in [Invocations -> Events \cup {None}]
      /\ row \in [Events -> Lease \cup {None}]
  BY DEF Ordered, Leases, Shape, CallShape, RowShape, InspectClaim, Reclaim, Deliver, order
\* Nobody who does not go to read the order works on an event after it.
<1>1. CASE UNCHANGED row /\ SameWorkers(Events)
  BY <1>0, <1>1, SameRows, PromiseStutter
<1>2. ASSUME NEW e \in Events, NEW r \in Lease, row' = [row EXCEPT ![e] = r],
             r.status = "processing", ~Processed(e), Goto(p, "read"), pc[p] \notin LeaseSteps,
             work' = [work EXCEPT ![p] = e], \A q \in Invocations : ~Working(q, e)
      PROVE  Promise!Take(e, p)
  <2>1. SameDone
    BY <1>0, <1>2 DEF SameDone, Processed
  <2>2. Working(p, e)' /\ SameWorkers(Events \ {e})
    BY <1>0, <1>2 DEF Working, SameWorkers, Goto, LeaseSteps
  <2> QED
    BY <1>0, <1>2, <2>1, <2>2, PromiseTake
<1>3. CASE InspectClaim(p) \/ (Reclaim(p) /\ Return(p))
  <2>1. UNCHANGED row /\ pc[p] \notin LeaseSteps
    BY <1>0, <1>3 DEF InspectClaim, Reclaim, LeaseSteps, Return, Forget, Goto, Steps
  <2>2. CASE Forget(p)
    BY <1>0, <1>1, <2>1, <2>2, IdleForgets
  <2>3. CASE Goto(p, "reclaim") /\ UNCHANGED work
    BY <1>0, <1>1, <2>1, <2>3, GoWorks DEF LeaseSteps
  <2> QED
    BY <1>3, <2>2, <2>3 DEF InspectClaim, Return
<1>4. CASE Reclaim(p) /\ ~Return(p)
  <2> DEFINE e == work[p]
             r == NextClaim(row[e])
  <2>1. /\ e \in Events /\ row[e] \in Lease /\ pc[p] \notin LeaseSteps
    BY <1>0, <1>4, WorkRow DEF Reclaim, Shape, CallShape, LeaseSteps
  <2>2. /\ Reclaimable(row[e]) /\ row' = [row EXCEPT ![e] = r] /\ Goto(p, "read")
        /\ work' = [work EXCEPT ![p] = e]
    BY <1>0, <1>4 DEF Reclaim
  <2>3. r \in Lease /\ r.status = "processing"
    BY <2>1, LeaseTypes DEF NextClaim, LeaseRow
  <2>4. ~Processed(e) /\ \A q \in Invocations : ~Working(q, e)
    BY <1>0, <2>1, <2>2 DEF Leased, Reclaimable, Holds, Processed
  <2> HIDE DEF e, r
  <2> QED
    BY <1>2, <2>1, <2>2, <2>3, <2>4 DEF Promise!Next
<1>5. ASSUME NEW e \in Events, Deliver(p, e) PROVE [Promise!Next]_(Promise!vars)
  <2>0. pc[p] = "idle" /\ work[p] = None /\ work' = [work EXCEPT ![p] = e]
    BY <1>0, <1>5 DEF Deliver, Shape, CallShape
  <2>1. CASE row[e] # None
    <3>1. UNCHANGED row /\ Goto(p, "claim")
      BY <1>5, <2>1 DEF Deliver
    <3>2. SameWorkers(Events)
      BY <1>0, <2>0, <3>1 DEF SameWorkers, Working, Goto, LeaseSteps
    <3> QED
      BY <1>1, <3>1, <3>2
  <2>2. CASE row[e] = None
    <3>1. /\ row' = [row EXCEPT ![e] = FirstClaim] /\ Goto(p, "read")
          /\ FirstClaim \in Lease /\ FirstClaim.status = "processing"
      BY <1>5, <2>2, LeaseTypes DEF Deliver, FirstClaim, LeaseRow
    <3>2. ~Processed(e) /\ (\A q \in Invocations : ~Working(q, e)) /\ pc[p] \notin LeaseSteps
      BY <1>0, <2>0, <2>2 DEF Processed, Leased, LeaseSteps
    <3> QED
      BY <1>2, <2>0, <3>1, <3>2 DEF Promise!Next
  <2> QED
    BY <2>1, <2>2
<1> QED
  BY <1>3, <1>4, <1>5

LEMMA EndPromise ==
    ASSUME Ordered, Alone', NEW p \in Invocations, Mark(p) \/ FailEvent(p) \/ Crash(p)
    PROVE  [Promise!Next]_(Promise!vars)
<1>0. /\ Shape /\ Alone /\ Leased /\ UNCHANGED <<status, orderIntent, watermark>> /\ Forget(p)
      /\ row \in [Events -> Lease \cup {None}]
  BY DEF Ordered, Leases, Shape, RowShape, Mark, FailEvent, Crash, order, Return
<1>1. CASE Crash(p) /\ (work[p] = None \/ pc[p] \notin LeaseSteps)
  BY <1>0, <1>1, IdleForgets, SameRows, PromiseStutter DEF Crash
<1>2. CASE work[p] # None /\ pc[p] \in LeaseSteps
  <2>1. PICK e \in Events : e = work[p] /\ row[e] \in Lease /\ Working(p, e)
    BY <1>0, <1>2, WorkRow DEF Working
  <2>2. Holds(row[e], token[p])
    BY <1>0, <2>1 DEF Leased
  <2>3. (\A q \in Invocations : ~Working(q, e)') /\ SameWorkers(Events \ {e})
    BY <1>0, <2>1, ForgetWorks DEF Alone, SameWorkers, Working
  <2>4. CASE Mark(p)
    <3>1. row' = [row EXCEPT ![e] = Completed(row[e])]
      BY <2>1, <2>2, <2>4 DEF Mark
    <3>2. Completed(row[e]) \in Lease /\ Completed(row[e]).status = "processed"
      BY <2>1, LeaseTypes DEF Completed, LeaseRow
    <3>3. Processed(e)' /\ \A d \in Events \ {e} : Processed(d)' <=> Processed(d)
      BY <1>0, <2>1, <3>1, <3>2, NoneAssumption DEF Processed
    <3> QED
      BY <1>0, <2>1, <2>3, <3>3, PromiseFinish DEF Promise!Next
  <2>5. CASE FailEvent(p) \/ Crash(p)
    <3>1. row' = row \/ row' = [row EXCEPT ![e] = Failed(row[e])]
      BY <1>0, <2>1, <2>2, <2>5 DEF FailEvent, Crash
    <3>2. Failed(row[e]).status = "failed" /\ row[e].status = "processing"
      BY <2>2 DEF Failed, LeaseRow, Holds
    <3>3. SameDone
      BY <1>0, <2>1, <3>1, <3>2 DEF SameDone, Processed
    <3> QED
      BY <1>0, <2>1, <2>3, <3>3, PromiseGiveUp DEF Promise!Next
  <2> QED
    BY <2>4, <2>5
<1>3. Mark(p) \/ FailEvent(p) => work[p] # None /\ pc[p] \in LeaseSteps
  BY <1>0 DEF Mark, FailEvent, Shape, CallShape, LeaseSteps
<1> QED
  BY <1>1, <1>2, <1>3

LEMMA PromiseNext ==
    ASSUME Ordered, Alone', [Next]_vars PROVE [Promise!Next]_(Promise!vars)
<1>0. Shape /\ Alone /\ Leased /\ Dated
  BY DEF Ordered, Leases
<1>1. CASE UNCHANGED <<pc, work, row, status, orderIntent, watermark>>
  <2>1. SameWorkers(Events)
    BY <1>1 DEF SameWorkers, Working
  <2> QED
    BY <1>0, <1>1, <2>1, SameRows, PromiseStutter
<1>2. ASSUME NEW p \in Invocations, Begin(p) \/ Continue(p) \/ FailEvent(p) \/ Crash(p)
      PROVE  [Promise!Next]_(Promise!vars)
  BY <1>2, RequestPromise, TransitionPromise, ClaimPromise, EndPromise DEF Begin, Continue
<1>3. ASSUME NEW e \in Events, LeaseExpires(e) \/ AbandonLease(e)
      PROVE  [Promise!Next]_(Promise!vars)
  <2>1. UNCHANGED <<pc, work, status, orderIntent, watermark>>
    BY <1>3 DEF LeaseExpires, AbandonLease, order, calls
  <2>2. SameWorkers(Events)
    BY <2>1 DEF SameWorkers, Working
  <2>3. PICK r : row' = [row EXCEPT ![e] = r] /\ r.status # "processed" /\ row[e].status # "processed"
    <3>1. row[e] \in Lease /\ row[e].status = "processing"
      BY <1>0, <1>3 DEF LeaseExpires, AbandonLease, Shape, RowShape
    <3>2. Expired(row[e]).status = "processing" /\ Failed(row[e]).status = "failed"
      BY <3>1 DEF Expired, Failed, LeaseRow, Lease
    <3> QED
      BY <1>3, <3>1, <3>2 DEF LeaseExpires, AbandonLease
  <2>4. SameDone
    BY <1>0, <2>3 DEF SameDone, Processed, Shape, RowShape
  <2> QED
    BY <1>0, <2>1, <2>2, <2>4, PromiseStutter
<1>4. CASE FailUnattached \/ RepairWrite
  <2>1. UNCHANGED <<pc, work, row, orderIntent>>
    BY <1>4 DEF FailUnattached, RepairWrite
  <2>2. SameWorkers(Events) /\ SameDone
    BY <2>1, SameRows DEF SameWorkers, Working
  <2>3. \/ UNCHANGED <<status, watermark>>
        \/ \E to \in {"paid", "failed", "cancelled"} :
              Allowed(status, to) /\ status' = to /\ watermark' >= watermark
    <3>1. watermark \in Nat /\ watermark <= now
      BY <1>0 DEF Dated, Shape, OrderShape
    <3>2. CASE FailUnattached
      BY <3>1, <3>2 DEF FailUnattached, Allowed
    <3>3. CASE RepairWrite
      <4>1. /\ repairRead \in {"creating", "pending"}
            /\ repairTarget \in {"paid", "failed", "cancelled"}
        BY <1>0, <3>3 DEF RepairWrite, Shape, RepairShape
      <4> QED
        BY <3>1, <3>3, <4>1, <1>0 DEF RepairWrite, Allowed, Shape, StripeShape
    <3> QED
      BY <1>4, <3>2, <3>3
  <2>4. ASSUME NEW to \in {"paid", "failed", "cancelled"},
               Allowed(status, to), status' = to, watermark' >= watermark
        PROVE  Promise!Next
    <3>1. Promise!Settle(to)
      BY <1>0, <2>1, <2>2, <2>4, PromiseSettle
    <3> QED
      BY <3>1 DEF Promise!Next
  <2> QED
    BY <1>1, <2>1, <2>3, <2>4
<1>5. CASE \/ \E i \in Intents : BeginsProcessing(i) \/ Succeeds(i) \/ PayFails(i) \/ Cancels(i)
           \/ Tick \/ Age \/ KeyExpires \/ ScanOrder \/ RepairRetrieve \/ RepairFails \/ UNCHANGED vars
  <2>1. UNCHANGED <<pc, work, row, status, orderIntent, watermark>>
    BY <1>5 DEF BeginsProcessing, Succeeds, PayFails, Cancels, Becomes, Tick, Age, KeyExpires, ScanOrder,
       RepairRetrieve, RepairFails, vars, order, calls
  <2> QED
    BY <1>1, <2>1
<1> QED
  BY <1>2, <1>3, <1>4, <1>5 DEF Next, Reconcile

LEMMA OrderedAlways == Spec => []Ordered
<1>1. Init => Ordered
  BY ShapeInit, BoundsAssumption
  DEF Init, Ordered, Leases, Leased, Alone, Dated, Judged, Attached, Working, LeaseSteps
<1> QED
  BY <1>1, OrderedNext, PTL DEF Spec

\* The order and its events keep the promise of OrderPromise: one intent, the
\* allowed transitions with time stamps that never go back, and one worker for
\* an event until it is finished for good.
THEOREM PromiseKept == Spec => KeepsPromise
<1>1. Spec => []Ordered
  BY OrderedAlways
<1>2. Init => Promise!Init
  <2> SUFFICES ASSUME Init PROVE Promise!Init
    OBVIOUS
  <2>1. Alone /\ \A e \in Events : \A p \in Invocations : ~Working(p, e)
    BY DEF Init, Alone, Working, LeaseSteps
  <2>2. \A e \in Events : Worker(e) = None
    BY <2>1, WorkerIs
  <2> QED
    BY <2>2 DEF Init, Promise!Init
<1>3. Ordered /\ Ordered' /\ [Next]_vars => [Promise!Next]_(Promise!vars)
  BY PromiseNext DEF Ordered, Leases
<1> QED
  BY <1>1, <1>2, <1>3, PTL DEF Spec, KeepsPromise, Promise!Spec

\* A step undoes nothing that a customer, or Stripe, has been told.
Lasting ==
    /\ status \in {"paid", "cancelled"} => status' = status
    /\ orderIntent # None => orderIntent' = orderIntent
    /\ watermark <= watermark'
    /\ \A e \in Events : Processed(e) => Processed(e)'

SettledStays == [][Lasting]_vars

LEMMA PromiseLasts ==
    ASSUME Ordered, [Promise!Next]_(Promise!vars) PROVE Lasting
<1>1. watermark \in Nat
  BY BoundsAssumption DEF Ordered, Leases, Shape, OrderShape
<1>2. CASE Promise!Open
  BY <1>1, <1>2 DEF Promise!Open, Lasting, Processed
<1>3. ASSUME NEW i \in Intents, Promise!Await(i) PROVE Lasting
  BY <1>1, <1>3 DEF Promise!Await, Lasting, Processed
<1>4. ASSUME NEW to \in {"paid", "failed", "cancelled"}, Promise!Settle(to)
      PROVE  Lasting
  BY <1>1, <1>4 DEF Promise!Settle, Promise!Allowed, Lasting, Processed
<1>5. ASSUME NEW e \in Events, Promise!GiveUp(e) PROVE Lasting
  BY <1>1, <1>5 DEF Promise!GiveUp, Lasting, Processed
<1>6. ASSUME NEW e \in Events, Promise!Finish(e) PROVE Lasting
  BY <1>1, <1>6 DEF Promise!Finish, Lasting, Processed
<1>7. ASSUME NEW e \in Events, NEW p \in Invocations, Promise!Take(e, p)
      PROVE  Lasting
  BY <1>1, <1>7 DEF Promise!Take, Lasting, Processed
<1>8. CASE UNCHANGED Promise!vars
  BY <1>1, <1>8 DEF Promise!vars, Lasting, Processed
<1> QED
  BY <1>2, <1>3, <1>4, <1>5, <1>6, <1>7, <1>8 DEF Promise!Next

\* What was settled stays so, whatever is delivered late, twice or out of order: a
\* paid or cancelled order, the intent of an order, a webhook event marked
\* processed; and the time stamp that orders the events never goes back.
THEOREM SettledForGood == Spec => SettledStays
<1>1. Ordered /\ Ordered' /\ [Next]_vars => Lasting
  BY PromiseNext, PromiseLasts DEF Ordered, Leases
<1> QED
  BY <1>1, OrderedAlways, PTL DEF Spec, SettledStays
=============================================================================

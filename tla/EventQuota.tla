----------------------------- MODULE EventQuota -----------------------------
(***************************************************************************)
(* The active-event quota of one organization: the create, duplicate and   *)
(* archive requests of events/quota-wrapper.js and events/index.js, the    *)
(* counter, reservation and occupancy rows of common/quota-store.js, and   *)
(* the scheduled repair of quota-reconciliation/index.js.                  *)
(*                                                                         *)
(* A request is a Lambda invocation; each action below is one awaited      *)
(* DynamoDB call of it, together with the branch taken on the result.      *)
(* Several invocations, possibly retries of one request under the same     *)
(* idempotency key, interleave with each other and with the reconciler.    *)
(* An invocation may end at any await (timeout, crash, or an exception     *)
(* the handler answers with a 5xx); whatever it wrote stays.               *)
(*                                                                         *)
(* Abstracted: authorization and body validation (a refusal before the     *)
(* first write leaves no trace; a refusal of the base writer is one of the *)
(* outcomes of Capacity), the request digest (a key reused with another    *)
(* body is refused without a write), audit rows, the publication saga of   *)
(* an archive (only its last write changes what counts as active), TTL     *)
(* deletion of terminal reservation rows, and the pages of a scan.         *)
(* A read followed by a transaction conditioned on what was read is one    *)
(* action: the condition is re-evaluated by the write itself.              *)
(***************************************************************************)
EXTENDS QuotaCounter, FiniteSets

CONSTANTS
    Keys,            \* idempotency keys of create and duplicate requests
    Events,          \* event identifiers
    Invocations,     \* concurrent Lambda invocations
    None,            \* no key, no event, no counter row
    Plans,           \* values of maxActiveEvents a plan may grant
    Legacy,          \* events that may be older than the counter
    MaxPlanChanges,  \* bound on the plan changes of a behaviour
    MaxRepairCrashes,\* bound on the repair runs that die half-way
    IndexLag         \* whether the organization-events index may lag

ASSUME NoneAssumption == None \notin Keys \cup Events \cup Counter
ASSUME PlansAssumption == Plans \subseteq Nat
ASSUME FiniteAssumption == IsFiniteSet(Keys) /\ IsFiniteSet(Events)
ASSUME LegacyAssumption == Legacy \subseteq Events
ASSUME BoundsAssumption == /\ MaxPlanChanges \in Nat
                           /\ MaxRepairCrashes \in Nat
                           /\ IndexLag \in BOOLEAN

VARIABLES
    plan,         \* maxActiveEvents of the entitlement
    planChanges,
    status,       \* of each event: "none", "active" or "archived"
    creator,      \* the key whose request created the event
    index,        \* the events the GSI shows as active
    counter,      \* the organization's counter row, or None
    reservation,  \* status of the source reservation of each key
    resource,     \* the event a linked reservation names
    answered,     \* keys whose first response is stored
    expired,      \* keys whose reservation is past reservationExpiresAt
    occupancy,    \* status of the OCC#EVENT row of each event
    pc, key, target, seen, limit, count,     \* of each invocation
    repair, repairSeen, repairTodo, repairLimit, repairUsed, repairCrashes

store == <<plan, planChanges, status, creator, index>>
quota == <<counter, reservation, resource, answered, expired, occupancy>>
calls == <<pc, key, target, seen, limit, count>>
repairs == <<repair, repairSeen, repairTodo, repairLimit, repairUsed,
             repairCrashes>>
vars == <<plan, planChanges, status, creator, index,
          counter, reservation, resource, answered, expired, occupancy,
          pc, key, target, seen, limit, count,
          repair, repairSeen, repairTodo, repairLimit, repairUsed,
          repairCrashes>>

ActiveEvents == {e \in Events : status[e] = "active"}
OpenReservations == {k \in Keys : reservation[k] = "reserved"}

\* Where a create request holds the reservation it made.
HoldingSteps == {"capacity", "commit", "consume", "store", "release"}
CreateSteps == {"readLimit", "setLimit", "reread", "countUsage", "initialize",
                "lookup", "reserve"} \cup HoldingSteps
ArchiveSteps == {"releaseOccupancy"}
RepairSteps == {"idle", "expire", "scanCounters", "scanSources", "readLimit",
                "countEvents", "rewrite"}

Init ==
    /\ plan \in Plans
    /\ planChanges = 0
    /\ index \in SUBSET Legacy
    /\ status = [e \in Events |-> IF e \in index THEN "active" ELSE "none"]
    /\ creator = [e \in Events |-> None]
    /\ counter = None
    /\ reservation = [k \in Keys |-> "none"]
    /\ resource = [k \in Keys |-> None]
    /\ answered = {}
    /\ expired = {}
    /\ occupancy = [e \in Events |-> "none"]
    /\ pc = [p \in Invocations |-> "idle"]
    /\ key = [p \in Invocations |-> None]
    /\ target = [p \in Invocations |-> None]
    /\ seen = [p \in Invocations |-> None]
    /\ limit = [p \in Invocations |-> 0]
    /\ count = [p \in Invocations |-> 0]
    /\ repair = "idle"
    /\ repairSeen = None
    /\ repairTodo = {}
    /\ repairLimit = 0
    /\ repairUsed = 0
    /\ repairCrashes = 0
-----------------------------------------------------------------------------
(* Control of an invocation *)

Goto(p, step) == pc' = [pc EXCEPT ![p] = step]

\* What ensureEventCounter read is of no use after the row was checked.
Forget(p) ==
    /\ seen' = [seen EXCEPT ![p] = None]
    /\ limit' = [limit EXCEPT ![p] = 0]
    /\ count' = [count EXCEPT ![p] = 0]

\* The response is sent: nothing of the invocation's memory survives.
Return(p) ==
    /\ pc' = [pc EXCEPT ![p] = "idle"]
    /\ key' = [key EXCEPT ![p] = None]
    /\ target' = [target EXCEPT ![p] = None]
    /\ Forget(p)

\* The index follows a write of an event at once, or later (IndexCatchUp).
IndexWrite(active) == index' = IF IndexLag THEN index ELSE active
-----------------------------------------------------------------------------
(* Create and duplicate: reserveEventSlot, then the base writer, then the  *)
(* settlement of the reservation.                                          *)

\* The first call that matters is getCounter.
BeginCreate(p, k) ==
    /\ pc[p] = "idle"
    /\ key' = [key EXCEPT ![p] = k]
    /\ seen' = [seen EXCEPT ![p] = counter]
    /\ Goto(p, "readLimit")
    /\ UNCHANGED <<store, quota, repairs, target, limit, count>>

\* readEntitlement, on the way to a new row or to a row whose limit is stale.
ReadLimit(p) ==
    /\ pc[p] = "readLimit"
    /\ limit' = [limit EXCEPT ![p] = plan]
    /\ \/ seen[p] = None /\ Goto(p, "countUsage")
       \/ seen[p] # None /\ seen[p].limit = plan /\ Goto(p, "lookup")
       \/ seen[p] # None /\ seen[p].limit # plan /\ Goto(p, "setLimit")
    /\ UNCHANGED <<store, quota, repairs, key, target, seen, count>>

CountUsage(p) ==
    /\ pc[p] = "countUsage"
    /\ count' = [count EXCEPT ![p] = Cardinality(index)]
    /\ Goto(p, "initialize")
    /\ UNCHANGED <<store, quota, repairs, key, target, seen, limit>>

\* Put if absent; the loser of the race reads the winner's row.
InitializeCounter(p) ==
    /\ pc[p] = "initialize"
    /\ \/ /\ counter = None
          /\ counter' = NewCounter(limit[p], count[p], 0)
          /\ seen' = [seen EXCEPT ![p] = counter']
          /\ Goto(p, "lookup")
       \/ /\ counter # None
          /\ Goto(p, "reread")
          /\ UNCHANGED <<counter, seen>>
    /\ UNCHANGED <<store, reservation, resource, answered, expired, occupancy,
                   repairs, key, target, limit, count>>

\* refreshCounterLimit: the usage written back is the usage read.
SetLimit(p) ==
    /\ pc[p] = "setLimit"
    /\ \/ /\ SameRow(counter, seen[p])
          /\ counter' = Rewrite(counter, limit[p], seen[p].used,
                                seen[p].reserved)
          /\ seen' = [seen EXCEPT ![p] = counter']
          /\ Goto(p, "lookup")
       \/ /\ ~SameRow(counter, seen[p])
          /\ Goto(p, "reread")
          /\ UNCHANGED <<counter, seen>>
    /\ UNCHANGED <<store, reservation, resource, answered, expired, occupancy,
                   repairs, key, target, limit, count>>

Reread(p) ==
    /\ pc[p] = "reread"
    /\ seen' = [seen EXCEPT ![p] = counter]
    /\ Goto(p, "lookup")
    /\ UNCHANGED <<store, quota, repairs, key, target, limit, count>>

\* A reservation of this key exists: recoveryResponse answers from it, with
\* the stored response or the linked event when there is one ...
AnswerReplay(p) ==
    /\ pc[p] = "lookup"
    /\ key[p] \in answered \/ resource[key[p]] # None
    /\ Return(p)
    /\ UNCHANGED <<store, quota, repairs>>

\* ... and otherwise with IDEMPOTENCY_RECOVERY_REQUIRED.
AnswerRecovery(p) ==
    /\ pc[p] = "lookup"
    /\ reservation[key[p]] # "none"
    /\ key[p] \notin answered /\ resource[key[p]] = None
    /\ Return(p)
    /\ UNCHANGED <<store, quota, repairs>>

\* No reservation yet: the row as read decides whether to try at all.
CheckRoom(p) ==
    /\ pc[p] = "lookup"
    /\ reservation[key[p]] = "none"
    /\ \/ HasRoom(seen[p]) /\ Goto(p, "reserve") /\ Forget(p)
                           /\ UNCHANGED <<key, target>>
       \/ ~HasRoom(seen[p]) /\ Return(p)
    /\ UNCHANGED <<store, quota, repairs>>

\* Mutant of Reserve: the reservation found after a cancelled transaction is
\* taken for a new one.
Reserve_RacedIsNew(p) ==
    LET k == key[p] IN
    /\ pc[p] = "reserve"
    /\ IF HasRoom(counter) /\ reservation[k] = "none"
       THEN /\ counter' = TakeUnit(counter)
            /\ reservation' = [reservation EXCEPT ![k] = "reserved"]
       ELSE UNCHANGED <<counter, reservation>>
    /\ Goto(p, "capacity")
    /\ UNCHANGED <<store, resource, answered, expired, occupancy, repairs, key,
                   target, seen, limit, count>>

\* The transaction: a unit of the counter and the reservation row, or neither.
\* A cancelled transaction reads the reservation again: there is one now (a
\* replay, back to the lookup) or the quota is exceeded.
Reserve(p) ==
    LET k == key[p] IN
    /\ pc[p] = "reserve"
    /\ \/ /\ HasRoom(counter) /\ reservation[k] = "none"
          /\ counter' = TakeUnit(counter)
          /\ reservation' = [reservation EXCEPT ![k] = "reserved"]
          /\ Goto(p, "capacity")
          /\ UNCHANGED <<key, target, seen, limit, count>>
       \/ /\ reservation[k] # "none"
          /\ Goto(p, "lookup")
          /\ UNCHANGED <<counter, reservation, key, target, seen, limit, count>>
       \/ /\ ~HasRoom(counter) /\ reservation[k] = "none"
          /\ Return(p)
          /\ UNCHANGED <<counter, reservation>>
    /\ UNCHANGED <<store, resource, answered, expired, occupancy, repairs>>

\* ensureEventCapacity, the base writer's own check, on the index as it is and
\* on a read of the plan that need not be consistent: after a change it may
\* show an earlier plan.  The writer may also refuse for reasons of its own.
PlansRead == IF planChanges = 0 THEN {plan} ELSE Plans

Capacity(p) ==
    /\ pc[p] = "capacity"
    /\ \/ /\ \E n \in PlansRead : Cardinality(index) < n
          /\ Goto(p, "commit")
       \/ Goto(p, "release")
    /\ UNCHANGED <<store, quota, repairs, key, target, seen, limit, count>>

\* The put of createEvent.
CommitEvent(p, e) ==
    /\ pc[p] = "commit"
    /\ status[e] = "none"
    /\ status' = [status EXCEPT ![e] = "active"]
    /\ creator' = [creator EXCEPT ![e] = key[p]]
    /\ IndexWrite(ActiveEvents \cup {e})
    /\ target' = [target EXCEPT ![p] = e]
    /\ Goto(p, "consume")
    /\ UNCHANGED <<plan, planChanges, quota, repairs, key, seen, limit, count>>

\* A copy of another event of the organization, archived or not.  (One that is
\* being published or archived is refused: those are statuses of Publication.)
DuplicateEvent(p, e) ==
    /\ \E source \in Events : status[source] # "none"
    /\ CommitEvent(p, e)

\* consumeEventReservation: the reserved unit becomes a used one.  If the
\* reservation is gone, or the counter has nothing reserved, the request is
\* answered with an error although its event exists.  (The identifier is new:
\* the answer for an event that has its occupancy already is not reached.)
CanConsume(p) ==
    /\ occupancy[target[p]] = "none"
    /\ reservation[key[p]] = "reserved"
    /\ counter.reserved >= 1

Consume(p) ==
    /\ pc[p] = "consume"
    /\ \/ /\ CanConsume(p)
          /\ counter' = UseUnit(counter)
          /\ reservation' = [reservation EXCEPT ![key[p]] = "linked"]
          /\ resource' = [resource EXCEPT ![key[p]] = target[p]]
          /\ expired' = expired \ {key[p]}
          /\ occupancy' = [occupancy EXCEPT ![target[p]] = "used"]
          /\ Goto(p, "store")
          /\ UNCHANGED <<key, target, seen, limit, count>>
       \/ /\ ~CanConsume(p)
          /\ Return(p)
          /\ UNCHANGED <<counter, reservation, resource, expired, occupancy>>
    /\ UNCHANGED <<store, answered, repairs>>

StoreResponse(p) ==
    /\ pc[p] = "store"
    /\ answered' = answered \cup {key[p]}
    /\ Return(p)
    /\ UNCHANGED <<store, counter, reservation, resource, expired, occupancy,
                   repairs>>

\* Mutant of ReleaseSource: the unit goes back but the row stays as it is.
ReleaseSource_RowKept(k) ==
    /\ IF reservation[k] = "reserved" /\ counter.reserved >= 1
       THEN counter' = ReturnReserved(counter)
       ELSE UNCHANGED counter
    /\ UNCHANGED <<reservation, expired>>

\* releaseSourceReservation: the unit goes back, once.
ReleaseSource(k) ==
    IF reservation[k] = "reserved" /\ counter.reserved >= 1
    THEN /\ counter' = ReturnReserved(counter)
         /\ reservation' = [reservation EXCEPT ![k] = "released"]
         /\ expired' = expired \ {k}
    ELSE UNCHANGED <<counter, reservation, expired>>

Release(p) ==
    /\ pc[p] = "release"
    /\ ReleaseSource(key[p])
    /\ Return(p)
    /\ UNCHANGED <<store, resource, answered, occupancy, repairs>>
-----------------------------------------------------------------------------
(* Archive: the base handler, then the release of the event's occupancy.   *)

\* The last write of archiveEvent; an event already archived is answered with
\* 200 and duplicate, and the release below runs again.
ArchiveEvent(p, e) ==
    /\ pc[p] = "idle"
    /\ status[e] # "none"
    /\ status' = [status EXCEPT ![e] = "archived"]
    /\ IndexWrite(ActiveEvents \ {e})
    /\ target' = [target EXCEPT ![p] = e]
    /\ Goto(p, "releaseOccupancy")
    /\ UNCHANGED <<plan, planChanges, creator, quota, repairs, key, seen, limit,
                   count>>

\* Mutant of ReleaseOccupancy: a repeated archive releases again.
ReleaseOccupancy_Repeated(p) ==
    LET e == target[p] IN
    /\ pc[p] = "releaseOccupancy"
    /\ IF occupancy[e] # "none" /\ counter.used >= 1
       THEN /\ counter' = ReturnUsed(counter)
            /\ occupancy' = [occupancy EXCEPT ![e] = "released"]
       ELSE UNCHANGED <<counter, occupancy>>
    /\ Return(p)
    /\ UNCHANGED <<store, reservation, resource, answered, expired, repairs>>

\* releaseOccupancy("EVENT"): the unit of a used occupancy goes back; a row
\* released before, or a counter with nothing used, is left alone.
ReleaseOccupancy(p) ==
    LET e == target[p] IN
    /\ pc[p] = "releaseOccupancy"
    /\ IF occupancy[e] = "used" /\ counter.used >= 1
       THEN /\ counter' = ReturnUsed(counter)
            /\ occupancy' = [occupancy EXCEPT ![e] = "released"]
       ELSE UNCHANGED <<counter, occupancy>>
    /\ Return(p)
    /\ UNCHANGED <<store, reservation, resource, answered, expired, repairs>>

\* The invocation ends at an await: a timeout, a crash, or an exception the
\* handler answers with an error and no further write.
Crash(p) ==
    /\ pc[p] # "idle"
    /\ Return(p)
    /\ UNCHANGED <<store, quota, repairs>>
-----------------------------------------------------------------------------
(* Time, the plan and the index *)

\* Mutant of Expire: a reservation that expires under its own request.
Expire_UnderRequest(k) ==
    /\ reservation[k] = "reserved"
    /\ k \notin expired
    /\ expired' = expired \cup {k}
    /\ UNCHANGED <<store, counter, reservation, resource, answered, occupancy,
                   calls, repairs>>

\* reservationExpiresAt is 900 seconds away and an invocation lives at most 60,
\* so a reservation expires only after the invocation that made it has ended.
Expire(k) ==
    /\ reservation[k] = "reserved"
    /\ k \notin expired
    /\ \A p \in Invocations : pc[p] \in HoldingSteps => key[p] # k
    /\ expired' = expired \cup {k}
    /\ UNCHANGED <<store, counter, reservation, resource, answered, occupancy,
                   calls, repairs>>

ChangePlan(n) ==
    /\ planChanges < MaxPlanChanges
    /\ n # plan
    /\ plan' = n
    /\ planChanges' = planChanges + 1
    /\ UNCHANGED <<status, creator, index, quota, calls, repairs>>

IndexCatchUp ==
    /\ index # ActiveEvents
    /\ index' = ActiveEvents
    /\ UNCHANGED <<plan, planChanges, status, creator, quota, calls, repairs>>
-----------------------------------------------------------------------------
(* The scheduled reconciler: one run at a time, every 15 minutes.          *)

BeginRepair ==
    /\ repair = "idle"
    /\ repair' = "expire"
    /\ repairTodo' = expired
    /\ UNCHANGED <<store, quota, calls, repairSeen, repairLimit, repairUsed,
                   repairCrashes>>

ExpireReservation(k) ==
    /\ repair = "expire"
    /\ k \in repairTodo
    /\ repairTodo' = repairTodo \ {k}
    /\ ReleaseSource(k)
    /\ UNCHANGED <<store, resource, answered, occupancy, calls, repair,
                   repairSeen, repairLimit, repairUsed, repairCrashes>>

EndRepair ==
    /\ repair' = "idle"
    /\ repairSeen' = None
    /\ repairTodo' = {}
    /\ repairLimit' = 0
    /\ repairUsed' = 0

ScanCounters ==
    /\ repair = "expire" /\ repairTodo = {}
    /\ \/ /\ counter = None
          /\ EndRepair
       \/ /\ counter # None
          /\ repair' = "scanSources"
          /\ repairSeen' = counter
          /\ UNCHANGED <<repairTodo, repairLimit, repairUsed>>
    /\ UNCHANGED <<store, quota, calls, repairCrashes>>

\* Mutant of ScanSources: a busy counter is repaired like any other.
ScanSources_NotDeferred ==
    /\ repair = "scanSources"
    /\ repair' = "readLimit"
    /\ UNCHANGED <<store, quota, calls, repairSeen, repairTodo, repairLimit,
                   repairUsed, repairCrashes>>

\* A counter with an open source reservation is busy: deferred to the next run.
ScanSources ==
    /\ repair = "scanSources"
    /\ \/ /\ OpenReservations # {}
          /\ EndRepair
       \/ /\ OpenReservations = {}
          /\ repair' = "readLimit"
          /\ UNCHANGED <<repairSeen, repairTodo, repairLimit, repairUsed>>
    /\ UNCHANGED <<store, quota, calls, repairCrashes>>

RepairReadLimit ==
    /\ repair = "readLimit"
    /\ repair' = "countEvents"
    /\ repairLimit' = plan
    /\ UNCHANGED <<store, quota, calls, repairSeen, repairTodo, repairUsed,
                   repairCrashes>>

\* A consistent scan of the base table, not the index.
RepairCountEvents ==
    /\ repair = "countEvents"
    /\ repair' = "rewrite"
    /\ repairUsed' = Cardinality(ActiveEvents)
    /\ UNCHANGED <<store, quota, calls, repairSeen, repairTodo, repairLimit,
                   repairCrashes>>

\* setCounterAbsolute if the row drifted; a lost race is only recorded.
RepairCounter ==
    /\ repair = "rewrite"
    /\ IF /\ Differs(repairSeen, repairLimit, repairUsed, 0)
          /\ SameRow(counter, repairSeen)
       THEN counter' = Rewrite(counter, repairLimit, repairUsed, 0)
       ELSE UNCHANGED counter
    /\ EndRepair
    /\ UNCHANGED <<store, reservation, resource, answered, expired, occupancy,
                   calls, repairCrashes>>

RepairCrash ==
    /\ repair # "idle"
    /\ repairCrashes < MaxRepairCrashes
    /\ repairCrashes' = repairCrashes + 1
    /\ EndRepair
    /\ UNCHANGED <<store, quota, calls>>
-----------------------------------------------------------------------------
Continue(p) ==
    \/ ReadLimit(p) \/ CountUsage(p) \/ InitializeCounter(p)
    \/ SetLimit(p) \/ Reread(p)
    \/ AnswerReplay(p) \/ AnswerRecovery(p) \/ CheckRoom(p) \/ Reserve(p)
    \/ Capacity(p) \/ \E e \in Events : CommitEvent(p, e) \/ DuplicateEvent(p, e)
    \/ Consume(p) \/ StoreResponse(p) \/ Release(p)
    \/ ReleaseOccupancy(p)

Begin(p) ==
    \/ \E k \in Keys : BeginCreate(p, k)
    \/ \E e \in Events : ArchiveEvent(p, e)

Repair ==
    \/ BeginRepair \/ \E k \in Keys : ExpireReservation(k)
    \/ ScanCounters \/ ScanSources \/ RepairReadLimit \/ RepairCountEvents
    \/ RepairCounter

Environment ==
    \/ \E n \in Plans : ChangePlan(n)
    \/ IndexCatchUp

\* Concurrent requests that all run to their end, between repairs.
Traffic ==
    \/ \E p \in Invocations : Begin(p) \/ Continue(p)
    \/ Environment

Next ==
    \/ Traffic
    \/ \E p \in Invocations : Crash(p)
    \/ \E k \in Keys : Expire(k)
    \/ Repair
    \/ RepairCrash

TrafficSpec == Init /\ [][Traffic]_vars
Spec == Init /\ [][Next]_vars

(* The platform ends every invocation (by its last step or its timeout),   *)
(* the schedule starts the reconciler again and again and a run that does  *)
(* not crash goes on, time passes and the index catches up.                *)
Fairness ==
    /\ \A p \in Invocations : WF_vars(Continue(p) \/ Crash(p))
    /\ WF_vars(Repair)
    /\ \A k \in Keys : WF_vars(Expire(k))
    /\ WF_vars(IndexCatchUp)

FairSpec == Spec /\ Fairness
-----------------------------------------------------------------------------
(* Properties *)

TypeOK ==
    /\ plan \in Plans
    /\ planChanges \in 0..MaxPlanChanges
    /\ status \in [Events -> {"none", "active", "archived"}]
    /\ creator \in [Events -> Keys \cup {None}]
    /\ index \subseteq Events
    /\ counter \in Counter \cup {None}
    /\ reservation \in [Keys -> {"none", "reserved", "linked", "released"}]
    /\ resource \in [Keys -> Events \cup {None}]
    /\ answered \subseteq Keys
    /\ expired \subseteq Keys
    /\ occupancy \in [Events -> {"none", "used", "released"}]
    /\ pc \in [Invocations -> {"idle"} \cup CreateSteps \cup ArchiveSteps]
    /\ key \in [Invocations -> Keys \cup {None}]
    /\ target \in [Invocations -> Events \cup {None}]
    /\ seen \in [Invocations -> Counter \cup {None}]
    /\ limit \in [Invocations -> Nat]
    /\ count \in [Invocations -> Nat]
    /\ repair \in RepairSteps
    /\ repairSeen \in Counter \cup {None}
    /\ repairTodo \subseteq Keys
    /\ repairLimit \in Nat
    /\ repairUsed \in Nat
    /\ repairCrashes \in 0..MaxRepairCrashes

\* The documented counter equation, used + reserved + available = limit, holds
\* in every row ever stored unless overLimit says that the row is above it;
\* no order of takes, uses, returns, limit changes and repairs breaks it.
CounterBalanced == counter # None => Balanced(counter)

\* The reserved column is exactly the number of open source reservations, even
\* though repairs overwrite it with 0 and crashed requests leave it behind.
ReservedExact ==
    IF counter = None THEN OpenReservations = {}
    ELSE counter.reserved = Cardinality(OpenReservations)

\* Retries of one request under one idempotency key, interleaved, crashed or
\* repaired in any way, never create two events.
OneEventPerKey ==
    \A e, f \in Events : creator[e] = creator[f] /\ creator[e] # None => e = f

\* Once the event is written its request can settle the reservation: the
\* writer's success is never answered with a quota error because the row was
\* released, replayed or repaired under it.
ConsumeSucceeds == \A p \in Invocations : pc[p] = "consume" => CanConsume(p)

\* A unit comes back to the counter only together with the row that held it, so
\* that no row gives its unit back twice; only a repair may change the columns
\* without a row.
UnitsReturnWithTheirRow ==
    [][ counter # None /\ repair' = repair
        /\ counter'.used + counter'.reserved < counter.used + counter.reserved
        => \/ \E k \in Keys : /\ reservation[k] = "reserved"
                              /\ reservation'[k] = "released"
           \/ \E e \in Events : /\ occupancy[e] = "used"
                                /\ occupancy'[e] = "released" ]_vars

\* Concurrent creates and archives never exceed the limit of the row: the
\* documented purpose of the counter.
NoOversubscription ==
    counter # None /\ ~counter.overLimit =>
        Cardinality(ActiveEvents) <= counter.limit

\* What makes it true between repairs: every active event is paid for.
CapacityCovered ==
    counter # None =>
        Cardinality(ActiveEvents) <= counter.used + counter.reserved

\* Whatever drift crashes, races and repairs cause, the counter ends up
\* telling the truth, and stays there, once the traffic has died down.
CounterExact ==
    counter # None =>
        /\ counter.limit = plan
        /\ counter.used = Cardinality(ActiveEvents)
        /\ counter.reserved = 0
        /\ counter.available = Headroom(plan, counter.used, 0)
        /\ counter.overLimit <=> counter.used > plan

Converges == <>[]CounterExact
=============================================================================

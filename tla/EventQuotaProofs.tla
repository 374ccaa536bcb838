-------------------------- MODULE EventQuotaProofs --------------------------
(***************************************************************************)
(* Theorems about EventQuota for any keys, events, invocations and plans.  *)
(* First the shape of a reachable state (WellFormed strengthens TypeOK:    *)
(* what an invocation holds at each step, and which rows imply that the    *)
(* counter row exists), then the counter equation on top of it.            *)
(***************************************************************************)
EXTENDS EventQuota, FiniteSetTheorems, TLAPS

\* The steps of a create request after its counter row was found or made.
CounterSteps == {"setLimit", "reread", "lookup", "reserve"} \cup HoldingSteps
\* The steps of a repair after it read the row.
SeenSteps == {"scanSources", "readLimit", "countEvents", "rewrite"}

WellFormed ==
    /\ \A p \in Invocations :
        /\ pc[p] \in CreateSteps => key[p] \in Keys
        /\ pc[p] \in {"consume", "store", "releaseOccupancy"}
            => target[p] \in Events
        /\ pc[p] = "setLimit" => seen[p] # None
        /\ pc[p] = "lookup" /\ reservation[key[p]] = "none" => seen[p] # None
        /\ pc[p] \in CounterSteps => counter # None
        /\ seen[p] # None => counter # None
    /\ \A k \in Keys : reservation[k] # "none" => counter # None
    /\ \A e \in Events : occupancy[e] # "none" => counter # None
    /\ repair \in SeenSteps => repairSeen # None
    /\ repairSeen # None => counter # None

Shape == TypeOK /\ WellFormed
-----------------------------------------------------------------------------
(* The row operators *)

LEMMA ComputedType ==
    ASSUME NEW l \in Nat, NEW u \in Nat, NEW r \in Nat, NEW v \in Nat
    PROVE  Computed(l, u, r, v) \in Counter /\ Balanced(Computed(l, u, r, v))
BY DEF Computed, Row, Counter, Balanced, Total

LEMMA NewCounterType ==
    ASSUME NEW l \in Nat, NEW u \in Nat, NEW r \in Nat
    PROVE  NewCounter(l, u, r) \in Counter /\ Balanced(NewCounter(l, u, r))
BY DEF NewCounter, Computed, Row, Counter, Balanced, Total

LEMMA RewriteType ==
    ASSUME NEW c \in Counter, NEW l \in Nat, NEW u \in Nat, NEW r \in Nat
    PROVE  Rewrite(c, l, u, r) \in Counter /\ Balanced(Rewrite(c, l, u, r))
BY DEF Rewrite, Computed, Row, Counter, Balanced, Total

LEMMA TakeUnitType ==
    ASSUME NEW c \in Counter, HasRoom(c)
    PROVE  /\ TakeUnit(c) \in Counter
           /\ Balanced(c) => Balanced(TakeUnit(c))
BY DEF TakeUnit, Row, Counter, HasRoom, Balanced, Total

LEMMA UseUnitType ==
    ASSUME NEW c \in Counter, c.reserved >= 1
    PROVE  /\ UseUnit(c) \in Counter
           /\ Balanced(c) => Balanced(UseUnit(c))
BY DEF UseUnit, Row, Counter, Balanced, Total

LEMMA ReturnReservedType ==
    ASSUME NEW c \in Counter, c.reserved >= 1
    PROVE  /\ ReturnReserved(c) \in Counter
           /\ Balanced(c) => Balanced(ReturnReserved(c))
BY DEF ReturnReserved, Row, Counter, Balanced, Total

LEMMA ReturnUsedType ==
    ASSUME NEW c \in Counter, c.used >= 1
    PROVE  /\ ReturnUsed(c) \in Counter
           /\ Balanced(c) => Balanced(ReturnUsed(c))
BY DEF ReturnUsed, Row, Counter, Balanced, Total

LEMMA CountType ==
    ASSUME NEW S \in SUBSET Events
    PROVE  Cardinality(S) \in Nat
BY FiniteAssumption, FS_Subset, FS_CardinalityType
-----------------------------------------------------------------------------
LEMMA ShapeInit == Init => Shape
<1> SUFFICES ASSUME Init PROVE Shape
    OBVIOUS
<1>1. TypeOK
    BY LegacyAssumption, BoundsAssumption
       DEF Init, TypeOK, CreateSteps, HoldingSteps, ArchiveSteps, RepairSteps
<1>2. WellFormed
    BY DEF Init, WellFormed, CreateSteps, HoldingSteps, CounterSteps, SeenSteps
<1> QED BY <1>1, <1>2 DEF Shape

LEMMA ShapeNext == Shape /\ [Next]_vars => Shape'
<1> SUFFICES ASSUME Shape, [Next]_vars PROVE Shape'
    OBVIOUS
<1> USE NoneAssumption, BoundsAssumption
        DEF Shape, TypeOK, WellFormed, CreateSteps, HoldingSteps, ArchiveSteps,
            CounterSteps, RepairSteps, SeenSteps, store, quota, calls, repairs
<1>1. ASSUME NEW p \in Invocations, NEW k \in Keys, BeginCreate(p, k)
      PROVE  Shape'
    BY <1>1 DEF BeginCreate, Goto
<1>2. ASSUME NEW p \in Invocations, NEW e \in Events, ArchiveEvent(p, e)
      PROVE  Shape'
    BY <1>2 DEF ArchiveEvent, Goto, IndexWrite, ActiveEvents
<1>3. ASSUME NEW p \in Invocations, ReadLimit(p)
      PROVE  Shape'
    BY <1>3, PlansAssumption DEF ReadLimit, Goto
<1>4. ASSUME NEW p \in Invocations, CountUsage(p)
      PROVE  Shape'
    BY <1>4, CountType DEF CountUsage, Goto
<1>5. ASSUME NEW p \in Invocations, InitializeCounter(p)
      PROVE  Shape'
    <2>1. CASE counter = None
      <3>1. counter' = NewCounter(limit[p], count[p], 0)
        BY <1>5, <2>1 DEF InitializeCounter
      <3>2. counter' \in Counter
        BY <3>1, NewCounterType
      <3> QED BY <1>5, <2>1, <3>2 DEF InitializeCounter, Goto
    <2>2. CASE counter # None
      BY <1>5, <2>2 DEF InitializeCounter, Goto
    <2> QED BY <2>1, <2>2
<1>6. ASSUME NEW p \in Invocations, SetLimit(p)
      PROVE  Shape'
    <2>1. counter \in Counter /\ seen[p] \in Counter
      BY <1>6 DEF SetLimit
    <2>2. CASE SameRow(counter, seen[p])
      <3>1. counter' = Rewrite(counter, limit[p], seen[p].used,
                               seen[p].reserved)
        BY <1>6, <2>2 DEF SetLimit
      <3>2. seen[p].used \in Nat /\ seen[p].reserved \in Nat
        BY <2>1 DEF Counter
      <3>3. counter' \in Counter
        BY <2>1, <3>1, <3>2, RewriteType
      <3> QED BY <1>6, <2>1, <2>2, <3>3 DEF SetLimit, Goto
    <2>3. CASE ~SameRow(counter, seen[p])
      BY <1>6, <2>1, <2>3 DEF SetLimit, Goto
    <2> QED BY <2>2, <2>3
<1>7. ASSUME NEW p \in Invocations, Reread(p)
      PROVE  Shape'
    BY <1>7 DEF Reread, Goto
<1>8. ASSUME NEW p \in Invocations, AnswerReplay(p)
      PROVE  Shape'
    BY <1>8 DEF AnswerReplay, Return, Forget
<1>9. ASSUME NEW p \in Invocations, AnswerRecovery(p)
      PROVE  Shape'
    BY <1>9 DEF AnswerRecovery, Return, Forget
<1>10. ASSUME NEW p \in Invocations, CheckRoom(p)
      PROVE  Shape'
    BY <1>10 DEF CheckRoom, Goto, Return, Forget
<1>11. ASSUME NEW p \in Invocations, Reserve(p)
      PROVE  Shape'
    <2>1. counter \in Counter /\ key[p] \in Keys
      BY <1>11 DEF Reserve
    <2>2. CASE HasRoom(counter) /\ reservation[key[p]] = "none"
      <3>1. counter' = TakeUnit(counter)
        BY <1>11, <2>2 DEF Reserve
      <3>2. counter' \in Counter
        BY <2>1, <2>2, <3>1, TakeUnitType
      <3> QED BY <1>11, <2>1, <2>2, <3>2 DEF Reserve, Goto
    <2>3. CASE reservation[key[p]] # "none"
      <3>1. /\ pc' = [pc EXCEPT ![p] = "lookup"] /\ pc[p] = "reserve"
            /\ UNCHANGED <<store, quota, repairs, key, target, seen, limit,
                           count>>
        BY <1>11, <2>3 DEF Reserve, Goto
      <3> QED BY <2>1, <2>3, <3>1
    <2>4. CASE ~HasRoom(counter) /\ reservation[key[p]] = "none"
      BY <1>11, <2>1, <2>4 DEF Reserve, Return, Forget
    <2> QED BY <2>2, <2>3, <2>4
<1>12. ASSUME NEW p \in Invocations, Capacity(p)
      PROVE  Shape'
    BY <1>12 DEF Capacity, Goto
<1>13. ASSUME NEW p \in Invocations, NEW e \in Events, CommitEvent(p, e)
      PROVE  Shape'
    BY <1>13 DEF CommitEvent, Goto, IndexWrite, ActiveEvents
<1>14. ASSUME NEW p \in Invocations, Consume(p)
      PROVE  Shape'
    BY <1>14, UseUnitType DEF Consume, CanConsume, Goto, Return, Forget
<1>15. ASSUME NEW p \in Invocations, StoreResponse(p)
      PROVE  Shape'
    BY <1>15 DEF StoreResponse, Return, Forget
<1>16. ASSUME NEW p \in Invocations, Release(p)
      PROVE  Shape'
    BY <1>16, ReturnReservedType DEF Release, ReleaseSource, Return, Forget
<1>17. ASSUME NEW p \in Invocations, ReleaseOccupancy(p)
      PROVE  Shape'
    BY <1>17, ReturnUsedType DEF ReleaseOccupancy, Return, Forget
<1>18. ASSUME NEW p \in Invocations, Crash(p)
      PROVE  Shape'
    BY <1>18 DEF Crash, Return, Forget
<1>19. ASSUME NEW k \in Keys, Expire(k)
      PROVE  Shape'
    BY <1>19 DEF Expire
<1>20. ASSUME NEW n \in Plans, ChangePlan(n)
      PROVE  Shape'
    BY <1>20 DEF ChangePlan
<1>21. ASSUME IndexCatchUp
      PROVE  Shape'
    BY <1>21 DEF IndexCatchUp, ActiveEvents
<1>22. ASSUME BeginRepair
      PROVE  Shape'
    BY <1>22 DEF BeginRepair
<1>23. ASSUME NEW k \in Keys, ExpireReservation(k)
      PROVE  Shape'
    BY <1>23, ReturnReservedType DEF ExpireReservation, ReleaseSource
<1>24. ASSUME ScanCounters
      PROVE  Shape'
    BY <1>24 DEF ScanCounters, EndRepair
<1>25. ASSUME ScanSources
      PROVE  Shape'
    BY <1>25 DEF ScanSources, EndRepair
<1>26. ASSUME RepairReadLimit
      PROVE  Shape'
    BY <1>26, PlansAssumption DEF RepairReadLimit
<1>27. ASSUME RepairCountEvents
      PROVE  Shape'
    BY <1>27, CountType DEF RepairCountEvents, ActiveEvents
<1>28. ASSUME RepairCounter
      PROVE  Shape'
    <2>1. counter \in Counter
      BY <1>28 DEF RepairCounter
    <2>2. counter' \in Counter
      <3>1. CASE counter' = Rewrite(counter, repairLimit, repairUsed, 0)
        BY <2>1, <3>1, RewriteType
      <3>2. CASE counter' = counter
        BY <2>1, <3>2
      <3> QED BY <1>28, <3>1, <3>2 DEF RepairCounter
    <2> QED BY <1>28, <2>1, <2>2 DEF RepairCounter, EndRepair
<1>29. ASSUME RepairCrash
      PROVE  Shape'
    BY <1>29 DEF RepairCrash, EndRepair
<1>30. CASE UNCHANGED vars
    BY <1>30 DEF vars
<1> QED
    BY <1>1, <1>2, <1>3, <1>4, <1>5, <1>6, <1>7, <1>8, <1>9, <1>10, <1>11, <1>12, <1>13, <1>14, <1>15, <1>16, <1>17, <1>18, <1>19, <1>20, <1>21, <1>22, <1>23, <1>24, <1>25, <1>26, <1>27, <1>28, <1>29, <1>30
       DEF Next, Traffic, Begin, Continue, DuplicateEvent, Environment, Repair

(* Every value the rows, the invocations and the reconciler ever hold is of *)
(* its type: no write of the counter takes a column below zero, because     *)
(* each is conditioned on the row it finds.                                 *)
THEOREM TypeCorrect == Spec => []TypeOK
<1>1. Init => Shape
    BY ShapeInit
<1>2. Shape /\ [Next]_vars => Shape'
    BY ShapeNext
<1>3. Shape => TypeOK
    BY DEF Shape
<1> QED
    BY <1>1, <1>2, <1>3, PTL DEF Spec
-----------------------------------------------------------------------------
(* The counter equation *)

\* Only these steps write the counter.
LEMMA CounterWrites ==
    ASSUME [Next]_vars, counter' # counter
    PROVE  \/ \E p \in Invocations :
                \/ InitializeCounter(p) \/ SetLimit(p)
                \/ Reserve(p) \/ Consume(p) \/ Release(p) \/ ReleaseOccupancy(p)
           \/ \E k \in Keys : ExpireReservation(k)
           \/ RepairCounter
BY DEF Next, Traffic, Begin, Continue, DuplicateEvent, Environment, Repair, vars, quota,
   BeginCreate, ArchiveEvent, ReadLimit, CountUsage, Reread, AnswerReplay,
   AnswerRecovery, CheckRoom, Capacity, CommitEvent, StoreResponse, Crash,
   Expire, ChangePlan, IndexCatchUp, BeginRepair, ScanCounters, ScanSources,
   RepairReadLimit, RepairCountEvents, RepairCrash

LEMMA BalancedNext == Shape /\ CounterBalanced /\ [Next]_vars => CounterBalanced'
<1> SUFFICES ASSUME Shape, CounterBalanced, [Next]_vars, counter' # None
             PROVE  Balanced(counter')
    BY DEF CounterBalanced, Balanced, Total
<1>1. CASE counter' = counter
    BY <1>1 DEF CounterBalanced, Balanced, Total
<1>2. ASSUME NEW p \in Invocations, counter' # counter, InitializeCounter(p)
      PROVE  Balanced(counter')
    <2>1. counter' = NewCounter(limit[p], count[p], 0)
      BY <1>2 DEF InitializeCounter
    <2>2. limit[p] \in Nat /\ count[p] \in Nat
      BY DEF Shape, TypeOK
    <2> QED BY <2>1, <2>2, NewCounterType
<1> DEFINE Rewritten == \E l, u, r \in Nat : counter' = Rewrite(counter, l, u, r)
<1>3. ASSUME Rewritten, counter \in Counter
      PROVE  Balanced(counter')
    BY <1>3, RewriteType
<1>4. ASSUME NEW p \in Invocations, counter' # counter, SetLimit(p)
      PROVE  Balanced(counter')
    <2>1. counter \in Counter /\ seen[p] \in Counter /\ limit[p] \in Nat
      BY <1>4 DEF SetLimit, Shape, TypeOK, WellFormed, CounterSteps
    <2>2. seen[p].used \in Nat /\ seen[p].reserved \in Nat
      BY <2>1 DEF Counter
    <2>3. counter' = Rewrite(counter, limit[p], seen[p].used, seen[p].reserved)
      BY <1>4 DEF SetLimit
    <2> QED BY <1>3, <2>1, <2>2, <2>3
<1>5. ASSUME counter' # counter, RepairCounter
      PROVE  Balanced(counter')
    <2>1. counter \in Counter /\ repairLimit \in Nat /\ repairUsed \in Nat
      BY <1>5 DEF RepairCounter, Shape, TypeOK, WellFormed, SeenSteps
    <2>2. counter' = Rewrite(counter, repairLimit, repairUsed, 0)
      BY <1>5 DEF RepairCounter
    <2> QED BY <1>3, <2>1, <2>2
<1> DEFINE Moved == \/ HasRoom(counter) /\ counter' = TakeUnit(counter)
                    \/ counter.reserved >= 1 /\ counter' = UseUnit(counter)
                    \/ counter.reserved >= 1 /\ counter' = ReturnReserved(counter)
                    \/ counter.used >= 1 /\ counter' = ReturnUsed(counter)
<1>6. ASSUME Moved, counter \in Counter
      PROVE  Balanced(counter')
    <2>1. Balanced(counter)
      BY <1>6, NoneAssumption DEF CounterBalanced
    <2> QED BY <1>6, <2>1, TakeUnitType, UseUnitType, ReturnReservedType,
               ReturnUsedType
<1>7. ASSUME NEW p \in Invocations, counter' # counter,
             Reserve(p) \/ Consume(p) \/ Release(p) \/ ReleaseOccupancy(p)
      PROVE  Balanced(counter')
    <2>1. Moved
      BY <1>7 DEF Reserve, Consume, CanConsume, Release, ReleaseSource,
                  ReleaseOccupancy
    <2>2. counter \in Counter
      BY <1>7 DEF Reserve, Consume, CanConsume, Release, ReleaseSource,
                  ReleaseOccupancy, Shape, TypeOK, WellFormed, CounterSteps,
                  HoldingSteps
    <2> QED BY <1>6, <2>1, <2>2
<1>8. ASSUME NEW k \in Keys, counter' # counter, ExpireReservation(k)
      PROVE  Balanced(counter')
    <2>1. Moved
      BY <1>8 DEF ExpireReservation, ReleaseSource
    <2>2. counter \in Counter
      BY <1>8 DEF ExpireReservation, ReleaseSource, Shape, TypeOK, WellFormed
    <2> QED BY <1>6, <2>1, <2>2
<1> QED
    BY <1>1, <1>2, <1>4, <1>5, <1>7, <1>8, CounterWrites

(* The documented counter equation holds in every row ever stored, for any  *)
(* number of requests, retries, crashes, plan changes and repairs.          *)
THEOREM BalancedAlways == Spec => []CounterBalanced
<1>1. Init => Shape /\ CounterBalanced
    BY ShapeInit DEF Init, CounterBalanced
<1>2. Shape /\ CounterBalanced /\ [Next]_vars => (Shape /\ CounterBalanced)'
    BY ShapeNext, BalancedNext
<1> QED
    BY <1>1, <1>2, PTL DEF Spec
-----------------------------------------------------------------------------
(* The reserved column.  A repair overwrites it with 0, which is right only *)
(* if no reservation is open.  It looked at the reservations before it      *)
(* writes, and writes only over the row it read before it looked: whoever   *)
(* reserved in between has changed the row's revision (RepairFresh).        *)

RepairFresh ==
    /\ repair \in SeenSteps => repairSeen.revision <= counter.revision
    /\ /\ repair \in SeenSteps \ {"scanSources"}
       /\ repairSeen.revision = counter.revision
       => OpenReservations = {}

Ledger == Shape /\ ReservedExact /\ RepairFresh

LEMMA OpenGains ==
    ASSUME TypeOK, NEW k \in Keys, reservation[k] # "reserved",
           reservation' = [reservation EXCEPT ![k] = "reserved"]
    PROVE  /\ Cardinality(OpenReservations) \in Nat
           /\ Cardinality(OpenReservations') = Cardinality(OpenReservations) + 1
<1>1. OpenReservations' = OpenReservations \cup {k}
    BY DEF OpenReservations, TypeOK
<1>2. k \notin OpenReservations
    BY DEF OpenReservations
<1>3. IsFiniteSet(OpenReservations)
    BY FiniteAssumption, FS_Subset DEF OpenReservations
<1> QED
    BY <1>1, <1>2, <1>3, FS_AddElement, FS_CardinalityType

LEMMA OpenLoses ==
    ASSUME TypeOK, NEW k \in Keys, reservation[k] = "reserved",
           NEW s \in {"linked", "released"},
           reservation' = [reservation EXCEPT ![k] = s]
    PROVE  /\ Cardinality(OpenReservations) \in Nat
           /\ Cardinality(OpenReservations') = Cardinality(OpenReservations) - 1
           /\ OpenReservations # {}
<1>1. OpenReservations' = OpenReservations \ {k}
    BY DEF OpenReservations, TypeOK
<1>2. k \in OpenReservations
    BY DEF OpenReservations
<1>3. IsFiniteSet(OpenReservations)
    BY FiniteAssumption, FS_Subset DEF OpenReservations
<1> QED
    BY <1>1, <1>2, <1>3, FS_RemoveElement, FS_CardinalityType

\* What the writes of the counter do to the two columns of interest.
LEMMA Columns ==
    ASSUME NEW c \in Counter
    PROVE  /\ TakeUnit(c).reserved = c.reserved + 1
           /\ UseUnit(c).reserved = c.reserved - 1
           /\ ReturnReserved(c).reserved = c.reserved - 1
           /\ ReturnUsed(c).reserved = c.reserved
           /\ TakeUnit(c).revision = c.revision + 1
           /\ UseUnit(c).revision = c.revision + 1
           /\ ReturnReserved(c).revision = c.revision + 1
           /\ ReturnUsed(c).revision = c.revision + 1
           /\ \A l, u, r \in Nat : /\ Rewrite(c, l, u, r).reserved = r
                                   /\ Rewrite(c, l, u, r).revision = c.revision + 1
           /\ \A l, u, r \in Nat : NewCounter(l, u, r).reserved = r
           /\ c.reserved \in Nat /\ c.revision \in Nat /\ c.used \in Nat
BY DEF TakeUnit, UseUnit, ReturnReserved, ReturnUsed, Rewrite, NewCounter,
       Computed, Row, Counter

LEMMA LedgerNext == Ledger /\ [Next]_vars => Ledger'
<1> SUFFICES ASSUME Ledger, [Next]_vars PROVE Ledger'
    OBVIOUS
<1>1. Shape'
    BY ShapeNext DEF Ledger
<1>2. TypeOK /\ WellFormed /\ TypeOK' /\ WellFormed'
    BY <1>1 DEF Ledger, Shape
\* Either the counter and the reservations are left alone ...
<1>3. ASSUME UNCHANGED <<counter, reservation>>
      PROVE  ReservedExact'
    BY <1>3 DEF Ledger, ReservedExact, OpenReservations
<1>4. ASSUME UNCHANGED <<counter, reservation, repair, repairSeen>>
      PROVE  Ledger'
    BY <1>1, <1>3, <1>4 DEF Ledger, RepairFresh, OpenReservations
\* ... or a request or the reconciler moves one unit ...
<1> DEFINE Advance == /\ counter' \in Counter /\ counter \in Counter
                      /\ counter'.revision = counter.revision + 1
                      /\ UNCHANGED <<repair, repairSeen>>
<1>5. ASSUME Advance PROVE RepairFresh'
    <2>1. repair \in SeenSteps => repairSeen \in Counter
      BY <1>2 DEF TypeOK, WellFormed
    <2>2. repair \in SeenSteps => repairSeen.revision \in Nat
      BY <2>1 DEF Counter
    <2>3. counter.revision \in Nat
      BY <1>5 DEF Counter
    <2> QED BY <1>5, <2>2, <2>3 DEF Ledger, RepairFresh
<1>6. ASSUME NEW p \in Invocations, InitializeCounter(p), counter = None
      PROVE  Ledger'
    <2>1. counter' = NewCounter(limit[p], count[p], 0)
      BY <1>6 DEF InitializeCounter
    <2>2. limit[p] \in Nat /\ count[p] \in Nat
      BY <1>2 DEF TypeOK
    <2>3. counter'.reserved = 0
      BY <2>1, <2>2 DEF NewCounter, Computed, Row
    <2>4. OpenReservations' = {}
      BY <1>6 DEF InitializeCounter, Ledger, ReservedExact, OpenReservations
    <2>5. repair \notin SeenSteps /\ repair' = repair
      BY <1>2, <1>6 DEF WellFormed, InitializeCounter, repairs
    <2> QED BY <1>1, <2>3, <2>4, <2>5, FS_EmptySet
            DEF Ledger, ReservedExact, RepairFresh
<1>7. ASSUME NEW p \in Invocations, SetLimit(p), SameRow(counter, seen[p])
      PROVE  Ledger'
    <2>1. counter \in Counter /\ seen[p] \in Counter /\ limit[p] \in Nat
      BY <1>2, <1>7 DEF TypeOK, WellFormed, SetLimit, CounterSteps
    <2>2. counter' = Rewrite(counter, limit[p], seen[p].used, seen[p].reserved)
      BY <1>7 DEF SetLimit
    <2>3. /\ counter'.reserved = seen[p].reserved
          /\ counter'.revision = counter.revision + 1
          /\ counter' \in Counter
      <3>1. seen[p].used \in Nat /\ seen[p].reserved \in Nat
        BY <2>1, Columns
      <3>2. counter' \in Counter
        BY <2>1, <2>2, <3>1, RewriteType
      <3>3. \A l, u, r \in Nat : /\ Rewrite(counter, l, u, r).reserved = r
                                 /\ Rewrite(counter, l, u, r).revision
                                        = counter.revision + 1
        BY <2>1, Columns
      <3> QED BY <2>1, <2>2, <3>1, <3>2, <3>3
    <2>4. counter'.reserved = counter.reserved
      BY <1>7, <2>3 DEF SameRow
    <2>5. counter' # None /\ counter' \in Counter
      BY <2>3, NoneAssumption
    <2>6. RepairFresh'
      BY <1>5, <1>7, <2>1, <2>3, <2>5 DEF SetLimit, repairs
    <2>7. UNCHANGED OpenReservations /\ counter # None
      BY <1>7, <2>1, NoneAssumption DEF SetLimit, OpenReservations
    <2> QED BY <1>1, <2>4, <2>5, <2>6, <2>7 DEF Ledger, ReservedExact
<1>8. ASSUME NEW p \in Invocations, Reserve(p),
              ~UNCHANGED <<counter, reservation>>
      PROVE  Ledger'
    <2>1. /\ counter \in Counter /\ key[p] \in Keys
          /\ HasRoom(counter) /\ reservation[key[p]] = "none"
          /\ counter' = TakeUnit(counter)
          /\ reservation' = [reservation EXCEPT ![key[p]] = "reserved"]
      BY <1>2, <1>8 DEF Reserve, TypeOK, WellFormed, CounterSteps, CreateSteps
    <2>2. counter' \in Counter /\ counter # None /\ counter' # None
      BY <2>1, TakeUnitType, NoneAssumption
    <2>3. Cardinality(OpenReservations') = Cardinality(OpenReservations) + 1
      BY <1>2, <2>1, OpenGains
    <2>4. RepairFresh'
      BY <1>5, <1>8, <2>1, <2>2, Columns DEF Reserve, repairs
    <2> QED BY <1>1, <2>1, <2>2, <2>3, <2>4, Columns DEF Ledger, ReservedExact
<1>9. ASSUME NEW p \in Invocations, Consume(p),
              ~UNCHANGED <<counter, reservation>>
      PROVE  Ledger'
    <2>1. /\ counter \in Counter /\ key[p] \in Keys
          /\ counter.reserved >= 1 /\ reservation[key[p]] = "reserved"
          /\ counter' = UseUnit(counter)
          /\ reservation' = [reservation EXCEPT ![key[p]] = "linked"]
      BY <1>2, <1>9 DEF Consume, CanConsume, TypeOK, WellFormed, CounterSteps,
                        CreateSteps, HoldingSteps
    <2>2. counter' \in Counter /\ counter # None /\ counter' # None
      BY <2>1, UseUnitType, NoneAssumption
    <2>3. Cardinality(OpenReservations') = Cardinality(OpenReservations) - 1
      BY <1>2, <2>1, OpenLoses
    <2>4. RepairFresh'
      BY <1>5, <1>9, <2>1, <2>2, Columns DEF Consume, repairs
    <2> QED BY <1>1, <2>1, <2>2, <2>3, <2>4, Columns DEF Ledger, ReservedExact
<1>10. ASSUME NEW k \in Keys, ReleaseSource(k),
              ~UNCHANGED <<counter, reservation>>,
              UNCHANGED <<repair, repairSeen>>
       PROVE  Ledger'
    <2>1. /\ counter \in Counter
          /\ counter.reserved >= 1 /\ reservation[k] = "reserved"
          /\ counter' = ReturnReserved(counter)
          /\ reservation' = [reservation EXCEPT ![k] = "released"]
      BY <1>2, <1>10 DEF ReleaseSource, TypeOK, WellFormed
    <2>2. counter' \in Counter /\ counter # None /\ counter' # None
      BY <2>1, ReturnReservedType, NoneAssumption
    <2>3. Cardinality(OpenReservations') = Cardinality(OpenReservations) - 1
      BY <1>2, <2>1, OpenLoses
    <2>4. RepairFresh'
      BY <1>5, <1>10, <2>1, <2>2, Columns
    <2> QED BY <1>1, <2>1, <2>2, <2>3, <2>4, Columns DEF Ledger, ReservedExact
<1>11. ASSUME NEW p \in Invocations, ReleaseOccupancy(p),
              ~UNCHANGED <<counter, reservation>>
       PROVE  Ledger'
    <2>1. /\ counter \in Counter /\ counter.used >= 1
          /\ counter' = ReturnUsed(counter)
          /\ UNCHANGED OpenReservations
      BY <1>2, <1>11 DEF ReleaseOccupancy, TypeOK, WellFormed, ArchiveSteps,
                         OpenReservations
    <2>2. counter' \in Counter /\ counter # None /\ counter' # None
      BY <2>1, ReturnUsedType, NoneAssumption
    <2>4. RepairFresh'
      BY <1>5, <1>11, <2>1, <2>2, Columns DEF ReleaseOccupancy, repairs
    <2> QED BY <1>1, <2>1, <2>2, <2>4, Columns DEF Ledger, ReservedExact
\* ... or the reconciler looks around and rewrites the row.
<1>12. ASSUME ScanCounters PROVE Ledger'
    <2>1. RepairFresh'
      <3>1. CASE counter = None
        BY <1>12, <3>1 DEF ScanCounters, EndRepair, RepairFresh, SeenSteps
      <3>2. CASE counter # None
        <4>1. counter.revision \in Nat
          BY <1>2, <3>2, NoneAssumption DEF TypeOK, Counter
        <4> QED BY <1>12, <3>2, <4>1
                DEF ScanCounters, RepairFresh, SeenSteps, quota
      <3> QED BY <3>1, <3>2
    <2> QED BY <1>1, <1>3, <1>12, <2>1 DEF Ledger, ScanCounters, quota
<1>13. ASSUME ScanSources PROVE Ledger'
    BY <1>1, <1>3, <1>13
       DEF Ledger, ScanSources, EndRepair, RepairFresh, SeenSteps, quota,
           OpenReservations
<1>14. ASSUME RepairReadLimit \/ RepairCountEvents PROVE Ledger'
    BY <1>1, <1>3, <1>14
       DEF Ledger, RepairReadLimit, RepairCountEvents, RepairFresh, SeenSteps,
           quota, OpenReservations
<1>15. ASSUME RepairCounter PROVE Ledger'
    <2>1. /\ counter \in Counter /\ counter # None
          /\ repairLimit \in Nat /\ repairUsed \in Nat
      BY <1>2, <1>15, NoneAssumption
         DEF RepairCounter, TypeOK, WellFormed, SeenSteps
    <2>2. ASSUME SameRow(counter, repairSeen),
                 counter' = Rewrite(counter, repairLimit, repairUsed, 0)
          PROVE  ReservedExact'
      <3>1. OpenReservations = {}
        BY <1>15, <2>2 DEF Ledger, RepairFresh, RepairCounter, SeenSteps, SameRow
      <3>2. OpenReservations' = {}
        BY <1>15, <3>1 DEF RepairCounter, OpenReservations
      <3>3. counter'.reserved = 0 /\ counter' # None
        <4>1. counter' \in Counter
          BY <2>1, <2>2, RewriteType
        <4>2. \A l, u, r \in Nat : Rewrite(counter, l, u, r).reserved = r
          BY <2>1, Columns
        <4> QED BY <2>1, <2>2, <4>1, <4>2, NoneAssumption
      <3> QED BY <3>2, <3>3, FS_EmptySet DEF ReservedExact
    <2>3. ReservedExact'
      BY <1>3, <1>15, <2>2 DEF RepairCounter
    <2>4. RepairFresh'
      BY <1>15 DEF RepairCounter, EndRepair, RepairFresh, SeenSteps
    <2> QED BY <1>1, <2>3, <2>4 DEF Ledger
<1>16. ASSUME BeginRepair \/ RepairCrash PROVE Ledger'
    BY <1>1, <1>3, <1>16
       DEF Ledger, BeginRepair, RepairCrash, EndRepair, RepairFresh, SeenSteps,
           quota
<1>17. ASSUME NEW p \in Invocations,
              \/ InitializeCounter(p) /\ counter # None
              \/ SetLimit(p) /\ ~SameRow(counter, seen[p])
              \/ /\ UNCHANGED <<counter, reservation>>
                 /\ Reserve(p) \/ Consume(p) \/ Release(p) \/ ReleaseOccupancy(p)
       PROVE  Ledger'
    BY <1>4, <1>17 DEF InitializeCounter, SetLimit, Reserve, Consume, Release,
                       ReleaseOccupancy, repairs
<1>18. ASSUME NEW p \in Invocations,
              \/ InitializeCounter(p) \/ SetLimit(p) \/ Reserve(p)
              \/ Consume(p) \/ Release(p) \/ ReleaseOccupancy(p)
       PROVE  Ledger'
    <2>1. CASE Release(p) /\ ~UNCHANGED <<counter, reservation>>
      <3>1. key[p] \in Keys
        BY <1>2, <2>1 DEF Release, WellFormed, CreateSteps, HoldingSteps
      <3> QED BY <1>10, <2>1, <3>1 DEF Release, repairs
    <2> QED BY <1>6, <1>7, <1>8, <1>9, <1>11, <1>17, <1>18, <2>1
<1>19. ASSUME NEW k \in Keys, ExpireReservation(k) PROVE Ledger'
    <2>1. CASE UNCHANGED <<counter, reservation>>
      BY <1>4, <1>19, <2>1 DEF ExpireReservation
    <2> QED BY <1>10, <1>19, <2>1 DEF ExpireReservation
<1>20. \/ \E p \in Invocations :
             \/ InitializeCounter(p) \/ SetLimit(p) \/ Reserve(p)
             \/ Consume(p) \/ Release(p) \/ ReleaseOccupancy(p)
       \/ \E k \in Keys : ExpireReservation(k)
       \/ ScanCounters \/ ScanSources \/ RepairReadLimit \/ RepairCountEvents
       \/ RepairCounter \/ BeginRepair \/ RepairCrash
       \/ UNCHANGED <<counter, reservation, repair, repairSeen>>
    BY DEF Next, Traffic, Begin, Continue, DuplicateEvent, Environment, Repair, vars, quota,
       repairs, BeginCreate, ArchiveEvent, ReadLimit, CountUsage, Reread,
       AnswerReplay, AnswerRecovery, CheckRoom, Capacity, CommitEvent,
       StoreResponse, Crash, Expire, ChangePlan, IndexCatchUp
<1> QED
    BY <1>4, <1>12, <1>13, <1>14, <1>15, <1>16, <1>18, <1>19, <1>20

LEMMA LedgerInit == Init => Ledger
BY ShapeInit DEF Init, Ledger, ReservedExact, RepairFresh, OpenReservations, SeenSteps

(* The reserved column is always the number of open reservations: repairs   *)
(* that write 0 into it, and crashed requests whose reservation expires     *)
(* later, never make the two differ.                                        *)
THEOREM ReservedAlwaysExact == Spec => []ReservedExact
<1>1. Init => Ledger
    BY LedgerInit
<1>2. Ledger /\ [Next]_vars => Ledger'
    BY LedgerNext
<1>3. Ledger => ReservedExact
    BY DEF Ledger
<1> QED
    BY <1>1, <1>2, <1>3, PTL DEF Spec
-----------------------------------------------------------------------------
(* Units *)

Returned ==
    \/ \E k \in Keys : reservation[k] = "reserved" /\ reservation'[k] = "released"
    \/ \E e \in Events : occupancy[e] = "used" /\ occupancy'[e] = "released"

LEMMA UnitsReturnedStep ==
    ASSUME Shape, [Next]_vars, counter # None, repair' = repair,
           counter'.used + counter'.reserved < counter.used + counter.reserved
    PROVE  Returned
<1>1. counter \in Counter /\ counter.used \in Nat /\ counter.reserved \in Nat
  BY DEF Shape, TypeOK, Counter
<1>2. counter' # counter
  BY <1>1
<1>3. ASSUME NEW p \in Invocations, SetLimit(p) PROVE FALSE
  BY <1>1, <1>2, <1>3 DEF SetLimit, SameRow, Rewrite, Computed, Row
<1>4. ASSUME NEW p \in Invocations, Reserve(p) \/ Consume(p) PROVE FALSE
  BY <1>1, <1>2, <1>4 DEF Reserve, TakeUnit, Consume, UseUnit, Row
<1>5. ASSUME NEW k \in Keys, ReleaseSource(k) PROVE Returned
  BY <1>2, <1>5 DEF ReleaseSource, Returned, Shape, TypeOK
<1>6. ASSUME NEW p \in Invocations, Release(p) PROVE key[p] \in Keys /\ ReleaseSource(key[p])
  BY <1>6 DEF Release, Shape, WellFormed, CreateSteps, HoldingSteps
<1>7. ASSUME NEW p \in Invocations, ReleaseOccupancy(p) PROVE Returned
  BY <1>2, <1>7 DEF ReleaseOccupancy, Returned, Shape, TypeOK, WellFormed
<1>8. ASSUME RepairCounter PROVE FALSE
  BY <1>8 DEF RepairCounter, EndRepair
<1>9. ASSUME NEW p \in Invocations, InitializeCounter(p) PROVE FALSE
  BY <1>2, <1>9 DEF InitializeCounter
<1> QED
  BY <1>2, <1>3, <1>4, <1>5, <1>6, <1>7, <1>8, <1>9, CounterWrites DEF ExpireReservation

(* A unit comes back to the counter only together with the row that held    *)
(* it, whoever releases it and however often: only a repair changes the     *)
(* columns without a row.                                                   *)
THEOREM UnitsReturned == Spec => UnitsReturnWithTheirRow
<1>1. Init => Shape
  BY ShapeInit
<1>2. Shape /\ [Next]_vars => Shape'
  BY ShapeNext
<1>3. Shape /\ [Next]_vars =>
        (counter # None /\ repair' = repair
         /\ counter'.used + counter'.reserved < counter.used + counter.reserved
         => \/ \E k \in Keys : /\ reservation[k] = "reserved"
                               /\ reservation'[k] = "released"
            \/ \E e \in Events : /\ occupancy[e] = "used"
                                 /\ occupancy'[e] = "released")
  BY UnitsReturnedStep DEF Returned
<1> QED
  BY <1>1, <1>2, <1>3, PTL DEF Spec, UnitsReturnWithTheirRow
-----------------------------------------------------------------------------
(* One request, one event *)

\* Where a request holds the reservation it made, and it is still open.
OpenSteps == HoldingSteps \ {"store"}

\* A reservation belongs to the one request that made it, until that request
\* has ended; and a key that has no reservation has no event.
Custody ==
    /\ \A p \in Invocations : pc[p] \in HoldingSteps =>
          /\ reservation[key[p]] # "none"
          /\ key[p] \notin expired \cup repairTodo
          /\ \A q \in Invocations : pc[q] \in HoldingSteps /\ key[q] = key[p] => q = p
    /\ \A p \in Invocations : pc[p] \in OpenSteps => reservation[key[p]] = "reserved"
    /\ \A k \in expired \cup repairTodo : reservation[k] # "none"

\* An event belongs to the request that created it.
Created ==
    /\ \A e \in Events : creator[e] # None => reservation[creator[e]] # "none"
    /\ \A p \in Invocations : pc[p] \in {"capacity", "commit", "release"} =>
          \A e \in Events : creator[e] # key[p]
    /\ \A p \in Invocations : pc[p] = "consume" =>
          creator[target[p]] = key[p] /\ occupancy[target[p]] = "none"
    /\ \A e \in Events : creator[e] = None \/ status[e] = "none" => occupancy[e] = "none"
    /\ \A e \in Events : status[e] = "none" => creator[e] = None
    /\ OneEventPerKey

LEMMA CustodyNext == Shape /\ Custody /\ [Next]_vars => Custody'
<1> SUFFICES ASSUME Shape, Custody, [Next]_vars PROVE Custody'
    OBVIOUS
<1> USE NoneAssumption DEF Custody, OpenSteps, HoldingSteps, Shape, TypeOK, WellFormed, CreateSteps, store, quota, calls, repairs
<1>1. ASSUME NEW p \in Invocations, NEW k \in Keys, BeginCreate(p, k)
      PROVE  Custody'
    BY <1>1 DEF BeginCreate, Goto
<1>2. ASSUME NEW p \in Invocations, NEW e \in Events, ArchiveEvent(p, e)
      PROVE  Custody'
    BY <1>2 DEF ArchiveEvent, Goto
<1>3. ASSUME NEW p \in Invocations, \/ ReadLimit(p) \/ CountUsage(p) \/ InitializeCounter(p)
              \/ SetLimit(p) \/ Reread(p) \/ Capacity(p)
      PROVE  Custody'
    BY <1>3 DEF ReadLimit, CountUsage, InitializeCounter, SetLimit, Reread, Capacity, Goto
<1>4. ASSUME NEW p \in Invocations, \/ AnswerReplay(p) \/ AnswerRecovery(p) \/ CheckRoom(p)
              \/ StoreResponse(p) \/ ReleaseOccupancy(p) \/ Crash(p)
      PROVE  Custody'
    BY <1>4 DEF AnswerReplay, AnswerRecovery, CheckRoom, StoreResponse, ReleaseOccupancy, Crash, Return, Forget, Goto
<1>5. ASSUME NEW p \in Invocations, Reserve(p)
      PROVE  Custody'
    BY <1>5 DEF Reserve, Goto, Return, Forget
<1>6. ASSUME NEW p \in Invocations, NEW e \in Events, CommitEvent(p, e)
      PROVE  Custody'
    BY <1>6 DEF CommitEvent, Goto
<1>7. ASSUME NEW p \in Invocations, Consume(p)
      PROVE  Custody'
    BY <1>7 DEF Consume, CanConsume, Goto, Return, Forget
<1>8. ASSUME NEW p \in Invocations, Release(p)
      PROVE  Custody'
    BY <1>8 DEF Release, ReleaseSource, Return, Forget
<1>9. ASSUME NEW k \in Keys, Expire(k)
      PROVE  Custody'
    BY <1>9 DEF Expire
<1>10. ASSUME NEW k \in Keys, ExpireReservation(k)
      PROVE  Custody'
    BY <1>10 DEF ExpireReservation, ReleaseSource
<1>11. ASSUME \/ BeginRepair \/ ScanCounters \/ ScanSources \/ RepairReadLimit
              \/ RepairCountEvents \/ RepairCounter \/ RepairCrash
      PROVE  Custody'
    BY <1>11 DEF BeginRepair, ScanCounters, ScanSources, RepairReadLimit, RepairCountEvents, RepairCounter, RepairCrash, EndRepair
<1>12. ASSUME NEW n \in Plans, ChangePlan(n)
      PROVE  Custody'
    BY <1>12 DEF ChangePlan
<1>13. ASSUME IndexCatchUp
      PROVE  Custody'
    BY <1>13 DEF IndexCatchUp
<1>14. ASSUME UNCHANGED vars
      PROVE  Custody'
    BY <1>14 DEF vars
<1> QED
    BY <1>1, <1>2, <1>3, <1>4, <1>5, <1>6, <1>7, <1>8, <1>9, <1>10, <1>11, <1>12, <1>13, <1>14
       DEF Next, Traffic, Begin, Continue, DuplicateEvent, Environment, Repair

LEMMA CreatedNext == Shape /\ Custody /\ Created /\ [Next]_vars => Created'
<1> SUFFICES ASSUME Shape, Custody, Created, [Next]_vars PROVE Created'
    OBVIOUS
<1> USE NoneAssumption DEF Created, OneEventPerKey, Custody, OpenSteps, HoldingSteps, Shape, TypeOK, WellFormed, CreateSteps, store, quota, calls, repairs
<1>1. ASSUME NEW p \in Invocations, NEW k \in Keys, BeginCreate(p, k)
      PROVE  Created'
    BY <1>1 DEF BeginCreate, Goto
<1>2. ASSUME NEW p \in Invocations, NEW e \in Events, ArchiveEvent(p, e)
      PROVE  Created'
    BY <1>2 DEF ArchiveEvent, Goto
<1>3. ASSUME NEW p \in Invocations, \/ ReadLimit(p) \/ CountUsage(p) \/ InitializeCounter(p)
              \/ SetLimit(p) \/ Reread(p) \/ Capacity(p)
      PROVE  Created'
    BY <1>3 DEF ReadLimit, CountUsage, InitializeCounter, SetLimit, Reread, Capacity, Goto
<1>4. ASSUME NEW p \in Invocations, \/ AnswerReplay(p) \/ AnswerRecovery(p) \/ CheckRoom(p)
              \/ StoreResponse(p) \/ ReleaseOccupancy(p) \/ Crash(p)
      PROVE  Created'
    BY <1>4 DEF AnswerReplay, AnswerRecovery, CheckRoom, StoreResponse, ReleaseOccupancy, Crash, Return, Forget, Goto
<1>5. ASSUME NEW p \in Invocations, Reserve(p)
      PROVE  Created'
    BY <1>5 DEF Reserve, Goto, Return, Forget
<1>6. ASSUME NEW p \in Invocations, NEW e \in Events, CommitEvent(p, e)
      PROVE  Created'
    BY <1>6 DEF CommitEvent, Goto
<1>7. ASSUME NEW p \in Invocations, Consume(p)
      PROVE  Created'
    BY <1>7 DEF Consume, CanConsume, Goto, Return, Forget
<1>8. ASSUME NEW p \in Invocations, Release(p)
      PROVE  Created'
    BY <1>8 DEF Release, ReleaseSource, Return, Forget
<1>9. ASSUME NEW k \in Keys, Expire(k)
      PROVE  Created'
    BY <1>9 DEF Expire
<1>10. ASSUME NEW k \in Keys, ExpireReservation(k)
      PROVE  Created'
    BY <1>10 DEF ExpireReservation, ReleaseSource
<1>11. ASSUME \/ BeginRepair \/ ScanCounters \/ ScanSources \/ RepairReadLimit
              \/ RepairCountEvents \/ RepairCounter \/ RepairCrash
      PROVE  Created'
    BY <1>11 DEF BeginRepair, ScanCounters, ScanSources, RepairReadLimit, RepairCountEvents, RepairCounter, RepairCrash, EndRepair
<1>12. ASSUME NEW n \in Plans, ChangePlan(n)
      PROVE  Created'
    BY <1>12 DEF ChangePlan
<1>13. ASSUME IndexCatchUp
      PROVE  Created'
    BY <1>13 DEF IndexCatchUp
<1>14. ASSUME UNCHANGED vars
      PROVE  Created'
    BY <1>14 DEF vars
<1> QED
    BY <1>1, <1>2, <1>3, <1>4, <1>5, <1>6, <1>7, <1>8, <1>9, <1>10, <1>11, <1>12, <1>13, <1>14
       DEF Next, Traffic, Begin, Continue, DuplicateEvent, Environment, Repair

LEMMA CustodyAlways == Spec => [](Ledger /\ Custody /\ Created)
<1>1. Init => Ledger
  BY LedgerInit
<1>2. Init => Custody /\ Created
  BY NoneAssumption DEF Init, Custody, Created, OneEventPerKey, OpenSteps, HoldingSteps
<1>3. Ledger => Shape
  BY DEF Ledger
<1> QED
  BY <1>1, <1>2, <1>3, LedgerNext, CustodyNext, CreatedNext, PTL DEF Spec

(* Whatever retries of a request under its key overlap, die or come after a *)
(* repair, one event is created: a key without reservation has no event,    *)
(* and one request makes the reservation.                                   *)
THEOREM KeyCreatesOne == Spec => []OneEventPerKey
<1>1. Created => OneEventPerKey
  BY DEF Created
<1> QED
  BY <1>1, CustodyAlways, PTL

(* The consumption of a reservation whose event is written finds all it     *)
(* requires: the row still reserved, a reserved unit in the counter, and no *)
(* occupancy.                                                               *)
THEOREM ConsumeNeverFails == Spec => []ConsumeSucceeds
<1>1. ASSUME Ledger, Custody, Created, NEW p \in Invocations, pc[p] = "consume"
      PROVE  CanConsume(p)
  <2>1. key[p] \in Keys /\ counter \in Counter /\ counter # None
    BY <1>1 DEF Ledger, Shape, TypeOK, WellFormed, CreateSteps, HoldingSteps, CounterSteps
  <2>2. reservation[key[p]] = "reserved" /\ occupancy[target[p]] = "none"
    BY <1>1 DEF Custody, Created, OpenSteps, HoldingSteps
  <2>3. key[p] \in OpenReservations /\ IsFiniteSet(OpenReservations)
    BY <2>1, <2>2, FiniteAssumption, FS_Subset DEF OpenReservations
  <2>4. counter.reserved = Cardinality(OpenReservations) /\ counter.reserved \in Nat
    BY <1>1, <2>1 DEF Ledger, ReservedExact, Counter
  <2>5. counter.reserved # 0
    BY <2>3, <2>4, FS_EmptySet
  <2> QED
    BY <2>2, <2>4, <2>5 DEF CanConsume
<1>2. Ledger /\ Custody /\ Created => ConsumeSucceeds
  BY <1>1 DEF ConsumeSucceeds
<1> QED
  BY <1>2, CustodyAlways, PTL
-----------------------------------------------------------------------------
(* Room: every active event is paid for.                                   *)

\* The events that have a unit of the column "used": those with an occupancy,
\* and those the first count of the counter found.
Settled == {e \in Events : \/ occupancy[e] = "used"
                           \/ status[e] = "active" /\ creator[e] = None}

\* Between repairs, as long as every request runs to its end.
Paid ==
    /\ counter = None => ActiveEvents \subseteq index
    /\ \A p \in Invocations : pc[p] = "initialize" /\ counter = None =>
          Cardinality(ActiveEvents) <= count[p]
    /\ counter # None => Cardinality(Settled) <= counter.used
    /\ \A e \in Events : occupancy[e] = "released" => status[e] = "archived"
    /\ \A e \in Events : status[e] = "active" /\ creator[e] # None /\ occupancy[e] = "none" =>
          reservation[creator[e]] = "reserved"
    /\ \A p \in Invocations : pc[p] = "releaseOccupancy" => status[target[p]] = "archived"

LEMMA Sizes ==
    ASSUME NEW S \in SUBSET Events
    PROVE  /\ IsFiniteSet(S) /\ Cardinality(S) \in Nat
           /\ \A T \in SUBSET S : Cardinality(T) <= Cardinality(S)
           /\ \A e \in Events \ S : Cardinality(S \cup {e}) = Cardinality(S) + 1
           /\ \A e \in S : Cardinality(S \ {e}) = Cardinality(S) - 1
<1>1. IsFiniteSet(S)
  BY FiniteAssumption, FS_Subset
<1> QED
  BY <1>1, FS_Subset, FS_AddElement, FS_RemoveElement, FS_CardinalityType

\* What a step of the traffic does to the events that are paid for.
LEMMA SettledMoves ==
    ASSUME Shape, Created
    PROVE  /\ Settled \in SUBSET Events /\ ActiveEvents \in SUBSET Events
           /\ \A e \in Events : occupancy[e] = "used" => e \in Settled
           /\ counter = None => Settled = ActiveEvents
<1>1. \A e \in Events : counter = None => occupancy[e] = "none" /\ creator[e] = None
  BY NoneAssumption DEF Shape, TypeOK, WellFormed, Created
<1> QED
  BY <1>1 DEF Settled, ActiveEvents

\* What decides the two sets.
LEMMA Untouched ==
    ASSUME UNCHANGED <<status, creator, occupancy>>
    PROVE  Settled' = Settled /\ ActiveEvents' = ActiveEvents
BY DEF Settled, ActiveEvents

\* The invocations that wait to initialize or to release an occupancy.
StepsKept ==
    \A p \in Invocations :
        /\ pc'[p] = "initialize" => pc[p] = "initialize" /\ count'[p] = count[p]
        /\ pc'[p] = "releaseOccupancy" =>
              pc[p] = "releaseOccupancy" /\ target'[p] = target[p]

\* What the steps that write no event and release nothing have in common.
Keeps ==
    /\ UNCHANGED <<status, creator, occupancy, index>>
    /\ counter = None => counter' = None
    /\ counter # None => counter' # None /\ counter'.used = counter.used
    /\ \A k \in Keys : reservation[k] = "reserved" => reservation'[k] = "reserved"
    /\ StepsKept

LEMMA PaidKept == Shape /\ Created /\ Paid /\ Keeps => Paid'
<1> SUFFICES ASSUME Shape, Created, Paid, Keeps PROVE Paid'
  OBVIOUS
<1>1. Settled' = Settled /\ ActiveEvents' = ActiveEvents
  BY Untouched DEF Keeps
<1>2. \A e \in Events : creator[e] \in Keys \cup {None}
  BY DEF Shape, TypeOK
<1>3. \A p \in Invocations : pc[p] = "releaseOccupancy" => target[p] \in Events
  BY DEF Shape, WellFormed
<1> QED
  BY <1>1, <1>2, <1>3 DEF Keeps, StepsKept, Paid

LEMMA PaidNext == Ledger /\ Custody /\ Created /\ Paid /\ [Traffic]_vars => Paid'
<1> SUFFICES ASSUME Ledger, Custody, Created, Paid, [Traffic]_vars PROVE Paid'
  OBVIOUS
<1> USE NoneAssumption DEF Paid
<1>0. Shape /\ TypeOK /\ WellFormed
  BY DEF Ledger, Shape
<1>1. ASSUME NEW p \in Invocations, NEW k \in Keys, BeginCreate(p, k)
      PROVE  Paid'
  BY <1>0, <1>1 DEF BeginCreate, Goto, store, quota, TypeOK, ActiveEvents, Settled
<1>2. ASSUME NEW p \in Invocations, NEW e \in Events, ArchiveEvent(p, e)
      PROVE  Paid'
  <2>1. /\ ActiveEvents' = ActiveEvents \ {e} /\ Settled' \subseteq Settled
        /\ index' \in {index, ActiveEvents'}
    BY <1>0, <1>2 DEF ArchiveEvent, quota, ActiveEvents, Settled, TypeOK, IndexWrite
  <2>2. Cardinality(ActiveEvents') <= Cardinality(ActiveEvents) /\ Cardinality(Settled') <= Cardinality(Settled)
        /\ Cardinality(ActiveEvents) \in Nat /\ Cardinality(ActiveEvents') \in Nat
        /\ Cardinality(Settled) \in Nat /\ Cardinality(Settled') \in Nat
    BY <1>0, <2>1, SettledMoves, Sizes
  <2>3. /\ count' = count /\ counter' = counter
        /\ counter # None => counter.used \in Nat
    BY <1>0, <1>2 DEF ArchiveEvent, quota, TypeOK, Counter
  <2>4. (counter = None => ActiveEvents \subseteq index)'
    BY <2>1, <2>3
  <2>5. (\A q \in Invocations : pc[q] = "initialize" /\ counter = None =>
          Cardinality(ActiveEvents) <= count[q])'
    BY <1>0, <1>2, <2>2, <2>3 DEF ArchiveEvent, Goto, TypeOK
  <2>6. (counter # None => Cardinality(Settled) <= counter.used)'
    BY <2>2, <2>3
  <2>7. (\A f \in Events : occupancy[f] = "released" => status[f] = "archived")'
    BY <1>0, <1>2 DEF ArchiveEvent, quota, TypeOK
  <2>8. (\A f \in Events : status[f] = "active" /\ creator[f] # None /\ occupancy[f] = "none" =>
          reservation[creator[f]] = "reserved")'
    BY <1>0, <1>2 DEF ArchiveEvent, quota, TypeOK
  <2>9. (\A q \in Invocations : pc[q] = "releaseOccupancy" => status[target[q]] = "archived")'
    BY <1>0, <1>2 DEF ArchiveEvent, Goto, TypeOK
  <2> QED
    BY <2>4, <2>5, <2>6, <2>7, <2>8, <2>9
<1>3. ASSUME NEW p \in Invocations,
             \/ ReadLimit(p) \/ Reread(p) \/ Capacity(p) \/ AnswerReplay(p)
             \/ AnswerRecovery(p) \/ CheckRoom(p) \/ StoreResponse(p)
      PROVE  Paid'
  <2>1. UNCHANGED <<status, creator, occupancy, index, counter, reservation>>
    BY <1>3 DEF ReadLimit, Reread, Capacity, AnswerReplay, AnswerRecovery, CheckRoom,
       StoreResponse, store, quota
  <2>2. StepsKept
    BY <1>0, <1>3 DEF ReadLimit, Reread, Capacity, AnswerReplay, AnswerRecovery, CheckRoom,
       StoreResponse, Goto, Return, Forget, TypeOK, StepsKept
  <2> QED
    BY <1>0, <2>1, <2>2, PaidKept DEF Keeps
<1>4. ASSUME NEW p \in Invocations, CountUsage(p)
      PROVE  Paid'
  <2>1. counter = None => Cardinality(ActiveEvents) <= Cardinality(index)
    BY <1>0, Sizes DEF TypeOK
  <2> QED
    BY <1>0, <1>4, <2>1 DEF CountUsage, Goto, store, quota, TypeOK, ActiveEvents, Settled
<1>5. ASSUME NEW p \in Invocations, InitializeCounter(p)
      PROVE  Paid'
  <2>1. CASE counter = None
    <3>1. counter' = NewCounter(limit[p], count[p], 0) /\ limit[p] \in Nat /\ count[p] \in Nat
      BY <1>0, <1>5, <2>1 DEF InitializeCounter, TypeOK
    <3>2. counter'.used = count[p] /\ counter' \in Counter
      BY <3>1, NewCounterType DEF NewCounter, Computed, Row
    <3>3. Cardinality(ActiveEvents) <= count[p] /\ Settled = ActiveEvents
      BY <1>0, <1>5, <2>1, SettledMoves DEF InitializeCounter
    <3>4. UNCHANGED <<status, creator, occupancy, reservation, target>> /\ counter' # None
      BY <1>5, <3>2 DEF InitializeCounter, store
    <3>5. \A q \in Invocations : pc'[q] = "releaseOccupancy" => pc[q] = "releaseOccupancy"
      BY <1>0, <1>5 DEF InitializeCounter, Goto, TypeOK
    <3> QED
      BY <3>2, <3>3, <3>4, <3>5, Untouched
  <2>2. CASE counter # None
    <3>1. StepsKept
      BY <1>0, <1>5, <2>2 DEF InitializeCounter, Goto, TypeOK, StepsKept
    <3> QED
      BY <1>0, <1>5, <2>2, <3>1, PaidKept DEF Keeps, InitializeCounter, store
  <2> QED
    BY <2>1, <2>2
<1>6. ASSUME NEW p \in Invocations, SetLimit(p)
      PROVE  Paid'
  <2>1. counter \in Counter /\ seen[p] \in Counter /\ limit[p] \in Nat /\ counter # None
    BY <1>0, <1>6 DEF SetLimit, TypeOK, WellFormed, CounterSteps
  <2>2. seen[p].used \in Nat /\ seen[p].reserved \in Nat
    BY <2>1 DEF Counter
  <2>3. counter' # None /\ counter'.used = counter.used
    <3>1. CASE SameRow(counter, seen[p])
      <4>1. counter' = Rewrite(counter, limit[p], seen[p].used, seen[p].reserved)
        BY <1>6, <3>1 DEF SetLimit
      <4>2. counter' \in Counter /\ counter'.used = seen[p].used
        BY <2>1, <2>2, <4>1, RewriteType DEF Rewrite, Computed, Row
      <4> QED
        BY <3>1, <4>2 DEF SameRow
    <3>2. CASE ~SameRow(counter, seen[p])
      BY <1>6, <2>1, <3>2 DEF SetLimit
    <3> QED
      BY <3>1, <3>2
  <2>4. StepsKept
    BY <1>0, <1>6 DEF SetLimit, Goto, TypeOK, StepsKept
  <2> QED
    BY <1>0, <1>6, <2>1, <2>3, <2>4, PaidKept DEF Keeps, SetLimit, store
<1>7. ASSUME NEW p \in Invocations, Reserve(p)
      PROVE  Paid'
  <2>1. counter' # None /\ counter # None /\ counter'.used = counter.used
    BY <1>0, <1>7, TakeUnitType DEF Reserve, TypeOK, WellFormed, CounterSteps, TakeUnit, Row
  <2>2. \A k \in Keys : reservation[k] = "reserved" => reservation'[k] = "reserved"
    BY <1>0, <1>7 DEF Reserve, TypeOK
  <2>3. StepsKept
    BY <1>0, <1>7 DEF Reserve, Goto, Return, Forget, TypeOK, StepsKept
  <2> QED
    BY <1>0, <1>7, <2>1, <2>2, <2>3, PaidKept DEF Keeps, Reserve, store
<1>8. ASSUME NEW p \in Invocations, NEW e \in Events, CommitEvent(p, e)
      PROVE  Paid'
  <2>1. counter' = counter /\ counter # None /\ Settled' = Settled
    BY <1>0, <1>8 DEF CommitEvent, quota, Settled, TypeOK, WellFormed, CounterSteps, HoldingSteps,
       CreateSteps, Created
  <2>2. reservation[key[p]] = "reserved"
    BY <1>8 DEF CommitEvent, Custody, OpenSteps, HoldingSteps
  <2> QED
    BY <1>0, <1>8, <2>1, <2>2 DEF CommitEvent, Created, quota, Goto, TypeOK
<1>9. ASSUME NEW p \in Invocations, Consume(p)
      PROVE  Paid'
  <2> DEFINE e == target[p]
  <2>1. /\ pc[p] = "consume" /\ key[p] \in Keys /\ e \in Events /\ creator[e] = key[p]
        /\ occupancy[e] = "none" /\ counter # None /\ counter \in Counter
    BY <1>0, <1>9 DEF Consume, Created, TypeOK, WellFormed, CounterSteps, HoldingSteps, CreateSteps
  <2>2. CASE CanConsume(p)
    <3>1. counter' = UseUnit(counter) /\ counter.reserved >= 1
      BY <1>9, <2>2 DEF Consume, CanConsume
    <3>2. counter' # None /\ counter'.used = counter.used + 1 /\ counter.used \in Nat
      BY <2>1, <3>1, UseUnitType DEF UseUnit, Row, Counter
    <3>3. Settled' = Settled \cup {e} /\ e \notin Settled
      BY <1>0, <1>9, <2>1, <2>2 DEF Consume, store, Settled, TypeOK
    <3>4. Cardinality(Settled') = Cardinality(Settled) + 1 /\ Cardinality(Settled) \in Nat
      BY <1>0, <2>1, <3>3, SettledMoves, Sizes
    <3>5. \A f \in Events : creator[f] = key[p] => f = e
      BY <2>1 DEF Created, OneEventPerKey
    <3>6. (\A f \in Events : status[f] = "active" /\ creator[f] # None /\ occupancy[f] = "none" =>
            reservation[creator[f]] = "reserved")'
      BY <1>0, <1>9, <2>1, <2>2, <3>5 DEF Consume, store, TypeOK
    <3>7. (\A f \in Events : occupancy[f] = "released" => status[f] = "archived")'
      BY <1>0, <1>9, <2>1, <2>2 DEF Consume, store, TypeOK
    <3>8. (\A q \in Invocations : pc[q] = "releaseOccupancy" => status[target[q]] = "archived")'
      BY <1>0, <1>9, <2>2 DEF Consume, Goto, store, TypeOK
    <3>9. counter.used + 1 >= Cardinality(Settled) + 1
      BY <2>1, <3>2, <3>4
    <3> QED
      BY <3>2, <3>4, <3>6, <3>7, <3>8, <3>9
  <2>3. CASE ~CanConsume(p)
    <3>1. UNCHANGED <<status, creator, occupancy, index, counter, reservation>>
      BY <1>9, <2>3 DEF Consume, store
    <3>2. StepsKept
      BY <1>0, <1>9, <2>3 DEF Consume, Return, Forget, TypeOK, StepsKept
    <3> QED
      BY <1>0, <3>1, <3>2, PaidKept DEF Keeps
  <2> QED
    BY <2>2, <2>3
<1>10. ASSUME NEW p \in Invocations, Release(p)
      PROVE  Paid'
  <2>1. counter' # None /\ counter # None /\ counter'.used = counter.used /\ key[p] \in Keys
    BY <1>0, <1>10, ReturnReservedType DEF Release, ReleaseSource, TypeOK, WellFormed, CounterSteps,
       HoldingSteps, CreateSteps, ReturnReserved, Row
  <2>2. \A f \in Events : creator[f] # key[p]
    BY <1>10 DEF Release, Created
  <2>3. Settled' = Settled /\ ActiveEvents' = ActiveEvents
    BY <1>10 DEF Release, store, Settled, ActiveEvents
  <2>4. \A f \in Events : creator[f] # None => reservation'[creator[f]] = reservation[creator[f]]
    BY <1>0, <1>10, <2>1, <2>2 DEF Release, ReleaseSource, TypeOK
  <2>5. UNCHANGED <<status, creator, occupancy>>
    BY <1>10 DEF Release, store
  <2>6. (\A q \in Invocations : pc[q] = "releaseOccupancy" => status[target[q]] = "archived")'
    BY <1>0, <1>10, <2>5 DEF Release, Return, Forget, TypeOK
  <2> QED
    BY <2>1, <2>3, <2>4, <2>5, <2>6
<1>11. ASSUME NEW p \in Invocations, ReleaseOccupancy(p)
      PROVE  Paid'
  <2> DEFINE e == target[p]
  <2>1. CASE occupancy[e] = "used" /\ counter.used >= 1
    <3>1. e \in Events /\ counter \in Counter /\ counter # None /\ counter' = ReturnUsed(counter)
      BY <1>0, <1>11, <2>1 DEF ReleaseOccupancy, TypeOK, WellFormed
    <3>2. counter' # None /\ counter'.used = counter.used - 1 /\ counter.used \in Nat
      BY <2>1, <3>1, ReturnUsedType DEF ReturnUsed, Row, Counter
    <3>3. Settled' = Settled \ {e} /\ e \in Settled
      BY <1>0, <1>11, <2>1, <3>1 DEF ReleaseOccupancy, store, Settled, TypeOK, Created
    <3>4. Cardinality(Settled') = Cardinality(Settled) - 1 /\ Cardinality(Settled) \in Nat
      BY <1>0, <3>3, SettledMoves, Sizes
    <3>5. status[e] = "archived"
      BY <1>11 DEF ReleaseOccupancy
    <3>6. UNCHANGED <<status, creator, reservation>>
      BY <1>11 DEF ReleaseOccupancy, store
    <3>7. (\A q \in Invocations : pc[q] = "releaseOccupancy" => status[target[q]] = "archived")'
      BY <1>0, <1>11, <3>6 DEF ReleaseOccupancy, Return, Forget, TypeOK
    <3>8. /\ \A f \in Events : f # e => occupancy'[f] = occupancy[f]
          /\ occupancy'[e] = "released"
      BY <1>0, <1>11, <2>1, <3>1 DEF ReleaseOccupancy, TypeOK
    <3>9. (\A f \in Events : occupancy[f] = "released" => status[f] = "archived")'
      BY <3>5, <3>6, <3>8
    <3>10. (\A f \in Events : status[f] = "active" /\ creator[f] # None /\ occupancy[f] = "none" =>
            reservation[creator[f]] = "reserved")'
      BY <3>6, <3>8
    <3>11. (counter # None => Cardinality(Settled) <= counter.used)'
      BY <3>1, <3>2, <3>4
    <3> QED
      BY <3>2, <3>7, <3>9, <3>10, <3>11
  <2>2. CASE ~(occupancy[e] = "used" /\ counter.used >= 1)
    <3>1. UNCHANGED <<status, creator, occupancy, index, counter, reservation>>
      BY <1>11, <2>2 DEF ReleaseOccupancy, store
    <3>2. StepsKept
      BY <1>0, <1>11 DEF ReleaseOccupancy, Return, Forget, TypeOK, StepsKept
    <3> QED
      BY <1>0, <3>1, <3>2, PaidKept DEF Keeps
  <2> QED
    BY <2>1, <2>2
<1>12. ASSUME NEW n \in Plans, ChangePlan(n)
      PROVE  Paid'
  BY <1>12 DEF ChangePlan, quota, calls, ActiveEvents, Settled
<1>13. ASSUME IndexCatchUp
      PROVE  Paid'
  BY <1>13 DEF IndexCatchUp, quota, calls, ActiveEvents, Settled
<1>14. CASE UNCHANGED vars
  BY <1>14 DEF vars, ActiveEvents, Settled
<1> QED
  BY <1>1, <1>2, <1>3, <1>4, <1>5, <1>6, <1>7, <1>8, <1>9, <1>10, <1>11, <1>12, <1>13, <1>14
     DEF Traffic, Begin, Continue, DuplicateEvent, Environment

LEMMA PaidAlways == TrafficSpec => [](Ledger /\ CounterBalanced /\ Custody /\ Created /\ Paid)
<1>1. Init => Ledger /\ Shape
  BY LedgerInit, ShapeInit
<1>2. Init => CounterBalanced /\ Custody /\ Created
  BY NoneAssumption DEF Init, CounterBalanced, Custody, Created, OneEventPerKey, OpenSteps,
     HoldingSteps
<1>3. Init => Paid
  BY NoneAssumption DEF Init, Paid, ActiveEvents
<1>4. [Traffic]_vars => [Next]_vars
  BY DEF Next
<1>5. Ledger => Shape
  BY DEF Ledger
<1> QED
  BY <1>1, <1>2, <1>3, <1>4, <1>5, LedgerNext, BalancedNext, CustodyNext, CreatedNext, PaidNext,
     PTL DEF TrafficSpec

\* The events that are neither archived nor settled have a reservation of
\* their own, still open.
LEMMA Covered ==
    ASSUME Ledger, Created, Paid, counter # None
    PROVE  /\ counter.used \in Nat /\ counter.reserved \in Nat
           /\ Cardinality(ActiveEvents) \in Nat
           /\ Cardinality(ActiveEvents) <= counter.used + counter.reserved
<1> DEFINE Unsettled == {e \in Events : /\ status[e] = "active" /\ creator[e] # None
                                       /\ occupancy[e] = "none"}
           maker == [e \in Unsettled |-> creator[e]]
<1>1. TypeOK /\ counter.used \in Nat /\ counter.reserved \in Nat
  BY DEF Ledger, Shape, TypeOK, Counter
<1>2. ActiveEvents \subseteq Settled \cup Unsettled
  BY <1>1 DEF ActiveEvents, Settled, TypeOK, Paid
<1>3. /\ IsFiniteSet(Settled) /\ IsFiniteSet(Unsettled) /\ IsFiniteSet(OpenReservations)
      /\ Cardinality(Settled) \in Nat /\ Cardinality(Unsettled) \in Nat
  BY FiniteAssumption, FS_Subset, FS_CardinalityType DEF Settled, OpenReservations
<1>4. maker \in Injection(Unsettled, OpenReservations)
  <2>1. \A e \in Unsettled : creator[e] \in OpenReservations
    BY <1>1 DEF TypeOK, OpenReservations, Paid
  <2>2. \A e, f \in Unsettled : creator[e] = creator[f] => e = f
    BY DEF Created, OneEventPerKey
  <2> QED
    BY <2>1, <2>2 DEF Injection, IsInjective
<1>5. Cardinality(Unsettled) <= Cardinality(OpenReservations)
  BY <1>3, <1>4, FS_Injection
<1> HIDE DEF Unsettled, maker
<1>6. /\ IsFiniteSet(Settled \cup Unsettled)
      /\ Cardinality(Settled \cup Unsettled) <= Cardinality(Settled) + Cardinality(Unsettled)
      /\ Cardinality(Settled \cup Unsettled) \in Nat
  <2>1. Settled \cap Unsettled \in SUBSET Settled
    OBVIOUS
  <2>2. Cardinality(Settled \cap Unsettled) \in Nat
    BY <1>3, <2>1, FS_Subset, FS_CardinalityType
  <2>3. /\ IsFiniteSet(Settled \cup Unsettled)
        /\ Cardinality(Settled \cup Unsettled) =
             Cardinality(Settled) + Cardinality(Unsettled) - Cardinality(Settled \cap Unsettled)
    BY <1>3, FS_Union
  <2>4. Cardinality(Settled \cup Unsettled) \in Nat
    BY <2>3, FS_CardinalityType
  <2> QED
    BY <1>3, <2>2, <2>3, <2>4
<1>7. Cardinality(ActiveEvents) \in Nat /\ Cardinality(ActiveEvents) <= Cardinality(Settled \cup Unsettled)
  BY <1>2, <1>6, FS_Subset, FS_CardinalityType
<1>8. Cardinality(Settled) <= counter.used /\ counter.reserved = Cardinality(OpenReservations)
  BY DEF Paid, Ledger, ReservedExact
<1> QED
  BY <1>1, <1>3, <1>5, <1>6, <1>7, <1>8

(* Between repairs, as long as every request runs to its end, every active  *)
(* event is paid for by a unit of the counter, used or reserved: creates,   *)
(* replays, archives and limit refreshes of any number interleave.          *)
THEOREM CoveredAlways == TrafficSpec => []CapacityCovered
<1>1. Ledger /\ Created /\ Paid => CapacityCovered
  BY Covered DEF CapacityCovered
<1> QED
  BY <1>1, PaidAlways, PTL

(* The purpose of the counter: concurrent creates and archives never have   *)
(* more active events than the limit of a row that is not over it.          *)
THEOREM NeverOversubscribed == TrafficSpec => []NoOversubscription
<1>1. ASSUME Ledger, CounterBalanced, Created, Paid, counter # None, ~counter.overLimit
      PROVE  Cardinality(ActiveEvents) <= counter.limit
  <2>1. counter \in Counter /\ counter.used + counter.reserved + counter.available = counter.limit
    BY <1>1 DEF Ledger, Shape, TypeOK, CounterBalanced, Balanced, Total
  <2>2. counter.available \in Nat /\ counter.limit \in Nat
    BY <2>1 DEF Counter
  <2> QED
    BY <1>1, <2>1, <2>2, Covered
<1>2. Ledger /\ CounterBalanced /\ Created /\ Paid => NoOversubscription
  BY <1>1 DEF NoOversubscription
<1> QED
  BY <1>2, PaidAlways, PTL
=============================================================================

------------------------- MODULE InvitationQuotaProofs -------------------------
(***************************************************************************)
(* Theorems about InvitationQuota for any number of invitations, requests  *)
(* and resends, any limit, and any invitations older than the counter.     *)
(***************************************************************************)
EXTENDS InvitationQuota, FiniteSetTheorems, TLAPS

InviteShape ==
    /\ status \in [Invitations -> {"none", "pending", "accepted", "revoked"}]
    /\ deadline \in [Invitations -> Nat]
    /\ passed \in [Invitations -> SUBSET Nat]

RowShape ==
    /\ source \in [Invitations -> Reservations]
    /\ legacy \in [Invitations -> Reservations]
    /\ legacyBy \in [Invitations -> {"none", "organizer", "exhibitor"}]
    /\ occupancy \in [Invitations -> {"none", "reserved", "consumed", "released"}]
    /\ until \in [Invitations -> Nat]

CounterShape == counter \in Counter /\ baseline \in Nat \cup {None}
RepairShape == repair \in Repairs

\* A request that is under way is about an invitation.
ReqShape ==
    /\ req \in [Invocations -> Requests]
    /\ \A p \in Invocations : req[p].at # "idle" => req[p].invitation \in Invitations

Shape == InviteShape /\ RowShape /\ CounterShape /\ RepairShape /\ ReqShape
-----------------------------------------------------------------------------
(* Requests *)

LEMMA IdleType == Idle \in Requests /\ Idle.at = "idle"
BY DEF Idle, Requests, Steps

LEMMA ReqType ==
    ASSUME Shape, NEW p \in Invocations
    PROVE  /\ req[p] \in Requests /\ req[p].deadline \in Nat
           /\ req[p].at # "idle" => Of(p) \in Invitations
BY DEF Shape, ReqShape, Requests, Of

LEMMA GotoStep ==
    ASSUME Shape, NEW p \in Invocations, NEW step \in Steps, req[p].at # "idle", Goto(p, step)
    PROVE  ReqShape'
BY DEF Shape, ReqShape, Goto, Requests

LEMMA ReturnStep == ASSUME Shape, NEW p \in Invocations, Return(p) PROVE ReqShape'
<1> HIDE DEF Idle
<1> QED
  BY IdleType DEF Shape, ReqShape, Return

LEMMA BeginStep ==
    ASSUME Shape, NEW p \in Invocations, NEW i \in Invitations, NEW task \in Tasks,
           NEW step \in Steps, Begin(p, task, i, step)
    PROVE  ReqShape'
BY DEF Shape, ReqShape, InviteShape, Begin, Requests
-----------------------------------------------------------------------------
(* The counter *)

LEMMA NoRepairType == NoRepair \in Repairs
BY DEF NoRepair, Repairs

LEMMA Takes ==
    ASSUME Shape, HasRoom(counter), Count(TakeUnit(counter))
    PROVE  /\ counter' \in Counter /\ RepairShape'
           /\ counter'.reserved = counter.reserved + 1 /\ counter'.used = counter.used
BY NoRepairType DEF Shape, CounterShape, RepairShape, HasRoom, Count, TakeUnit, Row, Counter

LEMMA Gives ==
    ASSUME Shape, counter.reserved >= 1, Count(ReturnReserved(counter))
    PROVE  /\ counter' \in Counter /\ RepairShape'
           /\ counter'.reserved = counter.reserved - 1 /\ counter'.used = counter.used
BY NoRepairType DEF Shape, CounterShape, RepairShape, Count, ReturnReserved, Row, Counter

LEMMA Uses ==
    ASSUME Shape, counter.reserved >= 1, Count(UseUnit(counter))
    PROVE  /\ counter' \in Counter /\ RepairShape'
           /\ counter'.reserved = counter.reserved - 1 /\ counter'.used = counter.used + 1
BY NoRepairType DEF Shape, CounterShape, RepairShape, Count, UseUnit, Row, Counter

LEMMA Recounts ==
    ASSUME NEW u \in Nat, NEW r \in Nat
    PROVE  /\ NewCounter(Limit, u, r) \in Counter
           /\ NewCounter(Limit, u, r).reserved = r /\ NewCounter(Limit, u, r).used = u
BY LimitAssumption DEF NewCounter, Computed, Row, Counter

LEMMA Countable ==
    ASSUME NEW S \in SUBSET Invitations PROVE Cardinality(S) \in Nat /\ IsFiniteSet(S)
BY FiniteAssumption, FS_Subset, FS_CardinalityType

\* The rows in state v.
Tally(f, v) == {i \in Invitations : f[i] = v}

LEMMA Loses ==
    ASSUME NEW S \in SUBSET Invitations, NEW i \in S
    PROVE  Cardinality(S \ {i}) = Cardinality(S) - 1
BY Countable, FS_RemoveElement

LEMMA Gains ==
    ASSUME NEW S \in SUBSET Invitations, NEW i \in Invitations \ S
    PROVE  Cardinality(S \cup {i}) = Cardinality(S) + 1
BY Countable, FS_AddElement

LEMMA Tallies ==
    /\ Cardinality(Tally(source, "reserved")) \in Nat
    /\ Cardinality(Tally(legacy, "reserved")) \in Nat
    /\ Cardinality(Tally(occupancy, "reserved")) \in Nat
    /\ Cardinality(Tally(occupancy, "consumed")) \in Nat
BY Countable DEF Tally
-----------------------------------------------------------------------------
(* What holds of the rows *)

Exact ==
    baseline # None =>
        /\ counter.reserved = baseline + Cardinality(Tally(source, "reserved"))
               + Cardinality(Tally(legacy, "reserved")) + Cardinality(Tally(occupancy, "reserved"))
        /\ counter.used = Cardinality(Tally(occupancy, "consumed"))

\* Used units are of stands; the steps that write a stand or consume its unit
\* act for an invitation in the state they think it is in.
Stood ==
    /\ \A i \in Invitations : occupancy[i] = "consumed" => status[i] = "accepted"
    /\ \A p \in Invocations : req[p].at = "consume" => status[Of(p)] = "accepted"
    /\ \A p \in Invocations : req[p].at = "write" => status[Of(p)] = "none" /\ source[Of(p)] # "none"
    /\ \A p, q \in Invocations :
        req[p].at = "write" /\ req[q].at = "write" /\ Of(p) = Of(q) => p = q

LEMMA ExactMeans == Exact /\ Stood => ReservedExact
BY DEF Exact, Stood, ReservedExact, Tally, Open

\* The invariant, and how its parts are kept by a step that leaves the rows of
\* the quota and the counter.
Inv == Shape /\ Exact /\ PaidOnce

LEMMA Leaves ==
    ASSUME Inv, UNCHANGED <<rows, counter, baseline>>
    PROVE  RowShape' /\ CounterShape' /\ Exact' /\ PaidOnce'
BY DEF Inv, Shape, RowShape, CounterShape, Exact, PaidOnce, rows, Tally

LEMMA Numbers ==
    ASSUME Inv
    PROVE  /\ counter.reserved \in Nat /\ counter.used \in Nat /\ None \notin Nat
           /\ baseline # None => baseline \in Nat
BY NoneAssumption DEF Inv, Shape, CounterShape, Counter

\* A reservation takes a unit, or gives back the one it took.
LEMMA SourceMoves ==
    ASSUME Inv, NEW i \in Invitations, NEW x \in Reservations, x # "linked", source[i] # "linked",
           source' = [source EXCEPT ![i] = x], UNCHANGED <<legacy, occupancy, until, baseline>>,
           legacyBy' \in [Invitations -> {"none", "organizer", "exhibitor"}],
           counter' \in Counter, counter'.used = counter.used,
           \/ /\ source[i] # "reserved" /\ x = "reserved" /\ counter'.reserved = counter.reserved + 1
           \/ /\ source[i] = "reserved" /\ x # "reserved" /\ counter'.reserved = counter.reserved - 1
    PROVE  RowShape' /\ CounterShape' /\ Exact' /\ PaidOnce'
<1>1. RowShape' /\ CounterShape' /\ PaidOnce'
  BY DEF Inv, Shape, RowShape, CounterShape, PaidOnce
<1>2. Exact'
  <2> DEFINE S == Tally(source, "reserved")
             T == Tally(source', "reserved")
  <2>1. \/ i \notin S /\ T = S \cup {i} /\ counter'.reserved = counter.reserved + 1
        \/ i \in S /\ T = S \ {i} /\ counter'.reserved = counter.reserved - 1
    BY DEF Inv, Shape, RowShape, Tally
  <2>2. S \in SUBSET Invitations
    BY DEF Tally
  <2>3. \/ Cardinality(T) = Cardinality(S) + 1 /\ counter'.reserved = counter.reserved + 1
        \/ Cardinality(T) = Cardinality(S) - 1 /\ counter'.reserved = counter.reserved - 1
    BY <2>1, <2>2, Gains, Loses
  <2> QED
    BY <2>3, Numbers, Tallies DEF Inv, Exact
<1> QED
  BY <1>1, <1>2

LEMMA LegacyMoves ==
    ASSUME Inv, NEW i \in Invitations, NEW x \in Reservations, x # "linked", legacy[i] # "linked",
           legacy' = [legacy EXCEPT ![i] = x], UNCHANGED <<source, occupancy, until, baseline>>,
           legacyBy' \in [Invitations -> {"none", "organizer", "exhibitor"}],
           counter' \in Counter, counter'.used = counter.used,
           \/ /\ legacy[i] # "reserved" /\ x = "reserved" /\ counter'.reserved = counter.reserved + 1
           \/ /\ legacy[i] = "reserved" /\ x # "reserved" /\ counter'.reserved = counter.reserved - 1
    PROVE  RowShape' /\ CounterShape' /\ Exact' /\ PaidOnce'
<1>1. RowShape' /\ CounterShape' /\ PaidOnce'
  BY DEF Inv, Shape, RowShape, CounterShape, PaidOnce
<1>2. Exact'
  <2> DEFINE S == Tally(legacy, "reserved")
             T == Tally(legacy', "reserved")
  <2>1. \/ i \notin S /\ T = S \cup {i} /\ counter'.reserved = counter.reserved + 1
        \/ i \in S /\ T = S \ {i} /\ counter'.reserved = counter.reserved - 1
    BY DEF Inv, Shape, RowShape, Tally
  <2>2. S \in SUBSET Invitations
    BY DEF Tally
  <2>3. \/ Cardinality(T) = Cardinality(S) + 1 /\ counter'.reserved = counter.reserved + 1
        \/ Cardinality(T) = Cardinality(S) - 1 /\ counter'.reserved = counter.reserved - 1
    BY <2>1, <2>2, Gains, Loses
  <2> QED
    BY <2>3, Numbers, Tallies DEF Inv, Exact
<1> QED
  BY <1>1, <1>2

\* An occupancy gives its unit back, or it is used for a stand.
LEMMA OccupancyMoves ==
    ASSUME Inv, NEW i \in Invitations, occupancy[i] = "reserved", NEW x \in {"released", "consumed"},
           occupancy' = [occupancy EXCEPT ![i] = x], UNCHANGED <<source, legacy, legacyBy, until, baseline>>,
           counter' \in Counter, counter'.reserved = counter.reserved - 1,
           counter'.used = IF x = "consumed" THEN counter.used + 1 ELSE counter.used
    PROVE  RowShape' /\ CounterShape' /\ Exact' /\ PaidOnce'
<1>1. RowShape' /\ CounterShape' /\ PaidOnce'
  BY DEF Inv, Shape, RowShape, CounterShape, PaidOnce
<1>2. Exact'
  <2> DEFINE S == Tally(occupancy, "reserved")
             U == Tally(occupancy, "consumed")
  <2>1. /\ i \in S /\ Tally(occupancy', "reserved") = S \ {i}
        /\ x = "released" => Tally(occupancy', "consumed") = U
        /\ x = "consumed" => i \notin U /\ Tally(occupancy', "consumed") = U \cup {i}
    BY DEF Inv, Shape, RowShape, Tally
  <2>2. S \in SUBSET Invitations /\ U \in SUBSET Invitations
    BY DEF Tally
  <2>3. Cardinality(Tally(occupancy', "reserved")) = Cardinality(S) - 1
    BY <2>1, <2>2, Loses
  <2>4. Cardinality(Tally(occupancy', "consumed")) =
          IF x = "consumed" THEN Cardinality(U) + 1 ELSE Cardinality(U)
    BY <2>1, <2>2, Gains
  <2> QED
    BY <2>3, <2>4, Numbers, Tallies DEF Inv, Exact
<1> QED
  BY <1>1, <1>2

\* A reservation becomes the occupancy of its invitation.
LEMMA Links ==
    ASSUME Inv, NEW p \in Invocations, NEW i \in Invitations, NEW kind \in {"source", "legacy"},
           LinkInvitation(p, i, kind), UNCHANGED <<legacyBy, counter, baseline>>
    PROVE  RowShape' /\ CounterShape' /\ Exact' /\ PaidOnce'
<1>1. RowShape' /\ CounterShape'
  BY ReqType DEF Inv, Shape, RowShape, CounterShape, LinkInvitation, Reservations
<1>2. source[i] # "linked" /\ legacy[i] # "linked"
  BY DEF Inv, PaidOnce, LinkInvitation
<1>3. PaidOnce'
  <2>1. occupancy'[i] = "reserved" /\ \A j \in Invitations \ {i} : occupancy'[j] = occupancy[j]
    BY DEF Inv, Shape, RowShape, LinkInvitation
  <2>2. /\ {source'[i], legacy'[i]} = {"linked", legacy[i]} \/ {source'[i], legacy'[i]} = {source[i], "linked"}
        /\ source'[i] # "linked" \/ legacy'[i] # "linked"
        /\ \A j \in Invitations \ {i} : source'[j] = source[j] /\ legacy'[j] = legacy[j]
    BY <1>2 DEF Inv, Shape, RowShape, LinkInvitation
  <2> QED
    BY <2>1, <2>2 DEF Inv, PaidOnce
<1>4. Exact'
  <2> DEFINE S == Tally(source, "reserved")
             L == Tally(legacy, "reserved")
             O == Tally(occupancy, "reserved")
  <2>1. /\ i \notin O /\ Tally(occupancy', "reserved") = O \cup {i}
        /\ Tally(occupancy', "consumed") = Tally(occupancy, "consumed")
    BY DEF Inv, Shape, RowShape, LinkInvitation, Tally
  <2>2. \/ i \in S /\ Tally(source', "reserved") = S \ {i} /\ Tally(legacy', "reserved") = L
        \/ i \in L /\ Tally(legacy', "reserved") = L \ {i} /\ Tally(source', "reserved") = S
    BY DEF Inv, Shape, RowShape, LinkInvitation, Tally
  <2>3. S \in SUBSET Invitations /\ L \in SUBSET Invitations /\ O \in SUBSET Invitations
    BY DEF Tally
  <2>4. Cardinality(Tally(occupancy', "reserved")) = Cardinality(O) + 1
    BY <2>1, <2>3, Gains
  <2>5. \/ /\ Cardinality(Tally(source', "reserved")) = Cardinality(S) - 1
           /\ Tally(legacy', "reserved") = L
        \/ /\ Cardinality(Tally(legacy', "reserved")) = Cardinality(L) - 1
           /\ Tally(source', "reserved") = S
    BY <2>2, <2>3, Loses
  <2> QED
    BY <2>1, <2>4, <2>5, Numbers, Tallies DEF Inv, Exact
<1> QED
  BY <1>1, <1>3, <1>4
-----------------------------------------------------------------------------
(* Each action *)

\* The parts of the invariant together.
LEMMA Together ==
    ASSUME InviteShape', RowShape', CounterShape', RepairShape', ReqShape', Exact', PaidOnce'
    PROVE  Inv'
BY DEF Inv, Shape

\* A step of a request that leaves the quota alone.
LEMMA Quiet ==
    ASSUME Inv, UNCHANGED <<rows, counter, repair, baseline>>, InviteShape', ReqShape'
    PROVE  Inv'
<1>1. RepairShape'
  BY DEF Inv, Shape, RepairShape
<1> QED
  BY <1>1, Leaves, Together

\* A release of an occupancy that may not be there.
LEMMA ReleaseKeeps ==
    ASSUME Inv, NEW i \in Invitations, ReleaseOccupancy(i),
           UNCHANGED <<source, legacy, legacyBy, until, baseline>>
    PROVE  RowShape' /\ CounterShape' /\ RepairShape' /\ Exact' /\ PaidOnce'
<1>1. CASE occupancy[i] = "reserved" /\ counter.reserved >= 1
  <2>1. Count(ReturnReserved(counter)) /\ occupancy' = [occupancy EXCEPT ![i] = "released"]
    BY <1>1 DEF ReleaseOccupancy
  <2> QED
    BY <1>1, <2>1, Gives, OccupancyMoves DEF Inv
<1>2. CASE ~(occupancy[i] = "reserved" /\ counter.reserved >= 1)
  <2>1. UNCHANGED <<occupancy, counter, repair>>
    BY <1>2 DEF ReleaseOccupancy
  <2> QED
    BY <2>1, Leaves DEF rows, Inv, Shape, RepairShape
<1> QED
  BY <1>1, <1>2

LEMMA RequestKeeps ==
    ASSUME Inv, NEW p \in Invocations, NEW i \in Invitations, Request(p, i) PROVE Inv'
<1>0. Shape
  BY DEF Inv
<1>1. CASE BeginCreate(p, i)
  <2>1. counter' \in Counter /\ RepairShape' /\ counter'.reserved = counter.reserved + 1
        /\ counter'.used = counter.used
    BY <1>0, <1>1, Takes DEF BeginCreate
  <2>2. ReqShape' /\ InviteShape'
    BY <1>0, <1>1, BeginStep DEF BeginCreate, Tasks, Steps, Shape, InviteShape, invites
  <2>3. source[i] = "none" /\ source' = [source EXCEPT ![i] = "reserved"]
        /\ UNCHANGED <<legacy, legacyBy, occupancy, until, baseline>>
    BY <1>1 DEF BeginCreate
  <2>4. legacyBy' \in [Invitations -> {"none", "organizer", "exhibitor"}]
    BY <1>0, <2>3 DEF Shape, RowShape
  <2>5. RowShape' /\ CounterShape' /\ Exact' /\ PaidOnce'
    BY <2>1, <2>3, <2>4, SourceMoves DEF Reservations
  <2> QED
    BY <2>1, <2>2, <2>5, Together
<1>2. CASE BeginAccept(p, i) \/ BeginResend(p, i)
  <2>1. UNCHANGED <<invites, rows, counter, repair, baseline>>
    BY <1>2 DEF BeginAccept, BeginResend
  <2>2. ReqShape'
    BY <1>0, <1>2, BeginStep DEF BeginAccept, BeginResend, Tasks, Steps
  <2>3. InviteShape'
    BY <1>0, <2>1 DEF Shape, InviteShape, invites
  <2> QED
    BY <2>1, <2>2, <2>3, Quiet
<1>3. CASE Revoke(p, i)
  <2>1. ReqShape'
    BY <1>0, <1>3, BeginStep DEF Revoke, Tasks, Steps
  <2>2. InviteShape'
    BY <1>0, <1>3 DEF Revoke, Shape, InviteShape
  <2> QED
    BY <1>3, <2>1, <2>2, Quiet DEF Revoke
<1> QED
  BY <1>1, <1>2, <1>3 DEF Request

\* The steps that only read, or write the invitation.
LEMMA InviteKeeps ==
    ASSUME Inv, NEW p \in Invocations,
           \/ WriteInvitation(p) \/ FindOccupancy(p) \/ AcceptInvitation(p) \/ AcceptDuplicate(p)
           \/ RefuseAccept(p) \/ Resend(p) \/ Crash(p)
    PROVE  Inv'
<1>0. Shape
  BY DEF Inv
<1>1. UNCHANGED <<rows, counter, repair, baseline>>
  BY DEF WriteInvitation, FindOccupancy, AcceptInvitation, AcceptDuplicate, RefuseAccept, Resend, Crash
<1>2. ReqShape'
  <2>1. CASE WriteInvitation(p) \/ AcceptDuplicate(p)
    BY <1>0, <2>1, GotoStep DEF WriteInvitation, AcceptDuplicate, Steps
  <2>2. CASE FindOccupancy(p)
    BY <1>0, <2>2, GotoStep DEF FindOccupancy, Steps
  <2>3. CASE RefuseAccept(p)
    BY <1>0, <2>3, GotoStep, ReturnStep DEF RefuseAccept, Steps
  <2>4. CASE AcceptInvitation(p) \/ Resend(p) \/ Crash(p)
    BY <1>0, <2>4, ReturnStep DEF AcceptInvitation, Resend, Crash
  <2> QED
    BY <2>1, <2>2, <2>3, <2>4
<1>3. InviteShape'
  <2>1. CASE WriteInvitation(p) \/ AcceptInvitation(p)
    BY <1>0, <2>1 DEF WriteInvitation, AcceptInvitation, Shape, InviteShape
  <2>2. CASE FindOccupancy(p) \/ AcceptDuplicate(p) \/ RefuseAccept(p) \/ Crash(p)
    BY <1>0, <2>2 DEF FindOccupancy, AcceptDuplicate, RefuseAccept, Crash, Shape, InviteShape, invites
  <2>3. CASE Resend(p)
    <3>1. deadline' = deadline \/ deadline' = [deadline EXCEPT ![Of(p)] = deadline[Of(p)] + 1]
      BY <2>3 DEF Resend
    <3>2. Of(p) \in Invitations
      BY <1>0, <2>3, ReqType DEF Resend
    <3> QED
      BY <1>0, <2>3, <3>1, <3>2 DEF Resend, Shape, InviteShape
  <2> QED
    BY <2>1, <2>2, <2>3
<1> QED
  BY <1>1, <1>2, <1>3, Quiet

LEMMA CreateKeeps ==
    ASSUME Inv, NEW p \in Invocations, RefuseCreate(p) \/ LinkCreated(p) PROVE Inv'
<1>0. Shape /\ Of(p) \in Invitations
  BY ReqType DEF Inv, RefuseCreate, LinkCreated
<1>1. ReqShape' /\ InviteShape'
  BY <1>0, ReturnStep DEF RefuseCreate, LinkCreated, Shape, InviteShape, invites
<1>2. CASE RefuseCreate(p)
  <2> DEFINE i == Of(p)
  <2>1. CASE source[i] = "reserved" /\ counter.reserved >= 1
    <3>1. /\ Count(ReturnReserved(counter)) /\ source' = [source EXCEPT ![i] = "released"]
          /\ UNCHANGED <<legacy, legacyBy, occupancy, until, baseline>>
      BY <1>2, <2>1 DEF RefuseCreate
    <3>2. /\ counter' \in Counter /\ RepairShape' /\ counter'.reserved = counter.reserved - 1
          /\ counter'.used = counter.used
      BY <1>0, <2>1, <3>1, Gives
    <3>3. legacyBy' \in [Invitations -> {"none", "organizer", "exhibitor"}]
      BY <1>0, <3>1 DEF Shape, RowShape
    <3>4. RowShape' /\ CounterShape' /\ Exact' /\ PaidOnce'
      BY <1>0, <2>1, <3>1, <3>2, <3>3, SourceMoves DEF Reservations
    <3> QED
      BY <1>1, <3>2, <3>4, Together
  <2>2. CASE ~(source[i] = "reserved" /\ counter.reserved >= 1)
    <3>1. UNCHANGED <<rows, counter, repair, baseline>>
      BY <1>2, <2>2 DEF RefuseCreate, rows
    <3> QED
      BY <1>1, <3>1, Quiet
  <2> QED
    BY <2>1, <2>2
<1>3. CASE LinkCreated(p)
  <2>1. UNCHANGED <<legacyBy, counter, repair, baseline>>
    BY <1>3 DEF LinkCreated
  <2>2. CASE LinkInvitation(p, Of(p), "source")
    <3>1. RowShape' /\ CounterShape' /\ Exact' /\ PaidOnce'
      BY <1>0, <2>1, <2>2, Links
    <3>2. RepairShape'
      BY <1>0, <2>1 DEF Shape, RepairShape
    <3> QED
      BY <1>1, <3>1, <3>2, Together
  <2>3. CASE UNCHANGED rows
    BY <1>1, <2>1, <2>3, Quiet
  <2> QED
    BY <1>3, <2>1, <2>2, <2>3 DEF LinkCreated, rows
<1> QED
  BY <1>2, <1>3

LEMMA LegacyKeeps ==
    ASSUME Inv, NEW p \in Invocations, ReserveLegacy(p) \/ LinkLegacy(p) PROVE Inv'
<1>0. Shape /\ Of(p) \in Invitations
  BY ReqType DEF Inv, ReserveLegacy, LinkLegacy
<1>1. ReqShape'
  <2>1. CASE Return(p)
    BY <1>0, <2>1, ReturnStep
  <2>2. CASE ~Return(p)
    BY <1>0, <2>2, GotoStep DEF ReserveLegacy, LinkLegacy, Steps
  <2> QED
    BY <2>1, <2>2
<1>2. InviteShape'
  BY <1>0 DEF ReserveLegacy, LinkLegacy, Shape, InviteShape, invites
<1>3. CASE ReserveLegacy(p)
  <2> DEFINE i == Of(p)
  <2>1. CASE legacy[i] = "none" /\ HasRoom(counter)
    <3>1. /\ Count(TakeUnit(counter)) /\ legacy' = [legacy EXCEPT ![i] = "reserved"]
          /\ legacyBy' = [legacyBy EXCEPT ![i] = Actor(p)]
          /\ UNCHANGED <<source, occupancy, until, baseline>>
      BY <1>3, <2>1 DEF ReserveLegacy
    <3>2. /\ counter' \in Counter /\ RepairShape' /\ counter'.reserved = counter.reserved + 1
          /\ counter'.used = counter.used
      BY <1>0, <2>1, <3>1, Takes
    <3>3. legacyBy' \in [Invitations -> {"none", "organizer", "exhibitor"}]
      BY <1>0, <3>1 DEF Shape, RowShape, Actor
    <3>4. RowShape' /\ CounterShape' /\ Exact' /\ PaidOnce'
      BY <1>0, <2>1, <3>1, <3>2, <3>3, LegacyMoves DEF Reservations
    <3> QED
      BY <1>1, <1>2, <3>2, <3>4, Together
  <2>2. CASE ~(legacy[i] = "none" /\ HasRoom(counter))
    <3>1. UNCHANGED <<rows, counter, repair, baseline>>
      BY <1>3, <2>2 DEF ReserveLegacy, rows
    <3> QED
      BY <1>1, <1>2, <3>1, Quiet
  <2> QED
    BY <2>1, <2>2
<1>4. CASE LinkLegacy(p)
  <2>1. UNCHANGED <<legacyBy, counter, repair, baseline>>
    BY <1>4 DEF LinkLegacy
  <2>2. CASE LinkInvitation(p, Of(p), "legacy")
    <3>1. RowShape' /\ CounterShape' /\ Exact' /\ PaidOnce'
      BY <1>0, <2>1, <2>2, Links
    <3>2. RepairShape'
      BY <1>0, <2>1 DEF Shape, RepairShape
    <3> QED
      BY <1>1, <1>2, <3>1, <3>2, Together
  <2>3. CASE UNCHANGED rows
    BY <1>1, <1>2, <2>1, <2>3, Quiet
  <2> QED
    BY <1>4, <2>1, <2>2, <2>3 DEF LinkLegacy, rows
<1> QED
  BY <1>3, <1>4

LEMMA EndKeeps ==
    ASSUME Inv, NEW p \in Invocations, Consume(p) \/ Release(p) PROVE Inv'
<1>0. Shape /\ Of(p) \in Invitations
  BY ReqType DEF Inv, Consume, Release
<1>1. ReqShape' /\ InviteShape'
  BY <1>0, ReturnStep DEF Consume, Release, Shape, InviteShape, invites
<1>2. CASE Consume(p)
  <2> DEFINE i == Of(p)
  <2>1. CASE occupancy[i] = "reserved" /\ counter.reserved >= 1
    <3>1. /\ Count(UseUnit(counter)) /\ occupancy' = [occupancy EXCEPT ![i] = "consumed"]
          /\ UNCHANGED <<source, legacy, legacyBy, until, baseline>>
      BY <1>2, <2>1 DEF Consume
    <3>2. RowShape' /\ CounterShape' /\ RepairShape' /\ Exact' /\ PaidOnce'
      BY <1>0, <2>1, <3>1, Uses, OccupancyMoves
    <3> QED
      BY <1>1, <3>2, Together
  <2>2. CASE ~(occupancy[i] = "reserved" /\ counter.reserved >= 1)
    <3>1. UNCHANGED <<rows, counter, repair, baseline>>
      BY <1>2, <2>2 DEF Consume, rows
    <3> QED
      BY <1>1, <3>1, Quiet
  <2> QED
    BY <2>1, <2>2
<1>3. CASE Release(p)
  BY <1>0, <1>1, <1>3, ReleaseKeeps, Together DEF Release
<1> QED
  BY <1>2, <1>3

LEMMA PassKeeps ==
    ASSUME Inv, NEW i \in Invitations, NEW d \in 0..MaxResends, Pass(i, d) PROVE Inv'
<1>1. d \in Nat
  BY BoundAssumption
<1>2. InviteShape' /\ ReqShape'
  BY <1>1 DEF Pass, Inv, Shape, InviteShape, ReqShape
<1> QED
  BY <1>2, Quiet DEF Pass

\* expireReservations
LEMMA ExpireKeeps ==
    ASSUME Inv, NEW i \in Invitations, ExpireOccupancy(i) \/ ExpireSource(i) \/ ExpireLegacy(i)
    PROVE  Inv'
<1>0. Shape
  BY DEF Inv
<1>1. InviteShape' /\ ReqShape'
  BY <1>0 DEF ExpireOccupancy, ExpireSource, ExpireLegacy, Shape, InviteShape, ReqShape, invites
<1>2. CASE ExpireOccupancy(i)
  BY <1>1, <1>2, ReleaseKeeps, Together DEF ExpireOccupancy
<1>3. CASE ExpireSource(i) \/ ExpireLegacy(i)
  <2>1. counter.reserved >= 1 /\ Count(ReturnReserved(counter)) /\ UNCHANGED <<legacyBy, occupancy, until, baseline>>
    BY <1>3 DEF ExpireSource, ExpireLegacy
  <2>2. /\ counter' \in Counter /\ RepairShape' /\ counter'.reserved = counter.reserved - 1
        /\ counter'.used = counter.used
    BY <1>0, <2>1, Gives
  <2>3. legacyBy' \in [Invitations -> {"none", "organizer", "exhibitor"}]
    BY <1>0, <2>1 DEF Shape, RowShape
  <2>4. "released" \in Reservations
    BY DEF Reservations
  <2>5. CASE ExpireSource(i)
    <3>1. source[i] = "reserved" /\ source' = [source EXCEPT ![i] = "released"] /\ UNCHANGED legacy
      BY <2>5 DEF ExpireSource
    <3>2. RowShape' /\ CounterShape' /\ Exact' /\ PaidOnce'
      BY <2>1, <2>2, <2>3, <2>4, <3>1, SourceMoves
    <3> QED
      BY <1>1, <2>2, <3>2, Together
  <2>6. CASE ExpireLegacy(i)
    <3>1. legacy[i] = "reserved" /\ legacy' = [legacy EXCEPT ![i] = "released"] /\ UNCHANGED source
      BY <2>6 DEF ExpireLegacy
    <3>2. RowShape' /\ CounterShape' /\ Exact' /\ PaidOnce'
      BY <2>1, <2>2, <2>3, <2>4, <3>1, LegacyMoves
    <3> QED
      BY <1>1, <2>2, <3>2, Together
  <2> QED
    BY <1>3, <2>5, <2>6
<1> QED
  BY <1>2, <1>3

\* The counters: a repair rewrites the row and counts the baseline no more.
LEMMA RepairKeeps ==
    ASSUME Inv, ScanCounters \/ ScanSources \/ CountStands \/ RewriteCounter PROVE Inv'
<1>0. Shape
  BY DEF Inv
<1>1. InviteShape' /\ ReqShape' /\ UNCHANGED rows
  BY <1>0 DEF ScanCounters, ScanSources, CountStands, RewriteCounter, Shape, InviteShape, ReqShape, invites
<1>2. RepairShape'
  <2>1. Cardinality(Stands) \in Nat
    BY Countable DEF Stands
  <2>2. CASE ScanCounters
    BY <1>0, <2>2 DEF ScanCounters, Shape, RepairShape, Repairs
  <2>3. CASE ScanSources
    <3>1. repair' = NoRepair \/ repair' = [repair EXCEPT !.at = "countStands"]
      BY <2>3 DEF ScanSources
    <3> QED
      BY <1>0, <3>1, NoRepairType DEF Shape, RepairShape, Repairs
  <2>4. CASE CountStands
    <3> DEFINE a == [repair EXCEPT !.at = "rewrite"]
               r == [a EXCEPT !.used = Cardinality(Stands)]
    <3>1. a \in Repairs
      BY <1>0 DEF Shape, RepairShape, Repairs
    <3>2. repair' = r
      BY <2>4 DEF CountStands
    <3> HIDE DEF a
    <3>3. r \in Repairs
      BY <2>1, <3>1 DEF Repairs
    <3> HIDE DEF r
    <3> QED
      BY <3>2, <3>3 DEF RepairShape
  <2>5. CASE RewriteCounter
    BY <2>5, NoRepairType DEF RewriteCounter, RepairShape
  <2> QED
    BY <2>2, <2>3, <2>4, <2>5
<1>3. CASE UNCHANGED <<counter, baseline>>
  BY <1>1, <1>2, <1>3, Leaves, Together
<1>4. CASE RewriteCounter /\ baseline' = None
  <2>1. Cardinality(Pending) \in Nat /\ repair.used \in Nat
    BY <1>0, Countable DEF Pending, Shape, RepairShape, Repairs
  <2>2. counter' \in Counter
    BY <1>0, <1>4, <2>1, Recounts DEF RewriteCounter, Shape, CounterShape
  <2>3. RowShape' /\ PaidOnce'
    BY <1>0, <1>1 DEF Inv, Shape, RowShape, PaidOnce, rows
  <2>4. CounterShape' /\ Exact'
    BY <1>4, <2>2 DEF CounterShape, Exact
  <2> QED
    BY <1>1, <1>2, <2>3, <2>4, Together
<1> QED
  BY <1>3, <1>4 DEF ScanCounters, ScanSources, CountStands, RewriteCounter

LEMMA InvNext == ASSUME Inv, [Next]_vars PROVE Inv'
<1>1. CASE UNCHANGED vars
  <2>1. InviteShape' /\ ReqShape'
    BY <1>1 DEF vars, Inv, Shape, InviteShape, ReqShape
  <2> QED
    BY <1>1, <2>1, Quiet DEF vars, rows
<1>2. ASSUME NEW p \in Invocations,
             Continue(p) \/ Crash(p) \/ \E i \in Invitations : Request(p, i)
      PROVE  Inv'
  BY <1>2, RequestKeeps, InviteKeeps, CreateKeeps, LegacyKeeps, EndKeeps DEF Continue
<1>3. ASSUME NEW i \in Invitations, NEW d \in 0..MaxResends, Pass(i, d) PROVE Inv'
  BY <1>3, PassKeeps
<1>4. CASE Repair
  BY <1>4, ExpireKeeps, RepairKeeps DEF Repair
<1> QED
  BY <1>1, <1>2, <1>3, <1>4 DEF Next

LEMMA InvInit == Init => Inv
<1> SUFFICES ASSUME Init PROVE Inv
  OBVIOUS
<1>1. PICK old \in SUBSET Legacy :
        /\ status = [i \in Invitations |-> IF i \in old THEN "pending" ELSE "none"]
        /\ baseline = Cardinality(old)
        /\ counter = NewCounter(Limit, 0, Cardinality(old))
  BY DEF Init
<1>2. Cardinality(old) \in Nat
  BY LegacyAssumption, Countable
<1>3. /\ counter \in Counter /\ counter.reserved = Cardinality(old) /\ counter.used = 0
  BY <1>1, <1>2, Recounts
<1>4. /\ Tally(source, "reserved") = {} /\ Tally(legacy, "reserved") = {}
      /\ Tally(occupancy, "reserved") = {} /\ Tally(occupancy, "consumed") = {}
  BY DEF Init, Tally
<1>5. Exact
  BY <1>1, <1>2, <1>3, <1>4, FS_EmptySet DEF Exact
<1>6. InviteShape
  BY <1>1 DEF Init, InviteShape
<1>7. RowShape /\ PaidOnce
  BY DEF Init, RowShape, Reservations, PaidOnce
<1>8. CounterShape /\ RepairShape
  BY <1>1, <1>2, <1>3, NoRepairType DEF Init, CounterShape, RepairShape
<1>9. ReqShape
  BY IdleType DEF Init, ReqShape
<1> QED
  BY <1>5, <1>6, <1>7, <1>8, <1>9 DEF Inv, Shape

-----------------------------------------------------------------------------
(* Used units are of stands *)

\* A step that ends or moves one request, neither to "write" nor to "consume".
LEMMA StoodMoves ==
    ASSUME Shape, Stood, NEW p \in Invocations, UNCHANGED status,
           NEW step \in Steps \ {"write", "consume"}, Goto(p, step) \/ Return(p),
           \A i \in Invitations : occupancy'[i] = "consumed" => occupancy[i] = "consumed",
           \A i \in Invitations : source[i] # "none" => source'[i] # "none"
    PROVE  Stood'
<1>1. \A q \in Invocations : q # p => req'[q] = req[q]
  BY DEF Shape, ReqShape, Goto, Return
<1>2. req'[p].at \notin {"write", "consume"}
  BY DEF Shape, ReqShape, Requests, Goto, Return, Idle
<1>3. \A q \in Invocations : q # p /\ req[q].at # "idle" => Of(q) \in Invitations /\ Of(q)' = Of(q)
  BY <1>1 DEF Shape, ReqShape, Of
<1> QED
  BY <1>1, <1>2, <1>3 DEF Stood

LEMMA StoodRequest ==
    ASSUME Shape, Stood, NEW p \in Invocations, NEW i \in Invitations, Request(p, i) PROVE Stood'
<1>1. PICK task \in Tasks, step \in Steps :
        /\ Begin(p, task, i, step) /\ step # "consume" /\ UNCHANGED occupancy
        /\ \/ /\ step = "write" /\ status[i] = "none" /\ source[i] = "none" /\ UNCHANGED status
              /\ source' = [source EXCEPT ![i] = "reserved"]
           \/ /\ step # "write" /\ status[i] = "pending" /\ UNCHANGED source
              /\ UNCHANGED status \/ status' = [status EXCEPT ![i] = "revoked"]
  <2>1. CASE BeginCreate(p, i)
    BY <2>1 DEF BeginCreate, invites, Tasks, Steps
  <2>2. CASE BeginAccept(p, i)
    BY <2>2 DEF BeginAccept, invites, rows, Tasks, Steps
  <2>3. CASE BeginResend(p, i)
    BY <2>3 DEF BeginResend, invites, rows, Tasks, Steps
  <2>4. CASE Revoke(p, i)
    BY <2>4 DEF Revoke, rows, Tasks, Steps
  <2> QED
    BY <2>1, <2>2, <2>3, <2>4 DEF Request
<1>2. /\ \A q \in Invocations : q # p => req'[q] = req[q]
      /\ req'[p].at = step /\ req'[p].invitation = i
  BY <1>1 DEF Shape, ReqShape, Requests, Begin
<1>3. \A q \in Invocations : q # p /\ req[q].at # "idle" => Of(q) \in Invitations /\ Of(q)' = Of(q)
  BY <1>2 DEF Shape, ReqShape, Of
<1>4. Of(p)' = i
  BY <1>2 DEF Of
<1>5. \A j \in Invitations : status[j] \in {"none", "accepted"} => status'[j] = status[j]
  BY <1>1 DEF Shape, InviteShape
<1>6. \A j \in Invitations : source[j] # "none" => source'[j] # "none"
  BY <1>1 DEF Shape, RowShape
<1>7. step = "write" => status'[i] = "none" /\ source'[i] # "none"
                       /\ \A q \in Invocations : req[q].at = "write" => Of(q) # i
  BY <1>1 DEF Shape, InviteShape, RowShape, Stood
<1> QED
  BY <1>1, <1>2, <1>3, <1>4, <1>5, <1>6, <1>7 DEF Stood

LEMMA StoodContinue ==
    ASSUME Shape, Stood, NEW p \in Invocations, Continue(p) \/ Crash(p) PROVE Stood'
<1> DEFINE Kept == /\ UNCHANGED status
                   /\ \A i \in Invitations : occupancy'[i] = "consumed" => occupancy[i] = "consumed"
                   /\ \A i \in Invitations : source[i] # "none" => source'[i] # "none"
           Moved == Return(p) \/ \E step \in Steps \ {"write", "consume"} : Goto(p, step)
<1>0. /\ req[p].at # "idle" => Of(p) \in Invitations
      /\ "idle" \in Steps \ {"write", "consume"}
  BY ReqType DEF Steps
<1>1. ASSUME Kept, Moved PROVE Stood'
  BY <1>0, <1>1, StoodMoves
<1>2. CASE RefuseCreate(p) \/ LinkCreated(p) \/ ReserveLegacy(p) \/ LinkLegacy(p)
  <2>1. Moved
    BY <1>2 DEF RefuseCreate, LinkCreated, ReserveLegacy, LinkLegacy, Steps
  <2>2. Kept
    BY <1>0, <1>2 DEF RefuseCreate, LinkCreated, ReserveLegacy, LinkLegacy, LinkInvitation,
                      invites, Shape, RowShape
  <2> QED
    BY <1>1, <2>1, <2>2
<1>3. CASE FindOccupancy(p) \/ RefuseAccept(p) \/ Resend(p) \/ Release(p) \/ Crash(p)
  <2>1. Moved
    BY <1>3 DEF FindOccupancy, RefuseAccept, Resend, Release, Crash, Steps
  <2>2. Kept
    BY <1>0, <1>3 DEF FindOccupancy, RefuseAccept, Resend, Release, ReleaseOccupancy, Crash,
                      invites, rows, Shape, RowShape
  <2> QED
    BY <1>1, <2>1, <2>2
<1>4. \A q \in Invocations \ {p} : req[q].at # "idle" => Of(q) \in Invitations
  BY ReqType
<1>5. CASE WriteInvitation(p) \/ AcceptInvitation(p)
  <2> DEFINE i == Of(p)
             x == IF WriteInvitation(p) THEN "pending" ELSE "accepted"
  <2>1. i \in Invitations /\ UNCHANGED <<occupancy, source>>
    BY <1>0, <1>5 DEF WriteInvitation, AcceptInvitation, rows
  <2>2. /\ \A q \in Invocations \ {p} : req'[q] = req[q] /\ Of(q)' = Of(q)
        /\ req'[p].at \notin {"write", "consume"}
    BY <1>5 DEF WriteInvitation, AcceptInvitation, Goto, Return, Idle, Of, Shape, ReqShape, Requests
  <2>3. /\ \A j \in Invitations \ {i} : status'[j] = status[j]
        /\ status[i] # "accepted"
        /\ \A q \in Invocations \ {p} : req[q].at = "write" => Of(q) # i
    <3>1. CASE WriteInvitation(p)
      BY <2>1, <3>1 DEF WriteInvitation, Shape, InviteShape, Stood
    <3>2. CASE AcceptInvitation(p)
      BY <2>1, <3>2 DEF AcceptInvitation, Shape, InviteShape, Stood
    <3> QED
      BY <1>5, <3>1, <3>2
  <2> QED
    BY <1>4, <2>1, <2>2, <2>3 DEF Stood
<1>6. CASE AcceptDuplicate(p)
  <2>1. /\ Of(p) \in Invitations /\ status[Of(p)] = "accepted" /\ UNCHANGED <<status, occupancy, source>>
    BY <1>0, <1>6 DEF AcceptDuplicate, invites, rows
  <2>2. /\ \A q \in Invocations : Of(q)' = Of(q)
        /\ \A q \in Invocations \ {p} : req'[q] = req[q]
        /\ req'[p].at = "consume"
    BY <1>6 DEF AcceptDuplicate, Goto, Of, Shape, ReqShape, Requests
  <2> QED
    BY <1>4, <2>1, <2>2 DEF Stood
<1>7. CASE Consume(p)
  <2>1. /\ Of(p) \in Invitations /\ status[Of(p)] = "accepted" /\ UNCHANGED <<status, source>>
    BY <1>0, <1>7 DEF Consume, invites, Stood
  <2>2. /\ \A q \in Invocations \ {p} : req'[q] = req[q] /\ Of(q)' = Of(q)
        /\ req'[p].at \notin {"write", "consume"}
    BY <1>7 DEF Consume, Return, Idle, Of, Shape, ReqShape, Requests
  <2>3. \A j \in Invitations : occupancy'[j] = "consumed" => occupancy[j] = "consumed" \/ j = Of(p)
    BY <1>7 DEF Consume, Shape, RowShape
  <2> QED
    BY <1>4, <2>1, <2>2, <2>3 DEF Stood
<1> QED
  BY <1>2, <1>3, <1>5, <1>6, <1>7 DEF Continue

LEMMA StoodNext == ASSUME Shape, Stood, [Next]_vars PROVE Stood'
<1>1. CASE UNCHANGED vars
  BY <1>1 DEF vars, Stood, Of
<1>2. ASSUME NEW i \in Invitations, ExpireOccupancy(i) \/ ExpireSource(i) \/ ExpireLegacy(i)
      PROVE  Stood'
  BY <1>2 DEF ExpireOccupancy, ExpireSource, ExpireLegacy, ReleaseOccupancy, invites, Stood, Of,
              Shape, RowShape, ReqShape
<1>3. CASE ScanCounters \/ ScanSources \/ CountStands \/ RewriteCounter
  BY <1>3 DEF ScanCounters, ScanSources, CountStands, RewriteCounter, invites, rows, Stood, Of
<1>4. ASSUME NEW i \in Invitations, NEW d \in 0..MaxResends, Pass(i, d) PROVE Stood'
  BY <1>4 DEF Pass, rows, Stood, Of
<1> QED
  BY <1>1, <1>2, <1>3, <1>4, StoodRequest, StoodContinue DEF Next, Repair

LEMMA StoodInit == Init => Stood
BY DEF Init, Idle, Stood

LEMMA Always == Spec => [](Inv /\ Stood)
<1>1. Inv => Shape
  BY DEF Inv
<1> QED
  BY <1>1, InvInit, InvNext, StoodInit, StoodNext, PTL DEF Spec

\* The types hold; no column of the counter falls below zero.
THEOREM TypeCorrect == Spec => []TypeOK
<1>1. Inv => TypeOK
  BY DEF Inv, Shape, InviteShape, RowShape, CounterShape, RepairShape, ReqShape, TypeOK
<1> QED
  BY <1>1, Always, PTL

\* Until the first repair, each reserved unit is held by one open row and each used
\* one by a consumed occupancy, and a consumed occupancy is one of a stand: every
\* transaction of quota-store.js moves a row and a unit together, or neither.  That
\* a stand has a used unit is not claimed: the acceptance that makes it uses none.
THEOREM UnitsExact == Spec => []ReservedExact
<1>1. Inv /\ Stood => ReservedExact
  BY ExactMeans DEF Inv
<1> QED
  BY <1>1, Always, PTL

\* An invitation is paid for by one reservation, whether its create request or an
\* acceptance links it first: the occupancy is put under the condition that there
\* is none.
THEOREM PaidByOne == Spec => []PaidOnce
<1>1. Inv => PaidOnce
  BY DEF Inv
<1> QED
  BY <1>1, Always, PTL
=============================================================================

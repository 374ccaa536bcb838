--------------------------- MODULE InvitationQuota ---------------------------
(***************************************************************************)
(* The stands of one event and the invitations to it: creating, accepting, *)
(* resending and revoking an invitation (invitations/invite-wrapper.js     *)
(* around invitations/index.js), the units of the event's stand quota      *)
(* these hold (common/quota-store.js), and the repair that runs beside     *)
(* them (quota-reconciliation/index.js).                                   *)
(*                                                                         *)
(* A request is a Lambda invocation that may end at any await; each action *)
(* is one awaited call of it.  A read followed by a transaction            *)
(* conditioned on what was read is one action.  An accepted invitation and *)
(* the draft stand it creates are one transaction, and no code takes a     *)
(* stand out of the count: the stand is its invitation's status.  Its unit *)
(* is another matter: it is consumed, in the transaction that puts the     *)
(* OCC#STAND row as used, only by an acceptance whose answer has a field   *)
(* standId.  The answer of the acceptance that makes the stand has none,   *)
(* the one of an overlapping duplicate has it.  So a stand may have no     *)
(* used unit: its reserved one stays with the occupancy, and goes back to  *)
(* the counter when that expires.  No code releases an OCC#STAND row.      *)
(*                                                                         *)
(* Time: an invitation has a deadline, and each resend gives it another    *)
(* one, which may be earlier; deadlines pass in any order.  A reservation  *)
(* lasts a week, or the life of the invitation and 60 seconds at least,    *)
(* and an invocation 30 seconds: it does not expire under its request.     *)
(*                                                                         *)
(* Abstracted: authorization, profiles, memberships and the organization's *)
(* own limits (a refusal of the base writer may come at any time), replays *)
(* of a create (they read and answer; Reserve of EventQuota models the     *)
(* transaction that makes them so), stored responses, e-mail delivery and  *)
(* audit rows, the first initialization of the counter (EventQuota) and    *)
(* changes of the plan.                                                    *)
(***************************************************************************)
EXTENDS QuotaCounter, FiniteSets

CONSTANTS
    Invitations, Invocations,
    Legacy,      \* invitations that may be older than the counter
    None,        \* no invitation, no row, no number
    Limit,       \* maxStandsPerEvent of the entitlement
    MaxResends   \* bound of the resends, of all invitations together

ASSUME LegacyAssumption == Legacy \subseteq Invitations
ASSUME NoneAssumption == None \notin Invitations \cup Counter \cup Nat
ASSUME LimitAssumption == Limit \in Nat
ASSUME BoundAssumption == MaxResends \in Nat
ASSUME FiniteAssumption == IsFiniteSet(Invitations)

VARIABLES
    status,     \* of each invitation; "accepted": its stand exists
    deadline,   \* which of its deadlines expiresAt is
    passed,     \* the deadlines of each invitation that have passed
    source,     \* the reservation of its create request
    legacy,     \* the reservation made for it by ensureInvitationOccupancy
    legacyBy,   \* actorUserId of that reservation
    occupancy,  \* OCC#INVITATION row; "consumed": OCC#STAND is used
    until,      \* which deadline invitationExpiresAt is
    counter,    \* the counter row of the event
    req,        \* what each request does and remembers
    repair,     \* what the reconciler does and remembers
    baseline    \* history: reserved units that no row holds, counted when the
                \* row was initialized; None once a repair rewrote the row

invites == <<status, deadline, passed>>
rows == <<source, legacy, legacyBy, occupancy, until>>
vars == <<status, deadline, passed, source, legacy, legacyBy, occupancy, until,
          counter, req, repair, baseline>>

Tasks == {"create", "accept", "resend", "revoke"}
Idle == [at |-> "idle", task |-> "none", invitation |-> None, deadline |-> 0]
NoRepair == [at |-> "idle", used |-> 0]

Init ==
    /\ \E old \in SUBSET Legacy :
        /\ status = [i \in Invitations |-> IF i \in old THEN "pending" ELSE "none"]
        /\ baseline = Cardinality(old)
        /\ counter = NewCounter(Limit, 0, Cardinality(old))
    /\ deadline = [i \in Invitations |-> 0]
    /\ passed = [i \in Invitations |-> {}]
    /\ source = [i \in Invitations |-> "none"]
    /\ legacy = [i \in Invitations |-> "none"]
    /\ legacyBy = [i \in Invitations |-> "none"]
    /\ occupancy = [i \in Invitations |-> "none"]
    /\ until = [i \in Invitations |-> 0]
    /\ req = [p \in Invocations |-> Idle]
    /\ repair = NoRepair
-----------------------------------------------------------------------------
Of(p) == req[p].invitation
Expired(i) == deadline[i] \in passed[i]
Goto(p, step) == req' = [req EXCEPT ![p].at = step]
Return(p) == req' = [req EXCEPT ![p] = Idle]

\* The row is written.  A repair under way has read an older revision, which
\* its write is conditioned on: it will change nothing, and ends here.
Count(row) ==
    /\ counter' = [row EXCEPT !.revision = 1]
    /\ repair' = NoRepair

Begin(p, task, i, step) ==
    /\ req[p] = Idle
    /\ req' = [req EXCEPT ![p] = [at |-> step, task |-> task, invitation |-> i,
                                  deadline |-> deadline[i]]]

Crash(p) ==
    /\ req[p] # Idle
    /\ Return(p)
    /\ UNCHANGED <<invites, rows, counter, repair, baseline>>

\* A deadline that a handler or the repair may still ask for passes.
Pass(i, d) ==
    /\ \/ status[i] = "pending" /\ d = deadline[i]
       \/ occupancy[i] = "reserved" /\ d = until[i]
       \/ \E p \in Invocations : Of(p) = i /\ d = req[p].deadline
    /\ d \notin passed[i]
    /\ passed' = [passed EXCEPT ![i] = @ \cup {d}]
    /\ UNCHANGED <<status, deadline, rows, counter, req, repair, baseline>>
-----------------------------------------------------------------------------
(* Transactions of quota-store.js *)

\* Mutant of LinkInvitation: an occupancy that exists is put again.
LinkInvitation_Again(p, i, kind) ==
    /\ \/ /\ kind = "source" /\ source[i] = "reserved"
          /\ source' = [source EXCEPT ![i] = "linked"]
          /\ UNCHANGED legacy
       \/ /\ kind = "legacy" /\ legacy[i] = "reserved"
          /\ legacy' = [legacy EXCEPT ![i] = "linked"]
          /\ UNCHANGED source
    /\ occupancy' = [occupancy EXCEPT ![i] = "reserved"]
    /\ until' = [until EXCEPT ![i] = req[p].deadline]

\* linkInvitationReservation: the reservation becomes the occupancy of the
\* invitation, with the expiry the request read.
LinkInvitation(p, i, kind) ==
    /\ occupancy[i] = "none"
    /\ \/ /\ kind = "source" /\ source[i] = "reserved"
          /\ source' = [source EXCEPT ![i] = "linked"]
          /\ UNCHANGED legacy
       \/ /\ kind = "legacy" /\ legacy[i] = "reserved"
          /\ legacy' = [legacy EXCEPT ![i] = "linked"]
          /\ UNCHANGED source
    /\ occupancy' = [occupancy EXCEPT ![i] = "reserved"]
    /\ until' = [until EXCEPT ![i] = req[p].deadline]

\* Mutant of ReleaseOccupancy: the counter is not asked for a reserved unit.
ReleaseOccupancy_Unchecked(i) ==
    IF occupancy[i] = "reserved"
    THEN /\ Count(ReturnReserved(counter))
         /\ occupancy' = [occupancy EXCEPT ![i] = "released"]
    ELSE UNCHANGED <<occupancy, counter, repair>>

\* releaseOccupancy("INVITATION")
ReleaseOccupancy(i) ==
    IF occupancy[i] = "reserved" /\ counter.reserved >= 1
    THEN /\ Count(ReturnReserved(counter))
         /\ occupancy' = [occupancy EXCEPT ![i] = "released"]
    ELSE UNCHANGED <<occupancy, counter, repair>>

\* The answer of a revocation, of an acceptance that came too late or of one
\* refused by the base writer, after the release.
Release(p) ==
    /\ req[p].at = "release"
    /\ ReleaseOccupancy(Of(p))
    /\ Return(p)
    /\ UNCHANGED <<invites, source, legacy, legacyBy, until, baseline>>
-----------------------------------------------------------------------------
(* handleCreate *)

\* reserveStandSlot, refused without a trace if the counter has no room
BeginCreate(p, i) ==
    /\ status[i] = "none"
    /\ source[i] = "none"
    /\ HasRoom(counter)
    /\ Begin(p, "create", i, "write")
    /\ Count(TakeUnit(counter))
    /\ source' = [source EXCEPT ![i] = "reserved"]
    /\ UNCHANGED <<invites, legacy, legacyBy, occupancy, until, baseline>>

\* createInvitation: the e-mail leaves before the reservation is linked.  It
\* has its own check of the limit, on a count of the stands.
WriteInvitation(p) ==
    /\ req[p].at = "write"
    /\ status' = [status EXCEPT ![Of(p)] = "pending"]
    /\ Goto(p, "link")
    /\ UNCHANGED <<deadline, passed, rows, counter, repair, baseline>>

\* releaseSourceReservation when the writer refused or failed
RefuseCreate(p) == LET i == Of(p) IN
    /\ req[p].at = "write"
    /\ IF source[i] = "reserved" /\ counter.reserved >= 1
       THEN /\ Count(ReturnReserved(counter))
            /\ source' = [source EXCEPT ![i] = "released"]
       ELSE UNCHANGED <<source, counter, repair>>
    /\ Return(p)
    /\ UNCHANGED <<invites, legacy, legacyBy, occupancy, until, baseline>>

\* An occupancy that somebody put meanwhile is taken for the reservation's own,
\* which stays reserved.
LinkCreated(p) == LET i == Of(p) IN
    /\ req[p].at = "link"
    /\ \/ LinkInvitation(p, i, "source")
       \/ /\ occupancy[i] # "none" \/ source[i] # "reserved"
          /\ UNCHANGED <<source, legacy, occupancy, until>>
    /\ Return(p)
    /\ UNCHANGED <<invites, legacyBy, counter, repair, baseline>>
-----------------------------------------------------------------------------
(* handleAccept, handleResend: ensureInvitationOccupancy *)

Actor(p) == IF req[p].task = "accept" THEN "exhibitor" ELSE "organizer"

\* assertInvitationAcceptable; an invitation found expired loses its occupancy.
BeginAccept(p, i) ==
    /\ status[i] = "pending"
    /\ Begin(p, "accept", i, IF Expired(i) THEN "release" ELSE "ensure")
    /\ UNCHANGED <<invites, rows, counter, repair, baseline>>

BeginResend(p, i) ==
    /\ status[i] = "pending"
    /\ Begin(p, "resend", i, "ensure")
    /\ UNCHANGED <<invites, rows, counter, repair, baseline>>

\* Any row will do, whatever its status.
FindOccupancy(p) ==
    /\ req[p].at = "ensure"
    /\ Goto(p, IF occupancy[Of(p)] # "none" THEN "base" ELSE "reserve")
    /\ UNCHANGED <<invites, rows, counter, repair, baseline>>

\* reserveStandSlot under the key legacy-invitation:<id>: one reservation per
\* invitation, replayed to the actor who made it and refused to others.
ReserveLegacy(p) == LET i == Of(p) IN
    /\ req[p].at = "reserve"
    /\ \/ /\ legacy[i] = "none"
          /\ HasRoom(counter)
          /\ Count(TakeUnit(counter))
          /\ legacy' = [legacy EXCEPT ![i] = "reserved"]
          /\ legacyBy' = [legacyBy EXCEPT ![i] = Actor(p)]
          /\ Goto(p, "linkLegacy")
       \/ /\ legacy[i] # "none"
          /\ legacyBy[i] = Actor(p)
          /\ Goto(p, "linkLegacy")
          /\ UNCHANGED <<legacy, legacyBy, counter, repair>>
       \/ /\ IF legacy[i] = "none" THEN ~HasRoom(counter)
             ELSE legacyBy[i] # Actor(p)
          /\ Return(p)
          /\ UNCHANGED <<legacy, legacyBy, counter, repair>>
    /\ UNCHANGED <<invites, source, occupancy, until, baseline>>

LinkLegacy(p) == LET i == Of(p) IN
    /\ req[p].at = "linkLegacy"
    /\ \/ /\ LinkInvitation(p, i, "legacy")
          /\ Goto(p, "base")
       \/ /\ occupancy[i] # "none"
          /\ Goto(p, "base")
          /\ UNCHANGED <<source, legacy, occupancy, until>>
       \/ /\ occupancy[i] = "none" /\ legacy[i] # "reserved"
          /\ Return(p)
          /\ UNCHANGED <<source, legacy, occupancy, until>>
    /\ UNCHANGED <<invites, legacyBy, counter, repair, baseline>>

\* acceptInvitation: the stand, the invitation and the membership together.
\* The answer has the stand, whose key is stand_id: handleAccept finds no
\* standId in it, answers STAND_ID_MISSING, and consumes nothing.
AcceptInvitation(p) == LET i == Of(p) IN
    /\ req[p].at = "base" /\ req[p].task = "accept"
    /\ status[i] = "pending" /\ ~Expired(i)
    /\ status' = [status EXCEPT ![i] = "accepted"]
    /\ Return(p)
    /\ UNCHANGED <<deadline, passed, rows, counter, repair, baseline>>

\* An acceptance that began while the invitation was pending finds it accepted
\* by the same recipient: the answer to a duplicate has the standId.
AcceptDuplicate(p) ==
    /\ req[p].at = "base" /\ req[p].task = "accept"
    /\ status[Of(p)] = "accepted"
    /\ Goto(p, "consume")
    /\ UNCHANGED <<invites, rows, counter, repair, baseline>>

\* Refused; the occupancy is released if the invitation has expired as it was
\* read at first.
RefuseAccept(p) ==
    /\ req[p].at = "base" /\ req[p].task = "accept"
    /\ IF req[p].deadline \in passed[Of(p)] THEN Goto(p, "release") ELSE Return(p)
    /\ UNCHANGED <<invites, rows, counter, repair, baseline>>

\* Mutant of Consume: the occupancy stays reserved.
Consume_OccupancyKept(p) == LET i == Of(p) IN
    /\ req[p].at = "consume"
    /\ IF occupancy[i] = "reserved" /\ counter.reserved >= 1
       THEN Count(UseUnit(counter))
       ELSE UNCHANGED <<counter, repair>>
    /\ Return(p)
    /\ UNCHANGED <<invites, source, legacy, legacyBy, occupancy, until, baseline>>

\* consumeInvitationReservation, of a duplicate: a second one finds the OCC#STAND
\* row, and without a reserved occupancy the answer is an error.
Consume(p) == LET i == Of(p) IN
    /\ req[p].at = "consume"
    /\ IF occupancy[i] = "reserved" /\ counter.reserved >= 1
       THEN /\ Count(UseUnit(counter))
            /\ occupancy' = [occupancy EXCEPT ![i] = "consumed"]
       ELSE UNCHANGED <<occupancy, counter, repair>>
    /\ Return(p)
    /\ UNCHANGED <<invites, source, legacy, legacyBy, until, baseline>>

Resends ==
    {r \in Invitations \X (1..MaxResends) : r[2] <= deadline[r[1]]}

\* manageInvitation: an invitation that has expired lives again, its occupancy
\* keeps the old expiry.
Resend(p) == LET i == Of(p) IN
    /\ req[p].at = "base" /\ req[p].task = "resend"
    /\ \/ /\ status[i] = "pending"
          /\ Cardinality(Resends) < MaxResends
          /\ deadline' = [deadline EXCEPT ![i] = @ + 1]
       \/ UNCHANGED deadline
    /\ Return(p)
    /\ UNCHANGED <<status, passed, rows, counter, repair, baseline>>

\* handleRevoke: the base writer first, then the release of the occupancy.
Revoke(p, i) ==
    /\ status[i] = "pending"
    /\ Begin(p, "revoke", i, "release")
    /\ status' = [status EXCEPT ![i] = "revoked"]
    /\ UNCHANGED <<deadline, passed, rows, counter, repair, baseline>>
-----------------------------------------------------------------------------
(* The reconciler *)

\* expireReservations, before the counters: rows past their expiry, each read
\* again.  A source may expire at any time: under its own request, that does
\* nothing that the death of the request would not do.
ExpireOccupancy(i) ==
    /\ repair.at = "idle"
    /\ until[i] \in passed[i]
    /\ ReleaseOccupancy(i)
    /\ UNCHANGED <<invites, source, legacy, legacyBy, until, req, baseline>>

ExpireSource(i) ==
    /\ repair.at = "idle"
    /\ source[i] = "reserved" /\ counter.reserved >= 1
    /\ Count(ReturnReserved(counter))
    /\ source' = [source EXCEPT ![i] = "released"]
    /\ UNCHANGED <<invites, legacy, legacyBy, occupancy, until, req, baseline>>

ExpireLegacy(i) ==
    /\ repair.at = "idle"
    /\ legacy[i] = "reserved" /\ counter.reserved >= 1
    /\ Count(ReturnReserved(counter))
    /\ legacy' = [legacy EXCEPT ![i] = "released"]
    /\ UNCHANGED <<invites, source, legacyBy, occupancy, until, req, baseline>>

ScanCounters ==
    /\ repair.at = "idle"
    /\ repair' = [repair EXCEPT !.at = "scanSources"]
    /\ UNCHANGED <<invites, rows, counter, req, baseline>>

\* A counter with an open RES# row is left to another run; OCC# rows are not
\* asked for.
ScanSources ==
    /\ repair.at = "scanSources"
    /\ repair' = IF \E i \in Invitations : "reserved" \in {source[i], legacy[i]}
                 THEN NoRepair ELSE [repair EXCEPT !.at = "countStands"]
    /\ UNCHANGED <<invites, rows, counter, req, baseline>>

Stands == {i \in Invitations : status[i] = "accepted"}
Pending == {i \in Invitations : status[i] = "pending" /\ ~Expired(i)}

\* calculateStandUsage scans one table after the other.
CountStands ==
    /\ repair.at = "countStands"
    /\ repair' = [repair EXCEPT !.at = "rewrite", !.used = Cardinality(Stands)]
    /\ UNCHANGED <<invites, rows, counter, req, baseline>>

\* The scan of the invitations, and setCounterAbsolute if the row drifted.
RewriteCounter ==
    LET reserved == Cardinality(Pending) IN
    /\ repair.at = "rewrite"
    /\ repair' = NoRepair
    /\ \/ /\ Differs(counter, Limit, repair.used, reserved)
          /\ counter' = NewCounter(Limit, repair.used, reserved)
          /\ baseline' = None
       \/ UNCHANGED <<counter, baseline>>
    /\ UNCHANGED <<invites, rows, req>>
-----------------------------------------------------------------------------
Continue(p) ==
    \/ WriteInvitation(p) \/ RefuseCreate(p) \/ LinkCreated(p)
    \/ FindOccupancy(p) \/ ReserveLegacy(p) \/ LinkLegacy(p)
    \/ AcceptInvitation(p) \/ AcceptDuplicate(p) \/ RefuseAccept(p) \/ Consume(p)
    \/ Resend(p) \/ Release(p)

Request(p, i) ==
    \/ BeginCreate(p, i) \/ BeginAccept(p, i) \/ BeginResend(p, i) \/ Revoke(p, i)

Repair ==
    \/ \E i \in Invitations : ExpireOccupancy(i) \/ ExpireSource(i) \/ ExpireLegacy(i)
    \/ ScanCounters \/ ScanSources \/ CountStands \/ RewriteCounter

Next ==
    \/ \E p \in Invocations :
        \/ Continue(p) \/ Crash(p)
        \/ \E i \in Invitations : Request(p, i)
    \/ \E i \in Invitations : \E d \in 0..MaxResends : Pass(i, d)
    \/ Repair

Spec == Init /\ [][Next]_vars
-----------------------------------------------------------------------------
(* Properties *)

Reservations == {"none", "reserved", "linked", "released"}
Steps == {"idle", "write", "link", "ensure", "reserve", "linkLegacy", "base",
          "consume", "release"}
Requests == [at : Steps, task : Tasks \cup {"none"},
             invitation : Invitations \cup {None}, deadline : Nat]
Repairs == [at : {"idle", "scanSources", "countStands", "rewrite"},
            used : Nat]

\* No write of a handler or of the repair, however stale what it read, leaves a
\* row the others cannot read; no column of the counter falls below zero.
TypeOK ==
    /\ status \in [Invitations -> {"none", "pending", "accepted", "revoked"}]
    /\ deadline \in [Invitations -> Nat]
    /\ passed \in [Invitations -> SUBSET Nat]
    /\ source \in [Invitations -> Reservations]
    /\ legacy \in [Invitations -> Reservations]
    /\ legacyBy \in [Invitations -> {"none", "organizer", "exhibitor"}]
    /\ occupancy \in [Invitations -> {"none", "reserved", "consumed", "released"}]
    /\ until \in [Invitations -> Nat]
    /\ counter \in Counter
    /\ req \in [Invocations -> Requests]
    /\ repair \in Repairs
    /\ baseline \in Nat \cup {None}

Open(row) == {i \in Invitations : row[i] = "reserved"}

\* Until the first repair, each reserved unit is held by one open row and each
\* used one by one consumed occupancy: accepting, revoking, expiring and resending
\* the same invitation at once moves no unit without its row and returns none
\* twice.  At any time a consumed occupancy is one of a stand.  Not conversely:
\* the code leaves stands whose occupancy is still open, or was released.
ReservedExact ==
    /\ baseline # None =>
        /\ counter.reserved = baseline + Cardinality(Open(source))
               + Cardinality(Open(legacy)) + Cardinality(Open(occupancy))
        /\ counter.used = Cardinality({i \in Invitations : occupancy[i] = "consumed"})
    /\ \A i \in Invitations : occupancy[i] = "consumed" => status[i] = "accepted"

\* An invitation is paid for by one reservation, although the recipient may
\* accept it before the request that created it has linked its own
\* (linkInvitationReservation, ensureInvitationOccupancy).
PaidOnce == \A i \in Invitations :
    /\ ~(source[i] = "linked" /\ legacy[i] = "linked")
    /\ occupancy[i] # "none" <=> "linked" \in {source[i], legacy[i]}

=============================================================================

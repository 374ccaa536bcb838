--------------------------- MODULE OwnershipProofs ---------------------------
(***************************************************************************)
(* Theorems about Ownership for any users, requests and revisions.  The    *)
(* named owner follows from types alone: the one write that makes an owner *)
(* demotes the user it requires to be the named one.  That removed members *)
(* stay needs to know what a change at its last step expects: a revision   *)
(* the row has or had, and one it no longer has if it was removed.         *)
(***************************************************************************)
EXTENDS Ownership, TLAPS

\* A change about to be written, of a member whose account is not deleted,
\* expects a revision that the row had before it was removed.
LateChange(p) ==
    pc[p] = "change" /\ target[p] \in Users \ Deletable =>
        /\ expected[p] <= member[target[p]].revision
        /\ member[target[p]].status = "removed" =>
               expected[p] < member[target[p]].revision

\* Before it read the row, it expects a revision the row has or had.
EarlyChange(p) ==
    pc[p] = "readMember" /\ target[p] \in Users \ Deletable =>
        expected[p] <= member[target[p]].revision

Aimed(p) == pc[p] # "idle" => target[p] \in Users
Deleting(p) ==
    pc[p] \in {"deleteMember", "deleteProfile"} => target[p] \in Deletable
Adding(p) == pc[p] = "add" => offered[p] # "none"
Transferring(p) == pc[p] \in {"readHeir", "transfer"} =>
    actor[p] \in Users \cup {Admin} /\ actor[p] # target[p]

Sane ==
    \A p \in Invocations :
        Aimed(p) /\ Deleting(p) /\ Adding(p) /\ Transferring(p)

Changes == \A p \in Invocations : EarlyChange(p) /\ LateChange(p)

Shape == TypeOK /\ Sane
-----------------------------------------------------------------------------
(* Types *)

LEMMA RowTypes ==
    /\ NoRow \notin Rows /\ NoRow.role = "none" /\ NoRow.status = "none"
    /\ NoRow.revision = 0
    /\ \A role \in {"organizer", "exhibitor"} : Row(role, "active", 1) \in Rows
    /\ Row("owner", "active", 1) \in Rows
BY RevisionAssumption DEF NoRow, Row, Rows, Roles

LEMMA ChangedType ==
    ASSUME NEW row \in Rows, row.revision < MaxRevision, NEW new \in Changed(row)
    PROVE  /\ new \in Rows
           /\ new.revision = row.revision + 1
           /\ new.role = row.role \/ new.role # "owner"
BY RevisionAssumption DEF Changed, Row, Rows, Roles

LEMMA ShapeInit == Init => Shape
BY RowTypes, RevisionAssumption
DEF Init, Shape, TypeOK, Sane, Aimed, Deleting, Adding, Transferring, Steps

\* What Return leaves of the types.
LEMMA ReturnShape ==
    ASSUME Shape, NEW p \in Invocations, Return(p)
    PROVE  /\ pc' \in [Invocations -> Steps]
           /\ actor' \in [Invocations -> Users \cup {Admin, None}]
           /\ target' \in [Invocations -> Users \cup {None}]
           /\ offered' \in [Invocations -> {"none", "organizer", "exhibitor"}]
           /\ expected' \in [Invocations -> 0..MaxRevision]
           /\ Sane'
BY RevisionAssumption DEF Return, Shape, TypeOK, Sane, Aimed, Deleting, Adding, Transferring, Steps

LEMMA ShapeNext == Shape /\ [Next]_vars => Shape'
<1> SUFFICES ASSUME Shape, [Next]_vars PROVE Shape'
  OBVIOUS
<1> USE DEF Shape
<1>0. CASE UNCHANGED vars
  BY <1>0 DEF vars, TypeOK, Sane, Aimed, Deleting, Adding, Transferring
<1>1. ASSUME NEW p \in Invocations, Crash(p) PROVE Shape'
  BY <1>1, ReturnShape DEF Crash, TypeOK
<1>2. ASSUME NEW p \in Invocations, NEW a \in Users \cup {Admin}, NEW u \in Users,
             NEW role \in {"organizer", "exhibitor"}, BeginAdd(p, a, u, role)
      PROVE  Shape'
  BY <1>2 DEF BeginAdd, Begin, Goto, TypeOK, Sane, Aimed, Deleting, Adding,
              Transferring, Steps
<1>3. ASSUME NEW p \in Invocations, NEW a \in Users \cup {Admin}, NEW u \in Users,
             NEW revision \in 1..MaxRevision, BeginChange(p, a, u, revision)
      PROVE  Shape'
  BY <1>3, RevisionAssumption
  DEF BeginChange, Begin, Goto, TypeOK, Sane, Aimed, Deleting, Adding,
      Transferring, Steps
<1>4. ASSUME NEW p \in Invocations, NEW a \in Users \cup {Admin}, NEW u \in Users,
             BeginTransfer(p, a, u)
      PROVE  Shape'
  BY <1>4 DEF BeginTransfer, Begin, Goto, TypeOK, Sane, Aimed, Deleting, Adding,
              Transferring, Steps
<1>5. ASSUME NEW p \in Invocations, NEW u \in Users, BeginDelete(p, u)
      PROVE  Shape'
  BY <1>5 DEF BeginDelete, Begin, Goto, TypeOK, Sane, Aimed, Deleting, Adding,
              Transferring, Steps
<1>6. ASSUME NEW p \in Invocations, AddMember(p) PROVE Shape'
  <2>1. offered[p] \in {"organizer", "exhibitor"} /\ target[p] \in Users
    BY <1>6 DEF AddMember, TypeOK, Sane, Aimed, Adding
  <2>2. member' \in [Users -> Rows \cup {NoRow}]
    BY <1>6, <2>1, RowTypes DEF AddMember, Write, TypeOK
  <2> QED
    BY <1>6, <2>2, ReturnShape DEF AddMember, TypeOK
<1>7. ASSUME NEW p \in Invocations, ReadMember(p) PROVE Shape'
  <2>1. CASE Return(p)
    BY <1>7, <2>1, ReturnShape DEF ReadMember, TypeOK
  <2>2. CASE ~Return(p)
    BY <1>7, <2>2 DEF ReadMember, Goto, TypeOK, Sane, Aimed, Deleting, Adding,
                      Transferring, Steps
  <2> QED
    BY <2>1, <2>2
<1>8. ASSUME NEW p \in Invocations, ChangeMember(p) PROVE Shape'
  <2>1. member' \in [Users -> Rows \cup {NoRow}]
    <3>1. CASE UNCHANGED member
      BY <3>1 DEF TypeOK
    <3>2. ASSUME member[target[p]] # NoRow,
                 member[target[p]].revision < MaxRevision,
                 NEW new \in Changed(member[target[p]]), Write(target[p], new)
          PROVE  member' \in [Users -> Rows \cup {NoRow}]
      <4>1. target[p] \in Users
        BY <1>8 DEF ChangeMember, Sane, Aimed
      <4>2. member[target[p]] \in Rows
        BY <3>2, <4>1 DEF TypeOK
      <4> QED
        BY <3>2, <4>1, <4>2, ChangedType DEF Write, TypeOK
    <3> QED
      BY <1>8, <3>1, <3>2 DEF ChangeMember
  <2> QED
    BY <1>8, <2>1, ReturnShape DEF ChangeMember, TypeOK
<1>9. ASSUME NEW p \in Invocations, ReadHeir(p) PROVE Shape'
  <2>1. CASE Return(p)
    BY <1>9, <2>1, ReturnShape DEF ReadHeir, TypeOK
  <2>2. CASE ~Return(p)
    BY <1>9, <2>2 DEF ReadHeir, Goto, TypeOK, Sane, Aimed, Deleting, Adding,
                      Transferring, Steps
  <2> QED
    BY <2>1, <2>2
<1>10. ASSUME NEW p \in Invocations, Transfer(p) PROVE Shape'
  <2>1. owner' \in Users /\ member' \in [Users -> Rows \cup {NoRow}]
    <3>1. CASE UNCHANGED <<owner, member>>
      BY <3>1 DEF TypeOK
    <3>2. CASE Transferable(p)
      BY <1>10, <3>2, RowTypes
      DEF Transfer, Transferable, Active, TypeOK, Sane, Aimed, Rows, Roles
    <3> QED
      BY <1>10, <3>1, <3>2 DEF Transfer
  <2> QED
    BY <1>10, <2>1, ReturnShape DEF Transfer, TypeOK
<1>11. ASSUME NEW p \in Invocations, DeleteMember(p) PROVE Shape'
  BY <1>11 DEF DeleteMember, Write, Goto, TypeOK, Sane, Aimed, Deleting, Adding,
               Transferring, Steps
<1>12. ASSUME NEW p \in Invocations, DeleteProfile(p) PROVE Shape'
  BY <1>12, ReturnShape DEF DeleteProfile, TypeOK
<1>13. ASSUME NEW p \in Invocations, NEW u \in Users, BeginJoin(p, u) PROVE Shape'
  BY <1>13 DEF BeginJoin, Begin, Goto, TypeOK, Sane, Aimed, Deleting, Adding,
               Transferring, Steps
<1> QED
  BY <1>0, <1>1, <1>2, <1>3, <1>4, <1>5, <1>6, <1>7, <1>8, <1>9, <1>10, <1>11,
     <1>12, <1>13 DEF Next, Request, Continue

\* Every row, whatever races for it, is one the program knows: the statuses,
\* roles and revisions of the membership table.
THEOREM TypeCorrect == Spec => []TypeOK
<1>1. Spec => []Shape
  BY ShapeInit, ShapeNext, PTL DEF Spec
<1> QED
  BY <1>1, PTL DEF Shape
-----------------------------------------------------------------------------
(* One owner *)

LEMMA OwnerInit == Init => OwnerIsNamed
BY RowTypes DEF Init, OwnerIsNamed

\* A row written by anything but a transfer is an owner's only if it was one.
LEMMA SameOwner ==
    ASSUME OwnerIsNamed, owner' = owner, NEW u \in Users, NEW row,
           TypeOK, member' = [member EXCEPT ![u] = row],
           row.role = "owner" => member[u].role = "owner"
    PROVE  OwnerIsNamed'
BY DEF OwnerIsNamed, TypeOK

LEMMA OwnerNext == Shape /\ OwnerIsNamed /\ [Next]_vars => OwnerIsNamed'
<1> SUFFICES ASSUME Shape, OwnerIsNamed, [Next]_vars PROVE OwnerIsNamed'
  OBVIOUS
<1> USE DEF Shape
<1>0. CASE UNCHANGED <<owner, member>>
  BY <1>0 DEF OwnerIsNamed
<1>1. ASSUME NEW p \in Invocations, AddMember(p) PROVE OwnerIsNamed'
  <2>1. CASE UNCHANGED member
    BY <1>1, <2>1, <1>0 DEF AddMember
  <2>2. CASE Write(target[p], Row(offered[p], "active", 1))
    <3>1. target[p] \in Users /\ offered[p] # "owner"
      BY <1>1 DEF AddMember, TypeOK, Sane, Aimed
    <3>2. Row(offered[p], "active", 1).role = offered[p]
      BY DEF Row
    <3>3. owner' = owner
      BY <1>1 DEF AddMember
    <3> QED
      BY <2>2, <3>1, <3>2, <3>3, SameOwner DEF Write
  <2> QED
    BY <1>1, <2>1, <2>2 DEF AddMember
<1>2. ASSUME NEW p \in Invocations, ChangeMember(p) PROVE OwnerIsNamed'
  <2>1. CASE UNCHANGED member
    BY <1>2, <2>1, <1>0 DEF ChangeMember
  <2>2. ASSUME member[target[p]] # NoRow,
               member[target[p]].revision < MaxRevision,
               NEW new \in Changed(member[target[p]]), Write(target[p], new)
        PROVE  OwnerIsNamed'
    <3>1. target[p] \in Users
      BY <1>2 DEF ChangeMember, Sane, Aimed
    <3>2. member[target[p]] \in Rows
      BY <2>2, <3>1 DEF TypeOK
    <3>3. owner' = owner
      BY <1>2 DEF ChangeMember
    <3>4. new.role = member[target[p]].role \/ new.role # "owner"
      BY <2>2, <3>2, ChangedType
    <3> QED
      BY <2>2, <3>1, <3>3, <3>4, SameOwner DEF Write
  <2> QED
    BY <1>2, <2>1, <2>2 DEF ChangeMember
<1>3. ASSUME NEW p \in Invocations, Transfer(p) PROVE OwnerIsNamed'
  <2>1. CASE UNCHANGED <<owner, member>>
    BY <2>1, <1>0
  <2>2. CASE Transferable(p)
    <3>1. target[p] \in Users /\ owner = actor[p] /\ actor[p] # target[p]
      BY <1>3, <2>2 DEF Transfer, Transferable, Sane, Aimed, Transferring
    <3>2. ~Transferable(p) \/
          /\ owner' = target[p]
          /\ member' = [member EXCEPT ![target[p]].role = "owner",
                                      ![actor[p]].role = "organizer"]
      BY <1>3 DEF Transfer
    <3>3. ASSUME NEW u \in Users, u # target[p] PROVE member'[u].role # "owner"
      <4>1. CASE u = actor[p]
        BY <2>2, <3>1, <3>2, <4>1
        DEF TypeOK, Transferable, Active, Rows, NoRow, Row
      <4>2. CASE u # actor[p]
        BY <2>2, <3>1, <3>2, <3>3, <4>2 DEF TypeOK, OwnerIsNamed
      <4> QED
        BY <4>1, <4>2
    <3> QED
      BY <2>2, <3>2, <3>3 DEF OwnerIsNamed
  <2> QED
    BY <1>3, <2>1, <2>2 DEF Transfer
<1>4. ASSUME NEW p \in Invocations, DeleteMember(p) PROVE OwnerIsNamed'
  <2>1. target[p] \in Users
    BY <1>4 DEF DeleteMember, Sane, Aimed
  <2> QED
    BY <1>4, <2>1, SameOwner, RowTypes DEF DeleteMember, Write
<1>5. ASSUME NEW p \in Invocations,
             \/ Crash(p) \/ Request(p) \/ ReadMember(p) \/ ReadHeir(p)
             \/ DeleteProfile(p)
      PROVE  UNCHANGED <<owner, member>>
  BY <1>5 DEF Crash, Request, ReadMember, ReadHeir, DeleteProfile, BeginAdd,
              BeginJoin, BeginChange, BeginTransfer, BeginDelete, Begin
<1>6. CASE UNCHANGED vars
  BY <1>6, <1>0 DEF vars
<1> QED
  BY <1>0, <1>1, <1>2, <1>3, <1>4, <1>5, <1>6 DEF Next, Continue

\* The role of the owner goes to the user the organization names, and to nobody
\* else, in every state of every organization.
THEOREM OwnerNamed == Spec => []OwnerIsNamed
<1>1. Init => Shape /\ OwnerIsNamed
  BY ShapeInit, OwnerInit
<1>2. (Shape /\ OwnerIsNamed) /\ [Next]_vars => (Shape /\ OwnerIsNamed)'
  BY ShapeNext, OwnerNext
<1> QED
  BY <1>1, <1>2, PTL DEF Spec
-----------------------------------------------------------------------------
(* Removed members *)

\* Revisions of a row grow, a tombstone stays, and to become one takes a
\* revision.
Advances(u) ==
    /\ member'[u].revision >= member[u].revision
    /\ member[u].status = "removed" => member'[u].status = "removed"
    /\ member[u].status # "removed" /\ member'[u].status = "removed"
           => member'[u].revision > member[u].revision

LEMMA RowsAdvance ==
    ASSUME Shape, Changes, [Next]_vars, NEW u \in Users \ Deletable
    PROVE  Advances(u)
<1> USE DEF Shape
<1>0. ASSUME member'[u] = member[u] PROVE Advances(u)
  <2>1. member[u].revision \in Nat
    BY RowTypes, RevisionAssumption DEF TypeOK, Rows
  <2> QED
    BY <1>0, <2>1 DEF Advances
<1>1. ASSUME member[u] = NoRow, NEW role, member'[u] = Row(role, "active", 1)
      PROVE  Advances(u)
  BY <1>1 DEF Advances, NoRow, Row
<1>2. ASSUME NEW p \in Invocations, AddMember(p) PROVE Advances(u)
  <2>1. CASE UNCHANGED member
    BY <2>1, <1>0
  <2>2. CASE member[target[p]] = NoRow
             /\ Write(target[p], Row(offered[p], "active", 1))
    BY <2>2, <1>0, <1>1 DEF Write, TypeOK
  <2> QED
    BY <1>2, <2>1, <2>2 DEF AddMember
<1>3. ASSUME NEW p \in Invocations, ChangeMember(p) PROVE Advances(u)
  <2>1. CASE UNCHANGED member
    BY <2>1, <1>0
  <2>2. ASSUME member[target[p]] # NoRow,
               member[target[p]].revision = expected[p],
               member[target[p]].revision < MaxRevision,
               NEW new \in Changed(member[target[p]]), Write(target[p], new)
        PROVE  Advances(u)
    <3>1. CASE target[p] # u
      BY <2>2, <3>1, <1>0 DEF Write, TypeOK
    <3>2. CASE target[p] = u
      <4>1. member[u] \in Rows
        BY <2>2, <3>2 DEF TypeOK
      <4>2. member[u].revision \in Nat
        BY <4>1, RevisionAssumption DEF Rows
      <4>3. member[u].status # "removed"
        BY <1>3, <2>2, <3>2, <4>2 DEF ChangeMember, Changes, LateChange
      <4>4. new.revision = member[u].revision + 1
        BY <2>2, <3>2, <4>1, ChangedType
      <4>5. member'[u] = new
        BY <2>2, <3>2 DEF Write, TypeOK
      <4> QED
        BY <4>2, <4>3, <4>4, <4>5 DEF Advances
    <3> QED
      BY <3>1, <3>2
  <2> QED
    BY <1>3, <2>1, <2>2 DEF ChangeMember
<1>4. ASSUME NEW p \in Invocations, Transfer(p) PROVE Advances(u)
  <2>1. CASE UNCHANGED <<owner, member>>
    BY <2>1, <1>0
  <2>2. CASE Transferable(p)
    <3>1. member'[u].status = member[u].status
          /\ member'[u].revision = member[u].revision
      BY <1>4, <2>2
      DEF Transfer, Transferable, Active, TypeOK, Rows, NoRow, Row
    <3>2. member[u].revision \in Nat
      BY RowTypes, RevisionAssumption DEF TypeOK, Rows
    <3> QED
      BY <3>1, <3>2 DEF Advances
  <2> QED
    BY <1>4, <2>1, <2>2 DEF Transfer
<1>5. ASSUME NEW p \in Invocations, DeleteMember(p) PROVE Advances(u)
  <2>1. target[p] # u
    BY <1>5 DEF DeleteMember, Sane, Deleting
  <2> QED
    BY <1>5, <2>1, <1>0 DEF DeleteMember, Write, TypeOK
<1>6. ASSUME NEW p \in Invocations,
             \/ Crash(p) \/ Request(p) \/ ReadMember(p) \/ ReadHeir(p)
             \/ DeleteProfile(p)
      PROVE  UNCHANGED member
  BY <1>6 DEF Crash, Request, ReadMember, ReadHeir, DeleteProfile, BeginAdd,
              BeginJoin, BeginChange, BeginTransfer, BeginDelete, Begin
<1>7. CASE UNCHANGED vars
  BY <1>7, <1>0 DEF vars
<1> QED
  BY <1>0, <1>2, <1>3, <1>4, <1>5, <1>6, <1>7 DEF Next, Continue

\* A request that is not at a step of a change, or goes on as it was.
LEMMA ChangeGoesOn ==
    ASSUME Shape, Changes, [Next]_vars, NEW q \in Invocations,
           \/ pc'[q] \notin {"readMember", "change"}
           \/ /\ pc'[q] = pc[q] /\ target'[q] = target[q]
              /\ expected'[q] = expected[q]
    PROVE  EarlyChange(q)' /\ LateChange(q)'
<1>1. CASE pc'[q] \notin {"readMember", "change"}
  BY <1>1 DEF EarlyChange, LateChange
<1>2. CASE /\ pc'[q] = pc[q] /\ target'[q] = target[q]
           /\ expected'[q] = expected[q]
  <2> SUFFICES ASSUME target[q] \in Users \ Deletable
               PROVE  EarlyChange(q)' /\ LateChange(q)'
    BY <1>2 DEF EarlyChange, LateChange
  <2>1. Advances(target[q])
    BY RowsAdvance
  <2>2. /\ expected[q] \in Nat /\ member[target[q]].revision \in Nat
        /\ member'[target[q]].revision \in Nat
    <3>1. TypeOK /\ TypeOK'
      BY ShapeNext DEF Shape
    <3> QED
      BY <3>1, RowTypes, RevisionAssumption DEF TypeOK, Rows
  <2> QED
    BY <1>2, <2>1, <2>2 DEF Advances, Changes, EarlyChange, LateChange
<1> QED
  BY <1>1, <1>2

LEMMA ChangesNext == Shape /\ Changes /\ [Next]_vars => Changes'
<1> SUFFICES ASSUME Shape, Changes, [Next]_vars, NEW q \in Invocations
             PROVE  EarlyChange(q)' /\ LateChange(q)'
  BY DEF Changes
<1> USE DEF Shape
<1>1. CASE \/ pc'[q] \notin {"readMember", "change"}
           \/ /\ pc'[q] = pc[q] /\ target'[q] = target[q]
              /\ expected'[q] = expected[q]
  BY <1>1, ChangeGoesOn
<1>2. ASSUME NEW p \in Invocations, NEW a \in Users \cup {Admin}, NEW u \in Users,
             NEW revision \in 1..MaxRevision, BeginChange(p, a, u, revision)
      PROVE  EarlyChange(q)' /\ LateChange(q)'
  <2>1. CASE q = p
    <3>1. /\ pc'[q] = "readMember" /\ target'[q] = u /\ expected'[q] = revision
          /\ member' = member
      BY <1>2, <2>1 DEF BeginChange, Begin, Goto, TypeOK
    <3>2. revision \in 1..member[u].revision /\ member[u].revision \in Nat
      BY <1>2, RowTypes, RevisionAssumption DEF BeginChange, TypeOK, Rows
    <3> QED
      BY <3>1, <3>2 DEF EarlyChange, LateChange
  <2>2. CASE q # p
    BY <1>1, <1>2, <2>2 DEF BeginChange, Begin, Goto, TypeOK
  <2> QED
    BY <2>1, <2>2
<1>3. ASSUME NEW p \in Invocations, ReadMember(p)
      PROVE  EarlyChange(q)' /\ LateChange(q)'
  <2>1. CASE Return(p)
    BY <1>1, <1>3, <2>1 DEF Return, TypeOK
  <2>2. CASE q # p
    BY <1>1, <1>3, <2>2 DEF ReadMember, Return, Goto, TypeOK
  <2>3. CASE q = p /\ ~Return(p)
    BY <1>3, <2>3
    DEF ReadMember, Changeable, Goto, TypeOK, Changes, EarlyChange, LateChange
  <2> QED
    BY <2>1, <2>2, <2>3
<1>4. ASSUME NEW p \in Invocations, Return(p)
      PROVE  EarlyChange(q)' /\ LateChange(q)'
  BY <1>1, <1>4 DEF Return, TypeOK
<1>5. ASSUME NEW p \in Invocations, NEW u \in Users, NEW step \in Steps,
             Begin(p, u, step), step # "readMember", step # "change",
             UNCHANGED expected
      PROVE  EarlyChange(q)' /\ LateChange(q)'
  BY <1>1, <1>5 DEF Begin, Goto, TypeOK
<1>6. ASSUME NEW p \in Invocations, NEW step \in Steps, Goto(p, step),
             step # "readMember", step # "change", UNCHANGED <<target, expected>>
      PROVE  EarlyChange(q)' /\ LateChange(q)'
  BY <1>1, <1>6 DEF Goto, TypeOK
<1>7. ASSUME NEW p \in Invocations, NEW a \in Users \cup {Admin}, NEW u \in Users,
             \/ \E role \in {"organizer", "exhibitor"} : BeginAdd(p, a, u, role)
             \/ BeginTransfer(p, a, u)
             \/ BeginJoin(p, u)
             \/ BeginDelete(p, u)
      PROVE  EarlyChange(q)' /\ LateChange(q)'
  BY <1>5, <1>7 DEF BeginAdd, BeginTransfer, BeginJoin, BeginDelete, Steps
<1>8. ASSUME NEW p \in Invocations, Continue(p), ~ReadMember(p)
      PROVE  EarlyChange(q)' /\ LateChange(q)'
  BY <1>4, <1>6, <1>8 DEF Continue, AddMember, ChangeMember, ReadHeir, Transfer,
                          DeleteMember, DeleteProfile, Steps
<1> QED
  <2>1. CASE UNCHANGED vars
    BY <2>1, <1>1 DEF vars
  <2>2. ASSUME NEW p \in Invocations, Request(p)
        PROVE  EarlyChange(q)' /\ LateChange(q)'
    BY <2>2, <1>2, <1>7 DEF Request
  <2>3. ASSUME NEW p \in Invocations, Crash(p)
        PROVE  EarlyChange(q)' /\ LateChange(q)'
    BY <2>3, <1>4 DEF Crash
  <2> QED
    BY <2>1, <2>2, <2>3, <1>3, <1>8 DEF Next

\* A removal is final for whoever keeps the account: a change that was read
\* before it, or sent with an old revision, never undoes it.
THEOREM RemovedForGood == Spec => RemovedStays
<1> DEFINE Inv == Shape /\ Changes
<1>1. Init => Inv
  BY ShapeInit DEF Init, Changes, EarlyChange, LateChange
<1>2. Inv /\ [Next]_vars => Inv'
  BY ShapeNext, ChangesNext
<1>3. Inv /\ [Next]_vars =>
      [\A u \in Users \ Deletable :
          member[u].status = "removed" => member'[u].status = "removed"]_member
  BY RowsAdvance DEF Advances
<1> QED
  BY <1>1, <1>2, <1>3, PTL DEF Spec, RemovedStays
=============================================================================

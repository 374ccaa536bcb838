------------------------------ MODULE Ownership ------------------------------
(***************************************************************************)
(* The members of one organization and its owner: organizations/index.js   *)
(* (adding, changing and removing members, the transfer of ownership), the *)
(* membership an accepted invitation adds, and the deletion of an account  *)
(* by user-account/index.js.                                               *)
(*                                                                         *)
(* A request is a Lambda invocation; it reads who asks, then the member it *)
(* is about, then writes, and others may write between any two of these.   *)
(* Changes carry the revision their client saw (If-Match), and the write   *)
(* is conditioned on it.                                                   *)
(*                                                                         *)
(* Abstracted: profiles of the organization, audit rows, saved stands,     *)
(* orders and Cognito (no member row depends on them), stands (an account  *)
(* that still has some is not in Deletable), and platform administrators   *)
(* but for one, Admin, who has no membership.  The reads of memberships    *)
(* are consistent, but for that of deletionReadiness: as its result is     *)
(* used only later, a late answer is an early read.                        *)
(***************************************************************************)
EXTENDS Naturals

CONSTANTS
    Users, Admin,
    Deletable,     \* users who may delete their account
    Invocations,   \* concurrent requests
    None,          \* no user
    MaxRevision    \* bound of the revisions

ASSUME NamesAssumption == Admin \notin Users /\ None \notin Users \cup {Admin}
ASSUME DeletableAssumption == Deletable \subseteq Users
ASSUME RevisionAssumption == MaxRevision \in Nat \ {0}

VARIABLES
    owner,        \* ownerUserId of the organization
    member,       \* membership row of each user
    account,      \* users with a profile
    pc,           \* of each request: what it does next
    actor,        \* who asks for a transfer
    target,       \* the member it is about
    offered,      \* the role an added member gets
    expected      \* the revision a change expects

vars == <<owner, member, account, pc, actor, target, offered, expected>>

Roles == {"owner", "organizer", "exhibitor"}
Row(role, status, revision) ==
    [role |-> role, status |-> status, revision |-> revision]
Rows == [role : Roles, status : {"active", "suspended", "removed"},
         revision : 1..MaxRevision]
NoRow == Row("none", "none", 0)

\* hasRole, and the platform administrator authorizeOrganization lets pass
Active(u, roles) == member[u].status = "active" /\ member[u].role \in roles
Authorized(a, roles) == a = Admin \/ (a \in Users /\ Active(a, roles))

\* createOrganization
Init ==
    /\ owner \in Users
    /\ member = [u \in Users |->
                    IF u = owner THEN Row("owner", "active", 1) ELSE NoRow]
    /\ account = Users
    /\ pc = [p \in Invocations |-> "idle"]
    /\ actor = [p \in Invocations |-> None]
    /\ target = [p \in Invocations |-> None]
    /\ offered = [p \in Invocations |-> "none"]
    /\ expected = [p \in Invocations |-> 0]
-----------------------------------------------------------------------------
Goto(p, step) == pc' = [pc EXCEPT ![p] = step]

\* A request about u was authorized.
Begin(p, u, step) ==
    /\ pc[p] = "idle"
    /\ target' = [target EXCEPT ![p] = u]
    /\ Goto(p, step)
    /\ UNCHANGED <<owner, member, account>>

\* The response is sent; or the invocation dies, whatever it was about to do.
Return(p) ==
    /\ pc' = [pc EXCEPT ![p] = "idle"]
    /\ actor' = [actor EXCEPT ![p] = None]
    /\ target' = [target EXCEPT ![p] = None]
    /\ offered' = [offered EXCEPT ![p] = "none"]
    /\ expected' = [expected EXCEPT ![p] = 0]

Crash(p) ==
    /\ pc[p] # "idle"
    /\ Return(p)
    /\ UNCHANGED <<owner, member, account>>

Write(u, row) == member' = [member EXCEPT ![u] = row]
-----------------------------------------------------------------------------
(* addOrganizationMember *)

\* Only the owner adds an organizer, and the administrator is no owner.
BeginAdd(p, a, u, role) ==
    /\ Authorized(a, {"owner", "organizer"})
    /\ role = "organizer" => a # Admin /\ member[a].role = "owner"
    /\ Begin(p, u, "add")
    /\ offered' = [offered EXCEPT ![p] = role]
    /\ UNCHANGED <<actor, expected>>

AddMember(p) ==
    /\ pc[p] = "add"
    /\ \/ member[target[p]] = NoRow
          /\ Write(target[p], Row(offered[p], "active", 1))
       \/ member[target[p]] # NoRow /\ UNCHANGED member
    /\ Return(p)
    /\ UNCHANGED <<owner, account>>

\* acceptInvitation by a user with a profile and no membership: it ends with
\* the same conditional put.
BeginJoin(p, u) ==
    /\ u \in account
    /\ member[u] = NoRow
    /\ Begin(p, u, "add")
    /\ offered' = [offered EXCEPT ![p] = "exhibitor"]
    /\ UNCHANGED <<actor, expected>>
-----------------------------------------------------------------------------
(* changeOrganizationMember, to change or remove a member *)

\* The client saw the row at the revision it sends, now or earlier.
BeginChange(p, a, u, revision) ==
    /\ Authorized(a, {"owner"})
    /\ a # u
    /\ revision \in 1..member[u].revision
    /\ Begin(p, u, "readMember")
    /\ expected' = [expected EXCEPT ![p] = revision]
    /\ UNCHANGED <<actor, offered>>

\* Who was removed is not found, and the owner is protected.
Changeable(row) ==
    row # NoRow /\ row.status # "removed" /\ row.role # "owner"

ReadMember(p) ==
    /\ pc[p] = "readMember"
    /\ \/ /\ Changeable(member[target[p]])
          /\ Goto(p, "change")
          /\ UNCHANGED <<actor, target, offered, expected>>
       \/ ~Changeable(member[target[p]]) /\ Return(p)
    /\ UNCHANGED <<owner, member, account>>

\* Mutant of Changed: a removal keeps the revision.
Changed_SameRevision(row) ==
    {Row(role, status, row.revision + 1) :
        role \in {"organizer", "exhibitor"}, status \in {"active", "suspended"}}
    \cup {Row(row.role, "removed", row.revision)}

\* The new row: any role and status but owner and removed, or a tombstone.
Changed(row) ==
    {Row(role, status, row.revision + 1) :
        role \in {"organizer", "exhibitor"}, status \in {"active", "suspended"}}
    \cup {Row(row.role, "removed", row.revision + 1)}

ChangeMember(p) == LET row == member[target[p]] IN
    /\ pc[p] = "change"
    /\ \/ /\ row # NoRow /\ row.revision = expected[p]
          /\ row.revision < MaxRevision
          /\ \E new \in Changed(row) : Write(target[p], new)
       \/ /\ row = NoRow \/ row.revision # expected[p]
          /\ UNCHANGED member
    /\ Return(p)
    /\ UNCHANGED <<owner, account>>
-----------------------------------------------------------------------------
(* transferOrganizationOwnership.  The administrator may ask for it, but the *)
(* transaction requires that who asks be the owner.                          *)

BeginTransfer(p, a, u) ==
    /\ Authorized(a, {"owner"})
    /\ a # u
    /\ Begin(p, u, "readHeir")
    /\ actor' = [actor EXCEPT ![p] = a]
    /\ UNCHANGED <<offered, expected>>

\* The heir must be an organizer and have a profile; but the read of the
\* profile may still find that of an account just deleted.
ReadHeir(p) == LET heir == target[p] IN
    /\ pc[p] = "readHeir"
    /\ \/ /\ Active(heir, {"organizer"})
          /\ Goto(p, "transfer")
          /\ UNCHANGED <<actor, target, offered, expected>>
       \/ /\ ~(Active(heir, {"organizer"}) /\ heir \in account)
          /\ Return(p)
    /\ UNCHANGED <<owner, member, account>>

\* What the transaction requires of the three rows it writes.
Transferable(p) ==
    /\ owner = actor[p]
    /\ Active(target[p], {"organizer"})
    /\ Active(actor[p], {"owner"})

\* Mutant of Transfer: the old owner keeps the role.
Transfer_NotDemoted(p) ==
    /\ pc[p] = "transfer"
    /\ \/ /\ Transferable(p)
          /\ owner' = target[p]
          /\ member' = [member EXCEPT ![target[p]].role = "owner"]
       \/ ~Transferable(p) /\ UNCHANGED <<owner, member>>
    /\ Return(p)
    /\ UNCHANGED account

\* No revision changes.
Transfer(p) ==
    /\ pc[p] = "transfer"
    /\ \/ /\ Transferable(p)
          /\ owner' = target[p]
          /\ member' = [member EXCEPT ![target[p]].role = "owner",
                                      ![actor[p]].role = "organizer"]
       \/ ~Transferable(p) /\ UNCHANGED <<owner, member>>
    /\ Return(p)
    /\ UNCHANGED account
-----------------------------------------------------------------------------
(* user-account: the account of u is deleted by its user *)

\* deletionReadiness.  A membership that is not in its answer is not deleted.
BeginDelete(p, u) ==
    /\ u \in Deletable
    /\ member[u].role # "owner"
    /\ Begin(p, u, IF member[u] = NoRow THEN "deleteProfile"
                                       ELSE "deleteMember")
    /\ UNCHANGED <<actor, offered, expected>>

\* Mutant of DeleteMember: the row is marked with a status no one else knows.
DeleteMember_Marked(p) ==
    /\ pc[p] = "deleteMember"
    /\ member' = [member EXCEPT ![target[p]].status = "deleted"]
    /\ Goto(p, "deleteProfile")
    /\ UNCHANGED <<owner, account, actor, target, offered, expected>>

\* deleteMemberships, whatever the row has become.
DeleteMember(p) ==
    /\ pc[p] = "deleteMember"
    /\ Write(target[p], NoRow)
    /\ Goto(p, "deleteProfile")
    /\ UNCHANGED <<owner, account, actor, target, offered, expected>>

DeleteProfile(p) ==
    /\ pc[p] = "deleteProfile"
    /\ account' = account \ {target[p]}
    /\ Return(p)
    /\ UNCHANGED <<owner, member>>
-----------------------------------------------------------------------------
Request(p) ==
    \/ \E a \in Users \cup {Admin}, u \in Users :
          \/ \E role \in {"organizer", "exhibitor"} : BeginAdd(p, a, u, role)
          \/ \E revision \in 1..MaxRevision : BeginChange(p, a, u, revision)
          \/ BeginTransfer(p, a, u)
    \/ \E u \in Users : BeginJoin(p, u) \/ BeginDelete(p, u)

Continue(p) ==
    \/ AddMember(p) \/ ReadMember(p) \/ ChangeMember(p)
    \/ ReadHeir(p) \/ Transfer(p)
    \/ DeleteMember(p) \/ DeleteProfile(p)

Next == \E p \in Invocations : Request(p) \/ Continue(p) \/ Crash(p)

Spec == Init /\ [][Next]_vars
-----------------------------------------------------------------------------
Steps == {"idle", "add", "readMember", "change", "readHeir", "transfer",
          "deleteMember", "deleteProfile"}

TypeOK ==
    /\ owner \in Users
    /\ member \in [Users -> Rows \cup {NoRow}]
    /\ account \in SUBSET Users
    /\ pc \in [Invocations -> Steps]
    /\ actor \in [Invocations -> Users \cup {Admin, None}]
    /\ target \in [Invocations -> Users \cup {None}]
    /\ offered \in [Invocations -> {"none", "organizer", "exhibitor"}]
    /\ expected \in [Invocations -> 0..MaxRevision]

\* Whoever has the role of the owner, active or not, is the organization's
\* ownerUserId: transfers that race with each other, with changes and with
\* deletions never leave two owners.
OwnerIsNamed == \A u \in Users : member[u].role = "owner" => u = owner

\* A removed member stays removed: no change begun before the removal, and no
\* invitation, brings the membership back.  The deletion of the account, after
\* which the row starts again at revision 1, is the exception.
RemovedStays ==
    [][\A u \in Users \ Deletable :
          member[u].status = "removed" => member'[u].status = "removed"]_member

=============================================================================

---------------------------- MODULE QuotaCounter ----------------------------
(***************************************************************************)
(* The quota counter row of common/quota-store.js, as a value and the      *)
(* arithmetic of every write to it.  One row exists per organization (its  *)
(* active events) and one per event (its stands and pending invitations);  *)
(* EventQuota keeps the organization's row and decides when each write     *)
(* happens.  Every operator below is the UpdateExpression of one DynamoDB  *)
(* write, so it is atomic.                                                 *)
(*                                                                         *)
(* Abstracted: keys, timestamps and the kind of the row.                   *)
(***************************************************************************)
EXTENDS Integers

Counter == [limit : Nat, used : Nat, reserved : Nat, available : Nat,
            overLimit : BOOLEAN, revision : Nat]

Row(limit, used, reserved, available, overLimit, revision) ==
    [limit |-> limit, used |-> used, reserved |-> reserved,
     available |-> available, overLimit |-> overLimit, revision |-> revision]

\* Math.max(0, limit - used - reserved)
Headroom(limit, used, reserved) ==
    IF used + reserved > limit THEN 0 ELSE limit - used - reserved

\* Mutant of Computed: overLimit forgets the reserved units.
Computed_UsedOnly(limit, used, reserved, revision) ==
    Row(limit, used, reserved, Headroom(limit, used, reserved),
        used > limit, revision)

\* A row whose available and overLimit are derived from the other columns.
Computed(limit, used, reserved, revision) ==
    IF used + reserved > limit
    THEN Row(limit, used, reserved, 0, TRUE, revision)
    ELSE Row(limit, used, reserved, limit - used - reserved, FALSE, revision)

NewCounter(limit, used, reserved) == Computed(limit, used, reserved, 1)

\* Mutant of HasRoom: off by one.
HasRoom_OffByOne(c) == c.available >= 0 /\ ~c.overLimit

\* The condition of the reserving transaction, and the check made before it on
\* the row as it was read.
HasRoom(c) == c.available >= 1 /\ ~c.overLimit

\* Mutant of TakeUnit: the unit is taken from "available" twice.
TakeUnit_Twice(c) ==
    Row(c.limit, c.used, c.reserved + 1, c.available - 2, c.overLimit,
        c.revision + 1)

TakeUnit(c) ==
    Row(c.limit, c.used, c.reserved + 1, c.available - 1, c.overLimit,
        c.revision + 1)

UseUnit(c) ==
    Row(c.limit, c.used + 1, c.reserved - 1, c.available, c.overLimit,
        c.revision + 1)

\* Both releases give the unit back to "available" and leave overLimit alone.
ReturnReserved(c) ==
    Row(c.limit, c.used, c.reserved - 1, c.available + 1, c.overLimit,
        c.revision + 1)

ReturnUsed(c) ==
    Row(c.limit, c.used - 1, c.reserved, c.available + 1, c.overLimit,
        c.revision + 1)

\* setCounterAbsolute: the row is rewritten only if it is still the row read.
SameRow(c, read) ==
    /\ c.revision = read.revision
    /\ c.limit = read.limit
    /\ c.used = read.used
    /\ c.reserved = read.reserved
    /\ c.available = read.available

Rewrite(c, limit, used, reserved) ==
    Computed(limit, used, reserved, c.revision + 1)

\* Mutant of Differs: a row whose usage is right is taken to be right.
Differs_UsageOnly(c, limit, used, reserved) ==
    \/ c.limit # limit
    \/ c.used # used
    \/ c.reserved # reserved

\* What the reconciler compares: overLimit is not among the fields.
Differs(c, limit, used, reserved) ==
    \/ c.limit # limit
    \/ c.used # used
    \/ c.reserved # reserved
    \/ c.available # Headroom(limit, used, reserved)
-----------------------------------------------------------------------------
Total(c) == c.used + c.reserved + c.available

\* The row adds up to its limit, or to more and then says so.
Balanced(c) == IF c.overLimit THEN Total(c) > c.limit ELSE Total(c) = c.limit
=============================================================================

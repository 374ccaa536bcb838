---------------------------- MODULE WebhookLease ----------------------------
(***************************************************************************)
(* A row of the payment-events table, as a value, and the writes of it.    *)
(* checkout/index.js keeps one per PaymentIntent event and                 *)
(* billing/index.js one per subscription event, with the same protocol:    *)
(* the first delivery claims the event under a lease, only the holder of   *)
(* the lease completes or fails it, and a failed event or an expired lease *)
(* can be claimed again by a later delivery.                               *)
(*                                                                         *)
(* Abstracted: the random lease token is the number of the attempt (both   *)
(* are new at every claim), and leaseExpiresAt is a flag that time sets.   *)
(***************************************************************************)
EXTENDS Naturals

Lease == [status : {"processing", "failed", "processed"}, attempts : Nat,
          token : Nat, expired : BOOLEAN]

LeaseRow(status, attempts, token) ==
    [status |-> status, attempts |-> attempts, token |-> token,
     expired |-> FALSE]

FirstClaim == LeaseRow("processing", 1, 1)

\* The event may be claimed again.  A row being processed under a lease that
\* has not expired is in flight, a processed one is a duplicate.
Reclaimable(row) ==
    \/ row.status = "failed"
    \/ row.status = "processing" /\ row.expired

NextClaim(row) == LeaseRow("processing", row.attempts + 1, row.attempts + 1)

\* The condition of the writes that settle the event: the lease is still ours.
Holds(row, token) == row.status = "processing" /\ row.token = token

\* Both settlements remove the token and the expiry.
Completed(row) == LeaseRow("processed", row.attempts, 0)
Failed(row) == LeaseRow("failed", row.attempts, 0)

Expired(row) == [row EXCEPT !.expired = TRUE]
=============================================================================

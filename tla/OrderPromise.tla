---------------------------- MODULE OrderPromise ----------------------------
(***************************************************************************)
(* What the payment of an order promises whoever looks at its row and at   *)
(* the rows of its webhook events, however many requests, deliveries and   *)
(* reconciler runs race for it: the order gets one intent at most and      *)
(* moves along ALLOWED_TRANSITIONS with a time stamp that never goes back, *)
(* and an event is handled by one invocation at a time, until one of them  *)
(* finishes it, for good.  OrderPayment implements it.                     *)
(***************************************************************************)
EXTENDS Naturals

CONSTANTS Invocations, Intents, Events, None

VARIABLES
    status, orderIntent, watermark,  \* of the order
    worker,   \* the invocation handling each event
    done      \* the events handled

vars == <<status, orderIntent, watermark, worker, done>>

\* ALLOWED_TRANSITIONS
Allowed(from, to) ==
    \/ from = "creating" /\ to \in {"pending", "paid", "failed", "cancelled"}
    \/ from = "pending" /\ to \in {"paid", "failed", "cancelled"}
    \/ from = "failed" /\ to \in {"pending", "paid", "cancelled"}

Init ==
    /\ status = "none"
    /\ orderIntent = None
    /\ watermark = 0
    /\ worker = [e \in Events |-> None]
    /\ done = {}

Open ==
    /\ status = "none"
    /\ status' = "creating"
    /\ UNCHANGED <<orderIntent, watermark, worker, done>>

\* The order awaits the payment of its intent.
Await(i) ==
    /\ status \in {"creating", "failed"}
    /\ orderIntent \in {None, i}
    /\ orderIntent' = i
    /\ status' = "pending"
    /\ UNCHANGED <<watermark, worker, done>>

\* A verdict on the payment; its time stamp is new or the last one.
Settle(to) ==
    /\ to # "pending" /\ Allowed(status, to)
    /\ status' = to
    /\ watermark' >= watermark
    /\ UNCHANGED <<orderIntent, worker, done>>

Take(e, p) ==
    /\ worker[e] = None /\ e \notin done
    /\ worker' = [worker EXCEPT ![e] = p]
    /\ UNCHANGED <<status, orderIntent, watermark, done>>

GiveUp(e) ==
    /\ worker[e] # None
    /\ worker' = [worker EXCEPT ![e] = None]
    /\ UNCHANGED <<status, orderIntent, watermark, done>>

Finish(e) ==
    /\ worker[e] # None
    /\ worker' = [worker EXCEPT ![e] = None]
    /\ done' = done \cup {e}
    /\ UNCHANGED <<status, orderIntent, watermark>>

Next ==
    \/ Open
    \/ \E i \in Intents : Await(i)
    \/ \E to \in {"paid", "failed", "cancelled"} : Settle(to)
    \/ \E e \in Events :
          GiveUp(e) \/ Finish(e) \/ \E p \in Invocations : Take(e, p)

Spec == Init /\ [][Next]_vars
=============================================================================

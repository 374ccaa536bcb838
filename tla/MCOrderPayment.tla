--------------------------- MODULE MCOrderPayment ---------------------------
(* Instances of OrderPayment for TLC.  Intents and events are                *)
(* interchangeable: it is enough to look at the behaviours that use i1 and   *)
(* e1 before the others.  (SYMMETRY would not be sound for Settles.)  Either *)
(* the clock moves or the key of i1 is forgotten, not both.                  *)
EXTENDS OrderPayment

CONSTANTS i1, e1

InOrder ==
    /\ (\E i \in Intents : intent[i] # "none") => intent[i1] # "none"
    /\ (\E e \in Events : eventType[e] # "none") => eventType[e1] # "none"

Bounded ==
    now = 1 \/ intent[i1] = "none" \/ keyIntent = i1

MCSpec == Init /\ [][Next /\ InOrder' /\ Bounded']_vars /\ Fairness
=============================================================================

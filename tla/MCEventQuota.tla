---------------------------- MODULE MCEventQuota ----------------------------
(***************************************************************************)
(* EventQuota for TLC.  Keys and events are interchangeable, and so are    *)
(* invocations, as long as no event is told apart as older than the        *)
(* counter.                                                                *)
(***************************************************************************)
EXTENDS EventQuota, TLC

Interchangeable ==
    Permutations(Keys) \cup Permutations(Events \ Legacy)
        \cup Permutations(Invocations)
=============================================================================

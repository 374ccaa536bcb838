---------------------------- MODULE MCPublication ----------------------------
(* Instances of Publication for TLC.  Requests are interchangeable, and so    *)
(* are stands.                                                                *)
EXTENDS Publication, TLC

Symmetry == Permutations(Invocations) \cup Permutations(Stands)
=============================================================================

----------------------------- MODULE MCOwnership -----------------------------
(* Instances of Ownership for TLC.  Requests are interchangeable, and so are *)
(* the users who keep their accounts.                                        *)
EXTENDS Ownership, TLC

Symmetry == Permutations(Invocations) \cup Permutations(Users \ Deletable)
=============================================================================

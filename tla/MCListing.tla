------------------------------ MODULE MCListing ------------------------------
(* Instances of Listing for TLC.  The stands a1 and a3 have one event, a2      *)
(* another; table "b" is read by the exports of every table.                   *)
EXTENDS Listing

CONSTANTS a1, a2, a3, b1, e1, e2

MCTableOf == [r \in Rows |-> IF r = b1 THEN "b" ELSE "a"]
MCEventOf == [r \in Rows |-> IF r = a2 THEN e2 ELSE e1]
MCEndpoints == AllEndpoints

\* a1 and a3 are interchangeable, so it is enough to begin with them in order
\* (SYMMETRY would not be sound for ListingEnds); and b1 alone shows nothing.
MCInit == ListingInit /\ at[a1] <= at[a3] /\ "a" \in tables
MCSpec == MCInit /\ [][ListingNext]_listing /\ WF_listing(Reader)
=============================================================================

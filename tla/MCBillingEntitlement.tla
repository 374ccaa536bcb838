------------------------ MODULE MCBillingEntitlement ------------------------
\* BillingEntitlement on small sets; see the .cfg files for the bounds.
EXTENDS BillingEntitlement, TLC

\* For the runs without a liveness property.
Symmetry == Permutations(Invocations) \cup Permutations(Subscriptions)
                \cup Permutations(Customers) \cup Permutations(Events)
=============================================================================

--------------------------- MODULE MCLeadCapture ---------------------------
\* LeadCapture on small sets; see the .cfg files for the bounds.
EXTENDS LeadCapture, TLC

Symmetry == Permutations(Editors)
=============================================================================

-------------------------- MODULE MCInvitationQuota --------------------------
EXTENDS InvitationQuota, TLC

Symmetry == Permutations(Invitations) \cup Permutations(Invocations)
=============================================================================

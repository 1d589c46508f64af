---------------------------- MODULE MCMembership ----------------------------
EXTENDS Membership, TLC

CONSTANTS k1, d1, d2

Joiners == Permutations({k1, d1, d2})
=============================================================================

--------------------------- MODULE MCReplication ---------------------------
EXTENDS Replication, TLC

CONSTANTS n1, n2, n3, r1, p1, w1

MCRank == n1 :> 1 @@ n2 :> 2 @@ n3 :> 3
MCRank2 == n1 :> 1 @@ n2 :> 2
=============================================================================

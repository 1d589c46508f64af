------------------------ MODULE MCLocalMetadataStore ------------------------
EXTENDS LocalMetadataStore, TLC

CONSTANTS c1, c2, c3, p1, p2, x, y

\* Two threads of one process and one of another.
MCProcessOf == c1 :> p1 @@ c2 :> p1 @@ c3 :> p2
=============================================================================

------------------------- MODULE MCContentTransfer -------------------------
EXTENDS ContentTransfer, TLC

CONSTANTS agent, tool, l, x1, k1, e0, b2, b3, b4

MCHome == (l :> agent) @@ (x1 :> tool)

\* The empty blob, one full frame, a frame and a rest, and one too long to send.
MCSize == (e0 :> 0) @@ (b2 :> 2) @@ (b3 :> 3) @@ (b4 :> 4)
=============================================================================

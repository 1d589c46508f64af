----------------------------- MODULE MCPresence -----------------------------
EXTENDS Presence

CONSTANTS a1, a2, a3
=============================================================================

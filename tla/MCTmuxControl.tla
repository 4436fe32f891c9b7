--------------------------- MODULE MCTmuxControl ---------------------------
EXTENDS TmuxControl, TLC

CONSTANTS r1, r2
=============================================================================

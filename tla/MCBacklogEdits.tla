--------------------------- MODULE MCBacklogEdits ---------------------------
EXTENDS BacklogEdits, TLC

CONSTANTS b1, b2, l0, l1
=============================================================================

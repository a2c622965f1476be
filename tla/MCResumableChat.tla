--------------------------- MODULE MCResumableChat ---------------------------
EXTENDS ResumableChat, TLC

CONSTANTS t1, t2

ToolSymmetry == Permutations(Tool)
=============================================================================

-------------------------- MODULE MCStreamProcessing --------------------------
EXTENDS StreamProcessing, TLC

CONSTANTS c1, c2
=============================================================================

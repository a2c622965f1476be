-------------------------- MODULE MCStreamMultiplexer --------------------------
EXTENDS StreamMultiplexer, TLC

CONSTANTS s1, s2, c1, c2, c3

EventsOf == s1 :> 2 @@ s2 :> 0
=============================================================================

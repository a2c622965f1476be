-------------------------- MODULE MCEngineIteration --------------------------
EXTENDS EngineIteration, TLC

CONSTANTS c1, c2, c3

CallSymmetry == Permutations(Call)
=============================================================================

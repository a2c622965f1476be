----------------------------- MODULE MCWorkerLeases -----------------------------
EXTENDS WorkerLeases, TLC

CONSTANTS w1, w2, w3, j1, j2
=============================================================================

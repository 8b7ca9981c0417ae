---------------------------- MODULE MCSessionMgt ----------------------------
EXTENDS SessionMgt, TLC
CONSTANTS t1, t2
ThreadSymmetry == Permutations(Threads)
=============================================================================

---------------------------- MODULE MCCodeQueue -----------------------------
EXTENDS CodeQueue, TLC
CONSTANTS p1, p2
ProducerSymmetry == Permutations(Producers)
=============================================================================

------------------------------ MODULE MCHistory ------------------------------
EXTENDS History, TLC

CONSTANTS r1, r2, a
MCRuns == {r1, r2}
MCClients == {a}
Symmetry == Permutations(MCRuns)
==============================================================================

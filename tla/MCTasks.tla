------------------------------- MODULE MCTasks -------------------------------
EXTENDS Tasks, TLC

CONSTANTS alice, phone, email, e1, e2, v1, v2

MCSymmetry == Permutations({e1, e2}) \cup Permutations({v1, v2})
=============================================================================

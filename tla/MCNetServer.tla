---------------------------- MODULE MCNetServer -----------------------------
EXTENDS NetServer, TLC

CONSTANTS s1, s2, c1, c2, c3, f1, f2

Symmetry ==
    Permutations(Servers) \cup Permutations(Conns) \cup Permutations(Fds)
=============================================================================

--------------------------- MODULE MCUsertypeStorage ---------------------------
EXTENDS UsertypeStorage, TLC

CONSTANTS value, reference, f, i, s1, s2, o1, o2, b1, b2, b3, va, vb

Symmetry ==
  Permutations(Storages) \cup Permutations(Objects) \cup Permutations(Bindings) \cup Permutations(Values)
================================================================================

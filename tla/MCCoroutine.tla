------------------------------ MODULE MCCoroutine ------------------------------
EXTENDS Coroutine, TLC

CONSTANTS c1, c2, t1, t2, r1, r2, va, vb

(* Threads, results and values are interchangeable, and so are the objects. *)
Symmetry ==
  Permutations(Coroutines) \cup Permutations(Threads) \cup Permutations(Results)
    \cup Permutations(Values)

================================================================================

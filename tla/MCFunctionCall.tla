---------------------------- MODULE MCFunctionCall -----------------------------
(* One result of every class, and a second protected one to move between.  *)
EXTENDS FunctionCall, TLC

CONSTANTS p1, p2, u, l

MCAll == (p1 :> "protected") @@ (p2 :> "protected") @@ (u :> "unsafe") @@ (l :> "load")

\* Values are interchangeable, and so are the results of one class.
Symmetry == Permutations(Values) \cup Permutations({p1, p2})
================================================================================

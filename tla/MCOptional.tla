------------------------------ MODULE MCOptional ------------------------------
(* Three optionals of T, one of U and three of T&, over two values: enough    *)
(* for a result, the object of the call and its argument to be distinct.  The *)
(* optionals of a type are interchangeable.                                   *)
EXTENDS Optional

CONSTANTS o1, o2, o3, u1, r1, r2, r3

MCOpts == {o1, o2, o3}
MCOthers == {u1}
MCRefs == {r1, r2, r3}

Interchangeable == Permutations(MCOpts) \cup Permutations(MCRefs)
===============================================================================

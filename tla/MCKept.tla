--------------------------------- MODULE MCKept ---------------------------------
(* What keeps Lua objects for C++, in two memories that do not meet: handles *)
(* and their registry slots, of one state with a coroutine that may be       *)
(* referred to and a second state next to it; and userdata in their blocks,  *)
(* of every alignment, of sizes that are and are not multiples of it, at     *)
(* every remainder of the base address.  A block is looked at while there    *)
(* are no handles.                                                           *)
EXTENDS Reference, UserdataLayout, TLC

CONSTANTS h1, h2, h3, m, g1, g2, main1, main2, co, tbl, obj2, r1, r2, r3, r4

MCGlobalOf == (main1 :> g1) @@ (co :> g1) @@ (main2 :> g2)
MCMainOf == (g1 :> main1) @@ (g2 :> main2)
MCObjectsOf == (g1 :> {co, tbl}) @@ (g2 :> {obj2})

\* Slots are interchangeable, and so are the handles of one class.
Symmetry == Permutations(Slots) \cup Permutations(Holders \ MainOnly)

MCTypes == {<<1, 1>>, <<1, 3>>, <<2, 6>>, <<4, 4>>, <<8, 24>>, <<16, 16>>, <<32, 32>>, <<64, 128>>}
MCBases == 0 .. 63

MCInit == Init /\ LayoutInit

NoHandles ==
  /\ \A h \in Holders : lstate[h] = NULL
  /\ \A g \in Globals, i \in Slots : registry[g][i] = Free
  /\ alive = Threads

MCNext ==
  \/ block = None /\ Next /\ UNCHANGED block
  \/ NoHandles /\ LayoutNext /\ UNCHANGED vars

MCSpec == MCInit /\ [][MCNext]_<<vars, block>>
================================================================================

--------------------------------- MODULE Maybe ---------------------------------
(***************************************************************************)
(* What optional promises, whatever it is made of: each one holds a value,  *)
(* or nothing, from its construction to its destruction, and every          *)
(* operation is told by what the optionals hold.  An exception leaves them  *)
(* as they were; one that leaves a function that may not throw ends the     *)
(* program.                                                                 *)
(***************************************************************************)
CONSTANTS Optionals, Owners, Values, Moved, Nothing, Gone

VARIABLES holds, ended

maybe == <<holds, ended>>

Alive(o) == o \in Optionals /\ holds[o] # Gone
Free(t) == t \in Optionals /\ holds[t] = Gone
Has(o) == holds[o] # Nothing

(* What a move leaves behind: an owner keeps a value moved from, a reference *)
(* what it refers to.                                                       *)
Left(o, how) == IF how = "move" /\ o \in Owners /\ Has(o) THEN Moved ELSE holds[o]

Holding(next) == holds' = next /\ UNCHANGED ended

--------------------------------------------------------------------------------

MakeEmpty(t) == Free(t) /\ Holding([holds EXCEPT ![t] = Nothing])
Make(t, v) == Free(t) /\ Holding([holds EXCEPT ![t] = v])
Construct(t, o, how) ==
  Free(t) /\ Alive(o) /\ Holding([holds EXCEPT ![t] = holds[o], ![o] = Left(o, how)])
Destroy(o) == Alive(o) /\ Holding([holds EXCEPT ![o] = Gone])

Clear(o) == Alive(o) /\ Holding([holds EXCEPT ![o] = Nothing])
Set(o, v) == Alive(o) /\ Holding([holds EXCEPT ![o] = v])
Assign(o, p, how) ==
  Alive(o) /\ Alive(p) /\ Holding([holds EXCEPT ![o] = holds[p], ![p] = IF p = o THEN @ ELSE Left(p, how)])
Swap(o, p) == Alive(o) /\ Alive(p) /\ Holding([holds EXCEPT ![o] = holds[p], ![p] = holds[o]])
Take(t, o) == Free(t) /\ Alive(o) /\ Holding([holds EXCEPT ![t] = holds[o], ![o] = Nothing])

Disjunction(t, o, p, how, howp) ==
  /\ Free(t) /\ Alive(o) /\ Alive(p)
  /\ \/ Has(o) /\ Holding([holds EXCEPT ![t] = holds[o], ![o] = Left(o, how)])
     \/ ~Has(o) /\ Holding([holds EXCEPT ![t] = holds[p], ![p] = Left(p, howp)])
Conjunction(t, o, v) ==
  Free(t) /\ Alive(o) /\ Holding([holds EXCEPT ![t] = IF Has(o) THEN v ELSE Nothing])
OrElse(t, o, how, h) ==
  /\ Free(t) /\ Alive(o)
  /\ Holding(IF Has(o) THEN [holds EXCEPT ![t] = holds[o], ![o] = Left(o, how)]
             ELSE [holds EXCEPT ![t] = h])
Then(t, o, how, keeps) ==
  /\ Free(t) /\ Alive(o)
  /\ Holding(IF Has(o) /\ keeps THEN [holds EXCEPT ![t] = holds[o], ![o] = Left(o, how)]
             ELSE [holds EXCEPT ![t] = Nothing])

Use(o, how) == Alive(o) /\ Holding([holds EXCEPT ![o] = Left(o, how)])

Init == holds = [o \in Optionals |-> Gone] /\ ended = FALSE
================================================================================

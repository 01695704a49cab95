-------------------------------- MODULE Handles --------------------------------
(***************************************************************************)
(* What sol::reference promises to a C++ program: a handle denotes a Lua    *)
(* object or nothing, and behaves as a C++ value.  Copying a handle makes   *)
(* another handle of the same object, moving it may or may not empty the    *)
(* source, resetting or destroying it lets the object go.  Registry slots,  *)
(* Lua threads and luaL_ref do not appear; Reference.tla implements this.   *)
(***************************************************************************)

CONSTANTS
  Holders,    \* the C++ handle objects
  Objects,    \* the Lua objects they can denote
  Nil         \* denoted by a handle that holds no object

VARIABLE val  \* val[h]: what handle h denotes

Init == val = [h \in Holders |-> Nil]

(* An empty handle is made from a value found on a Lua stack. *)
Acquire(h, v) ==
  /\ val[h] = Nil
  /\ val' = [val EXCEPT ![h] = v]

(* The destination denotes the source's object; the source is untouched. *)
Copy(d, s) == val' = [val EXCEPT ![d] = val[s]]

(* The destination denotes what the source did.  The source is emptied, or *)
(* keeps its object when the code had to copy through lua_xmove.           *)
Move(d, s) ==
  \E left \in {Nil, val[s]} :
     val' = [val EXCEPT ![d] = val[s], ![s] = left]

Release(h) == val' = [val EXCEPT ![h] = Nil]

Next ==
  \/ \E h \in Holders, v \in Objects : Acquire(h, v)
  \/ \E d, s \in Holders : Copy(d, s) \/ Move(d, s)
  \/ \E h \in Holders : Release(h)

Spec == Init /\ [][Next]_val
================================================================================

------------------------------- MODULE LuaStack --------------------------------
(***************************************************************************)
(* The Lua stack of one C++ frame as a sequence, and what the Lua API       *)
(* functions sol3 calls do to it.  The API is external to the repository;   *)
(* lua_remove outside the stack is what lua_rotate and lua_pop make of it   *)
(* in a build without API checks.                                           *)
(***************************************************************************)
EXTENDS Integers, Sequences

(* lua_pop *)
Pop(s, n) == SubSeq(s, 1, Len(s) - n)

(* lua_absindex *)
AbsIndex(s, i) == IF i > 0 THEN i ELSE Len(s) + i + 1

Cut(s, i, n) == SubSeq(s, 1, i - 1) \o SubSeq(s, i + n, Len(s))

(* lua_remove, n times at the same positive index: past the top there is *)
(* nothing to rotate down and the top value is popped instead.           *)
RemoveLoop(s, i, n) == IF i + n - 1 <= Len(s) THEN Cut(s, i, n) ELSE Pop(s, n)

LuaRemove(s, i) == RemoveLoop(s, i, 1)

(* lua_replace *)
LuaReplace(s, i) == Pop([s EXCEPT ![AbsIndex(s, i)] = s[Len(s)]], 1)

Copies(v, n) == [i \in 1 .. n |-> v]

(* lua_call and lua_pcall: the function and its n arguments make way for *)
(* what it returns, or for the error.                                    *)
LuaCall(s, n, values) == Pop(s, n + 1) \o values

(* stack::remove (reference.hpp): the fast path pops, the other removes one *)
(* by one.                                                                  *)
StackRemove(s, rawindex, count) ==
  IF count < 1 \/ Len(s) < 1 THEN s
  ELSE IF rawindex = -count \/ rawindex = Len(s) THEN Pop(s, count)
  ELSE RemoveLoop(s, AbsIndex(s, rawindex), count)
================================================================================

----------------------------- MODULE FunctionCall ------------------------------
(***************************************************************************)
(* Calling Lua functions from C++ and keeping the results: protected and    *)
(* unsafe functions, their result objects, load results and the script      *)
(* functions of state_view.  A result object does not hold values: it holds *)
(* the index where they lie on the Lua stack, and takes them off the stack  *)
(* when it is destroyed.                                                    *)
(*                                                                         *)
(* stack and result are the program's memory.  order, own and given are     *)
(* what its programmer has in mind: which results hold values, from the     *)
(* bottom of the stack up, which values of its own lie between them, and    *)
(* what each call returned.                                                 *)
(*                                                                         *)
(* C++ exceptions that cross lua_pcall, and lua_error out of this frame,    *)
(* are left out: both abandon the frame this stack belongs to.              *)
(***************************************************************************)
EXTENDS LuaStack, FiniteSets

CONSTANTS
  Results,     \* the result objects of the program
  ClassOf,     \* ClassOf[r]: the class r is declared with
  Values,      \* Lua values
  Function,    \* the function, and any argument, on the stack of a call
  Handler,     \* the error handler on the stack of a call
  MaxReturns,  \* the most values a function returns
  MaxArgs,     \* the most arguments it is given
  MaxStack,    \* bound on the values the program keeps on the stack
  Unmade,      \* a result not constructed yet, or destroyed
  Corners      \* corner cases the program is assumed to perform

Classes == {"protected", "unsafe", "load"}
CornerCases == {"assign_over_held", "convert_failed_load"}

(* L is whether the lua_State* is not nullptr, ok whether err is ok. *)
ResultType == [L : BOOLEAN, index : Int, returncount : Int, popcount : Int, ok : BOOLEAN]

ASSUME CallAssumption ==
  /\ ClassOf \in [Results -> Classes]
  /\ Unmade \notin ResultType
  /\ MaxReturns \in Nat /\ MaxArgs \in Nat /\ MaxStack \in Nat
  /\ Corners \subseteq CornerCases

VARIABLES
  stack,   \* the Lua stack
  result,  \* the result objects
  order,   \* the results that hold what a call left, oldest first
  own,     \* own[k]: the program's own values between results k - 1 and k
  given    \* given[r]: the values r was given

vars == <<stack, result, order, own, given>>

TypeOK ==
  /\ stack \in Seq(Values)
  /\ result \in [Results -> ResultType \cup {Unmade}]
  /\ order \in Seq(Results)
  /\ own \in Seq(Seq(Values)) /\ Len(own) = Len(order) + 1
  /\ given \in [Results -> Seq(Values)]

Init ==
  /\ stack = <<>>
  /\ result = [r \in Results |-> Unmade]
  /\ order = <<>>
  /\ own = <<<<>>>>
  /\ given = [r \in Results |-> <<>>]

--------------------------------------------------------------------------------
(* What a call leaves, and the results that take it over *)

Larger(a, b) == IF a > b THEN a ELSE b

Made(index, returncount, popcount, ok) ==
  [L |-> TRUE, index |-> index, returncount |-> returncount, popcount |-> popcount, ok |-> ok]

Blank == [L |-> FALSE, index |-> -1, returncount |-> 0, popcount |-> 0, ok |-> TRUE]

(* Mutant: a moved-from result keeps its counts. *)
AbandonedKeepingCounts(r) == [result[r] EXCEPT !.ok = FALSE]

(* abandon(), and for a load_result the same with L cleared.  An unsafe *)
(* result has no status.                                                *)
Abandoned(r) ==
  [L |-> ClassOf[r] # "load" /\ result[r].L, index |-> 0, returncount |-> 0, popcount |-> 0,
   ok |-> ClassOf[r] = "unsafe"]

(* A call's outcome: its values, or one error. *)
Outcomes ==
  [ok : {TRUE}, values : UNION {[1 .. n -> Values] : n \in 0 .. MaxReturns}]
    \cup [ok : {FALSE}, values : [1 .. 1 -> Values]]

Successes == {o \in Outcomes : o.ok}

(* Mutant: a handler is taken to be there. *)
FirstReturnHandled(s, n, slot) == Larger(1, Len(s) - n - 1)

(* invoke: where the first result will lie once the handler is gone *)
FirstReturn(s, n, slot) == Larger(1, Len(s) - n - (IF slot # 0 THEN 1 ELSE 0))

(* invoke's protected_function_result.  s is the stack with the function and *)
(* n arguments on top, slot the index of the handler or 0.                   *)
ProtectedResult(s, n, slot, o) ==
  LET poststacksize == Len(LuaCall(s, n, o.values)) - (IF slot # 0 THEN 1 ELSE 0)
      count == poststacksize - (FirstReturn(s, n, slot) - 1)
  IN Made(FirstReturn(s, n, slot), count, count, o.ok)

(* Mutant: the handler stays. *)
AfterCallHandled(s, n, slot, o) == LuaCall(s, n, o.values)

(* The stack once ~protected_handler has removed the handler. *)
AfterCall(s, n, slot, o) ==
  LET called == LuaCall(s, n, o.values) IN
  IF slot # 0 THEN LuaRemove(called, slot) ELSE called

(* basic_function::invoke *)
UnsafeResult(s, n, values) ==
  LET firstreturn == Larger(1, Len(s) - n)
      count == Len(LuaCall(s, n, values)) - (firstreturn - 1)
  IN Made(firstreturn, count, count, TRUE)

--------------------------------------------------------------------------------
(* The programmer's view *)

InOrder(r) == \E k \in 1 .. Len(order) : order[k] = r

Top == Len(order)

(* r now holds vals, in place of the top taken values of the program's own. *)
Hold(r, taken, vals) ==
  /\ order' = Append(order, r)
  /\ own' = Append([own EXCEPT ![Top + 1] = Pop(own[Top + 1], taken)], <<>>)
  /\ given' = [given EXCEPT ![r] = vals]

(* The values of the newest result are gone. *)
LetGo(r) ==
  /\ order' = Pop(order, 1)
  /\ own' = Append(Pop(own, 2), own[Top] \o own[Top + 1])
  /\ given' = [given EXCEPT ![r] = <<>>]

(* d lets go of what it holds, and holds what the result above it held. *)
GiveUpFor(d, s) ==
  /\ order' = Pop(order, 1)
  /\ own' = Pop(own, 3) \o <<own[Top - 1] \o own[Top], own[Top + 1]>>
  /\ given' = [given EXCEPT ![d] = given[s], ![s] = <<>>]

(* d now holds what s held. *)
PassOn(d, s) ==
  /\ order' = [k \in 1 .. Top |-> IF order[k] = s THEN d ELSE order[k]]
  /\ given' = [given EXCEPT ![d] = given[s], ![s] = <<>>]

--------------------------------------------------------------------------------
(* Calls.  r is storage: a call's result is constructed in place. *)

(* call: unaligned, the function is pushed above the handler *)
CallProtected(r, handled, n, o) ==
  LET slot == IF handled THEN Len(stack) + 1 ELSE 0
      ready == (IF handled THEN Append(stack, Handler) ELSE stack) \o Copies(Function, n + 1)
  IN /\ ClassOf[r] = "protected" /\ result[r] = Unmade
     /\ Len(stack) + Len(o.values) <= MaxStack
     /\ stack' = AfterCall(ready, n, slot, o)
     /\ result' = [result EXCEPT ![r] = ProtectedResult(ready, n, slot, o)]
     /\ Hold(r, 0, o.values)

(* call: aligned, the function f is already the top of s.  With a handler a  *)
(* copy of f is pushed, then the handler, which replaces the first f.        *)
AlignedReady(s, f, handled, n) ==
  (IF handled THEN LuaReplace(s \o <<f, Handler>>, -3) ELSE s) \o Copies(Function, n)

AlignedSlot(s, handled) == IF handled THEN Len(s) ELSE 0

(* stack_aligned_protected_function on a function the program pushed *)
CallAligned(r, handled, n, o) ==
  LET ready == AlignedReady(stack, stack[Len(stack)], handled, n)
      slot == AlignedSlot(stack, handled)
  IN /\ ClassOf[r] = "protected" /\ result[r] = Unmade
     /\ own[Top + 1] # <<>>
     /\ Len(stack) - 1 + Len(o.values) <= MaxStack
     /\ stack' = AfterCall(ready, n, slot, o)
     /\ result' = [result EXCEPT ![r] = ProtectedResult(ready, n, slot, o)]
     /\ Hold(r, 1, o.values)

(* basic_function::call; an error leaves this frame *)
CallUnsafe(r, n, o) ==
  LET ready == stack \o Copies(Function, n + 1)
  IN /\ ClassOf[r] = "unsafe" /\ result[r] = Unmade
     /\ o.ok
     /\ Len(stack) + Len(o.values) <= MaxStack
     /\ stack' = LuaCall(ready, n, o.values)
     /\ result' = [result EXCEPT ![r] = UnsafeResult(ready, n, o.values)]
     /\ Hold(r, 0, o.values)

(* unsafe_script: the result is counted from what the stack was before *)
UnsafeScript(r, o) ==
  LET after == LuaCall(Append(stack, Function), 0, o.values)
      returns == Len(after) - Len(stack)
  IN /\ ClassOf[r] = "unsafe" /\ result[r] = Unmade
     /\ o.ok
     /\ Len(stack) + Len(o.values) <= MaxStack
     /\ stack' = after
     /\ result' = [result EXCEPT ![r] =
                     Made(Larger(Len(after) - (returns - 1), 1), returns, returns, TRUE)]
     /\ Hold(r, 0, o.values)

(* call<Ret...>: n values are asked for and popped again *)
CallTyped(handled, n, o) ==
  LET slot == IF handled THEN Len(stack) + 1 ELSE 0
      ready == (IF handled THEN Append(stack, Handler) ELSE stack) \o <<Function>>
      popped == Pop(LuaCall(ready, 0, o.values), n)
  IN /\ o.ok /\ Len(o.values) = n
     /\ Len(stack) + Len(o.values) <= MaxStack
     /\ stack' = IF handled THEN LuaRemove(popped, slot) ELSE popped
     /\ UNCHANGED <<result, order, own, given>>

--------------------------------------------------------------------------------
(* Scripts and loading *)

(* do_string, do_file, do_reader: with compiles the chunk is an aligned      *)
(* protected function; without, the result has no value to return but one to *)
(* pop.                                                                      *)
DoString(r, compiles, handled, o) ==
  LET loaded == Append(stack, Function)
      ready == AlignedReady(loaded, Function, handled, 0)
      slot == AlignedSlot(loaded, handled)
  IN /\ ClassOf[r] = "protected" /\ result[r] = Unmade
     /\ compiles \/ ~ o.ok
     /\ Len(stack) + Len(o.values) <= MaxStack
     /\ IF compiles
          THEN /\ stack' = AfterCall(ready, 0, slot, o)
               /\ result' = [result EXCEPT ![r] = ProtectedResult(ready, 0, slot, o)]
          ELSE /\ stack' = stack \o o.values
               /\ result' = [result EXCEPT ![r] = Made(AbsIndex(stack', -1), 0, 1, FALSE)]
     /\ Hold(r, 0, o.values)

(* safe_script with script_throw_on_error: the message replaces what the     *)
(* failed result holds, and goes with it when the exception unwinds.  The    *)
(* result is on top here, so the rotation that follows the push does nothing. *)
ScriptThrows(o) ==
  LET pfr == Made(Len(stack) + 1, 1, 1, FALSE)
      removed == StackRemove(stack \o o.values, pfr.index, pfr.popcount)
      message == Append(removed, Function)
  IN /\ ~ o.ok
     /\ Len(stack) + Len(o.values) <= MaxStack
     /\ stack' = StackRemove(message, pfr.index, pfr.popcount)
     /\ UNCHANGED <<result, order, own, given>>

(* state_view::load: the chunk, or the message, stays on the stack *)
Load(r, v, ok) ==
  /\ ClassOf[r] = "load" /\ result[r] = Unmade
  /\ Len(stack) < MaxStack
  /\ stack' = Append(stack, v)
  /\ result' = [result EXCEPT ![r] = Made(AbsIndex(stack', -1), 1, 1, ok)]
  /\ Hold(r, 0, <<v>>)

--------------------------------------------------------------------------------
(* Result objects *)

Default(r) ==
  /\ result[r] = Unmade
  /\ result' = [result EXCEPT ![r] = Blank]
  /\ UNCHANGED <<stack, order, own, given>>

(* Results move into results of their class; function results also convert. *)
(* Only a program that takes that corner makes an unsafe result of a chunk   *)
(* that did not compile, which has no value to return but one to pop.        *)
Converts(d, s) ==
  /\ result[s] # Unmade
  /\ ClassOf[d] = ClassOf[s] \/ "load" \notin {ClassOf[d], ClassOf[s]}
  /\ ClassOf[d] = "unsafe" => \/ result[s].popcount = result[s].returncount
                              \/ "convert_failed_load" \in Corners

(* The fields d takes from s: an unsafe result has no status, it is always  *)
(* ok, and pops what it returned.                                           *)
Taken(d, s) ==
  [result[s] EXCEPT !.ok = @ \/ ClassOf[d] = "unsafe",
                    !.popcount = IF "unsafe" \in {ClassOf[d], ClassOf[s]}
                                   THEN result[s].returncount ELSE @]

MoveConstruct(d, s) ==
  /\ d # s /\ result[d] = Unmade /\ Converts(d, s)
  /\ result' = [result EXCEPT ![d] = Taken(d, s), ![s] = Abandoned(s)]
  /\ PassOn(d, s)
  /\ UNCHANGED <<stack, own>>

(* operator=(&&): what the destination held is forgotten, not popped.  Only a *)
(* program that takes that corner assigns over a result that holds values,   *)
(* as in d = call(), where the newest result is a temporary.                 *)
MoveAssign(d, s) ==
  /\ d # s /\ result[d] # Unmade /\ Converts(d, s)
  /\ InOrder(d) => /\ "assign_over_held" \in Corners
                   /\ Top >= 2 /\ order[Top] = s /\ order[Top - 1] = d
  /\ result' = [result EXCEPT ![d] = Taken(d, s), ![s] = Abandoned(s)]
  /\ IF InOrder(d) THEN GiveUpFor(d, s) ELSE PassOn(d, s) /\ UNCHANGED own
  /\ UNCHANGED stack

(* The stack without what r holds: the three destructors. *)
Released(r) ==
  IF ~ result[r].L THEN stack
  ELSE IF ClassOf[r] = "unsafe" THEN Pop(stack, result[r].returncount)
  ELSE StackRemove(stack, result[r].index, result[r].popcount)

(* Results that hold values are destroyed newest first, as locals are; an    *)
(* unsafe result must moreover be on top (protected_function.rst,            *)
(* function.rst).  Moved-from and default ones may go at any time.           *)
Destroy(r) ==
  /\ result[r] # Unmade
  /\ stack' = Released(r)
  /\ result' = [result EXCEPT ![r] = Unmade]
  /\ \/ /\ ~ InOrder(r)
        /\ UNCHANGED <<order, own, given>>
     \/ /\ Top > 0 /\ order[Top] = r
        /\ ClassOf[r] = "unsafe" => own[Top + 1] = <<>>
        /\ LetGo(r)

--------------------------------------------------------------------------------
(* The program's own use of the stack *)

PushOwn(v) ==
  /\ Len(stack) < MaxStack
  /\ stack' = Append(stack, v)
  /\ own' = [own EXCEPT ![Top + 1] = Append(@, v)]
  /\ UNCHANGED <<result, order, given>>

PopOwn ==
  /\ own[Top + 1] # <<>>
  /\ stack' = Pop(stack, 1)
  /\ own' = [own EXCEPT ![Top + 1] = Pop(@, 1)]
  /\ UNCHANGED <<result, order, given>>

(* stack::push of a function result: copies of its values *)
PushResult(r) ==
  LET n == result[r].popcount IN
  /\ ClassOf[r] # "load" /\ InOrder(r)
  /\ Len(stack) + n <= MaxStack
  /\ stack' = stack \o [i \in 1 .. n |-> stack[result[r].index + i - 1]]
  /\ own' = [own EXCEPT ![Top + 1] = @ \o given[r]]
  /\ UNCHANGED <<result, order, given>>

--------------------------------------------------------------------------------

Next ==
  \/ \E r \in Results, handled \in BOOLEAN, n \in 0 .. MaxArgs, o \in Outcomes :
       CallProtected(r, handled, n, o) \/ CallAligned(r, handled, n, o)
  \/ \E r \in Results, n \in 0 .. MaxArgs, o \in Outcomes : CallUnsafe(r, n, o)
  \/ \E r \in Results, o \in Outcomes : UnsafeScript(r, o)
  \/ \E handled \in BOOLEAN, n \in 0 .. MaxReturns, o \in Outcomes : CallTyped(handled, n, o)
  \/ \E r \in Results, compiles, handled \in BOOLEAN, o \in Outcomes :
       DoString(r, compiles, handled, o)
  \/ \E o \in Outcomes : ScriptThrows(o)
  \/ \E r \in Results, v \in Values, ok \in BOOLEAN : Load(r, v, ok)
  \/ \E r \in Results : Default(r) \/ Destroy(r) \/ PushResult(r)
  \/ \E d, s \in Results : MoveConstruct(d, s) \/ MoveAssign(d, s)
  \/ \E v \in Values : PushOwn(v)
  \/ PopOwn

Spec == Init /\ [][Next]_vars

--------------------------------------------------------------------------------

(* Where the k-th result's values end; 0 for the bottom of the stack. *)
End(k) == IF k = 0 THEN 0 ELSE result[order[k]].index + result[order[k]].popcount - 1

(* Every slot of the stack is accounted for: results and the program's own  *)
(* values follow one another with nothing between and nothing above.  A     *)
(* stack that leaks or underflows breaks it, and so does an index that a    *)
(* removal made stale.                                                      *)
NothingLost ==
  /\ \A k \in 1 .. Top :
       /\ result[order[k]] # Unmade
       /\ result[order[k]].index = End(k - 1) + Len(own[k]) + 1
       /\ result[order[k]].popcount = Len(given[order[k]])
  /\ Len(stack) = End(Top) + Len(own[Top + 1])

(* A result reads the values its call gave it, whatever is pushed, popped,  *)
(* called or moved since (protected_function.rst: "you can save             *)
(* sol::protected_function_result in a variable and push/pop things above   *)
(* it on the stack").                                                       *)
ResultsKeepValues ==
  \A k \in 1 .. Top :
    LET r == order[k] IN
    \A i \in 1 .. Len(given[r]) : stack[result[r].index + i - 1] = given[r][i]

(* The program's own values are where it left them, or lower by what the    *)
(* results below them took away: no call, move or destructor eats one.      *)
OwnValuesKept ==
  \A k \in 1 .. Top + 1 : \A i \in 1 .. Len(own[k]) : stack[End(k - 1) + i] = own[k][i]

(* No call, move or destructor (stack::remove) takes or replaces a value that *)
(* a result or the program counts on.                                         *)
ValuesStay == ResultsKeepValues /\ OwnValuesKept

(* A result that holds nothing takes nothing off the stack: at most one     *)
(* object answers for each value.                                           *)
HeldOnce ==
  /\ \A r \in Results : result[r] # Unmade /\ ~ InOrder(r) =>
       result[r].popcount = 0 /\ result[r].returncount = 0
  /\ \A j, k \in 1 .. Top : order[j] = order[k] => j = k
================================================================================

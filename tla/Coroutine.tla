------------------------------- MODULE Coroutine -------------------------------
(***************************************************************************)
(* sol::coroutine and sol::thread (coroutine.hpp, thread.hpp).  A coroutine *)
(* object is a function and the Lua thread it runs on; its status is a      *)
(* member of the object, set by the calls made through that object.  Lua    *)
(* (5.4) keeps the true one.                                                *)
(*                                                                         *)
(* A thread has two stacks here.  base is what C++ sees while no coroutine  *)
(* runs on it, frame what it sees while one is suspended in, or died in, an *)
(* inner call.  lua_resume moves between the two, and the indices of a      *)
(* result mean another thing after it did.                                  *)
(*                                                                         *)
(* Programs keep a thread for each coroutine, as coroutine_multiple_stacks  *)
(* shows, and call one while it says it is runnable, as coroutine.rst does. *)
(* Arguments are consumed by lua_resume whatever happens, and left out.     *)
(* Results are moved as in FunctionCall.                                    *)
(***************************************************************************)
EXTENDS LuaStack, FiniteSets

CONSTANTS
  Coroutines,  \* the coroutine objects of the program
  Threads,     \* the Lua threads
  Results,     \* the result objects
  Values,      \* Lua values
  Function,    \* a function, pushed to be called
  Message,     \* Lua's own "cannot resume dead coroutine"
  Handled,     \* what an error handler returns
  MaxReturns,  \* the most values a coroutine yields or returns
  MaxInner,    \* the most values a failing call leaves below the error
  MaxStack,    \* bound on the values kept on a thread
  Unmade,      \* an object not constructed yet, or destroyed
  NULL,        \* nullptr
  Corners      \* corner cases the program is assumed to perform

(* The values of call_status and lua_status that the code tells apart. *)
Statuses == {"ok", "yielded", "error"}

CornerCases ==
  {"status_left_behind", "own_below", "result_kept", "push_after_error", "handler_elsewhere"}

(* An error handler is a reference of its own: it holds a function or not, and *)
(* has a lua_State even without one.                                          *)
Handlers == {h \in [on : Threads \cup {NULL}, held : BOOLEAN] : h.held => h.on # NULL}

ASSUME CoroutineAssumption ==
  /\ NULL \notin Threads
  /\ Unmade \notin [on : Threads \cup {NULL}, stats : Statuses, handler : Handlers]
  /\ Unmade \notin [on : Threads, index : Nat, returncount : Nat, popcount : Nat]
  /\ MaxReturns \in Nat /\ MaxInner \in Nat /\ MaxStack \in Nat
  /\ Corners \subseteq CornerCases

VARIABLES
  thread,    \* the Lua threads
  fresh,     \* the threads whose coroutine has not been started
  co,        \* the coroutine objects
  informed,  \* those through which, or a source of which, the last call went
  result,    \* the results
  given,     \* given[r]: the values r was given
  own        \* own[t]: the program's own values on top of what t shows

vars == <<thread, fresh, co, informed, result, given, own>>

Shown == Values \cup {Function, Message, Handled}
ThreadType == [status : Statuses, base : Seq(Shown), frame : Seq(Shown)]
CoroutineType == [on : Threads \cup {NULL}, stats : Statuses, handler : Handlers]
ResultType == [on : Threads, index : Nat, returncount : Nat, popcount : Nat]

TypeOK ==
  /\ thread \in [Threads -> ThreadType]
  /\ fresh \subseteq Threads
  /\ co \in [Coroutines -> CoroutineType \cup {Unmade}]
  /\ informed \subseteq Coroutines
  /\ result \in [Results -> ResultType \cup {Unmade}]
  /\ given \in [Results -> Seq(Shown)]
  /\ own \in [Threads -> Seq(Values)]

Init ==
  /\ thread = [t \in Threads |-> [status |-> "ok", base |-> <<>>, frame |-> <<>>]]
  /\ fresh = {}
  /\ co = [c \in Coroutines |-> Unmade]
  /\ informed = {}
  /\ result = [r \in Results |-> Unmade]
  /\ given = [r \in Results |-> <<>>]
  /\ own = [t \in Threads |-> <<>>]

--------------------------------------------------------------------------------
(* Lua's side *)

(* The stack that lua_gettop and the indices are about. *)
Seen(th) == IF th.status = "ok" THEN th.base ELSE th.frame

WithSeen(th, s) == IF th.status = "ok" THEN [th EXCEPT !.base = s] ELSE [th EXCEPT !.frame = s]

(* What a coroutine does until it yields, returns or fails. *)
Outcomes ==
  [status : {"ok", "yielded"}, inner : {<<>>}, values : UNION {[1 .. n -> Values] : n \in 0 .. MaxReturns}]
    \cup [status : {"error"}, inner : UNION {[1 .. n -> Values] : n \in 0 .. MaxInner},
          values : [1 .. 1 -> Values]]

(* A thread that failed is not resumed again; lua_resume says so. *)
Refusal == [status |-> "error", inner |-> <<>>, values |-> <<Message>>]

Answers(th, o) == IF th.status = "error" THEN o = Refusal ELSE o \in Outcomes

(* lua_resume, on th with the function on top.  A thread at its base calls   *)
(* the function; a suspended one drops it with what else its frame held.     *)
LuaResume(th, o) ==
  IF th.status = "error" THEN [th EXCEPT !.frame = @ \o <<Function, Message>>]
  ELSE IF o.status = "ok" THEN [status |-> "ok", base |-> th.base \o o.values, frame |-> <<>>]
  ELSE [status |-> o.status, base |-> th.base, frame |-> o.inner \o o.values]

(* Whether the coroutine on t has more to yield and has not failed. *)
Resumable(t) == thread[t].status = "yielded" \/ (thread[t].status = "ok" /\ t \in fresh)

--------------------------------------------------------------------------------
(* Coroutine objects *)

InitialStats == "yielded"

Made(c) == co[c] # Unmade

(* valid(), runnable() *)
Runnable(c) == Made(c) /\ co[c].on # NULL /\ co[c].stats = "yielded"

HandlesOf(t) == {c \in Coroutines : Made(c) /\ co[c].on = t}

HeldOn(t) == {r \in Results : result[r] # Unmade /\ result[r].on = t}

NoHandler == [on |-> NULL, held |-> FALSE]

(* basic_reference(lua_State*, basic_reference&&): what is made of h for t, and *)
(* what is left of h.  A function of another thread is copied, not moved.      *)
HandlerMoved(t, h) == [on |-> t, held |-> h.held /\ t # NULL]

HandlerLeft(t, h) == IF h.held /\ h.on = t THEN NoHandler ELSE h

(* Reference!AssignPinned: h keeps its thread for a function of another one. *)
HandlerAssigned(h, from) ==
  IF from.held /\ h.on \notin {NULL, from.on} THEN [on |-> h.on, held |-> TRUE] ELSE from

Empty == [on |-> NULL, stats |-> InitialStats, handler |-> NoHandler]

(* A new coroutine on t, of which only the given objects know. *)
Free(t, handles) == thread[t].status = "ok" /\ HandlesOf(t) \subseteq handles

(* Objects a status is not carried over to; only a program that takes that   *)
(* corner moves a coroutine when the difference would show.                  *)
Fits(stats, wanted) == stats = wanted \/ "status_left_behind" \in Corners

(* basic_coroutine from a function, proxy, reference or index; the error     *)
(* handler is the default one, which is t's whether or not it was set, or    *)
(* one the program gives, of any thread.                                     *)
Construct(c, t, handler) ==
  /\ ~ Made(c) /\ Free(t, {})
  /\ co' = [co EXCEPT ![c] = [on |-> t, stats |-> InitialStats, handler |-> handler]]
  /\ fresh' = fresh \cup {t}
  /\ informed' = informed \cup {c}
  /\ UNCHANGED <<thread, result, given, own>>

Default(c) ==
  /\ ~ Made(c)
  /\ co' = [co EXCEPT ![c] = Empty]
  /\ UNCHANGED <<thread, fresh, informed, result, given, own>>

(* d knows what s knows. *)
Inform(d, s) == informed' = IF s \in informed THEN informed \cup {d} ELSE informed \ {d}

CopyConstruct(d, s) ==
  /\ ~ Made(d) /\ Made(s)
  /\ co' = [co EXCEPT ![d] = co[s]]
  /\ Inform(d, s)
  /\ UNCHANGED <<thread, fresh, result, given, own>>

(* What a moved coroutine makes of another one, with a status and an error    *)
(* handler of its own, and what is left of s: its status and perhaps handler. *)
MovedFrom(s, stats, handler) == [on |-> co[s].on, stats |-> stats, handler |-> handler]

LeftOf(s) ==
  [on |-> NULL, stats |-> co[s].stats, handler |-> HandlerLeft(co[s].on, co[s].handler)]

(* basic_coroutine(basic_coroutine&&): base and error handler, not stats *)
MoveConstruct(d, s) ==
  /\ ~ Made(d) /\ Made(s)
  /\ co[s].on # NULL => Fits(InitialStats, co[s].stats)
  /\ co' = [co EXCEPT ![d] = MovedFrom(s, InitialStats, HandlerMoved(co[s].on, co[s].handler)),
                      ![s] = LeftOf(s)]
  /\ Inform(d, s)
  /\ UNCHANGED <<thread, fresh, result, given, own>>

(* Whether an assignment leaves d on its thread, with s's function: *)
(* Reference!AssignPinned.                                          *)
Pinned(d, s) == co[s].on # NULL /\ co[d].on \notin {NULL, co[s].on}

(* Then d is a new coroutine. *)
BecomesNew(d) ==
  /\ Free(co[d].on, {d})
  /\ fresh' = fresh \cup {co[d].on}
  /\ informed' = informed \cup {d}

(* operator=(const basic_coroutine&): base and error handler are assigned one *)
(* by one, and each may stay on the thread it was of.                         *)
Copied(d, s) ==
  [on |-> IF Pinned(d, s) THEN co[d].on ELSE co[s].on,
   stats |-> co[s].stats,
   handler |-> HandlerAssigned(co[d].handler, co[s].handler)]

CopyAssign(d, s) ==
  /\ d # s /\ Made(d) /\ Made(s)
  /\ co' = [co EXCEPT ![d] = Copied(d, s)]
  /\ \/ Pinned(d, s) /\ Fits(co[s].stats, InitialStats) /\ BecomesNew(d)
     \/ ~ Pinned(d, s) /\ Inform(d, s) /\ UNCHANGED fresh
  /\ UNCHANGED <<thread, result, given, own>>

(* The error handler of d after operator=(basic_coroutine&&), which first makes *)
(* one of s's for d's thread t.                                                *)
HandlerFor(t, d, s) == HandlerAssigned(co[d].handler, HandlerMoved(t, co[s].handler))

(* operator=(basic_coroutine&&): d's stats stay, whatever s was *)
MoveAssign(d, s) ==
  LET stats == co[d].stats
      t == co[d].on
  IN /\ d # s /\ Made(d) /\ Made(s)
     /\ \/ /\ Pinned(d, s) /\ Fits(stats, InitialStats) /\ BecomesNew(d)
           /\ co' = [co EXCEPT ![d].handler = HandlerFor(t, d, s),
                               ![s].handler = HandlerLeft(t, @)]
        \/ /\ ~ Pinned(d, s)
           /\ co[s].on # NULL => Fits(stats, co[s].stats)
           /\ co' = [co EXCEPT ![d] = MovedFrom(s, stats, HandlerFor(co[s].on, d, s)),
                               ![s] = LeftOf(s)]
           /\ Inform(d, s) /\ UNCHANGED fresh
     /\ UNCHANGED <<thread, result, given, own>>

DestroyCoroutine(c) ==
  /\ Made(c)
  /\ co' = [co EXCEPT ![c] = Unmade]
  /\ UNCHANGED <<thread, fresh, informed, result, given, own>>

--------------------------------------------------------------------------------
(* Calls *)

(* Mutant: only a return ends a coroutine. *)
StatsForgettingErrors(th, o) == IF o.status = "ok" THEN "ok" ELSE "yielded"

StatsAfter(th, o) == o.status

(* Mutant: the values are counted from index 1, but not the first. *)
ReturnCountShort(poststacksize) == poststacksize - 1

(* invoke: all of the stack, as firstreturn is 1 *)
ReturnCount(poststacksize) == poststacksize - (1 - 1)

(* invoke's error branch: what the handler makes of the message goes on top. *)
AfterHandler(th, handled) ==
  IF handled THEN [th EXCEPT !.frame = Append(@, Handled)] ELSE th

CoroutineResult(t, resumed, after) ==
  LET returncount == ReturnCount(Len(Seen(resumed))) IN
  IF after.status = "error"
    THEN [on |-> t, index |-> Len(Seen(after)), returncount |-> 1, popcount |-> returncount]
    ELSE [on |-> t, index |-> 1, returncount |-> returncount, popcount |-> returncount]

(* The program's side of a call through c: it is runnable, nothing of an     *)
(* earlier call is kept, nothing lies below a coroutine that starts.         *)
Callable(c, o) ==
  /\ Runnable(c)
  /\ Answers(thread[co[c].on], o)
  /\ HeldOn(co[c].on) # {} => "result_kept" \in Corners
  /\ thread[co[c].on].status = "ok" /\ thread[co[c].on].base # <<>> => "own_below" \in Corners

(* What every call does: the caller and nobody else learns of the outcome,   *)
(* and the values the program left on the thread are the coroutine's.        *)
Resume(c, o) ==
  LET t == co[c].on IN
  /\ co' = [co EXCEPT ![c].stats = StatsAfter(thread[t], o)]
  /\ fresh' = fresh \ {t}
  /\ informed' = (informed \ HandlesOf(t)) \cup {c}
  /\ own' = [own EXCEPT ![t] = <<>>]

(* The error handler is pushed on the stack of its own thread. *)
Astray(c) == co[c].handler.held /\ co[c].handler.on # co[c].on

(* When that is another stack, lua_call finds the message where the handler  *)
(* should be and cannot call it; no result is made.                          *)
HandlerAstray(c, resumed, message) ==
  /\ "handler_elsewhere" \in Corners
  /\ thread' = [thread EXCEPT
       ![co[c].on] = WithSeen(resumed, Seen(resumed) \o message),
       ![co[c].handler.on] = WithSeen(@, Append(Seen(@), Function))]
  /\ UNCHANGED <<result, given>>

(* operator() *)
Call(c, r, o) ==
  LET t == co[c].on
      resumed == LuaResume(thread[t], o)
      handled == co[c].handler.held
      after == AfterHandler(resumed, resumed.status = "error" /\ handled)
  IN /\ result[r] = Unmade
     /\ Callable(c, o)
     /\ Resume(c, o)
     /\ IF o.status = "error" /\ Astray(c) THEN HandlerAstray(c, resumed, o.values)
        ELSE /\ thread' = [thread EXCEPT ![t] = after]
             /\ result' = [result EXCEPT ![r] = CoroutineResult(t, resumed, after)]
             /\ given' = [given EXCEPT ![r] = IF after.status # "error" THEN o.values
                                              ELSE IF handled THEN <<Handled>> ELSE o.values]

(* call<Ret...> that gets what it asked for, and pops it *)
CallTyped(c, o) ==
  LET t == co[c].on
      resumed == LuaResume(thread[t], o)
  IN /\ Callable(c, o) /\ o.status # "error"
     /\ Resume(c, o)
     /\ thread' = [thread EXCEPT ![t] = WithSeen(resumed, Pop(Seen(resumed), Len(o.values)))]
     /\ UNCHANGED <<result, given>>

(* Mutant: the result takes its values from the top. *)
ReleasedFromTop(r) == Pop(Seen(thread[result[r].on]), result[r].popcount)

Released(r) ==
  StackRemove(Seen(thread[result[r].on]), result[r].index, result[r].popcount)

(* ~protected_function_result *)
DestroyResult(r) ==
  /\ result[r] # Unmade
  /\ thread' = [thread EXCEPT ![result[r].on] = WithSeen(@, Released(r))]
  /\ result' = [result EXCEPT ![r] = Unmade]
  /\ given' = [given EXCEPT ![r] = <<>>]
  /\ UNCHANGED <<fresh, co, informed, own>>

(* The program's own use of a thread's stack, through a state_view of it. *)
PushOwn(t, v) ==
  /\ Len(Seen(thread[t])) < MaxStack
  /\ thread[t].status = "error" => "push_after_error" \in Corners
  /\ thread' = [thread EXCEPT ![t] = WithSeen(@, Append(Seen(@), v))]
  /\ own' = [own EXCEPT ![t] = Append(@, v)]
  /\ UNCHANGED <<fresh, co, informed, result, given>>

PopOwn(t) ==
  /\ own[t] # <<>>
  /\ thread' = [thread EXCEPT ![t] = WithSeen(@, Pop(Seen(@), 1))]
  /\ own' = [own EXCEPT ![t] = Pop(@, 1)]
  /\ UNCHANGED <<fresh, co, informed, result, given>>

--------------------------------------------------------------------------------

Next ==
  \/ \E c \in Coroutines, t \in Threads, handler \in Handlers : Construct(c, t, handler)
  \/ \E c \in Coroutines : Default(c) \/ DestroyCoroutine(c)
  \/ \E d, s \in Coroutines :
       CopyConstruct(d, s) \/ MoveConstruct(d, s) \/ CopyAssign(d, s) \/ MoveAssign(d, s)
  \/ \E c \in Coroutines, o \in Outcomes \cup {Refusal} :
       CallTyped(c, o) \/ \E r \in Results : Call(c, r, o)
  \/ \E r \in Results : DestroyResult(r)
  \/ \E t \in Threads : PopOwn(t) \/ \E v \in Values : PushOwn(t, v)

Spec == Init /\ [][Next]_vars

--------------------------------------------------------------------------------
(* thread::status *)

(* No C++ of the program runs inside a coroutine here, so lua_getstack finds *)
(* no running function.                                                      *)
ThreadStatus(t) ==
  IF thread[t].status # "ok" THEN thread[t].status
  ELSE IF thread[t].base = <<>> THEN "dead" ELSE "yielded"

--------------------------------------------------------------------------------
(* Properties *)

(* A coroutine object that is told of every call, or was copied or moved     *)
(* from one that was, never claims to be runnable when its coroutine has     *)
(* returned or failed.                                                       *)
Truthful == \A c \in informed : Runnable(c) => Resumable(co[c].on)

(* And it never refuses a coroutine that can still be called: a loop         *)
(* "while (co) co();" reaches the end.                                       *)
NotRefused ==
  \A c \in informed : Made(c) /\ co[c].on # NULL /\ Resumable(co[c].on) => Runnable(c)

(* Once nothing of a call is kept, a thread's status is dead exactly when    *)
(* nothing is suspended or failed on it (types.rst: "generated when the      *)
(* thread has nothing on its stack and it is not running anything").         *)
ThreadStatusAgrees ==
  \A t \in Threads : HeldOn(t) = {} /\ own[t] = <<>> =>
    (ThreadStatus(t) = "dead" <=> thread[t].status = "ok")

(* The status cached in each object (basic_coroutine::stats) and the one of its *)
(* thread agree with what Lua would answer, in both directions.               *)
StatusAgrees == Truthful /\ NotRefused /\ ThreadStatusAgrees

(* A result reads what its call yielded, returned or failed with, as long as *)
(* it lives, although the stack it lies on changes with every resumption.    *)
ResultsRead ==
  \A r \in Results : result[r] # Unmade =>
    /\ result[r].returncount = Len(given[r])
    /\ \A i \in 1 .. Len(given[r]) :
         LET seen == Seen(thread[result[r].on])
             at == result[r].index + i - 1
         IN at <= Len(seen) /\ seen[at] = given[r][i]

(* A thread that did not fail shows the values of its result and the         *)
(* program's own, and nothing that a call left behind.                       *)
OnlyHeld ==
  \A t \in Threads : thread[t].status # "error" =>
    \/ HeldOn(t) = {} /\ Len(Seen(thread[t])) = Len(own[t])
    \/ \E r \in HeldOn(t) : HeldOn(t) = {r} /\ Len(Seen(thread[t])) = Len(given[r]) + Len(own[t])

(* The program's own values stay on top of what a thread shows until the     *)
(* next call through it: no result takes one along (protected_function.rst:  *)
(* "you can save sol::protected_function_result in a variable and push/pop   *)
(* things above it on the stack where its returned values are").             *)
OwnStays ==
  \A t \in Threads :
    LET seen == Seen(thread[t]) IN
    /\ Len(own[t]) <= Len(seen)
    /\ SubSeq(seen, Len(seen) - Len(own[t]) + 1, Len(seen)) = own[t]

(* A thread's stack is shared out between its result and the program: calls,  *)
(* handlers and destructors leave nothing there and take nothing else.        *)
StackShared == TypeOK /\ OnlyHeld /\ OwnStays
================================================================================

----------------------------- MODULE TableIteration ----------------------------
(***************************************************************************)
(* Walking over Lua tables from C++ while the body of the loop reads and    *)
(* writes tables: pairs(), the iterators of begin() and end(), for_each.    *)
(* None of them holds its key: the key lies on the Lua stack, at an index   *)
(* the iterator remembers, between the values of the loops around it and    *)
(* those of the body.                                                       *)
(*                                                                         *)
(* order, own, visited and stayed are what the programmer has in mind: the  *)
(* loops under way from the outermost in, the body's own values between     *)
(* them, the keys each loop has shown and those it has yet to show.         *)
(***************************************************************************)
EXTENDS TableAccess

CONSTANTS
  Loops,     \* loop objects of the program
  KeyOrder,  \* the order in which lua_next enumerates the keys
  PairsOf,   \* PairsOf[t]: "plain", "metatable" without __pairs, or "pairs"
  Other,     \* a metatable, a function or an error message on the stack
  Unmade,    \* a loop object not constructed yet, or destroyed
  WriteDepth, \* bound on the loops around a body that writes tables
  MaxBody,   \* bound on the statements a body runs in one round
  MaxOwn     \* bound on the values of its own the program keeps on the stack

Classes == {"pairs", "table", "each"}

IterationCorners ==
  {"metatable_without_pairs", "no_base_library", "pairs_two_results", "next_fails",
   "value_above_key", "move_assign_over", "postfix_increment", "ends_out_of_order",
   "callback_throws"}

NoKey == -1   \* empty_key_index

ASSUME IterationAssumption ==
  /\ IsFiniteSet(Keys) /\ KeyOrder \in Bijection(1 .. Cardinality(Keys), Keys)
  /\ PairsOf \in [Tables -> {"plain", "metatable", "pairs"}]
  /\ Corners \subseteq AccessCorners \cup IterationCorners
  /\ MaxOwn \in Nat /\ WriteDepth \in Nat /\ MaxBody \in Nat
  /\ Other \notin Tables

VARIABLES
  loop,     \* the loop objects
  order,    \* the loops under way, outermost first
  own,      \* own[k]: the program's own values between loops k - 1 and k
  visited,  \* visited[l]: the keys loop l has shown
  stayed,   \* stayed[l]: the keys that were there all the time since l began
  left      \* left[l]: statements the body of l has yet to run in this round

vars == <<stack, heap, loop, order, own, visited, stayed, left>>

(* tableidx is that of a table iterator, key the index of the key on the     *)
(* stack, value the value that for_each keeps on the stack.                  *)
LoopType ==
  [class : Classes, t : Tables, tableidx : Int, key : Int, value : Held \cup {Nil, Other}]

ASSUME UnmadeAssumption == Unmade \notin LoopType

--------------------------------------------------------------------------------
(* The steps of the three loops on the stack *)

Ended(l) == loop[l].key = NoKey

KeyPosition(k) == IF k = Nil THEN 0 ELSE CHOOSE n \in DOMAIN KeyOrder : KeyOrder[n] = k

(* lua_next: the first field after the key that is there; Nil at the end. *)
NextKey(h, t, k) ==
  LET rest == {n \in DOMAIN KeyOrder : n > KeyPosition(k) /\ h[t][KeyOrder[n]] # Nil}
  IN IF rest = {} THEN Nil ELSE KeyOrder[Min(rest)]

Settop(m, n) == [m EXCEPT !.s = SubSeq(@, 1, n)]

DropAt(m, i) == [m EXCEPT !.s = LuaRemove(@, i)]

Stepped(m, key) == [m |-> m, key |-> key, value |-> Nil]

Over(m) == Stepped(m, NoKey)

(* The two results of next: the old key goes, the new one and all below stay. *)
PairsTaken(m, key, k) ==
  LET called == DropAt(PushV(PushV(m, k), Other), key)
  IN Stepped(Settop(called, Len(m.s)), Len(m.s))

(* Mutant: past the last pair the iterator keeps its key. *)
PairsStepOn(m, t, key, fails) ==
  LET k == IF key <= Len(m.s) THEN At(m, key) ELSE Other
      next == NextKey(m.h, t, k)
  IN IF k = Nil /\ next = Nil THEN Over(Settop(m, key - 1))
     ELSE PairsTaken(m, key, IF next = Nil THEN k ELSE next)

(* pairs_iterator::operator++.  When next fails the key is removed from      *)
(* below the message, and the result then removes what lies at the message's *)
(* old index.                                                                *)
PairsStep(m, t, key, fails) ==
  LET k == IF key <= Len(m.s) THEN At(m, key) ELSE Other   \* else the function itself
      valid == ~fails /\ k \in Keys \cup {Nil}
      next == NextKey(m.h, t, k)
      failed == DropAt(PushV(m, Other), key)
  IN CASE ~valid -> Over([failed EXCEPT !.s = StackRemove(@, Len(m.s) + 1, 1)])
       [] valid /\ next = Nil -> Over(Settop(m, key - 1))
       [] valid /\ next # Nil -> PairsTaken(m, key, next)

(* The __pairs metamethod's results: next, the table and the first key. *)
PairsResults(t) == <<Other, t>> \o (IF "pairs_two_results" \in Corners THEN <<>> ELSE <<Nil>>)

(* pairs_iterator's constructor, before its operator++.  abs is where the    *)
(* table was pushed and its metatable then lies; find_lua_next_function      *)
(* leaves what it found instead of next.                                     *)
PairsOpened(m, t) ==
  LET abs == Len(m.s) + 1
      source == PushV(m, t)
      meta == IF PairsOf[t] = "plain" THEN DropAt(source, abs)
              ELSE DropAt(PushV(source, Other), abs)
      called == [meta EXCEPT !.s = @ \o PairsResults(t)]
      found == IF "no_base_library" \in Corners THEN PushV(PushV(meta, Nil), Nil) ELSE meta
      first == PushV(found, Nil)
  IN IF PairsOf[t] = "pairs"
     THEN Stepped(DropAt(DropAt(DropAt(called, abs), abs), abs), abs)
     ELSE Stepped(first, Len(first.s))

(* basic_table_iterator::operator++ and the loop of for_each: lua_next takes *)
(* the key from the top of the stack, whatever lies there.                   *)
NextStep(m, t) ==
  LET next == NextKey(m.h, t, Top(m))
  IN IF Top(m) \notin Keys \cup {Nil} THEN Over(Raised(m))
     ELSE IF next = Nil THEN Over(PopV(m, 1))
     ELSE Stepped(PushV(PopV(m, 1), next), Len(m.s))

(* for_each keeps the value on the stack while the function runs. *)
WithValue(st, t) ==
  LET value == st.m.h[t][Top(st.m)] IN
  IF st.key = NoKey THEN Over(PopV(st.m, 1))
  ELSE [st EXCEPT !.m = PushV(@, value), !.value = value]

LoopBegun(m, class, t) ==
  LET held == PushV(PushV(m, t), Nil)
      o == PairsOpened(m, t)
  IN CASE class = "pairs" -> PairsStep(o.m, t, o.key, FALSE)
       [] class = "table" -> NextStep(held, t)
       [] class = "each" -> WithValue(NextStep(held, t), t)

LoopAdvanced(m, rec, fails) ==
  CASE rec.class = "pairs" -> PairsStep(m, rec.t, rec.key, fails)
    [] rec.class = "table" -> NextStep(m, rec.t)
    [] rec.class = "each" -> WithValue(NextStep(PopV(m, 1), rec.t), rec.t)

(* ~basic_table_iterator *)
TableEnded(s, rec) ==
  LET k == IF rec.key = NoKey THEN s ELSE StackRemove(s, rec.key, 1)
  IN StackRemove(k, rec.tableidx, 1)

(* ~pairs_iterator; for_each ends with its loop, or by an exception of the  *)
(* function: pop_n and push_pop then pop the value and the key.             *)
LoopEnded(s, rec) ==
  CASE rec.class = "pairs" -> IF rec.key = NoKey THEN s ELSE LuaRemove(s, rec.key)
    [] rec.class = "table" -> TableEnded(s, rec)
    [] rec.class = "each" -> IF rec.key = NoKey THEN s ELSE Pop(s, 2)
--------------------------------------------------------------------------------
(* The operations of a program *)

Level == Len(order) + 1

Innermost(l) == order # <<>> /\ l = Last(order)

(* The tables some loop is still walking over. *)
Walked == {loop[l].t : l \in {l \in ToSet(order) : ~Ended(l)}}

(* The object the next loop is made in; which one makes no difference. *)
Fresh(l) == loop[l] = Unmade /\ l = CHOOSE r \in Loops : loop[r] = Unmade

(* The tables that loops hold by reference. *)
Referenced(loops) == {loop[l].t : l \in ToSet(loops)}

Walkable(class, t) ==
  /\ heap[t] # Free
  /\ class = "pairs" /\ PairsOf[t] = "metatable" => "metatable_without_pairs" \in Corners

(* Lua forbids a traversal to meet a field that was not there. *)
NoFieldAppears(h) ==
  \A t \in Walked, k \in Keys : heap[t][k] = Nil => h[t][k] = Nil

(* What the loops still have to show is what no one has removed since. *)
Staying(h) ==
  [l \in Loops |-> IF loop[l] = Unmade THEN stayed[l]
                   ELSE {k \in stayed[l] : h[loop[l].t][k] # Nil}]

(* A body is finite: it runs its statements once a round. *)
Statement ==
  IF order = <<>> THEN left' = left
  ELSE left[Last(order)] > 0 /\ left' = [left EXCEPT ![Last(order)] = @ - 1]

(* The body of the innermost loop writes tables ... *)
BodySets ==
  /\ Statement
  /\ Len(order) <= WriteDepth
  /\ \E start \in Starts(stack), path \in Paths, v \in Settable :
       Set(start, path, v, "none", Referenced(order))
  /\ NoFieldAppears(heap') /\ stayed' = Staying(heap')
  /\ UNCHANGED <<loop, order, own, visited>>

BodyClears ==
  /\ Statement
  /\ Len(order) <= WriteDepth
  /\ \E start \in Starts(stack) : Clear(start, Referenced(order))
  /\ stayed' = Staying(heap')
  /\ UNCHANGED <<loop, order, own, visited>>

(* ... pushes values of its own, and pops them. *)
BodyPushes ==
  /\ Statement
  /\ FoldSeq(LAMBDA o, n : Len(o) + n, 0, own) < MaxOwn
  /\ \E start \in Starts(stack), path \in Paths : PushField(start, path, Referenced(order))
  /\ Last(stack') \in Numbers
  /\ own' = [own EXCEPT ![Level] = Append(@, Last(stack'))]
  /\ UNCHANGED <<loop, order, visited, stayed>>

BodyPops ==
  /\ own[Level] # <<>>
  /\ PopField(Referenced(order))
  /\ own' = [own EXCEPT ![Level] = Front(@)]
  /\ UNCHANGED <<loop, order, visited, stayed, left>>

(* One entry more than there are keys is enough to show a key twice. *)
Recent(l) == IF Len(visited[l]) > Cardinality(Keys) THEN Tail(visited[l]) ELSE visited[l]

Shown(l, st) == IF st.key = NoKey THEN visited[l] ELSE Append(Recent(l), At(st.m, st.key))

(* A loop inside another is a statement of its body. *)
Entered(l) ==
  /\ order # <<>> => left[Last(order)] > 0
  /\ left' = [r \in Loops |-> IF r = l THEN MaxBody
                             ELSE IF Innermost(r) THEN left[r] - 1 ELSE left[r]]

Begin(l, class, t) ==
  LET st == LoopBegun(Machine(stack, heap), class, t)
  IN /\ Fresh(l) /\ Walkable(class, t)
     /\ Becomes(st.m, Referenced(order) \cup {t})
     /\ loop' = [loop EXCEPT ![l] =
                   [class |-> class, t |-> t, tableidx |-> Len(stack) + 1,
                    key |-> st.key, value |-> st.value]]
     /\ order' = Append(order, l)
     /\ own' = Append(own, <<>>)
     /\ visited' = [visited EXCEPT ![l] =
                      IF st.key = NoKey THEN <<>> ELSE <<At(st.m, st.key)>>]
     /\ stayed' = [stayed EXCEPT ![l] = {k \in Keys : heap[t][k] # Nil}]
     /\ Entered(l)

(* The next round.  it++ of a table iterator makes a copy that ends with its *)
(* statement.                                                                *)
Advance(l) ==
  /\ Innermost(l) /\ ~Ended(l)
  /\ own[Level] = <<>> \/ "value_above_key" \in Corners
  /\ \E fails, postfix \in BOOLEAN :
       /\ fails => "next_fails" \in Corners /\ PairsOf[loop[l].t] = "pairs"
       /\ postfix => "postfix_increment" \in Corners /\ loop[l].class = "table"
       /\ \E st \in {LoopAdvanced(Machine(stack, heap), loop[l], fails)} :
            /\ Becomes(IF postfix THEN [st.m EXCEPT !.s = TableEnded(@, loop[l])] ELSE st.m,
                       Referenced(order))
            /\ loop' = [loop EXCEPT ![l].key = st.key, ![l].value = st.value]
            /\ visited' = [visited EXCEPT ![l] = Shown(l, st)]
            /\ left' = [left EXCEPT ![l] = IF st.key = NoKey THEN 0 ELSE MaxBody]
  /\ UNCHANGED <<order, own, stayed>>

PlaceOf(l) == CHOOSE n \in DOMAIN order : order[n] = l

(* The loop object goes out of scope: at its end, or because the body left   *)
(* by break, return or an exception.                                         *)
Finish(l) ==
  /\ loop[l] # Unmade
  /\ Innermost(l) \/ "ends_out_of_order" \in Corners
  /\ own[Level] = <<>>
  /\ loop[l].class = "each" => Ended(l) \/ "callback_throws" \in Corners
  /\ Becomes([Machine(stack, heap) EXCEPT !.s = LoopEnded(@, loop[l])],
             Referenced(RemoveAt(order, PlaceOf(l))))
  /\ loop' = [loop EXCEPT ![l] = Unmade]
  /\ order' = RemoveAt(order, PlaceOf(l))
  /\ own' = Front(own)
  /\ visited' = [visited EXCEPT ![l] = <<>>]
  /\ stayed' = [stayed EXCEPT ![l] = {}]
  /\ left' = [left EXCEPT ![l] = 0]

(* Mutant: a moved-from iterator keeps its key. *)
MovedFromKeeping(l) == loop[l]

MovedFrom(l) == [loop[l] EXCEPT !.key = NoKey]

(* The move constructor and move assignment of pairs_iterator: r goes on as l. *)
MovePairs(l, r) ==
  /\ l # r /\ Innermost(r) /\ loop[r].class = "pairs"
  /\ Fresh(l) \/ (loop[l] # Unmade /\ "move_assign_over" \in Corners)
  /\ left[r] > 0
  /\ Becomes([Machine(stack, heap) EXCEPT !.s = LoopEnded(@, MovedFrom(r))], Referenced(order))
  /\ loop' = [loop EXCEPT ![l] = loop[r], ![r] = Unmade]
  /\ order' = Append(Front(order), l)
  /\ visited' = [visited EXCEPT ![l] = visited[r], ![r] = <<>>]
  /\ stayed' = [stayed EXCEPT ![l] = stayed[r], ![r] = {}]
  /\ left' = [left EXCEPT ![l] = left[r] - 1, ![r] = 0]
  /\ UNCHANGED own

--------------------------------------------------------------------------------

Init ==
  /\ stack = <<>>
  /\ heap = [t \in Tables |-> IF t \in Rooted THEN NewTable ELSE Free]
  /\ loop = [l \in Loops |-> Unmade]
  /\ order = <<>>
  /\ own = <<<<>>>>
  /\ visited = [l \in Loops |-> <<>>]
  /\ stayed = [l \in Loops |-> {}]
  /\ left = [l \in Loops |-> 0]

Next ==
  \/ BodySets \/ BodyClears \/ BodyPushes \/ BodyPops
  \/ \E l \in Loops : Advance(l) \/ Finish(l)
  \/ \E l \in Loops, class \in Classes, t \in Tables : Begin(l, class, t)
  \/ \E l, r \in Loops : MovePairs(l, r)

(* A loop body is finite: after its statements it pops its values, and the *)
(* loop object is advanced or leaves its scope.                            *)
GoesOn == BodyPops \/ \E l \in Loops : Advance(l) \/ Finish(l)

Fairness == WF_vars(order # <<>> /\ GoesOn)

Spec == Init /\ [][Next]_vars /\ Fairness

--------------------------------------------------------------------------------

TypeOK ==
  /\ stack \in Seq(Held \cup Keys \cup {Nil, Other})
  /\ HeapTypeOK
  /\ loop \in [Loops -> LoopType \cup {Unmade}]
  /\ order \in Seq(Loops) /\ own \in Seq(Seq(Held \cup {Nil})) /\ Len(own) = Len(order) + 1
  /\ visited \in [Loops -> Seq(Keys)] /\ stayed \in [Loops -> SUBSET Keys]
  /\ left \in [Loops -> 0 .. MaxBody]

(* What a loop keeps on the stack. *)
Region(l) ==
  LET key == IF Ended(l) THEN <<>> ELSE <<Last(visited[l])>>
  IN CASE loop[l].class = "pairs" -> key
       [] loop[l].class = "table" -> <<loop[l].t>> \o key
       [] loop[l].class = "each" -> IF Ended(l) THEN <<>> ELSE <<loop[l].t>> \o key \o <<loop[l].value>>

(* The stack as it should be: of loop after loop its values, and above them *)
(* those of its body.                                                       *)
Laid ==
  LET at[n \in 0 .. Len(order)] ==
        IF n = 0 THEN own[1] ELSE at[n - 1] \o Region(order[n]) \o own[n + 1]
  IN at[Len(order)]

(* The stack holds what the loops under way keep there, the body's own values *)
(* between them, and nothing else: no table, key, metatable or message is     *)
(* left behind by a loop that ended, went on or was left early, and no value  *)
(* of the body is taken away.                                                 *)
StackAccounted ==
  /\ TypeOK
  /\ stack = Laid

(* A loop shows every key at most once, in the order of the table, and when *)
(* it comes to its end it has shown every key that was there from its       *)
(* beginning on, whatever the body removed or changed on the way.           *)
VisitsEachOnce ==
  \A l \in ToSet(order) :
    /\ \A i, j \in DOMAIN visited[l] :
         i < j => KeyPosition(visited[l][i]) < KeyPosition(visited[l][j])
    /\ Ended(l) => stayed[l] \subseteq ToSet(visited[l])

(* Every loop comes to its end, whatever its body writes and whichever loops *)
(* it contains.                                                              *)
LoopsEnd == order # <<>> ~> order = <<>>
================================================================================

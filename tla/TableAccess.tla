------------------------------ MODULE TableAccess ------------------------------
(***************************************************************************)
(* Reading and writing Lua tables from C++: get, set and traversal by a     *)
(* path of keys, with the modes create_if_nil, update_if_empty and          *)
(* override_value, and the table proxies made by operator[].  A table is    *)
(* reached through a registry reference, which each operation pushes and    *)
(* pops, as an object already on the stack, or as the global table, which   *)
(* string keys reach without the stack.                                     *)
(*                                                                         *)
(* An operation is a function from one machine to the next: the stack, the  *)
(* tables, and whether a Lua error was raised.  An operation that raises    *)
(* one abandons the frame; a program only makes those that do not.          *)
(*                                                                         *)
(* Tables without metatables; an unreachable table is collected at once.    *)
(***************************************************************************)
EXTENDS LuaStack, FiniteSets, SequencesExt

CONSTANTS
  Tables,      \* the Lua tables there may be
  Globals,     \* the global table
  Rooted,      \* the tables the program holds registry references to
  DirectKeys,  \* strings: keys the Lua API takes by value
  PushedKeys,  \* booleans, floats, objects: keys pushed before they are used
  Numbers,     \* plain Lua values
  Assigned,    \* the values the program assigns to fields
  Nil,         \* nil
  Free,        \* a table not allocated
  MaxPath,     \* bound on the keys of a path
  MaxStack,    \* bound on the stack
  Corners      \* corner cases the program is assumed to perform

Keys == DirectKeys \cup PushedKeys

AccessCorners ==
  {"pushed_key_below", "stack_table_proxy", "global_pushed_key", "create_unstored",
   "create_over_value"}

ASSUME TableAssumption ==
  /\ Globals \in Rooted /\ Rooted \subseteq Tables
  /\ IsFiniteSet(Tables) /\ Assigned \subseteq Tables \cup Numbers
  /\ DirectKeys \cap PushedKeys = {} /\ Keys \cap Tables = {}
  /\ {Nil, Free} \cap (Tables \cup Keys \cup Numbers) = {}
  /\ Free \notin [Keys -> Tables \cup Numbers \cup {Nil}]
  /\ MaxPath \in Nat \ {0} /\ MaxStack \in Nat

Held == Tables \cup Numbers        \* what a field may hold, nil apart
Paths == UNION {[1 .. n -> Keys] : n \in 1 .. MaxPath}

VARIABLES
  stack,  \* the Lua stack
  heap    \* heap[t]: the fields of table t, or Free

--------------------------------------------------------------------------------
(* The Lua API on tables *)

Machine(s, h) == [s |-> s, h |-> h, err |-> FALSE]

Raised(m) == [m EXCEPT !.err = TRUE]

PushV(m, v) == [m EXCEPT !.s = Append(@, v)]

PopV(m, n) == [m EXCEPT !.s = Pop(@, n)]

At(m, i) == IF AbsIndex(m.s, i) \in DOMAIN m.s THEN m.s[AbsIndex(m.s, i)] ELSE Nil

Top(m) == At(m, -1)

NewTable == [k \in Keys |-> Nil]

Unused(h) == {t \in Tables : h[t] = Free}

(* lua_createtable *)
PushNew(m) ==
  IF Unused(m.h) = {} THEN Raised(m)
  ELSE LET t == CHOOSE t \in Unused(m.h) : TRUE
       IN PushV([m EXCEPT !.h[t] = NewTable], t)

(* What is reachable from a set of tables: the least set with it that the *)
(* fields of its tables do not lead out of.                               *)
Reached(h, from) ==
  LET closed(X) == \A t \in X : h[t] # Free => \A k \in Keys : h[t][k] \in Tables => h[t][k] \in X
  IN {t \in Tables : \A X \in SUBSET Tables : from \subseteq X /\ closed(X) => t \in X}

(* The collector: kept are the tables other objects hold references to. *)
Collected(h, s, kept) ==
  LET alive == Reached(h, Rooted \cup kept \cup (ToSet(s) \cap Tables))
  IN [t \in Tables |-> IF t \in alive THEN h[t] ELSE Free]

--------------------------------------------------------------------------------
(* One field *)

(* The value an API function indexes: a relative index counts a pushed key. *)
Indexed(m, k, i) == IF k \in DirectKeys THEN At(m, i) ELSE At(PushV(m, k), i)

(* field_getter::get *)
GetField(m, k, i, global) ==
  LET t == IF global /\ k \in DirectKeys THEN Globals ELSE Indexed(m, k, i)
  IN IF m.err \/ t \notin Tables THEN Raised(m) ELSE PushV(m, m.h[t][k])

(* field_setter::set *)
SetField(m, k, v, i, global) ==
  LET t == IF global /\ k \in DirectKeys THEN Globals ELSE At(m, i)
  IN IF m.err \/ t \notin Tables THEN Raised(m) ELSE [m EXCEPT !.h[t][k] = v]

(* stack::check of a type *)
IsA(v, want) ==
  CASE want = "table" -> v \in Tables
    [] want = "number" -> v \in Numbers
    [] want = "some" -> v # Nil

(* maybe_indexable *)
Indexable(m, i) == At(m, i) \in Tables

(* probe_field_getter::get of one key *)
Probe(m, k, i, global, want) ==
  IF ~global /\ ~Indexable(m, i) THEN [m |-> m, ok |-> FALSE, levels |-> 0]
  ELSE LET g == GetField(m, k, i, global)
       IN [m |-> g, ok |-> IsA(Top(g), want), levels |-> 1]

(* probe_field_getter of a tuple of keys: every key after the first is *)
(* looked up at index -1.                                              *)
ProbeStep(p, path, n, i, global) ==
  LET g == GetField(p.m, path[n], IF n = 1 THEN i ELSE -1, global /\ n = 1)
      ok == IF n < Len(path) THEN Indexable(g, -1) ELSE IsA(Top(g), "some")
  IN IF p.ok THEN [m |-> g, ok |-> ok, levels |-> n] ELSE p

ProbePath(m, path, i, global) ==
  LET first == [m |-> m, ok |-> global \/ Indexable(m, i), levels |-> 0]
      at[n \in 0 .. Len(path)] ==
        IF n = 0 THEN first ELSE ProbeStep(at[n - 1], path, n, i, global)
  IN at[Len(path)]
--------------------------------------------------------------------------------
(* Which table an operation starts from *)

(* A registry reference, the global table, or a table at a stack index. *)
Starts(s) ==
  [kind : {"ref"}, at : Rooted] \cup [kind : {"global"}, at : {Globals}]
    \cup [kind : {"stack"}, at : {i \in DOMAIN s : s[i] \in Tables}]

TableOf(m, start) == IF start.kind = "stack" THEN m.s[start.at] ELSE start.at

(* is_get_direct_tableless_v: only a global table and a string need no push; *)
(* a read with create_if_nil, which takes that place, always pushes.         *)
Tableless(start, path) == start.kind = "global" /\ path[1] \in DirectKeys

(* push_pop<global> *)
Opened(m, start, global) ==
  IF global \/ start.kind = "stack" THEN m ELSE PushV(m, start.at)

IndexOf(m, start, global) ==
  IF global THEN -1 ELSE IF start.kind = "stack" THEN start.at ELSE Len(m.s) + 1

Closed(m, start, global) ==
  IF global \/ start.kind = "stack" THEN m ELSE PopV(m, 1)

--------------------------------------------------------------------------------
(* Reading *)

(* traverse_get: every level is pushed, the last is read, all are popped. *)
GetStep(a, path, n, global, want, create) ==
  LET g == GetField(a.m, path[n], a.i, global /\ n = 1)
      fill == create /\ Top(g) = Nil /\ (n = Len(path) => want = "table")
      f == IF fill /\ ~g.err THEN PushNew(PopV(g, 1)) ELSE g
  IN [m |-> f, i |-> Len(f.s)]

TraverseGet(m, start, path, want, create) ==
  LET global == ~create /\ Tableless(start, path)
      first == [m |-> Opened(m, start, global), i |-> IndexOf(m, start, global)]
      at[n \in 0 .. Len(path)] ==
        IF n = 0 THEN first ELSE GetStep(at[n - 1], path, n, global, want, create)
      deep == at[Len(path)].m
  IN IF deep.err \/ ~IsA(Top(deep), want) THEN [m |-> Raised(m), got |-> Nil]
     ELSE [m |-> Closed(PopV(deep, Len(path)), start, global), got |-> Top(deep)]

(* Mutant: what is created is not stored. *)
CreatedUnset(p, k, i, global) == PushNew(PopV(p, 1))

(* create_if_nil: what a probe found not to be there is replaced by a table. *)
Created(p, k, i, global) ==
  LET n == PushNew(PopV(p, 1)) IN SetField(n, k, Top(n), i, global)

(* Mutant: the level of a failed probe is not popped. *)
PopCountShort(a, p) == IF p.ok THEN a.pops + p.levels ELSE a.pops

PopCount(a, p) == a.pops + p.levels

(* traverse_get of an optional: every level is probed, popcount says how *)
(* many are to be popped.                                                *)
OptionalStep(a, path, n, global, want, create) ==
  LET direct == global /\ n = 1
      last == n = Len(path)
      p == Probe(a.m, path[n], a.i, direct, IF last THEN want ELSE "some")
      c == IF ~p.ok /\ create THEN Created(p.m, path[n], a.i, direct) ELSE p.m
      ok == p.ok \/ (create /\ ~c.err /\ (last => IsA(Top(c), want)))
  IN IF a.ok THEN [m |-> c, i |-> Len(c.s), pops |-> PopCount(a, p), ok |-> ok] ELSE a

TraverseGetOptional(m, start, path, want, create) ==
  LET global == ~create /\ Tableless(start, path)
      first == [m |-> Opened(m, start, global), i |-> IndexOf(m, start, global),
                pops |-> 0, ok |-> TRUE]
      at[n \in 0 .. Len(path)] ==
        IF n = 0 THEN first ELSE OptionalStep(at[n - 1], path, n, global, want, create)
      deep == at[Len(path)]
  IN IF deep.m.err THEN [m |-> Raised(m), got |-> Nil]
     ELSE [m |-> Closed(PopV(deep.m, deep.pops), start, global),
           got |-> IF deep.ok THEN Top(deep.m) ELSE Nil]

(* table_proxy::valid and get_type: the table is expected on top of the stack. *)
ProxyProbe(m, start, path) ==
  LET direct == start.kind = "global"
      o == Opened(m, start, FALSE)
      p == ProbePath(o, path, Len(o.s), direct)
  IN [m |-> Closed(PopV(p.m, p.levels), start, FALSE), got |-> IF p.ok THEN Top(p.m) ELSE Nil]

(* lua_replace and lua_settop: the value takes the table's place, one more *)
(* value is kept for push_pop to pop.                                      *)
ProxyPlaced(m, base) == [m EXCEPT !.s = SubSeq(LuaReplace(@, base), 1, base + 1)]

(* default_table_index: below a key that has to be pushed. *)
LevelBelow(k) == IF k \in DirectKeys THEN -1 ELSE -2

(* field_getter::get of a tuple of keys leaves the first level below its value. *)
GetPath(m, path, i, global) ==
  LET at[n \in 0 .. Len(path)] ==
        IF n = 0 THEN m
        ELSE GetField(at[n - 1], path[n], IF n = 1 THEN i ELSE LevelBelow(path[n]), global /\ n = 1)
      deep == at[Len(path)]
  IN IF deep.err THEN deep ELSE PushV(PopV(deep, Len(path) - 1), Top(deep))

(* table_proxy::push: a proxy of a stack table is looked up like one of the *)
(* global table.                                                            *)
ProxyPush(m, start, path) ==
  IF start.kind = "ref"
  THEN LET o == PushV(m, start.at)
           g == GetPath(o, path, Len(o.s), FALSE)
       IN IF g.err THEN g ELSE PopV(ProxyPlaced(g, Len(o.s)), 1)
  ELSE LET g == GetPath(m, path, -1, TRUE)
           r == [g EXCEPT !.s = SubSeq(LuaReplace(@, Len(m.s) + 1), 1, Len(m.s) + 1)]
       IN IF g.err THEN g ELSE r

--------------------------------------------------------------------------------
(* Writing *)

Modes == {"none", "create", "update", "override"}

(* Mutant: what is created is not stored in the level above. *)
FilledUnstored(g, k, i, direct, mode) ==
  LET fill == IF mode = "override" THEN Top(g) \notin Tables ELSE Top(g) = Nil
  IN IF mode = "none" \/ g.err \/ ~fill THEN g ELSE PushNew(PopV(g, 1))

(* An intermediate level: nil, or with override_value anything but a table, *)
(* makes way for a new table.                                               *)
Filled(g, k, i, direct, mode) ==
  LET fill == IF mode = "override" THEN Top(g) \notin Tables ELSE Top(g) = Nil
  IN IF mode = "none" \/ g.err \/ ~fill THEN g ELSE Created(g, k, i, direct)

(* The last key: update_if_empty probes first. *)
Stored(m, k, v, i, direct, mode) ==
  LET p == Probe(m, k, i, direct, "some")
      after == IF mode = "update" /\ ~m.err THEN PopV(p.m, p.levels) ELSE m
  IN IF mode = "update" /\ p.ok THEN after ELSE SetField(after, k, v, i, direct)

(* traverse_set: pop_n pops the intermediate levels, push_pop the table. *)
SetStep(a, path, j, global, mode) ==
  LET direct == global /\ j = 1
      f == Filled(GetField(a.m, path[j], a.i, direct), path[j], a.i, direct, mode)
  IN [m |-> f, i |-> Len(f.s)]

TraverseSet(m, start, path, v, mode) ==
  LET global == Tableless(start, path)
      n == Len(path)
      first == [m |-> Opened(m, start, global), i |-> IndexOf(m, start, global)]
      at[j \in 0 .. n - 1] == IF j = 0 THEN first ELSE SetStep(at[j - 1], path, j, global, mode)
      above == at[n - 1]
      done == Stored(above.m, path[n], v, above.i, global /\ n = 1, mode)
  IN IF done.err THEN Raised(m) ELSE Closed(PopV(done, n - 1), start, global)

(* stack::clear: the traversal keeps the key it is at while that is set to nil. *)
ClearTable(m, i) == [m EXCEPT !.h[At(m, i)] = NewTable]
--------------------------------------------------------------------------------
(* The operations of a program *)

(* The value at the end of a path, as the programmer reads t[a][b][c]. *)
Lookup(h, t, path) ==
  LET at[n \in 0 .. Len(path)] ==
        IF n = 0 THEN t
        ELSE IF at[n - 1] \in Tables THEN h[at[n - 1]][path[n]] ELSE Nil
  IN at[Len(path)]

(* The proxy's valid and get_type work on this table and these keys. *)
ProxyProbes(start, path) ==
  /\ start.kind = "stack" => "stack_table_proxy" \in Corners
  /\ (\E n \in 2 .. Len(path) : path[n] \in PushedKeys) => "pushed_key_below" \in Corners

(* And its push. *)
ProxyPushes(start, path) ==
  /\ start.kind = "stack" => "stack_table_proxy" \in Corners
  /\ start.kind = "global" /\ path[1] \in PushedKeys => "global_pushed_key" \in Corners

Becomes(machine, kept) ==
  \E m \in {machine} :
    /\ ~m.err
    /\ Len(m.s) <= MaxStack
    /\ stack' = m.s
    /\ heap' = Collected(m.h, m.s, kept)

(* A value the program assigns: nil, a number, a table there is. *)
Settable == {Nil} \cup {v \in Assigned : v \in Tables => heap[v] # Free}

(* create_if_nil finds nil or tables only along the path. *)
NothingInTheWay(t, path) ==
  "create_over_value" \in Corners \/
    \A n \in 1 .. Len(path) : Lookup(heap, t, SubSeq(path, 1, n)) \notin Numbers

(* table.set, table.traverse_set, proxy = value, and with nil the removal *)
Set(start, path, v, mode, kept) ==
  Becomes(TraverseSet(Machine(stack, heap), start, path, v, mode), kept)

(* traverse_get<optional<table>>(create_if_nil, ...) *)
GetOrCreate(start, path, kept) ==
  /\ NothingInTheWay(TableOf(Machine(stack, heap), start), path)
  /\ Becomes(TraverseGetOptional(Machine(stack, heap), start, path, "table", TRUE).m, kept)

(* A proxy passed where a value is pushed; the value becomes the program's own. *)
PushField(start, path, kept) ==
  /\ ProxyPushes(start, path)
  /\ Becomes(ProxyPush(Machine(stack, heap), start, path), kept)

(* table.clear *)
Clear(start, kept) ==
  LET m == Machine(stack, heap)
      o == Opened(m, start, FALSE)
  IN Becomes(Closed(ClearTable(o, IndexOf(m, start, FALSE)), start, FALSE), kept)

(* The program is done with the value it pushed last. *)
PopField(kept) == stack # <<>> /\ Becomes(PopV(Machine(stack, heap), 1), kept)

AccessInit ==
  /\ stack = <<>>
  /\ heap = [t \in Tables |-> IF t \in Rooted THEN NewTable ELSE Free]

AccessNext ==
  \/ \E start \in Starts(stack), path \in Paths, v \in Settable, mode \in Modes :
       Set(start, path, v, mode, {})
  \/ \E start \in Starts(stack), path \in Paths :
       GetOrCreate(start, path, {}) \/ PushField(start, path, {})
  \/ \E start \in Starts(stack) : Clear(start, {})
  \/ PopField({})

AccessSpec == AccessInit /\ [][AccessNext]_<<stack, heap>>

HeapTypeOK ==
  heap \in [Tables -> {Free} \cup [Keys -> Held \cup {Nil}]]

--------------------------------------------------------------------------------
(* What the operations promise *)

Prefix(path, n) == SubSeq(path, 1, n)

(* How many keys of a path, the last apart, lead to tables that are there. *)
Depth(h, t, path) ==
  Max({n \in 0 .. Len(path) - 1 : Lookup(h, t, Prefix(path, n)) \in Tables})

FieldsChanged(h, g) ==
  {f \in Tables \X Keys : h[f[1]] # Free /\ (g[f[1]] = Free \/ g[f[1]][f[2]] # h[f[1]][f[2]])}

(* Every way of reading a path (get, an optional of the right or the wrong    *)
(* type, a proxy's valid, get_type and push) finds what following the keys    *)
(* one by one finds, raises no error where it probes, changes no table, and   *)
(* leaves on the stack nothing but the value a push is asked for.             *)
ReadsAgree ==
  LET m == Machine(stack, heap) IN
  \A start \in Starts(stack), path \in Paths :
    LET v == Lookup(heap, TableOf(m, start), path)
        get == TraverseGet(m, start, path, "some", FALSE)
        probe == ProxyProbe(m, start, path)
        push == ProxyPush(m, start, path)
    IN /\ ~get.m.err => get = [m |-> m, got |-> v]
       /\ v # Nil => ~get.m.err
       /\ \A want \in {"table", "number", "some"} :
            TraverseGetOptional(m, start, path, want, FALSE) =
              [m |-> m, got |-> IF IsA(v, want) THEN v ELSE Nil]
       /\ ProxyProbes(start, path) => probe = [m |-> m, got |-> v]
       /\ ProxyPushes(start, path) /\ ~get.m.err => push = PushV(m, v)

(* A write that raises no error puts the value where the path leads, changes  *)
(* one field of one table that was there, keeps what update_if_empty and      *)
(* create_if_nil promise to keep, and leaves the stack as it was; a write     *)
(* with override_value raises no error at all.                                *)
WritesLand ==
  LET m == Machine(stack, heap) IN
  \A start \in Starts(stack), path \in Paths, v \in Settable, mode \in Modes :
    LET r == TraverseSet(m, start, path, v, mode)
        t == TableOf(m, start)
        d == Depth(heap, t, path)
        q == Lookup(heap, t, Prefix(path, d))
        rest == SubSeq(path, d + 1, Len(path))
        old == Lookup(heap, t, path)
        room == Cardinality(Unused(heap)) >= Len(path)
    IN /\ mode = "override" /\ room => ~r.err
       /\ ~r.err =>
            /\ r.s = stack
            /\ Lookup(r.h, q, rest) = IF mode = "update" /\ old # Nil THEN old ELSE v
            /\ FieldsChanged(heap, r.h) \subseteq {<<q, path[d + 1]>>}
            /\ d + 1 < Len(path) /\ mode # "override" => heap[q][path[d + 1]] = Nil

(* A read with create_if_nil returns a table that the path then leads to, and *)
(* replaces nothing that is there ("create tables all the way down").         *)
CreatesAllTheWay ==
  LET m == Machine(stack, heap)
      kept(r) == \A f \in FieldsChanged(heap, r.m.h) : heap[f[1]][f[2]] = Nil
      there(r, start, path) == Lookup(r.m.h, TableOf(m, start), path) = r.got
  IN \A start \in Starts(stack), path \in Paths :
       LET plain == TraverseGet(m, start, path, "table", TRUE)
           maybe == TraverseGetOptional(m, start, path, "table", TRUE)
           clear == NothingInTheWay(TableOf(m, start), path)
       IN /\ "create_unstored" \in Corners /\ ~plain.m.err =>
               plain.m.s = stack /\ kept(plain) /\ there(plain, start, path)
          /\ clear /\ ~maybe.m.err => maybe.m.s = stack /\ kept(maybe) /\ there(maybe, start, path)
================================================================================

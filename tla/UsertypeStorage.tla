---------------------------- MODULE UsertypeStorage ----------------------------
(***************************************************************************)
(* One usertype in one Lua state (usertype_storage.hpp, metatable.hpp,      *)
(* usertype.hpp): how it is registered, extended while objects of it exist, *)
(* unregistered, registered again, and what objects and the class table     *)
(* answer meanwhile.                                                        *)
(*                                                                         *)
(* Five fast tables (one for every kind of object), the named table, the    *)
(* registry names of their metatables and a storage userdata, which owns    *)
(* the C++ side of every binding, all belong to one class and are changed   *)
(* by different calls.  Lua's collector destroys an old storage whenever it *)
(* pleases.  A table without references is collected with its content.      *)
(***************************************************************************)
EXTENDS Naturals, Functions

CONSTANTS
  Kinds,     \* the submetatable_types of objects: value, reference, unique, ...
  Owning,    \* those whose objects __gc destroys
  Strings,   \* string keys
  Others,    \* keys of any other type
  Storages,  \* usertype_storage userdata
  Objects,   \* userdata of the class
  Bindings,  \* binding_base objects
  Values,    \* Lua values
  MaxTables, \* bound on the metatables of one kind that exist at a time
  None,      \* no storage, table, object or value
  Self,      \* __index of a table that is the table itself
  Corners    \* corner cases the program is assumed to perform

Keys == Strings \cup Others

\* Metatables.  Each is made for objects of one kind.
Tables == Kinds \X (1 .. MaxTables)

CornerCases == {"collect_after_register", "set_while_unregistered", "object_sets_other"}

\* What a lookup may yield, and what a field of a fast table may be.
Answers == [how : {"call", "read", "fallback"}, of : Bindings] \cup [how : {"value"}, of : Values]

StorageType ==
  [cleared : BOOLEAN, tables : [Kinds -> Tables \cup {None}],
   strings : [Strings -> Bindings \cup {None}], others : [Others -> Values \cup {None}],
   fallback : Bindings \cup {None}, usingIndex : BOOLEAN]
TableType ==
  [index : Storages \cup {Self, None}, newIndex : Storages \cup {None},
   gc : BOOLEAN, fields : [Keys -> Answers \cup {None}]]
ObjectType == [kind : Kinds, meta : Tables]

ASSUME UsertypeAssumption ==
  /\ Owning \subseteq Kinds
  /\ Strings \cap Others = {}
  /\ "index" \notin Keys  \* of __index, which SetIndex sets
  /\ None \notin Storages \cup Tables \cup Objects \cup Values \cup Bindings \cup Answers
  /\ None \notin StorageType \cup ObjectType
  /\ {"function", "variable"} \cap (Values \cup {None}) = {}
  /\ MaxTables \in Nat
  /\ Self \notin Storages \cup {None}
  /\ Corners \subseteq CornerCases

VARIABLES
  gcTable,   \* the storage that the global gc_table name holds
  registry,  \* registry[k]: the metatable under the class's name for kind k
  table,     \* the metatables
  named,     \* the named table: its raw fields and the storage it asks
  storage,   \* the storages
  binding,   \* binding[b]: what is in b, None when it is freed
  object,    \* the objects
  want       \* want[k]: what the program last bound k to in this registration

vars == <<gcTable, registry, table, named, storage, binding, object, want>>

NoFields == [k \in Keys |-> None]
Blank == [index |-> None, newIndex |-> None, gc |-> FALSE, fields |-> NoFields]
New == [cleared |-> FALSE, tables |-> [k \in Kinds |-> None], strings |-> [k \in Strings |-> None],
        others |-> [k \in Others |-> None], fallback |-> None, usingIndex |-> FALSE]

TypeOK ==
  /\ gcTable \in Storages \cup {None}
  /\ registry \in [Kinds -> Tables \cup {None}]
  /\ table \in [Tables -> TableType]
  /\ named \in [made : BOOLEAN, asks : Storages \cup {None}, fields : [Keys -> Values \cup {None}]]
  /\ storage \in [Storages -> StorageType \cup {None}]
  /\ binding \in [Bindings -> {"function", "variable", None} \cup Values]
  /\ object \in [Objects -> ObjectType \cup {None}]
  /\ want \in [Keys \cup {"index"} -> Answers \cup {None}]

Init ==
  /\ gcTable = None
  /\ registry = [k \in Kinds |-> None]
  /\ table = [t \in Tables |-> Blank]
  /\ named = [made |-> FALSE, asks |-> None, fields |-> NoFields]
  /\ storage = [s \in Storages |-> None]
  /\ binding = [b \in Bindings |-> None]
  /\ object = [o \in Objects |-> None]
  /\ want = [k \in Keys \cup {"index"} |-> None]

--------------------------------------------------------------------------------
(* Reachability, and Lua's side of it *)

TablesOf(s) == IF storage[s] = None THEN {} ELSE Range(storage[s].tables) \ {None}

Referred == (Range(registry) \ {None})
  \cup (UNION {TablesOf(s) : s \in Storages})
  \cup {object[o].meta : o \in {p \in Objects : object[p] # None}}

(* A new table, the first that nothing refers to. *)
NewTables(k) == {<<k, n>> : n \in 1 .. MaxTables} \ Referred

NewTable(k) == CHOOSE t \in NewTables(k) : \A u \in NewTables(k) : t[2] <= u[2]

(* The tables that are left: the others are collected. *)
Remaining(tables) == [t \in Tables |-> IF t \in Referred' THEN tables[t] ELSE Blank]

Closures(t) == {table[t].fields[k].of : k \in {j \in Keys :
                  table[t].fields[j] # None /\ table[t].fields[j].how # "value"}}

Owned(s) == IF storage[s] = None THEN {} ELSE (Range(storage[s].strings) \cup {storage[s].fallback}) \ {None}

FreshBinding(b) ==
  /\ binding[b] = None
  /\ \A t \in Tables : b \notin Closures(t)
  /\ \A s \in Storages : b \notin Owned(s)

--------------------------------------------------------------------------------
(* Clearing *)

(* The tables clear() empties. *)
Cleared(s) == TablesOf(s)

(* usertype_storage_base::clear: the tables lose their entries, the storage  *)
(* its references to them and its bindings.  What it leaves in base_index    *)
(* and the flags is out of reach: no table asks a cleared storage.           *)
Clear(s) ==
  /\ storage' = [storage EXCEPT ![s] = [New EXCEPT !.cleared = TRUE]]
  /\ binding' = [b \in Bindings |-> IF b \in Owned(s) THEN None ELSE binding[b]]

Emptied(s) == [t \in Tables |-> IF t \in Cleared(s) THEN Blank ELSE table[t]]

(* clear_usertype_registry_names *)
ClearedNames == [k \in Kinds |-> None]

--------------------------------------------------------------------------------
(* Registering *)

(* Mutant: __index and __newindex are set when the table is made only. *)
FastTableOnce(t, s, k, made) ==
  [t EXCEPT !.index = IF made THEN Self ELSE @, !.newIndex = IF made THEN s ELSE @,
            !.gc = k \in Owning]

(* for_each_backing_metatable: t, newly made or found under its name, gets   *)
(* the default entries of kind k.                                            *)
FastTable(t, s, k, made) == [t EXCEPT !.index = Self, !.newIndex = s, !.gc = k \in Owning]

(* register_usertype.  STEP 0 clears the storage that the gc_table name      *)
(* still holds, with its names; luaL_newmetatable then takes each table that *)
(* is still named, or makes one.  The named table is the same every time:    *)
(* no call clears its name.                                                  *)
Register(s) ==
  LET old == gcTable
      names == IF old = None THEN registry ELSE ClearedNames
      before == IF old = None THEN table ELSE Emptied(old)
      tables == [k \in Kinds |-> IF names[k] # None THEN names[k] ELSE NewTable(k)]
  IN
  /\ storage[s] = None
  /\ named.fields # NoFields => "set_while_unregistered" \in Corners
  /\ \A k \in Kinds : names[k] = None => NewTables(k) # {}
  /\ registry' = tables
  /\ storage' = [r \in Storages |->
       IF r = s THEN [New EXCEPT !.tables = tables]
       ELSE IF r = old THEN [New EXCEPT !.cleared = TRUE] ELSE storage[r]]
  /\ binding' = [b \in Bindings |-> IF old # None /\ b \in Owned(old) THEN None ELSE binding[b]]
  /\ gcTable' = s
  /\ named' = [made |-> TRUE, asks |-> s, fields |-> IF old = None THEN named.fields ELSE NoFields]
  /\ want' = [k \in DOMAIN want |-> None]
  /\ UNCHANGED object
  /\ table' = Remaining([t \in Tables |->
       IF t \in Range(tables) THEN FastTable(before[t], s, t[1], names[t[1]] = None) ELSE before[t]])

(* metatable::unregister, through the named table; the registry names stay.  *)
(* Without gc_names and a storage to be found there it does nothing.         *)
Unregister ==
  LET s == named.asks IN
  /\ s # None
  /\ gcTable' = None
  /\ Clear(s)
  /\ named' = [made |-> TRUE, asks |-> None, fields |-> NoFields]
  /\ want' = [k \in DOMAIN want |-> None]
  /\ UNCHANGED <<registry, object>>
  /\ table' = Remaining(Emptied(s))

(* destroy_usertype_storage: __gc of a storage that is out of use, which     *)
(* clears the names of the class, be they its own or those of a successor.   *)
CollectStorage(s) ==
  /\ storage[s] # None /\ s # gcTable
  /\ gcTable # None => "collect_after_register" \in Corners
  /\ registry' = ClearedNames
  /\ storage' = [storage EXCEPT ![s] = None]
  /\ binding' = [b \in Bindings |-> IF b \in Owned(s) THEN None ELSE binding[b]]
  /\ UNCHANGED <<gcTable, named, object, want>>
  /\ table' = Remaining(table)

--------------------------------------------------------------------------------
(* Binding *)

AnswerOf(b, data) ==
  IF data = "function" THEN [how |-> "call", of |-> b]
  ELSE IF data = "variable" THEN [how |-> "read", of |-> b]
  ELSE [how |-> "value", of |-> data]

(* What for_each_table writes into the fast tables: a closure over the       *)
(* binding, or the Lua value itself.                                         *)
FieldOf(b, data) ==
  IF data \in Values THEN [how |-> "value", of |-> data] ELSE [how |-> "call", of |-> b]

(* Mutant: a Lua value is read from the fast tables as well. *)
PoisonsVariables(s, data) == ~ storage[s].usingIndex /\ data = "variable"

(* poison_indexing: Lua values count as variables (is_variable_binding). *)
Poisons(s, data) == ~ storage[s].usingIndex /\ data # "function"

(* change_indexing: __index becomes a call into the storage. *)
IndexAfter(s, poison, t) == IF poison THEN s ELSE table[t].index

(* Mutant: a name that is bound again keeps its old closures. *)
BoundWhereMissing(s, k, field, poison) ==
  [t \in Tables |-> IF t \notin TablesOf(s) THEN table[t]
     ELSE [table[t] EXCEPT !.index = IndexAfter(s, poison, t),
                           !.fields[k] = IF @ = None THEN field ELSE @]]

(* for_each_table *)
Bound(s, k, field, poison) ==
  [t \in Tables |-> IF t \notin TablesOf(s) THEN table[t]
     ELSE [table[t] EXCEPT !.index = IndexAfter(s, poison, t), !.fields[k] = field]]

(* usertype_storage_base::set for a string key: a new binding replaces the   *)
(* one the key had, which is freed.  Called through the usertype, or from    *)
(* Lua by __newindex of the named table with a Lua value.                    *)
SetString(s, k, b, data) ==
  LET old == storage[s].strings[k] IN
  /\ FreshBinding(b)
  /\ binding' = [c \in Bindings |-> IF c = b THEN data ELSE IF c = old THEN None ELSE binding[c]]
  /\ storage' = [storage EXCEPT ![s].strings[k] = b, ![s].usingIndex = @ \/ Poisons(s, data)]
  /\ table' = Bound(s, k, FieldOf(b, data), Poisons(s, data))
  /\ want' = [want EXCEPT ![k] = AnswerOf(b, data)]
  /\ UNCHANGED <<gcTable, registry, named, object>>

(* The same for "__index": it is kept aside, and not written to the tables. *)
SetIndex(s, b) ==
  LET poison == ~ storage[s].usingIndex IN
  /\ FreshBinding(b)
  /\ binding' = [c \in Bindings |->
       IF c = b THEN "function" ELSE IF c = storage[s].fallback THEN None ELSE binding[c]]
  /\ storage' = [storage EXCEPT ![s].fallback = b, ![s].usingIndex = TRUE]
  /\ table' = [t \in Tables |-> IF t \in TablesOf(s)
                 THEN [table[t] EXCEPT !.index = IndexAfter(s, poison, t)] ELSE table[t]]
  /\ want' = [want EXCEPT !["index"] = [how |-> "fallback", of |-> b]]
  /\ UNCHANGED <<gcTable, registry, named, object>>

(* The same for any other key: auxiliary_keys, and the value in the tables. *)
SetOther(s, k, v) ==
  /\ storage' = [storage EXCEPT ![s].others[k] = v]
  /\ table' = Bound(s, k, [how |-> "value", of |-> v], FALSE)
  /\ want' = [want EXCEPT ![k] = [how |-> "value", of |-> v]]
  /\ UNCHANGED <<gcTable, registry, named, binding, object>>

(* Setting a field of an unregistered class: of a table like any other.  The *)
(* next registration leaves it there.                                        *)
SetPlain(k, v) ==
  /\ gcTable = None /\ named.made
  /\ named' = [named EXCEPT !.fields[k] = v]
  /\ UNCHANGED <<gcTable, registry, table, storage, binding, object, want>>

(* Every way to bind, in the storage in use. *)
BindIn(s) ==
  \/ \E k \in Strings, b \in Bindings, data \in {"function", "variable"} \cup Values : SetString(s, k, b, data)
  \/ \E b \in Bindings : SetIndex(s, b)
  \/ \E k \in Others, v \in Values : SetOther(s, k, v)

--------------------------------------------------------------------------------
(* Objects *)

(* Pushing an object: luaL_newmetatable finds the metatable of its kind, or  *)
(* makes one with the default entries.                                       *)
Push(o, k) ==
  /\ object[o] = None
  /\ \/ /\ registry[k] # None
        /\ object' = [object EXCEPT ![o] = [kind |-> k, meta |-> registry[k]]]
        /\ UNCHANGED <<registry, table>>
     \/ /\ registry[k] = None
        /\ NewTables(k) # {}
        /\ object' = [object EXCEPT ![o] = [kind |-> k, meta |-> NewTable(k)]]
        /\ registry' = [registry EXCEPT ![k] = NewTable(k)]
        /\ table' = [table EXCEPT ![NewTable(k)] = [Blank EXCEPT !.gc = k \in Owning]]
  /\ UNCHANGED <<gcTable, named, storage, binding, want>>

CollectObject(o) ==
  /\ object[o] # None
  /\ object' = [object EXCEPT ![o] = None]
  /\ UNCHANGED <<gcTable, registry, named, storage, binding, want>>
  /\ table' = Remaining(table)

(* obj[k] = v.  __newindex finds the binding: a Lua value is replaced in it, *)
(* a C++ variable is written, a function is left alone; a value under        *)
(* another key is replaced in auxiliary_keys.  Elsewhere it is an error.     *)
Assign(o, k, v) ==
  LET s == table[object[o].meta].newIndex IN
  /\ object[o] # None /\ s # None
  /\ \/ /\ k \in Strings
        /\ storage[s].strings[k] # None /\ binding[storage[s].strings[k]] \in Values
        /\ binding' = [binding EXCEPT ![storage[s].strings[k]] = v]
        /\ UNCHANGED storage
     \/ /\ k \in Others
        /\ storage[s].others[k] # None
        /\ ~ storage[s].usingIndex => "object_sets_other" \in Corners
        /\ storage' = [storage EXCEPT ![s].others[k] = v]
        /\ UNCHANGED binding
  /\ want' = [want EXCEPT ![k] = [how |-> "value", of |-> v]]
  /\ UNCHANGED <<gcTable, registry, table, named, object>>

--------------------------------------------------------------------------------

Next ==
  \/ \E s \in Storages : Register(s) \/ CollectStorage(s)
  \/ Unregister
  \/ gcTable # None /\ BindIn(gcTable)
  \/ \E k \in Keys, v \in Values : SetPlain(k, v)
  \/ \E o \in Objects : CollectObject(o) \/ \E k \in Kinds : Push(o, k)
  \/ \E o \in Objects, k \in Keys, v \in Values : Assign(o, k, v)

Spec == Init /\ [][Next]_vars

--------------------------------------------------------------------------------
(* Lookups *)

InUse == {s \in Storages : storage[s] # None /\ ~ storage[s].cleared}

(* The part of self_index_call that searches the storage. *)
Stored(s, k) ==
  IF k \in Others
    THEN IF storage[s].others[k] = None THEN None ELSE [how |-> "value", of |-> storage[s].others[k]]
    ELSE LET b == storage[s].strings[k] IN
         IF b = None THEN None ELSE AnswerOf(b, binding[b])

(* index_call: found in the storage, or base_index; by default index_fail    *)
(* reads the object's metatable.                                             *)
IndexCall(s, k, t) ==
  IF Stored(s, k) # None THEN Stored(s, k)
  ELSE IF storage[s].fallback # None THEN [how |-> "fallback", of |-> storage[s].fallback]
  ELSE table[t].fields[k]

(* obj[k] *)
Lookup(o, k) ==
  LET t == object[o].meta
      at == table[t].index
  IN IF at = None THEN None
     ELSE IF at = Self THEN table[t].fields[k]
     ELSE IF at \notin InUse THEN None
     ELSE IndexCall(at, k, t)

(* Class[k]: a raw field, or meta_index_call *)
NamedLookup(k) ==
  IF named.fields[k] # None THEN [how |-> "value", of |-> named.fields[k]]
  ELSE IF named.asks = None THEN None
  ELSE Stored(named.asks, k)

--------------------------------------------------------------------------------
(* Properties *)

(* Every object of the current registration, whatever its kind, whenever it  *)
(* was made and through whichever table it looks, and the class table see    *)
(* each key as it was bound last, variables as values and not as functions:  *)
(* the fast tables and the storage never diverge.                            *)
EveryLookupIsCurrent ==
  gcTable # None =>
    \A k \in Keys :
      /\ NamedLookup(k) = want[k]
      /\ \A o \in Objects :
           object[o] # None /\ object[o].meta \in TablesOf(gcTable) =>
             Lookup(o, k) = IF want[k] # None THEN want[k] ELSE want["index"]

(* An object that outlives its registration, or was made between two, never  *)
(* sees what an earlier one bound (usertypes.unregister.cpp: "completely     *)
(* unregistered").                                                           *)
NothingStale ==
  \A o \in Objects, k \in Keys : object[o] # None =>
    Lookup(o, k) \in {None, want[k], want["index"]}

(* The map of a storage and the five metatables of a class answer as one, to  *)
(* objects of every registration, after whatever was bound, cleared or freed. *)
LookupsAgree == TypeOK /\ EveryLookupIsCurrent /\ NothingStale

(* No closure or function pointer that Lua can reach is of a freed binding,  *)
(* or of a storage that was destroyed: their light userdata stay valid.      *)
NothingDangles ==
  /\ \A t \in Referred :
       /\ \A b \in Closures(t) : binding[b] # None
       /\ {table[t].index, table[t].newIndex} \cap Storages \subseteq InUse
  /\ named.asks # None => named.asks \in InUse
  /\ \A s \in Storages : \A b \in Owned(s) : binding[b] # None

(* While a class is registered its names in the registry lead to the tables  *)
(* of its storage, so that new objects get its functions and its checks      *)
(* accept them: the names "need to be present no matter what, for safety's   *)
(* sake" (metatable.hpp).  Owning kinds, and no other, have a destructor.    *)
NamesLeadToClass ==
  gcTable # None =>
    /\ named.asks = gcTable
    /\ \A k \in Kinds :
         LET t == registry[k] IN
         /\ t # None
         /\ t = storage[gcTable].tables[k]
         /\ table[t].index \in {Self, gcTable} /\ table[t].newIndex = gcTable
         /\ table[t].gc = (k \in Owning)
================================================================================

------------------------- MODULE UsertypeStorageProofs --------------------------
(***************************************************************************)
(* Proofs about UsertypeStorage: in a program without corner cases, with    *)
(* any number of keys, objects, bindings and registrations, every lookup of *)
(* an object or the class table gives what was bound last, and no closure   *)
(* that Lua can reach outlives its binding.                                 *)
(***************************************************************************)
EXTENDS UsertypeStorage, WellFoundedInduction, TLAPS

(* The metatables of the registration in use. *)
Current == IF gcTable = None THEN {} ELSE TablesOf(gcTable)

ValueFields == [how : {"value"}, of : Values]

CallOf(b) == [how |-> "call", of |-> b]

(* The field under a string key of a fast table of storage s fits what the   *)
(* storage has.  A Lua value may have been replaced through an object since, *)
(* but then lookups ask the storage.                                        *)
StringSound(s, t, k) ==
  LET b == storage[s].strings[k]
      field == table[t].fields[k]
  IN \/ b = None /\ field = None
     \/ b # None /\ binding[b] = "function" /\ field = CallOf(b)
     \/ b # None /\ storage[s].usingIndex /\ binding[b] = "variable" /\ field = CallOf(b)
     \/ b # None /\ storage[s].usingIndex /\ binding[b] \in Values /\ field \in ValueFields

(* The same for another key, which has no binding. *)
OtherSound(s, t, k) ==
  LET v == storage[s].others[k]
      field == table[t].fields[k]
  IN \/ v = None /\ field = None
     \/ v # None /\ field = [how |-> "value", of |-> v]
     \/ v # None /\ storage[s].usingIndex /\ field \in ValueFields

FastSound(s, t) ==
  /\ table[t].newIndex = s
  /\ table[t].index = IF storage[s].usingIndex THEN s ELSE Self
  /\ table[t].gc = (t[1] \in Owning)
  /\ \A k \in Strings : StringSound(s, t, k)
  /\ \A k \in Others : OtherSound(s, t, k)

(* Each binding of the storage is alive and there once: freeing the one a    *)
(* key had frees no other key's.                                            *)
BindingsSound(s) ==
  /\ \A k \in Strings : storage[s].strings[k] # None =>
       storage[s].strings[k] # storage[s].fallback /\ binding[storage[s].strings[k]] # None
  /\ storage[s].fallback # None => storage[s].usingIndex /\ binding[storage[s].fallback] # None
  /\ \A j, k \in Strings :
       storage[s].strings[j] # None /\ storage[s].strings[j] = storage[s].strings[k] => j = k

WantSound(s) ==
  /\ \A k \in Keys : want[k] = Stored(s, k)
  /\ want["index"] = IF storage[s].fallback = None THEN None
                     ELSE [how |-> "fallback", of |-> storage[s].fallback]

(* The registration in use. *)
Serving(s) ==
  /\ storage[s] # None /\ ~ storage[s].cleared
  /\ storage[s].tables = registry /\ \A k \in Kinds : registry[k] # None
  /\ named.fields = NoFields
  /\ \A t \in TablesOf(s) : FastSound(s, t)
  /\ BindingsSound(s)
  /\ WantSound(s)

(* A metatable with default entries only. *)
Plain(t) == table[t].index = None /\ table[t].newIndex = None /\ table[t].fields = NoFields

NamedByKind == \A k \in Kinds : registry[k] # None => registry[k][1] = k

(* A storage that is out of use was cleared. *)
OthersCleared ==
  \A s \in Storages \ {gcTable} : storage[s] = None \/ storage[s] = [New EXCEPT !.cleared = TRUE]

(* The inductive invariant. *)
IInv ==
  /\ TypeOK
  /\ named.asks = gcTable
  /\ NamedByKind
  /\ OthersCleared
  /\ \A t \in Tables \ Current : Plain(t)
  /\ gcTable # None => Serving(gcTable)

--------------------------------------------------------------------------------
(* Constants *)

LEMMA NewTyped ==
  /\ New \in StorageType /\ [New EXCEPT !.cleared = TRUE] \in StorageType
  /\ [New EXCEPT !.cleared = TRUE].tables = [k \in Kinds |-> None]
  /\ [New EXCEPT !.cleared = TRUE].strings = [k \in Strings |-> None]
  /\ [New EXCEPT !.cleared = TRUE].fallback = None
BY DEF New, StorageType

LEMMA BlankTyped ==
  /\ Blank \in TableType /\ NoFields \in [Keys -> Answers \cup {None}]
  /\ Blank.index = None /\ Blank.newIndex = None /\ Blank.fields = NoFields
BY DEF Blank, NoFields, TableType

LEMMA LeastOf ==
  ASSUME NEW S, S \subseteq Nat, S # {}
  PROVE  \E x \in S : \A y \in S : x <= y
<1> DEFINE R == {ss \in Nat \X Nat : ss[1] < ss[2]}
<1>1. IsWellFoundedOn(R, Nat)
  BY NatLessThanWellFounded DEF OpToRel
<1> HIDE DEF R
<1>2. PICK x \in S : \A y \in S : ~ (<<y, x>> \in R)
  BY <1>1, WFMin
<1>3. ASSUME NEW y \in S PROVE x <= y
  <2>1. ~ (<<y, x>> \in R) /\ x \in Nat /\ y \in Nat
    BY <1>2
  <2> QED
    BY <2>1 DEF R
<1> QED
  BY <1>2, <1>3

(* luaL_newmetatable makes a table that nothing refers to. *)
LEMMA NewTableIsNew ==
  ASSUME NEW k \in Kinds, NewTables(k) # {}
  PROVE  NewTable(k) \in Tables /\ NewTable(k)[1] = k /\ NewTable(k) \notin Referred
<1> DEFINE S == {n \in 1 .. MaxTables : <<k, n>> \notin Referred}
<1>1. S \subseteq Nat /\ S # {}
  BY UsertypeAssumption DEF NewTables
<1> HIDE DEF S
<1>2. PICK x \in S : \A y \in S : x <= y
  BY <1>1, LeastOf
<1>3. <<k, x>> \in NewTables(k) /\ \A u \in NewTables(k) : <<k, x>>[2] <= u[2]
  BY <1>2 DEF S, NewTables
<1>4. NewTable(k) \in NewTables(k)
  BY <1>3 DEF NewTable
<1> QED
  BY <1>4 DEF NewTables, Tables

LEMMA AnswersTyped ==
  ASSUME NEW b \in Bindings
  PROVE  /\ CallOf(b) \in Answers /\ [how |-> "fallback", of |-> b] \in Answers
         /\ [how |-> "read", of |-> b] \in Answers
         /\ \A v \in Values : [how |-> "value", of |-> v] \in ValueFields
         /\ ValueFields \subseteq Answers
         /\ CallOf(b) # None
BY UsertypeAssumption DEF CallOf, ValueFields, Answers

--------------------------------------------------------------------------------
(* The registration in use *)

LEMMA CurrentTables ==
  ASSUME IInv, NEW s \in Storages, gcTable = s
  PROVE  /\ Serving(s) /\ Current = TablesOf(s) /\ storage[s] \in StorageType
         /\ TablesOf(s) \subseteq Tables /\ TablesOf(s) \subseteq Referred
         /\ \A k \in Kinds : registry[k] \in TablesOf(s)
         /\ \A t \in TablesOf(s) : t[1] \in Kinds /\ t = registry[t[1]]
<1>1. gcTable # None
  BY UsertypeAssumption
<1>2. Serving(s) /\ Current = TablesOf(s)
  BY <1>1 DEF IInv, Current
<1>3. storage[s] # None /\ storage[s].tables = registry /\ registry \in [Kinds -> Tables \cup {None}]
      /\ \A k \in Kinds : registry[k] # None /\ registry[k][1] = k
  BY <1>2 DEF Serving, IInv, TypeOK, NamedByKind
<1>4. TablesOf(s) = {registry[k] : k \in Kinds}
  BY <1>3 DEF TablesOf, Range
<1>5. storage[s] \in StorageType
  BY <1>3 DEF IInv, TypeOK
<1>6. TablesOf(s) \subseteq Referred
  BY DEF Referred
<1> QED
  BY <1>2, <1>3, <1>4, <1>5, <1>6

(* A table that asks a storage is one of the registration in use. *)
LEMMA AskingTables ==
  ASSUME IInv, NEW t \in Tables, ~ Plain(t)
  PROVE  /\ gcTable \in Storages /\ gcTable # None /\ t \in TablesOf(gcTable)
         /\ Serving(gcTable) /\ FastSound(gcTable, t)
<1>1. t \in Current
  BY DEF IInv
<1>2. gcTable # None /\ gcTable \in Storages /\ t \in TablesOf(gcTable)
  BY <1>1 DEF Current, IInv, TypeOK
<1> QED
  BY <1>2 DEF IInv, Serving

(* Of a storage in use nothing that is bound may be left out of what Lua asks. *)
LEMMA InUseNow ==
  ASSUME IInv, NEW s \in Storages, gcTable = s
  PROVE  s \in InUse
BY CurrentTables DEF InUse, Serving

--------------------------------------------------------------------------------
(* Binding *)

(* A step that binds something in the registration in use leaves everything  *)
(* else alone.                                                              *)
LEMMA ServingStep ==
  ASSUME IInv, NEW s \in Storages, gcTable = s, TypeOK',
         UNCHANGED <<gcTable, registry, named, object>>,
         \A r \in Storages \ {s} : storage'[r] = storage[r],
         storage'[s] \in StorageType,
         storage'[s].tables = storage[s].tables, storage'[s].cleared = storage[s].cleared,
         \A t \in Tables \ TablesOf(s) : table'[t] = table[t],
         \A t \in TablesOf(s) : FastSound(s, t)',
         BindingsSound(s)', WantSound(s)'
  PROVE  IInv'
<1>1. /\ Serving(s) /\ Current = TablesOf(s) /\ s # None
      /\ storage[s] # None /\ ~ storage[s].cleared
      /\ storage[s].tables = registry /\ \A k \in Kinds : registry[k] # None
      /\ named.fields = NoFields
  BY CurrentTables, UsertypeAssumption DEF Serving
<1>2. storage'[s] # None
  BY UsertypeAssumption
<1>3. TablesOf(s)' = TablesOf(s)
  BY <1>1, <1>2 DEF TablesOf
<1>4. Current' = TablesOf(s)
  BY <1>1, <1>3 DEF Current
<1>5. Serving(s)'
  BY <1>1, <1>2, <1>3 DEF Serving
<1>6. NamedByKind'
  BY DEF IInv, NamedByKind
<1>7. OthersCleared'
  BY DEF IInv, OthersCleared
<1>8. \A t \in Tables \ Current' : Plain(t)'
  BY <1>1, <1>4 DEF IInv, Plain
<1>9. named'.asks = gcTable'
  BY DEF IInv
<1> QED
  BY <1>5, <1>6, <1>7, <1>8, <1>9 DEF IInv

(* set leaves what the storage has under every other key as it was. *)
LEMMA StoredKept ==
  ASSUME NEW s \in Storages, NEW k \in Keys, k \in Strings <=> k \notin Others,
         storage[s] \in StorageType, storage'[s] \in StorageType,
         k \in Strings => /\ storage'[s].strings[k] = storage[s].strings[k]
                          /\ storage[s].strings[k] # None =>
                               binding'[storage[s].strings[k]] = binding[storage[s].strings[k]],
         k \in Others => storage'[s].others[k] = storage[s].others[k]
  PROVE  Stored(s, k)' = Stored(s, k)
BY DEF Stored

LEMMA FieldKept ==
  ASSUME NEW s \in Storages, NEW t \in Tables, NEW k \in Keys,
         table'[t].fields[k] = table[t].fields[k],
         storage[s].usingIndex => storage'[s].usingIndex,
         k \in Strings =>
           /\ storage'[s].strings[k] = storage[s].strings[k]
           /\ storage[s].strings[k] # None =>
                binding'[storage[s].strings[k]] = binding[storage[s].strings[k]],
         k \in Others => storage'[s].others[k] = storage[s].others[k]
  PROVE  /\ k \in Strings /\ StringSound(s, t, k) => StringSound(s, t, k)'
         /\ k \in Others /\ OtherSound(s, t, k) => OtherSound(s, t, k)'
<1>1. ASSUME k \in Strings, StringSound(s, t, k) PROVE StringSound(s, t, k)'
  BY <1>1 DEF StringSound
<1>2. ASSUME k \in Others, OtherSound(s, t, k) PROVE OtherSound(s, t, k)'
  BY <1>2 DEF OtherSound
<1> QED
  BY <1>1, <1>2

LEMMA KeysApart ==
  /\ \A k \in Keys : k \in Strings <=> k \notin Others
  /\ Strings \subseteq Keys /\ Others \subseteq Keys
  /\ \A k \in Keys : k # "index"
BY UsertypeAssumption DEF Keys

(* What set writes under a string key: a C++ variable and a Lua value only    *)
(* where lookups ask the storage.                                           *)
LEMMA SetStringSound ==
  ASSUME Corners = {}, IInv, NEW s \in Storages, gcTable = s,
         NEW k \in Strings, NEW b \in Bindings, NEW data \in {"function", "variable"} \cup Values,
         SetString(s, k, b, data)
  PROVE  IInv'
<1> DEFINE old == storage[s].strings[k]
           poison == Poisons(s, data)
           field == FieldOf(b, data)
<1>1. /\ FreshBinding(b)
      /\ binding' = [c \in Bindings |-> IF c = b THEN data ELSE IF c = old THEN None ELSE binding[c]]
      /\ storage' = [storage EXCEPT ![s].strings[k] = b, ![s].usingIndex = @ \/ poison]
      /\ table' = Bound(s, k, field, poison)
      /\ want' = [want EXCEPT ![k] = AnswerOf(b, data)]
      /\ UNCHANGED <<gcTable, registry, named, object>>
  BY DEF SetString
<1>2. /\ Serving(s) /\ storage[s] \in StorageType /\ TablesOf(s) \subseteq Tables
      /\ BindingsSound(s) /\ WantSound(s) /\ storage[s] # None
      /\ \A t \in TablesOf(s) : FastSound(s, t)
  BY CurrentTables DEF Serving
<1>3. TypeOK
  BY DEF IInv
<1>4. poison = (~ storage[s].usingIndex /\ data # "function")
  BY DEF Poisons
<1>5. field \in Answers /\ AnswerOf(b, data) \in Answers /\ b # None /\ data # None
      /\ (data = "function" => field = CallOf(b) /\ AnswerOf(b, data) = CallOf(b))
      /\ (data = "variable" => field = CallOf(b))
      /\ (data \in Values => field \in ValueFields)
  <2>1. b # None /\ data # None /\ "function" \notin Values /\ "variable" \notin Values
    BY UsertypeAssumption
  <2>2. CASE data \in Values
    <3>1. field = [how |-> "value", of |-> data] /\ AnswerOf(b, data) = [how |-> "value", of |-> data]
      BY <2>1, <2>2 DEF FieldOf, AnswerOf
    <3> QED
      BY <2>1, <2>2, <3>1, AnswersTyped
  <2>3. CASE data = "function"
    <3>1. field = CallOf(b) /\ AnswerOf(b, data) = CallOf(b)
      BY <2>1, <2>3 DEF FieldOf, AnswerOf, CallOf
    <3> QED
      BY <2>1, <2>3, <3>1, AnswersTyped
  <2>4. CASE data = "variable"
    <3>1. field = CallOf(b) /\ AnswerOf(b, data) = [how |-> "read", of |-> b]
      BY <2>1, <2>4 DEF FieldOf, AnswerOf, CallOf
    <3> QED
      BY <2>1, <2>4, <3>1, AnswersTyped
  <2> QED
    BY <2>2, <2>3, <2>4
<1> HIDE DEF poison, field
<1>6. /\ storage'[s] = [storage[s] EXCEPT !.strings = [@ EXCEPT ![k] = b], !.usingIndex = @ \/ poison]
      /\ \A r \in Storages \ {s} : storage'[r] = storage[r]
  BY <1>1, <1>3 DEF TypeOK
<1>7. /\ storage'[s] \in StorageType
      /\ storage'[s].strings = [storage[s].strings EXCEPT ![k] = b]
      /\ storage'[s].usingIndex = (storage[s].usingIndex \/ poison)
      /\ storage'[s].tables = storage[s].tables /\ storage'[s].cleared = storage[s].cleared
      /\ storage'[s].others = storage[s].others /\ storage'[s].fallback = storage[s].fallback
  <2>1. poison \in BOOLEAN
    BY <1>4
  <2>2. storage[s].strings \in [Strings -> Bindings \cup {None}] /\ storage[s].usingIndex \in BOOLEAN
    BY <1>2 DEF StorageType
  <2>3. [storage[s].strings EXCEPT ![k] = b] \in [Strings -> Bindings \cup {None}]
    BY <2>2
  <2> QED
    BY <1>2, <1>6, <2>1, <2>2, <2>3 DEF StorageType
<1>8. /\ storage'[s].strings[k] = b
      /\ \A j \in Strings \ {k} : storage'[s].strings[j] = storage[s].strings[j]
      /\ \A j \in Strings : storage[s].strings[j] \in Bindings \cup {None}
      /\ storage[s].fallback \in Bindings \cup {None}
  BY <1>2, <1>7 DEF StorageType
<1>9. /\ \A j \in Strings : storage[s].strings[j] # b
      /\ storage[s].fallback # b
  <2>1. b \notin Owned(s)
    BY <1>1 DEF FreshBinding
  <2>2. \A j \in Strings : storage[s].strings[j] \in Range(storage[s].strings)
    BY <1>2 DEF StorageType, Range
  <2> QED
    BY <1>2, <1>5, <2>1, <2>2 DEF Owned
<1>10. /\ binding'[b] = data
       /\ \A j \in Strings \ {k} : storage[s].strings[j] # None =>
            binding'[storage[s].strings[j]] = binding[storage[s].strings[j]]
       /\ storage[s].fallback # None => binding'[storage[s].fallback] = binding[storage[s].fallback]
  <2>1. \A c \in Bindings : c # b /\ c # old => binding'[c] = binding[c]
    BY <1>1
  <2>2. \A j \in Strings \ {k} : storage[s].strings[j] # None => storage[s].strings[j] # old
    BY <1>2 DEF BindingsSound
  <2>3. storage[s].fallback # None => storage[s].fallback # old
    BY <1>2 DEF BindingsSound
  <2> QED
    BY <1>1, <1>8, <1>9, <2>1, <2>2, <2>3
<1>11. \A t \in Tables \ TablesOf(s) : table'[t] = table[t]
  BY <1>1 DEF Bound
<1>12. ASSUME NEW t \in TablesOf(s)
       PROVE  /\ table'[t] \in TableType /\ table'[t].newIndex = table[t].newIndex
              /\ table'[t].gc = table[t].gc /\ table'[t].index = IF poison THEN s ELSE table[t].index
              /\ table'[t].fields[k] = field
              /\ \A j \in Keys \ {k} : table'[t].fields[j] = table[t].fields[j]
  <2>1. table[t] \in TableType /\ t \in Tables
    BY <1>2, <1>3 DEF TypeOK
  <2>2. table'[t] = [table[t] EXCEPT !.index = IF poison THEN s ELSE table[t].index,
                                     !.fields = [table[t].fields EXCEPT ![k] = field]]
    BY <1>1, <2>1 DEF Bound, IndexAfter
  <2>3. table[t].fields \in [Keys -> Answers \cup {None}] /\ k \in Keys
    BY <2>1 DEF TableType, Keys
  <2>4. [table[t].fields EXCEPT ![k] = field] \in [Keys -> Answers \cup {None}]
    BY <1>5, <2>3
  <2>5. (IF poison THEN s ELSE table[t].index) \in Storages \cup {Self, None}
    BY <2>1 DEF TableType
  <2>6. /\ table'[t] \in TableType /\ table'[t].newIndex = table[t].newIndex
        /\ table'[t].gc = table[t].gc /\ table'[t].index = IF poison THEN s ELSE table[t].index
        /\ table'[t].fields = [table[t].fields EXCEPT ![k] = field]
    BY <2>1, <2>2, <2>4, <2>5 DEF TableType
  <2> QED
    BY <2>3, <2>6
<1>13. TypeOK'
  <2>1. storage' \in [Storages -> StorageType \cup {None}]
    BY <1>1, <1>3, <1>6, <1>7 DEF TypeOK
  <2>2. binding' \in [Bindings -> {"function", "variable", None} \cup Values]
    BY <1>1, <1>3 DEF TypeOK
  <2>3. table' \in [Tables -> TableType]
    <3>1. \A t \in Tables : table'[t] \in TableType
      BY <1>3, <1>11, <1>12 DEF TypeOK
    <3>2. DOMAIN table' = Tables /\ table' = [t \in Tables |-> table'[t]]
      BY <1>1 DEF Bound
    <3> QED
      BY <3>1, <3>2
  <2>4. want' \in [Keys \cup {"index"} -> Answers \cup {None}]
    BY <1>1, <1>3, <1>5 DEF TypeOK
  <2> QED
    BY <1>1, <1>3, <2>1, <2>2, <2>3, <2>4 DEF TypeOK
<1>14. ASSUME NEW t \in TablesOf(s) PROVE FastSound(s, t)'
  <2>1. FastSound(s, t) /\ t \in Tables
    BY <1>2
  <2>2. /\ table'[t].newIndex = s /\ table'[t].gc = (t[1] \in Owning)
        /\ table'[t].index = IF storage'[s].usingIndex THEN s ELSE Self
    BY <1>4, <1>7, <1>12, <2>1 DEF FastSound
  <2>3. ASSUME NEW j \in Strings, j # k PROVE StringSound(s, t, j)'
    <3>1. StringSound(s, t, j)
      BY <2>1 DEF FastSound
    <3>2. j \in Keys /\ (j \in Strings) /\ j \notin Others
      BY KeysApart
    <3>3. table'[t].fields[j] = table[t].fields[j]
      BY <1>12, <2>3, <3>2
    <3> QED
      BY <1>7, <1>8, <1>10, <2>1, <2>3, <3>1, <3>2, <3>3, FieldKept
  <2>4. StringSound(s, t, k)'
    <3>1. table'[t].fields[k] = field
      BY <1>12
    <3>2. data # "function" => storage'[s].usingIndex
      BY <1>4, <1>7
    <3>3. data = "function" \/ data = "variable" \/ data \in Values
      OBVIOUS
    <3> QED
      BY <1>5, <1>8, <1>10, <3>1, <3>2, <3>3 DEF StringSound
  <2>5. ASSUME NEW j \in Others PROVE OtherSound(s, t, j)'
    <3>1. OtherSound(s, t, j)
      BY <2>1 DEF FastSound
    <3>2. j \in Keys /\ j \notin Strings /\ j # k
      BY KeysApart
    <3>3. table'[t].fields[j] = table[t].fields[j]
      BY <1>12, <3>2
    <3> QED
      BY <1>7, <2>1, <3>1, <3>2, <3>3, FieldKept
  <2> QED
    BY <2>2, <2>3, <2>4, <2>5 DEF FastSound
<1>15. BindingsSound(s)'
  <2>1. ASSUME NEW j \in Strings, storage'[s].strings[j] # None
        PROVE  storage'[s].strings[j] # storage'[s].fallback /\ binding'[storage'[s].strings[j]] # None
    <3>1. CASE j = k
      BY <1>5, <1>7, <1>8, <1>9, <1>10, <3>1
    <3>2. CASE j # k
      BY <1>2, <1>7, <1>8, <1>10, <2>1, <3>2 DEF BindingsSound
    <3> QED
      BY <3>1, <3>2
  <2>2. storage'[s].fallback # None => storage'[s].usingIndex /\ binding'[storage'[s].fallback] # None
    BY <1>2, <1>7, <1>10 DEF BindingsSound
  <2>3. ASSUME NEW i \in Strings, NEW j \in Strings,
               storage'[s].strings[i] # None, storage'[s].strings[i] = storage'[s].strings[j]
        PROVE  i = j
    BY <1>2, <1>8, <1>9, <2>3 DEF BindingsSound
  <2> QED
    BY <2>1, <2>2, <2>3 DEF BindingsSound
<1>16. WantSound(s)'
  <2>1. want'[k] = AnswerOf(b, data) /\ \A j \in (Keys \cup {"index"}) \ {k} : want'[j] = want[j]
    BY <1>1, <1>3, KeysApart DEF TypeOK
  <2>2. Stored(s, k)' = AnswerOf(b, data)
    BY <1>5, <1>8, <1>10, KeysApart DEF Stored
  <2>3. ASSUME NEW j \in Keys, j # k PROVE want'[j] = Stored(s, j)'
    <3>1. Stored(s, j)' = Stored(s, j)
      <4>1. j \in Strings <=> j \notin Others
        BY KeysApart
      <4>2. /\ j \in Strings => /\ storage'[s].strings[j] = storage[s].strings[j]
                                /\ storage[s].strings[j] # None =>
                                     binding'[storage[s].strings[j]] = binding[storage[s].strings[j]]
            /\ j \in Others => storage'[s].others[j] = storage[s].others[j]
        BY <1>7, <1>8, <1>10, <2>3
      <4>3. storage[s] \in StorageType /\ storage'[s] \in StorageType
        BY <1>2, <1>7
      <4> QED
        BY <4>1, <4>2, <4>3, StoredKept
    <3> QED
      BY <1>2, <2>1, <2>3, <3>1 DEF WantSound
  <2>4. want'["index"] = want["index"]
    BY <2>1, KeysApart
  <2> QED
    BY <1>2, <1>7, <2>1, <2>2, <2>3, <2>4 DEF WantSound
<1> QED
  BY <1>1, <1>6, <1>7, <1>11, <1>13, <1>14, <1>15, <1>16, ServingStep

(* What set keeps aside for __index: it makes lookups ask the storage. *)
LEMMA SetIndexSound ==
  ASSUME Corners = {}, IInv, NEW s \in Storages, gcTable = s, NEW b \in Bindings, SetIndex(s, b)
  PROVE  IInv'
<1> DEFINE old == storage[s].fallback
<1>1. /\ FreshBinding(b)
      /\ binding' = [c \in Bindings |-> IF c = b THEN "function" ELSE IF c = old THEN None ELSE binding[c]]
      /\ storage' = [storage EXCEPT ![s].fallback = b, ![s].usingIndex = TRUE]
      /\ table' = [t \in Tables |-> IF t \in TablesOf(s)
                     THEN [table[t] EXCEPT !.index = IndexAfter(s, ~ storage[s].usingIndex, t)] ELSE table[t]]
      /\ want' = [want EXCEPT !["index"] = [how |-> "fallback", of |-> b]]
      /\ UNCHANGED <<gcTable, registry, named, object>>
  BY DEF SetIndex
<1>2. /\ Serving(s) /\ storage[s] \in StorageType /\ TablesOf(s) \subseteq Tables
      /\ BindingsSound(s) /\ WantSound(s) /\ storage[s] # None
      /\ \A t \in TablesOf(s) : FastSound(s, t)
  BY CurrentTables DEF Serving
<1>3. TypeOK /\ b # None /\ [how |-> "fallback", of |-> b] \in Answers /\ "function" # None
  BY UsertypeAssumption DEF IInv, Answers
<1>4. /\ storage'[s] = [storage[s] EXCEPT !.fallback = b, !.usingIndex = TRUE]
      /\ \A r \in Storages \ {s} : storage'[r] = storage[r]
  BY <1>1, <1>3 DEF TypeOK
<1>5. /\ storage'[s] \in StorageType
      /\ storage'[s].strings = storage[s].strings /\ storage'[s].others = storage[s].others
      /\ storage'[s].tables = storage[s].tables /\ storage'[s].cleared = storage[s].cleared
      /\ storage'[s].fallback = b /\ storage'[s].usingIndex = TRUE
  BY <1>2, <1>4 DEF StorageType
<1>6. \A j \in Strings : storage[s].strings[j] \in Bindings \cup {None} /\ storage[s].strings[j] # b
  <2>1. b \notin Owned(s)
    BY <1>1 DEF FreshBinding
  <2>2. \A j \in Strings : storage[s].strings[j] \in Range(storage[s].strings) /\ storage[s].strings[j] \in Bindings \cup {None}
    BY <1>2 DEF StorageType, Range
  <2> QED
    BY <1>2, <1>3, <2>1, <2>2 DEF Owned
<1>7. /\ binding'[b] = "function"
      /\ \A j \in Strings : storage[s].strings[j] # None =>
           binding'[storage[s].strings[j]] = binding[storage[s].strings[j]]
  <2>1. \A c \in Bindings : c # b /\ c # old => binding'[c] = binding[c]
    BY <1>1
  <2>2. \A j \in Strings : storage[s].strings[j] # None => storage[s].strings[j] # old
    BY <1>2 DEF BindingsSound
  <2> QED
    BY <1>1, <1>6, <2>1, <2>2
<1>8. \A t \in Tables \ TablesOf(s) : table'[t] = table[t]
  BY <1>1
<1>9. ASSUME NEW t \in TablesOf(s)
      PROVE  /\ table'[t] \in TableType /\ table'[t].newIndex = table[t].newIndex
             /\ table'[t].gc = table[t].gc /\ table'[t].index = s
             /\ table'[t].fields = table[t].fields
  <2>1. table[t] \in TableType /\ t \in Tables /\ FastSound(s, t)
    BY <1>2, <1>3 DEF TypeOK
  <2>2. table'[t] = [table[t] EXCEPT !.index = IndexAfter(s, ~ storage[s].usingIndex, t)]
    BY <1>1, <2>1
  <2>3. IndexAfter(s, ~ storage[s].usingIndex, t) = s
    BY <2>1 DEF IndexAfter, FastSound
  <2> QED
    BY <2>1, <2>2, <2>3 DEF TableType
<1>10. TypeOK'
  <2>1. storage' \in [Storages -> StorageType \cup {None}]
    BY <1>1, <1>3, <1>4, <1>5 DEF TypeOK
  <2>2. binding' \in [Bindings -> {"function", "variable", None} \cup Values]
    BY <1>1, <1>3 DEF TypeOK
  <2>3. table' \in [Tables -> TableType]
    <3>1. \A t \in Tables : table'[t] \in TableType
      BY <1>3, <1>8, <1>9 DEF TypeOK
    <3>2. DOMAIN table' = Tables /\ table' = [t \in Tables |-> table'[t]]
      BY <1>1
    <3> QED
      BY <3>1, <3>2
  <2>4. want' \in [Keys \cup {"index"} -> Answers \cup {None}]
    BY <1>1, <1>3 DEF TypeOK
  <2> QED
    BY <1>1, <1>3, <2>1, <2>2, <2>3, <2>4 DEF TypeOK
<1>11. ASSUME NEW t \in TablesOf(s) PROVE FastSound(s, t)'
  <2>1. FastSound(s, t) /\ t \in Tables
    BY <1>2
  <2>2. ASSUME NEW j \in Strings PROVE StringSound(s, t, j)'
    <3>1. StringSound(s, t, j)
      BY <2>1 DEF FastSound
    <3>2. j \in Keys /\ j \notin Others
      BY KeysApart
    <3> QED
      BY <1>5, <1>7, <1>9, <2>1, <3>1, <3>2, FieldKept
  <2>3. ASSUME NEW j \in Others PROVE OtherSound(s, t, j)'
    <3>1. OtherSound(s, t, j)
      BY <2>1 DEF FastSound
    <3>2. j \in Keys /\ j \notin Strings
      BY KeysApart
    <3> QED
      BY <1>5, <1>9, <2>1, <3>1, <3>2, FieldKept
  <2> QED
    BY <1>5, <1>9, <2>1, <2>2, <2>3 DEF FastSound
<1>12. BindingsSound(s)'
  BY <1>2, <1>3, <1>5, <1>6, <1>7 DEF BindingsSound
<1>13. WantSound(s)'
  <2>1. want'["index"] = [how |-> "fallback", of |-> b] /\ \A j \in Keys : want'[j] = want[j]
    BY <1>1, <1>3, KeysApart DEF TypeOK
  <2>2. ASSUME NEW j \in Keys PROVE Stored(s, j)' = Stored(s, j)
    <3>1. j \in Strings <=> j \notin Others
      BY KeysApart
    <3> QED
      BY <1>2, <1>5, <1>7, <3>1, StoredKept
  <2> QED
    BY <1>2, <1>3, <1>5, <2>1, <2>2 DEF WantSound
<1> QED
  BY <1>1, <1>4, <1>5, <1>8, <1>10, <1>11, <1>12, <1>13, ServingStep

(* auxiliary_keys and the fast tables get the value both. *)
LEMMA SetOtherSound ==
  ASSUME Corners = {}, IInv, NEW s \in Storages, gcTable = s,
         NEW k \in Others, NEW v \in Values, SetOther(s, k, v)
  PROVE  IInv'
<1> DEFINE field == [how |-> "value", of |-> v]
<1>1. /\ storage' = [storage EXCEPT ![s].others[k] = v]
      /\ table' = Bound(s, k, field, FALSE)
      /\ want' = [want EXCEPT ![k] = field]
      /\ UNCHANGED <<gcTable, registry, named, binding, object>>
  BY DEF SetOther
<1>2. /\ Serving(s) /\ storage[s] \in StorageType /\ TablesOf(s) \subseteq Tables
      /\ BindingsSound(s) /\ WantSound(s) /\ storage[s] # None
      /\ \A t \in TablesOf(s) : FastSound(s, t)
  BY CurrentTables DEF Serving
<1>3. TypeOK /\ v # None /\ field \in Answers
  BY UsertypeAssumption DEF IInv, Answers
<1> HIDE DEF field
<1>4. /\ storage'[s] = [storage[s] EXCEPT !.others = [@ EXCEPT ![k] = v]]
      /\ \A r \in Storages \ {s} : storage'[r] = storage[r]
  BY <1>1, <1>3 DEF TypeOK
<1>5. /\ storage'[s] \in StorageType
      /\ storage'[s].strings = storage[s].strings
      /\ storage'[s].others = [storage[s].others EXCEPT ![k] = v]
      /\ storage'[s].tables = storage[s].tables /\ storage'[s].cleared = storage[s].cleared
      /\ storage'[s].fallback = storage[s].fallback /\ storage'[s].usingIndex = storage[s].usingIndex
  <2>1. storage[s].others \in [Others -> Values \cup {None}]
    BY <1>2 DEF StorageType
  <2>2. [storage[s].others EXCEPT ![k] = v] \in [Others -> Values \cup {None}]
    BY <2>1
  <2> QED
    BY <1>2, <1>4, <2>2 DEF StorageType
<1>6. storage'[s].others[k] = v /\ \A j \in Others \ {k} : storage'[s].others[j] = storage[s].others[j]
  BY <1>2, <1>5 DEF StorageType
<1>7. \A t \in Tables \ TablesOf(s) : table'[t] = table[t]
  BY <1>1 DEF Bound
<1>8. ASSUME NEW t \in TablesOf(s)
      PROVE  /\ table'[t] \in TableType /\ table'[t].newIndex = table[t].newIndex
             /\ table'[t].gc = table[t].gc /\ table'[t].index = table[t].index
             /\ table'[t].fields[k] = field
             /\ \A j \in Keys \ {k} : table'[t].fields[j] = table[t].fields[j]
  <2>1. table[t] \in TableType /\ t \in Tables
    BY <1>2, <1>3 DEF TypeOK
  <2>2. table'[t] = [table[t] EXCEPT !.index = table[t].index,
                                     !.fields = [table[t].fields EXCEPT ![k] = field]]
    BY <1>1, <2>1 DEF Bound, IndexAfter
  <2>3. table[t].fields \in [Keys -> Answers \cup {None}] /\ k \in Keys
    BY <2>1 DEF TableType, Keys
  <2>4. [table[t].fields EXCEPT ![k] = field] \in [Keys -> Answers \cup {None}]
    BY <1>3, <2>3
  <2>5. /\ table'[t] \in TableType /\ table'[t].newIndex = table[t].newIndex
        /\ table'[t].gc = table[t].gc /\ table'[t].index = table[t].index
        /\ table'[t].fields = [table[t].fields EXCEPT ![k] = field]
    BY <2>1, <2>2, <2>4 DEF TableType
  <2> QED
    BY <2>3, <2>5
<1>9. TypeOK'
  <2>1. storage' \in [Storages -> StorageType \cup {None}]
    BY <1>1, <1>3, <1>4, <1>5 DEF TypeOK
  <2>2. table' \in [Tables -> TableType]
    <3>1. \A t \in Tables : table'[t] \in TableType
      BY <1>3, <1>7, <1>8 DEF TypeOK
    <3>2. DOMAIN table' = Tables /\ table' = [t \in Tables |-> table'[t]]
      BY <1>1 DEF Bound
    <3> QED
      BY <3>1, <3>2
  <2>3. want' \in [Keys \cup {"index"} -> Answers \cup {None}]
    BY <1>1, <1>3 DEF TypeOK
  <2> QED
    BY <1>1, <1>3, <2>1, <2>2, <2>3 DEF TypeOK
<1>10. ASSUME NEW t \in TablesOf(s) PROVE FastSound(s, t)'
  <2>1. FastSound(s, t) /\ t \in Tables
    BY <1>2
  <2>2. ASSUME NEW j \in Strings PROVE StringSound(s, t, j)'
    <3>1. StringSound(s, t, j)
      BY <2>1 DEF FastSound
    <3>2. j \in Keys /\ j \notin Others /\ j # k
      BY KeysApart
    <3>3. table'[t].fields[j] = table[t].fields[j]
      BY <1>8, <3>2
    <3> QED
      BY <1>1, <1>5, <2>1, <3>1, <3>2, <3>3, FieldKept
  <2>3. ASSUME NEW j \in Others, j # k PROVE OtherSound(s, t, j)'
    <3>1. OtherSound(s, t, j)
      BY <2>1 DEF FastSound
    <3>2. j \in Keys /\ j \notin Strings
      BY KeysApart
    <3>3. table'[t].fields[j] = table[t].fields[j]
      BY <1>8, <2>3, <3>2
    <3> QED
      BY <1>5, <1>6, <2>1, <2>3, <3>1, <3>2, <3>3, FieldKept
  <2>4. OtherSound(s, t, k)'
    BY <1>3, <1>6, <1>8 DEF OtherSound, field
  <2> QED
    BY <1>5, <1>8, <2>1, <2>2, <2>3, <2>4 DEF FastSound
<1>11. BindingsSound(s)'
  BY <1>1, <1>2, <1>5 DEF BindingsSound
<1>12. WantSound(s)'
  <2>1. want'[k] = field /\ \A j \in (Keys \cup {"index"}) \ {k} : want'[j] = want[j]
    BY <1>1, <1>3, KeysApart DEF TypeOK
  <2>2. Stored(s, k)' = field
    BY <1>3, <1>6 DEF Stored, field
  <2>3. ASSUME NEW j \in Keys, j # k PROVE Stored(s, j)' = Stored(s, j)
    <3>1. j \in Strings <=> j \notin Others
      BY KeysApart
    <3>2. /\ j \in Strings => /\ storage'[s].strings[j] = storage[s].strings[j]
                              /\ storage[s].strings[j] # None =>
                                   binding'[storage[s].strings[j]] = binding[storage[s].strings[j]]
          /\ j \in Others => storage'[s].others[j] = storage[s].others[j]
      BY <1>1, <1>5, <1>6, <2>3
    <3> QED
      BY <1>2, <1>5, <3>1, <3>2, StoredKept
  <2>4. want'["index"] = want["index"]
    BY <2>1, KeysApart
  <2> QED
    BY <1>2, <1>5, <2>1, <2>2, <2>3, <2>4 DEF WantSound
<1> QED
  BY <1>1, <1>4, <1>5, <1>7, <1>9, <1>10, <1>11, <1>12, ServingStep

(* An object replaces a value where lookups look: the storage is asked about *)
(* every Lua value under a string key, and in a program without corners      *)
(* about the other keys as well.                                            *)
LEMMA AssignSound ==
  ASSUME Corners = {}, IInv, NEW o \in Objects, NEW k \in Keys, NEW v \in Values, Assign(o, k, v)
  PROVE  IInv'
<1> DEFINE field == [how |-> "value", of |-> v]
<1>1. TypeOK /\ v # None /\ field \in Answers /\ v \notin {"function", "variable"}
  BY UsertypeAssumption DEF IInv, Answers
<1>2. object[o] # None /\ object[o].meta \in Tables /\ table[object[o].meta].newIndex # None
  BY <1>1 DEF Assign, TypeOK, ObjectType
<1>3. ~ Plain(object[o].meta)
  BY <1>2 DEF Plain
<1>4. PICK s \in Storages : gcTable = s /\ table[object[o].meta].newIndex = s
  BY <1>2, <1>3, AskingTables DEF FastSound
<1>5. /\ Serving(s) /\ storage[s] \in StorageType /\ TablesOf(s) \subseteq Tables
      /\ BindingsSound(s) /\ WantSound(s) /\ storage[s] # None
      /\ \A t \in TablesOf(s) : FastSound(s, t)
  BY <1>4, CurrentTables DEF Serving
<1>6. want' = [want EXCEPT ![k] = field] /\ UNCHANGED <<gcTable, registry, table, named, object>>
  BY DEF Assign
<1>7. want'[k] = field /\ \A j \in (Keys \cup {"index"}) \ {k} : want'[j] = want[j]
  BY <1>1, <1>6, KeysApart DEF TypeOK
<1>8. want' \in [Keys \cup {"index"} -> Answers \cup {None}]
  BY <1>1, <1>6 DEF TypeOK
<1>9. CASE /\ k \in Strings /\ storage[s].strings[k] # None /\ binding[storage[s].strings[k]] \in Values
           /\ binding' = [binding EXCEPT ![storage[s].strings[k]] = v]
           /\ UNCHANGED storage
  <2>1. PICK b \in Bindings : b = storage[s].strings[k]
    BY <1>5, <1>9 DEF StorageType
  <2>2. binding' = [binding EXCEPT ![b] = v] /\ binding[b] \in Values /\ b # None
    BY <1>9, <2>1
  <2>3. binding'[b] = v /\ \A c \in Bindings \ {b} : binding'[c] = binding[c]
    BY <1>1, <2>2 DEF TypeOK
  <2>4. \A j \in Strings : storage[s].strings[j] \in Bindings \cup {None}
        /\ (j # k => storage[s].strings[j] # b)
    <3>1. \A j \in Strings : storage[s].strings[j] \in Bindings \cup {None}
      BY <1>5 DEF StorageType
    <3>2. \A j \in Strings : j # k => storage[s].strings[j] # b
      BY <1>5, <1>9, <2>1, <2>2 DEF BindingsSound
    <3> QED
      BY <3>1, <3>2
  <2>5. TypeOK'
    BY <1>1, <1>6, <1>8, <1>9, <2>2 DEF TypeOK
  <2>6. ASSUME NEW t \in TablesOf(s) PROVE FastSound(s, t)'
    <3>1. FastSound(s, t) /\ t \in Tables
      BY <1>5
    <3>2. ASSUME NEW j \in Strings, j # k PROVE StringSound(s, t, j)'
      <4>1. StringSound(s, t, j)
        BY <3>1 DEF FastSound
      <4>2. storage[s].strings[j] # None => binding'[storage[s].strings[j]] = binding[storage[s].strings[j]]
        BY <2>3, <2>4, <3>2
      <4> QED
        BY <1>6, <1>9, <4>1, <4>2 DEF StringSound
    <3>3. StringSound(s, t, k)'
      <4>1. StringSound(s, t, k)
        BY <1>9, <3>1 DEF FastSound
      <4>2. storage[s].usingIndex /\ table[t].fields[k] \in ValueFields
        BY <2>1, <2>2, <4>1, UsertypeAssumption DEF StringSound
      <4> QED
        BY <1>6, <1>9, <2>1, <2>2, <2>3, <4>2 DEF StringSound
    <3>4. \A j \in Others : OtherSound(s, t, j)'
      BY <1>6, <1>9, <3>1 DEF FastSound, OtherSound
    <3> QED
      BY <1>6, <1>9, <3>1, <3>2, <3>3, <3>4 DEF FastSound
  <2>7. BindingsSound(s)'
    <3>1. storage[s].fallback # None => storage[s].fallback \in Bindings \ {b}
      BY <1>5, <1>9, <2>1 DEF StorageType, BindingsSound
    <3>2. storage[s].fallback # None => binding'[storage[s].fallback] # None
      BY <1>5, <2>3, <3>1 DEF BindingsSound
    <3>3. \A j \in Strings : storage[s].strings[j] # None => binding'[storage[s].strings[j]] # None
      BY <1>1, <1>5, <2>1, <2>3, <2>4 DEF BindingsSound
    <3> QED
      BY <1>5, <1>9, <3>2, <3>3 DEF BindingsSound
  <2>8. WantSound(s)'
    <3>1. Stored(s, k)' = field
      BY <1>1, <1>9, <2>1, <2>2, <2>3, KeysApart DEF Stored, AnswerOf
    <3>2. ASSUME NEW j \in Keys, j # k PROVE Stored(s, j)' = Stored(s, j)
      <4>1. j \in Strings <=> j \notin Others
        BY KeysApart
      <4>2. j \in Strings /\ storage[s].strings[j] # None =>
              binding'[storage[s].strings[j]] = binding[storage[s].strings[j]]
        BY <2>3, <2>4, <3>2
      <4> QED
        BY <1>5, <1>9, <4>1, <4>2, StoredKept
    <3>3. want'["index"] = want["index"]
      BY <1>7, KeysApart
    <3> QED
      BY <1>5, <1>7, <1>9, <3>1, <3>2, <3>3 DEF WantSound
  <2> QED
    BY <1>4, <1>5, <1>6, <1>9, <2>5, <2>6, <2>7, <2>8, ServingStep
<1>10. CASE /\ k \in Others /\ storage[s].others[k] # None /\ storage[s].usingIndex
            /\ storage' = [storage EXCEPT ![s].others[k] = v]
            /\ UNCHANGED binding
  <2>1. /\ storage'[s] = [storage[s] EXCEPT !.others = [@ EXCEPT ![k] = v]]
        /\ \A r \in Storages \ {s} : storage'[r] = storage[r]
    BY <1>1, <1>10 DEF TypeOK
  <2>2. /\ storage'[s] \in StorageType
        /\ storage'[s].strings = storage[s].strings
        /\ storage'[s].others = [storage[s].others EXCEPT ![k] = v]
        /\ storage'[s].tables = storage[s].tables /\ storage'[s].cleared = storage[s].cleared
        /\ storage'[s].fallback = storage[s].fallback /\ storage'[s].usingIndex = storage[s].usingIndex
    <3>1. storage[s].others \in [Others -> Values \cup {None}]
      BY <1>5 DEF StorageType
    <3>2. [storage[s].others EXCEPT ![k] = v] \in [Others -> Values \cup {None}]
      BY <1>10, <3>1
    <3> QED
      BY <1>5, <2>1, <3>2 DEF StorageType
  <2>3. storage'[s].others[k] = v /\ \A j \in Others \ {k} : storage'[s].others[j] = storage[s].others[j]
    BY <1>5, <1>10, <2>2 DEF StorageType
  <2>4. TypeOK'
    <3>1. storage' \in [Storages -> StorageType \cup {None}]
      BY <1>1, <1>10, <2>1, <2>2 DEF TypeOK
    <3> QED
      BY <1>1, <1>6, <1>8, <1>10, <3>1 DEF TypeOK
  <2>5. ASSUME NEW t \in TablesOf(s) PROVE FastSound(s, t)'
    <3>1. FastSound(s, t) /\ t \in Tables
      BY <1>5
    <3>2. \A j \in Strings : StringSound(s, t, j)'
      BY <1>6, <1>10, <2>2, <3>1 DEF FastSound, StringSound
    <3>3. ASSUME NEW j \in Others, j # k PROVE OtherSound(s, t, j)'
      <4>1. OtherSound(s, t, j)
        BY <3>1 DEF FastSound
      <4> QED
        BY <1>6, <2>2, <2>3, <3>3, <4>1 DEF OtherSound
    <3>4. OtherSound(s, t, k)'
      <4>1. OtherSound(s, t, k)
        BY <1>10, <3>1 DEF FastSound
      <4>2. table[t].fields[k] \in ValueFields
        <5>1. storage[s].others[k] \in Values
          BY <1>5, <1>10 DEF StorageType
        <5>2. [how |-> "value", of |-> storage[s].others[k]] \in ValueFields
          BY <5>1 DEF ValueFields
        <5> QED
          BY <1>10, <4>1, <5>2 DEF OtherSound
      <4> QED
        BY <1>1, <1>6, <1>10, <2>2, <2>3, <4>2 DEF OtherSound
    <3> QED
      BY <1>6, <2>2, <3>1, <3>2, <3>3, <3>4 DEF FastSound
  <2>6. BindingsSound(s)'
    BY <1>5, <1>10, <2>2 DEF BindingsSound
  <2>7. WantSound(s)'
    <3>1. Stored(s, k)' = field
      BY <1>1, <1>10, <2>3 DEF Stored
    <3>2. ASSUME NEW j \in Keys, j # k PROVE Stored(s, j)' = Stored(s, j)
      <4>1. j \in Strings <=> j \notin Others
        BY KeysApart
      <4>2. j \in Others => storage'[s].others[j] = storage[s].others[j]
        BY <2>3, <3>2
      <4> QED
        BY <1>5, <1>10, <2>2, <4>1, <4>2, StoredKept
    <3>3. want'["index"] = want["index"]
      BY <1>7, KeysApart
    <3> QED
      BY <1>5, <1>7, <2>2, <3>1, <3>2, <3>3 DEF WantSound
  <2> QED
    BY <1>4, <1>5, <1>6, <2>1, <2>2, <2>4, <2>5, <2>6, <2>7, ServingStep
<1> QED
  BY <1>4, <1>9, <1>10 DEF Assign

--------------------------------------------------------------------------------
(* Between registrations *)

(* A step after which no registration is in use leaves plain tables. *)
LEMMA IdleStep ==
  ASSUME TypeOK', gcTable' = None, named'.asks = None, NamedByKind', OthersCleared',
         \A t \in Tables : Plain(t)'
  PROVE  IInv'
BY DEF IInv

LEMMA RemainingTyped ==
  ASSUME NEW tables \in [Tables -> TableType], table' = Remaining(tables)
  PROVE  /\ table' \in [Tables -> TableType]
         /\ \A t \in Referred' : t \in Tables => table'[t] = tables[t]
         /\ \A t \in Tables : table'[t] = tables[t] \/ table'[t] = Blank
BY BlankTyped DEF Remaining

(* What is collected meanwhile was of no use to the registration in use. *)
LEMMA CollectStep ==
  ASSUME IInv, UNCHANGED <<gcTable, registry, named, storage, binding, want>>,
         object' \in [Objects -> ObjectType \cup {None}], table' \in [Tables -> TableType],
         \A t \in Current : table'[t] = table[t],
         \A t \in Tables : table'[t] = table[t] \/ table'[t] = Blank
  PROVE  IInv'
<1>1. TypeOK'
  BY DEF IInv, TypeOK
<1>2. Current' = Current
  BY DEF Current, TablesOf
<1>3. \A t \in Tables \ Current' : Plain(t)'
  BY <1>2, BlankTyped DEF IInv, Plain
<1>4. ASSUME gcTable' # None PROVE Serving(gcTable)'
  <2>1. PICK s \in Storages : s = gcTable
    BY <1>4 DEF IInv, TypeOK
  <2>2. Serving(s) /\ Current = TablesOf(s) /\ TablesOf(s) \subseteq Tables
    BY <2>1, CurrentTables
  <2>3. TablesOf(s)' = TablesOf(s)
    BY DEF TablesOf
  <2>4. \A t \in TablesOf(s) : FastSound(s, t)'
    BY <2>2 DEF Serving, FastSound, StringSound, OtherSound
  <2>5. BindingsSound(s)' /\ WantSound(s)'
    BY <2>2 DEF Serving, BindingsSound, WantSound, Stored
  <2>6. Serving(s)'
    BY <2>2, <2>3, <2>4, <2>5 DEF Serving
  <2> QED
    BY <2>1, <2>6
<1>5. NamedByKind' /\ OthersCleared'
  BY DEF IInv, NamedByKind, OthersCleared
<1>6. named'.asks = gcTable'
  BY DEF IInv
<1> QED
  BY <1>1, <1>3, <1>4, <1>5, <1>6 DEF IInv

LEMMA CollectObjectSound ==
  ASSUME IInv, NEW o \in Objects, CollectObject(o)
  PROVE  IInv'
<1>1. /\ object' = [object EXCEPT ![o] = None] /\ table' = Remaining(table)
      /\ UNCHANGED <<gcTable, registry, named, storage, binding, want>>
  BY DEF CollectObject
<1>2. TypeOK
  BY DEF IInv
<1>3. object' \in [Objects -> ObjectType \cup {None}] /\ table \in [Tables -> TableType]
  BY <1>1, <1>2 DEF TypeOK
<1>4. /\ table' \in [Tables -> TableType]
      /\ \A t \in Referred' : t \in Tables => table'[t] = table[t]
      /\ \A t \in Tables : table'[t] = table[t] \/ table'[t] = Blank
  BY <1>1, <1>3, RemainingTyped
<1>5. ASSUME NEW t \in Current PROVE t \in Referred' /\ t \in Tables
  <2>1. gcTable # None /\ t \in TablesOf(gcTable)
    BY DEF Current
  <2>2. gcTable \in Storages
    BY <1>2, <2>1 DEF TypeOK
  <2>3. t \in TablesOf(gcTable)'
    BY <1>1, <2>1 DEF TablesOf
  <2>4. t \in Referred'
    BY <1>1, <2>2, <2>3 DEF Referred
  <2>5. t \in Tables
    BY <2>1, <2>2, CurrentTables
  <2> QED
    BY <2>4, <2>5
<1> QED
  BY <1>1, <1>3, <1>4, <1>5, CollectStep

(* While a class is registered, an object finds the metatable of its kind. *)
LEMMA PushSound ==
  ASSUME IInv, NEW o \in Objects, NEW k \in Kinds, Push(o, k)
  PROVE  IInv'
<1>1. TypeOK /\ NamedByKind /\ OthersCleared
  BY DEF IInv
<1>2. CASE /\ registry[k] # None
           /\ object' = [object EXCEPT ![o] = [kind |-> k, meta |-> registry[k]]]
           /\ UNCHANGED <<registry, table>>
  <2>1. registry[k] \in Tables
    BY <1>1, <1>2 DEF TypeOK
  <2>2. object' \in [Objects -> ObjectType \cup {None}]
    BY <1>1, <1>2, <2>1 DEF TypeOK, ObjectType
  <2>3. UNCHANGED <<gcTable, registry, named, storage, binding, want>>
    BY <1>2 DEF Push
  <2>4. table' \in [Tables -> TableType]
    BY <1>1, <1>2 DEF TypeOK
  <2> QED
    BY <1>2, <2>2, <2>3, <2>4, CollectStep
<1>3. CASE /\ registry[k] = None /\ NewTables(k) # {}
           /\ object' = [object EXCEPT ![o] = [kind |-> k, meta |-> NewTable(k)]]
           /\ registry' = [registry EXCEPT ![k] = NewTable(k)]
           /\ table' = [table EXCEPT ![NewTable(k)] = [Blank EXCEPT !.gc = k \in Owning]]
  <2>1. PICK n \in Tables : n = NewTable(k) /\ n[1] = k
    BY <1>3, NewTableIsNew
  <2>2. gcTable = None
    <3>1. ASSUME gcTable \in Storages PROVE FALSE
      <4>1. Serving(gcTable)
        BY <3>1, CurrentTables
      <4> QED
        BY <1>3, <4>1 DEF Serving
    <3> QED
      BY <1>1, <3>1 DEF TypeOK
  <2>3. UNCHANGED <<gcTable, named, storage, binding, want>>
    BY DEF Push
  <2> DEFINE blank == [Blank EXCEPT !.gc = k \in Owning]
  <2>4. /\ blank \in TableType
        /\ blank.index = None /\ blank.newIndex = None /\ blank.fields = NoFields
    <3>1. PICK gc \in BOOLEAN : gc = (k \in Owning)
      <4>1. CASE k \in Owning
        <5>1. TRUE = (k \in Owning)
          BY <4>1
        <5> QED
          BY <5>1
      <4>2. CASE k \notin Owning
        <5>1. FALSE = (k \in Owning)
          BY <4>2
        <5> QED
          BY <5>1
      <4> QED
        BY <4>1, <4>2
    <3>2. blank = [Blank EXCEPT !.gc = gc]
      BY <3>1
    <3> QED
      BY <3>2, BlankTyped DEF TableType
  <2> HIDE DEF blank
  <2>5. /\ object' = [object EXCEPT ![o] = [kind |-> k, meta |-> n]]
        /\ registry' = [registry EXCEPT ![k] = n]
        /\ table' = [table EXCEPT ![n] = blank]
    BY <1>3, <2>1 DEF blank
  <2>6. TypeOK'
    <3>1. [kind |-> k, meta |-> n] \in ObjectType
      BY DEF ObjectType
    <3> QED
      BY <1>1, <2>3, <2>4, <2>5, <3>1 DEF TypeOK
  <2>7. NamedByKind'
    BY <1>1, <2>1, <2>5 DEF NamedByKind, TypeOK
  <2>8. OthersCleared'
    BY <1>1, <2>3 DEF OthersCleared
  <2>9. \A t \in Tables : Plain(t)
    BY <2>2 DEF IInv, Current
  <2>10. \A t \in Tables : Plain(t)'
    BY <1>1, <2>4, <2>5, <2>9 DEF Plain, TypeOK
  <2>11. named.asks = None
    BY <2>2 DEF IInv
  <2> QED
    BY <2>2, <2>3, <2>6, <2>7, <2>8, <2>10, <2>11, IdleStep
<1> QED
  BY <1>2, <1>3 DEF Push

LEMMA SetPlainSound ==
  ASSUME IInv, NEW k \in Keys, NEW v \in Values, SetPlain(k, v)
  PROVE  IInv'
<1>1. /\ gcTable = None /\ named' = [named EXCEPT !.fields[k] = v]
      /\ UNCHANGED <<gcTable, registry, table, storage, binding, object, want>>
  BY DEF SetPlain
<1>2. TypeOK /\ NamedByKind /\ OthersCleared /\ named.asks = None /\ \A t \in Tables : Plain(t)
  BY <1>1 DEF IInv, Current
<1>3. named' \in [made : BOOLEAN, asks : Storages \cup {None}, fields : [Keys -> Values \cup {None}]]
      /\ named'.asks = None
  <2>1. named \in [made : BOOLEAN, asks : Storages \cup {None}, fields : [Keys -> Values \cup {None}]]
    BY <1>2 DEF TypeOK
  <2>2. [named.fields EXCEPT ![k] = v] \in [Keys -> Values \cup {None}]
    BY <2>1
  <2>3. named' = [named EXCEPT !.fields = [named.fields EXCEPT ![k] = v]]
    BY <1>1
  <2> QED
    BY <1>2, <2>1, <2>2, <2>3
<1>4. TypeOK'
  BY <1>1, <1>2, <1>3 DEF TypeOK
<1>5. NamedByKind' /\ OthersCleared' /\ \A t \in Tables : Plain(t)'
  BY <1>1, <1>2 DEF NamedByKind, OthersCleared, Plain
<1> QED
  BY <1>1, <1>3, <1>4, <1>5, IdleStep

LEMMA ClearedEmpty ==
  ASSUME NEW s \in Storages, storage[s] = None \/ storage[s] = [New EXCEPT !.cleared = TRUE]
  PROVE  TablesOf(s) = {} /\ Owned(s) = {}
<1>1. CASE storage[s] = None
  BY <1>1 DEF TablesOf, Owned
<1>2. CASE storage[s] = [New EXCEPT !.cleared = TRUE]
  <2>1. /\ storage[s].tables = [k \in Kinds |-> None]
        /\ storage[s].strings = [k \in Strings |-> None]
        /\ storage[s].fallback = None
    BY <1>2, NewTyped
  <2>2. Range([k \in Kinds |-> None]) \ {None} = {} /\ Range([k \in Strings |-> None]) \ {None} = {}
    BY DEF Range
  <2> QED
    BY <2>1, <2>2 DEF TablesOf, Owned
<1> QED
  BY <1>1, <1>2

(* __gc of a storage that was cleared finds nothing to free. *)
LEMMA CollectStorageSound ==
  ASSUME Corners = {}, IInv, NEW s \in Storages, CollectStorage(s)
  PROVE  IInv'
<1>1. /\ storage[s] # None /\ s # gcTable /\ gcTable = None
      /\ registry' = ClearedNames
      /\ storage' = [storage EXCEPT ![s] = None]
      /\ binding' = [b \in Bindings |-> IF b \in Owned(s) THEN None ELSE binding[b]]
      /\ UNCHANGED <<gcTable, named, object, want>>
      /\ table' = Remaining(table)
  BY DEF CollectStorage
<1>2. TypeOK /\ NamedByKind /\ OthersCleared /\ named.asks = None /\ \A t \in Tables : Plain(t)
  BY <1>1 DEF IInv, Current
<1>3. /\ table' \in [Tables -> TableType]
      /\ \A t \in Tables : table'[t] = table[t] \/ table'[t] = Blank
  <2>1. table \in [Tables -> TableType]
    BY <1>2 DEF TypeOK
  <2> QED
    BY <1>1, <2>1, RemainingTyped
<1>4. TypeOK'
  <2>1. registry' \in [Kinds -> Tables \cup {None}]
    BY <1>1 DEF ClearedNames
  <2>2. storage' \in [Storages -> StorageType \cup {None}]
        /\ binding' \in [Bindings -> {"function", "variable", None} \cup Values]
    BY <1>1, <1>2 DEF TypeOK
  <2> QED
    BY <1>1, <1>2, <1>3, <2>1, <2>2 DEF TypeOK
<1>5. NamedByKind'
  BY <1>1 DEF NamedByKind, ClearedNames
<1>6. OthersCleared'
  BY <1>1, <1>2 DEF OthersCleared, TypeOK
<1>7. \A t \in Tables : Plain(t)'
  BY <1>2, <1>3, BlankTyped DEF Plain
<1> QED
  BY <1>1, <1>2, <1>4, <1>5, <1>6, <1>7, IdleStep

(* unregister leaves tables, bindings and storage empty. *)
LEMMA UnregisterSound ==
  ASSUME IInv, Unregister
  PROVE  IInv'
<1>1. TypeOK /\ NamedByKind /\ OthersCleared /\ named.asks = gcTable
  BY DEF IInv
<1>2. PICK s \in Storages : named.asks = s /\ gcTable = s
  BY <1>1 DEF Unregister, TypeOK
<1>3. /\ gcTable' = None
      /\ storage' = [storage EXCEPT ![s] = [New EXCEPT !.cleared = TRUE]]
      /\ binding' = [b \in Bindings |-> IF b \in Owned(s) THEN None ELSE binding[b]]
      /\ named' = [made |-> TRUE, asks |-> None, fields |-> NoFields]
      /\ want' = [k \in Keys \cup {"index"} |-> None]
      /\ UNCHANGED <<registry, object>>
      /\ table' = Remaining(Emptied(s))
  BY <1>1, <1>2 DEF Unregister, Clear, TypeOK
<1>4. /\ Emptied(s) \in [Tables -> TableType]
      /\ \A t \in Tables : Emptied(s)[t] = Blank \/ (t \notin Current /\ Emptied(s)[t] = table[t])
  <2>1. Current = TablesOf(s)
    BY <1>2, CurrentTables
  <2> QED
    BY <1>1, <2>1, BlankTyped DEF Emptied, Cleared, TypeOK
<1>5. /\ table' \in [Tables -> TableType]
      /\ \A t \in Tables : table'[t] = Emptied(s)[t] \/ table'[t] = Blank
  BY <1>3, <1>4, RemainingTyped
<1>6. \A t \in Tables : Plain(t)'
  <2>1. \A t \in Tables \ Current : Plain(t)
    BY DEF IInv
  <2> QED
    BY <1>4, <1>5, <2>1, BlankTyped DEF Plain
<1>7. TypeOK'
  <2>1. storage' \in [Storages -> StorageType \cup {None}]
    BY <1>1, <1>3, NewTyped DEF TypeOK
  <2>2. binding' \in [Bindings -> {"function", "variable", None} \cup Values]
    BY <1>1, <1>3 DEF TypeOK
  <2>3. named' \in [made : BOOLEAN, asks : Storages \cup {None}, fields : [Keys -> Values \cup {None}]]
    BY <1>3 DEF NoFields
  <2> QED
    BY <1>1, <1>3, <1>5, <2>1, <2>2, <2>3 DEF TypeOK
<1>8. NamedByKind' /\ OthersCleared'
  <2>1. \A r \in Storages : storage'[r] = IF r = s THEN [New EXCEPT !.cleared = TRUE] ELSE storage[r]
    BY <1>1, <1>3 DEF TypeOK
  <2> QED
    BY <1>1, <1>2, <1>3, <2>1 DEF NamedByKind, OthersCleared
<1>9. named'.asks = None
  BY <1>3
<1> QED
  BY <1>3, <1>6, <1>7, <1>8, <1>9, IdleStep

--------------------------------------------------------------------------------
(* Registering *)

LEMMA FastTableTyped ==
  ASSUME NEW t \in TableType, NEW s \in Storages, NEW k \in Kinds, NEW made
  PROVE  /\ FastTable(t, s, k, made) \in TableType
         /\ FastTable(t, s, k, made).index = Self /\ FastTable(t, s, k, made).newIndex = s
         /\ FastTable(t, s, k, made).gc = (k \in Owning)
         /\ FastTable(t, s, k, made).fields = t.fields
<1>1. CASE k \in Owning
  <2>1. TRUE = (k \in Owning)
    BY <1>1
  <2>2. FastTable(t, s, k, made) = [t EXCEPT !.index = Self, !.newIndex = s, !.gc = TRUE]
    BY <2>1 DEF FastTable
  <2> QED
    BY <2>1, <2>2 DEF TableType
<1>2. CASE k \notin Owning
  <2>1. FALSE = (k \in Owning)
    BY <1>2
  <2>2. FastTable(t, s, k, made) = [t EXCEPT !.index = Self, !.newIndex = s, !.gc = FALSE]
    BY <2>1 DEF FastTable
  <2> QED
    BY <2>1, <2>2 DEF TableType
<1> QED
  BY <1>1, <1>2

(* Whatever the registration before it was, a new one starts with an empty    *)
(* storage and default entries, in tables that no other kind has.            *)
LEMMA RegisterSound ==
  ASSUME Corners = {}, IInv, NEW s \in Storages, Register(s)
  PROVE  IInv'
<1> DEFINE old == gcTable
           names == IF old = None THEN registry ELSE ClearedNames
           before == IF old = None THEN table ELSE Emptied(old)
           tables == [k \in Kinds |-> IF names[k] # None THEN names[k] ELSE NewTable(k)]
           ready == [t \in Tables |->
             IF t \in Range(tables) THEN FastTable(before[t], s, t[1], names[t[1]] = None) ELSE before[t]]
<1>1. /\ storage[s] = None
      /\ named.fields = NoFields
      /\ \A k \in Kinds : names[k] = None => NewTables(k) # {}
      /\ registry' = tables
      /\ storage' = [r \in Storages |->
           IF r = s THEN [New EXCEPT !.tables = tables]
           ELSE IF r = old THEN [New EXCEPT !.cleared = TRUE] ELSE storage[r]]
      /\ binding' = [b \in Bindings |-> IF old # None /\ b \in Owned(old) THEN None ELSE binding[b]]
      /\ gcTable' = s
      /\ named' = [made |-> TRUE, asks |-> s, fields |-> IF old = None THEN named.fields ELSE NoFields]
      /\ want' = [k \in DOMAIN want |-> None]
      /\ UNCHANGED object
      /\ table' = Remaining(ready)
  BY DEF Register
<1>2. TypeOK /\ NamedByKind /\ OthersCleared /\ s # None /\ Self # None
  BY UsertypeAssumption DEF IInv
<1>3. names \in [Kinds -> Tables \cup {None}] /\ \A k \in Kinds : names[k] # None => names[k][1] = k
  <2>1. CASE old = None
    BY <1>2, <2>1 DEF TypeOK, NamedByKind
  <2>2. CASE old # None
    BY <2>2 DEF ClearedNames
  <2> QED
    BY <2>1, <2>2
<1>4. before \in [Tables -> TableType]
      /\ \A t \in Tables : before[t].index = None /\ before[t].newIndex = None /\ before[t].fields = NoFields
  <2>1. CASE old = None
    <3>1. \A t \in Tables : Plain(t)
      BY <2>1 DEF IInv, Current
    <3> QED
      BY <1>2, <2>1, <3>1 DEF TypeOK, Plain
  <2>2. CASE old # None
    <3>1. old \in Storages
      BY <1>2, <2>2 DEF TypeOK
    <3>2. Current = TablesOf(old)
      BY <3>1, CurrentTables
    <3>3. \A t \in Tables \ TablesOf(old) : Plain(t)
      BY <3>2 DEF IInv
    <3>4. before = [t \in Tables |-> IF t \in TablesOf(old) THEN Blank ELSE table[t]]
      BY <2>2 DEF Emptied, Cleared
    <3> HIDE DEF before, old
    <3> QED
      BY <1>2, <3>3, <3>4, BlankTyped DEF TypeOK, Plain
  <2> QED
    BY <2>1, <2>2
<1> HIDE DEF names, before
<1>5. /\ tables \in [Kinds -> Tables] /\ \A k \in Kinds : tables[k][1] = k /\ tables[k] # None
  <2>1. ASSUME NEW k \in Kinds PROVE tables[k] \in Tables /\ tables[k][1] = k
    <3>1. CASE names[k] # None
      BY <1>3, <3>1
    <3>2. CASE names[k] = None
      BY <1>1, <3>2, NewTableIsNew
    <3> QED
      BY <3>1, <3>2
  <2> HIDE DEF tables
  <2>2. tables = [k \in Kinds |-> tables[k]]
    BY DEF tables
  <2> QED
    BY <2>1, <2>2, UsertypeAssumption
<1> HIDE DEF tables
<1>6. Range(tables) \subseteq Tables /\ \A t \in Range(tables) : t[1] \in Kinds
  BY <1>5 DEF Range
<1>7. /\ ready \in [Tables -> TableType]
      /\ \A t \in Range(tables) : ready[t] = FastTable(before[t], s, t[1], names[t[1]] = None)
      /\ \A t \in Tables \ Range(tables) : ready[t] = before[t]
  <2>1. \A t \in Range(tables) : FastTable(before[t], s, t[1], names[t[1]] = None) \in TableType
    BY <1>4, <1>6, FastTableTyped
  <2> QED
    BY <1>4, <1>6, <2>1
<1> HIDE DEF ready
<1>8. /\ table' \in [Tables -> TableType]
      /\ \A t \in Referred' : t \in Tables => table'[t] = ready[t]
      /\ \A t \in Tables : table'[t] = ready[t] \/ table'[t] = Blank
  BY <1>1, <1>7, RemainingTyped
<1>9. /\ storage'[s] = [New EXCEPT !.tables = tables]
      /\ \A r \in Storages \ {s} : storage'[r] = IF r = old THEN [New EXCEPT !.cleared = TRUE] ELSE storage[r]
  BY <1>1
<1>10. /\ storage'[s] \in StorageType /\ storage'[s] # None
       /\ storage'[s].tables = tables /\ ~ storage'[s].cleared /\ ~ storage'[s].usingIndex
       /\ storage'[s].strings = [k \in Strings |-> None] /\ storage'[s].others = [k \in Others |-> None]
       /\ storage'[s].fallback = None
  <2>1. tables \in [Kinds -> Tables \cup {None}]
    BY <1>5
  <2>2. New \in StorageType /\ New.cleared = FALSE /\ New.usingIndex = FALSE /\ New.fallback = None
        /\ New.strings = [k \in Strings |-> None] /\ New.others = [k \in Others |-> None]
    BY NewTyped DEF New
  <2>3. /\ storage'[s] \in StorageType
        /\ storage'[s].tables = tables /\ storage'[s].cleared = New.cleared
        /\ storage'[s].usingIndex = New.usingIndex
        /\ storage'[s].strings = New.strings /\ storage'[s].others = New.others
        /\ storage'[s].fallback = New.fallback
    BY <1>9, <2>1, <2>2 DEF StorageType
  <2> QED
    BY <2>2, <2>3, UsertypeAssumption
<1>11. TypeOK'
  <2>1. storage' \in [Storages -> StorageType \cup {None}]
    <3>1. ASSUME NEW r \in Storages PROVE storage'[r] \in StorageType \cup {None}
      BY <1>2, <1>9, <1>10, NewTyped DEF TypeOK
    <3>2. storage' = [r \in Storages |-> storage'[r]]
      BY <1>1
    <3> QED
      BY <3>1, <3>2
  <2>2. binding' \in [Bindings -> {"function", "variable", None} \cup Values]
    BY <1>1, <1>2 DEF TypeOK
  <2>3. named' \in [made : BOOLEAN, asks : Storages \cup {None}, fields : [Keys -> Values \cup {None}]]
    <3>1. named' = [made |-> TRUE, asks |-> s, fields |-> NoFields]
      BY <1>1
    <3> QED
      BY <3>1 DEF NoFields
  <2>4. registry' \in [Kinds -> Tables \cup {None}] /\ gcTable' \in Storages \cup {None}
    BY <1>1, <1>5
  <2>5. want' \in [Keys \cup {"index"} -> Answers \cup {None}]
    BY <1>1, <1>2 DEF TypeOK
  <2>6. object' \in [Objects -> ObjectType \cup {None}]
    BY <1>1, <1>2 DEF TypeOK
  <2> QED
    BY <1>8, <2>1, <2>2, <2>3, <2>4, <2>5, <2>6 DEF TypeOK
<1>12. TablesOf(s)' = Range(tables) /\ Current' = Range(tables)
  <2>1. None \notin Range(tables)
    BY <1>5 DEF Range
  <2>2. TablesOf(s)' = Range(tables)
    BY <1>10, <2>1 DEF TablesOf
  <2> QED
    BY <1>1, <1>2, <2>2 DEF Current
<1>13. \A t \in Range(tables) : t \in Referred'
  BY <1>1, <1>5, <1>6, UsertypeAssumption DEF Referred
<1>14. ASSUME NEW t \in Range(tables) PROVE FastSound(s, t)'
  <2>1. t \in Tables /\ t[1] \in Kinds /\ table'[t] = FastTable(before[t], s, t[1], names[t[1]] = None)
    BY <1>6, <1>7, <1>8, <1>13
  <2>2. /\ table'[t].index = Self /\ table'[t].newIndex = s
        /\ table'[t].gc = (t[1] \in Owning) /\ table'[t].fields = NoFields
    BY <1>4, <2>1, FastTableTyped
  <2>3. \A k \in Keys : table'[t].fields[k] = None
    BY <2>2 DEF NoFields
  <2>4. \A k \in Strings : StringSound(s, t, k)'
    BY <1>10, <2>3, KeysApart DEF StringSound
  <2>5. \A k \in Others : OtherSound(s, t, k)'
    BY <1>10, <2>3, KeysApart DEF OtherSound
  <2> QED
    BY <1>10, <2>2, <2>4, <2>5 DEF FastSound
<1>15. BindingsSound(s)'
  BY <1>10 DEF BindingsSound
<1>16. WantSound(s)'
  <2>1. \A k \in Keys \cup {"index"} : want'[k] = None
    BY <1>1, <1>2 DEF TypeOK
  <2>2. \A k \in Keys : Stored(s, k)' = None
    BY <1>10, KeysApart DEF Stored
  <2> QED
    BY <1>10, <2>1, <2>2 DEF WantSound
<1>17. Serving(s)'
  <2>1. named'.fields = NoFields
    BY <1>1
  <2> QED
    BY <1>1, <1>5, <1>10, <1>12, <1>14, <1>15, <1>16, <2>1 DEF Serving
<1>18. NamedByKind'
  BY <1>1, <1>5 DEF NamedByKind
<1>19. OthersCleared'
  <2>1. ASSUME NEW r \in Storages \ {s}
        PROVE  storage'[r] = None \/ storage'[r] = [New EXCEPT !.cleared = TRUE]
    <3>1. CASE r = old
      BY <1>9, <3>1
    <3>2. CASE r # old
      BY <1>2, <1>9, <3>2 DEF OthersCleared
    <3> QED
      BY <3>1, <3>2
  <2> QED
    BY <1>1, <2>1 DEF OthersCleared
<1>20. \A t \in Tables \ Current' : Plain(t)'
  <2>1. ASSUME NEW t \in Tables \ Range(tables) PROVE Plain(t)'
    <3>1. table'[t] = before[t] \/ table'[t] = Blank
      BY <1>7, <1>8
    <3> QED
      BY <1>4, <3>1, BlankTyped DEF Plain
  <2> QED
    BY <1>12, <2>1
<1>21. named'.asks = gcTable'
  BY <1>1
<1> QED
  BY <1>1, <1>11, <1>17, <1>18, <1>19, <1>20, <1>21 DEF IInv

--------------------------------------------------------------------------------
(* The invariant *)

(* Before the first registration there is nothing. *)
LEMMA InitSound ==
  ASSUME Init
  PROVE  IInv
<1>1. TypeOK
  <2>1. table \in [Tables -> TableType]
    BY BlankTyped DEF Init
  <2>2. named \in [made : BOOLEAN, asks : Storages \cup {None}, fields : [Keys -> Values \cup {None}]]
    BY DEF Init, NoFields
  <2> QED
    BY <2>1, <2>2 DEF Init, TypeOK
<1>2. \A t \in Tables : Plain(t)
  BY BlankTyped DEF Init, Plain
<1>3. NamedByKind /\ OthersCleared /\ named.asks = gcTable /\ gcTable = None
  BY DEF Init, NamedByKind, OthersCleared
<1> QED
  BY <1>1, <1>2, <1>3 DEF IInv

LEMMA NextSound ==
  ASSUME Corners = {}, IInv, [Next]_vars
  PROVE  IInv'
<1>1. ASSUME NEW s \in Storages, Register(s) PROVE IInv'
  BY <1>1, RegisterSound
<1>2. ASSUME NEW s \in Storages, CollectStorage(s) PROVE IInv'
  BY <1>2, CollectStorageSound
<1>3. ASSUME Unregister PROVE IInv'
  BY <1>3, UnregisterSound
<1>4. ASSUME gcTable # None, BindIn(gcTable) PROVE IInv'
  <2>1. PICK s \in Storages : gcTable = s
    BY <1>4 DEF IInv, TypeOK
  <2>2. BindIn(s)
    BY <1>4, <2>1
  <2>3. ASSUME NEW k \in Strings, NEW b \in Bindings, NEW data \in {"function", "variable"} \cup Values,
               SetString(s, k, b, data)
        PROVE  IInv'
    BY <2>1, <2>3, SetStringSound
  <2>4. ASSUME NEW b \in Bindings, SetIndex(s, b) PROVE IInv'
    BY <2>1, <2>4, SetIndexSound
  <2>5. ASSUME NEW k \in Others, NEW v \in Values, SetOther(s, k, v) PROVE IInv'
    BY <2>1, <2>5, SetOtherSound
  <2> QED
    BY <2>2, <2>3, <2>4, <2>5 DEF BindIn
<1>5. ASSUME NEW k \in Keys, NEW v \in Values, SetPlain(k, v) PROVE IInv'
  BY <1>5, SetPlainSound
<1>6. ASSUME NEW o \in Objects, CollectObject(o) PROVE IInv'
  BY <1>6, CollectObjectSound
<1>7. ASSUME NEW o \in Objects, NEW k \in Kinds, Push(o, k) PROVE IInv'
  BY <1>7, PushSound
<1>8. ASSUME NEW o \in Objects, NEW k \in Keys, NEW v \in Values, Assign(o, k, v) PROVE IInv'
  BY <1>8, AssignSound
<1>9. CASE UNCHANGED vars
  BY <1>9 DEF vars, IInv, TypeOK, NamedByKind, OthersCleared, Current, TablesOf, Plain, Serving,
     FastSound, StringSound, OtherSound, BindingsSound, WantSound, Stored
<1> QED
  BY <1>1, <1>2, <1>3, <1>4, <1>5, <1>6, <1>7, <1>8, <1>9 DEF Next

(* At every moment of a program without corner cases the storage in use and   *)
(* the five metatables fit each other, and every other table has default     *)
(* entries only.                                                             *)
THEOREM Invariance ==
  ASSUME Corners = {}
  PROVE  Spec => []IInv
<1>1. Init => IInv
  BY InitSound
<1>2. IInv /\ [Next]_vars => IInv'
  BY NextSound
<1> QED
  BY <1>1, <1>2, PTL DEF Spec

--------------------------------------------------------------------------------
(* Lookups *)

(* A binding that is alive always answers something. *)
LEMMA StoredAnswers ==
  ASSUME TypeOK, NEW s \in Storages, BindingsSound(s), storage[s] \in StorageType, NEW k \in Strings,
         Stored(s, k) = None
  PROVE  storage[s].strings[k] = None
<1> SUFFICES ASSUME storage[s].strings[k] # None
             PROVE  FALSE
  OBVIOUS
<1>1. PICK b \in Bindings : storage[s].strings[k] = b
  BY DEF StorageType
<1>2. b # None /\ binding[b] \in {"function", "variable"} \cup Values
  BY <1>1 DEF BindingsSound, TypeOK
<1>3. k \notin Others
  BY KeysApart
<1>4. Stored(s, k) = AnswerOf(b, binding[b])
  BY <1>1, <1>2, <1>3 DEF Stored
<1>5. AnswerOf(b, binding[b]) \in Answers
  BY <1>2, AnswersTyped DEF AnswerOf, Answers
<1> QED
  BY <1>4, <1>5, UsertypeAssumption

(* What an object finds in a fast table of the registration in use, directly *)
(* or by way of the storage, is what was bound last.                         *)
LEMMA LookupIsWanted ==
  ASSUME IInv, NEW s \in Storages, gcTable = s, NEW o \in Objects, NEW k \in Keys,
         object[o] # None, object[o].meta \in TablesOf(s)
  PROVE  Lookup(o, k) = IF want[k] # None THEN want[k] ELSE want["index"]
<1> DEFINE t == object[o].meta
<1>1. /\ TypeOK /\ Serving(s) /\ storage[s] \in StorageType /\ t \in Tables
      /\ FastSound(s, t) /\ BindingsSound(s) /\ WantSound(s) /\ s \in InUse
  BY CurrentTables, InUseNow DEF IInv, Serving
<1>2. s # None /\ s # Self /\ Self # None
  BY UsertypeAssumption
<1>3. /\ table[t].index = IF storage[s].usingIndex THEN s ELSE Self
      /\ k \in Strings => StringSound(s, t, k)
      /\ k \in Others => OtherSound(s, t, k)
  BY <1>1 DEF FastSound
<1>4. /\ want[k] = Stored(s, k)
      /\ want["index"] = IF storage[s].fallback = None THEN None
                         ELSE [how |-> "fallback", of |-> storage[s].fallback]
  BY <1>1 DEF WantSound
<1>5. CASE storage[s].usingIndex
  <2>1. Lookup(o, k) = IndexCall(s, k, t)
    BY <1>1, <1>2, <1>3, <1>5 DEF Lookup
  <2>2. Stored(s, k) = None => table[t].fields[k] = None
    <3>1. CASE k \in Strings
      BY <1>1, <1>3, <3>1, StoredAnswers DEF StringSound
    <3>2. CASE k \in Others
      <4>1. storage[s].others[k] # None => Stored(s, k) # None
        <5>1. storage[s].others[k] # None => storage[s].others[k] \in Values
          BY <1>1, <3>2 DEF StorageType
        <5>2. \A v \in Values : [how |-> "value", of |-> v] \in Answers
          BY DEF Answers
        <5>3. storage[s].others[k] # None => Stored(s, k) = [how |-> "value", of |-> storage[s].others[k]]
          BY <3>2 DEF Stored
        <5> QED
          BY <5>1, <5>2, <5>3, UsertypeAssumption
      <4> QED
        BY <1>3, <3>2, <4>1 DEF OtherSound
    <3> QED
      BY <3>1, <3>2 DEF Keys
  <2> QED
    BY <1>4, <2>1, <2>2 DEF IndexCall
<1>6. CASE ~ storage[s].usingIndex
  <2>1. Lookup(o, k) = table[t].fields[k]
    BY <1>2, <1>3, <1>6 DEF Lookup
  <2>2. want["index"] = None
    BY <1>1, <1>4, <1>6 DEF BindingsSound
  <2>3. table[t].fields[k] = Stored(s, k)
    <3>1. CASE k \in Strings
      BY <1>3, <1>6, <3>1, KeysApart DEF StringSound, Stored, AnswerOf, CallOf
    <3>2. CASE k \in Others
      BY <1>3, <1>6, <3>2 DEF OtherSound, Stored
    <3> QED
      BY <3>1, <3>2 DEF Keys
  <2> QED
    BY <1>4, <2>1, <2>2, <2>3
<1> QED
  BY <1>5, <1>6

(* An object of no current registration finds nothing in its table. *)
LEMMA PlainFindsNothing ==
  ASSUME NEW o \in Objects, NEW k \in Keys, object[o] # None, Plain(object[o].meta)
  PROVE  Lookup(o, k) = None
BY DEF Plain, Lookup

LEMMA LookupsHold ==
  ASSUME IInv
  PROVE  LookupsAgree
<1>1. TypeOK /\ named.asks = gcTable
  BY DEF IInv
<1>2. EveryLookupIsCurrent
  <2> SUFFICES ASSUME gcTable # None, NEW k \in Keys
               PROVE  /\ NamedLookup(k) = want[k]
                      /\ \A o \in Objects :
                           object[o] # None /\ object[o].meta \in TablesOf(gcTable) =>
                             Lookup(o, k) = IF want[k] # None THEN want[k] ELSE want["index"]
    BY DEF EveryLookupIsCurrent
  <2>1. PICK s \in Storages : gcTable = s
    BY <1>1 DEF TypeOK
  <2>2. named.fields = NoFields /\ want[k] = Stored(s, k) /\ s # None
    <3>1. Serving(s)
      BY <2>1, CurrentTables
    <3>2. named.fields = NoFields /\ WantSound(s)
      BY <3>1 DEF Serving
    <3> QED
      BY <3>2, UsertypeAssumption DEF WantSound
  <2>3. NamedLookup(k) = want[k]
    BY <1>1, <2>1, <2>2 DEF NamedLookup, NoFields
  <2>4. \A o \in Objects : object[o] # None /\ object[o].meta \in TablesOf(gcTable) =>
          Lookup(o, k) = IF want[k] # None THEN want[k] ELSE want["index"]
    BY <2>1, LookupIsWanted
  <2> QED
    BY <2>3, <2>4
<1>3. NothingStale
  <2> SUFFICES ASSUME NEW o \in Objects, NEW k \in Keys, object[o] # None
               PROVE  Lookup(o, k) \in {None, want[k], want["index"]}
    BY DEF NothingStale
  <2>1. object[o].meta \in Tables
    BY <1>1 DEF TypeOK, ObjectType
  <2>2. CASE Plain(object[o].meta)
    BY <2>2, PlainFindsNothing
  <2>3. CASE ~ Plain(object[o].meta)
    <3>1. gcTable \in Storages /\ object[o].meta \in TablesOf(gcTable)
      BY <2>1, <2>3, AskingTables
    <3> QED
      BY <3>1, LookupIsWanted
  <2> QED
    BY <2>2, <2>3
<1> QED
  BY <1>1, <1>2, <1>3 DEF LookupsAgree

(* For every set of keys, values, objects, bindings and kinds, in a program   *)
(* without corner cases: after any order of registering, binding, assigning  *)
(* through objects, unregistering and collecting, every object of the        *)
(* registration in use and the class table find under each key what was      *)
(* bound last (index_call, meta_index_call, for_each_table and the poisoning *)
(* of the fast tables), and no other object finds what is out of date.       *)
THEOREM LookupsStayCurrent ==
  ASSUME Corners = {}
  PROVE  Spec => []LookupsAgree
<1>1. IInv => LookupsAgree
  BY LookupsHold
<1> QED
  BY <1>1, Invariance, PTL

--------------------------------------------------------------------------------
(* What Lua can reach *)

(* The closures in a fast table are those of bindings its storage has. *)
LEMMA ClosuresAlive ==
  ASSUME IInv, NEW t \in Tables, NEW b \in Closures(t)
  PROVE  binding[b] # None
<1>1. PICK k \in Keys : table[t].fields[k] # None /\ table[t].fields[k].how # "value"
                        /\ b = table[t].fields[k].of
  BY DEF Closures
<1>2. ~ Plain(t)
  BY <1>1 DEF Plain, NoFields
<1>3. PICK s \in Storages : gcTable = s /\ FastSound(s, t)
  BY <1>2, AskingTables
<1>4. table[t].fields[k] \notin ValueFields
  BY <1>1 DEF ValueFields
<1>5. CASE k \in Strings
  <2>1. StringSound(s, t, k)
    BY <1>3, <1>5 DEF FastSound
  <2>2. /\ table[t].fields[k] = CallOf(storage[s].strings[k])
        /\ binding[storage[s].strings[k]] \in {"function", "variable"}
    BY <1>1, <1>4, <2>1 DEF StringSound
  <2>3. b = storage[s].strings[k]
    BY <1>1, <2>2 DEF CallOf
  <2> QED
    BY <2>2, <2>3, UsertypeAssumption
<1>6. CASE k \in Others
  <2>1. OtherSound(s, t, k)
    BY <1>3, <1>6 DEF FastSound
  <2>2. storage[s].others[k] # None => storage[s].others[k] \in Values
    BY <1>3, <1>6, CurrentTables DEF StorageType
  <2>3. storage[s].others[k] # None => [how |-> "value", of |-> storage[s].others[k]] \in ValueFields
    BY <2>2 DEF ValueFields
  <2> QED
    BY <1>1, <1>4, <2>1, <2>3 DEF OtherSound
<1> QED
  BY <1>5, <1>6 DEF Keys

LEMMA NothingDanglesNow ==
  ASSUME IInv
  PROVE  NothingDangles
<1>1. TypeOK /\ named.asks = gcTable /\ OthersCleared /\ None \notin Storages /\ Self \notin Storages
  BY UsertypeAssumption DEF IInv
<1>2. Referred \subseteq Tables
  <2>1. Range(registry) \ {None} \subseteq Tables
    BY <1>1 DEF TypeOK, Range
  <2>2. \A s \in Storages : TablesOf(s) \subseteq Tables
    <3>1. ASSUME NEW s \in Storages, storage[s] # None
          PROVE  Range(storage[s].tables) \ {None} \subseteq Tables
      <4>1. storage[s].tables \in [Kinds -> Tables \cup {None}]
        BY <1>1, <3>1 DEF TypeOK, StorageType
      <4> QED
        BY <4>1 DEF Range
    <3> QED
      BY <3>1 DEF TablesOf
  <2>3. \A o \in Objects : object[o] # None => object[o].meta \in Tables
    BY <1>1 DEF TypeOK, ObjectType
  <2>4. UNION {TablesOf(s) : s \in Storages} \subseteq Tables
    BY <2>2
  <2>5. {object[o].meta : o \in {p \in Objects : object[p] # None}} \subseteq Tables
    BY <2>3
  <2> QED
    BY <2>1, <2>4, <2>5 DEF Referred
<1>3. ASSUME NEW t \in Referred
      PROVE  /\ \A b \in Closures(t) : binding[b] # None
             /\ {table[t].index, table[t].newIndex} \cap Storages \subseteq InUse
  <2>1. t \in Tables
    BY <1>2
  <2>2. \A b \in Closures(t) : binding[b] # None
    BY <2>1, ClosuresAlive
  <2>3. CASE Plain(t)
    BY <1>1, <2>2, <2>3 DEF Plain
  <2>4. CASE ~ Plain(t)
    <3>1. PICK s \in Storages : gcTable = s /\ FastSound(s, t)
      BY <2>1, <2>4, AskingTables
    <3>2. s \in InUse /\ table[t].newIndex = s /\ table[t].index \in {s, Self}
      BY <3>1, InUseNow DEF FastSound
    <3> QED
      BY <1>1, <2>2, <3>2
  <2> QED
    BY <2>3, <2>4
<1>4. named.asks # None => named.asks \in InUse
  BY <1>1, InUseNow DEF TypeOK
<1>5. ASSUME NEW s \in Storages, NEW b \in Owned(s) PROVE binding[b] # None
  <2>1. CASE s = gcTable
    <3>1. BindingsSound(s) /\ storage[s] \in StorageType /\ storage[s] # None
      BY <2>1, CurrentTables DEF Serving
    <3>2. b # None /\ (b = storage[s].fallback \/ b \in Range(storage[s].strings))
      BY <3>1 DEF Owned
    <3>3. CASE b = storage[s].fallback
      BY <3>1, <3>2, <3>3 DEF BindingsSound
    <3>4. CASE b \in Range(storage[s].strings)
      <4>1. PICK k \in Strings : b = storage[s].strings[k]
        BY <3>1, <3>4 DEF Range, StorageType
      <4> QED
        BY <3>1, <3>2, <4>1 DEF BindingsSound
    <3> QED
      BY <3>2, <3>3, <3>4
  <2>2. CASE s # gcTable
    BY <1>1, <2>2, ClearedEmpty DEF OthersCleared
  <2> QED
    BY <2>1, <2>2
<1> QED
  BY <1>3, <1>4, <1>5 DEF NothingDangles

(* In such a program no closure over a binding that was freed (set replaces   *)
(* a key's binding, clear frees them all), and no upvalue or function        *)
(* pointer of a storage that was cleared or destroyed, can be reached from   *)
(* a metatable in the registry, of an object or of a storage.                *)
THEOREM NothingEverDangles ==
  ASSUME Corners = {}
  PROVE  Spec => []NothingDangles
<1>1. IInv => NothingDangles
  BY NothingDanglesNow
<1> QED
  BY <1>1, Invariance, PTL

(* In such a program, while a class is registered, its five names in the      *)
(* registry lead to the metatables of its storage, through which every       *)
(* object pushed gets its functions, and a destructor if its kind owns       *)
(* (register_usertype, clear_usertype_registry_names).                       *)
THEOREM NamesStay ==
  ASSUME Corners = {}
  PROVE  Spec => []NamesLeadToClass
<1>1. IInv => NamesLeadToClass
  <2> SUFFICES ASSUME IInv, gcTable # None, NEW k \in Kinds
               PROVE  /\ named.asks = gcTable
                      /\ registry[k] # None /\ registry[k] = storage[gcTable].tables[k]
                      /\ table[registry[k]].index \in {Self, gcTable}
                      /\ table[registry[k]].newIndex = gcTable
                      /\ table[registry[k]].gc = (k \in Owning)
    BY DEF NamesLeadToClass, IInv
  <2>1. PICK s \in Storages : gcTable = s
    BY DEF IInv, TypeOK
  <2>2. /\ registry[k] # None /\ registry[k] = storage[s].tables[k]
        /\ FastSound(s, registry[k]) /\ registry[k][1] = k
    BY <2>1, CurrentTables DEF Serving, IInv, NamedByKind
  <2> QED
    BY <2>1, <2>2 DEF FastSound, IInv
<1> QED
  BY <1>1, Invariance, PTL

================================================================================

--------------------------------- MODULE Values --------------------------------
(***************************************************************************)
(* Values between C++ and Lua: what stack::push makes of a C++ value, which *)
(* Lua values the checkers of a type accept and what its getters read from  *)
(* them: numbers, optionals, variants, containers passed as tables, and     *)
(* objects of classes with bases.  A value is pushed or comes from Lua, and *)
(* is then asked for in every order.                                        *)
(***************************************************************************)
EXTENDS Integers, SequencesExt

CONSTANTS
  IntegerBits,   \* the width of lua_Integer, and of the widest C++ integers
  MantissaBits,  \* the digits of lua_Number, in halves
  Overflow,      \* what llround returns for a number out of range
  Enum,          \* the underlying type of the enumeration
  Bases,         \* class |-> its base classes
  Offset,        \* class |-> (class or base |-> where it lies in the object)
  Sent,          \* the C++ values pushed, as <<type, value>>
  Found,         \* the Lua values read, as <<type, value>>
  Programs,      \* the builds and the bases registered, a function like Bases
  ValueCorners   \* corner cases the program is assumed to perform

(* Types: a name and the types inside. *)
Integral(bits, signed) == [t |-> "integral", bits |-> bits, signed |-> signed]
Simple(name) == [t |-> name]
OptionalOf(T) == [t |-> "optional", of |-> T]
VariantOf(Ts) == [t |-> "variant", of |-> Ts]
SeveralOf(Ts) == [t |-> "tuple", of |-> Ts]
PairOf(A, B) == [t |-> "pair", of |-> <<A, B>>]
SequenceOf(T) == [t |-> "sequence", of |-> T]
ArrayOf(T, n) == [t |-> "array", of |-> T, size |-> n]
MapOf(K, V) == [t |-> "map", key |-> K, of |-> V]
Exhaustive(T) == [t |-> "exhaustive", of |-> T]
PointerTo(c) == [t |-> "pointer", class |-> c]
SharedTo(c) == [t |-> "shared", class |-> c]
HandleTo(c) == [t |-> "handle", class |-> c]

(* Values: a record with one field, named for the kind of the value. *)
Nil == [nil |-> TRUE]
None == [none |-> TRUE]
Nothing == [nothing |-> TRUE]
Indeterminate == [indeterminate |-> TRUE]
Integer(n) == [integer |-> n]
Null == [at |-> 0]

(* A string is the number it spells, in halves, or NotANumber. *)
NotANumber == 999

ValueCornerCases == {"unfit", "fraction", "loose_elements", "overlap", "holes", "several_values",
                     "short_table", "exhaustive_scalar", "exhaustive_before", "variant_record",
                     "shared_base", "shared_over_value", "handle_of_another",
                     "empty_smart_pointer", "unchecked"}

ASSUME ValuesAssumption ==
  /\ IntegerBits \in Nat \ {0} /\ MantissaBits \in Nat \ {0}
  /\ Overflow \in -(2 ^ (IntegerBits - 1)) .. 2 ^ (IntegerBits - 1) - 1
  /\ ValueCorners \subseteq ValueCornerCases

VARIABLES
  build,     \* the definitions sol2 is built with
  registry,  \* class |-> the bases it was registered with
  type,      \* the C++ type pushed or asked for
  sent,      \* the C++ value to be pushed, Nothing if the value is Lua's
  found,     \* the values that came onto the stack
  slots,     \* the values on the stack now
  missing,   \* slots that were lost below, or left behind above
  told       \* question |-> its answer

valueVars == <<build, registry, type, sent, found, slots, missing, told>>

Builds == SUBSET {"precision", "strings_are_numbers", "all_fit"}
Questions == {"push", "check", "get", "check_get", "unqualified", "pop"}
Unasked == [ok |-> FALSE, value |-> None, used |-> -1]
Crashed == [ok |-> FALSE, value |-> Indeterminate, used |-> 0]

Is(v, kind) == kind \in DOMAIN v
Containers == {"sequence", "array", "map"}

RECURSIVE Size(_)
Size(T) == IF T.t \in {"tuple", "pair"} THEN FoldLeft(LAMBDA n, U : n + Size(U), 0, T.of) ELSE 1
--------------------------------------------------------------------------------
(* Numbers.  A floating point number is counted in halves. *)

Low(bits, signed) == IF signed THEN -(2 ^ (bits - 1)) ELSE 0
Wrap(n, bits, signed) == Low(bits, signed) + ((n - Low(bits, signed)) % (2 ^ bits))
Cast(T, n) == [int |-> Wrap(n, T.bits, T.signed)]
FitsLua(n) == n = Wrap(n, IntegerBits, TRUE)
Magnitude(h) == IF h < 0 THEN -h ELSE h
Signed(h, m) == IF h < 0 THEN -m ELSE m

(* The nearest number of MantissaBits digits, halfway to the even one. *)
Rounded(h) ==
  LET m == Magnitude(h)
      unit == 2 ^ Min({e \in 0 .. IntegerBits + 2 : m < 2 ^ (MantissaBits + e)})
      q == m \div unit
      r == m % unit
      up == IF 2 * r > unit \/ (2 * r = unit /\ q % 2 = 1) THEN 1 ELSE 0
  IN Signed(h, unit * (q + up))

LLRound(h) ==
  LET n == Signed(h, (Magnitude(h) + 1) \div 2) IN IF FitsLua(n) THEN n ELSE Overflow

(* lua_tonumberx and lua_tointegerx: the number, or none. *)
Numbers(v) ==
  CASE Is(v, "integer") -> {Rounded(2 * v.integer)}
    [] Is(v, "float") -> {v.float}
    [] Is(v, "string") -> {v.string} \ {NotANumber}
    [] OTHER -> {}
Whole(v) ==
  IF Is(v, "integer") THEN {v.integer}
  ELSE {h \div 2 : h \in {h \in Numbers(v) : h % 2 = 0 /\ FitsLua(h \div 2)}}
ToNumber(v) == IF Numbers(v) = {} THEN 0 ELSE CHOOSE h \in Numbers(v) : TRUE
ToInteger(v) == IF Whole(v) = {} THEN 0 ELSE CHOOSE n \in Whole(v) : TRUE
IsNumber(v) == Is(v, "integer") \/ Is(v, "float")
--------------------------------------------------------------------------------
(* Pushing *)

Delivered(vals) == [ok |-> TRUE, vals |-> vals]

(* integer_value_fits *)
IntegerValueFits(T, n) ==
  \/ T.bits < IntegerBits
  \/ T.bits = IntegerBits /\ (T.signed \/ "all_fit" \in build)
  \/ FitsLua(n)

PushInteger(T, n) ==
  LET number == Rounded(2 * n)
  IN IF IntegerValueFits(T, n) THEN Delivered(<<Integer(Wrap(n, IntegerBits, TRUE))>>)
     ELSE IF "precision" \in build /\ Cast(T, LLRound(number)).int # n THEN [ok |-> FALSE, vals |-> <<>>]
     ELSE Delivered(<<[float |-> number]>>)

At(f, i) == IF Integer(i) \in DOMAIN f THEN f[Integer(i)] ELSE Nil
Set(f, k, v) ==
  IF v = Nil THEN [x \in DOMAIN f \ {k} |-> f[x]]
  ELSE [x \in DOMAIN f \cup {k} |-> IF x = k THEN v ELSE f[x]]

(* Mutant: the index is incremented before it is used. *)
SetIAfter(f, index, vals) ==
  FoldLeft(LAMBDA g, j : Set(g, Integer(index + j), vals[Len(vals) + 1 - j]), f, [j \in DOMAIN vals |-> j])

(* lua_seti pops the last value of an element first. *)
SetI(f, index, vals) ==
  FoldLeft(LAMBDA g, j : Set(g, Integer(index + j - 1), vals[Len(vals) + 1 - j]), f, [j \in DOMAIN vals |-> j])

RECURSIVE PushOf(_, _), PushItems(_, _, _, _)
(* A table that is being filled stays behind when an element cannot be pushed. *)
PushItems(U, items, f, index) ==
  IF items = <<>> THEN Delivered(<<[table |-> f]>>)
  ELSE LET p == PushOf(U, Head(items))
       IN IF ~p.ok THEN [p EXCEPT !.vals = <<[table |-> f]>> \o @]
          ELSE IF U.t = "pair" THEN PushItems(U, Tail(items), Set(f, p.vals[1], p.vals[2]), index)
          ELSE PushItems(U, Tail(items), SetI(f, index, p.vals), index + Len(p.vals))

PushOf(T, v) ==
  CASE T.t = "integral" -> PushInteger(T, v.int)
    [] T.t = "enum" -> PushInteger(Enum, v.int)
    [] T.t = "number" -> Delivered(<<[float |-> v.num]>>)
    [] T.t = "bool" -> Delivered(<<[boolean |-> v.bool]>>)
    [] T.t = "string" -> Delivered(<<[string |-> v.str]>>)
    [] T.t = "optional" -> IF v = None THEN Delivered(<<Nil>>) ELSE PushOf(T.of, v)
    [] T.t = "variant" -> PushOf(T.of[v.alternative], v.value)
    [] T.t \in {"tuple", "pair"} ->
         FoldLeft(LAMBDA p, i : IF ~p.ok THEN p
                                ELSE LET q == PushOf(T.of[i], v.parts[i]) IN [q EXCEPT !.vals = p.vals \o @],
                  Delivered(<<>>), [i \in DOMAIN T.of |-> i])
    [] T.t \in {"sequence", "array"} -> PushItems(T.of, v.items, <<>>, 1)
    [] T.t = "map" ->
         PushItems(PairOf(T.key, T.of), SetToSeq({[parts |-> e] : e \in v.entries}), <<>>, 1)
    [] T.t = "pointer" ->
         Delivered(<<IF v = Null THEN Nil ELSE [userdata |-> T.class, stored |-> "pointer", at |-> v.at]>>)
    [] T.t \in {"shared", "handle"} ->
         Delivered(<<IF v = Null THEN Nil ELSE [userdata |-> T.class, stored |-> T.t, at |-> v.at]>>)
--------------------------------------------------------------------------------
(* Tables: the groups of n values under consecutive indices, from 0, or from *)
(* n if one of the first is nil.                                             *)
Groups(f, n) ==
  LET whole(i) == \A j \in i .. i + n - 1 : At(f, j) # Nil
      from[i \in 0 .. n * (Cardinality(DOMAIN f) + 2)] ==
        IF whole(i) THEN <<[j \in 1 .. n |-> At(f, i + j - 1)]>> \o from[i + n] ELSE <<>>
  IN IF whole(0) THEN from[0] ELSE from[n]

(* Mutant: the nils of the first group are not popped. *)
OverpoppedNever(f, n) ==
  LET nils == {j \in 1 .. n : At(f, j - 1) = Nil} IN IF nils = {} THEN 0 ELSE -Min(nils)

(* The slots popped too many: all n of the first group, whatever was pushed. *)
Overpopped(f, n) ==
  LET nils == {j \in 1 .. n : At(f, j - 1) = Nil} IN IF nils = {} THEN 0 ELSE n - Min(nils)

--------------------------------------------------------------------------------
(* Checking *)

(* weak_derive: a class some class was registered with as its base. *)
Derived(c) == \E d \in DOMAIN registry : c \in registry[d]

ChecksObject(T, v) ==
  CASE T.t = "pointer" ->
         \/ v = Nil
         \/ Is(v, "userdata") /\ v.userdata = T.class
         \/ Is(v, "userdata") /\ Derived(T.class) /\ T.class \in registry[v.userdata]
    [] T.t = "shared" ->
         Is(v, "userdata") /\ v.stored = "shared" /\ T.class \in {v.userdata} \cup Bases[v.userdata]
    [] T.t = "handle" -> Is(v, "userdata") /\ v.stored = "handle" /\ v.userdata = T.class

ChecksIntegral(v) ==
  IF "strings_are_numbers" \in build THEN Whole(v) # {}
  ELSE IF "precision" \in build THEN Is(v, "integer") ELSE IsNumber(v)

RECURSIVE Checks(_, _)
Checks(T, vals) ==
  LET v == Head(vals) IN
  CASE T.t = "integral" -> ChecksIntegral(v)
    [] T.t = "enum" -> IsNumber(v)
    [] T.t = "number" -> IF "strings_are_numbers" \in build THEN Numbers(v) # {} ELSE IsNumber(v)
    [] T.t = "bool" -> Is(v, "boolean")
    [] T.t = "string" -> Is(v, "string")
    [] T.t = "optional" -> v = Nil \/ Checks(T.of, vals)
    [] T.t = "variant" -> \E i \in DOMAIN T.of : Checks(T.of[i], vals)
    [] T.t \in {"tuple", "pair"} -> \A i \in DOMAIN T.of : Checks(T.of[i], <<vals[i]>>)
    [] T.t \in Containers -> Is(v, "table")
    [] T.t = "exhaustive" /\ T.of.t = "map" ->
         \A k \in DOMAIN v.table : Checks(T.of.key, <<k>>) /\ Checks(T.of.of, <<v.table[k]>>)
    [] T.t = "exhaustive" ->
         \A i \in DOMAIN Groups(v.table, 1) : Checks(T.of.of, Groups(v.table, 1)[i])
    [] OTHER -> ChecksObject(T, v)

(* An exhaustive check indexes whatever value it finds; the check of a shared  *)
(* pointer calls what it takes for the cast function of any other userdata.    *)
CheckCrashes(T, v) ==
  \/ T.t = "exhaustive" /\ ~Is(v, "table")
  \/ T.t = "shared" /\ Is(v, "userdata") /\ v.stored \in {"value", "pointer"}

(* The slots the record of a check counts: the elements of a container that is *)
(* checked to the end are counted as well.                                     *)
CheckUses(T, vals) ==
  IF T.t # "exhaustive" THEN Size(T)
  ELSE IF T.of.t = "map" THEN 1 + 2 * Cardinality(DOMAIN Head(vals).table)
  ELSE 1 + Len(Groups(Head(vals).table, 1))

--------------------------------------------------------------------------------
(* Getting.  A getter checks nothing, unless it has to choose. *)

(* Mutant: the pointer is cast to the base without adjusting it. *)
CastToUnadjusted(c, v) ==
  IF v.userdata = c \/ ~Derived(c) \/ c \in registry[v.userdata] THEN [at |-> v.at] ELSE Null

(* class_cast: the base's part of the object, or nothing. *)
CastTo(c, v) ==
  IF v.userdata = c \/ ~Derived(c) THEN [at |-> v.at]
  ELSE IF c \in registry[v.userdata] THEN [at |-> v.at + Offset[v.userdata][c]] ELSE Null

(* A pointer that is shared is read as it lies there, whatever it points to. *)
GetObject(T, v) ==
  CASE T.t = "pointer" /\ v = Nil -> Null
    [] ~Is(v, "userdata") -> Indeterminate
    [] T.t = "pointer" -> CastTo(T.class, v)
    [] v.stored \notin {"shared", "handle"} -> Indeterminate
    [] T.t = "shared" -> [at |-> v.at]
    [] T.t = "handle" -> IF v.stored = "handle" /\ v.userdata = T.class THEN [at |-> v.at] ELSE Null

RECURSIVE GetOf(_, _)

(* get of unqualified_getter<as_table_t>: no more than the container holds; an *)
(* array keeps what it was made of where the table ends early.                 *)
GetItems(T, f) ==
  LET groups == Groups(f, Size(T.of))
      read == [i \in DOMAIN groups |-> GetOf(T.of, groups[i])]
  IN IF T.t = "sequence" THEN read
     ELSE [i \in 1 .. T.size |-> IF i \in DOMAIN read THEN read[i] ELSE Indeterminate]

(* Keys of another type are passed over. No two keys read are the same. *)
GetEntries(T, f) ==
  {<<GetOf(T.key, <<k>>), GetOf(T.of, <<f[k]>>)>> : k \in {k \in DOMAIN f : Checks(T.key, <<k>>)}}

GetOf(T, vals) ==
  LET v == Head(vals) IN
  CASE T.t = "integral" -> Cast(T, IF Is(v, "integer") THEN v.integer ELSE LLRound(ToNumber(v)))
    [] T.t = "enum" -> Cast(Enum, ToInteger(v))
    [] T.t = "number" -> [num |-> ToNumber(v)]
    [] T.t = "bool" -> [bool |-> v \notin {Nil, [boolean |-> FALSE]}]
    [] T.t = "string" ->
         IF Is(v, "string") THEN [str |-> v.string] ELSE IF IsNumber(v) THEN [str |-> ToNumber(v)] ELSE Indeterminate
    [] T.t = "optional" -> IF Checks(T.of, vals) THEN GetOf(T.of, vals) ELSE None
    [] T.t = "variant" ->
         LET fit == {i \in DOMAIN T.of : Checks(T.of[i], vals)}
         IN IF fit = {} THEN Indeterminate
            ELSE [alternative |-> Min(fit), value |-> GetOf(T.of[Min(fit)], vals)]
    [] T.t \in {"tuple", "pair"} -> [parts |-> [i \in DOMAIN T.of |-> GetOf(T.of[i], <<vals[i]>>)]]
    [] T.t \in Containers /\ ~Is(v, "table") -> Indeterminate
    [] T.t \in {"sequence", "array"} -> [items |-> GetItems(T, v.table)]
    [] T.t = "map" -> [entries |-> GetEntries(T, v.table)]
    [] T.t = "exhaustive" -> GetOf(T.of, vals)
    [] OTHER -> GetObject(T, v)

Answer(ok, value, used) == [ok |-> ok, value |-> IF ok THEN value ELSE None, used |-> used]

(* A handle that cannot be rebound is looked for without checking the value. *)
CheckGet(T, vals) ==
  IF T.t = "handle" /\ (~Is(Head(vals), "userdata") \/ Head(vals).stored \notin {"shared", "handle"}) THEN Crashed
  ELSE Answer(Checks(T, vals), GetOf(T, vals), Size(T))

(* unqualified_check_getter: numbers convert, alternatives are tried from the *)
(* last, every one that is checked counts; a container is looked for as an     *)
(* object, a shared pointer as one of this class only.                         *)
UnqualifiedCheckGet(T, vals) ==
  LET v == Head(vals)
      fit == {i \in DOMAIN T.of : Checks(T.of[i], vals)}
      fraction == \A h \in Numbers(v) : 2 * LLRound(h) # h
      Truncated(h) == Signed(h, Magnitude(h) \div 2)
  IN CASE T.t = "integral" /\ Is(v, "integer") -> Answer(TRUE, Cast(T, v.integer), 1)
       [] T.t = "integral" /\ Numbers(v) = {} -> Answer(FALSE, None, 1)
       [] T.t = "integral" /\ "precision" \in build -> Answer(~fraction, Cast(T, LLRound(ToNumber(v))), 1)
       [] T.t = "integral" -> Answer(TRUE, Cast(T, Truncated(ToNumber(v))), 1)
       [] T.t = "enum" -> Answer(Whole(v) # {}, Cast(Enum, ToInteger(v)), 1)
       [] T.t = "number" -> Answer(Numbers(v) # {}, [num |-> ToNumber(v)], 1)
       [] T.t = "variant" ->
            Answer(fit # {}, [alternative |-> Max(fit), value |-> GetOf(T.of[Max(fit)], vals)],
                   IF fit = {} THEN Len(T.of) ELSE Len(T.of) - Max(fit) + 1)
       [] T.t \in Containers -> Answer(FALSE, None, 1)
       [] T.t = "shared" -> Answer(Is(v, "userdata") /\ v.userdata = T.class /\ v.stored = "shared", GetOf(T, vals), 1)
       [] OTHER -> Answer(Checks(T, vals), GetOf(T, vals), Size(T))

--------------------------------------------------------------------------------
(* The values a program sends and finds. *)

(* What a Lua value is as a T: nothing, or the values a reader may take it for. *)
Listed(f) ==
  LET n == Max({k \in 0 .. Cardinality(DOMAIN f) : \A i \in 1 .. k : At(f, i) # Nil})
  IN (IF At(f, 0) = Nil THEN <<>> ELSE <<At(f, 0)>>) \o [i \in 1 .. n |-> At(f, i)]

KeyOf(K, k) == Is(k, "string") /\ K.t # "string" => "strings_are_numbers" \in build

RECURSIVE Means(_, _)
Means(T, v) ==
  LET one(U, w) == CHOOSE x \in Means(U, w) : TRUE
      all(s) == IF \E i \in DOMAIN s : Means(T.of, s[i]) = {} THEN {}
                ELSE {[items |-> [i \in DOMAIN s |-> one(T.of, s[i])]]}
  IN CASE T.t = "integral" -> {Cast(T, n) : n \in Whole(v)}
       [] T.t = "enum" -> {Cast(Enum, n) : n \in Whole(v)}
       [] T.t = "number" -> {[num |-> h] : h \in Numbers(v)}
       [] T.t = "bool" -> IF Is(v, "boolean") THEN {[bool |-> v.boolean]} ELSE {}
       [] T.t = "string" -> IF Is(v, "string") THEN {[str |-> v.string]} ELSE {}
       [] T.t = "optional" -> IF v = Nil THEN {None} ELSE Means(T.of, v)
       [] T.t = "variant" ->
            UNION {{[alternative |-> i, value |-> x] : x \in Means(T.of[i], v)} : i \in DOMAIN T.of}
       [] T.t = "exhaustive" -> Means(T.of, v)
       [] T.t \in Containers /\ ~Is(v, "table") -> {}
       [] T.t = "sequence" -> all(Listed(v.table))
       [] T.t = "array" ->
            IF Len(Listed(v.table)) < T.size THEN {} ELSE all(SubSeq(Listed(v.table), 1, T.size))
       [] T.t = "map" ->
            LET keys == {k \in DOMAIN v.table : Means(T.key, k) # {} /\ KeyOf(T.key, k)}
            IN IF \E k \in keys : Means(T.of, v.table[k]) = {} THEN {}
               ELSE {[entries |-> {<<one(T.key, k), one(T.of, v.table[k])>> : k \in keys}]}
       [] T.t \in {"tuple", "pair"} -> {}
       [] v = Nil -> IF T.t = "pointer" THEN {Null} ELSE {}
       [] ~Is(v, "userdata") -> {}
       [] v.userdata = T.class -> {[at |-> v.at]}
       [] T.class \in Bases[v.userdata] -> {[at |-> v.at + Offset[v.userdata][T.class]]}
       [] OTHER -> {}

(* The corners a value is in when it is asked for as a T. *)
RECURSIVE CornersAmong(_, _)
CornersAmong(T, vals) ==
  LET v == Head(vals)
      elements == IF T.t \in Containers /\ Is(v, "table") /\ Size(T.of) = 1
                  THEN IF T.t = "map" THEN {v.table[k] : k \in {k \in DOMAIN v.table : Checks(T.key, <<k>>)}}
                       ELSE ToSet(Listed(v.table))
                  ELSE IF T.t = "optional" THEN {v} \ {Nil}
                  ELSE {}
      is(c, corner) == IF c THEN {corner} ELSE {}
  IN is(T.t \in {"integral", "enum"} /\ Numbers(v) # {} /\ Whole(v) = {}
        /\ ~(T.t = "integral" /\ "precision" \in build), "fraction")
     \cup is(T.t = "variant" /\ Cardinality({i \in DOMAIN T.of : Checks(T.of[i], vals)}) > 1, "overlap")
     \cup is(T.t \in {"sequence", "array"} /\ Size(T.of) > 1, "several_values")
     \cup is(T.t # "optional" /\ \E e \in elements : ~Checks(T.of, <<e>>), "loose_elements")
     \cup is(T.t = "array" /\ Is(v, "table") /\ Len(Listed(v.table)) < T.size, "short_table")
     \cup is(T.t = "exhaustive" /\ ~Is(v, "table"), "exhaustive_scalar")
     \cup is(T.t = "shared" /\ Is(v, "userdata") /\ v.stored # "shared", "shared_over_value")
     \cup is(T.t = "shared" /\ Is(v, "userdata") /\ Offset[v.userdata][T.class] # 0, "shared_base")
     \cup is(T.t = "handle" /\ ~(Is(v, "userdata") /\ v.stored = "handle"), "handle_of_another")
     \cup UNION {CornersAmong(T.of, <<e>>) : e \in elements}
     \cup (IF T.t = "variant" THEN UNION {CornersAmong(T.of[i], vals) : i \in DOMAIN T.of} ELSE {})

(* Numbers of the widest unsigned type that Lua's integers do not hold, and      *)
(* empty optionals between the elements of a container.                         *)
CornersSent(T, v) ==
  LET p == PushOf(T, v)
      unfit == \/ ~p.ok /\ p.vals # <<>>
               \/ T.t = "integral" /\ ~IntegerValueFits(T, v.int) /\ "precision" \notin build
      holes == T.t \in Containers /\ T.of.t = "optional"
               /\ None \in (IF T.t = "map" THEN {e[2] : e \in v.entries} ELSE ToSet(v.items))
  IN (IF unfit THEN {"unfit"} ELSE {}) \cup (IF holes THEN {"holes"} ELSE {})
     \cup (IF T.t \in {"shared", "handle"} /\ v = Null THEN {"empty_smart_pointer"} ELSE {})
     \cup (IF p.ok THEN CornersAmong(T, p.vals) ELSE {})

ValueInit ==
  /\ \E p \in Programs : build = p[1] /\ registry = p[2]
  /\ missing = 0 /\ told = [q \in Questions |-> Unasked]
  /\ \/ \E s \in Sent :
          /\ type = s[1] /\ sent = s[2] /\ found = <<>>
          /\ CornersSent(s[1], s[2]) \subseteq ValueCorners
     \/ \E s \in Found :
          /\ type = s[1] /\ sent = Nothing /\ found = <<s[2]>>
          /\ CornersAmong(s[1], <<s[2]>>) \subseteq ValueCorners
  /\ slots = found

--------------------------------------------------------------------------------
(* Steps *)

Tells(question, answer) == told[question] = Unasked /\ told' = [told EXCEPT ![question] = answer]

(* A sequence of several values pops what it never pushed. *)
Popped == IF type.t \in {"sequence", "array"} /\ Is(Head(slots), "table")
          THEN Overpopped(Head(slots).table, Size(type.of)) ELSE 0

(* lua_tolstring writes the string it makes of a number over the number. *)
Overwritten == IF type.t = "string" /\ IsNumber(Head(slots))
               THEN <<[string |-> ToNumber(Head(slots))]>> ELSE slots

MayGet == told["check"].ok \/ "unchecked" \in ValueCorners

PushValue ==
  /\ sent # Nothing /\ told["push"] = Unasked
  /\ LET p == PushOf(type, sent) IN
       /\ Tells("push", [ok |-> p.ok, value |-> None, used |-> Len(p.vals)])
       /\ IF p.ok THEN found' = p.vals /\ slots' = p.vals /\ UNCHANGED missing
          ELSE missing' = missing + Len(p.vals) /\ UNCHANGED <<found, slots>>
  /\ UNCHANGED <<build, registry, type, sent>>

AskCheck ==
  /\ slots # <<>>
  /\ Tells("check", IF CheckCrashes(type, Head(slots)) THEN Crashed
                    ELSE Answer(Checks(type, slots), None, CheckUses(type, slots)))
  /\ UNCHANGED <<build, registry, type, sent, found, slots, missing>>

AskGet ==
  /\ slots # <<>> /\ MayGet
  /\ Tells("get", Answer(TRUE, GetOf(type, slots), Size(type)))
  /\ slots' = Overwritten /\ missing' = missing + Popped
  /\ UNCHANGED <<build, registry, type, sent, found>>

AskCheckGet ==
  /\ slots # <<>> /\ ~CheckCrashes(type, Head(slots))
  /\ Tells("check_get", CheckGet(type, slots))
  /\ missing' = missing + (IF Checks(type, slots) THEN Popped ELSE 0)
  /\ UNCHANGED <<build, registry, type, sent, found, slots>>

AskUnqualified ==
  /\ slots # <<>> /\ ~CheckCrashes(type, Head(slots))
  /\ type.t = "variant" => "variant_record" \in ValueCorners
  /\ Tells("unqualified", UnqualifiedCheckGet(type, slots))
  /\ UNCHANGED <<build, registry, type, sent, found, slots, missing>>

(* stack::pop: as many slots as the getter used. *)
Pop ==
  /\ slots # <<>> /\ MayGet
  /\ Tells("pop", Answer(TRUE, GetOf(type, slots), Size(type)))
  /\ slots' = SubSeq(slots, 1, Len(slots) - Size(type)) /\ missing' = missing + Popped
  /\ UNCHANGED <<build, registry, type, sent, found>>

ValueDone ==
  /\ told["check"] # Unasked \/ told["pop"] # Unasked \/ (told["push"] # Unasked /\ slots = <<>>)
  /\ UNCHANGED valueVars

ValueNext == PushValue \/ AskCheck \/ AskGet \/ AskCheckGet \/ AskUnqualified \/ Pop \/ ValueDone

ValueSpec == ValueInit /\ [][ValueNext]_valueVars
--------------------------------------------------------------------------------

Readings == {q \in {"get", "check_get", "unqualified", "pop"} : told[q].ok}

(* What C++ pushes it can read: a value that was not refused is read back as it  *)
(* was by whatever reads it, and if Lua has that value, it is not refused and is  *)
(* accepted by its check.                                                         *)
RoundTrips ==
  LET held == type.t = "integral" => FitsLua(sent.int) \/ "all_fit" \in build IN
  sent # Nothing =>
    /\ \A q \in Readings : told[q].value = sent
    /\ held /\ told["push"] # Unasked => told["push"].ok
    /\ held /\ told["check"] # Unasked => told["check"].ok

(* What is read of a Lua value is that value as the C++ type has it (an integer   *)
(* reduced to its width, an object the part of the base asked for), no question   *)
(* crashes, a checked reading answers when the check does, with what get reads,   *)
(* and the bases a class was registered with are accepted.                        *)
AnswersFit ==
  LET asked(q) == told[q] # Unasked IN
  /\ sent = Nothing => \A q \in Readings : told[q].value \in Means(type, Head(found))
  /\ Crashed \notin {told[q] : q \in Questions}
  /\ asked("check") /\ asked("check_get") => told["check"].ok = told["check_get"].ok
  /\ asked("check") /\ asked("unqualified") /\ type.t \notin Containers \cup {"shared"} =>
       (told["check"].ok => told["unqualified"].ok)
  /\ \A p, q \in Readings : told[p].value = told[q].value
  /\ type.t = "pointer" /\ asked("check") /\ Is(Head(found), "userdata") =>
       (type.class \in registry[Head(found).userdata] => told["check"].ok)

(* Asking changes nothing: the values stay as they came until they are popped, no *)
(* slot is lost or left behind, and each question counts the slots the value has. *)
LeftAlone ==
  /\ missing = 0
  /\ slots = IF told["pop"] = Unasked THEN found ELSE <<>>
  /\ \A q \in Questions \ {"push"} :
       told[q] # Unasked /\ (type.t = "exhaustive" => "exhaustive_before" \in ValueCorners) =>
         told[q].used = Size(type)
  /\ told["push"].ok => told["push"].used = Size(type)
================================================================================

------------------------------ MODULE Arguments ------------------------------
(* The arguments of one call from Lua: how sol2 checks a list of parameter   *)
(* types against the values on the stack and how it reads them, each walk    *)
(* keeping a record of the slots it used so far (stack::record).             *)
(* A value is its kind, a parameter type its name, with the types inside it  *)
(* for optional, pair and variant.                                           *)
EXTENDS Integers, SequencesExt

\* "none" is the kind of a slot above the top of the stack; "class" is the
\* table of a class, "bare" a userdata without a metatable, "D" an object of
\* a class derived from T, "u" a T in a unique_ptr.
ClassKinds == {"T", "D", "u"}
UserdataKinds == ClassKinds \cup {"bare", "other", "file"}
TableKinds == {"table", "callable", "class"}
ArgumentKinds == {"nil", "bool", "int", "frac", "str", "fun"} \cup UserdataKinds \cup TableKinds

Plain(n) == [name |-> n, of |-> << >>]
Optional(n) == [name |-> "optional", of |-> <<n>>]
Pair(m, n) == [name |-> "pair", of |-> <<m, n>>]
Variant(m, n) == [name |-> "variant", of |-> <<m, n>>]

\* Parameters that take no argument of their own.
Transparent == {"this_state", "variadic_args"}

\* References into Lua.
References == {"object", "function", "table", "lua_table"}

\* A parameter takes one type, or has types inside that take a slot each.
SimpleTypes == Transparent \cup References \cup
    {"bool", "integer", "number", "string", "nil", "stream", "class", "class*", "unique"}
InnerTypes == SimpleTypes \ (Transparent \cup {"stream"})
Parameters ==
    {Plain(n) : n \in SimpleTypes} \cup {Optional(n) : n \in InnerTypes} \cup
    {Pair(m, n) : m, n \in InnerTypes} \cup {Variant(m, n) : m, n \in InnerTypes}

KindAt(s, i) == IF i \in DOMAIN s THEN s[i].kind ELSE "none"

\* The kinds the checkers of classes let through: a userdata without metatable
\* passes for everything, a pointer may be nil.
AcceptsObject(name) ==
    CASE name = "class" -> ClassKinds \cup {"bare"}
      [] name = "class*" -> ClassKinds \cup {"bare", "nil"}
      [] name = "unique" -> {"u", "bare"}

\* The kinds the checkers of references into Lua let through.
AcceptsReference(name) ==
    CASE name = "object" -> ArgumentKinds \cup {"none"}
      [] name = "function" -> {"nil", "none", "fun", "callable"}
      [] name = "table" -> TableKinds \cup UserdataKinds
      [] name = "lua_table" -> TableKinds

\* The kinds the checker of a simple type lets through.
Accepts(name) ==
    CASE name \in Transparent -> ArgumentKinds \cup {"none"}
      [] name \in References -> AcceptsReference(name)
      [] name = "bool" -> {"bool"}
      [] name = "integer" -> {"int"}
      [] name = "number" -> {"int", "frac"}
      [] name = "string" -> {"str"}
      [] name = "nil" -> {"nil", "none"}
      [] name = "stream" -> {}
      [] OTHER -> AcceptsObject(name)

\* The slots a simple type uses up once it is checked. The checker of a stream
\* never says that it used one.
Share(name, kind) ==
    CASE name \in Transparent \cup {"stream"} -> 0
      [] name = "nil" -> IF kind = "nil" THEN 1 ELSE 0
      [] OTHER -> 1

\* The checker of a stream compares the value's metatable with the one of
\* files: having refused any value but a table it pops one of the two.
Leftover(name, kind) ==
    IF name = "stream" /\ kind \in (UserdataKinds \ {"bare"}) \cup {"str"}
    THEN <<[kind |-> "table", from |-> -1]>> ELSE << >>

-----------------------------------------------------------------------------
(* Checking. A walk is [ok, used, left, silent]: what was found, the slots   *)
(* used, what the checks left on the stack, and whether the check that       *)
(* failed reported to nobody.                                                *)
Walked(ok, used, left, silent) == [ok |-> ok, used |-> used, left |-> left, silent |-> silent]
Walk == Walked(TRUE, 0, << >>, FALSE)

CheckOne(w, name, s, i) ==
    LET k == KindAt(s, i)
    IN  Walked(k \in Accepts(name), w.used + Share(name, k), w.left \o Leftover(name, k), w.silent)

\* An optional takes nil and nothing; anything else must pass the check of its
\* value, which reports to no_panic, not to the handler of the call.
CheckOptional(w, name, s, i) ==
    CASE KindAt(s, i) = "none" -> w
      [] KindAt(s, i) = "nil" -> Walked(w.ok, w.used + 1, w.left, w.silent)
      [] OTHER -> LET c == CheckOne(w, name, s, i) IN Walked(c.ok, c.used, c.left, ~c.ok)

\* The two of a pair are checked as a list of parameters of their own, from
\* the pair's index, but with the record of the whole list.
CheckPair(w, of, s, i) ==
    LET first == CheckOne(w, of[1], s, i + w.used)
    IN  IF first.ok THEN CheckOne(first, of[2], s, i + first.used) ELSE first

\* The last alternative of a variant is tried first.
CheckVariant(w, of, s, i) ==
    LET last == CheckOne(w, of[2], s, i)
        first == CheckOne(w, of[1], s, i)
    IN  IF last.ok THEN last
        ELSE IF first.ok THEN first
        ELSE Walked(FALSE, w.used + 1, w.left, w.silent)

CheckParameter(w, p, s, i) ==
    CASE p.name = "optional" -> CheckOptional(w, p.of[1], s, i)
      [] p.name = "pair" -> CheckPair(w, p.of, s, i)
      [] p.name = "variant" -> CheckVariant(w, p.of, s, i)
      [] OTHER -> CheckOne(w, p.name, s, i)

\* The first parameter that fails ends the walk.
CheckNext(w, p, s, start) == IF w.ok THEN CheckParameter(w, p, s, start + w.used) ELSE w

CheckTypes(sig, s, start) ==
    LET walk[n \in 0 .. Len(sig)] ==
          IF n = 0 THEN Walk ELSE CheckNext(walk[n - 1], sig[n], s, start)
    IN  walk[Len(sig)]

-----------------------------------------------------------------------------
(* Reading. Nothing is checked: a parameter gets the slots its getter looks  *)
(* at, as the arguments they came from.                                      *)
FromAt(s, i) == IF i \in DOMAIN s THEN s[i].from ELSE -1

\* Mutant: an optional uses a slot only if it finds a value there.
GetShareValue(p, k) ==
    IF \/ p.name \in Transparent \cup {"stream"}
       \/ p.name = "optional" /\ k \in {"nil", "none"}
    THEN 0 ELSE 1

\* Every getter of a simple type uses one slot, whatever is there. The one of an
\* optional uses it unless there is none; if its value is a reference, unless
\* there is a value.
GetShare(p, k) ==
    CASE p.name \in Transparent \cup {"stream"} -> 0
      [] p.name = "optional" ->
            IF k \in (IF p.of[1] \in References THEN Accepts(p.of[1]) \ {"nil", "none"}
                     ELSE ArgumentKinds)
            THEN 1 ELSE 0
      [] OTHER -> 1

\* The second of a pair is read from the pair's index and the record of the
\* whole list; variadic_args takes everything up to the top of the stack.
GetParameter(r, p, s, i) ==
    LET slots == CASE p.name = "variadic_args" -> [j \in 1 .. (Len(s) - i + 1) |-> FromAt(s, i + j - 1)]
                   [] p.name = "this_state" -> << >>
                   [] p.name = "pair" -> <<FromAt(s, i), FromAt(s, i + r.used + 1)>>
                   [] OTHER -> <<FromAt(s, i)>>
    IN  [used |-> r.used + (IF p.name = "pair" THEN 2 ELSE GetShare(p, KindAt(s, i))),
         got |-> Append(r.got, slots)]

NoSlots == [used |-> 0, got |-> << >>]

GetTypes(sig, s, start) ==
    LET reading[n \in 0 .. Len(sig)] ==
          IF n = 0 THEN NoSlots
          ELSE GetParameter(reading[n - 1], sig[n], s, start + reading[n - 1].used)
    IN  reading[Len(sig)].got

-----------------------------------------------------------------------------
(* Arity: what a candidate of an overload set must be called with.           *)
Width(p) == CASE p.name \in Transparent -> 0 [] p.name = "pair" -> 2 [] OTHER -> 1
ArityOfFirst(sig, m) ==
    LET sum[n \in 0 .. Len(sig)] == IF n = 0 THEN 0 ELSE sum[n - 1] + Width(sig[n])
    IN  sum[m]
FreeArity(sig) == ArityOfFirst(sig, Len(sig))
RuntimeVariadics(sig) == \E i \in DOMAIN sig : sig[i].name \in {"optional", "variadic_args"}
=============================================================================

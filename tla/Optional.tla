-------------------------------- MODULE Optional -------------------------------
(***************************************************************************)
(* optional<T>: a flag and storage that holds a T while the flag is set, or  *)
(* the T& specialization, a pointer.  The optionals of Opts and Others have  *)
(* types that convert, Others' to Opts'; T counts the objects constructed    *)
(* and destroyed, its copies may throw and its moves do not.                 *)
(***************************************************************************)
EXTENDS Integers, FiniteSets, Functions, TLC

CONSTANTS
  Opts, Others, Refs,  \* optionals of T, of U, and of T&
  Values,              \* what a T can be, ordered; for a reference, the variable referred to
  Moved,               \* the value moved from
  Nothing, Gone,       \* no value, no optional
  Corners              \* corner cases the program is assumed to perform

OptionalCorners ==
  {"swap_one_empty", "convert_assign_engaged", "convert_move_empty",
   "ref_convert_empty", "ref_convert_assign_empty"}

Owners == Opts \cup Others
Optionals == Owners \cup Refs

ASSUME OptionalAssumption ==
  /\ Values \subseteq Nat \ {0} /\ Values # {} /\ Moved = 0
  /\ Opts \cap Others = {} /\ Owners \cap Refs = {} /\ IsFiniteSet(Owners)
  /\ Nothing \notin Int /\ Gone \notin Int /\ Nothing # Gone
  /\ Corners \subseteq OptionalCorners

VARIABLES
  mem,     \* the optionals that own: whether they are alive, their flag and storage; the objects' balance
  ptr,     \* what the optionals of T& refer to
  ended    \* the program has terminated

vars == <<mem, ptr, ended>>

Held == Values \cup {Moved}
Dead == Nothing   \* storage in which no object lives

Ways == {"copy", "move"}
Relations == {"==", "!=", "<", "<=", ">", ">="}

Alive(o) == mem.alive[o]
Free(t) == ~mem.alive[t]

--------------------------------------------------------------------------------
(* What the operations do to the memory *)

(* optional_operations_base *)
Built(m, o, v) ==
  [alive |-> m.alive, has |-> [m.has EXCEPT ![o] = TRUE],
   store |-> [m.store EXCEPT ![o] = v], balance |-> m.balance + 1]

(* A destructor runs on whatever the storage holds. *)
Unbuilt(m, o) == [m EXCEPT !.store[o] = Dead, !.balance = @ - 1]

(* Mutant: the flag stays. *)
ResetKeeping(m, o) == IF m.has[o] THEN Unbuilt(m, o) ELSE m

Reset(m, o) == IF m.has[o] THEN [Unbuilt(m, o) EXCEPT !.has[o] = FALSE] ELSE m

(* The source after its value was copied, or moved away. *)
Given(m, o, how) == IF how = "move" THEN [m EXCEPT !.store[o] = Moved] ELSE m

(* Mutant: an engaged optional takes the value over an old one that is never destroyed. *)
AssignedOver(m, o, p, how) ==
  IF m.has[p] THEN Given(Built(m, o, m.store[p]), p, how) ELSE Reset(m, o)

(* assign *)
Assigned(m, o, p, how) ==
  IF m.has[p] /\ m.has[o] THEN Given([m EXCEPT !.store[o] = m.store[p]], p, how)
  ELSE IF m.has[p] THEN Given(Built(m, o, m.store[p]), p, how)
  ELSE Reset(m, o)

(* operator=(optional<U>): the construction is not an alternative to the assignment. *)
ConvertAssigned(m, o, u, how) ==
  LET m1 == IF m.has[o] THEN Assigned(m, o, u, how) ELSE m
  IN IF m1.has[u] THEN Given(Built(m1, o, m1.store[u]), u, how) ELSE m1

Began(m, t) ==
  [alive |-> [m.alive EXCEPT ![t] = TRUE], has |-> [m.has EXCEPT ![t] = FALSE],
   store |-> [m.store EXCEPT ![t] = Dead], balance |-> m.balance]

New(m, t, v) == Built(Began(m, t), t, v)

Copied(m, t, o, how) == IF m.has[o] THEN Given(New(m, t, m.store[o]), o, how) ELSE Began(m, t)

(* swap: values that change places, or one that moves. *)
Swapped(m, o, p) ==
  LET moved(from, to) == Unbuilt([m EXCEPT !.store[to] = m.store[from], !.balance = @ + 1], from)
  IN IF m.has[o] /\ m.has[p] THEN [m EXCEPT !.store[o] = m.store[p], !.store[p] = m.store[o]]
     ELSE IF m.has[o] THEN moved(o, p)
     ELSE IF m.has[p] THEN moved(p, o)
     ELSE m

Died(m, o) == [Reset(m, o) EXCEPT !.alive[o] = FALSE]

--------------------------------------------------------------------------------
(* How a call ends *)

Does(next) == mem' = next /\ UNCHANGED <<ptr, ended>>
Throws == UNCHANGED vars

(* construct is noexcept. *)
Terminates == ended' = TRUE /\ UNCHANGED <<mem, ptr>>

(* A copy of what o holds may throw, into construct or past it. *)
CopyFails(o, how, within) ==
  /\ how = "copy" /\ mem.has[o]
  /\ IF within THEN Terminates ELSE Throws

--------------------------------------------------------------------------------
(* optional<T> *)

MakeEmpty(t) == Free(t) /\ Does(Began(mem, t))

Make(t, v) == Free(t) /\ (Does(New(mem, t, v)) \/ Throws \/ Terminates)

CopyConstruct(t, o, how) ==
  /\ Free(t) /\ Alive(o)
  /\ Does(Copied(mem, t, o, how)) \/ CopyFails(o, how, TRUE)

(* optional(optional<U>&&) does not ask the source. *)
ConvertConstruct(t, u, how) ==
  /\ Free(t) /\ Alive(u)
  /\ \/ Does(Copied(mem, t, u, how))
     \/ CopyFails(u, how, TRUE)
     \/ /\ ~mem.has[u] /\ how = "move" /\ "convert_move_empty" \in Corners
        /\ Does(Given(New(mem, t, mem.store[u]), u, how))

Destroy(o) == Alive(o) /\ Does(Died(mem, o))

Clear(o) == Alive(o) /\ Does(Reset(mem, o))

Set(o, v) ==
  /\ Alive(o)
  /\ \/ Does(IF mem.has[o] THEN [mem EXCEPT !.store[o] = v] ELSE Built(mem, o, v))
     \/ IF mem.has[o] THEN Throws ELSE Terminates

Assign(o, p, how) ==
  /\ Alive(o) /\ Alive(p) /\ (how = "move" => o # p)
  /\ Does(Assigned(mem, o, p, how)) \/ CopyFails(p, how, ~mem.has[o])

ConvertAssign(o, u, how) ==
  /\ Alive(o) /\ Alive(u)
  /\ mem.has[o] /\ mem.has[u] => "convert_assign_engaged" \in Corners
  /\ Does(ConvertAssigned(mem, o, u, how)) \/ CopyFails(u, how, ~mem.has[o])

Emplace(o, v) ==
  /\ Alive(o)
  /\ Does(Built(Reset(mem, o), o, v)) \/ Terminates

Swap(o, p) ==
  /\ Alive(o) /\ Alive(p)
  /\ mem.has[o] # mem.has[p] => "swap_one_empty" \in Corners
  /\ Does(Swapped(mem, o, p))

Take(t, o, how) ==
  /\ Free(t) /\ Alive(o)
  /\ Does(Reset(Copied(mem, t, o, how), o)) \/ CopyFails(o, how, TRUE)

(* Mutant: the other one is preferred. *)
DisjunctionOther(t, o, p, how, howp) ==
  /\ Free(t) /\ Alive(o) /\ Alive(p)
  /\ \/ ~mem.has[p] /\ (Does(Copied(mem, t, o, how)) \/ CopyFails(o, how, TRUE))
     \/ mem.has[p] /\ (Does(Copied(mem, t, p, howp)) \/ CopyFails(p, howp, TRUE))

Disjunction(t, o, p, how, howp) ==
  /\ Free(t) /\ Alive(o) /\ Alive(p)
  /\ \/ mem.has[o] /\ (Does(Copied(mem, t, o, how)) \/ CopyFails(o, how, TRUE))
     \/ ~mem.has[o] /\ (Does(Copied(mem, t, p, howp)) \/ CopyFails(p, howp, TRUE))

Conjunction(t, o, v) ==
  /\ Free(t) /\ Alive(o)
  /\ IF mem.has[o] THEN Does(New(mem, t, v)) \/ Throws ELSE Does(Began(mem, t))

(* The function called on an empty optional returns void or an optional that holds h. *)
OrElse(t, o, how, h) ==
  /\ Free(t) /\ Alive(o)
  /\ IF mem.has[o] THEN Does(Copied(mem, t, o, how)) \/ CopyFails(o, how, TRUE)
     ELSE Does(IF h = Nothing THEN Began(mem, t) ELSE New(mem, t, h)) \/ Throws

(* The function called on the value returns an optional that holds it, or is empty. *)
AndThen(t, o, how, keeps) ==
  /\ Free(t) /\ Alive(o)
  /\ IF mem.has[o] /\ keeps THEN Does(Given(New(mem, t, mem.store[o]), o, how)) \/ Throws
     ELSE Does(Began(mem, t))

Map(t, o, how) == AndThen(t, o, how, TRUE)

(* map_or and map_or_else: the function may move the value out. *)
MapOr(o, how) == Alive(o) /\ (Does(IF mem.has[o] THEN Given(mem, o, how) ELSE mem) \/ Throws)

--------------------------------------------------------------------------------
(* optional<T&> *)

Bound(o) == ptr[o] # Gone
Unbound(t) == ptr[t] = Gone

Binds(next) == ptr' = next /\ UNCHANGED <<mem, ended>>

RefMakeEmpty(t) == Unbound(t) /\ Binds([ptr EXCEPT ![t] = Nothing])
RefMake(t, v) == Unbound(t) /\ Binds([ptr EXCEPT ![t] = v])
RefCopy(t, o) == Unbound(t) /\ Bound(o) /\ Binds([ptr EXCEPT ![t] = ptr[o]])
RefDestroy(o) == Bound(o) /\ Binds([ptr EXCEPT ![o] = Gone])

(* optional(const optional<U>&) does not ask the source: *rhs of an empty one *)
(* is undefined, and may be any variable or none.                             *)
RefConvert(t, o) ==
  /\ Unbound(t) /\ Bound(o)
  /\ \/ ptr[o] # Nothing /\ Binds([ptr EXCEPT ![t] = ptr[o]])
     \/ /\ ptr[o] = Nothing /\ "ref_convert_empty" \in Corners
        /\ \E v \in Values \cup {Nothing} : Binds([ptr EXCEPT ![t] = v])

RefClear(o) == Bound(o) /\ Binds([ptr EXCEPT ![o] = Nothing])
RefSet(o, v) == Bound(o) /\ Binds([ptr EXCEPT ![o] = v])
RefAssign(o, p) == Bound(o) /\ Bound(p) /\ Binds([ptr EXCEPT ![o] = ptr[p]])

(* operator=(const optional<U>&): rhs.value() throws. *)
RefConvertAssign(o, p) ==
  /\ Bound(o) /\ Bound(p)
  /\ ptr[p] = Nothing => "ref_convert_assign_empty" \in Corners
  /\ IF ptr[p] = Nothing THEN Throws ELSE Binds([ptr EXCEPT ![o] = ptr[p]])

RefSwap(o, p) == Bound(o) /\ Bound(p) /\ Binds([ptr EXCEPT ![o] = ptr[p], ![p] = ptr[o]])

RefTake(t, o) == Unbound(t) /\ Bound(o) /\ Binds([ptr EXCEPT ![t] = ptr[o], ![o] = Nothing])

RefDisjunction(t, o, p) ==
  /\ Unbound(t) /\ Bound(o) /\ Bound(p)
  /\ Binds([ptr EXCEPT ![t] = IF ptr[o] # Nothing THEN ptr[o] ELSE ptr[p]])

(* What these return is an optional<T>. *)
RefConjunction(t, o, v) ==
  /\ Free(t) /\ Bound(o)
  /\ IF ptr[o] # Nothing THEN Does(New(mem, t, v)) \/ Throws ELSE Does(Began(mem, t))

RefOrElse(t, o, h) ==
  /\ Free(t) /\ Bound(o)
  /\ IF ptr[o] # Nothing THEN Does(New(mem, t, ptr[o])) \/ Terminates
     ELSE Does(IF h = Nothing THEN Began(mem, t) ELSE New(mem, t, h)) \/ Throws

RefAndThen(t, o, keeps) ==
  /\ Free(t) /\ Bound(o)
  /\ IF ptr[o] # Nothing /\ keeps THEN Does(New(mem, t, ptr[o])) \/ Throws
     ELSE Does(Began(mem, t))

--------------------------------------------------------------------------------
(* What the program reads; the order of T is that of the numbers. *)

(* An optional as the operators see it: has_value and operator*. *)
Seen(o) == IF o \in Refs THEN [has |-> ptr[o] # Nothing, val |-> ptr[o]]
           ELSE [has |-> mem.has[o], val |-> mem.store[o]]

ValueOr(o, v) == IF Seen(o).has THEN Seen(o).val ELSE v

Holds(op, a, b) ==
  CASE op = "==" -> a = b [] op = "!=" -> a # b [] op = "<" -> a < b
    [] op = "<=" -> a <= b [] op = ">" -> a > b [] op = ">=" -> a >= b

(* Mutant: an empty left side is less than an empty right side. *)
CompareEmptyLess(op, l, r) ==
  CASE op = "==" -> l.has = r.has /\ (~l.has \/ l.val = r.val)
    [] op = "!=" -> l.has # r.has \/ (l.has /\ l.val # r.val)
    [] op = "<" -> ~l.has \/ (r.has /\ l.val < r.val)
    [] op = ">" -> l.has /\ (~r.has \/ l.val > r.val)
    [] op = "<=" -> ~l.has \/ (r.has /\ l.val <= r.val)
    [] op = ">=" -> ~r.has \/ (l.has /\ l.val >= r.val)

Compare(op, l, r) ==
  CASE op = "==" -> l.has = r.has /\ (~l.has \/ l.val = r.val)
    [] op = "!=" -> l.has # r.has \/ (l.has /\ l.val # r.val)
    [] op = "<" -> r.has /\ (~l.has \/ l.val < r.val)
    [] op = ">" -> l.has /\ (~r.has \/ l.val > r.val)
    [] op = "<=" -> ~l.has \/ (r.has /\ l.val <= r.val)
    [] op = ">=" -> ~r.has \/ (l.has /\ l.val >= r.val)

(* o op nullopt, nullopt op o *)
CompareNull(op, l) ==
  CASE op \in {"==", "<="} -> ~l.has [] op \in {"!=", ">"} -> l.has
    [] op = "<" -> FALSE [] op = ">=" -> TRUE

NullCompare(op, r) ==
  CASE op \in {"==", ">="} -> ~r.has [] op \in {"!=", "<"} -> r.has
    [] op = ">" -> FALSE [] op = "<=" -> TRUE

(* o op v, v op o *)
CompareValue(op, l, v) == IF l.has THEN Holds(op, l.val, v) ELSE op \in {"!=", "<", "<="}
ValueCompare(op, v, r) == IF r.has THEN Holds(op, v, r.val) ELSE op \in {"!=", ">", ">="}

--------------------------------------------------------------------------------

Init ==
  /\ mem = [alive |-> [o \in Owners |-> FALSE], has |-> [o \in Owners |-> FALSE],
            store |-> [o \in Owners |-> Dead], balance |-> 0]
  /\ ptr = [r \in Refs |-> Gone] /\ ended = FALSE

OwnerNext ==
  \/ \E o \in Owners : MakeEmpty(o) \/ Destroy(o) \/ Clear(o)
  \/ \E o \in Owners, v \in Values : Make(o, v) \/ Set(o, v) \/ Emplace(o, v)
  \/ \E o \in Owners, how \in Ways : MapOr(o, how)
  \/ \E o \in Opts, u \in Others, how \in Ways :
       ConvertConstruct(o, u, how) \/ ConvertAssign(o, u, how)
  \/ \E o, p \in Opts : Swap(o, p)
  \/ \E o, p \in Opts, how \in Ways : \/ CopyConstruct(o, p, how) \/ Assign(o, p, how)
                                       \/ Take(o, p, how) \/ Map(o, p, how)
  \/ \E t, o, p \in Opts, how, howp \in Ways : Disjunction(t, o, p, how, howp)
  \/ \E t, o \in Owners, v \in Values : Conjunction(t, o, v)
  \/ \E t, o \in Opts, how \in Ways, h \in Values \cup {Nothing} : OrElse(t, o, how, h)
  \/ \E t, o \in Opts, how \in Ways, keeps \in BOOLEAN : AndThen(t, o, how, keeps)

RefNext ==
  \/ \E r \in Refs : RefMakeEmpty(r) \/ RefDestroy(r) \/ RefClear(r)
  \/ \E r \in Refs, v \in Values : RefMake(r, v) \/ RefSet(r, v)
  \/ \E r, q \in Refs : \/ RefCopy(r, q) \/ RefConvert(r, q) \/ RefAssign(r, q)
                        \/ RefConvertAssign(r, q) \/ RefSwap(r, q) \/ RefTake(r, q)
  \/ \E t, o, p \in Refs : RefDisjunction(t, o, p)
  \/ \E t \in Opts, r \in Refs, v \in Values : RefConjunction(t, r, v)
  \/ \E t \in Opts, r \in Refs, h \in Values \cup {Nothing} : RefOrElse(t, r, h)
  \/ \E t \in Opts, r \in Refs, keeps \in BOOLEAN : RefAndThen(t, r, keeps)

Next == ~ended /\ (OwnerNext \/ RefNext)

Spec == Init /\ [][Next]_vars

--------------------------------------------------------------------------------

TypeOK ==
  /\ mem \in [alive : [Owners -> BOOLEAN], has : [Owners -> BOOLEAN],
              store : [Owners -> Held \cup {Dead}], balance : Int]
  /\ ptr \in [Refs -> Values \cup {Nothing, Gone}]
  /\ ended \in BOOLEAN

(* The flag of a living optional says whether an object lives in its storage,  *)
(* and what is not alive holds none: no destructor runs on raw storage and no  *)
(* object is left behind (optional_storage_base, construct, hard_reset).       *)
FlagsTellLifetimes ==
  \A o \in Owners : /\ mem.has[o] <=> mem.store[o] # Dead
                    /\ mem.has[o] => mem.alive[o]

(* Every T that was constructed was destroyed once, or is the one an engaged   *)
(* optional holds, whatever was assigned, swapped, taken or thrown.            *)
EachDestroyedOnce == mem.balance = Cardinality({o \in Owners : mem.has[o]})

holds == [o \in Optionals |-> IF o \in Refs THEN ptr[o]
                             ELSE IF mem.alive[o] THEN mem.store[o] ELSE Gone]

Contract == INSTANCE Maybe

EmptyingPromise ==
  \A o \in Owners : /\ MakeEmpty(o) => Contract!MakeEmpty(o)
                    /\ Destroy(o) => Contract!Destroy(o)
                    /\ Clear(o) => Contract!Clear(o)

FillingPromise ==
  \A o \in Owners, v \in Values : /\ Make(o, v) => Contract!Make(o, v)
                                  /\ Set(o, v) \/ Emplace(o, v) => Contract!Set(o, v)

UsingPromise == \A o \in Owners, how \in Ways : MapOr(o, how) => Contract!Use(o, how)

FromTwoPromise ==
  \A o \in Opts, u \in Owners, how \in Ways :
    /\ CopyConstruct(o, u, how) \/ ConvertConstruct(o, u, how) => Contract!Construct(o, u, how)
    /\ Assign(o, u, how) \/ ConvertAssign(o, u, how) => Contract!Assign(o, u, how)
    /\ Map(o, u, how) => Contract!Then(o, u, how, TRUE)
    /\ Take(o, u, how) => Contract!Take(o, u)
    /\ \A keeps \in BOOLEAN : AndThen(o, u, how, keeps) => Contract!Then(o, u, how, keeps)
    /\ \A h \in Values \cup {Nothing} : OrElse(o, u, how, h) => Contract!OrElse(o, u, how, h)
    /\ \A p \in Opts, howp \in Ways :
         Disjunction(o, u, p, how, howp) => Contract!Disjunction(o, u, p, how, howp)

SwappingPromise == \A o, p \in Opts : Swap(o, p) => Contract!Swap(o, p)

JoiningPromise ==
  \A t, o \in Owners, v \in Values : Conjunction(t, o, v) => Contract!Conjunction(t, o, v)

OwnersPromise == /\ EmptyingPromise /\ FillingPromise /\ UsingPromise
                 /\ FromTwoPromise /\ SwappingPromise /\ JoiningPromise

RefOnePromise ==
  \A r \in Refs : /\ RefMakeEmpty(r) => Contract!MakeEmpty(r)
                  /\ RefDestroy(r) => Contract!Destroy(r)
                  /\ RefClear(r) => Contract!Clear(r)

RefFillingPromise ==
  \A r \in Refs, v \in Values : /\ RefMake(r, v) => Contract!Make(r, v)
                                /\ RefSet(r, v) => Contract!Set(r, v)

RefTwoPromise ==
  \A r, q \in Refs :
    /\ RefCopy(r, q) \/ RefConvert(r, q) => Contract!Construct(r, q, "copy")
    /\ RefAssign(r, q) \/ RefConvertAssign(r, q) => Contract!Assign(r, q, "copy")
    /\ RefSwap(r, q) => Contract!Swap(r, q)
    /\ RefTake(r, q) => Contract!Take(r, q)
    /\ \A p \in Refs : RefDisjunction(r, q, p) => Contract!Disjunction(r, q, p, "copy", "copy")

RefResultsPromise ==
  \A t \in Opts, r \in Refs :
    /\ \A v \in Values : RefConjunction(t, r, v) => Contract!Conjunction(t, r, v)
    /\ \A h \in Values \cup {Nothing} : RefOrElse(t, r, h) => Contract!OrElse(t, r, "copy", h)
    /\ \A keeps \in BOOLEAN : RefAndThen(t, r, keeps) => Contract!Then(t, r, "copy", keeps)

RefsPromise == RefOnePromise /\ RefFillingPromise /\ RefTwoPromise /\ RefResultsPromise

(* A converting assignment to an optional of T& rebinds it, or, from an empty  *)
(* one, "resets the stored value" (optional_implementation.hpp:2177-2178).    *)
RefConvertAssignResets ==
  \A r, q \in Refs : Bound(r) /\ Bound(q) =>
    ENABLED (RefConvertAssign(r, q) /\ Contract!Assign(r, q, "copy"))

(* Every operation that returns does to what the storage and the pointers hold *)
(* what the contract of optional says of it, and one that throws does nothing. *)
KeepsPromise == Contract!Init /\ [][ended' \/ (OwnersPromise /\ RefsPromise)]_vars

Rank(h) == IF h = Nothing THEN -1 ELSE h

(* The relational operators of two optionals, with a value and with nullopt on *)
(* either side, and value_or, answer from what the optionals hold, as if       *)
(* nothing came before every value (relop, relop_nullopt, relop_t), which is   *)
(* not the order that the comment on relop gives: LessOnlyIfRightEmpty.        *)
AnswersAgree ==
  \A o \in Optionals : Contract!Alive(o) =>
    /\ \A v \in Values : ValueOr(o, v) = IF holds[o] = Nothing THEN v ELSE holds[o]
    /\ \A op \in Relations :
         /\ CompareNull(op, Seen(o)) = Holds(op, Rank(holds[o]), -1)
         /\ NullCompare(op, Seen(o)) = Holds(op, -1, Rank(holds[o]))
         /\ \A v \in Values : /\ CompareValue(op, Seen(o), v) = Holds(op, Rank(holds[o]), v)
                              /\ ValueCompare(op, v, Seen(o)) = Holds(op, v, Rank(holds[o]))
         /\ \A p \in Optionals : Contract!Alive(p) =>
              Compare(op, Seen(o), Seen(p)) = Holds(op, Rank(holds[o]), Rank(holds[p]))

(* Of two optionals that do not both hold a value, the left is less "only if   *)
(* rhs is empty and lhs is not" (optional_implementation.hpp:1446-1448).       *)
LessOnlyIfRightEmpty ==
  \A o, p \in Optionals : Contract!Alive(o) /\ Contract!Alive(p) =>
    \/ holds[o] # Nothing /\ holds[p] # Nothing
    \/ Compare("<", Seen(o), Seen(p)) => holds[p] = Nothing /\ holds[o] # Nothing
================================================================================

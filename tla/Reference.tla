------------------------------- MODULE Reference -------------------------------
(***************************************************************************)
(* sol::reference and sol::main_reference (reference.hpp): C++ handles that *)
(* keep a Lua object alive through a slot of the Lua registry.  A handle is *)
(* the pair (luastate, ref); the class is basic_reference<main_only>.       *)
(*                                                                         *)
(* The registry and its luaL_ref/luaL_unref belong to Lua: a slot is Free   *)
(* or contains a value, luaL_ref takes any free slot and maps nil to        *)
(* LUA_REFNIL, and reading a slot that was given back yields the free-list  *)
(* link Lua left there (Junk).                                              *)
(***************************************************************************)
EXTENDS Naturals, FiniteSets

CONSTANTS
  Holders,    \* the handle objects of the C++ program
  MainOnly,   \* those declared main_reference (main_only = true)
  Globals,    \* Lua states: each has its own registry
  Threads,    \* every lua_State*: main threads and coroutines
  GlobalOf,   \* GlobalOf[t]: the Lua state t belongs to
  MainOf,     \* MainOf[g]: the main thread of state g
  Objects,    \* Lua objects; a thread in Objects can itself be referred to
  ObjectsOf,  \* ObjectsOf[g]: the objects that live in state g
  Slots,      \* registry indices, the same set in every state
  NULL,       \* luastate == nullptr
  NOREF,      \* LUA_NOREF
  REFNIL,     \* LUA_REFNIL
  Free,       \* content of a slot on luaL_ref's free list
  Junk,       \* what reading a free slot yields
  Nil,        \* Lua's nil
  Corners     \* corner-case assignments the program is assumed to perform

CornerCases == {"self_copy", "empty_of_coroutine"}

ASSUME ReferenceAssumption ==
  /\ MainOnly \subseteq Holders
  /\ GlobalOf \in [Threads -> Globals]
  /\ MainOf \in [Globals -> Threads]
  /\ \A g \in Globals : GlobalOf[MainOf[g]] = g
  /\ ObjectsOf \in [Globals -> SUBSET Objects]
  /\ NULL \notin Threads
  /\ NOREF \notin Slots /\ REFNIL \notin Slots /\ NOREF # REFNIL
  /\ Free \notin Objects /\ Junk \notin Objects /\ Nil \notin Objects
  /\ Free # Junk /\ Free # Nil /\ Junk # Nil
  /\ Corners \subseteq CornerCases

VARIABLES
  lstate,     \* basic_reference::luastate of each handle
  ref,        \* stateless_reference::ref of each handle
  registry,   \* registry[g][i]: content of slot i in state g
  alive       \* the threads the garbage collector has not taken

vars == <<lstate, ref, registry, alive>>

Mains == {MainOf[g] : g \in Globals}
Contents == Objects \cup {Junk}

TypeOK ==
  /\ lstate \in [Holders -> Threads \cup {NULL}]
  /\ ref \in [Holders -> Slots \cup {NOREF, REFNIL}]
  /\ registry \in [Globals -> [Slots -> Contents \cup {Free}]]
  /\ alive \subseteq Threads

Init ==
  /\ lstate = [h \in Holders |-> NULL]
  /\ ref = [h \in Holders |-> NOREF]
  /\ registry = [g \in Globals |-> [i \in Slots |-> Free]]
  /\ alive = Threads

--------------------------------------------------------------------------------
(* Helpers *)

Valid(h) == ref[h] \notin {NOREF, REFNIL}

(* pick_main_thread<main_only>(L, L) *)
PickMain(main, L) == IF main /\ L # NULL THEN MainOf[GlobalOf[L]] ELSE L

(* Mutant: main_only is forgotten when a handle of the other class is given. *)
AdoptedUnpicked(d, s) == lstate[s]

(* The luastate an assignment to d adopts from s. *)
Adopted(d, s) == PickMain(d \in MainOnly /\ s \notin MainOnly, lstate[s])

XMovable(L, R) ==
  /\ NULL \notin {L, R}
  /\ L # R
  /\ GlobalOf[L] = GlobalOf[R]

(* The registries after h gave its slot back, if it had one. *)
Unref(h) ==
  IF lstate[h] # NULL /\ ref[h] \in Slots
    THEN [registry EXCEPT ![GlobalOf[lstate[h]]][ref[h]] = Free]
    ELSE registry

(* lua_rawgeti on the registry of L: what reference r of that state reads *)
(* when the registries are reg.                                           *)
Read(reg, L, r) ==
  IF L = NULL \/ r \notin Slots THEN Nil
  ELSE IF reg[GlobalOf[L]][r] = Free THEN Junk
  ELSE reg[GlobalOf[L]][r]

(* The references luaL_ref may return for v: LUA_REFNIL, or any free slot. *)
FreshRefs(reg, g, v) ==
  IF v = Nil THEN {REFNIL} ELSE {i \in Slots : reg[g][i] = Free}

(* luaL_ref: h's new reference to v in the registry of L, out of reg. *)
StoreRef(h, reg, L, v) ==
  LET g == GlobalOf[L] IN
  \E r \in FreshRefs(reg, g, v) :
    /\ ref' = [ref EXCEPT ![h] = r]
    /\ registry' = IF r \in Slots THEN [reg EXCEPT ![g][r] = v] ELSE reg

(* What a handle denotes. *)
Value(h) == Read(registry, lstate[h], ref[h])

(* Touching a handle, even to destroy it, uses its lua_State.  Once that    *)
(* has been collected the call has no meaning, so the program must not make *)
(* it; threading.rst offers the main_ handles to stay clear of this.        *)
Usable(h) == lstate[h] \in alive \cup {NULL}

(* A default-constructed handle, or storage not constructed yet. *)
Empty(h) == lstate[h] = NULL /\ ref[h] = NOREF

--------------------------------------------------------------------------------
(* Construction.  d is storage without a handle in it, or a default one. *)

(* basic_reference(L, index): from a value v on the stack of L. *)
FromStack(d, L, v) ==
  /\ Empty(d)
  /\ L \in alive
  /\ v \in ObjectsOf[GlobalOf[L]] \cup {Nil}
  /\ v \in Threads => v \in alive
  /\ lstate' = [lstate EXCEPT ![d] = PickMain(d \in MainOnly, L)]
  /\ StoreRef(d, registry, L, v)
  /\ UNCHANGED alive

(* basic_reference(L, lua_nil): no object, but pinned to a thread. *)
Pinned(d, L) ==
  /\ Empty(d)
  /\ L \in alive
  /\ lstate' = [lstate EXCEPT ![d] = PickMain(d \in MainOnly, L)]
  /\ UNCHANGED <<ref, registry, alive>>

(* A constructor that names a thread is given one of the source's state. *)
SameState(L, s) == lstate[s] # NULL => GlobalOf[L] = GlobalOf[lstate[s]]

(* basic_reference(L, const basic_reference&) *)
CopyTo(d, L, s) ==
  LET P == PickMain(d \in MainOnly, L) IN
  /\ Empty(d) /\ Usable(s)
  /\ L \in alive /\ SameState(L, s)
  /\ lstate' = [lstate EXCEPT ![d] = P]
  /\ IF Valid(s)
       THEN StoreRef(d, registry, IF XMovable(P, lstate[s]) THEN P ELSE lstate[s], Value(s))
       ELSE /\ ref' = [ref EXCEPT ![d] = ref[s]]
            /\ UNCHANGED registry
  /\ UNCHANGED alive

(* basic_reference(L, basic_reference&&): takes the slot, unless the value *)
(* has to be moved between threads; then it is copied and s keeps its own. *)
MoveTo(d, L, s) ==
  LET P == PickMain(d \in MainOnly, L) IN
  /\ Empty(d) /\ Usable(s)
  /\ L \in alive /\ SameState(L, s)
  /\ \/ /\ ~ Valid(s)
        /\ lstate' = [lstate EXCEPT ![d] = P]
        /\ ref' = [ref EXCEPT ![d] = ref[s]]
        /\ UNCHANGED registry
     \/ /\ Valid(s) /\ XMovable(P, lstate[s])
        /\ lstate' = [lstate EXCEPT ![d] = P]
        /\ StoreRef(d, registry, P, Value(s))
     \/ /\ Valid(s) /\ ~ XMovable(P, lstate[s])
        /\ d # s
        /\ lstate' = [lstate EXCEPT ![d] = P, ![s] = NULL]
        /\ ref' = [ref EXCEPT ![d] = ref[s], ![s] = NOREF]
        /\ UNCHANGED registry
  /\ UNCHANGED alive

(* Mutant: the copy shares the slot of its source. *)
CopyConstructShared(d, s) ==
  /\ Empty(d) /\ Usable(s) /\ d # s
  /\ lstate' = [lstate EXCEPT ![d] = Adopted(d, s)]
  /\ ref' = [ref EXCEPT ![d] = ref[s]]
  /\ UNCHANGED <<registry, alive>>

(* basic_reference(const basic_reference&), from either class *)
CopyConstruct(d, s) ==
  /\ Empty(d) /\ Usable(s) /\ d # s
  /\ lstate' = [lstate EXCEPT ![d] = Adopted(d, s)]
  /\ IF ref[s] = NOREF
       THEN UNCHANGED <<ref, registry>>
       ELSE StoreRef(d, registry, lstate[s], Value(s))
  /\ UNCHANGED alive

(* Mutant: the source of a move keeps the index it gave away. *)
MoveConstructUncleared(d, s) ==
  /\ Empty(d) /\ Usable(s) /\ d # s
  /\ lstate' = [lstate EXCEPT ![d] = Adopted(d, s)]
  /\ ref' = [ref EXCEPT ![d] = ref[s]]
  /\ UNCHANGED <<registry, alive>>

(* basic_reference(basic_reference&&), from either class *)
MoveConstruct(d, s) ==
  /\ Empty(d) /\ Usable(s) /\ d # s
  /\ lstate' = [lstate EXCEPT ![d] = Adopted(d, s), ![s] = NULL]
  /\ ref' = [ref EXCEPT ![d] = ref[s], ![s] = NOREF]
  /\ UNCHANGED <<registry, alive>>

--------------------------------------------------------------------------------
(* Assignment, reset and destruction *)

(* A source that holds nothing, and never did, on a coroutine. *)
EmptyOfCoroutine(s) == ref[s] = NOREF /\ lstate[s] \notin Mains \cup {NULL}

Assignable(d, s) ==
  /\ Usable(d) /\ Usable(s)
  /\ d \in MainOnly /\ EmptyOfCoroutine(s) => "empty_of_coroutine" \in Corners

(* The first two returns of copy_assign_complex and move_assign: s is nil, *)
(* or holds nothing.  d has already given its own slot back.               *)
AssignEmpty(d, s) ==
  /\ ~ Valid(s)
  /\ lstate' = [lstate EXCEPT ![d] = IF ref[s] = REFNIL THEN Adopted(d, s) ELSE lstate[s]]
  /\ ref' = [ref EXCEPT ![d] = ref[s]]
  /\ registry' = Unref(d)

(* Mutant: the destination leaves its thread for the source's. *)
AssignUnpinned(d, s) ==
  /\ Valid(s) /\ XMovable(lstate[d], lstate[s])
  /\ lstate' = [lstate EXCEPT ![d] = lstate[s]]
  /\ StoreRef(d, Unref(d), lstate[s], Read(Unref(d), lstate[s], ref[s]))

(* Their third: the value travels to the thread d is on, where d stays. *)
AssignPinned(d, s) ==
  /\ Valid(s) /\ XMovable(lstate[d], lstate[s])
  /\ StoreRef(d, Unref(d), lstate[d], Read(Unref(d), lstate[s], ref[s]))
  /\ UNCHANGED lstate

(* copy_assign_complex.  The source is read after d released its slot. *)
CopyAssign(d, s) ==
  /\ Assignable(d, s)
  /\ d = s /\ Valid(s) => "self_copy" \in Corners
  /\ \/ AssignEmpty(d, s)
     \/ AssignPinned(d, s)
     \/ /\ Valid(s) /\ ~ XMovable(lstate[d], lstate[s])
        /\ lstate' = [lstate EXCEPT ![d] = Adopted(d, s)]
        /\ StoreRef(d, Unref(d), lstate[s], Read(Unref(d), lstate[s], ref[s]))
  /\ UNCHANGED alive

(* move_assign.  After a self-move the handle is empty. *)
MoveAssign(d, s) ==
  /\ Assignable(d, s)
  /\ \/ AssignEmpty(d, s)
     \/ AssignPinned(d, s)
     \/ /\ Valid(s) /\ ~ XMovable(lstate[d], lstate[s])
        /\ lstate' = [lstate EXCEPT ![d] = Adopted(d, s), ![s] = NULL]
        /\ ref' = [ref EXCEPT ![d] = ref[s], ![s] = NOREF]
        /\ registry' = Unref(d)
  /\ UNCHANGED alive

(* reset() and operator=(lua_nil); ~basic_reference leaves the storage in *)
(* the same condition, having done the same.                              *)
Reset(h) ==
  /\ Usable(h) /\ ~ Empty(h)
  /\ lstate' = [lstate EXCEPT ![h] = NULL]
  /\ ref' = [ref EXCEPT ![h] = NOREF]
  /\ registry' = Unref(h)
  /\ UNCHANGED alive

(* Lua's collector takes a coroutine no registry slot refers to.  Handles *)
(* whose luastate it was are left with a stale pointer.                   *)
Collect(t) ==
  /\ t \in alive \ Mains
  /\ \A i \in Slots : registry[GlobalOf[t]][i] # t
  /\ alive' = alive \ {t}
  /\ UNCHANGED <<lstate, ref, registry>>

--------------------------------------------------------------------------------

Construct ==
  \E d \in Holders :
    \/ \E L \in Threads, v \in Objects \cup {Nil} : FromStack(d, L, v)
    \/ \E L \in Threads : Pinned(d, L)
    \/ \E L \in Threads, s \in Holders : CopyTo(d, L, s) \/ MoveTo(d, L, s)
    \/ \E s \in Holders : CopyConstruct(d, s) \/ MoveConstruct(d, s)

Assign == \E d, s \in Holders : CopyAssign(d, s) \/ MoveAssign(d, s)

Next ==
  \/ Construct
  \/ Assign
  \/ \E h \in Holders : Reset(h)
  \/ \E t \in Threads : Collect(t)

Spec == Init /\ [][Next]_vars

--------------------------------------------------------------------------------
(* Safety *)

(* No two handles own the same slot of a registry, so no slot is ever given *)
(* back twice: hazards of move_assign and of the defaulted copies of the    *)
(* stateless base.                                                          *)
OneOwnerPerSlot ==
  \A a, b \in Holders :
    /\ a # b
    /\ ref[a] \in Slots /\ ref[a] = ref[b]
    => GlobalOf[lstate[a]] # GlobalOf[lstate[b]]

(* A handle with a slot knows its state, and that slot is in use: the next *)
(* luaL_ref cannot hand it to somebody else.                               *)
OwnedSlotsInUse ==
  \A h \in Holders : ref[h] \in Slots =>
    /\ lstate[h] # NULL
    /\ registry[GlobalOf[lstate[h]]][ref[h]] # Free

(* Every slot in use has an owner: no path loses a reference, which would   *)
(* keep its object alive for the life of the Lua state.                     *)
NoSlotLeaks ==
  \A g \in Globals, i \in Slots : registry[g][i] # Free =>
    \E h \in Holders : lstate[h] # NULL /\ GlobalOf[lstate[h]] = g /\ ref[h] = i

(* luaL_ref and luaL_unref are paired: every slot in use has exactly one     *)
(* owner, and every owner a slot in use, whatever is copied, moved, assigned *)
(* across threads and states or reset; nothing is released twice or kept.    *)
Ownership == OneOwnerPerSlot /\ OwnedSlotsInUse /\ NoSlotLeaks

(* main_reference never refers through a coroutine, so the collection of   *)
(* one cannot make it dangle ("immune when a wrapped coroutine or a lua    *)
(* thread is set to nil and then garbage-collected", threading.rst).       *)
MainHandlesOnMain == \A h \in MainOnly : lstate[h] \in Mains \cup {NULL}

(* Assigning an object to a handle that is on a thread of the same state    *)
(* leaves it on that thread: the lua_xmove rule of api/reference.rst.       *)
ObjectAssignmentKeepsPin ==
  [][\A d, s \in Holders :
       /\ CopyAssign(d, s) \/ MoveAssign(d, s)
       /\ d # s /\ Valid(s)
       /\ lstate[d] # NULL /\ GlobalOf[lstate[d]] = GlobalOf[lstate[s]]
       => lstate'[d] = lstate[d]]_vars

(* What the handles denote, as the abstract values. *)
Abstract == INSTANCE Handles WITH val <- [h \in Holders |-> Value(h)]

(* Every step of the handles is a step of those values: a copy denotes what *)
(* the source does, and no operation disturbs a third handle.               *)
IsHandles == Abstract!Spec

================================================================================

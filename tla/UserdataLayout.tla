---------------------------- MODULE UserdataLayout -----------------------------
(***************************************************************************)
(* The memory blocks sol3 puts its userdata in (stack_core.hpp).  A block   *)
(* from lua_newuserdata starts at any address; sol aligns each section in   *)
(* it, having asked for enough room in the worst case, and stores none of   *)
(* the addresses: the getters and the __gc functions compute them again.    *)
(*                                                                         *)
(*   pointer    T*                        (usertype_allocate_pointer)       *)
(*   value      T*, T                     (usertype_allocate)               *)
(*   unique     T*, deleter, tag, Real    (usertype_unique_allocate)        *)
(*   user       T                         (user_allocate)                   *)
(***************************************************************************)
EXTENDS Integers, FiniteSetsExt

CONSTANTS
  AlignMemory,  \* SOL_ALIGN_MEMORY is on (SOL_NO_MEMORY_ALIGNMENT turns it off)
  Ptr,          \* size and alignment of T*, unique_destructor and unique_tag
  MaxAlign,     \* alignof(std::max_align_t)
  Types,        \* the C++ types put in userdata, as <<alignof, sizeof>>
  Bases,        \* the addresses lua_newuserdata returns
  None          \* no block

Alignments == {1, 2, 4, 8, 16, 32, 64}

ASSUME LayoutAssumption ==
  /\ AlignMemory \in BOOLEAN
  /\ Ptr \in {4, 8}
  /\ MaxAlign \in {8, 16}
  /\ Types \subseteq Alignments \X (Nat \ {0})
  /\ Bases \subseteq Nat

VARIABLE block  \* the block in use, with the addresses its allocation chose

Kinds == {"pointer", "value", "unique", "user"}

--------------------------------------------------------------------------------
(* Computing addresses *)

(* align: the next multiple of alignment *)
AlignUp(alignment, ptr) == ptr + ((alignment - (ptr % alignment)) % alignment)

AlignIf(alignment, ptr) == IF AlignMemory THEN AlignUp(alignment, ptr) ELSE ptr

(* align_one: the end of a section of that alignment and size *)
AlignOne(alignment, size, ptr) == AlignUp(alignment, ptr) + size

(* How many pointer-sized sections precede the last one. *)
Pointers(kind) == CASE kind = "value" -> 1 [] kind = "unique" -> 3 [] OTHER -> 0

(* The end of that many pointer-sized sections laid out from ptr. *)
PointersEnd(n, ptr) ==
  LET one(p) == AlignOne(Ptr, Ptr, p) IN
  CASE n = 0 -> ptr
    [] n = 1 -> one(ptr)
    [] n = 3 -> one(one(one(ptr)))

(* aligned_space_for<T*..., T>(ptr) *)
SpaceFrom(n, t, ptr) == AlignOne(t[1], t[2], PointersEnd(n, ptr)) - ptr

Larger(a, b) == IF a > b THEN a ELSE b
LargestAlign(n, t) == IF n = 0 THEN t[1] ELSE Larger(Ptr, t[1])

(* Mutant: the space is measured from an aligned address. *)
WorstSpaceAtZero(n, t) == SpaceFrom(n, t, 0)

(* aligned_space_for<T*..., T>(): the worst case over the addresses below   *)
(* the largest alignment or, for over-aligned types, the sum of what each   *)
(* section takes from address 1.                                            *)
WorstSpace(n, t) ==
  IF LargestAlign(n, t) <= MaxAlign
    THEN Max({SpaceFrom(n, t, ptr) : ptr \in 0 .. LargestAlign(n, t) - 1})
    ELSE n * (AlignOne(Ptr, Ptr, 1) - 1) + (AlignOne(t[1], t[2], 1) - 1)

(* What the allocation functions ask lua_newuserdata for. *)
BlockSize(n, t) == IF AlignMemory THEN WorstSpace(n, t) ELSE n * Ptr + t[2]

--------------------------------------------------------------------------------
(* Where the allocation functions put the sections: attempt_alloc and *)
(* attempt_alloc_unique with alignment on, one after another without. *)

PlacePointer(base) == AlignIf(Ptr, base)
PlaceDeleter(base) == AlignIf(Ptr, PlacePointer(base) + Ptr)

(* Mutant: the tag is put where the deleter is. *)
PlaceTagUnshifted(base) == AlignIf(Ptr, PlaceDeleter(base))

PlaceTag(base) == AlignIf(Ptr, PlaceDeleter(base) + Ptr)

PlaceData(kind, t, base) ==
  AlignIf(t[1], CASE kind = "value" -> PlacePointer(base) + Ptr
                  [] kind = "unique" -> PlaceTag(base) + Ptr
                  [] OTHER -> base)

Block(kind, t, base) ==
  [kind |-> kind, type |-> t, base |-> base, size |-> BlockSize(Pointers(kind), t),
   pointer |-> PlacePointer(base), deleter |-> PlaceDeleter(base),
   tag |-> PlaceTag(base), data |-> PlaceData(kind, t, base)]

--------------------------------------------------------------------------------
(* Where the getters and __gc functions look for them, given the address *)
(* lua_touserdata returns.                                               *)

(* align_usertype_pointer *)
FindPointer(memory) == AlignIf(Ptr, memory)

(* align_usertype_unique_destructor: without alignment it steps over the *)
(* T* a second time.                                                     *)
FindDeleter(memory) ==
  LET shifted == FindPointer(memory) + Ptr IN
  IF AlignMemory THEN AlignUp(Ptr, shifted) ELSE shifted + Ptr

(* Mutant: the shift past the deleter is taken as done (pre_shifted). *)
FindTagPreShifted(memory) == AlignIf(Ptr, FindDeleter(memory))

(* align_usertype_unique_tag *)
FindTag(memory) == AlignIf(Ptr, FindDeleter(memory) + Ptr)

(* align_usertype_unique<Real> *)
FindUnique(t, memory) == AlignIf(t[1], FindTag(memory) + Ptr)

(* align_user<T> *)
FindUser(t, memory) == AlignIf(t[1], memory)

--------------------------------------------------------------------------------

LayoutInit == block = None

Allocate(kind, t, base) ==
  /\ block = None
  /\ block' = Block(kind, t, base)

(* usertype_allocate_pointer: a single section, of the size of a pointer *)
AllocatePointer(base) == Allocate("pointer", <<Ptr, Ptr>>, base)

(* The __gc function destroys the object and Lua frees the block. *)
CollectBlock ==
  /\ block # None
  /\ block' = None

LayoutNext ==
  \/ \E base \in Bases : AllocatePointer(base)
  \/ \E kind \in Kinds \ {"pointer"}, t \in Types, base \in Bases : Allocate(kind, t, base)
  \/ CollectBlock

LayoutSpec == LayoutInit /\ [][LayoutNext]_block

--------------------------------------------------------------------------------

BlockType ==
  [kind : Kinds, type : Alignments \X (Nat \ {0}), base : Bases, size : Nat \ {0},
   pointer : Nat, deleter : Nat, tag : Nat, data : Nat]

LayoutTypeOK == block \in BlockType \cup {None}

(* No section reaches past the end of the block.  attempt_alloc could not    *)
(* tell: align never fails and its count of the space left is unsigned, so   *)
(* only aligned_space_for keeps objects inside their block.                  *)
SectionsFit ==
  block # None => block.data + block.type[2] <= block.base + block.size

(* The sections a kind has do not overlap. *)
SectionsDisjoint ==
  block # None =>
    /\ block.pointer >= block.base /\ block.data >= block.base
    /\ block.kind = "value" => block.pointer + Ptr <= block.data
    /\ block.kind = "unique" =>
         /\ block.pointer + Ptr <= block.deleter
         /\ block.deleter + Ptr <= block.tag
         /\ block.tag + Ptr <= block.data

(* With alignment on, every section is aligned for its type: the point of *)
(* the regression test "1192 - incorrect alignment calculation".          *)
SectionsAligned ==
  block # None /\ AlignMemory =>
    /\ block.data % block.type[1] = 0
    /\ block.kind # "user" => block.pointer % Ptr = 0
    /\ block.kind = "unique" => block.deleter % Ptr = 0 /\ block.tag % Ptr = 0

(* attempt_alloc and attempt_alloc_unique put every section behind the one   *)
(* before, at an address of its alignment.                                   *)
SectionsInPlace == SectionsDisjoint /\ SectionsAligned

(* The getters and the destructor find each section where the allocation   *)
(* put it.  usertype_memory.rst gives the sequence of the sections and says *)
(* that it always holds when SOL_NO_MEMORY_ALIGNMENT is defined.            *)
SectionsFound ==
  block # None =>
    /\ block.kind = "pointer" => FindPointer(block.base) = block.data
    /\ block.kind = "value" => FindPointer(block.base) = block.pointer
    /\ block.kind = "unique" =>
         /\ FindPointer(block.base) = block.pointer
         /\ FindDeleter(block.base) = block.deleter
         /\ FindTag(block.base) = block.tag
         /\ FindUnique(block.type, block.base) = block.data
    /\ block.kind = "user" => FindUser(block.type, block.base) = block.data
================================================================================

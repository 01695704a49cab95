---------------------------- MODULE ReferenceProofs ----------------------------
(***************************************************************************)
(* The registry slots behind sol::reference are owned exactly once, for any *)
(* number of handles, threads, Lua states and slots.                        *)
(*                                                                         *)
(* Every operation changes a handle in one of four ways (Store, Clear,     *)
(* Move, and nothing).  There is a lemma for each, and the theorem sorts   *)
(* the actions into them.                                                  *)
(***************************************************************************)
EXTENDS Reference, TLAPS

(* The inductive invariant: the type, one owner per slot, owned slots in   *)
(* use, used slots owned.  No conjunct is inductive alone: a fresh slot is *)
(* nobody's only because the owned ones are in use, and a slot given back  *)
(* stays in nobody's hands only because it had one owner.                  *)
IInv == TypeOK /\ Ownership

(* What may be in a slot is never the mark of a free one. *)
LEMMA ContentsNotFree == \A v \in Contents : v # Free
  BY ReferenceAssumption DEF Contents

(* Reading the registry gives a storable value, or nil. *)
LEMMA ReadType ==
  ASSUME NEW reg \in [Globals -> [Slots -> Contents \cup {Free}]],
         NEW L \in Threads \cup {NULL}, NEW r \in Slots \cup {NOREF, REFNIL}
  PROVE  Read(reg, L, r) \in Contents \cup {Nil}
  BY ReferenceAssumption DEF Read, Contents

(* Releasing keeps the registries well-formed. *)
LEMMA UnrefType ==
  ASSUME TypeOK, NEW h \in Holders
  PROVE  Unref(h) \in [Globals -> [Slots -> Contents \cup {Free}]]
  BY ReferenceAssumption DEF TypeOK, Unref

(* Exactly the slot of h becomes free. *)
LEMMA UnrefEffect ==
  ASSUME TypeOK, OwnedSlotsInUse, NEW h \in Holders, NEW g \in Globals, NEW i \in Slots
  PROVE  Unref(h)[g][i] = IF ref[h] = i /\ GlobalOf[lstate[h]] = g THEN Free ELSE registry[g][i]
  BY ReferenceAssumption DEF TypeOK, Unref, OwnedSlotsInUse

(* A handle that gives up its slot and takes a fresh one, or nil. *)
LEMMA StoreStep ==
  ASSUME IInv, NEW d \in Holders, NEW L \in Threads, NEW P \in Threads,
         NEW v \in Contents \cup {Nil},
         GlobalOf[P] = GlobalOf[L],
         StoreRef(d, Unref(d), L, v),
         lstate' = [lstate EXCEPT ![d] = P],
         alive' \subseteq alive
  PROVE  IInv'
<1> DEFINE g == GlobalOf[L]
           reg == Unref(d)
<1>1. PICK r \in FreshRefs(reg, g, v) :
         /\ ref' = [ref EXCEPT ![d] = r]
         /\ registry' = IF r \in Slots THEN [reg EXCEPT ![g][r] = v] ELSE reg
  BY DEF StoreRef
<1>2. g \in Globals /\ reg \in [Globals -> [Slots -> Contents \cup {Free}]]
  BY UnrefType, ReferenceAssumption DEF IInv
<1>3. \/ r = REFNIL /\ r \notin Slots
      \/ r \in Slots /\ reg[g][r] = Free /\ v \in Contents
  BY ReferenceAssumption DEF FreshRefs
<1>4. TypeOK'
  BY <1>1, <1>2, <1>3 DEF IInv, TypeOK
<1>5. \A x \in Globals, i \in Slots :
         registry'[x][i] = IF x = g /\ i = r THEN v ELSE reg[x][i]
  BY <1>1, <1>2, <1>3
<1>6. \A x \in Globals, i \in Slots :
         reg[x][i] = IF ref[d] = i /\ GlobalOf[lstate[d]] = x THEN Free ELSE registry[x][i]
  BY UnrefEffect DEF IInv, Ownership
<1>7. \A h \in Holders : ref'[h] = (IF h = d THEN r ELSE ref[h]) /\ lstate'[h] = (IF h = d THEN P ELSE lstate[h])
  BY <1>1 DEF IInv, TypeOK
<1>8. OneOwnerPerSlot'
  <2> SUFFICES ASSUME NEW a \in Holders, NEW b \in Holders, a # b,
                      ref'[a] \in Slots, ref'[a] = ref'[b],
                      GlobalOf[lstate'[a]] = GlobalOf[lstate'[b]]
               PROVE  FALSE
    BY DEF OneOwnerPerSlot
  <2>1. ASSUME NEW h \in Holders, h # d, ref[h] = r, r \in Slots, GlobalOf[lstate[h]] = g
        PROVE  FALSE
    <3>1. registry[g][r] # Free
      BY <2>1 DEF IInv, Ownership, OwnedSlotsInUse
    <3>2. ref[d] = r /\ GlobalOf[lstate[d]] = g
      BY <3>1, <1>2, <1>3, <1>6, <2>1, ReferenceAssumption
    <3> QED
      BY <3>2, <2>1 DEF IInv, Ownership, OneOwnerPerSlot
  <2>2. CASE a = d
    BY <2>2, <2>1, <1>7
  <2>3. CASE b = d
    BY <2>3, <2>1, <1>7
  <2>4. CASE a # d /\ b # d
    BY <2>4, <1>7 DEF IInv, Ownership, OneOwnerPerSlot
  <2> QED
    BY <2>2, <2>3, <2>4
<1>9. OwnedSlotsInUse'
  <2> SUFFICES ASSUME NEW h \in Holders, ref'[h] \in Slots
               PROVE  lstate'[h] # NULL /\ registry'[GlobalOf[lstate'[h]]][ref'[h]] # Free
    BY DEF OwnedSlotsInUse
  <2>1. CASE h = d
    BY <2>1, <1>2, <1>3, <1>5, <1>7, ContentsNotFree, ReferenceAssumption
  <2>2. CASE h # d
    <3>1. ref[h] \in Slots /\ lstate[h] # NULL /\ registry[GlobalOf[lstate[h]]][ref[h]] # Free
      BY <2>2, <1>7 DEF IInv, Ownership, OwnedSlotsInUse
    <3>2. ~ (ref[d] = ref[h] /\ GlobalOf[lstate[d]] = GlobalOf[lstate[h]])
      BY <2>2, <3>1 DEF IInv, Ownership, OneOwnerPerSlot
    <3>3. GlobalOf[lstate[h]] \in Globals
      BY <3>1, ReferenceAssumption DEF IInv, TypeOK
    <3>4. reg[GlobalOf[lstate[h]]][ref[h]] # Free
      BY <3>1, <3>2, <3>3, <1>6
    <3> QED
      BY <2>2, <3>1, <3>3, <3>4, <1>3, <1>5, <1>7, ContentsNotFree
  <2> QED
    BY <2>1, <2>2
<1>10. NoSlotLeaks'
  <2> SUFFICES ASSUME NEW x \in Globals, NEW i \in Slots, registry'[x][i] # Free
               PROVE  \E h \in Holders : lstate'[h] # NULL /\ GlobalOf[lstate'[h]] = x /\ ref'[h] = i
    BY DEF NoSlotLeaks
  <2>1. CASE x = g /\ i = r
    BY <2>1, <1>7, ReferenceAssumption
  <2>2. CASE ~ (x = g /\ i = r)
    <3>1. registry[x][i] # Free /\ ~ (ref[d] = i /\ GlobalOf[lstate[d]] = x)
      BY <2>2, <1>5, <1>6
    <3>2. PICK h \in Holders : lstate[h] # NULL /\ GlobalOf[lstate[h]] = x /\ ref[h] = i
      BY <3>1 DEF IInv, Ownership, NoSlotLeaks
    <3> QED
      BY <3>1, <3>2, <1>7
  <2> QED
    BY <2>1, <2>2
<1> QED
  BY <1>4, <1>8, <1>9, <1>10 DEF IInv, Ownership

(* A handle that gives up its slot and takes none. *)
LEMMA ClearStep ==
  ASSUME IInv, NEW d \in Holders, NEW P \in Threads \cup {NULL}, NEW r \in {NOREF, REFNIL},
         lstate' = [lstate EXCEPT ![d] = P],
         ref' = [ref EXCEPT ![d] = r],
         registry' = Unref(d),
         alive' \subseteq alive
  PROVE  IInv'
<1>1. r \notin Slots
  BY ReferenceAssumption
<1>2. TypeOK'
  BY UnrefType DEF IInv, TypeOK
<1>3. \A x \in Globals, i \in Slots :
         registry'[x][i] = IF ref[d] = i /\ GlobalOf[lstate[d]] = x THEN Free ELSE registry[x][i]
  BY UnrefEffect DEF IInv, Ownership
<1>4. \A h \in Holders : ref'[h] = (IF h = d THEN r ELSE ref[h]) /\ lstate'[h] = (IF h = d THEN P ELSE lstate[h])
  BY DEF IInv, TypeOK
<1>5. OneOwnerPerSlot'
  BY <1>1, <1>4 DEF IInv, Ownership, OneOwnerPerSlot
<1>6. OwnedSlotsInUse'
  <2> SUFFICES ASSUME NEW h \in Holders, ref'[h] \in Slots
               PROVE  lstate'[h] # NULL /\ registry'[GlobalOf[lstate'[h]]][ref'[h]] # Free
    BY DEF OwnedSlotsInUse
  <2>1. h # d /\ ref[h] \in Slots
    BY <1>1, <1>4
  <2>2. lstate[h] # NULL /\ registry[GlobalOf[lstate[h]]][ref[h]] # Free
    BY <2>1 DEF IInv, Ownership, OwnedSlotsInUse
  <2>3. ~ (ref[d] = ref[h] /\ GlobalOf[lstate[d]] = GlobalOf[lstate[h]])
    BY <2>1 DEF IInv, Ownership, OneOwnerPerSlot
  <2>4. GlobalOf[lstate[h]] \in Globals
    BY <2>2, ReferenceAssumption DEF IInv, TypeOK
  <2> QED
    BY <2>1, <2>2, <2>3, <2>4, <1>3, <1>4
<1>7. NoSlotLeaks'
  BY <1>3, <1>4 DEF IInv, Ownership, NoSlotLeaks
<1> QED
  BY <1>2, <1>5, <1>6, <1>7 DEF IInv, Ownership

(* A handle that gives up its slot and is handed that of another. *)
LEMMA MoveStep ==
  ASSUME IInv, NEW d \in Holders, NEW s \in Holders, d # s,
         NEW P \in Threads \cup {NULL},
         ref[s] \in Slots => P # NULL /\ GlobalOf[P] = GlobalOf[lstate[s]],
         lstate' = [lstate EXCEPT ![d] = P, ![s] = NULL],
         ref' = [ref EXCEPT ![d] = ref[s], ![s] = NOREF],
         registry' = Unref(d),
         alive' \subseteq alive
  PROVE  IInv'
<1>1. NOREF \notin Slots
  BY ReferenceAssumption
<1>2. TypeOK'
  BY UnrefType DEF IInv, TypeOK
<1>3. \A x \in Globals, i \in Slots :
         registry'[x][i] = IF ref[d] = i /\ GlobalOf[lstate[d]] = x THEN Free ELSE registry[x][i]
  BY UnrefEffect DEF IInv, Ownership
<1>4. \A h \in Holders :
        /\ ref'[h] = IF h = d THEN ref[s] ELSE IF h = s THEN NOREF ELSE ref[h]
        /\ lstate'[h] = IF h = d THEN P ELSE IF h = s THEN NULL ELSE lstate[h]
  BY DEF IInv, TypeOK
<1>5. OneOwnerPerSlot'
  <2> SUFFICES ASSUME NEW a \in Holders, NEW b \in Holders, a # b,
                      ref'[a] \in Slots, ref'[a] = ref'[b],
                      GlobalOf[lstate'[a]] = GlobalOf[lstate'[b]]
               PROVE  FALSE
    BY DEF OneOwnerPerSlot
  <2>1. a # s /\ b # s
    BY <1>1, <1>4
  <2>2. ASSUME NEW h \in Holders, h # s
        PROVE  ~ (ref[h] = ref[s] /\ ref[s] \in Slots /\ GlobalOf[lstate[h]] = GlobalOf[lstate[s]])
    BY <2>2 DEF IInv, Ownership, OneOwnerPerSlot
  <2>3. CASE a = d
    <3>1. /\ ref'[a] = ref[s] /\ lstate'[a] = P
          /\ ref'[b] = ref[b] /\ lstate'[b] = lstate[b]
      BY <2>1, <2>3, <1>4
    <3> QED
      BY <3>1, <2>1, <2>2
  <2>4. CASE b = d
    <3>1. /\ ref'[b] = ref[s] /\ lstate'[b] = P
          /\ ref'[a] = ref[a] /\ lstate'[a] = lstate[a]
      BY <2>1, <2>4, <1>4
    <3> QED
      BY <3>1, <2>1, <2>2
  <2>5. CASE a # d /\ b # d
    <3>1. /\ ref'[b] = ref[b] /\ lstate'[b] = lstate[b]
          /\ ref'[a] = ref[a] /\ lstate'[a] = lstate[a]
      BY <2>1, <2>5, <1>4
    <3> QED
      BY <3>1 DEF IInv, Ownership, OneOwnerPerSlot
  <2> QED
    BY <2>3, <2>4, <2>5
<1>6. OwnedSlotsInUse'
  <2> SUFFICES ASSUME NEW h \in Holders, ref'[h] \in Slots
               PROVE  lstate'[h] # NULL /\ registry'[GlobalOf[lstate'[h]]][ref'[h]] # Free
    BY DEF OwnedSlotsInUse
  <2> DEFINE from == IF h = d THEN s ELSE h
  <2>1. /\ from \in Holders /\ from # d
        /\ ref'[h] = ref[from] /\ ref[from] \in Slots
        /\ lstate'[h] # NULL /\ GlobalOf[lstate'[h]] = GlobalOf[lstate[from]]
    BY <1>1, <1>4 DEF IInv, Ownership, OwnedSlotsInUse
  <2>2. lstate[from] # NULL /\ registry[GlobalOf[lstate[from]]][ref[from]] # Free
    BY <2>1 DEF IInv, Ownership, OwnedSlotsInUse
  <2>3. ~ (ref[d] = ref[from] /\ GlobalOf[lstate[d]] = GlobalOf[lstate[from]])
    BY <2>1 DEF IInv, Ownership, OneOwnerPerSlot
  <2>4. GlobalOf[lstate[from]] \in Globals
    BY <2>1, <2>2, ReferenceAssumption DEF IInv, TypeOK
  <2> HIDE DEF from
  <2> QED
    BY <2>1, <2>2, <2>3, <2>4, <1>3
<1>7. NoSlotLeaks'
  <2> SUFFICES ASSUME NEW x \in Globals, NEW i \in Slots, registry'[x][i] # Free
               PROVE  \E h \in Holders : lstate'[h] # NULL /\ GlobalOf[lstate'[h]] = x /\ ref'[h] = i
    BY DEF NoSlotLeaks
  <2>1. registry[x][i] # Free /\ ~ (ref[d] = i /\ GlobalOf[lstate[d]] = x)
    BY <1>3
  <2>2. PICK h \in Holders : lstate[h] # NULL /\ GlobalOf[lstate[h]] = x /\ ref[h] = i
    BY <2>1 DEF IInv, Ownership, NoSlotLeaks
  <2>3. CASE h = s
    <3>1. ref'[d] = i /\ lstate'[d] # NULL /\ GlobalOf[lstate'[d]] = x
      BY <2>2, <2>3, <1>4
    <3> QED
      BY <3>1
  <2>4. CASE h # s
    BY <2>1, <2>2, <2>4, <1>4
  <2> QED
    BY <2>3, <2>4
<1> QED
  BY <1>2, <1>5, <1>6, <1>7 DEF IInv, Ownership

(* An empty handle has nothing to release. *)
LEMMA EmptyReleasesNothing ==
  ASSUME TypeOK, NEW h \in Holders, Empty(h)
  PROVE  Unref(h) = registry
  BY DEF Empty, Unref

(* A valid handle owns a slot, so it has a state. *)
LEMMA ValidHasState ==
  ASSUME IInv, NEW h \in Holders, Valid(h)
  PROVE  ref[h] \in Slots /\ lstate[h] \in Threads
  BY DEF IInv, TypeOK, Valid, Ownership, OwnedSlotsInUse

--------------------------------------------------------------------------------

LEMMA InitInv == Init => IInv
  BY ReferenceAssumption DEF Init, IInv, TypeOK, Ownership, OneOwnerPerSlot, OwnedSlotsInUse, NoSlotLeaks

(* Constructors: the new handle had nothing to release. *)
LEMMA ConstructStep == IInv /\ Construct => IInv'
<1> SUFFICES ASSUME IInv, NEW d \in Holders,
                    \/ \E L \in Threads, v \in Objects \cup {Nil} : FromStack(d, L, v)
                    \/ \E L \in Threads : Pinned(d, L)
                    \/ \E L \in Threads, s \in Holders : CopyTo(d, L, s) \/ MoveTo(d, L, s)
                    \/ \E s \in Holders : CopyConstruct(d, s) \/ MoveConstruct(d, s)
             PROVE  IInv'
  BY DEF Construct
<1>0. Empty(d) /\ TypeOK
  BY DEF FromStack, Pinned, CopyTo, MoveTo, CopyConstruct, MoveConstruct, IInv
<1>1. Unref(d) = registry
  BY <1>0, EmptyReleasesNothing
<1>2. ref = [ref EXCEPT ![d] = NOREF]
  BY <1>0 DEF Empty, TypeOK
<1>3. ASSUME NEW L \in Threads, NEW v \in Objects \cup {Nil}, FromStack(d, L, v)
      PROVE  IInv'
  <2>1. PickMain(d \in MainOnly, L) \in Threads /\ GlobalOf[PickMain(d \in MainOnly, L)] = GlobalOf[L]
    BY ReferenceAssumption DEF PickMain
  <2> QED
    BY <1>1, <1>3, <2>1, StoreStep DEF FromStack, Contents
<1>4. ASSUME NEW L \in Threads, Pinned(d, L)
      PROVE  IInv'
  <2>1. PickMain(d \in MainOnly, L) \in Threads
    BY ReferenceAssumption DEF PickMain
  <2> QED
    BY <1>1, <1>2, <1>4, <2>1, ClearStep DEF Pinned
<1>5. ASSUME NEW L \in Threads, NEW s \in Holders, CopyTo(d, L, s) \/ MoveTo(d, L, s)
      PROVE  IInv'
  <2> DEFINE P == PickMain(d \in MainOnly, L)
  <2>1. P \in Threads /\ GlobalOf[P] = GlobalOf[L]
    BY ReferenceAssumption DEF PickMain
  <2>2. lstate[s] # NULL => GlobalOf[P] = GlobalOf[lstate[s]]
    BY <1>5, <2>1 DEF CopyTo, MoveTo, SameState
  <2>3. CASE ~ Valid(s)
    <3>1. ref' = [ref EXCEPT ![d] = ref[s]] /\ lstate' = [lstate EXCEPT ![d] = P] /\ registry' = Unref(d) /\ alive' = alive
      BY <1>1, <1>5, <2>3 DEF CopyTo, MoveTo
    <3> QED
      BY <3>1, <2>1, <2>3, ClearStep DEF Valid
  <2>4. CASE Valid(s)
    <3> DEFINE K == IF XMovable(P, lstate[s]) THEN P ELSE lstate[s]
    <3>1. ref[s] \in Slots /\ lstate[s] \in Threads /\ lstate[s] # NULL
      BY <2>4, ValidHasState, ReferenceAssumption
    <3>2. K \in Threads /\ GlobalOf[P] = GlobalOf[K]
      BY <2>1, <2>2, <3>1
    <3>3. Value(s) \in Contents \cup {Nil}
      BY ReadType DEF Value, IInv, TypeOK
    <3>4. \/ /\ lstate' = [lstate EXCEPT ![d] = P]
             /\ StoreRef(d, Unref(d), K, Value(s)) /\ alive' = alive
          \/ /\ d # s
             /\ lstate' = [lstate EXCEPT ![d] = P, ![s] = NULL]
             /\ ref' = [ref EXCEPT ![d] = ref[s], ![s] = NOREF]
             /\ registry' = Unref(d) /\ alive' = alive
      BY <1>1, <1>5, <2>4 DEF CopyTo, MoveTo
    <3>5. P # NULL
      BY <2>1, ReferenceAssumption
    <3> HIDE DEF P, K
    <3> QED
      BY <2>1, <2>2, <3>1, <3>2, <3>3, <3>4, <3>5, StoreStep, MoveStep
  <2> QED
    BY <2>3, <2>4
<1>6. ASSUME NEW s \in Holders, CopyConstruct(d, s) \/ MoveConstruct(d, s)
      PROVE  IInv'
  <2> DEFINE P == Adopted(d, s)
  <2>1. /\ P \in Threads \cup {NULL}
        /\ lstate[s] # NULL => P \in Threads /\ GlobalOf[P] = GlobalOf[lstate[s]]
    BY ReferenceAssumption DEF PickMain, Adopted, IInv, TypeOK
  <2>2. CASE MoveConstruct(d, s)
    <3>1. ref[s] \in Slots => P # NULL /\ GlobalOf[P] = GlobalOf[lstate[s]]
      BY <2>1, ReferenceAssumption DEF IInv, Ownership, OwnedSlotsInUse
    <3> QED
      BY <1>1, <2>1, <2>2, <3>1, MoveStep DEF MoveConstruct
  <2>3. CASE CopyConstruct(d, s) /\ ref[s] = NOREF
    BY <1>1, <1>2, <2>1, <2>3, ClearStep DEF CopyConstruct
  <2>4. CASE CopyConstruct(d, s) /\ ref[s] # NOREF /\ lstate[s] # NULL
    <3>1. Value(s) \in Contents \cup {Nil}
      BY ReadType DEF Value, IInv, TypeOK
    <3>2. lstate[s] \in Threads
      BY <2>4 DEF IInv, TypeOK
    <3> QED
      BY <1>1, <2>1, <2>4, <3>1, <3>2, StoreStep DEF CopyConstruct
  <2>5. CASE CopyConstruct(d, s) /\ ref[s] # NOREF /\ lstate[s] = NULL
    <3>1. Value(s) = Nil
      BY <2>5 DEF Value, Read
    <3>2. ref' = [ref EXCEPT ![d] = REFNIL] /\ registry' = registry
      BY <2>5, <3>1, ReferenceAssumption DEF CopyConstruct, StoreRef, FreshRefs
    <3> QED
      BY <1>1, <2>1, <2>5, <3>2, ClearStep DEF CopyConstruct
  <2> QED
    BY <1>6, <2>2, <2>3, <2>4, <2>5
<1> QED
  BY <1>3, <1>4, <1>5, <1>6

(* Assignments: the destination releases first, whatever the source is. *)
LEMMA AssignStep == IInv /\ Assign => IInv'
<1> SUFFICES ASSUME IInv, NEW d \in Holders, NEW s \in Holders, CopyAssign(d, s) \/ MoveAssign(d, s)
             PROVE  IInv'
  BY DEF Assign
<1> DEFINE P == Adopted(d, s)
           v == Read(Unref(d), lstate[s], ref[s])
<1>1. /\ P \in Threads \cup {NULL}
      /\ lstate[s] # NULL => P \in Threads /\ GlobalOf[P] = GlobalOf[lstate[s]]
  BY ReferenceAssumption DEF PickMain, Adopted, IInv, TypeOK
<1>2. v \in Contents \cup {Nil}
  BY UnrefType, ReadType DEF IInv, TypeOK
<1>3. alive' \subseteq alive
  BY DEF CopyAssign, MoveAssign
<1>4. CASE AssignEmpty(d, s)
  BY <1>1, <1>3, <1>4, ClearStep DEF AssignEmpty, Valid, IInv, TypeOK
<1>5. ASSUME Valid(s)
      PROVE  ref[s] \in Slots /\ lstate[s] \in Threads /\ lstate[s] # NULL
  BY <1>5, ValidHasState, ReferenceAssumption
<1>6. CASE AssignPinned(d, s)
  <2>1. lstate[d] \in Threads /\ lstate' = [lstate EXCEPT ![d] = lstate[d]]
    BY <1>6 DEF AssignPinned, XMovable, IInv, TypeOK
  <2> HIDE DEF v
  <2> QED
    BY <1>2, <1>3, <1>6, <2>1, StoreStep DEF AssignPinned, v
<1>7. CASE Valid(s) /\ lstate' = [lstate EXCEPT ![d] = P] /\ StoreRef(d, Unref(d), lstate[s], v)
  <2> HIDE DEF v, P
  <2> QED
    BY <1>1, <1>2, <1>3, <1>5, <1>7, StoreStep
<1>8. CASE /\ Valid(s)
           /\ lstate' = [lstate EXCEPT ![d] = P, ![s] = NULL]
           /\ ref' = [ref EXCEPT ![d] = ref[s], ![s] = NOREF]
           /\ registry' = Unref(d)
  <2>1. CASE d = s
    <3>1. lstate' = [lstate EXCEPT ![d] = NULL] /\ ref' = [ref EXCEPT ![d] = NOREF]
      BY <1>8, <2>1 DEF IInv, TypeOK
    <3> QED
      BY <1>3, <1>8, <3>1, ClearStep
  <2>2. CASE d # s
    <3>1. P # NULL /\ GlobalOf[P] = GlobalOf[lstate[s]]
      BY <1>1, <1>5, <1>8, ReferenceAssumption
    <3> HIDE DEF P
    <3> QED
      BY <1>1, <1>3, <1>8, <2>2, <3>1, MoveStep
  <2> QED
    BY <2>1, <2>2
<1> QED
  BY <1>4, <1>6, <1>7, <1>8 DEF CopyAssign, MoveAssign

LEMMA ResetStep == ASSUME IInv, NEW h \in Holders, Reset(h) PROVE IInv'
  BY ClearStep DEF Reset

LEMMA NextInv == IInv /\ [Next]_vars => IInv'
<1> SUFFICES ASSUME IInv, [Next]_vars PROVE IInv'
  OBVIOUS
<1>1. ASSUME NEW t \in Threads, Collect(t) PROVE IInv'
  BY <1>1 DEF Collect, IInv, TypeOK, Ownership, OneOwnerPerSlot, OwnedSlotsInUse, NoSlotLeaks
<1>2. CASE UNCHANGED vars
  BY <1>2 DEF vars, IInv, TypeOK, Ownership, OneOwnerPerSlot, OwnedSlotsInUse, NoSlotLeaks
<1> QED
  BY <1>1, <1>2, ConstructStep, AssignStep, ResetStep DEF Next

LEMMA Invariance == Spec => []IInv
  BY InitInv, NextInv, PTL DEF Spec

(* The variables keep their types in every execution of the handles *)
(* (reference.hpp, every constructor, assignment and reset).        *)
THEOREM TypeCorrect == Spec => []TypeOK
<1>1. IInv => TypeOK
  BY DEF IInv
<1> QED
  BY <1>1, Invariance, PTL

(* For any number of handles, threads, states and slots, and whatever the  *)
(* program assigns to what (a handle to itself included): no slot of a     *)
(* registry has two owners, so none is released twice, an owned slot is in *)
(* use, and no slot is left in use without an owner.                       *)
THEOREM SlotsOwnedExactlyOnce == Spec => []Ownership
<1>1. IInv => Ownership
  BY DEF IInv
<1> QED
  BY <1>1, Invariance, PTL

(* If no main_reference is assigned an empty reference that lives on a      *)
(* coroutine (the case basic_reference gets wrong), main_references stay on *)
(* main threads, out of reach of the collector.                             *)
THEOREM MainHandlesStayOnMain ==
  ASSUME "empty_of_coroutine" \notin Corners
  PROVE  Spec => []MainHandlesOnMain
<1>1. Init => MainHandlesOnMain
  BY ReferenceAssumption DEF Init, MainHandlesOnMain
<1>2. TypeOK /\ MainHandlesOnMain /\ [Next]_vars => MainHandlesOnMain'
  <2> SUFFICES ASSUME TypeOK, MainHandlesOnMain, [Next]_vars
               PROVE  MainHandlesOnMain'
    OBVIOUS
  <2>2. \A d \in MainOnly, s \in Holders : Adopted(d, s) \in Mains \cup {NULL}
    BY ReferenceAssumption DEF Adopted, PickMain, MainHandlesOnMain, Mains, TypeOK
  <2> DEFINE Settles(d, P) == d \in MainOnly => P \in Mains \cup {NULL}
  <2>10. ASSUME NEW d \in Holders, NEW P, Settles(d, P), lstate' = [lstate EXCEPT ![d] = P]
        PROVE  MainHandlesOnMain'
    BY <2>10, ReferenceAssumption DEF MainHandlesOnMain, TypeOK
  <2>11. ASSUME NEW d \in Holders, NEW s \in Holders, NEW P, Settles(d, P), lstate' = [lstate EXCEPT ![d] = P, ![s] = NULL]
        PROVE  MainHandlesOnMain'
    BY <2>11, ReferenceAssumption DEF MainHandlesOnMain, TypeOK
  <2>12. ASSUME NEW d \in Holders, NEW L \in Threads
        PROVE  Settles(d, PickMain(d \in MainOnly, L))
    BY ReferenceAssumption DEF PickMain, Mains
  <2>13. ASSUME NEW d \in Holders, NEW s \in Holders
        PROVE  Settles(d, Adopted(d, s))
    BY <2>2
  <2>3. CASE Construct
    <3> HIDE DEF Settles
    <3> PICK d \in Holders :
          \/ \E L \in Threads, v \in Objects \cup {Nil} : FromStack(d, L, v)
          \/ \E L \in Threads : Pinned(d, L)
          \/ \E L \in Threads, s \in Holders : CopyTo(d, L, s) \/ MoveTo(d, L, s)
          \/ \E s \in Holders : CopyConstruct(d, s) \/ MoveConstruct(d, s)
      BY <2>3 DEF Construct
    <3>1. ASSUME NEW L \in Threads, NEW v \in Objects \cup {Nil}, FromStack(d, L, v)
          PROVE  MainHandlesOnMain'
      BY <3>1, <2>10, <2>12 DEF FromStack
    <3>2. ASSUME NEW L \in Threads, Pinned(d, L)
          PROVE  MainHandlesOnMain'
      BY <3>2, <2>10, <2>12 DEF Pinned
    <3>3. ASSUME NEW L \in Threads, NEW s \in Holders, CopyTo(d, L, s) \/ MoveTo(d, L, s)
          PROVE  MainHandlesOnMain'
      BY <3>3, <2>10, <2>11, <2>12 DEF CopyTo, MoveTo
    <3>4. ASSUME NEW s \in Holders, CopyConstruct(d, s) \/ MoveConstruct(d, s)
          PROVE  MainHandlesOnMain'
      BY <3>4, <2>10, <2>11, <2>13 DEF CopyConstruct, MoveConstruct
    <3> QED
      BY <3>1, <3>2, <3>3, <3>4
  <2>4. CASE Assign
    <3> PICK d \in Holders, s \in Holders : CopyAssign(d, s) \/ MoveAssign(d, s)
      BY <2>4 DEF Assign
    <3>1. CASE AssignEmpty(d, s)
      <4>1. ref[s] = NOREF => Settles(d, lstate[s])
        BY ReferenceAssumption DEF CopyAssign, MoveAssign, Assignable, EmptyOfCoroutine, MainHandlesOnMain
      <4> HIDE DEF Settles
      <4>2. \E P : Settles(d, P) /\ lstate' = [lstate EXCEPT ![d] = P]
        BY <3>1, <4>1, <2>13 DEF AssignEmpty, Valid
      <4> QED
        BY <4>2, <2>10
    <3>2. CASE AssignPinned(d, s)
      BY <3>2 DEF AssignPinned, MainHandlesOnMain
    <3>3. CASE lstate' = [lstate EXCEPT ![d] = Adopted(d, s)] \/ lstate' = [lstate EXCEPT ![d] = Adopted(d, s), ![s] = NULL]
      <4> HIDE DEF Settles
      <4> QED
        BY <3>3, <2>10, <2>11, <2>13
    <3> QED
      BY <3>1, <3>2, <3>3 DEF CopyAssign, MoveAssign
  <2>5. ASSUME NEW h \in Holders, Reset(h) PROVE MainHandlesOnMain'
    BY <2>5 DEF Reset, MainHandlesOnMain, TypeOK
  <2>6. ASSUME NEW t \in Threads, Collect(t) PROVE MainHandlesOnMain'
    BY <2>6 DEF Collect, MainHandlesOnMain
  <2>7. CASE UNCHANGED vars
    BY <2>7 DEF vars, MainHandlesOnMain
  <2> QED
    BY <2>3, <2>4, <2>5, <2>6, <2>7 DEF Next
<1> QED
  BY <1>1, <1>2, TypeCorrect, PTL DEF Spec

--------------------------------------------------------------------------------
(* The handles denote Lua objects: every operation is one of the abstract   *)
(* handles of Handles.tla.                                                  *)

(* What a handle of the model denotes is not disturbed when another one     *)
(* gives its slot back: the two slots are different, or of different states.*)
LEMMA OthersUndisturbed ==
  ASSUME IInv, NEW d \in Holders, NEW h \in Holders, h # d
  PROVE  Read(Unref(d), lstate[h], ref[h]) = Value(h)
<1>1. CASE ref[h] \notin Slots
  BY <1>1 DEF Read, Value
<1>2. CASE ref[h] \in Slots
  <2>1. lstate[h] # NULL /\ GlobalOf[lstate[h]] \in Globals
    BY <1>2, ReferenceAssumption DEF IInv, TypeOK, Ownership, OwnedSlotsInUse
  <2>2. ~ (ref[d] = ref[h] /\ GlobalOf[lstate[d]] = GlobalOf[lstate[h]])
    BY <1>2 DEF IInv, Ownership, OneOwnerPerSlot
  <2>3. Unref(d)[GlobalOf[lstate[h]]][ref[h]] = registry[GlobalOf[lstate[h]]][ref[h]]
    BY <1>2, <2>1, <2>2, UnrefEffect DEF IInv, Ownership
  <2> QED
    BY <2>3 DEF Read, Value
<1> QED
  BY <1>1, <1>2

(* The three kinds of change, as changes of what the handles denote.        *)
LEMMA StoreValue ==
  ASSUME IInv, NEW d \in Holders, NEW L \in Threads, NEW P \in Threads,
         NEW v \in Contents \cup {Nil},
         GlobalOf[P] = GlobalOf[L],
         StoreRef(d, Unref(d), L, v),
         lstate' = [lstate EXCEPT ![d] = P]
  PROVE  \A h \in Holders : Value(h)' = IF h = d THEN v ELSE Value(h)
<1> DEFINE g == GlobalOf[L]
           reg == Unref(d)
<1>1. PICK r \in FreshRefs(reg, g, v) :
         /\ ref' = [ref EXCEPT ![d] = r]
         /\ registry' = IF r \in Slots THEN [reg EXCEPT ![g][r] = v] ELSE reg
  BY DEF StoreRef
<1>2. g \in Globals /\ reg \in [Globals -> [Slots -> Contents \cup {Free}]]
  BY UnrefType, ReferenceAssumption DEF IInv
<1>3. \/ r = REFNIL /\ r \notin Slots /\ v = Nil
      \/ r \in Slots /\ reg[g][r] = Free /\ v \in Contents
  BY ReferenceAssumption DEF FreshRefs
<1>4. \A x \in Globals, i \in Slots :
         registry'[x][i] = IF x = g /\ i = r THEN v ELSE reg[x][i]
  BY <1>1, <1>2, <1>3
<1>5. \A h \in Holders : ref'[h] = (IF h = d THEN r ELSE ref[h]) /\ lstate'[h] = (IF h = d THEN P ELSE lstate[h])
  BY <1>1 DEF IInv, TypeOK
<1> HIDE DEF reg
<1> TAKE h \in Holders
<1>6. CASE h = d
  <2>1. lstate'[d] = P /\ ref'[d] = r /\ P # NULL
    BY <1>5, ReferenceAssumption
  <2>2. r \in Slots => registry'[GlobalOf[P]][r] = v /\ v # Free
    BY <1>2, <1>3, <1>4, ContentsNotFree
  <2> QED
    BY <1>3, <1>6, <2>1, <2>2 DEF Value, Read
<1>7. CASE h # d
  <2>1. lstate'[h] = lstate[h] /\ ref'[h] = ref[h]
    BY <1>5, <1>7
  <2>2. Read(reg, lstate[h], ref[h]) = Value(h)
    BY <1>7, OthersUndisturbed DEF reg
  <2>3. CASE ref[h] \notin Slots
    BY <1>7, <2>1, <2>3 DEF Value, Read
  <2>4. CASE ref[h] \in Slots
    <3>1. /\ lstate[h] # NULL /\ GlobalOf[lstate[h]] \in Globals
          /\ registry[GlobalOf[lstate[h]]][ref[h]] # Free
      BY <2>4, ReferenceAssumption DEF IInv, TypeOK, Ownership, OwnedSlotsInUse
    <3>2. ~ (ref[d] = ref[h] /\ GlobalOf[lstate[d]] = GlobalOf[lstate[h]])
      BY <1>7, <2>4 DEF IInv, Ownership, OneOwnerPerSlot
    <3>3. reg[GlobalOf[lstate[h]]][ref[h]] = registry[GlobalOf[lstate[h]]][ref[h]]
      BY <2>4, <3>1, <3>2, UnrefEffect DEF IInv, Ownership, reg
    <3>4. registry'[GlobalOf[lstate[h]]][ref[h]] = registry[GlobalOf[lstate[h]]][ref[h]]
      BY <1>3, <1>4, <2>4, <3>1, <3>3
    <3> QED
      BY <1>7, <2>1, <2>4, <3>4 DEF Value, Read
  <2> QED
    BY <2>3, <2>4
<1> QED
  BY <1>6, <1>7

LEMMA ClearValue ==
  ASSUME IInv, NEW d \in Holders, NEW P \in Threads \cup {NULL}, NEW r \in {NOREF, REFNIL},
         lstate' = [lstate EXCEPT ![d] = P],
         ref' = [ref EXCEPT ![d] = r],
         registry' = Unref(d)
  PROVE  \A h \in Holders : Value(h)' = IF h = d THEN Nil ELSE Value(h)
<1>1. \A h \in Holders : ref'[h] = (IF h = d THEN r ELSE ref[h]) /\ lstate'[h] = (IF h = d THEN P ELSE lstate[h])
  BY DEF IInv, TypeOK
<1>2. r \notin Slots
  BY ReferenceAssumption
<1> TAKE h \in Holders
<1>3. CASE h = d
  BY <1>1, <1>2, <1>3 DEF Value, Read
<1>4. CASE h # d
  <2>1. Read(Unref(d), lstate[h], ref[h]) = Value(h)
    BY <1>4, OthersUndisturbed
  <2>2. Value(h)' = Read(registry', lstate'[h], ref'[h])
    BY DEF Value, Read
  <2> QED
    BY <1>1, <1>4, <2>1, <2>2
<1> QED
  BY <1>3, <1>4

LEMMA MoveValue ==
  ASSUME IInv, NEW d \in Holders, NEW s \in Holders, d # s,
         NEW P \in Threads \cup {NULL},
         ref[s] \in Slots => P # NULL /\ GlobalOf[P] = GlobalOf[lstate[s]],
         lstate' = [lstate EXCEPT ![d] = P, ![s] = NULL],
         ref' = [ref EXCEPT ![d] = ref[s], ![s] = NOREF],
         registry' = Unref(d)
  PROVE  \A h \in Holders :
            Value(h)' = IF h = s THEN Nil ELSE IF h = d THEN Value(s) ELSE Value(h)
<1>1. \A h \in Holders :
        /\ ref'[h] = IF h = d THEN ref[s] ELSE IF h = s THEN NOREF ELSE ref[h]
        /\ lstate'[h] = IF h = d THEN P ELSE IF h = s THEN NULL ELSE lstate[h]
  BY DEF IInv, TypeOK
<1> TAKE h \in Holders
<1>2. Value(h)' = Read(registry', lstate'[h], ref'[h])
  BY DEF Value, Read
<1>3. CASE h = s
  BY <1>1, <1>2, <1>3 DEF Read
<1>4. CASE h = d
  <2>1. Read(Unref(d), lstate[s], ref[s]) = Value(s)
    BY OthersUndisturbed
  <2>2. Value(h)' = Read(Unref(d), P, ref[s])
    BY <1>1, <1>2, <1>4
  <2>3. Read(Unref(d), P, ref[s]) = Read(Unref(d), lstate[s], ref[s])
    BY DEF Read, IInv, Ownership, OwnedSlotsInUse
  <2> QED
    BY <1>4, <2>1, <2>2, <2>3
<1>5. CASE h # s /\ h # d
  BY <1>1, <1>2, <1>5, OthersUndisturbed
<1> QED
  BY <1>3, <1>4, <1>5

(* The abstract steps, from what they do to each handle's value.            *)
LEMMA IsCopy ==
  ASSUME NEW d \in Holders, NEW s \in Holders,
         \A h \in Holders : Value(h)' = IF h = d THEN Value(s) ELSE Value(h)
  PROVE  Abstract!Next
<1>1. Abstract!Copy(d, s)
  BY DEF Abstract!Copy
<1> QED
  BY <1>1 DEF Abstract!Next

LEMMA IsRelease ==
  ASSUME NEW d \in Holders,
         \A h \in Holders : Value(h)' = IF h = d THEN Nil ELSE Value(h)
  PROVE  Abstract!Next
<1>1. Abstract!Release(d)
  BY DEF Abstract!Release
<1> QED
  BY <1>1 DEF Abstract!Next

LEMMA IsMove ==
  ASSUME NEW d \in Holders, NEW s \in Holders, d # s, NEW left \in {Nil, Value(s)},
         \A h \in Holders :
            Value(h)' = IF h = s THEN left ELSE IF h = d THEN Value(s) ELSE Value(h)
  PROVE  Abstract!Next
<1>1. Abstract!Move(d, s)
  BY DEF Abstract!Move
<1> QED
  BY <1>1 DEF Abstract!Next

(* What the handles denote, all of them. *)
Denoted == [h \in Holders |-> Value(h)]

(* Constructors.  The new handle denoted nothing, so it acquires or copies. *)
LEMMA ConstructRefines ==
  ASSUME IInv, Construct
  PROVE  [Abstract!Next]_Denoted
<1> PICK d \in Holders :
       \/ \E L \in Threads, v \in Objects \cup {Nil} : FromStack(d, L, v)
       \/ \E L \in Threads : Pinned(d, L)
       \/ \E L \in Threads, s \in Holders : CopyTo(d, L, s) \/ MoveTo(d, L, s)
       \/ \E s \in Holders : CopyConstruct(d, s) \/ MoveConstruct(d, s)
  BY DEF Construct
<1>0. Empty(d) /\ TypeOK
  BY DEF FromStack, Pinned, CopyTo, MoveTo, CopyConstruct, MoveConstruct, IInv
<1>1. Unref(d) = registry
  BY <1>0, EmptyReleasesNothing
<1>2. ref = [ref EXCEPT ![d] = NOREF]
  BY <1>0 DEF Empty, TypeOK
<1>3. ASSUME NEW L \in Threads, NEW v \in Objects \cup {Nil}, FromStack(d, L, v)
      PROVE  [Abstract!Next]_Denoted
  <2>1. PickMain(d \in MainOnly, L) \in Threads /\ GlobalOf[PickMain(d \in MainOnly, L)] = GlobalOf[L]
    BY ReferenceAssumption DEF PickMain
  <2>2. \A h \in Holders : Value(h)' = IF h = d THEN v ELSE Value(h)
    BY <1>1, <1>3, <2>1, StoreValue DEF FromStack, Contents
  <2>3. Value(d) = Nil
    BY <1>0 DEF Empty, Value, Read
  <2>4. CASE v = Nil
    BY <2>2, <2>4, IsRelease
  <2>5. CASE v \in Objects
    <3>1. Abstract!Acquire(d, v)
      BY <2>2, <2>3 DEF Abstract!Acquire
    <3> QED
      BY <2>5, <3>1 DEF Abstract!Next
  <2> QED
    BY <2>4, <2>5
<1>4. ASSUME NEW L \in Threads, Pinned(d, L)
      PROVE  [Abstract!Next]_Denoted
  <2>1. PickMain(d \in MainOnly, L) \in Threads
    BY ReferenceAssumption DEF PickMain
  <2> QED
    BY <1>1, <1>2, <1>4, <2>1, ClearValue, IsRelease DEF Pinned
<1>5. ASSUME NEW L \in Threads, NEW s \in Holders, CopyTo(d, L, s) \/ MoveTo(d, L, s)
      PROVE  [Abstract!Next]_Denoted
  <2> DEFINE P == PickMain(d \in MainOnly, L)
  <2>1. P \in Threads /\ GlobalOf[P] = GlobalOf[L]
    BY ReferenceAssumption DEF PickMain
  <2>2. lstate[s] # NULL => GlobalOf[P] = GlobalOf[lstate[s]]
    BY <1>5, <2>1 DEF CopyTo, MoveTo, SameState
  <2>3. CASE ~ Valid(s)
    <3>1. ref' = [ref EXCEPT ![d] = ref[s]] /\ lstate' = [lstate EXCEPT ![d] = P] /\ registry' = Unref(d)
      BY <1>1, <1>5, <2>3 DEF CopyTo, MoveTo
    <3>2. \A h \in Holders : Value(h)' = IF h = d THEN Nil ELSE Value(h)
      BY <3>1, <2>1, <2>3, ClearValue DEF Valid
    <3> QED
      BY <3>2, IsRelease
  <2>4. CASE Valid(s)
    <3> DEFINE K == IF XMovable(P, lstate[s]) THEN P ELSE lstate[s]
    <3>1. ref[s] \in Slots /\ lstate[s] \in Threads /\ lstate[s] # NULL
      BY <2>4, ValidHasState, ReferenceAssumption
    <3>2. K \in Threads /\ GlobalOf[P] = GlobalOf[K]
      BY <2>1, <2>2, <3>1
    <3>3. Value(s) \in Contents \cup {Nil}
      BY ReadType DEF Value, IInv, TypeOK
    <3>4. P # NULL
      BY <2>1, ReferenceAssumption
    <3>5. \/ /\ lstate' = [lstate EXCEPT ![d] = P]
             /\ StoreRef(d, Unref(d), K, Value(s))
          \/ /\ d # s
             /\ lstate' = [lstate EXCEPT ![d] = P, ![s] = NULL]
             /\ ref' = [ref EXCEPT ![d] = ref[s], ![s] = NOREF]
             /\ registry' = Unref(d)
      BY <1>1, <1>5, <2>4 DEF CopyTo, MoveTo
    <3> HIDE DEF P, K
    <3>6. CASE lstate' = [lstate EXCEPT ![d] = P] /\ StoreRef(d, Unref(d), K, Value(s))
      BY <3>6, <2>1, <3>2, <3>3, StoreValue, IsCopy
    <3>7. CASE /\ d # s
               /\ lstate' = [lstate EXCEPT ![d] = P, ![s] = NULL]
               /\ ref' = [ref EXCEPT ![d] = ref[s], ![s] = NOREF]
               /\ registry' = Unref(d)
      <4>1. \A h \in Holders :
               Value(h)' = IF h = s THEN Nil ELSE IF h = d THEN Value(s) ELSE Value(h)
        BY <3>7, <2>1, <2>2, <3>1, <3>4, MoveValue
      <4> QED
        BY <3>7, <4>1, IsMove
    <3> QED
      BY <3>5, <3>6, <3>7
  <2> QED
    BY <2>3, <2>4
<1>6. ASSUME NEW s \in Holders, CopyConstruct(d, s) \/ MoveConstruct(d, s)
      PROVE  [Abstract!Next]_Denoted
  <2> DEFINE P == Adopted(d, s)
  <2>1. /\ P \in Threads \cup {NULL}
        /\ lstate[s] # NULL => P \in Threads /\ GlobalOf[P] = GlobalOf[lstate[s]]
    BY ReferenceAssumption DEF PickMain, Adopted, IInv, TypeOK
  <2>2. CASE MoveConstruct(d, s)
    <3>1. ref[s] \in Slots => P # NULL /\ GlobalOf[P] = GlobalOf[lstate[s]]
      BY <2>1, ReferenceAssumption DEF IInv, Ownership, OwnedSlotsInUse
    <3>2. d # s /\ registry' = Unref(d)
      BY <1>1, <2>2 DEF MoveConstruct
    <3> HIDE DEF P
    <3>3. \A h \in Holders :
            Value(h)' = IF h = s THEN Nil ELSE IF h = d THEN Value(s) ELSE Value(h)
      BY <2>1, <2>2, <3>1, <3>2, MoveValue DEF MoveConstruct, P
    <3> QED
      BY <3>2, <3>3, IsMove
  <2>3. CASE CopyConstruct(d, s) /\ ref[s] = NOREF
    <3>1. \A h \in Holders : Value(h)' = IF h = d THEN Nil ELSE Value(h)
      BY <1>1, <1>2, <2>1, <2>3, ClearValue DEF CopyConstruct
    <3> QED
      BY <3>1, IsRelease
  <2>4. CASE CopyConstruct(d, s) /\ ref[s] # NOREF /\ lstate[s] # NULL
    <3>1. Value(s) \in Contents \cup {Nil}
      BY ReadType DEF Value, IInv, TypeOK
    <3>2. lstate[s] \in Threads
      BY <2>4 DEF IInv, TypeOK
    <3>3. \A h \in Holders : Value(h)' = IF h = d THEN Value(s) ELSE Value(h)
      BY <1>1, <2>1, <2>4, <3>1, <3>2, StoreValue DEF CopyConstruct
    <3> QED
      BY <3>3, IsCopy
  <2>5. CASE CopyConstruct(d, s) /\ ref[s] # NOREF /\ lstate[s] = NULL
    <3>1. Value(s) = Nil
      BY <2>5 DEF Value, Read
    <3>2. ref' = [ref EXCEPT ![d] = REFNIL] /\ registry' = registry
      BY <2>5, <3>1, ReferenceAssumption DEF CopyConstruct, StoreRef, FreshRefs
    <3>3. \A h \in Holders : Value(h)' = IF h = d THEN Nil ELSE Value(h)
      BY <1>1, <2>1, <2>5, <3>2, ClearValue DEF CopyConstruct
    <3> QED
      BY <3>3, IsRelease
  <2> QED
    BY <1>6, <2>2, <2>3, <2>4, <2>5
<1> QED
  BY <1>3, <1>4, <1>5, <1>6

(* Assignments.  The source is read after the destination let go, which a   *)
(* self-copy of an object does not survive: Corners must exclude it.        *)
LEMMA AssignRefines ==
  ASSUME "self_copy" \notin Corners, IInv, Assign
  PROVE  [Abstract!Next]_Denoted
<1> PICK d \in Holders, s \in Holders : CopyAssign(d, s) \/ MoveAssign(d, s)
  BY DEF Assign
<1> DEFINE P == Adopted(d, s)
           v == Read(Unref(d), lstate[s], ref[s])
<1>1. /\ P \in Threads \cup {NULL}
      /\ lstate[s] # NULL => P \in Threads /\ GlobalOf[P] = GlobalOf[lstate[s]]
  BY ReferenceAssumption DEF PickMain, Adopted, IInv, TypeOK
<1>2. v \in Contents \cup {Nil}
  BY UnrefType, ReadType DEF IInv, TypeOK
<1>3. ASSUME d # s PROVE v = Value(s)
  BY <1>3, OthersUndisturbed
<1>4. CASE AssignEmpty(d, s)
  <2>1. \A h \in Holders : Value(h)' = IF h = d THEN Nil ELSE Value(h)
    BY <1>1, <1>4, ClearValue DEF AssignEmpty, Valid, IInv, TypeOK
  <2> QED
    BY <2>1, IsRelease
<1>5. ASSUME Valid(s)
      PROVE  ref[s] \in Slots /\ lstate[s] \in Threads /\ lstate[s] # NULL
  BY <1>5, ValidHasState, ReferenceAssumption
<1>6. CASE AssignPinned(d, s)
  <2>1. d # s
    BY <1>6 DEF AssignPinned, XMovable
  <2>2. lstate[d] \in Threads /\ lstate' = [lstate EXCEPT ![d] = lstate[d]]
    BY <1>6 DEF AssignPinned, XMovable, IInv, TypeOK
  <2> HIDE DEF v
  <2>3. \A h \in Holders : Value(h)' = IF h = d THEN v ELSE Value(h)
    BY <1>2, <1>6, <2>2, StoreValue DEF AssignPinned, v
  <2> QED
    BY <1>3, <2>1, <2>3, IsCopy
<1>7. CASE /\ Valid(s) /\ d # s
           /\ lstate' = [lstate EXCEPT ![d] = P] /\ StoreRef(d, Unref(d), lstate[s], v)
  <2> HIDE DEF v, P
  <2>1. \A h \in Holders : Value(h)' = IF h = d THEN v ELSE Value(h)
    BY <1>1, <1>2, <1>5, <1>7, StoreValue
  <2> QED
    BY <1>3, <1>7, <2>1, IsCopy
<1>8. CASE /\ Valid(s)
           /\ lstate' = [lstate EXCEPT ![d] = P, ![s] = NULL]
           /\ ref' = [ref EXCEPT ![d] = ref[s], ![s] = NOREF]
           /\ registry' = Unref(d)
  <2>1. CASE d = s
    <3>1. lstate' = [lstate EXCEPT ![d] = NULL] /\ ref' = [ref EXCEPT ![d] = NOREF]
      BY <1>8, <2>1 DEF IInv, TypeOK
    <3> QED
      BY <1>8, <3>1, ClearValue, IsRelease
  <2>2. CASE d # s
    <3>1. P # NULL /\ GlobalOf[P] = GlobalOf[lstate[s]]
      BY <1>1, <1>5, <1>8, ReferenceAssumption
    <3> HIDE DEF P
    <3>2. \A h \in Holders :
            Value(h)' = IF h = s THEN Nil ELSE IF h = d THEN Value(s) ELSE Value(h)
      BY <1>1, <1>8, <2>2, <3>1, MoveValue
    <3> QED
      BY <2>2, <3>2, IsMove
  <2> QED
    BY <2>1, <2>2
<1> QED
  BY <1>4, <1>6, <1>7, <1>8 DEF CopyAssign, MoveAssign

(* sol::reference behaves as a C++ value: a copy denotes its source's       *)
(* object, a move hands it over, and no construction, assignment, reset or  *)
(* collection disturbs a third handle, across threads and Lua states, for   *)
(* any number of them; unless a program copy-assigns a handle to itself,    *)
(* which copy_assign_complex (reference.hpp) does not survive.              *)
THEOREM HandlesImplementValues ==
  ASSUME "self_copy" \notin Corners
  PROVE  Spec => IsHandles
<1>1. Init => Abstract!Init
  BY ReferenceAssumption DEF Init, Abstract!Init, Value, Read
<1>2. IInv /\ [Next]_vars => [Abstract!Next]_Denoted
  <2> SUFFICES ASSUME IInv, [Next]_vars
               PROVE  [Abstract!Next]_Denoted
    OBVIOUS
  <2>1. ASSUME NEW h \in Holders, Reset(h) PROVE [Abstract!Next]_Denoted
    BY <2>1, ClearValue, IsRelease DEF Reset
  <2>2. ASSUME NEW t \in Threads, Collect(t) PROVE [Abstract!Next]_Denoted
    BY <2>2 DEF Collect, Denoted, Value, Read
  <2>3. CASE UNCHANGED vars
    BY <2>3 DEF vars, Denoted, Value, Read
  <2> QED
    BY <2>1, <2>2, <2>3, ConstructRefines, AssignRefines DEF Next
<1> QED
  BY <1>1, <1>2, Invariance, PTL DEF Spec, IsHandles, Abstract!Spec, Denoted

(* Assigning an object to another handle that is on a thread of the same    *)
(* state leaves that handle's thread alone (the lua_xmove branches of       *)
(* copy_assign_complex and move_assign).  A main_reference needs more than  *)
(* the code of the assignment: it adopts the main thread of the source's    *)
(* state, which is the thread it is on only because it never is on another. *)
THEOREM AssignmentKeepsPin ==
  ASSUME "empty_of_coroutine" \notin Corners
  PROVE  Spec => ObjectAssignmentKeepsPin
<1> DEFINE Kept ==
      \A d, s \in Holders :
        /\ CopyAssign(d, s) \/ MoveAssign(d, s)
        /\ d # s /\ Valid(s)
        /\ lstate[d] # NULL /\ GlobalOf[lstate[d]] = GlobalOf[lstate[s]]
        => lstate'[d] = lstate[d]
<1>1. IInv /\ MainHandlesOnMain => Kept
  <2> SUFFICES ASSUME IInv, MainHandlesOnMain, NEW d \in Holders, NEW s \in Holders,
                      CopyAssign(d, s) \/ MoveAssign(d, s),
                      d # s, Valid(s),
                      lstate[d] # NULL, GlobalOf[lstate[d]] = GlobalOf[lstate[s]]
               PROVE  lstate'[d] = lstate[d]
    OBVIOUS
  <2>1. lstate[s] \in Threads /\ lstate[s] # NULL /\ lstate[d] \in Threads
    BY ValidHasState, ReferenceAssumption DEF IInv, TypeOK
  <2>2. ~ XMovable(lstate[d], lstate[s]) => lstate[d] = lstate[s]
    BY <2>1 DEF XMovable
  <2>3. lstate[d] = lstate[s] => Adopted(d, s) = lstate[d]
    <3>1. CASE d \in MainOnly
      <4>1. PICK g \in Globals : lstate[d] = MainOf[g]
        BY <3>1, <2>1, ReferenceAssumption DEF MainHandlesOnMain, Mains
      <4>2. MainOf[GlobalOf[lstate[d]]] = lstate[d]
        BY <4>1, ReferenceAssumption
      <4> QED
        BY <4>2 DEF Adopted, PickMain
    <3>2. CASE d \notin MainOnly
      BY <3>2 DEF Adopted, PickMain
    <3> QED
      BY <3>1, <3>2
  <2>4. CASE AssignPinned(d, s)
    BY <2>4 DEF AssignPinned
  <2>5. CASE ~ XMovable(lstate[d], lstate[s]) /\ lstate'[d] = Adopted(d, s)
    BY <2>2, <2>3, <2>5
  <2>6. ~ AssignEmpty(d, s)
    BY DEF AssignEmpty
  <2>7. \/ AssignPinned(d, s)
        \/ /\ ~ XMovable(lstate[d], lstate[s])
           /\ \/ lstate' = [lstate EXCEPT ![d] = Adopted(d, s)]
              \/ lstate' = [lstate EXCEPT ![d] = Adopted(d, s), ![s] = NULL]
    BY <2>6 DEF CopyAssign, MoveAssign
  <2>8. lstate \in [Holders -> Threads \cup {NULL}]
    BY DEF IInv, TypeOK
  <2> QED
    BY <2>4, <2>5, <2>7, <2>8
<1> QED
  BY <1>1, Invariance, MainHandlesStayOnMain, PTL DEF ObjectAssignmentKeepsPin, Spec
================================================================================

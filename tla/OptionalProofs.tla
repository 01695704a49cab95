----------------------------- MODULE OptionalProofs -----------------------------
(***************************************************************************)
(* The lifetimes of what optionals hold, whatever is called on them.  The    *)
(* invariant is about the memory alone: each operation is one of a few       *)
(* changes of it, and each change keeps Sound, so that a step does.          *)
(***************************************************************************)
EXTENDS Optional, FiniteSetTheorems, TLAPS

Memories ==
  [alive : [Owners -> BOOLEAN], has : [Owners -> BOOLEAN],
   store : [Owners -> Held \cup {Dead}], balance : Int]

Engaged(m) == {o \in Owners : m.has[o]}

(* What FlagsTellLifetimes and EachDestroyedOnce say of the memory. *)
Sound(m) ==
  /\ m \in Memories
  /\ \A o \in Owners : (m.has[o] <=> m.store[o] # Dead) /\ (m.has[o] => m.alive[o])
  /\ m.balance = Cardinality(Engaged(m))

LEMMA DeadHoldsNothing == Dead \notin Held
<1>1. Values \subseteq Nat \ {0} /\ Moved = 0 /\ Dead \notin Int
  BY OptionalAssumption DEF Dead
<1>2. \A h \in Held : h \in Int
  BY <1>1 DEF Held
<1>3. QED
  BY <1>1, <1>2

LEMMA EngagedCounted ==
  ASSUME NEW m
  PROVE  /\ IsFiniteSet(Engaged(m)) /\ Cardinality(Engaged(m)) \in Nat
         /\ \A o \in Owners \ Engaged(m) :
              Cardinality(Engaged(m) \cup {o}) = Cardinality(Engaged(m)) + 1
         /\ \A o \in Engaged(m) :
              Cardinality(Engaged(m) \ {o}) = Cardinality(Engaged(m)) - 1
<1>1. IsFiniteSet(Engaged(m))
  BY OptionalAssumption, FS_Subset DEF Engaged
<1>2. QED
  BY <1>1, FS_CardinalityType, FS_AddElement, FS_RemoveElement

(* construct, on storage in which nothing lives. *)
LEMMA BuiltSound ==
  ASSUME NEW m, Sound(m), NEW o \in Owners, m.alive[o], ~m.has[o], NEW v \in Held
  PROVE  Sound(Built(m, o, v))
<1> DEFINE b == Built(m, o, v)
<1>1. /\ b \in Memories /\ b.alive = m.alive /\ b.balance = m.balance + 1
      /\ b.has = [m.has EXCEPT ![o] = TRUE] /\ b.store = [m.store EXCEPT ![o] = v]
  <2> USE DEF Sound, Memories
  <2>1. b = [alive |-> m.alive, has |-> [m.has EXCEPT ![o] = TRUE],
             store |-> [m.store EXCEPT ![o] = v], balance |-> m.balance + 1]
    BY DEF Built
  <2>2. [m.has EXCEPT ![o] = TRUE] \in [Owners -> BOOLEAN]
    OBVIOUS
  <2>3. [m.store EXCEPT ![o] = v] \in [Owners -> Held \cup {Dead}]
    OBVIOUS
  <2> HIDE DEF b
  <2>4. QED
    BY <2>1, <2>2, <2>3
<1>2. Engaged(b) = Engaged(m) \cup {o} /\ o \notin Engaged(m)
  BY <1>1 DEF Engaged, Sound, Memories
<1>3. b.balance = Cardinality(Engaged(b))
  BY <1>1, <1>2, EngagedCounted DEF Sound
<1>4. ASSUME NEW x \in Owners
      PROVE  (b.has[x] <=> b.store[x] # Dead) /\ (b.has[x] => b.alive[x])
  <2>1. CASE x = o
    BY <2>1, <1>1, DeadHoldsNothing DEF Sound, Memories
  <2>2. CASE x # o
    BY <2>2, <1>1 DEF Sound, Memories
  <2>3. QED
    BY <2>1, <2>2
<1>5. QED
  BY <1>1, <1>3, <1>4 DEF Sound

(* reset, hard_reset and the destructor. *)
LEMMA ResetSound ==
  ASSUME NEW m, Sound(m), NEW o \in Owners
  PROVE  /\ Sound(Reset(m, o)) /\ ~Reset(m, o).has[o] /\ Reset(m, o).alive = m.alive
         /\ \A x \in Owners \ {o} : Reset(m, o).has[x] = m.has[x] /\ Reset(m, o).store[x] = m.store[x]
<1>1. CASE m.has[o]
  <2> DEFINE b == Reset(m, o)
  <2>1. /\ b \in Memories /\ b.alive = m.alive /\ b.balance = m.balance - 1
        /\ b.has = [m.has EXCEPT ![o] = FALSE] /\ b.store = [m.store EXCEPT ![o] = Dead]
    <3> USE DEF Sound, Memories
    <3>1. b = [alive |-> m.alive, has |-> [m.has EXCEPT ![o] = FALSE],
               store |-> [m.store EXCEPT ![o] = Dead], balance |-> m.balance - 1]
      BY <1>1 DEF Reset, Unbuilt
    <3>2. [m.has EXCEPT ![o] = FALSE] \in [Owners -> BOOLEAN]
      OBVIOUS
    <3>3. [m.store EXCEPT ![o] = Dead] \in [Owners -> Held \cup {Dead}]
      OBVIOUS
    <3> HIDE DEF b
    <3>4. QED
      BY <3>1, <3>2, <3>3
  <2>2. Engaged(b) = Engaged(m) \ {o} /\ o \in Engaged(m)
    BY <1>1, <2>1 DEF Engaged, Sound, Memories
  <2>3. b.balance = Cardinality(Engaged(b))
    BY <2>1, <2>2, EngagedCounted DEF Sound
  <2>4. ASSUME NEW x \in Owners
        PROVE  (b.has[x] <=> b.store[x] # Dead) /\ (b.has[x] => b.alive[x])
    <3>1. CASE x = o
      BY <3>1, <2>1 DEF Sound, Memories
    <3>2. CASE x # o
      BY <3>2, <2>1 DEF Sound, Memories
    <3>3. QED
      BY <3>1, <3>2
  <2>5. ~b.has[o] /\ \A x \in Owners \ {o} : b.has[x] = m.has[x] /\ b.store[x] = m.store[x]
    BY <2>1 DEF Sound, Memories
  <2> HIDE DEF b
  <2>6. QED
    BY <2>1, <2>3, <2>4, <2>5 DEF Sound, b
<1>2. CASE ~m.has[o]
  BY <1>2 DEF Reset
<1>3. QED
  BY <1>1, <1>2

(* A value replaced by another, by an assignment or a move. *)
LEMMA StoreSound ==
  ASSUME NEW m, Sound(m), NEW o \in Owners, m.has[o], NEW v \in Held
  PROVE  /\ Sound([m EXCEPT !.store[o] = v]) /\ [m EXCEPT !.store[o] = v].has = m.has
         /\ [m EXCEPT !.store[o] = v].alive = m.alive
<1> DEFINE b == [m EXCEPT !.store[o] = v]
<1>1. /\ b \in Memories /\ b.alive = m.alive /\ b.balance = m.balance
      /\ b.has = m.has /\ b.store = [m.store EXCEPT ![o] = v]
  BY DEF Sound, Memories
<1>2. Engaged(b) = Engaged(m)
  BY <1>1 DEF Engaged
<1>3. ASSUME NEW x \in Owners
      PROVE  (b.has[x] <=> b.store[x] # Dead) /\ (b.has[x] => b.alive[x])
  <2>1. CASE x = o
    BY <2>1, <1>1, DeadHoldsNothing DEF Sound, Memories
  <2>2. CASE x # o
    BY <2>2, <1>1 DEF Sound, Memories
  <2>3. QED
    BY <2>1, <2>2
<1>4. QED
  BY <1>1, <1>2, <1>3 DEF Sound

(* An optional that is constructed, and holds nothing yet. *)
LEMMA BeganSound ==
  ASSUME NEW m, Sound(m), NEW t \in Owners, ~m.alive[t]
  PROVE  /\ Sound(Began(m, t)) /\ Began(m, t).alive[t] /\ Began(m, t).has = m.has /\ ~m.has[t]
         /\ \A x \in Owners : m.alive[x] => Began(m, t).alive[x]
<1> DEFINE b == Began(m, t)
<1>1. ~m.has[t] /\ m.store[t] = Dead
  BY DEF Sound, Memories
<1>2. /\ b \in Memories /\ b.balance = m.balance /\ b.alive = [m.alive EXCEPT ![t] = TRUE]
      /\ b.has = m.has /\ b.store = m.store
  BY <1>1 DEF Began, Sound, Memories
<1>3. Engaged(b) = Engaged(m)
  BY <1>2 DEF Engaged
<1>4. b.alive[t] /\ \A x \in Owners : m.alive[x] => b.alive[x]
  BY <1>2 DEF Sound, Memories
<1> HIDE DEF b
<1>5. Sound(b)
  BY <1>2, <1>3, <1>4 DEF Sound
<1>6. QED
  BY <1>1, <1>2, <1>4, <1>5 DEF b

(* make_optional, and every constructor that is given a value. *)
LEMMA NewSound ==
  ASSUME NEW m, Sound(m), NEW t \in Owners, ~m.alive[t], NEW v \in Held
  PROVE  /\ Sound(New(m, t, v))
         /\ \A x \in Owners : m.has[x] => New(m, t, v).has[x]
<1> DEFINE b == Began(m, t)
<1>1. Sound(b) /\ b.alive[t] /\ b.has = m.has /\ ~b.has[t]
  BY BeganSound
<1> HIDE DEF b
<1>2. Sound(Built(b, t, v))
  BY <1>1, BuiltSound
<1>3. \A x \in Owners : m.has[x] => Built(b, t, v).has[x]
  BY <1>1 DEF Built, Sound, Memories
<1>4. QED
  BY <1>2, <1>3 DEF New, b

LEMMA GivenSound ==
  ASSUME NEW m, Sound(m), NEW o \in Owners, m.has[o], NEW how
  PROVE  Sound(Given(m, o, how)) /\ Given(m, o, how).has = m.has
<1>1. Moved \in Held
  BY DEF Held
<1>2. QED
  BY <1>1, StoreSound DEF Given

LEMMA HeldStored ==
  ASSUME NEW m, Sound(m), NEW o \in Owners, m.has[o]
  PROVE  m.store[o] \in Held
  BY DEF Sound, Memories

(* The copy, move and converting constructors. *)
LEMMA CopiedSound ==
  ASSUME NEW m, Sound(m), NEW t \in Owners, ~m.alive[t], NEW o \in Owners, NEW how
  PROVE  Sound(Copied(m, t, o, how))
<1>1. CASE m.has[o]
  <2> DEFINE b == New(m, t, m.store[o])
  <2>1. Sound(b) /\ b.has[o]
    BY <1>1, NewSound, HeldStored
  <2> HIDE DEF b
  <2>2. Sound(Given(b, o, how))
    BY <2>1, GivenSound
  <2>3. QED
    BY <1>1, <2>2 DEF Copied, b
<1>2. CASE ~m.has[o]
  BY <1>2, BeganSound DEF Copied
<1>3. QED
  BY <1>1, <1>2

(* assign, of an optional that is alive. *)
LEMMA AssignedSound ==
  ASSUME NEW m, Sound(m), NEW o \in Owners, m.alive[o], NEW p \in Owners, NEW how
  PROVE  Sound(Assigned(m, o, p, how))
<1>1. CASE m.has[p] /\ m.has[o]
  <2> DEFINE b == [m EXCEPT !.store[o] = m.store[p]]
  <2>1. Sound(b) /\ b.has[p]
    BY <1>1, StoreSound, HeldStored
  <2> HIDE DEF b
  <2>2. Sound(Given(b, p, how))
    BY <2>1, GivenSound
  <2>3. QED
    BY <1>1, <2>2 DEF Assigned, b
<1>2. CASE m.has[p] /\ ~m.has[o]
  <2> DEFINE b == Built(m, o, m.store[p])
  <2>1. Sound(b)
    BY <1>2, BuiltSound, HeldStored
  <2>2. b.has[p]
    BY <1>2 DEF Built, Sound, Memories
  <2> HIDE DEF b
  <2>3. Sound(Given(b, p, how))
    BY <2>1, <2>2, GivenSound
  <2>4. QED
    BY <1>2, <2>3 DEF Assigned, b
<1>3. CASE ~m.has[p]
  BY <1>3, ResetSound DEF Assigned
<1>4. QED
  BY <1>1, <1>2, <1>3

(* The converting assignment, unless both hold a value. *)
LEMMA ConvertAssignedSound ==
  ASSUME NEW m, Sound(m), NEW o \in Owners, m.alive[o], NEW u \in Owners, NEW how,
         ~(m.has[o] /\ m.has[u])
  PROVE  Sound(ConvertAssigned(m, o, u, how))
<1>1. CASE m.has[u]
  <2>1. ConvertAssigned(m, o, u, how) = Assigned(m, o, u, how)
    BY <1>1 DEF ConvertAssigned, Assigned
  <2>2. QED
    BY <2>1, AssignedSound
<1>2. CASE ~m.has[u] /\ m.has[o]
  <2> DEFINE b == Reset(m, o)
  <2>1. Sound(b) /\ ~b.has[u]
    BY <1>2, ResetSound
  <2>2. Assigned(m, o, u, how) = b
    BY <1>2 DEF Assigned
  <2> HIDE DEF b
  <2>3. QED
    BY <1>2, <2>1, <2>2 DEF ConvertAssigned
<1>3. CASE ~m.has[u] /\ ~m.has[o]
  BY <1>3 DEF ConvertAssigned
<1>4. QED
  BY <1>1, <1>2, <1>3

LEMMA DiedSound ==
  ASSUME NEW m, Sound(m), NEW o \in Owners
  PROVE  Sound(Died(m, o))
<1> DEFINE b == Reset(m, o)
           d == [b EXCEPT !.alive[o] = FALSE]
<1>1. Sound(b) /\ ~b.has[o]
  BY ResetSound
<1> HIDE DEF b
<1>2. /\ d \in Memories /\ d.alive = [b.alive EXCEPT ![o] = FALSE]
      /\ d.has = b.has /\ d.store = b.store /\ d.balance = b.balance
  BY <1>1 DEF Sound, Memories
<1> HIDE DEF d
<1>3. Engaged(d) = Engaged(b)
  BY <1>2 DEF Engaged
<1>4. \A x \in Owners : (d.has[x] <=> d.store[x] # Dead) /\ (d.has[x] => d.alive[x])
  BY <1>1, <1>2 DEF Sound, Memories
<1>5. Sound(d)
  BY <1>1, <1>2, <1>3, <1>4 DEF Sound
<1>6. QED
  BY <1>5 DEF Died, d, b

(* swap, unless only one holds a value. *)
LEMMA SwappedSound ==
  ASSUME NEW m, Sound(m), NEW o \in Owners, NEW p \in Owners, m.has[o] = m.has[p]
  PROVE  Sound(Swapped(m, o, p))
<1>1. CASE m.has[o]
  <2> DEFINE b == [m EXCEPT !.store[o] = m.store[p]]
             d == [b EXCEPT !.store[p] = m.store[o]]
  <2>1. Sound(b) /\ b.has = m.has
    BY <1>1, StoreSound, HeldStored
  <2> HIDE DEF b
  <2>2. Sound(d)
    BY <1>1, <2>1, StoreSound, HeldStored
  <2>3. Swapped(m, o, p) = d
    BY <1>1 DEF Swapped, b
  <2>4. QED
    BY <2>2, <2>3
<1>2. CASE ~m.has[o]
  BY <1>2 DEF Swapped
<1>3. QED
  BY <1>1, <1>2

--------------------------------------------------------------------------------
(* The steps *)

IInv ==
  /\ Sound(mem)
  /\ ptr \in [Refs -> Values \cup {Nothing, Gone}]
  /\ ended \in BOOLEAN

LEMMA DoesKeeps ==
  ASSUME IInv, NEW m, Sound(m), Does(m)
  PROVE  IInv'
  BY DEF IInv, Does

LEMMA FailsKeeps ==
  ASSUME IInv, Throws \/ Terminates
  PROVE  IInv'
  BY DEF IInv, Throws, Terminates, vars

LEMMA CopyFailsKeeps ==
  ASSUME IInv, NEW o, NEW how, NEW within, CopyFails(o, how, within)
  PROVE  IInv'
  BY FailsKeeps DEF CopyFails

(* A copy into an optional that is constructed. *)
LEMMA CopiesKeep ==
  ASSUME IInv, NEW t \in Owners, Free(t), NEW o \in Owners, NEW how,
         Does(Copied(mem, t, o, how)) \/ CopyFails(o, how, TRUE)
  PROVE  IInv'
  BY CopiedSound, DoesKeeps, CopyFailsKeeps DEF IInv, Free

(* A value, or nothing, for an optional that is constructed. *)
LEMMA MakesKeep ==
  ASSUME IInv, NEW t \in Owners, Free(t), NEW h \in Held,
         Does(New(mem, t, h)) \/ Does(Began(mem, t)) \/ Throws \/ Terminates
  PROVE  IInv'
  BY NewSound, BeganSound, DoesKeeps, FailsKeeps DEF IInv, Free

LEMMA ValuesAreHeld == \A v \in Values : v \in Held
  BY DEF Held

LEMMA ConstructorsKeep ==
  ASSUME IInv, Corners = {}, NEW t \in Owners, NEW o \in Owners, NEW how \in Ways, NEW v \in Values,
         \/ MakeEmpty(t) \/ Make(t, v) \/ CopyConstruct(t, o, how) \/ ConvertConstruct(t, o, how)
         \/ Take(t, o, how) \/ Conjunction(t, o, v)
  PROVE  IInv'
<1>1. CASE MakeEmpty(t) \/ Make(t, v) \/ Conjunction(t, o, v)
  <2>1. Free(t)
    BY <1>1 DEF MakeEmpty, Make, Conjunction
  <2>2. Does(New(mem, t, v)) \/ Does(Began(mem, t)) \/ Throws \/ Terminates
    BY <1>1 DEF MakeEmpty, Make, Conjunction
  <2>3. QED
    BY <2>1, <2>2, MakesKeep, ValuesAreHeld
<1>2. CASE CopyConstruct(t, o, how) \/ ConvertConstruct(t, o, how)
  BY <1>2, CopiesKeep DEF CopyConstruct, ConvertConstruct
<1>3. CASE Take(t, o, how)
  <2>1. CASE Does(Reset(Copied(mem, t, o, how), o))
    <3> DEFINE m == Copied(mem, t, o, how)
    <3>1. Sound(m)
      BY <1>3, CopiedSound DEF Take, Free, IInv
    <3> HIDE DEF m
    <3>2. Sound(Reset(m, o))
      BY <3>1, ResetSound
    <3>3. QED
      BY <2>1, <3>2, DoesKeeps DEF m
  <2>2. CASE CopyFails(o, how, TRUE)
    BY <2>2, CopyFailsKeeps
  <2>3. QED
    BY <1>3, <2>1, <2>2 DEF Take
<1>4. QED
  BY <1>1, <1>2, <1>3

LEMMA AssignmentsKeep ==
  ASSUME IInv, Corners = {}, NEW o \in Owners, NEW p \in Owners, NEW how \in Ways, NEW v \in Values,
         \/ Destroy(o) \/ Clear(o) \/ Set(o, v) \/ Emplace(o, v) \/ MapOr(o, how)
         \/ Assign(o, p, how) \/ ConvertAssign(o, p, how) \/ Swap(o, p)
  PROVE  IInv'
<1> USE DEF IInv
<1>1. CASE Destroy(o)
  BY <1>1, DiedSound, DoesKeeps DEF Destroy
<1>2. CASE Clear(o)
  BY <1>2, ResetSound, DoesKeeps DEF Clear
<1>3. CASE Set(o, v)
  <2>1. CASE mem.has[o]
    <3>1. Sound([mem EXCEPT !.store[o] = v])
      BY <2>1, StoreSound, ValuesAreHeld
    <3>2. QED
      BY <1>3, <2>1, <3>1, DoesKeeps, FailsKeeps DEF Set
  <2>2. CASE ~mem.has[o]
    <3>1. Sound(Built(mem, o, v))
      BY <1>3, <2>2, BuiltSound, ValuesAreHeld DEF Set, Alive
    <3>2. QED
      BY <1>3, <2>2, <3>1, DoesKeeps, FailsKeeps DEF Set
  <2>3. QED
    BY <2>1, <2>2
<1>4. CASE Emplace(o, v)
  <2> DEFINE m == Reset(mem, o)
  <2>1. Sound(m) /\ ~m.has[o] /\ m.alive[o]
    BY <1>4, ResetSound DEF Emplace, Alive
  <2> HIDE DEF m
  <2>2. Sound(Built(m, o, v))
    BY <2>1, BuiltSound, ValuesAreHeld
  <2>3. QED
    BY <1>4, <2>2, DoesKeeps, FailsKeeps DEF Emplace, m
<1>5. CASE MapOr(o, how)
  <2>1. Sound(IF mem.has[o] THEN Given(mem, o, how) ELSE mem)
    BY GivenSound
  <2>2. QED
    BY <1>5, <2>1, DoesKeeps, FailsKeeps DEF MapOr
<1>6. CASE Assign(o, p, how)
  BY <1>6, AssignedSound, DoesKeeps, CopyFailsKeeps DEF Assign, Alive
<1>7. CASE ConvertAssign(o, p, how)
  BY <1>7, ConvertAssignedSound, DoesKeeps, CopyFailsKeeps DEF ConvertAssign, Alive
<1>8. CASE Swap(o, p)
  BY <1>8, SwappedSound, DoesKeeps DEF Swap
<1>9. QED
  BY <1>1, <1>2, <1>3, <1>4, <1>5, <1>6, <1>7, <1>8

LEMMA ChoicesKeep ==
  ASSUME IInv, NEW t \in Owners, NEW o \in Owners, NEW p \in Owners, NEW how \in Ways, NEW howp \in Ways,
         NEW h \in Values \cup {Nothing}, NEW keeps \in BOOLEAN,
         \/ Disjunction(t, o, p, how, howp) \/ OrElse(t, o, how, h) \/ AndThen(t, o, how, keeps)
  PROVE  IInv'
<1>1. CASE Disjunction(t, o, p, how, howp)
  BY <1>1, CopiesKeep DEF Disjunction
<1>2. CASE OrElse(t, o, how, h)
  <2>1. CASE mem.has[o]
    BY <1>2, <2>1, CopiesKeep DEF OrElse
  <2>2. CASE ~mem.has[o]
    BY <1>2, <2>2, BeganSound, NewSound, ValuesAreHeld, DoesKeeps, FailsKeeps DEF OrElse, IInv, Free
  <2>3. QED
    BY <2>1, <2>2
<1>3. CASE AndThen(t, o, how, keeps)
  <2>1. CASE mem.has[o] /\ keeps
    <3> DEFINE m == New(mem, t, mem.store[o])
    <3>1. Sound(m) /\ m.has[o]
      BY <1>3, <2>1, NewSound, HeldStored DEF AndThen, Free, IInv
    <3> HIDE DEF m
    <3>2. Sound(Given(m, o, how))
      BY <3>1, GivenSound
    <3>3. QED
      BY <1>3, <2>1, <3>2, DoesKeeps, FailsKeeps DEF AndThen, m
  <2>2. CASE ~(mem.has[o] /\ keeps)
    BY <1>3, <2>2, BeganSound, DoesKeeps DEF AndThen, IInv, Free
  <2>3. QED
    BY <2>1, <2>2
<1>4. QED
  BY <1>1, <1>2, <1>3

(* What is asked of an optional<T&> and answered with an optional<T>. *)
LEMMA RefChoicesKeep ==
  ASSUME IInv, NEW t \in Owners, NEW r \in Refs, NEW v \in Values, NEW h \in Values \cup {Nothing},
         NEW keeps \in BOOLEAN,
         \/ RefConjunction(t, r, v) \/ RefOrElse(t, r, h) \/ RefAndThen(t, r, keeps)
  PROVE  IInv'
<1>1. ptr[r] # Nothing /\ Bound(r) => ptr[r] \in Held
  BY ValuesAreHeld DEF IInv, Bound
<1>2. h # Nothing => h \in Held
  BY ValuesAreHeld
<1>3. Free(t) /\ Bound(r)
  BY DEF RefConjunction, RefOrElse, RefAndThen
<1>4. CASE RefConjunction(t, r, v)
  BY <1>3, <1>4, MakesKeep, ValuesAreHeld DEF RefConjunction
<1>5. CASE RefOrElse(t, r, h)
  BY <1>1, <1>2, <1>3, <1>5, BeganSound, NewSound, DoesKeeps, FailsKeeps DEF RefOrElse, IInv, Free
<1>6. CASE RefAndThen(t, r, keeps)
  BY <1>1, <1>3, <1>6, BeganSound, NewSound, DoesKeeps, FailsKeeps DEF RefAndThen, IInv, Free
<1>7. QED
  BY <1>4, <1>5, <1>6

LEMMA RefsKeep ==
  ASSUME IInv, NEW r \in Refs, NEW q \in Refs, NEW p \in Refs, NEW v \in Values,
         \/ RefMakeEmpty(r) \/ RefDestroy(r) \/ RefClear(r) \/ RefMake(r, v) \/ RefSet(r, v)
         \/ RefCopy(r, q) \/ RefConvert(r, q) \/ RefAssign(r, q) \/ RefConvertAssign(r, q)
         \/ RefSwap(r, q) \/ RefTake(r, q) \/ RefDisjunction(r, q, p)
  PROVE  IInv'
<1>1. CASE Throws
  BY <1>1, FailsKeeps
<1>2. CASE \E next \in [Refs -> Values \cup {Nothing, Gone}] : Binds(next)
  BY <1>2 DEF IInv, Binds
<1>3. Throws \/ \E next \in [Refs -> Values \cup {Nothing, Gone}] : Binds(next)
  <2> USE DEF IInv
  <2>1. CASE RefMakeEmpty(r) \/ RefDestroy(r) \/ RefClear(r) \/ RefMake(r, v) \/ RefSet(r, v)
    BY <2>1 DEF RefMakeEmpty, RefDestroy, RefClear, RefMake, RefSet
  <2>2. CASE RefCopy(r, q) \/ RefConvert(r, q) \/ RefAssign(r, q) \/ RefConvertAssign(r, q)
    BY <2>2 DEF RefCopy, RefConvert, RefAssign, RefConvertAssign
  <2>3. CASE RefSwap(r, q) \/ RefTake(r, q) \/ RefDisjunction(r, q, p)
    BY <2>3 DEF RefSwap, RefTake, RefDisjunction
  <2>4. QED
    BY <2>1, <2>2, <2>3
<1>4. QED
  BY <1>1, <1>2, <1>3

LEMMA InitSound == Init => IInv
<1> SUFFICES ASSUME Init PROVE IInv
  OBVIOUS
<1>1. mem \in Memories /\ \A o \in Owners : ~mem.has[o] /\ mem.store[o] = Dead
  BY DEF Init, Memories
<1>2. Engaged(mem) = {} /\ mem.balance = 0
  BY <1>1 DEF Engaged, Init
<1>3. QED
  BY <1>1, <1>2, FS_EmptySet DEF Init, IInv, Sound

LEMMA OwnerStep ==
  ASSUME IInv, Corners = {}, OwnerNext
  PROVE  IInv'
<1>1. Opts \subseteq Owners /\ Others \subseteq Owners
  BY DEF Owners
<1>2. PICK v0 \in Values : TRUE
  BY OptionalAssumption
<1>3. "copy" \in Ways
  BY DEF Ways
<1>4. ASSUME NEW o \in Owners, MakeEmpty(o) \/ Destroy(o) \/ Clear(o)
      PROVE  IInv'
  BY <1>2, <1>3, <1>4, ConstructorsKeep, AssignmentsKeep
<1>5. ASSUME NEW o \in Owners, NEW v \in Values, Make(o, v) \/ Set(o, v) \/ Emplace(o, v)
      PROVE  IInv'
  BY <1>3, <1>5, ConstructorsKeep, AssignmentsKeep
<1>6. ASSUME NEW o \in Owners, NEW how \in Ways, MapOr(o, how)
      PROVE  IInv'
  BY <1>2, <1>6, AssignmentsKeep
<1>7. ASSUME NEW o \in Owners, NEW u \in Owners, NEW how \in Ways,
             ConvertConstruct(o, u, how) \/ CopyConstruct(o, u, how) \/ Take(o, u, how)
      PROVE  IInv'
  BY <1>2, <1>7, ConstructorsKeep
<1>8. ASSUME NEW o \in Owners, NEW u \in Owners, NEW how \in Ways,
             ConvertAssign(o, u, how) \/ Assign(o, u, how) \/ Swap(o, u)
      PROVE  IInv'
  BY <1>2, <1>8, AssignmentsKeep
<1>9. ASSUME NEW t \in Owners, NEW o \in Owners, NEW v \in Values, Conjunction(t, o, v)
      PROVE  IInv'
  BY <1>3, <1>9, ConstructorsKeep
<1>10. ASSUME NEW t \in Owners, NEW o \in Owners, NEW p \in Owners, NEW how \in Ways, NEW howp \in Ways,
              Disjunction(t, o, p, how, howp)
       PROVE  IInv'
  BY <1>2, <1>10, ChoicesKeep
<1>11. ASSUME NEW t \in Owners, NEW o \in Owners, NEW how \in Ways, NEW h \in Values \cup {Nothing},
              OrElse(t, o, how, h)
       PROVE  IInv'
  BY <1>11, ChoicesKeep
<1>12. ASSUME NEW t \in Owners, NEW o \in Owners, NEW how \in Ways, NEW keeps \in BOOLEAN,
              AndThen(t, o, how, keeps) \/ Map(t, o, how)
       PROVE  IInv'
  BY <1>2, <1>12, ChoicesKeep DEF Map
<1>13. QED
  BY <1>1, <1>3, <1>4, <1>5, <1>6, <1>7, <1>8, <1>9, <1>10, <1>11, <1>12 DEF OwnerNext

LEMMA RefStep ==
  ASSUME IInv, RefNext
  PROVE  IInv'
<1>1. Opts \subseteq Owners
  BY DEF Owners
<1>2. PICK v0 \in Values : TRUE
  BY OptionalAssumption
<1>3. ASSUME NEW r \in Refs, RefMakeEmpty(r) \/ RefDestroy(r) \/ RefClear(r)
      PROVE  IInv'
  BY <1>2, <1>3, RefsKeep
<1>4. ASSUME NEW r \in Refs, NEW v \in Values, RefMake(r, v) \/ RefSet(r, v)
      PROVE  IInv'
  BY <1>4, RefsKeep
<1>5. ASSUME NEW r \in Refs, NEW q \in Refs,
             \/ RefCopy(r, q) \/ RefConvert(r, q) \/ RefAssign(r, q)
             \/ RefConvertAssign(r, q) \/ RefSwap(r, q) \/ RefTake(r, q)
      PROVE  IInv'
  BY <1>2, <1>5, RefsKeep
<1>6. ASSUME NEW r \in Refs, NEW q \in Refs, NEW p \in Refs, RefDisjunction(r, q, p)
      PROVE  IInv'
  BY <1>2, <1>6, RefsKeep
<1>7. ASSUME NEW t \in Owners, NEW r \in Refs, NEW v \in Values, RefConjunction(t, r, v)
      PROVE  IInv'
  BY <1>7, RefChoicesKeep
<1>8. ASSUME NEW t \in Owners, NEW r \in Refs, NEW h \in Values \cup {Nothing}, RefOrElse(t, r, h)
      PROVE  IInv'
  BY <1>2, <1>8, RefChoicesKeep
<1>9. ASSUME NEW t \in Owners, NEW r \in Refs, NEW keeps \in BOOLEAN, RefAndThen(t, r, keeps)
      PROVE  IInv'
  BY <1>2, <1>9, RefChoicesKeep
<1>10. QED
  BY <1>1, <1>3, <1>4, <1>5, <1>6, <1>7, <1>8, <1>9 DEF RefNext

LEMMA StepSound ==
  ASSUME IInv, Corners = {}, [Next]_vars
  PROVE  IInv'
<1>1. CASE UNCHANGED vars
  BY <1>1 DEF vars, IInv
<1>2. CASE Next
  BY <1>2, OwnerStep, RefStep DEF Next
<1>3. QED
  BY <1>1, <1>2

(* Outside the corner cases the memory is sound in every state.              *)
THEOREM Invariance == Corners = {} => (Spec => []IInv)
<1> SUFFICES ASSUME Corners = {} PROVE Spec => []IInv
  OBVIOUS
<1>1. Init => IInv
  BY InitSound
<1>2. IInv /\ [Next]_vars => IInv'
  BY StepSound
<1> QED
  BY <1>1, <1>2, PTL DEF Spec

(* The flag of every optional tells whether an object lives in its storage,  *)
(* and one that is gone holds none: has_value never answers for raw storage. *)
THEOREM FlagsTell == Corners = {} => (Spec => []FlagsTellLifetimes)
<1>1. IInv => FlagsTellLifetimes
  BY DEF IInv, Sound, FlagsTellLifetimes
<1> QED
  BY <1>1, Invariance, PTL

(* The objects constructed and not destroyed are those that engaged optionals *)
(* hold, however many optionals there are: none is leaked or destroyed twice. *)
THEOREM DestroyedOnce == Corners = {} => (Spec => []EachDestroyedOnce)
<1>1. IInv => EachDestroyedOnce
  BY DEF IInv, Sound, EachDestroyedOnce, Engaged
<1> QED
  BY <1>1, Invariance, PTL

--------------------------------------------------------------------------------
(* What the optionals hold, and the answers read from it                        *)

LEMMA HoldsAt ==
  ASSUME IInv
  PROVE  /\ holds = [x \in Optionals |-> holds[x]]
         /\ \A o \in Owners : holds[o] = IF mem.alive[o] THEN mem.store[o] ELSE Gone
         /\ \A r \in Refs : r \notin Owners /\ holds[r] = ptr[r]
  BY OptionalAssumption DEF holds, Optionals, IInv

(* The operators see in an optional what it holds.                              *)
LEMMA SeenIsHeld ==
  ASSUME IInv, NEW o \in Optionals, Contract!Alive(o)
  PROVE  /\ Seen(o).has \in BOOLEAN /\ (Seen(o).has <=> holds[o] # Nothing)
         /\ Seen(o).has => Seen(o).val = holds[o] /\ holds[o] \in Nat
<1>1. \A h \in Held : h \in Nat
  BY OptionalAssumption DEF Held
<1>2. CASE o \in Refs
  <2>1. holds[o] = ptr[o] /\ ptr[o] # Gone
    BY <1>2, HoldsAt DEF Contract!Alive
  <2>2. ptr[o] # Nothing => ptr[o] \in Nat
    BY <1>1, <1>2, <2>1, ValuesAreHeld DEF IInv
  <2>3. QED
    BY <1>2, <2>1, <2>2 DEF Seen
<1>3. CASE o \in Owners
  <2>1. mem.alive[o] /\ holds[o] = mem.store[o]
    BY <1>3, HoldsAt DEF Contract!Alive
  <2>2. mem.has[o] \in BOOLEAN /\ (mem.has[o] <=> mem.store[o] # Nothing)
    BY <1>3 DEF IInv, Sound, Memories, Dead
  <2>3. mem.has[o] => mem.store[o] \in Nat
    BY <1>1, <1>3, HeldStored DEF IInv
  <2>4. o \notin Refs
    BY <1>3, HoldsAt
  <2>5. QED
    BY <2>1, <2>2, <2>3, <2>4 DEF Seen
<1>4. QED
  BY <1>2, <1>3 DEF Optionals

(* The rank of what is held: -1 before every number.                            *)
LEMMA RankOfHeld ==
  ASSUME IInv, NEW o \in Optionals, Contract!Alive(o)
  PROVE  /\ Rank(holds[o]) \in Int
         /\ Seen(o).has => Rank(holds[o]) = Seen(o).val /\ Rank(holds[o]) >= 0
         /\ ~Seen(o).has => Rank(holds[o]) = -1
  BY SeenIsHeld DEF Rank

LEMMA ComparisonsAgree ==
  ASSUME NEW op \in Relations, NEW l, NEW r, NEW a \in Int, NEW b \in Int, NEW v \in Nat,
         l.has \in BOOLEAN, r.has \in BOOLEAN,
         IF l.has THEN a = l.val /\ a >= 0 ELSE a = -1,
         IF r.has THEN b = r.val /\ b >= 0 ELSE b = -1
  PROVE  /\ CompareNull(op, l) = Holds(op, a, -1)
         /\ NullCompare(op, l) = Holds(op, -1, a)
         /\ CompareValue(op, l, v) = Holds(op, a, v)
         /\ ValueCompare(op, v, l) = Holds(op, v, a)
         /\ Compare(op, l, r) = Holds(op, a, b)
<1>0. ASSUME NEW x \in Int, NEW y \in Int
      PROVE  /\ Holds("==", x, y) = (x = y) /\ Holds("!=", x, y) = (x # y)
             /\ Holds("<", x, y) = (x < y) /\ Holds("<=", x, y) = (x <= y)
             /\ Holds(">", x, y) = (x > y) /\ Holds(">=", x, y) = (x >= y)
  BY DEF Holds
<1>1. l.has => l.val \in Int
  OBVIOUS
<1>2. r.has => r.val \in Int
  OBVIOUS
<1>3. ~(a < -1) /\ -1 <= a /\ a >= -1 /\ ~(-1 > a) /\ -1 \in Int
  OBVIOUS
<1>4. CASE op = "=="
  <2>1. CompareNull(op, l) = Holds(op, a, -1)
    BY <1>0, <1>1, <1>2, <1>3, <1>4 DEF CompareNull
  <2>2. NullCompare(op, l) = Holds(op, -1, a)
    BY <1>0, <1>1, <1>2, <1>3, <1>4 DEF NullCompare
  <2>3. CompareValue(op, l, v) = Holds(op, a, v)
    BY <1>0, <1>1, <1>2, <1>3, <1>4 DEF CompareValue
  <2>4. ValueCompare(op, v, l) = Holds(op, v, a)
    BY <1>0, <1>1, <1>2, <1>3, <1>4 DEF ValueCompare
  <2>5. Compare(op, l, r) = Holds(op, a, b)
    BY <1>0, <1>1, <1>2, <1>3, <1>4 DEF Compare
  <2> QED
    BY <2>1, <2>2, <2>3, <2>4, <2>5
<1>5. CASE op = "!="
  <2>1. CompareNull(op, l) = Holds(op, a, -1)
    BY <1>0, <1>1, <1>2, <1>3, <1>5 DEF CompareNull
  <2>2. NullCompare(op, l) = Holds(op, -1, a)
    BY <1>0, <1>1, <1>2, <1>3, <1>5 DEF NullCompare
  <2>3. CompareValue(op, l, v) = Holds(op, a, v)
    BY <1>0, <1>1, <1>2, <1>3, <1>5 DEF CompareValue
  <2>4. ValueCompare(op, v, l) = Holds(op, v, a)
    BY <1>0, <1>1, <1>2, <1>3, <1>5 DEF ValueCompare
  <2>5. Compare(op, l, r) = Holds(op, a, b)
    BY <1>0, <1>1, <1>2, <1>3, <1>5 DEF Compare
  <2> QED
    BY <2>1, <2>2, <2>3, <2>4, <2>5
<1>6. CASE op = "<"
  <2>1. CompareNull(op, l) = Holds(op, a, -1)
    <3>1. CompareNull(op, l) = FALSE
      BY <1>6 DEF CompareNull
    <3>2. Holds(op, a, -1) = (a < -1)
      BY <1>0, <1>3, <1>6
    <3>3. (a < -1) = FALSE
      BY <1>3
    <3> QED
      BY <3>1, <3>2, <3>3
  <2>2. NullCompare(op, l) = Holds(op, -1, a)
    BY <1>0, <1>1, <1>2, <1>3, <1>6 DEF NullCompare
  <2>3. CompareValue(op, l, v) = Holds(op, a, v)
    BY <1>0, <1>1, <1>2, <1>3, <1>6 DEF CompareValue
  <2>4. ValueCompare(op, v, l) = Holds(op, v, a)
    BY <1>0, <1>1, <1>2, <1>3, <1>6 DEF ValueCompare
  <2>5. Compare(op, l, r) = Holds(op, a, b)
    BY <1>0, <1>1, <1>2, <1>3, <1>6 DEF Compare
  <2> QED
    BY <2>1, <2>2, <2>3, <2>4, <2>5
<1>7. CASE op = "<="
  <2>1. CompareNull(op, l) = Holds(op, a, -1)
    BY <1>0, <1>1, <1>2, <1>3, <1>7 DEF CompareNull
  <2>2. NullCompare(op, l) = Holds(op, -1, a)
    <3>1. NullCompare(op, l) = TRUE
      BY <1>7 DEF NullCompare
    <3>2. Holds(op, -1, a) = (-1 <= a)
      BY <1>0, <1>3, <1>7
    <3>3. (-1 <= a) = TRUE
      BY <1>3
    <3> QED
      BY <3>1, <3>2, <3>3
  <2>3. CompareValue(op, l, v) = Holds(op, a, v)
    BY <1>0, <1>1, <1>2, <1>3, <1>7 DEF CompareValue
  <2>4. ValueCompare(op, v, l) = Holds(op, v, a)
    BY <1>0, <1>1, <1>2, <1>3, <1>7 DEF ValueCompare
  <2>5. Compare(op, l, r) = Holds(op, a, b)
    BY <1>0, <1>1, <1>2, <1>3, <1>7 DEF Compare
  <2> QED
    BY <2>1, <2>2, <2>3, <2>4, <2>5
<1>8. CASE op = ">"
  <2>1. CompareNull(op, l) = Holds(op, a, -1)
    BY <1>0, <1>1, <1>2, <1>3, <1>8 DEF CompareNull
  <2>2. NullCompare(op, l) = Holds(op, -1, a)
    <3>1. NullCompare(op, l) = FALSE
      BY <1>8 DEF NullCompare
    <3>2. Holds(op, -1, a) = (-1 > a)
      BY <1>0, <1>3, <1>8
    <3>3. (-1 > a) = FALSE
      BY <1>3
    <3> QED
      BY <3>1, <3>2, <3>3
  <2>3. CompareValue(op, l, v) = Holds(op, a, v)
    BY <1>0, <1>1, <1>2, <1>3, <1>8 DEF CompareValue
  <2>4. ValueCompare(op, v, l) = Holds(op, v, a)
    BY <1>0, <1>1, <1>2, <1>3, <1>8 DEF ValueCompare
  <2>5. Compare(op, l, r) = Holds(op, a, b)
    BY <1>0, <1>1, <1>2, <1>3, <1>8 DEF Compare
  <2> QED
    BY <2>1, <2>2, <2>3, <2>4, <2>5
<1>9. CASE op = ">="
  <2>1. CompareNull(op, l) = Holds(op, a, -1)
    <3>1. CompareNull(op, l) = TRUE
      BY <1>9 DEF CompareNull
    <3>2. Holds(op, a, -1) = (a >= -1)
      BY <1>0, <1>3, <1>9
    <3>3. (a >= -1) = TRUE
      BY <1>3
    <3> QED
      BY <3>1, <3>2, <3>3
  <2>2. NullCompare(op, l) = Holds(op, -1, a)
    BY <1>0, <1>1, <1>2, <1>3, <1>9 DEF NullCompare
  <2>3. CompareValue(op, l, v) = Holds(op, a, v)
    BY <1>0, <1>1, <1>2, <1>3, <1>9 DEF CompareValue
  <2>4. ValueCompare(op, v, l) = Holds(op, v, a)
    BY <1>0, <1>1, <1>2, <1>3, <1>9 DEF ValueCompare
  <2>5. Compare(op, l, r) = Holds(op, a, b)
    BY <1>0, <1>1, <1>2, <1>3, <1>9 DEF Compare
  <2> QED
    BY <2>1, <2>2, <2>3, <2>4, <2>5
<1> QED
  BY <1>4, <1>5, <1>6, <1>7, <1>8, <1>9 DEF Relations

(* Whatever the program did before, the relational operators of optionals,   *)
(* with a value, with nullopt and with one another, and value_or, answer as  *)
(* the order in which nothing comes before every value says.                 *)
THEOREM Answers == Corners = {} => (Spec => []AnswersAgree)
<1>1. IInv => AnswersAgree
  <2> SUFFICES ASSUME IInv, NEW o \in Optionals, Contract!Alive(o)
               PROVE
                 /\ \A v \in Values : ValueOr(o, v) = IF holds[o] = Nothing THEN v ELSE holds[o]
                 /\ \A op \in Relations :
                      /\ CompareNull(op, Seen(o)) = Holds(op, Rank(holds[o]), -1)
                      /\ NullCompare(op, Seen(o)) = Holds(op, -1, Rank(holds[o]))
                      /\ \A v \in Values : /\ CompareValue(op, Seen(o), v) = Holds(op, Rank(holds[o]), v)
                                           /\ ValueCompare(op, v, Seen(o)) = Holds(op, v, Rank(holds[o]))
                      /\ \A p \in Optionals : Contract!Alive(p) =>
                           Compare(op, Seen(o), Seen(p)) = Holds(op, Rank(holds[o]), Rank(holds[p]))
    BY DEF AnswersAgree
  <2>1. \A v \in Values : ValueOr(o, v) = IF holds[o] = Nothing THEN v ELSE holds[o]
    BY SeenIsHeld DEF ValueOr
  <2>2. \A v \in Values : v \in Nat
    BY OptionalAssumption
  <2>3. PICK v0 \in Values : v0 \in Nat
    BY <2>2, OptionalAssumption
  <2>4. ASSUME NEW op \in Relations
        PROVE  /\ CompareNull(op, Seen(o)) = Holds(op, Rank(holds[o]), -1)
               /\ NullCompare(op, Seen(o)) = Holds(op, -1, Rank(holds[o]))
               /\ \A v \in Values : /\ CompareValue(op, Seen(o), v) = Holds(op, Rank(holds[o]), v)
                                    /\ ValueCompare(op, v, Seen(o)) = Holds(op, v, Rank(holds[o]))
    BY <2>2, <2>3, SeenIsHeld, RankOfHeld, ComparisonsAgree
  <2>5. ASSUME NEW op \in Relations, NEW p \in Optionals, Contract!Alive(p)
        PROVE  Compare(op, Seen(o), Seen(p)) = Holds(op, Rank(holds[o]), Rank(holds[p]))
    BY <2>3, <2>5, SeenIsHeld, RankOfHeld, ComparisonsAgree
  <2>6. QED
    BY <2>1, <2>4, <2>5
<1> QED
  BY <1>1, Invariance, PTL

--------------------------------------------------------------------------------
(* What a change of the memory does to what each optional holds                 *)

View(m, x) == IF m.alive[x] THEN m.store[x] ELSE Gone

LEMMA BuiltView ==
  ASSUME NEW m \in Memories, NEW o \in Owners, m.alive[o], NEW v, NEW x \in Owners
  PROVE  View(Built(m, o, v), x) = IF x = o THEN v ELSE View(m, x)
  BY DEF View, Built, Memories

LEMMA BeganView ==
  ASSUME NEW m \in Memories, NEW t \in Owners, NEW x \in Owners
  PROVE  View(Began(m, t), x) = IF x = t THEN Nothing ELSE View(m, x)
  BY DEF View, Began, Memories, Dead

LEMMA NewView ==
  ASSUME NEW m, Sound(m), NEW t \in Owners, ~m.alive[t], NEW v, NEW x \in Owners
  PROVE  View(New(m, t, v), x) = IF x = t THEN v ELSE View(m, x)
<1> DEFINE b == Began(m, t)
<1>1. m \in Memories /\ b \in Memories /\ b.alive[t]
  BY BeganSound DEF Sound
<1>2. View(b, x) = IF x = t THEN Nothing ELSE View(m, x)
  BY <1>1, BeganView
<1> HIDE DEF b
<1>3. View(Built(b, t, v), x) = IF x = t THEN v ELSE View(b, x)
  BY <1>1, BuiltView
<1>4. QED
  BY <1>2, <1>3 DEF New, b

LEMMA GivenView ==
  ASSUME NEW m \in Memories, NEW o \in Owners, m.alive[o], NEW how, NEW x \in Owners
  PROVE  View(Given(m, o, how), x) = IF x = o /\ how = "move" THEN Moved ELSE View(m, x)
  BY DEF View, Given, Memories

LEMMA ResetView ==
  ASSUME NEW m, Sound(m), NEW o \in Owners, m.alive[o], NEW x \in Owners
  PROVE  View(Reset(m, o), x) = IF x = o THEN Nothing ELSE View(m, x)
<1>1. m \in Memories /\ (m.has[o] <=> m.store[o] # Nothing)
  BY DEF Sound, Dead
<1>2. CASE m.has[o]
  BY <1>1, <1>2 DEF View, Reset, Unbuilt, Memories, Dead
<1>3. CASE ~m.has[o]
  BY <1>1, <1>3 DEF View, Reset
<1>4. QED
  BY <1>2, <1>3

LEMMA DiedView ==
  ASSUME NEW m, Sound(m), NEW o \in Owners, NEW x \in Owners
  PROVE  View(Died(m, o), x) = IF x = o THEN Gone ELSE View(m, x)
<1> DEFINE b == Reset(m, o)
<1>1. b \in Memories /\ b.alive = m.alive
  BY ResetSound DEF Sound
<1>2. x # o => b.store[x] = m.store[x]
  BY ResetSound
<1> HIDE DEF b
<1>3. View([b EXCEPT !.alive[o] = FALSE], x) = IF x = o THEN Gone ELSE View(b, x)
  BY <1>1 DEF View, Memories
<1>4. QED
  BY <1>1, <1>2, <1>3 DEF Died, View, b

LEMMA StoreView ==
  ASSUME NEW m \in Memories, NEW o \in Owners, m.alive[o], NEW v, NEW x \in Owners
  PROVE  View([m EXCEPT !.store[o] = v], x) = IF x = o THEN v ELSE View(m, x)
  BY DEF View, Memories

(* An engaged optional is alive; one that is alive and empty holds Nothing.      *)
LEMMA ViewOfHeld ==
  ASSUME NEW m, Sound(m), NEW o \in Owners
  PROVE  /\ m.has[o] => m.alive[o] /\ View(m, o) = m.store[o] /\ View(m, o) # Nothing
         /\ m.alive[o] /\ ~m.has[o] => View(m, o) = Nothing
  BY DEF Sound, View, Dead

LEMMA CopiedView ==
  ASSUME NEW m, Sound(m), NEW t \in Owners, ~m.alive[t], NEW o \in Owners, m.alive[o], NEW how, NEW x \in Owners
  PROVE  View(Copied(m, t, o, how), x) =
           IF x = t THEN View(m, o)
           ELSE IF x = o /\ how = "move" /\ m.has[o] THEN Moved ELSE View(m, x)
<1>1. CASE m.has[o]
  <2> DEFINE b == New(m, t, m.store[o])
  <2>1. Sound(b) /\ b.has[o]
    BY <1>1, NewSound, HeldStored
  <2>2. b \in Memories /\ b.alive[o]
    BY <2>1 DEF Sound
  <2>3. View(b, x) = IF x = t THEN m.store[o] ELSE View(m, x)
    BY NewView
  <2> HIDE DEF b
  <2>4. View(Given(b, o, how), x) = IF x = o /\ how = "move" THEN Moved ELSE View(b, x)
    BY <2>2, GivenView
  <2>5. Copied(m, t, o, how) = Given(b, o, how) /\ t # o
    BY <1>1 DEF Copied, b
  <2>6. QED
    BY <1>1, <2>3, <2>4, <2>5, ViewOfHeld
<1>2. CASE ~m.has[o]
  BY <1>2, BeganView, ViewOfHeld DEF Copied, Sound
<1>3. QED
  BY <1>1, <1>2

LEMMA AssignedView ==
  ASSUME NEW m, Sound(m), NEW o \in Owners, m.alive[o], NEW p \in Owners, m.alive[p], NEW how,
         how = "move" => o # p, NEW x \in Owners
  PROVE  View(Assigned(m, o, p, how), x) =
           IF x = o THEN View(m, p)
           ELSE IF x = p /\ how = "move" /\ m.has[p] THEN Moved ELSE View(m, x)
<1>0. m \in Memories
  BY DEF Sound
<1>1. CASE m.has[p] /\ m.has[o]
  <2> DEFINE b == [m EXCEPT !.store[o] = m.store[p]]
  <2>1. b \in Memories /\ b.alive[p]
    BY <1>1, StoreSound, HeldStored DEF Sound
  <2>2. View(b, x) = IF x = o THEN m.store[p] ELSE View(m, x)
    BY <1>0 DEF View, Memories
  <2> HIDE DEF b
  <2>3. View(Given(b, p, how), x) = IF x = p /\ how = "move" THEN Moved ELSE View(b, x)
    BY <2>1, GivenView
  <2>4. Assigned(m, o, p, how) = Given(b, p, how)
    BY <1>1 DEF Assigned, b
  <2>5. QED
    BY <1>1, <2>2, <2>3, <2>4, ViewOfHeld
<1>2. CASE m.has[p] /\ ~m.has[o]
  <2> DEFINE b == Built(m, o, m.store[p])
  <2>1. Sound(b)
    BY <1>2, BuiltSound, HeldStored
  <2>2. b \in Memories /\ b.alive[p]
    BY <1>0, <2>1 DEF Sound, Built
  <2>3. View(b, x) = IF x = o THEN m.store[p] ELSE View(m, x)
    BY <1>0, BuiltView
  <2> HIDE DEF b
  <2>4. View(Given(b, p, how), x) = IF x = p /\ how = "move" THEN Moved ELSE View(b, x)
    BY <2>2, GivenView
  <2>5. Assigned(m, o, p, how) = Given(b, p, how)
    BY <1>2 DEF Assigned, b
  <2>6. QED
    BY <1>2, <2>3, <2>4, <2>5, ViewOfHeld
<1>3. CASE ~m.has[p]
  <2>1. Assigned(m, o, p, how) = Reset(m, o)
    BY <1>3 DEF Assigned
  <2>2. QED
    BY <1>3, <2>1, ResetView, ViewOfHeld
<1>4. QED
  BY <1>1, <1>2, <1>3

LEMMA ConvertAssignedView ==
  ASSUME NEW m, Sound(m), NEW o \in Owners, m.alive[o], NEW u \in Owners, m.alive[u], NEW how,
         ~(m.has[o] /\ m.has[u]), NEW x \in Owners
  PROVE  View(ConvertAssigned(m, o, u, how), x) =
           IF x = o THEN View(m, u)
           ELSE IF x = u /\ how = "move" /\ m.has[u] THEN Moved ELSE View(m, x)
<1>1. CASE m.has[u]
  <2>1. ConvertAssigned(m, o, u, how) = Assigned(m, o, u, how) /\ o # u
    BY <1>1 DEF ConvertAssigned, Assigned
  <2>2. QED
    BY <2>1, AssignedView
<1>2. CASE ~m.has[u] /\ m.has[o]
  <2> DEFINE b == Reset(m, o)
  <2>1. ~b.has[u]
    BY <1>2, ResetSound
  <2>2. Assigned(m, o, u, how) = b
    BY <1>2 DEF Assigned
  <2>3. View(b, x) = IF x = o THEN Nothing ELSE View(m, x)
    BY ResetView
  <2> HIDE DEF b
  <2>4. ConvertAssigned(m, o, u, how) = b
    BY <1>2, <2>1, <2>2 DEF ConvertAssigned
  <2>5. QED
    BY <1>2, <2>3, <2>4, ViewOfHeld
<1>3. CASE ~m.has[u] /\ ~m.has[o]
  BY <1>3, ViewOfHeld DEF ConvertAssigned
<1>4. QED
  BY <1>1, <1>2, <1>3

LEMMA SwappedView ==
  ASSUME NEW m, Sound(m), NEW o \in Owners, m.alive[o], NEW p \in Owners, m.alive[p], m.has[o] = m.has[p],
         NEW x \in Owners
  PROVE  View(Swapped(m, o, p), x) = IF x = p THEN View(m, o) ELSE IF x = o THEN View(m, p) ELSE View(m, x)
<1>0. m \in Memories
  BY DEF Sound
<1>1. CASE m.has[o]
  <2>1. Swapped(m, o, p) = [m EXCEPT !.store[o] = m.store[p], !.store[p] = m.store[o]]
    BY <1>1 DEF Swapped
  <2>2. QED
    BY <1>0, <1>1, <2>1 DEF View, Memories
<1>2. CASE ~m.has[o]
  BY <1>2, ViewOfHeld DEF Swapped
<1>3. QED
  BY <1>1, <1>2

--------------------------------------------------------------------------------
(* The operations that return, and the contract                                 *)

(* An operation that neither threw nor ended the program.                       *)
Returned == ~ended' /\ vars' # vars

LEMMA ReturnedDidNotFail ==
  ASSUME Returned
  PROVE  ~Throws /\ ~Terminates /\ \A o, how, within : ~CopyFails(o, how, within)
  BY DEF Returned, Throws, Terminates, CopyFails

LEMMA OwnerHolds ==
  ASSUME IInv, NEW o \in Owners
  PROVE  /\ o \in Optionals /\ holds[o] = View(mem, o)
         /\ Contract!Alive(o) <=> Alive(o)
         /\ Contract!Free(o) <=> Free(o)
         /\ Alive(o) => (Contract!Has(o) <=> mem.has[o])
         /\ Alive(o) => \A how : Contract!Left(o, how) = IF how = "move" /\ mem.has[o] THEN Moved ELSE View(mem, o)
<1>1. o \in Optionals /\ holds[o] = View(mem, o)
  BY HoldsAt DEF View, Optionals
<1>2. mem.alive[o] => View(mem, o) # Gone
  <2>1. \A h \in Held : h \in Int
    BY OptionalAssumption DEF Held
  <2>2. Dead # Gone /\ Gone \notin Held
    BY <2>1, OptionalAssumption DEF Dead
  <2>3. QED
    BY <2>2 DEF IInv, Sound, Memories, View
<1>3. ~mem.alive[o] => View(mem, o) = Gone
  BY DEF View
<1>4. Alive(o) => (Contract!Has(o) <=> mem.has[o])
  BY <1>1, ViewOfHeld DEF IInv, Alive, Contract!Has
<1>5. QED
  BY <1>1, <1>2, <1>3, <1>4 DEF Alive, Free, Contract!Alive, Contract!Free, Contract!Left

(* A change of the memory, as the change of what is held.                       *)
LEMMA HoldingIs ==
  ASSUME IInv, NEW m, Does(m), NEW f,
         f = [x \in Optionals |-> f[x]],
         \A x \in Owners : f[x] = View(m, x),
         \A r \in Refs : f[r] = holds[r]
  PROVE  Contract!Holding(f)
<1>1. mem' = m /\ ptr' = ptr /\ ended' = ended
  BY DEF Does
<1>2. holds' = [x \in Optionals |-> IF x \in Refs THEN ptr[x] ELSE View(m, x)]
  BY <1>1 DEF holds, View
<1>3. \A r \in Refs : holds[r] = ptr[r]
  BY HoldsAt
<1>4. \A x \in Optionals : f[x] = IF x \in Refs THEN ptr[x] ELSE View(m, x)
  BY <1>3 DEF Optionals
<1>5. QED
  BY <1>1, <1>2, <1>4 DEF Contract!Holding

LEMMA MakesPromise ==
  ASSUME IInv, NEW t \in Owners, Free(t)
  PROVE  /\ Does(Began(mem, t)) => Contract!Holding([holds EXCEPT ![t] = Nothing])
         /\ \A v : Does(New(mem, t, v)) => Contract!Holding([holds EXCEPT ![t] = v])
<1>1. \A x \in Refs : x # t
  BY HoldsAt
<1>2. /\ \A x \in Owners : holds[x] = View(mem, x)
      /\ holds = [x \in Optionals |-> holds[x]] /\ t \in Optionals
      /\ \A x \in Owners \cup Refs : x \in Optionals
  BY OwnerHolds, HoldsAt DEF Optionals
<1>3. ASSUME Does(Began(mem, t))
      PROVE  Contract!Holding([holds EXCEPT ![t] = Nothing])
  <2> DEFINE f == [holds EXCEPT ![t] = Nothing]
  <2>1. f = [x \in Optionals |-> f[x]]
    BY <1>2
  <2>2. \A x \in Owners : f[x] = View(Began(mem, t), x)
    BY <1>2, BeganView DEF IInv, Sound
  <2>3. \A r \in Refs : f[r] = holds[r]
    BY <1>1, <1>2
  <2> HIDE DEF f
  <2>4. QED
    BY <1>3, <2>1, <2>2, <2>3, HoldingIs DEF f
<1>4. ASSUME NEW v, Does(New(mem, t, v))
      PROVE  Contract!Holding([holds EXCEPT ![t] = v])
  <2> DEFINE f == [holds EXCEPT ![t] = v]
  <2>1. f = [x \in Optionals |-> f[x]]
    BY <1>2
  <2>2. \A x \in Owners : f[x] = View(New(mem, t, v), x)
    BY <1>2, NewView DEF IInv, Free
  <2>3. \A r \in Refs : f[r] = holds[r]
    BY <1>1, <1>2
  <2> HIDE DEF f
  <2>4. QED
    BY <1>4, <2>1, <2>2, <2>3, HoldingIs DEF f
<1>5. QED
  BY <1>3, <1>4

LEMMA CopiesPromise ==
  ASSUME IInv, NEW t \in Owners, Free(t), NEW o \in Owners, Alive(o), NEW how, Does(Copied(mem, t, o, how))
  PROVE  Contract!Construct(t, o, how)
<1>1. \A x \in Refs : x # t /\ x # o
  BY HoldsAt
<1>2. /\ \A x \in Owners : holds[x] = View(mem, x)
      /\ holds = [x \in Optionals |-> holds[x]] /\ t \in Optionals /\ o \in Optionals
      /\ \A x \in Owners \cup Refs : x \in Optionals
  BY OwnerHolds, HoldsAt DEF Optionals
<1>3. Contract!Free(t) /\ Contract!Alive(o)
  BY OwnerHolds
<1>4. Contract!Left(o, how) = IF how = "move" /\ mem.has[o] THEN Moved ELSE View(mem, o)
  BY OwnerHolds
<1> DEFINE f == [holds EXCEPT ![t] = holds[o], ![o] = Contract!Left(o, how)]
<1>5. f = [x \in Optionals |-> f[x]]
  BY <1>2
<1>6. t # o
  BY DEF Free, Alive
<1>7. \A x \in Owners : f[x] = View(Copied(mem, t, o, how), x)
  BY <1>2, <1>4, <1>6, CopiedView DEF IInv, Free, Alive
<1>8. \A r \in Refs : f[r] = holds[r]
  BY <1>1, <1>2
<1> HIDE DEF f
<1>9. Contract!Holding(f)
  BY <1>5, <1>7, <1>8, HoldingIs
<1>10. QED
  BY <1>3, <1>9 DEF Contract!Construct, f

(* One optional gets a value or loses it, the others hold what they did.        *)
LEMMA SetsPromise ==
  ASSUME IInv, NEW o \in Owners, NEW m, NEW v, Does(m),
         \A x \in Owners : View(m, x) = IF x = o THEN v ELSE View(mem, x)
  PROVE  Contract!Holding([holds EXCEPT ![o] = v])
<1>1. \A x \in Refs : x # o
  BY HoldsAt
<1>2. /\ \A x \in Owners : holds[x] = View(mem, x)
      /\ holds = [x \in Optionals |-> holds[x]] /\ o \in Optionals
      /\ \A x \in Owners \cup Refs : x \in Optionals
  BY OwnerHolds, HoldsAt DEF Optionals
<1> DEFINE f == [holds EXCEPT ![o] = v]
<1>3. f = [x \in Optionals |-> f[x]]
  BY <1>2
<1>4. \A x \in Owners : f[x] = View(m, x)
  BY <1>2
<1>5. \A r \in Refs : f[r] = holds[r]
  BY <1>1, <1>2
<1> HIDE DEF f
<1>6. QED
  BY <1>3, <1>4, <1>5, HoldingIs DEF f

LEMMA DestroyPromise ==
  ASSUME IInv, NEW o \in Owners
  PROVE  Destroy(o) => Contract!Destroy(o)
<1> SUFFICES ASSUME Destroy(o) PROVE Contract!Destroy(o)
  OBVIOUS
<1>1. Contract!Holding([holds EXCEPT ![o] = Gone])
  BY SetsPromise, DiedView DEF Destroy, IInv
<1>2. QED
  BY <1>1, OwnerHolds DEF Destroy, Contract!Destroy

LEMMA ClearPromise ==
  ASSUME IInv, NEW o \in Owners
  PROVE  Clear(o) => Contract!Clear(o)
<1> SUFFICES ASSUME Clear(o) PROVE Contract!Clear(o)
  OBVIOUS
<1>1. Contract!Holding([holds EXCEPT ![o] = Nothing])
  BY SetsPromise, ResetView DEF Clear, IInv, Alive
<1>2. QED
  BY <1>1, OwnerHolds DEF Clear, Contract!Clear

LEMMA SetPromise ==
  ASSUME IInv, Returned, NEW o \in Owners, NEW v \in Values, Set(o, v) \/ Emplace(o, v)
  PROVE  Contract!Set(o, v)
<1>1. mem \in Memories /\ mem.alive[o] /\ Sound(mem)
  BY DEF IInv, Sound, Set, Emplace, Alive
<1>2. CASE Set(o, v)
  <2> DEFINE m == IF mem.has[o] THEN [mem EXCEPT !.store[o] = v] ELSE Built(mem, o, v)
  <2>1. Does(m)
    BY <1>2, ReturnedDidNotFail DEF Set
  <2>2. \A x \in Owners : View(m, x) = IF x = o THEN v ELSE View(mem, x)
    <3>1. CASE mem.has[o]
      BY <1>1, <3>1, StoreView
    <3>2. CASE ~mem.has[o]
      BY <1>1, <3>2, BuiltView
    <3>3. QED
      BY <3>1, <3>2
  <2> HIDE DEF m
  <2>3. QED
    BY <1>1, <2>1, <2>2, SetsPromise, OwnerHolds DEF Contract!Set, Alive
<1>3. CASE Emplace(o, v)
  <2> DEFINE b == Reset(mem, o)
             m == Built(b, o, v)
  <2>1. Does(m)
    BY <1>3, ReturnedDidNotFail DEF Emplace
  <2>2. b \in Memories /\ b.alive[o]
    BY <1>1, ResetSound DEF Sound
  <2>3. \A x \in Owners : View(b, x) = IF x = o THEN Nothing ELSE View(mem, x)
    BY <1>1, ResetView
  <2> HIDE DEF b
  <2>4. \A x \in Owners : View(m, x) = IF x = o THEN v ELSE View(b, x)
    BY <2>2, BuiltView
  <2> HIDE DEF m
  <2>5. QED
    BY <1>1, <2>1, <2>3, <2>4, SetsPromise, OwnerHolds DEF Contract!Set, Alive
<1>4. QED
  BY <1>2, <1>3

LEMMA UsePromise ==
  ASSUME IInv, Returned, NEW o \in Owners, NEW how, MapOr(o, how)
  PROVE  Contract!Use(o, how)
<1> DEFINE m == IF mem.has[o] THEN Given(mem, o, how) ELSE mem
<1>1. Does(m) /\ Alive(o) /\ mem \in Memories
  BY ReturnedDidNotFail DEF MapOr, IInv, Sound
<1>2. Contract!Left(o, how) = IF how = "move" /\ mem.has[o] THEN Moved ELSE View(mem, o)
  BY <1>1, OwnerHolds
<1>3. \A x \in Owners : View(m, x) = IF x = o THEN Contract!Left(o, how) ELSE View(mem, x)
  BY <1>1, <1>2, GivenView DEF Alive
<1> HIDE DEF m
<1>4. QED
  BY <1>1, <1>3, SetsPromise, OwnerHolds DEF Contract!Use

(* Two optionals change.                                                        *)
LEMMA PairPromise ==
  ASSUME IInv, NEW o \in Owners, NEW p \in Owners, NEW m, NEW v, NEW w, Does(m),
         \A x \in Owners : View(m, x) = IF x = p THEN w ELSE IF x = o THEN v ELSE View(mem, x)
  PROVE  Contract!Holding([holds EXCEPT ![o] = v, ![p] = w])
<1>1. \A x \in Refs : x # o /\ x # p
  BY HoldsAt
<1>2. /\ \A x \in Owners : holds[x] = View(mem, x)
      /\ holds = [x \in Optionals |-> holds[x]] /\ o \in Optionals /\ p \in Optionals
      /\ \A x \in Owners \cup Refs : x \in Optionals
  BY OwnerHolds, HoldsAt DEF Optionals
<1> DEFINE f == [holds EXCEPT ![o] = v, ![p] = w]
<1>3. f = [x \in Optionals |-> f[x]]
  BY <1>2
<1>4. \A x \in Owners : f[x] = View(m, x)
  BY <1>2
<1>5. \A r \in Refs : f[r] = holds[r]
  BY <1>1, <1>2
<1> HIDE DEF f
<1>6. QED
  BY <1>3, <1>4, <1>5, HoldingIs DEF f

LEMMA AssignPromise ==
  ASSUME IInv, Corners = {}, Returned, NEW o \in Owners, NEW p \in Owners, NEW how,
         Assign(o, p, how) \/ ConvertAssign(o, p, how)
  PROVE  Contract!Assign(o, p, how)
<1> DEFINE m == IF Assign(o, p, how) THEN Assigned(mem, o, p, how) ELSE ConvertAssigned(mem, o, p, how)
<1>1. /\ Alive(o) /\ Alive(p) /\ Sound(mem) /\ mem.alive[o] /\ mem.alive[p]
      /\ Assign(o, p, how) /\ how = "move" => o # p
      /\ ~Assign(o, p, how) => ~(mem.has[o] /\ mem.has[p])
  BY DEF IInv, Assign, ConvertAssign, Alive
<1>2. Does(m)
  BY ReturnedDidNotFail DEF Assign, ConvertAssign
<1>3. \A x \in Owners : View(m, x) =
           IF x = o THEN View(mem, p)
           ELSE IF x = p /\ how = "move" /\ mem.has[p] THEN Moved ELSE View(mem, x)
  BY <1>1, AssignedView, ConvertAssignedView
<1>4. Contract!Left(p, how) = IF how = "move" /\ mem.has[p] THEN Moved ELSE View(mem, p)
  BY <1>1, OwnerHolds
<1> HIDE DEF m
<1>5. \A x \in Owners : View(m, x) =
           IF x = p THEN (IF p = o THEN View(mem, p) ELSE Contract!Left(p, how))
           ELSE IF x = o THEN View(mem, p) ELSE View(mem, x)
  BY <1>3, <1>4
<1>6. /\ holds[p] = View(mem, p) /\ holds = [x \in Optionals |-> holds[x]]
      /\ o \in Optionals /\ p \in Optionals
  BY OwnerHolds, HoldsAt
<1>7. Contract!Holding([holds EXCEPT ![o] = View(mem, p),
                                     ![p] = IF p = o THEN View(mem, p) ELSE Contract!Left(p, how)])
  BY <1>2, <1>5, PairPromise
<1>8. [holds EXCEPT ![o] = View(mem, p), ![p] = IF p = o THEN View(mem, p) ELSE Contract!Left(p, how)]
        = [holds EXCEPT ![o] = holds[p], ![p] = IF p = o THEN @ ELSE Contract!Left(p, how)]
  BY <1>6
<1>9. QED
  BY <1>1, <1>7, <1>8, OwnerHolds DEF Contract!Assign

LEMMA SwapPromise ==
  ASSUME IInv, Corners = {}, NEW o \in Owners, NEW p \in Owners, Swap(o, p)
  PROVE  Contract!Swap(o, p)
<1> DEFINE m == Swapped(mem, o, p)
<1>1. /\ Alive(o) /\ Alive(p) /\ mem.alive[o] /\ mem.alive[p] /\ mem.has[o] = mem.has[p]
      /\ Does(m) /\ Sound(mem)
  BY DEF IInv, Swap, Alive, Sound, Memories
<1>2. \A x \in Owners : View(m, x) = IF x = p THEN View(mem, o) ELSE IF x = o THEN View(mem, p) ELSE View(mem, x)
  BY <1>1, SwappedView
<1>3. holds[p] = View(mem, p) /\ holds[o] = View(mem, o)
  BY OwnerHolds
<1> HIDE DEF m
<1>4. QED
  BY <1>1, <1>2, <1>3, PairPromise, OwnerHolds DEF Contract!Swap

LEMMA TakePromise ==
  ASSUME IInv, Returned, NEW t \in Owners, NEW o \in Owners, NEW how, Take(t, o, how)
  PROVE  Contract!Take(t, o)
<1> DEFINE b == Copied(mem, t, o, how)
           m == Reset(b, o)
<1>1. /\ Free(t) /\ Alive(o) /\ mem.alive[o] /\ ~mem.alive[t] /\ t # o /\ Sound(mem)
      /\ Does(m)
  BY ReturnedDidNotFail DEF IInv, Take, Alive, Free
<1>2. Sound(b)
  BY <1>1, CopiedSound
<1>3. b.alive[o]
  <2>1. View(b, o) # Gone
    <3>1. View(b, o) = IF how = "move" /\ mem.has[o] THEN Moved ELSE View(mem, o)
      BY <1>1, CopiedView
    <3>2. View(mem, o) # Gone /\ Moved # Gone
      BY <1>1, OwnerHolds, OptionalAssumption DEF Contract!Alive
    <3>3. QED
      BY <3>1, <3>2
  <2>2. QED
    BY <2>1 DEF View
<1>4. \A x \in Owners : View(b, x) = IF x = t THEN View(mem, o)
           ELSE IF x = o /\ how = "move" /\ mem.has[o] THEN Moved ELSE View(mem, x)
  BY <1>1, CopiedView
<1> HIDE DEF b
<1>5. \A x \in Owners : View(m, x) = IF x = o THEN Nothing ELSE View(b, x)
  BY <1>2, <1>3, ResetView
<1>6. holds[o] = View(mem, o)
  BY OwnerHolds
<1> HIDE DEF m
<1>7. \A x \in Owners : View(m, x) = IF x = o THEN Nothing ELSE IF x = t THEN holds[o] ELSE View(mem, x)
  BY <1>4, <1>5, <1>6
<1>8. QED
  BY <1>1, <1>7, PairPromise, OwnerHolds DEF Contract!Take

(* The operations whose result is a new optional.                               *)
LEMMA MakePromise ==
  ASSUME IInv, Returned, NEW t \in Owners
  PROVE  /\ MakeEmpty(t) => Contract!MakeEmpty(t)
         /\ \A v : Make(t, v) => Contract!Make(t, v)
  BY ReturnedDidNotFail, OwnerHolds, MakesPromise
  DEF MakeEmpty, Make, Contract!MakeEmpty, Contract!Make

LEMMA ConstructPromise ==
  ASSUME IInv, Corners = {}, Returned, NEW t \in Owners, NEW o \in Owners, NEW how,
         CopyConstruct(t, o, how) \/ ConvertConstruct(t, o, how)
  PROVE  Contract!Construct(t, o, how)
<1>1. Free(t) /\ Alive(o) /\ Does(Copied(mem, t, o, how))
  BY ReturnedDidNotFail DEF CopyConstruct, ConvertConstruct
<1>2. QED
  BY <1>1, CopiesPromise

LEMMA DisjunctionPromise ==
  ASSUME IInv, Returned, NEW t \in Owners, NEW o \in Owners, NEW p \in Owners, NEW how, NEW howp,
         Disjunction(t, o, p, how, howp)
  PROVE  Contract!Disjunction(t, o, p, how, howp)
<1>1. Free(t) /\ Alive(o) /\ Alive(p)
  BY DEF Disjunction
<1>2. CASE mem.has[o]
  <2>1. Contract!Construct(t, o, how)
    BY <1>1, <1>2, ReturnedDidNotFail, CopiesPromise DEF Disjunction
  <2>2. QED
    BY <1>1, <1>2, <2>1, OwnerHolds DEF Contract!Construct, Contract!Disjunction
<1>3. CASE ~mem.has[o]
  <2>1. Contract!Construct(t, p, howp)
    BY <1>1, <1>3, ReturnedDidNotFail, CopiesPromise DEF Disjunction
  <2>2. QED
    BY <1>1, <1>3, <2>1, OwnerHolds DEF Contract!Construct, Contract!Disjunction
<1>4. QED
  BY <1>2, <1>3

LEMMA ConjunctionPromise ==
  ASSUME IInv, Returned, NEW t \in Owners, NEW o \in Owners, NEW v, Conjunction(t, o, v)
  PROVE  Contract!Conjunction(t, o, v)
<1>1. Free(t) /\ Alive(o) /\ Contract!Free(t) /\ Contract!Alive(o) /\ (Contract!Has(o) <=> mem.has[o])
  BY OwnerHolds DEF Conjunction
<1>2. CASE mem.has[o]
  <2>1. Contract!Holding([holds EXCEPT ![t] = v])
    BY <1>1, <1>2, ReturnedDidNotFail, MakesPromise DEF Conjunction
  <2>2. QED
    BY <1>1, <1>2, <2>1 DEF Contract!Conjunction
<1>3. CASE ~mem.has[o]
  <2>1. Contract!Holding([holds EXCEPT ![t] = Nothing])
    BY <1>1, <1>3, MakesPromise DEF Conjunction
  <2>2. QED
    BY <1>1, <1>3, <2>1 DEF Contract!Conjunction
<1>4. QED
  BY <1>2, <1>3

LEMMA OrElsePromise ==
  ASSUME IInv, Returned, NEW t \in Owners, NEW o \in Owners, NEW how, NEW h, OrElse(t, o, how, h)
  PROVE  Contract!OrElse(t, o, how, h)
<1>1. Free(t) /\ Alive(o) /\ Contract!Free(t) /\ Contract!Alive(o) /\ (Contract!Has(o) <=> mem.has[o])
  BY OwnerHolds DEF OrElse
<1>2. CASE mem.has[o]
  <2>1. Contract!Construct(t, o, how)
    BY <1>1, <1>2, ReturnedDidNotFail, CopiesPromise DEF OrElse
  <2>2. QED
    BY <1>1, <1>2, <2>1 DEF Contract!Construct, Contract!OrElse
<1>3. CASE ~mem.has[o]
  <2>1. Does(IF h = Nothing THEN Began(mem, t) ELSE New(mem, t, h))
    BY <1>3, ReturnedDidNotFail DEF OrElse
  <2>2. Contract!Holding([holds EXCEPT ![t] = h])
    BY <1>1, <2>1, MakesPromise
  <2>3. QED
    BY <1>1, <1>3, <2>2 DEF Contract!OrElse
<1>4. QED
  BY <1>2, <1>3

LEMMA ThenPromise ==
  ASSUME IInv, Returned, NEW t \in Owners, NEW o \in Owners, NEW how, NEW keeps \in BOOLEAN,
         AndThen(t, o, how, keeps)
  PROVE  Contract!Then(t, o, how, keeps)
<1>1. Free(t) /\ Alive(o) /\ Contract!Free(t) /\ Contract!Alive(o) /\ (Contract!Has(o) <=> mem.has[o])
  BY OwnerHolds DEF AndThen
<1>2. CASE mem.has[o] /\ keeps
  <2>1. Does(Copied(mem, t, o, how))
    BY <1>2, ReturnedDidNotFail DEF AndThen, Copied
  <2>2. Contract!Construct(t, o, how)
    BY <1>1, <2>1, CopiesPromise
  <2>3. QED
    BY <1>1, <1>2, <2>2 DEF Contract!Construct, Contract!Then
<1>3. CASE ~(mem.has[o] /\ keeps)
  <2>1. Contract!Holding([holds EXCEPT ![t] = Nothing])
    BY <1>1, <1>3, MakesPromise DEF AndThen
  <2>2. QED
    BY <1>1, <1>3, <2>1 DEF Contract!Then
<1>4. QED
  BY <1>2, <1>3

LEMMA FromTwoKeepPromise ==
  ASSUME IInv, Corners = {}, Returned
  PROVE  FromTwoPromise
<1> SUFFICES ASSUME NEW o \in Opts, NEW u \in Owners, NEW how \in Ways
             PROVE
       /\ CopyConstruct(o, u, how) \/ ConvertConstruct(o, u, how) => Contract!Construct(o, u, how)
       /\ Assign(o, u, how) \/ ConvertAssign(o, u, how) => Contract!Assign(o, u, how)
       /\ Map(o, u, how) => Contract!Then(o, u, how, TRUE)
       /\ Take(o, u, how) => Contract!Take(o, u)
       /\ \A keeps \in BOOLEAN : AndThen(o, u, how, keeps) => Contract!Then(o, u, how, keeps)
       /\ \A h \in Values \cup {Nothing} : OrElse(o, u, how, h) => Contract!OrElse(o, u, how, h)
       /\ \A p \in Opts, howp \in Ways :
            Disjunction(o, u, p, how, howp) => Contract!Disjunction(o, u, p, how, howp)
  BY DEF FromTwoPromise
<1>0. \A x \in Opts : x \in Owners
  BY DEF Owners
<1>1. CopyConstruct(o, u, how) \/ ConvertConstruct(o, u, how) => Contract!Construct(o, u, how)
  BY <1>0, ConstructPromise
<1>2. Assign(o, u, how) \/ ConvertAssign(o, u, how) => Contract!Assign(o, u, how)
  BY <1>0, AssignPromise
<1>3. Map(o, u, how) => Contract!Then(o, u, how, TRUE)
  BY <1>0, ThenPromise DEF Map
<1>4. Take(o, u, how) => Contract!Take(o, u)
  BY <1>0, TakePromise
<1>5. \A keeps \in BOOLEAN : AndThen(o, u, how, keeps) => Contract!Then(o, u, how, keeps)
  BY <1>0, ThenPromise
<1>6. \A h \in Values \cup {Nothing} : OrElse(o, u, how, h) => Contract!OrElse(o, u, how, h)
  BY <1>0, OrElsePromise
<1>7. \A p \in Opts, howp \in Ways :
         Disjunction(o, u, p, how, howp) => Contract!Disjunction(o, u, p, how, howp)
  BY <1>0, DisjunctionPromise
<1>8. QED
  BY <1>1, <1>2, <1>3, <1>4, <1>5, <1>6, <1>7

LEMMA OwnersKeepPromise ==
  ASSUME IInv, Corners = {}, Returned
  PROVE  OwnersPromise
<1>1. EmptyingPromise
  BY MakePromise, DestroyPromise, ClearPromise DEF EmptyingPromise
<1>2. FillingPromise
  BY MakePromise, SetPromise DEF FillingPromise
<1>3. UsingPromise
  BY UsePromise DEF UsingPromise
<1>4. SwappingPromise
  BY SwapPromise DEF SwappingPromise, Owners
<1>5. JoiningPromise
  BY ConjunctionPromise DEF JoiningPromise
<1>6. QED
  BY <1>1, <1>2, <1>3, <1>4, <1>5, FromTwoKeepPromise DEF OwnersPromise

(* The optionals of T&: pointers, so that what they hold is what ptr says.      *)
LEMMA RefHolds ==
  ASSUME IInv, NEW r \in Refs
  PROVE  /\ r \in Optionals /\ holds[r] = ptr[r]
         /\ Contract!Alive(r) <=> Bound(r)
         /\ Contract!Free(r) <=> Unbound(r)
         /\ Contract!Has(r) <=> ptr[r] # Nothing
         /\ \A how : Contract!Left(r, how) = ptr[r]
  BY HoldsAt DEF Optionals, Bound, Unbound, Contract!Alive, Contract!Free, Contract!Has, Contract!Left

LEMMA BindingIs ==
  ASSUME IInv, NEW r \in Refs, NEW v, Binds([ptr EXCEPT ![r] = v])
  PROVE  Contract!Holding([holds EXCEPT ![r] = v])
<1>1. mem' = mem /\ ptr' = [ptr EXCEPT ![r] = v] /\ ended' = ended
  BY DEF Binds
<1>2. holds' = [x \in Optionals |-> IF x \in Refs THEN ptr'[x] ELSE IF mem.alive[x] THEN mem.store[x] ELSE Gone]
  BY <1>1 DEF holds
<1>3. holds = [x \in Optionals |-> IF x \in Refs THEN ptr[x] ELSE IF mem.alive[x] THEN mem.store[x] ELSE Gone]
  BY DEF holds
<1>4. \A x \in Refs : ptr'[x] = IF x = r THEN v ELSE ptr[x]
  BY <1>1 DEF IInv
<1>5. holds' = [holds EXCEPT ![r] = v]
  BY <1>2, <1>3, <1>4 DEF Optionals
<1>6. QED
  BY <1>1, <1>5 DEF Contract!Holding

LEMMA BindingsAre ==
  ASSUME IInv, NEW r \in Refs, NEW q \in Refs, NEW v, NEW w, Binds([ptr EXCEPT ![r] = v, ![q] = w])
  PROVE  Contract!Holding([holds EXCEPT ![r] = v, ![q] = w])
<1>1. mem' = mem /\ ptr' = [ptr EXCEPT ![r] = v, ![q] = w] /\ ended' = ended
  BY DEF Binds
<1>2. holds' = [x \in Optionals |-> IF x \in Refs THEN ptr'[x] ELSE IF mem.alive[x] THEN mem.store[x] ELSE Gone]
  BY <1>1 DEF holds
<1>3. holds = [x \in Optionals |-> IF x \in Refs THEN ptr[x] ELSE IF mem.alive[x] THEN mem.store[x] ELSE Gone]
  BY DEF holds
<1>4. \A x \in Refs : ptr'[x] = IF x = q THEN w ELSE IF x = r THEN v ELSE ptr[x]
  BY <1>1 DEF IInv
<1>5. holds' = [holds EXCEPT ![r] = v, ![q] = w]
  BY <1>2, <1>3, <1>4 DEF Optionals
<1>6. QED
  BY <1>1, <1>5 DEF Contract!Holding

(* Writing what is there changes nothing: an optional of T& copied from keeps    *)
(* what it refers to.                                                           *)
LEMMA WrittenBack ==
  ASSUME IInv, NEW r \in Refs, NEW q \in Refs, NEW v
  PROVE  [holds EXCEPT ![r] = v, ![q] = IF q = r THEN v ELSE holds[q]] = [holds EXCEPT ![r] = v]
<1>1. holds = [x \in Optionals |-> holds[x]] /\ r \in Optionals /\ q \in Optionals
  BY HoldsAt, RefHolds
<1>2. QED
  BY <1>1

LEMMA RefCopiesPromise ==
  ASSUME IInv, NEW r \in Refs, NEW q \in Refs, Unbound(r), Bound(q), Binds([ptr EXCEPT ![r] = ptr[q]])
  PROVE  Contract!Construct(r, q, "copy")
<1>1. Contract!Holding([holds EXCEPT ![r] = holds[q]])
  BY BindingIs, RefHolds
<1>2. r # q
  BY DEF Bound, Unbound
<1>3. [holds EXCEPT ![r] = holds[q], ![q] = Contract!Left(q, "copy")] = [holds EXCEPT ![r] = holds[q]]
  <2>1. Contract!Left(q, "copy") = holds[q]
    BY RefHolds
  <2>2. QED
    BY <1>2, <2>1, WrittenBack
<1>4. QED
  BY <1>1, <1>3, RefHolds DEF Contract!Construct

LEMMA RefAssignPromise ==
  ASSUME IInv, Returned, NEW r \in Refs, NEW q \in Refs, RefAssign(r, q) \/ RefConvertAssign(r, q)
  PROVE  Contract!Assign(r, q, "copy")
<1>1. Bound(r) /\ Bound(q) /\ Binds([ptr EXCEPT ![r] = ptr[q]])
  BY ReturnedDidNotFail DEF RefAssign, RefConvertAssign
<1>2. Contract!Holding([holds EXCEPT ![r] = holds[q]])
  BY <1>1, BindingIs, RefHolds
<1>3. holds = [x \in Optionals |-> holds[x]] /\ r \in Optionals /\ q \in Optionals
  BY HoldsAt, RefHolds
<1>4. Contract!Left(q, "copy") = holds[q]
  BY RefHolds
<1>5. [holds EXCEPT ![r] = holds[q], ![q] = IF q = r THEN @ ELSE Contract!Left(q, "copy")]
        = [holds EXCEPT ![r] = holds[q]]
  BY <1>3, <1>4
<1>6. QED
  BY <1>1, <1>2, <1>5, RefHolds DEF Contract!Assign

LEMMA RefDisjunctionPromise ==
  ASSUME IInv, NEW t \in Refs, NEW o \in Refs, NEW p \in Refs, RefDisjunction(t, o, p)
  PROVE  Contract!Disjunction(t, o, p, "copy", "copy")
<1>1. Unbound(t) /\ Bound(o) /\ Bound(p)
  BY DEF RefDisjunction
<1>2. CASE ptr[o] # Nothing
  <2>1. Contract!Construct(t, o, "copy")
    BY <1>1, <1>2, RefCopiesPromise DEF RefDisjunction
  <2>2. QED
    BY <1>1, <1>2, <2>1, RefHolds DEF Contract!Construct, Contract!Disjunction
<1>3. CASE ptr[o] = Nothing
  <2>1. Contract!Construct(t, p, "copy")
    BY <1>1, <1>3, RefCopiesPromise DEF RefDisjunction
  <2>2. QED
    BY <1>1, <1>3, <2>1, RefHolds DEF Contract!Construct, Contract!Disjunction
<1>4. QED
  BY <1>2, <1>3

LEMMA RefTwoKeepPromise ==
  ASSUME IInv, Corners = {}, Returned
  PROVE  RefTwoPromise
<1> SUFFICES ASSUME NEW r \in Refs, NEW q \in Refs
             PROVE
    /\ RefCopy(r, q) \/ RefConvert(r, q) => Contract!Construct(r, q, "copy")
    /\ RefAssign(r, q) \/ RefConvertAssign(r, q) => Contract!Assign(r, q, "copy")
    /\ RefSwap(r, q) => Contract!Swap(r, q)
    /\ RefTake(r, q) => Contract!Take(r, q)
    /\ \A p \in Refs : RefDisjunction(r, q, p) => Contract!Disjunction(r, q, p, "copy", "copy")
  BY DEF RefTwoPromise
<1>1. RefCopy(r, q) \/ RefConvert(r, q) => Contract!Construct(r, q, "copy")
  <2>1. RefConvert(r, q) => Unbound(r) /\ Bound(q) /\ Binds([ptr EXCEPT ![r] = ptr[q]])
    BY DEF RefConvert
  <2>2. QED
    BY <2>1, RefCopiesPromise DEF RefCopy
<1>2. RefAssign(r, q) \/ RefConvertAssign(r, q) => Contract!Assign(r, q, "copy")
  BY RefAssignPromise
<1>3. RefSwap(r, q) => Contract!Swap(r, q)
  BY BindingsAre, RefHolds DEF RefSwap, Contract!Swap
<1>4. RefTake(r, q) => Contract!Take(r, q)
  BY BindingsAre, RefHolds DEF RefTake, Contract!Take
<1>5. \A p \in Refs : RefDisjunction(r, q, p) => Contract!Disjunction(r, q, p, "copy", "copy")
  BY RefDisjunctionPromise
<1>6. QED
  BY <1>1, <1>2, <1>3, <1>4, <1>5

(* What is asked of an optional<T&> and answered with an optional<T>.           *)
LEMMA RefResultsKeepPromise ==
  ASSUME IInv, Returned
  PROVE  RefResultsPromise
<1> SUFFICES ASSUME NEW t \in Opts, NEW r \in Refs
             PROVE
    /\ \A v \in Values : RefConjunction(t, r, v) => Contract!Conjunction(t, r, v)
    /\ \A h \in Values \cup {Nothing} : RefOrElse(t, r, h) => Contract!OrElse(t, r, "copy", h)
    /\ \A keeps \in BOOLEAN : RefAndThen(t, r, keeps) => Contract!Then(t, r, "copy", keeps)
  BY DEF RefResultsPromise
<1>1. t \in Owners /\ t # r
  BY HoldsAt DEF Owners
<1>2. /\ Contract!Alive(r) <=> Bound(r)
      /\ Contract!Has(r) <=> ptr[r] # Nothing
      /\ Contract!Free(t) <=> Free(t)
      /\ holds[r] = ptr[r]
  BY <1>1, RefHolds, OwnerHolds
<1>3. \A v : [holds EXCEPT ![t] = v, ![r] = Contract!Left(r, "copy")] = [holds EXCEPT ![t] = v]
  <2>1. holds = [x \in Optionals |-> holds[x]] /\ t \in Optionals /\ r \in Optionals
    BY <1>1, HoldsAt, RefHolds, OwnerHolds
  <2>2. Contract!Left(r, "copy") = holds[r]
    BY RefHolds
  <2>3. QED
    BY <1>1, <2>1, <2>2
<1>4. Free(t) => /\ Does(Began(mem, t)) => Contract!Holding([holds EXCEPT ![t] = Nothing])
                 /\ \A v : Does(New(mem, t, v)) => Contract!Holding([holds EXCEPT ![t] = v])
  BY <1>1, MakesPromise
<1>5. ASSUME NEW v \in Values, RefConjunction(t, r, v)
      PROVE  Contract!Conjunction(t, r, v)
  <2>1. Contract!Holding([holds EXCEPT ![t] = IF Contract!Has(r) THEN v ELSE Nothing])
    BY <1>2, <1>4, <1>5, ReturnedDidNotFail DEF RefConjunction
  <2>2. QED
    BY <1>2, <1>5, <2>1 DEF RefConjunction, Contract!Conjunction
<1>6. ASSUME NEW h \in Values \cup {Nothing}, RefOrElse(t, r, h)
      PROVE  Contract!OrElse(t, r, "copy", h)
  <2>1. Free(t) /\ Bound(r)
    BY <1>6 DEF RefOrElse
  <2>2. CASE ptr[r] # Nothing
    <3>1. Contract!Holding([holds EXCEPT ![t] = holds[r]])
      BY <1>2, <1>4, <1>6, <2>1, <2>2, ReturnedDidNotFail DEF RefOrElse
    <3>2. QED
      BY <1>2, <1>3, <2>1, <2>2, <3>1 DEF Contract!OrElse
  <2>3. CASE ptr[r] = Nothing
    <3>1. Does(IF h = Nothing THEN Began(mem, t) ELSE New(mem, t, h))
      BY <1>6, <2>3, ReturnedDidNotFail DEF RefOrElse
    <3>2. Contract!Holding([holds EXCEPT ![t] = h])
      BY <1>4, <2>1, <3>1
    <3>3. QED
      BY <1>2, <2>1, <2>3, <3>2 DEF Contract!OrElse
  <2>4. QED
    BY <2>2, <2>3
<1>7. ASSUME NEW keeps \in BOOLEAN, RefAndThen(t, r, keeps)
      PROVE  Contract!Then(t, r, "copy", keeps)
  <2>1. Free(t) /\ Bound(r)
    BY <1>7 DEF RefAndThen
  <2>2. CASE ptr[r] # Nothing /\ keeps
    <3>1. Contract!Holding([holds EXCEPT ![t] = holds[r]])
      BY <1>2, <1>4, <1>7, <2>1, <2>2, ReturnedDidNotFail DEF RefAndThen
    <3>2. QED
      BY <1>2, <1>3, <2>1, <2>2, <3>1 DEF Contract!Then
  <2>3. CASE ~(ptr[r] # Nothing /\ keeps)
    <3>1. Contract!Holding([holds EXCEPT ![t] = Nothing])
      BY <1>4, <1>7, <2>1, <2>3 DEF RefAndThen
    <3>2. QED
      BY <1>2, <2>1, <2>3, <3>1 DEF Contract!Then
  <2>4. QED
    BY <2>2, <2>3
<1>8. QED
  BY <1>5, <1>6, <1>7

LEMMA RefsKeepPromise ==
  ASSUME IInv, Corners = {}, Returned
  PROVE  RefsPromise
<1>1. RefOnePromise
  BY BindingIs, RefHolds
  DEF RefOnePromise, RefMakeEmpty, RefDestroy, RefClear, Contract!MakeEmpty, Contract!Destroy, Contract!Clear
<1>2. RefFillingPromise
  BY BindingIs, RefHolds DEF RefFillingPromise, RefMake, RefSet, Contract!Make, Contract!Set
<1>3. QED
  BY <1>1, <1>2, RefTwoKeepPromise, RefResultsKeepPromise DEF RefsPromise

(* Outside the corner cases every operation of optional that returns does    *)
(* what its contract says to what each optional holds, whether it keeps the  *)
(* value in its storage or refers to it, and one that throws changes nothing:*)
(* for any number of optionals, of both kinds, and any values.               *)
THEOREM Promise == Corners = {} => (Spec => KeepsPromise)
<1> SUFFICES ASSUME Corners = {} PROVE Spec => KeepsPromise
  OBVIOUS
<1>1. Init => Contract!Init
  BY DEF Init, Contract!Init, holds, Optionals
<1>2. IInv /\ [Next]_vars => [ended' \/ (OwnersPromise /\ RefsPromise)]_vars
  <2>1. IInv /\ Returned => OwnersPromise /\ RefsPromise
    BY OwnersKeepPromise, RefsKeepPromise
  <2>2. QED
    BY <2>1 DEF Returned
<1>3. QED
  BY <1>1, <1>2, Invariance, PTL DEF Spec, KeepsPromise
================================================================================

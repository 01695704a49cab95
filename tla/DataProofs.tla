------------------------------ MODULE DataProofs -------------------------------
(***************************************************************************)
(* The data Lua keeps for C++: tables and userdata.                         *)
(*                                                                         *)
(* Tables: every way of reading a path finds what following its keys finds, *)
(* every write puts its value where the path leads, a read that creates     *)
(* fills only gaps, for paths of every length.  A walk along a path is a    *)
(* recursive function of the number of keys taken; for each, one lemma      *)
(* unfolds it and one carries an invariant along it: where the walk is on   *)
(* the stack, and for those that create, which tables hang below what was   *)
(* there.                                                                   *)
(*                                                                         *)
(* Loops: LoopsInv divides the stack into layers, one for each loop under   *)
(* way and the values of its body, each at the index the loop remembers;    *)
(* with it, what a loop has shown and what it has yet to show.              *)
(*                                                                         *)
(* Userdata: for every set of types whose alignment is a power of two up to *)
(* 64, every size and every address, the block asked for is large enough,   *)
(* the sections are aligned and do not overlap, and they are found again.   *)
(***************************************************************************)
EXTENDS TableIteration, UserdataLayout, FiniteSetTheorems, WellFoundedInduction, NaturalsInduction, TLAPS

(* The program performs none of the corner cases of the proxies. *)
Straight ==
  Corners \cap {"pushed_key_below", "stack_table_proxy", "global_pushed_key"} = {}

--------------------------------------------------------------------------------
(* Induction over the keys of a path *)

LEMMA LeastOf ==
  ASSUME NEW S, S \subseteq Nat, S # {}
  PROVE  \E x \in S : \A y \in S : x <= y
<1> DEFINE R == {ss \in Nat \X Nat : ss[1] < ss[2]}
<1>1. IsWellFoundedOn(R, Nat)
  BY NatLessThanWellFounded DEF OpToRel
<1> HIDE DEF R
<1>2. PICK x \in S : \A y \in S : ~ (<<y, x>> \in R)
  BY <1>1, WFMin
<1>3. ASSUME NEW y \in S PROVE x <= y
  <2>1. ~ (<<y, x>> \in R) /\ x \in Nat /\ y \in Nat
    BY <1>2
  <2> QED
    BY <2>1 DEF R
<1> QED
  BY <1>2, <1>3

(* What holds of 0 and is kept from each number to the next holds of all. *)
LEMMA Steps ==
  ASSUME NEW N \in Nat, NEW P, 0 \in P, \A n \in 1 .. N : n - 1 \in P => n \in P
  PROVE  \A n \in 0 .. N : n \in P
<1> DEFINE Bad == {n \in 0 .. N : n \notin P}
<1>1. ASSUME Bad # {} PROVE FALSE
  <2>1. Bad \subseteq Nat
    OBVIOUS
  <2>2. PICK n \in Bad : \A k \in Bad : n <= k
    <3> HIDE DEF Bad
    <3> QED
      BY <1>1, <2>1, LeastOf
  <2> QED
    BY <2>2
<1> QED
  BY <1>1

--------------------------------------------------------------------------------
(* Sequences of anything *)

Sequence(s) == \E S : s \in Seq(S)

LEMMA SequenceFacts ==
  ASSUME NEW s, Sequence(s)
  PROVE  Len(s) \in Nat /\ DOMAIN s = 1 .. Len(s)
  BY DEF Sequence

LEMMA EmptySequence == Sequence(<<>>) /\ Len(<<>>) = 0
  BY DEF Sequence

LEMMA Appended ==
  ASSUME NEW s, Sequence(s), NEW v
  PROVE  /\ Sequence(Append(s, v)) /\ Len(Append(s, v)) = Len(s) + 1
         /\ Append(s, v)[Len(s) + 1] = v
         /\ \A i \in 1 .. Len(s) : Append(s, v)[i] = s[i]
<1>1. PICK S : s \in Seq(S)
  BY DEF Sequence
<1>2. PICK T : T = S \cup {v}
  OBVIOUS
<1>3. s \in Seq(T) /\ v \in T
  BY <1>1, <1>2
<1>4. Append(s, v) \in Seq(T)
  BY <1>3
<1> QED
  BY <1>3, <1>4 DEF Sequence

LEMMA Shortened ==
  ASSUME NEW s, Sequence(s), NEW n \in Int, n <= Len(s)
  PROVE  /\ Sequence(SubSeq(s, 1, n))
         /\ n >= 0 => Len(SubSeq(s, 1, n)) = n
         /\ \A i \in 1 .. n : SubSeq(s, 1, n)[i] = s[i]
<1>1. PICK S : s \in Seq(S)
  BY DEF Sequence
<1>2. SubSeq(s, 1, n) \in Seq(S)
  BY <1>1
<1> QED
  BY <1>1, <1>2 DEF Sequence

LEMMA SameSequence ==
  ASSUME NEW s, NEW t, Sequence(s), Sequence(t), Len(s) = Len(t),
         \A i \in 1 .. Len(s) : s[i] = t[i]
  PROVE  s = t
<1>1. PICK S, T : s \in Seq(S) /\ t \in Seq(T)
  BY DEF Sequence
<1>2. s \in [1 .. Len(s) -> S] /\ t \in [1 .. Len(t) -> T]
  BY <1>1
<1> QED
  BY <1>2

(* t is s with n more values. *)
Above(t, s, n) ==
  /\ Sequence(t) /\ Sequence(s) /\ n \in Nat /\ Len(t) = Len(s) + n
  /\ \A i \in 1 .. Len(s) : t[i] = s[i]

LEMMA AboveItself ==
  ASSUME NEW s, Sequence(s)
  PROVE  Above(s, s, 0)
  BY SequenceFacts DEF Above

LEMMA OneMore ==
  ASSUME NEW t, NEW s, NEW n, Above(t, s, n), NEW v
  PROVE  /\ Above(Append(t, v), s, n + 1)
         /\ Len(Append(t, v)) = Len(t) + 1 /\ Append(t, v)[Len(t) + 1] = v
<1>1. Sequence(t) /\ Sequence(s) /\ n \in Nat /\ Len(t) = Len(s) + n /\ Len(s) \in Nat
      /\ \A i \in 1 .. Len(s) : t[i] = s[i]
  BY SequenceFacts DEF Above
<1>2. /\ Sequence(Append(t, v)) /\ Len(Append(t, v)) = Len(t) + 1
      /\ Append(t, v)[Len(t) + 1] = v
      /\ \A i \in 1 .. Len(t) : Append(t, v)[i] = t[i]
  BY <1>1, Appended
<1>3. \A i \in 1 .. Len(s) : Append(t, v)[i] = s[i]
  BY <1>1, <1>2
<1> QED
  BY <1>1, <1>2, <1>3 DEF Above

LEMMA PopAbove ==
  ASSUME NEW t, NEW s, NEW n, Above(t, s, n)
  PROVE  Pop(t, n) = s
<1>1. Sequence(t) /\ Sequence(s) /\ n \in Nat /\ Len(t) = Len(s) + n /\ Len(s) \in Nat
      /\ \A i \in 1 .. Len(s) : t[i] = s[i]
  BY SequenceFacts DEF Above
<1>2. PICK k \in Nat : k = Len(s)
  BY <1>1
<1>3. Pop(t, n) = SubSeq(t, 1, k)
  BY <1>1, <1>2 DEF Pop
<1>4. Sequence(SubSeq(t, 1, k)) /\ Len(SubSeq(t, 1, k)) = k /\ \A i \in 1 .. k : SubSeq(t, 1, k)[i] = t[i]
  BY <1>1, <1>2, Shortened
<1>5. PICK u : u = SubSeq(t, 1, k)
  OBVIOUS
<1>6. Sequence(u) /\ Len(u) = Len(s) /\ \A i \in 1 .. Len(u) : u[i] = s[i]
  BY <1>1, <1>2, <1>4, <1>5
<1>7. u = s
  BY <1>1, <1>6, SameSequence
<1> QED
  BY <1>3, <1>5, <1>7

LEMMA PopLeaves ==
  ASSUME NEW t, NEW s, NEW n, Above(t, s, n), NEW k \in 1 .. n
  PROVE  Above(Pop(t, n - k), s, k)
<1>1. /\ Sequence(t) /\ Sequence(s) /\ n \in Nat /\ Len(t) = Len(s) + n /\ Len(s) \in Nat
      /\ \A i \in 1 .. Len(s) : t[i] = s[i]
  BY SequenceFacts DEF Above
<1>2. PICK j \in Nat : j = Len(s) + k
  BY <1>1
<1>3. j <= Len(t) /\ Len(t) - (n - k) = j
  BY <1>1, <1>2
<1>4. Pop(t, n - k) = SubSeq(t, 1, j)
  BY <1>3 DEF Pop
<1>5. /\ Sequence(SubSeq(t, 1, j)) /\ Len(SubSeq(t, 1, j)) = j
      /\ \A i \in 1 .. j : SubSeq(t, 1, j)[i] = t[i]
  BY <1>1, <1>2, <1>3, Shortened
<1>6. \A i \in 1 .. Len(s) : SubSeq(t, 1, j)[i] = s[i]
  BY <1>1, <1>2, <1>5
<1>7. PICK u : u = SubSeq(t, 1, j)
  OBVIOUS
<1>8. Sequence(u) /\ Len(u) = Len(s) + k /\ \A i \in 1 .. Len(s) : u[i] = s[i]
  BY <1>1, <1>2, <1>5, <1>6, <1>7
<1>9. k \in Nat
  BY <1>1
<1>10. Above(u, s, k)
  BY <1>1, <1>8, <1>9 DEF Above
<1> QED
  BY <1>4, <1>7, <1>10

LEMMA PopSequence ==
  ASSUME NEW s, Sequence(s), NEW n \in Nat
  PROVE  Sequence(Pop(s, n))
<1>1. PICK k \in Nat : k = Len(s)
  BY SequenceFacts
<1> QED
  BY <1>1, Shortened DEF Pop

--------------------------------------------------------------------------------
(* The machine *)

LEMMA StackReplaced ==
  ASSUME NEW t, NEW h, NEW err, NEW u
  PROVE  [[s |-> t, h |-> h, err |-> err] EXCEPT !.s = u] = [s |-> u, h |-> h, err |-> err]
  BY SMT

LEMMA MachinePush ==
  ASSUME NEW t, NEW h, NEW v
  PROVE  PushV(Machine(t, h), v) = Machine(Append(t, v), h)
<1>1. PICK err : err = FALSE
  OBVIOUS
<1>2. PICK u : u = Append(t, v)
  OBVIOUS
<1>3. Machine(t, h) = [s |-> t, h |-> h, err |-> err] /\ Machine(u, h) = [s |-> u, h |-> h, err |-> err]
  BY <1>1, Zenon DEF Machine
<1>4. PushV([s |-> t, h |-> h, err |-> err], v)
        = [[s |-> t, h |-> h, err |-> err] EXCEPT !.s = Append(t, v)]
  BY DEF PushV
<1> QED
  BY <1>2, <1>3, <1>4, StackReplaced, Zenon

LEMMA MachinePop ==
  ASSUME NEW t, NEW h, NEW n
  PROVE  PopV(Machine(t, h), n) = Machine(Pop(t, n), h)
<1>1. PICK err : err = FALSE
  OBVIOUS
<1>2. PICK u : u = Pop(t, n)
  OBVIOUS
<1>3. Machine(t, h) = [s |-> t, h |-> h, err |-> err] /\ Machine(u, h) = [s |-> u, h |-> h, err |-> err]
  BY <1>1, Zenon DEF Machine
<1>4. PopV([s |-> t, h |-> h, err |-> err], n)
        = [[s |-> t, h |-> h, err |-> err] EXCEPT !.s = Pop(t, n)]
  BY DEF PopV
<1> QED
  BY <1>2, <1>3, <1>4, StackReplaced, Zenon

LEMMA MachineAt ==
  ASSUME NEW t, NEW h, Sequence(t), NEW i \in 1 .. Len(t)
  PROVE  At(Machine(t, h), i) = t[i]
  BY SequenceFacts DEF At, AbsIndex, Machine

LEMMA MachineTop ==
  ASSUME NEW t, NEW h, Sequence(t), Len(t) > 0
  PROVE  At(Machine(t, h), -1) = t[Len(t)] /\ Top(Machine(t, h)) = t[Len(t)]
  BY SequenceFacts DEF At, Top, AbsIndex, Machine

(* An error was raised. *)
Wrecked(m) == \E t, h : Sequence(t) /\ m = [s |-> t, h |-> h, err |-> TRUE]

LEMMA ErrorRaised ==
  ASSUME NEW t, NEW h, NEW err, NEW e
  PROVE  [[s |-> t, h |-> h, err |-> err] EXCEPT !.err = e] = [s |-> t, h |-> h, err |-> e]
  BY SMT

LEMMA MachineRaised ==
  ASSUME NEW t, NEW h, Sequence(t)
  PROVE  Wrecked(Raised(Machine(t, h)))
<1>1. PICK err, e : err = FALSE /\ e = TRUE
  OBVIOUS
<1>2. Machine(t, h) = [s |-> t, h |-> h, err |-> err]
  BY <1>1, Zenon DEF Machine
<1>3. Raised([s |-> t, h |-> h, err |-> err])
        = [[s |-> t, h |-> h, err |-> err] EXCEPT !.err = TRUE]
  BY DEF Raised
<1>4. Raised(Machine(t, h)) = [s |-> t, h |-> h, err |-> TRUE]
  BY <1>1, <1>2, <1>3, ErrorRaised, Zenon
<1> QED
  BY <1>4, Zenon DEF Wrecked

LEMMA WreckedStays ==
  ASSUME NEW m, Wrecked(m), NEW k, NEW i, NEW global
  PROVE  m.err /\ GetField(m, k, i, global) = m
<1>1. PICK t, h : m = [s |-> t, h |-> h, err |-> TRUE]
  BY DEF Wrecked
<1>2. m.err = TRUE
  BY <1>1
<1>3. PICK e : e = TRUE
  OBVIOUS
<1>4. Raised([s |-> t, h |-> h, err |-> e]) = [[s |-> t, h |-> h, err |-> e] EXCEPT !.err = TRUE]
  BY DEF Raised
<1>5. Raised(m) = m
  BY <1>1, <1>3, <1>4, ErrorRaised, Zenon
<1> QED
  BY <1>2, <1>5, Zenon DEF GetField

LEMMA RaisedStays ==
  ASSUME NEW m, Wrecked(m)
  PROVE  m.err /\ Raised(m) = m
<1>1. PICK t, h, e : m = [s |-> t, h |-> h, err |-> e] /\ e = TRUE
  BY DEF Wrecked
<1>2. Raised([s |-> t, h |-> h, err |-> e]) = [[s |-> t, h |-> h, err |-> e] EXCEPT !.err = TRUE]
  BY DEF Raised
<1>3. Raised(m) = m
  BY <1>1, <1>2, ErrorRaised, Zenon
<1>4. m.err = TRUE
  BY <1>1
<1> QED
  BY <1>3, <1>4

(* Where the API is told to index, there is x. *)
Points(t, k, i, global, x) ==
  IF global /\ k \in DirectKeys THEN x = Globals
  ELSE \/ i \in 1 .. Len(t) /\ t[i] = x
       \/ i = -1 /\ k \in DirectKeys /\ Len(t) > 0 /\ t[Len(t)] = x

(* The same, by an index that stays when a value is pushed. *)
Stands(t, k, i, global, x) ==
  IF global THEN k \in DirectKeys /\ x = Globals ELSE i \in 1 .. Len(t) /\ t[i] = x

LEMMA StandsPoints ==
  ASSUME NEW t, NEW k, NEW i, NEW global \in BOOLEAN, NEW x, Stands(t, k, i, global, x)
  PROVE  Points(t, k, i, global, x)
  BY DEF Stands, Points

LEMMA FieldGot ==
  ASSUME NEW t, NEW h, Sequence(t), NEW k, NEW i, NEW global \in BOOLEAN, NEW x, Points(t, k, i, global, x)
  PROVE  /\ x \in Tables => GetField(Machine(t, h), k, i, global) = Machine(Append(t, h[x][k]), h)
         /\ x \notin Tables => Wrecked(GetField(Machine(t, h), k, i, global))
<1> DEFINE m == Machine(t, h)
           at == IF global /\ k \in DirectKeys THEN Globals ELSE Indexed(m, k, i)
<1>1. m.err = FALSE /\ m.h = h
  BY DEF Machine
<1>2. at = x
  <2>1. CASE global /\ k \in DirectKeys
    BY <2>1 DEF Points
  <2>2. CASE ~ (global /\ k \in DirectKeys) /\ i \in 1 .. Len(t) /\ t[i] = x
    <3>1. At(m, i) = x
      BY <2>2, MachineAt
    <3>2. At(PushV(m, k), i) = x
      <4>1. /\ Sequence(Append(t, k)) /\ Len(Append(t, k)) = Len(t) + 1
            /\ Append(t, k)[i] = t[i] /\ Len(t) \in Nat
        BY <2>2, Appended, SequenceFacts
      <4>2. i \in 1 .. Len(Append(t, k))
        BY <2>2, <4>1
      <4>3. At(Machine(Append(t, k), h), i) = Append(t, k)[i]
        BY <4>1, <4>2, MachineAt
      <4> QED
        BY <2>2, <4>1, <4>3, MachinePush
    <3> QED
      BY <2>2, <3>1, <3>2 DEF Indexed
  <2>3. CASE ~ (global /\ k \in DirectKeys) /\ i = -1 /\ k \in DirectKeys /\ Len(t) > 0 /\ t[Len(t)] = x
    BY <2>3, MachineTop DEF Indexed
  <2> QED
    BY <2>1, <2>2, <2>3 DEF Points
<1>3. GetField(m, k, i, global) = IF m.err \/ at \notin Tables THEN Raised(m) ELSE PushV(m, m.h[at][k])
  BY DEF GetField
<1> HIDE DEF m, at
<1>4. PushV(m, h[x][k]) = Machine(Append(t, h[x][k]), h)
  BY MachinePush DEF m
<1>5. Wrecked(Raised(m))
  BY MachineRaised DEF m
<1> QED
  BY <1>1, <1>2, <1>3, <1>4, <1>5, Zenon DEF m
(* One field, at the top of a stack that has the table on it or not. *)
LEMMA FieldPushed ==
  ASSUME NEW t, NEW h, NEW s, NEW n, Above(t, s, n), NEW k, NEW i, NEW global \in BOOLEAN,
         NEW x, Points(t, k, i, global, x), x \in Tables,
         NEW g, g = GetField(Machine(t, h), k, i, global)
  PROVE  \E u : /\ g = Machine(u, h) /\ Above(u, s, n + 1)
                /\ Len(u) \in Nat /\ Len(u) > 0 /\ u[Len(u)] = h[x][k] /\ Top(g) = h[x][k]
<1>1. Sequence(t)
  BY DEF Above
<1>2. PICK v : v = h[x][k]
  OBVIOUS
<1>3. PICK u : u = Append(t, v)
  OBVIOUS
<1>4. g = Machine(u, h)
  BY <1>1, <1>2, <1>3, FieldGot
<1>5. Above(u, s, n + 1) /\ Len(u) = Len(t) + 1 /\ u[Len(t) + 1] = v
  BY <1>3, OneMore
<1>6. Sequence(u) /\ Len(u) \in Nat /\ Len(u) > 0 /\ u[Len(u)] = v
  <2>1. Len(t) \in Nat /\ Sequence(u)
    BY <1>1, <1>5, SequenceFacts DEF Above
  <2> QED
    BY <1>5, <2>1
<1>7. Top(g) = v
  BY <1>4, <1>6, MachineTop
<1> QED
  BY <1>2, <1>4, <1>5, <1>6, <1>7

--------------------------------------------------------------------------------
(* Following the keys of a path *)

Followed(h, t, path) ==
  LET at[n \in 0 .. Len(path)] ==
        IF n = 0 THEN t
        ELSE IF at[n - 1] \in Tables THEN h[at[n - 1]][path[n]] ELSE Nil
  IN at

Follow(h, path, n, was) == IF was \in Tables THEN h[was][path[n]] ELSE Nil

LEMMA LookupFollows ==
  ASSUME NEW h, NEW t, NEW path, Len(path) \in Nat, NEW W, W = Followed(h, t, path)
  PROVE  /\ Lookup(h, t, path) = W[Len(path)] /\ W[0] = t
         /\ \A n \in 1 .. Len(path) : W[n] = Follow(h, path, n, W[n - 1])
<1> DEFINE Is(f, m) == f = [n \in 0 .. m |-> IF n = 0 THEN t ELSE Follow(h, path, n, f[n - 1])]
           P == {m \in Nat : \E f : Is(f, m)}
<1>1. 0 \in P
  <2>1. Is([n \in 0 .. 0 |-> t], 0)
    OBVIOUS
  <2> QED
    BY <2>1
<1>2. ASSUME NEW m \in 1 .. Len(path), m - 1 \in P PROVE m \in P
  <2>1. PICK g : Is(g, m - 1)
    BY <1>2
  <2> DEFINE more == [n \in 0 .. m |-> IF n = m THEN Follow(h, path, m, g[m - 1]) ELSE g[n]]
  <2>2. \A n \in 0 .. m - 1 : g[n] = IF n = 0 THEN t ELSE Follow(h, path, n, g[n - 1])
    BY <2>1
  <2>3. \A n \in 0 .. m : more[n] = IF n = 0 THEN t ELSE Follow(h, path, n, more[n - 1])
    BY <2>2
  <2>4. Is(more, m)
    BY <2>3
  <2> HIDE DEF more
  <2> QED
    BY <2>4
<1>3. Len(path) \in P
  <2> HIDE DEF P
  <2>1. \A m \in 0 .. Len(path) : m \in P
    BY <1>1, <1>2, Steps, Zenon
  <2> QED
    BY <2>1
<1>4. Is(W, Len(path))
  BY <1>3, Zenon DEF Followed, Follow
<1>5. Lookup(h, t, path) = W[Len(path)]
  BY DEF Lookup, Followed
<1> QED
  BY <1>4, <1>5

--------------------------------------------------------------------------------
(* One step along a path *)

(* n levels were pushed onto o, the last of them w at index i. *)
Arrived(m, i, h, o, n, w) ==
  \E t : /\ m = Machine(t, h) /\ Above(t, o, n)
         /\ Len(t) \in Nat /\ Len(t) > 0 /\ i = Len(t) /\ t[Len(t)] = w

LEMMA ArrivedTop ==
  ASSUME NEW m, NEW i, NEW h, NEW o, NEW n, NEW w, Arrived(m, i, h, o, n, w)
  PROVE  /\ Top(m) = w /\ At(m, i) = w /\ At(m, -1) = w /\ m.err = FALSE /\ m.h = h
         /\ i = Len(m.s) /\ PopV(m, n) = Machine(o, h) /\ n \in Nat
<1>1. PICK t : /\ m = Machine(t, h) /\ Above(t, o, n)
               /\ Len(t) \in Nat /\ Len(t) > 0 /\ i = Len(t) /\ t[Len(t)] = w
  BY DEF Arrived
<1>2. Sequence(t) /\ n \in Nat
  BY <1>1 DEF Above
<1>3. Top(m) = w /\ At(m, -1) = w
  BY <1>1, <1>2, MachineTop
<1>4. At(m, i) = w
  BY <1>1, <1>2, MachineAt
<1>5. m.err = FALSE /\ m.h = h /\ m.s = t
  BY <1>1 DEF Machine
<1>6. PopV(m, n) = Machine(o, h)
  BY <1>1, MachinePop, PopAbove, Zenon
<1> QED
  BY <1>1, <1>2, <1>3, <1>4, <1>5, <1>6

LEMMA ArriveFrom ==
  ASSUME NEW t, NEW h, NEW o, NEW n, Above(t, o, n), NEW k, NEW i, NEW global \in BOOLEAN,
         NEW x, Points(t, k, i, global, x), x \in Tables,
         NEW g, g = GetField(Machine(t, h), k, i, global)
  PROVE  Arrived(g, Len(g.s), h, o, n + 1, h[x][k])
<1>1. PICK u : /\ g = Machine(u, h) /\ Above(u, o, n + 1)
               /\ Len(u) \in Nat /\ Len(u) > 0 /\ u[Len(u)] = h[x][k]
  BY FieldPushed
<1>2. g.s = u
  BY <1>1 DEF Machine
<1> QED
  BY <1>1, <1>2 DEF Arrived

LEMMA ArriveNext ==
  ASSUME NEW m, NEW i, NEW h, NEW o, NEW n, NEW w, Arrived(m, i, h, o, n, w),
         NEW k, NEW j, j = i \/ (j = -1 /\ k \in DirectKeys),
         NEW no \in BOOLEAN, ~no, NEW g, g = GetField(m, k, j, no)
  PROVE  /\ w \in Tables => Arrived(g, Len(g.s), h, o, n + 1, h[w][k])
         /\ w \notin Tables => Wrecked(g)
<1>1. PICK t : /\ m = Machine(t, h) /\ Above(t, o, n)
               /\ Len(t) \in Nat /\ Len(t) > 0 /\ i = Len(t) /\ t[Len(t)] = w
  BY DEF Arrived
<1>2. Points(t, k, j, no, w) /\ Sequence(t)
  BY <1>1 DEF Points, Above
<1>3. g = GetField(Machine(t, h), k, j, no)
  BY <1>1
<1>4. ASSUME w \in Tables PROVE Arrived(g, Len(g.s), h, o, n + 1, h[w][k])
  BY <1>1, <1>2, <1>3, <1>4, ArriveFrom
<1>5. ASSUME w \notin Tables PROVE Wrecked(g)
  <2>1. Wrecked(GetField(Machine(t, h), k, j, no))
    BY <1>2, <1>5, FieldGot, Zenon
  <2> QED
    BY <1>3, <2>1, Zenon
<1> QED
  BY <1>4, <1>5

(* Where an operation begins. *)
LEMMA Beginning ==
  ASSUME NEW s, Sequence(s), NEW h, NEW m, m = Machine(s, h), NEW start \in Starts(s), NEW path,
         NEW global \in BOOLEAN, global => Tableless(start, path),
         NEW i, i = IndexOf(m, start, global), NEW x, x = TableOf(m, start)
  PROVE  /\ x \in Tables
         /\ \E o : /\ Sequence(o) /\ Opened(m, start, global) = Machine(o, h)
                   /\ Closed(Machine(o, h), start, global) = m
                   /\ Points(o, path[1], i, global, x)
                   /\ Stands(o, path[1], i, global, x)
                   /\ \A g : Closed(Machine(o, g), start, global) = Machine(s, g)
                   /\ ~global /\ start.kind # "stack" =>
                        /\ Above(o, s, 1) /\ Len(o) \in Nat /\ Len(o) > 0 /\ o[Len(o)] = x
                        /\ i = Len(o) /\ o = Append(s, x)
<1>1. Len(s) \in Nat /\ m.s = s
  BY SequenceFacts DEF Machine
<1>2. \/ start.kind = "ref" /\ start.at \in Rooted
      \/ start.kind = "global" /\ start.at = Globals
      \/ start.kind = "stack" /\ start.at \in 1 .. Len(s) /\ s[start.at] \in Tables
  BY SequenceFacts DEF Starts
<1>3. x = IF start.kind = "stack" THEN s[start.at] ELSE start.at
  BY <1>1 DEF TableOf
<1>4. Globals \in Tables /\ Rooted \subseteq Tables
  BY TableAssumption
<1>5. x \in Tables
  BY <1>2, <1>3, <1>4
<1>6. CASE global
  <2>1. start.kind = "global" /\ path[1] \in DirectKeys
    BY <1>6 DEF Tableless
  <2>2. Opened(m, start, global) = m /\ \A g : Closed(Machine(s, g), start, global) = Machine(s, g)
    BY <1>6, Zenon DEF Opened, Closed
  <2>3. Stands(s, path[1], i, global, x)
    BY <1>2, <1>3, <1>6, <2>1 DEF Stands
  <2> QED
    BY <1>5, <1>6, <2>2, <2>3, StandsPoints
<1>7. CASE ~ global /\ start.kind = "stack"
  <2>1. Opened(m, start, global) = m /\ \A g : Closed(Machine(s, g), start, global) = Machine(s, g)
    BY <1>7, Zenon DEF Opened, Closed
  <2>2. i = start.at
    BY <1>7 DEF IndexOf
  <2>3. Stands(s, path[1], i, global, x)
    BY <1>2, <1>3, <1>7, <2>2 DEF Stands
  <2> QED
    BY <1>5, <1>7, <2>1, <2>3, StandsPoints
<1>8. CASE ~ global /\ start.kind # "stack"
  <2>1. PICK o : o = Append(s, x)
    OBVIOUS
  <2>2. start.at = x
    BY <1>3, <1>8
  <2>3. Opened(m, start, global) = Machine(o, h)
    BY <1>8, <2>1, <2>2, MachinePush DEF Opened
  <2>4. Above(o, s, 1) /\ Len(o) = Len(s) + 1 /\ o[Len(s) + 1] = x
    <3>1. Above(o, s, 0 + 1) /\ Len(o) = Len(s) + 1 /\ o[Len(s) + 1] = x
      BY <2>1, AboveItself, OneMore
    <3> QED
      BY <3>1
  <2>5. \A g : Closed(Machine(o, g), start, global) = Machine(s, g)
    <3>1. Pop(o, 1) = s
      BY <2>4, PopAbove
    <3> QED
      BY <1>8, <3>1, MachinePop DEF Closed
  <2>6. i = Len(s) + 1
    BY <1>1, <1>8 DEF IndexOf
  <2>7. Sequence(o) /\ Stands(o, path[1], i, global, x)
    BY <1>1, <1>8, <2>4, <2>6 DEF Stands, Above
  <2>8. Len(o) \in Nat /\ Len(o) > 0 /\ o[Len(o)] = x /\ i = Len(o)
    BY <1>1, <2>4, <2>6
  <2> QED
    BY <1>5, <2>1, <2>3, <2>4, <2>5, <2>7, <2>8, StandsPoints
<1> QED
  BY <1>6, <1>7, <1>8

(* The table was pushed onto s. *)
PushedStart(o, s, h, m, start, no, x) ==
  /\ Sequence(o) /\ Opened(m, start, no) = Machine(o, h)
  /\ Closed(Machine(o, h), start, no) = m
  /\ Len(o) \in Nat /\ Len(o) > 0 /\ o[Len(o)] = x

LEMMA BeginningPushed ==
  ASSUME NEW s, Sequence(s), NEW h, NEW m, m = Machine(s, h), NEW start \in Starts(s),
         start.kind # "stack", NEW no \in BOOLEAN, ~no, NEW x, x = TableOf(m, start)
  PROVE  x \in Tables /\ \E o : PushedStart(o, s, h, m, start, no, x)
<1>1. PICK path, i : i = IndexOf(m, start, no)
  OBVIOUS
<1>2. no => Tableless(start, path)
  OBVIOUS
<1> QED
  BY <1>1, <1>2, Beginning DEF PushedStart

--------------------------------------------------------------------------------
(* traverse_get *)

Getting(m, start, path, global, want, create) ==
  LET first == [m |-> Opened(m, start, global), i |-> IndexOf(m, start, global)]
      at[n \in 0 .. Len(path)] ==
        IF n = 0 THEN first ELSE GetStep(at[n - 1], path, n, global, want, create)
  IN at

GettingSteps(G, m, start, path, global, want, create) ==
  /\ G[0] = [m |-> Opened(m, start, global), i |-> IndexOf(m, start, global)]
  /\ \A n \in 1 .. Len(path) : G[n] = GetStep(G[n - 1], path, n, global, want, create)

LEMMA GettingGoes ==
  ASSUME NEW m, NEW start, NEW path, Len(path) \in Nat, NEW global, NEW want, NEW create,
         NEW G, G = Getting(m, start, path, global, want, create)
  PROVE  GettingSteps(G, m, start, path, global, want, create)
<1> DEFINE first == [m |-> Opened(m, start, global), i |-> IndexOf(m, start, global)]
           Go(n, was) == GetStep(was, path, n, global, want, create)
           Is(f, k) == f = [n \in 0 .. k |-> IF n = 0 THEN first ELSE Go(n, f[n - 1])]
           P == {k \in Nat : \E f : Is(f, k)}
<1>1. 0 \in P
  <2> HIDE DEF first, Go
  <2>1. Is([n \in 0 .. 0 |-> first], 0)
    OBVIOUS
  <2> QED
    BY <2>1
<1>2. ASSUME NEW k \in 1 .. Len(path), k - 1 \in P PROVE k \in P
  <2> HIDE DEF first, Go
  <2>1. PICK g : Is(g, k - 1)
    BY <1>2
  <2> DEFINE more == [n \in 0 .. k |-> IF n = k THEN Go(k, g[k - 1]) ELSE g[n]]
  <2>2. \A n \in 0 .. k - 1 : g[n] = IF n = 0 THEN first ELSE Go(n, g[n - 1])
    BY <2>1
  <2>3. \A n \in 0 .. k : more[n] = IF n = 0 THEN first ELSE Go(n, more[n - 1])
    BY <2>2
  <2>4. Is(more, k)
    BY <2>3
  <2> HIDE DEF more
  <2> QED
    BY <2>4
<1>3. Len(path) \in P
  <2> HIDE DEF P
  <2>1. \A k \in 0 .. Len(path) : k \in P
    BY <1>1, <1>2, Steps
  <2> QED
    BY <2>1
<1>4. Is(G, Len(path))
  <2> HIDE DEF first, Go
  <2>1. \E f : Is(f, Len(path))
    BY <1>3
  <2>2. G = CHOOSE f : Is(f, Len(path))
    BY DEF Getting, first, Go
  <2> QED
    BY <2>1, <2>2
<1>5. G[0] = first /\ \A n \in 1 .. Len(path) : G[n] = Go(n, G[n - 1])
  <2> HIDE DEF first, Go
  <2> QED
    BY <1>4
<1> QED
  BY <1>5 DEF GettingSteps

LEMMA PathFacts ==
  ASSUME NEW path \in Paths
  PROVE  Len(path) \in Nat /\ 1 \in 1 .. Len(path) /\ \A n \in 1 .. Len(path) : path[n] \in Keys
<1>1. MaxPath \in Nat
  BY TableAssumption
<1>2. PICK n \in 1 .. MaxPath : path \in [1 .. n -> Keys]
  BY DEF Paths
<1>3. n \in Nat /\ n >= 1
  BY <1>1, <1>2
<1>4. path \in Seq(Keys) /\ Len(path) = n
  BY <1>2, <1>3
<1> QED
  BY <1>3, <1>4

LEMMA NilIsNothing == Nil \notin Tables /\ Nil \notin Numbers
  BY TableAssumption

(* What a walk of plain reads has: everything down to level n, or an error. *)
Gone(m, i, h, o, n, w) == (Wrecked(m) /\ w = Nil) \/ Arrived(m, i, h, o, n, w)

LEMMA ReadOn ==
  ASSUME NEW m, NEW i, NEW h, NEW o, NEW n, NEW w, Gone(m, i, h, o, n, w),
         NEW k, NEW j, j = i \/ (j = -1 /\ k \in DirectKeys),
         NEW no \in BOOLEAN, ~no, NEW g, g = GetField(m, k, j, no),
         NEW v, v = IF w \in Tables THEN h[w][k] ELSE Nil
  PROVE  Gone(g, Len(g.s), h, o, n + 1, v)
<1>1. CASE Wrecked(m) /\ w = Nil
  <2>1. g = m
    BY <1>1, WreckedStays
  <2>2. v = Nil
    BY <1>1, NilIsNothing
  <2> QED
    BY <1>1, <2>1, <2>2 DEF Gone
<1>2. CASE Arrived(m, i, h, o, n, w)
  <2>1. /\ w \in Tables => Arrived(g, Len(g.s), h, o, n + 1, h[w][k])
        /\ w \notin Tables => Wrecked(g)
    BY <1>2, ArriveNext
  <2> QED
    BY <2>1 DEF Gone
<1> QED
  BY <1>1, <1>2 DEF Gone

LEMMA PlainStep ==
  ASSUME NEW a, NEW path, NEW n, NEW global, NEW want, NEW no \in BOOLEAN, ~no,
         NEW b, b = GetStep(a, path, n, global, want, no)
  PROVE  b.m = GetField(a.m, path[n], a.i, global /\ n = 1) /\ b.i = Len(b.m.s)
  BY DEF GetStep

(* table.get and traverse_get of a value of any type: the value, or an error *)
(* when there is none.                                                       *)
LEMMA GetReads ==
  ASSUME NEW s, Sequence(s), NEW h, NEW start \in Starts(s), NEW path \in Paths,
         NEW m, m = Machine(s, h), NEW v, v = Lookup(h, TableOf(m, start), path),
         NEW no \in BOOLEAN, ~no, NEW get, get = TraverseGet(m, start, path, "some", no)
  PROVE  IF v = Nil THEN get.m.err ELSE ~get.m.err /\ get = [m |-> m, got |-> v]
<1>1. Len(path) \in Nat /\ 1 \in 1 .. Len(path)
  BY PathFacts
<1>3. PICK global \in BOOLEAN : global = (~no /\ Tableless(start, path))
  OBVIOUS
<1>3a. global => Tableless(start, path)
  BY <1>3, Zenon
<1>4. PICK G : G = Getting(m, start, path, global, "some", no)
  OBVIOUS
<1>5. PICK i, x : i = IndexOf(m, start, global) /\ x = TableOf(m, start)
  OBVIOUS
<1>6. PICK W : W = Followed(h, x, path)
  OBVIOUS
<1>7. /\ v = W[Len(path)] /\ W[0] = x
      /\ \A n \in 1 .. Len(path) : W[n] = Follow(h, path, n, W[n - 1])
  BY <1>1, <1>5, <1>6, LookupFollows
<1>8. PICK o : /\ x \in Tables /\ Sequence(o) /\ Opened(m, start, global) = Machine(o, h)
               /\ Closed(Machine(o, h), start, global) = m
               /\ Points(o, path[1], i, global, x)
  BY <1>3a, <1>5, Beginning
<1>13. PICK deep : deep = G[Len(path)].m
  OBVIOUS
<1>9. /\ get = IF deep.err \/ ~IsA(Top(deep), "some") THEN [m |-> Raised(m), got |-> Nil]
               ELSE [m |-> Closed(PopV(deep, Len(path)), start, global), got |-> Top(deep)]
      /\ G[0] = [m |-> Machine(o, h), i |-> i]
      /\ \A n \in 1 .. Len(path) : G[n] = GetStep(G[n - 1], path, n, global, "some", no)
  <2>1. get = IF deep.err \/ ~IsA(Top(deep), "some") THEN [m |-> Raised(m), got |-> Nil]
              ELSE [m |-> Closed(PopV(deep, Len(path)), start, global), got |-> Top(deep)]
    BY <1>3, <1>4, <1>13, Zenon DEF TraverseGet, Getting
  <2>3. /\ G[0] = [m |-> Opened(m, start, global), i |-> IndexOf(m, start, global)]
        /\ \A n \in 1 .. Len(path) : G[n] = GetStep(G[n - 1], path, n, global, "some", no)
    <3>1. Len(path) \in Nat
      BY <1>1
    <3>2. GettingSteps(G, m, start, path, global, "some", no)
      BY <1>4, <3>1, GettingGoes, Zenon
    <3> QED
      BY <3>2, Zenon DEF GettingSteps
  <2>2. G[0] = [m |-> Machine(o, h), i |-> i]
    BY <1>5, <1>8, <2>3, Zenon
  <2> QED
    BY <2>1, <2>2, <2>3, Zenon
<1> DEFINE Here(n) == Gone(G[n].m, G[n].i, h, o, n, W[n])
           P == {n \in Nat : n >= 1 => Here(n)}
<1>10. \A n \in 1 .. Len(path) :
         /\ G[n].m = GetField(G[n - 1].m, path[n], G[n - 1].i, global /\ n = 1)
         /\ G[n].i = Len(G[n].m.s)
  BY <1>9, PlainStep
<1>11. ASSUME NEW n \in 1 .. Len(path), n - 1 \in P PROVE n \in P
  <2>1. CASE n = 1
    <3>1. PICK g : g = GetField(Machine(o, h), path[1], i, global)
      OBVIOUS
    <3>2. G[1].m = g /\ G[1].i = Len(g.s)
      BY <1>1, <1>9, <1>10, <3>1
    <3>3. Above(o, o, 0)
      BY <1>8, AboveItself
    <3>4. Arrived(g, Len(g.s), h, o, 0 + 1, h[x][path[1]])
      BY <1>8, <3>1, <3>3, ArriveFrom
    <3>5. W[1] = h[x][path[1]]
      BY <1>1, <1>7, <1>8 DEF Follow
    <3> QED
      BY <2>1, <3>2, <3>4, <3>5 DEF Gone
  <2>2. CASE n # 1
    <3>1. Here(n - 1) /\ n - 1 \in Nat
      BY <1>11, <2>2
    <3>2. G[n].m = GetField(G[n - 1].m, path[n], G[n - 1].i, no) /\ G[n].i = Len(G[n].m.s)
      BY <1>10, <2>2
    <3>3. W[n] = IF W[n - 1] \in Tables THEN h[W[n - 1]][path[n]] ELSE Nil
      BY <1>7 DEF Follow
    <3>4. Gone(G[n].m, Len(G[n].m.s), h, o, (n - 1) + 1, W[n])
      BY <3>1, <3>2, <3>3, ReadOn
    <3> QED
      BY <3>2, <3>4
  <2> QED
    BY <2>1, <2>2
<1>12. Here(Len(path))
  <2>1. 0 \in P
    OBVIOUS
  <2> HIDE DEF P, Here
  <2>2. \A n \in 0 .. Len(path) : n \in P
    BY <1>1, <1>11, <2>1, Steps
  <2>3. Len(path) \in P
    BY <1>1, <2>2
  <2> QED
    BY <1>1, <2>3 DEF P
<1> HIDE DEF Here
<1>16. Raised(m).err
  BY MachineRaised, RaisedStays
<1>14. CASE Wrecked(deep) /\ v = Nil
  <2>1. deep.err
    BY <1>14, RaisedStays
  <2>2. get = [m |-> Raised(m), got |-> Nil]
    BY <1>9, <2>1
  <2> QED
    BY <1>14, <1>16, <2>2
<1>15. CASE Arrived(deep, G[Len(path)].i, h, o, Len(path), v)
  <2>1. Top(deep) = v /\ deep.err = FALSE /\ PopV(deep, Len(path)) = Machine(o, h)
    BY <1>15, ArrivedTop
  <2>2. CASE v = Nil
    <3>1. get = [m |-> Raised(m), got |-> Nil]
      BY <1>9, <2>1, <2>2 DEF IsA
    <3> QED
      BY <1>16, <2>2, <3>1
  <2>3. CASE v # Nil
    <3>1. get = [m |-> Closed(Machine(o, h), start, global), got |-> v]
      BY <1>9, <2>1, <2>3 DEF IsA
    <3>2. get = [m |-> m, got |-> v]
      BY <1>8, <3>1, Zenon
    <3>3. m.err = FALSE
      BY DEF Machine
    <3>4. get.m = m
      BY <3>2
    <3> QED
      BY <2>3, <3>2, <3>3, <3>4, Zenon
  <2> QED
    BY <2>2, <2>3
<1> QED
  BY <1>7, <1>12, <1>13, <1>14, <1>15 DEF Here, Gone

--------------------------------------------------------------------------------
(* field_getter of a tuple of keys, and table_proxy::push *)

PathGetting(m, path, i, global) ==
  LET at[n \in 0 .. Len(path)] ==
        IF n = 0 THEN m
        ELSE GetField(at[n - 1], path[n], IF n = 1 THEN i ELSE LevelBelow(path[n]), global /\ n = 1)
  IN at

LEMMA PathGettingGoes ==
  ASSUME NEW m, NEW path, NEW i, NEW global, Len(path) \in Nat,
         NEW G, G = PathGetting(m, path, i, global)
  PROVE  /\ G[0] = m
         /\ \A n \in 1 .. Len(path) :
              G[n] = GetField(G[n - 1], path[n], IF n = 1 THEN i ELSE LevelBelow(path[n]), global /\ n = 1)
<1> DEFINE first == m
           Go(n, was) == GetField(was, path[n], IF n = 1 THEN i ELSE LevelBelow(path[n]), global /\ n = 1)
           Is(f, k) == f = [n \in 0 .. k |-> IF n = 0 THEN first ELSE Go(n, f[n - 1])]
           P == {k \in Nat : \E f : Is(f, k)}
<1>1. 0 \in P
  <2> HIDE DEF first, Go
  <2>1. Is([n \in 0 .. 0 |-> first], 0)
    OBVIOUS
  <2> QED
    BY <2>1
<1>2. ASSUME NEW k \in 1 .. Len(path), k - 1 \in P PROVE k \in P
  <2> HIDE DEF first, Go
  <2>1. PICK g : Is(g, k - 1)
    BY <1>2
  <2> DEFINE more == [n \in 0 .. k |-> IF n = k THEN Go(k, g[k - 1]) ELSE g[n]]
  <2>2. \A n \in 0 .. k - 1 : g[n] = IF n = 0 THEN first ELSE Go(n, g[n - 1])
    BY <2>1
  <2>3. \A n \in 0 .. k : more[n] = IF n = 0 THEN first ELSE Go(n, more[n - 1])
    BY <2>2
  <2>4. Is(more, k)
    BY <2>3
  <2> HIDE DEF more
  <2> QED
    BY <2>4
<1>3. Len(path) \in P
  <2> HIDE DEF P
  <2>1. \A k \in 0 .. Len(path) : k \in P
    BY <1>1, <1>2, Steps
  <2> QED
    BY <2>1
<1>4. Is(G, Len(path))
  <2> HIDE DEF first, Go
  <2>1. \E f : Is(f, Len(path))
    BY <1>3
  <2>2. G = CHOOSE f : Is(f, Len(path))
    BY DEF PathGetting, first, Go
  <2> QED
    BY <2>1, <2>2
<1>5. G[0] = first /\ \A n \in 1 .. Len(path) : G[n] = Go(n, G[n - 1])
  <2> HIDE DEF first, Go
  <2> QED
    BY <1>4
<1> QED
  BY <1>5


LEMMA PathGotten ==
  ASSUME NEW m, NEW path, NEW i, NEW global,
         NEW deep, deep = PathGetting(m, path, i, global)[Len(path)]
  PROVE  GetPath(m, path, i, global)
           = IF deep.err THEN deep ELSE PushV(PopV(deep, Len(path) - 1), Top(deep))
  BY DEF GetPath, PathGetting

(* Below a pushed key the default index is the index of the level it reads. *)
LEMMA ReadBelow ==
  ASSUME NEW m, NEW i, NEW h, NEW o, NEW n, NEW w, Gone(m, i, h, o, n, w),
         NEW k, k \notin DirectKeys, NEW no \in BOOLEAN, ~no
  PROVE  GetField(m, k, -2, no) = GetField(m, k, i, no)
<1>1. CASE Wrecked(m)
  BY <1>1, WreckedStays
<1>2. CASE Arrived(m, i, h, o, n, w)
  <2>1. PICK t : /\ m = Machine(t, h) /\ Sequence(t)
                 /\ Len(t) \in Nat /\ Len(t) > 0 /\ i = Len(t)
    BY <1>2 DEF Arrived, Above
  <2>2. PICK u : u = Append(t, k)
    OBVIOUS
  <2>3. Len(u) = Len(t) + 1 /\ PushV(m, k) = Machine(u, h)
    BY <2>1, <2>2, Appended, MachinePush
  <2>4. AbsIndex(u, -2) = AbsIndex(u, i)
    BY <2>1, <2>3 DEF AbsIndex
  <2>5. At(PushV(m, k), -2) = At(PushV(m, k), i)
    BY <2>3, <2>4 DEF At, Machine
  <2>6. Indexed(m, k, -2) = Indexed(m, k, i)
    BY <2>5, Zenon DEF Indexed
  <2> QED
    BY <2>6, Zenon DEF GetField
<1> QED
  BY <1>1, <1>2 DEF Gone

(* v was pushed above one more value, or there was nothing to push. *)
ReadAbove(m, o, h, v) == \E t : m = Machine(Append(t, v), h) /\ Above(t, o, 1)

ReadOrNot(m, o, h, v) == ReadAbove(m, o, h, v) \/ (v = Nil /\ Wrecked(m))

LEMMA GetPathReads ==
  ASSUME NEW o, Sequence(o), NEW h, NEW path \in Paths,
         NEW x \in Tables, NEW i, NEW global \in BOOLEAN, Points(o, path[1], i, global, x),
         NEW v, v = Lookup(h, x, path)
  PROVE  ReadOrNot(GetPath(Machine(o, h), path, i, global), o, h, v)
<1>1. Len(path) \in Nat /\ 1 \in 1 .. Len(path)
  BY PathFacts
<1>2. PICK no \in BOOLEAN : ~no
  OBVIOUS
<1>3. PICK G : G = PathGetting(Machine(o, h), path, i, global)
  OBVIOUS
<1>4. PICK W : W = Followed(h, x, path)
  OBVIOUS
<1>5. /\ v = W[Len(path)] /\ W[0] = x
      /\ \A n \in 1 .. Len(path) : W[n] = Follow(h, path, n, W[n - 1])
  BY <1>1, <1>4, LookupFollows
<1>6. /\ G[0] = Machine(o, h)
      /\ \A n \in 1 .. Len(path) :
           G[n] = GetField(G[n - 1], path[n], IF n = 1 THEN i ELSE LevelBelow(path[n]), global /\ n = 1)
  BY <1>1, <1>3, PathGettingGoes
<1> DEFINE Here(n) == Gone(G[n], Len(G[n].s), h, o, n, W[n])
           P == {n \in Nat : n >= 1 => Here(n)}
<1>7. ASSUME NEW n \in 1 .. Len(path), n - 1 \in P PROVE n \in P
  <2>1. CASE n = 1
    <3>1. PICK g : g = GetField(Machine(o, h), path[1], i, global)
      OBVIOUS
    <3>2. G[1] = g
      BY <1>1, <1>6, <3>1
    <3>3. Above(o, o, 0)
      BY AboveItself
    <3>4. Arrived(g, Len(g.s), h, o, 0 + 1, h[x][path[1]])
      BY <3>1, <3>3, ArriveFrom
    <3>5. W[1] = h[x][path[1]]
      BY <1>1, <1>5 DEF Follow
    <3> QED
      BY <2>1, <3>2, <3>4, <3>5 DEF Gone
  <2>2. CASE n # 1
    <3>1. Here(n - 1) /\ n - 1 \in Nat
      BY <1>7, <2>2
    <3>2. G[n] = GetField(G[n - 1], path[n], LevelBelow(path[n]), no)
      BY <1>2, <1>6, <2>2
    <3>3. W[n] = IF W[n - 1] \in Tables THEN h[W[n - 1]][path[n]] ELSE Nil
      BY <1>5 DEF Follow
    <3>5. PICK j : /\ G[n] = GetField(G[n - 1], path[n], j, no)
                   /\ j = Len(G[n - 1].s) \/ (j = -1 /\ path[n] \in DirectKeys)
      <4>1. CASE path[n] \in DirectKeys
        BY <3>2, <4>1 DEF LevelBelow
      <4>2. CASE path[n] \notin DirectKeys
        <5>1. GetField(G[n - 1], path[n], -2, no) = GetField(G[n - 1], path[n], Len(G[n - 1].s), no)
          BY <1>2, <3>1, <4>2, ReadBelow
        <5> QED
          BY <3>2, <4>2, <5>1 DEF LevelBelow
      <4> QED
        BY <4>1, <4>2
    <3>4. Gone(G[n], Len(G[n].s), h, o, (n - 1) + 1, W[n])
      BY <1>2, <3>1, <3>3, <3>5, ReadOn
    <3> QED
      BY <3>4
  <2> QED
    BY <2>1, <2>2
<1>8. Here(Len(path))
  <2>1. 0 \in P
    OBVIOUS
  <2> HIDE DEF P, Here
  <2>2. \A n \in 0 .. Len(path) : n \in P
    BY <1>1, <1>7, <2>1, Steps
  <2>3. Len(path) \in P
    BY <1>1, <2>2
  <2> QED
    BY <1>1, <2>3 DEF P
<1> HIDE DEF Here
<1>9. PICK deep : deep = G[Len(path)]
  OBVIOUS
<1>10. Gone(deep, Len(deep.s), h, o, Len(path), v)
  BY <1>5, <1>8, <1>9 DEF Here
<1>11. GetPath(Machine(o, h), path, i, global)
         = IF deep.err THEN deep ELSE PushV(PopV(deep, Len(path) - 1), Top(deep))
  BY <1>3, <1>9, PathGotten
<1>12. CASE Wrecked(deep) /\ v = Nil
  <2>1. deep.err
    BY <1>12, RaisedStays
  <2> QED
    BY <1>11, <1>12, <2>1 DEF ReadOrNot
<1>13. CASE Arrived(deep, Len(deep.s), h, o, Len(path), v)
  <2>1. PICK t : /\ deep = Machine(t, h) /\ Above(t, o, Len(path))
                 /\ Len(t) \in Nat /\ Len(t) > 0 /\ t[Len(t)] = v
    BY <1>13 DEF Arrived
  <2>2. Top(deep) = v /\ deep.err = FALSE
    BY <1>13, ArrivedTop
  <2>3. PICK u : u = Pop(t, Len(path) - 1)
    OBVIOUS
  <2>4. Above(u, o, 1)
    BY <1>1, <2>1, <2>3, PopLeaves
  <2>5. PopV(deep, Len(path) - 1) = Machine(u, h)
    BY <2>1, <2>3, MachinePop
  <2>6. GetPath(Machine(o, h), path, i, global) = PushV(Machine(u, h), v)
    BY <1>11, <2>2, <2>5
  <2> QED
    BY <2>4, <2>6, MachinePush, Zenon DEF ReadAbove, ReadOrNot
<1> QED
  BY <1>10, <1>12, <1>13 DEF Gone

LEMMA Replaced ==
  ASSUME NEW t, Sequence(t), NEW v, NEW b \in 1 .. Len(t),
         NEW u, u = LuaReplace(Append(t, v), b)
  PROVE  /\ Sequence(u) /\ Len(u) = Len(t) /\ u[b] = v
         /\ \A j \in 1 .. Len(t) : j # b => u[j] = t[j]
<1>1. PICK S : t \in Seq(S)
  BY DEF Sequence
<1>2. PICK T : T = S \cup {v}
  OBVIOUS
<1>3. t \in Seq(T) /\ v \in T
  BY <1>1, <1>2
<1>4. PICK s : s = Append(t, v)
  OBVIOUS
<1>5. s \in Seq(T)
  BY <1>3, <1>4
<1>5a. Len(s) = Len(t) + 1 /\ s[Len(s)] = v /\ Len(t) \in Nat
  BY <1>3, <1>4
<1>5b. \A j \in 1 .. Len(t) : s[j] = t[j]
  BY <1>3, <1>4
<1>6. PICK r : r = [s EXCEPT ![b] = v]
  OBVIOUS
<1>7. r \in Seq(T)
  BY <1>3, <1>5, <1>5a, <1>6
<1>7a. Len(r) = Len(s)
  BY <1>5, <1>5a, <1>6, <1>7
<1>7b. r[b] = v /\ \A j \in 1 .. Len(t) : j # b => r[j] = t[j]
  BY <1>5, <1>5a, <1>5b, <1>6
<1>8. AbsIndex(s, b) = b
  BY <1>5a DEF AbsIndex
<1>9. u = Pop(r, 1)
  BY <1>4, <1>5a, <1>6, <1>8 DEF LuaReplace
<1>10. PICK k \in Nat : k = Len(t)
  BY <1>5a
<1>11. u = SubSeq(r, 1, k)
  BY <1>5a, <1>7a, <1>9, <1>10 DEF Pop
<1>12. Sequence(r)
  BY <1>7 DEF Sequence
<1>13. Sequence(u) /\ Len(u) = k /\ \A j \in 1 .. k : u[j] = r[j]
  BY <1>5a, <1>7a, <1>10, <1>11, <1>12, Shortened
<1> QED
  BY <1>7b, <1>10, <1>13

(* lua_replace and lua_settop leave the value in the place of the table. *)
LEMMA Settled ==
  ASSUME NEW s, Sequence(s), NEW v, NEW u, Sequence(u), Len(u) > Len(s), u[Len(s) + 1] = v,
         \A j \in 1 .. Len(s) : u[j] = s[j]
  PROVE  SubSeq(u, 1, Len(s) + 1) = Append(s, v)
<1>1. Len(s) \in Nat /\ Len(u) \in Nat
  BY SequenceFacts
<1>2. PICK k \in Nat : k = Len(s) + 1
  BY <1>1
<1>3. PICK a : a = SubSeq(u, 1, k)
  OBVIOUS
<1>4. Sequence(a) /\ Len(a) = k /\ \A j \in 1 .. k : a[j] = u[j]
  BY <1>1, <1>2, <1>3, Shortened
<1>5. PICK b : b = Append(s, v)
  OBVIOUS
<1>6. Sequence(b) /\ Len(b) = k /\ b[k] = v /\ \A j \in 1 .. Len(s) : b[j] = s[j]
  BY <1>2, <1>5, Appended
<1>7. \A j \in 1 .. Len(a) : a[j] = b[j]
  BY <1>1, <1>2, <1>4, <1>6
<1>8. a = b
  BY <1>4, <1>6, <1>7, SameSequence
<1> QED
  BY <1>2, <1>3, <1>5, <1>8

LEMMA StackPlaced ==
  ASSUME NEW t, NEW h, NEW b
  PROVE  ProxyPlaced(Machine(t, h), b) = Machine(SubSeq(LuaReplace(t, b), 1, b + 1), h)
<1>1. PICK err : err = FALSE
  OBVIOUS
<1>2. PICK u : u = SubSeq(LuaReplace(t, b), 1, b + 1)
  OBVIOUS
<1>3. Machine(t, h) = [s |-> t, h |-> h, err |-> err] /\ Machine(u, h) = [s |-> u, h |-> h, err |-> err]
  BY <1>1, Zenon DEF Machine
<1>4. ProxyPlaced([s |-> t, h |-> h, err |-> err], b) = [[s |-> t, h |-> h, err |-> err] EXCEPT !.s = u]
  BY <1>2 DEF ProxyPlaced
<1> QED
  BY <1>2, <1>3, <1>4, StackReplaced, Zenon

(* What a proxy does with the value it found, for a table it pushed... *)
LEMMA PlacedThenPopped ==
  ASSUME NEW s, Sequence(s), NEW h, NEW v,
         NEW o, Sequence(o), Len(o) = Len(s) + 1, \A j \in 1 .. Len(s) : o[j] = s[j],
         NEW t, Above(t, o, 1), NEW b, b = Len(o)
  PROVE  PopV(ProxyPlaced(Machine(Append(t, v), h), b), 1) = Machine(Append(s, v), h)
<1>1. Len(s) \in Nat
  BY SequenceFacts
<1>2. Sequence(t) /\ Len(t) = Len(o) + 1 /\ \A j \in 1 .. Len(o) : t[j] = o[j]
  BY DEF Above
<1>3. PICK u : u = LuaReplace(Append(t, v), b)
  OBVIOUS
<1>4. /\ Sequence(u) /\ Len(u) = Len(t) /\ u[b] = v
      /\ \A j \in 1 .. Len(t) : j # b => u[j] = t[j]
  <2>1. b \in 1 .. Len(t)
    BY <1>1, <1>2
  <2> QED
    BY <1>2, <1>3, <2>1, Replaced
<1>5. PICK k \in Nat : k = b + 1
  BY <1>1
<1>6. PICK w : w = SubSeq(u, 1, k)
  OBVIOUS
<1>7. Sequence(w) /\ Len(w) = k /\ \A j \in 1 .. k : w[j] = u[j]
  BY <1>1, <1>2, <1>4, <1>5, <1>6, Shortened
<1>8. ProxyPlaced(Machine(Append(t, v), h), b) = Machine(w, h)
  BY <1>3, <1>5, <1>6, StackPlaced
<1>9. PopV(Machine(w, h), 1) = Machine(Pop(w, 1), h)
  BY MachinePop
<1>10. Pop(w, 1) = SubSeq(w, 1, Len(s) + 1)
  BY <1>1, <1>5, <1>7 DEF Pop
<1>11. \A j \in 1 .. Len(s) : w[j] = s[j]
  BY <1>1, <1>2, <1>4, <1>5, <1>7
<1>12. w[Len(s) + 1] = v /\ Len(w) > Len(s)
  BY <1>1, <1>4, <1>5, <1>7
<1>13. Pop(w, 1) = Append(s, v)
  BY <1>7, <1>10, <1>11, <1>12, Settled
<1> QED
  BY <1>8, <1>9, <1>13

(* ... and for the global table, which it did not push. *)
LEMMA PlacedGlobally ==
  ASSUME NEW s, Sequence(s), NEW h, NEW v, NEW t, Above(t, s, 1)
  PROVE  SubSeq(LuaReplace(Append(t, v), Len(s) + 1), 1, Len(s) + 1) = Append(s, v)
<1>1. Len(s) \in Nat
  BY SequenceFacts
<1>2. Sequence(t) /\ Len(t) = Len(s) + 1 /\ \A j \in 1 .. Len(s) : t[j] = s[j]
  BY DEF Above
<1>3. PICK u : u = LuaReplace(Append(t, v), Len(s) + 1)
  OBVIOUS
<1>4. /\ Sequence(u) /\ Len(u) = Len(t) /\ u[Len(s) + 1] = v
      /\ \A j \in 1 .. Len(t) : j # Len(s) + 1 => u[j] = t[j]
  <2>1. Len(s) + 1 \in 1 .. Len(t)
    BY <1>1, <1>2
  <2> QED
    BY <1>2, <1>3, <2>1, Replaced
<1>5. \A j \in 1 .. Len(s) : u[j] = s[j]
  BY <1>1, <1>2, <1>4
<1> QED
  BY <1>1, <1>2, <1>3, <1>4, <1>5, Settled

LEMMA ProxyReads ==
  ASSUME Straight, NEW s, Sequence(s), NEW h, NEW start \in Starts(s), NEW path \in Paths,
         NEW m, m = Machine(s, h), NEW x, x = TableOf(m, start), ProxyPushes(start, path),
         NEW v, v = Lookup(h, x, path)
  PROVE  ProxyPush(m, start, path) = PushV(m, v) \/ (v = Nil /\ ProxyPush(m, start, path).err)
<1>1. Len(path) \in Nat /\ 1 \in 1 .. Len(path) /\ \A n \in 1 .. Len(path) : path[n] \in Keys
  BY PathFacts
<1>2. /\ start.kind # "stack"
      /\ start.kind = "global" => path[1] \in DirectKeys
  BY <1>1 DEF ProxyPushes, Keys, Straight
<1>3. /\ start.kind \in {"ref", "global"} /\ start.at = x /\ x \in Tables
      /\ start.kind = "global" => x = Globals
  <2>1. Globals \in Tables /\ Rooted \subseteq Tables
    BY TableAssumption
  <2> QED
    BY <1>2, <2>1 DEF Starts, TableOf
<1>4. PICK no, yes \in BOOLEAN : no = FALSE /\ yes = TRUE
  OBVIOUS
<1>5. CASE start.kind = "ref"
  <2>1. PICK o : o = Append(s, x)
    OBVIOUS
  <2>2. Sequence(o) /\ Len(o) = Len(s) + 1 /\ o[Len(o)] = x /\ Len(s) \in Nat
    BY <2>1, Appended, SequenceFacts
  <2>2c. \A j \in 1 .. Len(s) : o[j] = s[j]
    BY <2>1, Appended
  <2>2b. Sequence(o)
    BY <2>2
  <2>2a. PICK b : b = Len(o)
    OBVIOUS
  <2>3. Points(o, path[1], b, no, x)
    BY <1>4, <2>2, <2>2a DEF Points
  <2>13. PICK f : f = GetPath(Machine(o, h), path, b, no)
    OBVIOUS
  <2>14. PushV(m, start.at) = Machine(o, h)
    BY <1>3, <2>1, MachinePush
  <2>15. ProxyPush(m, start, path) = IF f.err THEN f ELSE PopV(ProxyPlaced(f, b), 1)
    <3>1. Machine(o, h).s = o
      BY DEF Machine
    <3> QED
      BY <1>4, <1>5, <2>2a, <2>13, <2>14, <3>1, Zenon DEF ProxyPush
  <2>16. ReadOrNot(f, o, h, v)
    BY <1>2, <1>3, <2>2b, <2>3, <2>13, GetPathReads
  <2>17. ASSUME v = Nil, Wrecked(f) PROVE ProxyPush(m, start, path).err
    BY <2>15, <2>17, RaisedStays
  <2> SUFFICES ASSUME ReadAbove(f, o, h, v) PROVE ProxyPush(m, start, path) = PushV(m, v)
    BY <2>16, <2>17 DEF ReadOrNot
  <2>4. PICK t : f = Machine(Append(t, v), h) /\ Above(t, o, 1)
    BY DEF ReadAbove
  <2>5. PICK g : g = Machine(Append(t, v), h)
    OBVIOUS
  <2>6. g.err = FALSE
    BY <2>5 DEF Machine
  <2>9. ProxyPush(m, start, path) = IF g.err THEN g ELSE PopV(ProxyPlaced(g, b), 1)
    BY <2>4, <2>5, <2>15, Zenon
  <2>10. PopV(ProxyPlaced(g, b), 1) = Machine(Append(s, v), h)
    <3>1. Above(t, o, 1)
      BY <2>4
    <3>2. PopV(ProxyPlaced(Machine(Append(t, v), h), b), 1) = Machine(Append(s, v), h)
      BY <2>2, <2>2a, <2>2b, <2>2c, <3>1, PlacedThenPopped
    <3> QED
      BY <2>5, <3>2
  <2> QED
    BY <2>6, <2>9, <2>10, MachinePush, Zenon
<1>6. CASE start.kind = "global"
  <2>1. Points(s, path[1], -1, yes, x)
    BY <1>2, <1>3, <1>4, <1>6 DEF Points
  <2>13. PICK f : f = GetPath(m, path, -1, yes)
    OBVIOUS
  <2>14. ReadOrNot(f, s, h, v)
    BY <1>2, <1>3, <2>1, <2>13, GetPathReads
  <2>15. ASSUME v = Nil, Wrecked(f) PROVE ProxyPush(m, start, path).err
    <3>1. f.err
      BY <2>15, RaisedStays
    <3>2. f = GetPath(m, path, -1, TRUE)
      BY <1>4, <2>13, Zenon
    <3>3. PICK r : r = [f EXCEPT !.s = SubSeq(LuaReplace(@, Len(m.s) + 1), 1, Len(m.s) + 1)]
      OBVIOUS
    <3>4. ProxyPush(m, start, path) = IF f.err THEN f ELSE r
      BY <1>6, <3>2, <3>3 DEF ProxyPush
    <3> QED
      BY <3>1, <3>4
  <2> SUFFICES ASSUME ReadAbove(f, s, h, v) PROVE ProxyPush(m, start, path) = PushV(m, v)
    BY <2>14, <2>15 DEF ReadOrNot
  <2>2. PICK t : /\ GetPath(m, path, -1, yes) = Machine(Append(t, v), h)
                 /\ Above(t, s, 1)
    BY <2>13 DEF ReadAbove
  <2>3. PICK g : g = Machine(Append(t, v), h)
    OBVIOUS
  <2>4. g.err = FALSE /\ m.s = s
    BY <2>3 DEF Machine
  <2>5. PICK r : r = [g EXCEPT !.s = SubSeq(LuaReplace(@, Len(m.s) + 1), 1, Len(m.s) + 1)]
    OBVIOUS
  <2>6. ProxyPush(m, start, path) = IF g.err THEN g ELSE r
    BY <1>4, <1>6, <2>2, <2>3, <2>5 DEF ProxyPush
  <2>7. PICK err : err = FALSE
    OBVIOUS
  <2>8. PICK u, w : u = Append(t, v) /\ w = SubSeq(LuaReplace(Append(t, v), Len(s) + 1), 1, Len(s) + 1)
    OBVIOUS
  <2>9. g = [s |-> u, h |-> h, err |-> err] /\ Machine(w, h) = [s |-> w, h |-> h, err |-> err]
    BY <2>3, <2>7, <2>8, Zenon DEF Machine
  <2>10. r = [[s |-> u, h |-> h, err |-> err] EXCEPT !.s = w]
    BY <2>4, <2>5, <2>8, <2>9
  <2>11. r = Machine(w, h)
    BY <2>9, <2>10, StackReplaced
  <2>12. w = Append(s, v)
    BY <2>2, <2>8, PlacedGlobally
  <2> QED
    BY <2>4, <2>6, <2>11, <2>12, MachinePush, Zenon
<1> QED
  BY <1>3, <1>5, <1>6

--------------------------------------------------------------------------------
(* One probe *)

LEMMA Probed ==
  ASSUME NEW t, NEW h, NEW o, NEW n, Above(t, o, n), NEW k, NEW i, NEW direct \in BOOLEAN,
         direct => k \in DirectKeys, NEW x, Points(t, k, i, direct, x), NEW want,
         NEW p, p = Probe(Machine(t, h), k, i, direct, want)
  PROVE  /\ x \in Tables => /\ p.levels = 1 /\ (p.ok <=> IsA(h[x][k], want))
                            /\ Arrived(p.m, Len(p.m.s), h, o, n + 1, h[x][k])
         /\ x \notin Tables => p.levels = 0 /\ ~p.ok /\ p.m = Machine(t, h)
<1>1. Sequence(t)
  BY DEF Above
<1>2. PICK g : g = GetField(Machine(t, h), k, i, direct)
  OBVIOUS
<1>3. PICK m : m = Machine(t, h)
  OBVIOUS
<1>4. CASE direct
  <2>1. x = Globals /\ x \in Tables
    BY <1>4, TableAssumption DEF Points
  <2>2. Arrived(g, Len(g.s), h, o, n + 1, h[x][k])
    BY <1>2, <2>1, ArriveFrom
  <2>3. Top(g) = h[x][k]
    BY <2>2, ArrivedTop
  <2>4. p.m = g /\ p.levels = 1 /\ (p.ok <=> IsA(Top(g), want))
    BY <1>2, <1>4 DEF Probe
  <2> QED
    BY <2>1, <2>2, <2>3, <2>4
<1>5. CASE ~direct
  <2>1. At(m, i) = x
    BY <1>1, <1>3, <1>5, MachineAt, MachineTop DEF Points
  <2>2. CASE x \in Tables
    <3>1. Indexable(m, i)
      BY <2>1, <2>2 DEF Indexable
    <3>2. Arrived(g, Len(g.s), h, o, n + 1, h[x][k])
      BY <1>2, <2>2, ArriveFrom
    <3>3. Top(g) = h[x][k]
      BY <3>2, ArrivedTop
    <3>4. p.m = g /\ p.levels = 1 /\ (p.ok <=> IsA(Top(g), want))
      BY <1>2, <1>3, <1>5, <3>1 DEF Probe
    <3> QED
      BY <2>2, <3>2, <3>3, <3>4
  <2>3. CASE x \notin Tables
    <3>1. ~Indexable(m, i)
      BY <2>1, <2>3 DEF Indexable
    <3>2. p.m = m /\ p.levels = 0 /\ ~p.ok
      BY <1>3, <1>5, <3>1 DEF Probe
    <3> QED
      BY <1>3, <2>3, <3>2
  <2> QED
    BY <2>2, <2>3
<1> QED
  BY <1>4, <1>5

LEMMA NilIsNo ==
  ASSUME NEW want, want \in {"table", "number", "some"}
  PROVE  ~IsA(Nil, want)
  BY NilIsNothing DEF IsA

--------------------------------------------------------------------------------
(* traverse_get of an optional *)

OptionalGetting(m, start, path, global, want, create) ==
  LET first == [m |-> Opened(m, start, global), i |-> IndexOf(m, start, global),
                pops |-> 0, ok |-> TRUE]
      at[n \in 0 .. Len(path)] ==
        IF n = 0 THEN first ELSE OptionalStep(at[n - 1], path, n, global, want, create)
  IN at

OptionalSteps(G, m, start, path, global, want, create) ==
  /\ G[0] = [m |-> Opened(m, start, global), i |-> IndexOf(m, start, global), pops |-> 0, ok |-> TRUE]
  /\ \A n \in 1 .. Len(path) : G[n] = OptionalStep(G[n - 1], path, n, global, want, create)

LEMMA OptionalGettingGoes ==
  ASSUME NEW m, NEW start, NEW path, NEW global, NEW want, NEW create, Len(path) \in Nat,
         NEW G, G = OptionalGetting(m, start, path, global, want, create)
  PROVE  OptionalSteps(G, m, start, path, global, want, create)
<1> DEFINE first == [m |-> Opened(m, start, global), i |-> IndexOf(m, start, global),
                          pops |-> 0, ok |-> TRUE]
           Go(n, was) == OptionalStep(was, path, n, global, want, create)
           Is(f, k) == f = [n \in 0 .. k |-> IF n = 0 THEN first ELSE Go(n, f[n - 1])]
           P == {k \in Nat : \E f : Is(f, k)}
<1>1. 0 \in P
  <2> HIDE DEF first, Go
  <2>1. Is([n \in 0 .. 0 |-> first], 0)
    OBVIOUS
  <2> QED
    BY <2>1
<1>2. ASSUME NEW k \in 1 .. Len(path), k - 1 \in P PROVE k \in P
  <2> HIDE DEF first, Go
  <2>1. PICK g : Is(g, k - 1)
    BY <1>2
  <2> DEFINE more == [n \in 0 .. k |-> IF n = k THEN Go(k, g[k - 1]) ELSE g[n]]
  <2>2. \A n \in 0 .. k - 1 : g[n] = IF n = 0 THEN first ELSE Go(n, g[n - 1])
    BY <2>1
  <2>3. \A n \in 0 .. k : more[n] = IF n = 0 THEN first ELSE Go(n, more[n - 1])
    BY <2>2
  <2>4. Is(more, k)
    BY <2>3
  <2> HIDE DEF more
  <2> QED
    BY <2>4
<1>3. Len(path) \in P
  <2> HIDE DEF P
  <2>1. \A k \in 0 .. Len(path) : k \in P
    BY <1>1, <1>2, Steps
  <2> QED
    BY <2>1
<1>4. Is(G, Len(path))
  <2> HIDE DEF first, Go
  <2>1. \E f : Is(f, Len(path))
    BY <1>3
  <2>2. G = CHOOSE f : Is(f, Len(path))
    BY DEF OptionalGetting, first, Go
  <2> QED
    BY <2>1, <2>2
<1>5. G[0] = first /\ \A n \in 1 .. Len(path) : G[n] = Go(n, G[n - 1])
  <2> HIDE DEF first, Go
  <2> QED
    BY <1>4
<1> QED
  BY <1>5 DEF OptionalSteps


(* Every level down to n is on the stack, or the first that was missing ended the walk. *)
Missing(m, pops, h, o) == \E t : m = Machine(t, h) /\ Above(t, o, pops)

Probing(a, h, o, n, w, is) ==
  \/ a.ok /\ a.pops = n /\ Arrived(a.m, a.i, h, o, n, w) /\ is
  \/ ~a.ok /\ Missing(a.m, a.pops, h, o) /\ ~is

LEMMA OptionalTries ==
  ASSUME NEW a, NEW path, NEW n, NEW global, NEW want, NEW no \in BOOLEAN, ~no,
         NEW b, b = OptionalStep(a, path, n, global, want, no),
         NEW p, p = Probe(a.m, path[n], a.i, global /\ n = 1, IF n = Len(path) THEN want ELSE "some")
  PROVE  /\ a.ok => /\ b.m = p.m /\ b.i = Len(p.m.s) /\ b.pops = a.pops + p.levels
                    /\ (b.ok <=> p.ok)
         /\ ~a.ok => b = a
  BY DEF OptionalStep, PopCount

LEMMA OptionalGoesOn ==
  ASSUME NEW h, NEW o, NEW path \in Paths, NEW n \in Nat, n > 0,
         NEW a, NEW w, Probing(a, h, o, n, w, w # Nil),
         NEW global \in BOOLEAN, NEW want, want \in {"table", "number", "some"},
         NEW no \in BOOLEAN, ~no, NEW b, b = OptionalStep(a, path, n + 1, global, want, no),
         NEW v, v = Follow(h, path, n + 1, w)
  PROVE  Probing(b, h, o, n + 1, v, IsA(v, IF n + 1 = Len(path) THEN want ELSE "some"))
<1>1. PICK wanted : wanted = IF n + 1 = Len(path) THEN want ELSE "some"
  OBVIOUS
<1>2. wanted \in {"table", "number", "some"}
  BY <1>1
<1>3. PICK k : k = path[n + 1]
  OBVIOUS
<1>4. PICK p : p = Probe(a.m, k, a.i, no, wanted)
  OBVIOUS
<1>5. /\ a.ok => /\ b.m = p.m /\ b.i = Len(p.m.s) /\ b.pops = a.pops + p.levels
                 /\ (b.ok <=> p.ok)
      /\ ~a.ok => b = a
  <2>1. p = Probe(a.m, path[n + 1], a.i, global /\ n + 1 = 1,
                  IF n + 1 = Len(path) THEN want ELSE "some")
    BY <1>1, <1>3, <1>4
  <2> QED
    BY <2>1, OptionalTries
<1>6. CASE a.ok /\ w \in Tables
  <2>1. a.pops = n /\ Arrived(a.m, a.i, h, o, n, w)
    BY <1>6 DEF Probing
  <2>2. PICK t : /\ a.m = Machine(t, h) /\ Above(t, o, n)
                 /\ Len(t) \in Nat /\ Len(t) > 0 /\ a.i = Len(t) /\ t[Len(t)] = w
    BY <2>1 DEF Arrived
  <2>3. Points(t, k, a.i, no, w)
    BY <2>2 DEF Points
  <2>4. /\ p.levels = 1 /\ (p.ok <=> IsA(h[w][k], wanted))
        /\ Arrived(p.m, Len(p.m.s), h, o, n + 1, h[w][k])
    BY <1>4, <1>6, <2>2, <2>3, Probed
  <2>5. v = h[w][k]
    BY <1>3, <1>6 DEF Follow
  <2>6. /\ b.m = p.m /\ b.i = Len(p.m.s) /\ b.pops = n + 1 /\ (b.ok <=> IsA(v, wanted))
        /\ Arrived(b.m, b.i, h, o, n + 1, v)
    BY <1>5, <1>6, <2>1, <2>4, <2>5
  <2>7. Missing(b.m, b.pops, h, o)
    BY <2>6 DEF Missing, Arrived
  <2> QED
    BY <1>1, <2>6, <2>7 DEF Probing
<1>7. CASE a.ok /\ w \notin Tables
  <2>1. a.pops = n /\ Arrived(a.m, a.i, h, o, n, w)
    BY <1>7 DEF Probing
  <2>2. PICK t : /\ a.m = Machine(t, h) /\ Above(t, o, n)
                 /\ Len(t) \in Nat /\ Len(t) > 0 /\ a.i = Len(t) /\ t[Len(t)] = w
    BY <2>1 DEF Arrived
  <2>3. Points(t, k, a.i, no, w)
    BY <2>2 DEF Points
  <2>4. p.levels = 0 /\ ~p.ok /\ p.m = Machine(t, h)
    BY <1>4, <1>7, <2>2, <2>3, Probed
  <2>5. v = Nil
    BY <1>7 DEF Follow
  <2>6. ~b.ok /\ b.m = Machine(t, h) /\ b.pops = n
    BY <1>5, <1>7, <2>1, <2>4
  <2>7. Missing(b.m, b.pops, h, o)
    BY <2>2, <2>6 DEF Missing
  <2>8. ~IsA(v, wanted)
    BY <1>2, <2>5, NilIsNo
  <2> QED
    BY <1>1, <2>6, <2>7, <2>8 DEF Probing
<1>8. CASE ~a.ok
  <2>1. Missing(a.m, a.pops, h, o) /\ w = Nil
    BY <1>8 DEF Probing
  <2>2. b = a
    BY <1>5, <1>8
  <2>3. v = Nil
    BY <2>1, NilIsNothing DEF Follow
  <2>4. ~IsA(v, wanted)
    BY <1>2, <2>3, NilIsNo
  <2> QED
    BY <1>1, <1>8, <2>1, <2>2, <2>4 DEF Probing
<1> QED
  BY <1>6, <1>7, <1>8

LEMMA SomeIsThere ==
  ASSUME NEW v
  PROVE  IsA(v, "some") <=> v # Nil
  BY DEF IsA

LEMMA ProbingEnds ==
  ASSUME NEW a, NEW h, NEW o, NEW n, NEW w, NEW is \in BOOLEAN, Probing(a, h, o, n, w, is)
  PROVE  /\ a.m.err = FALSE /\ PopV(a.m, a.pops) = Machine(o, h)
         /\ (a.ok <=> is) /\ (is => Top(a.m) = w)
<1>1. CASE a.ok
  <2>1. a.pops = n /\ Arrived(a.m, a.i, h, o, n, w) /\ is
    BY <1>1 DEF Probing
  <2> QED
    BY <1>1, <2>1, ArrivedTop
<1>2. CASE ~a.ok
  <2>1. Missing(a.m, a.pops, h, o) /\ ~is
    BY <1>2 DEF Probing
  <2>2. PICK t : a.m = Machine(t, h) /\ Above(t, o, a.pops)
    BY <2>1 DEF Missing
  <2>3. a.m.err = FALSE
    BY <2>2 DEF Machine
  <2>5. PICK k : k = a.pops
    OBVIOUS
  <2>6. Pop(t, k) = o
    BY <2>2, <2>5, PopAbove
  <2>4. PopV(a.m, a.pops) = Machine(o, h)
    BY <2>2, <2>5, <2>6, MachinePop
  <2> QED
    BY <1>2, <2>1, <2>3, <2>4
<1> QED
  BY <1>1, <1>2

(* traverse_get of an optional: the value when it is of the type, or nothing; *)
(* no error.                                                                  *)
LEMMA OptionalReads ==
  ASSUME NEW s, Sequence(s), NEW h, NEW start \in Starts(s), NEW path \in Paths,
         NEW m, m = Machine(s, h), NEW v, v = Lookup(h, TableOf(m, start), path),
         NEW want, want \in {"table", "number", "some"}, NEW no \in BOOLEAN, ~no,
         NEW get, get = TraverseGetOptional(m, start, path, want, no)
  PROVE  get = [m |-> m, got |-> IF IsA(v, want) THEN v ELSE Nil]
<1>1. Len(path) \in Nat /\ 1 \in 1 .. Len(path)
  BY PathFacts
<1>3. PICK global \in BOOLEAN : global = (~no /\ Tableless(start, path))
  OBVIOUS
<1>3a. global => Tableless(start, path) /\ path[1] \in DirectKeys
  BY <1>3, Zenon DEF Tableless
<1>4. PICK G : G = OptionalGetting(m, start, path, global, want, no)
  OBVIOUS
<1>5. PICK i, x : i = IndexOf(m, start, global) /\ x = TableOf(m, start)
  OBVIOUS
<1>6. PICK W : W = Followed(h, x, path)
  OBVIOUS
<1>7. /\ v = W[Len(path)] /\ W[0] = x
      /\ \A n \in 1 .. Len(path) : W[n] = Follow(h, path, n, W[n - 1])
  BY <1>1, <1>5, <1>6, LookupFollows
<1>8. PICK o : /\ x \in Tables /\ Sequence(o) /\ Opened(m, start, global) = Machine(o, h)
               /\ Closed(Machine(o, h), start, global) = m
               /\ Points(o, path[1], i, global, x)
  BY <1>3a, <1>5, Beginning
<1>9. PICK deep : deep = G[Len(path)]
  OBVIOUS
<1>10. get = IF deep.m.err THEN [m |-> Raised(m), got |-> Nil]
             ELSE [m |-> Closed(PopV(deep.m, deep.pops), start, global),
                   got |-> IF deep.ok THEN Top(deep.m) ELSE Nil]
  BY <1>3, <1>4, <1>9 DEF TraverseGetOptional, OptionalGetting
<1>11. /\ G[0] = [m |-> Opened(m, start, global), i |-> IndexOf(m, start, global),
                  pops |-> 0, ok |-> TRUE]
       /\ \A n \in 1 .. Len(path) : G[n] = OptionalStep(G[n - 1], path, n, global, want, no)
  <2>1. Len(path) \in Nat
    BY <1>1
  <2>2. OptionalSteps(G, m, start, path, global, want, no)
    BY <1>4, <2>1, OptionalGettingGoes, Zenon
  <2> QED
    BY <2>2, Zenon DEF OptionalSteps
<1> DEFINE There(n) == IsA(W[n], IF n = Len(path) THEN want ELSE "some")
           Here(n) == Probing(G[n], h, o, n, W[n], There(n))
           P == {n \in Nat : n >= 1 => Here(n)}
<1>12. ASSUME NEW n \in 1 .. Len(path), n - 1 \in P PROVE n \in P
  <2>1. CASE n = 1
    <3>1. PICK wanted : wanted = IF 1 = Len(path) THEN want ELSE "some"
      OBVIOUS
    <3>2. PICK p : p = Probe(Machine(o, h), path[1], i, global, wanted)
      OBVIOUS
    <3>3. G[0].m = Machine(o, h) /\ G[0].i = i /\ G[0].pops = 0
      BY <1>5, <1>8, <1>11
    <3>4. G[0].ok
      BY <1>11
    <3>5. PICK a, b : a = G[0] /\ b = G[1]
      OBVIOUS
    <3>6. b = OptionalStep(a, path, 1, global, want, no)
      <4>1. G[1] = OptionalStep(G[1 - 1], path, 1, global, want, no)
        BY <1>1, <1>11
      <4> QED
        BY <3>5, <4>1
    <3>8. b.m = p.m /\ b.i = Len(p.m.s) /\ b.pops = 0 + p.levels /\ (b.ok <=> p.ok)
      <4>1. PICK one \in Nat : one = 1
        OBVIOUS
      <4>2. p = Probe(a.m, path[one], a.i, global /\ one = 1, IF one = Len(path) THEN want ELSE "some")
        BY <3>1, <3>2, <3>3, <3>5, <4>1
      <4>3. b = OptionalStep(a, path, one, global, want, no)
        BY <3>6, <4>1
      <4>4. a.ok /\ a.pops = 0
        BY <3>3, <3>4, <3>5
      <4> QED
        BY <4>2, <4>3, <4>4, OptionalTries
    <3>9. Above(o, o, 0)
      BY <1>8, AboveItself
    <3>10. /\ p.levels = 1 /\ (p.ok <=> IsA(h[x][path[1]], wanted))
           /\ Arrived(p.m, Len(p.m.s), h, o, 0 + 1, h[x][path[1]])
      BY <1>3a, <1>8, <3>2, <3>9, Probed
    <3>11. W[1] = h[x][path[1]]
      BY <1>1, <1>7, <1>8 DEF Follow
    <3>12. b.pops = 1 /\ Arrived(b.m, b.i, h, o, 1, W[1]) /\ (b.ok <=> IsA(W[1], wanted))
      BY <3>8, <3>10, <3>11
    <3>13. Missing(b.m, b.pops, h, o)
      BY <3>12 DEF Missing, Arrived
    <3>14. Probing(b, h, o, 1, W[1], IsA(W[1], wanted))
      BY <3>12, <3>13 DEF Probing
    <3> QED
      BY <2>1, <3>1, <3>5, <3>14
  <2>2. CASE n # 1
    <3>1. Here(n - 1) /\ n - 1 \in Nat /\ n - 1 > 0 /\ n - 1 # Len(path)
      BY <1>1, <1>12, <2>2
    <3>2. PICK k \in Nat : k = n - 1
      BY <3>1
    <3>3. Probing(G[k], h, o, k, W[k], W[k] # Nil)
      <4>1. Probing(G[k], h, o, k, W[k], IsA(W[k], "some"))
        BY <3>1, <3>2
      <4> QED
        BY <4>1, SomeIsThere DEF Probing
    <3>4. G[n] = OptionalStep(G[k], path, k + 1, global, want, no)
      BY <1>11, <3>2
    <3>5. W[n] = Follow(h, path, k + 1, W[k])
      BY <1>7, <3>2
    <3>6. Probing(G[n], h, o, k + 1, W[n], IsA(W[n], IF k + 1 = Len(path) THEN want ELSE "some"))
      <4>1. PICK a, w, b, u : a = G[k] /\ w = W[k] /\ b = G[n] /\ u = W[n]
        OBVIOUS
      <4>2. /\ k > 0 /\ Probing(a, h, o, k, w, w # Nil) /\ u = Follow(h, path, k + 1, w)
            /\ b = OptionalStep(a, path, k + 1, global, want, no)
        BY <3>1, <3>2, <3>3, <3>4, <3>5, <4>1
      <4>3. Probing(b, h, o, k + 1, u, IsA(u, IF k + 1 = Len(path) THEN want ELSE "some"))
        BY <4>2, OptionalGoesOn, Zenon
      <4> QED
        BY <4>1, <4>3, Zenon
    <3> QED
      BY <3>2, <3>6
  <2> QED
    BY <2>1, <2>2
<1>13. Here(Len(path))
  <2>1. 0 \in P
    OBVIOUS
  <2> HIDE DEF P, Here
  <2>2. \A n \in 0 .. Len(path) : n \in P
    BY <1>1, <1>12, <2>1, Steps
  <2>3. Len(path) \in P
    BY <1>1, <2>2
  <2> QED
    BY <1>1, <2>3 DEF P
<1>14. PICK is \in BOOLEAN : is <=> IsA(v, want)
  OBVIOUS
<1>15. Probing(deep, h, o, Len(path), v, is)
  BY <1>7, <1>9, <1>13, <1>14 DEF Probing
<1>16. /\ deep.m.err = FALSE /\ PopV(deep.m, deep.pops) = Machine(o, h)
       /\ (deep.ok <=> is) /\ (is => Top(deep.m) = v)
  BY <1>15, ProbingEnds
<1> HIDE DEF There, Here, P
<1>17. get = [m |-> m, got |-> IF deep.ok THEN Top(deep.m) ELSE Nil]
  BY <1>8, <1>10, <1>16
<1> QED
  BY <1>14, <1>16, <1>17

--------------------------------------------------------------------------------
(* table_proxy::valid and get_type *)

ProbeWalk(m, path, i, global) ==
  LET first == [m |-> m, ok |-> global \/ Indexable(m, i), levels |-> 0]
      at[n \in 0 .. Len(path)] ==
        IF n = 0 THEN first ELSE ProbeStep(at[n - 1], path, n, i, global)
  IN at

LEMMA ProbeWalkGoes ==
  ASSUME NEW m, NEW path, NEW i, NEW global, Len(path) \in Nat,
         NEW G, G = ProbeWalk(m, path, i, global)
  PROVE  /\ G[0] = [m |-> m, ok |-> global \/ Indexable(m, i), levels |-> 0]
         /\ \A n \in 1 .. Len(path) : G[n] = ProbeStep(G[n - 1], path, n, i, global)
<1> DEFINE first == [m |-> m, ok |-> global \/ Indexable(m, i), levels |-> 0]
           Go(n, was) == ProbeStep(was, path, n, i, global)
           Is(f, k) == f = [n \in 0 .. k |-> IF n = 0 THEN first ELSE Go(n, f[n - 1])]
           P == {k \in Nat : \E f : Is(f, k)}
<1>1. 0 \in P
  <2> HIDE DEF first, Go
  <2>1. Is([n \in 0 .. 0 |-> first], 0)
    OBVIOUS
  <2> QED
    BY <2>1
<1>2. ASSUME NEW k \in 1 .. Len(path), k - 1 \in P PROVE k \in P
  <2> HIDE DEF first, Go
  <2>1. PICK g : Is(g, k - 1)
    BY <1>2
  <2> DEFINE more == [n \in 0 .. k |-> IF n = k THEN Go(k, g[k - 1]) ELSE g[n]]
  <2>2. \A n \in 0 .. k - 1 : g[n] = IF n = 0 THEN first ELSE Go(n, g[n - 1])
    BY <2>1
  <2>3. \A n \in 0 .. k : more[n] = IF n = 0 THEN first ELSE Go(n, more[n - 1])
    BY <2>2
  <2>4. Is(more, k)
    BY <2>3
  <2> HIDE DEF more
  <2> QED
    BY <2>4
<1>3. Len(path) \in P
  <2> HIDE DEF P
  <2>1. \A k \in 0 .. Len(path) : k \in P
    BY <1>1, <1>2, Steps
  <2> QED
    BY <2>1
<1>4. Is(G, Len(path))
  <2> HIDE DEF first, Go
  <2>1. \E f : Is(f, Len(path))
    BY <1>3
  <2>2. G = CHOOSE f : Is(f, Len(path))
    BY DEF ProbeWalk, first, Go
  <2> QED
    BY <2>1, <2>2
<1>5. G[0] = first /\ \A n \in 1 .. Len(path) : G[n] = Go(n, G[n - 1])
  <2> HIDE DEF first, Go
  <2> QED
    BY <1>4
<1> QED
  BY <1>5


LEMMA ProbeTries ==
  ASSUME NEW p, NEW path, NEW n, NEW i, NEW global,
         NEW b, b = ProbeStep(p, path, n, i, global),
         NEW g, g = GetField(p.m, path[n], IF n = 1 THEN i ELSE -1, global /\ n = 1)
  PROVE  /\ p.ok => /\ b.m = g /\ b.levels = n
                    /\ (b.ok <=> IF n < Len(path) THEN Indexable(g, -1) ELSE IsA(Top(g), "some"))
         /\ ~p.ok => b = p
  BY DEF ProbeStep

Reaching(p, h, o, n, w, is) ==
  \/ p.ok /\ p.levels = n /\ Arrived(p.m, Len(p.m.s), h, o, n, w) /\ is
  \/ ~p.ok /\ Missing(p.m, p.levels, h, o) /\ ~is

LEMMA ReachedOrNot ==
  ASSUME NEW p, NEW h, NEW o, NEW n, NEW w, NEW is \in BOOLEAN,
         Arrived(p.m, Len(p.m.s), h, o, n, w), p.levels = n, p.ok <=> is
  PROVE  Reaching(p, h, o, n, w, is)
<1>1. Missing(p.m, p.levels, h, o)
  BY DEF Missing, Arrived
<1> QED
  BY <1>1 DEF Reaching

LEMMA ReachingEnds ==
  ASSUME NEW p, NEW h, NEW o, NEW n, NEW w, NEW is \in BOOLEAN, Reaching(p, h, o, n, w, is)
  PROVE  /\ PopV(p.m, p.levels) = Machine(o, h)
         /\ (p.ok <=> is) /\ (is => Top(p.m) = w)
<1>1. CASE p.ok
  <2>1. p.levels = n /\ Arrived(p.m, Len(p.m.s), h, o, n, w) /\ is
    BY <1>1 DEF Reaching
  <2>2. PICK m, j : m = p.m /\ j = Len(p.m.s)
    OBVIOUS
  <2>4. Arrived(m, j, h, o, n, w)
    BY <2>1, <2>2
  <2>5. PopV(m, n) = Machine(o, h) /\ Top(m) = w
    BY <2>4, ArrivedTop
  <2>3. PopV(p.m, n) = Machine(o, h) /\ Top(p.m) = w
    BY <2>2, <2>5
  <2> QED
    BY <1>1, <2>1, <2>3
<1>2. CASE ~p.ok
  <2>1. Missing(p.m, p.levels, h, o) /\ ~is
    BY <1>2 DEF Reaching
  <2>2. PICK t : p.m = Machine(t, h) /\ Above(t, o, p.levels)
    BY <2>1 DEF Missing
  <2>5. PICK k : k = p.levels
    OBVIOUS
  <2>6. Pop(t, k) = o
    BY <2>2, <2>5, PopAbove
  <2>4. PopV(p.m, p.levels) = Machine(o, h)
    BY <2>2, <2>5, <2>6, MachinePop
  <2> QED
    BY <1>2, <2>1, <2>4
<1> QED
  BY <1>1, <1>2

DirectBelow(path) == \A n \in 2 .. Len(path) : path[n] \in DirectKeys

LEMMA ProxyProbeReads ==
  ASSUME Straight, NEW s, Sequence(s), NEW h, NEW start \in Starts(s), NEW path \in Paths,
         NEW m, m = Machine(s, h), NEW x, x = TableOf(m, start), ProxyProbes(start, path),
         NEW v, v = Lookup(h, x, path)
  PROVE  ProxyProbe(m, start, path) = [m |-> m, got |-> v]
<1>1. Len(path) \in Nat /\ 1 \in 1 .. Len(path) /\ \A n \in 1 .. Len(path) : path[n] \in Keys
  BY PathFacts
<1>2. start.kind # "stack" /\ DirectBelow(path)
  BY <1>1 DEF ProxyProbes, Keys, DirectBelow, Straight
<1>3. PICK no \in BOOLEAN : ~no
  OBVIOUS
<1>3a. no = FALSE /\ ~(no /\ path[1] \in DirectKeys)
  BY <1>3
<1>4. PICK direct \in BOOLEAN : direct = (start.kind = "global")
  OBVIOUS
<1>5. PICK o, i : /\ x \in Tables /\ Sequence(o) /\ Opened(m, start, no) = Machine(o, h)
                  /\ Closed(Machine(o, h), start, no) = m
                  /\ Len(o) \in Nat /\ Len(o) > 0 /\ o[Len(o)] = x /\ i = Len(o)
  <2>1. PICK o : PushedStart(o, s, h, m, start, no, x)
    BY <1>2, <1>3, BeginningPushed
  <2>2. x \in Tables
    BY <1>2, <1>3, BeginningPushed
  <2>3. PICK i : i = Len(o)
    OBVIOUS
  <2> QED
    BY <2>1, <2>2, <2>3 DEF PushedStart
<1>6. start.kind = "global" => x = Globals
  BY DEF Starts, TableOf
<1>7. Points(o, path[1], i, direct, x)
  <2>1. Len(o) \in 1 .. Len(o) /\ o[i] = x /\ i \in 1 .. Len(o)
    BY <1>5
  <2>2. direct => x = Globals
    BY <1>4, <1>6
  <2> QED
    BY <2>1, <2>2 DEF Points
<1>8. PICK G : G = ProbeWalk(Machine(o, h), path, i, direct)
  OBVIOUS
<1>9. PICK W : W = Followed(h, x, path)
  OBVIOUS
<1>10. /\ v = W[Len(path)] /\ W[0] = x
       /\ \A n \in 1 .. Len(path) : W[n] = Follow(h, path, n, W[n - 1])
  BY <1>1, <1>9, LookupFollows
<1>11. /\ G[0] = [m |-> Machine(o, h), ok |-> direct \/ Indexable(Machine(o, h), i), levels |-> 0]
       /\ \A n \in 1 .. Len(path) : G[n] = ProbeStep(G[n - 1], path, n, i, direct)
  BY <1>1, <1>8, ProbeWalkGoes
<1>12. PICK deep : deep = G[Len(path)]
  OBVIOUS
<1>13. ProxyProbe(m, start, path)
         = [m |-> Closed(PopV(deep.m, deep.levels), start, no),
            got |-> IF deep.ok THEN Top(deep.m) ELSE Nil]
  <2>1. Machine(o, h).s = o
    BY DEF Machine
  <2>2. ProbePath(Machine(o, h), path, i, direct) = deep
    BY <1>8, <1>12 DEF ProbePath, ProbeWalk
  <2>3. ProbePath(Opened(m, start, FALSE), path, Len(Opened(m, start, FALSE).s), start.kind = "global")
          = deep
    BY <1>3a, <1>4, <1>5, <2>1, <2>2, Zenon
  <2> QED
    BY <1>3a, <2>3, Zenon DEF ProxyProbe
<1> DEFINE There(n) == IF n < Len(path) THEN W[n] \in Tables ELSE W[n] # Nil
           Here(n) == Reaching(G[n], h, o, n, W[n], There(n))
           P == {n \in Nat : n >= 1 => Here(n)}
<1>14. ASSUME NEW n \in 1 .. Len(path), NEW g, NEW k \in Nat, k + 1 = n,
              Arrived(g, Len(g.s), h, o, n, W[n]), G[k].ok,
              g = GetField(G[k].m, path[n], IF n = 1 THEN i ELSE -1, direct /\ n = 1)
       PROVE  Here(n)
  <2>1. G[n] = ProbeStep(G[k], path, n, i, direct)
    <3>1. G[n] = ProbeStep(G[n - 1], path, n, i, direct) /\ n - 1 = k
      BY <1>11, <1>14
    <3> QED
      BY <3>1
  <2>2. /\ G[n].m = g /\ G[n].levels = n
        /\ (G[n].ok <=> IF n < Len(path) THEN Indexable(g, -1) ELSE IsA(Top(g), "some"))
    <3>1. PICK p, b : p = G[k] /\ b = G[n]
      OBVIOUS
    <3>2. b = ProbeStep(p, path, n, i, direct) /\ p.ok
      BY <1>14, <2>1, <3>1
    <3>3. g = GetField(p.m, path[n], IF n = 1 THEN i ELSE -1, direct /\ n = 1)
      BY <1>14, <3>1
    <3> QED
      BY <3>1, <3>2, <3>3, ProbeTries
  <2>3. Top(g) = W[n] /\ At(g, -1) = W[n]
    <3>1. PICK j : j = Len(g.s)
      OBVIOUS
    <3>2. Arrived(g, j, h, o, n, W[n])
      BY <1>14, <3>1
    <3> QED
      BY <3>2, ArrivedTop
  <2>4. G[n].ok <=> There(n)
    BY <2>2, <2>3 DEF Indexable, IsA
  <2>5. Arrived(G[n].m, Len(G[n].m.s), h, o, n, W[n])
    BY <1>14, <2>2
  <2>6. PICK is \in BOOLEAN : is <=> There(n)
    OBVIOUS
  <2>7. Reaching(G[n], h, o, n, W[n], is)
    BY <2>2, <2>4, <2>5, <2>6, ReachedOrNot
  <2> QED
    BY <2>6, <2>7 DEF Reaching
<1>15. ASSUME NEW n \in 1 .. Len(path), n - 1 \in P PROVE n \in P
  <2>1. CASE n = 1
    <3>1. PICK g : g = GetField(Machine(o, h), path[1], i, direct)
      OBVIOUS
    <3>2. Above(o, o, 0)
      BY <1>5, AboveItself
    <3>3. Arrived(g, Len(g.s), h, o, 0 + 1, h[x][path[1]])
      BY <1>5, <1>7, <3>1, <3>2, ArriveFrom
    <3>4. W[1] = h[x][path[1]]
      BY <1>1, <1>5, <1>10 DEF Follow
    <3>5. G[0].m = Machine(o, h)
      BY <1>11
    <3>6. G[0].ok
      <4>1. Indexable(Machine(o, h), i)
        <5>1. At(Machine(o, h), i) = x
          BY <1>5, MachineAt
        <5> QED
          BY <1>5, <5>1 DEF Indexable
      <4>2. G[0].ok = (direct \/ Indexable(Machine(o, h), i))
        BY <1>11
      <4> QED
        BY <4>1, <4>2
    <3>7. Arrived(g, Len(g.s), h, o, n, W[n])
      BY <2>1, <3>3, <3>4
    <3>8. g = GetField(G[0].m, path[n], IF n = 1 THEN i ELSE -1, direct /\ n = 1)
      BY <2>1, <3>1, <3>5
    <3>9. 0 \in Nat /\ 0 + 1 = n
      BY <2>1
    <3> HIDE DEF Here
    <3>10. Here(n)
      BY <1>14, <3>6, <3>7, <3>8, <3>9
    <3> QED
      BY <3>10
  <2>2. CASE n # 1
    <3>1. PICK k \in Nat : k = n - 1
      BY <1>1
    <3>2. Here(k) /\ k > 0 /\ k < Len(path) /\ k + 1 = n
      BY <1>1, <1>15, <2>2, <3>1
    <3>3. Reaching(G[k], h, o, k, W[k], W[k] \in Tables)
      BY <3>2 DEF Reaching
    <3>4. W[n] = Follow(h, path, n, W[k])
      BY <1>10, <3>1
    <3>5. CASE G[k].ok
      <4>1. Arrived(G[k].m, Len(G[k].m.s), h, o, k, W[k]) /\ W[k] \in Tables
        BY <3>3, <3>5 DEF Reaching
      <4>2. PICK g : g = GetField(G[k].m, path[n], -1, no)
        OBVIOUS
      <4>3. path[n] \in DirectKeys
        BY <1>1, <1>2, <2>2 DEF DirectBelow
      <4>4. Arrived(g, Len(g.s), h, o, k + 1, h[W[k]][path[n]])
        BY <1>3, <4>1, <4>2, <4>3, ArriveNext
      <4>5. Arrived(g, Len(g.s), h, o, n, W[n])
        BY <3>2, <3>4, <4>1, <4>4 DEF Follow
      <4>6. g = GetField(G[k].m, path[n], IF n = 1 THEN i ELSE -1, direct /\ n = 1)
        BY <1>3, <2>2, <4>2
      <4> HIDE DEF Here
      <4>7. Here(n)
        BY <1>14, <3>2, <3>5, <4>5, <4>6
      <4> QED
        BY <4>7
    <3>6. CASE ~G[k].ok
      <4>1. Missing(G[k].m, G[k].levels, h, o) /\ W[k] \notin Tables
        BY <3>3, <3>6 DEF Reaching
      <4>2. G[n] = ProbeStep(G[k], path, n, i, direct)
        BY <1>11, <3>1
      <4>3. G[n] = G[k]
        BY <3>6, <4>2 DEF ProbeStep
      <4>4. W[n] = Nil
        BY <3>4, <4>1 DEF Follow
      <4>5. ~There(n)
        BY <4>4, NilIsNothing
      <4> QED
        BY <3>6, <4>1, <4>3, <4>5 DEF Reaching
    <3> QED
      BY <3>5, <3>6
  <2> QED
    BY <2>1, <2>2
<1>16. Here(Len(path))
  <2>1. 0 \in P
    OBVIOUS
  <2> HIDE DEF P, Here
  <2>2. \A n \in 0 .. Len(path) : n \in P
    BY <1>1, <1>15, <2>1, Steps
  <2>3. Len(path) \in P
    BY <1>1, <2>2
  <2> QED
    BY <1>1, <2>3 DEF P
<1>17. PICK is \in BOOLEAN : is <=> v # Nil
  OBVIOUS
<1>18. Reaching(deep, h, o, Len(path), v, is)
  BY <1>1, <1>10, <1>12, <1>16, <1>17 DEF Reaching
<1>19. /\ PopV(deep.m, deep.levels) = Machine(o, h)
       /\ (deep.ok <=> is) /\ (is => Top(deep.m) = v)
  BY <1>18, ReachingEnds
<1> HIDE DEF There, Here, P
<1>20. ProxyProbe(m, start, path) = [m |-> m, got |-> IF deep.ok THEN Top(deep.m) ELSE Nil]
  BY <1>5, <1>13, <1>19, Zenon
<1> QED
  BY <1>17, <1>19, <1>20

--------------------------------------------------------------------------------
(* What every operation keeps of the stack and of the tables *)

Fields == [Keys -> Held \cup {Nil}]

(* v is a table only if it is allocated. *)
There(h, v) == v \in Tables => h[v] # Free

(* No field leads to a table that was collected. *)
Fits(h) ==
  /\ h \in [Tables -> {Free} \cup Fields]
  /\ \A r \in Rooted : h[r] # Free
  /\ \A t \in Tables, k \in Keys : h[t] # Free => There(h, h[t][k])

Standing(s, h) == \A i \in 1 .. Len(s) : There(h, s[i])

Stacked(m) ==
  /\ {"s", "h", "err"} \subseteq DOMAIN m
  /\ Sequence(m.s) /\ Fits(m.h) /\ Standing(m.s, m.h)

(* What was allocated still is. *)
Grew(h, g) == \A u \in Tables : h[u] # Free => g[u] # Free

LEMMA FreeIsNoTable == Free \notin Fields /\ NewTable \in Fields /\ NewTable # Free
<1>1. NewTable \in Fields
  BY DEF NewTable, Fields
<1> QED
  BY <1>1, TableAssumption DEF Fields, Held

LEMMA NilIsThere ==
  ASSUME NEW h
  PROVE  There(h, Nil)
  BY NilIsNothing DEF There

LEMMA FieldThere ==
  ASSUME NEW h, Fits(h), NEW t \in Tables, h[t] # Free, NEW k \in Keys
  PROVE  There(h, h[t][k]) /\ h[t] \in Fields /\ h[t][k] \in Held \cup {Nil}
  BY DEF Fits, Fields

LEMMA StackedMachine ==
  ASSUME NEW s, Sequence(s), NEW h, Fits(h), Standing(s, h)
  PROVE  Stacked(Machine(s, h))
  BY DEF Stacked, Machine

LEMMA StackedRaised ==
  ASSUME NEW m, Stacked(m)
  PROVE  Stacked(Raised(m)) /\ Raised(m).err /\ Raised(m).h = m.h
<1>1. PICK e : e = TRUE
  OBVIOUS
<1>2. PICK n : n = [m EXCEPT !.err = e]
  OBVIOUS
<1>3. Raised(m) = n
  BY <1>1, <1>2, Zenon DEF Raised
<1>4. Stacked(n) /\ n.err = e /\ n.h = m.h
  BY <1>2 DEF Stacked
<1> QED
  BY <1>1, <1>3, <1>4, Zenon

LEMMA StackedPush ==
  ASSUME NEW m, Stacked(m), NEW v, There(m.h, v)
  PROVE  Stacked(PushV(m, v)) /\ PushV(m, v).h = m.h
<1>1. PICK u : u = Append(m.s, v)
  OBVIOUS
<1>2. /\ Sequence(u) /\ Len(u) = Len(m.s) + 1 /\ u[Len(m.s) + 1] = v /\ Len(m.s) \in Nat
      /\ \A i \in 1 .. Len(m.s) : u[i] = m.s[i]
  BY <1>1, Appended, SequenceFacts DEF Stacked
<1>3. ASSUME NEW i \in 1 .. Len(u) PROVE There(m.h, u[i])
  <2>1. CASE i \in 1 .. Len(m.s)
    BY <1>2, <2>1 DEF Stacked, Standing
  <2>2. CASE i = Len(m.s) + 1
    BY <1>2, <2>2
  <2> QED
    BY <1>2, <2>1, <2>2
<1>4. PushV(m, v) = [m EXCEPT !.s = u]
  BY <1>1 DEF PushV
<1> QED
  BY <1>2, <1>3, <1>4 DEF Stacked, Standing

LEMMA StackedPop ==
  ASSUME NEW m, Stacked(m), NEW n \in Nat
  PROVE  Stacked(PopV(m, n)) /\ PopV(m, n).h = m.h
<1>1. PICK l \in Nat : l = Len(m.s)
  BY SequenceFacts DEF Stacked
<1>2. PICK k \in Int : k = l - n
  OBVIOUS
<1>3. PICK u : u = Pop(m.s, n)
  OBVIOUS
<1>4. u = SubSeq(m.s, 1, k) /\ k <= Len(m.s)
  BY <1>1, <1>2, <1>3 DEF Pop
<1>5. Sequence(u) /\ (k >= 0 => Len(u) = k) /\ \A i \in 1 .. k : u[i] = m.s[i]
  BY <1>4, Shortened DEF Stacked
<1>6. ASSUME NEW i \in 1 .. Len(u) PROVE There(m.h, u[i])
  <2>1. CASE k >= 0
    BY <1>1, <1>2, <1>5, <2>1 DEF Stacked, Standing
  <2>2. CASE k < 0
    <3>1. u = <<>>
      BY <1>4, <2>2
    <3> QED
      BY <3>1
  <2> QED
    BY <2>1, <2>2
<1>7. PopV(m, n) = [m EXCEPT !.s = u]
  BY <1>3 DEF PopV
<1> QED
  BY <1>5, <1>6, <1>7 DEF Stacked, Standing

LEMMA AtThere ==
  ASSUME NEW m, Stacked(m), NEW i
  PROVE  There(m.h, At(m, i))
<1>1. PICK j : j = AbsIndex(m.s, i)
  OBVIOUS
<1>2. DOMAIN m.s = 1 .. Len(m.s)
  BY SequenceFacts DEF Stacked
<1>3. CASE j \in DOMAIN m.s
  BY <1>1, <1>2, <1>3 DEF At, Stacked, Standing
<1>4. CASE j \notin DOMAIN m.s
  BY <1>1, <1>4, NilIsThere DEF At
<1> QED
  BY <1>3, <1>4

LEMMA IndexedThere ==
  ASSUME NEW m, Stacked(m), NEW k \in Keys, NEW i
  PROVE  There(m.h, Indexed(m, k, i))
<1>1. There(m.h, At(m, i))
  BY AtThere
<1>2. There(m.h, k)
  BY TableAssumption DEF There
<1>3. Stacked(PushV(m, k)) /\ PushV(m, k).h = m.h
  BY <1>2, StackedPush DEF PushV, Stacked
<1>4. There(m.h, At(PushV(m, k), i))
  BY <1>3, AtThere
<1> QED
  BY <1>1, <1>4 DEF Indexed

LEMMA GlobalsThere ==
  ASSUME NEW h, Fits(h)
  PROVE  Globals \in Tables /\ h[Globals] # Free
  BY TableAssumption DEF Fits

LEMMA StackedGet ==
  ASSUME NEW m, Stacked(m), NEW k \in Keys, NEW i, NEW global
  PROVE  Stacked(GetField(m, k, i, global)) /\ GetField(m, k, i, global).h = m.h
<1>1. PICK t : t = IF global /\ k \in DirectKeys THEN Globals ELSE Indexed(m, k, i)
  OBVIOUS
<1>2. GetField(m, k, i, global) = IF m.err \/ t \notin Tables THEN Raised(m) ELSE PushV(m, m.h[t][k])
  BY <1>1 DEF GetField
<1>3. There(m.h, t)
  BY <1>1, IndexedThere, GlobalsThere DEF There, Stacked
<1>4. t \in Tables => There(m.h, m.h[t][k])
  BY <1>3, FieldThere DEF There, Stacked
<1>5. Raised(m).h = m.h /\ \A v : PushV(m, v).h = m.h
  BY DEF Raised, PushV, Stacked
<1> QED
  BY <1>2, <1>4, <1>5, StackedRaised, StackedPush

(* A field of an allocated table takes a value. *)
Written(h, t, k, v) == [h EXCEPT ![t][k] = v]

LEMMA WrittenIs ==
  ASSUME NEW h, Fits(h), NEW t \in Tables, h[t] # Free, NEW k \in Keys,
         NEW v \in Held \cup {Nil}, NEW g, g = Written(h, t, k, v)
  PROVE  /\ g \in [Tables -> {Free} \cup Fields] /\ g[t] # Free /\ g[t][k] = v
         /\ \A j \in Keys : j # k => g[t][j] = h[t][j]
         /\ \A u \in Tables : u # t => g[u] = h[u]
         /\ \A u \in Tables : g[u] = Free <=> h[u] = Free
<1>1. h \in [Tables -> {Free} \cup Fields] /\ h[t] \in Fields
  BY FieldThere DEF Fits
<1>2. PICK f : f = [h[t] EXCEPT ![k] = v]
  OBVIOUS
<1>3. f \in Fields /\ f[k] = v /\ \A j \in Keys : j # k => f[j] = h[t][j]
  BY <1>1, <1>2 DEF Fields
<1>4. g = [h EXCEPT ![t] = f]
  BY <1>2 DEF Written
<1>5. f # Free
  BY <1>3, FreeIsNoTable
<1> QED
  BY <1>1, <1>3, <1>4, <1>5

LEMMA WrittenFits ==
  ASSUME NEW h, Fits(h), NEW t \in Tables, h[t] # Free, NEW k \in Keys,
         NEW v \in Held \cup {Nil}, There(h, v)
  PROVE  /\ Fits(Written(h, t, k, v))
         /\ Grew(h, Written(h, t, k, v))
<1>1. PICK g : g = Written(h, t, k, v)
  OBVIOUS
<1>2. /\ g \in [Tables -> {Free} \cup Fields] /\ g[t] # Free /\ g[t][k] = v
      /\ \A j \in Keys : j # k => g[t][j] = h[t][j]
      /\ \A u \in Tables : u # t => g[u] = h[u]
      /\ \A u \in Tables : g[u] = Free <=> h[u] = Free
  BY <1>1, WrittenIs
<1>3. ASSUME NEW w, There(h, w) PROVE There(g, w)
  BY <1>2, <1>3 DEF There
<1>4. ASSUME NEW u \in Tables, NEW j \in Keys, g[u] # Free PROVE There(g, g[u][j])
  <2>1. CASE u = t /\ j = k
    BY <1>2, <1>3, <2>1
  <2>2. CASE ~ (u = t /\ j = k)
    <3>1. g[u][j] = h[u][j] /\ h[u] # Free
      BY <1>2, <1>4, <2>2
    <3> QED
      BY <1>3, <3>1, FieldThere
  <2> QED
    BY <2>1, <2>2
<1>5. \A r \in Rooted : g[r] # Free
  BY <1>2, TableAssumption DEF Fits
<1> QED
  BY <1>1, <1>2, <1>4, <1>5 DEF Fits, Grew

(* A table is allocated, or emptied. *)
Emptied(h, t) == [h EXCEPT ![t] = NewTable]

LEMMA EmptiedFits ==
  ASSUME NEW h, Fits(h), NEW t
  PROVE  /\ Fits(Emptied(h, t)) /\ (t \in Tables => Emptied(h, t)[t] = NewTable)
         /\ \A u \in Tables : u # t => Emptied(h, t)[u] = h[u]
         /\ Grew(h, Emptied(h, t))
<1>1. PICK g : g = Emptied(h, t)
  OBVIOUS
<1>2. h \in [Tables -> {Free} \cup Fields] /\ NewTable \in Fields /\ NewTable # Free
  BY FreeIsNoTable DEF Fits
<1>3. /\ g \in [Tables -> {Free} \cup Fields] /\ (t \in Tables => g[t] = NewTable)
      /\ \A u \in Tables : u # t => g[u] = h[u]
  BY <1>1, <1>2 DEF Emptied
<1>4. \A u \in Tables : h[u] # Free => g[u] # Free
  BY <1>2, <1>3
<1>5. ASSUME NEW w, There(h, w) PROVE There(g, w)
  BY <1>4, <1>5 DEF There
<1>6. ASSUME NEW u \in Tables, NEW j \in Keys, g[u] # Free PROVE There(g, g[u][j])
  <2>1. CASE u = t
    <3>1. g[u][j] = Nil
      BY <1>3, <2>1 DEF NewTable
    <3> QED
      BY <3>1, NilIsThere
  <2>2. CASE u # t
    <3>1. g[u] = h[u] /\ There(h, h[u][j])
      BY <1>3, <1>6, <2>2, FieldThere
    <3> QED
      BY <1>5, <3>1
  <2> QED
    BY <2>1, <2>2
<1>7. \A r \in Rooted : g[r] # Free
  BY <1>4, TableAssumption DEF Fits
<1> QED
  BY <1>1, <1>3, <1>4, <1>6, <1>7 DEF Fits, Grew

(* The tables only grow. *)
LEMMA StackedGrows ==
  ASSUME NEW m, Stacked(m), NEW h, Fits(h), Grew(m.h, h)
  PROVE  Stacked([m EXCEPT !.h = h]) /\ [m EXCEPT !.h = h].h = h
  BY DEF Stacked, Standing, There, Grew

LEMMA StackedSet ==
  ASSUME NEW m, Stacked(m), NEW k \in Keys, NEW v \in Held \cup {Nil}, There(m.h, v), NEW i,
         NEW global
  PROVE  Stacked(SetField(m, k, v, i, global)) /\ Grew(m.h, SetField(m, k, v, i, global).h)
<1>1. PICK t : t = IF global /\ k \in DirectKeys THEN Globals ELSE At(m, i)
  OBVIOUS
<1>2. PICK h : h = Written(m.h, t, k, v)
  OBVIOUS
<1>3. SetField(m, k, v, i, global) = IF m.err \/ t \notin Tables THEN Raised(m) ELSE [m EXCEPT !.h = h]
  BY <1>1, <1>2 DEF SetField, Written
<1>4. There(m.h, t)
  BY <1>1, AtThere, GlobalsThere DEF There, Stacked
<1>5. CASE t \in Tables
  <2>1. Fits(h) /\ Grew(m.h, h)
    BY <1>2, <1>4, <1>5, WrittenFits DEF There, Stacked
  <2> QED
    BY <1>3, <2>1, StackedGrows, StackedRaised DEF Grew
<1>6. CASE t \notin Tables
  BY <1>3, <1>6, StackedRaised DEF Grew
<1> QED
  BY <1>5, <1>6

LEMMA StackedNew ==
  ASSUME NEW m, Stacked(m), NEW n, n = PushNew(m)
  PROVE  Stacked(n) /\ (n.err \/ Top(n) \in Tables) /\ Grew(m.h, n.h)
<1>1. CASE Unused(m.h) = {}
  <2>1. n = Raised(m)
    BY <1>1 DEF PushNew
  <2> QED
    BY <2>1, StackedRaised DEF Grew
<1>2. CASE Unused(m.h) # {}
  <2>1. PICK t : t = CHOOSE u \in Unused(m.h) : TRUE
    OBVIOUS
  <2>2. t \in Tables
    BY <1>2, <2>1 DEF Unused
  <2>3. PICK h : h = Emptied(m.h, t)
    OBVIOUS
  <2>4. n = PushV([m EXCEPT !.h = h], t)
    BY <1>2, <2>1, <2>3 DEF PushNew, Emptied
  <2>5. Fits(h) /\ h[t] = NewTable /\ Grew(m.h, h)
    BY <2>2, <2>3, EmptiedFits DEF Stacked
  <2>6. There(h, t)
    BY <2>5, FreeIsNoTable DEF There
  <2>7. Stacked([m EXCEPT !.h = h]) /\ [m EXCEPT !.h = h].h = h
    BY <2>5, StackedGrows
  <2>8. Stacked(n)
    BY <2>4, <2>6, <2>7, StackedPush
  <2>9. PICK u : u = Append([m EXCEPT !.h = h].s, t)
    OBVIOUS
  <2>10. n.s = u
    BY <2>4, <2>7, <2>9 DEF PushV, Stacked
  <2>11. Len(u) \in Nat /\ Len(u) > 0 /\ u[Len(u)] = t /\ DOMAIN u = 1 .. Len(u)
    <3>1. Len([m EXCEPT !.h = h].s) \in Nat
      BY <2>7, SequenceFacts DEF Stacked
    <3> QED
      BY <2>7, <2>9, <3>1, Appended, SequenceFacts DEF Stacked
  <2>12. Top(n) = t
    BY <2>10, <2>11 DEF Top, At, AbsIndex
  <2>13. n.h = h
    <3>1. PICK w : w = [m EXCEPT !.h = h]
      OBVIOUS
    <3>2. Stacked(w) /\ w.h = h /\ n = PushV(w, t)
      BY <2>4, <2>7, <3>1
    <3> QED
      BY <2>6, <3>2, StackedPush
  <2> QED
    BY <2>2, <2>5, <2>8, <2>12, <2>13
<1> QED
  BY <1>1, <1>2

LEMMA StackedProbe ==
  ASSUME NEW m, Stacked(m), NEW k \in Keys, NEW i, NEW global, NEW want,
         NEW p, p = Probe(m, k, i, global, want)
  PROVE  Stacked(p.m) /\ p.levels \in Nat /\ p.m.h = m.h
<1>1. p.m \in {m, GetField(m, k, i, global)} /\ p.levels \in {0, 1}
  BY DEF Probe
<1> QED
  BY <1>1, StackedGet

LEMMA StackedCreated ==
  ASSUME NEW m, Stacked(m), NEW k \in Keys, NEW i, NEW global
  PROVE  Stacked(Created(m, k, i, global)) /\ Grew(m.h, Created(m, k, i, global).h)
<1>1. PICK n : n = PushNew(PopV(m, 1))
  OBVIOUS
<1>2. Stacked(n) /\ (n.err \/ Top(n) \in Tables) /\ Grew(m.h, n.h)
  BY <1>1, StackedPop, StackedNew
<1>3. Created(m, k, i, global) = SetField(n, k, Top(n), i, global)
  BY <1>1 DEF Created
<1>4. CASE n.err
  <2>1. SetField(n, k, Top(n), i, global) = Raised(n)
    BY <1>4 DEF SetField
  <2> QED
    BY <1>2, <1>3, <2>1, StackedRaised DEF Grew
<1>5. CASE Top(n) \in Tables
  <2>1. There(n.h, Top(n)) /\ Top(n) \in Held \cup {Nil}
    BY <1>2, <1>5, AtThere DEF Top, Held
  <2> QED
    BY <1>2, <1>3, <2>1, StackedSet DEF Grew
<1> QED
  BY <1>2, <1>4, <1>5

LEMMA StackedFilled ==
  ASSUME NEW m, Stacked(m), NEW k \in Keys, NEW i, NEW direct, NEW mode
  PROVE  Stacked(Filled(m, k, i, direct, mode)) /\ Grew(m.h, Filled(m, k, i, direct, mode).h)
<1>1. Filled(m, k, i, direct, mode) \in {m, Created(m, k, i, direct)}
  BY DEF Filled
<1> QED
  BY <1>1, StackedCreated DEF Grew

LEMMA StackedOpened ==
  ASSUME NEW m, Stacked(m), NEW start \in Starts(m.s), NEW global
  PROVE  Stacked(Opened(m, start, global)) /\ Opened(m, start, global).h = m.h
<1>1. CASE global \/ start.kind = "stack"
  BY <1>1 DEF Opened
<1>2. CASE ~ (global \/ start.kind = "stack")
  <2>1. start.at \in Rooted
    BY <1>2, TableAssumption DEF Starts
  <2>2. There(m.h, start.at)
    BY <2>1 DEF There, Stacked, Fits
  <2> QED
    BY <1>2, <2>2, StackedPush DEF Opened
<1> QED
  BY <1>1, <1>2

LEMMA StackedClosed ==
  ASSUME NEW m, Stacked(m), NEW start, NEW global
  PROVE  Stacked(Closed(m, start, global)) /\ Closed(m, start, global).h = m.h
  BY StackedPop DEF Closed

LEMMA StackedCleared ==
  ASSUME NEW m, Stacked(m), NEW i
  PROVE  Stacked(ClearTable(m, i)) /\ Grew(m.h, ClearTable(m, i).h)
<1>1. PICK h : h = Emptied(m.h, At(m, i))
  OBVIOUS
<1>2. ClearTable(m, i) = [m EXCEPT !.h = h]
  BY <1>1 DEF ClearTable, Emptied
<1>3. Fits(h) /\ Grew(m.h, h)
  BY <1>1, EmptiedFits DEF Stacked
<1> QED
  BY <1>2, <1>3, StackedGrows

LEMMA StackedOptional ==
  ASSUME NEW m, Stacked(m), NEW start \in Starts(m.s), NEW path \in Paths, NEW want, NEW create
  PROVE  Stacked(TraverseGetOptional(m, start, path, want, create).m)
<1>1. Len(path) \in Nat
  BY PathFacts
<1>2. PICK global : global = (~create /\ Tableless(start, path))
  OBVIOUS
<1>3. PICK G : G = OptionalGetting(m, start, path, global, want, create)
  OBVIOUS
<1>4. PICK deep : deep = G[Len(path)]
  OBVIOUS
<1>5. TraverseGetOptional(m, start, path, want, create)
        = IF deep.m.err THEN [m |-> Raised(m), got |-> Nil]
          ELSE [m |-> Closed(PopV(deep.m, deep.pops), start, global),
                got |-> IF deep.ok THEN Top(deep.m) ELSE Nil]
  BY <1>2, <1>3, <1>4 DEF TraverseGetOptional, OptionalGetting
<1>6. /\ G[0] = [m |-> Opened(m, start, global), i |-> IndexOf(m, start, global),
                 pops |-> 0, ok |-> TRUE]
      /\ \A n \in 1 .. Len(path) : G[n] = OptionalStep(G[n - 1], path, n, global, want, create)
  <2>1. OptionalSteps(G, m, start, path, global, want, create)
    BY <1>1, <1>3, OptionalGettingGoes, Zenon
  <2> QED
    BY <2>1, Zenon DEF OptionalSteps
<1> DEFINE P == {n \in Nat : Stacked(G[n].m) /\ G[n].pops \in Nat}
<1>7. Stacked(G[0].m) /\ G[0].pops \in Nat
  BY <1>6, StackedOpened
<1>8. ASSUME NEW n \in 1 .. Len(path), n - 1 \in P PROVE n \in P
  <2>1. PICK a, b : a = G[n - 1] /\ b = G[n]
    OBVIOUS
  <2>2. Stacked(a.m) /\ a.pops \in Nat /\ b = OptionalStep(a, path, n, global, want, create)
    BY <1>6, <1>8, <2>1
  <2>3. PICK direct, wanted : /\ direct = (global /\ n = 1)
                              /\ wanted = IF n = Len(path) THEN want ELSE "some"
    OBVIOUS
  <2>4. PICK p : p = Probe(a.m, path[n], a.i, direct, wanted)
    OBVIOUS
  <2>5. Stacked(p.m) /\ p.levels \in Nat /\ path[n] \in Keys
    BY <2>2, <2>4, StackedProbe, PathFacts
  <2>6. PICK c : c = IF ~p.ok /\ create THEN Created(p.m, path[n], a.i, direct) ELSE p.m
    OBVIOUS
  <2>7. Stacked(c)
    BY <2>5, <2>6, StackedCreated
  <2>8. IF a.ok THEN b.m = c /\ b.pops = a.pops + p.levels ELSE b = a
    BY <2>2, <2>3, <2>4, <2>6 DEF OptionalStep, PopCount
  <2>9. Stacked(b.m) /\ b.pops \in Nat
    BY <2>2, <2>5, <2>7, <2>8
  <2> QED
    BY <1>1, <2>1, <2>9
<1>9. Stacked(deep.m) /\ deep.pops \in Nat
  <2>1. 0 \in P
    BY <1>7
  <2> HIDE DEF P
  <2>2. \A n \in 0 .. Len(path) : n \in P
    BY <1>1, <1>8, <2>1, Steps
  <2>3. Len(path) \in P
    BY <1>1, <2>2
  <2> QED
    BY <1>4, <2>3 DEF P
<1>10. Stacked(Raised(m)) /\ Stacked(Closed(PopV(deep.m, deep.pops), start, global))
  BY <1>9, StackedRaised, StackedPop, StackedClosed
<1> QED
  BY <1>5, <1>10

LEMMA StackedStored ==
  ASSUME NEW m, Stacked(m), NEW k \in Keys, NEW v \in Held \cup {Nil}, There(m.h, v), NEW i, NEW direct, NEW mode
  PROVE  Stacked(Stored(m, k, v, i, direct, mode)) /\ Grew(m.h, Stored(m, k, v, i, direct, mode).h)
<1>1. PICK p : p = Probe(m, k, i, direct, "some")
  OBVIOUS
<1>2. Stacked(p.m) /\ p.levels \in Nat /\ p.m.h = m.h
  BY <1>1, StackedProbe
<1>3. PICK after : after = IF mode = "update" /\ ~m.err THEN PopV(p.m, p.levels) ELSE m
  OBVIOUS
<1>4. Stacked(after) /\ after.h = m.h
  BY <1>2, <1>3, StackedPop
<1>5. Stored(m, k, v, i, direct, mode) \in {after, SetField(after, k, v, i, direct)}
  BY <1>1, <1>3 DEF Stored
<1> QED
  BY <1>4, <1>5, StackedSet DEF Grew

Setting(m, start, path, global, mode) ==
  LET first == [m |-> Opened(m, start, global), i |-> IndexOf(m, start, global)]
      at[j \in 0 .. Len(path) - 1] ==
        IF j = 0 THEN first ELSE SetStep(at[j - 1], path, j, global, mode)
  IN at

SettingSteps(G, m, start, path, global, mode) ==
  /\ G[0] = [m |-> Opened(m, start, global), i |-> IndexOf(m, start, global)]
  /\ \A n \in 1 .. Len(path) - 1 : G[n] = SetStep(G[n - 1], path, n, global, mode)

LEMMA SettingGoes ==
  ASSUME NEW m, NEW start, NEW path, NEW global, NEW mode, Len(path) - 1 \in Nat,
         NEW G, G = Setting(m, start, path, global, mode)
  PROVE  SettingSteps(G, m, start, path, global, mode)
<1> DEFINE first == [m |-> Opened(m, start, global), i |-> IndexOf(m, start, global)]
           Go(n, was) == SetStep(was, path, n, global, mode)
           Is(f, k) == f = [n \in 0 .. k |-> IF n = 0 THEN first ELSE Go(n, f[n - 1])]
           P == {k \in Nat : \E f : Is(f, k)}
<1>1. 0 \in P
  <2> HIDE DEF first, Go
  <2>1. Is([n \in 0 .. 0 |-> first], 0)
    OBVIOUS
  <2> QED
    BY <2>1
<1>2. ASSUME NEW k \in 1 .. Len(path) - 1, k - 1 \in P PROVE k \in P
  <2> HIDE DEF first, Go
  <2>1. PICK g : Is(g, k - 1)
    BY <1>2
  <2> DEFINE more == [n \in 0 .. k |-> IF n = k THEN Go(k, g[k - 1]) ELSE g[n]]
  <2>2. \A n \in 0 .. k - 1 : g[n] = IF n = 0 THEN first ELSE Go(n, g[n - 1])
    BY <2>1
  <2>3. \A n \in 0 .. k : more[n] = IF n = 0 THEN first ELSE Go(n, more[n - 1])
    BY <2>2
  <2>4. Is(more, k)
    BY <2>3
  <2> HIDE DEF more
  <2> QED
    BY <2>4
<1>3. Len(path) - 1 \in P
  <2> HIDE DEF P
  <2>1. \A k \in 0 .. Len(path) - 1 : k \in P
    BY <1>1, <1>2, Steps
  <2> QED
    BY <2>1
<1>4. Is(G, Len(path) - 1)
  <2> HIDE DEF first, Go
  <2>1. \E f : Is(f, Len(path) - 1)
    BY <1>3
  <2>2. G = CHOOSE f : Is(f, Len(path) - 1)
    BY DEF Setting, first, Go
  <2> QED
    BY <2>1, <2>2
<1>5. G[0] = first /\ \A n \in 1 .. Len(path) - 1 : G[n] = Go(n, G[n - 1])
  <2> HIDE DEF first, Go
  <2> QED
    BY <1>4
<1> QED
  BY <1>5 DEF SettingSteps

LEMMA StackedWrite ==
  ASSUME NEW m, Stacked(m), NEW start \in Starts(m.s), NEW path \in Paths,
         NEW v \in Held \cup {Nil}, There(m.h, v), NEW mode
  PROVE  /\ Stacked(TraverseSet(m, start, path, v, mode))
         /\ Grew(m.h, TraverseSet(m, start, path, v, mode).h)
<1>1. Len(path) - 1 \in Nat
  BY PathFacts
<1>2. PICK global : global = Tableless(start, path)
  OBVIOUS
<1>3. PICK G : G = Setting(m, start, path, global, mode)
  OBVIOUS
<1>4. PICK above : above = G[Len(path) - 1]
  OBVIOUS
<1>5. PICK done : done = Stored(above.m, path[Len(path)], v, above.i,
                                global /\ Len(path) = 1, mode)
  OBVIOUS
<1>6. TraverseSet(m, start, path, v, mode)
        = IF done.err THEN Raised(m) ELSE Closed(PopV(done, Len(path) - 1), start, global)
  BY <1>2, <1>3, <1>4, <1>5 DEF TraverseSet, Setting
<1>7. /\ G[0] = [m |-> Opened(m, start, global), i |-> IndexOf(m, start, global)]
      /\ \A n \in 1 .. Len(path) - 1 : G[n] = SetStep(G[n - 1], path, n, global, mode)
  <2>1. Len(path) - 1 \in Nat
    BY <1>1
  <2>2. SettingSteps(G, m, start, path, global, mode)
    BY <1>3, <2>1, SettingGoes, Zenon
  <2> QED
    BY <2>2, Zenon DEF SettingSteps
<1> DEFINE P == {n \in Nat : Stacked(G[n].m) /\ Grew(m.h, G[n].m.h)}
<1>8. Stacked(G[0].m) /\ Grew(m.h, G[0].m.h)
  BY <1>7, StackedOpened DEF Grew
<1>9. ASSUME NEW n \in 1 .. Len(path) - 1, n - 1 \in P PROVE n \in P
  <2>1. PICK a, b : a = G[n - 1] /\ b = G[n]
    OBVIOUS
  <2>2. Stacked(a.m) /\ Grew(m.h, a.m.h) /\ path[n] \in Keys /\ b = SetStep(a, path, n, global, mode)
    BY <1>7, <1>9, <2>1, PathFacts
  <2>3. PICK direct : direct = (global /\ n = 1)
    OBVIOUS
  <2>4. PICK g : g = GetField(a.m, path[n], a.i, direct)
    OBVIOUS
  <2>5. Stacked(g) /\ g.h = a.m.h
    BY <2>2, <2>4, StackedGet
  <2>6. /\ Stacked(Filled(g, path[n], a.i, direct, mode))
        /\ Grew(g.h, Filled(g, path[n], a.i, direct, mode).h)
    BY <2>2, <2>5, StackedFilled
  <2>7. b.m = Filled(g, path[n], a.i, direct, mode)
    BY <2>2, <2>3, <2>4 DEF SetStep
  <2>8. Stacked(G[n].m) /\ Grew(m.h, G[n].m.h)
    BY <2>1, <2>2, <2>5, <2>6, <2>7 DEF Grew
  <2> QED
    BY <1>1, <2>8
<1>10. Stacked(above.m) /\ Grew(m.h, above.m.h)
  <2>1. 0 \in P
    BY <1>8
  <2> HIDE DEF P
  <2>2. \A n \in 0 .. Len(path) - 1 : n \in P
    BY <1>1, <1>9, <2>1, Steps
  <2>3. Len(path) - 1 \in P
    BY <1>1, <2>2
  <2> QED
    BY <1>4, <2>3 DEF P
<1>11. Stacked(done) /\ Grew(m.h, done.h)
  <2>1. There(above.m.h, v) /\ path[Len(path)] \in Keys
    BY <1>1, <1>10, PathFacts DEF There, Grew
  <2> QED
    <3>1. Stacked(done) /\ Grew(above.m.h, done.h)
      BY <1>5, <1>10, <2>1, StackedStored
    <3> QED
      BY <1>10, <3>1 DEF Grew
<1>12. /\ Stacked(Raised(m)) /\ Raised(m).h = m.h
       /\ Stacked(Closed(PopV(done, Len(path) - 1), start, global))
       /\ Closed(PopV(done, Len(path) - 1), start, global).h = done.h
  BY <1>1, <1>11, StackedRaised, StackedPop, StackedClosed
<1> QED
  BY <1>6, <1>11, <1>12 DEF Grew

(* The collector frees no table that an allocated table or the stack leads to. *)
LEMMA ReachedLeast ==
  ASSUME NEW h, NEW from, from \subseteq Tables, NEW alive, alive = Reached(h, from)
  PROVE  /\ from \subseteq alive
         /\ \A t \in alive, k \in Keys : h[t] # Free /\ h[t][k] \in Tables => h[t][k] \in alive
  BY DEF Reached

LEMMA CollectedFits ==
  ASSUME NEW h, Fits(h), NEW s, Standing(s, h), Sequence(s), NEW kept, kept \subseteq Tables,
         NEW g, g = Collected(h, s, kept)
  PROVE  Fits(g) /\ Standing(s, g)
<1>1. PICK from : from = Rooted \cup kept \cup (ToSet(s) \cap Tables)
  OBVIOUS
<1>2. PICK alive : alive = Reached(h, from)
  OBVIOUS
<1>3. from \subseteq Tables
  BY <1>1, TableAssumption
<1>4. /\ from \subseteq alive
      /\ \A t \in alive, k \in Keys : h[t] # Free /\ h[t][k] \in Tables => h[t][k] \in alive
  BY <1>2, <1>3, ReachedLeast
<1>5. g = [t \in Tables |-> IF t \in alive THEN h[t] ELSE Free]
  BY <1>1, <1>2 DEF Collected
<1>6. g \in [Tables -> {Free} \cup Fields]
  BY <1>5 DEF Fits
<1>7. ASSUME NEW r \in Rooted PROVE g[r] # Free
  BY <1>1, <1>4, <1>5, TableAssumption DEF Fits
<1>8. ASSUME NEW t \in Tables, NEW k \in Keys, g[t] # Free PROVE There(g, g[t][k])
  <2>1. t \in alive /\ g[t] = h[t]
    BY <1>5, <1>8
  <2>2. There(h, h[t][k])
    BY <1>8, <2>1, FieldThere
  <2> QED
    BY <1>4, <1>5, <1>8, <2>1, <2>2 DEF There
<1>9. ASSUME NEW i \in 1 .. Len(s), s[i] \in Tables PROVE g[s[i]] # Free
  <2>1. s[i] \in ToSet(s)
    BY SequenceFacts DEF ToSet
  <2>2. s[i] \in alive /\ h[s[i]] # Free
    BY <1>1, <1>4, <1>9, <2>1 DEF Standing, There
  <2> QED
    BY <1>5, <1>9, <2>2
<1> QED
  BY <1>6, <1>7, <1>8, <1>9 DEF Fits, Standing, There

(* What a path leads to is there. *)
LEMMA LookupThere ==
  ASSUME NEW h, Fits(h), NEW x, There(h, x), NEW path \in Paths
  PROVE  There(h, Lookup(h, x, path)) /\ \A n \in 0 .. Len(path) : There(h, Followed(h, x, path)[n])
<1>1. Len(path) \in Nat /\ \A n \in 1 .. Len(path) : path[n] \in Keys
  BY PathFacts
<1>2. PICK W : W = Followed(h, x, path)
  OBVIOUS
<1>3. /\ Lookup(h, x, path) = W[Len(path)] /\ W[0] = x
      /\ \A n \in 1 .. Len(path) : W[n] = Follow(h, path, n, W[n - 1])
  BY <1>1, <1>2, LookupFollows
<1> DEFINE P == {n \in Nat : There(h, W[n])}
<1>4. 0 \in P
  BY <1>3
<1>5. ASSUME NEW n \in 1 .. Len(path), n - 1 \in P PROVE n \in P
  <2>1. CASE W[n - 1] \in Tables
    <3>1. h[W[n - 1]] # Free
      BY <1>5, <2>1 DEF There
    <3> QED
      BY <1>1, <1>3, <2>1, <3>1, FieldThere DEF Follow
  <2>2. CASE W[n - 1] \notin Tables
    BY <1>1, <1>3, <2>2, NilIsThere DEF Follow
  <2> QED
    BY <2>1, <2>2
<1>6. \A n \in 0 .. Len(path) : n \in P
  <2> HIDE DEF P
  <2> QED
    BY <1>1, <1>4, <1>5, Steps
<1> QED
  BY <1>1, <1>2, <1>3, <1>6

LEMMA BecomesStack ==
  ASSUME NEW m, Stacked(m), NEW kept, kept \subseteq Tables, Becomes(m, kept)
  PROVE  Sequence(stack') /\ Fits(heap') /\ Standing(stack', heap')
<1>1. stack' = m.s /\ heap' = Collected(m.h, m.s, kept)
  BY DEF Becomes
<1> QED
  BY <1>1, CollectedFits DEF Stacked

LEMMA StackKept ==
  ASSUME Straight, Sequence(stack), Fits(heap), Standing(stack, heap), [AccessNext]_<<stack, heap>>
  PROVE  Sequence(stack') /\ Fits(heap') /\ Standing(stack', heap')
<1>1. PICK m : m = Machine(stack, heap)
  OBVIOUS
<1>1a. Stacked(m) /\ m.s = stack /\ m.h = heap
  BY <1>1, StackedMachine DEF Machine
<1> DEFINE Goal == Sequence(stack') /\ Fits(heap') /\ Standing(stack', heap')
<1>2. ASSUME NEW start \in Starts(stack), NEW path \in Paths, NEW v \in Settable,
             NEW mode \in Modes, Set(start, path, v, mode, {})
      PROVE  Goal
  <2>1. v \in Held \cup {Nil} /\ There(heap, v)
    BY NilIsNothing, TableAssumption DEF Settable, There, Held
  <2>2. Stacked(TraverseSet(m, start, path, v, mode))
    BY <1>1a, <2>1, StackedWrite
  <2> QED
    BY <1>1, <1>2, <2>2, BecomesStack DEF Set
<1>3. ASSUME NEW start \in Starts(stack), NEW path \in Paths, GetOrCreate(start, path, {})
      PROVE  Goal
  <2>1. PICK yes : yes = TRUE
    OBVIOUS
  <2>2. Stacked(TraverseGetOptional(m, start, path, "table", yes).m)
    BY <1>1a, StackedOptional
  <2>3. Becomes(TraverseGetOptional(m, start, path, "table", yes).m, {})
    BY <1>1, <1>3, <2>1 DEF GetOrCreate
  <2> QED
    BY <2>2, <2>3, BecomesStack
<1>4. ASSUME NEW start \in Starts(stack), NEW path \in Paths, PushField(start, path, {})
      PROVE  Goal
  <2>1. PICK x, v : x = TableOf(m, start) /\ v = Lookup(heap, x, path)
    OBVIOUS
  <2>2. PICK p : p = ProxyPush(m, start, path)
    OBVIOUS
  <2>3. ProxyPushes(start, path) /\ Becomes(p, {})
    BY <1>1, <1>4, <2>2 DEF PushField
  <2>4. p = PushV(m, v) \/ (v = Nil /\ p.err)
    BY <1>1, <2>1, <2>2, <2>3, ProxyReads
  <2>5. ~p.err
    BY <2>3 DEF Becomes
  <2>6. There(heap, x)
    BY <1>1a, <2>1, SequenceFacts, TableAssumption DEF TableOf, Starts, Standing, There, Fits
  <2>7. There(heap, v)
    BY <2>1, <2>6, LookupThere
  <2>8. Stacked(PushV(m, v))
    BY <1>1a, <2>7, StackedPush
  <2> QED
    BY <2>3, <2>4, <2>5, <2>8, BecomesStack
<1>5. ASSUME NEW start \in Starts(stack), Clear(start, {})
      PROVE  Goal
  <2>1. PICK no : no = FALSE
    OBVIOUS
  <2>2. PICK o, i : o = Opened(m, start, no) /\ i = IndexOf(m, start, no)
    OBVIOUS
  <2>3. Becomes(Closed(ClearTable(o, i), start, no), {})
    BY <1>1, <1>5, <2>1, <2>2 DEF Clear
  <2>4. Stacked(Closed(ClearTable(o, i), start, no))
    BY <1>1a, <2>2, StackedOpened, StackedCleared, StackedClosed
  <2> QED
    BY <2>3, <2>4, BecomesStack
<1>6. CASE PopField({})
  BY <1>1, <1>1a, <1>6, StackedPop, BecomesStack DEF PopField
<1>7. CASE UNCHANGED <<stack, heap>>
  BY <1>7
<1> QED
  BY <1>2, <1>3, <1>4, <1>5, <1>6, <1>7 DEF AccessNext

LEMMA StackBegins ==
  ASSUME AccessInit
  PROVE  Sequence(stack) /\ Fits(heap) /\ Standing(stack, heap)
<1>1. heap \in [Tables -> {Free} \cup Fields] /\ \A t \in Tables : heap[t] # Free => heap[t] = NewTable
  BY FreeIsNoTable DEF AccessInit
<1>2. \A r \in Rooted : heap[r] # Free
  BY FreeIsNoTable, TableAssumption DEF AccessInit
<1>3. \A t \in Tables, k \in Keys : heap[t] # Free => heap[t][k] = Nil
  BY <1>1 DEF NewTable
<1>4. Fits(heap)
  BY <1>1, <1>2, <1>3, NilIsThere DEF Fits
<1> QED
  BY <1>4, EmptySequence DEF AccessInit, Standing

--------------------------------------------------------------------------------
(* Reads agree *)

LEMMA ReadsOfStack ==
  ASSUME Sequence(stack), Straight
  PROVE  ReadsAgree
<1>1. PICK m : m = Machine(stack, heap)
  OBVIOUS
<1>2. PICK no \in BOOLEAN : no = FALSE /\ ~no
  OBVIOUS
<1> SUFFICES ASSUME NEW start \in Starts(stack), NEW path \in Paths
    PROVE  LET v == Lookup(heap, TableOf(m, start), path)
               get == TraverseGet(m, start, path, "some", FALSE)
               probe == ProxyProbe(m, start, path)
               push == ProxyPush(m, start, path)
           IN /\ ~get.m.err => get = [m |-> m, got |-> v]
              /\ v # Nil => ~get.m.err
              /\ \A want \in {"table", "number", "some"} :
                   TraverseGetOptional(m, start, path, want, FALSE) =
                     [m |-> m, got |-> IF IsA(v, want) THEN v ELSE Nil]
              /\ ProxyProbes(start, path) => probe = [m |-> m, got |-> v]
              /\ ProxyPushes(start, path) /\ ~get.m.err => push = PushV(m, v)
  BY <1>1, Zenon DEF ReadsAgree
<1>3. PICK x, v : x = TableOf(m, start) /\ v = Lookup(heap, x, path)
  OBVIOUS
<1>4. PICK get : get = TraverseGet(m, start, path, "some", no)
  OBVIOUS
<1>5. IF v = Nil THEN get.m.err ELSE ~get.m.err /\ get = [m |-> m, got |-> v]
  BY <1>1, <1>2, <1>3, <1>4, GetReads
<1>6. ASSUME NEW want \in {"table", "number", "some"}
      PROVE  TraverseGetOptional(m, start, path, want, no) =
               [m |-> m, got |-> IF IsA(v, want) THEN v ELSE Nil]
  BY <1>1, <1>2, <1>3, OptionalReads
<1>7. ASSUME ProxyProbes(start, path)
      PROVE  ProxyProbe(m, start, path) = [m |-> m, got |-> v]
  BY <1>1, <1>3, <1>7, ProxyProbeReads
<1>8. ASSUME ProxyPushes(start, path), v # Nil
      PROVE  ProxyPush(m, start, path) = PushV(m, v)
  BY <1>1, <1>3, <1>8, ProxyReads
<1>9. get = TraverseGet(m, start, path, "some", FALSE)
  BY <1>2, <1>4, Zenon
<1>10. \A want \in {"table", "number", "some"} :
         TraverseGetOptional(m, start, path, want, FALSE) =
           [m |-> m, got |-> IF IsA(v, want) THEN v ELSE Nil]
  BY <1>2, <1>6, Zenon
<1> QED
  BY <1>3, <1>5, <1>7, <1>8, <1>9, <1>10, Zenon

(* However long the path and whatever the tables hold, as long as the program *)
(* keeps clear of the proxies that do not work (a proxy of a table that is on *)
(* the stack, pushed keys below the first, and below the global table): get   *)
(* and traverse_get find what following the keys finds or raise an error      *)
(* where there is nothing; an optional of the right type finds it too, one    *)
(* of the wrong type nothing, neither with an error; a proxy's valid,         *)
(* get_type and push agree with them; and each leaves the stack as it was,    *)
(* but for the value that was pushed.                                         *)
THEOREM ReadsFollowPaths == Straight /\ AccessSpec => []ReadsAgree
<1> DEFINE Inv == Sequence(stack) /\ Fits(heap) /\ Standing(stack, heap) /\ Straight
<1>1. Straight /\ AccessInit => Inv
  BY StackBegins
<1>2. Inv /\ [AccessNext]_<<stack, heap>> => Inv'
  <2>1. ASSUME Inv, [AccessNext]_<<stack, heap>>
        PROVE  Sequence(stack)' /\ Fits(heap)' /\ Standing(stack, heap)'
    BY <2>1, StackKept
  <2> QED
    BY <2>1 DEF Straight
<1>3. Inv => ReadsAgree
  BY ReadsOfStack
<1> QED
  BY <1>1, <1>2, <1>3, PTL DEF AccessSpec

--------------------------------------------------------------------------------
(* A new table in the place of a field *)

(* lua_createtable and the assignment of the new table to a field. *)
Filling(g, T, k, t) == Written(Emptied(g, t), T, k, t)

(* Of the tables there were, only the field k of t may have changed. *)
OnlyChanged(h, g, t, k) ==
  \A u \in Tables, l \in Keys : h[u] # Free /\ (u # t \/ l # k) => g[u][l] = h[u][l]

LEMMA UnusedFinite ==
  ASSUME NEW h
  PROVE  IsFiniteSet(Unused(h)) /\ Cardinality(Unused(h)) \in Nat
<1>1. IsFiniteSet(Tables) /\ Unused(h) \in SUBSET Tables
  BY TableAssumption DEF Unused
<1>2. IsFiniteSet(Unused(h))
  BY <1>1, FS_Subset
<1> QED
  BY <1>2, FS_CardinalityType

LEMMA FillingIs ==
  ASSUME NEW g, Fits(g), NEW T \in Tables, g[T] # Free, NEW k \in Keys, NEW t \in Unused(g),
         NEW f, f = Filling(g, T, k, t)
  PROVE  /\ Fits(f) /\ Grew(g, f) /\ f[T][k] = t /\ f[t] = NewTable /\ t \in Tables
         /\ OnlyChanged(g, f, T, k)
         /\ Cardinality(Unused(f)) = Cardinality(Unused(g)) - 1
<1>1. t \in Tables /\ g[t] = Free /\ t # T
  BY DEF Unused
<1>2. PICK e : e = Emptied(g, t)
  OBVIOUS
<1>3. /\ Fits(e) /\ e[t] = NewTable /\ Grew(g, e)
      /\ \A u \in Tables : u # t => e[u] = g[u]
  BY <1>1, <1>2, EmptiedFits
<1>4. e[T] # Free /\ There(e, t) /\ t \in Held \cup {Nil} /\ f = Written(e, T, k, t)
  BY <1>1, <1>2, <1>3, FreeIsNoTable DEF There, Held, Filling
<1>5. Fits(f) /\ Grew(e, f)
  BY <1>3, <1>4, WrittenFits
<1>6. /\ f[T][k] = t
      /\ \A j \in Keys : j # k => f[T][j] = e[T][j]
      /\ \A u \in Tables : u # T => f[u] = e[u]
      /\ \A u \in Tables : f[u] = Free <=> e[u] = Free
  BY <1>3, <1>4, WrittenIs
<1>7. f[t] = NewTable
  BY <1>1, <1>3, <1>6
<1>8. OnlyChanged(g, f, T, k)
  BY <1>1, <1>3, <1>6 DEF OnlyChanged
<1>9. Unused(f) = Unused(g) \ {t}
  BY <1>1, <1>3, <1>6, FreeIsNoTable DEF Unused
<1>10. Cardinality(Unused(f)) = Cardinality(Unused(g)) - 1
  <2>1. PICK S : S = Unused(g)
    OBVIOUS
  <2>2. IsFiniteSet(S) /\ t \in S
    BY <2>1, UnusedFinite
  <2>3. Cardinality(S \ {t}) = Cardinality(S) - 1
    BY <2>2, FS_RemoveElement
  <2> QED
    BY <1>9, <2>1, <2>3
<1> QED
  BY <1>1, <1>3, <1>5, <1>6, <1>7, <1>8, <1>10 DEF Grew

--------------------------------------------------------------------------------
(* How far a path leads, and what was created below *)

(* C follows the first n keys of a path, from table to table. *)
Chain(g, C, path, n) ==
  \A i \in 1 .. n : C[i - 1] \in Tables /\ C[i] = g[C[i - 1]][path[i]]

(* The first d keys lead along W, what the path led to; from there on, in the *)
(* place of a value of R, along tables that were created.                     *)
Grown(h, g, C, path, W, j, d, R) ==
  /\ Fits(g) /\ Grew(h, g) /\ Chain(g, C, path, j)
  /\ d \in 0 .. j /\ \A i \in 0 .. d : C[i] = W[i]
  /\ Cardinality(Unused(g)) + (j - d) >= Cardinality(Unused(h))
  /\ d = j => g = h
  /\ d < j => /\ W[d] \in Tables /\ W[d + 1] \in R /\ OnlyChanged(h, g, W[d], path[d + 1])
              /\ C[j] \in Tables /\ h[C[j]] = Free /\ g[C[j]] = NewTable

(* W is where the keys of the path lead. *)
Along(h, path, W) ==
  /\ W[0] \in Tables /\ h[W[0]] # Free
  /\ \A n \in 1 .. Len(path) : W[n] = Follow(h, path, n, W[n - 1])

LEMMA ChainThere ==
  ASSUME NEW g, Fits(g), NEW path \in Paths, NEW C, NEW n \in 0 .. Len(path), Chain(g, C, path, n),
         There(g, C[0])
  PROVE  \A i \in 0 .. n : There(g, C[i])
<1>1. Len(path) \in Nat /\ \A i \in 1 .. Len(path) : path[i] \in Keys
  BY PathFacts
<1> DEFINE P == {i \in Nat : There(g, C[i])}
<1>2. ASSUME NEW i \in 1 .. n, i - 1 \in P PROVE i \in P
  <2>1. C[i - 1] \in Tables /\ C[i] = g[C[i - 1]][path[i]] /\ g[C[i - 1]] # Free
    BY <1>2 DEF Chain, There
  <2>2. path[i] \in Keys
    BY <1>1
  <2>3. There(g, C[i])
    BY <2>1, <2>2, FieldThere
  <2> QED
    BY <1>1, <2>3
<1>3. 0 \in P
  OBVIOUS
<1>4. \A i \in 0 .. n : i \in P
  <2>1. n \in Nat
    BY <1>1
  <2> HIDE DEF P
  <2> QED
    BY <1>2, <1>3, <2>1, Steps
<1> QED
  BY <1>4

(* What is there already is followed... *)
LEMMA GrownStays ==
  ASSUME NEW h, NEW g, NEW C, NEW path \in Paths, NEW W, Along(h, path, W),
         NEW j \in 0 .. Len(path) - 1, NEW d, NEW R, R = {} \/ Nil \in R,
         Grown(h, g, C, path, W, j, d, R), C[j] \in Tables, g[C[j]][path[j + 1]] \notin R
  PROVE  d = j /\ g = h /\ C[j] = W[j] /\ \E D : Grown(h, g, D, path, W, j + 1, j + 1, R) /\ D[j + 1] = W[j + 1]
<1>1. Len(path) \in Nat /\ \A i \in 1 .. Len(path) : path[i] \in Keys
  BY PathFacts
<1>2. d = j
  <2>1. ASSUME d < j PROVE FALSE
    <3>1. W[d + 1] \in R /\ g[C[j]] = NewTable
      BY <2>1 DEF Grown
    <3>2. g[C[j]][path[j + 1]] = Nil
      BY <1>1, <3>1 DEF NewTable
    <3> QED
      BY <3>1, <3>2
  <2> QED
    BY <2>1 DEF Grown
<1>3. g = h /\ \A i \in 0 .. j : C[i] = W[i]
  BY <1>2 DEF Grown
<1>4. W[j + 1] = h[W[j]][path[j + 1]]
  <2>1. j + 1 \in 1 .. Len(path) /\ (j + 1) - 1 = j
    BY <1>1
  <2> QED
    BY <1>3, <2>1 DEF Along, Follow
<1>5. PICK D : D = [i \in 0 .. j + 1 |-> W[i]]
  OBVIOUS
<1>6. \A i \in 0 .. j + 1 : D[i] = W[i]
  BY <1>5
<1>7. Chain(g, D, path, j + 1)
  <2>1. ASSUME NEW i \in 1 .. j + 1 PROVE D[i - 1] \in Tables /\ D[i] = g[D[i - 1]][path[i]]
    <3>1. CASE i = j + 1
      BY <1>3, <1>4, <1>6, <3>1
    <3>2. CASE i \in 1 .. j
      <4>1. C[i - 1] \in Tables /\ C[i] = g[C[i - 1]][path[i]]
        BY <3>2 DEF Grown, Chain
      <4>2. i \in 0 .. j /\ i - 1 \in 0 .. j /\ i \in 0 .. j + 1 /\ i - 1 \in 0 .. j + 1
        BY <1>1, <3>2
      <4> QED
        BY <1>3, <1>6, <4>1, <4>2
    <3> QED
      BY <3>1, <3>2
  <2> QED
    BY <2>1 DEF Chain
<1>8. Grown(h, g, D, path, W, j + 1, j + 1, R)
  BY <1>2, <1>3, <1>6, <1>7 DEF Grown
<1> QED
  BY <1>2, <1>3, <1>6, <1>8

(* ... and what is not is created. *)
LEMMA GrownGrows ==
  ASSUME NEW h, NEW g, NEW C, NEW path \in Paths, NEW W, Along(h, path, W), C[0] = W[0],
         NEW j \in 0 .. Len(path) - 1, NEW d, NEW R, R \cap Tables = {},
         Grown(h, g, C, path, W, j, d, R), C[j] \in Tables, g[C[j]][path[j + 1]] \in R,
         NEW t \in Unused(g), NEW f, f = Filling(g, C[j], path[j + 1], t)
  PROVE  \E D : Grown(h, f, D, path, W, j + 1, d, R) /\ D[j + 1] = t
<1>1. Len(path) \in Nat /\ \A i \in 1 .. Len(path) : path[i] \in Keys
  BY PathFacts
<1>2. PICK T, k : T = C[j] /\ k = path[j + 1]
  OBVIOUS
<1>3. Fits(g) /\ Grew(h, g) /\ Chain(g, C, path, j) /\ d \in 0 .. j /\ j \in 0 .. Len(path)
  BY <1>1 DEF Grown
<1>4. There(g, C[0])
  BY <1>3 DEF Along, Grew, There
<1>5. \A i \in 0 .. j : There(g, C[i])
  BY <1>3, <1>4, ChainThere
<1>6. T \in Tables /\ g[T] # Free /\ k \in Keys
  BY <1>1, <1>2, <1>5 DEF There
<1>7. /\ Fits(f) /\ Grew(g, f) /\ f[T][k] = t /\ f[t] = NewTable /\ t \in Tables
      /\ OnlyChanged(g, f, T, k)
      /\ Cardinality(Unused(f)) = Cardinality(Unused(g)) - 1
  BY <1>2, <1>3, <1>6, FillingIs
<1>8. PICK D : D = [i \in 0 .. j + 1 |-> IF i = j + 1 THEN t ELSE C[i]]
  OBVIOUS
<1>9. D[j + 1] = t /\ \A i \in 0 .. j : D[i] = C[i]
  BY <1>8
<1>10. ASSUME NEW i \in 1 .. j PROVE C[i] \in Tables
  <2>1. CASE i = j
    BY <2>1
  <2>2. CASE i # j
    <3>1. i + 1 \in 1 .. j /\ (i + 1) - 1 = i
      BY <2>2
    <3> QED
      BY <1>3, <3>1 DEF Chain
  <2> QED
    BY <2>1, <2>2
<1>11. Chain(f, D, path, j + 1)
  <2>1. ASSUME NEW i \in 1 .. j + 1 PROVE D[i - 1] \in Tables /\ D[i] = f[D[i - 1]][path[i]]
    <3>1. CASE i = j + 1
      BY <1>2, <1>6, <1>7, <1>9, <3>1
    <3>2. CASE i \in 1 .. j
      <4>1. C[i - 1] \in Tables /\ C[i] = g[C[i - 1]][path[i]] /\ C[i] \in Tables
        BY <1>3, <1>10, <3>2 DEF Chain
      <4>2. g[C[i - 1]] # Free
        BY <1>5, <3>2, <4>1 DEF There
      <4>3. C[i - 1] # T \/ path[i] # k
        BY <1>2, <4>1
      <4>4. path[i] \in Keys
        BY <1>1, <3>2
      <4>5. f[C[i - 1]][path[i]] = C[i]
        BY <1>7, <4>1, <4>2, <4>3, <4>4 DEF OnlyChanged
      <4> QED
        BY <1>9, <3>2, <4>1, <4>5
    <3> QED
      BY <3>1, <3>2
  <2> QED
    BY <2>1 DEF Chain
<1>12. Grew(h, f)
  BY <1>3, <1>7 DEF Grew
<1>13. Cardinality(Unused(f)) + ((j + 1) - d) >= Cardinality(Unused(h))
  <2>1. Cardinality(Unused(g)) + (j - d) >= Cardinality(Unused(h))
    BY DEF Grown
  <2> QED
    BY <1>3, <1>7, <2>1, UnusedFinite
<1>14. h[t] = Free
  BY <1>3 DEF Grew, Unused
<1>15. W[d] \in Tables /\ W[d + 1] \in R /\ OnlyChanged(h, f, W[d], path[d + 1])
  <2>1. CASE d = j
    <3>1. g = h /\ T = W[d] /\ k = path[d + 1]
      BY <1>2, <2>1 DEF Grown
    <3>2. W[j + 1] = h[W[j]][path[j + 1]]
      <4>1. j + 1 \in 1 .. Len(path) /\ (j + 1) - 1 = j
        BY <1>1
      <4> QED
        BY <1>2, <1>6, <2>1, <3>1, <4>1 DEF Along, Follow
    <3> QED
      BY <1>2, <1>6, <1>7, <2>1, <3>1, <3>2
  <2>2. CASE d < j
    <3>1. /\ W[d] \in Tables /\ W[d + 1] \in R /\ OnlyChanged(h, g, W[d], path[d + 1])
          /\ h[T] = Free
      BY <1>2, <2>2 DEF Grown
    <3>2. ASSUME NEW u \in Tables, NEW l \in Keys, h[u] # Free, u # W[d] \/ l # path[d + 1]
          PROVE  f[u][l] = h[u][l]
      <4>1. g[u][l] = h[u][l] /\ g[u] # Free /\ u # T
        BY <1>3, <3>1, <3>2 DEF OnlyChanged, Grew
      <4> QED
        BY <1>7, <4>1 DEF OnlyChanged
    <3> QED
      BY <3>1, <3>2 DEF OnlyChanged
  <2> QED
    BY <1>3, <2>1, <2>2
<1>16. \A i \in 0 .. d : D[i] = W[i]
  BY <1>3, <1>9 DEF Grown
<1>17. d \in 0 .. j + 1 /\ d < j + 1 /\ d # j + 1
  BY <1>3
<1>18. Grown(h, f, D, path, W, j + 1, d, R)
  BY <1>7, <1>9, <1>11, <1>12, <1>13, <1>14, <1>15, <1>16, <1>17 DEF Grown
<1> QED
  BY <1>9, <1>18

--------------------------------------------------------------------------------
(* One level of a write *)

(* j values were pushed onto o; the table T is where the key k is looked up. *)
Placed(m, i, g, o, j, T, k, direct) ==
  \E t : m = Machine(t, g) /\ Above(t, o, j) /\ Stands(t, k, i, direct, T)

LEMMA ArrivedPlaced ==
  ASSUME NEW m, NEW i, NEW g, NEW o, NEW j, NEW w, Arrived(m, i, g, o, j, w), NEW k,
         NEW no \in BOOLEAN, ~no
  PROVE  Placed(m, i, g, o, j, w, k, no)
<1>1. PICK t : /\ m = Machine(t, g) /\ Above(t, o, j)
               /\ Len(t) \in Nat /\ Len(t) > 0 /\ i = Len(t) /\ t[Len(t)] = w
  BY DEF Arrived
<1>2. Stands(t, k, i, no, w)
  BY <1>1 DEF Stands
<1> QED
  BY <1>1, <1>2 DEF Placed

LEMMA HeapReplaced ==
  ASSUME NEW t, NEW h, NEW err, NEW g
  PROVE  [[s |-> t, h |-> h, err |-> err] EXCEPT !.h = g] = [s |-> t, h |-> g, err |-> err]
  BY SMT

LEMMA MachineHeap ==
  ASSUME NEW t, NEW h, NEW g
  PROVE  [Machine(t, h) EXCEPT !.h = g] = Machine(t, g)
<1>1. PICK err : err = FALSE
  OBVIOUS
<1>2. Machine(t, h) = [s |-> t, h |-> h, err |-> err] /\ Machine(t, g) = [s |-> t, h |-> g, err |-> err]
  BY <1>1, Zenon DEF Machine
<1>3. PICK m, n : m = Machine(t, h) /\ n = [m EXCEPT !.h = g]
  OBVIOUS
<1>4. m = [s |-> t, h |-> h, err |-> err]
  BY <1>2, <1>3
<1>5. n = [[s |-> t, h |-> h, err |-> err] EXCEPT !.h = g]
  BY <1>3, <1>4
<1> QED
  BY <1>2, <1>3, <1>5, HeapReplaced

LEMMA MachineNew ==
  ASSUME NEW t, NEW g, Sequence(t)
  PROVE  /\ Unused(g) = {} => Wrecked(PushNew(Machine(t, g)))
         /\ Unused(g) # {} => \E n \in Unused(g) :
              PushNew(Machine(t, g)) = Machine(Append(t, n), Emptied(g, n))
<1>1. PICK m : m = Machine(t, g)
  OBVIOUS
<1>2. m.h = g
  BY <1>1 DEF Machine
<1>3. CASE Unused(g) = {}
  <2>1. PushNew(m) = Raised(m)
    BY <1>2, <1>3 DEF PushNew
  <2> QED
    BY <1>1, <1>3, <2>1, MachineRaised
<1>4. CASE Unused(g) # {}
  <2>1. PICK n : n = CHOOSE u \in Unused(g) : TRUE
    OBVIOUS
  <2>2. n \in Unused(g)
    BY <1>4, <2>1
  <2>3. PICK e : e = Emptied(g, n)
    OBVIOUS
  <2>4. PushNew(m) = PushV([m EXCEPT !.h = e], n)
    BY <1>2, <1>4, <2>1, <2>3 DEF PushNew, Emptied
  <2>5. [m EXCEPT !.h = e] = Machine(t, e)
    BY <1>1, MachineHeap
  <2>6. PushNew(m) = Machine(Append(t, n), e)
    BY <2>4, <2>5, MachinePush
  <2> QED
    BY <1>1, <1>4, <2>2, <2>3, <2>6
<1> QED
  BY <1>3, <1>4

LEMMA FieldSet ==
  ASSUME NEW t, NEW g, Sequence(t), NEW k, NEW v, NEW i, NEW direct \in BOOLEAN, NEW T,
         Stands(t, k, i, direct, T)
  PROVE  /\ T \in Tables => SetField(Machine(t, g), k, v, i, direct) = Machine(t, Written(g, T, k, v))
         /\ T \notin Tables => Wrecked(SetField(Machine(t, g), k, v, i, direct))
<1>1. PICK m : m = Machine(t, g)
  OBVIOUS
<1>2. m.err = FALSE /\ m.h = g
  BY <1>1 DEF Machine
<1>3. PICK u : u = IF direct /\ k \in DirectKeys THEN Globals ELSE At(m, i)
  OBVIOUS
<1>4. u = T
  <2>1. CASE direct
    BY <1>3, <2>1 DEF Stands
  <2>2. CASE ~direct
    <3>1. At(m, i) = T
      BY <1>1, <2>2, MachineAt DEF Stands
    <3> QED
      BY <1>3, <2>2, <3>1
  <2> QED
    BY <2>1, <2>2
<1>5. PICK f : f = Written(g, T, k, v)
  OBVIOUS
<1>6. SetField(m, k, v, i, direct) = IF m.err \/ u \notin Tables THEN Raised(m) ELSE [m EXCEPT !.h = f]
  BY <1>2, <1>3, <1>4, <1>5 DEF SetField, Written
<1>7. [m EXCEPT !.h = f] = Machine(t, f) /\ Wrecked(Raised(m))
  BY <1>1, MachineHeap, MachineRaised
<1> QED
  BY <1>1, <1>2, <1>4, <1>5, <1>6, <1>7

(* A new table in the place of a level that was pushed. *)
LEMMA CreatedThere ==
  ASSUME NEW t, NEW g, NEW o, NEW j, Above(t, o, j), NEW k, NEW i, NEW direct \in BOOLEAN,
         NEW T \in Tables, Stands(t, k, i, direct, T), NEW v,
         NEW c, c = Created(Machine(Append(t, v), g), k, i, direct)
  PROVE  /\ Unused(g) = {} => Wrecked(c)
         /\ Unused(g) # {} => \E n \in Unused(g) :
              Arrived(c, Len(c.s), Filling(g, T, k, n), o, j + 1, n)
<1>1. Sequence(t)
  BY DEF Above
<1>2. PopV(Machine(Append(t, v), g), 1) = Machine(t, g)
  <2>1. Above(t, t, 0)
    BY <1>1, AboveItself
  <2>2. Above(Append(t, v), t, 0 + 1)
    BY <2>1, OneMore
  <2>3. Pop(Append(t, v), 1) = t
    BY <2>2, PopAbove
  <2> QED
    BY <2>3, MachinePop
<1>3. PICK p : p = PushNew(Machine(t, g))
  OBVIOUS
<1>4. c = SetField(p, k, Top(p), i, direct)
  BY <1>2, <1>3 DEF Created
<1>5. CASE Unused(g) = {}
  <2>1. Wrecked(p)
    BY <1>1, <1>3, <1>5, MachineNew
  <2>2. p.err /\ Raised(p) = p
    BY <2>1, RaisedStays
  <2>3. c = p
    BY <1>4, <2>2 DEF SetField
  <2> QED
    BY <1>5, <2>1, <2>3
<1>6. CASE Unused(g) # {}
  <2>1. PICK n \in Unused(g) : p = Machine(Append(t, n), Emptied(g, n))
    BY <1>1, <1>3, <1>6, MachineNew
  <2>2. PICK u, e : u = Append(t, n) /\ e = Emptied(g, n)
    OBVIOUS
  <2>3. /\ Sequence(u) /\ Len(u) = Len(t) + 1 /\ u[Len(t) + 1] = n /\ Len(t) \in Nat
        /\ \A l \in 1 .. Len(t) : u[l] = t[l]
    BY <1>1, <2>2, Appended, SequenceFacts
  <2>4. Top(p) = n
    <3>1. p = Machine(u, e) /\ Len(u) > 0 /\ u[Len(u)] = n
      BY <2>1, <2>2, <2>3
    <3> QED
      BY <2>3, <3>1, MachineTop
  <2>5. Stands(u, k, i, direct, T)
    BY <2>3 DEF Stands
  <2>6. c = Machine(u, Written(e, T, k, n))
    BY <1>4, <2>1, <2>2, <2>3, <2>4, <2>5, FieldSet
  <2>7. c = Machine(u, Filling(g, T, k, n))
    BY <2>2, <2>6 DEF Filling
  <2>7a. c.s = u
    BY <2>7 DEF Machine
  <2>8. Above(u, o, j + 1)
    BY <2>2, OneMore
  <2>9. Arrived(c, Len(c.s), Filling(g, T, k, n), o, j + 1, n)
    BY <2>3, <2>7, <2>7a, <2>8 DEF Arrived
  <2> QED
    BY <1>6, <2>9
<1> QED
  BY <1>5, <1>6

(* The values an intermediate level makes way for a new table. *)
Fillable(mode) ==
  CASE mode = "none" -> {}
    [] mode = "override" -> (Held \cup {Nil}) \ Tables
    [] OTHER -> {Nil}

LEMMA FillableFacts ==
  ASSUME NEW mode
  PROVE  /\ Fillable(mode) \cap Tables = {} /\ (Fillable(mode) = {} \/ Nil \in Fillable(mode))
         /\ mode # "override" => Fillable(mode) \subseteq {Nil}
  BY NilIsNothing DEF Fillable, Held

LEMMA FilledGoes ==
  ASSUME NEW m, NEW i, NEW g, NEW o, NEW j, NEW T, NEW k, NEW direct \in BOOLEAN,
         Placed(m, i, g, o, j, T, k, direct), NEW mode \in Modes,
         NEW f, f = Filled(GetField(m, k, i, direct), k, i, direct, mode),
         T \in Tables => g[T][k] \in Held \cup {Nil}
  PROVE  /\ T \notin Tables => Wrecked(f)
         /\ T \in Tables /\ g[T][k] \notin Fillable(mode) =>
              Arrived(f, Len(f.s), g, o, j + 1, g[T][k])
         /\ T \in Tables /\ g[T][k] \in Fillable(mode) /\ Unused(g) = {} => Wrecked(f)
         /\ T \in Tables /\ g[T][k] \in Fillable(mode) /\ Unused(g) # {} =>
              \E n \in Unused(g) : Arrived(f, Len(f.s), Filling(g, T, k, n), o, j + 1, n)
<1>1. PICK t : m = Machine(t, g) /\ Above(t, o, j) /\ Stands(t, k, i, direct, T)
  BY DEF Placed
<1>2. PICK p : p = GetField(m, k, i, direct)
  OBVIOUS
<1>3. Points(t, k, i, direct, T) /\ Sequence(t)
  BY <1>1, StandsPoints DEF Above
<1>4. CASE T \notin Tables
  <2>1. Wrecked(p)
    BY <1>1, <1>2, <1>3, <1>4, FieldGot
  <2>2. p.err
    BY <2>1, RaisedStays
  <2>3. f = p
    BY <1>2, <2>2 DEF Filled
  <2> QED
    BY <1>4, <2>1, <2>3
<1>5. CASE T \in Tables
  <2>1. PICK v : v = g[T][k]
    OBVIOUS
  <2>2. p = Machine(Append(t, v), g)
    BY <1>1, <1>2, <1>3, <1>5, <2>1, FieldGot
  <2>3. Arrived(p, Len(p.s), g, o, j + 1, v)
    BY <1>1, <1>2, <1>3, <1>5, <2>1, ArriveFrom
  <2>4. Top(p) = v /\ p.err = FALSE
    BY <2>3, ArrivedTop
  <2>5. f = IF v \in Fillable(mode) THEN Created(p, k, i, direct) ELSE p
    BY <1>2, <1>5, <2>1, <2>4 DEF Filled, Fillable, Modes
  <2>6. CASE v \notin Fillable(mode)
    BY <1>5, <2>1, <2>3, <2>5, <2>6
  <2>7. CASE v \in Fillable(mode)
    <3>1. f = Created(Machine(Append(t, v), g), k, i, direct)
      BY <2>2, <2>5, <2>7
    <3> QED
      BY <1>1, <1>5, <2>1, <2>7, <3>1, CreatedThere
  <2> QED
    BY <2>6, <2>7
<1> QED
  BY <1>4, <1>5

(* The last key. *)
StoredIn(g, T, k, v, mode) ==
  IF mode = "update" /\ g[T][k] # Nil THEN g ELSE Written(g, T, k, v)

LEMMA StoredGoes ==
  ASSUME NEW m, NEW i, NEW g, NEW o, NEW j, NEW T, NEW k, NEW direct \in BOOLEAN,
         Placed(m, i, g, o, j, T, k, direct), NEW mode, NEW v,
         NEW done, done = Stored(m, k, v, i, direct, mode)
  PROVE  /\ T \notin Tables => done.err
         /\ T \in Tables => \E t : done = Machine(t, StoredIn(g, T, k, v, mode)) /\ Above(t, o, j)
<1>1. PICK t : m = Machine(t, g) /\ Above(t, o, j) /\ Stands(t, k, i, direct, T)
  BY DEF Placed
<1>2. Points(t, k, i, direct, T) /\ Sequence(t) /\ (direct => k \in DirectKeys)
  BY <1>1, StandsPoints DEF Above, Stands
<1>3. PICK p : p = Probe(m, k, i, direct, "some")
  OBVIOUS
<1>4. m.err = FALSE
  BY <1>1 DEF Machine
<1>5. PICK after : after = IF mode = "update" /\ ~m.err THEN PopV(p.m, p.levels) ELSE m
  OBVIOUS
<1>6. done = IF mode = "update" /\ p.ok THEN after ELSE SetField(after, k, v, i, direct)
  BY <1>3, <1>5 DEF Stored
<1>7. /\ T \in Tables => /\ p.levels = 1 /\ (p.ok <=> g[T][k] # Nil)
                         /\ PopV(p.m, p.levels) = m
      /\ T \notin Tables => ~p.ok /\ p.levels = 0 /\ p.m = m
  <2>1. Above(t, t, 0)
    BY <1>2, AboveItself
  <2>1a. PICK one : one = 0 + 1
    OBVIOUS
  <2>2. /\ T \in Tables => /\ p.levels = 1 /\ (p.ok <=> IsA(g[T][k], "some"))
                           /\ Arrived(p.m, Len(p.m.s), g, t, one, g[T][k])
        /\ T \notin Tables => p.levels = 0 /\ ~p.ok /\ p.m = Machine(t, g)
    BY <1>1, <1>2, <1>3, <2>1, <2>1a, Probed
  <2>3. ASSUME T \in Tables PROVE PopV(p.m, one) = Machine(t, g)
    <3>1. PICK a, b, w : a = p.m /\ b = Len(p.m.s) /\ w = g[T][k]
      OBVIOUS
    <3>2. Arrived(a, b, g, t, one, w)
      BY <2>2, <2>3, <3>1
    <3>3. PopV(a, one) = Machine(t, g)
      BY <3>2, ArrivedTop, Zenon
    <3> QED
      BY <3>1, <3>3, Zenon
  <2> QED
    BY <1>1, <2>1a, <2>2, <2>3 DEF IsA
<1>8. PopV(m, 0) = m
  <2>1. Above(t, t, 0)
    BY <1>2, AboveItself
  <2>2. Pop(t, 0) = t
    BY <2>1, PopAbove
  <2> QED
    BY <1>1, <2>2, MachinePop
<1>9. after = m
  BY <1>5, <1>7, <1>8
<1>10. /\ T \in Tables => SetField(m, k, v, i, direct) = Machine(t, Written(g, T, k, v))
       /\ T \notin Tables => Wrecked(SetField(m, k, v, i, direct))
  BY <1>1, <1>2, FieldSet
<1>11. CASE T \notin Tables
  BY <1>6, <1>7, <1>9, <1>10, <1>11, RaisedStays
<1>12. CASE T \in Tables
  <2>1. done = Machine(t, StoredIn(g, T, k, v, mode))
    BY <1>1, <1>6, <1>7, <1>9, <1>10, <1>12 DEF StoredIn
  <2> QED
    BY <1>1, <1>12, <2>1
<1> QED
  BY <1>11, <1>12

LEMMA WreckedStored ==
  ASSUME NEW m, Wrecked(m), NEW k, NEW v, NEW i, NEW direct, NEW mode,
         NEW done, done = Stored(m, k, v, i, direct, mode)
  PROVE  done.err
<1>1. m.err /\ Raised(m) = m
  BY RaisedStays
<1>2. PICK p : p = Probe(m, k, i, direct, "some")
  OBVIOUS
<1>3. done \in {m, SetField(m, k, v, i, direct)}
  BY <1>1, <1>2 DEF Stored
<1>4. SetField(m, k, v, i, direct) = m
  BY <1>1 DEF SetField
<1> QED
  BY <1>1, <1>3, <1>4

--------------------------------------------------------------------------------
(* The walk of a write *)

(* override_value, and a table to create for every key. *)
Roomy(sure, mode, h, path) ==
  sure => mode = "override" /\ Cardinality(Unused(h)) >= Len(path)

(* After j keys; with enough room, override_value always has a table. *)
Levelled(m, i, h, o, path, W, j, R, direct, sure) ==
  \E g, C, d :
    /\ Grown(h, g, C, path, W, j, d, R) /\ C[0] = W[0]
    /\ Placed(m, i, g, o, j, C[j], path[j + 1], direct)
    /\ sure => C[j] \in Tables

LEMMA LevelStarts ==
  ASSUME NEW h, Fits(h), NEW path \in Paths, NEW W, Along(h, path, W), NEW o, Sequence(o), NEW i,
         NEW direct \in BOOLEAN, Stands(o, path[1], i, direct, W[0]), NEW R, NEW sure
  PROVE  Levelled(Machine(o, h), i, h, o, path, W, 0, R, direct, sure)
<1>1. PICK C : C = [n \in {0} |-> W[0]]
  OBVIOUS
<1>2. C[0] = W[0] /\ W[0] \in Tables
  BY <1>1 DEF Along
<1>3. Chain(h, C, path, 0) /\ Grew(h, h)
  BY DEF Chain, Grew
<1>4. Grown(h, h, C, path, W, 0, 0, R)
  BY <1>2, <1>3, UnusedFinite DEF Grown
<1>5. Above(o, o, 0)
  BY AboveItself
<1>6. Placed(Machine(o, h), i, h, o, 0, C[0], path[0 + 1], direct)
  BY <1>2, <1>5 DEF Placed
<1> QED
  BY <1>2, <1>4, <1>6 DEF Levelled

(* The table a level is at. *)
LEMMA LevelTable ==
  ASSUME NEW h, NEW g, NEW C, NEW path \in Paths, NEW W, Along(h, path, W), C[0] = W[0],
         NEW j \in 0 .. Len(path) - 1, NEW d, NEW R, Grown(h, g, C, path, W, j, d, R)
  PROVE  /\ Fits(g) /\ There(g, C[j]) /\ path[j + 1] \in Keys
         /\ C[j] \in Tables => g[C[j]][path[j + 1]] \in Held \cup {Nil}
<1>1. Len(path) \in Nat /\ \A n \in 1 .. Len(path) : path[n] \in Keys
  BY PathFacts
<1>2. Fits(g) /\ Grew(h, g) /\ Chain(g, C, path, j)
  BY DEF Grown
<1>3. There(g, C[0])
  BY <1>2 DEF Along, Grew, There
<1>4. There(g, C[j])
  <2>1. j \in 0 .. Len(path) /\ j \in 0 .. j
    BY <1>1
  <2> QED
    BY <1>2, <1>3, <2>1, ChainThere
<1>5. path[j + 1] \in Keys
  BY <1>1
<1> QED
  BY <1>2, <1>4, <1>5, FieldThere DEF There

LEMMA SettingStep ==
  ASSUME NEW h, NEW path \in Paths, NEW W, Along(h, path, W), NEW o,
         NEW m, NEW i, NEW j \in 0 .. Len(path) - 2, NEW mode \in Modes,
         NEW R, R = Fillable(mode), NEW direct \in BOOLEAN,
         NEW sure \in BOOLEAN,
         Roomy(sure, mode, h, path),
         Levelled(m, i, h, o, path, W, j, R, direct, sure), NEW no \in BOOLEAN, ~no,
         NEW k, k = path[j + 1],
         NEW f, f = Filled(GetField(m, k, i, direct), k, i, direct, mode)
  PROVE  (Wrecked(f) /\ ~sure) \/ Levelled(f, Len(f.s), h, o, path, W, j + 1, R, no, sure)
<1>1. Len(path) \in Nat /\ j \in 0 .. Len(path) - 1 /\ j \in Nat
  BY PathFacts
<1>2. PICK g, C, d : /\ Grown(h, g, C, path, W, j, d, R) /\ C[0] = W[0]
                     /\ Placed(m, i, g, o, j, C[j], path[j + 1], direct)
                     /\ sure => C[j] \in Tables
  BY DEF Levelled
<1>3. PICK T : T = C[j]
  OBVIOUS
<1>4. /\ Fits(g) /\ There(g, T) /\ k \in Keys
      /\ T \in Tables => g[T][k] \in Held \cup {Nil}
  BY <1>1, <1>2, <1>3, LevelTable
<1>5. R \cap Tables = {} /\ (R = {} \/ Nil \in R)
  BY FillableFacts
<1>6. /\ T \notin Tables => Wrecked(f)
      /\ T \in Tables /\ g[T][k] \notin R => Arrived(f, Len(f.s), g, o, j + 1, g[T][k])
      /\ T \in Tables /\ g[T][k] \in R /\ Unused(g) = {} => Wrecked(f)
      /\ T \in Tables /\ g[T][k] \in R /\ Unused(g) # {} =>
           \E n \in Unused(g) : Arrived(f, Len(f.s), Filling(g, T, k, n), o, j + 1, n)
  BY <1>2, <1>3, <1>4, FilledGoes
<1>7. CASE T \notin Tables
  BY <1>2, <1>3, <1>6, <1>7
<1>8. CASE T \in Tables /\ g[T][k] \notin R
  <2>1. d = j /\ g = h /\ C[j] = W[j]
    BY <1>1, <1>2, <1>3, <1>5, <1>8, GrownStays
  <2>2. PICK D : Grown(h, g, D, path, W, j + 1, j + 1, R)
    BY <1>1, <1>2, <1>3, <1>5, <1>8, GrownStays
  <2>3. D[0] = W[0] /\ D[j] = W[j]
    BY <1>1, <2>2 DEF Grown
  <2>4. D[j + 1] = g[D[j]][path[j + 1]]
    <3>1. j + 1 \in 1 .. j + 1 /\ (j + 1) - 1 = j
      BY <1>1
    <3> QED
      BY <2>2, <3>1 DEF Grown, Chain
  <2>5. D[j + 1] = g[T][k]
    BY <1>3, <2>1, <2>3, <2>4
  <2>6. Arrived(f, Len(f.s), g, o, j + 1, D[j + 1])
    BY <1>6, <1>8, <2>5
  <2>7. Placed(f, Len(f.s), g, o, j + 1, D[j + 1], path[(j + 1) + 1], no)
    BY <2>6, ArrivedPlaced
  <2>8. sure => D[j + 1] \in Tables
    BY <1>4, <1>8, <2>5 DEF Fillable, Roomy
  <2> QED
    BY <2>2, <2>3, <2>7, <2>8 DEF Levelled
<1>9. CASE T \in Tables /\ g[T][k] \in R /\ Unused(g) = {}
  <2>1. ASSUME sure PROVE FALSE
    <3>1. Cardinality(Unused(g)) = 0
      BY <1>9, FS_EmptySet
    <3>2. Cardinality(Unused(g)) + (j - d) >= Cardinality(Unused(h)) /\ d \in 0 .. j
      BY <1>2 DEF Grown
    <3>3. Cardinality(Unused(h)) \in Nat
      BY UnusedFinite
    <3> QED
      BY <1>1, <2>1, <3>1, <3>2, <3>3 DEF Roomy
  <2> QED
    BY <1>6, <1>9, <2>1
<1>10. CASE T \in Tables /\ g[T][k] \in R /\ Unused(g) # {}
  <2>1. PICK n \in Unused(g) : Arrived(f, Len(f.s), Filling(g, T, k, n), o, j + 1, n)
    BY <1>6, <1>10
  <2>2. PICK q : q = Filling(g, T, k, n)
    OBVIOUS
  <2>3. PICK D : Grown(h, q, D, path, W, j + 1, d, R) /\ D[j + 1] = n
    BY <1>1, <1>2, <1>3, <1>5, <1>10, <2>2, GrownGrows
  <2>4. D[0] = W[0]
    <3>1. 0 \in 0 .. d
      BY <1>1, <1>2 DEF Grown
    <3> QED
      BY <2>3, <3>1 DEF Grown
  <2>5. Arrived(f, Len(f.s), q, o, j + 1, D[j + 1])
    BY <2>1, <2>2, <2>3
  <2>6. Placed(f, Len(f.s), q, o, j + 1, D[j + 1], path[(j + 1) + 1], no)
    BY <2>5, ArrivedPlaced
  <2>7. D[j + 1] \in Tables
    BY <2>3 DEF Unused
  <2> QED
    BY <2>3, <2>4, <2>6, <2>7 DEF Levelled
<1> QED
  BY <1>7, <1>8, <1>9, <1>10

(* Where a write has come when it stores its value. *)
Landed(r, s, h, path, W, v, mode, R) ==
  \E g, C, d : /\ Grown(h, g, C, path, W, Len(path) - 1, d, R) /\ C[0] = W[0]
               /\ C[Len(path) - 1] \in Tables
               /\ r = Machine(s, StoredIn(g, C[Len(path) - 1], path[Len(path)], v, mode))

LEMMA WrittenOrNot ==
  ASSUME NEW s, Sequence(s), NEW h, Fits(h), Standing(s, h), NEW start \in Starts(s),
         NEW path \in Paths, NEW v, NEW mode \in Modes, NEW m, m = Machine(s, h),
         NEW W, W = Followed(h, TableOf(m, start), path), NEW R, R = Fillable(mode),
         NEW sure \in BOOLEAN,
         Roomy(sure, mode, h, path),
         NEW r, r = TraverseSet(m, start, path, v, mode)
  PROVE  (r.err /\ ~sure) \/ Landed(r, s, h, path, W, v, mode, R)
<1>1. Len(path) \in Nat /\ Len(path) - 1 \in Nat
  BY PathFacts
<1>2. PICK global \in BOOLEAN : global = Tableless(start, path)
  BY DEF Tableless
<1>3. PICK G : G = Setting(m, start, path, global, mode)
  OBVIOUS
<1>4. PICK above : above = G[Len(path) - 1]
  OBVIOUS
<1>5. PICK done : done = Stored(above.m, path[Len(path)], v, above.i, global /\ Len(path) = 1, mode)
  OBVIOUS
<1>6. r = IF done.err THEN Raised(m) ELSE Closed(PopV(done, Len(path) - 1), start, global)
  BY <1>2, <1>3, <1>4, <1>5 DEF TraverseSet, Setting
<1>7. PICK i, x : i = IndexOf(m, start, global) /\ x = TableOf(m, start)
  OBVIOUS
<1>8. PICK o : /\ x \in Tables /\ Sequence(o) /\ Opened(m, start, global) = Machine(o, h)
               /\ Stands(o, path[1], i, global, x)
               /\ \A g : Closed(Machine(o, g), start, global) = Machine(s, g)
  <2>1. global => Tableless(start, path)
    BY <1>2
  <2> QED
    BY <1>7, <2>1, Beginning
<1>9. Along(h, path, W) /\ W[0] = x
  <2>1. /\ W[0] = x
        /\ \A n \in 1 .. Len(path) : W[n] = Follow(h, path, n, W[n - 1])
    BY <1>1, <1>7, LookupFollows
  <2>2. h[x] # Free
    <3>1. m.s = s /\ DOMAIN s = 1 .. Len(s)
      BY SequenceFacts DEF Machine
    <3> QED
      BY <1>7, <1>8, <3>1, TableAssumption DEF TableOf, Starts, Fits, Standing, There
  <2> QED
    BY <1>8, <2>1, <2>2 DEF Along
<1>10. /\ G[0] = [m |-> Machine(o, h), i |-> i]
       /\ \A n \in 1 .. Len(path) - 1 : G[n] = SetStep(G[n - 1], path, n, global, mode)
  <2>1. /\ G[0] = [m |-> Opened(m, start, global), i |-> IndexOf(m, start, global)]
        /\ \A n \in 1 .. Len(path) - 1 : G[n] = SetStep(G[n - 1], path, n, global, mode)
    <3>1. Len(path) - 1 \in Nat
      BY <1>1
    <3>2. SettingSteps(G, m, start, path, global, mode)
      BY <1>3, <3>1, SettingGoes, Zenon
    <3> QED
      BY <3>2, Zenon DEF SettingSteps
  <2> QED
    BY <1>7, <1>8, <2>1, Zenon
<1>11. PICK no \in BOOLEAN : ~no
  OBVIOUS
<1> DEFINE Here(n) == \/ Wrecked(G[n].m) /\ ~sure
                      \/ \E direct \in BOOLEAN : direct = (global /\ n = 0) /\
                           Levelled(G[n].m, G[n].i, h, o, path, W, n, R, direct, sure)
           P == {n \in Nat : Here(n)}
<1>12. 0 \in P
  <2>1. Levelled(Machine(o, h), i, h, o, path, W, 0, R, global, sure)
    BY <1>8, <1>9, LevelStarts
  <2>2. G[0].m = Machine(o, h) /\ G[0].i = i
    BY <1>10
  <2> QED
    BY <2>1, <2>2
<1>13. ASSUME NEW n \in 1 .. Len(path) - 1, n - 1 \in P PROVE n \in P
  <2>1. PICK a, b : a = G[n - 1] /\ b = G[n]
    OBVIOUS
  <2>2. PICK direct \in BOOLEAN : direct = (global /\ n = 1)
    OBVIOUS
  <2>3. PICK k : k = path[n]
    OBVIOUS
  <2>4. PICK f : f = Filled(GetField(a.m, k, a.i, direct), k, a.i, direct, mode)
    OBVIOUS
  <2>5. b.m = f /\ b.i = Len(f.s)
    <3>1. b = SetStep(a, path, n, global, mode)
      BY <1>10, <2>1
    <3> QED
      BY <2>2, <2>3, <2>4, <3>1 DEF SetStep
  <2>6. PICK j : j = n - 1
    OBVIOUS
  <2>7. j \in 0 .. Len(path) - 2 /\ k = path[j + 1] /\ j + 1 = n /\ n \in Nat
    BY <1>1, <2>3, <2>6
  <2>8. CASE Wrecked(a.m) /\ ~sure
    <3>1. GetField(a.m, k, a.i, direct) = a.m /\ a.m.err
      BY <2>8, WreckedStays
    <3>2. f = a.m
      BY <2>4, <3>1 DEF Filled
    <3> QED
      BY <2>1, <2>5, <2>7, <2>8, <3>2
  <2>9. CASE Levelled(a.m, a.i, h, o, path, W, j, R, direct, sure)
    <3>1. PICK am, ai : am = a.m /\ ai = a.i
      OBVIOUS
    <3>2. Levelled(am, ai, h, o, path, W, j, R, direct, sure)
      BY <2>9, <3>1
    <3>3. f = Filled(GetField(am, k, ai, direct), k, ai, direct, mode)
      BY <2>4, <3>1
    <3>4. (Wrecked(f) /\ ~sure) \/ Levelled(f, Len(f.s), h, o, path, W, j + 1, R, no, sure)
      BY <1>9, <1>11, <2>7, <3>2, <3>3, SettingStep
    <3>5. no = (global /\ n = 0)
      BY <1>11, <2>7
    <3> QED
      BY <2>1, <2>5, <2>7, <3>4, <3>5
  <2> QED
    BY <1>13, <2>1, <2>2, <2>6, <2>7, <2>8, <2>9
<1>14. Here(Len(path) - 1)
  <2> HIDE DEF P
  <2>1. \A n \in 0 .. Len(path) - 1 : n \in P
    BY <1>1, <1>12, <1>13, Steps
  <2>2. Len(path) - 1 \in P
    BY <1>1, <2>1
  <2> QED
    BY <2>2 DEF P
<1>15. PICK N \in Nat : N = Len(path) - 1
  BY <1>1
<1>16. PICK direct \in BOOLEAN : direct = (global /\ Len(path) = 1)
  OBVIOUS
<1>17. /\ (Wrecked(above.m) /\ ~sure) \/ Levelled(above.m, above.i, h, o, path, W, N, R, direct, sure)
       /\ done = Stored(above.m, path[Len(path)], v, above.i, direct, mode)
  BY <1>1, <1>4, <1>5, <1>14, <1>15, <1>16
<1> HIDE DEF Here, P
<1>18. Raised(m).err
  BY MachineRaised, RaisedStays
<1>19. CASE Wrecked(above.m) /\ ~sure
  <2>1. done.err
    BY <1>17, <1>19, WreckedStored
  <2> QED
    BY <1>6, <1>18, <1>19, <2>1
<1>20. CASE Levelled(above.m, above.i, h, o, path, W, N, R, direct, sure)
  <2>1. PICK g, C, d :
          /\ Grown(h, g, C, path, W, N, d, R) /\ C[0] = W[0]
          /\ Placed(above.m, above.i, g, o, N, C[N], path[N + 1], direct)
          /\ sure => C[N] \in Tables
    BY <1>20 DEF Levelled
  <2>2. PICK am, ai, T, k : am = above.m /\ ai = above.i /\ T = C[N] /\ k = path[Len(path)]
    OBVIOUS
  <2>3. Placed(am, ai, g, o, N, T, k, direct) /\ done = Stored(am, k, v, ai, direct, mode)
    BY <1>1, <1>15, <1>17, <2>1, <2>2
  <2>4. /\ T \notin Tables => done.err
        /\ T \in Tables => \E t : done = Machine(t, StoredIn(g, T, k, v, mode)) /\ Above(t, o, N)
    BY <2>3, StoredGoes
  <2>5. CASE T \notin Tables
    BY <1>6, <1>18, <2>1, <2>2, <2>4, <2>5
  <2>6. CASE T \in Tables
    <3>1. PICK q : q = StoredIn(g, T, k, v, mode)
      OBVIOUS
    <3>2. PICK t : done = Machine(t, q) /\ Above(t, o, N)
      BY <2>4, <2>6, <3>1
    <3>3. done.err = FALSE
      BY <3>2 DEF Machine
    <3>4. PopV(done, N) = Machine(o, q)
      BY <3>2, MachinePop, PopAbove
    <3>5. r = Closed(Machine(o, q), start, global)
      BY <1>6, <1>15, <3>3, <3>4
    <3>6. r = Machine(s, q)
      BY <1>8, <3>5
    <3> QED
      BY <1>15, <2>1, <2>2, <2>6, <3>1, <3>6 DEF Landed
  <2> QED
    BY <2>5, <2>6
<1> QED
  BY <1>17, <1>19, <1>20

--------------------------------------------------------------------------------
(* Where a path leads *)

LEMMA ChainLookup ==
  ASSUME NEW g, NEW C, NEW path, Len(path) \in Nat, Chain(g, C, path, Len(path))
  PROVE  Lookup(g, C[0], path) = C[Len(path)]
<1>1. PICK W : W = Followed(g, C[0], path)
  OBVIOUS
<1>2. /\ Lookup(g, C[0], path) = W[Len(path)] /\ W[0] = C[0]
      /\ \A n \in 1 .. Len(path) : W[n] = Follow(g, path, n, W[n - 1])
  BY <1>1, LookupFollows
<1> DEFINE P == {n \in Nat : W[n] = C[n]}
<1>3. 0 \in P
  BY <1>2
<1>4. ASSUME NEW n \in 1 .. Len(path), n - 1 \in P PROVE n \in P
  BY <1>2, <1>4 DEF Chain, Follow
<1>5. Len(path) \in P
  <2> HIDE DEF P
  <2>1. \A n \in 0 .. Len(path) : n \in P
    BY <1>3, <1>4, Steps
  <2> QED
    BY <2>1
<1> QED
  BY <1>2, <1>5

LEMMA PathPart ==
  ASSUME NEW path \in Paths, NEW a \in 1 .. Len(path) + 1, NEW b \in 0 .. Len(path), a <= b + 1,
         NEW part, part = SubSeq(path, a, b)
  PROVE  Len(part) = b - a + 1 /\ \A i \in 1 .. Len(part) : part[i] = path[a + i - 1]
<1>1. MaxPath \in Nat
  BY TableAssumption
<1>2. PICK n \in 1 .. MaxPath : path \in [1 .. n -> Keys]
  BY DEF Paths
<1>3. n \in Nat /\ n >= 1
  BY <1>1, <1>2
<1>4. path \in Seq(Keys) /\ Len(path) = n
  BY <1>2, <1>3
<1> QED
  BY <1>3, <1>4

LEMMA PrefixLookup ==
  ASSUME NEW h, NEW x, NEW path \in Paths, NEW n \in 0 .. Len(path)
  PROVE  Lookup(h, x, Prefix(path, n)) = Followed(h, x, path)[n]
<1>1. Len(path) \in Nat /\ n \in Nat
  BY PathFacts
<1>2. PICK p : p = SubSeq(path, 1, n)
  OBVIOUS
<1>3. Len(p) = n /\ \A i \in 1 .. n : p[i] = path[i]
  BY <1>1, <1>2, PathPart
<1>4. PICK V, W : V = Followed(h, x, p) /\ W = Followed(h, x, path)
  OBVIOUS
<1>5. /\ W[0] = x
      /\ \A i \in 1 .. Len(path) : W[i] = Follow(h, path, i, W[i - 1])
  BY <1>1, <1>4, LookupFollows
<1>6. /\ Lookup(h, x, p) = V[n] /\ V[0] = x
      /\ \A i \in 1 .. n : V[i] = Follow(h, p, i, V[i - 1])
  BY <1>1, <1>3, <1>4, LookupFollows
<1> DEFINE P == {i \in Nat : V[i] = W[i]}
<1>7. 0 \in P
  BY <1>5, <1>6
<1>8. ASSUME NEW i \in 1 .. n, i - 1 \in P PROVE i \in P
  <2>1. i \in 1 .. Len(path) /\ i \in Nat
    BY <1>1
  <2> QED
    BY <1>3, <1>5, <1>6, <1>8, <2>1 DEF Follow
<1>9. n \in P
  <2> HIDE DEF P
  <2>1. \A i \in 0 .. n : i \in P
    BY <1>1, <1>7, <1>8, Steps
  <2> QED
    BY <1>1, <2>1
<1> QED
  BY <1>2, <1>4, <1>6, <1>9 DEF Prefix

(* Nothing comes after what is no table. *)
LEMMA NothingBeyond ==
  ASSUME NEW h, NEW path \in Paths, NEW W, Along(h, path, W),
         NEW d \in 0 .. Len(path) - 1, W[d + 1] \notin Tables
  PROVE  \A n \in d + 1 .. Len(path) : W[n] \notin Tables /\ (n > d + 1 => W[n] = Nil)
<1>1. Len(path) \in Nat /\ d \in Nat
  BY PathFacts
<1> DEFINE P == {n \in Nat : n > d => W[n] \notin Tables /\ (n > d + 1 => W[n] = Nil)}
<1>2. 0 \in P
  BY <1>1
<1>3. ASSUME NEW n \in 1 .. Len(path), n - 1 \in P PROVE n \in P
  <2>1. CASE n <= d + 1
    BY <1>1, <2>1
  <2>2. CASE n > d + 1
    <3>1. W[n - 1] \notin Tables
      BY <1>1, <1>3, <2>2
    <3>2. W[n] = Nil
      BY <3>1 DEF Along, Follow
    <3> QED
      BY <1>1, <3>2, NilIsNothing
  <2> QED
    BY <1>1, <2>1, <2>2
<1>4. \A n \in 0 .. Len(path) : n \in P
  <2> HIDE DEF P
  <2> QED
    BY <1>1, <1>2, <1>3, Steps
<1> QED
  BY <1>1, <1>4

LEMMA DepthIs ==
  ASSUME NEW h, NEW x, NEW path \in Paths, NEW W, W = Followed(h, x, path), Along(h, path, W),
         NEW d \in 0 .. Len(path) - 1, W[d] \in Tables,
         d < Len(path) - 1 => W[d + 1] \notin Tables
  PROVE  Depth(h, x, path) = d
<1>1. Len(path) \in Nat /\ Len(path) - 1 \in Nat
  BY PathFacts
<1>2. PICK S : S = {n \in 0 .. Len(path) - 1 : Lookup(h, x, Prefix(path, n)) \in Tables}
  OBVIOUS
<1>3. \A n \in 0 .. Len(path) - 1 : n \in S <=> W[n] \in Tables
  BY <1>1, <1>2, PrefixLookup
<1>4. d \in S
  BY <1>3
<1>5. ASSUME NEW n \in S PROVE n <= d
  <2>1. n \in 0 .. Len(path) - 1 /\ W[n] \in Tables
    BY <1>2, <1>3, <1>5
  <2>2. ASSUME n > d PROVE FALSE
    <3>1. d < Len(path) - 1 /\ n \in d + 1 .. Len(path)
      BY <1>1, <2>1, <2>2
    <3> QED
      BY <2>1, <3>1, NothingBeyond
  <2> QED
    BY <1>1, <2>1, <2>2
<1>6. S \subseteq Int
  BY <1>1, <1>2
<1>7. Max(S) = d
  <2>1. PICK most : most = Max(S)
    OBVIOUS
  <2>2. \A n \in S : d >= n
    BY <1>1, <1>5, <1>6
  <2>3. most \in S /\ \A n \in S : most >= n
    BY <1>4, <2>1, <2>2 DEF Max
  <2>4. most <= d /\ most >= d /\ most \in Int /\ d \in Int
    BY <1>4, <1>5, <1>6, <2>3
  <2> QED
    BY <2>1, <2>4
<1> QED
  BY <1>2, <1>7 DEF Depth

--------------------------------------------------------------------------------
(* What a write that raises no error has done *)

(* Where the walk stands: C follows W to depth d, and is tables all the way. *)
Sunk(W, C, N, d) ==
  /\ d \in 0 .. N /\ W[d] \in Tables /\ C[d] = W[d] /\ (d < N => W[d + 1] \notin Tables)
  /\ \A i \in 0 .. N : C[i] \in Tables

(* What the store into one field leaves. *)
StoredAs(g, f, T, k, v, mode) ==
  /\ f[T][k] = IF mode = "update" /\ g[T][k] # Nil THEN g[T][k] ELSE v
  /\ OnlyChanged(g, f, T, k) /\ Grew(g, f)

LEMMA GrownDepth ==
  ASSUME NEW h, NEW g, NEW C, NEW path \in Paths, NEW W, Along(h, path, W),
         NEW N \in 0 .. Len(path), NEW d, NEW R, R \cap Tables = {},
         Grown(h, g, C, path, W, N, d, R), C[N] \in Tables
  PROVE  Sunk(W, C, N, d)
<1>1. Len(path) \in Nat /\ N \in Nat
  BY PathFacts
<1>2. /\ d \in 0 .. N /\ \A i \in 0 .. d : C[i] = W[i]
      /\ Chain(g, C, path, N) /\ (d < N => W[d + 1] \in R)
  BY DEF Grown
<1>3. ASSUME NEW i \in 0 .. N PROVE C[i] \in Tables
  <2>1. CASE i = N
    BY <2>1
  <2>2. CASE i # N
    <3>1. i + 1 \in 1 .. N /\ (i + 1) - 1 = i
      BY <1>1, <2>2
    <3> QED
      BY <1>2, <3>1 DEF Chain
  <2> QED
    BY <2>1, <2>2
<1>4. d \in 0 .. d /\ d \in 0 .. N
  BY <1>1, <1>2
<1>5. C[d] = W[d] /\ C[d] \in Tables
  BY <1>2, <1>3, <1>4
<1>6. d < N => W[d + 1] \notin Tables
  BY <1>2
<1>7. W[d] \in Tables
  BY <1>5
<1>8. \A i \in 0 .. N : C[i] \in Tables
  BY <1>3
<1>9. d \in 0 .. N /\ C[d] = W[d]
  BY <1>4, <1>5
<1> QED
  BY <1>6, <1>7, <1>8, <1>9 DEF Sunk

LEMMA StoredIs ==
  ASSUME NEW g, Fits(g), NEW T \in Tables, g[T] # Free, NEW k \in Keys, NEW v \in Held \cup {Nil},
         NEW mode, NEW f, f = StoredIn(g, T, k, v, mode)
  PROVE  StoredAs(g, f, T, k, v, mode)
<1>1. PICK w : w = Written(g, T, k, v)
  OBVIOUS
<1>2. /\ w[T][k] = v
      /\ \A j \in Keys : j # k => w[T][j] = g[T][j]
      /\ \A u \in Tables : u # T => w[u] = g[u]
      /\ \A u \in Tables : w[u] = Free <=> g[u] = Free
  BY <1>1, WrittenIs
<1>3. OnlyChanged(g, w, T, k) /\ Grew(g, w)
  BY <1>2 DEF OnlyChanged, Grew
<1>4. OnlyChanged(g, g, T, k) /\ Grew(g, g)
  BY DEF OnlyChanged, Grew
<1>5. f = IF mode = "update" /\ g[T][k] # Nil THEN g ELSE w
  BY <1>1 DEF StoredIn
<1>6. PICK same \in BOOLEAN : same = (mode = "update" /\ g[T][k] # Nil)
  OBVIOUS
<1>7. f = IF same THEN g ELSE w
  BY <1>5, <1>6, Zenon
<1>8. f[T][k] = IF same THEN g[T][k] ELSE v
  BY <1>2, <1>7
<1>9. OnlyChanged(g, f, T, k)
  BY <1>3, <1>4, <1>7
<1>10. Grew(g, f)
  BY <1>3, <1>4, <1>7
<1>11. f[T][k] = IF mode = "update" /\ g[T][k] # Nil THEN g[T][k] ELSE v
  BY <1>6, <1>8, Zenon
<1> QED
  BY <1>9, <1>10, <1>11 DEF StoredAs

(* The promise of a write, for the value old at the end of its path. *)
Kept(h, f, path, W, d, v, mode) ==
  LET old == W[Len(path)] IN
  /\ Lookup(f, W[d], SubSeq(path, d + 1, Len(path))) = IF mode = "update" /\ old # Nil THEN old ELSE v
  /\ FieldsChanged(h, f) \subseteq {<<W[d], path[d + 1]>>}
  /\ d + 1 < Len(path) /\ mode # "override" => h[W[d]][path[d + 1]] = Nil

KeptFrom(h, f, path, W, N, d, v, mode) ==
  /\ d \in 0 .. N /\ W[d] \in Tables /\ (d < N => W[d + 1] \notin Tables)
  /\ Kept(h, f, path, W, d, v, mode)

LEMMA LandedKeeps ==
  ASSUME NEW h, Fits(h), NEW path \in Paths, NEW W, Along(h, path, W), NEW mode \in Modes,
         NEW v \in Held \cup {Nil}, NEW R, R = Fillable(mode), NEW N, N = Len(path) - 1,
         NEW g, NEW C, NEW d, Grown(h, g, C, path, W, N, d, R), C[0] = W[0], C[N] \in Tables,
         NEW f, f = StoredIn(g, C[N], path[Len(path)], v, mode)
  PROVE  KeptFrom(h, f, path, W, N, d, v, mode)
<1>1. Len(path) \in Nat /\ N \in Nat /\ N \in 0 .. Len(path) /\ N \in 0 .. Len(path) - 1
      /\ \A i \in 1 .. Len(path) : path[i] \in Keys
  BY PathFacts
<1>2. R \cap Tables = {} /\ (mode # "override" => R \subseteq {Nil})
  BY FillableFacts
<1>3. /\ d \in 0 .. N /\ W[d] \in Tables /\ C[d] = W[d] /\ (d < N => W[d + 1] \notin Tables)
      /\ \A i \in 0 .. N : C[i] \in Tables
  <2>1. N \in 0 .. Len(path) /\ R \cap Tables = {}
    BY <1>1, <1>2
  <2>2. Sunk(W, C, N, d)
    BY <2>1, GrownDepth
  <2> QED
    BY <2>2 DEF Sunk
<1>4. PICK T, k : T = C[N] /\ k = path[Len(path)]
  OBVIOUS
<1>5. Fits(g) /\ There(g, T) /\ k \in Keys /\ g[T] # Free
  <2>1. path[N + 1] = k
    BY <1>1, <1>4
  <2>2. Fits(g) /\ There(g, C[N]) /\ path[N + 1] \in Keys
    BY <1>1, LevelTable
  <2> QED
    BY <1>4, <2>1, <2>2 DEF There
<1>6. /\ f[T][k] = IF mode = "update" /\ g[T][k] # Nil THEN g[T][k] ELSE v
      /\ OnlyChanged(g, f, T, k) /\ Grew(g, f)
  <2>1. f = StoredIn(g, T, k, v, mode)
    BY <1>4, Zenon
  <2>2. T \in Tables /\ Fits(g) /\ g[T] # Free /\ k \in Keys
    BY <1>4, <1>5
  <2>3. StoredAs(g, f, T, k, v, mode)
    BY <2>1, <2>2, StoredIs
  <2> QED
    BY <2>3 DEF StoredAs
<1>7. PICK old : old = W[Len(path)]
  OBVIOUS
<1>8. Chain(g, C, path, N) /\ Grew(h, g)
  BY DEF Grown
<1>9. ASSUME NEW i \in 0 .. N PROVE g[C[i]] # Free
  <2>1. There(g, C[0])
    BY <1>8 DEF Along, Grew, There
  <2>2. \A l \in 0 .. N : There(g, C[l])
    BY <1>1, <1>5, <1>8, <2>1, ChainThere
  <2> QED
    BY <1>3, <2>2 DEF There
<1>10. W[d + 1] = h[W[d]][path[d + 1]]
  <2>1. d + 1 \in 1 .. Len(path) /\ (d + 1) - 1 = d
    BY <1>1, <1>3
  <2> QED
    BY <1>3, <2>1 DEF Along, Follow
<1>11. /\ g[T][k] = old
       /\ d = N => T = W[d] /\ k = path[d + 1] /\ g = h
       /\ d < N => OnlyChanged(h, g, W[d], path[d + 1]) /\ h[T] = Free /\ g[T][k] = Nil
  <2>1. CASE d = N
    <3>1. g = h /\ T = W[d] /\ k = path[d + 1] /\ d + 1 = Len(path)
      BY <1>1, <1>3, <1>4, <2>1 DEF Grown
    <3> QED
      BY <1>7, <1>10, <2>1, <3>1
  <2>2. CASE d < N
    <3>1. OnlyChanged(h, g, W[d], path[d + 1]) /\ h[T] = Free /\ g[T] = NewTable
      BY <1>4, <2>2 DEF Grown
    <3>2. g[T][k] = Nil
      BY <1>5, <3>1 DEF NewTable
    <3>3. old = Nil
      <4>1. d \in 0 .. Len(path) - 1 /\ Len(path) \in d + 1 .. Len(path) /\ Len(path) > d + 1
        BY <1>1, <1>3, <2>2
      <4> QED
        BY <1>3, <1>7, <2>2, <4>1, NothingBeyond
    <3> QED
      BY <2>2, <3>1, <3>2, <3>3
  <2> QED
    BY <1>1, <1>3, <2>1, <2>2
<1>12. FieldsChanged(h, f) \subseteq {<<W[d], path[d + 1]>>}
  <2>1. ASSUME NEW u \in Tables, NEW l \in Keys, h[u] # Free, u # W[d] \/ l # path[d + 1]
        PROVE  f[u] # Free /\ f[u][l] = h[u][l]
    <3>1. g[u] # Free /\ f[u] # Free
      BY <1>6, <1>8, <2>1 DEF Grew
    <3>2. (u # T \/ l # k) /\ g[u][l] = h[u][l]
      BY <1>1, <1>3, <1>11, <2>1 DEF OnlyChanged
    <3> QED
      BY <1>6, <2>1, <3>1, <3>2 DEF OnlyChanged
  <2>2. ASSUME NEW e \in FieldsChanged(h, f) PROVE e = <<W[d], path[d + 1]>>
    <3>1. PICK u \in Tables, l \in Keys : e = <<u, l>>
      BY <2>2 DEF FieldsChanged
    <3>2. h[u] # Free /\ (f[u] = Free \/ f[u][l] # h[u][l])
      BY <2>2, <3>1 DEF FieldsChanged
    <3> QED
      BY <2>1, <3>1, <3>2
  <2> QED
    BY <2>2
<1>13. d + 1 < Len(path) /\ mode # "override" => h[W[d]][path[d + 1]] = Nil
  <2>1. ASSUME d + 1 < Len(path), mode # "override" PROVE W[d + 1] = Nil
    <3>1. W[d + 1] \in R
      BY <1>1, <1>3, <2>1 DEF Grown
    <3> QED
      BY <1>2, <2>1, <3>1
  <2> QED
    BY <1>10, <2>1
<1>14. PICK rest : rest = SubSeq(path, d + 1, Len(path))
  OBVIOUS
<1>15. Len(rest) = Len(path) - d /\ \A i \in 1 .. Len(rest) : rest[i] = path[d + i]
  <2>1. PICK a : a = d + 1
    OBVIOUS
  <2>2. a \in 1 .. Len(path) + 1 /\ Len(path) \in 0 .. Len(path) /\ a <= Len(path) + 1
        /\ rest = SubSeq(path, a, Len(path))
    BY <1>1, <1>3, <1>14, <2>1
  <2>3. Len(rest) = Len(path) - a + 1 /\ \A i \in 1 .. Len(rest) : rest[i] = path[a + i - 1]
    BY <2>2, PathPart
  <2>4. d \in Int /\ \A i \in Int : a + i - 1 = d + i
    BY <1>1, <1>3, <2>1
  <2>5. Len(rest) = Len(path) - d /\ Len(rest) \in Int
    <3>1. d \in Int /\ Len(path) \in Int /\ d <= Len(path) /\ a = d + 1
      BY <1>1, <1>3, <2>1
    <3>2. Len(rest) = Len(path) - a + 1
      BY <2>3
    <3> QED
      BY <3>1, <3>2
  <2>6. ASSUME NEW i \in 1 .. Len(rest) PROVE rest[i] = path[d + i]
    <3>1. i \in Int /\ a + i - 1 = d + i
      BY <2>4, <2>5
    <3>2. rest[i] = path[a + i - 1]
      BY <2>3
    <3> QED
      BY <3>1, <3>2
  <2> QED
    BY <2>5, <2>6
<1>16. PICK E : E = [i \in 0 .. Len(path) - d |-> IF i = Len(path) - d THEN f[T][k] ELSE C[d + i]]
  OBVIOUS
<1>17. Chain(f, E, rest, Len(rest))
  <2>1. ASSUME NEW i \in 1 .. Len(path) - d PROVE E[i - 1] \in Tables /\ E[i] = f[E[i - 1]][path[d + i]]
    <3>1. d \in Nat /\ d <= N /\ i \in Nat /\ i - 1 \in 0 .. Len(path) - d /\ i - 1 # Len(path) - d
          /\ i \in 0 .. Len(path) - d /\ d + (i - 1) \in 0 .. N
      BY <1>1, <1>3, <2>1
    <3>2. E[i - 1] = C[d + (i - 1)] /\ E[i - 1] \in Tables
      BY <1>3, <1>16, <3>1
    <3>3. CASE i = Len(path) - d
      <4>1. d + (i - 1) = N /\ d + i = Len(path)
        BY <1>1, <3>1, <3>3
      <4>2. E[i] = f[T][k]
        BY <1>16, <3>1, <3>3
      <4> QED
        BY <1>4, <3>2, <4>1, <4>2
    <3>4. CASE i # Len(path) - d
      <4>1. PICK l : l = d + i
        OBVIOUS
      <4>2. l \in 1 .. N /\ l \in 0 .. N /\ l - 1 \in 0 .. N /\ d + (i - 1) = l - 1 /\ d < N /\ l \in 1 .. Len(path)
        BY <1>1, <2>1, <3>1, <3>4, <4>1
      <4>3. E[i] = C[l] /\ E[i - 1] = C[l - 1]
        BY <1>16, <3>1, <3>2, <3>4, <4>1, <4>2
      <4>4. C[l - 1] \in Tables /\ C[l] = g[C[l - 1]][path[l]] /\ C[l] \in Tables /\ g[C[l - 1]] # Free
            /\ path[l] \in Keys
        BY <1>1, <1>3, <1>8, <1>9, <4>2 DEF Chain
      <4>5. C[l - 1] # T \/ path[l] # k
        BY <1>11, <4>2, <4>4, NilIsNothing
      <4>6. f[C[l - 1]][path[l]] = C[l]
        BY <1>6, <4>4, <4>5 DEF OnlyChanged
      <4> QED
        BY <3>2, <4>1, <4>3, <4>6
    <3> QED
      BY <3>3, <3>4
  <2> QED
    BY <1>15, <2>1 DEF Chain
<1>18. Lookup(f, W[d], rest) = f[T][k]
  <2>1. Len(rest) \in Nat /\ Len(rest) > 0
    BY <1>1, <1>3, <1>15
  <2>2. E[0] = C[d] /\ E[Len(rest)] = f[T][k]
    <3>1. 0 \in 0 .. Len(path) - d /\ 0 # Len(path) - d /\ d + 0 = d
      BY <1>1, <1>3
    <3> QED
      BY <1>15, <1>16, <2>1, <3>1
  <2>3. Lookup(f, E[0], rest) = E[Len(rest)]
    BY <1>17, <2>1, ChainLookup
  <2> QED
    BY <1>3, <2>2, <2>3
<1>19. Lookup(f, W[d], SubSeq(path, d + 1, Len(path))) = IF mode = "update" /\ old # Nil THEN old ELSE v
  BY <1>6, <1>11, <1>14, <1>18
<1> QED
  BY <1>3, <1>7, <1>12, <1>13, <1>19 DEF Kept, KeptFrom

LEMMA WritesOfStack ==
  ASSUME Sequence(stack), Fits(heap), Standing(stack, heap)
  PROVE  WritesLand
<1>1. PICK m : m = Machine(stack, heap)
  OBVIOUS
<1> SUFFICES ASSUME NEW start \in Starts(stack), NEW path \in Paths, NEW v \in Settable,
                    NEW mode \in Modes
    PROVE  LET r == TraverseSet(Machine(stack, heap), start, path, v, mode)
               t == TableOf(Machine(stack, heap), start)
               d == Depth(heap, t, path)
               q == Lookup(heap, t, Prefix(path, d))
               rest == SubSeq(path, d + 1, Len(path))
               old == Lookup(heap, t, path)
               room == Cardinality(Unused(heap)) >= Len(path)
           IN /\ mode = "override" /\ room => ~r.err
              /\ ~r.err =>
                   /\ r.s = stack
                   /\ Lookup(r.h, q, rest) = IF mode = "update" /\ old # Nil THEN old ELSE v
                   /\ FieldsChanged(heap, r.h) \subseteq {<<q, path[d + 1]>>}
                   /\ d + 1 < Len(path) /\ mode # "override" => heap[q][path[d + 1]] = Nil
  BY Zenon DEF WritesLand
<1>0. PICK r, t, d, q, old :
        /\ r = TraverseSet(m, start, path, v, mode) /\ t = TableOf(m, start)
        /\ d = Depth(heap, t, path) /\ q = Lookup(heap, t, Prefix(path, d))
        /\ old = Lookup(heap, t, path)
  OBVIOUS
<1>0a. r = TraverseSet(Machine(stack, heap), start, path, v, mode) /\ t = TableOf(Machine(stack, heap), start)
  BY <1>0, <1>1
<1> SUFFICES /\ mode = "override" /\ Cardinality(Unused(heap)) >= Len(path) => ~r.err
             /\ ~r.err =>
                  /\ r.s = stack
                  /\ Lookup(r.h, q, SubSeq(path, d + 1, Len(path)))
                       = IF mode = "update" /\ old # Nil THEN old ELSE v
                  /\ FieldsChanged(heap, r.h) \subseteq {<<q, path[d + 1]>>}
                  /\ d + 1 < Len(path) /\ mode # "override" => heap[q][path[d + 1]] = Nil
  BY <1>0, <1>0a, Zenon
<1>2. PICK W : W = Followed(heap, t, path)
  OBVIOUS
<1>3. PICK sure \in BOOLEAN : sure = (mode = "override" /\ Cardinality(Unused(heap)) >= Len(path))
  OBVIOUS
<1>4. PICK R : R = Fillable(mode)
  OBVIOUS
<1>5. Roomy(sure, mode, heap, path)
  BY <1>3 DEF Roomy
<1>6. (r.err /\ ~sure) \/ Landed(r, stack, heap, path, W, v, mode, R)
  BY <1>0, <1>1, <1>2, <1>4, <1>5, WrittenOrNot
<1>7. CASE r.err /\ ~sure
  BY <1>3, <1>7
<1>8. CASE Landed(r, stack, heap, path, W, v, mode, R)
  <2>1. Len(path) \in Nat /\ Len(path) - 1 \in Nat
    BY PathFacts
  <2>2. PICK N : N = Len(path) - 1
    OBVIOUS
  <2>3. PICK g, C, e : /\ Grown(heap, g, C, path, W, N, e, R) /\ C[0] = W[0] /\ C[N] \in Tables
                       /\ r = Machine(stack, StoredIn(g, C[N], path[Len(path)], v, mode))
    BY <1>8, <2>2 DEF Landed
  <2>4. PICK f : f = StoredIn(g, C[N], path[Len(path)], v, mode)
    OBVIOUS
  <2>5. r.s = stack /\ r.h = f /\ r.err = FALSE
    BY <2>3, <2>4 DEF Machine
  <2>6. v \in Held \cup {Nil}
    BY NilIsNothing, TableAssumption DEF Settable, Held
  <2>7. /\ W[0] = t /\ old = W[Len(path)]
        /\ \A n \in 1 .. Len(path) : W[n] = Follow(heap, path, n, W[n - 1])
    BY <1>0, <1>2, <2>1, LookupFollows
  <2>8. t \in Tables /\ heap[t] # Free
    <3>1. m.s = stack /\ DOMAIN stack = 1 .. Len(stack)
      BY <1>1, SequenceFacts DEF Machine
    <3> QED
      BY <1>0, <3>1, TableAssumption DEF TableOf, Starts, Fits, Standing, There
  <2>9. Along(heap, path, W)
    BY <2>7, <2>8 DEF Along
  <2>10. /\ e \in 0 .. N /\ W[e] \in Tables /\ (e < N => W[e + 1] \notin Tables)
         /\ Kept(heap, f, path, W, e, v, mode)
    <3>1. KeptFrom(heap, f, path, W, N, e, v, mode)
      BY <1>4, <2>2, <2>3, <2>4, <2>6, <2>9, LandedKeeps
    <3> QED
      BY <3>1 DEF KeptFrom
  <2>11. d = e
    BY <1>0, <1>2, <2>2, <2>9, <2>10, DepthIs
  <2>12. q = W[d]
    <3>1. d \in 0 .. Len(path)
      BY <2>1, <2>2, <2>10, <2>11
    <3> QED
      BY <1>0, <1>2, <3>1, PrefixLookup
  <2> QED
    BY <2>5, <2>7, <2>10, <2>11, <2>12 DEF Kept
<1> QED
  BY <1>6, <1>7, <1>8


(* However long the path and whatever the tables hold, as long as the program *)
(* keeps clear of the places Straight names: table.set, traverse_set and the  *)
(* proxy assignments, in every mode, either raise a Lua error or put the      *)
(* value where the path then leads (update_if_empty: unless a value was       *)
(* there), have changed a single field of the tables there were, below which  *)
(* only tables of their own hang, replaced no value on the way except with    *)
(* override_value, and left the stack as it was.  With override_value and     *)
(* room for the tables to create they raise no error.                         *)
THEOREM WritesAlwaysLand == Straight /\ AccessSpec => []WritesLand
<1> DEFINE Inv == Sequence(stack) /\ Fits(heap) /\ Standing(stack, heap) /\ Straight
<1>1. Straight /\ AccessInit => Inv
  BY StackBegins
<1>2. Inv /\ [AccessNext]_<<stack, heap>> => Inv'
  <2>1. ASSUME Inv, [AccessNext]_<<stack, heap>>
        PROVE  Sequence(stack)' /\ Fits(heap)' /\ Standing(stack, heap)'
    BY <2>1, StackKept
  <2> QED
    BY <2>1 DEF Straight
<1>3. Inv => WritesLand
  BY WritesOfStack
<1> QED
  BY <1>1, <1>2, <1>3, PTL DEF AccessSpec

--------------------------------------------------------------------------------
(* The walk of a read that creates *)

(* Nothing but tables and gaps along the path. *)
WayClear(path, W) == \A n \in 1 .. Len(path) : W[n] \notin Numbers

(* What a step with create_if_nil makes of a probe p and what it created, c. *)
Tried(a, b, p, c, last, want) ==
  /\ b.m = c /\ b.i = Len(c.s) /\ b.pops = a.pops + p.levels
  /\ b.ok <=> p.ok \/ (~c.err /\ (last => IsA(Top(c), want)))

LEMMA OptionalMakes ==
  ASSUME NEW a, a.ok, NEW path, NEW n, NEW no \in BOOLEAN, NEW want, NEW yes \in BOOLEAN, yes,
         NEW b, b = OptionalStep(a, path, n, no, want, yes),
         NEW direct \in BOOLEAN, direct = (no /\ n = 1),
         NEW last \in BOOLEAN, last = (n = Len(path)),
         NEW p, p = Probe(a.m, path[n], a.i, direct, IF last THEN want ELSE "some"),
         NEW c, c = IF ~p.ok THEN Created(p.m, path[n], a.i, direct) ELSE p.m
  PROVE  Tried(a, b, p, c, last, want)
  BY DEF OptionalStep, PopCount, Tried

(* A table or a gap: a gap is filled. *)
Made(p, c, g, T, k, v, o, n) ==
  /\ p.levels = 1
  /\ v \in Tables => p.ok /\ Arrived(c, Len(c.s), g, o, n, v)
  /\ v = Nil => ~p.ok
  /\ v = Nil /\ Unused(g) = {} => Wrecked(c)
  /\ v = Nil /\ Unused(g) # {} =>
       \E u \in Unused(g) : Arrived(c, Len(c.s), Filling(g, T, k, u), o, n, u)

LEMMA MadeThere ==
  ASSUME NEW m, NEW i, NEW g, NEW o, NEW j, NEW T \in Tables, NEW k, NEW direct \in BOOLEAN,
         Placed(m, i, g, o, j, T, k, direct), ~direct, NEW v, v = g[T][k],
         NEW wanted \in {"table", "some"}, NEW n, n = j + 1,
         NEW p, p = Probe(m, k, i, direct, wanted),
         NEW c, c = IF ~p.ok THEN Created(p.m, k, i, direct) ELSE p.m
  PROVE  Made(p, c, g, T, k, v, o, n)
<1>1. PICK t : m = Machine(t, g) /\ Above(t, o, j) /\ Stands(t, k, i, direct, T)
  BY DEF Placed
<1>2. Points(t, k, i, direct, T) /\ Sequence(t)
  BY <1>1, StandsPoints DEF Above
<1>3. /\ p.levels = 1 /\ (p.ok <=> IsA(v, wanted))
      /\ Arrived(p.m, Len(p.m.s), g, o, j + 1, v)
  BY <1>1, <1>2, Probed
<1>4. p.m = Machine(Append(t, v), g)
  <2>1. At(m, i) = T
    BY <1>1, <1>2, MachineAt DEF Stands
  <2>2. p.m = GetField(m, k, i, direct)
    BY <2>1 DEF Probe, Indexable
  <2>3. GetField(Machine(t, g), k, i, direct) = Machine(Append(t, g[T][k]), g)
    BY <1>2, FieldGot
  <2> QED
    BY <1>1, <2>2, <2>3
<1>5. (v \in Tables => IsA(v, wanted)) /\ (v = Nil => ~IsA(v, wanted))
  BY NilIsNothing DEF IsA
<1>6. ASSUME v = Nil
      PROVE  /\ Unused(g) = {} => Wrecked(c)
             /\ Unused(g) # {} =>
                  \E u \in Unused(g) : Arrived(c, Len(c.s), Filling(g, T, k, u), o, j + 1, u)
  <2>1. c = Created(Machine(Append(t, v), g), k, i, direct)
    BY <1>3, <1>4, <1>5, <1>6
  <2> QED
    BY <1>1, <2>1, CreatedThere
<1>7. ASSUME v \in Tables PROVE p.ok /\ Arrived(c, Len(c.s), g, o, j + 1, v)
  <2>1. p.ok /\ c = p.m
    BY <1>3, <1>5, <1>7
  <2> QED
    BY <1>3, <2>1
<1> QED
  BY <1>3, <1>5, <1>6, <1>7 DEF Made

(* After n keys every level was a table or has become one, or an error was raised. *)
Making(a, h, o, path, W, n, R, no, yes) ==
  /\ a.ok /\ a.pops = n /\ (n > 0 => a.i = Len(a.m.s))
  /\ Levelled(a.m, a.i, h, o, path, W, n, R, no, yes)

MakingOrNot(a, h, o, path, W, n, R, no, yes) ==
  (Wrecked(a.m) /\ ~a.ok) \/ Making(a, h, o, path, W, n, R, no, yes)

LEMMA CreatingStep ==
  ASSUME NEW h, NEW path \in Paths, NEW W, Along(h, path, W), WayClear(path, W), NEW o,
         NEW R, R = {Nil}, NEW no \in BOOLEAN, ~no, NEW yes \in BOOLEAN, yes,
         NEW want, want = "table", NEW j \in 0 .. Len(path) - 1,
         NEW a, Making(a, h, o, path, W, j, R, no, yes),
         NEW n, n = j + 1, NEW b, b = OptionalStep(a, path, n, no, want, yes)
  PROVE  MakingOrNot(b, h, o, path, W, n, R, no, yes)
<1>1. Len(path) \in Nat /\ j \in Nat /\ n \in 1 .. Len(path) /\ n - 1 = j
  BY PathFacts
<1>1a. a.ok /\ a.pops = j /\ Levelled(a.m, a.i, h, o, path, W, j, R, no, yes)
  BY DEF Making
<1>2. PICK m, i : m = a.m /\ i = a.i
  OBVIOUS
<1>3. PICK g, C, d : /\ Grown(h, g, C, path, W, j, d, R) /\ C[0] = W[0]
                     /\ Placed(m, i, g, o, j, C[j], path[j + 1], no)
                     /\ yes => C[j] \in Tables
  BY <1>1a, <1>2 DEF Levelled
<1>4. PICK T, k : T = C[j] /\ k = path[n]
  OBVIOUS
<1>5. PICK v : v = g[T][k]
  OBVIOUS
<1>6. PICK direct \in BOOLEAN : direct = (no /\ n = 1)
  OBVIOUS
<1>6a. PICK last \in BOOLEAN : last = (n = Len(path))
  OBVIOUS
<1>7. PICK wanted \in {"table", "some"} : wanted = IF last THEN want ELSE "some"
  OBVIOUS
<1>8. PICK p : p = Probe(m, k, i, direct, wanted)
  OBVIOUS
<1>9. PICK c : c = IF ~p.ok THEN Created(p.m, k, i, direct) ELSE p.m
  OBVIOUS
<1>10. T \in Tables /\ Placed(m, i, g, o, j, T, k, direct) /\ ~direct
  BY <1>3, <1>4, <1>6 DEF Placed, Stands
<1>11. v \in Held \cup {Nil}
  BY <1>3, <1>4, <1>5, <1>10, LevelTable
<1>12. Made(p, c, g, T, k, v, o, n)
  BY <1>5, <1>8, <1>9, <1>10, MadeThere
<1>13. Tried(a, b, p, c, last, want)
  <2>1. p = Probe(a.m, path[n], a.i, direct, IF last THEN want ELSE "some")
    BY <1>2, <1>4, <1>7, <1>8
  <2>2. c = IF ~p.ok THEN Created(p.m, path[n], a.i, direct) ELSE p.m
    BY <1>2, <1>4, <1>9
  <2> QED
    BY <1>1a, <1>6, <1>6a, <2>1, <2>2, OptionalMakes
<1>12a. /\ p.levels = 1
        /\ v \in Tables => p.ok /\ Arrived(c, Len(c.s), g, o, n, v)
        /\ v = Nil => ~p.ok
        /\ v = Nil /\ Unused(g) = {} => Wrecked(c)
        /\ v = Nil /\ Unused(g) # {} =>
             \E u \in Unused(g) : Arrived(c, Len(c.s), Filling(g, T, k, u), o, n, u)
  BY <1>12 DEF Made
<1>13a. /\ b.m = c /\ b.i = Len(c.s) /\ b.pops = j + p.levels
        /\ b.ok <=> p.ok \/ (~c.err /\ (last => IsA(Top(c), want)))
  BY <1>1a, <1>13 DEF Tried
<1>14. b.pops = n
  BY <1>1, <1>12a, <1>13a
<1>15. CASE v \in Tables
  <2>1. v \notin R
    BY <1>15, NilIsNothing
  <2>2. d = j /\ g = h /\ C[j] = W[j] /\ \E D : Grown(h, g, D, path, W, n, n, R) /\ D[n] = W[n]
    BY <1>3, <1>4, <1>5, <1>10, <2>1, GrownStays
  <2>3. PICK D : Grown(h, g, D, path, W, n, n, R) /\ D[n] = W[n]
    BY <2>2
  <2>4. D[0] = W[0]
    <3>1. 0 \in 0 .. n
      BY <1>1
    <3>2. \A l \in 0 .. n : D[l] = W[l]
      BY <2>3 DEF Grown
    <3> QED
      BY <3>1, <3>2
  <2>5. D[n] = v
    BY <1>1, <1>4, <1>5, <1>10, <2>2, <2>3 DEF Along, Follow
  <2>6. Arrived(c, Len(c.s), g, o, n, D[n])
    BY <1>12a, <1>15, <2>5
  <2>7. Placed(c, Len(c.s), g, o, n, D[n], path[n + 1], no)
    BY <2>6, ArrivedPlaced
  <2>8. Levelled(c, Len(c.s), h, o, path, W, n, R, no, yes)
    BY <1>15, <2>3, <2>4, <2>5, <2>7 DEF Levelled
  <2> QED
    BY <1>12a, <1>13a, <1>14, <1>15, <2>8 DEF Making, MakingOrNot
<1>16. CASE v = Nil /\ Unused(g) = {}
  <2>1. Wrecked(c) /\ c.err
    BY <1>12a, <1>16, RaisedStays
  <2> QED
    BY <1>12a, <1>13a, <1>16, <2>1 DEF MakingOrNot
<1>17. CASE v = Nil /\ Unused(g) # {}
  <2>1. PICK u \in Unused(g) : Arrived(c, Len(c.s), Filling(g, T, k, u), o, n, u)
    BY <1>12a, <1>17
  <2>2. PICK q : q = Filling(g, T, k, u)
    OBVIOUS
  <2>3. \E D : Grown(h, q, D, path, W, n, d, R) /\ D[n] = u
    <3>1. R \cap Tables = {} /\ g[C[j]][path[j + 1]] \in R
      BY <1>4, <1>5, <1>17, NilIsNothing
    <3> QED
      BY <1>3, <1>4, <1>10, <2>2, <3>1, GrownGrows
  <2>4. PICK D : Grown(h, q, D, path, W, n, d, R) /\ D[n] = u
    BY <2>3
  <2>5. D[0] = W[0]
    <3>1. 0 \in 0 .. d
      BY <1>1, <1>3 DEF Grown
    <3> QED
      BY <2>4, <3>1 DEF Grown
  <2>6. Arrived(c, Len(c.s), q, o, n, D[n]) /\ D[n] \in Tables
    BY <2>1, <2>2, <2>4 DEF Unused
  <2>7. Placed(c, Len(c.s), q, o, n, D[n], path[n + 1], no)
    BY <2>6, ArrivedPlaced
  <2>8. Levelled(c, Len(c.s), h, o, path, W, n, R, no, yes)
    BY <2>4, <2>5, <2>6, <2>7 DEF Levelled
  <2>9. Top(c) = D[n] /\ c.err = FALSE
    BY <2>6, ArrivedTop
  <2>10. b.ok
    BY <1>13a, <2>6, <2>9 DEF IsA
  <2> QED
    BY <1>13a, <1>14, <2>8, <2>10 DEF Making, MakingOrNot
<1>18. v \notin Numbers
  <2>1. CASE d = j
    <3>1. g = h /\ C[j] = W[j]
      BY <1>3, <2>1 DEF Grown
    <3>2. W[n] = v
      BY <1>1, <1>4, <1>5, <1>10, <3>1 DEF Along, Follow
    <3> QED
      BY <1>1, <3>2 DEF WayClear
  <2>2. CASE d < j
    <3>1. g[T] = NewTable /\ k \in Keys
      BY <1>1, <1>3, <1>4, <2>2, PathFacts DEF Grown
    <3> QED
      BY <1>5, <3>1, NilIsNothing DEF NewTable
  <2> QED
    BY <1>1, <1>3, <2>1, <2>2 DEF Grown
<1> QED
  BY <1>11, <1>15, <1>16, <1>17, <1>18 DEF Held

LEMMA ResultIs ==
  ASSUME NEW z, NEW w, NEW r, r = [m |-> z, got |-> w]
  PROVE  r.m = z /\ r.got = w
  OBVIOUS

(* What a read that created has left. *)
Reads(r, s, h, path, W, R) ==
  \E g, C, d : /\ Grown(h, g, C, path, W, Len(path), d, R) /\ C[0] = W[0]
               /\ C[Len(path)] \in Tables
               /\ r.m = Machine(s, g) /\ r.got = C[Len(path)]

LEMMA CreatedOrNot ==
  ASSUME NEW s, Sequence(s), NEW h, Fits(h), Standing(s, h), NEW start \in Starts(s),
         NEW path \in Paths, NEW m, m = Machine(s, h),
         NEW W, W = Followed(h, TableOf(m, start), path), WayClear(path, W), NEW R, R = {Nil},
         NEW want, want = "table", NEW yes \in BOOLEAN, yes,
         NEW r, r = TraverseGetOptional(m, start, path, want, yes)
  PROVE  r.m.err \/ Reads(r, s, h, path, W, R)
<1>1. Len(path) \in Nat /\ Len(path) >= 1
  BY PathFacts
<1>2. PICK no \in BOOLEAN : no = (~yes /\ Tableless(start, path))
  OBVIOUS
<1>3. ~no
  BY <1>2
<1>4. PICK G : G = OptionalGetting(m, start, path, no, want, yes)
  OBVIOUS
<1>5. PICK deep : deep = G[Len(path)]
  OBVIOUS
<1>6. r = IF deep.m.err THEN [m |-> Raised(m), got |-> Nil]
          ELSE [m |-> Closed(PopV(deep.m, deep.pops), start, no),
                got |-> IF deep.ok THEN Top(deep.m) ELSE Nil]
  BY <1>2, <1>4, <1>5 DEF TraverseGetOptional, OptionalGetting
<1>7. PICK i, x : i = IndexOf(m, start, no) /\ x = TableOf(m, start)
  OBVIOUS
<1>8. PICK o : /\ x \in Tables /\ Sequence(o) /\ Opened(m, start, no) = Machine(o, h)
               /\ Stands(o, path[1], i, no, x)
               /\ \A g : Closed(Machine(o, g), start, no) = Machine(s, g)
  BY <1>3, <1>7, Beginning
<1>9. Along(h, path, W) /\ W[0] = x
  <2>1. /\ W[0] = x
        /\ \A n \in 1 .. Len(path) : W[n] = Follow(h, path, n, W[n - 1])
    BY <1>1, <1>7, LookupFollows
  <2>2. h[x] # Free
    <3>1. m.s = s /\ DOMAIN s = 1 .. Len(s)
      BY SequenceFacts DEF Machine
    <3> QED
      BY <1>7, <1>8, <3>1, TableAssumption DEF TableOf, Starts, Fits, Standing, There
  <2> QED
    BY <1>8, <2>1, <2>2 DEF Along
<1>10. /\ G[0] = [m |-> Machine(o, h), i |-> i, pops |-> 0, ok |-> TRUE]
       /\ \A n \in 1 .. Len(path) : G[n] = OptionalStep(G[n - 1], path, n, no, want, yes)
  <2>1. /\ G[0] = [m |-> Opened(m, start, no), i |-> IndexOf(m, start, no), pops |-> 0, ok |-> TRUE]
        /\ \A n \in 1 .. Len(path) : G[n] = OptionalStep(G[n - 1], path, n, no, want, yes)
    <3>1. Len(path) \in Nat
      BY <1>1
    <3>2. OptionalSteps(G, m, start, path, no, want, yes)
      BY <1>4, <3>1, OptionalGettingGoes, Zenon
    <3> QED
      BY <3>2, Zenon DEF OptionalSteps
  <2> QED
    BY <1>7, <1>8, <2>1, Zenon
<1> DEFINE P == {n \in Nat : MakingOrNot(G[n], h, o, path, W, n, R, no, yes)}
<1>11. 0 \in P
  <2>1. Levelled(Machine(o, h), i, h, o, path, W, 0, R, no, yes)
    BY <1>8, <1>9, LevelStarts
  <2>2. G[0].m = Machine(o, h) /\ G[0].i = i /\ G[0].pops = 0
    BY <1>10
  <2>3. G[0].ok
    BY <1>10
  <2>4. PICK a : a = G[0]
    OBVIOUS
  <2>5. Making(a, h, o, path, W, 0, R, no, yes)
    <3>1. a.ok /\ a.pops = 0 /\ ~ (0 > 0)
      BY <2>2, <2>3, <2>4
    <3>2. Levelled(a.m, a.i, h, o, path, W, 0, R, no, yes)
      BY <2>1, <2>2, <2>4, Zenon
    <3> QED
      BY <3>1, <3>2, Zenon DEF Making
  <2> QED
    BY <2>4, <2>5 DEF MakingOrNot
<1>12. ASSUME NEW n \in 1 .. Len(path), n - 1 \in P PROVE n \in P
  <2>1. PICK a, b : a = G[n - 1] /\ b = G[n]
    OBVIOUS
  <2>2. PICK j : j = n - 1
    OBVIOUS
  <2>3. j \in 0 .. Len(path) - 1 /\ n = j + 1 /\ n \in Nat /\ n > 0
    BY <1>1, <2>2
  <2>4. b = OptionalStep(a, path, n, no, want, yes)
    BY <1>10, <2>1
  <2>5. CASE Wrecked(a.m) /\ ~a.ok
    <3>1. b = a
      BY <2>4, <2>5 DEF OptionalStep
    <3> QED
      BY <2>1, <2>3, <2>5, <3>1 DEF MakingOrNot
  <2>6. CASE Making(a, h, o, path, W, j, R, no, yes)
    <3>1. MakingOrNot(b, h, o, path, W, n, R, no, yes)
      BY <1>3, <1>9, <2>3, <2>4, <2>6, CreatingStep
    <3> QED
      BY <2>1, <2>3, <3>1
  <2> QED
    BY <1>12, <2>1, <2>2, <2>5, <2>6 DEF MakingOrNot
<1>13. Len(path) \in P
  <2> HIDE DEF P
  <2>1. \A n \in 0 .. Len(path) : n \in P
    BY <1>1, <1>11, <1>12, Steps
  <2> QED
    BY <1>1, <2>1
<1>14. PICK N \in Nat : N = Len(path) /\ N > 0
  BY <1>1
<1>15. \/ Wrecked(deep.m) /\ ~deep.ok
       \/ /\ deep.ok /\ deep.pops = N /\ deep.i = Len(deep.m.s)
          /\ Levelled(deep.m, deep.i, h, o, path, W, N, R, no, yes)
  BY <1>5, <1>13, <1>14 DEF MakingOrNot, Making
<1> HIDE DEF P
<1>16. CASE Wrecked(deep.m)
  <2>1. deep.m.err
    BY <1>16, RaisedStays
  <2>2. PICK z : z = Raised(m)
    OBVIOUS
  <2>3. z.err
    BY <2>2, MachineRaised, RaisedStays
  <2>4. r = [m |-> z, got |-> Nil]
    BY <1>6, <2>1, <2>2, Zenon
  <2>5. r.m = z
    BY <2>4, ResultIs
  <2> QED
    BY <2>3, <2>5
<1>17. CASE /\ deep.ok /\ deep.pops = N /\ deep.i = Len(deep.m.s)
            /\ Levelled(deep.m, deep.i, h, o, path, W, N, R, no, yes)
  <2>1. PICK dm, di : dm = deep.m /\ di = deep.i
    OBVIOUS
  <2>2. PICK g, C, d :
          /\ Grown(h, g, C, path, W, N, d, R) /\ C[0] = W[0]
          /\ Placed(dm, di, g, o, N, C[N], path[N + 1], no)
          /\ yes => C[N] \in Tables
    BY <1>17, <2>1 DEF Levelled
  <2>3. PICK t : /\ dm = Machine(t, g) /\ Above(t, o, N) /\ Stands(t, path[N + 1], di, no, C[N])
    BY <2>2 DEF Placed
  <2>4. dm.s = t /\ dm.err = FALSE
    BY <2>3 DEF Machine
  <2>5. di = Len(t) /\ Len(t) > 0 /\ t[Len(t)] = C[N] /\ Sequence(t)
    BY <1>3, <1>17, <2>1, <2>3, <2>4 DEF Stands, Above
  <2>6. Top(dm) = C[N]
    BY <2>3, <2>5, MachineTop
  <2>7. PopV(dm, N) = Machine(o, g)
    BY <2>3, MachinePop, PopAbove
  <2>8. r = [m |-> Closed(Machine(o, g), start, no), got |-> C[N]]
    BY <1>6, <1>17, <2>1, <2>4, <2>6, <2>7
  <2>9. r.m = Machine(s, g) /\ r.got = C[N]
    <3>1. PICK z : z = Closed(Machine(o, g), start, no)
      OBVIOUS
    <3>2. z = Machine(s, g)
      BY <1>8, <3>1, Zenon
    <3>3. PICK w : w = C[N]
      OBVIOUS
    <3>4. r = [m |-> z, got |-> w]
      BY <2>8, <3>1, <3>3, Zenon
    <3>5. PICK e : e = [m |-> z, got |-> w]
      OBVIOUS
    <3>6. e.m = z /\ e.got = w
      BY <3>5
    <3>7. r = e
      BY <3>4, <3>5
    <3> QED
      BY <3>2, <3>3, <3>6, <3>7
  <2> QED
    BY <1>14, <2>2, <2>9 DEF Reads
<1> QED
  BY <1>15, <1>16, <1>17

(* Only gaps were filled. *)
OnlyGaps(h, g) == \A f \in FieldsChanged(h, g) : h[f[1]][f[2]] = Nil

LEMMA GapsFilled ==
  ASSUME NEW h, NEW path \in Paths, NEW W, Along(h, path, W), NEW R, R = {Nil},
         NEW g, NEW C, NEW d, NEW N, N = Len(path), Grown(h, g, C, path, W, N, d, R), C[0] = W[0]
  PROVE  OnlyGaps(h, g) /\ Lookup(g, W[0], path) = C[N]
<1>1. Len(path) \in Nat
  BY PathFacts
<1>2. Lookup(g, W[0], path) = C[N]
  <2>1. Chain(g, C, path, Len(path))
    BY DEF Grown
  <2>2. Lookup(g, C[0], path) = C[Len(path)]
    BY <1>1, <2>1, ChainLookup
  <2> QED
    BY <2>2
<1>3. ASSUME NEW f \in FieldsChanged(h, g) PROVE h[f[1]][f[2]] = Nil
  <2>1. PICK u \in Tables, l \in Keys : f = <<u, l>>
    BY <1>3 DEF FieldsChanged
  <2>2. h[u] # Free /\ (g[u] = Free \/ g[u][l] # h[u][l])
    BY <1>3, <2>1 DEF FieldsChanged
  <2>3. g[u] # Free
    BY <2>2 DEF Grown, Grew
  <2>4. d \in 0 .. N /\ d # N
    BY <2>2, <2>3 DEF Grown
  <2>5. W[d] \in Tables /\ W[d + 1] = Nil /\ OnlyChanged(h, g, W[d], path[d + 1])
    BY <1>1, <2>4 DEF Grown
  <2>6. u = W[d] /\ l = path[d + 1]
    BY <2>2, <2>3, <2>5 DEF OnlyChanged
  <2>7. W[d + 1] = h[W[d]][path[d + 1]]
    <3>1. d + 1 \in 1 .. Len(path) /\ (d + 1) - 1 = d
      BY <1>1, <2>4
    <3> QED
      BY <2>5, <3>1 DEF Along, Follow
  <2> QED
    BY <2>1, <2>5, <2>6, <2>7
<1> QED
  BY <1>2, <1>3 DEF OnlyGaps

(* The program creates nothing where a value stands, and what it creates by   *)
(* the plain traverse_get it does not rely on.                                *)
Additive == Corners \cap {"create_unstored", "create_over_value"} = {}

LEMMA CreatesOfStack ==
  ASSUME Sequence(stack), Fits(heap), Standing(stack, heap), Additive
  PROVE  CreatesAllTheWay
<1>1. PICK m : m = Machine(stack, heap)
  OBVIOUS
<1>2. "create_unstored" \notin Corners /\ "create_over_value" \notin Corners
  BY DEF Additive
<1>3. PICK yes \in BOOLEAN : yes = TRUE /\ yes
  OBVIOUS
<1> DEFINE kept(r) == \A f \in FieldsChanged(heap, r.m.h) : heap[f[1]][f[2]] = Nil
           there(r, start, path) == Lookup(r.m.h, TableOf(m, start), path) = r.got
<1>4. ASSUME NEW start \in Starts(stack), NEW path \in Paths,
             NEW maybe, maybe = TraverseGetOptional(m, start, path, "table", TRUE),
             NothingInTheWay(TableOf(m, start), path), ~maybe.m.err
      PROVE  maybe.m.s = stack /\ kept(maybe) /\ there(maybe, start, path)
  <2>1. PICK want : want = "table"
    OBVIOUS
  <2>2. PICK R : R = {Nil}
    OBVIOUS
  <2>3. PICK x, W : x = TableOf(m, start) /\ W = Followed(heap, x, path)
    OBVIOUS
  <2>4. maybe = TraverseGetOptional(m, start, path, want, yes)
    BY <1>3, <1>4, <2>1, Zenon
  <2>5. Len(path) \in Nat
    BY PathFacts
  <2>6. WayClear(path, W)
    <3>1. ASSUME NEW n \in 1 .. Len(path) PROVE W[n] \notin Numbers
      <4>1. n \in 0 .. Len(path)
        BY <2>5
      <4>2. Lookup(heap, x, Prefix(path, n)) = W[n]
        BY <2>3, <4>1, PrefixLookup
      <4>3. Lookup(heap, x, SubSeq(path, 1, n)) \notin Numbers
        BY <1>2, <1>4, <2>3 DEF NothingInTheWay
      <4> QED
        BY <4>2, <4>3 DEF Prefix
    <3> QED
      BY <3>1 DEF WayClear
  <2>7. maybe.m.err \/ Reads(maybe, stack, heap, path, W, R)
    BY <1>1, <1>3, <2>1, <2>2, <2>3, <2>4, <2>6, CreatedOrNot
  <2>8. PICK N : N = Len(path)
    OBVIOUS
  <2>9. PICK g, C, d : /\ Grown(heap, g, C, path, W, N, d, R) /\ C[0] = W[0]
                       /\ maybe.m = Machine(stack, g) /\ maybe.got = C[N]
    BY <1>4, <2>7, <2>8 DEF Reads
  <2>10. maybe.m.s = stack /\ maybe.m.h = g
    BY <2>9 DEF Machine
  <2>11. W[0] = x /\ Along(heap, path, W)
    <3>1. /\ W[0] = x
          /\ \A n \in 1 .. Len(path) : W[n] = Follow(heap, path, n, W[n - 1])
      BY <2>3, <2>5, LookupFollows
    <3>2. x \in Tables /\ heap[x] # Free
      <4>1. m.s = stack /\ DOMAIN stack = 1 .. Len(stack)
        BY <1>1, SequenceFacts DEF Machine
      <4> QED
        BY <2>3, <4>1, TableAssumption DEF TableOf, Starts, Fits, Standing, There
    <3> QED
      BY <3>1, <3>2 DEF Along
  <2>12. OnlyGaps(heap, g) /\ Lookup(g, W[0], path) = C[N]
    BY <2>2, <2>8, <2>9, <2>11, GapsFilled
  <2> QED
    BY <2>3, <2>9, <2>10, <2>11, <2>12 DEF OnlyGaps
<1> HIDE DEF kept, there
<1>5. \A start \in Starts(stack), path \in Paths :
        LET plain == TraverseGet(m, start, path, "table", TRUE)
            maybe == TraverseGetOptional(m, start, path, "table", TRUE)
            clear == NothingInTheWay(TableOf(m, start), path)
        IN /\ "create_unstored" \in Corners /\ ~plain.m.err =>
                plain.m.s = stack /\ kept(plain) /\ there(plain, start, path)
           /\ clear /\ ~maybe.m.err => maybe.m.s = stack /\ kept(maybe) /\ there(maybe, start, path)
  BY <1>2, <1>4, Zenon
<1> QED
  BY <1>1, <1>5, Zenon DEF CreatesAllTheWay, kept, there

(* However long the path, for a program that asks create_if_nil for nothing   *)
(* where a value stands and keeps clear of the other corner cases: when       *)
(* traverse_get of an optional table with create_if_nil raises no error, the  *)
(* path then leads to the table it returns, no field that held a value was    *)
(* changed ("create tables all the way down"), and the stack is as it was.    *)
(* (Without the optional the tables it creates are not stored: the last       *)
(* corner case, which is left out here.)                                      *)
THEOREM CreatesWhereNothingIs == Straight /\ Additive /\ AccessSpec => []CreatesAllTheWay
<1> DEFINE Inv == Sequence(stack) /\ Fits(heap) /\ Standing(stack, heap) /\ Straight /\ Additive
<1>1. Straight /\ Additive /\ AccessInit => Inv
  BY StackBegins
<1>2. Inv /\ [AccessNext]_<<stack, heap>> => Inv'
  <2>1. ASSUME Inv, [AccessNext]_<<stack, heap>>
        PROVE  Sequence(stack)' /\ Fits(heap)' /\ Standing(stack, heap)'
    BY <2>1, StackKept
  <2> QED
    BY <2>1 DEF Straight, Additive
<1>3. Inv => CreatesAllTheWay
  BY CreatesOfStack
<1> QED
  BY <1>1, <1>2, <1>3, PTL DEF AccessSpec

--------------------------------------------------------------------------------
(* Sequences put together *)

LEMMA Concatenated ==
  ASSUME NEW S, NEW a \in Seq(S), NEW b \in Seq(S)
  PROVE  /\ a \o b \in Seq(S) /\ Len(a \o b) = Len(a) + Len(b)
         /\ \A i \in 1 .. Len(a) : (a \o b)[i] = a[i]
         /\ \A i \in 1 .. Len(b) : (a \o b)[Len(a) + i] = b[i]
  OBVIOUS

--------------------------------------------------------------------------------
(* The order in which lua_next enumerates keys *)

(* The program performs no corner of the loops, and none of the proxies. *)
Orderly == Straight /\ Corners \cap IterationCorners = {}

LEMMA KeysAreOrdered ==
  /\ Cardinality(Keys) \in Nat
  /\ \A n \in 1 .. Cardinality(Keys) : KeyOrder[n] \in Keys /\ KeyPosition(KeyOrder[n]) = n
  /\ \A k \in Keys : KeyPosition(k) \in 1 .. Cardinality(Keys) /\ KeyOrder[KeyPosition(k)] = k
  /\ DOMAIN KeyOrder = 1 .. Cardinality(Keys)
<1>1. Cardinality(Keys) \in Nat
  BY IterationAssumption, FS_CardinalityType
<1>2. PICK C : C = 1 .. Cardinality(Keys)
  OBVIOUS
<1>3. /\ KeyOrder \in [C -> Keys] /\ \A a, b \in C : KeyOrder[a] = KeyOrder[b] => a = b
      /\ \A k \in Keys : \E n \in C : KeyOrder[n] = k
  BY <1>2, IterationAssumption DEF Bijection, Injection, Surjection, IsInjective
<1>4. ASSUME NEW k \in Keys PROVE KeyPosition(k) \in C /\ KeyOrder[KeyPosition(k)] = k
  <2>1. k # Nil
    BY TableAssumption
  <2>2. KeyPosition(k) = CHOOSE n \in C : KeyOrder[n] = k
    BY <1>3, <2>1 DEF KeyPosition
  <2> QED
    BY <1>3, <2>2
<1>5. ASSUME NEW n \in C PROVE KeyOrder[n] \in Keys /\ KeyPosition(KeyOrder[n]) = n
  BY <1>3, <1>4
<1> QED
  BY <1>1, <1>2, <1>3, <1>4, <1>5

(* k comes after j, or j is nil, where every traversal starts. *)
After(j, k) == KeyPosition(k) > KeyPosition(j)

LEMMA PositionsCompare ==
  /\ KeyPosition(Nil) = 0 /\ Nil \notin Keys
  /\ \A k \in Keys \cup {Nil} : KeyPosition(k) \in Nat
  /\ \A k \in Keys : After(Nil, k)
  /\ \A j, k \in Keys : j = k \/ After(j, k) \/ After(k, j)
<1>1. KeyPosition(Nil) = 0 /\ Nil \notin Keys
  BY TableAssumption DEF KeyPosition
<1>2. \A k \in Keys : KeyPosition(k) \in Nat /\ KeyPosition(k) > 0
  BY KeysAreOrdered
<1>3. ASSUME NEW j \in Keys, NEW k \in Keys, KeyPosition(j) = KeyPosition(k) PROVE j = k
  BY <1>3, KeysAreOrdered
<1>4. ASSUME NEW j \in Keys, NEW k \in Keys PROVE j = k \/ After(j, k) \/ After(k, j)
  BY <1>2, <1>3 DEF After
<1> QED
  BY <1>1, <1>2, <1>4 DEF After

(* lua_next finds the first field after the key, or that there is none. *)
NoneAfter(h, t, k) == \A q \in Keys : h[t][q] # Nil => ~After(k, q)

FirstAfter(h, t, k, next) ==
  /\ next \in Keys /\ h[t][next] # Nil /\ After(k, next)
  /\ \A q \in Keys : h[t][q] # Nil /\ After(k, q) => q = next \/ After(next, q)

LEMMA NextKeyFinds ==
  ASSUME NEW h, NEW t, NEW k \in Keys \cup {Nil}, NEW next, next = NextKey(h, t, k)
  PROVE  IF next = Nil THEN NoneAfter(h, t, k) ELSE FirstAfter(h, t, k, next)
<1>1. PICK p \in Nat : p = KeyPosition(k)
  BY PositionsCompare
<1>2. PICK rest : rest = {n \in DOMAIN KeyOrder : n > p /\ h[t][KeyOrder[n]] # Nil}
  OBVIOUS
<1>3. next = IF rest = {} THEN Nil ELSE KeyOrder[Min(rest)]
  BY <1>1, <1>2 DEF NextKey
<1>4. rest \subseteq Nat /\ rest \subseteq 1 .. Cardinality(Keys)
  BY <1>2, KeysAreOrdered
<1>5. ASSUME NEW q \in Keys, h[t][q] # Nil, After(k, q) PROVE KeyPosition(q) \in rest
  BY <1>1, <1>2, <1>5, KeysAreOrdered DEF After
<1>6. CASE rest = {}
  BY <1>3, <1>5, <1>6 DEF NoneAfter
<1>7. CASE rest # {}
  <2>1. PICK n : n = Min(rest)
    OBVIOUS
  <2>2. n \in rest /\ \A x \in rest : n <= x
    <3>1. \E x \in rest : \A y \in rest : x <= y
      BY <1>4, <1>7, LeastOf
    <3> QED
      BY <2>1, <3>1 DEF Min
  <2>3. next = KeyOrder[n] /\ KeyPosition(next) = n /\ next \in Keys
    BY <1>3, <1>4, <1>7, <2>1, <2>2, KeysAreOrdered
  <2>4. h[t][next] # Nil /\ After(k, next)
    BY <1>1, <1>2, <2>2, <2>3 DEF After
  <2>5. ASSUME NEW q \in Keys, h[t][q] # Nil, After(k, q) PROVE q = next \/ After(next, q)
    <3>1. n <= KeyPosition(q) /\ KeyPosition(q) \in Nat /\ n \in Nat
      BY <1>4, <1>5, <2>2, <2>5
    <3>2. CASE KeyPosition(q) = n
      BY <2>3, <3>2, KeysAreOrdered
    <3> QED
      BY <2>3, <3>1, <3>2 DEF After
  <2>6. next # Nil
    BY <2>3, PositionsCompare
  <2> QED
    BY <2>3, <2>4, <2>5, <2>6 DEF FirstAfter
<1> QED
  BY <1>6, <1>7

(* What a loop has shown is in order, so it is no more than there are keys. *)
Ascends(seen) == \A i, j \in 1 .. Len(seen) : i < j => After(seen[i], seen[j])

LEMMA NoMoreThanKeys ==
  ASSUME NEW seen \in Seq(Keys), Ascends(seen)
  PROVE  Len(seen) <= Cardinality(Keys)
<1>1. Len(seen) \in Nat /\ \A i \in 1 .. Len(seen) : seen[i] \in Keys
  OBVIOUS
<1> DEFINE P == {n \in Nat : n >= 1 /\ n <= Len(seen) => KeyPosition(seen[n]) >= n}
<1>2. ASSUME NEW n \in 1 .. Len(seen), n - 1 \in P PROVE n \in P
  <2>1. KeyPosition(seen[n]) \in Nat /\ KeyPosition(seen[n]) >= 1
    BY <1>1, KeysAreOrdered
  <2>2. CASE n = 1
    BY <2>1, <2>2
  <2>3. CASE n # 1
    <3>1. PICK p : p = n - 1
      OBVIOUS
    <3>2. p \in 1 .. Len(seen) /\ p < n /\ n = p + 1
      BY <1>1, <2>3, <3>1
    <3>3. KeyPosition(seen[p]) >= p /\ KeyPosition(seen[p]) \in Nat
      BY <1>1, <1>2, <3>1, <3>2, KeysAreOrdered
    <3>4. KeyPosition(seen[n]) > KeyPosition(seen[p])
      BY <3>2 DEF Ascends, After
    <3> QED
      BY <2>1, <3>2, <3>3, <3>4
  <2> QED
    BY <2>2, <2>3
<1>3. Len(seen) \in P
  <2>1. 0 \in P
    OBVIOUS
  <2> HIDE DEF P
  <2>2. \A n \in 0 .. Len(seen) : n \in P
    BY <1>1, <1>2, <2>1, Steps
  <2> QED
    BY <1>1, <2>2
<1>4. CASE Len(seen) = 0
  BY <1>4, KeysAreOrdered
<1>5. CASE Len(seen) # 0
  <2>1. Len(seen) \in 1 .. Len(seen)
    BY <1>1, <1>5
  <2>2. PICK k : k = seen[Len(seen)]
    OBVIOUS
  <2>3. KeyPosition(k) >= Len(seen) /\ k \in Keys
    BY <1>1, <1>3, <2>1, <2>2
  <2> QED
    BY <1>1, <2>3, KeysAreOrdered
<1> QED
  BY <1>4, <1>5

--------------------------------------------------------------------------------
(* What the loops do to the stack *)

LEMMA PopAppended ==
  ASSUME NEW s, Sequence(s), NEW v
  PROVE  Pop(Append(s, v), 1) = s
<1>1. Above(Append(s, v), s, 0 + 1)
  BY AboveItself, OneMore
<1> QED
  BY <1>1, PopAbove

LEMMA CutIs ==
  ASSUME NEW s, Sequence(s), NEW i \in 1 .. Len(s), NEW u, u = LuaRemove(s, i)
  PROVE  /\ Sequence(u) /\ Len(u) = Len(s) - 1
         /\ \A j \in 1 .. i - 1 : u[j] = s[j]
         /\ \A j \in i .. Len(u) : u[j] = s[j + 1]
<1>1. PICK S : s \in Seq(S)
  BY DEF Sequence
<1>2. PICK n \in Nat : n = Len(s)
  BY <1>1
<1>3. PICK a, b : a = SubSeq(s, 1, i - 1) /\ b = SubSeq(s, i + 1, n)
  OBVIOUS
<1>4. /\ a \in Seq(S) /\ Len(a) = i - 1 /\ \A j \in 1 .. i - 1 : a[j] = s[j]
  BY <1>1, <1>2, <1>3
<1>5. /\ b \in Seq(S) /\ Len(b) = n - i /\ \A j \in 1 .. n - i : b[j] = s[i + j]
  BY <1>1, <1>2, <1>3
<1>6. u = a \o b
  <2>1. i + 1 - 1 <= Len(s) /\ i + 1 = i + 1
    BY <1>2
  <2> QED
    BY <1>2, <1>3, <2>1 DEF LuaRemove, RemoveLoop, Cut
<1>7. u \in Seq(S) /\ Len(u) = n - 1
  <2>1. a \in Seq(S) /\ b \in Seq(S)
    BY <1>4, <1>5
  <2>2. a \o b \in Seq(S) /\ Len(a \o b) = Len(a) + Len(b)
    BY <2>1, Concatenated
  <2> QED
    BY <1>2, <1>4, <1>5, <1>6, <2>2
<1>8. ASSUME NEW j \in 1 .. i - 1 PROVE u[j] = s[j]
  BY <1>2, <1>4, <1>5, <1>6
<1>9. ASSUME NEW j \in i .. n - 1 PROVE u[j] = s[j + 1]
  <2>1. j - (i - 1) \in 1 .. n - i /\ j \in 1 .. n - 1 /\ j > i - 1
    BY <1>2
  <2>2. u[j] = b[j - (i - 1)]
    BY <1>2, <1>4, <1>5, <1>6, <2>1
  <2> QED
    BY <1>5, <2>1, <2>2
<1> QED
  BY <1>2, <1>7, <1>8, <1>9 DEF Sequence

LEMMA RemoveLast ==
  ASSUME NEW s, Sequence(s), NEW v, NEW i, i = Len(s) + 1
  PROVE  LuaRemove(Append(s, v), i) = s /\ StackRemove(Append(s, v), i, 1) = s
<1>1. PICK t : t = Append(s, v)
  OBVIOUS
<1>2. Sequence(t) /\ Len(t) = Len(s) + 1 /\ Len(s) \in Nat /\ \A j \in 1 .. Len(s) : t[j] = s[j]
  BY <1>1, Appended, SequenceFacts
<1>3. PICK u : u = LuaRemove(t, i)
  OBVIOUS
<1>4. Sequence(u) /\ Len(u) = Len(s) /\ \A j \in 1 .. Len(s) : u[j] = s[j]
  BY <1>2, <1>3, CutIs
<1>5. u = s
  BY <1>4, SameSequence
<1>6. StackRemove(t, i, 1) = Pop(t, 1)
  BY <1>2 DEF StackRemove
<1> QED
  BY <1>1, <1>3, <1>5, <1>6, PopAppended

LEMMA RemoveBelow ==
  ASSUME NEW s, Sequence(s), NEW v, NEW w, NEW i, i = Len(s) + 1
  PROVE  LuaRemove(Append(Append(s, v), w), i) = Append(s, w)
<1>1. PICK t, x : t = Append(Append(s, v), w) /\ x = Append(s, w)
  OBVIOUS
<1>2. Len(s) \in Nat /\ Sequence(t) /\ Len(t) = Len(s) + 2 /\ t[Len(s) + 2] = w /\ \A j \in 1 .. Len(s) : t[j] = s[j]
  <2>1. PICK r : r = Append(s, v)
    OBVIOUS
  <2>2. Sequence(r) /\ Len(r) = Len(s) + 1 /\ Len(s) \in Nat /\ \A j \in 1 .. Len(s) : r[j] = s[j]
    BY <2>1, Appended, SequenceFacts
  <2>3. /\ Sequence(t) /\ Len(t) = Len(r) + 1 /\ t[Len(r) + 1] = w /\ \A j \in 1 .. Len(r) : t[j] = r[j]
    BY <1>1, <2>1, <2>2, Appended
  <2> QED
    BY <2>2, <2>3
<1>3. Sequence(x) /\ Len(x) = Len(s) + 1 /\ x[Len(s) + 1] = w /\ \A j \in 1 .. Len(s) : x[j] = s[j]
  BY <1>1, Appended
<1>4. PICK u : u = LuaRemove(t, i)
  OBVIOUS
<1>5. /\ Sequence(u) /\ Len(u) = Len(s) + 1
      /\ \A j \in 1 .. i - 1 : u[j] = t[j]
      /\ \A j \in i .. Len(u) : u[j] = t[j + 1]
  BY <1>2, <1>4, CutIs
<1>6. \A j \in 1 .. Len(u) : u[j] = x[j]
  BY <1>2, <1>3, <1>5
<1>7. u = x
  BY <1>3, <1>5, <1>6, SameSequence
<1> QED
  BY <1>1, <1>4, <1>7

(* lua_settop to one value above s. *)
LEMMA SettopAbove ==
  ASSUME NEW s, Sequence(s), NEW v, NEW w
  PROVE  SubSeq(Append(Append(s, v), w), 1, Len(s) + 1) = Append(s, v)
<1>1. PICK t : t = Append(s, v)
  OBVIOUS
<1>2. Sequence(t) /\ Len(t) = Len(s) + 1 /\ Len(s) \in Nat
  BY <1>1, Appended, SequenceFacts
<1>3. Pop(Append(t, w), 1) = t
  BY <1>2, PopAppended
<1>4. Len(Append(t, w)) - 1 = Len(s) + 1
  BY <1>2, Appended
<1> QED
  BY <1>1, <1>3, <1>4 DEF Pop

(* r is s with four values above it, of which d is the last. *)
FourAbove(r, s, d) ==
  /\ Sequence(r) /\ Len(r) = Len(s) + 4 /\ r[Len(s) + 4] = d
  /\ \A j \in 1 .. Len(s) : r[j] = s[j]

(* The metatable and what __pairs returned. *)
LEMMA ResultsAbove ==
  ASSUME NEW s, Sequence(s), NEW a, NEW b, NEW c, NEW d
  PROVE  FourAbove(Append(s, a) \o (<<b, c>> \o <<d>>), s, d)
<1>1. PICK S : s \in Seq(S)
  BY DEF Sequence
<1>2. PICK T : T = S \cup {a, b, c, d}
  OBVIOUS
<1>3. PICK n \in Nat : n = Len(s)
  BY <1>1
<1>4. s \in Seq(T) /\ a \in T /\ b \in T /\ c \in T /\ d \in T
  BY <1>1, <1>2
<1>5. PICK t : t = Append(s, a)
  OBVIOUS
<1>6. t \in Seq(T) /\ Len(t) = n + 1 /\ \A j \in 1 .. n : t[j] = s[j]
  BY <1>3, <1>4, <1>5
<1>7. PICK e : e = <<b, c>> \o <<d>>
  OBVIOUS
<1>8. e \in Seq(T) /\ Len(e) = 3 /\ e[3] = d
  BY <1>4, <1>7
<1>9. PICK r : r = t \o e
  OBVIOUS
<1>10. /\ r \in Seq(T) /\ Len(r) = Len(t) + Len(e)
       /\ \A j \in 1 .. Len(t) : r[j] = t[j]
       /\ \A j \in 1 .. Len(e) : r[Len(t) + j] = e[j]
  <2>1. t \in Seq(T) /\ e \in Seq(T)
    BY <1>6, <1>8
  <2>2. /\ t \o e \in Seq(T) /\ Len(t \o e) = Len(t) + Len(e)
        /\ \A j \in 1 .. Len(t) : (t \o e)[j] = t[j]
        /\ \A j \in 1 .. Len(e) : (t \o e)[Len(t) + j] = e[j]
    BY <2>1, Concatenated
  <2> QED
    BY <1>9, <2>2, Zenon
<1>11. Len(r) = n + 4 /\ \A j \in 1 .. n : r[j] = s[j]
  BY <1>6, <1>8, <1>10
<1>12. r[n + 4] = d
  <2>1. r[Len(t) + 3] = e[3]
    BY <1>8, <1>10
  <2> QED
    BY <1>6, <1>8, <2>1
<1>13. FourAbove(r, s, d)
  BY <1>3, <1>10, <1>11, <1>12 DEF FourAbove, Sequence
<1> QED
  BY <1>5, <1>7, <1>9, <1>13

(* find_pairs removes the metatable, the function and the table. *)
LEMMA ResultsTrimmed ==
  ASSUME NEW s, Sequence(s), NEW d, NEW i, i = Len(s) + 1, NEW r, FourAbove(r, s, d),
         NEW u, u = LuaRemove(r, i), NEW v, v = LuaRemove(u, i), NEW w, w = LuaRemove(v, i)
  PROVE  w = Append(s, d)
<1>1. PICK n \in Nat : n = Len(s)
  BY SequenceFacts
<1>2. Sequence(r) /\ Len(r) = n + 4 /\ r[n + 4] = d /\ i = n + 1 /\ \A j \in 1 .. n : r[j] = s[j]
  BY <1>1 DEF FourAbove
<1>3. /\ Sequence(u) /\ Len(u) = n + 3 /\ u[n + 3] = d /\ \A j \in 1 .. n : u[j] = s[j]
  <2>1. i \in 1 .. Len(r)
    BY <1>2
  <2>2. /\ Sequence(u) /\ Len(u) = Len(r) - 1
        /\ \A j \in 1 .. i - 1 : u[j] = r[j]
        /\ \A j \in i .. Len(u) : u[j] = r[j + 1]
    BY <1>2, <2>1, CutIs
  <2> QED
    BY <1>2, <2>2
<1>4. /\ Sequence(v) /\ Len(v) = n + 2 /\ v[n + 2] = d /\ \A j \in 1 .. n : v[j] = s[j]
  <2>1. i \in 1 .. Len(u)
    BY <1>2, <1>3
  <2>2. /\ Sequence(v) /\ Len(v) = Len(u) - 1
        /\ \A j \in 1 .. i - 1 : v[j] = u[j]
        /\ \A j \in i .. Len(v) : v[j] = u[j + 1]
    BY <1>3, <2>1, CutIs
  <2> QED
    BY <1>2, <1>3, <2>2
<1>5. /\ Sequence(w) /\ Len(w) = n + 1 /\ w[n + 1] = d /\ \A j \in 1 .. n : w[j] = s[j]
  <2>1. i \in 1 .. Len(v)
    BY <1>2, <1>4
  <2>2. /\ Sequence(w) /\ Len(w) = Len(v) - 1
        /\ \A j \in 1 .. i - 1 : w[j] = v[j]
        /\ \A j \in i .. Len(w) : w[j] = v[j + 1]
    BY <1>4, <2>1, CutIs
  <2> QED
    BY <1>2, <1>4, <2>2
<1>6. PICK x : x = Append(s, d)
  OBVIOUS
<1>7. Sequence(x) /\ Len(x) = n + 1 /\ x[n + 1] = d /\ \A j \in 1 .. n : x[j] = s[j]
  BY <1>1, <1>6, Appended
<1>8. w = x
  BY <1>5, <1>7, SameSequence
<1> QED
  BY <1>6, <1>8

LEMMA MachineSettop ==
  ASSUME NEW t, NEW h, NEW n
  PROVE  Settop(Machine(t, h), n) = Machine(SubSeq(t, 1, n), h)
<1>1. PICK err : err = FALSE
  OBVIOUS
<1>2. PICK u : u = SubSeq(t, 1, n)
  OBVIOUS
<1>3. Machine(t, h) = [s |-> t, h |-> h, err |-> err] /\ Machine(u, h) = [s |-> u, h |-> h, err |-> err]
  BY <1>1, Zenon DEF Machine
<1>4. Settop([s |-> t, h |-> h, err |-> err], n)
        = [[s |-> t, h |-> h, err |-> err] EXCEPT !.s = SubSeq(t, 1, n)]
  BY DEF Settop
<1> QED
  BY <1>2, <1>3, <1>4, StackReplaced, Zenon

LEMMA MachineDrop ==
  ASSUME NEW t, NEW h, NEW i
  PROVE  DropAt(Machine(t, h), i) = Machine(LuaRemove(t, i), h)
<1>1. PICK err : err = FALSE
  OBVIOUS
<1>2. PICK u : u = LuaRemove(t, i)
  OBVIOUS
<1>3. Machine(t, h) = [s |-> t, h |-> h, err |-> err] /\ Machine(u, h) = [s |-> u, h |-> h, err |-> err]
  BY <1>1, Zenon DEF Machine
<1>4. DropAt([s |-> t, h |-> h, err |-> err], i)
        = [[s |-> t, h |-> h, err |-> err] EXCEPT !.s = LuaRemove(t, i)]
  BY DEF DropAt
<1> QED
  BY <1>2, <1>3, <1>4, StackReplaced, Zenon

--------------------------------------------------------------------------------
(* One step of a loop *)

Taken(st, s, h, key, value) == st = [m |-> Machine(s, h), key |-> key, value |-> value]

(* The loop came to its end, and the stack is s; or it shows next, above s. *)
Showing(st, s, h, key, next) ==
  IF next = Nil THEN Taken(st, s, h, NoKey, Nil) ELSE Taken(st, Append(s, next), h, key, Nil)

LEMMA MachineParts ==
  ASSUME NEW s, NEW h
  PROVE  Machine(s, h).s = s /\ Machine(s, h).h = h
  BY DEF Machine

LEMMA PairsTakes ==
  ASSUME NEW s, Sequence(s), NEW h, NEW old, NEW k, NEW key, key = Len(s) + 1
  PROVE  Taken(PairsTaken(Machine(Append(s, old), h), key, k), Append(s, k), h, key, Nil)
<1>1. PICK t : t = Append(s, old)
  OBVIOUS
<1>2. Sequence(t) /\ Len(t) = key /\ Len(s) \in Nat
  BY <1>1, Appended, SequenceFacts
<1>3. PICK u : u = Append(Append(t, k), Other)
  OBVIOUS
<1>4. PushV(PushV(Machine(t, h), k), Other) = Machine(u, h)
  BY <1>3, MachinePush
<1>5. PICK w : w = LuaRemove(u, key)
  OBVIOUS
<1>6. w = Append(Append(s, k), Other)
  <2>1. PICK a, x, y : a = Append(t, k) /\ x = Append(s, k) /\ y = Append(x, Other)
    OBVIOUS
  <2>2. /\ Sequence(a) /\ Len(a) = key + 1 /\ a[key + 1] = k /\ \A j \in 1 .. Len(s) : a[j] = s[j]
    BY <1>1, <1>2, <2>1, Appended
  <2>3. u = Append(a, Other)
    BY <1>3, <2>1
  <2>4. /\ Sequence(u) /\ Len(u) = key + 2 /\ u[key + 1] = k /\ u[key + 2] = Other
        /\ \A j \in 1 .. Len(s) : u[j] = s[j]
    BY <1>2, <2>2, <2>3, Appended
  <2>5. /\ Sequence(x) /\ Len(x) = key /\ x[key] = k /\ \A j \in 1 .. Len(s) : x[j] = s[j]
    BY <2>1, Appended
  <2>6. /\ Sequence(y) /\ Len(y) = key + 1 /\ y[key] = k /\ y[key + 1] = Other
        /\ \A j \in 1 .. Len(s) : y[j] = s[j]
    BY <1>2, <2>1, <2>5, Appended
  <2>7. key \in 1 .. Len(u)
    BY <1>2, <2>4
  <2>8. /\ Sequence(w) /\ Len(w) = key + 1
        /\ \A j \in 1 .. key - 1 : w[j] = u[j]
        /\ \A j \in key .. Len(w) : w[j] = u[j + 1]
    BY <1>2, <1>5, <2>4, <2>7, CutIs
  <2>9. ASSUME NEW j \in 1 .. Len(w) PROVE w[j] = y[j]
    <3>1. CASE j \in 1 .. Len(s)
      BY <1>2, <2>4, <2>6, <2>8, <3>1
    <3>2. CASE j = key
      BY <1>2, <2>4, <2>6, <2>8, <3>2
    <3>3. CASE j = key + 1
      BY <1>2, <2>4, <2>6, <2>8, <3>3
    <3> QED
      BY <1>2, <2>8, <3>1, <3>2, <3>3
  <2>10. w = y
    BY <2>6, <2>8, <2>9, SameSequence
  <2> QED
    BY <2>1, <2>10
<1>7. PICK called : called = DropAt(PushV(PushV(Machine(t, h), k), Other), key)
  OBVIOUS
<1>8. called = Machine(w, h)
  BY <1>4, <1>5, <1>7, MachineDrop
<1>9. Settop(called, key) = Machine(Append(s, k), h)
  <2>1. Settop(called, key) = Machine(SubSeq(w, 1, key), h)
    BY <1>8, MachineSettop
  <2>2. SubSeq(w, 1, Len(s) + 1) = Append(s, k)
    BY <1>6, SettopAbove
  <2> QED
    BY <2>1, <2>2
<1>10. PairsTaken(Machine(t, h), key, k) = Stepped(Settop(called, key), key)
  BY <1>2, <1>7, MachineParts DEF PairsTaken
<1> QED
  BY <1>1, <1>9, <1>10 DEF Taken, Stepped

(* pairs_iterator::operator++, with its key on top of the stack. *)
LEMMA PairsGoes ==
  ASSUME NEW s, Sequence(s), NEW h, NEW t, NEW k \in Keys \cup {Nil}, NEW no \in BOOLEAN, ~no,
         NEW key, key = Len(s) + 1, NEW next, next = NextKey(h, t, k)
  PROVE  Showing(PairsStep(Machine(Append(s, k), h), t, key, no), s, h, key, next)
<1>1. PICK w, m : w = Append(s, k) /\ m = Machine(w, h)
  OBVIOUS
<1>2. Sequence(w) /\ Len(w) = key /\ w[key] = k /\ Len(s) \in Nat /\ key \in 1 .. Len(w)
  BY <1>1, Appended, SequenceFacts
<1>3. m.s = w /\ m.h = h
  BY <1>1, MachineParts
<1>4. At(m, key) = k
  BY <1>1, <1>2, MachineAt
<1>5. CASE next = Nil
  <2>1. PairsStep(m, t, key, no) = Over(Settop(m, key - 1))
    <3>1. (IF key <= Len(m.s) THEN At(m, key) ELSE Other) = k /\ NextKey(m.h, t, k) = Nil
      BY <1>2, <1>3, <1>4, <1>5
    <3> QED
      BY <3>1 DEF PairsStep
  <2>2. Settop(m, key - 1) = Machine(s, h)
    <3>1. SubSeq(w, 1, key - 1) = Pop(w, 1)
      BY <1>2 DEF Pop
    <3>2. Pop(w, 1) = s
      BY <1>1, PopAppended
    <3> QED
      BY <1>1, <3>1, <3>2, MachineSettop
  <2> QED
    BY <1>1, <1>5, <2>1, <2>2 DEF Showing, Taken, Over, Stepped
<1>6. CASE next # Nil
  <2>1. PairsStep(m, t, key, no) = PairsTaken(m, key, next)
    BY <1>2, <1>3, <1>4, <1>6 DEF PairsStep
  <2>2. Taken(PairsTaken(m, key, next), Append(s, next), h, key, Nil)
    BY <1>1, PairsTakes
  <2> QED
    BY <1>1, <1>6, <2>1, <2>2 DEF Showing
<1> QED
  BY <1>5, <1>6

(* basic_table_iterator::operator++ and for_each, with the key on top. *)
LEMMA NextGoes ==
  ASSUME NEW s, Sequence(s), NEW h, NEW t, NEW k \in Keys \cup {Nil},
         NEW key, key = Len(s) + 1, NEW next, next = NextKey(h, t, k)
  PROVE  Showing(NextStep(Machine(Append(s, k), h), t), s, h, key, next)
<1>1. PICK w, m : w = Append(s, k) /\ m = Machine(w, h)
  OBVIOUS
<1>2. Sequence(w) /\ Len(w) = key /\ w[key] = k /\ Len(s) \in Nat /\ Len(w) > 0
  BY <1>1, Appended, SequenceFacts
<1>3. m.s = w /\ m.h = h
  BY <1>1, MachineParts
<1>4. Top(m) = k
  BY <1>1, <1>2, MachineTop
<1>5. PopV(m, 1) = Machine(s, h)
  BY <1>1, MachinePop, PopAppended
<1>6. CASE next = Nil
  <2>1. NextStep(m, t) = Over(PopV(m, 1))
    BY <1>3, <1>4, <1>6 DEF NextStep
  <2> QED
    BY <1>1, <1>5, <1>6, <2>1 DEF Showing, Taken, Over, Stepped
<1>7. CASE next # Nil
  <2>1. NextStep(m, t) = Stepped(PushV(PopV(m, 1), next), key)
    BY <1>2, <1>3, <1>4, <1>7 DEF NextStep
  <2>2. PushV(PopV(m, 1), next) = Machine(Append(s, next), h)
    BY <1>5, MachinePush
  <2> QED
    BY <1>1, <1>7, <2>1, <2>2 DEF Showing, Taken, Stepped
<1> QED
  BY <1>6, <1>7

(* for_each: the value goes above the key; at the end the table goes too. *)
LEMMA ValueGoes ==
  ASSUME NEW b, Sequence(b), NEW h, NEW t, NEW s, s = Append(b, t), NEW key, key # NoKey, NEW next,
         NEW a, Showing(a, s, h, key, next)
  PROVE  IF next = Nil THEN Taken(WithValue(a, t), b, h, NoKey, Nil)
         ELSE Taken(WithValue(a, t), Append(Append(s, next), h[t][next]), h, key, h[t][next])
<1>1. CASE next = Nil
  <2>1. a.m = Machine(s, h) /\ a.key = NoKey
    BY <1>1 DEF Showing, Taken
  <2>2. WithValue(a, t) = Over(PopV(a.m, 1))
    BY <2>1 DEF WithValue
  <2>3. PopV(a.m, 1) = Machine(b, h)
    BY <2>1, MachinePop, PopAppended
  <2> QED
    BY <1>1, <2>2, <2>3 DEF Taken, Over, Stepped
<1>2. CASE next # Nil
  <2>1. a.m = Machine(Append(s, next), h) /\ a.key = key
    BY <1>2 DEF Showing, Taken
  <2>2. PICK w : w = Append(s, next)
    OBVIOUS
  <2>3. Sequence(s)
    BY Appended
  <2>4. Sequence(w) /\ w[Len(w)] = next /\ Len(w) > 0
    BY <2>2, <2>3, Appended, SequenceFacts
  <2>5. Top(a.m) = next /\ a.m.h = h
    <3>1. a.m = Machine(w, h) /\ Sequence(w) /\ Len(w) > 0
      BY <2>1, <2>2, <2>4
    <3>2. Top(Machine(w, h)) = w[Len(w)] /\ Machine(w, h).h = h
      BY <2>4, MachineTop, MachineParts
    <3> QED
      BY <2>4, <3>1, <3>2
  <2>6. PICK value : value = h[t][next]
    OBVIOUS
  <2>7. PICK n : n = PushV(a.m, value)
    OBVIOUS
  <2>8. WithValue(a, t) = [a EXCEPT !.m = n, !.value = value]
    BY <2>1, <2>5, <2>6, <2>7 DEF WithValue
  <2>9. n = Machine(Append(w, value), h)
    BY <2>1, <2>2, <2>7, MachinePush
  <2> QED
    <3>1. a = [m |-> Machine(w, h), key |-> key, value |-> Nil]
      BY <1>2, <2>2 DEF Showing, Taken
    <3>2. PICK o : o = Machine(w, h)
      OBVIOUS
    <3>3. WithValue(a, t) = [m |-> n, key |-> key, value |-> value]
      BY <2>8, <3>1, <3>2
    <3> QED
      BY <1>2, <2>2, <2>6, <2>9, <3>3 DEF Taken
<1> QED
  BY <1>1, <1>2

(* What a loop keeps on the stack above b. *)
Shape(class, t, b, key, k, value) ==
  IF class = "table" THEN (IF key = NoKey THEN Append(b, t) ELSE Append(Append(b, t), k))
  ELSE IF key = NoKey THEN b
  ELSE IF class = "pairs" THEN Append(b, k) ELSE Append(Append(Append(b, t), k), value)

(* The index of its key. *)
Seat(class, b) == IF class = "pairs" THEN Len(b) + 1 ELSE Len(b) + 2

ValueIn(class, h, t, next) == IF class = "each" THEN h[t][next] ELSE Nil

(* After a step: the loop came to its end or it shows next. *)
Rests(st, class, t, b, h, next) ==
  IF next = Nil THEN Taken(st, Shape(class, t, b, NoKey, Nil, Nil), h, NoKey, Nil)
  ELSE Taken(st, Shape(class, t, b, Seat(class, b), next, ValueIn(class, h, t, next)), h,
             Seat(class, b), ValueIn(class, h, t, next))

LEMMA SeatIsNoEnd ==
  ASSUME NEW b, Sequence(b), NEW class
  PROVE  Seat(class, b) # NoKey /\ Seat(class, b) \in Nat
  BY SequenceFacts DEF Seat, NoKey

LEMMA ShowingRests ==
  ASSUME NEW st, NEW t, NEW b, Sequence(b), NEW h, NEW next
  PROVE  /\ Showing(st, b, h, Len(b) + 1, next) => Rests(st, "pairs", t, b, h, next)
         /\ Showing(st, Append(b, t), h, Len(b) + 2, next) => Rests(st, "table", t, b, h, next)
         /\ Showing(st, Append(b, t), h, Len(b) + 2, next) => Rests(WithValue(st, t), "each", t, b, h, next)
<1>1. Len(b) + 1 # NoKey /\ Len(b) + 2 # NoKey
  BY SequenceFacts DEF NoKey
<1>2. ASSUME Showing(st, Append(b, t), h, Len(b) + 2, next)
      PROVE  Rests(WithValue(st, t), "each", t, b, h, next)
  <2>1. PICK s, key : s = Append(b, t) /\ key = Len(b) + 2
    OBVIOUS
  <2>2. IF next = Nil THEN Taken(WithValue(st, t), b, h, NoKey, Nil)
        ELSE Taken(WithValue(st, t), Append(Append(s, next), h[t][next]), h, key, h[t][next])
    BY <1>1, <1>2, <2>1, ValueGoes
  <2> QED
    BY <1>1, <2>1, <2>2 DEF Rests, Shape, Seat, ValueIn
<1> QED
  BY <1>1, <1>2 DEF Showing, Rests, Shape, Seat, ValueIn

--------------------------------------------------------------------------------
(* Loops begin, go on and end *)

(* pairs_iterator's constructor leaves nil where its key will be. *)
LEMMA PairsOpens ==
  ASSUME Orderly, NEW s, Sequence(s), NEW h, NEW t, PairsOf[t] \in {"plain", "pairs"},
         NEW o, o = PairsOpened(Machine(s, h), t)
  PROVE  o.m = Machine(Append(s, Nil), h) /\ o.key = Len(s) + 1
<1>1. PICK m, abs : m = Machine(s, h) /\ abs = Len(s) + 1
  OBVIOUS
<1>2. m.s = s /\ Len(s) \in Nat
  BY <1>1, MachineParts, SequenceFacts
<1>3. PICK source : source = PushV(m, t)
  OBVIOUS
<1>4. source = Machine(Append(s, t), h)
  BY <1>1, <1>3, MachinePush
<1>5. "no_base_library" \notin Corners /\ "pairs_two_results" \notin Corners
  BY DEF Orderly, IterationCorners
<1>6. CASE PairsOf[t] = "plain"
  <2>1. DropAt(source, abs) = m
    BY <1>1, <1>4, MachineDrop, RemoveLast
  <2>2. PICK first : first = PushV(m, Nil)
    OBVIOUS
  <2>3. first = Machine(Append(s, Nil), h)
    BY <1>1, <2>2, MachinePush
  <2>4. first.s = Append(s, Nil) /\ Len(first.s) = abs
    <3>1. PICK q : q = Append(s, Nil)
      OBVIOUS
    <3>2. first.s = q
      BY <2>3, <3>1, MachineParts
    <3>3. Len(q) = Len(s) + 1
      BY <3>1, Appended
    <3> QED
      BY <1>1, <3>1, <3>2, <3>3
  <2>5. o = Stepped(first, Len(first.s))
    BY <1>1, <1>2, <1>3, <1>5, <1>6, <2>1, <2>2 DEF PairsOpened
  <2> QED
    BY <1>1, <2>3, <2>4, <2>5 DEF Stepped
<1>7. CASE PairsOf[t] = "pairs"
  <2>1. PICK meta : meta = DropAt(PushV(source, Other), abs)
    OBVIOUS
  <2>2. meta = Machine(Append(s, Other), h)
    <3>1. PICK q : q = Append(Append(s, t), Other)
      OBVIOUS
    <3>2. PushV(source, Other) = Machine(q, h)
      BY <1>4, <3>1, MachinePush
    <3>3. LuaRemove(q, abs) = Append(s, Other)
      BY <1>1, <3>1, RemoveBelow
    <3>4. DropAt(Machine(q, h), abs) = Machine(LuaRemove(q, abs), h)
      BY MachineDrop
    <3> QED
      BY <2>1, <3>2, <3>3, <3>4
  <2>3. PICK called : called = [meta EXCEPT !.s = @ \o PairsResults(t)]
    OBVIOUS
  <2>4. PICK r : r = Append(s, Other) \o (<<Other, t>> \o <<Nil>>)
    OBVIOUS
  <2>5. called = Machine(r, h)
    <3>1. PICK err : err = FALSE
      OBVIOUS
    <3>2. PICK w : w = Append(s, Other)
      OBVIOUS
    <3>3. meta = [s |-> w, h |-> h, err |-> err] /\ Machine(r, h) = [s |-> r, h |-> h, err |-> err]
      BY <2>2, <3>1, <3>2, Zenon DEF Machine
    <3>4. PairsResults(t) = <<Other, t>> \o <<Nil>>
      BY <1>5 DEF PairsResults
    <3>5. meta.s = w /\ r = w \o PairsResults(t)
      BY <2>4, <3>2, <3>3, <3>4
    <3>6. called = [meta EXCEPT !.s = r]
      BY <2>3, <3>5
    <3>7. [[s |-> w, h |-> h, err |-> err] EXCEPT !.s = r] = [s |-> r, h |-> h, err |-> err]
      BY StackReplaced
    <3> QED
      BY <3>3, <3>6, <3>7, Zenon
  <2>6. DropAt(DropAt(DropAt(called, abs), abs), abs) = Machine(Append(s, Nil), h)
    <3>1. FourAbove(r, s, Nil)
      BY <2>4, ResultsAbove
    <3>2. PICK u, v, z : u = LuaRemove(r, abs) /\ v = LuaRemove(u, abs) /\ z = LuaRemove(v, abs)
      OBVIOUS
    <3>3. DropAt(called, abs) = Machine(u, h)
      BY <2>5, <3>2, MachineDrop
    <3>4. DropAt(Machine(u, h), abs) = Machine(v, h) /\ DropAt(Machine(v, h), abs) = Machine(z, h)
      BY <3>2, MachineDrop
    <3>5. z = Append(s, Nil)
      BY <1>1, <3>1, <3>2, ResultsTrimmed
    <3> QED
      BY <3>3, <3>4, <3>5
  <2>7. o = Stepped(DropAt(DropAt(DropAt(called, abs), abs), abs), abs)
    BY <1>1, <1>2, <1>3, <1>7, <2>1, <2>3 DEF PairsOpened
  <2> QED
    BY <1>1, <2>6, <2>7 DEF Stepped
<1> QED
  BY <1>6, <1>7

LEMMA LoopBegins ==
  ASSUME Orderly, NEW s, Sequence(s), NEW h, NEW t, NEW class \in Classes,
         class = "pairs" => PairsOf[t] \in {"plain", "pairs"},
         NEW next, next = NextKey(h, t, Nil)
  PROVE  Rests(LoopBegun(Machine(s, h), class, t), class, t, s, h, next)
<1>1. PICK m, held : m = Machine(s, h) /\ held = PushV(PushV(m, t), Nil)
  OBVIOUS
<1>2. PICK no \in BOOLEAN : no = FALSE /\ ~no
  OBVIOUS
<1>3. PICK st : st = LoopBegun(m, class, t)
  OBVIOUS
<1>4. CASE class = "pairs"
  <2>1. PICK o : o = PairsOpened(m, t)
    OBVIOUS
  <2>2. o.m = Machine(Append(s, Nil), h) /\ o.key = Len(s) + 1
    BY <1>1, <1>4, <2>1, PairsOpens
  <2>3. st = PairsStep(o.m, t, o.key, no)
    BY <1>2, <1>3, <1>4, <2>1, Zenon DEF LoopBegun
  <2>4. PICK key : key = Len(s) + 1
    OBVIOUS
  <2>5. Showing(PairsStep(Machine(Append(s, Nil), h), t, key, no), s, h, key, next)
    BY <1>2, <2>4, PairsGoes
  <2>6. Showing(st, s, h, Len(s) + 1, next)
    BY <2>2, <2>3, <2>4, <2>5
  <2> QED
    BY <1>1, <1>3, <1>4, <2>6, ShowingRests
<1>5. CASE class # "pairs"
  <2>1. PICK a : a = NextStep(held, t)
    OBVIOUS
  <2>2. PICK w, key : w = Append(s, t) /\ key = Len(w) + 1
    OBVIOUS
  <2>3. Sequence(w) /\ key = Len(s) + 2
    BY <2>2, Appended, SequenceFacts
  <2>4. held = Machine(Append(w, Nil), h)
    BY <1>1, <2>2, MachinePush
  <2>5. Showing(a, w, h, key, next)
    BY <2>1, <2>2, <2>3, <2>4, NextGoes
  <2>6. Showing(a, Append(s, t), h, Len(s) + 2, next)
    BY <2>2, <2>3, <2>5
  <2>7. st = IF class = "table" THEN a ELSE WithValue(a, t)
    BY <1>1, <1>3, <1>5, <2>1 DEF LoopBegun, Classes
  <2>8. class \in {"table", "each"}
    BY <1>5 DEF Classes
  <2> QED
    BY <1>1, <1>3, <2>6, <2>7, <2>8, ShowingRests
<1> QED
  BY <1>4, <1>5

LEMMA LoopGoesOn ==
  ASSUME NEW b, Sequence(b), NEW h, NEW rec, rec.class \in Classes, rec.key = Seat(rec.class, b),
         NEW k \in Keys, NEW m, m = Machine(Shape(rec.class, rec.t, b, rec.key, k, rec.value), h),
         NEW no \in BOOLEAN, ~no, NEW next, next = NextKey(h, rec.t, k)
  PROVE  Rests(LoopAdvanced(m, rec, no), rec.class, rec.t, b, h, next)
<1>1. PICK t, st : t = rec.t /\ st = LoopAdvanced(m, rec, no)
  OBVIOUS
<1>2. rec.key # NoKey
  BY SeatIsNoEnd
<1>3. PICK w, key : w = Append(b, t) /\ key = Len(w) + 1
  OBVIOUS
<1>4. Sequence(w) /\ key = Len(b) + 2
  BY <1>3, Appended, SequenceFacts
<1>5. CASE rec.class = "pairs"
  <2>1. m = Machine(Append(b, k), h) /\ rec.key = Len(b) + 1
    BY <1>2, <1>5 DEF Shape, Seat
  <2>2. st = PairsStep(m, t, rec.key, no)
    BY <1>1, <1>5 DEF LoopAdvanced
  <2>3. Showing(st, b, h, Len(b) + 1, next)
    BY <1>1, <2>1, <2>2, PairsGoes
  <2> QED
    BY <1>1, <1>5, <2>3, ShowingRests
<1>6. CASE rec.class = "table"
  <2>1. m = Machine(Append(w, k), h)
    BY <1>1, <1>2, <1>3, <1>6 DEF Shape
  <2>2. st = NextStep(m, t)
    BY <1>1, <1>6 DEF LoopAdvanced
  <2>3. Showing(st, Append(b, t), h, Len(b) + 2, next)
    BY <1>1, <1>3, <1>4, <2>1, <2>2, NextGoes
  <2> QED
    BY <1>1, <1>6, <2>3, ShowingRests
<1>7. CASE rec.class = "each"
  <2>1. PICK c : c = Append(w, k)
    OBVIOUS
  <2>2. m = Machine(Append(c, rec.value), h)
    BY <1>1, <1>2, <1>3, <1>7, <2>1 DEF Shape
  <2>3. Sequence(c)
    BY <1>4, <2>1, Appended
  <2>4. PopV(m, 1) = Machine(c, h)
    BY <2>2, <2>3, MachinePop, PopAppended
  <2>5. PICK a : a = NextStep(PopV(m, 1), t)
    OBVIOUS
  <2>6. st = WithValue(a, t)
    BY <1>1, <1>7, <2>5 DEF LoopAdvanced
  <2>7. Showing(a, Append(b, t), h, Len(b) + 2, next)
    BY <1>1, <1>3, <1>4, <2>1, <2>4, <2>5, NextGoes
  <2> QED
    BY <1>1, <1>7, <2>6, <2>7, ShowingRests
<1> QED
  BY <1>5, <1>6, <1>7 DEF Classes

(* A loop object that ends leaves what was below it. *)
LEMMA LoopEnds ==
  ASSUME NEW b, Sequence(b), NEW rec, rec.class \in Classes, rec.tableidx = Len(b) + 1,
         rec.key = NoKey \/ rec.key = Seat(rec.class, b), rec.class = "each" => rec.key = NoKey,
         NEW k
  PROVE  LoopEnded(Shape(rec.class, rec.t, b, rec.key, k, rec.value), rec) = b
<1>1. Len(b) \in Nat
  BY SequenceFacts
<1>2. CASE rec.class = "pairs"
  <2>1. CASE rec.key = NoKey
    BY <1>2, <2>1 DEF LoopEnded, Shape
  <2>2. CASE rec.key # NoKey
    <3>1. rec.key = Len(b) + 1
      BY <1>2, <2>2 DEF Seat
    <3>2. Shape(rec.class, rec.t, b, rec.key, k, rec.value) = Append(b, k)
      BY <1>2, <2>2 DEF Shape
    <3>3. LuaRemove(Append(b, k), rec.key) = b
      BY <3>1, RemoveLast
    <3> QED
      BY <1>2, <2>2, <3>2, <3>3 DEF LoopEnded
  <2> QED
    BY <2>1, <2>2
<1>3. CASE rec.class = "table"
  <2>1. PICK w : w = Append(b, rec.t)
    OBVIOUS
  <2>2. Sequence(w) /\ Len(w) = Len(b) + 1
    BY <2>1, Appended
  <2>3. StackRemove(w, rec.tableidx, 1) = b
    BY <2>1, RemoveLast
  <2>4. CASE rec.key = NoKey
    <3>1. Shape(rec.class, rec.t, b, rec.key, k, rec.value) = w
      BY <1>3, <2>1, <2>4 DEF Shape
    <3> QED
      BY <1>3, <2>3, <2>4, <3>1 DEF LoopEnded, TableEnded
  <2>5. CASE rec.key # NoKey
    <3>1. rec.key = Len(w) + 1
      BY <1>1, <1>3, <2>2, <2>5 DEF Seat
    <3>2. Shape(rec.class, rec.t, b, rec.key, k, rec.value) = Append(w, k)
      BY <1>3, <2>1, <2>5 DEF Shape
    <3>3. StackRemove(Append(w, k), rec.key, 1) = w
      BY <2>2, <3>1, RemoveLast
    <3> QED
      BY <1>3, <2>3, <2>5, <3>2, <3>3 DEF LoopEnded, TableEnded
  <2> QED
    BY <2>4, <2>5
<1>4. CASE rec.class = "each"
  BY <1>4 DEF LoopEnded, Shape
<1> QED
  BY <1>2, <1>3, <1>4 DEF Classes

--------------------------------------------------------------------------------
(* The loops under way *)

OnStack == Held \cup Keys \cup {Nil, Other}

(* What the loop with that object keeps on the stack above b. *)
StoodOn(b, rec, seen) == Shape(rec.class, rec.t, b, rec.key, Last(seen), rec.value)

(* The indices it remembers are those of what it keeps. *)
Seated(rec, b) ==
  rec.tableidx = Len(b) + 1 /\ (rec.key = NoKey \/ rec.key = Seat(rec.class, b))

(* f[n] is what lies on the stack up to the n-th loop and its body's values. *)
Laying(f, s, ord, ow, lo, vi) ==
  /\ \A n \in 0 .. Len(ord) : f[n] \in Seq(OnStack)
  /\ f[0] = ow[1] /\ s = f[Len(ord)]
  /\ \A n \in 1 .. Len(ord) :
       /\ Seated(lo[ord[n]], f[n - 1])
       /\ f[n] = StoodOn(f[n - 1], lo[ord[n]], vi[ord[n]]) \o ow[n + 1]

(* What a loop has shown is in order; all that stays and was not shown is still to come. *)
ShownSound(rec, seen, stay, h) ==
  /\ seen \in Seq(Keys) /\ Ascends(seen)
  /\ rec.key = NoKey => stay \subseteq ToSet(seen)
  /\ rec.key # NoKey =>
       /\ seen # <<>>
       /\ \A k \in stay : k \in ToSet(seen) \/ (After(Last(seen), k) /\ h[rec.t][k] # Nil)

(* The objects made are the loops under way, each once, over tables that are there. *)
Objects(lo, ord, h) ==
  /\ lo \in [Loops -> LoopType \cup {Unmade}] /\ ord \in Seq(Loops)
  /\ \A i, j \in 1 .. Len(ord) : ord[i] = ord[j] => i = j
  /\ \A l \in Loops : lo[l] # Unmade <=> \E n \in 1 .. Len(ord) : ord[n] = l
  /\ \A n \in 1 .. Len(ord) : h[lo[ord[n]].t] # Free

Typed(ord, ow, vi, st, le) ==
  /\ ow \in Seq(Seq(Held \cup {Nil})) /\ Len(ow) = Len(ord) + 1
  /\ vi \in [Loops -> Seq(Keys)] /\ st \in [Loops -> SUBSET Keys]
  /\ le \in [Loops -> 0 .. MaxBody]

Running(s, h, lo, ord, ow, vi, st, le) ==
  /\ Fits(h) /\ Standing(s, h)
  /\ Objects(lo, ord, h)
  /\ Typed(ord, ow, vi, st, le)
  /\ \A n \in 1 .. Len(ord) : ShownSound(lo[ord[n]], vi[ord[n]], st[ord[n]], h)
  /\ \E f : Laying(f, s, ord, ow, lo, vi)

LEMMA ObjectMade ==
  ASSUME NEW lo, NEW ord, NEW h, Objects(lo, ord, h), NEW n \in 1 .. Len(ord)
  PROVE  /\ ord[n] \in Loops /\ lo[ord[n]] \in LoopType /\ lo[ord[n]] # Unmade
         /\ lo[ord[n]].class \in Classes /\ lo[ord[n]].t \in Tables /\ h[lo[ord[n]].t] # Free
         /\ lo[ord[n]].value \in Held \cup {Nil, Other}
<1>1. ord[n] \in Loops
  BY DEF Objects
<1>2. lo[ord[n]] # Unmade /\ lo[ord[n]] \in LoopType
  BY <1>1 DEF Objects
<1> QED
  BY <1>1, <1>2 DEF Objects, LoopType

(* The next key shown is the first one left of those that stay. *)
LEMMA ShownNext ==
  ASSUME NEW rec, NEW seen, NEW stay, NEW h, stay \subseteq Keys, ShownSound(rec, seen, stay, h),
         rec.key # NoKey, NEW next, next = NextKey(h, rec.t, Last(seen)), NEW new, new.t = rec.t,
         NEW after, IF next = Nil THEN new.key = NoKey /\ after = seen
                    ELSE new.key # NoKey /\ after = Append(seen, next)
  PROVE  ShownSound(new, after, stay, h)
<1>1. /\ seen \in Seq(Keys) /\ Ascends(seen) /\ seen # <<>>
      /\ \A k \in stay : k \in ToSet(seen) \/ (After(Last(seen), k) /\ h[rec.t][k] # Nil)
  BY DEF ShownSound
<1>2. PICK n \in Nat : n = Len(seen) /\ n > 0
  BY <1>1
<1>3. PICK k \in Keys : k = Last(seen) /\ k = seen[n]
  BY <1>1, <1>2 DEF Last
<1>4. IF next = Nil THEN NoneAfter(h, rec.t, k) ELSE FirstAfter(h, rec.t, k, next)
  BY <1>3, NextKeyFinds
<1>5. CASE next = Nil
  <2>1. stay \subseteq ToSet(seen)
    BY <1>1, <1>3, <1>4, <1>5 DEF NoneAfter
  <2> QED
    BY <1>1, <1>5, <2>1 DEF ShownSound
<1>6. CASE next # Nil
  <2>1. /\ next \in Keys /\ h[rec.t][next] # Nil /\ After(k, next)
        /\ \A q \in Keys : h[rec.t][q] # Nil /\ After(k, q) => q = next \/ After(next, q)
    BY <1>4, <1>6 DEF FirstAfter
  <2>2. new.key # NoKey /\ after = Append(seen, next)
    BY <1>6
  <2>3. /\ after \in Seq(Keys) /\ Len(after) = n + 1 /\ after[n + 1] = next
        /\ \A i \in 1 .. n : after[i] = seen[i]
    BY <1>1, <1>2, <2>1, <2>2
  <2>4. ASSUME NEW i \in 1 .. n PROVE After(seen[i], next)
    <3>1. i = n \/ After(seen[i], k)
      BY <1>1, <1>2, <1>3 DEF Ascends
    <3>2. seen[i] \in Keys
      BY <1>1, <1>2
    <3> QED
      BY <1>3, <2>1, <3>1, <3>2, PositionsCompare DEF After
  <2>5. Ascends(after)
    <3> SUFFICES ASSUME NEW i \in 1 .. n + 1, NEW j \in 1 .. n + 1, i < j
                 PROVE  After(after[i], after[j])
      BY <2>3 DEF Ascends
    <3>1. CASE j = n + 1
      BY <2>3, <2>4, <3>1
    <3>2. CASE j # n + 1
      <4>1. i \in 1 .. n /\ j \in 1 .. n
        BY <3>2
      <4> QED
        BY <1>1, <1>2, <2>3, <4>1 DEF Ascends
    <3> QED
      BY <3>1, <3>2
  <2>6. ToSet(seen) \cup {next} \subseteq ToSet(after)
    BY <1>1, <1>2, <2>3 DEF ToSet
  <2>7. Last(after) = next /\ after # <<>>
    BY <2>3 DEF Last
  <2>8. ASSUME NEW q \in stay PROVE q \in ToSet(after) \/ (After(next, q) /\ h[rec.t][q] # Nil)
    BY <1>1, <1>3, <2>1, <2>6
  <2> QED
    BY <2>2, <2>3, <2>5, <2>7, <2>8 DEF ShownSound
<1> QED
  BY <1>5, <1>6

(* At the beginning all that is there is still to come. *)
LEMMA ShownFirst ==
  ASSUME NEW h, NEW t, NEW stay, stay = {k \in Keys : h[t][k] # Nil}, NEW next, next = NextKey(h, t, Nil),
         NEW new, new.t = t, NEW after,
         IF next = Nil THEN new.key = NoKey /\ after = <<>> ELSE new.key # NoKey /\ after = <<next>>
  PROVE  ShownSound(new, after, stay, h)
<1>1. IF next = Nil THEN NoneAfter(h, t, Nil) ELSE FirstAfter(h, t, Nil, next)
  BY NextKeyFinds
<1>2. CASE next = Nil
  <2>1. stay = {}
    BY <1>1, <1>2, PositionsCompare DEF NoneAfter
  <2>2. after \in Seq(Keys) /\ Len(after) = 0
    BY <1>2
  <2> QED
    BY <1>2, <2>1, <2>2 DEF ShownSound, Ascends
<1>3. CASE next # Nil
  <2>1. next \in Keys /\ \A q \in stay : q = next \/ After(next, q)
    BY <1>1, <1>3, PositionsCompare DEF FirstAfter
  <2>0. after = <<next>> /\ next \in Keys
    BY <1>3, <2>1
  <2>2. /\ after \in Seq(Keys) /\ Len(after) = 1 /\ after[1] = next /\ after # <<>>
    BY <2>0
  <2>3. Last(after) = next /\ next \in ToSet(after) /\ Ascends(after)
    BY <2>2 DEF Last, ToSet, Ascends
  <2> QED
    BY <1>3, <2>1, <2>2, <2>3 DEF ShownSound
<1> QED
  BY <1>2, <1>3

LEMMA ShownStays ==
  ASSUME NEW rec, NEW seen, NEW stay, NEW h, ShownSound(rec, seen, stay, h), NEW new,
         new.t = rec.t, new.key = rec.key, NEW less, less \subseteq stay, NEW g,
         \A k \in less : h[rec.t][k] # Nil => g[rec.t][k] # Nil
  PROVE  ShownSound(new, seen, less, g)
  BY DEF ShownSound

LEMMA SequenceOf ==
  ASSUME NEW S, NEW s \in Seq(S)
  PROVE  Sequence(s) /\ Len(s) \in Nat
  BY DEF Sequence

(* Up to the M-th loop nothing is different. *)
SameBelow(M, ord, ow, lo, vi, ord2, ow2, lo2, vi2) ==
  /\ \A n \in 1 .. M : ord2[n] = ord[n] /\ lo2[ord[n]] = lo[ord[n]] /\ vi2[ord[n]] = vi[ord[n]]
  /\ \A n \in 1 .. M + 1 : ow2[n] = ow[n]

(* One loop more lies above it, and on top the values of its body. *)
LaidOn(f, M, s2, ord2, ow2, lo2, vi2) ==
  /\ s2 \in Seq(OnStack) /\ Len(ord2) = M + 1
  /\ Seated(lo2[ord2[M + 1]], f[M])
  /\ s2 = StoodOn(f[M], lo2[ord2[M + 1]], vi2[ord2[M + 1]]) \o ow2[M + 2]

LEMMA LayingOver ==
  ASSUME NEW f, NEW s, NEW ord, NEW ow, NEW lo, NEW vi, Laying(f, s, ord, ow, lo, vi), Len(ord) \in Nat,
         NEW M \in 0 .. Len(ord), NEW ord2, NEW ow2, NEW lo2, NEW vi2, NEW s2,
         SameBelow(M, ord, ow, lo, vi, ord2, ow2, lo2, vi2), LaidOn(f, M, s2, ord2, ow2, lo2, vi2)
  PROVE  \E g : Laying(g, s2, ord2, ow2, lo2, vi2)
<1> USE DEF SameBelow, LaidOn
<1>1. PICK g : g = [n \in 0 .. M + 1 |-> IF n = M + 1 THEN s2 ELSE f[n]]
  OBVIOUS
<1>0. M \in Nat /\ \A n \in 0 .. Len(ord) : f[n] \in Seq(OnStack)
  BY DEF Laying
<1>2. g[M + 1] = s2 /\ \A n \in 0 .. M : g[n] = f[n]
  <2>1. M + 1 \in 0 .. M + 1 /\ \A n \in 0 .. M : n \in 0 .. M + 1 /\ n # M + 1
    BY <1>0
  <2> QED
    BY <1>1, <2>1, Zenon
<1>3. \A n \in 0 .. Len(ord2) : g[n] \in Seq(OnStack)
  <2>1. \A n \in 0 .. Len(ord2) : n = M + 1 \/ (n \in 0 .. M /\ n \in 0 .. Len(ord))
    BY <1>0
  <2> QED
    BY <1>0, <1>2, <2>1, Zenon
<1>4. g[0] = ow2[1] /\ s2 = g[Len(ord2)]
  <2>1. 0 \in 0 .. M /\ 1 \in 1 .. M + 1 /\ Len(ord2) = M + 1
    BY <1>0
  <2>2. f[0] = ow[1]
    BY DEF Laying
  <2>3. ow2[1] = ow[1]
    BY <2>1, Zenon
  <2> QED
    BY <1>2, <2>1, <2>2, <2>3, Zenon
<1>5. ASSUME NEW n \in 1 .. Len(ord2)
      PROVE  /\ Seated(lo2[ord2[n]], g[n - 1])
             /\ g[n] = StoodOn(g[n - 1], lo2[ord2[n]], vi2[ord2[n]]) \o ow2[n + 1]
  <2>1. CASE n = M + 1
    <3>1. M \in 0 .. M /\ n - 1 = M /\ n + 1 = M + 2
      BY <1>0, <2>1
    <3>2. g[n - 1] = f[M] /\ g[n] = s2
      BY <1>2, <2>1, <3>1
    <3> QED
      BY <2>1, <3>1, <3>2
  <2>2. CASE n # M + 1
    <3>1. n \in 1 .. M /\ n \in 1 .. Len(ord) /\ n - 1 \in 0 .. M /\ n + 1 \in 1 .. M + 1 /\ n \in 0 .. M
      BY <2>2
    <3>2. /\ ord2[n] = ord[n] /\ lo2[ord2[n]] = lo[ord[n]] /\ vi2[ord2[n]] = vi[ord[n]]
          /\ ow2[n + 1] = ow[n + 1] /\ g[n] = f[n] /\ g[n - 1] = f[n - 1]
      BY <1>2, <3>1
    <3>3. Seated(lo[ord[n]], f[n - 1]) /\ f[n] = StoodOn(f[n - 1], lo[ord[n]], vi[ord[n]]) \o ow[n + 1]
      BY <3>1 DEF Laying
    <3> QED
      BY <3>2, <3>3
  <2> QED
    BY <2>1, <2>2
<1>6. Laying(g, s2, ord2, ow2, lo2, vi2)
  BY <1>3, <1>4, <1>5 DEF Laying
<1> QED
  BY <1>6

(* Only the loops up to the M-th. *)
LEMMA LayingUnder ==
  ASSUME NEW f, NEW s, NEW ord, NEW ow, NEW lo, NEW vi, Laying(f, s, ord, ow, lo, vi), Len(ord) \in Nat,
         NEW M \in 0 .. Len(ord), NEW ord2, Len(ord2) = M, NEW ow2, NEW lo2, NEW vi2,
         SameBelow(M, ord, ow, lo, vi, ord2, ow2, lo2, vi2)
  PROVE  Laying(f, f[M], ord2, ow2, lo2, vi2)
<1> USE DEF SameBelow
<1>1. ASSUME NEW n \in 1 .. Len(ord2)
      PROVE  /\ Seated(lo2[ord2[n]], f[n - 1])
             /\ f[n] = StoodOn(f[n - 1], lo2[ord2[n]], vi2[ord2[n]]) \o ow2[n + 1]
  <2>1. n \in 1 .. M /\ n \in 1 .. Len(ord) /\ n + 1 \in 1 .. M + 1
    OBVIOUS
  <2>2. /\ ord2[n] = ord[n] /\ lo2[ord2[n]] = lo[ord[n]] /\ vi2[ord2[n]] = vi[ord[n]]
        /\ ow2[n + 1] = ow[n + 1]
    BY <2>1
  <2>3. Seated(lo[ord[n]], f[n - 1]) /\ f[n] = StoodOn(f[n - 1], lo[ord[n]], vi[ord[n]]) \o ow[n + 1]
    BY <2>1 DEF Laying
  <2> QED
    BY <2>2, <2>3
<1>2. (\A n \in 0 .. Len(ord2) : f[n] \in Seq(OnStack)) /\ f[0] = ow2[1] /\ f[M] = f[Len(ord2)]
  BY DEF Laying
<1> QED
  BY <1>1, <1>2 DEF Laying

(* No loops: only the program's own values. *)
LEMMA LayingNone ==
  ASSUME NEW s \in Seq(OnStack), NEW ord, Len(ord) = 0, NEW ow, s = ow[1], NEW lo, NEW vi
  PROVE  \E g : Laying(g, s, ord, ow, lo, vi)
<1>1. PICK g : g = [n \in 0 .. 0 |-> s]
  OBVIOUS
<1>2. g[0] = s /\ \A n \in 0 .. Len(ord) : g[n] \in Seq(OnStack)
  BY <1>1
<1>3. Laying(g, s, ord, ow, lo, vi)
  BY <1>2 DEF Laying
<1> QED
  BY <1>3

LEMMA ShapeEnded ==
  ASSUME NEW class, NEW t, NEW b, NEW k, NEW value, NEW k2, NEW value2
  PROVE  Shape(class, t, b, NoKey, k, value) = Shape(class, t, b, NoKey, k2, value2)
  BY DEF Shape

LEMMA StandingMore ==
  ASSUME NEW s, Sequence(s), NEW h, NEW v
  PROVE  Standing(Append(s, v), h) <=> Standing(s, h) /\ There(h, v)
<1>1. PICK u : u = Append(s, v)
  OBVIOUS
<1>2. /\ Len(u) = Len(s) + 1 /\ u[Len(s) + 1] = v /\ Len(s) \in Nat
      /\ \A i \in 1 .. Len(s) : u[i] = s[i]
  BY <1>1, Appended, SequenceFacts
<1>3. ASSUME Standing(u, h) PROVE Standing(s, h) /\ There(h, v)
  <2>1. Len(s) + 1 \in 1 .. Len(u) /\ \A i \in 1 .. Len(s) : i \in 1 .. Len(u)
    BY <1>2
  <2> QED
    BY <1>2, <1>3, <2>1 DEF Standing
<1>4. ASSUME Standing(s, h), There(h, v) PROVE Standing(u, h)
  <2>1. ASSUME NEW i \in 1 .. Len(u) PROVE There(h, u[i])
    <3>1. CASE i = Len(s) + 1
      BY <1>2, <1>4, <3>1
    <3>2. CASE i # Len(s) + 1
      BY <1>2, <1>4, <3>2 DEF Standing
    <3> QED
      BY <3>1, <3>2
  <2> QED
    BY <2>1 DEF Standing
<1> QED
  BY <1>1, <1>3, <1>4

(* What a loop keeps is of the kinds there are, and nothing it keeps is gone. *)
LEMMA ShapeStands ==
  ASSUME NEW class, NEW t \in Tables, NEW b \in Seq(OnStack), NEW key, NEW k \in OnStack,
         NEW value \in OnStack, NEW h, NEW s, s = Shape(class, t, b, key, k, value)
  PROVE  /\ s \in Seq(OnStack)
         /\ Standing(s, h) => Standing(b, h)
         /\ Standing(b, h) /\ There(h, t) /\ There(h, k) /\ There(h, value) => Standing(s, h)
<1>1. PICK x, y, z : x = Append(b, t) /\ y = Append(x, k) /\ z = Append(y, value)
  OBVIOUS
<1>2. PICK w : w = Append(b, k)
  OBVIOUS
<1>3. t \in OnStack
  BY DEF OnStack, Held
<1>4. x \in Seq(OnStack) /\ y \in Seq(OnStack) /\ z \in Seq(OnStack) /\ w \in Seq(OnStack)
  BY <1>1, <1>2, <1>3
<1>5. s \in {b, x, y, z, w}
  BY <1>1, <1>2 DEF Shape
<1>6. /\ Standing(x, h) <=> Standing(b, h) /\ There(h, t)
      /\ Standing(y, h) <=> Standing(x, h) /\ There(h, k)
      /\ Standing(z, h) <=> Standing(y, h) /\ There(h, value)
      /\ Standing(w, h) <=> Standing(b, h) /\ There(h, k)
  BY <1>1, <1>2, <1>4, StandingMore, SequenceOf
<1> QED
  BY <1>4, <1>5, <1>6

(* The key a loop shows is where it remembers it. *)
LEMMA RestsShows ==
  ASSUME NEW st, NEW class \in Classes, NEW t, NEW b, Sequence(b), NEW h, NEW next, next # Nil,
         Rests(st, class, t, b, h, next)
  PROVE  At(st.m, st.key) = next
<1>1. PICK value : value = ValueIn(class, h, t, next)
  OBVIOUS
<1>2. PICK s, key : s = Shape(class, t, b, key, next, value) /\ key = Seat(class, b)
  OBVIOUS
<1>3. st.m = Machine(s, h) /\ st.key = key
  BY <1>1, <1>2 DEF Rests, Taken
<1>4. key # NoKey
  BY <1>2, SeatIsNoEnd
<1>5. PICK x, y, z, w : /\ x = Append(b, t) /\ y = Append(x, next) /\ z = Append(y, value)
                        /\ w = Append(b, next)
  OBVIOUS
<1>6. Sequence(w) /\ Len(w) = Len(b) + 1 /\ w[Len(b) + 1] = next /\ Len(b) \in Nat
  BY <1>5, Appended, SequenceFacts
<1>7. Sequence(x) /\ Len(x) = Len(b) + 1
  BY <1>5, Appended
<1>8. Sequence(y) /\ Len(y) = Len(b) + 2 /\ y[Len(b) + 2] = next
  BY <1>5, <1>6, <1>7, Appended
<1>9. Sequence(z) /\ Len(z) = Len(b) + 3 /\ z[Len(b) + 2] = next
  <2>1. Len(b) + 2 \in 1 .. Len(y)
    BY <1>6, <1>8
  <2> QED
    BY <1>5, <1>6, <1>8, <2>1, Appended
<1>10. Sequence(s) /\ key \in 1 .. Len(s) /\ s[key] = next
  <2>1. CASE class = "pairs"
    <3>1. s = w /\ key = Len(b) + 1
      BY <1>2, <1>4, <1>5, <2>1 DEF Shape, Seat
    <3> QED
      BY <1>6, <3>1
  <2>2. CASE class = "table"
    <3>1. s = y /\ key = Len(b) + 2
      BY <1>2, <1>4, <1>5, <2>2 DEF Shape, Seat
    <3> QED
      BY <1>6, <1>8, <3>1
  <2>3. CASE class = "each"
    <3>1. s = z /\ key = Len(b) + 2
      BY <1>2, <1>4, <1>5, <2>3 DEF Shape, Seat
    <3> QED
      BY <1>6, <1>9, <3>1
  <2> QED
    BY <2>1, <2>2, <2>3 DEF Classes
<1>11. At(Machine(s, h), key) = s[key]
  BY <1>10, MachineAt
<1> QED
  BY <1>3, <1>10, <1>11

(* A step of the program; the tables held by reference are left alone. *)
LEMMA BecomesKept ==
  ASSUME NEW m, Stacked(m), NEW kept, kept \subseteq Tables, Becomes(m, kept)
  PROVE  /\ stack' = m.s /\ Fits(heap') /\ Standing(stack', heap')
         /\ \A t \in kept : heap'[t] = m.h[t]
<1>1. stack' = m.s /\ heap' = Collected(m.h, m.s, kept)
  BY DEF Becomes
<1>2. PICK from : from = Rooted \cup kept \cup (ToSet(m.s) \cap Tables)
  OBVIOUS
<1>3. PICK alive : alive = Reached(m.h, from)
  OBVIOUS
<1>4. from \subseteq alive
  BY <1>2, <1>3, ReachedLeast, TableAssumption
<1>5. heap' = [t \in Tables |-> IF t \in alive THEN m.h[t] ELSE Free]
  BY <1>1, <1>2, <1>3 DEF Collected
<1> QED
  BY <1>1, <1>2, <1>4, <1>5, BecomesStack

--------------------------------------------------------------------------------
(* Sequences shortened and lengthened *)

LEMMA NothingMore ==
  ASSUME NEW S, NEW a \in Seq(S), NEW e \in Seq(S), Len(e) = 0
  PROVE  a \o e = a
<1>1. PICK w : w = a \o e
  OBVIOUS
<1>2. w \in Seq(S) /\ Len(w) = Len(a) /\ \A i \in 1 .. Len(a) : w[i] = a[i]
  BY <1>1, Concatenated
<1> QED
  BY <1>1, <1>2, SameSequence DEF Sequence

LEMMA NoneLong ==
  ASSUME NEW S, NEW s \in Seq(S), Len(s) = 0
  PROVE  s = <<>>
  BY EmptySequence, SameSequence DEF Sequence

LEMMA FrontAndLast ==
  ASSUME NEW S, NEW s \in Seq(S), s # <<>>
  PROVE  /\ Front(s) \in Seq(S) /\ Len(Front(s)) = Len(s) - 1 /\ Len(s) > 0
         /\ \A i \in 1 .. Len(s) - 1 : Front(s)[i] = s[i]
         /\ Last(s) = s[Len(s)] /\ Last(s) \in S
         /\ s = Append(Front(s), Last(s))
<1>1. PICK n \in Nat : n = Len(s) /\ n > 0
  OBVIOUS
<1>2. PICK f, v : f = Front(s) /\ v = Last(s)
  OBVIOUS
<1>3. f = SubSeq(s, 1, n - 1) /\ v = s[n]
  BY <1>1, <1>2 DEF Front, Last
<1>4. f \in Seq(S) /\ Len(f) = n - 1 /\ (\A i \in 1 .. n - 1 : f[i] = s[i]) /\ v \in S
  BY <1>1, <1>3
<1>5. PICK w : w = Append(f, v)
  OBVIOUS
<1>6. /\ Sequence(w) /\ Len(w) = n /\ w[n] = v /\ \A i \in 1 .. n - 1 : w[i] = f[i]
  BY <1>1, <1>4, <1>5, Appended DEF Sequence
<1>7. s = w
  <2>1. \A i \in 1 .. n : s[i] = w[i]
    <3> SUFFICES ASSUME NEW i \in 1 .. n PROVE s[i] = w[i]
      OBVIOUS
    <3>1. CASE i = n
      BY <1>3, <1>6, <3>1
    <3>2. CASE i # n
      BY <1>1, <1>4, <1>6, <3>2
    <3> QED
      BY <3>1, <3>2
  <2> QED
    BY <1>1, <1>6, <2>1, SameSequence DEF Sequence
<1> QED
  BY <1>1, <1>2, <1>3, <1>4, <1>5, <1>7

Joined(a, c, s) == s = a \o c

LEMMA AppendJoined ==
  ASSUME NEW S, NEW a \in Seq(S), NEW c \in Seq(S), NEW v \in S, NEW x, Joined(a, c, x),
         NEW d, d = Append(c, v), NEW u, u = Append(x, v)
  PROVE  Joined(a, d, u)
<1>1. PICK w : x = a \o c /\ u = Append(x, v) /\ d = Append(c, v) /\ w = a \o d
  BY DEF Joined
<1>2. PICK k \in Nat, n \in Nat : k = Len(a) /\ n = Len(c)
  OBVIOUS
<1>3. /\ x \in Seq(S) /\ Len(x) = k + n
      /\ \A i \in 1 .. k : x[i] = a[i]
      /\ \A i \in 1 .. n : x[k + i] = c[i]
  BY <1>1, <1>2, Concatenated
<1>4. d \in Seq(S) /\ Len(d) = n + 1 /\ d[n + 1] = v /\ \A i \in 1 .. n : d[i] = c[i]
  BY <1>1, <1>2
<1>5. /\ u \in Seq(S) /\ Len(u) = k + n + 1 /\ u[k + n + 1] = v
      /\ \A i \in 1 .. k + n : u[i] = x[i]
  BY <1>1, <1>2, <1>3
<1>6. /\ w \in Seq(S) /\ Len(w) = k + (n + 1)
      /\ \A i \in 1 .. k : w[i] = a[i]
      /\ \A i \in 1 .. n + 1 : w[k + i] = d[i]
  BY <1>1, <1>2, <1>4, Concatenated
<1>7. ASSUME NEW i \in 1 .. k + n + 1 PROVE u[i] = w[i]
  <2>1. CASE i <= k
    <3>1. i \in 1 .. k /\ i \in 1 .. k + n
      BY <2>1
    <3> QED
      BY <1>3, <1>5, <1>6, <3>1
  <2>2. CASE i > k
    <3>1. PICK j \in 1 .. n + 1 : i = k + j
      <4>1. i - k \in 1 .. n + 1 /\ i = k + (i - k)
        BY <2>2
      <4> QED
        BY <4>1
    <3>2. w[i] = d[j]
      BY <1>6, <3>1
    <3>3. CASE j = n + 1
      BY <1>4, <1>5, <3>1, <3>2, <3>3
    <3>4. CASE j # n + 1
      <4>1. j \in 1 .. n /\ i \in 1 .. k + n
        BY <3>1, <3>4
      <4>2. u[i] = x[i]
        BY <1>5, <4>1
      <4>3. x[i] = c[j]
        BY <1>3, <3>1, <4>1
      <4>4. d[j] = c[j]
        BY <1>4, <4>1
      <4> QED
        BY <3>2, <4>2, <4>3, <4>4
    <3> QED
      BY <3>1, <3>3, <3>4
  <2> QED
    <3>1. i <= k \/ i > k
      OBVIOUS
    <3> QED
      BY <2>1, <2>2, <3>1
<1>8. u = w
  <2>1. Sequence(u) /\ Sequence(w) /\ Len(u) = Len(w) /\ \A i \in 1 .. Len(u) : u[i] = w[i]
    BY <1>5, <1>6, <1>7 DEF Sequence
  <2> QED
    BY <2>1, SameSequence
<1> QED
  BY <1>1, <1>8 DEF Joined

LEMMA PopOver ==
  ASSUME NEW S, NEW a \in Seq(S), NEW c \in Seq(S), c # <<>>
  PROVE  Pop(a \o c, 1) = a \o Front(c)
<1>1. PICK f, v : f = Front(c) /\ v = Last(c)
  OBVIOUS
<1>2. f \in Seq(S) /\ v \in S /\ c = Append(f, v)
  BY <1>1, FrontAndLast
<1>3. PICK x : x = a \o f
  OBVIOUS
<1>4. Sequence(x)
  BY <1>2, <1>3, Concatenated DEF Sequence
<1>5. a \o c = Append(x, v)
  <2>1. PICK u : u = Append(x, v)
    OBVIOUS
  <2>2. Joined(a, f, x)
    BY <1>3 DEF Joined
  <2>3. Joined(a, c, u)
    BY <1>2, <2>1, <2>2, AppendJoined
  <2> QED
    BY <2>1, <2>3 DEF Joined
<1> QED
  BY <1>1, <1>3, <1>4, <1>5, PopAppended

LEMMA LastRemoved ==
  ASSUME NEW S, NEW s \in Seq(S), NEW n, n = Len(s), n > 0
  PROVE  RemoveAt(s, n) = Front(s)
<1>1. PICK f, e : f = SubSeq(s, 1, n - 1) /\ e = SubSeq(s, n + 1, n)
  OBVIOUS
<1>2. f \in Seq(S) /\ e \in Seq(S) /\ Len(e) = 0
  BY <1>1
<1>3. f \o e = f
  BY <1>2, NothingMore
<1> QED
  BY <1>1, <1>3 DEF RemoveAt, Front

--------------------------------------------------------------------------------
(* The body's steps *)

LEMMA NoCorners ==
  ASSUME Orderly
  PROVE  /\ Straight
         /\ \A c \in IterationCorners : c \notin Corners
  BY DEF Orderly

(* The tables the loops up to some loop hold are kept. *)
LEMMA ReferencedThere ==
  ASSUME NEW h, Objects(loop, order, h), NEW ord \in Seq(Loops), Len(ord) <= Len(order),
         \A n \in 1 .. Len(ord) : ord[n] = order[n], NEW kept, kept = Referenced(ord)
  PROVE  kept \subseteq Tables /\ \A n \in 1 .. Len(ord) : loop[ord[n]].t \in kept
<1>1. ToSet(ord) = {ord[n] : n \in 1 .. Len(ord)}
  BY DEF ToSet
<1>2. \A n \in 1 .. Len(ord) : n \in 1 .. Len(order) /\ loop[ord[n]].t \in Tables
  <2> SUFFICES ASSUME NEW n \in 1 .. Len(ord) PROVE n \in 1 .. Len(order) /\ loop[ord[n]].t \in Tables
    OBVIOUS
  <2>1. n \in 1 .. Len(order) /\ order \in Seq(Loops)
    BY DEF Objects
  <2> QED
    BY <2>1, ObjectMade
<1> QED
  BY <1>1, <1>2 DEF Referenced

LoopsInv == Running(stack, heap, loop, order, own, visited, stayed, left)

LEMMA RunningFacts ==
  ASSUME LoopsInv
  PROVE  /\ Sequence(stack) /\ stack \in Seq(OnStack) /\ Fits(heap) /\ Standing(stack, heap)
         /\ order \in Seq(Loops) /\ Len(order) \in Nat /\ Objects(loop, order, heap)
         /\ Typed(order, own, visited, stayed, left)
         /\ Len(own) = Len(order) + 1 /\ own \in Seq(Seq(Held \cup {Nil}))
         /\ own[Level] \in Seq(Held \cup {Nil})
<1>1. order \in Seq(Loops) /\ Len(order) \in Nat
  BY DEF LoopsInv, Running, Objects
<1>2. stack \in Seq(OnStack)
  <2>1. PICK f : Laying(f, stack, order, own, loop, visited)
    BY DEF LoopsInv, Running
  <2>2. Len(order) \in 0 .. Len(order)
    BY <1>1
  <2> QED
    BY <2>1, <2>2 DEF Laying
<1>3. Len(own) = Len(order) + 1 /\ own \in Seq(Seq(Held \cup {Nil}))
  BY DEF LoopsInv, Running, Typed
<1>4. Level \in 1 .. Len(own)
  BY <1>1, <1>3 DEF Level
<1>5. own[Level] \in Seq(Held \cup {Nil})
  BY <1>3, <1>4
<1> QED
  BY <1>1, <1>2, <1>3, <1>5 DEF LoopsInv, Running, Sequence

LEMMA AllReferenced ==
  ASSUME LoopsInv, NEW kept, kept = Referenced(order)
  PROVE  kept \subseteq Tables /\ \A n \in 1 .. Len(order) : loop[order[n]].t \in kept
<1>1. order \in Seq(Loops) /\ Len(order) <= Len(order) /\ Objects(loop, order, heap)
  BY RunningFacts
<1>2. PICK h, ord : h = heap /\ ord = order
  OBVIOUS
<1>3. Objects(loop, order, h) /\ ord \in Seq(Loops) /\ Len(ord) <= Len(order) /\ kept = Referenced(ord)
  BY <1>1, <1>2
<1>4. kept \subseteq Tables /\ \A n \in 1 .. Len(ord) : loop[ord[n]].t \in kept
  BY <1>2, <1>3, ReferencedThere
<1> QED
  BY <1>2, <1>4

(* A statement of the innermost body leaves the counters in their range. *)
LEMMA StatementCounts ==
  ASSUME LoopsInv, Statement
  PROVE  left' \in [Loops -> 0 .. MaxBody]
<1>1. order \in Seq(Loops) /\ left \in [Loops -> 0 .. MaxBody]
  BY RunningFacts DEF Typed
<1>2. CASE order = <<>>
  BY <1>1, <1>2 DEF Statement
<1>3. CASE order # <<>>
  <2>1. PICK l : l = Last(order)
    OBVIOUS
  <2>2. l \in Loops
    BY <1>1, <1>3, <2>1, FrontAndLast
  <2>3. left[l] > 0 /\ left' = [left EXCEPT ![l] = left[l] - 1]
    BY <1>3, <2>1 DEF Statement
  <2>4. left[l] - 1 \in 0 .. MaxBody
    BY <1>1, <2>2, <2>3, IterationAssumption
  <2> QED
    BY <1>1, <2>2, <2>3, <2>4
<1> QED
  BY <1>2, <1>3

(* What a loop keeps is of the kinds there are. *)
LEMMA StoodKind ==
  ASSUME NEW rec, rec.t \in Tables, rec.value \in OnStack, NEW b \in Seq(OnStack), NEW seen, NEW stay,
         NEW h, ShownSound(rec, seen, stay, h), NEW x, x = StoodOn(b, rec, seen)
  PROVE  /\ x \in Seq(OnStack)
         /\ Standing(x, h) => Standing(b, h)
<1>1. PICK k : k = Last(seen)
  OBVIOUS
<1>2. x = Shape(rec.class, rec.t, b, rec.key, k, rec.value)
  BY <1>1 DEF StoodOn
<1>3. CASE rec.key = NoKey
  <2>1. Nil \in OnStack
    BY DEF OnStack
  <2>2. x = Shape(rec.class, rec.t, b, rec.key, Nil, rec.value)
    BY <1>2, <1>3, ShapeEnded
  <2> QED
    BY <2>1, <2>2, ShapeStands
<1>4. CASE rec.key # NoKey
  <2>1. seen \in Seq(Keys) /\ seen # <<>>
    BY <1>4 DEF ShownSound
  <2>2. k \in OnStack
    BY <1>1, <2>1, FrontAndLast DEF OnStack
  <2> QED
    BY <1>2, <2>2, ShapeStands
<1> QED
  BY <1>3, <1>4

(* What the body does to the stack and the tables leaves the loops as they are. *)
LEMMA BodyKeeps ==
  ASSUME LoopsInv, UNCHANGED <<loop, order, visited>>, Fits(heap'), Standing(stack', heap'),
         \A n \in 1 .. Len(order) : heap'[loop[order[n]].t] # Free,
         stayed' \in [Loops -> SUBSET Keys],
         \A n \in 1 .. Len(order) :
           /\ stayed'[order[n]] \subseteq stayed[order[n]]
           /\ \A k \in stayed'[order[n]] :
                heap[loop[order[n]].t][k] # Nil => heap'[loop[order[n]].t][k] # Nil,
         left' \in [Loops -> 0 .. MaxBody],
         own' \in Seq(Seq(Held \cup {Nil})), Len(own') = Len(own),
         \E f : Laying(f, stack', order, own', loop, visited)
  PROVE  LoopsInv'
<1>1. Objects(loop', order', heap')
  BY RunningFacts DEF Objects
<1>2. Typed(order', own', visited', stayed', left')
  BY RunningFacts DEF Typed
<1>3. ASSUME NEW n \in 1 .. Len(order)
      PROVE  ShownSound(loop[order[n]], visited[order[n]], stayed'[order[n]], heap')
  <2>1. ShownSound(loop[order[n]], visited[order[n]], stayed[order[n]], heap)
    BY DEF LoopsInv, Running
  <2>2. PICK rec, seen, stay, less, h, g :
          /\ rec = loop[order[n]] /\ seen = visited[order[n]] /\ stay = stayed[order[n]]
          /\ less = stayed'[order[n]] /\ h = heap /\ g = heap'
    OBVIOUS
  <2>3. ShownSound(rec, seen, stay, h) /\ less \subseteq stay
    BY <2>1, <2>2
  <2>4. \A k \in less : h[rec.t][k] # Nil => g[rec.t][k] # Nil
    BY <2>2
  <2>5. ShownSound(rec, seen, less, g)
    BY <2>3, <2>4 DEF ShownSound
  <2> QED
    BY <2>2, <2>5
<1>4. Running(stack', heap', loop, order, own', visited, stayed', left')
  BY <1>1, <1>2, <1>3 DEF Running
<1> QED
  BY <1>4 DEF LoopsInv

(* Nothing on the stack changes. *)
LEMMA StackUnchanged ==
  ASSUME LoopsInv, UNCHANGED <<stack, loop, order, own, visited>>, Fits(heap'),
         Standing(stack', heap'), \A n \in 1 .. Len(order) : heap'[loop[order[n]].t] # Free,
         stayed' = Staying(heap'), left' \in [Loops -> 0 .. MaxBody]
  PROVE  LoopsInv'
<1>1. Typed(order, own, visited, stayed, left) /\ Objects(loop, order, heap)
  BY RunningFacts
<1>2. \E f : Laying(f, stack', order, own', loop, visited)
  BY DEF LoopsInv, Running
<1>3. stayed \in [Loops -> SUBSET Keys] /\ own \in Seq(Seq(Held \cup {Nil}))
  BY <1>1 DEF Typed
<1>4. \A l \in Loops : stayed'[l] = IF loop[l] = Unmade THEN stayed[l]
                                    ELSE {k \in stayed[l] : heap'[loop[l].t][k] # Nil}
  BY DEF Staying
<1>5. stayed' \in [Loops -> SUBSET Keys]
  <2>1. \A l \in Loops : stayed'[l] \in SUBSET Keys
    BY <1>3, <1>4
  <2>2. stayed' = [l \in Loops |-> stayed'[l]]
    BY DEF Staying
  <2> QED
    BY <2>1, <2>2
<1>6. ASSUME NEW n \in 1 .. Len(order)
      PROVE  /\ stayed'[order[n]] \subseteq stayed[order[n]]
             /\ \A k \in stayed'[order[n]] : heap'[loop[order[n]].t][k] # Nil
  <2>1. order[n] \in Loops /\ loop[order[n]] # Unmade
    BY <1>1, ObjectMade
  <2> QED
    BY <1>4, <2>1
<1> QED
  BY <1>2, <1>3, <1>5, <1>6, BodyKeeps

LEMMA BodySetsKeeps ==
  ASSUME Orderly, LoopsInv, BodySets
  PROVE  LoopsInv'
<1>1. PICK start \in Starts(stack), path \in Paths, v \in Settable :
        Set(start, path, v, "none", Referenced(order))
  BY DEF BodySets
<1>2. PICK m, r, kept : /\ m = Machine(stack, heap) /\ kept = Referenced(order)
                        /\ r = TraverseSet(m, start, path, v, "none")
  OBVIOUS
<1>3. Becomes(r, kept)
  BY <1>1, <1>2 DEF Set
<1>4. Stacked(m) /\ m.s = stack /\ m.h = heap
  BY <1>2, RunningFacts, StackedMachine, MachineParts
<1>5. v \in Held \cup {Nil} /\ There(heap, v)
  BY NilIsNothing, TableAssumption DEF Settable, There, Held
<1>6. Stacked(r) /\ Grew(heap, r.h)
  BY <1>2, <1>4, <1>5, StackedWrite
<1>7. r.s = stack
  <2>1. WritesLand
    BY RunningFacts, WritesOfStack
  <2>2. "none" \in Modes
    BY DEF Modes
  <2>3. ~TraverseSet(Machine(stack, heap), start, path, v, "none").err
          => TraverseSet(Machine(stack, heap), start, path, v, "none").s = stack
    BY <2>1, <2>2, Zenon DEF WritesLand
  <2>4. ~r.err
    BY <1>3 DEF Becomes
  <2> QED
    BY <1>2, <2>3, <2>4
<1>8. kept \subseteq Tables /\ \A n \in 1 .. Len(order) : loop[order[n]].t \in kept
  BY <1>2, AllReferenced
<1>9. stack' = stack /\ Fits(heap') /\ Standing(stack', heap') /\ \A t \in kept : heap'[t] = r.h[t]
  BY <1>3, <1>6, <1>7, <1>8, BecomesKept
<1>10. ASSUME NEW n \in 1 .. Len(order) PROVE heap'[loop[order[n]].t] # Free
  <2>1. heap[loop[order[n]].t] # Free
    BY RunningFacts DEF Objects
  <2> QED
    BY <1>6, <1>8, <1>9, <2>1 DEF Grew
<1>11. left' \in [Loops -> 0 .. MaxBody]
  BY StatementCounts DEF BodySets
<1> QED
  BY <1>9, <1>10, <1>11, StackUnchanged DEF BodySets

LEMMA BodyClearsKeeps ==
  ASSUME LoopsInv, BodyClears
  PROVE  LoopsInv'
<1>1. PICK start \in Starts(stack) : Clear(start, Referenced(order))
  BY DEF BodyClears
<1>2. PICK m, kept : m = Machine(stack, heap) /\ kept = Referenced(order)
  OBVIOUS
<1>3. PICK no : no = FALSE
  OBVIOUS
<1>4. PICK o, i : o = Opened(m, start, no) /\ i = IndexOf(m, start, no)
  OBVIOUS
<1>5. PICK c : c = ClearTable(o, i)
  OBVIOUS
<1>6. PICK r : r = Closed(c, start, no)
  OBVIOUS
<1>7. Becomes(r, kept)
  BY <1>1, <1>2, <1>3, <1>4, <1>5, <1>6 DEF Clear
<1>8. Stacked(m) /\ m.s = stack /\ m.h = heap
  BY <1>2, RunningFacts, StackedMachine, MachineParts
<1>9. Stacked(o) /\ o.h = heap
  BY <1>4, <1>8, StackedOpened
<1>10. Stacked(c) /\ Grew(heap, c.h)
  BY <1>5, <1>9, StackedCleared
<1>11. Stacked(r) /\ r.h = c.h
  BY <1>6, <1>10, StackedClosed
<1>12. r.s = stack
  <2>1. ~no
    BY <1>3
  <2>2. c.s = o.s
    BY <1>5, <1>9 DEF ClearTable, Stacked
  <2>3. CASE start.kind = "stack"
    <3>1. o = m /\ r = c
      BY <1>4, <1>6, <2>3 DEF Opened, Closed
    <3> QED
      BY <1>8, <2>2, <3>1
  <2>4. CASE start.kind # "stack"
    <3>1. o = PushV(m, start.at) /\ r = PopV(c, 1)
      BY <1>4, <1>6, <2>1, <2>4 DEF Opened, Closed
    <3>2. o.s = Append(stack, start.at)
      <4>1. PICK at : at = start.at
        OBVIOUS
      <4>2. o = Machine(Append(stack, at), heap)
        BY <1>2, <3>1, <4>1, MachinePush
      <4> QED
        BY <4>1, <4>2, MachineParts
    <3>3. r.s = Pop(c.s, 1)
      BY <1>10, <3>1 DEF PopV, Stacked
    <3> QED
      BY <2>2, <3>2, <3>3, RunningFacts, PopAppended
  <2> QED
    BY <2>3, <2>4
<1>13. kept \subseteq Tables /\ \A n \in 1 .. Len(order) : loop[order[n]].t \in kept
  BY <1>2, AllReferenced
<1>14. stack' = stack /\ Fits(heap') /\ Standing(stack', heap') /\ \A t \in kept : heap'[t] = r.h[t]
  BY <1>7, <1>11, <1>12, <1>13, BecomesKept
<1>15. ASSUME NEW n \in 1 .. Len(order) PROVE heap'[loop[order[n]].t] # Free
  <2>1. heap[loop[order[n]].t] # Free
    BY RunningFacts DEF Objects
  <2> QED
    BY <1>10, <1>11, <1>13, <1>14, <2>1 DEF Grew
<1>16. left' \in [Loops -> 0 .. MaxBody]
  BY StatementCounts DEF BodyClears
<1> QED
  BY <1>14, <1>15, <1>16, StackUnchanged DEF BodyClears

(* Only the body's own values change, and the tables that loops hold do not. *)
LEMMA OwnChanges ==
  ASSUME LoopsInv, UNCHANGED <<loop, order, visited, stayed>>, Fits(heap'), Standing(stack', heap'),
         \A n \in 1 .. Len(order) : heap'[loop[order[n]].t] = heap[loop[order[n]].t],
         left' \in [Loops -> 0 .. MaxBody],
         NEW c \in Seq(Held \cup {Nil}), own' = [own EXCEPT ![Level] = c],
         stack' \in Seq(OnStack),
         \A x \in Seq(OnStack) : Joined(x, own[Level], stack) => Joined(x, c, stack'),
         order = <<>> => stack' = c
  PROVE  LoopsInv'
<1>1. PICK N \in Nat : N = Len(order)
  BY RunningFacts
<1>2. /\ own' \in Seq(Seq(Held \cup {Nil})) /\ Len(own') = Len(own) /\ own'[N + 1] = c
      /\ \A n \in 1 .. N : own'[n] = own[n]
  <2>1. Level = N + 1 /\ Len(own) = N + 1 /\ own \in Seq(Seq(Held \cup {Nil}))
    BY <1>1, RunningFacts DEF Level
  <2> QED
    BY <1>1, <2>1
<1>3. PICK f : Laying(f, stack, order, own, loop, visited)
  BY DEF LoopsInv, Running
<1>4. \E g : Laying(g, stack', order, own', loop, visited)
  <2>1. CASE N = 0
    <3>1. order = <<>>
      <4>1. order \in Seq(Loops)
        BY RunningFacts
      <4> QED
        BY <1>1, <2>1, <4>1, NoneLong
    <3>2. stack' = own'[1]
      BY <1>2, <2>1, <3>1
    <3> QED
      BY <1>1, <2>1, <3>2, LayingNone
  <2>2. CASE N # 0
    <3>1. PICK M \in 0 .. N : N = M + 1
      <4>1. N - 1 \in 0 .. N /\ N = (N - 1) + 1
        BY <2>2
      <4> QED
        BY <4>1
    <3>2. N \in 1 .. Len(order) /\ N - 1 = M /\ Level = N + 1 /\ N \in 0 .. Len(order)
      BY <1>1, <2>2, <3>1 DEF Level
    <3>3. PICK x : x = StoodOn(f[M], loop[order[N]], visited[order[N]])
      OBVIOUS
    <3>4. stack = x \o own[Level] /\ Seated(loop[order[N]], f[M]) /\ f[M] \in Seq(OnStack)
      BY <1>1, <1>3, <3>1, <3>2, <3>3 DEF Laying
    <3>5. x \in Seq(OnStack)
      <4>1. PICK rec, seen, stay, h, b :
              /\ rec = loop[order[N]] /\ seen = visited[order[N]] /\ stay = stayed[order[N]]
              /\ h = heap /\ b = f[M]
        OBVIOUS
      <4>2. ShownSound(rec, seen, stay, h)
        BY <3>2, <4>1 DEF LoopsInv, Running
      <4>3. rec.t \in Tables /\ rec.value \in OnStack
        <5>1. Objects(loop, order, heap)
          BY RunningFacts
        <5> QED
          BY <3>2, <4>1, <5>1, ObjectMade DEF OnStack
      <4>4. b \in Seq(OnStack) /\ x = StoodOn(b, rec, seen)
        BY <3>3, <3>4, <4>1
      <4> QED
        BY <4>2, <4>3, <4>4, StoodKind
    <3>6. stack' = x \o own'[M + 2]
      <4>1. stack' = x \o c
        BY <3>4, <3>5 DEF Joined
      <4>2. M + 2 = N + 1
        BY <3>1
      <4> QED
        BY <1>2, <4>1, <4>2
    <3>7. Len(order) = M + 1 /\ \A n \in 1 .. M + 1 : own'[n] = own[n]
      BY <1>1, <1>2, <3>1
    <3>8. M \in 0 .. Len(order) /\ Len(order) \in Nat
      BY <1>1, <3>1
    <3>9. PICK s, ord, ow, lo, vi, s2, ow2 :
            /\ s = stack /\ ord = order /\ ow = own /\ lo = loop /\ vi = visited
            /\ s2 = stack' /\ ow2 = own'
      OBVIOUS
    <3>10. Laying(f, s, ord, ow, lo, vi) /\ Len(ord) \in Nat /\ M \in 0 .. Len(ord) /\ Len(ord) = M + 1
      BY <1>3, <3>7, <3>8, <3>9
    <3>11. s2 \in Seq(OnStack) /\ \A n \in 1 .. M + 1 : ow2[n] = ow[n]
      BY <3>7, <3>9, Zenon
    <3>12. /\ s2 = StoodOn(f[M], lo[ord[M + 1]], vi[ord[M + 1]]) \o ow2[M + 2]
           /\ Seated(lo[ord[M + 1]], f[M])
      BY <3>1, <3>3, <3>4, <3>6, <3>9, Zenon
    <3>13. LaidOn(f, M, s2, ord, ow2, lo, vi)
      BY <3>10, <3>11, <3>12 DEF LaidOn
    <3>14. SameBelow(M, ord, ow, lo, vi, ord, ow2, lo, vi)
      BY <3>11 DEF SameBelow
    <3>15. \E g : Laying(g, s2, ord, ow2, lo, vi)
      BY <3>10, <3>13, <3>14, LayingOver
    <3> QED
      BY <3>9, <3>15
  <2> QED
    BY <2>1, <2>2
<1>5. \A n \in 1 .. Len(order) : heap'[loop[order[n]].t] # Free
  BY RunningFacts DEF Objects
<1>6. stayed' \in [Loops -> SUBSET Keys]
  BY RunningFacts DEF Typed
<1> QED
  BY <1>2, <1>4, <1>5, <1>6, BodyKeeps

LEMMA OwnFacts ==
  ASSUME LoopsInv
  PROVE  /\ own[Level] \in Seq(OnStack)
         /\ order = <<>> => stack = own[Level]
<1>1. own[Level] \in Seq(OnStack)
  <2>1. own[Level] \in Seq(Held \cup {Nil})
    BY RunningFacts
  <2>2. Held \cup {Nil} \subseteq OnStack
    BY DEF OnStack
  <2> QED
    BY <2>1, <2>2
<1>2. ASSUME order = <<>> PROVE stack = own[Level]
  <2>1. PICK f : Laying(f, stack, order, own, loop, visited)
    BY DEF LoopsInv, Running
  <2>2. Len(order) = 0 /\ Level = 1
    BY <1>2 DEF Level
  <2> QED
    BY <2>1, <2>2 DEF Laying
<1> QED
  BY <1>1, <1>2

LEMMA BodyPushesKeeps ==
  ASSUME Orderly, LoopsInv, BodyPushes
  PROVE  LoopsInv'
<1>1. PICK start \in Starts(stack), path \in Paths : PushField(start, path, Referenced(order))
  BY DEF BodyPushes
<1>2. PICK m, kept, x, v, p :
        /\ m = Machine(stack, heap) /\ kept = Referenced(order) /\ x = TableOf(m, start)
        /\ v = Lookup(heap, x, path) /\ p = ProxyPush(m, start, path)
  OBVIOUS
<1>3. ProxyPushes(start, path) /\ Becomes(p, kept)
  BY <1>1, <1>2 DEF PushField
<1>4. Straight /\ Sequence(stack)
  BY NoCorners, RunningFacts
<1>5. p = PushV(m, v) \/ (v = Nil /\ p.err)
  BY <1>2, <1>3, <1>4, ProxyReads
<1>6. ~p.err
  BY <1>3 DEF Becomes
<1>7. PICK s : s = Append(stack, v)
  OBVIOUS
<1>8. p = Machine(s, heap)
  BY <1>2, <1>5, <1>6, <1>7, MachinePush
<1>9. p.s = s /\ p.h = heap
  BY <1>8, MachineParts
<1>10. Stacked(m) /\ m.s = stack /\ m.h = heap
  BY <1>2, RunningFacts, StackedMachine, MachineParts
<1>11. There(heap, x)
  <2>1. start.kind = "stack" => start.at \in DOMAIN stack /\ x = stack[start.at]
    BY <1>2, <1>10 DEF TableOf, Starts
  <2>2. start.kind # "stack" => x \in Rooted
    BY <1>2, <1>10, TableAssumption DEF TableOf, Starts
  <2>3. DOMAIN stack = 1 .. Len(stack) /\ Standing(stack, heap) /\ Fits(heap)
    BY <1>4, RunningFacts, SequenceFacts
  <2> QED
    BY <2>1, <2>2, <2>3 DEF Standing, There, Fits
<1>12. There(heap, v)
  BY <1>2, <1>11, RunningFacts, LookupThere
<1>13. Stacked(PushV(m, v))
  BY <1>10, <1>12, StackedPush
<1>14. Stacked(p)
  BY <1>5, <1>6, <1>13
<1>15. kept \subseteq Tables /\ \A n \in 1 .. Len(order) : loop[order[n]].t \in kept
  BY <1>2, AllReferenced
<1>16. stack' = s /\ Fits(heap') /\ Standing(stack', heap') /\ \A t \in kept : heap'[t] = heap[t]
  BY <1>3, <1>9, <1>14, <1>15, BecomesKept
<1>17. Last(s) = v
  BY <1>4, <1>7, Appended, SequenceFacts DEF Last
<1>18. v \in Numbers
  BY <1>16, <1>17 DEF BodyPushes
<1>19. v \in Held /\ v \in OnStack
  BY <1>18 DEF Held, OnStack
<1>20. PICK c : c = Append(own[Level], v)
  OBVIOUS
<1>21. c \in Seq(Held \cup {Nil})
  BY <1>19, <1>20, RunningFacts
<1>22. own' = [own EXCEPT ![Level] = c]
  BY <1>16, <1>17, <1>20 DEF BodyPushes
<1>23. s \in Seq(OnStack)
  BY <1>7, <1>19, RunningFacts
<1>24. ASSUME NEW a \in Seq(OnStack), Joined(a, own[Level], stack) PROVE Joined(a, c, stack')
  <2>1. PICK o, t : o = own[Level] /\ t = stack
    OBVIOUS
  <2>2. o \in Seq(OnStack) /\ Joined(a, o, t) /\ c = Append(o, v) /\ s = Append(t, v)
    BY <1>7, <1>20, <1>24, <2>1, OwnFacts
  <2>3. Joined(a, c, s)
    BY <1>19, <2>2, AppendJoined
  <2> QED
    BY <1>16, <2>3
<1>25. ASSUME order = <<>> PROVE stack' = c
  BY <1>7, <1>16, <1>20, <1>25, OwnFacts
<1>26. left' \in [Loops -> 0 .. MaxBody]
  BY StatementCounts DEF BodyPushes
<1>27. UNCHANGED <<loop, order, visited, stayed>>
  BY DEF BodyPushes
<1>28. \A n \in 1 .. Len(order) : heap'[loop[order[n]].t] = heap[loop[order[n]].t]
  BY <1>15, <1>16
<1>29. stack' \in Seq(OnStack)
  BY <1>16, <1>23
<1> QED
  BY <1>16, <1>21, <1>22, <1>24, <1>25, <1>26, <1>27, <1>28, <1>29, OwnChanges

LEMMA BodyPopsKeeps ==
  ASSUME LoopsInv, BodyPops
  PROVE  LoopsInv'
<1>1. PICK m, kept, p : /\ m = Machine(stack, heap) /\ kept = Referenced(order)
                        /\ p = PopV(m, 1)
  OBVIOUS
<1>2. own[Level] # <<>> /\ Becomes(p, kept)
  BY <1>1 DEF BodyPops, PopField
<1>3. PICK s : s = Pop(stack, 1)
  OBVIOUS
<1>4. p = Machine(s, heap)
  BY <1>1, <1>3, MachinePop
<1>5. p.s = s /\ p.h = heap
  BY <1>4, MachineParts
<1>6. Stacked(m)
  BY <1>1, RunningFacts, StackedMachine
<1>7. Stacked(p)
  BY <1>1, <1>6, StackedPop
<1>8. kept \subseteq Tables /\ \A n \in 1 .. Len(order) : loop[order[n]].t \in kept
  BY <1>1, AllReferenced
<1>9. stack' = s /\ Fits(heap') /\ Standing(stack', heap') /\ \A t \in kept : heap'[t] = heap[t]
  BY <1>2, <1>5, <1>7, <1>8, BecomesKept
<1>10. PICK c : c = Front(own[Level])
  OBVIOUS
<1>11. c \in Seq(Held \cup {Nil})
  BY <1>2, <1>10, RunningFacts, FrontAndLast
<1>12. own' = [own EXCEPT ![Level] = c]
  BY <1>10 DEF BodyPops
<1>13. s \in Seq(OnStack)
  BY <1>3, RunningFacts DEF Pop
<1>14. ASSUME NEW a \in Seq(OnStack), Joined(a, own[Level], stack) PROVE Joined(a, c, stack')
  BY <1>2, <1>3, <1>9, <1>10, <1>14, OwnFacts, PopOver DEF Joined
<1>15. ASSUME order = <<>> PROVE stack' = c
  BY <1>3, <1>9, <1>10, <1>15, OwnFacts DEF Pop, Front
<1>16. UNCHANGED <<loop, order, visited, stayed>> /\ left' = left
  BY DEF BodyPops
<1>17. left' \in [Loops -> 0 .. MaxBody]
  BY <1>16, RunningFacts DEF Typed
<1>18. \A n \in 1 .. Len(order) : heap'[loop[order[n]].t] = heap[loop[order[n]].t]
  BY <1>8, <1>9
<1>19. stack' \in Seq(OnStack)
  BY <1>9, <1>13
<1> QED
  BY <1>9, <1>11, <1>12, <1>14, <1>15, <1>16, <1>17, <1>18, <1>19, OwnChanges

--------------------------------------------------------------------------------
(* The loops' own steps *)

(* The first M loops are over tables that are there. *)
OverTables(lo, ord, M, g) == \A n \in 1 .. M : g[lo[ord[n]].t] # Free

BegunAs(lo, ord, l, rec, lo2, ord2) == lo2 = [lo EXCEPT ![l] = rec] /\ ord2 = Append(ord, l)

EndedAs(lo, ord, l, lo2, ord2) == lo2 = [lo EXCEPT ![l] = Unmade] /\ ord2 = Front(ord)

ChangedTo(lo, l, rec, lo2) == lo2 = [lo EXCEPT ![l] = rec]

LastOf(ord, M, l) == Len(ord) = M + 1 /\ ord[M + 1] = l

LEMMA ObjectBegun ==
  ASSUME NEW lo, NEW ord, NEW h, Objects(lo, ord, h), NEW l \in Loops, lo[l] = Unmade,
         NEW rec \in LoopType, NEW lo2, NEW ord2, BegunAs(lo, ord, l, rec, lo2, ord2), NEW g,
         OverTables(lo, ord, Len(ord), g), g[rec.t] # Free
  PROVE  /\ Objects(lo2, ord2, g) /\ Len(ord2) = Len(ord) + 1
         /\ ord2[Len(ord) + 1] = l /\ lo2[l] = rec
         /\ \A n \in 1 .. Len(ord) : ord2[n] = ord[n] /\ ord[n] # l /\ lo2[ord[n]] = lo[ord[n]]
<1> USE DEF BegunAs
<1>1. PICK N \in Nat : N = Len(ord)
  BY DEF Objects
<1>2. /\ lo \in [Loops -> LoopType \cup {Unmade}] /\ ord \in Seq(Loops)
      /\ \A i, j \in 1 .. N : ord[i] = ord[j] => i = j
      /\ \A r \in Loops : lo[r] # Unmade <=> \E n \in 1 .. N : ord[n] = r
  BY <1>1 DEF Objects
<1>3. \A n \in 1 .. N : ord[n] \in Loops /\ ord[n] # l
  BY <1>1, <1>2
<1>4. /\ ord2 \in Seq(Loops) /\ Len(ord2) = N + 1 /\ ord2[N + 1] = l
      /\ \A n \in 1 .. N : ord2[n] = ord[n]
  BY <1>1, <1>2
<1>5. /\ lo2 \in [Loops -> LoopType \cup {Unmade}] /\ lo2[l] = rec
      /\ \A r \in Loops : r # l => lo2[r] = lo[r]
  BY <1>2
<1>6. \A n \in 1 .. N : lo2[ord[n]] = lo[ord[n]]
  BY <1>3, <1>5
<1>7. \A n \in 1 .. N + 1 : n \in 1 .. N \/ n = N + 1
  OBVIOUS
<1>8. ASSUME NEW i \in 1 .. N + 1, NEW j \in 1 .. N + 1, ord2[i] = ord2[j] PROVE i = j
  BY <1>2, <1>3, <1>4, <1>7, <1>8
<1>9. ASSUME NEW r \in Loops PROVE lo2[r] # Unmade <=> \E n \in 1 .. N + 1 : ord2[n] = r
  <2>1. CASE r = l
    BY <1>4, <1>5, <2>1, UnmadeAssumption
  <2>2. CASE r # l
    <3>1. lo2[r] = lo[r]
      BY <1>5, <2>2
    <3>2. (\E n \in 1 .. N + 1 : ord2[n] = r) <=> \E n \in 1 .. N : ord[n] = r
      BY <1>4, <1>7, <2>2
    <3> QED
      BY <1>2, <3>1, <3>2
  <2> QED
    BY <2>1, <2>2
<1>10. \A n \in 1 .. N + 1 : g[lo2[ord2[n]].t] # Free
  BY <1>1, <1>4, <1>5, <1>6, <1>7 DEF OverTables
<1>11. Objects(lo2, ord2, g)
  BY <1>4, <1>5, <1>8, <1>9, <1>10 DEF Objects
<1> QED
  BY <1>1, <1>3, <1>4, <1>5, <1>6, <1>11

LEMMA ObjectEnded ==
  ASSUME NEW lo, NEW ord, NEW h, Objects(lo, ord, h), NEW M \in Nat, NEW l,
         LastOf(ord, M, l), NEW lo2, NEW ord2, EndedAs(lo, ord, l, lo2, ord2), NEW g, OverTables(lo, ord, M, g)
  PROVE  /\ Objects(lo2, ord2, g) /\ Len(ord2) = M /\ l \in Loops /\ lo2[l] = Unmade
         /\ \A n \in 1 .. M : ord2[n] = ord[n] /\ ord[n] # l /\ lo2[ord[n]] = lo[ord[n]]
<1> USE DEF EndedAs, LastOf
<1>2. /\ lo \in [Loops -> LoopType \cup {Unmade}] /\ ord \in Seq(Loops)
      /\ \A i, j \in 1 .. M + 1 : ord[i] = ord[j] => i = j
      /\ \A r \in Loops : lo[r] # Unmade <=> \E n \in 1 .. M + 1 : ord[n] = r
  BY DEF Objects
<1>3. \A n \in 1 .. M + 1 : n \in 1 .. M \/ n = M + 1
  OBVIOUS
<1>4. l \in Loops /\ \A n \in 1 .. M : n \in 1 .. M + 1 /\ n # M + 1 /\ ord[n] \in Loops /\ ord[n] # l
  BY <1>2
<1>5. ord2 \in Seq(Loops) /\ Len(ord2) = M /\ \A n \in 1 .. M : ord2[n] = ord[n]
  <2>1. ord # <<>>
    BY <1>2
  <2>2. /\ ord2 \in Seq(Loops) /\ Len(ord2) = Len(ord) - 1
        /\ \A n \in 1 .. Len(ord) - 1 : ord2[n] = ord[n]
    BY <1>2, <2>1, FrontAndLast
  <2>3. Len(ord) - 1 = M
    OBVIOUS
  <2> QED
    BY <2>2, <2>3
<1>6. /\ lo2 \in [Loops -> LoopType \cup {Unmade}] /\ lo2[l] = Unmade
      /\ \A r \in Loops : r # l => lo2[r] = lo[r]
  BY <1>2, <1>4
<1>7. ASSUME NEW r \in Loops PROVE lo2[r] # Unmade <=> \E n \in 1 .. M : ord2[n] = r
  <2>1. CASE r = l
    BY <1>4, <1>5, <1>6, <2>1
  <2>2. CASE r # l
    <3>1. lo2[r] = lo[r]
      BY <1>6, <2>2
    <3>2. (\E n \in 1 .. M + 1 : ord[n] = r) <=> \E n \in 1 .. M : ord2[n] = r
      BY <1>3, <1>4, <1>5, <2>2
    <3> QED
      BY <1>2, <3>1, <3>2
  <2> QED
    BY <2>1, <2>2
<1>8. \A i, j \in 1 .. M : ord2[i] = ord2[j] => i = j
  BY <1>2, <1>4, <1>5
<1>9. \A n \in 1 .. M : lo2[ord[n]] = lo[ord[n]] /\ g[lo2[ord2[n]].t] # Free
  BY <1>4, <1>5, <1>6 DEF OverTables
<1>10. Objects(lo2, ord2, g)
  BY <1>5, <1>6, <1>7, <1>8, <1>9 DEF Objects
<1> QED
  BY <1>4, <1>5, <1>6, <1>9, <1>10

LEMMA ObjectChanged ==
  ASSUME NEW lo, NEW ord, NEW h, Objects(lo, ord, h), NEW M \in Nat, NEW l,
         LastOf(ord, M, l), NEW rec \in LoopType, NEW lo2, ChangedTo(lo, l, rec, lo2),
         NEW g, OverTables(lo, ord, M + 1, g), rec.t = lo[l].t
  PROVE  /\ Objects(lo2, ord, g) /\ lo2[l] = rec
         /\ \A n \in 1 .. M : ord[n] # l /\ lo2[ord[n]] = lo[ord[n]]
<1> USE DEF ChangedTo, LastOf
<1>1. /\ lo \in [Loops -> LoopType \cup {Unmade}] /\ ord \in Seq(Loops)
      /\ \A i, j \in 1 .. M + 1 : ord[i] = ord[j] => i = j
      /\ \A r \in Loops : lo[r] # Unmade <=> \E n \in 1 .. M + 1 : ord[n] = r
  BY DEF Objects
<1>2. \A n \in 1 .. M + 1 : n \in 1 .. M \/ n = M + 1
  OBVIOUS
<1>3. l \in Loops /\ \A n \in 1 .. M : n \in 1 .. M + 1 /\ n # M + 1 /\ ord[n] \in Loops /\ ord[n] # l
  BY <1>1
<1>4. /\ lo2 \in [Loops -> LoopType \cup {Unmade}] /\ lo2[l] = rec
      /\ \A r \in Loops : r # l => lo2[r] = lo[r]
  BY <1>1, <1>3
<1>5. lo[l] # Unmade /\ rec # Unmade
  BY <1>1, <1>3, UnmadeAssumption
<1>6. ASSUME NEW r \in Loops PROVE lo2[r] # Unmade <=> \E n \in 1 .. M + 1 : ord[n] = r
  BY <1>1, <1>4, <1>5
<1>7. \A n \in 1 .. M : lo2[ord[n]] = lo[ord[n]]
  BY <1>3, <1>4
<1>8. \A n \in 1 .. M + 1 : g[lo2[ord[n]].t] # Free
  BY <1>2, <1>4, <1>7 DEF OverTables
<1>9. Objects(lo2, ord, g)
  BY <1>1, <1>4, <1>6, <1>8 DEF Objects
<1> QED
  BY <1>3, <1>4, <1>7, <1>9

(* What the loops up to the M-th walk over and have yet to show is the same. *)
KeptBelow(M, ord, lo, st, h, st2, g) ==
  \A n \in 1 .. M : st2[ord[n]] = st[ord[n]] /\ g[lo[ord[n]].t] = h[lo[ord[n]].t]

LEMMA ShownBelow ==
  ASSUME NEW s, NEW h, NEW lo, NEW ord, NEW ow, NEW vi, NEW st, NEW le,
         Running(s, h, lo, ord, ow, vi, st, le), Len(ord) \in Nat, NEW M \in 0 .. Len(ord),
         NEW ord2, NEW ow2, NEW lo2, NEW vi2, NEW st2, NEW g,
         SameBelow(M, ord, ow, lo, vi, ord2, ow2, lo2, vi2), KeptBelow(M, ord, lo, st, h, st2, g),
         NEW n \in 1 .. M
  PROVE  ShownSound(lo2[ord2[n]], vi2[ord2[n]], st2[ord2[n]], g)
<1>1. n \in 1 .. Len(ord)
  OBVIOUS
<1>2. PICK rec, seen, stay : rec = lo[ord[n]] /\ seen = vi[ord[n]] /\ stay = st[ord[n]]
  OBVIOUS
<1>3. ShownSound(rec, seen, stay, h)
  BY <1>1, <1>2 DEF Running
<1>4. /\ lo2[ord2[n]] = rec /\ vi2[ord2[n]] = seen /\ st2[ord2[n]] = stay /\ g[rec.t] = h[rec.t]
  BY <1>2 DEF SameBelow, KeptBelow
<1>5. ShownSound(rec, seen, stay, g)
  BY <1>3, <1>4 DEF ShownSound
<1> QED
  BY <1>4, <1>5

LEMMA RunningOver ==
  ASSUME NEW s, NEW h, NEW lo, NEW ord, NEW ow, NEW vi, NEW st, NEW le,
         Running(s, h, lo, ord, ow, vi, st, le), Len(ord) \in Nat, NEW M \in 0 .. Len(ord),
         NEW f, Laying(f, s, ord, ow, lo, vi),
         NEW s2, NEW g, NEW lo2, NEW ord2, NEW ow2, NEW vi2, NEW st2, NEW le2,
         Fits(g), Standing(s2, g), Objects(lo2, ord2, g), Typed(ord2, ow2, vi2, st2, le2),
         SameBelow(M, ord, ow, lo, vi, ord2, ow2, lo2, vi2), KeptBelow(M, ord, lo, st, h, st2, g),
         LaidOn(f, M, s2, ord2, ow2, lo2, vi2),
         NEW l, l = ord2[M + 1], ShownSound(lo2[l], vi2[l], st2[l], g)
  PROVE  Running(s2, g, lo2, ord2, ow2, vi2, st2, le2)
<1>1. \E e : Laying(e, s2, ord2, ow2, lo2, vi2)
  BY LayingOver
<1>2. Len(ord2) = M + 1
  BY DEF LaidOn
<1>3. ASSUME NEW n \in 1 .. Len(ord2)
      PROVE  ShownSound(lo2[ord2[n]], vi2[ord2[n]], st2[ord2[n]], g)
  <2>1. CASE n = M + 1
    BY <2>1
  <2>2. CASE n # M + 1
    <3>1. n \in 1 .. M
      BY <1>2, <2>2
    <3> QED
      BY <3>1, ShownBelow
  <2> QED
    BY <2>1, <2>2
<1> QED
  BY <1>1, <1>3 DEF Running

LEMMA RunningUnder ==
  ASSUME NEW s, NEW h, NEW lo, NEW ord, NEW ow, NEW vi, NEW st, NEW le,
         Running(s, h, lo, ord, ow, vi, st, le), Len(ord) \in Nat, NEW M \in 0 .. Len(ord),
         NEW f, Laying(f, s, ord, ow, lo, vi),
         NEW s2, NEW g, NEW lo2, NEW ord2, NEW ow2, NEW vi2, NEW st2, NEW le2,
         Fits(g), Standing(s2, g), Objects(lo2, ord2, g), Typed(ord2, ow2, vi2, st2, le2),
         SameBelow(M, ord, ow, lo, vi, ord2, ow2, lo2, vi2), KeptBelow(M, ord, lo, st, h, st2, g),
         Len(ord2) = M, s2 = f[M]
  PROVE  Running(s2, g, lo2, ord2, ow2, vi2, st2, le2)
<1>1. Laying(f, s2, ord2, ow2, lo2, vi2)
  BY LayingUnder
<1>2. ASSUME NEW n \in 1 .. Len(ord2)
      PROVE  ShownSound(lo2[ord2[n]], vi2[ord2[n]], st2[ord2[n]], g)
  BY ShownBelow
<1> QED
  BY <1>1, <1>2 DEF Running

(* The innermost loop, over what lies below it. *)
Topmost(l, f, M, b) ==
  /\ M \in Nat /\ M \in 0 .. Len(order) /\ Len(order) = M + 1 /\ Level = M + 2
  /\ order[M + 1] = l /\ l \in Loops /\ loop[l] \in LoopType /\ heap[loop[l].t] # Free
  /\ Laying(f, stack, order, own, loop, visited)
  /\ b = f[M] /\ b \in Seq(OnStack) /\ Seated(loop[l], b) /\ Standing(b, heap)
  /\ ShownSound(loop[l], visited[l], stayed[l], heap)
  /\ StoodOn(b, loop[l], visited[l]) \in Seq(OnStack)
  /\ stack = StoodOn(b, loop[l], visited[l]) \o own[Level]

LEMMA StandingUnder ==
  ASSUME NEW a \in Seq(OnStack), NEW c \in Seq(OnStack), NEW s, s = a \o c, NEW h, Standing(s, h)
  PROVE  Standing(a, h)
<1>1. Len(s) = Len(a) + Len(c) /\ \A i \in 1 .. Len(a) : s[i] = a[i]
  BY Concatenated
<1>2. ASSUME NEW i \in 1 .. Len(a) PROVE There(h, a[i])
  <2>1. i \in 1 .. Len(s) /\ s[i] = a[i]
    BY <1>1
  <2> QED
    BY <2>1 DEF Standing
<1> QED
  BY <1>2 DEF Standing

LEMMA InnermostTops ==
  ASSUME LoopsInv, NEW l, Innermost(l)
  PROVE  \E f, M, b : Topmost(l, f, M, b)
<1>1. order \in Seq(Loops) /\ order # <<>> /\ l = Last(order) /\ Objects(loop, order, heap)
  <2>1. order # <<>> /\ l = Last(order)
    BY DEF Innermost
  <2> QED
    BY <2>1, RunningFacts, Zenon
<1>2. PICK M \in Nat : Len(order) = M + 1
  <2>1. Len(order) > 0 /\ Len(order) \in Nat
    BY <1>1
  <2>2. Len(order) - 1 \in Nat /\ Len(order) = (Len(order) - 1) + 1
    BY <2>1
  <2> QED
    BY <2>2, Zenon
<1>3. M \in 0 .. Len(order) /\ Level = M + 2 /\ M + 1 \in 1 .. Len(order) /\ (M + 1) - 1 = M
  BY <1>2 DEF Level
<1>4. l = order[M + 1]
  BY <1>1, <1>2 DEF Last
<1>5. l \in Loops /\ loop[l] \in LoopType /\ loop[l].t \in Tables /\ heap[loop[l].t] # Free /\ loop[l].value \in OnStack
  BY <1>1, <1>3, <1>4, ObjectMade DEF OnStack
<1>6. PICK f : Laying(f, stack, order, own, loop, visited)
  BY DEF LoopsInv, Running
<1>7. PICK b : b = f[M]
  BY Zenon
<1>8. /\ b \in Seq(OnStack) /\ Seated(loop[l], b)
      /\ stack = StoodOn(b, loop[l], visited[l]) \o own[M + 2]
  <2>1. stack = f[M + 1] /\ f[M] \in Seq(OnStack)
    BY <1>2, <1>3, <1>6 DEF Laying
  <2>2. /\ Seated(loop[order[M + 1]], f[(M + 1) - 1])
        /\ f[M + 1] = StoodOn(f[(M + 1) - 1], loop[order[M + 1]], visited[order[M + 1]]) \o own[(M + 1) + 1]
    BY <1>3, <1>6 DEF Laying
  <2>3. (M + 1) + 1 = M + 2
    OBVIOUS
  <2> QED
    BY <1>3, <1>4, <1>7, <2>1, <2>2, <2>3
<1>9. ShownSound(loop[l], visited[l], stayed[l], heap)
  BY <1>3, <1>4 DEF LoopsInv, Running
<1>10. PICK x, o : x = StoodOn(b, loop[l], visited[l]) /\ o = own[Level]
  OBVIOUS
<1>11. x \in Seq(OnStack) /\ (Standing(x, heap) => Standing(b, heap))
  BY <1>5, <1>8, <1>9, <1>10, StoodKind
<1>12. stack = x \o o
  BY <1>3, <1>8, <1>10
<1>13. o \in Seq(OnStack) /\ Standing(stack, heap)
  BY <1>10, RunningFacts, OwnFacts
<1>14. Standing(b, heap)
  BY <1>11, <1>12, <1>13, StandingUnder
<1>15. Topmost(l, f, M, b)
  BY <1>2, <1>3, <1>4, <1>5, <1>6, <1>7, <1>8, <1>9, <1>10, <1>11, <1>12, <1>14 DEF Topmost
<1> QED
  BY <1>15

(* Where the program has no values of its own above it, the loop's lie on top. *)
LEMMA NothingOwn ==
  ASSUME LoopsInv, NEW l, NEW f, NEW M, NEW b, Topmost(l, f, M, b), own[Level] = <<>>
  PROVE  stack = StoodOn(b, loop[l], visited[l])
<1>1. PICK x, o : x = StoodOn(b, loop[l], visited[l]) /\ o = own[Level]
  OBVIOUS
<1>2. x \in Seq(OnStack) /\ o \in Seq(OnStack) /\ Len(o) = 0 /\ stack = x \o o
  BY <1>1, OwnFacts DEF Topmost
<1> QED
  BY <1>1, <1>2, NothingMore

(* Loop l is above the others with nothing of its body, after a step. *)
LEMMA RestsIs ==
  ASSUME NEW st, NEW class \in Classes, NEW t \in Tables, NEW b \in Seq(OnStack), NEW h, Fits(h),
         h[t] # Free, Standing(b, h), NEW next, next = Nil \/ (next \in Keys /\ h[t][next] # Nil),
         Rests(st, class, t, b, h, next), NEW x, x = Shape(class, t, b, st.key, next, st.value)
  PROVE  /\ st.m = Machine(x, h) /\ x \in Seq(OnStack) /\ Standing(x, h)
         /\ st.value \in Held \cup {Nil} /\ st.key \in Int
         /\ st.key = NoKey \/ st.key = Seat(class, b)
         /\ next = Nil => st.key = NoKey
         /\ next # Nil => st.key # NoKey /\ At(st.m, st.key) = next
<1>1. Sequence(b) /\ NoKey \in Int
  BY DEF Sequence, NoKey
<1>2. There(h, t) /\ There(h, Nil) /\ There(h, next) /\ Nil \in OnStack /\ next \in OnStack
  BY NilIsThere, TableAssumption DEF There, OnStack
<1>3. CASE next = Nil
  <2>1. st.key = NoKey /\ st.value = Nil /\ st.m = Machine(Shape(class, t, b, NoKey, Nil, Nil), h)
    BY <1>3 DEF Rests, Taken
  <2>2. st.m = Machine(x, h)
    BY <1>3, <2>1
  <2>3. x \in Seq(OnStack) /\ Standing(x, h)
    <3>1. x = Shape(class, t, b, st.key, next, st.value) /\ st.value \in OnStack /\ There(h, st.value)
      BY <1>2, <2>1
    <3> QED
      BY <1>2, <3>1, ShapeStands
  <2> QED
    BY <1>1, <1>3, <2>1, <2>2, <2>3
<1>4. CASE next # Nil
  <2>1. PICK key, value : key = Seat(class, b) /\ value = ValueIn(class, h, t, next)
    OBVIOUS
  <2>2. st.key = key /\ st.value = value /\ st.m = Machine(Shape(class, t, b, key, next, value), h)
    BY <1>4, <2>1 DEF Rests, Taken
  <2>3. key # NoKey /\ key \in Nat
    BY <1>1, <2>1, SeatIsNoEnd
  <2>4. st.m = Machine(x, h)
    BY <2>2
  <2>5. value \in Held \cup {Nil} /\ There(h, value)
    BY <1>4, <2>1, FieldThere, NilIsThere DEF ValueIn
  <2>6. x \in Seq(OnStack) /\ Standing(x, h)
    <3>1. x = Shape(class, t, b, st.key, next, st.value) /\ st.value \in OnStack /\ There(h, st.value)
      BY <2>2, <2>5 DEF OnStack
    <3> QED
      BY <1>2, <3>1, ShapeStands
  <2>7. At(st.m, st.key) = next
    BY <1>1, <1>4, RestsShows
  <2> QED
    BY <1>4, <2>1, <2>2, <2>3, <2>4, <2>5, <2>6, <2>7
<1> QED
  BY <1>3, <1>4

LEMMA NextKeyThere ==
  ASSUME NEW h, NEW t, NEW k \in Keys \cup {Nil}, NEW next, next = NextKey(h, t, k)
  PROVE  next = Nil \/ (next \in Keys /\ h[t][next] # Nil)
  BY NextKeyFinds DEF FirstAfter

(* Begin's loop object, what it showed first, and what it has yet to show. *)
LEMMA BeginShows ==
  ASSUME NEW t, NEW h, NEW g, g[t] = h[t], NEW next, next = NextKey(h, t, Nil),
         NEW rec, rec.t = t, rec.key = NoKey <=> next = Nil,
         NEW seen, seen = (IF rec.key = NoKey THEN <<>> ELSE <<next>>),
         NEW stay, stay = {k \in Keys : h[t][k] # Nil}
  PROVE  ShownSound(rec, seen, stay, g)
<1>1. ShownSound(rec, seen, stay, h)
  BY ShownFirst
<1> QED
  BY <1>1 DEF ShownSound

(* A new loop's counter starts, and the body around it has one statement less. *)
LEMMA EnteredCounts ==
  ASSUME LoopsInv, NEW l, Entered(l)
  PROVE  left' \in [Loops -> 0 .. MaxBody]
<1>1. order \in Seq(Loops) /\ left \in [Loops -> 0 .. MaxBody] /\ MaxBody \in Nat
  BY RunningFacts, IterationAssumption DEF Typed
<1>2. left' = [r \in Loops |-> IF r = l THEN MaxBody ELSE IF Innermost(r) THEN left[r] - 1 ELSE left[r]]
  BY DEF Entered
<1>3. ASSUME NEW r \in Loops, Innermost(r) PROVE left[r] - 1 \in 0 .. MaxBody
  <2>1. left[r] > 0
    BY <1>3 DEF Innermost, Entered
  <2>2. left[r] \in 0 .. MaxBody
    BY <1>1
  <2> QED
    BY <1>1, <2>1, <2>2
<1>4. ASSUME NEW r \in Loops
      PROVE  (IF r = l THEN MaxBody ELSE IF Innermost(r) THEN left[r] - 1 ELSE left[r]) \in 0 .. MaxBody
  BY <1>1, <1>3
<1> QED
  BY <1>2, <1>4

LEMMA BeginKeeps ==
  ASSUME Orderly, LoopsInv, NEW l \in Loops, NEW class \in Classes, NEW t \in Tables, Begin(l, class, t)
  PROVE  LoopsInv'
<1>1. PICK m, st, kept, next :
        /\ m = Machine(stack, heap) /\ st = LoopBegun(m, class, t)
        /\ kept = Referenced(order) \cup {t} /\ next = NextKey(heap, t, Nil)
  OBVIOUS
<1>2. PICK rec : rec = [class |-> class, t |-> t, tableidx |-> Len(stack) + 1,
                        key |-> st.key, value |-> st.value]
  OBVIOUS
<1>3. PICK seen, stay : /\ seen = (IF st.key = NoKey THEN <<>> ELSE <<At(st.m, st.key)>>)
                        /\ stay = {k \in Keys : heap[t][k] # Nil}
  OBVIOUS
<1>4. /\ loop[l] = Unmade /\ Walkable(class, t) /\ Becomes(st.m, kept)
      /\ loop' = [loop EXCEPT ![l] = rec] /\ order' = Append(order, l) /\ own' = Append(own, <<>>)
      /\ visited' = [visited EXCEPT ![l] = seen] /\ stayed' = [stayed EXCEPT ![l] = stay]
      /\ Entered(l)
  BY <1>1, <1>2, <1>3 DEF Begin, Fresh
<1>5. heap[t] # Free /\ (class = "pairs" => PairsOf[t] \in {"plain", "pairs"})
  <2>1. "metatable_without_pairs" \notin Corners
    BY NoCorners DEF IterationCorners
  <2>2. PairsOf[t] \in {"plain", "metatable", "pairs"}
    BY IterationAssumption
  <2> QED
    BY <1>4, <2>1, <2>2 DEF Walkable
<1>6. Rests(st, class, t, stack, heap, next)
  BY <1>1, <1>5, RunningFacts, LoopBegins
<1>7. next = Nil \/ (next \in Keys /\ heap[t][next] # Nil)
  BY <1>1, NextKeyThere
<1>8. PICK x : x = Shape(class, t, stack, st.key, next, st.value)
  OBVIOUS
<1>9. /\ st.m = Machine(x, heap) /\ x \in Seq(OnStack) /\ Standing(x, heap)
      /\ st.value \in Held \cup {Nil} /\ st.key \in Int
      /\ st.key = NoKey \/ st.key = Seat(class, stack)
      /\ next = Nil => st.key = NoKey
      /\ next # Nil => st.key # NoKey /\ At(st.m, st.key) = next
  BY <1>5, <1>6, <1>7, <1>8, RunningFacts, RestsIs
<1>10. st.m.s = x /\ st.m.h = heap /\ Stacked(st.m)
  <2>1. Sequence(x)
    BY <1>9 DEF Sequence
  <2> QED
    BY <1>9, <2>1, MachineParts, RunningFacts, StackedMachine
<1>11. kept \subseteq Tables /\ t \in kept /\ \A n \in 1 .. Len(order) : loop[order[n]].t \in kept
  BY <1>1, AllReferenced
<1>12. stack' = x /\ Fits(heap') /\ Standing(stack', heap') /\ \A u \in kept : heap'[u] = heap[u]
  BY <1>4, <1>10, <1>11, BecomesKept
<1>13. rec \in LoopType /\ rec.t = t /\ rec.key = st.key /\ rec.value = st.value
       /\ rec.class = class /\ rec.tableidx = Len(stack) + 1
  <2>1. Len(stack) + 1 \in Int /\ st.value \in Held \cup {Nil, Other}
    BY <1>9, RunningFacts, SequenceFacts
  <2> QED
    BY <1>2, <1>9, <2>1 DEF LoopType
<1>14. /\ Objects(loop, order, heap) /\ Len(order) \in Nat /\ Typed(order, own, visited, stayed, left)
       /\ \A n \in 1 .. Len(order) : heap[loop[order[n]].t] # Free
  BY RunningFacts DEF Objects
<1>15. PICK M \in Nat : M = Len(order)
  BY <1>14
<1>16. \A n \in 1 .. M : heap'[loop[order[n]].t] = heap[loop[order[n]].t]
  BY <1>11, <1>12, <1>15
<1>17. /\ Objects(loop', order', heap') /\ Len(order') = M + 1 /\ order'[M + 1] = l /\ loop'[l] = rec
       /\ \A n \in 1 .. M : order'[n] = order[n] /\ order[n] # l /\ loop'[order[n]] = loop[order[n]]
  <2>1. \A n \in 1 .. Len(order) : heap'[loop[order[n]].t] # Free
    BY <1>14, <1>15, <1>16
  <2>2. heap'[rec.t] # Free
    BY <1>5, <1>11, <1>12, <1>13
  <2>3. PICK lo, ord, h, lo2, ord2, g : /\ lo = loop /\ ord = order /\ h = heap
                                        /\ lo2 = loop' /\ ord2 = order' /\ g = heap'
    OBVIOUS
  <2>4. Objects(lo, ord, h) /\ lo[l] = Unmade /\ BegunAs(lo, ord, l, rec, lo2, ord2)
    BY <1>4, <1>14, <2>3 DEF BegunAs
  <2>5. OverTables(lo, ord, Len(ord), g) /\ g[rec.t] # Free
    BY <2>1, <2>2, <2>3 DEF OverTables
  <2>6. /\ Objects(lo2, ord2, g) /\ Len(ord2) = Len(ord) + 1
        /\ ord2[Len(ord) + 1] = l /\ lo2[l] = rec
        /\ \A n \in 1 .. Len(ord) : ord2[n] = ord[n] /\ ord[n] # l /\ lo2[ord[n]] = lo[ord[n]]
    BY <1>13, <2>4, <2>5, ObjectBegun
  <2> QED
    BY <1>15, <2>3, <2>6
<1>18. seen \in Seq(Keys) /\ seen = (IF st.key = NoKey THEN <<>> ELSE <<next>>)
  BY <1>3, <1>7, <1>9
<1>19. /\ visited'[l] = seen /\ stayed'[l] = stay
       /\ \A n \in 1 .. M : visited'[order[n]] = visited[order[n]] /\ stayed'[order[n]] = stayed[order[n]]
  <2>1. visited \in [Loops -> Seq(Keys)] /\ stayed \in [Loops -> SUBSET Keys] /\ order \in Seq(Loops)
    BY <1>14, RunningFacts DEF Typed
  <2>2. \A n \in 1 .. M : order[n] \in Loops /\ order[n] # l
    BY <1>15, <1>17, <2>1
  <2> QED
    BY <1>4, <2>1, <2>2
<1>20. /\ own' \in Seq(Seq(Held \cup {Nil})) /\ Len(own') = M + 2 /\ own'[M + 2] = <<>>
       /\ \A n \in 1 .. M + 1 : own'[n] = own[n]
  BY <1>4, <1>15, RunningFacts
<1>21. Typed(order', own', visited', stayed', left')
  <2>1. visited' \in [Loops -> Seq(Keys)] /\ stayed' \in [Loops -> SUBSET Keys]
    BY <1>3, <1>4, <1>14, <1>18 DEF Typed
  <2>2. left' \in [Loops -> 0 .. MaxBody]
    BY <1>4, EnteredCounts
  <2> QED
    BY <1>17, <1>20, <2>1, <2>2 DEF Typed
<1>22. SameBelow(M, order, own, loop, visited, order', own', loop', visited')
  BY <1>17, <1>19, <1>20 DEF SameBelow
<1>23. KeptBelow(M, order, loop, stayed, heap, stayed', heap')
  BY <1>16, <1>19 DEF KeptBelow
<1>24. PICK f : Laying(f, stack, order, own, loop, visited)
  BY DEF LoopsInv, Running
<1>25. f[M] = stack /\ M \in 0 .. Len(order)
  BY <1>15, <1>24 DEF Laying
<1>26. x = StoodOn(stack, rec, seen)
  <2>1. StoodOn(stack, rec, seen) = Shape(class, t, stack, st.key, Last(seen), st.value)
    BY <1>13 DEF StoodOn
  <2>2. CASE st.key = NoKey
    BY <1>8, <2>1, <2>2, ShapeEnded
  <2>3. CASE st.key # NoKey
    <3>1. seen = <<next>>
      BY <1>18, <2>3
    <3>2. Last(seen) = next
      BY <3>1 DEF Last
    <3> QED
      BY <1>8, <2>1, <3>2
  <2> QED
    BY <2>2, <2>3
<1>27. LaidOn(f, M, stack', order', own', loop', visited')
  <2>1. x \o <<>> = x
    <3>1. PICK e : e = <<>>
      OBVIOUS
    <3>2. e \in Seq(OnStack) /\ Len(e) = 0
      BY <3>1
    <3>3. x \o e = x
      BY <1>9, <3>2, NothingMore
    <3> QED
      BY <3>1, <3>3
  <2>2. stack' = StoodOn(f[M], rec, seen) \o own'[M + 2]
    BY <1>12, <1>20, <1>25, <1>26, <2>1
  <2>3. Seated(rec, f[M])
    BY <1>9, <1>13, <1>25 DEF Seated
  <2> QED
    BY <1>9, <1>12, <1>17, <1>19, <2>2, <2>3 DEF LaidOn
<1>28. ShownSound(rec, seen, stay, heap')
  <2>1. heap'[t] = heap[t] /\ (rec.key = NoKey <=> next = Nil)
    BY <1>9, <1>11, <1>12, <1>13
  <2>2. seen = (IF rec.key = NoKey THEN <<>> ELSE <<next>>)
    BY <1>13, <1>18
  <2> QED
    BY <1>1, <1>3, <1>13, <2>1, <2>2, BeginShows
<1>29. ShownSound(loop'[l], visited'[l], stayed'[l], heap')
  BY <1>17, <1>19, <1>28
<1>30. Running(stack', heap', loop', order', own', visited', stayed', left')
  <2>1. Running(stack, heap, loop, order, own, visited, stayed, left)
    BY DEF LoopsInv
  <2>2. l = order'[M + 1] /\ Len(order) \in Nat /\ M \in 0 .. Len(order)
    BY <1>14, <1>17, <1>25
  <2> QED
    BY <1>12, <1>17, <1>21, <1>22, <1>23, <1>24, <1>27, <1>29, <2>1, <2>2, RunningOver
<1> QED
  BY <1>30 DEF LoopsInv

LEMMA FinishKeeps ==
  ASSUME Orderly, LoopsInv, NEW l \in Loops, Finish(l)
  PROVE  LoopsInv'
<1>1. Innermost(l)
  BY NoCorners DEF Finish, IterationCorners
<1>2. PICK f, M, b : Topmost(l, f, M, b)
  BY <1>1, InnermostTops
<1>3. /\ M \in Nat /\ Len(order) = M + 1 /\ order[M + 1] = l /\ loop[l] \in LoopType
      /\ Seated(loop[l], b) /\ b = f[M] /\ b \in Seq(OnStack) /\ Standing(b, heap)
      /\ Laying(f, stack, order, own, loop, visited)
  BY <1>2 DEF Topmost
<1>4. stack = StoodOn(b, loop[l], visited[l]) /\ own[Level] = <<>>
  BY <1>2, NothingOwn DEF Finish
<1>5. LoopEnded(stack, loop[l]) = b
  <2>1. PICK rec, k : rec = loop[l] /\ k = Last(visited[l])
    OBVIOUS
  <2>2. rec.class \in Classes /\ rec.tableidx = Len(b) + 1 /\ (rec.key = NoKey \/ rec.key = Seat(rec.class, b))
    BY <1>3, <2>1 DEF Seated, LoopType
  <2>3. rec.class = "each" => rec.key = NoKey
    BY <2>1, NoCorners DEF Finish, IterationCorners, Ended
  <2>4. stack = Shape(rec.class, rec.t, b, rec.key, k, rec.value)
    BY <1>4, <2>1 DEF StoodOn
  <2>5. Sequence(b)
    BY <1>3 DEF Sequence
  <2> QED
    BY <2>1, <2>2, <2>3, <2>4, <2>5, LoopEnds
<1>6. order \in Seq(Loops) /\ Objects(loop, order, heap) /\ Typed(order, own, visited, stayed, left)
  BY RunningFacts
<1>7. \A i, j \in 1 .. M + 1 : order[i] = order[j] => i = j
  BY <1>3, <1>6 DEF Objects
<1>8. PICK ord : ord = Front(order)
  OBVIOUS
<1>9. RemoveAt(order, PlaceOf(l)) = ord
  <2>1. DOMAIN order = 1 .. M + 1
    BY <1>3, <1>6
  <2>2. PlaceOf(l) = M + 1
    BY <1>3, <1>7, <2>1 DEF PlaceOf
  <2> QED
    BY <1>3, <1>6, <1>8, <2>2, LastRemoved
<1>10. ord \in Seq(Loops) /\ Len(ord) = M /\ \A n \in 1 .. M : ord[n] = order[n]
  <2>1. order # <<>>
    BY <1>1 DEF Innermost
  <2>2. /\ ord \in Seq(Loops) /\ Len(ord) = Len(order) - 1
        /\ \A n \in 1 .. Len(order) - 1 : ord[n] = order[n]
    BY <1>6, <1>8, <2>1, FrontAndLast
  <2>3. Len(order) - 1 = M
    BY <1>3
  <2> QED
    BY <2>2, <2>3
<1>11. PICK kept, m : kept = Referenced(ord) /\ m = [Machine(stack, heap) EXCEPT !.s = b]
  OBVIOUS
<1>12. /\ Becomes(m, kept) /\ loop' = [loop EXCEPT ![l] = Unmade] /\ order' = ord
       /\ own' = Front(own) /\ visited' = [visited EXCEPT ![l] = <<>>]
       /\ stayed' = [stayed EXCEPT ![l] = {}] /\ left' = [left EXCEPT ![l] = 0]
  <2>1. [Machine(stack, heap) EXCEPT !.s = LoopEnded(@, loop[l])]
          = [Machine(stack, heap) EXCEPT !.s = LoopEnded(stack, loop[l])]
    BY MachineParts
  <2> QED
    BY <1>5, <1>9, <1>11, <2>1 DEF Finish
<1>13. m = Machine(b, heap)
  BY <1>11, StackReplaced DEF Machine
<1>14. m.s = b /\ m.h = heap /\ Stacked(m)
  <2>1. Sequence(b)
    BY <1>3 DEF Sequence
  <2> QED
    BY <1>3, <1>13, <2>1, MachineParts, RunningFacts, StackedMachine
<1>15. kept \subseteq Tables /\ \A n \in 1 .. M : loop[order[n]].t \in kept
  <2>1. Len(ord) <= Len(order) /\ \A n \in 1 .. Len(ord) : ord[n] = order[n]
    BY <1>3, <1>10
  <2>2. kept \subseteq Tables /\ \A n \in 1 .. Len(ord) : loop[ord[n]].t \in kept
    BY <1>6, <1>10, <1>11, <2>1, ReferencedThere
  <2> QED
    BY <1>10, <2>2
<1>16. stack' = b /\ Fits(heap') /\ Standing(stack', heap') /\ \A t \in kept : heap'[t] = heap[t]
  BY <1>12, <1>14, <1>15, BecomesKept
<1>17. \A n \in 1 .. M : heap'[loop[order[n]].t] = heap[loop[order[n]].t]
  BY <1>15, <1>16
<1>18. /\ Objects(loop', order', heap') /\ Len(order') = M
       /\ \A n \in 1 .. M : order'[n] = order[n] /\ order[n] # l /\ loop'[order[n]] = loop[order[n]]
  <2>1. \A n \in 1 .. M : n \in 1 .. Len(order) /\ heap[loop[order[n]].t] # Free
    BY <1>3, <1>6 DEF Objects
  <2>2. PICK lo, or, h, lo2, ord2, g : /\ lo = loop /\ or = order /\ h = heap
                                       /\ lo2 = loop' /\ ord2 = order' /\ g = heap'
    OBVIOUS
  <2>3. Objects(lo, or, h) /\ EndedAs(lo, or, l, lo2, ord2) /\ LastOf(or, M, l)
    BY <1>3, <1>6, <1>8, <1>12, <2>2 DEF EndedAs, LastOf
  <2>4. OverTables(lo, or, M, g)
    BY <1>17, <2>1, <2>2 DEF OverTables
  <2>5. /\ Objects(lo2, ord2, g) /\ Len(ord2) = M
        /\ \A n \in 1 .. M : ord2[n] = or[n] /\ or[n] # l /\ lo2[or[n]] = lo[or[n]]
    <3>1. M \in Nat
      BY <1>3
    <3> QED
      BY <2>3, <2>4, <3>1, ObjectEnded
  <2> QED
    BY <2>2, <2>5
<1>19. \A n \in 1 .. M : visited'[order[n]] = visited[order[n]] /\ stayed'[order[n]] = stayed[order[n]]
  <2>1. visited \in [Loops -> Seq(Keys)] /\ stayed \in [Loops -> SUBSET Keys]
    BY <1>6 DEF Typed
  <2>2. \A n \in 1 .. M : order[n] \in Loops /\ order[n] # l
    BY <1>3, <1>6, <1>18
  <2> QED
    BY <1>12, <2>1, <2>2
<1>20. own' \in Seq(Seq(Held \cup {Nil})) /\ Len(own') = M + 1 /\ \A n \in 1 .. M + 1 : own'[n] = own[n]
  <2>1. own \in Seq(Seq(Held \cup {Nil})) /\ Len(own) = M + 2 /\ own # <<>>
    BY <1>3, RunningFacts
  <2>2. /\ own' \in Seq(Seq(Held \cup {Nil})) /\ Len(own') = Len(own) - 1
        /\ \A n \in 1 .. Len(own) - 1 : own'[n] = own[n]
    BY <1>12, <2>1, FrontAndLast
  <2>3. Len(own) - 1 = M + 1
    BY <1>3, <2>1
  <2> QED
    BY <2>2, <2>3
<1>21. Typed(order', own', visited', stayed', left')
  <2>1. visited' \in [Loops -> Seq(Keys)] /\ stayed' \in [Loops -> SUBSET Keys]
    BY <1>6, <1>12 DEF Typed
  <2>2. left' \in [Loops -> 0 .. MaxBody]
    BY <1>6, <1>12, IterationAssumption DEF Typed
  <2> QED
    BY <1>18, <1>20, <2>1, <2>2 DEF Typed
<1>22. SameBelow(M, order, own, loop, visited, order', own', loop', visited')
  BY <1>18, <1>19, <1>20 DEF SameBelow
<1>23. KeptBelow(M, order, loop, stayed, heap, stayed', heap')
  BY <1>17, <1>19 DEF KeptBelow
<1>24. Running(stack', heap', loop', order', own', visited', stayed', left')
  <2>1. Running(stack, heap, loop, order, own, visited, stayed, left)
    BY DEF LoopsInv
  <2>2. Len(order) \in Nat /\ M \in 0 .. Len(order) /\ stack' = f[M]
    BY <1>3, <1>16
  <2> QED
    BY <1>3, <1>16, <1>18, <1>21, <1>22, <1>23, <2>1, <2>2, RunningUnder
<1> QED
  BY <1>24 DEF LoopsInv

(* The loop object with what the step makes of its key and its value. *)
LEMMA LoopRewritten ==
  ASSUME NEW lo \in [Loops -> LoopType \cup {Unmade}], NEW l \in Loops, lo[l] \in LoopType,
         NEW a \in Int, NEW v \in Held \cup {Nil, Other},
         NEW lo2, lo2 = [lo EXCEPT ![l].key = a, ![l].value = v],
         NEW rec, rec = [class |-> lo[l].class, t |-> lo[l].t, tableidx |-> lo[l].tableidx, key |-> a, value |-> v]
  PROVE  rec \in LoopType /\ ChangedTo(lo, l, rec, lo2)
<1>1. rec \in LoopType
  BY DEF LoopType
<1>2. PICK old : old = lo[l]
  OBVIOUS
<1>3. PICK mid : mid = [old EXCEPT !.key = a]
  OBVIOUS
<1>4. old = [class |-> old.class, t |-> old.t, tableidx |-> old.tableidx, key |-> old.key, value |-> old.value]
  BY <1>2 DEF LoopType
<1>5. mid = [class |-> old.class, t |-> old.t, tableidx |-> old.tableidx, key |-> a, value |-> old.value]
  BY <1>3, <1>4
<1>6. rec = [mid EXCEPT !.value = v]
  BY <1>2, <1>5
<1>7. PICK lo1 : lo1 = [lo EXCEPT ![l] = mid]
  OBVIOUS
<1>8. lo1 = [lo EXCEPT ![l].key = a]
  BY <1>2, <1>3, <1>7
<1>9. lo2 = [lo1 EXCEPT ![l] = rec]
  BY <1>6, <1>7, <1>8
<1>10. lo2 = [lo EXCEPT ![l] = rec]
  BY <1>7, <1>9
<1> QED
  BY <1>1, <1>10 DEF ChangedTo

LEMMA AdvanceKeeps ==
  ASSUME Orderly, LoopsInv, NEW l \in Loops, Advance(l)
  PROVE  LoopsInv'
<1>1. Innermost(l) /\ loop[l].key # NoKey /\ own[Level] = <<>>
  BY NoCorners DEF Advance, Ended, IterationCorners
<1>2. PICK f, M, b : Topmost(l, f, M, b)
  BY <1>1, InnermostTops
<1>3. PICK fails \in BOOLEAN, postfix \in BOOLEAN :
        /\ fails => "next_fails" \in Corners /\ PairsOf[loop[l].t] = "pairs"
        /\ postfix => "postfix_increment" \in Corners /\ loop[l].class = "table"
        /\ \E st \in {LoopAdvanced(Machine(stack, heap), loop[l], fails)} :
             /\ Becomes(IF postfix THEN [st.m EXCEPT !.s = TableEnded(@, loop[l])] ELSE st.m,
                        Referenced(order))
             /\ loop' = [loop EXCEPT ![l].key = st.key, ![l].value = st.value]
             /\ visited' = [visited EXCEPT ![l] = Shown(l, st)]
             /\ left' = [left EXCEPT ![l] = IF st.key = NoKey THEN 0 ELSE MaxBody]
  BY DEF Advance
<1>4. ~fails /\ ~postfix
  BY <1>3, NoCorners DEF IterationCorners
<1>5. PICK st, kept : st = LoopAdvanced(Machine(stack, heap), loop[l], fails) /\ kept = Referenced(order)
  OBVIOUS
<1>6. /\ Becomes(st.m, kept)
      /\ loop' = [loop EXCEPT ![l].key = st.key, ![l].value = st.value]
      /\ visited' = [visited EXCEPT ![l] = Shown(l, st)]
      /\ left' = [left EXCEPT ![l] = IF st.key = NoKey THEN 0 ELSE MaxBody]
  BY <1>3, <1>4, <1>5
<1>7. order' = order /\ own' = own /\ stayed' = stayed
  BY DEF Advance
<1>8. /\ M \in Nat /\ M \in 0 .. Len(order) /\ Len(order) = M + 1 /\ Level = M + 2
      /\ order[M + 1] = l /\ loop[l] \in LoopType /\ heap[loop[l].t] # Free
      /\ Laying(f, stack, order, own, loop, visited)
      /\ b = f[M] /\ b \in Seq(OnStack) /\ Seated(loop[l], b) /\ Standing(b, heap)
      /\ ShownSound(loop[l], visited[l], stayed[l], heap)
  BY <1>2 DEF Topmost
<1>9. stack = StoodOn(b, loop[l], visited[l])
  BY <1>1, <1>2, NothingOwn
<1>10. PICK class, t, rec, seen, stay :
         /\ rec = loop[l] /\ seen = visited[l] /\ stay = stayed[l] /\ class = rec.class /\ t = rec.t
  OBVIOUS
<1>11. class \in Classes /\ t \in Tables /\ rec.key = Seat(class, b) /\ rec.tableidx = Len(b) + 1
  BY <1>1, <1>8, <1>10 DEF LoopType, Seated
<1>12. seen \in Seq(Keys) /\ seen # <<>> /\ Ascends(seen) /\ stay \subseteq Keys
  BY <1>1, <1>8, <1>10, RunningFacts DEF ShownSound, Typed
<1>13. PICK k, next : k = Last(seen) /\ next = NextKey(heap, t, k)
  OBVIOUS
<1>14. k \in Keys
  BY <1>12, <1>13, FrontAndLast
<1>15. Rests(st, class, t, b, heap, next)
  <2>1. PICK m : m = Machine(Shape(rec.class, rec.t, b, rec.key, k, rec.value), heap)
    OBVIOUS
  <2>2. st = LoopAdvanced(m, rec, fails)
    BY <1>5, <1>9, <1>10, <1>13, <2>1 DEF StoodOn
  <2>3. Sequence(b)
    BY <1>8 DEF Sequence
  <2>4. Rests(LoopAdvanced(m, rec, fails), rec.class, rec.t, b, heap, next)
    BY <1>4, <1>10, <1>11, <1>13, <1>14, <2>1, <2>3, LoopGoesOn
  <2> QED
    BY <1>10, <2>2, <2>4
<1>16. next = Nil \/ (next \in Keys /\ heap[t][next] # Nil)
  BY <1>13, <1>14, NextKeyThere
<1>17. PICK x : x = Shape(class, t, b, st.key, next, st.value)
  OBVIOUS
<1>18. /\ st.m = Machine(x, heap) /\ x \in Seq(OnStack) /\ Standing(x, heap)
       /\ st.value \in Held \cup {Nil} /\ st.key \in Int
       /\ st.key = NoKey \/ st.key = Seat(class, b)
       /\ next = Nil => st.key = NoKey
       /\ next # Nil => st.key # NoKey /\ At(st.m, st.key) = next
  BY <1>8, <1>10, <1>11, <1>15, <1>16, <1>17, RunningFacts, RestsIs
<1>19. st.m.s = x /\ st.m.h = heap /\ Stacked(st.m)
  <2>1. Sequence(x)
    BY <1>18 DEF Sequence
  <2> QED
    BY <1>18, <2>1, MachineParts, RunningFacts, StackedMachine
<1>20. kept \subseteq Tables /\ \A n \in 1 .. Len(order) : loop[order[n]].t \in kept
  BY <1>5, AllReferenced
<1>21. stack' = x /\ Fits(heap') /\ Standing(stack', heap') /\ \A u \in kept : heap'[u] = heap[u]
  BY <1>6, <1>19, <1>20, BecomesKept
<1>22. \A n \in 1 .. M + 1 : heap'[loop[order[n]].t] = heap[loop[order[n]].t]
  BY <1>8, <1>20, <1>21
<1>23. PICK new : new = [class |-> rec.class, t |-> rec.t, tableidx |-> rec.tableidx,
                         key |-> st.key, value |-> st.value]
  OBVIOUS
<1>24. /\ order \in Seq(Loops) /\ Objects(loop, order, heap) /\ Typed(order, own, visited, stayed, left)
       /\ loop \in [Loops -> LoopType \cup {Unmade}]
  BY RunningFacts DEF Objects
<1>25. new \in LoopType /\ ChangedTo(loop, l, new, loop')
  <2>1. loop[l] \in LoopType /\ st.key \in Int /\ st.value \in Held \cup {Nil, Other}
    BY <1>8, <1>18, Zenon
  <2>2. loop' = [loop EXCEPT ![l].key = st.key, ![l].value = st.value]
    BY <1>6, Zenon
  <2>3. new = [class |-> loop[l].class, t |-> loop[l].t, tableidx |-> loop[l].tableidx,
               key |-> st.key, value |-> st.value]
    BY <1>10, <1>23, Zenon
  <2> QED
    BY <1>24, <2>1, <2>2, <2>3, LoopRewritten, Zenon
<1>26. /\ Objects(loop', order, heap') /\ loop'[l] = new
       /\ \A n \in 1 .. M : order[n] # l /\ loop'[order[n]] = loop[order[n]]
  <2>1. PICK lo, ord, h, lo2, g : lo = loop /\ ord = order /\ h = heap /\ lo2 = loop' /\ g = heap'
    OBVIOUS
  <2>2. Objects(lo, ord, h) /\ LastOf(ord, M, l) /\ ChangedTo(lo, l, new, lo2)
    BY <1>8, <1>24, <1>25, <2>1 DEF LastOf
  <2>3. OverTables(lo, ord, M + 1, g) /\ new.t = lo[l].t
    BY <1>8, <1>10, <1>22, <1>23, <1>24, <2>1 DEF OverTables, Objects
  <2>4. M \in Nat
    BY <1>8
  <2>5. /\ Objects(lo2, ord, g) /\ lo2[l] = new
        /\ \A n \in 1 .. M : ord[n] # l /\ lo2[ord[n]] = lo[ord[n]]
    BY <1>25, <2>2, <2>3, <2>4, ObjectChanged
  <2> QED
    BY <2>1, <2>5
<1>27. PICK after : after = Shown(l, st)
  OBVIOUS
<1>28. after = IF next = Nil THEN seen ELSE Append(seen, next)
  <2>1. Len(seen) <= Cardinality(Keys)
    BY <1>12, NoMoreThanKeys
  <2>2. Len(seen) \in Nat /\ Cardinality(Keys) \in Nat
    BY <1>12, KeysAreOrdered
  <2>3. Recent(l) = seen
    BY <1>10, <2>1, <2>2 DEF Recent
  <2> QED
    BY <1>10, <1>18, <1>27, <2>3 DEF Shown
<1>29. after \in Seq(Keys)
  BY <1>12, <1>16, <1>28
<1>30. visited'[l] = after /\ \A n \in 1 .. M : visited'[order[n]] = visited[order[n]]
  <2>1. visited \in [Loops -> Seq(Keys)]
    BY <1>24 DEF Typed
  <2>2. \A n \in 1 .. M : order[n] \in Loops /\ order[n] # l
    BY <1>8, <1>24, <1>26
  <2> QED
    BY <1>6, <1>27, <2>1, <2>2
<1>31. Typed(order', own', visited', stayed', left')
  <2>1. visited' \in [Loops -> Seq(Keys)]
    BY <1>6, <1>24, <1>27, <1>29 DEF Typed
  <2>2. left' \in [Loops -> 0 .. MaxBody]
    BY <1>6, <1>24, IterationAssumption DEF Typed
  <2> QED
    BY <1>7, <1>24, <2>1, <2>2 DEF Typed
<1>32. SameBelow(M, order, own, loop, visited, order', own', loop', visited')
  BY <1>7, <1>26, <1>30 DEF SameBelow
<1>33. KeptBelow(M, order, loop, stayed, heap, stayed', heap')
  <2>1. \A n \in 1 .. M : n \in 1 .. M + 1
    BY <1>8
  <2> QED
    BY <1>7, <1>22, <2>1 DEF KeptBelow
<1>34. ShownSound(new, after, stay, heap')
  <2>1. IF next = Nil THEN new.key = NoKey /\ after = seen
        ELSE new.key # NoKey /\ after = Append(seen, next)
    BY <1>18, <1>23, <1>28
  <2>2. new.t = t
    BY <1>10, <1>23
  <2>3. rec.key # NoKey /\ ShownSound(rec, seen, stay, heap) /\ next = NextKey(heap, rec.t, Last(seen))
    BY <1>1, <1>8, <1>10, <1>13
  <2>4. ShownSound(new, after, stay, heap)
    BY <1>10, <1>12, <2>1, <2>2, <2>3, ShownNext
  <2>5. heap'[t] = heap[t]
    BY <1>8, <1>10, <1>22
  <2> QED
    BY <2>2, <2>4, <2>5 DEF ShownSound
<1>35. x = StoodOn(b, new, after)
  <2>1. StoodOn(b, new, after) = Shape(class, t, b, st.key, Last(after), st.value)
    BY <1>10, <1>23 DEF StoodOn
  <2>2. CASE st.key = NoKey
    BY <1>17, <2>1, <2>2, ShapeEnded
  <2>3. CASE st.key # NoKey
    <3>1. after = Append(seen, next) /\ Sequence(seen)
      BY <1>12, <1>18, <1>28, <2>3 DEF Sequence
    <3>2. Last(after) = next
      BY <3>1, Appended, SequenceFacts DEF Last
    <3> QED
      BY <1>17, <2>1, <3>2
  <2> QED
    BY <2>2, <2>3
<1>36. LaidOn(f, M, stack', order', own', loop', visited')
  <2>1. x \o own'[M + 2] = x
    <3>1. PICK e : e = own'[M + 2]
      OBVIOUS
    <3>2. e = <<>>
      BY <1>1, <1>7, <1>8, <3>1
    <3>3. e \in Seq(OnStack) /\ Len(e) = 0
      BY <3>2
    <3>4. x \o e = x
      BY <1>18, <3>3, NothingMore
    <3> QED
      BY <3>1, <3>4
  <2>2. stack' = StoodOn(f[M], new, after) \o own'[M + 2]
    BY <1>8, <1>21, <1>35, <2>1
  <2>3. Seated(new, f[M])
    BY <1>8, <1>10, <1>11, <1>18, <1>23 DEF Seated
  <2> QED
    BY <1>7, <1>8, <1>18, <1>21, <1>26, <1>30, <2>2, <2>3 DEF LaidOn
<1>37. Running(stack', heap', loop', order', own', visited', stayed', left')
  <2>1. Running(stack, heap, loop, order, own, visited, stayed, left)
    BY DEF LoopsInv
  <2>2. l = order'[M + 1] /\ Len(order) \in Nat /\ ShownSound(loop'[l], visited'[l], stayed'[l], heap')
    BY <1>7, <1>8, <1>10, <1>26, <1>30, <1>34
  <2>3. Objects(loop', order', heap')
    BY <1>7, <1>26
  <2> QED
    BY <1>8, <1>21, <1>31, <1>32, <1>33, <1>36, <2>1, <2>2, <2>3, RunningOver
<1> QED
  BY <1>37 DEF LoopsInv

(* Moved to another object the loop's key, table and index are as they were. *)
LEMMA MovePairsKeeps ==
  ASSUME Orderly, LoopsInv, NEW l \in Loops, NEW r \in Loops, MovePairs(l, r)
  PROVE  LoopsInv'
<1>1. Innermost(r) /\ l # r /\ loop[l] = Unmade /\ loop[r].class = "pairs" /\ left[r] > 0
  BY NoCorners DEF MovePairs, IterationCorners, Fresh
<1>2. PICK f, M, b : Topmost(r, f, M, b)
  BY <1>1, InnermostTops
<1>3. /\ M \in Nat /\ M \in 0 .. Len(order) /\ Len(order) = M + 1 /\ Level = M + 2
      /\ order[M + 1] = r /\ loop[r] \in LoopType /\ heap[loop[r].t] # Free
      /\ Laying(f, stack, order, own, loop, visited)
      /\ b = f[M] /\ b \in Seq(OnStack) /\ Seated(loop[r], b) /\ Standing(b, heap)
      /\ ShownSound(loop[r], visited[r], stayed[r], heap)
      /\ stack = StoodOn(b, loop[r], visited[r]) \o own[Level]
  BY <1>2 DEF Topmost
<1>4. PICK kept, m : /\ kept = Referenced(order)
                     /\ m = [Machine(stack, heap) EXCEPT !.s = LoopEnded(@, MovedFrom(r))]
  OBVIOUS
<1>5. /\ Becomes(m, kept) /\ loop' = [loop EXCEPT ![l] = loop[r], ![r] = Unmade]
      /\ order' = Append(Front(order), l) /\ own' = own
      /\ visited' = [visited EXCEPT ![l] = visited[r], ![r] = <<>>]
      /\ stayed' = [stayed EXCEPT ![l] = stayed[r], ![r] = {}]
      /\ left' = [left EXCEPT ![l] = left[r] - 1, ![r] = 0]
  BY <1>4 DEF MovePairs
<1>6. m = Machine(stack, heap)
  <2>1. MovedFrom(r).class = "pairs" /\ MovedFrom(r).key = NoKey
    BY <1>1, <1>3 DEF MovedFrom, LoopType
  <2>2. \A s : LoopEnded(s, MovedFrom(r)) = s
    BY <2>1 DEF LoopEnded
  <2>3. m = [Machine(stack, heap) EXCEPT !.s = LoopEnded(stack, MovedFrom(r))]
    BY <1>4, MachineParts
  <2>4. m = [Machine(stack, heap) EXCEPT !.s = stack]
    BY <2>2, <2>3
  <2> QED
    BY <2>4, StackReplaced DEF Machine
<1>7. m.s = stack /\ m.h = heap /\ Stacked(m)
  BY <1>6, MachineParts, RunningFacts, StackedMachine
<1>8. kept \subseteq Tables /\ \A n \in 1 .. Len(order) : loop[order[n]].t \in kept
  BY <1>4, AllReferenced
<1>9. stack' = stack /\ Fits(heap') /\ Standing(stack', heap') /\ \A u \in kept : heap'[u] = heap[u]
  BY <1>5, <1>7, <1>8, BecomesKept
<1>10. \A n \in 1 .. M + 1 : heap'[loop[order[n]].t] = heap[loop[order[n]].t]
  BY <1>3, <1>8, <1>9
<1>11. /\ order \in Seq(Loops) /\ Objects(loop, order, heap) /\ Typed(order, own, visited, stayed, left)
       /\ loop \in [Loops -> LoopType \cup {Unmade}]
  BY RunningFacts DEF Objects
<1>12. PICK lo1, ord1, rec : lo1 = [loop EXCEPT ![r] = Unmade] /\ ord1 = Front(order) /\ rec = loop[r]
  OBVIOUS
<1>13. /\ Objects(lo1, ord1, heap') /\ Len(ord1) = M
       /\ \A n \in 1 .. M : ord1[n] = order[n] /\ order[n] # r /\ lo1[order[n]] = loop[order[n]]
  <2>1. PICK lo, ord, h, g : lo = loop /\ ord = order /\ h = heap /\ g = heap'
    OBVIOUS
  <2>2. Objects(lo, ord, h) /\ EndedAs(lo, ord, r, lo1, ord1) /\ LastOf(ord, M, r)
    BY <1>3, <1>11, <1>12, <2>1 DEF EndedAs, LastOf
  <2>3. OverTables(lo, ord, M, g)
    BY <1>3, <1>10, <1>11, <2>1 DEF OverTables, Objects
  <2>4. M \in Nat
    BY <1>3
  <2>5. /\ Objects(lo1, ord1, g) /\ Len(ord1) = M
        /\ \A n \in 1 .. M : ord1[n] = ord[n] /\ ord[n] # r /\ lo1[ord[n]] = lo[ord[n]]
    BY <2>2, <2>3, <2>4, ObjectEnded
  <2> QED
    BY <2>1, <2>5
<1>14. /\ Objects(loop', order', heap') /\ Len(order') = M + 1 /\ order'[M + 1] = l /\ loop'[l] = rec
       /\ \A n \in 1 .. M : order'[n] = order[n] /\ order[n] # l /\ loop'[order[n]] = loop[order[n]]
  <2>1. lo1[l] = Unmade /\ rec \in LoopType
    BY <1>1, <1>3, <1>11, <1>12
  <2>2. loop' = [lo1 EXCEPT ![l] = rec]
    BY <1>1, <1>5, <1>11, <1>12
  <2>3. PICK lo2, ord2, g : lo2 = loop' /\ ord2 = order' /\ g = heap'
    OBVIOUS
  <2>4. Objects(lo1, ord1, g) /\ BegunAs(lo1, ord1, l, rec, lo2, ord2)
    BY <1>5, <1>12, <1>13, <2>2, <2>3 DEF BegunAs
  <2>5. OverTables(lo1, ord1, Len(ord1), g) /\ g[rec.t] # Free
    BY <1>3, <1>10, <1>12, <2>3, <2>4 DEF OverTables, Objects
  <2>6. /\ Objects(lo2, ord2, g) /\ Len(ord2) = Len(ord1) + 1 /\ ord2[Len(ord1) + 1] = l /\ lo2[l] = rec
        /\ \A n \in 1 .. Len(ord1) : ord2[n] = ord1[n] /\ ord1[n] # l /\ lo2[ord1[n]] = lo1[ord1[n]]
    BY <2>1, <2>4, <2>5, ObjectBegun
  <2> QED
    BY <1>13, <2>3, <2>6
<1>15. PICK seen, stay : seen = visited[r] /\ stay = stayed[r]
  OBVIOUS
<1>16. visited \in [Loops -> Seq(Keys)] /\ stayed \in [Loops -> SUBSET Keys] /\ left \in [Loops -> 0 .. MaxBody]
  BY <1>11 DEF Typed
<1>17. /\ visited'[l] = seen /\ stayed'[l] = stay
       /\ \A n \in 1 .. M : visited'[order[n]] = visited[order[n]] /\ stayed'[order[n]] = stayed[order[n]]
  <2>1. \A n \in 1 .. M : order[n] \in Loops /\ order[n] # l /\ order[n] # r
    BY <1>3, <1>11, <1>13, <1>14
  <2> QED
    BY <1>1, <1>5, <1>15, <1>16, <2>1
<1>18. Typed(order', own', visited', stayed', left')
  <2>1. visited' \in [Loops -> Seq(Keys)] /\ stayed' \in [Loops -> SUBSET Keys]
    <3>0. PICK e, z : e = <<>> /\ z = {}
      OBVIOUS
    <3>1. e \in Seq(Keys) /\ z \in SUBSET Keys
      BY <3>0
    <3>2. seen \in Seq(Keys) /\ stay \in SUBSET Keys
      BY <1>15, <1>16
    <3>3. visited' = [visited EXCEPT ![l] = seen, ![r] = e] /\ stayed' = [stayed EXCEPT ![l] = stay, ![r] = z]
      BY <1>5, <1>15, <3>0
    <3> QED
      BY <1>16, <3>1, <3>2, <3>3
  <2>2. left[r] - 1 \in 0 .. MaxBody /\ 0 \in 0 .. MaxBody
    BY <1>1, <1>16, IterationAssumption
  <2>3. left' \in [Loops -> 0 .. MaxBody]
    BY <1>5, <1>16, <2>2
  <2> QED
    BY <1>3, <1>5, <1>11, <1>14, <2>1, <2>3 DEF Typed
<1>19. SameBelow(M, order, own, loop, visited, order', own', loop', visited')
  BY <1>5, <1>14, <1>17 DEF SameBelow
<1>20. KeptBelow(M, order, loop, stayed, heap, stayed', heap')
  <2>1. \A n \in 1 .. M : n \in 1 .. M + 1
    BY <1>3
  <2> QED
    BY <1>10, <1>17, <2>1 DEF KeptBelow
<1>21. LaidOn(f, M, stack', order', own', loop', visited')
  <2>1. stack' = StoodOn(f[M], rec, seen) \o own'[M + 2]
    BY <1>3, <1>5, <1>9, <1>12, <1>15
  <2>2. Seated(rec, f[M]) /\ stack \in Seq(OnStack)
    BY <1>3, <1>12, RunningFacts
  <2> QED
    BY <1>9, <1>14, <1>17, <2>1, <2>2 DEF LaidOn
<1>22. ShownSound(rec, seen, stay, heap')
  <2>1. ShownSound(rec, seen, stay, heap) /\ heap'[rec.t] = heap[rec.t]
    BY <1>3, <1>10, <1>12, <1>15
  <2> QED
    BY <2>1 DEF ShownSound
<1>23. Running(stack', heap', loop', order', own', visited', stayed', left')
  <2>1. Running(stack, heap, loop, order, own, visited, stayed, left)
    BY DEF LoopsInv
  <2>2. l = order'[M + 1] /\ Len(order) \in Nat /\ ShownSound(loop'[l], visited'[l], stayed'[l], heap')
    BY <1>3, <1>14, <1>17, <1>22
  <2> QED
    BY <1>3, <1>9, <1>14, <1>18, <1>19, <1>20, <1>21, <2>1, <2>2, RunningOver
<1> QED
  BY <1>23 DEF LoopsInv

--------------------------------------------------------------------------------
(* The stack is accounted for *)

LEMMA OneOver ==
  ASSUME NEW S, NEW b \in Seq(S), NEW v \in S, NEW e, e = <<v>>
  PROVE  e \in Seq(S) /\ Joined(b, e, Append(b, v))
<1>1. PICK none : none = <<>>
  OBVIOUS
<1>2. none \in Seq(S) /\ Len(none) = 0 /\ e = Append(none, v) /\ e \in Seq(S)
  BY <1>1
<1>3. Joined(b, none, b)
  BY <1>2, NothingMore DEF Joined
<1> QED
  BY <1>2, <1>3, AppendJoined

(* What Region says a loop keeps is what it stands on the stack with. *)
LEMMA RegionStands ==
  ASSUME NEW l, loop[l] \in LoopType, loop[l].key = NoKey \/ Last(visited[l]) \in Keys,
         NEW b \in Seq(OnStack)
  PROVE  Joined(b, Region(l), StoodOn(b, loop[l], visited[l]))
<1>1. PICK class, t, key, k, value :
        /\ class = loop[l].class /\ t = loop[l].t /\ key = loop[l].key /\ value = loop[l].value
        /\ k = Last(visited[l])
  OBVIOUS
<1>2. class \in Classes /\ t \in OnStack /\ value \in OnStack
  BY <1>1 DEF LoopType, OnStack, Held
<1>3. PICK x : x = StoodOn(b, loop[l], visited[l])
  OBVIOUS
<1>4. x = Shape(class, t, b, key, k, value)
  BY <1>1, <1>3 DEF StoodOn
<1>5. PICK none, et, ek, ev : none = <<>> /\ et = <<t>> /\ ek = <<k>> /\ ev = <<value>>
  OBVIOUS
<1>6. none \in Seq(OnStack) /\ Len(none) = 0 /\ et \in Seq(OnStack)
  BY <1>2, <1>5
<1>7. PICK shown, reg : /\ shown = (IF key = NoKey THEN none ELSE ek)
                        /\ reg = CASE class = "pairs" -> shown
                                   [] class = "table" -> et \o shown
                                   [] class = "each" -> IF key = NoKey THEN none ELSE et \o shown \o ev
  OBVIOUS
<1>8. Region(l) = reg
  BY <1>1, <1>5, <1>7 DEF Region, Ended
<1> SUFFICES Joined(b, reg, x)
  BY <1>3, <1>8
<1>9. Joined(b, none, b) /\ et \o none = et
  BY <1>6, NothingMore DEF Joined
<1>10. PICK x1 : x1 = Append(b, t)
  OBVIOUS
<1>11. x1 \in Seq(OnStack) /\ Joined(b, et, x1)
  BY <1>2, <1>5, <1>10, OneOver
<1>12. CASE key = NoKey
  <2>1. shown = none
    BY <1>7, <1>12
  <2>2. CASE class = "pairs"
    BY <1>4, <1>7, <1>9, <1>12, <2>1, <2>2 DEF Shape
  <2>3. CASE class = "table"
    BY <1>4, <1>7, <1>9, <1>10, <1>11, <1>12, <2>1, <2>3 DEF Shape
  <2>4. CASE class = "each"
    BY <1>4, <1>7, <1>9, <1>12, <2>4 DEF Shape
  <2> QED
    BY <1>2, <2>2, <2>3, <2>4 DEF Classes
<1>13. CASE key # NoKey
  <2>1. k \in OnStack /\ shown = ek
    BY <1>1, <1>7, <1>13 DEF OnStack
  <2>2. PICK w, x2, x3, e2, e3 : /\ w = Append(b, k) /\ x2 = Append(x1, k) /\ x3 = Append(x2, value)
                                 /\ e2 = Append(et, k) /\ e3 = Append(e2, value)
    OBVIOUS
  <2>3. Joined(b, ek, w) /\ ek \in Seq(OnStack)
    BY <1>5, <2>1, <2>2, OneOver
  <2>4. e2 \in Seq(OnStack) /\ x2 \in Seq(OnStack)
    BY <1>6, <1>11, <2>1, <2>2
  <2>5. et \o ek = e2
    <3>1. Joined(et, ek, e2)
      BY <1>5, <1>6, <2>1, <2>2, OneOver
    <3> QED
      BY <3>1 DEF Joined
  <2>6. e2 \o ev = e3
    <3>1. Joined(e2, ev, e3)
      BY <1>2, <1>5, <2>2, <2>4, OneOver
    <3> QED
      BY <3>1 DEF Joined
  <2>7. Joined(b, e2, x2)
    BY <1>6, <1>11, <2>1, <2>2, AppendJoined
  <2>8. Joined(b, e3, x3)
    BY <1>2, <2>2, <2>4, <2>7, AppendJoined
  <2>9. CASE class = "pairs"
    BY <1>4, <1>7, <1>13, <2>1, <2>2, <2>3, <2>9 DEF Shape
  <2>10. CASE class = "table"
    <3>1. reg = e2
      BY <1>7, <2>1, <2>5, <2>10
    <3>2. x = x2
      BY <1>4, <1>10, <1>13, <2>2, <2>10 DEF Shape
    <3> QED
      BY <2>7, <3>1, <3>2
  <2>11. CASE class = "each"
    <3>1. reg = e3
      BY <1>7, <1>13, <2>1, <2>5, <2>6, <2>11
    <3>2. x = x3
      BY <1>4, <1>10, <1>13, <2>2, <2>11 DEF Shape
    <3> QED
      BY <2>8, <3>1, <3>2
  <2> QED
    BY <1>2, <2>9, <2>10, <2>11 DEF Classes
<1> QED
  BY <1>12, <1>13

(* The values of the loops and of their bodies, one above the other. *)
Layer(n, p) == p \o Region(order[n]) \o own[n + 1]

LEMMA LaidIs ==
  ASSUME NEW f, NEW N \in Nat, N = Len(order), f[0] = own[1], \A n \in 1 .. N : f[n] = Layer(n, f[n - 1])
  PROVE  Laid = f[N]
<1> DEFINE at == CHOOSE at : at = [n \in 0 .. Len(order) |->
                               IF n = 0 THEN own[1] ELSE at[n - 1] \o Region(order[n]) \o own[n + 1]]
           Is(g) == g = [n \in 0 .. Len(order) |-> IF n = 0 THEN own[1] ELSE Layer(n, g[n - 1])]
<1>1. Laid = at[N]
  BY DEF Laid
<1>2. PICK g : g = [n \in 0 .. N |-> f[n]]
  OBVIOUS
<1>3. ASSUME NEW n \in 0 .. N PROVE g[n] = IF n = 0 THEN own[1] ELSE Layer(n, g[n - 1])
  <2>1. CASE n = 0
    BY <1>2, <2>1
  <2>2. CASE n # 0
    <3>1. n \in 1 .. N /\ n - 1 \in 0 .. N
      BY <2>2
    <3> QED
      BY <1>2, <2>2, <3>1
  <2> QED
    BY <2>1, <2>2
<1>4. Is(g)
  BY <1>2, <1>3
<1>5. Is(at)
  BY <1>4, Zenon DEF Layer
<1> HIDE DEF at
<1>6. at[0] = own[1] /\ \A n \in 1 .. N : at[n] = Layer(n, at[n - 1])
  BY <1>5
<1>7. PICK P : P = {m \in Nat : at[m] = f[m]}
  OBVIOUS
<1>8. 0 \in P /\ \A n \in 1 .. N : n - 1 \in P => n \in P
  BY <1>6, <1>7
<1>9. \A n \in 0 .. N : n \in P
  BY <1>8, Steps
<1> QED
  BY <1>1, <1>7, <1>9

--------------------------------------------------------------------------------
(* Whatever the loops and their bodies do *)

LEMMA LoopsBegin ==
  ASSUME Init
  PROVE  LoopsInv
<1>1. Fits(heap) /\ Standing(stack, heap)
  BY StackBegins DEF Init, AccessInit
<1>2. order = <<>> /\ Len(order) = 0 /\ own = <<<<>>>> /\ stack = <<>>
  BY DEF Init
<1>3. Objects(loop, order, heap)
  <2>1. \A l \in Loops : loop[l] = Unmade
    BY DEF Init
  <2>2. loop \in [Loops -> LoopType \cup {Unmade}] /\ order \in Seq(Loops)
    BY DEF Init
  <2> QED
    BY <1>2, <2>1, <2>2 DEF Objects
<1>4. Typed(order, own, visited, stayed, left)
  <2>1. own \in Seq(Seq(Held \cup {Nil})) /\ Len(own) = Len(order) + 1
    BY <1>2
  <2>2. visited \in [Loops -> Seq(Keys)] /\ stayed \in [Loops -> SUBSET Keys]
    BY DEF Init
  <2>3. left \in [Loops -> 0 .. MaxBody]
    BY IterationAssumption DEF Init
  <2> QED
    BY <2>1, <2>2, <2>3 DEF Typed
<1>5. \E f : Laying(f, stack, order, own, loop, visited)
  <2>1. stack \in Seq(OnStack) /\ stack = own[1]
    BY <1>2
  <2> QED
    BY <1>2, <2>1, LayingNone
<1>6. \A n \in 1 .. Len(order) : ShownSound(loop[order[n]], visited[order[n]], stayed[order[n]], heap)
  BY <1>2
<1> QED
  BY <1>1, <1>3, <1>4, <1>5, <1>6 DEF LoopsInv, Running

LEMMA LoopsKept ==
  ASSUME Orderly, LoopsInv, [Next]_vars
  PROVE  LoopsInv'
<1>1. CASE BodySets
  BY <1>1, BodySetsKeeps
<1>2. CASE BodyClears
  BY <1>2, BodyClearsKeeps
<1>3. CASE BodyPushes
  BY <1>3, BodyPushesKeeps
<1>4. CASE BodyPops
  BY <1>4, BodyPopsKeeps
<1>5. ASSUME NEW l \in Loops, Advance(l) PROVE LoopsInv'
  BY <1>5, AdvanceKeeps
<1>6. ASSUME NEW l \in Loops, Finish(l) PROVE LoopsInv'
  BY <1>6, FinishKeeps
<1>7. ASSUME NEW l \in Loops, NEW class \in Classes, NEW t \in Tables, Begin(l, class, t) PROVE LoopsInv'
  BY <1>7, BeginKeeps
<1>8. ASSUME NEW l \in Loops, NEW r \in Loops, MovePairs(l, r) PROVE LoopsInv'
  BY <1>8, MovePairsKeeps
<1>9. CASE UNCHANGED vars
  BY <1>9 DEF vars, LoopsInv
<1> QED
  BY <1>1, <1>2, <1>3, <1>4, <1>5, <1>6, <1>7, <1>8, <1>9 DEF Next

LEMMA ShownOfLoop ==
  ASSUME LoopsInv, NEW n \in 1 .. Len(order), NEW l, l = order[n]
  PROVE  /\ l \in Loops /\ loop[l] \in LoopType
         /\ ShownSound(loop[l], visited[l], stayed[l], heap)
         /\ loop[l].key = NoKey \/ Last(visited[l]) \in Keys
<1>1. l \in Loops /\ loop[l] \in LoopType
  BY RunningFacts, ObjectMade
<1>2. ShownSound(loop[l], visited[l], stayed[l], heap)
  BY DEF LoopsInv, Running
<1>3. CASE loop[l].key # NoKey
  <2>1. visited[l] \in Seq(Keys) /\ visited[l] # <<>>
    BY <1>2, <1>3 DEF ShownSound
  <2> QED
    BY <1>1, <1>2, <2>1, FrontAndLast
<1> QED
  BY <1>1, <1>2, <1>3

LEMMA StackOfLoops ==
  ASSUME LoopsInv
  PROVE  StackAccounted
<1>1. PICK f : Laying(f, stack, order, own, loop, visited)
  BY DEF LoopsInv, Running
<1>2. PICK N \in Nat : N = Len(order)
  BY RunningFacts
<1>3. f[0] = own[1] /\ stack = f[N]
  BY <1>1, <1>2 DEF Laying
<1>4. ASSUME NEW n \in 1 .. N PROVE f[n] = Layer(n, f[n - 1])
  <2>1. PICK l, b, o, x : /\ l = order[n] /\ b = f[n - 1] /\ o = own[n + 1]
                          /\ x = StoodOn(b, loop[l], visited[l])
    OBVIOUS
  <2>2. loop[l] \in LoopType /\ (loop[l].key = NoKey \/ Last(visited[l]) \in Keys)
    BY <1>2, <2>1, ShownOfLoop
  <2>3. b \in Seq(OnStack)
    BY <1>1, <1>2, <2>1 DEF Laying
  <2>4. Joined(b, Region(l), x)
    BY <2>1, <2>2, <2>3, RegionStands
  <2>5. f[n] = x \o o
    BY <1>1, <1>2, <2>1 DEF Laying
  <2>6. Layer(n, f[n - 1]) = b \o Region(l) \o o
    BY <2>1 DEF Layer
  <2>7. x = b \o Region(l)
    BY <2>4 DEF Joined
  <2> QED
    BY <2>5, <2>6, <2>7, Zenon
<1>5. stack = Laid
  BY <1>2, <1>3, <1>4, LaidIs
<1>6. TypeOK
  <2>1. stack \in Seq(Held \cup Keys \cup {Nil, Other})
    BY RunningFacts DEF OnStack
  <2>2. HeapTypeOK
    BY RunningFacts DEF Fits, Fields, HeapTypeOK
  <2>3. loop \in [Loops -> LoopType \cup {Unmade}]
    BY RunningFacts DEF Objects
  <2>4. /\ visited \in [Loops -> Seq(Keys)] /\ stayed \in [Loops -> SUBSET Keys]
        /\ left \in [Loops -> 0 .. MaxBody]
    BY RunningFacts DEF Typed
  <2> QED
    BY <2>1, <2>2, <2>3, <2>4, RunningFacts DEF TypeOK
<1> QED
  BY <1>5, <1>6 DEF StackAccounted

LEMMA VisitsOfLoops ==
  ASSUME LoopsInv
  PROVE  VisitsEachOnce
<1> SUFFICES ASSUME NEW l \in ToSet(order)
             PROVE  /\ \A i, j \in DOMAIN visited[l] :
                         i < j => KeyPosition(visited[l][i]) < KeyPosition(visited[l][j])
                    /\ Ended(l) => stayed[l] \subseteq ToSet(visited[l])
  BY DEF VisitsEachOnce
<1>1. PICK n \in 1 .. Len(order) : l = order[n]
  <2>1. ToSet(order) = {order[n] : n \in DOMAIN order}
    BY DEF ToSet
  <2>2. DOMAIN order = 1 .. Len(order)
    BY RunningFacts
  <2> QED
    BY <2>1, <2>2
<1>2. ShownSound(loop[l], visited[l], stayed[l], heap)
  BY <1>1, ShownOfLoop
<1>3. PICK seen \in Seq(Keys) : seen = visited[l] /\ Ascends(seen)
  BY <1>2 DEF ShownSound
<1>4. ASSUME NEW i \in DOMAIN seen, NEW j \in DOMAIN seen, i < j
      PROVE  KeyPosition(seen[i]) < KeyPosition(seen[j])
  <2>1. i \in 1 .. Len(seen) /\ j \in 1 .. Len(seen)
    BY <1>3
  <2>2. After(seen[i], seen[j]) /\ seen[i] \in Keys /\ seen[j] \in Keys
    BY <1>3, <1>4, <2>1 DEF Ascends
  <2>3. KeyPosition(seen[i]) \in Nat /\ KeyPosition(seen[j]) \in Nat
    BY <2>2, PositionsCompare
  <2> QED
    BY <2>2, <2>3 DEF After
<1>5. Ended(l) => stayed[l] \subseteq ToSet(visited[l])
  BY <1>2 DEF ShownSound, Ended
<1> QED
  BY <1>3, <1>4, <1>5

(* As long as the program keeps clear of the corners Orderly names: at every  *)
(* moment of any nesting of pairs(), table iterators and for_each, advanced,  *)
(* moved, left early or at their end, with bodies that write, clear, push and *)
(* pop, the Lua stack holds what those loops keep there, in their order and   *)
(* at the indices they remember, with the bodies' values between, and nothing *)
(* else.                                                                      *)
THEOREM LoopsAccountForTheStack == Orderly /\ Spec => []StackAccounted
<1> DEFINE Inv == LoopsInv /\ Orderly
<1>1. Orderly /\ Init => Inv
  BY LoopsBegin
<1>2. Inv /\ [Next]_vars => Inv'
  <2>1. ASSUME Inv, [Next]_vars PROVE LoopsInv'
    BY <2>1, LoopsKept
  <2> QED
    BY <2>1 DEF Orderly, Straight
<1>3. Inv => StackAccounted
  BY StackOfLoops
<1> QED
  BY <1>1, <1>2, <1>3, PTL DEF Spec

(* However many keys a table has: such a loop shows each key at most once and *)
(* in the order of lua_next, and one that came to its end has shown every key *)
(* that was there from its beginning on, whatever its body wrote or removed.  *)
THEOREM LoopsVisitEachOnce == Orderly /\ Spec => []VisitsEachOnce
<1> DEFINE Inv == LoopsInv /\ Orderly
<1>1. Orderly /\ Init => Inv
  BY LoopsBegin
<1>2. Inv /\ [Next]_vars => Inv'
  <2>1. ASSUME Inv, [Next]_vars PROVE LoopsInv'
    BY <2>1, LoopsKept
  <2> QED
    BY <2>1 DEF Orderly, Straight
<1>3. Inv => VisitsEachOnce
  BY VisitsOfLoops
<1> QED
  BY <1>1, <1>2, <1>3, PTL DEF Spec

--------------------------------------------------------------------------------
(* Userdata: addresses *)

IsType(t) == t \in Alignments \X (Nat \ {0})

(* Aligning moves up, by less than the alignment, to a multiple of it. *)
LEMMA AlignBounds ==
  ASSUME NEW a \in Alignments, NEW p \in Nat
  PROVE  /\ AlignUp(a, p) \in Nat
         /\ p <= AlignUp(a, p) /\ AlignUp(a, p) <= p + a - 1
         /\ AlignUp(a, p) % a = 0
<1>1. CASE a = 1  BY <1>1 DEF AlignUp
<1>2. CASE a = 2  BY <1>2 DEF AlignUp
<1>3. CASE a = 4  BY <1>3 DEF AlignUp
<1>4. CASE a = 8  BY <1>4 DEF AlignUp
<1>5. CASE a = 16 BY <1>5 DEF AlignUp
<1>6. CASE a = 32 BY <1>6 DEF AlignUp
<1>7. CASE a = 64 BY <1>7 DEF AlignUp
<1> QED BY <1>1, <1>2, <1>3, <1>4, <1>5, <1>6, <1>7 DEF Alignments

(* An alignment up to m, both powers of two, does not see multiples of m. *)
LEMMA AlignShift ==
  ASSUME NEW m \in {1, 2, 4, 8, 16}, NEW a \in Alignments, a <= m, NEW p \in Nat, NEW k \in Nat
  PROVE  AlignUp(a, p + k * m) = AlignUp(a, p) + k * m
<1>1. CASE m = 1
  <2>1. CASE a = 1 BY <1>1, <2>1 DEF AlignUp
  <2> QED BY <1>1, <2>1 DEF Alignments
<1>2. CASE m = 2
  <2>1. CASE a = 1 BY <1>2, <2>1 DEF AlignUp
  <2>2. CASE a = 2 BY <1>2, <2>2 DEF AlignUp
  <2> QED BY <1>2, <2>1, <2>2 DEF Alignments
<1>3. CASE m = 4
  <2>1. CASE a = 1 BY <1>3, <2>1 DEF AlignUp
  <2>2. CASE a = 2 BY <1>3, <2>2 DEF AlignUp
  <2>3. CASE a = 4 BY <1>3, <2>3 DEF AlignUp
  <2> QED BY <1>3, <2>1, <2>2, <2>3 DEF Alignments
<1>4. CASE m = 8
  <2>1. CASE a = 1 BY <1>4, <2>1 DEF AlignUp
  <2>2. CASE a = 2 BY <1>4, <2>2 DEF AlignUp
  <2>3. CASE a = 4 BY <1>4, <2>3 DEF AlignUp
  <2>4. CASE a = 8 BY <1>4, <2>4 DEF AlignUp
  <2> QED BY <1>4, <2>1, <2>2, <2>3, <2>4 DEF Alignments
<1>5. CASE m = 16
  <2>1. CASE a = 1 BY <1>5, <2>1 DEF AlignUp
  <2>2. CASE a = 2 BY <1>5, <2>2 DEF AlignUp
  <2>3. CASE a = 4 BY <1>5, <2>3 DEF AlignUp
  <2>4. CASE a = 8 BY <1>5, <2>4 DEF AlignUp
  <2>5. CASE a = 16 BY <1>5, <2>5 DEF AlignUp
  <2> QED BY <1>5, <2>1, <2>2, <2>3, <2>4, <2>5 DEF Alignments
<1> QED BY <1>1, <1>2, <1>3, <1>4, <1>5

LEMMA PtrIsAlignment == Ptr \in Alignments
  BY LayoutAssumption DEF Alignments

(* The sections before the last take at least their own size and at most   *)
(* Ptr - 1 of padding each.                                                *)
LEMMA PointersEndBounds ==
  ASSUME NEW n \in {0, 1, 3}, NEW p \in Nat
  PROVE  /\ PointersEnd(n, p) \in Nat
         /\ p + n * Ptr <= PointersEnd(n, p)
         /\ PointersEnd(n, p) <= p + n * (Ptr + Ptr - 1)
<1> DEFINE one(x) == AlignOne(Ptr, Ptr, x)
<1>1. \A x \in Nat : one(x) \in Nat /\ x + Ptr <= one(x) /\ one(x) <= x + Ptr + Ptr - 1
  BY AlignBounds, PtrIsAlignment, LayoutAssumption DEF AlignOne
<1>2. \A q \in Nat : PointersEnd(n, q) = IF n = 0 THEN q ELSE IF n = 1 THEN one(q) ELSE one(one(one(q)))
  BY DEF PointersEnd
<1> HIDE DEF one
<1>3. PICK l \in Nat : l = Ptr
  BY LayoutAssumption
<1>4. CASE n = 0
  BY <1>2, <1>4, LayoutAssumption
<1>5. CASE n = 1
  BY <1>1, <1>2, <1>5, LayoutAssumption
<1>6. CASE n = 3
  <2>1. PICK a \in Nat, b \in Nat, c \in Nat : a = one(p) /\ b = one(a) /\ c = one(b)
    BY <1>1
  <2>2. /\ p + l <= a /\ a <= p + l + l - 1 /\ a + l <= b /\ b <= a + l + l - 1
        /\ b + l <= c /\ c <= b + l + l - 1
    BY <1>1, <1>3, <2>1
  <2>3. PointersEnd(n, p) = c
    BY <1>2, <1>6, <2>1
  <2>4. p + 3 * l <= c /\ c <= p + 3 * (l + l - 1)
    BY <2>2
  <2> QED
    BY <1>3, <1>6, <2>3, <2>4
<1> QED
  BY <1>4, <1>5, <1>6

(* ... and depends on the address modulo any m the pointers are aligned to. *)
LEMMA PointersEndShift ==
  ASSUME NEW n \in {0, 1, 3}, NEW m \in {1, 2, 4, 8, 16}, n # 0 => Ptr <= m, NEW p \in Nat, NEW k \in Nat
  PROVE  PointersEnd(n, p + k * m) = PointersEnd(n, p) + k * m
<1> DEFINE one(x) == AlignOne(Ptr, Ptr, x)
<1>1. k * m \in Nat
  OBVIOUS
<1>2. ASSUME n # 0, NEW x \in Nat
      PROVE  one(x) \in Nat /\ one(x + k * m) = one(x) + k * m
  <2>1. AlignUp(Ptr, x + k * m) = AlignUp(Ptr, x) + k * m
    BY <1>2, AlignShift, PtrIsAlignment
  <2>2. AlignUp(Ptr, x) \in Nat
    BY AlignBounds, PtrIsAlignment
  <2> QED
    BY <1>1, <2>1, <2>2, LayoutAssumption DEF AlignOne
<1>3. \A q \in Nat : PointersEnd(n, q) = IF n = 0 THEN q ELSE IF n = 1 THEN one(q) ELSE one(one(one(q)))
  BY DEF PointersEnd
<1> HIDE DEF one
<1> DEFINE km == k * m
<1>4. km \in Nat /\ p + km \in Nat
  BY <1>1
<1>5. n # 0 => \A x \in Nat : one(x) \in Nat /\ one(x + km) = one(x) + km
  BY <1>2
<1> HIDE DEF km
<1>6. PointersEnd(n, p + km) = PointersEnd(n, p) + km
  BY <1>3, <1>4, <1>5
<1> QED
  BY <1>6 DEF km

(* The room sections need from ptr depends only on its remainder. *)
LEMMA SpaceShift ==
  ASSUME NEW n \in {0, 1, 3}, NEW t, IsType(t), LargestAlign(n, t) <= MaxAlign, NEW p \in Nat, NEW k \in Nat
  PROVE  SpaceFrom(n, t, p + k * LargestAlign(n, t)) = SpaceFrom(n, t, p)
<1> DEFINE m == LargestAlign(n, t)
<1>1. t[1] \in Alignments /\ t[2] \in Nat
  BY DEF IsType
<1>2. m \in {1, 2, 4, 8, 16} /\ t[1] <= m /\ (n # 0 => Ptr <= m)
  BY <1>1, LayoutAssumption DEF LargestAlign, Larger, Alignments
<1> HIDE DEF m
<1>3. PointersEnd(n, p + k * m) = PointersEnd(n, p) + k * m
  BY <1>2, PointersEndShift
<1>7. PointersEnd(n, p) \in Nat
  BY PointersEndBounds
<1>4. AlignUp(t[1], PointersEnd(n, p) + k * m) = AlignUp(t[1], PointersEnd(n, p)) + k * m
  BY <1>1, <1>2, <1>7, AlignShift
<1>5. AlignUp(t[1], PointersEnd(n, p)) \in Nat /\ k * m \in Nat
  BY <1>1, <1>2, <1>7, AlignBounds
<1>6. SpaceFrom(n, t, p + k * m) = SpaceFrom(n, t, p)
  BY <1>1, <1>3, <1>4, <1>5 DEF SpaceFrom, AlignOne
<1> QED
  BY <1>6 DEF m

(* The bounds of that room. *)
LEMMA SpaceBounds ==
  ASSUME NEW n \in {0, 1, 3}, NEW t, IsType(t), NEW p \in Nat
  PROVE  /\ SpaceFrom(n, t, p) \in Nat
         /\ n * Ptr + t[2] <= SpaceFrom(n, t, p)
         /\ SpaceFrom(n, t, p) <= n * (Ptr + Ptr - 1) + (t[1] + t[2] - 1)
<1>1. t[1] \in Alignments /\ t[1] \in Nat /\ t[2] \in Nat
  BY DEF IsType, Alignments
<1> DEFINE e == PointersEnd(n, p)
<1>2. e \in Nat /\ p + n * Ptr <= e /\ e <= p + n * (Ptr + Ptr - 1)
  BY PointersEndBounds
<1> HIDE DEF e
<1>3. AlignUp(t[1], e) \in Nat /\ e <= AlignUp(t[1], e) /\ AlignUp(t[1], e) <= e + t[1] - 1
  BY <1>1, <1>2, AlignBounds
<1>4. SpaceFrom(n, t, p) = AlignUp(t[1], e) + t[2] - p
  BY <1>1, <1>2, <1>3 DEF SpaceFrom, AlignOne, e
<1> QED
  BY <1>1, <1>2, <1>3, <1>4, LayoutAssumption

(* There is a worst remainder.  (Stated up to 15, the largest needed, so *)
(* that no induction is.)                                                *)
LEMMA WorstExists ==
  ASSUME NEW n \in {0, 1, 3}, NEW t, IsType(t), NEW j \in 0 .. 15
  PROVE  \E w \in 0 .. j : \A q \in 0 .. j : SpaceFrom(n, t, q) <= SpaceFrom(n, t, w)
<1> DEFINE W(i) == \E w \in 0 .. i : \A q \in 0 .. i : SpaceFrom(n, t, q) <= SpaceFrom(n, t, w)
<1>1. \A q \in Nat : SpaceFrom(n, t, q) \in Nat
  BY SpaceBounds
<1>2. W(0)
  BY <1>1
<1>3. ASSUME NEW i \in Nat, W(i) PROVE W(i + 1)
  <2>1. PICK w \in 0 .. i : \A q \in 0 .. i : SpaceFrom(n, t, q) <= SpaceFrom(n, t, w)
    BY <1>3
  <2>2. CASE SpaceFrom(n, t, i + 1) <= SpaceFrom(n, t, w)
    <3>1. \A q \in 0 .. i + 1 : SpaceFrom(n, t, q) <= SpaceFrom(n, t, w)
      BY <2>1, <2>2
    <3> QED
      BY <3>1
  <2>3. CASE SpaceFrom(n, t, w) <= SpaceFrom(n, t, i + 1)
    <3>1. \A q \in 0 .. i + 1 : SpaceFrom(n, t, q) <= SpaceFrom(n, t, i + 1)
      BY <1>1, <2>1, <2>3
    <3> QED
      BY <3>1
  <2> QED
    BY <1>1, <2>2, <2>3
<1> HIDE DEF W
<1>4. W(1) /\ W(2) /\ W(3) /\ W(4)
  BY <1>2, <1>3
<1>5. W(5) /\ W(6) /\ W(7) /\ W(8)
  BY <1>3, <1>4
<1>6. W(9) /\ W(10) /\ W(11) /\ W(12)
  BY <1>3, <1>5
<1>7. W(13) /\ W(14) /\ W(15)
  BY <1>3, <1>6
<1>8. W(j)
  BY <1>2, <1>4, <1>5, <1>6, <1>7
<1> QED
  BY <1>8 DEF W

(* aligned_space_for is enough wherever the allocator puts the block. *)
THEOREM WorstSpaceSuffices ==
  ASSUME NEW n \in {0, 1, 3}, NEW t, IsType(t), NEW p \in Nat
  PROVE  WorstSpace(n, t) \in Nat /\ SpaceFrom(n, t, p) <= WorstSpace(n, t)
<1> DEFINE m == LargestAlign(n, t)
<1>1. t[1] \in Alignments /\ t[1] \in Nat /\ t[2] \in Nat /\ m \in Nat \ {0}
  BY LayoutAssumption DEF IsType, LargestAlign, Larger, Alignments
<1>2. CASE m <= MaxAlign
  <2> DEFINE S == {SpaceFrom(n, t, q) : q \in 0 .. m - 1}
  <2>1. m - 1 \in 0 .. 15
    BY <1>1, <1>2, LayoutAssumption
  <2>2. PICK w \in 0 .. m - 1 : \A q \in 0 .. m - 1 : SpaceFrom(n, t, q) <= SpaceFrom(n, t, w)
    BY <2>1, WorstExists
  <2>3. \A q \in 0 .. m - 1 : SpaceFrom(n, t, q) \in Nat
    BY SpaceBounds
  <2>4. \E x \in S : \A y \in S : x >= y
    BY <2>2, <2>3
  <2>5. Max(S) \in S /\ \A y \in S : Max(S) >= y
    BY <2>4 DEF Max
  <2>6. WorstSpace(n, t) = Max(S)
    BY <1>2 DEF WorstSpace
  <2>7. PICK k \in Nat, r \in 0 .. m - 1 : p = r + k * m
    <3>1. m \in {1, 2, 4, 8, 16}
      BY <1>1, <1>2, LayoutAssumption DEF LargestAlign, Larger, Alignments
    <3> HIDE DEF m
    <3>2. p = (p % m) + (p \div m) * m /\ p % m \in 0 .. m - 1 /\ p \div m \in Nat
      BY <3>1
    <3> QED
      BY <3>2
  <2>8. SpaceFrom(n, t, p) = SpaceFrom(n, t, r)
    BY <1>2, <2>7, SpaceShift
  <2>9. SpaceFrom(n, t, r) \in S
    OBVIOUS
  <2> HIDE DEF S
  <2> QED
    BY <2>3, <2>5, <2>6, <2>8, <2>9 DEF S
<1>3. CASE ~ (m <= MaxAlign)
  <2>1. AlignUp(Ptr, 1) = Ptr
    BY LayoutAssumption DEF AlignUp
  <2>2. AlignUp(t[1], 1) = t[1]
    BY <1>1 DEF AlignUp, Alignments
  <2>3. WorstSpace(n, t) = n * (Ptr + Ptr - 1) + (t[1] + t[2] - 1)
    BY <1>1, <1>3, <2>1, <2>2, LayoutAssumption DEF WorstSpace, AlignOne
  <2>4. SpaceFrom(n, t, p) \in Nat /\ SpaceFrom(n, t, p) <= n * (Ptr + Ptr - 1) + (t[1] + t[2] - 1)
    BY SpaceBounds
  <2>5. n \in Int /\ Ptr \in Int /\ t[1] \in Int /\ t[2] \in Int
    BY <1>1, LayoutAssumption DEF Alignments
  <2>6. n * (Ptr + Ptr - 1) \in Int
    BY <2>5
  <2>7. n * (Ptr + Ptr - 1) + (t[1] + t[2] - 1) \in Int
    BY <2>5, <2>6
  <2> QED
    BY <2>3, <2>4, <2>7
<1> QED
  BY <1>2, <1>3, <1>1, LayoutAssumption

--------------------------------------------------------------------------------
(* The blocks the allocation functions make *)

Sound(b) ==
  /\ b.data + b.type[2] <= b.base + b.size
  /\ b.pointer >= b.base /\ b.data >= b.base
  /\ b.kind = "value" => b.pointer + Ptr <= b.data
  /\ b.kind = "unique" =>
       /\ b.pointer + Ptr <= b.deleter
       /\ b.deleter + Ptr <= b.tag
       /\ b.tag + Ptr <= b.data
  /\ AlignMemory =>
       /\ b.data % b.type[1] = 0
       /\ b.kind # "user" => b.pointer % Ptr = 0
       /\ b.kind = "unique" => b.deleter % Ptr = 0 /\ b.tag % Ptr = 0

LEMMA PlaceBounds ==
  ASSUME NEW a \in Alignments, NEW p \in Nat
  PROVE  /\ AlignIf(a, p) \in Nat /\ p <= AlignIf(a, p)
         /\ AlignMemory => AlignIf(a, p) % a = 0
  BY AlignBounds DEF AlignIf

(* A block is typed, and its sections lie as they should. *)
LEMMA BlockSound ==
  ASSUME NEW kind \in Kinds, NEW t, IsType(t), NEW base \in Bases
  PROVE  Block(kind, t, base) \in BlockType /\ Sound(Block(kind, t, base))
<1> DEFINE b == Block(kind, t, base)
           n == Pointers(kind)
<1>1. t[1] \in Alignments /\ t[1] \in Nat \ {0} /\ t[2] \in Nat \ {0} /\ base \in Nat /\ Ptr \in Nat \ {0}
  BY LayoutAssumption DEF IsType, Alignments
<1>2. n \in {0, 1, 3}
  BY DEF Pointers, Kinds
<1>3. PlacePointer(base) \in Nat /\ base <= PlacePointer(base) /\ (AlignMemory => PlacePointer(base) % Ptr = 0)
  BY <1>1, PlaceBounds, PtrIsAlignment DEF PlacePointer
<1>4. /\ PlaceDeleter(base) \in Nat /\ PlacePointer(base) + Ptr <= PlaceDeleter(base)
      /\ AlignMemory => PlaceDeleter(base) % Ptr = 0
  BY <1>1, <1>3, PlaceBounds, PtrIsAlignment DEF PlaceDeleter
<1>5. /\ PlaceTag(base) \in Nat /\ PlaceDeleter(base) + Ptr <= PlaceTag(base)
      /\ AlignMemory => PlaceTag(base) % Ptr = 0
  BY <1>1, <1>4, PlaceBounds, PtrIsAlignment DEF PlaceTag
<1> DEFINE start == CASE kind = "value" -> PlacePointer(base) + Ptr
                      [] kind = "unique" -> PlaceTag(base) + Ptr
                      [] OTHER -> base
<1>6. start \in Nat /\ base <= start
  BY <1>1, <1>3, <1>4, <1>5 DEF Kinds
<1>7. PlaceData(kind, t, base) = AlignIf(t[1], start)
  BY DEF PlaceData
<1>8. /\ PlaceData(kind, t, base) \in Nat /\ start <= PlaceData(kind, t, base)
      /\ AlignMemory => PlaceData(kind, t, base) % t[1] = 0
  <2> HIDE DEF start
  <2> QED
    BY <1>1, <1>6, <1>7, PlaceBounds
<1>9. start <= base + n * (Ptr + Ptr - 1) /\ BlockSize(n, t) \in Nat \ {0} /\ PlaceData(kind, t, base) + t[2] <= base + BlockSize(n, t)
  <2>1. CASE AlignMemory
    <3>1. start = PointersEnd(n, base)
      <4>1. CASE kind = "value"
        BY <2>1, <4>1 DEF Pointers, PointersEnd, AlignOne, AlignIf, PlacePointer
      <4>2. CASE kind = "unique"
        BY <2>1, <4>2 DEF Pointers, PointersEnd, AlignOne, AlignIf, PlacePointer, PlaceDeleter, PlaceTag
      <4>3. CASE kind \notin {"value", "unique"}
        BY <4>3 DEF Pointers, PointersEnd
      <4> QED
        BY <4>1, <4>2, <4>3
    <3> HIDE DEF start, n
    <3>2. PlaceData(kind, t, base) + t[2] = base + SpaceFrom(n, t, base)
      <4>1. PlaceData(kind, t, base) = AlignUp(t[1], PointersEnd(n, base))
        BY <1>7, <2>1, <3>1 DEF AlignIf
      <4> QED
        BY <1>1, <1>8, <4>1 DEF SpaceFrom, AlignOne
    <3>3. WorstSpace(n, t) \in Nat /\ SpaceFrom(n, t, base) <= WorstSpace(n, t) /\ n * Ptr + t[2] <= SpaceFrom(n, t, base)
      BY <1>1, <1>2, WorstSpaceSuffices, SpaceBounds
    <3>4. start <= base + n * (Ptr + Ptr - 1)
      BY <1>1, <1>2, <3>1, PointersEndBounds
    <3>5. n * Ptr \in Nat
      BY <1>1, <1>2
    <3>6. SpaceFrom(n, t, base) \in Nat
      BY <1>1, <1>2, SpaceBounds
    <3>7. WorstSpace(n, t) \in Nat \ {0} /\ SpaceFrom(n, t, base) \in Int
      BY <1>1, <3>3, <3>5, <3>6
    <3>8. BlockSize(n, t) = WorstSpace(n, t)
      BY <2>1 DEF BlockSize
    <3> QED
      BY <1>1, <3>2, <3>3, <3>4, <3>7, <3>8
  <2>2. CASE ~ AlignMemory
    <3>1. start = base + n * Ptr
      BY <1>1, <2>2 DEF Pointers, AlignIf, PlacePointer, PlaceDeleter, PlaceTag
    <3>2. PlaceData(kind, t, base) = start
      BY <1>7, <2>2 DEF AlignIf
    <3> HIDE DEF start, n
    <3> QED
      BY <1>1, <1>2, <2>2, <3>1, <3>2, LayoutAssumption DEF BlockSize
  <2> QED
    BY <2>1, <2>2
<1>10. b = [kind |-> kind, type |-> t, base |-> base, size |-> BlockSize(n, t),
            pointer |-> PlacePointer(base), deleter |-> PlaceDeleter(base),
            tag |-> PlaceTag(base), data |-> PlaceData(kind, t, base)]
  BY DEF Block
<1>11. kind = "value" => PlacePointer(base) + Ptr <= PlaceData(kind, t, base)
  BY <1>8
<1>12. kind = "unique" => PlaceTag(base) + Ptr <= PlaceData(kind, t, base)
  BY <1>8
<1>13. base <= PlaceData(kind, t, base)
  <2> HIDE DEF start
  <2> QED BY <1>1, <1>6, <1>8
<1> HIDE DEF b, n
<1>14. b \in BlockType
  BY <1>1, <1>3, <1>4, <1>5, <1>8, <1>9, <1>10 DEF BlockType, IsType
<1>15. Sound(b)
  BY <1>3, <1>4, <1>5, <1>8, <1>9, <1>10, <1>11, <1>12, <1>13 DEF Sound
<1> QED
  BY <1>14, <1>15 DEF b

(* The invariant: the block in use is one of those, so it can be recomputed. *)
Allocated ==
  \E kind \in Kinds, t \in Alignments \X (Nat \ {0}), base \in Bases :
    /\ kind = "pointer" => t = <<Ptr, Ptr>>
    /\ block = Block(kind, t, base)

BlockInv == block = None \/ Allocated

LEMMA Invariance == LayoutSpec => []BlockInv
<1>1. LayoutInit => BlockInv
  BY DEF LayoutInit, BlockInv
<1>2. BlockInv /\ [LayoutNext]_block => BlockInv'
  <2> SUFFICES ASSUME BlockInv, [LayoutNext]_block PROVE BlockInv'
    OBVIOUS
  <2>1. ASSUME NEW base \in Bases, AllocatePointer(base) PROVE BlockInv'
    <3>1. <<Ptr, Ptr>> \in Alignments \X (Nat \ {0}) /\ "pointer" \in Kinds
      BY LayoutAssumption DEF Alignments, Kinds
    <3> QED
      BY <2>1, <3>1 DEF AllocatePointer, Allocate, BlockInv, Allocated
  <2>2. ASSUME NEW kind \in Kinds \ {"pointer"}, NEW t \in Types, NEW base \in Bases, Allocate(kind, t, base)
        PROVE  BlockInv'
    BY <2>2, LayoutAssumption DEF Allocate, BlockInv, Allocated
  <2>3. CASE CollectBlock
    BY <2>3 DEF CollectBlock, BlockInv
  <2>4. CASE UNCHANGED block
    BY <2>4 DEF BlockInv, Allocated
  <2> QED
    BY <2>1, <2>2, <2>3, <2>4 DEF LayoutNext
<1> QED
  BY <1>1, <1>2, PTL DEF LayoutSpec

LEMMA AllocatedSound == Allocated => block \in BlockType /\ Sound(block)
  BY BlockSound DEF Allocated, IsType

(* The state of the userdata block keeps its type. *)
THEOREM TypeCorrect == LayoutSpec => []LayoutTypeOK
<1>1. BlockInv => LayoutTypeOK
  BY AllocatedSound DEF BlockInv, LayoutTypeOK
<1> QED
  BY <1>1, Invariance, PTL

(* Whatever address Lua returns, no section of a userdata leaves its block. *)
THEOREM SectionsStayInBlock == LayoutSpec => []SectionsFit
<1>1. BlockInv => SectionsFit
  BY AllocatedSound DEF BlockInv, SectionsFit, Sound
<1> QED
  BY <1>1, Invariance, PTL

(* The sections of a userdata are disjoint and, with alignment, aligned. *)
THEOREM SectionsLieRight == LayoutSpec => []SectionsInPlace
<1>1. BlockInv => SectionsInPlace
  BY AllocatedSound DEF BlockInv, SectionsInPlace, SectionsDisjoint, SectionsAligned, Sound
<1> QED
  BY <1>1, Invariance, PTL

(* With alignment on, getters and destructors compute the addresses the *)
(* allocation chose.                                                    *)
THEOREM SectionsAreFound == ASSUME AlignMemory PROVE LayoutSpec => []SectionsFound
<1>1. BlockInv => SectionsFound
  <2> SUFFICES ASSUME Allocated PROVE SectionsFound
    BY DEF BlockInv, SectionsFound
  <2>1. PICK kind \in Kinds, t \in Alignments \X (Nat \ {0}), base \in Bases :
          (kind = "pointer" => t = <<Ptr, Ptr>>) /\ block = Block(kind, t, base)
    BY DEF Allocated
  <2>2. /\ block.kind = kind /\ block.type = t /\ block.base = base
        /\ block.pointer = PlacePointer(base) /\ block.deleter = PlaceDeleter(base)
        /\ block.tag = PlaceTag(base) /\ block.data = PlaceData(kind, t, base)
    BY <2>1 DEF Block
  <2>3. FindPointer(base) = PlacePointer(base)
    BY DEF FindPointer, PlacePointer
  <2>4. FindDeleter(base) = PlaceDeleter(base)
    BY <2>3 DEF FindDeleter, PlaceDeleter, AlignIf
  <2>5. FindTag(base) = PlaceTag(base)
    BY <2>4 DEF FindTag, PlaceTag
  <2>6. kind = "unique" => FindUnique(t, base) = PlaceData(kind, t, base)
    BY <2>5 DEF FindUnique, PlaceData
  <2>7. kind = "user" => FindUser(t, base) = PlaceData(kind, t, base)
    BY DEF FindUser, PlaceData
  <2>8. kind = "pointer" => FindPointer(base) = PlaceData(kind, t, base)
    BY <2>1 DEF FindPointer, PlaceData
  <2> QED
    BY <2>2, <2>3, <2>4, <2>5, <2>6, <2>7, <2>8 DEF SectionsFound
<1> QED
  BY <1>1, Invariance, PTL

================================================================================

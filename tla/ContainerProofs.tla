---------------------------- MODULE ContainerProofs ----------------------------
(***************************************************************************)
(* Proofs about Container: for containers of every kind, length and value,  *)
(* with any number of loops over them, in a program without corner cases,   *)
(* reads agree with each other, a loop of pairs() meets each element once,  *)
(* and each operation does what containers.rst promises.                    *)
(***************************************************************************)
EXTENDS Container, FiniteSetTheorems, SequenceTheorems, WellFoundedInduction, TLAPS

Elements == [key : Keys \cup {Default}, value : Keys \cup {Default}]

(* e at position i, what was there and behind it one further. *)
WithAt(s, i, e) == SubSeq(s, 1, i - 1) \o <<e>> \o SubSeq(s, i, Len(s))

(* Position i is left out. *)
WithoutAt(s, i) == SubSeq(s, 1, i - 1) \o SubSeq(s, i + 1, Len(s))

Injective(s) == \A i, j \in 1 .. Len(s) : s[i] = s[j] => i = j

NodesOf(s) == {s[i] : i \in 1 .. Len(s)}

Before(s, x, y) == \E i, j \in 1 .. Len(s) : i < j /\ s[i] = x /\ s[j] = y

(* Ordered containers are: a lookup by rank and one by key agree. *)
Sorted == Lookup => \A i, j \in Places : i < j => GetKey(i) < GetKey(j)

(* An element of a sequence is its own key. *)
Paired == ~ Associative => \A i \in Places : GetKey(i) = GetValue(i)

(* A loop under way: what it has seen are the elements before its iterator,   *)
(* of those it has to show.                                                  *)
LoopSound(l) ==
  l.live =>
    /\ alive /\ l.pins
    /\ l.at \in Content \cup {End, Dangling}
    /\ l.since \subseteq Content
    /\ l.at # Dangling => \A x \in l.since : x \in l.seen <=> (l.at = End \/ Before(order, x, l.at))
    /\ RandomAccess /\ l.at \in Content => l.key + 1 \in Places /\ order[l.key + 1] = l.at

(* The inductive invariant. *)
IInv ==
  /\ TypeOK
  /\ Sorted
  /\ Paired
  /\ \A i \in Loops : LoopSound(loop[i])

--------------------------------------------------------------------------------
(* Sequences and least numbers *)

LEMMA WithAtProperties ==
  ASSUME NEW S, NEW s \in Seq(S), NEW i \in 1 .. Len(s) + 1, NEW e \in S
  PROVE  /\ WithAt(s, i, e) \in Seq(S) /\ Len(WithAt(s, i, e)) = Len(s) + 1
         /\ \A j \in 1 .. Len(s) + 1 :
              WithAt(s, i, e)[j] = IF j < i THEN s[j] ELSE IF j = i THEN e ELSE s[j - 1]
<1> DEFINE a == SubSeq(s, 1, i - 1)
           c == SubSeq(s, i, Len(s))
           ab == a \o <<e>>
<1>1. Len(s) \in Nat /\ i \in Int /\ \A j \in 1 .. Len(s) : s[j] \in S
  BY LenProperties, ElementOfSeq
<1>2. /\ a \in Seq(S) /\ Len(a) = i - 1
      /\ \A j \in 1 .. i - 1 : a[j] = s[j]
  <2>1. \A j \in 1 .. i - 1 : s[j] \in S
    BY <1>1
  <2>2. /\ a \in Seq(S) /\ Len(a) = IF 1 <= i - 1 THEN (i - 1) - 1 + 1 ELSE 0
        /\ \A j \in 1 .. (i - 1) - 1 + 1 : a[j] = s[1 + j - 1]
    BY <1>1, <2>1, SubSeqProperties
  <2> HIDE DEF a
  <2> QED
    BY <1>1, <2>2
<1>3. /\ c \in Seq(S) /\ Len(c) = Len(s) - i + 1
      /\ \A j \in 1 .. Len(s) - i + 1 : c[j] = s[i + j - 1]
  <2>1. \A j \in i .. Len(s) : s[j] \in S
    BY <1>1
  <2>2. /\ c \in Seq(S) /\ Len(c) = IF i <= Len(s) THEN Len(s) - i + 1 ELSE 0
        /\ \A j \in 1 .. Len(s) - i + 1 : c[j] = s[i + j - 1]
    BY <1>1, <2>1, SubSeqProperties
  <2> HIDE DEF c
  <2> QED
    BY <1>1, <2>2
<1> HIDE DEF a, c
<1>4. /\ <<e>> \in Seq(S) /\ Len(<<e>>) = 1 /\ <<e>>[1] = e
  OBVIOUS
<1>5. /\ ab \in Seq(S) /\ Len(ab) = i
      /\ \A j \in 1 .. i : ab[j] = IF j < i THEN s[j] ELSE e
  <2>1. /\ ab \in Seq(S) /\ Len(ab) = Len(a) + Len(<<e>>)
        /\ \A j \in 1 .. Len(a) + Len(<<e>>) : ab[j] = IF j <= Len(a) THEN a[j] ELSE <<e>>[j - Len(a)]
    BY <1>2, <1>4, ConcatProperties
  <2> HIDE DEF ab
  <2> QED
    BY <1>1, <1>2, <1>4, <2>1
<1> HIDE DEF ab
<1>6. /\ ab \o c \in Seq(S) /\ Len(ab \o c) = Len(ab) + Len(c)
      /\ \A j \in 1 .. Len(ab) + Len(c) : (ab \o c)[j] = IF j <= Len(ab) THEN ab[j] ELSE c[j - Len(ab)]
  BY <1>3, <1>5, ConcatProperties
<1>7. WithAt(s, i, e) = ab \o c
  BY DEF WithAt, ab, a, c
<1>8. \A j \in 1 .. Len(s) + 1 :
        WithAt(s, i, e)[j] = IF j < i THEN s[j] ELSE IF j = i THEN e ELSE s[j - 1]
  <2> SUFFICES ASSUME NEW j \in 1 .. Len(s) + 1
               PROVE  (ab \o c)[j] = IF j < i THEN s[j] ELSE IF j = i THEN e ELSE s[j - 1]
    BY <1>7
  <2>1. CASE j <= i
    BY <1>1, <1>3, <1>5, <1>6, <2>1
  <2>2. CASE j > i
    <3>1. (ab \o c)[j] = c[j - i] /\ j - i \in 1 .. Len(s) - i + 1
      BY <1>1, <1>3, <1>5, <1>6, <2>2
    <3>2. c[j - i] = s[i + (j - i) - 1]
      BY <1>3, <3>1
    <3>3. i + (j - i) - 1 = j - 1
      BY <1>1
    <3>4. (ab \o c)[j] = s[j - 1]
      <4> HIDE DEF ab
      <4> QED
        BY <3>1, <3>2, <3>3
    <3>5. ~ (j < i) /\ j # i
      BY <1>1, <2>2
    <3> QED
      BY <3>4, <3>5, Zenon
  <2>3. j <= i \/ j > i
    BY <1>1
  <2> QED
    BY <2>1, <2>2, <2>3, Zenon
<1> QED
  BY <1>1, <1>3, <1>5, <1>6, <1>7, <1>8

LEMMA WithoutAtProperties ==
  ASSUME NEW S, NEW s \in Seq(S), NEW i \in 1 .. Len(s)
  PROVE  /\ WithoutAt(s, i) \in Seq(S) /\ Len(WithoutAt(s, i)) = Len(s) - 1
         /\ \A j \in 1 .. Len(s) - 1 : WithoutAt(s, i)[j] = IF j < i THEN s[j] ELSE s[j + 1]
<1> DEFINE a == SubSeq(s, 1, i - 1)
           c == SubSeq(s, i + 1, Len(s))
<1>1. Len(s) \in Nat /\ i \in Int /\ \A j \in 1 .. Len(s) : s[j] \in S
  BY LenProperties, ElementOfSeq
<1>2. /\ a \in Seq(S) /\ Len(a) = i - 1
      /\ \A j \in 1 .. i - 1 : a[j] = s[j]
  <2>1. \A j \in 1 .. i - 1 : s[j] \in S
    BY <1>1
  <2>2. /\ a \in Seq(S) /\ Len(a) = IF 1 <= i - 1 THEN (i - 1) - 1 + 1 ELSE 0
        /\ \A j \in 1 .. (i - 1) - 1 + 1 : a[j] = s[1 + j - 1]
    BY <1>1, <2>1, SubSeqProperties
  <2> HIDE DEF a
  <2> QED
    BY <1>1, <2>2
<1>3. /\ c \in Seq(S) /\ Len(c) = Len(s) - i
      /\ \A j \in 1 .. Len(s) - i : c[j] = s[i + j]
  <2>1. \A j \in i + 1 .. Len(s) : s[j] \in S
    BY <1>1
  <2>2. /\ c \in Seq(S) /\ Len(c) = IF i + 1 <= Len(s) THEN Len(s) - (i + 1) + 1 ELSE 0
        /\ \A j \in 1 .. Len(s) - (i + 1) + 1 : c[j] = s[(i + 1) + j - 1]
    BY <1>1, <2>1, SubSeqProperties
  <2> HIDE DEF c
  <2>3. Len(s) - (i + 1) + 1 = Len(s) - i
    BY <1>1
  <2>4. \A j \in 1 .. Len(s) - i : (i + 1) + j - 1 = i + j
    BY <1>1
  <2> QED
    <3>1. Len(c) = Len(s) - i
      <4>1. CASE i + 1 <= Len(s)
        BY <2>2, <2>3, <4>1
      <4>2. CASE ~ (i + 1 <= Len(s))
        <5>1. i = Len(s)
          BY <1>1, <4>2
        <5> QED
          BY <1>1, <2>2, <4>2, <5>1
      <4> QED
        BY <4>1, <4>2
    <3>2. ASSUME NEW j \in 1 .. Len(s) - i PROVE c[j] = s[i + j]
      BY <2>2, <2>3, <2>4
    <3> QED
      BY <2>2, <3>1, <3>2
<1> HIDE DEF a, c
<1>4. /\ a \o c \in Seq(S) /\ Len(a \o c) = Len(a) + Len(c)
      /\ \A j \in 1 .. Len(a) + Len(c) : (a \o c)[j] = IF j <= Len(a) THEN a[j] ELSE c[j - Len(a)]
  BY <1>2, <1>3, ConcatProperties
<1>5. WithoutAt(s, i) = a \o c
  BY DEF WithoutAt, a, c
<1>6. \A j \in 1 .. Len(s) - 1 : WithoutAt(s, i)[j] = IF j < i THEN s[j] ELSE s[j + 1]
  <2> SUFFICES ASSUME NEW j \in 1 .. Len(s) - 1
               PROVE  (a \o c)[j] = IF j < i THEN s[j] ELSE s[j + 1]
    BY <1>5
  <2>1. CASE j < i
    BY <1>1, <1>2, <1>3, <1>4, <2>1
  <2>2. CASE ~ j < i
    <3>1. (a \o c)[j] = c[j - (i - 1)] /\ j - (i - 1) \in 1 .. Len(s) - i
      BY <1>1, <1>2, <1>3, <1>4, <2>2
    <3>2. c[j - (i - 1)] = s[i + (j - (i - 1))]
      BY <1>3, <3>1
    <3>3. i + (j - (i - 1)) = j + 1
      BY <1>1
    <3> QED
      BY <2>2, <3>1, <3>2, <3>3
  <2> QED
    BY <2>1, <2>2
<1> QED
  BY <1>1, <1>2, <1>3, <1>4, <1>5, <1>6

LEMMA LeastOf ==
  ASSUME NEW S, S \subseteq Nat, S # {}
  PROVE  \E x \in S : \A y \in S : x <= y
<1> DEFINE R == {ss \in Nat \X Nat : ss[1] < ss[2]}
<1>1. IsWellFoundedOn(R, Nat)
  BY NatLessThanWellFounded DEF OpToRel
<1> HIDE DEF R
<1>2. PICK x \in S : \A y \in S : ~ (<<y, x>> \in R)
  BY <1>1, WFMin
<1>3. ASSUME NEW y \in S PROVE x <= y
  <2>1. ~ (<<y, x>> \in R) /\ x \in Nat /\ y \in Nat
    BY <1>2
  <2> QED
    BY <2>1 DEF R
<1> QED
  BY <1>2, <1>3

LEMMA LeastIs ==
  ASSUME NEW S, S \subseteq Nat, S # {}
  PROVE  Least(S) \in S /\ \A y \in S : Least(S) <= y
<1>1. \E x \in S : \A y \in S : x <= y
  BY LeastOf
<1> QED
  BY <1>1 DEF Least

--------------------------------------------------------------------------------
(* Changes of the container *)

LoopType ==
  [live : BOOLEAN, at : Nodes \cup {End, Dangling}, key : 0 .. MaxLen,
   pins : BOOLEAN, since : SUBSET Nodes, seen : SUBSET Nodes]

LEMMA Typed ==
  ASSUME TypeOK
  PROVE  /\ kind \in AllKinds /\ order \in Seq(Nodes) /\ Size \in Nat /\ Size <= MaxLen /\ Injective(order)
         /\ \A i \in Places : order[i] \in Content /\ order[i] \in Nodes
         /\ Content \subseteq Nodes /\ Content = NodesOf(order)
         /\ data \in [Nodes -> Elements] /\ \A n \in Nodes \ Content : data[n] = Blank
         /\ loop \in [Loops -> LoopType]
         /\ \A i \in Places : GetKey(i) \in Nat /\ GetValue(i) \in Nat
<1>1. kind \in AllKinds /\ order \in Seq(Nodes) /\ Size \in Nat /\ Size <= MaxLen /\ Injective(order)
  BY ContainerAssumption DEF TypeOK, Size, Places, Injective
<1>2. \A i \in Places : order[i] \in Content /\ order[i] \in Nodes
  BY <1>1 DEF Places, Size, Content
<1>3. Content \subseteq Nodes /\ Content = NodesOf(order)
  BY <1>2 DEF Content, NodesOf, Places, Size
<1>4. /\ data \in [Nodes -> Elements] /\ \A n \in Nodes \ Content : data[n] = Blank
      /\ loop \in [Loops -> LoopType]
  BY DEF TypeOK, Elements, LoopType
<1>5. Keys \cup {Default} \subseteq Nat
  BY ContainerAssumption DEF Default
<1>6. \A i \in Places : GetKey(i) \in Nat /\ GetValue(i) \in Nat
  BY <1>2, <1>4, <1>5 DEF GetKey, GetValue, Elements
<1> QED
  BY <1>1, <1>2, <1>3, <1>4, <1>6

(* There is a node left for an element that is added. *)
LEMMA FreshIsNew ==
  ASSUME TypeOK, Size < MaxLen
  PROVE  Fresh \in Nodes \ Content
<1>1. order \in Seq(Nodes) /\ Size \in Nat /\ MaxLen \in Nat
  BY Typed, ContainerAssumption
<1>2. Nodes \ Content # {}
  <2> SUFFICES ASSUME Nodes \subseteq Content
               PROVE  FALSE
    OBVIOUS
  <2> DEFINE f == [n \in Nodes |-> CHOOSE i \in Places : order[i] = n]
  <2>1. \A n \in Nodes : f[n] \in Places /\ order[f[n]] = n
    BY DEF Content
  <2> HIDE DEF f
  <2>2. f \in [Nodes -> Places]
    <3>1. f = [n \in Nodes |-> f[n]]
      BY DEF f
    <3> QED
      BY <2>1, <3>1
  <2>3. /\ IsFiniteSet(Nodes) /\ Cardinality(Nodes) = MaxLen
        /\ IsFiniteSet(Places) /\ Cardinality(Places) = Size
    <3>1. MaxLen # 0 /\ 1 <= MaxLen
      BY <1>1, ContainerAssumption
    <3>2. IsFiniteSet(1 .. MaxLen) /\ Cardinality(1 .. MaxLen) = IF 1 > MaxLen THEN 0 ELSE MaxLen - 1 + 1
      BY <1>1, FS_Interval
    <3>3. IsFiniteSet(1 .. Size) /\ Cardinality(1 .. Size) = IF 1 > Size THEN 0 ELSE Size - 1 + 1
      BY <1>1, FS_Interval
    <3>4. Cardinality(1 .. MaxLen) = MaxLen /\ Cardinality(1 .. Size) = Size
      BY <1>1, <3>1, <3>2, <3>3
    <3> QED
      BY <3>2, <3>3, <3>4 DEF Nodes, Places
  <2>4. PICK x, y \in Nodes : x # y /\ f[x] = f[y]
    BY <2>2, <2>3, FS_PigeonHole
  <2> QED
    BY <2>1, <2>4
<1>3. Nodes \ Content \subseteq Nat
  BY DEF Nodes
<1>4. \E n \in Nodes \ Content : \A m \in Nodes \ Content : n <= m
  BY <1>2, <1>3, LeastOf
<1> QED
  BY <1>4 DEF Fresh

(* What happens to an iterator. *)
LEMMA SurvivesIs ==
  ASSUME NEW l \in LoopType, NEW o
  PROVE  LET nodes == NodesOf(o)
             gone == \/ kind = "vector" /\ Len(o) # Size
                     \/ kind # "vector" /\ l.at \notin nodes \cup {End}
             m == Survives(l, o)
         IN /\ m \in LoopType /\ m.live = l.live
            /\ l.live => /\ m.at = IF gone THEN Dangling ELSE l.at
                         /\ m.since = l.since \cap nodes /\ m.seen = l.seen \cap nodes
                         /\ m.key = l.key /\ m.pins = l.pins
<1> DEFINE nodes == NodesOf(o)
           gone == \/ kind = "vector" /\ Len(o) # Size
                   \/ kind # "vector" /\ l.at \notin nodes \cup {End}
           at == IF gone THEN Dangling ELSE l.at
<1>1. CASE ~ l.live
  BY <1>1 DEF Survives
<1>2. CASE l.live
  <2>1. Survives(l, o) = [l EXCEPT !.at = at, !.since = @ \cap nodes, !.seen = @ \cap nodes]
    BY <1>2 DEF Survives, NodesOf
  <2>2. at \in Nodes \cup {End, Dangling}
    BY DEF LoopType
  <2> HIDE DEF gone, at
  <2>3. /\ Survives(l, o) \in LoopType /\ Survives(l, o).live = l.live
        /\ Survives(l, o).at = at
        /\ Survives(l, o).since = l.since \cap nodes /\ Survives(l, o).seen = l.seen \cap nodes
        /\ Survives(l, o).key = l.key /\ Survives(l, o).pins = l.pins
    BY <2>1, <2>2 DEF LoopType
  <2> QED
    BY <1>2, <2>3 DEF gone, at
<1> QED
  BY <1>1, <1>2

(* A change that keeps the order of what stays keeps the loops right. *)
LEMMA BecomeSound ==
  ASSUME IInv, NEW o \in Seq(Nodes), NEW d \in [Nodes -> Elements], Become(o, d),
         Len(o) <= MaxLen, Injective(o),
         \A n \in Nodes \ NodesOf(o) : d[n] = Blank,
         \A x, y \in Content \cap NodesOf(o) : Before(o, x, y) <=> Before(order, x, y),
         kind = "vector" => o = order \/ Len(o) # Size,
         kind = "array" => o = order,
         Lookup => \A i, j \in 1 .. Len(o) : i < j => d[o[i]].key < d[o[j]].key,
         ~ Associative => \A i \in 1 .. Len(o) : d[o[i]].key = d[o[i]].value
  PROVE  IInv'
<1>1. /\ order' = o /\ data' = d /\ loop' = [i \in Loops |-> Survives(loop[i], o)]
      /\ kind' = kind /\ held' = held /\ alive' = alive
  BY DEF Become
<1>2. TypeOK /\ loop \in [Loops -> LoopType] /\ Content \subseteq Nodes
  BY Typed DEF IInv
<1>3. /\ Size' = Len(o) /\ Places' = 1 .. Len(o) /\ Content' = NodesOf(o) /\ NodesOf(o) \subseteq Nodes
      /\ Size = Len(order) /\ Places = 1 .. Len(order)
  BY <1>1 DEF Size, Places, Content, NodesOf
<1>4. \A i \in Loops : loop'[i] = Survives(loop[i], o) /\ loop'[i] \in LoopType
  BY <1>1, <1>2, SurvivesIs
<1>5. TypeOK'
  <2>1. loop' \in [Loops -> LoopType]
    <3>1. loop' = [i \in Loops |-> loop'[i]]
      BY <1>1
    <3> QED
      BY <1>4, <3>1
  <2>2. kind' \in Kinds /\ held' \in BOOLEAN /\ alive' \in BOOLEAN
    BY <1>1, <1>2 DEF TypeOK
  <2> QED
    BY <1>1, <1>3, <2>1, <2>2 DEF TypeOK, LoopType, Elements, Injective
<1>6. Sorted'
  <2>1. Lookup' = Lookup
    BY <1>1 DEF Lookup
  <2> QED
    BY <1>1, <1>3, <2>1 DEF Sorted, GetKey
<1>7. Paired'
  <2>1. Associative' = Associative
    BY <1>1 DEF Associative
  <2> QED
    BY <1>1, <1>3, <2>1 DEF Paired, GetKey, GetValue
<1>8. ASSUME NEW i \in Loops PROVE LoopSound(loop[i])'
  <2> DEFINE l == loop[i]
             nodes == NodesOf(o)
             gone == \/ kind = "vector" /\ Len(o) # Size
                     \/ kind # "vector" /\ l.at \notin nodes \cup {End}
  <2>1. l \in LoopType /\ LoopSound(l)
    BY <1>2 DEF IInv
  <2>2. PICK m \in LoopType : m = loop'[i]
    BY <1>4
  <2>3. /\ m.live = l.live
        /\ l.live => /\ m.at = IF gone THEN Dangling ELSE l.at
                     /\ m.since = l.since \cap nodes /\ m.seen = l.seen \cap nodes
                     /\ m.key = l.key /\ m.pins = l.pins
    BY <1>4, <2>1, <2>2, SurvivesIs
  <2> HIDE DEF l
  <2>4. ASSUME l.live
        PROVE  /\ alive' /\ m.pins
               /\ m.at \in Content' \cup {End, Dangling}
               /\ m.since \subseteq Content'
               /\ m.at # Dangling => \A x \in m.since : x \in m.seen <=> (m.at = End \/ Before(o, x, m.at))
               /\ RandomAccess' /\ m.at \in Content' => m.key + 1 \in Places' /\ o[m.key + 1] = m.at
    <3>1. /\ alive /\ l.pins
          /\ l.at \in Content \cup {End, Dangling}
          /\ l.since \subseteq Content
      BY <2>1, <2>4 DEF LoopSound
    <3>2. l.at # Dangling => \A x \in l.since : x \in l.seen <=> (l.at = End \/ Before(order, x, l.at))
      BY <2>1, <2>4 DEF LoopSound
    <3>3. RandomAccess /\ l.at \in Content => l.key + 1 \in Places /\ order[l.key + 1] = l.at
      BY <2>1, <2>4 DEF LoopSound
    <3>4. Dangling \notin Nodes /\ End \notin Nodes /\ End # Dangling
      BY ContainerAssumption
    <3>5. m.at # Dangling => m.at = l.at /\ ~ gone /\ l.at \in (Content \cap nodes) \cup {End}
      <4>1. CASE kind = "vector"
        BY <1>3, <2>3, <2>4, <3>1, <4>1 DEF Content, NodesOf
      <4>2. CASE kind # "vector"
        BY <2>3, <2>4, <3>1, <4>2
      <4> QED
        BY <4>1, <4>2
    <3>6. alive' /\ m.pins /\ m.at \in Content' \cup {End, Dangling} /\ m.since \subseteq Content'
      BY <1>1, <1>3, <2>3, <2>4, <3>1, <3>5
    <3>7. ASSUME m.at # Dangling, NEW x \in m.since
          PROVE  x \in m.seen <=> (m.at = End \/ Before(o, x, m.at))
      <4>1. x \in l.since /\ x \in nodes /\ x \in Content
        BY <2>3, <2>4, <3>1, <3>7
      <4>2. x \in m.seen <=> x \in l.seen
        BY <2>3, <2>4, <4>1
      <4>3. x \in l.seen <=> (l.at = End \/ Before(order, x, l.at))
        BY <3>2, <3>5, <3>7, <4>1
      <4>4. l.at # End => (Before(o, x, l.at) <=> Before(order, x, l.at))
        BY <3>5, <3>7, <4>1
      <4> QED
        BY <3>5, <3>7, <4>2, <4>3, <4>4
    <3>8. ASSUME RandomAccess', m.at \in Content'
          PROVE  m.key + 1 \in Places' /\ o[m.key + 1] = m.at
      <4>1. RandomAccess /\ kind \in {"vector", "array"}
        BY <1>1, <3>8 DEF RandomAccess
      <4>2. m.at = l.at /\ ~ gone /\ l.at \in Content
        BY <1>3, <3>4, <3>5, <3>8
      <4>3. o = order
        BY <4>1, <4>2
      <4> QED
        BY <1>3, <2>3, <2>4, <3>3, <4>1, <4>2, <4>3
    <3> QED
      BY <3>6, <3>7, <3>8
  <2> QED
    BY <1>1, <2>2, <2>3, <2>4 DEF LoopSound
<1> QED
  BY <1>5, <1>6, <1>7, <1>8 DEF IInv

(* An element is written: nothing moves. *)
LEMMA PutSound ==
  ASSUME IInv, NEW i \in Places, NEW e \in Elements, PutAt(i, e),
         Lookup => e.key = GetKey(i), ~ Associative => e.key = e.value
  PROVE  IInv' /\ Items' = [Items EXCEPT ![i] = e]
<1> DEFINE d == [data EXCEPT ![order[i]] = e]
<1>1. TypeOK /\ Sorted /\ Paired
  BY DEF IInv
<1>2. /\ order \in Seq(Nodes) /\ Size \in Nat /\ Size <= MaxLen /\ Injective(order)
      /\ \A j \in Places : order[j] \in Content /\ order[j] \in Nodes
      /\ Content = NodesOf(order) /\ data \in [Nodes -> Elements]
      /\ \A n \in Nodes \ Content : data[n] = Blank
  BY <1>1, Typed
<1>3. Become(order, d)
  BY DEF PutAt
<1>4. /\ d \in [Nodes -> Elements] /\ d[order[i]] = e
      /\ \A n \in Nodes : n # order[i] => d[n] = data[n]
  BY <1>2
<1> HIDE DEF d
<1>5. \A j \in Places : d[order[j]] = IF j = i THEN e ELSE data[order[j]]
  BY <1>2, <1>4 DEF Injective, Places, Size
<1>6. \A n \in Nodes \ NodesOf(order) : d[n] = Blank
  BY <1>2, <1>4
<1>7. Lookup => \A j, k \in 1 .. Len(order) : j < k => d[order[j]].key < d[order[k]].key
  BY <1>1, <1>5 DEF Sorted, GetKey, Places, Size
<1>8. ~ Associative => \A j \in 1 .. Len(order) : d[order[j]].key = d[order[j]].value
  BY <1>1, <1>5 DEF Paired, GetKey, GetValue, Places, Size
<1>9. IInv'
  BY <1>2, <1>3, <1>4, <1>6, <1>7, <1>8, BecomeSound DEF Size
<1>10. Items' = [Items EXCEPT ![i] = e]
  <2>1. order' = order /\ data' = d /\ Places' = Places
    BY <1>3 DEF Become, Places, Size
  <2>2. Items' = [j \in Places |-> d[order[j]]]
    BY <2>1 DEF Items
  <2> QED
    BY <1>5, <2>2 DEF Items
<1> QED
  BY <1>9, <1>10

(* An element comes in: a free node, in front of position i. *)
LEMMA InsertSound ==
  ASSUME IInv, NEW i \in 1 .. Size + 1, NEW e \in Elements, InsertBefore(i, e), kind # "array",
         Lookup => /\ \A j \in 1 .. i - 1 : GetKey(j) < e.key
                   /\ \A j \in i .. Size : e.key < GetKey(j),
         ~ Associative => e.key = e.value
  PROVE  IInv' /\ Items \in Seq(Elements) /\ Items' = WithAt(Items, i, e) /\ Len(Items) = Size
<1> DEFINE o == WithAt(order, i, Fresh)
           d == [data EXCEPT ![Fresh] = e]
<1>1. TypeOK /\ Sorted /\ Paired
  BY DEF IInv
<1>2. /\ order \in Seq(Nodes) /\ Size \in Nat /\ Size <= MaxLen /\ Injective(order)
      /\ \A j \in Places : order[j] \in Content /\ order[j] \in Nodes
      /\ Content = NodesOf(order) /\ data \in [Nodes -> Elements]
      /\ \A n \in Nodes \ Content : data[n] = Blank
      /\ Size = Len(order) /\ Places = 1 .. Len(order)
  BY <1>1, Typed DEF Size, Places
<1>3. Size < MaxLen /\ Become(o, d)
  BY DEF InsertBefore, WithAt, Size
<1>4. PICK f \in Nodes \ Content : f = Fresh
  BY <1>1, <1>3, FreshIsNew
<1>5. /\ o \in Seq(Nodes) /\ Len(o) = Size + 1
      /\ \A j \in 1 .. Size + 1 : o[j] = IF j < i THEN order[j] ELSE IF j = i THEN f ELSE order[j - 1]
  <2>1. i \in 1 .. Len(order) + 1 /\ o = WithAt(order, i, f)
    BY <1>2, <1>4
  <2>2. /\ WithAt(order, i, f) \in Seq(Nodes) /\ Len(WithAt(order, i, f)) = Len(order) + 1
        /\ \A j \in 1 .. Len(order) + 1 :
             WithAt(order, i, f)[j] = IF j < i THEN order[j] ELSE IF j = i THEN f ELSE order[j - 1]
    BY <1>2, <2>1, WithAtProperties
  <2> HIDE DEF o
  <2> QED
    BY <1>2, <2>1, <2>2
<1>6. /\ d \in [Nodes -> Elements] /\ d[f] = e
      /\ \A j \in Places : d[order[j]] = data[order[j]]
      /\ \A n \in Nodes : n # f => d[n] = data[n]
  BY <1>2, <1>4
<1> HIDE DEF o, d
<1>7. \A j \in 1 .. Size + 1 :
        /\ j < i => j \in Places /\ o[j] = order[j]
        /\ j > i => j - 1 \in Places /\ o[j] = order[j - 1]
        /\ j = i => o[j] = f
  BY <1>2, <1>5
<1>8. \A j \in Places : order[j] # f
  BY <1>2, <1>4
<1>9. Injective(o)
  <2> SUFFICES ASSUME NEW j \in 1 .. Size + 1, NEW k \in 1 .. Size + 1, j < k
               PROVE  o[j] # o[k]
    <3>1. Len(o) = Size + 1 /\ Size \in Nat
      BY <1>2, <1>5
    <3> HIDE DEF Size
    <3> QED
      BY <3>1 DEF Injective
  <2>1. CASE k < i
    BY <1>2, <1>7, <2>1 DEF Injective
  <2>2. CASE k = i
    BY <1>2, <1>7, <1>8, <2>2
  <2>3. CASE k > i /\ j < i
    <3>1. j \in Places /\ k - 1 \in Places /\ j # k - 1 /\ o[j] = order[j] /\ o[k] = order[k - 1]
      BY <1>2, <1>7, <2>3
    <3> QED
      BY <1>2, <3>1 DEF Injective
  <2>4. CASE k > i /\ j = i
    BY <1>2, <1>7, <1>8, <2>4
  <2>5. CASE k > i /\ j > i
    <3>1. j - 1 \in Places /\ k - 1 \in Places /\ j - 1 # k - 1 /\ o[j] = order[j - 1] /\ o[k] = order[k - 1]
      BY <1>2, <1>7, <2>5
    <3> QED
      BY <1>2, <3>1 DEF Injective
  <2> QED
    BY <1>2, <2>1, <2>2, <2>3, <2>4, <2>5
<1>10. /\ \A j \in Places : j < i => j \in 1 .. Len(o) /\ o[j] = order[j]
       /\ \A j \in Places : j >= i => j + 1 \in 1 .. Len(o) /\ o[j + 1] = order[j]
  <2>1. ASSUME NEW j \in Places, j < i PROVE j \in 1 .. Len(o) /\ o[j] = order[j]
    BY <1>2, <1>5, <1>7, <2>1
  <2>2. ASSUME NEW j \in Places, j >= i PROVE j + 1 \in 1 .. Len(o) /\ o[j + 1] = order[j]
    <3>1. j + 1 \in 1 .. Size + 1 /\ j + 1 > i /\ (j + 1) - 1 = j
      BY <1>2, <2>2
    <3> QED
      BY <1>5, <1>7, <3>1
  <2> QED
    BY <2>1, <2>2
<1>11. ASSUME NEW x \in Content, NEW y \in Content
       PROVE  Before(o, x, y) <=> Before(order, x, y)
  <2>1. ASSUME Before(order, x, y) PROVE Before(o, x, y)
    <3>1. PICK a, b \in Places : a < b /\ order[a] = x /\ order[b] = y
      BY <1>2, <2>1 DEF Before
    <3>2. CASE b < i
      <4>1. a < i
        BY <1>2, <3>1, <3>2
      <4> QED
        BY <1>10, <3>1, <3>2, <4>1 DEF Before
    <3>3. CASE a < i /\ b >= i
      <4>1. a < b + 1
        BY <1>2, <3>1
      <4> QED
        BY <1>10, <3>1, <3>3, <4>1 DEF Before
    <3>4. CASE a >= i
      <4>1. a + 1 < b + 1 /\ b >= i
        BY <1>2, <3>1, <3>4
      <4> QED
        BY <1>10, <3>1, <3>4, <4>1 DEF Before
    <3> QED
      BY <1>2, <3>2, <3>3, <3>4
  <2>2. ASSUME Before(o, x, y) PROVE Before(order, x, y)
    <3>1. PICK a, b \in 1 .. Size + 1 : a < b /\ o[a] = x /\ o[b] = y
      BY <1>5, <2>2 DEF Before
    <3>2. a # i /\ b # i
      BY <1>4, <1>7, <3>1
    <3>3. CASE b < i
      <4>1. a < i
        BY <1>2, <3>1, <3>3
      <4> QED
        BY <1>2, <1>7, <3>1, <3>3, <4>1 DEF Before
    <3>4. CASE a < i /\ b > i
      <4>1. a < b - 1
        BY <1>2, <3>1, <3>4
      <4> QED
        BY <1>2, <1>7, <3>1, <3>4, <4>1 DEF Before
    <3>5. CASE a > i
      <4>1. a - 1 < b - 1 /\ b > i
        BY <1>2, <3>1, <3>5
      <4> QED
        BY <1>2, <1>7, <3>1, <3>5, <4>1 DEF Before
    <3> QED
      BY <1>2, <3>2, <3>3, <3>4, <3>5
  <2> QED
    BY <2>1, <2>2
<1>12. \A n \in Nodes \ NodesOf(o) : d[n] = Blank
  <2> SUFFICES ASSUME NEW n \in Nodes \ NodesOf(o)
               PROVE  d[n] = Blank
    OBVIOUS
  <2>1. n # f
    <3>1. i \in 1 .. Len(o) /\ o[i] = f
      BY <1>2, <1>5, <1>7
    <3> QED
      BY <3>1 DEF NodesOf
  <2>2. n \notin Content
    <3> SUFFICES ASSUME NEW j \in Places, n = order[j]
                 PROVE  FALSE
      BY <1>2 DEF NodesOf
    <3>1. CASE j < i
      BY <1>10, <3>1 DEF NodesOf
    <3>2. CASE j >= i
      BY <1>10, <3>2 DEF NodesOf
    <3> QED
      BY <1>2, <3>1, <3>2
  <2> QED
    BY <1>2, <1>6, <2>1, <2>2
<1>13. \A j \in 1 .. Size + 1 :
         /\ j < i => d[o[j]] = data[order[j]]
         /\ j > i => d[o[j]] = data[order[j - 1]]
         /\ j = i => d[o[j]] = e
  BY <1>6, <1>7
<1>14. Lookup => \A j, k \in 1 .. Len(o) : j < k => d[o[j]].key < d[o[k]].key
  <2> SUFFICES ASSUME Lookup, NEW j \in 1 .. Size + 1, NEW k \in 1 .. Size + 1, j < k
               PROVE  d[o[j]].key < d[o[k]].key
    BY <1>5
  <2>1. /\ \A m \in 1 .. i - 1 : GetKey(m) < e.key
        /\ \A m \in i .. Size : e.key < GetKey(m)
        /\ \A m, n \in Places : m < n => GetKey(m) < GetKey(n)
        /\ \A m \in Places : GetKey(m) \in Nat
    BY <1>1, Typed DEF Sorted
  <2>2. e.key \in Nat
    <3>1. e.key \in Keys \cup {Default}
      BY DEF Elements
    <3>2. Keys \cup {Default} \subseteq Nat
      BY ContainerAssumption DEF Default
    <3> QED
      BY <3>1, <3>2
  <2>3. /\ j < i => j \in Places /\ d[o[j]].key = GetKey(j)
        /\ j > i => j - 1 \in Places /\ d[o[j]].key = GetKey(j - 1)
        /\ j = i => d[o[j]].key = e.key
    BY <1>7, <1>13 DEF GetKey
  <2>4. /\ k < i => k \in Places /\ d[o[k]].key = GetKey(k)
        /\ k > i => k - 1 \in Places /\ d[o[k]].key = GetKey(k - 1)
        /\ k = i => d[o[k]].key = e.key
    BY <1>7, <1>13 DEF GetKey
  <2>5. CASE k < i
    <3>1. j < i
      BY <1>2, <2>5
    <3> QED
      BY <2>1, <2>3, <2>4, <2>5, <3>1
  <2>6. CASE k = i
    <3>1. j < i /\ j \in 1 .. i - 1
      BY <1>2, <2>6
    <3> QED
      BY <2>1, <2>3, <2>4, <2>6, <3>1
  <2>7. CASE k > i /\ j < i
    <3>1. j < k - 1
      BY <1>2, <2>7
    <3> QED
      BY <2>1, <2>3, <2>4, <2>7, <3>1
  <2>8. CASE k > i /\ j = i
    <3>1. k - 1 \in i .. Size
      BY <1>2, <2>8
    <3> QED
      BY <2>1, <2>3, <2>4, <2>8, <3>1
  <2>9. CASE k > i /\ j > i
    <3>1. j - 1 < k - 1
      BY <1>2, <2>9
    <3> QED
      BY <2>1, <2>3, <2>4, <2>9, <3>1
  <2> QED
    BY <1>2, <2>5, <2>6, <2>7, <2>8, <2>9
<1>15. ~ Associative => \A j \in 1 .. Len(o) : d[o[j]].key = d[o[j]].value
  <2> SUFFICES ASSUME ~ Associative, NEW j \in 1 .. Size + 1
               PROVE  d[o[j]].key = d[o[j]].value
    BY <1>5
  <2>1. \A m \in Places : data[order[m]].key = data[order[m]].value
    BY <1>1 DEF Paired, GetKey, GetValue
  <2>2. j < i \/ j = i \/ j > i
    BY <1>2
  <2> QED
    BY <1>7, <1>13, <2>1, <2>2
<1>16. IInv'
  <2>1. Len(o) <= MaxLen /\ Len(o) # Size
    BY <1>2, <1>3, <1>5, ContainerAssumption
  <2> QED
    BY <1>3, <1>5, <1>6, <1>9, <1>11, <1>12, <1>14, <1>15, <2>1, BecomeSound
<1>17. Items \in Seq(Elements) /\ Len(Items) = Size
  BY <1>2 DEF Items
<1>18. Items' = WithAt(Items, i, e)
  <2>1. order' = o /\ data' = d /\ Places' = 1 .. Size + 1
    BY <1>3, <1>5 DEF Become, Places, Size
  <2>2. Items' = [j \in 1 .. Size + 1 |-> d[o[j]]]
    BY <2>1 DEF Items
  <2>3. Items' \in Seq(Elements) /\ Len(Items') = Size + 1
    <3>1. \A j \in 1 .. Size + 1 : d[o[j]] \in Elements
      BY <1>2, <1>4, <1>6, <1>7
    <3> QED
      BY <1>2, <2>2, <3>1
  <2>4. /\ WithAt(Items, i, e) \in Seq(Elements) /\ Len(WithAt(Items, i, e)) = Size + 1
        /\ \A j \in 1 .. Size + 1 :
             WithAt(Items, i, e)[j] = IF j < i THEN Items[j] ELSE IF j = i THEN e ELSE Items[j - 1]
    <3>1. i \in 1 .. Len(Items) + 1
      BY <1>17
    <3>2. PICK s \in Seq(Elements) : s = Items
      BY <1>17
    <3>3. i \in 1 .. Len(s) + 1
      BY <3>1, <3>2
    <3>4. /\ WithAt(s, i, e) \in Seq(Elements) /\ Len(WithAt(s, i, e)) = Len(s) + 1
          /\ \A j \in 1 .. Len(s) + 1 :
               WithAt(s, i, e)[j] = IF j < i THEN s[j] ELSE IF j = i THEN e ELSE s[j - 1]
      BY <3>3, WithAtProperties
    <3>5. Len(s) = Size
      BY <1>17, <3>2
    <3> QED
      BY <3>2, <3>4, <3>5
  <2>5. ASSUME NEW j \in 1 .. Size + 1 PROVE Items'[j] = WithAt(Items, i, e)[j]
    <3>1. \A m \in Places : Items[m] = data[order[m]]
      BY DEF Items
    <3>2. Items'[j] = d[o[j]]
      BY <2>2
    <3>3. CASE j < i
      BY <1>7, <1>13, <2>4, <3>1, <3>2, <3>3
    <3>4. CASE j = i
      BY <1>2, <1>13, <2>4, <3>2, <3>4
    <3>5. CASE j > i
      <4>1. ~ (j < i) /\ j # i
        BY <1>2, <3>5
      <4> QED
        BY <1>7, <1>13, <2>4, <3>1, <3>2, <3>5, <4>1
    <3> QED
      BY <1>2, <3>3, <3>4, <3>5
  <2> QED
    BY <2>3, <2>4, <2>5, SeqEqual
<1> QED
  BY <1>16, <1>17, <1>18

(* An element goes; its node is free again. *)
LEMMA RemoveSound ==
  ASSUME IInv, NEW i \in Places, RemoveAt(i), kind # "array"
  PROVE  IInv' /\ Items' = WithoutAt(Items, i) /\ Len(Items) = Size
<1> DEFINE o == WithoutAt(order, i)
           d == [data EXCEPT ![order[i]] = Blank]
<1>1. TypeOK /\ Sorted /\ Paired
  BY DEF IInv
<1>2. /\ order \in Seq(Nodes) /\ Size \in Nat /\ Size <= MaxLen /\ Injective(order)
      /\ \A j \in Places : order[j] \in Content /\ order[j] \in Nodes
      /\ Content = NodesOf(order) /\ data \in [Nodes -> Elements]
      /\ \A n \in Nodes \ Content : data[n] = Blank
      /\ Size = Len(order) /\ Places = 1 .. Len(order) /\ i \in 1 .. Len(order)
  BY <1>1, Typed DEF Size, Places
<1>3. Become(o, d)
  BY DEF RemoveAt, WithoutAt, Size
<1>4. /\ o \in Seq(Nodes) /\ Len(o) = Size - 1
      /\ \A j \in 1 .. Size - 1 : o[j] = IF j < i THEN order[j] ELSE order[j + 1]
  <2>1. /\ WithoutAt(order, i) \in Seq(Nodes) /\ Len(WithoutAt(order, i)) = Len(order) - 1
        /\ \A j \in 1 .. Len(order) - 1 : WithoutAt(order, i)[j] = IF j < i THEN order[j] ELSE order[j + 1]
    BY <1>2, WithoutAtProperties
  <2> QED
    BY <1>2, <2>1
<1>5. Blank \in Elements /\ Blank.key = Blank.value
  BY DEF Blank, Elements
<1>6. /\ d \in [Nodes -> Elements] /\ d[order[i]] = Blank
      /\ \A n \in Nodes : n # order[i] => d[n] = data[n]
  BY <1>2, <1>5
<1> HIDE DEF o, d
<1>7. \A j \in 1 .. Size - 1 :
        /\ j < i => j \in Places /\ o[j] = order[j]
        /\ j >= i => j + 1 \in Places /\ o[j] = order[j + 1]
  BY <1>2, <1>4
<1>8. /\ \A j \in Places : j < i => j \in 1 .. Len(o) /\ o[j] = order[j]
      /\ \A j \in Places : j > i => j - 1 \in 1 .. Len(o) /\ o[j - 1] = order[j]
  <2>1. ASSUME NEW j \in Places, j < i PROVE j \in 1 .. Len(o) /\ o[j] = order[j]
    BY <1>2, <1>4, <1>7, <2>1
  <2>2. ASSUME NEW j \in Places, j > i PROVE j - 1 \in 1 .. Len(o) /\ o[j - 1] = order[j]
    <3>1. j - 1 \in 1 .. Size - 1 /\ j - 1 >= i /\ (j - 1) + 1 = j
      BY <1>2, <2>2
    <3> QED
      BY <1>4, <1>7, <3>1
  <2> QED
    BY <2>1, <2>2
<1>9. Injective(o)
  <2> SUFFICES ASSUME NEW j \in 1 .. Size - 1, NEW k \in 1 .. Size - 1, j < k
               PROVE  o[j] # o[k]
    <3>1. Len(o) = Size - 1 /\ Size \in Nat
      BY <1>2, <1>4
    <3> HIDE DEF Size
    <3> QED
      BY <3>1 DEF Injective
  <2>1. CASE k < i
    BY <1>2, <1>7, <2>1 DEF Injective
  <2>2. CASE k >= i /\ j < i
    <3>1. j \in Places /\ k + 1 \in Places /\ j # k + 1 /\ o[j] = order[j] /\ o[k] = order[k + 1]
      BY <1>2, <1>7, <2>2
    <3> QED
      BY <1>2, <3>1 DEF Injective
  <2>3. CASE j >= i
    <3>1. j + 1 \in Places /\ k + 1 \in Places /\ j + 1 # k + 1 /\ o[j] = order[j + 1] /\ o[k] = order[k + 1]
      BY <1>2, <1>7, <2>3
    <3> QED
      BY <1>2, <3>1 DEF Injective
  <2> QED
    BY <1>2, <2>1, <2>2, <2>3
<1>10. ASSUME NEW j \in 1 .. Size - 1 PROVE o[j] # order[i] /\ d[o[j]] = data[o[j]] /\ o[j] \in Nodes
  <2>1. CASE j < i
    BY <1>2, <1>6, <1>7, <2>1 DEF Injective
  <2>2. CASE j >= i
    <3>1. j + 1 \in Places /\ j + 1 # i /\ o[j] = order[j + 1]
      BY <1>2, <1>7, <2>2
    <3> QED
      BY <1>2, <1>6, <3>1 DEF Injective
  <2> QED
    BY <1>2, <2>1, <2>2
<1>11. ASSUME NEW x \in Content \cap NodesOf(o), NEW y \in Content \cap NodesOf(o)
       PROVE  Before(o, x, y) <=> Before(order, x, y)
  <2>0. x # order[i] /\ y # order[i]
    BY <1>4, <1>10 DEF NodesOf
  <2>1. ASSUME Before(order, x, y) PROVE Before(o, x, y)
    <3>1. PICK a, b \in Places : a < b /\ order[a] = x /\ order[b] = y
      BY <1>2, <2>1 DEF Before
    <3>2. a # i /\ b # i
      BY <2>0, <3>1
    <3>3. CASE b < i
      <4>1. a < i
        BY <1>2, <3>1, <3>3
      <4> QED
        BY <1>8, <3>1, <3>3, <4>1 DEF Before
    <3>4. CASE a < i /\ b > i
      <4>1. a < b - 1
        BY <1>2, <3>1, <3>4
      <4> QED
        BY <1>8, <3>1, <3>4, <4>1 DEF Before
    <3>5. CASE a > i
      <4>1. a - 1 < b - 1 /\ b > i
        BY <1>2, <3>1, <3>5
      <4> QED
        BY <1>8, <3>1, <3>5, <4>1 DEF Before
    <3> QED
      BY <1>2, <3>2, <3>3, <3>4, <3>5
  <2>2. ASSUME Before(o, x, y) PROVE Before(order, x, y)
    <3>1. PICK a, b \in 1 .. Size - 1 : a < b /\ o[a] = x /\ o[b] = y
      BY <1>4, <2>2 DEF Before
    <3>2. CASE b < i
      <4>1. a < i
        BY <1>2, <3>1, <3>2
      <4> QED
        BY <1>2, <1>7, <3>1, <3>2, <4>1 DEF Before
    <3>3. CASE a < i /\ b >= i
      <4>1. a < b + 1
        BY <1>2, <3>1
      <4> QED
        BY <1>2, <1>7, <3>1, <3>3, <4>1 DEF Before
    <3>4. CASE a >= i
      <4>1. a + 1 < b + 1 /\ b >= i
        BY <1>2, <3>1, <3>4
      <4> QED
        BY <1>2, <1>7, <3>1, <3>4, <4>1 DEF Before
    <3> QED
      BY <1>2, <3>2, <3>3, <3>4
  <2> QED
    BY <2>1, <2>2
<1>12. \A n \in Nodes \ NodesOf(o) : d[n] = Blank
  <2> SUFFICES ASSUME NEW n \in Nodes \ NodesOf(o), n # order[i]
               PROVE  n \notin Content
    BY <1>2, <1>6
  <2> SUFFICES ASSUME NEW j \in Places, n = order[j]
               PROVE  FALSE
    BY <1>2 DEF NodesOf
  <2>1. CASE j < i
    BY <1>8, <2>1 DEF NodesOf
  <2>2. CASE j > i
    BY <1>8, <2>2 DEF NodesOf
  <2> QED
    BY <1>2, <2>1, <2>2
<1>13. \A j \in 1 .. Size - 1 :
         /\ j < i => d[o[j]] = data[order[j]]
         /\ j >= i => d[o[j]] = data[order[j + 1]]
  BY <1>7, <1>10
<1>14. Lookup => \A j, k \in 1 .. Len(o) : j < k => d[o[j]].key < d[o[k]].key
  <2> SUFFICES ASSUME Lookup, NEW j \in 1 .. Size - 1, NEW k \in 1 .. Size - 1, j < k
               PROVE  d[o[j]].key < d[o[k]].key
    BY <1>4
  <2>1. \A m, n \in Places : m < n => GetKey(m) < GetKey(n)
    BY <1>1 DEF Sorted
  <2>2. /\ j < i => j \in Places /\ d[o[j]].key = GetKey(j)
        /\ j >= i => j + 1 \in Places /\ d[o[j]].key = GetKey(j + 1)
    BY <1>7, <1>13 DEF GetKey
  <2>3. /\ k < i => k \in Places /\ d[o[k]].key = GetKey(k)
        /\ k >= i => k + 1 \in Places /\ d[o[k]].key = GetKey(k + 1)
    BY <1>7, <1>13 DEF GetKey
  <2>4. CASE k < i
    <3>1. j < i
      BY <1>2, <2>4
    <3> QED
      BY <2>1, <2>2, <2>3, <2>4, <3>1
  <2>5. CASE k >= i /\ j < i
    <3>1. j < k + 1
      BY <1>2
    <3> QED
      BY <2>1, <2>2, <2>3, <2>5, <3>1
  <2>6. CASE j >= i
    <3>1. k >= i /\ j + 1 < k + 1
      BY <1>2, <2>6
    <3> QED
      BY <2>1, <2>2, <2>3, <2>6, <3>1
  <2> QED
    BY <1>2, <2>4, <2>5, <2>6
<1>15. ~ Associative => \A j \in 1 .. Len(o) : d[o[j]].key = d[o[j]].value
  <2> SUFFICES ASSUME ~ Associative, NEW j \in 1 .. Size - 1
               PROVE  d[o[j]].key = d[o[j]].value
    BY <1>4
  <2>1. \A m \in Places : data[order[m]].key = data[order[m]].value
    BY <1>1 DEF Paired, GetKey, GetValue
  <2>2. j < i \/ j >= i
    BY <1>2
  <2> QED
    BY <1>7, <1>13, <2>1, <2>2
<1>16. IInv'
  <2>1. Len(o) <= MaxLen /\ Len(o) # Size
    BY <1>2, <1>4, ContainerAssumption
  <2> QED
    BY <1>3, <1>4, <1>6, <1>9, <1>11, <1>12, <1>14, <1>15, <2>1, BecomeSound
<1>17. Items \in Seq(Elements) /\ Len(Items) = Size
  BY <1>2 DEF Items
<1>18. Items' = WithoutAt(Items, i)
  <2>1. order' = o /\ data' = d /\ Places' = 1 .. Size - 1
    BY <1>3, <1>4 DEF Become, Places, Size
  <2>2. Items' = [j \in 1 .. Size - 1 |-> d[o[j]]]
    BY <2>1 DEF Items
  <2>3. Items' \in Seq(Elements) /\ Len(Items') = Size - 1
    <3>1. \A j \in 1 .. Size - 1 : d[o[j]] \in Elements
      BY <1>6, <1>10
    <3>2. Size - 1 \in Nat
      BY <1>2
    <3> QED
      BY <2>2, <3>1, <3>2
  <2>4. /\ WithoutAt(Items, i) \in Seq(Elements) /\ Len(WithoutAt(Items, i)) = Size - 1
        /\ \A j \in 1 .. Size - 1 : WithoutAt(Items, i)[j] = IF j < i THEN Items[j] ELSE Items[j + 1]
    <3>1. PICK s \in Seq(Elements) : s = Items
      BY <1>17
    <3>2. i \in 1 .. Len(s)
      BY <1>2, <1>17, <3>1
    <3>3. /\ WithoutAt(s, i) \in Seq(Elements) /\ Len(WithoutAt(s, i)) = Len(s) - 1
          /\ \A j \in 1 .. Len(s) - 1 : WithoutAt(s, i)[j] = IF j < i THEN s[j] ELSE s[j + 1]
      BY <3>2, WithoutAtProperties
    <3>4. Len(s) = Size
      BY <1>17, <3>1
    <3> QED
      BY <3>1, <3>3, <3>4
  <2>5. ASSUME NEW j \in 1 .. Size - 1 PROVE Items'[j] = WithoutAt(Items, i)[j]
    <3>1. \A m \in Places : Items[m] = data[order[m]]
      BY DEF Items
    <3>2. Items'[j] = d[o[j]]
      BY <2>2
    <3>3. CASE j < i
      BY <1>7, <1>13, <2>4, <3>1, <3>2, <3>3
    <3>4. CASE j >= i
      <4>1. ~ (j < i)
        BY <1>2, <3>4
      <4> QED
        BY <1>7, <1>13, <2>4, <3>1, <3>2, <3>4, <4>1
    <3> QED
      BY <1>2, <3>3, <3>4
  <2> QED
    BY <2>3, <2>4, <2>5, SeqEqual
<1> QED
  BY <1>16, <1>17, <1>18

LEMMA ClearSound ==
  ASSUME IInv, Become(<<>>, [n \in Nodes |-> Blank]), kind # "array"
  PROVE  IInv' /\ Items' = <<>>
<1> DEFINE d == [n \in Nodes |-> Blank]
<1>1. order \in Seq(Nodes) /\ Size = Len(order)
  BY Typed DEF IInv, Size
<1>2. d \in [Nodes -> Elements] /\ \A n \in Nodes : d[n] = Blank
  BY DEF Blank, Elements
<1> HIDE DEF d
<1>3. PICK o \in Seq(Nodes) : o = <<>>
  BY EmptySeq
<1>4. Len(o) = 0 /\ NodesOf(o) = {} /\ Injective(o) /\ Become(o, d)
  BY <1>3 DEF NodesOf, Injective, d
<1>5. o = order \/ Len(o) # Size
  BY <1>1, <1>3
<1>6. IInv'
  <2>1. Len(o) <= MaxLen
    BY <1>4, ContainerAssumption
  <2>2. \A i, j \in 1 .. Len(o) : FALSE
    BY <1>4
  <2> QED
    BY <1>2, <1>4, <1>5, <2>1, <2>2, BecomeSound
<1>7. Items' = <<>>
  <2>1. Places' = {}
    BY <1>3, <1>4 DEF Become, Places, Size
  <2> QED
    BY <2>1 DEF Items
<1> QED
  BY <1>6, <1>7

(* The place that an ordered container gives a new key. *)
LEMMA UniquePlace ==
  ASSUME IInv, Lookup, NEW k \in Nat, Found(k) = {}
  PROVE  LET i == 1 + Cardinality({j \in Places : GetKey(j) < k}) IN
         /\ i \in 1 .. Size + 1
         /\ \A j \in 1 .. i - 1 : GetKey(j) < k
         /\ \A j \in i .. Size : k < GetKey(j)
<1> DEFINE less == {j \in Places : GetKey(j) < k}
           more == {j \in Places : ~ (GetKey(j) < k)}
<1>1. /\ Size \in Nat /\ Places = 1 .. Size
      /\ \A j \in Places : GetKey(j) \in Nat /\ GetKey(j) # k
      /\ \A i, j \in Places : i < j => GetKey(i) < GetKey(j)
  BY Typed DEF IInv, Sorted, Found, Places
<1>2. PICK m \in 1 .. Size + 1 : less = 1 .. m - 1 /\ \A j \in m .. Size : k < GetKey(j)
  <2>1. CASE more = {}
    <3>1. PICK m \in 1 .. Size + 1 : m = Size + 1
      BY <1>1
    <3>2. less = 1 .. m - 1 /\ \A j \in m .. Size : FALSE
      BY <1>1, <2>1, <3>1
    <3> HIDE DEF less
    <3> QED
      BY <3>2
  <2>2. CASE more # {}
    <3>1. more \subseteq Nat
      BY <1>1
    <3>2. PICK x \in more : \A y \in more : x <= y
      BY <2>2, <3>1, LeastOf
    <3>3. \A j \in Places : j < x => GetKey(j) < k
      BY <1>1, <3>2
    <3>4. GetKey(x) \in Nat /\ k < GetKey(x) /\ x \in 1 .. Size
      BY <1>1, <3>2
    <3>5. \A j \in x .. Size : k < GetKey(j)
      <4> SUFFICES ASSUME NEW j \in x .. Size
                   PROVE  k < GetKey(j)
        OBVIOUS
      <4>1. j \in Places /\ (j = x \/ x < j)
        BY <1>1, <3>4
      <4>2. GetKey(j) \in Nat /\ (x < j => GetKey(x) < GetKey(j))
        BY <1>1, <3>4, <4>1
      <4> QED
        BY <3>4, <4>1, <4>2
    <3>6. less = 1 .. x - 1
      <4>1. \A j \in less : j < x
        <5> SUFFICES ASSUME NEW j \in less, x <= j
                     PROVE  FALSE
          BY <1>1, <3>4
        <5>1. j \in x .. Size /\ GetKey(j) < k /\ GetKey(j) \in Nat
          BY <1>1, <3>4
        <5>2. k < GetKey(j)
          BY <3>5, <5>1
        <5> QED
          BY <5>1, <5>2
      <4> QED
        BY <1>1, <3>3, <3>4, <4>1
    <3>7. x \in 1 .. Size + 1
      BY <1>1, <3>4
    <3> HIDE DEF less
    <3> QED
      BY <3>5, <3>6, <3>7
  <2> HIDE DEF less, more
  <2> QED
    BY <2>1, <2>2
<1> HIDE DEF less, more
<1>3. Cardinality(less) = m - 1
  <2>1. Cardinality(1 .. m - 1) = IF 1 > m - 1 THEN 0 ELSE (m - 1) - 1 + 1
    BY <1>1, FS_Interval
  <2> QED
    BY <1>1, <1>2, <2>1
<1>4. 1 + Cardinality(less) = m
  BY <1>1, <1>3
<1>5. \A j \in 1 .. m - 1 : GetKey(j) < k
  BY <1>2 DEF less
<1> QED
  BY <1>2, <1>4, <1>5 DEF less

--------------------------------------------------------------------------------
(* The operations, and what the contract says of them *)

LEMMA ItemsAre ==
  ASSUME IInv
  PROVE  /\ Items \in Seq(Elements) /\ Len(Items) = Size /\ Size \in Nat /\ Places = 1 .. Size
         /\ \A i \in Places : Items[i] \in Elements /\ Items[i].key = GetKey(i)
         /\ \A k : Found(k) \subseteq Places /\ Found(k) \subseteq Nat
         /\ \A k : \A i \in Found(k) : GetKey(i) = k
<1>1. /\ order \in Seq(Nodes) /\ Size \in Nat /\ Places = 1 .. Size
      /\ data \in [Nodes -> Elements] /\ \A i \in Places : order[i] \in Nodes
  BY Typed DEF IInv, Places
<1>2. Items \in Seq(Elements) /\ Len(Items) = Size
  BY <1>1 DEF Items
<1> QED
  BY <1>1, <1>2 DEF Items, GetKey, Found

LEMMA ContractWords ==
  ASSUME IInv
  PROVE  /\ Contract!Indices = Places
         /\ \A i, e : Contract!Spliced(i, e) <=> Items' = WithAt(Items, i, e)
         /\ \A i : Contract!Dropped(i) <=> Items' = WithoutAt(Items, i)
         /\ \A i, e : Contract!Overwritten(i, e) <=> Items' = [Items EXCEPT ![i] = e]
         /\ \A k : Contract!Holds(k) <=> Found(k) # {}
         /\ Contract!Keyed <=> Lookup
         /\ Lookup <=> kind \in {"set", "map"}
         /\ kind \in AllKinds
         /\ \A v : Contract!Element(v) = Element(v)
         /\ \A k, v : Contract!Entry(k, v) = Entry(k, v)
<1>1. kind \in AllKinds
  BY Typed DEF IInv
<1>2. Contract!Indices = Places
  BY ItemsAre DEF Contract!Indices
<1>3. /\ \A i, e : Contract!Spliced(i, e) <=> Items' = WithAt(Items, i, e)
      /\ \A i : Contract!Dropped(i) <=> Items' = WithoutAt(Items, i)
      /\ \A i, e : Contract!Overwritten(i, e) <=> Items' = [Items EXCEPT ![i] = e]
  BY DEF Contract!Spliced, Contract!Dropped, Contract!Overwritten, WithAt, WithoutAt
<1>4. \A k : Contract!Holds(k) <=> Found(k) # {}
  BY <1>2, ItemsAre DEF Contract!Holds, Found
<1>5. /\ Contract!Keyed <=> Lookup
      /\ Lookup <=> kind \in {"set", "map"}
  BY <1>1 DEF Contract!Keyed, Lookup, AllKinds
<1>6. /\ \A v : Contract!Element(v) = Element(v)
      /\ \A k, v : Contract!Entry(k, v) = Entry(k, v)
  BY DEF Contract!Element, Element, Contract!Entry, Entry, Associative
<1> QED
  BY <1>1, <1>2, <1>3, <1>4, <1>5, <1>6

LEMMA ElementsTyped ==
  /\ \A v \in Keys \cup {Default} : Element(v) \in Elements
  /\ \A v : Element(v).key = v /\ Element(v).value = v
  /\ \A k, v \in Keys : Entry(k, v) \in Elements
  /\ \A k, v : Entry(k, v).key = k /\ (~ Associative => Entry(k, v).value = k)
BY DEF Element, Entry, Elements

(* What an ordered container with unique keys inserts lands where the order   *)
(* wants it.                                                                 *)
LEMMA UniqueInserted ==
  ASSUME IInv, Lookup, NEW e \in Elements, ~ Associative => e.key = e.value, InsertUnique(e)
  PROVE  IInv' /\ Contract!Merged(e)
<1> DEFINE i == 1 + Cardinality({j \in Places : GetKey(j) < e.key})
<1>1. Found(e.key) = {} /\ InsertBefore(i, e)
  BY DEF InsertUnique
<1>2. e.key \in Nat
  <2>1. e.key \in Keys \cup {Default}
    BY DEF Elements
  <2>2. Keys \cup {Default} \subseteq Nat
    BY ContainerAssumption DEF Default
  <2> QED
    BY <2>1, <2>2
<1>3. /\ i \in 1 .. Size + 1
      /\ \A j \in 1 .. i - 1 : GetKey(j) < e.key
      /\ \A j \in i .. Size : e.key < GetKey(j)
  BY <1>1, <1>2, UniquePlace
<1> HIDE DEF i
<1>4. kind # "array"
  BY DEF Lookup
<1>5. IInv' /\ Items' = WithAt(Items, i, e)
  BY <1>1, <1>3, <1>4, InsertSound
<1>6. /\ Items' \in Seq(Elements) /\ Len(Items') = Size' /\ Places' = 1 .. Size'
      /\ \A j \in Places' : Items'[j].key = GetKey(j)'
  <2>1. order' \in Seq(Nodes) /\ Places' = 1 .. Size' /\ Size' \in Nat /\ data' \in [Nodes -> Elements]
        /\ \A j \in Places' : order'[j] \in Nodes
    <3>1. order' \in Seq(Nodes) /\ data' \in [Nodes -> Elements]
      BY <1>5 DEF IInv, TypeOK, Elements
    <3> QED
      BY <3>1 DEF Places, Size
  <2>2. Items' = [j \in Places' |-> data'[order'[j]]]
    BY DEF Items
  <2> QED
    BY <2>1, <2>2 DEF GetKey
<1>7. Size' = Size + 1
  <2>1. Size' = Len(order')
    BY DEF Size
  <2>2. Len(WithAt(Items, i, e)) = Size + 1
    <3>1. PICK s \in Seq(Elements) : s = Items
      BY ItemsAre
    <3>2. Len(s) = Size /\ i \in 1 .. Len(s) + 1
      BY <1>3, <3>1, ItemsAre
    <3>3. Len(WithAt(s, i, e)) = Len(s) + 1
      BY <3>2, WithAtProperties
    <3> QED
      BY <3>1, <3>2, <3>3
  <2> QED
    BY <1>5, <1>6, <2>2
<1>8. \A j \in Places : Items'[j].key < Items'[j + 1].key
  <2>1. \A j, k \in Places' : j < k => GetKey(j)' < GetKey(k)'
    BY <1>1, <1>5 DEF IInv, Sorted, Lookup, InsertBefore, Become
  <2>2. ASSUME NEW j \in Places PROVE j \in Places' /\ j + 1 \in Places' /\ j < j + 1
    BY <1>6, <1>7, ItemsAre
  <2>3. ASSUME NEW j \in Places PROVE Items'[j].key < Items'[j + 1].key
    <3>1. PICK k \in Places' : k = j + 1
      BY <2>2
    <3>2. GetKey(j)' < GetKey(k)'
      BY <2>1, <2>2, <3>1
    <3>3. Items'[j].key = GetKey(j)' /\ Items'[k].key = GetKey(k)'
      BY <1>6, <2>2
    <3> QED
      BY <3>1, <3>2, <3>3
  <2> QED
    BY <2>3
<1>9. Contract!Merged(e)
  <2>1. ~ Contract!Holds(e.key) /\ Contract!Spliced(i, e) /\ Contract!Indices = Places
        /\ i \in 1 .. Len(Items) + 1
    BY <1>1, <1>3, <1>5, ContractWords, ItemsAre
  <2> QED
    BY <1>8, <2>1 DEF Contract!Merged
<1> QED
  BY <1>5, <1>9

LEMMA KeyErased ==
  ASSUME IInv, Lookup, NEW k, EraseKey(k)
  PROVE  IInv' /\ \E i \in Places : Items[i].key = k /\ Items' = WithoutAt(Items, i)
<1>1. PICK i \in Found(k) : RemoveAt(i)
  BY DEF EraseKey
<1>2. i \in Places /\ Items[i].key = k
  BY ItemsAre
<1>3. kind # "array"
  BY DEF Lookup
<1> QED
  BY <1>1, <1>2, <1>3, RemoveSound

(* A sequence erases at the index, which lies inside. *)
LEMMA PositionErased ==
  ASSUME Corners = {}, IInv, Linear, kind # "array", NEW k \in Nat, Erase(k)
  PROVE  \E i \in Places : i = Position(k) + 1 /\ RemoveAt(i)
<1>1. InBounds(Position(k), Size - 1) /\ RemoveAt(ReachedAfter(Position(k)) + 1)
  BY DEF Erase, Linear
<1>2. Position(k) \in Int /\ Size \in Nat /\ Places = 1 .. Size
  BY ContainerAssumption, ItemsAre DEF Position, IndexAdjustment
<1>3. Position(k) \in 0 .. Size - 1
  BY <1>1 DEF InBounds
<1>4. ReachedAfter(Position(k)) = Position(k)
  BY <1>2, <1>3 DEF ReachedAfter
<1>5. Position(k) + 1 \in Places
  BY <1>2, <1>3
<1> QED
  BY <1>1, <1>4, <1>5

LEMMA TargetsTyped ==
  /\ Targets \subseteq Nat /\ Addends \subseteq Keys /\ Values \subseteq Keys /\ Keys \subseteq Nat
  /\ Nil \notin Keys /\ Default \notin Keys
<1>1. Values \subseteq Keys /\ Keys \subseteq Nat /\ Default \notin Keys /\ Nil \notin Nat
  BY ContainerAssumption DEF Default
<1>2. MaxLen \in Nat
  BY ContainerAssumption
<1>3. Targets \subseteq Nat
  <2>1. CASE Lookup
    BY <1>1, <2>1 DEF Targets
  <2>2. CASE ~ Lookup
    BY <1>2, <2>2 DEF Targets
  <2> QED
    BY <2>1, <2>2
<1>4. Addends \subseteq Keys
  BY <1>1 DEF Addends
<1>5. Nil \notin Keys
  BY <1>1
<1> QED
  BY <1>1, <1>3, <1>4, <1>5

(* Indices count from 1. *)
LEMMA FromOne ==
  ASSUME StartIndex = 1, NEW k \in Nat
  PROVE  Position(k) + 1 = k /\ Position(k) = k - 1
BY DEF Position, IndexAdjustment

LEMMA NothingChanged ==
  ASSUME IInv, UNCHANGED vars
  PROVE  IInv'
BY DEF vars, IInv, TypeOK, Sorted, Paired, LoopSound, Lookup, Associative, Content, Places, Size,
  GetKey, GetValue, RandomAccess

LEMMA EraseSound ==
  ASSUME Corners = {}, IInv, NEW k \in Targets, Erase(k)
  PROVE  IInv' /\ (StartIndex = 1 => UNCHANGED vars \/ Contract!Erase(k))
<1>1. CASE UNCHANGED vars
  BY <1>1, NothingChanged
<1>2. CASE Lookup /\ EraseKey(k)
  <2>1. IInv' /\ \E i \in Places : Items[i].key = k /\ Items' = WithoutAt(Items, i)
    BY <1>2, KeyErased
  <2>2. Contract!Erase(k)
    BY <1>2, <2>1, ContractWords DEF Contract!Erase
  <2> QED
    BY <2>1, <2>2
<1>3. CASE Linear /\ kind # "array"
  <2>1. PICK i \in Places : i = Position(k) + 1 /\ RemoveAt(i)
    BY <1>3, TargetsTyped, PositionErased
  <2>2. IInv' /\ Items' = WithoutAt(Items, i)
    BY <1>3, <2>1, RemoveSound
  <2>3. ASSUME StartIndex = 1 PROVE Contract!Erase(k)
    <3>1. i = k
      BY <2>1, <2>3, TargetsTyped, FromOne
    <3>2. kind \in {"vector", "list", "forward_list"}
      BY <1>3, ContractWords DEF Linear, AllKinds
    <3> QED
      BY <2>2, <3>1, <3>2, ContractWords DEF Contract!Erase
  <2> QED
    BY <2>2, <2>3
<1> QED
  BY <1>1, <1>2, <1>3 DEF Erase, Refuse, Linear

(* An ordered container erases, overwrites or inserts under a key. *)
LEMMA SetByKeySound ==
  ASSUME Corners = {}, IInv, Lookup, NEW k \in Keys, NEW v \in Values \cup {Nil}, SetByKey(k, v),
         Called
  PROVE  IInv' /\ (UNCHANGED vars \/ Contract!Set(k, v))
<1>1. CASE UNCHANGED vars
  BY <1>1, NothingChanged
<1>2. CASE v = Nil /\ Erase(k) /\ Found(k) # {}
  <2>1. EraseKey(k)
    BY <1>2 DEF Erase, Lookup
  <2>2. IInv' /\ \E i \in Places : Items[i].key = k /\ Items' = WithoutAt(Items, i)
    BY <2>1, KeyErased
  <2>3. Contract!Set(k, v)
    BY <1>2, <2>2, ContractWords DEF Contract!Set
  <2> QED
    BY <2>2, <2>3
<1>3. CASE v # Nil /\ Found(k) = {} /\ InsertUnique(Entry(k, v))
  <2>1. v \in Keys
    BY <1>3, TargetsTyped
  <2>2. Entry(k, v) \in Elements /\ Entry(k, v).key = k /\ (~ Associative => Entry(k, v).value = k)
    BY <2>1, ElementsTyped
  <2>3. IInv' /\ Contract!Merged(Entry(k, v))
    BY <1>3, <2>2, UniqueInserted
  <2>4. Contract!Set(k, v)
    BY <1>3, <2>3, ContractWords DEF Contract!Set
  <2> QED
    BY <2>3, <2>4
<1>4. CASE v # Nil /\ Found(k) # {} /\ Associative /\ PutAt(Least(Found(k)), Entry(k, v))
  <2>1. PICK i \in Found(k) : i = Least(Found(k))
    BY <1>4, ItemsAre, LeastIs
  <2>2. i \in Places /\ GetKey(i) = k /\ Items[i].key = k
    BY ItemsAre
  <2>3. Entry(k, v) \in Elements /\ Entry(k, v).key = k
    BY <1>4, TargetsTyped, ElementsTyped
  <2>4. IInv' /\ Items' = [Items EXCEPT ![i] = Entry(k, v)]
    BY <1>4, <2>1, <2>2, <2>3, PutSound
  <2>5. Contract!Set(k, v)
    BY <1>4, <2>2, <2>4, ContractWords DEF Contract!Set
  <2> QED
    BY <2>4, <2>5
<1>5. v = Nil => UNCHANGED vars \/ (Erase(k) /\ Found(k) # {})
  BY DEF SetByKey, Erase, Refuse
<1> QED
  BY <1>1, <1>2, <1>3, <1>4, <1>5 DEF SetByKey, Refuse

(* A sequence is written inside, and grows by one at its end. *)
LEMMA SetAtSound ==
  ASSUME Corners = {}, IInv, Linear, NEW p \in Int, NEW x \in Keys \cup {Default}, SetAt(p, Element(x)),
         RandomAccess \/ p >= 0 \/ Size = 0
  PROVE  /\ IInv'
         /\ \/ UNCHANGED vars
            \/ p + 1 \in Places /\ Items' = [Items EXCEPT ![p + 1] = Element(x)]
            \/ p = Size /\ kind # "array" /\ Items' = WithAt(Items, Size + 1, Element(x))
<1>1. CASE UNCHANGED vars
  BY <1>1, NothingChanged
<1>2. /\ Element(x) \in Elements /\ Element(x).key = Element(x).value
      /\ Size \in Nat /\ Places = 1 .. Size /\ ~ Lookup
  BY ElementsTyped, ItemsAre DEF Linear
<1>3. Reached(p) = p
  BY DEF Reached
<1>4. CASE Reached(p) \in 0 .. Size - 1 /\ PutAt(Reached(p) + 1, Element(x))
  <2>1. p + 1 \in Places /\ PutAt(p + 1, Element(x))
    BY <1>2, <1>3, <1>4
  <2> QED
    BY <1>2, <2>1, PutSound
<1>5. CASE Reached(p) = Size /\ kind # "array" /\ InsertBefore(Size + 1, Element(x))
  <2>1. p = Size /\ Size + 1 \in 1 .. Size + 1
    BY <1>2, <1>3, <1>5
  <2> QED
    BY <1>2, <1>5, <2>1, InsertSound
<1> QED
  BY <1>1, <1>4, <1>5 DEF SetAt, Refuse

LEMMA SetSound ==
  ASSUME Corners = {}, IInv, NEW k \in Targets, NEW v \in Values \cup {Nil}, Set(k, v)
  PROVE  IInv' /\ (StartIndex = 1 => UNCHANGED vars \/ Contract!Set(k, v))
<1>1. CASE Lookup
  <2>1. k \in Keys /\ SetByKey(k, v) /\ Called
    BY <1>1 DEF Targets, Set, Linear
  <2> QED
    BY <1>1, <2>1, SetByKeySound
<1>2. CASE Linear
  <2>1. /\ v = Nil => MayWriteNil(k)
        /\ RandomAccess \/ Position(k) >= 0 \/ Size = 0
        /\ IF v = Nil /\ k = SizePushed /\ kind # "array" THEN Erase(k)
           ELSE SetAt(Position(k), Element(IF v = Nil THEN Default ELSE v))
    BY <1>2 DEF Set, SetLinear
  <2>2. /\ k \in Nat /\ Position(k) \in Int /\ Size \in Nat /\ Places = 1 .. Size /\ Len(Items) = Size
        /\ kind \in AllKinds /\ ~ Lookup
    BY <1>2, TargetsTyped, ItemsAre, ContractWords, ContainerAssumption DEF Position, IndexAdjustment, Linear
  <2>3. CASE v = Nil /\ k = SizePushed /\ kind # "array"
    <3>1. PICK i \in Places : i = Position(k) + 1 /\ RemoveAt(i)
      BY <1>2, <2>1, <2>2, <2>3, PositionErased
    <3>2. IInv' /\ Items' = WithoutAt(Items, i)
      BY <2>3, <3>1, RemoveSound
    <3>3. Size = 1 /\ k = 1
      BY <2>1, <2>3 DEF MayWriteNil, SizePushed
    <3>4. StartIndex = 1 => i = k
      BY <2>2, <3>1, FromOne
    <3>5. kind \in {"vector", "list", "forward_list"}
      BY <2>2, <2>3, ContractWords DEF AllKinds
    <3>6. StartIndex = 1 => Contract!Set(k, v)
      BY <2>2, <2>3, <3>2, <3>3, <3>4, <3>5, ContractWords DEF Contract!Set
    <3> QED
      BY <3>2, <3>6
  <2>4. CASE v = Nil /\ kind = "array"
    <3>1. SetAt(Position(k), Element(Default))
      BY <2>1, <2>4
    <3>2. /\ IInv'
          /\ \/ UNCHANGED vars
             \/ Position(k) + 1 \in Places /\ Items' = [Items EXCEPT ![Position(k) + 1] = Element(Default)]
      BY <1>2, <2>1, <2>2, <2>4, <3>1, SetAtSound
    <3>3. ASSUME Items' = [Items EXCEPT ![Position(k) + 1] = Element(Default)], Position(k) + 1 \in Places
          PROVE  Contract!Set(k, v)
      <4>1. Element(Default) \in Elements
        BY ElementsTyped
      <4>2. Len(Items') = Len(Items)
        <5>1. PICK s \in Seq(Elements) : s = Items
          BY ItemsAre
        <5>2. PICK n \in 1 .. Len(s) : n = Position(k) + 1
          BY <2>2, <3>3, <5>1
        <5>3. Len([s EXCEPT ![n] = Element(Default)]) = Len(s)
          BY <4>1, <5>2, ExceptSeq
        <5> QED
          BY <3>3, <5>1, <5>2, <5>3
      <4>3. ~ Contract!Keyed
        BY <2>2, ContractWords
      <4> QED
        BY <2>4, <4>2, <4>3 DEF Contract!Set
    <3> QED
      BY <3>2, <3>3
  <2>5. CASE v # Nil
    <3>1. SetAt(Position(k), Element(v)) /\ v \in Keys
      BY <2>1, <2>5, TargetsTyped
    <3>2. /\ IInv'
          /\ \/ UNCHANGED vars
             \/ Position(k) + 1 \in Places /\ Items' = [Items EXCEPT ![Position(k) + 1] = Element(v)]
             \/ Position(k) = Size /\ kind # "array" /\ Items' = WithAt(Items, Size + 1, Element(v))
      BY <1>2, <2>1, <2>2, <3>1, SetAtSound
    <3>3. ASSUME StartIndex = 1, Position(k) + 1 \in Places, Items' = [Items EXCEPT ![Position(k) + 1] = Element(v)]
          PROVE  Contract!Set(k, v)
      <4>1. Position(k) + 1 = k
        BY <2>2, <3>3, FromOne
      <4>2. ~ Contract!Keyed /\ k \in Contract!Indices /\ Contract!Overwritten(k, Contract!Element(v))
        BY <2>2, <3>3, <4>1, ContractWords
      <4> QED
        BY <2>5, <4>2 DEF Contract!Set
    <3>4. ASSUME StartIndex = 1, Position(k) = Size, kind # "array", Items' = WithAt(Items, Size + 1, Element(v))
          PROVE  Contract!Set(k, v)
      <4>1. k = Len(Items) + 1
        BY <2>2, <3>4, FromOne
      <4>2. kind \in {"vector", "list", "forward_list"}
        BY <2>2, <3>4, ContractWords DEF AllKinds
      <4>3. Contract!Spliced(k, Contract!Element(v))
        BY <2>2, <3>4, <4>1, ContractWords
      <4> QED
        BY <2>5, <4>1, <4>2, <4>3 DEF Contract!Set
    <3> QED
      BY <3>2, <3>3, <3>4
  <2>6. v = Nil => kind = "array" \/ (k = SizePushed /\ kind # "array")
    BY <2>1 DEF MayWriteNil
  <2> QED
    BY <2>3, <2>4, <2>5, <2>6
<1> QED
  BY <1>1, <1>2 DEF Linear

LEMMA AddSound ==
  ASSUME Corners = {}, IInv, NEW k \in Addends, NEW v \in Values, Add(k, v)
  PROVE  IInv' /\ (UNCHANGED vars \/ Contract!Add(k, v))
<1>1. CASE UNCHANGED vars
  BY <1>1, NothingChanged
<1>2. k \in Keys /\ v \in Keys
  BY TargetsTyped
<1>3. CASE Linear /\ kind # "array" /\ InsertBefore(Size + 1, Element(k))
  <2>1. Element(k) \in Elements /\ Element(k).key = Element(k).value /\ ~ Lookup
    BY <1>2, <1>3, ElementsTyped DEF Linear
  <2>2. Size \in Nat /\ Size + 1 \in 1 .. Size + 1 /\ Len(Items) = Size
    BY ItemsAre
  <2>3. IInv' /\ Items' = WithAt(Items, Size + 1, Element(k))
    BY <1>3, <2>1, <2>2, InsertSound
  <2>4. kind \in {"vector", "list", "forward_list"}
    BY <1>3, <2>1, ContractWords DEF AllKinds
  <2>5. Contract!Spliced(Len(Items) + 1, Contract!Element(k))
    BY <2>2, <2>3, ContractWords
  <2> QED
    BY <2>3, <2>4, <2>5 DEF Contract!Add
<1>4. CASE Lookup /\ InsertUnique(Entry(k, v))
  <2>1. Entry(k, v) \in Elements /\ (~ Associative => Entry(k, v).key = Entry(k, v).value)
    BY <1>2, ElementsTyped
  <2>2. IInv' /\ Contract!Merged(Entry(k, v))
    BY <1>4, <2>1, UniqueInserted
  <2> QED
    BY <1>4, <2>2, ContractWords DEF Contract!Add
<1> QED
  BY <1>1, <1>3, <1>4 DEF Add, Refuse, Linear

LEMMA InsertActionSound ==
  ASSUME Corners = {}, IInv, NEW k \in Targets, NEW v \in Values, Insert(k, v)
  PROVE  IInv' /\ (StartIndex = 1 => UNCHANGED vars \/ Contract!Insert(k, v))
<1>1. CASE UNCHANGED vars
  BY <1>1, NothingChanged
<1>2. v \in Keys /\ k \in Nat
  BY TargetsTyped
<1>3. Element(v) \in Elements /\ Element(v).key = Element(v).value
  BY <1>2, ElementsTyped
<1>4. CASE Lookup /\ InsertUnique(Element(v))
  <2>1. IInv' /\ Contract!Merged(Element(v))
    BY <1>3, <1>4, UniqueInserted
  <2>2. Associative => k = v
    BY DEF Insert
  <2>3. Associative => Contract!Entry(k, v) = Element(v)
    BY <2>2, ContractWords DEF Entry, Element
  <2>4. (kind = "map") <=> Associative
    BY DEF Associative
  <2> QED
    BY <1>4, <2>1, <2>3, <2>4, ContractWords DEF Contract!Insert
<1>5. CASE Linear /\ kind # "array" /\ InBounds(Position(k), Size)
           /\ InsertBefore(ReachedAfter(Position(k)) + 1, Element(v))
  <2>1. Position(k) \in Int /\ Size \in Nat /\ Len(Items) = Size /\ ~ Lookup
    BY <1>5, ContainerAssumption, TargetsTyped, ItemsAre DEF Position, IndexAdjustment, Linear
  <2>2. Position(k) \in 0 .. Size
    BY <1>5 DEF InBounds
  <2>3. ReachedAfter(Position(k)) = Position(k)
    BY <2>1, <2>2 DEF ReachedAfter
  <2>4. PICK i \in 1 .. Size + 1 : i = Position(k) + 1
    BY <2>1, <2>2
  <2>5. IInv' /\ Items' = WithAt(Items, i, Element(v))
    BY <1>3, <1>5, <2>1, <2>3, <2>4, InsertSound
  <2>6. ASSUME StartIndex = 1 PROVE Contract!Insert(k, v)
    <3>1. k = i /\ k \in 1 .. Len(Items) + 1
      BY <1>2, <2>1, <2>4, <2>6, FromOne
    <3>2. kind \in {"vector", "list", "forward_list"}
      BY <1>5, <2>1, ContractWords DEF AllKinds
    <3>3. Contract!Spliced(k, Contract!Element(v))
      BY <2>5, <3>1, ContractWords
    <3> QED
      BY <3>1, <3>2, <3>3 DEF Contract!Insert
  <2> QED
    BY <2>5, <2>6
<1> QED
  BY <1>1, <1>4, <1>5 DEF Insert, Refuse, Linear

LEMMA ClearActionSound ==
  ASSUME IInv, Clear
  PROVE  IInv' /\ (UNCHANGED vars \/ Contract!Clear)
<1>1. CASE UNCHANGED vars
  BY <1>1, NothingChanged
<1>2. CASE kind # "array" /\ Become(<<>>, [n \in Nodes |-> Blank])
  <2>1. IInv' /\ Items' = <<>>
    BY <1>2, ClearSound
  <2> QED
    BY <1>2, <2>1 DEF Contract!Clear
<1> QED
  BY <1>1, <1>2 DEF Clear, Refuse

--------------------------------------------------------------------------------
(* Loops *)

(* A step of a loop leaves the container and the other loops alone. *)
LEMMA LoopStep ==
  ASSUME IInv, UNCHANGED <<kind, order, data, held, alive>>, NEW i \in Loops, NEW l \in LoopType,
         loop' = [loop EXCEPT ![i] = l], LoopSound(l)
  PROVE  IInv'
<1>1. loop \in [Loops -> LoopType] /\ TypeOK /\ Sorted /\ Paired
  BY Typed DEF IInv
<1>2. loop' \in [Loops -> LoopType]
  BY <1>1
<1>3. TypeOK'
  BY <1>1, <1>2 DEF TypeOK, LoopType, Size, Places, Content
<1>4. Sorted' /\ Paired'
  BY <1>1 DEF Sorted, Paired, Lookup, Associative, GetKey, GetValue, Places, Size
<1>5. ASSUME NEW j \in Loops PROVE LoopSound(loop[j])'
  <2>1. PICK m \in LoopType : m = loop'[j] /\ (m = l \/ m = loop[j])
    BY <1>1
  <2>2. LoopSound(m)
    BY <2>1 DEF IInv
  <2>3. LoopSound(m)'
    BY <2>2 DEF LoopSound, Content, Places, Size, RandomAccess
  <2> QED
    BY <2>1, <2>3 DEF LoopSound
<1> QED
  BY <1>3, <1>4, <1>5 DEF IInv

LEMMA PairsSound ==
  ASSUME Corners = {}, IInv, NEW i \in Loops, NEW onMain \in BOOLEAN, Pairs(i, onMain)
  PROVE  IInv'
<1> DEFINE at == IF Size = 0 THEN End ELSE order[1]
           pins == kind # "array" \/ onMain
           l == [Idle EXCEPT !.live = TRUE, !.at = at, !.pins = pins, !.since = Content]
<1>1. /\ Called /\ (kind = "array" => onMain)
      /\ loop' = [loop EXCEPT ![i] = l]
      /\ UNCHANGED <<kind, order, data, held, alive>>
  BY DEF Pairs
<1>2. /\ Size \in Nat /\ Places = 1 .. Size /\ Content \subseteq Nodes /\ Injective(order)
      /\ \A j \in Places : order[j] \in Content
      /\ Size = Len(order) /\ Content = NodesOf(order)
  BY Typed DEF IInv, Places, Size
<1>3. pins
  BY <1>1
<1>4. at \in Content \cup {End} /\ (at = End <=> Size = 0) /\ (Size # 0 => 1 \in Places /\ at = order[1])
  <2>1. End \notin Nodes
    BY ContainerAssumption
  <2>2. CASE Size = 0
    BY <2>2
  <2>3. CASE Size # 0
    <3>1. 1 \in Places
      BY <1>2, <2>3
    <3> QED
      BY <1>2, <2>1, <2>3, <3>1
  <2> QED
    BY <2>2, <2>3
<1> HIDE DEF at, pins
<1>5. /\ l \in LoopType /\ l.live /\ l.at = at /\ l.pins = pins /\ l.since = Content /\ l.key = 0 /\ l.seen = {}
  <2>1. pins \in BOOLEAN /\ 0 \in 0 .. MaxLen
    BY ContainerAssumption DEF pins
  <2> QED
    BY <1>2, <1>4, <2>1 DEF Idle, LoopType
<1> HIDE DEF l
<1>6. LoopSound(l)
  <2>1. alive /\ l.pins /\ l.at \in Content \cup {End, Dangling} /\ l.since \subseteq Content
    BY <1>1, <1>3, <1>4, <1>5 DEF Called
  <2>2. ASSUME NEW x \in l.since PROVE x \in l.seen <=> (l.at = End \/ Before(order, x, l.at))
    <3>1. PICK n \in Places : x = order[n]
      BY <1>5 DEF Content
    <3>2. Size # 0 /\ l.at # End /\ l.at = order[1] /\ 1 \in Places
      BY <1>2, <1>4, <1>5, <3>1
    <3>3. ASSUME NEW a \in Places, NEW b \in Places, a < b, order[b] = order[1] PROVE FALSE
      BY <1>2, <3>2, <3>3 DEF Injective
    <3> QED
      BY <1>2, <1>5, <3>2, <3>3 DEF Before
  <2>3. RandomAccess /\ l.at \in Content => l.key + 1 \in Places /\ order[l.key + 1] = l.at
    <3>1. End \notin Content
      BY <1>2, ContainerAssumption
    <3> QED
      BY <1>4, <1>5, <3>1
  <2> QED
    BY <2>1, <2>2, <2>3 DEF LoopSound
<1> QED
  BY <1>1, <1>5, <1>6, LoopStep

LEMMA NextPairSound ==
  ASSUME IInv, NEW i \in Loops, NextPair(i)
  PROVE  IInv'
<1> DEFINE l == loop[i]
           m == [l EXCEPT !.key = @ + 1, !.at = After(l.at), !.seen = @ \cup {l.at}]
<1>1. l.live /\ l.at \in Content /\ l.key < MaxLen /\ UNCHANGED <<kind, order, data, held, alive>>
  BY DEF NextPair
<1>2. /\ Size \in Nat /\ Places = 1 .. Size /\ Content \subseteq Nodes /\ Injective(order)
      /\ \A j \in Places : order[j] \in Content
      /\ Size = Len(order) /\ Content = NodesOf(order)
      /\ l \in LoopType /\ LoopSound(l) /\ loop \in [Loops -> LoopType]
  BY Typed DEF IInv, Places, Size
<1>3. PICK n \in Places : order[n] = l.at
  BY <1>1 DEF Content
<1>4. /\ n = Size => After(l.at) = End
      /\ n # Size => n + 1 \in Places /\ After(l.at) = order[n + 1]
  <2>1. \A j \in Places : order[j] = l.at <=> j = n
    BY <1>2, <1>3 DEF Injective
  <2> DEFINE c == CHOOSE j \in Places : order[j] = l.at
  <2>2. c = n
    BY <1>3, <2>1
  <2>3. After(l.at) = IF c = Size THEN End ELSE order[c + 1]
    BY DEF After
  <2> HIDE DEF c
  <2> QED
    BY <1>2, <2>2, <2>3
<1>5. loop' = [loop EXCEPT ![i] = m]
  <2>1. loop' = [loop EXCEPT ![i].key = @ + 1, ![i].at = After(loop[i].at), ![i].seen = @ \cup {loop[i].at}]
    BY DEF NextPair
  <2> QED
    BY <1>2, <2>1 DEF LoopType
<1>6. After(l.at) \in Content \cup {End}
  BY <1>2, <1>4
<1> HIDE DEF l
<1>7. /\ m \in LoopType /\ m.live /\ m.pins = l.pins /\ m.since = l.since
      /\ m.at = After(l.at) /\ m.key = l.key + 1 /\ m.seen = l.seen \cup {l.at}
  <2>1. l.key + 1 \in 0 .. MaxLen /\ l.seen \cup {l.at} \in SUBSET Nodes
    BY <1>1, <1>2, ContainerAssumption DEF LoopType
  <2>2. After(l.at) \in Nodes \cup {End, Dangling}
    BY <1>2, <1>6
  <2> QED
    BY <1>1, <1>2, <2>1, <2>2 DEF LoopType
<1> HIDE DEF m
<1>8. LoopSound(m)
  <2>1. alive /\ l.pins /\ l.since \subseteq Content
    BY <1>1, <1>2 DEF LoopSound
  <2>2. l.at # Dangling /\ l.at # End
    BY <1>1, <1>2, ContainerAssumption
  <2>3. \A x \in l.since : x \in l.seen <=> Before(order, x, l.at)
    BY <1>1, <1>2, <2>2 DEF LoopSound
  <2>4. RandomAccess => l.key + 1 = n
    BY <1>1, <1>2, <1>3 DEF LoopSound, Injective
  <2>5. ASSUME NEW x \in m.since PROVE x \in m.seen <=> (m.at = End \/ Before(order, x, m.at))
    <3>1. PICK j \in Places : x = order[j]
      BY <1>7, <2>1 DEF Content
    <3>2. \A k \in Places : Before(order, x, order[k]) <=> j < k
      BY <1>2, <3>1 DEF Before, Injective
    <3>3. x \in m.seen <=> (j < n \/ j = n)
      <4>1. x \in l.seen <=> j < n
        BY <1>3, <1>7, <2>3, <3>2
      <4>2. x = l.at <=> j = n
        BY <1>2, <1>3, <3>1 DEF Injective
      <4> QED
        BY <1>7, <4>1, <4>2
    <3>4. CASE n = Size
      <4>1. j < n \/ j = n
        BY <1>2, <3>4
      <4> QED
        BY <1>4, <1>7, <3>3, <3>4, <4>1
    <3>5. CASE n # Size
      <4>1. m.at = order[n + 1] /\ n + 1 \in Places
        BY <1>4, <1>7, <3>5
      <4>2. m.at # End
        BY <1>2, <4>1, ContainerAssumption
      <4>3. Before(order, x, m.at) <=> j < n + 1
        BY <3>2, <4>1
      <4>4. j < n + 1 <=> (j < n \/ j = n)
        BY <1>2
      <4> QED
        BY <3>3, <4>2, <4>3, <4>4
    <3> QED
      BY <3>4, <3>5
  <2>6. ASSUME RandomAccess, m.at \in Content PROVE m.key + 1 \in Places /\ order[m.key + 1] = m.at
    <3>1. n # Size
      BY <1>2, <1>4, <1>7, <2>6, ContainerAssumption
    <3>2. m.key = n
      BY <1>7, <2>4, <2>6
    <3> QED
      BY <1>4, <1>7, <3>1, <3>2
  <2> QED
    BY <1>6, <1>7, <2>1, <2>5, <2>6 DEF LoopSound
<1> QED
  BY <1>1, <1>5, <1>7, <1>8, LoopStep

LEMMA LeaveSound ==
  ASSUME IInv, NEW i \in Loops, Leave(i)
  PROVE  IInv'
<1>1. loop' = [loop EXCEPT ![i] = Idle] /\ UNCHANGED <<kind, order, data, held, alive>>
  BY DEF Leave
<1>2. Idle \in LoopType /\ LoopSound(Idle)
  <2>1. 0 \in 0 .. MaxLen
    BY ContainerAssumption
  <2> QED
    BY <2>1 DEF Idle, LoopType, LoopSound
<1> QED
  BY <1>1, <1>2, LoopStep

LEMMA DropSound ==
  ASSUME IInv, Drop
  PROVE  IInv'
<1>1. UNCHANGED <<kind, order, data, loop, alive>> /\ held' = FALSE
  BY DEF Drop
<1>2. loop \in [Loops -> LoopType] /\ TypeOK /\ Sorted /\ Paired
  BY Typed DEF IInv
<1>3. TypeOK'
  BY <1>1, <1>2 DEF TypeOK, LoopType, Size, Places, Content
<1>4. Sorted' /\ Paired'
  BY <1>1, <1>2 DEF Sorted, Paired, Lookup, Associative, GetKey, GetValue, Places, Size
<1>5. ASSUME NEW j \in Loops PROVE LoopSound(loop[j])'
  <2>1. PICK m \in LoopType : m = loop[j]
    BY <1>2
  <2>2. LoopSound(m)
    BY <2>1 DEF IInv
  <2>3. LoopSound(m)'
    BY <1>1, <2>2 DEF LoopSound, Content, Places, Size, RandomAccess
  <2> QED
    BY <1>1, <2>1, <2>3
<1> QED
  BY <1>3, <1>4, <1>5 DEF IInv

(* A loop under way holds the container, so that there is none when it is     *)
(* collected.                                                                *)
LEMMA CollectSound ==
  ASSUME IInv, Collect
  PROVE  IInv'
<1>1. /\ \A i \in Loops : ~ loop[i].pins
      /\ alive' = FALSE /\ order' = <<>> /\ data' = [n \in Nodes |-> Blank]
      /\ loop' = [i \in Loops |-> IF loop[i].live THEN [Idle EXCEPT !.live = TRUE, !.at = Dangling] ELSE Idle]
      /\ UNCHANGED <<kind, held>>
  BY DEF Collect
<1>2. \A i \in Loops : ~ loop[i].live
  BY <1>1 DEF IInv, LoopSound
<1>3. loop' = [i \in Loops |-> Idle]
  BY <1>1, <1>2
<1>4. Idle \in LoopType /\ ~ Idle.live
  <2>1. 0 \in 0 .. MaxLen
    BY ContainerAssumption
  <2> QED
    BY <2>1 DEF Idle, LoopType
<1>5. Size' = 0 /\ Places' = {} /\ Content' = {}
  BY <1>1 DEF Size, Places, Content
<1>6. TypeOK'
  <2>1. Blank \in Elements
    BY DEF Blank, Elements
  <2>2. kind' \in Kinds /\ held' \in BOOLEAN /\ order' \in Seq(Nodes) /\ 0 <= MaxLen
    BY <1>1, ContainerAssumption DEF IInv, TypeOK
  <2> QED
    BY <1>1, <1>3, <1>4, <1>5, <2>1, <2>2 DEF TypeOK, LoopType, Elements
<1>7. Sorted' /\ Paired'
  BY <1>5 DEF Sorted, Paired
<1>8. \A i \in Loops : LoopSound(loop[i])'
  BY <1>3, <1>4 DEF LoopSound
<1> QED
  BY <1>6, <1>7, <1>8 DEF IInv

--------------------------------------------------------------------------------
(* The invariant *)

LEMMA InitSound ==
  ASSUME Init
  PROVE  IInv
<1>1. Idle \in LoopType /\ ~ Idle.live /\ Blank \in Elements /\ Blank.key = Blank.value /\ MaxLen \in Nat
  <2>1. 0 \in 0 .. MaxLen /\ MaxLen \in Nat
    BY ContainerAssumption
  <2> QED
    BY <2>1 DEF Idle, LoopType, Blank, Elements
<1>2. order \in Seq(Nodes) /\ Size \in Nat /\ Size <= MaxLen /\ \A i \in Places : order[i] \in Nodes /\ order[i] = i
  <2>1. CASE kind = "array"
    <3>1. order = [i \in Nodes |-> i]
      BY <2>1 DEF Init
    <3> QED
      BY <1>1, <3>1 DEF Nodes, Size, Places
  <2>2. CASE kind # "array"
    <3>1. order = <<>>
      BY <2>2 DEF Init
    <3> QED
      BY <1>1, <3>1 DEF Size, Places
  <2> QED
    BY <2>1, <2>2
<1>3. TypeOK
  BY <1>1, <1>2 DEF Init, TypeOK, LoopType, Elements
<1>4. Sorted
  BY <1>2 DEF Init, Sorted, Lookup, Places, Size
<1>5. Paired
  BY <1>1, <1>2 DEF Init, Paired, GetKey, GetValue
<1>6. \A i \in Loops : LoopSound(loop[i])
  BY <1>1 DEF Init, LoopSound
<1> QED
  BY <1>3, <1>4, <1>5, <1>6 DEF IInv

LEMMA NextSound ==
  ASSUME Corners = {}, IInv, [Next]_vars
  PROVE  IInv'
<1>1. ASSUME NEW k \in Targets, NEW v \in Values \cup {Nil}, Set(k, v) PROVE IInv'
  BY <1>1, SetSound
<1>2. ASSUME NEW k \in Addends, NEW v \in Values, Add(k, v) PROVE IInv'
  BY <1>2, AddSound
<1>3. ASSUME NEW k \in Targets, NEW v \in Values, Insert(k, v) PROVE IInv'
  BY <1>3, InsertActionSound
<1>4. ASSUME NEW k \in Targets, Erase(k) PROVE IInv'
  BY <1>4, EraseSound
<1>5. CASE Clear
  BY <1>5, ClearActionSound
<1>6. ASSUME NEW i \in Loops, NEW onMain \in BOOLEAN, Pairs(i, onMain) PROVE IInv'
  BY <1>6, PairsSound
<1>7. ASSUME NEW i \in Loops, NextPair(i) PROVE IInv'
  BY <1>7, NextPairSound
<1>8. ASSUME NEW i \in Loops, Leave(i) PROVE IInv'
  BY <1>8, LeaveSound
<1>9. CASE Drop
  BY <1>9, DropSound
<1>10. CASE Collect
  BY <1>10, CollectSound
<1>11. CASE UNCHANGED vars
  BY <1>11, NothingChanged
<1> QED
  BY <1>1, <1>2, <1>3, <1>4, <1>5, <1>6, <1>7, <1>8, <1>9, <1>10, <1>11 DEF Next, Change, Iterate

(* At every moment of a program without corner cases the container is        *)
(* ordered as its kind wants it, an element of a sequence is its own key,    *)
(* and every loop under way has seen what lies before its iterator.          *)
THEOREM Invariance ==
  ASSUME Corners = {}
  PROVE  Spec => []IInv
<1>1. Init => IInv
  BY InitSound
<1>2. IInv /\ [Next]_vars => IInv'
  BY NextSound
<1> QED
  BY <1>1, <1>2, PTL DEF Spec

--------------------------------------------------------------------------------
(* Reads *)

(* The adjustments of the two directions cancel, whatever the first index. *)
LEMMA PlacesAt ==
  ASSUME IInv, NEW i \in Places
  PROVE  PlaceIndex(i) \in Int /\ Position(PlaceIndex(i)) = i - 1 /\ At(PlaceIndex(i)) = GetValue(i)
<1>1. i \in Int /\ IndexAdjustment \in Int /\ Size \in Nat /\ i \in 1 .. Size
  BY ItemsAre, ContainerAssumption DEF IndexAdjustment
<1>2. PlaceIndex(i) \in Int /\ Position(PlaceIndex(i)) = i - 1
  BY <1>1 DEF PlaceIndex, Position
<1>3. i - 1 \in 0 .. Size - 1 /\ (i - 1) + 1 = i
  BY <1>1
<1> QED
  BY <1>2, <1>3 DEF At

LEMMA ReadsHold ==
  ASSUME IInv
  PROVE  ReadsAgree
<1> SUFFICES ASSUME NEW v \in Keys
             PROVE  /\ Linear => Find(v) = IndexOf(v)
                    /\ Linear /\ Find(v) # Nil => Get(Find(v)) = v
                    /\ Lookup => Find(v) = Get(v) /\ (IndexOf(v) # Nil => At(IndexOf(v)) = Get(v))
                    /\ Find(v) = Nil <=> \A i \in Places : GetKey(i) # v
  BY DEF ReadsAgree
<1>1. Linear <=> ~ Lookup
  BY DEF Linear
<1>2. CASE Found(v) = {}
  <2>1. Find(v) = Nil /\ IndexOf(v) = Nil /\ \A i \in Places : GetKey(i) # v
    BY <1>2 DEF Find, IndexOf, Found
  <2>2. Lookup => Get(v) = Nil
    BY <1>1, <1>2 DEF Get
  <2> QED
    BY <2>1, <2>2
<1>3. CASE Found(v) # {}
  <2>1. PICK i \in Found(v) : i = Least(Found(v))
    BY <1>3, ItemsAre, LeastIs
  <2>2. /\ i \in Places /\ GetKey(i) = v
        /\ PlaceIndex(i) \in Int /\ At(PlaceIndex(i)) = GetValue(i) /\ GetValue(i) \in Nat
    BY ItemsAre, PlacesAt, Typed DEF IInv
  <2>3. IndexOf(v) = PlaceIndex(i)
    BY <1>3, <2>1 DEF IndexOf
  <2>4. Nil \notin Int
    BY ContainerAssumption
  <2>5. CASE Linear
    <3>1. Find(v) = PlaceIndex(i) /\ Get(PlaceIndex(i)) = At(PlaceIndex(i))
      BY <1>3, <2>1, <2>5 DEF Find, Get
    <3>2. GetValue(i) = v
      BY <1>1, <2>2, <2>5 DEF IInv, Paired, Lookup, Associative
    <3> QED
      BY <1>1, <2>2, <2>3, <2>4, <2>5, <3>1, <3>2
  <2>6. CASE Lookup
    <3>1. Find(v) = GetValue(i) /\ Get(v) = GetValue(i)
      BY <1>1, <1>3, <2>1, <2>6 DEF Find, Get
    <3>2. GetValue(i) # Nil
      BY <2>2, <2>4
    <3> QED
      BY <1>1, <2>2, <2>3, <2>6, <3>1, <3>2
  <2> QED
    BY <1>1, <2>5, <2>6
<1> QED
  BY <1>2, <1>3

(* For a container of any kind, length and content and any first index, in a  *)
(* program without corner cases: find (find_comparative or the container's   *)
(* own), index_of, get and at agree, the index adjustments of the two        *)
(* directions cancel, and nil says exactly that there is no such element.    *)
THEOREM ReadsAlwaysAgree ==
  ASSUME Corners = {}
  PROVE  Spec => []ReadsAgree
<1>1. IInv => ReadsAgree
  BY ReadsHold
<1> QED
  BY <1>1, Invariance, PTL

--------------------------------------------------------------------------------
(* What loops show *)

LEMMA LoopsHold ==
  ASSUME IInv
  PROVE  LoopsAgree
<1>1. /\ TypeOK /\ Size \in Nat /\ Places = 1 .. Size /\ Size = Len(order) /\ Injective(order)
      /\ \A i \in Places : order[i] \in Content /\ order[i] \in Nodes
      /\ data \in [Nodes -> Elements] /\ loop \in [Loops -> LoopType]
  BY Typed DEF IInv, Places, Size
<1>2. VisitsEachOnce
  <2> SUFFICES ASSUME NEW i \in Loops, loop[i].live
               PROVE  /\ alive
                      /\ \A j \in Places : order[j] \in loop[i].since /\ loop[i].at # Dangling =>
                           (order[j] \in loop[i].seen
                              <=> (loop[i].at = End \/ \E n \in j + 1 .. Size : order[n] = loop[i].at))
    BY DEF VisitsEachOnce
  <2>1. /\ alive
        /\ loop[i].at # Dangling => \A x \in loop[i].since :
             x \in loop[i].seen <=> (loop[i].at = End \/ Before(order, x, loop[i].at))
    BY DEF IInv, LoopSound
  <2>2. ASSUME NEW j \in Places
        PROVE  Before(order, order[j], loop[i].at) <=> \E n \in j + 1 .. Size : order[n] = loop[i].at
    <3>1. \A n \in 1 .. Size : n \in j + 1 .. Size <=> j < n
      BY <1>1
    <3>2. j + 1 .. Size \subseteq 1 .. Size
      BY <1>1
    <3>3. Before(order, order[j], loop[i].at) <=> \E n \in 1 .. Size : j < n /\ order[n] = loop[i].at
      BY <1>1 DEF Before, Injective
    <3> QED
      BY <3>1, <3>2, <3>3
  <2> QED
    BY <2>1, <2>2
<1>3. IndicesMatch
  <2> SUFFICES ASSUME NEW i \in Loops, StartIndex = 1, RandomAccess, loop[i].live, loop[i].at \in Nodes
               PROVE  Get(loop[i].key + 1) = data[loop[i].at].value
    BY DEF IndicesMatch
  <2> DEFINE l == loop[i]
  <2>1. l \in LoopType /\ LoopSound(l)
    BY <1>1 DEF IInv
  <2>2. l.at \in Content
    BY <2>1, ContainerAssumption DEF LoopSound
  <2>3. l.key + 1 \in Places /\ order[l.key + 1] = l.at /\ l.key \in Nat
    BY <2>1, <2>2 DEF LoopSound, LoopType
  <2> HIDE DEF l
  <2>4. Position(l.key + 1) = l.key
    <3>1. l.key + 1 \in Nat
      BY <2>3
    <3> QED
      BY <2>3, <3>1, FromOne
  <2>5. Linear
    BY DEF Linear, Lookup, RandomAccess
  <2>6. l.key \in 0 .. Size - 1
    BY <1>1, <2>3
  <2> QED
    BY <2>3, <2>4, <2>5, <2>6 DEF Get, At, GetValue, l
<1> QED
  BY <1>1, <1>2, <1>3 DEF LoopsAgree

(* For any number of loops of pairs() over such a container, whatever the     *)
(* script inserts, erases or clears meanwhile: a loop whose iterator stays   *)
(* valid meets every element that was there since it began and is there      *)
(* still, once and in order, under the index that get takes; the reference   *)
(* in the iterator keeps the container from being collected.                 *)
THEOREM LoopsAlwaysAgree ==
  ASSUME Corners = {}
  PROVE  Spec => []LoopsAgree
<1>1. IInv => LoopsAgree
  BY LoopsHold
<1> QED
  BY <1>1, Invariance, PTL

--------------------------------------------------------------------------------
(* The contract *)

(* For containers of every kind, length and content with indices that start   *)
(* at 1, in a program without corner cases: set, add, insert, erase and      *)
(* clear, through whichever code the C++ type selects, change the content as *)
(* containers.rst promises of every sequence and every keyed container, or   *)
(* not at all.                                                               *)
THEOREM OperationsKeepContract ==
  ASSUME Corners = {}, StartIndex = 1
  PROVE  Spec => WritesAsPromised
<1> DEFINE Kept ==
      /\ \A k \in Targets, v \in Values \cup {Nil} : Set(k, v) => Contract!Set(k, v)
      /\ \A k \in Addends, v \in Values : Add(k, v) => Contract!Add(k, v)
      /\ \A k \in Targets, v \in Values : Insert(k, v) => Contract!Insert(k, v)
      /\ \A k \in Targets : Erase(k) => Contract!Erase(k)
      /\ Clear => Contract!Clear
<1>1. IInv => [Kept]_vars
  <2> SUFFICES ASSUME IInv, ~ UNCHANGED vars
               PROVE  Kept
    OBVIOUS
  <2>1. ASSUME NEW k \in Targets, NEW v \in Values \cup {Nil}, Set(k, v) PROVE Contract!Set(k, v)
    BY <2>1, SetSound
  <2>2. ASSUME NEW k \in Addends, NEW v \in Values, Add(k, v) PROVE Contract!Add(k, v)
    BY <2>2, AddSound
  <2>3. ASSUME NEW k \in Targets, NEW v \in Values, Insert(k, v) PROVE Contract!Insert(k, v)
    BY <2>3, InsertActionSound
  <2>4. ASSUME NEW k \in Targets, Erase(k) PROVE Contract!Erase(k)
    BY <2>4, EraseSound
  <2>5. ASSUME Clear PROVE Contract!Clear
    BY <2>5, ClearActionSound
  <2> QED
    BY <2>1, <2>2, <2>3, <2>4, <2>5
<1> QED
  BY <1>1, Invariance, PTL DEF WritesAsPromised

================================================================================

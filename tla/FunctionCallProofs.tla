-------------------------- MODULE FunctionCallProofs ---------------------------
(***************************************************************************)
(* Proofs about FunctionCall: whatever functions a program calls, and       *)
(* however it moves their results, the stack holds the values of the live   *)
(* results and the program's own, and nothing else.                         *)
(***************************************************************************)
EXTENDS FunctionCall, SequenceTheorems, TLAPS

(* Later results end higher: the provers have no induction to see it by. *)
Ascending == \A j, k \in 0 .. Top : j <= k => End(j) <= End(k)

(* What the destructors rely on: a result in order has a Lua state, and an  *)
(* unsafe one, which pops returncount, holds no more than that.             *)
HeldSound ==
  \A k \in 1 .. Top :
    /\ result[order[k]].L
    /\ ClassOf[order[k]] = "unsafe" => result[order[k]].returncount = result[order[k]].popcount

(* The inductive invariant. *)
IInv ==
  /\ TypeOK
  /\ Ascending
  /\ NothingLost
  /\ ResultsKeepValues
  /\ OwnValuesKept
  /\ HeldOnce
  /\ HeldSound

--------------------------------------------------------------------------------
(* The Lua API *)

LEMMA PopProperties ==
  ASSUME NEW S, NEW s \in Seq(S), NEW n \in 0 .. Len(s)
  PROVE  /\ Pop(s, n) \in Seq(S)
         /\ Len(Pop(s, n)) = Len(s) - n
         /\ \A i \in 1 .. Len(s) - n : Pop(s, n)[i] = s[i]
<1>1. \A i \in 1 .. Len(s) - n : s[i] \in S
  BY ElementOfSeq
<1>2. Len(s) \in Nat /\ 1 \in Int /\ Len(s) - n \in Int
  OBVIOUS
<1> DEFINE m == Len(s) - n
<1>3. /\ SubSeq(s, 1, m) \in Seq(S)
      /\ Len(SubSeq(s, 1, m)) = IF 1 <= m THEN m - 1 + 1 ELSE 0
      /\ \A i \in 1 .. m - 1 + 1 : SubSeq(s, 1, m)[i] = s[1 + i - 1]
  <2> HIDE DEF m
  <2>1. m \in Int /\ 1 \in Int /\ \A i \in 1 .. m : s[i] \in S
    BY <1>1, <1>2 DEF m
  <2> QED
    BY <2>1, SubSeqProperties
<1> QED
  BY <1>2, <1>3 DEF Pop

LEMMA CutProperties ==
  ASSUME NEW S, NEW s \in Seq(S), NEW i \in Nat \ {0}, NEW n \in Nat, i + n - 1 <= Len(s)
  PROVE  /\ Cut(s, i, n) \in Seq(S)
         /\ Len(Cut(s, i, n)) = Len(s) - n
         /\ \A j \in 1 .. i - 1 : Cut(s, i, n)[j] = s[j]
         /\ \A j \in i .. Len(s) - n : Cut(s, i, n)[j] = s[j + n]
<1> DEFINE a == SubSeq(s, 1, i - 1)
           b == SubSeq(s, i + n, Len(s))
<1>1. \A j \in 1 .. Len(s) : s[j] \in S
  BY ElementOfSeq
<1>2. Len(s) \in Nat
  OBVIOUS
<1>3. /\ a \in Seq(S) /\ Len(a) = i - 1
      /\ \A j \in 1 .. i - 1 : a[j] = s[j]
  <2>1. \A j \in 1 .. i - 1 : s[j] \in S
    BY <1>1, <1>2
  <2> DEFINE k == i - 1
  <2>2. k \in Int /\ 1 \in Int /\ k >= 0
    OBVIOUS
  <2>3. /\ SubSeq(s, 1, k) \in Seq(S)
        /\ Len(SubSeq(s, 1, k)) = IF 1 <= k THEN k - 1 + 1 ELSE 0
        /\ \A j \in 1 .. k - 1 + 1 : SubSeq(s, 1, k)[j] = s[1 + j - 1]
    <3> HIDE DEF k
    <3> QED
      BY <2>1, <2>2, SubSeqProperties DEF k
  <2> QED
    BY <2>2, <2>3
<1>4. /\ b \in Seq(S) /\ Len(b) = Len(s) - n - (i - 1)
      /\ \A j \in 1 .. Len(s) - n - (i - 1) : b[j] = s[i + n + j - 1]
  <2> DEFINE k == i + n
             m == Len(s)
  <2>1. k \in Int /\ m \in Int /\ \A j \in k .. m : s[j] \in S
    BY <1>1, <1>2
  <2>2. /\ SubSeq(s, k, m) \in Seq(S)
        /\ Len(SubSeq(s, k, m)) = IF k <= m THEN m - k + 1 ELSE 0
        /\ \A j \in 1 .. m - k + 1 : SubSeq(s, k, m)[j] = s[k + j - 1]
    <3> HIDE DEF k, m
    <3> QED
      BY <2>1, SubSeqProperties
  <2> QED
    BY <1>2, <2>2
<1> HIDE DEF a, b
<1>5. /\ a \o b \in Seq(S) /\ Len(a \o b) = Len(a) + Len(b)
      /\ \A j \in 1 .. Len(a) + Len(b) :
           (a \o b)[j] = IF j <= Len(a) THEN a[j] ELSE b[j - Len(a)]
  BY <1>3, <1>4, ConcatProperties
<1>6. \A j \in 1 .. i - 1 : (a \o b)[j] = s[j]
  BY <1>2, <1>3, <1>4, <1>5
<1>7. ASSUME NEW j \in i .. Len(s) - n PROVE (a \o b)[j] = s[j + n]
  <2>1. j \in 1 .. Len(a) + Len(b) /\ ~ (j <= Len(a)) /\ j - Len(a) \in 1 .. Len(s) - n - (i - 1)
    BY <1>2, <1>3, <1>4
  <2>2. (a \o b)[j] = b[j - Len(a)]
    BY <1>5, <2>1
  <2>3. b[j - Len(a)] = s[i + n + (j - Len(a)) - 1]
    BY <1>4, <2>1
  <2>4. i + n + (j - Len(a)) - 1 = j + n
    BY <1>2, <1>3
  <2> QED
    BY <2>2, <2>3, <2>4
<1>8. Cut(s, i, n) = a \o b
  BY DEF Cut, a, b
<1>9. Len(a \o b) = Len(s) - n
  BY <1>2, <1>3, <1>4, <1>5
<1>10. \A j \in i .. Len(s) - n : (a \o b)[j] = s[j + n]
  BY <1>7
<1> QED
  BY <1>5, <1>6, <1>8, <1>9, <1>10

(* lua_remove of a slot of the stack *)
LEMMA RemoveProperties ==
  ASSUME NEW S, NEW s \in Seq(S), NEW i \in 1 .. Len(s)
  PROVE  /\ LuaRemove(s, i) \in Seq(S)
         /\ Len(LuaRemove(s, i)) = Len(s) - 1
         /\ \A j \in 1 .. i - 1 : LuaRemove(s, i)[j] = s[j]
         /\ \A j \in i .. Len(s) - 1 : LuaRemove(s, i)[j] = s[j + 1]
<1>1. LuaRemove(s, i) = Cut(s, i, 1)
  BY DEF LuaRemove, RemoveLoop
<1>2. i \in Nat \ {0} /\ 1 \in Nat /\ i + 1 - 1 <= Len(s)
  OBVIOUS
<1> QED
  BY <1>1, <1>2, CutProperties

(* stack::remove of count slots of the stack, wherever they lie *)
LEMMA StackRemoveProperties ==
  ASSUME NEW S, NEW s \in Seq(S), NEW i \in Nat \ {0}, NEW n \in Nat, i + n - 1 <= Len(s)
  PROVE  /\ StackRemove(s, i, n) \in Seq(S)
         /\ Len(StackRemove(s, i, n)) = Len(s) - n
         /\ \A j \in 1 .. i - 1 : StackRemove(s, i, n)[j] = s[j]
         /\ \A j \in i .. Len(s) - n : StackRemove(s, i, n)[j] = s[j + n]
<1>1. Len(s) \in Nat
  OBVIOUS
<1>2. CASE n < 1 \/ Len(s) < 1
  BY <1>1, <1>2 DEF StackRemove
<1>3. CASE ~ (n < 1 \/ Len(s) < 1) /\ i = Len(s)
  <2>1. n = 1 /\ StackRemove(s, i, n) = Pop(s, 1)
    BY <1>1, <1>3 DEF StackRemove
  <2>2. 1 \in 0 .. Len(s)
    BY <1>1, <1>3
  <2>3. /\ Pop(s, 1) \in Seq(S) /\ Len(Pop(s, 1)) = Len(s) - 1
        /\ \A j \in 1 .. Len(s) - 1 : Pop(s, 1)[j] = s[j]
    BY <2>2, PopProperties
  <2>4. i .. Len(s) - 1 = {}
    BY <1>1, <1>3
  <2> QED
    BY <1>3, <2>1, <2>3, <2>4
<1>4. CASE ~ (n < 1 \/ Len(s) < 1) /\ i # Len(s)
  <2>1. StackRemove(s, i, n) = Cut(s, i, n)
    BY <1>1, <1>4 DEF StackRemove, AbsIndex, RemoveLoop
  <2> QED
    BY <2>1, CutProperties
<1> QED
  BY <1>2, <1>3, <1>4

--------------------------------------------------------------------------------
(* What a call does to the stack *)

OnStack == Values \cup {Function, Handler}

LEMMA SeqNarrow ==
  ASSUME NEW S, NEW T, NEW c \in Seq(S), \A i \in 1 .. Len(c) : c[i] \in T
  PROVE  c \in Seq(T)
<1>1. Len(c) \in Nat /\ c \in [1 .. Len(c) -> S]
  BY LenProperties
<1>2. c \in [1 .. Len(c) -> T]
  BY <1>1
<1> QED
  BY <1>1, <1>2, SeqDef

LEMMA SeqOfLength ==
  ASSUME NEW S, NEW n \in Nat, NEW f \in [1 .. n -> S]
  PROVE  f \in Seq(S) /\ Len(f) = n
<1>1. f \in Seq(S)
  BY SeqDef
<1>2. 1 .. Len(f) = 1 .. n /\ Len(f) \in Nat
  BY <1>1, LenProperties
<1> QED
  BY <1>1, <1>2

LEMMA CopiesProperties ==
  ASSUME NEW v, NEW S, v \in S, NEW n \in Nat
  PROVE  Copies(v, n) \in Seq(S) /\ Len(Copies(v, n)) = n
<1>1. Copies(v, n) \in [1 .. n -> S]
  BY DEF Copies
<1> QED
  BY <1>1, SeqOfLength

(* c is what a call leaves of stack s: its first k values and then vals. *)
Leaves(S, c, s, k, vals) ==
  /\ c \in Seq(S) /\ Len(c) = k + Len(vals)
  /\ \A i \in 1 .. k : c[i] = s[i]
  /\ \A i \in 1 .. Len(vals) : c[k + i] = vals[i]

(* LuaCall takes the m copies off, the rest of n + 1 below them, and puts the *)
(* values there.                                                             *)
LEMMA LuaCallProperties ==
  ASSUME NEW S, NEW q \in Seq(S), NEW v \in S, NEW m \in Nat, NEW n \in Nat,
         m <= n + 1, NEW vals \in Seq(S),
         NEW k \in Nat, k + n + 1 = Len(q) + m
  PROVE  Leaves(S, LuaCall(q \o Copies(v, m), n, vals), q, k, vals)
<1> DEFINE c == LuaCall(q \o Copies(v, m), n, vals)
<1> DEFINE ready == q \o Copies(v, m)
           p == Pop(ready, n + 1)
<1>0. Len(q) \in Nat /\ Len(vals) \in Nat
  OBVIOUS
<1>1. ready \in Seq(S) /\ Len(ready) = Len(q) + m /\ \A i \in 1 .. Len(q) : ready[i] = q[i]
  <2>1. Copies(v, m) \in Seq(S) /\ Len(Copies(v, m)) = m
    BY CopiesProperties
  <2>2. /\ ready \in Seq(S) /\ Len(ready) = Len(q) + m
        /\ \A i \in 1 .. Len(q) + m :
             ready[i] = IF i <= Len(q) THEN q[i] ELSE Copies(v, m)[i - Len(q)]
    BY <2>1, ConcatProperties
  <2> HIDE DEF ready
  <2> QED
    BY <1>0, <2>2
<1> HIDE DEF ready
<1>2. n + 1 \in 0 .. Len(ready)
  BY <1>0, <1>1
<1>3. p \in Seq(S) /\ Len(p) = k /\ \A i \in 1 .. k : p[i] = q[i]
  <2> DEFINE e == Len(ready) - (n + 1)
  <2>1. /\ p \in Seq(S) /\ Len(p) = e
        /\ \A i \in 1 .. e : p[i] = ready[i]
    BY <1>1, <1>2, PopProperties
  <2>2. e = k /\ \A i \in 1 .. k : i \in 1 .. Len(q)
    BY <1>0, <1>1
  <2> HIDE DEF e, p
  <2> QED
    BY <1>1, <2>1, <2>2
<1> HIDE DEF p
<1>4. k \in Nat
  BY <1>0
<1>5. c = p \o vals
  BY DEF LuaCall, p, ready
<1> HIDE DEF c
<1>8. /\ c \in Seq(S) /\ Len(c) = k + Len(vals)
      /\ \A i \in 1 .. k + Len(vals) : c[i] = IF i <= k THEN p[i] ELSE vals[i - k]
  <2>1. /\ p \o vals \in Seq(S) /\ Len(p \o vals) = Len(p) + Len(vals)
        /\ \A i \in 1 .. Len(p) + Len(vals) :
             (p \o vals)[i] = IF i <= Len(p) THEN p[i] ELSE vals[i - Len(p)]
    BY <1>3, ConcatProperties
  <2> QED
    BY <1>3, <1>5, <2>1
<1>6. \A i \in 1 .. k : c[i] = q[i]
  BY <1>0, <1>3, <1>4, <1>8
<1>7. ASSUME NEW i \in 1 .. Len(vals) PROVE c[k + i] = vals[i]
  <2>1. k + i \in 1 .. k + Len(vals) /\ ~ (k + i <= k) /\ (k + i) - k = i
    BY <1>0, <1>4
  <2> QED
    BY <1>8, <2>1
<1> QED
  BY <1>6, <1>7, <1>8 DEF c, Leaves

LEMMA LeavesTyped ==
  ASSUME NEW s \in Seq(Values), NEW k \in 0 .. Len(s), NEW vals \in Seq(Values), NEW c \in Seq(OnStack),
         Len(c) = k + Len(vals),
         \A i \in 1 .. k : c[i] = s[i],
         \A i \in 1 .. Len(vals) : c[k + i] = vals[i]
  PROVE  Leaves(Values, c, s, k, vals)
<1>1. Len(s) \in Nat /\ Len(vals) \in Nat
  OBVIOUS
<1>2. ASSUME NEW i \in 1 .. Len(c) PROVE c[i] \in Values
  <2>1. CASE i <= k
    <3>1. c[i] = s[i] /\ i \in 1 .. Len(s)
      BY <1>1, <2>1
    <3> QED
      BY <3>1, ElementOfSeq
  <2>2. CASE ~ (i <= k)
    <3>1. i - k \in 1 .. Len(vals) /\ k + (i - k) = i
      BY <1>1, <2>2
    <3>2. c[k + (i - k)] = vals[i - k]
      BY <3>1
    <3> QED
      BY <3>1, <3>2, ElementOfSeq
  <2> QED
    BY <2>1, <2>2
<1> QED
  BY <1>2, SeqNarrow DEF Leaves

LEMMA OutcomeValues ==
  ASSUME NEW o \in Outcomes
  PROVE  o.values \in Seq(Values) /\ o.ok \in BOOLEAN /\ (~ o.ok => Len(o.values) = 1)
<1>1. CASE o \in [ok : {TRUE}, values : UNION {[1 .. n -> Values] : n \in 0 .. MaxReturns}]
  <2>1. PICK n \in 0 .. MaxReturns : o.values \in [1 .. n -> Values]
    BY <1>1
  <2>2. n \in Nat
    BY CallAssumption
  <2>3. o.values \in Seq(Values)
    BY <2>1, <2>2, SeqDef
  <2>4. o.ok = TRUE
    BY <1>1
  <2> QED
    BY <2>3, <2>4
<1>2. CASE o \in [ok : {FALSE}, values : [1 .. 1 -> Values]]
  <2>1. o.values \in [1 .. 1 -> Values] /\ 1 \in Nat
    BY <1>2
  <2>2. o.values \in Seq(Values) /\ Len(o.values) = 1
    BY <2>1, SeqOfLength
  <2> QED
    BY <1>2, <2>2
<1> QED
  BY <1>1, <1>2 DEF Outcomes

LEMMA OutcomeOnStack ==
  ASSUME NEW q \in Seq(OnStack), NEW m \in Nat, NEW n \in Nat, NEW j \in Nat,
         m <= n + 1, j + n + 1 = Len(q) + m, NEW o \in Outcomes
  PROVE  Leaves(OnStack, LuaCall(q \o Copies(Function, m), n, o.values), q, j, o.values)
<1>1. o.values \in Seq(OnStack) /\ Function \in OnStack
  BY OutcomeValues, SeqMonotonic DEF OnStack
<1> QED
  BY <1>1, LuaCallProperties

(* invoke and ~protected_handler: q is the stack up to the handler, m copies *)
(* of the function or its arguments are pushed on it, of t more the function *)
(* is already there.  What is left are k values and the outcome.             *)
LEMMA InvokeLeaves ==
  ASSUME NEW s \in Seq(Values), NEW k \in 0 .. Len(s), NEW q \in Seq(OnStack),
         NEW m \in Nat, NEW t \in {0, 1}, NEW n \in Nat, n + 1 = m + t, NEW slot \in {0, k + 1}, NEW o \in Outcomes,
         Len(q) - t = k + (IF slot # 0 THEN 1 ELSE 0),
         \A i \in 1 .. k : q[i] = s[i]
  PROVE  LET ready == q \o Copies(Function, m)
         IN /\ Leaves(Values, AfterCall(ready, n, slot, o), s, k, o.values)
            /\ ProtectedResult(ready, n, slot, o) = Made(k + 1, Len(o.values), Len(o.values), o.ok)
<1> DEFINE ready == q \o Copies(Function, m)
           c == LuaCall(ready, n, o.values)
           len == Len(o.values)
<1>1. o.values \in Seq(Values) /\ o.values \in Seq(OnStack) /\ len \in Nat /\ s \in Seq(OnStack)
  BY OutcomeValues, SeqMonotonic DEF OnStack
<1>2. Len(s) \in Nat /\ Len(q) \in Nat /\ t <= Len(q) /\ k \in Nat /\ n \in Nat
  OBVIOUS
<1>3. /\ c \in Seq(OnStack) /\ Len(c) = Len(q) - t + len
      /\ \A i \in 1 .. Len(q) - t : c[i] = q[i]
      /\ \A i \in 1 .. len : c[Len(q) - t + i] = o.values[i]
  <2> DEFINE j == Len(q) - t
  <2>1. m <= n + 1 /\ j \in Nat /\ j + n + 1 = Len(q) + m
    BY <1>2
  <2> HIDE DEF j
  <2>2. /\ c \in Seq(OnStack) /\ Len(c) = j + len
        /\ \A i \in 1 .. j : c[i] = q[i]
        /\ \A i \in 1 .. len : c[j + i] = o.values[i]
    <3>1. Leaves(OnStack, LuaCall(q \o Copies(Function, m), n, o.values), q, j, o.values)
      BY <2>1, OutcomeOnStack
    <3> QED
      BY <3>1 DEF Leaves
  <2> QED
    BY <2>2 DEF j
<1>4. Len(ready) = Len(q) + m
  <2>1. Copies(Function, m) \in Seq(OnStack) /\ Len(Copies(Function, m)) = m
    BY CopiesProperties DEF OnStack
  <2>2. Len(q \o Copies(Function, m)) = Len(q) + Len(Copies(Function, m))
    BY <2>1, ConcatProperties
  <2> QED
    BY <2>1, <2>2
<1> HIDE DEF ready, c, len
<1>5. n = m + t - 1
  OBVIOUS
<1>6. ASSUME slot = 0
      PROVE  /\ Leaves(Values, AfterCall(ready, n, slot, o), s, k, o.values)
             /\ ProtectedResult(ready, n, slot, o) = Made(k + 1, len, len, o.ok)
  <2>1. AfterCall(ready, n, slot, o) = c
    BY <1>6 DEF AfterCall, c
  <2>2. Len(c) = k + len /\ (\A i \in 1 .. k : c[i] = s[i]) /\ \A i \in 1 .. len : c[k + i] = o.values[i]
    <3>1. Len(q) - t = k
      BY <1>2, <1>6
    <3> QED
      BY <1>3, <3>1
  <2>3. Leaves(Values, c, s, k, o.values)
    BY <1>1, <1>3, <2>2, LeavesTyped DEF len
  <2>4. FirstReturn(ready, n, slot) = k + 1
    BY <1>2, <1>4, <1>5, <1>6 DEF FirstReturn, Larger
  <2>5. ProtectedResult(ready, n, slot, o) = Made(k + 1, Len(c) - 0 - (k + 1 - 1), Len(c) - 0 - (k + 1 - 1), o.ok)
    BY <1>6, <2>4 DEF ProtectedResult, c
  <2>6. Len(c) - 0 - (k + 1 - 1) = len
    BY <1>1, <1>2, <2>2
  <2> QED
    BY <2>1, <2>3, <2>5, <2>6
<1>7. ASSUME slot = k + 1, slot # 0
      PROVE  /\ Leaves(Values, AfterCall(ready, n, slot, o), s, k, o.values)
             /\ ProtectedResult(ready, n, slot, o) = Made(k + 1, len, len, o.ok)
  <2> DEFINE d == LuaRemove(c, slot)
  <2>1. AfterCall(ready, n, slot, o) = d
    BY <1>7 DEF AfterCall, c
  <2>2. Len(c) = k + 1 + len /\ slot \in 1 .. Len(c) /\ Len(q) - t = k + 1
    BY <1>1, <1>2, <1>3, <1>7
  <2>3. /\ d \in Seq(OnStack) /\ Len(d) = Len(c) - 1
        /\ \A j \in 1 .. slot - 1 : d[j] = c[j]
        /\ \A j \in slot .. Len(c) - 1 : d[j] = c[j + 1]
    BY <1>3, <2>2, RemoveProperties
  <2> HIDE DEF d
  <2>4. Len(d) = k + len
    BY <1>1, <1>2, <2>2, <2>3
  <2>5. ASSUME NEW i \in 1 .. k PROVE d[i] = s[i]
    BY <1>2, <1>3, <1>7, <2>2, <2>3
  <2>6. ASSUME NEW i \in 1 .. len PROVE d[k + i] = o.values[i]
    <3>1. k + i \in slot .. Len(c) - 1 /\ (k + i) + 1 = (k + 1) + i
      BY <1>1, <1>2, <1>7, <2>2
    <3>2. d[k + i] = c[(k + 1) + i]
      BY <2>3, <3>1
    <3>3. c[(k + 1) + i] = o.values[i]
      BY <1>3, <2>2
    <3> QED
      BY <3>2, <3>3
  <2>7. Leaves(Values, d, s, k, o.values)
    BY <1>1, <2>3, <2>4, <2>5, <2>6, LeavesTyped DEF len
  <2>8. FirstReturn(ready, n, slot) = k + 1
    BY <1>2, <1>4, <1>5, <1>7, <2>2 DEF FirstReturn, Larger
  <2>9. ProtectedResult(ready, n, slot, o) = Made(k + 1, Len(c) - 1 - (k + 1 - 1), Len(c) - 1 - (k + 1 - 1), o.ok)
    BY <1>7, <2>8 DEF ProtectedResult, c
  <2>10. Len(c) - 1 - (k + 1 - 1) = len
    BY <1>1, <1>2, <2>2
  <2> QED
    BY <2>1, <2>7, <2>9, <2>10
<1>8. k + 1 # 0
  BY <1>2
<1> QED
  BY <1>6, <1>7, <1>8 DEF ready, len

--------------------------------------------------------------------------------
(* Where results and values lie *)

LEMMA FourSum ==
  ASSUME NEW a \in Nat, NEW b \in Nat, NEW c \in Nat
  PROVE  (a + b + 1) + c - 1 = a + b + c
OBVIOUS

LEMMA Positions ==
  ASSUME IInv
  PROVE  /\ Top \in Nat /\ Len(own) = Top + 1 /\ Len(stack) \in Nat
         /\ \A k \in 1 .. Top :
              /\ order[k] \in Results
              /\ result[order[k]] \in ResultType
              /\ result[order[k]].index = End(k - 1) + Len(own[k]) + 1
              /\ result[order[k]].popcount = Len(given[order[k]])
              /\ given[order[k]] \in Seq(Values)
              /\ End(k) = End(k - 1) + Len(own[k]) + Len(given[order[k]])
         /\ \A k \in 1 .. Top + 1 : own[k] \in Seq(Values) /\ Len(own[k]) \in Nat
         /\ End(0) = 0
         /\ \A k \in 0 .. Top : End(k) \in Nat /\ End(k) <= End(Top)
         /\ Len(stack) = End(Top) + Len(own[Top + 1])
<1>1. Top \in Nat /\ Len(own) = Top + 1 /\ Len(stack) \in Nat
  BY DEF IInv, TypeOK, Top
<1>2. ASSUME NEW k \in 1 .. Top
      PROVE  /\ order[k] \in Results /\ result[order[k]] \in ResultType
             /\ given[order[k]] \in Seq(Values)
  <2>1. order[k] \in Results
    BY ElementOfSeq DEF IInv, TypeOK, Top
  <2> QED
    BY <2>1 DEF IInv, TypeOK, NothingLost
<1>3. ASSUME NEW k \in 1 .. Top + 1
      PROVE  own[k] \in Seq(Values) /\ Len(own[k]) \in Nat
  <2>1. own \in Seq(Seq(Values)) /\ k \in 1 .. Len(own)
    BY <1>1 DEF IInv, TypeOK
  <2>2. own[k] \in Seq(Values)
    BY <2>1, ElementOfSeq
  <2> QED
    BY <2>2
<1>4. End(0) = 0
  BY DEF End
<1>5. ASSUME NEW k \in 0 .. Top
      PROVE  End(k) \in Nat /\ End(k) <= End(Top)
  <2>1. End(k) \in Int
    <3>1. CASE k = 0
      BY <1>4, <3>1
    <3>2. CASE k # 0
      <4>1. k \in 1 .. Top
        BY <1>1, <3>2
      <4>2. result[order[k]].index \in Int /\ result[order[k]].popcount \in Int
        BY <1>2, <4>1 DEF ResultType
      <4> QED
        BY <3>2, <4>2 DEF End
    <3> QED
      BY <3>1, <3>2
  <2>2. 0 \in 0 .. Top /\ Top \in 0 .. Top /\ 0 <= k /\ k <= Top
    BY <1>1
  <2>3. End(0) <= End(k) /\ End(k) <= End(Top)
    BY <2>2 DEF IInv, Ascending
  <2> QED
    BY <1>4, <2>1, <2>3
<1>6. ASSUME NEW k \in 1 .. Top
      PROVE  /\ result[order[k]].index = End(k - 1) + Len(own[k]) + 1
             /\ result[order[k]].popcount = Len(given[order[k]])
             /\ End(k) = End(k - 1) + Len(own[k]) + Len(given[order[k]])
  <2>1. /\ result[order[k]].index = End(k - 1) + Len(own[k]) + 1
        /\ result[order[k]].popcount = Len(given[order[k]])
    BY DEF IInv, NothingLost
  <2>2. End(k) = result[order[k]].index + result[order[k]].popcount - 1
    BY DEF End
  <2>3. k - 1 \in 0 .. Top /\ k \in 1 .. Top + 1
    BY <1>1
  <2>4. End(k - 1) \in Nat /\ Len(own[k]) \in Nat /\ Len(given[order[k]]) \in Nat
    BY <1>2, <1>3, <1>5, <2>3
  <2>5. End(k) = (End(k - 1) + Len(own[k]) + 1) + Len(given[order[k]]) - 1
    BY <2>1, <2>2
  <2> QED
    BY <2>1, <2>4, <2>5, FourSum
<1>7. Len(stack) = End(Top) + Len(own[Top + 1])
  BY DEF IInv, NothingLost
<1> QED
  BY <1>1, <1>2, <1>3, <1>4, <1>5, <1>6, <1>7

(* The slots of results and of the program's own values are on the stack. *)
LEMMA Slots ==
  ASSUME IInv
  PROVE  /\ \A k \in 1 .. Top : \A i \in 1 .. Len(given[order[k]]) :
              result[order[k]].index + i - 1 \in 1 .. End(k)
         /\ \A k \in 1 .. Top + 1 : \A i \in 1 .. Len(own[k]) :
              /\ End(k - 1) + i \in 1 .. Len(stack)
              /\ k <= Top => End(k - 1) + i \in 1 .. result[order[k]].index - 1
         /\ \A k \in 0 .. Top : End(k) \in 0 .. Len(stack)
<1>1. ASSUME NEW k \in 1 .. Top, NEW i \in 1 .. Len(given[order[k]])
      PROVE  result[order[k]].index + i - 1 \in 1 .. End(k)
  <2>1. k - 1 \in 0 .. Top /\ k \in 1 .. Top + 1
    BY Positions
  <2>2. End(k - 1) \in Nat /\ Len(own[k]) \in Nat /\ Len(given[order[k]]) \in Nat
    BY <2>1, Positions
  <2>3. /\ result[order[k]].index = End(k - 1) + Len(own[k]) + 1
        /\ End(k) = End(k - 1) + Len(own[k]) + Len(given[order[k]])
    BY Positions
  <2> QED
    BY <2>2, <2>3
<1>2. ASSUME NEW k \in 1 .. Top + 1, NEW i \in 1 .. Len(own[k])
      PROVE  /\ End(k - 1) + i \in 1 .. Len(stack)
             /\ k <= Top => End(k - 1) + i \in 1 .. result[order[k]].index - 1
  <2>1. k - 1 \in 0 .. Top /\ Top \in Nat
    BY Positions
  <2>2. End(k - 1) \in Nat /\ Len(own[k]) \in Nat
    BY <2>1, Positions
  <2>3. CASE k <= Top
    <3>1. k \in 1 .. Top /\ k \in 0 .. Top
      BY <2>1, <2>3
    <3>2. /\ result[order[k]].index = End(k - 1) + Len(own[k]) + 1
          /\ End(k) = End(k - 1) + Len(own[k]) + Len(given[order[k]])
          /\ Len(given[order[k]]) \in Nat
          /\ End(k) <= End(Top) /\ Len(stack) = End(Top) + Len(own[Top + 1])
      BY <3>1, Positions
    <3>3. Len(own[Top + 1]) \in Nat /\ End(Top) \in Nat
      <4>1. Top + 1 \in 1 .. Top + 1 /\ Top \in 0 .. Top
        BY <2>1
      <4> QED
        BY <4>1, Positions
    <3> DEFINE a == End(k - 1)  b == Len(own[k])  c == Len(given[order[k]])  e == End(k)
               f == End(Top)  g == Len(own[Top + 1])  h == Len(stack)
               x == result[order[k]].index
    <3>4. /\ a \in Nat /\ b \in Nat /\ c \in Nat /\ f \in Nat /\ g \in Nat
          /\ i \in 1 .. b /\ x = a + b + 1 /\ e = a + b + c /\ e <= f /\ h = f + g
      BY <2>2, <3>2, <3>3
    <3> HIDE DEF a, b, c, e, f, g, h, x
    <3>5. a + i \in 1 .. h /\ a + i \in 1 .. x - 1
      BY <3>4
    <3> QED
      BY <3>5 DEF a, h, x
  <2>4. CASE k = Top + 1
    <3>1. Len(stack) = End(k - 1) + Len(own[k])
      BY <2>1, <2>4, Positions
    <3> QED
      BY <2>1, <2>2, <2>4, <3>1
  <2> QED
    BY <2>1, <2>3, <2>4
<1>3. ASSUME NEW k \in 0 .. Top PROVE End(k) \in 0 .. Len(stack)
  <2>1. Top + 1 \in 1 .. Top + 1
    BY Positions
  <2>2. End(k) \in Nat /\ End(k) <= End(Top) /\ Len(own[Top + 1]) \in Nat
    BY <2>1, Positions
  <2>3. Len(stack) = End(Top) + Len(own[Top + 1]) /\ End(Top) \in Nat
    BY <2>1, Positions
  <2> QED
    BY <2>2, <2>3
<1> QED
  BY <1>1, <1>2, <1>3

--------------------------------------------------------------------------------
(* A call's result holds what the call left *)

LEMMA AppendProperties2 ==
  ASSUME NEW S, NEW s \in Seq(S), NEW e \in S
  PROVE  /\ Append(s, e) \in Seq(S) /\ Len(Append(s, e)) = Len(s) + 1
         /\ \A i \in 1 .. Len(s) : Append(s, e)[i] = s[i]
         /\ Append(s, e)[Len(s) + 1] = e
BY AppendProperties

LEMMA PopOwnProperties ==
  ASSUME IInv, NEW x \in Seq(Values)
  PROVE  LET o == [own EXCEPT ![Top + 1] = x]
         IN /\ o \in Seq(Seq(Values)) /\ Len(o) = Top + 1
            /\ \A k \in 1 .. Top : o[k] = own[k]
            /\ o[Top + 1] = x
<1>1. Top \in Nat /\ own \in Seq(Seq(Values)) /\ Len(own) = Top + 1
  BY Positions DEF IInv, TypeOK
<1>2. Top + 1 \in 1 .. Len(own)
  BY <1>1
<1> DEFINE o == [own EXCEPT ![Top + 1] = x]
<1>3. o \in Seq(Seq(Values)) /\ Len(o) = Len(own)
  BY <1>1, <1>2, ExceptSeq
<1>4. o[Top + 1] = x /\ \A k \in 1 .. Top : o[k] = own[k]
  <2>1. own \in [1 .. Len(own) -> Seq(Values)]
    BY <1>1, LenProperties
  <2>2. \A k \in 1 .. Top : k \in 1 .. Len(own) /\ k # Top + 1
    BY <1>1
  <2> QED
    BY <1>2, <2>1, <2>2
<1> QED
  BY <1>1, <1>3, <1>4

(* Nothing holds values that is not made. *)
LEMMA UnmadeIdle ==
  ASSUME IInv, NEW r, result[r] = Unmade
  PROVE  \A k \in 1 .. Top : order[k] # r
BY DEF IInv, NothingLost

(* The state once r holds vals *)
Holds(r, taken, vals, made) ==
  /\ TypeOK'
  /\ Top' = Top + 1
  /\ \A k \in 1 .. Top : order'[k] = order[k]
  /\ order'[Top + 1] = r
  /\ \A k \in 1 .. Top : own'[k] = own[k]
  /\ Len(own'[Top + 1]) = Len(own[Top + 1]) - taken
  /\ \A i \in 1 .. Len(own[Top + 1]) - taken : own'[Top + 1][i] = own[Top + 1][i]
  /\ own'[Top + 2] = <<>> /\ Len(own'[Top + 2]) = 0
  /\ result'[r] = made /\ given'[r] = vals
  /\ \A x \in Results : x # r => result'[x] = result[x] /\ given'[x] = given[x]

LEMMA HoldTyped ==
  ASSUME IInv, NEW r \in Results, result[r] = Unmade,
         NEW taken \in 0 .. Len(own[Top + 1]), NEW vals \in Seq(Values),
         NEW made \in ResultType,
         stack' \in Seq(Values), Hold(r, taken, vals),
         result' = [result EXCEPT ![r] = made]
  PROVE  Holds(r, taken, vals, made)
<1> DEFINE x == Pop(own[Top + 1], taken)
           o == [own EXCEPT ![Top + 1] = x]
<1>1. Top \in Nat /\ order \in Seq(Results) /\ own[Top + 1] \in Seq(Values)
  <2>1. Top \in Nat
    BY Positions
  <2>2. Top + 1 \in 1 .. Top + 1
    BY <2>1
  <2> QED
    BY <2>1, <2>2, Positions DEF IInv, TypeOK
<1>2. /\ x \in Seq(Values) /\ Len(x) = Len(own[Top + 1]) - taken
      /\ \A i \in 1 .. Len(own[Top + 1]) - taken : x[i] = own[Top + 1][i]
  BY <1>1, PopProperties
<1>3. /\ o \in Seq(Seq(Values)) /\ Len(o) = Top + 1
      /\ \A k \in 1 .. Top : o[k] = own[k]
      /\ o[Top + 1] = x
  BY <1>2, PopOwnProperties
<1>4. /\ order' \in Seq(Results) /\ Len(order') = Len(order) + 1
      /\ \A k \in 1 .. Len(order) : order'[k] = order[k]
      /\ order'[Len(order) + 1] = r
  <2>1. order' = Append(order, r)
    BY DEF Hold
  <2> QED
    BY <1>1, <2>1, AppendProperties2
<1>5. own' = Append(o, <<>>)
  BY DEF Hold
<1> HIDE DEF o, x
<1>6. /\ own' \in Seq(Seq(Values)) /\ Len(own') = Len(o) + 1
      /\ \A k \in 1 .. Len(o) : own'[k] = o[k]
      /\ own'[Len(o) + 1] = <<>>
  <2>1. <<>> \in Seq(Values)
    OBVIOUS
  <2> QED
    BY <1>3, <1>5, <2>1, AppendProperties2
<1>7. own'[Top + 2] = <<>> /\ own'[Top + 1] = x /\ \A k \in 1 .. Top : own'[k] = own[k]
  <2>1. Top + 1 \in 1 .. Len(o) /\ Len(o) + 1 = Top + 2 /\ \A k \in 1 .. Top : k \in 1 .. Len(o)
    BY <1>1, <1>3
  <2> QED
    BY <1>3, <1>6, <2>1
<1>8. /\ result' \in [Results -> ResultType \cup {Unmade}]
      /\ result'[r] = made
      /\ \A y \in Results : y # r => result'[y] = result[y]
  BY DEF IInv, TypeOK
<1>9. /\ given' \in [Results -> Seq(Values)]
      /\ given'[r] = vals
      /\ \A y \in Results : y # r => given'[y] = given[y]
  BY DEF IInv, TypeOK, Hold
<1>10. Top' = Top + 1 /\ Len(own') = Len(order') + 1
  BY <1>1, <1>3, <1>4, <1>6 DEF Top
<1>11. TypeOK'
  BY <1>4, <1>6, <1>8, <1>9, <1>10 DEF TypeOK
<1> QED
  BY <1>1, <1>2, <1>4, <1>7, <1>8, <1>9, <1>10, <1>11 DEF Top, Holds

LEMMA Below ==
  ASSUME NEW e \in Nat, NEW g \in Nat, NEW t \in 0 .. g, NEW h, h = e + g
  PROVE  h - t \in Nat /\ h - t = e + (g - t) /\ h - t <= h /\ e <= h - t /\ h \in Nat
OBVIOUS

LEMMA Inside ==
  ASSUME NEW e \in Nat, NEW g \in Nat, NEW i \in 1 .. g
  PROVE  /\ e + i \in 1 .. e + g
         /\ \A h \in Nat, f \in Nat : f = e + g + h => e + i \in 1 .. f
         /\ \A h \in Nat, f \in Nat, b \in Nat : f = e + g + h /\ f <= b => e + i \in 1 .. b
OBVIOUS

LEMMA LastOf ==
  ASSUME NEW b \in Nat, NEW n \in Nat
  PROVE  /\ (b + 1) + n - 1 = b + n
         /\ \A e, f \in Nat : e <= f /\ f <= b => e <= b + n
OBVIOUS

LEMMA HoldKeeps ==
  ASSUME IInv, NEW r \in Results, result[r] = Unmade,
         NEW taken \in 0 .. Len(own[Top + 1]), NEW vals \in Seq(Values),
         NEW rc \in Int, NEW ok \in BOOLEAN,
         ClassOf[r] = "unsafe" => rc = Len(vals),
         Leaves(Values, stack', stack, Len(stack) - taken, vals),
         Hold(r, taken, vals),
         result' = [result EXCEPT ![r] = Made(Len(stack) - taken + 1, rc, Len(vals), ok)]
  PROVE  IInv'
<1> DEFINE base == Len(stack) - taken
           len == Len(vals)
           made == Made(base + 1, rc, len, ok)
<1>0. PICK new : new = Top + 1
  OBVIOUS
<1>1. /\ Top \in Nat /\ len \in Nat /\ Len(own[new]) \in Nat /\ End(Top) \in Nat
      /\ base = End(Top) + (Len(own[new]) - taken) /\ base \in Nat /\ base <= Len(stack)
      /\ End(Top) <= base /\ Len(stack) \in Nat
  <2>1. Top \in Nat
    BY Positions
  <2>2. Top + 1 \in 1 .. Top + 1 /\ Top \in 0 .. Top
    BY <2>1
  <2>3. /\ Len(own[Top + 1]) \in Nat /\ End(Top) \in Nat /\ len \in Nat
        /\ Len(stack) = End(Top) + Len(own[Top + 1])
    BY <2>2, Positions
  <2>4. base \in Nat /\ base = End(Top) + (Len(own[Top + 1]) - taken) /\ base <= Len(stack)
        /\ End(Top) <= base /\ Len(stack) \in Nat
    BY <2>3, Below
  <2> HIDE DEF base, len
  <2> QED
    BY <1>0, <2>1, <2>3, <2>4
<1>2. /\ stack' \in Seq(Values) /\ Len(stack') = base + len
      /\ \A i \in 1 .. base : stack'[i] = stack[i]
      /\ \A i \in 1 .. len : stack'[base + i] = vals[i]
  BY DEF Leaves
<1>3. made \in ResultType /\ made.index = base + 1 /\ made.popcount = len /\ made.returncount = rc /\ made.L
  BY <1>1 DEF Made, ResultType
<1> HIDE DEF base, len, made
<1>4. /\ TypeOK'
      /\ Top' = new
      /\ \A k \in 1 .. Top : order'[k] = order[k]
      /\ order'[new] = r
      /\ \A k \in 1 .. Top : own'[k] = own[k]
      /\ Len(own'[new]) = Len(own[new]) - taken
      /\ \A i \in 1 .. Len(own[new]) - taken : own'[new][i] = own[new][i]
      /\ Len(own'[new + 1]) = 0
      /\ result'[r] = made /\ given'[r] = vals
      /\ \A x \in Results : x # r => result'[x] = result[x] /\ given'[x] = given[x]
  <2>1. result' = [result EXCEPT ![r] = made]
    BY DEF made, base, len
  <2>2. new + 1 = Top + 2
    BY <1>0, <1>1
  <2>3. /\ TypeOK'
        /\ Top' = Top + 1
        /\ \A k \in 1 .. Top : order'[k] = order[k]
        /\ order'[Top + 1] = r
        /\ \A k \in 1 .. Top : own'[k] = own[k]
        /\ Len(own'[Top + 1]) = Len(own[Top + 1]) - taken
        /\ \A i \in 1 .. Len(own[Top + 1]) - taken : own'[Top + 1][i] = own[Top + 1][i]
        /\ own'[Top + 2] = <<>> /\ Len(own'[Top + 2]) = 0
        /\ result'[r] = made /\ given'[r] = vals
        /\ \A x \in Results : x # r => result'[x] = result[x] /\ given'[x] = given[x]
    <3>1. Holds(r, taken, vals, made)
      BY <1>2, <1>3, <2>1, HoldTyped
    <3> QED
      BY <3>1 DEF Holds
  <2> QED
    BY <1>0, <2>2, <2>3
<1>5. ASSUME NEW k \in 1 .. Top
      PROVE  /\ order[k] \in Results /\ order[k] # r /\ order'[k] = order[k]
             /\ result'[order'[k]] = result[order[k]]
             /\ given'[order'[k]] = given[order[k]]
  <2>1. order[k] \in Results /\ order[k] # r
    BY Positions, UnmadeIdle
  <2> QED
    BY <1>4, <2>1
<1>6. new \in Nat /\ new # 0 /\ 1 .. Top' = 1 .. new /\ 0 .. Top' = 0 .. new /\ 1 .. Top' + 1 = 1 .. new + 1
  BY <1>0, <1>1, <1>4
<1>7. \A k \in 0 .. Top : End(k)' = End(k)
  <2>1. ASSUME NEW k \in 0 .. Top PROVE End(k)' = End(k)
    <3>1. CASE k = 0
      BY <3>1 DEF End
    <3>2. CASE k # 0
      <4>1. k \in 1 .. Top
        BY <1>1, <3>2
      <4> QED
        BY <1>5, <4>1, <3>2 DEF End
    <3> QED
      BY <3>1, <3>2
  <2> QED
    BY <2>1
<1>8. End(new)' = base + len
  <2>1. End(new)' = result'[order'[new]].index + result'[order'[new]].popcount - 1
    BY <1>6 DEF End
  <2>2. End(new)' = (base + 1) + len - 1
    BY <1>3, <1>4, <2>1
  <2>3. base \in Nat /\ len \in Nat
    BY <1>1
  <2>4. (base + 1) + len - 1 = base + len
    BY <2>3, LastOf
  <2> QED
    BY <2>2, <2>4
<1>9. \A k \in 1 .. new : k \in 1 .. Top \/ k = new
  BY <1>0, <1>1
<1>10. new - 1 = Top /\ Top + 1 = new
  BY <1>0, <1>1
<1>11. Ascending'
  <2>1. ASSUME NEW j \in 0 .. new, NEW k \in 0 .. new, j <= k
        PROVE  End(j)' <= End(k)'
    <3>1. CASE k \in 0 .. Top
      <4>1. j \in 0 .. Top
        BY <1>1, <1>6, <3>1, <2>1
      <4> QED
        BY <1>7, <2>1, <3>1, <4>1 DEF IInv, Ascending
    <3>2. CASE k = new /\ j \in 0 .. Top
      <4>1. End(j) <= End(Top) /\ End(j) \in Nat
        BY <3>2, Positions
      <4>2. End(k)' = base + len /\ End(j)' = End(j)
        BY <1>7, <1>8, <3>2
      <4>3. base \in Nat /\ len \in Nat /\ End(Top) <= base /\ End(Top) \in Nat
        BY <1>1
      <4>4. End(j) <= base + len
        BY <4>1, <4>3, LastOf
      <4> QED
        BY <4>2, <4>4
    <3>3. CASE k = new /\ j = new
      BY <1>1, <1>8, <3>3
    <3>4. (k \in 0 .. Top \/ k = new) /\ (j \in 0 .. Top \/ j = new)
      BY <1>1, <1>6, <1>10
    <3>5. k \in 0 .. Top => j # new
      BY <1>1, <1>10, <2>1
    <3> QED
      BY <3>1, <3>2, <3>3, <3>4, <3>5
  <2> QED
    BY <1>6, <2>1 DEF Ascending
<1>12. NothingLost'
  <2>1. ASSUME NEW k \in 1 .. new
        PROVE  /\ result'[order'[k]] # Unmade
               /\ result'[order'[k]].index = End(k - 1)' + Len(own'[k]) + 1
               /\ result'[order'[k]].popcount = Len(given'[order'[k]])
    <3>1. CASE k \in 1 .. Top
      <4>1. /\ result[order[k]] # Unmade
            /\ result[order[k]].index = End(k - 1) + Len(own[k]) + 1
            /\ result[order[k]].popcount = Len(given[order[k]])
        BY <3>1 DEF IInv, NothingLost
      <4>2. k - 1 \in 0 .. Top
        BY <1>1, <3>1
      <4> QED
        BY <1>4, <1>5, <1>7, <3>1, <4>1, <4>2
    <3>2. CASE k = new
      <4>1. result'[order'[k]] = made /\ given'[order'[k]] = vals
        BY <1>4, <3>2
      <4>2. made # Unmade
        BY <1>3, CallAssumption
      <4>3. End(k - 1)' = End(Top) /\ Len(own'[k]) = Len(own[new]) - taken
        BY <1>1, <1>4, <1>7, <1>10, <3>2
      <4>4. base + 1 = End(Top) + (Len(own[new]) - taken) + 1
        BY <1>1
      <4> QED
        BY <1>3, <4>1, <4>2, <4>3, <4>4 DEF len
    <3> QED
      BY <1>9, <3>1, <3>2
  <2>2. Len(stack') = (End(Top) + Len(own[Top + 1]))'
    <3>1. Top' = new /\ Len(own'[new + 1]) = 0
      BY <1>4
    <3>2. (End(Top) + Len(own[Top + 1]))' = End(new)' + Len(own'[new + 1])
      BY <3>1 DEF End
    <3> QED
      BY <1>1, <1>2, <1>8, <3>1, <3>2
  <2> QED
    BY <1>6, <2>1, <2>2 DEF NothingLost
<1>13. ResultsKeepValues'
  <2>1. ASSUME NEW k \in 1 .. new, NEW i \in 1 .. Len(given'[order'[k]])
        PROVE  stack'[result'[order'[k]].index + i - 1] = given'[order'[k]][i]
    <3>1. CASE k \in 1 .. Top
      <4>1. i \in 1 .. Len(given[order[k]])
        BY <1>5, <3>1
      <4>2. result[order[k]].index + i - 1 \in 1 .. End(k) /\ End(k) <= End(Top) /\ End(k) \in Nat
        <5>1. k \in 0 .. Top
          BY <1>1, <3>1
        <5> QED
          BY <3>1, <4>1, <5>1, Slots, Positions
      <4>3. result[order[k]].index + i - 1 \in 1 .. base
        BY <1>1, <4>2
      <4>4. stack[result[order[k]].index + i - 1] = given[order[k]][i]
        BY <3>1, <4>1 DEF IInv, ResultsKeepValues
      <4> QED
        BY <1>2, <1>5, <3>1, <4>3, <4>4
    <3>2. CASE k = new
      <4>1. result'[order'[k]] = made /\ given'[order'[k]] = vals
        BY <1>4, <3>2
      <4>2. i \in 1 .. len /\ (base + 1) + i - 1 = base + i
        BY <1>1, <4>1 DEF len
      <4> QED
        BY <1>2, <1>3, <4>1, <4>2
    <3> QED
      BY <1>9, <3>1, <3>2
  <2> QED
    BY <1>6, <2>1 DEF ResultsKeepValues
<1>14. OwnValuesKept'
  <2>1. ASSUME NEW k \in 1 .. new + 1, NEW i \in 1 .. Len(own'[k])
        PROVE  stack'[End(k - 1)' + i] = own'[k][i]
    <3>1. CASE k \in 1 .. new
      <4>1. k - 1 \in 0 .. Top /\ k \in 1 .. Top + 1
        BY <1>1, <1>10, <3>1
      <4>2. i \in 1 .. Len(own[k]) /\ own'[k][i] = own[k][i]
        <5>1. CASE k \in 1 .. Top
          BY <1>4, <5>1
        <5>2. CASE k = new
          <6>1. i \in 1 .. Len(own[new]) - taken
            BY <1>4, <2>1, <5>2
          <6>2. Len(own[new]) - taken \in Nat /\ Len(own[new]) - taken <= Len(own[new])
            BY <1>0, <1>1
          <6>3. i \in 1 .. Len(own[new])
            BY <1>1, <6>1, <6>2
          <6> QED
            BY <1>4, <5>2, <6>1, <6>3
        <5> QED
          BY <1>9, <3>1, <5>1, <5>2
      <4>3. stack[End(k - 1) + i] = own[k][i]
        BY <4>1, <4>2 DEF IInv, OwnValuesKept
      <4>4. End(k - 1) + i \in 1 .. base
        <5>1. CASE k \in 1 .. Top
          <6>1. End(k - 1) + i \in 1 .. result[order[k]].index - 1
            BY <1>1, <4>1, <4>2, <5>1, Slots
          <6>2. k \in 0 .. Top
            BY <1>1, <5>1
          <6>3. /\ End(k) = End(k - 1) + Len(own[k]) + Len(given[order[k]])
                /\ given[order[k]] \in Seq(Values)
            BY <5>1, Positions
          <6>4. End(k) <= End(Top) /\ End(k) \in Nat /\ End(k - 1) \in Nat
            BY <4>1, <6>2, Positions
          <6>5. Len(own[k]) \in Nat /\ Len(given[order[k]]) \in Nat
            BY <4>1, <6>3, Positions
          <6>6. End(k) <= base
            BY <1>1, <6>4
          <6> QED
            BY <1>1, <4>2, <6>3, <6>4, <6>5, <6>6, Inside
        <5>2. CASE k = new
          <6>1. i \in 1 .. Len(own[new]) - taken
            BY <1>4, <2>1, <5>2
          <6>2. End(k - 1) = End(Top)
            BY <1>10, <5>2
          <6>3. Len(own[new]) - taken \in Nat
            BY <1>0, <1>1
          <6>4. End(Top) + i \in 1 .. End(Top) + (Len(own[new]) - taken)
            BY <1>1, <6>1, <6>3, Inside
          <6> QED
            BY <1>1, <6>2, <6>4
        <5> QED
          BY <1>9, <3>1, <5>1, <5>2
      <4> QED
        BY <1>2, <1>7, <4>1, <4>2, <4>3, <4>4
    <3>2. CASE k = new + 1
      BY <1>1, <1>4, <3>2
    <3> QED
      BY <1>6, <3>1, <3>2
  <2> QED
    BY <1>6, <2>1 DEF OwnValuesKept
<1>15. HeldOnce'
  <2>1. ASSUME NEW x \in Results, result'[x] # Unmade, ~ InOrder(x)'
        PROVE  result'[x].popcount = 0 /\ result'[x].returncount = 0
    <3>1. \A k \in 1 .. new : order'[k] # x
      BY <1>6, <2>1 DEF InOrder, Top
    <3>2. x # r
      <4>1. new \in 1 .. new
        BY <1>6
      <4> QED
        BY <1>4, <3>1, <4>1
    <3>3. \A k \in 1 .. Top : order[k] # x
      <4>1. \A k \in 1 .. Top : k \in 1 .. new
        BY <1>1, <1>10
      <4> QED
        BY <1>4, <3>1, <4>1
    <3>4. result[x] # Unmade /\ ~ InOrder(x) /\ result'[x] = result[x]
      BY <1>4, <2>1, <3>2, <3>3 DEF InOrder, Top
    <3> QED
      BY <3>4 DEF IInv, HeldOnce
  <2>2. ASSUME NEW j \in 1 .. new, NEW k \in 1 .. new, order'[j] = order'[k]
        PROVE  j = k
    <3>1. (j \in 1 .. Top \/ j = new) /\ (k \in 1 .. Top \/ k = new)
      BY <1>9
    <3> QED
      BY <1>4, <1>5, <2>2, <3>1 DEF IInv, HeldOnce
  <2> QED
    BY <1>6, <2>1, <2>2 DEF HeldOnce
<1>16. HeldSound'
  <2>1. ASSUME NEW k \in 1 .. new
        PROVE  /\ result'[order'[k]].L
               /\ ClassOf[order'[k]] = "unsafe" =>
                    result'[order'[k]].returncount = result'[order'[k]].popcount
    <3>1. CASE k \in 1 .. Top
      BY <1>5, <3>1 DEF IInv, HeldSound
    <3>2. CASE k = new
      BY <1>3, <1>4, <3>2 DEF len
    <3> QED
      BY <1>9, <3>1, <3>2
  <2> QED
    BY <1>6, <2>1 DEF HeldSound
<1> QED
  BY <1>4, <1>11, <1>12, <1>13, <1>14, <1>15, <1>16 DEF IInv

--------------------------------------------------------------------------------
(* Steps that keep the results from the bottom up, perhaps under new names *)

(* The k-th result, whatever object it is, holds what it held. *)
KeptAt(k) ==
  LET r == order[k]
      q == order'[k]
  IN /\ result'[q] # Unmade
     /\ result'[q].index = result[r].index /\ result'[q].popcount = result[r].popcount
     /\ result'[q].L
     /\ ClassOf[q] = "unsafe" => result'[q].returncount = result'[q].popcount
     /\ given'[q] = given[r]
     /\ own'[k] = own[k]

(* t results are kept, and x is above them. *)
LEMMA LayoutKeeps ==
  ASSUME IInv, TypeOK', HeldOnce', NEW t \in 0 .. Top, NEW x \in Seq(Values),
         Top' = t, \A k \in 1 .. t : KeptAt(k), own'[t + 1] = x,
         Leaves(Values, stack', stack, End(t), x)
  PROVE  IInv'
<1>1. PICK base : base = End(t)
  OBVIOUS
<1>2. Top \in Nat /\ base \in Nat /\ Len(x) \in Nat
  BY <1>1, Positions
<1>3. /\ Len(stack') = base + Len(x)
      /\ \A i \in 1 .. base : stack'[i] = stack[i]
      /\ \A i \in 1 .. Len(x) : stack'[base + i] = x[i]
  BY <1>1 DEF Leaves
<1>4. ASSUME NEW k \in 0 .. t PROVE End(k)' = End(k)
  <2>1. CASE k = 0
    BY <2>1 DEF End
  <2>2. CASE k # 0
    <3>1. k \in 1 .. t
      BY <2>2
    <3>2. result'[order'[k]].index = result[order[k]].index /\ result'[order'[k]].popcount = result[order[k]].popcount
      BY <3>1 DEF KeptAt
    <3> QED
      BY <2>2, <3>2 DEF End
  <2> QED
    BY <2>1, <2>2
<1>5. \A k \in 0 .. t : k \in 0 .. Top
  BY <1>2
<1>6. \A k \in 1 .. t : k \in 1 .. Top /\ k \in 1 .. Top + 1 /\ k \in 0 .. t /\ k - 1 \in 0 .. t
  BY <1>2
<1>7. ASSUME NEW k \in 0 .. t PROVE End(k) <= base /\ End(k) \in Nat
  <2>1. t \in 0 .. Top /\ k \in 0 .. Top /\ k <= t
    BY <1>5
  <2> QED
    BY <1>1, <2>1, Positions DEF IInv, Ascending
<1>8. Ascending'
  <2>1. ASSUME NEW j \in 0 .. t, NEW k \in 0 .. t, j <= k PROVE End(j)' <= End(k)'
    BY <1>4, <1>5, <2>1 DEF IInv, Ascending
  <2> QED
    BY <2>1 DEF Ascending
<1>9. NothingLost'
  <2>1. ASSUME NEW k \in 1 .. t
        PROVE  /\ result'[order'[k]] # Unmade
               /\ result'[order'[k]].index = End(k - 1)' + Len(own'[k]) + 1
               /\ result'[order'[k]].popcount = Len(given'[order'[k]])
    <3>1. /\ result[order[k]].index = End(k - 1) + Len(own[k]) + 1
          /\ result[order[k]].popcount = Len(given[order[k]])
      BY <1>6 DEF IInv, NothingLost
    <3>2. End(k - 1)' = End(k - 1)
      BY <1>4, <1>6
    <3> QED
      BY <3>1, <3>2 DEF KeptAt
  <2>2. Len(stack') = (End(Top) + Len(own[Top + 1]))'
    <3>1. (End(Top) + Len(own[Top + 1]))' = End(t)' + Len(own'[t + 1])
      BY DEF End
    <3>2. End(t)' = End(t)
      BY <1>4
    <3> QED
      BY <1>1, <1>3, <3>1, <3>2
  <2> QED
    BY <2>1, <2>2 DEF NothingLost
<1>10. ResultsKeepValues'
  <2>1. ASSUME NEW k \in 1 .. t, NEW i \in 1 .. Len(given'[order'[k]])
        PROVE  stack'[result'[order'[k]].index + i - 1] = given'[order'[k]][i]
    <3>1. given'[order'[k]] = given[order[k]] /\ result'[order'[k]].index = result[order[k]].index
      BY DEF KeptAt
    <3>2. i \in 1 .. Len(given[order[k]])
      BY <3>1
    <3>3. result[order[k]].index + i - 1 \in 1 .. End(k) /\ End(k) <= base /\ End(k) \in Nat
      BY <1>6, <1>7, <3>2, Slots
    <3>4. result[order[k]].index + i - 1 \in 1 .. base
      BY <1>2, <3>3
    <3>5. stack[result[order[k]].index + i - 1] = given[order[k]][i]
      BY <1>6, <3>2 DEF IInv, ResultsKeepValues
    <3> QED
      BY <1>3, <3>1, <3>4, <3>5
  <2> QED
    BY <2>1 DEF ResultsKeepValues
<1>11. OwnValuesKept'
  <2>1. ASSUME NEW k \in 1 .. t + 1, NEW i \in 1 .. Len(own'[k])
        PROVE  stack'[End(k - 1)' + i] = own'[k][i]
    <3>1. CASE k \in 1 .. t
      <4>1. own'[k] = own[k] /\ End(k - 1)' = End(k - 1)
        BY <1>4, <1>6, <3>1 DEF KeptAt
      <4>2. i \in 1 .. Len(own[k])
        BY <4>1
      <4>3. stack[End(k - 1) + i] = own[k][i]
        BY <1>6, <3>1, <4>2 DEF IInv, OwnValuesKept
      <4>4. End(k - 1) + i \in 1 .. base
        <5>1. /\ End(k) = End(k - 1) + Len(own[k]) + Len(given[order[k]])
              /\ given[order[k]] \in Seq(Values)
          BY <1>6, <3>1, Positions
        <5>2. End(k) <= base /\ End(k) \in Nat /\ End(k - 1) \in Nat
          BY <1>6, <1>7, <3>1
        <5>3. Len(own[k]) \in Nat /\ Len(given[order[k]]) \in Nat
          <6>1. Len(own[k]) \in Nat
            BY <1>6, <3>1, Positions
          <6>2. Len(given[order[k]]) \in Nat
            BY <5>1
          <6> QED
            BY <6>1, <6>2
        <5> QED
          BY <1>2, <4>2, <5>1, <5>2, <5>3, Inside
      <4> QED
        BY <1>3, <4>1, <4>3, <4>4
    <3>2. CASE k = t + 1
      <4>1. k - 1 = t /\ t \in 0 .. t
        BY <3>2
      <4>2. End(k - 1)' = base
        BY <1>1, <1>4, <4>1
      <4> QED
        BY <1>3, <3>2, <4>2
    <3>3. k \in 1 .. t \/ k = t + 1
      OBVIOUS
    <3> QED
      BY <3>1, <3>2, <3>3
  <2> QED
    BY <2>1 DEF OwnValuesKept
<1>12. HeldSound'
  BY DEF HeldSound, KeptAt
<1> QED
  BY <1>8, <1>9, <1>10, <1>11, <1>12 DEF IInv

--------------------------------------------------------------------------------
(* Steps that leave the stack alone *)

LEMMA StackAsIs ==
  ASSUME IInv
  PROVE  Leaves(Values, stack, stack, End(Top), own[Top + 1]) /\ own[Top + 1] \in Seq(Values)
<1>1. Top \in Nat /\ Top + 1 \in 1 .. Top + 1
  BY Positions
<1>2. stack \in Seq(Values) /\ Len(stack) = End(Top) + Len(own[Top + 1]) /\ own[Top + 1] \in Seq(Values)
  BY <1>1, Positions DEF IInv, TypeOK
<1>3. ASSUME NEW i \in 1 .. Len(own[Top + 1]) PROVE stack[End(Top) + i] = own[Top + 1][i]
  <2>1. stack[End(Top + 1 - 1) + i] = own[Top + 1][i]
    BY <1>1 DEF IInv, OwnValuesKept
  <2>2. Top + 1 - 1 = Top
    BY <1>1
  <2> QED
    BY <2>1, <2>2
<1> QED
  BY <1>2, <1>3 DEF Leaves

(* The stack is as it was, results may have been renamed. *)
LEMMA RenameKeeps ==
  ASSUME IInv, TypeOK', HeldOnce', stack' = stack, own' = own, Top' = Top,
         \A k \in 1 .. Top : KeptAt(k)
  PROVE  IInv'
<1>1. PICK t \in 0 .. Top : t = Top
  BY Positions
<1>2. PICK x \in Seq(Values) : x = own[Top + 1]
  BY StackAsIs
<1>3. Leaves(Values, stack', stack, End(t), x) /\ own'[t + 1] = x
  BY <1>1, <1>2, StackAsIs
<1> QED
  BY <1>1, <1>3, LayoutKeeps

LEMMA UnchangedKeeps ==
  ASSUME IInv, UNCHANGED vars
  PROVE  IInv'
<1>1. TypeOK' /\ HeldOnce' /\ Top' = Top /\ stack' = stack /\ own' = own
  BY DEF vars, IInv, TypeOK, HeldOnce, InOrder, Top
<1>2. \A k \in 1 .. Top : KeptAt(k)
  BY DEF vars, IInv, NothingLost, HeldSound, KeptAt
<1> QED
  BY <1>1, <1>2, RenameKeeps

(* r, which holds nothing, becomes made: Default and Destroy *)
LEMMA IdleKeeps ==
  ASSUME IInv, NEW r \in Results, \A k \in 1 .. Top : order[k] # r,
         NEW made \in ResultType \cup {Unmade},
         made # Unmade => made.popcount = 0 /\ made.returncount = 0,
         result' = [result EXCEPT ![r] = made], UNCHANGED <<stack, order, own, given>>
  PROVE  IInv'
<1>1. /\ result' \in [Results -> ResultType \cup {Unmade}] /\ result'[r] = made
      /\ \A x \in Results : x # r => result'[x] = result[x]
  BY DEF IInv, TypeOK
<1>2. TypeOK' /\ Top' = Top /\ stack' = stack /\ own' = own
  BY <1>1 DEF IInv, TypeOK, Top
<1>3. ASSUME NEW k \in 1 .. Top PROVE KeptAt(k)
  <2>1. order[k] \in Results /\ order[k] # r
    BY Positions
  <2>2. order' = order /\ given' = given /\ result'[order[k]] = result[order[k]] /\ own' = own
    BY <1>1, <2>1
  <2> QED
    BY <2>2 DEF IInv, NothingLost, HeldSound, KeptAt
<1>4. HeldOnce'
  <2>1. ASSUME NEW x \in Results, result'[x] # Unmade, ~ InOrder(x)'
        PROVE  result'[x].popcount = 0 /\ result'[x].returncount = 0
    <3>1. CASE x = r
      BY <1>1, <2>1, <3>1
    <3>2. CASE x # r
      BY <1>1, <2>1, <3>2 DEF IInv, HeldOnce, InOrder
    <3> QED
      BY <3>1, <3>2
  <2>2. \A j, k \in 1 .. Top' : order'[j] = order'[k] => j = k
    BY <1>2 DEF IInv, HeldOnce
  <2> QED
    BY <2>1, <2>2 DEF HeldOnce
<1> QED
  BY <1>2, <1>3, <1>4, RenameKeeps

(* d takes over what s holds: the moves *)
LEMMA MoveKeeps ==
  ASSUME IInv, Corners = {}, NEW d \in Results, NEW s \in Results, d # s, Converts(d, s),
         \A k \in 1 .. Top : order[k] # d,
         result' = [result EXCEPT ![d] = Taken(d, s), ![s] = Abandoned(s)],
         PassOn(d, s), UNCHANGED <<stack, own>>
  PROVE  IInv'
<1>1. Top \in Nat /\ order \in Seq(Results) /\ result \in [Results -> ResultType \cup {Unmade}]
      /\ given \in [Results -> Seq(Values)]
  BY Positions DEF IInv, TypeOK
<1>2. result[s] \in ResultType
  BY <1>1 DEF Converts
<1>3. /\ Taken(d, s) \in ResultType
      /\ Taken(d, s).L = result[s].L /\ Taken(d, s).index = result[s].index
      /\ Taken(d, s).returncount = result[s].returncount
      /\ Taken(d, s).popcount = result[s].popcount
  <2>1. ClassOf[s] = "unsafe" => result[s].popcount = result[s].returncount
    <3>1. CASE InOrder(s)
      BY <3>1 DEF IInv, HeldSound, InOrder, Top
    <3>2. CASE ~ InOrder(s)
      BY <3>2 DEF IInv, HeldOnce, Converts
    <3> QED
      BY <3>1, <3>2
  <2>2. ClassOf[d] = "unsafe" => result[s].popcount = result[s].returncount
    BY DEF Converts
  <2>3. "unsafe" \in {ClassOf[d], ClassOf[s]} => result[s].popcount = result[s].returncount
    BY <2>1, <2>2
  <2>4. result[s].returncount \in Int
    BY <1>2 DEF ResultType
  <2>5. /\ Taken(d, s) \in ResultType
        /\ Taken(d, s).L = result[s].L /\ Taken(d, s).index = result[s].index
        /\ Taken(d, s).returncount = result[s].returncount
        /\ Taken(d, s).popcount = IF "unsafe" \in {ClassOf[d], ClassOf[s]}
                                    THEN result[s].returncount ELSE result[s].popcount
    BY <1>2, <2>4 DEF Taken, ResultType
  <2> QED
    BY <2>3, <2>5
<1>4. /\ Abandoned(s) \in ResultType
      /\ Abandoned(s).popcount = 0 /\ Abandoned(s).returncount = 0
  BY <1>2 DEF Abandoned, ResultType
<1>5. /\ result' \in [Results -> ResultType \cup {Unmade}]
      /\ result'[d] = Taken(d, s) /\ result'[s] = Abandoned(s)
      /\ \A x \in Results : x # d /\ x # s => result'[x] = result[x]
  BY <1>1, <1>3, <1>4
<1>6. /\ given' \in [Results -> Seq(Values)]
      /\ given'[d] = given[s]
      /\ \A x \in Results : x # d /\ x # s => given'[x] = given[x]
  <2>1. given' = [given EXCEPT ![d] = given[s], ![s] = <<>>]
    BY DEF PassOn
  <2>2. <<>> \in Seq(Values) /\ given[s] \in Seq(Values)
    BY <1>1
  <2> QED
    BY <1>1, <2>1, <2>2
<1>7. /\ order' \in Seq(Results) /\ Len(order') = Top
      /\ \A k \in 1 .. Top : order'[k] = IF order[k] = s THEN d ELSE order[k]
  <2>1. order' = [k \in 1 .. Top |-> IF order[k] = s THEN d ELSE order[k]]
    BY DEF PassOn
  <2>2. \A k \in 1 .. Top : order[k] \in Results
    BY Positions
  <2>3. order' \in [1 .. Top -> Results]
    BY <2>1, <2>2
  <2> QED
    BY <1>1, <2>1, <2>3, SeqOfLength
<1>8. TypeOK' /\ Top' = Top
  BY <1>5, <1>6, <1>7 DEF IInv, TypeOK, Top
<1>9. ASSUME NEW k \in 1 .. Top PROVE KeptAt(k)
  <2>1. order[k] \in Results /\ order[k] # d /\ result[order[k]] \in ResultType
    BY Positions
  <2>2. /\ result[order[k]] # Unmade /\ result[order[k]].L
        /\ ClassOf[order[k]] = "unsafe" => result[order[k]].returncount = result[order[k]].popcount
    BY DEF IInv, NothingLost, HeldSound
  <2>3. CASE order[k] = s
    <3>1. order'[k] = d /\ Taken(d, s) # Unmade
      BY <1>3, <1>7, <2>3, CallAssumption
    <3>2. ClassOf[d] = "unsafe" => result[s].popcount = result[s].returncount
      BY DEF Converts
    <3> QED
      BY <1>3, <1>5, <1>6, <2>2, <2>3, <3>1, <3>2 DEF KeptAt
  <2>4. CASE order[k] # s
    <3>1. order'[k] = order[k]
      BY <1>7, <2>4
    <3>2. result'[order[k]] = result[order[k]] /\ given'[order[k]] = given[order[k]]
      BY <1>5, <1>6, <2>1, <2>4
    <3> QED
      BY <2>2, <3>1, <3>2 DEF KeptAt
  <2> QED
    BY <2>3, <2>4
<1>10. HeldOnce'
  <2>1. ASSUME NEW x \in Results, result'[x] # Unmade, ~ InOrder(x)'
        PROVE  result'[x].popcount = 0 /\ result'[x].returncount = 0
    <3>1. \A k \in 1 .. Top : order'[k] # x
      BY <1>8, <2>1 DEF InOrder, Top
    <3>2. CASE x = s
      BY <1>4, <1>5, <3>2
    <3>3. CASE x = d
      <4>1. \A k \in 1 .. Top : order[k] # s
        BY <1>7, <3>1, <3>3
      <4>2. result[s].popcount = 0 /\ result[s].returncount = 0
        BY <4>1 DEF IInv, HeldOnce, InOrder, Top, Converts
      <4> QED
        BY <1>3, <1>5, <3>3, <4>2
    <3>4. CASE x # s /\ x # d
      <4>1. \A k \in 1 .. Top : order[k] # x
        BY <1>7, <3>1, <3>4
      <4>2. result'[x] = result[x]
        BY <1>5, <3>4
      <4> QED
        BY <2>1, <4>1, <4>2 DEF IInv, HeldOnce, InOrder, Top
    <3> QED
      BY <3>2, <3>3, <3>4
  <2>2. ASSUME NEW j \in 1 .. Top, NEW k \in 1 .. Top, order'[j] = order'[k]
        PROVE  j = k
    <3>1. order[j] = order[k]
      BY <1>7, <2>2
    <3> QED
      BY <3>1 DEF IInv, HeldOnce
  <2> QED
    BY <1>8, <2>1, <2>2 DEF HeldOnce
<1> QED
  BY <1>8, <1>9, <1>10, RenameKeeps

--------------------------------------------------------------------------------
(* The program's own values *)

LEMMA OwnKeeps ==
  ASSUME IInv, NEW x \in Seq(Values),
         Leaves(Values, stack', stack, End(Top), x),
         own' = [own EXCEPT ![Top + 1] = x], UNCHANGED <<result, order, given>>
  PROVE  IInv'
<1>1. PICK t \in 0 .. Top : t = Top
  BY Positions
<1>2. /\ own' \in Seq(Seq(Values)) /\ Len(own') = Top + 1
      /\ \A k \in 1 .. Top : own'[k] = own[k]
      /\ own'[Top + 1] = x
  BY PopOwnProperties
<1>3. stack' \in Seq(Values)
  BY DEF Leaves
<1>4. TypeOK' /\ Top' = Top
  BY <1>2, <1>3 DEF IInv, TypeOK, Top
<1>5. HeldOnce'
  BY <1>4 DEF IInv, HeldOnce, InOrder
<1>6. \A k \in 1 .. Top : KeptAt(k)
  BY <1>2 DEF IInv, NothingLost, HeldSound, KeptAt
<1> QED
  BY <1>1, <1>2, <1>4, <1>5, <1>6, LayoutKeeps

(* Values y pushed onto the stack. *)
LEMMA PushLeaves ==
  ASSUME IInv, NEW y \in Seq(Values)
  PROVE  /\ own[Top + 1] \o y \in Seq(Values)
         /\ Leaves(Values, stack \o y, stack, End(Top), own[Top + 1] \o y)
<1>1. PICK w : w = own[Top + 1]
  OBVIOUS
<1>2. PICK e : e = End(Top)
  OBVIOUS
<1>3. /\ w \in Seq(Values) /\ stack \in Seq(Values) /\ Len(stack) = e + Len(w)
      /\ \A i \in 1 .. Len(w) : stack[e + i] = w[i]
      /\ e \in Nat
  <2>1. Top \in 0 .. Top
    BY Positions
  <2>2. End(Top) \in Nat
    BY <2>1, Positions
  <2> QED
    BY <1>1, <1>2, <2>2, StackAsIs DEF Leaves
<1>4. /\ w \o y \in Seq(Values) /\ Len(w \o y) = Len(w) + Len(y)
      /\ \A i \in 1 .. Len(w) + Len(y) : (w \o y)[i] = IF i <= Len(w) THEN w[i] ELSE y[i - Len(w)]
  BY <1>3, ConcatProperties
<1>5. /\ stack \o y \in Seq(Values) /\ Len(stack \o y) = Len(stack) + Len(y)
      /\ \A i \in 1 .. Len(stack) + Len(y) :
           (stack \o y)[i] = IF i <= Len(stack) THEN stack[i] ELSE y[i - Len(stack)]
  <2>1. stack \in Seq(Values)
    BY <1>3
  <2> QED
    BY <2>1, ConcatProperties
<1>6. Len(w) \in Nat /\ Len(y) \in Nat /\ Len(stack) \in Nat
  BY <1>3
<1>7. \A i \in 1 .. e : (stack \o y)[i] = stack[i]
  BY <1>3, <1>5, <1>6
<1>8. ASSUME NEW i \in 1 .. Len(w \o y) PROVE (stack \o y)[e + i] = (w \o y)[i]
  <2>1. i \in 1 .. Len(w) + Len(y) /\ e + i \in 1 .. Len(stack) + Len(y)
    BY <1>3, <1>4, <1>6
  <2>2. CASE i <= Len(w)
    <3>1. e + i <= Len(stack) /\ i \in 1 .. Len(w)
      BY <1>3, <1>6, <2>1, <2>2
    <3> QED
      BY <1>3, <1>4, <1>5, <2>1, <2>2, <3>1
  <2>3. CASE ~ (i <= Len(w))
    <3>1. ~ (e + i <= Len(stack)) /\ (e + i) - Len(stack) = i - Len(w)
      BY <1>3, <1>6, <2>1, <2>3
    <3> QED
      BY <1>4, <1>5, <2>1, <2>3, <3>1
  <2> QED
    BY <2>2, <2>3
<1>9. Len(stack \o y) = e + Len(w \o y)
  BY <1>3, <1>4, <1>5, <1>6
<1> QED
  BY <1>1, <1>2, <1>4, <1>5, <1>7, <1>8, <1>9 DEF Leaves

LEMMA PushOwnKeeps ==
  ASSUME IInv, NEW v \in Values, PushOwn(v)
  PROVE  IInv'
<1>1. <<v>> \in Seq(Values)
  OBVIOUS
<1>2. stack \in Seq(Values) /\ own[Top + 1] \in Seq(Values)
  BY StackAsIs DEF IInv, TypeOK
<1>3. Append(stack, v) = stack \o <<v>> /\ Append(own[Top + 1], v) = own[Top + 1] \o <<v>>
  BY <1>2, AppendIsConcat
<1>4. own' = [own EXCEPT ![Top + 1] = own[Top + 1] \o <<v>>]
  BY <1>3 DEF PushOwn
<1>5. stack' = stack \o <<v>> /\ UNCHANGED <<result, order, given>>
  BY <1>3 DEF PushOwn
<1> QED
  BY <1>1, <1>4, <1>5, PushLeaves, OwnKeeps

LEMMA PushResultKeeps ==
  ASSUME IInv, NEW r \in Results, PushResult(r)
  PROVE  IInv'
<1>1. PICK k \in 1 .. Top : order[k] = r
  BY DEF PushResult, InOrder, Top
<1>2. given[r] \in Seq(Values) /\ result[r].popcount = Len(given[r])
  BY <1>1, Positions
<1>3. \A i \in 1 .. Len(given[r]) : stack[result[r].index + i - 1] = given[r][i]
  BY <1>1 DEF IInv, ResultsKeepValues
<1> DEFINE copies == [i \in 1 .. result[r].popcount |-> stack[result[r].index + i - 1]]
<1>4. copies = given[r]
  <2>1. given[r] \in [1 .. Len(given[r]) -> Values]
    BY <1>2, LenProperties
  <2>2. given[r] = [i \in 1 .. Len(given[r]) |-> given[r][i]]
    BY <2>1
  <2> QED
    BY <1>2, <1>3, <2>2
<1>5. stack' = stack \o copies /\ own' = [own EXCEPT ![Top + 1] = own[Top + 1] \o given[r]]
      /\ UNCHANGED <<result, order, given>>
  BY DEF PushResult
<1> HIDE DEF copies
<1> QED
  BY <1>2, <1>4, <1>5, PushLeaves, OwnKeeps

LEMMA PopOwnKeeps ==
  ASSUME IInv, PopOwn
  PROVE  IInv'
<1>1. PICK w : w = own[Top + 1]
  OBVIOUS
<1>2. PICK e : e = End(Top)
  OBVIOUS
<1>3. /\ w \in Seq(Values) /\ stack \in Seq(Values) /\ Len(stack) = e + Len(w)
      /\ \A i \in 1 .. Len(w) : stack[e + i] = w[i]
      /\ e \in Nat
  <2>1. Top \in 0 .. Top
    BY Positions
  <2>2. End(Top) \in Nat
    BY <2>1, Positions
  <2> QED
    BY <1>1, <1>2, <2>2, StackAsIs DEF Leaves
<1>4. Len(w) \in Nat /\ Len(w) > 0 /\ 1 \in 0 .. Len(w) /\ 1 \in 0 .. Len(stack)
  <2>1. w # <<>>
    BY <1>1 DEF PopOwn
  <2>2. Len(w) \in Nat \ {0}
    BY <1>3, <2>1, EmptySeq
  <2> QED
    BY <1>3, <2>2
<1>5. Pop(w, 1) \in Seq(Values) /\ Len(Pop(w, 1)) = Len(w) - 1
      /\ \A i \in 1 .. Len(w) - 1 : Pop(w, 1)[i] = w[i]
  BY <1>3, <1>4, PopProperties
<1>6. Pop(stack, 1) \in Seq(Values) /\ Len(Pop(stack, 1)) = Len(stack) - 1
      /\ \A i \in 1 .. Len(stack) - 1 : Pop(stack, 1)[i] = stack[i]
  BY <1>3, <1>4, PopProperties
<1>7. \A i \in 1 .. e : Pop(stack, 1)[i] = stack[i]
  BY <1>3, <1>4, <1>6
<1>8. ASSUME NEW i \in 1 .. Len(Pop(w, 1)) PROVE Pop(stack, 1)[e + i] = Pop(w, 1)[i]
  <2>1. i \in 1 .. Len(w) /\ i \in 1 .. Len(w) - 1 /\ e + i \in 1 .. Len(stack) - 1
    BY <1>3, <1>4, <1>5
  <2> QED
    BY <1>3, <1>5, <1>6, <2>1
<1>9. Len(Pop(stack, 1)) = e + Len(Pop(w, 1))
  BY <1>3, <1>4, <1>5, <1>6
<1>10. Leaves(Values, Pop(stack, 1), stack, End(Top), Pop(w, 1))
  BY <1>2, <1>6, <1>7, <1>8, <1>9 DEF Leaves
<1>11. stack' = Pop(stack, 1) /\ own' = [own EXCEPT ![Top + 1] = Pop(w, 1)]
       /\ UNCHANGED <<result, order, given>>
  BY <1>1 DEF PopOwn
<1> QED
  BY <1>5, <1>10, <1>11, OwnKeeps

--------------------------------------------------------------------------------
(* A result that is destroyed *)

(* c is s without the n values from i on. *)
Without(c, s, i, n) ==
  /\ c \in Seq(Values) /\ Len(c) = Len(s) - n
  /\ \A j \in 1 .. i - 1 : c[j] = s[j]
  /\ \A j \in i .. Len(s) - n : c[j] = s[j + n]

(* The top result's values gone, those of the program's own around them are *)
(* together.                                                                *)
LEMMA WithoutLeaves ==
  ASSUME IInv, Top > 0, NEW c,
         Without(c, stack, result[order[Top]].index, result[order[Top]].popcount)
  PROVE  LET z == own[Top] \o own[Top + 1]
         IN z \in Seq(Values) /\ Leaves(Values, c, stack, End(Top - 1), z)
<1>1. Top \in Nat /\ Top \in 1 .. Top /\ Top \in 1 .. Top + 1 /\ Top + 1 \in 1 .. Top + 1 /\ Top - 1 \in 0 .. Top
  <2>1. Top \in Nat
    BY Positions
  <2> QED
    BY <2>1
<1>2. PICK a \in Seq(Values) : a = own[Top]
  BY <1>1, Positions
<1>3. PICK b \in Seq(Values) : b = own[Top + 1]
  BY <1>1, Positions
<1>4. PICK e \in Nat : e = End(Top - 1)
  BY <1>1, Positions
<1>5. PICK g \in Nat : g = result[order[Top]].popcount
  <2>1. result[order[Top]].popcount = Len(given[order[Top]]) /\ given[order[Top]] \in Seq(Values)
    BY <1>1, Positions
  <2> QED
    BY <2>1
<1>6. result[order[Top]].index = e + Len(a) + 1
  BY <1>1, <1>2, <1>4, Positions
<1>7. End(Top) = e + Len(a) + g
  BY <1>1, <1>2, <1>4, <1>5, Positions
<1>8. Len(a) \in Nat /\ Len(b) \in Nat
  OBVIOUS
<1>9. Len(stack) = e + Len(a) + g + Len(b)
  BY <1>1, <1>3, <1>7, Positions
<1>10. \A i \in 1 .. Len(a) : stack[e + i] = a[i]
  BY <1>1, <1>2, <1>4 DEF IInv, OwnValuesKept
<1>11. \A i \in 1 .. Len(b) : stack[e + Len(a) + g + i] = b[i]
  <2>1. \A i \in 1 .. Len(b) : stack[End(Top) + i] = b[i]
    BY <1>3, StackAsIs DEF Leaves
  <2> QED
    BY <1>7, <2>1
<1>12. /\ c \in Seq(Values) /\ Len(c) = Len(stack) - g
       /\ \A j \in 1 .. e + Len(a) : c[j] = stack[j]
       /\ \A j \in e + Len(a) + 1 .. e + Len(a) + Len(b) : c[j] = stack[j + g]
  <2>1. /\ c \in Seq(Values) /\ Len(c) = Len(stack) - g
        /\ \A j \in 1 .. (e + Len(a) + 1) - 1 : c[j] = stack[j]
        /\ \A j \in e + Len(a) + 1 .. Len(stack) - g : c[j] = stack[j + g]
    BY <1>5, <1>6 DEF Without
  <2>2. (e + Len(a) + 1) - 1 = e + Len(a)
    BY <1>8
  <2>3. Len(stack) - g = e + Len(a) + Len(b)
    BY <1>8, <1>9
  <2> QED
    BY <2>1, <2>2, <2>3
<1>13. PICK z : z = a \o b
  OBVIOUS
<1>14. /\ z \in Seq(Values) /\ Len(z) = Len(a) + Len(b)
       /\ \A i \in 1 .. Len(a) + Len(b) : z[i] = IF i <= Len(a) THEN a[i] ELSE b[i - Len(a)]
  BY <1>13, ConcatProperties
<1>15. Len(c) = e + Len(z)
  BY <1>8, <1>9, <1>12, <1>14
<1>16. \A i \in 1 .. e : c[i] = stack[i]
  BY <1>8, <1>12
<1>17. ASSUME NEW i \in 1 .. Len(z) PROVE c[e + i] = z[i]
  <2>1. i \in 1 .. Len(a) + Len(b)
    BY <1>14
  <2>2. CASE i <= Len(a)
    <3>1. e + i \in 1 .. e + Len(a) /\ i \in 1 .. Len(a)
      BY <1>8, <2>1, <2>2
    <3>2. c[e + i] = stack[e + i] /\ stack[e + i] = a[i]
      BY <1>10, <1>12, <3>1
    <3> QED
      BY <1>14, <2>1, <2>2, <3>2
  <2>3. CASE ~ (i <= Len(a))
    <3>1. PICK j \in 1 .. Len(b) : j = i - Len(a)
      <4>1. i - Len(a) \in 1 .. Len(b)
        BY <1>8, <2>1, <2>3
      <4> QED
        BY <4>1
    <3>2. e + i \in e + Len(a) + 1 .. e + Len(a) + Len(b)
      BY <1>8, <2>1, <2>3
    <3>3. (e + i) + g = e + Len(a) + g + j
      <4>1. PICK m \in Nat : m = Len(a)
        BY <1>8
      <4>2. (e + i) + g = e + m + g + j
        BY <3>1, <4>1
      <4> QED
        BY <4>1, <4>2
    <3>4. c[e + i] = b[j]
      BY <1>11, <1>12, <3>2, <3>3
    <3> QED
      BY <1>14, <2>1, <2>3, <3>1, <3>4
  <2> QED
    BY <2>2, <2>3
<1>18. Leaves(Values, c, stack, e, z)
  BY <1>12, <1>15, <1>16, <1>17 DEF Leaves
<1> QED
  BY <1>2, <1>3, <1>4, <1>13, <1>14, <1>18

(* What the destructors leave *)
LEMMA ReleasedWithout ==
  ASSUME IInv, Top > 0, NEW r, r = order[Top],
         ClassOf[r] = "unsafe" => own[Top + 1] = <<>>
  PROVE  Without(Released(r), stack, result[r].index, result[r].popcount)
<1>1. Top \in Nat /\ Top \in 1 .. Top /\ Top - 1 \in 0 .. Top /\ Top \in 1 .. Top + 1 /\ Top \in 0 .. Top
  <2>1. Top \in Nat
    BY Positions
  <2> QED
    BY <2>1
<1>2. result[r].L /\ (ClassOf[r] = "unsafe" => result[r].returncount = result[r].popcount)
  BY <1>1 DEF IInv, HeldSound
<1>3. PICK i \in Nat \ {0} : i = result[r].index
  <2>1. /\ result[r].index = End(Top - 1) + Len(own[Top]) + 1
        /\ End(Top - 1) \in Nat /\ Len(own[Top]) \in Nat
    BY <1>1, Positions
  <2> QED
    BY <2>1
<1>4. PICK n \in Nat : n = result[r].popcount
  <2>1. result[order[Top]].popcount = Len(given[order[Top]]) /\ given[order[Top]] \in Seq(Values)
    BY <1>1, Positions
  <2> QED
    BY <2>1
<1>5. i + n - 1 = End(Top)
  BY <1>1, <1>3, <1>4 DEF End
<1>6. stack \in Seq(Values) /\ Len(stack) = (i + n - 1) + Len(own[Top + 1]) /\ Len(own[Top + 1]) \in Nat
  <2>1. Top + 1 \in 1 .. Top + 1
    BY <1>1
  <2> QED
    BY <1>5, <2>1, Positions DEF IInv, TypeOK
<1>7. CASE ClassOf[r] = "unsafe"
  <2>1. Len(own[Top + 1]) = 0
    BY <1>7
  <2>2. Len(stack) = i + n - 1 /\ n \in 0 .. Len(stack)
    BY <1>6, <2>1
  <2>3. /\ Pop(stack, n) \in Seq(Values) /\ Len(Pop(stack, n)) = Len(stack) - n
        /\ \A j \in 1 .. Len(stack) - n : Pop(stack, n)[j] = stack[j]
    BY <1>6, <2>2, PopProperties
  <2>4. Len(stack) - n = i - 1 /\ i .. i - 1 = {}
    BY <2>2
  <2>5. Released(r) = Pop(stack, n)
    BY <1>2, <1>4, <1>7 DEF Released
  <2> QED
    BY <1>3, <1>4, <2>3, <2>4, <2>5 DEF Without
<1>8. CASE ClassOf[r] # "unsafe"
  <2>1. Released(r) = StackRemove(stack, i, n)
    BY <1>2, <1>3, <1>4, <1>8 DEF Released
  <2>2. stack \in Seq(Values) /\ i + n - 1 <= Len(stack)
    <3>1. PICK m \in Nat : m = Len(own[Top + 1])
      BY <1>6
    <3>2. i + n - 1 <= (i + n - 1) + m
      OBVIOUS
    <3> QED
      BY <1>6, <3>1, <3>2
  <2>3. /\ StackRemove(stack, i, n) \in Seq(Values)
        /\ Len(StackRemove(stack, i, n)) = Len(stack) - n
        /\ \A j \in 1 .. i - 1 : StackRemove(stack, i, n)[j] = stack[j]
        /\ \A j \in i .. Len(stack) - n : StackRemove(stack, i, n)[j] = stack[j + n]
    BY <2>2, StackRemoveProperties
  <2> QED
    BY <1>3, <1>4, <2>1, <2>3 DEF Without
<1> QED
  BY <1>7, <1>8

LEMMA LetGoKeeps ==
  ASSUME IInv, NEW r \in Results, Top > 0, order[Top] = r,
         ClassOf[r] = "unsafe" => own[Top + 1] = <<>>,
         stack' = Released(r), result' = [result EXCEPT ![r] = Unmade], LetGo(r)
  PROVE  IInv'
<1>1. PICK t \in 0 .. Top : t = Top - 1 /\ t + 1 = Top /\ t \in Nat
  BY Positions
<1>2. PICK z : z = own[Top] \o own[Top + 1]
  OBVIOUS
<1>3. z \in Seq(Values) /\ Leaves(Values, stack', stack, End(t), z)
  <2>1. Without(stack', stack, result[order[Top]].index, result[order[Top]].popcount)
    BY ReleasedWithout
  <2> QED
    BY <1>1, <1>2, <2>1, WithoutLeaves
<1>4. order \in Seq(Results) /\ own \in Seq(Seq(Values)) /\ Len(order) = t + 1 /\ Len(own) = t + 2
  BY <1>1, Positions DEF IInv, TypeOK, Top
<1>5. /\ order' \in Seq(Results) /\ Len(order') = t
      /\ \A k \in 1 .. t : order'[k] = order[k]
  <2>1. order' = Pop(order, 1) /\ 1 \in 0 .. Len(order) /\ Len(order) - 1 = t
    BY <1>1, <1>4 DEF LetGo
  <2> QED
    BY <1>4, <2>1, PopProperties
<1>6. /\ own' \in Seq(Seq(Values)) /\ Len(own') = t + 1
      /\ \A k \in 1 .. t : own'[k] = own[k]
      /\ own'[t + 1] = z
  <2>1. PICK w : w = Pop(own, 2)
    OBVIOUS
  <2>2. own' = Append(w, z)
    BY <1>2, <2>1 DEF LetGo
  <2>3. 2 \in 0 .. Len(own) /\ Len(own) - 2 = t
    BY <1>1, <1>4
  <2>4. w \in Seq(Seq(Values)) /\ Len(w) = t /\ \A k \in 1 .. t : w[k] = own[k]
    BY <1>4, <2>1, <2>3, PopProperties
  <2>5. /\ own' \in Seq(Seq(Values)) /\ Len(own') = Len(w) + 1
        /\ \A k \in 1 .. Len(w) : own'[k] = w[k]
        /\ own'[Len(w) + 1] = z
    BY <1>3, <2>2, <2>4, AppendProperties2
  <2> QED
    BY <2>4, <2>5
<1>7. /\ result' \in [Results -> ResultType \cup {Unmade}] /\ result'[r] = Unmade
      /\ \A x \in Results : x # r => result'[x] = result[x]
  BY DEF IInv, TypeOK
<1>8. /\ given' \in [Results -> Seq(Values)]
      /\ \A x \in Results : x # r => given'[x] = given[x]
  BY DEF IInv, TypeOK, LetGo
<1>9. TypeOK' /\ Top' = t
  <2>1. stack' \in Seq(Values)
    BY <1>3 DEF Leaves
  <2> QED
    BY <1>5, <1>6, <1>7, <1>8, <2>1 DEF TypeOK, Top
<1>10. \A k \in 1 .. t : k \in 1 .. Top /\ k # Top
  BY <1>1
<1>11. ASSUME NEW k \in 1 .. t PROVE KeptAt(k)
  <2>1. order[k] \in Results /\ order[k] # r
    <3>1. Top \in 1 .. Top
      BY <1>1
    <3>2. order[k] # order[Top]
      BY <1>10, <3>1 DEF IInv, HeldOnce
    <3> QED
      BY <1>10, <3>2, Positions
  <2>2. /\ order'[k] = order[k] /\ result'[order[k]] = result[order[k]]
        /\ given'[order[k]] = given[order[k]] /\ own'[k] = own[k]
    BY <1>5, <1>6, <1>7, <1>8, <2>1
  <2> QED
    BY <1>10, <2>2 DEF IInv, NothingLost, HeldSound, KeptAt
<1>12. HeldOnce'
  <2>1. ASSUME NEW x \in Results, result'[x] # Unmade, ~ InOrder(x)'
        PROVE  result'[x].popcount = 0 /\ result'[x].returncount = 0
    <3>1. x # r /\ result'[x] = result[x]
      BY <1>7, <2>1
    <3>2. \A k \in 1 .. t : order[k] # x
      BY <1>5, <1>9, <2>1 DEF InOrder, Top
    <3>3. ASSUME NEW k \in 1 .. Top PROVE order[k] # x
      <4>1. k \in 1 .. t \/ k = Top
        BY <1>1
      <4> QED
        BY <3>1, <3>2, <4>1
    <3> QED
      BY <2>1, <3>1, <3>3 DEF IInv, HeldOnce, InOrder, Top
  <2>2. ASSUME NEW j \in 1 .. t, NEW k \in 1 .. t, order'[j] = order'[k] PROVE j = k
    BY <1>5, <1>10, <2>2 DEF IInv, HeldOnce
  <2> QED
    BY <1>9, <2>1, <2>2 DEF HeldOnce
<1> QED
  BY <1>1, <1>3, <1>6, <1>9, <1>11, <1>12, LayoutKeeps

--------------------------------------------------------------------------------
(* The calls *)

(* HoldKeeps for results above the whole stack. *)
LEMMA HoldAbove ==
  ASSUME IInv, NEW r \in Results, result[r] = Unmade, NEW vals \in Seq(Values),
         NEW rc \in Int, NEW ok \in BOOLEAN, ClassOf[r] = "unsafe" => rc = Len(vals),
         NEW k, k = Len(stack), NEW n, n = Len(vals),
         Leaves(Values, stack', stack, k, vals), Hold(r, 0, vals),
         result' = [result EXCEPT ![r] = Made(k + 1, rc, n, ok)]
  PROVE  IInv'
<1>1. Top + 1 \in 1 .. Top + 1
  BY Positions
<1>2. Len(own[Top + 1]) \in Nat /\ Len(stack) \in Nat
  BY <1>1, Positions
<1>3. 0 \in 0 .. Len(own[Top + 1]) /\ Len(stack) - 0 = Len(stack)
  BY <1>2
<1> QED
  BY <1>3, HoldKeeps

LEMMA Typed ==
  ASSUME IInv
  PROVE  stack \in Seq(Values) /\ stack \in Seq(OnStack) /\ Len(stack) \in Nat
<1>1. stack \in Seq(Values)
  BY DEF IInv, TypeOK
<1>2. Values \subseteq OnStack
  BY DEF OnStack
<1> QED
  BY <1>1, <1>2, SeqMonotonic

LEMMA CallProtectedKeeps ==
  ASSUME IInv, NEW r \in Results, NEW handled \in BOOLEAN, NEW n \in Nat, NEW o \in Outcomes,
         CallProtected(r, handled, n, o)
  PROVE  IInv'
<1>1. PICK q : q = IF handled THEN Append(stack, Handler) ELSE stack
  OBVIOUS
<1>2. PICK slot : slot = IF handled THEN Len(stack) + 1 ELSE 0
  OBVIOUS
<1>3. PICK k \in Nat : k = Len(stack)
  BY Typed
<1>4. /\ stack' = AfterCall(q \o Copies(Function, n + 1), n, slot, o)
      /\ result' = [result EXCEPT ![r] = ProtectedResult(q \o Copies(Function, n + 1), n, slot, o)]
      /\ Hold(r, 0, o.values) /\ ClassOf[r] = "protected" /\ result[r] = Unmade
  BY <1>1, <1>2 DEF CallProtected
<1>5. /\ q \in Seq(OnStack) /\ Len(q) - 0 = k + (IF slot # 0 THEN 1 ELSE 0)
      /\ slot \in {0, k + 1} /\ \A i \in 1 .. k : q[i] = stack[i]
  <2>1. Handler \in OnStack /\ stack \in Seq(OnStack)
    BY Typed DEF OnStack
  <2>2. CASE handled
    <3>1. /\ Append(stack, Handler) \in Seq(OnStack) /\ Len(Append(stack, Handler)) = Len(stack) + 1
          /\ \A i \in 1 .. Len(stack) : Append(stack, Handler)[i] = stack[i]
      BY <2>1, AppendProperties2
    <3> QED
      BY <1>1, <1>2, <1>3, <2>2, <3>1
  <2>3. CASE ~ handled
    BY <1>1, <1>2, <1>3, <2>1, <2>3
  <2> QED
    BY <2>2, <2>3
<1>6. /\ Leaves(Values, AfterCall(q \o Copies(Function, n + 1), n, slot, o), stack, k, o.values)
      /\ ProtectedResult(q \o Copies(Function, n + 1), n, slot, o) =
           Made(k + 1, Len(o.values), Len(o.values), o.ok)
  <2>1. k \in 0 .. Len(stack) /\ stack \in Seq(Values) /\ n + 1 \in Nat /\ n + 1 = (n + 1) + 0 /\ 0 \in {0, 1}
    BY <1>3, Typed
  <2> QED
    BY <1>5, <2>1, InvokeLeaves
<1>7. o.values \in Seq(Values) /\ Len(o.values) \in Int /\ o.ok \in BOOLEAN
  BY OutcomeValues
<1>8. /\ Leaves(Values, stack', stack, k, o.values)
      /\ result' = [result EXCEPT ![r] = Made(k + 1, Len(o.values), Len(o.values), o.ok)]
  BY <1>4, <1>6
<1>9. Hold(r, 0, o.values) /\ ClassOf[r] = "protected" /\ result[r] = Unmade
  BY <1>4
<1> QED
  BY <1>3, <1>7, <1>8, <1>9, HoldAbove

(* A function on top of the stack, with a handler put below it *)
LEMMA AlignedReadyProperties ==
  ASSUME NEW s \in Seq(OnStack), Len(s) > 0, NEW f \in OnStack
  PROVE  LET q == LuaReplace(s \o <<f, Handler>>, -3)
         IN /\ q \in Seq(OnStack) /\ Len(q) = Len(s) + 1
            /\ \A i \in 1 .. Len(s) - 1 : q[i] = s[i]
<1>1. PICK w : w = s \o <<f, Handler>>
  OBVIOUS
<1>2. <<f, Handler>> \in Seq(OnStack) /\ Len(<<f, Handler>>) = 2
  BY DEF OnStack
<1>3. /\ w \in Seq(OnStack) /\ Len(w) = Len(s) + 2
      /\ \A i \in 1 .. Len(s) + 2 : w[i] = IF i <= Len(s) THEN s[i] ELSE <<f, Handler>>[i - Len(s)]
  <2>1. /\ w \in Seq(OnStack) /\ Len(w) = Len(s) + Len(<<f, Handler>>)
        /\ \A i \in 1 .. Len(s) + Len(<<f, Handler>>) :
             w[i] = IF i <= Len(s) THEN s[i] ELSE <<f, Handler>>[i - Len(s)]
    BY <1>1, <1>2, ConcatProperties
  <2> QED
    BY <1>2, <2>1
<1>4. PICK m \in Nat \ {0} : m = Len(s)
  OBVIOUS
<1>5. AbsIndex(w, -3) = m /\ m \in 1 .. Len(w)
  BY <1>3, <1>4 DEF AbsIndex
<1>6. w[Len(w)] \in OnStack
  <2>1. Len(w) \in 1 .. Len(w)
    BY <1>3, <1>4
  <2> QED
    BY <1>3, <2>1, ElementOfSeq
<1>7. PICK v : v = [w EXCEPT ![m] = w[Len(w)]]
  OBVIOUS
<1>8. /\ v \in Seq(OnStack) /\ Len(v) = Len(w)
      /\ \A j \in 1 .. Len(w) : v[j] = IF j = m THEN w[Len(w)] ELSE w[j]
  BY <1>3, <1>5, <1>6, <1>7, ExceptSeq
<1>9. /\ Pop(v, 1) \in Seq(OnStack) /\ Len(Pop(v, 1)) = m + 1
      /\ \A i \in 1 .. m + 1 : Pop(v, 1)[i] = v[i]
  <2>1. 1 \in 0 .. Len(v) /\ Len(v) - 1 = m + 1
    BY <1>3, <1>4, <1>8
  <2> QED
    BY <1>8, <2>1, PopProperties
<1>10. ASSUME NEW i \in 1 .. m - 1 PROVE Pop(v, 1)[i] = s[i]
  <2>1. i \in 1 .. m + 1 /\ i # m /\ i <= m /\ i \in 1 .. m + 2
    BY <1>4
  <2> QED
    BY <1>3, <1>4, <1>8, <1>9, <2>1
<1>11. LuaReplace(w, -3) = Pop(v, 1)
  BY <1>5, <1>7 DEF LuaReplace
<1> QED
  BY <1>1, <1>4, <1>9, <1>10, <1>11

(* invoke on the function on top of s, above k values of the stack *)
LEMMA AlignedLeaves ==
  ASSUME NEW b \in Seq(Values), NEW k \in Nat, k <= Len(b), NEW s \in Seq(OnStack),
         Len(s) = k + 1, \A i \in 1 .. k : s[i] = b[i],
         NEW f \in OnStack, NEW handled \in BOOLEAN, NEW n \in Nat, NEW o \in Outcomes
  PROVE  LET ready == AlignedReady(s, f, handled, n)
             slot == AlignedSlot(s, handled)
         IN /\ Leaves(Values, AfterCall(ready, n, slot, o), b, k, o.values)
            /\ ProtectedResult(ready, n, slot, o) = Made(k + 1, Len(o.values), Len(o.values), o.ok)
<1>1. PICK q : q = IF handled THEN LuaReplace(s \o <<f, Handler>>, -3) ELSE s
  OBVIOUS
<1>2. PICK slot : slot = AlignedSlot(s, handled)
  OBVIOUS
<1>3. AlignedReady(s, f, handled, n) = q \o Copies(Function, n)
  BY <1>1 DEF AlignedReady
<1>4. /\ q \in Seq(OnStack) /\ Len(q) - 1 = k + (IF slot # 0 THEN 1 ELSE 0)
      /\ slot \in {0, k + 1} /\ \A i \in 1 .. k : q[i] = b[i]
  <2>1. Len(s) > 0 /\ Len(s) - 1 = k
    OBVIOUS
  <2>2. CASE handled
    <3>1. /\ q \in Seq(OnStack) /\ Len(q) = Len(s) + 1
          /\ \A i \in 1 .. Len(s) - 1 : q[i] = s[i]
      BY <1>1, <2>1, <2>2, AlignedReadyProperties
    <3>2. slot = k + 1
      BY <1>2, <2>2 DEF AlignedSlot
    <3>3. \A i \in 1 .. k : q[i] = b[i]
      BY <2>1, <3>1
    <3> QED
      BY <3>1, <3>2, <3>3
  <2>3. CASE ~ handled
    BY <1>1, <1>2, <2>1, <2>3 DEF AlignedSlot
  <2> QED
    BY <2>2, <2>3
<1>5. k \in 0 .. Len(b) /\ n + 1 = n + 1 /\ 1 \in {0, 1}
  OBVIOUS
<1>6. /\ Leaves(Values, AfterCall(q \o Copies(Function, n), n, slot, o), b, k, o.values)
      /\ ProtectedResult(q \o Copies(Function, n), n, slot, o) =
           Made(k + 1, Len(o.values), Len(o.values), o.ok)
  BY <1>4, <1>5, InvokeLeaves
<1> QED
  BY <1>2, <1>3, <1>6

LEMMA CallAlignedKeeps ==
  ASSUME IInv, NEW r \in Results, NEW handled \in BOOLEAN, NEW n \in Nat, NEW o \in Outcomes,
         CallAligned(r, handled, n, o)
  PROVE  IInv'
<1>1. Top + 1 \in 1 .. Top + 1 /\ Top \in 0 .. Top
  BY Positions
<1>2. own[Top + 1] \in Seq(Values) /\ own[Top + 1] # <<>>
  BY <1>1, Positions DEF CallAligned
<1>3. Len(own[Top + 1]) \in Nat \ {0}
  BY <1>2, EmptySeq
<1>4. 1 \in 0 .. Len(own[Top + 1]) /\ Len(stack) \in Nat \ {0}
  <2>1. Len(stack) = End(Top) + Len(own[Top + 1]) /\ End(Top) \in Nat
    BY <1>1, Positions
  <2> QED
    BY <1>3, <2>1
<1>5. PICK k \in Nat : k = Len(stack) - 1 /\ Len(stack) = k + 1 /\ k <= Len(stack)
  <2>1. PICK m \in Nat \ {0} : m = Len(stack)
    BY <1>4
  <2>2. m - 1 \in Nat /\ m = (m - 1) + 1 /\ m - 1 <= m
    OBVIOUS
  <2> QED
    BY <2>1, <2>2
<1>6. PICK f \in OnStack : f = stack[Len(stack)]
  <2>1. Len(stack) \in 1 .. Len(stack)
    BY <1>4
  <2> QED
    BY <2>1, Typed, ElementOfSeq
<1>7. /\ stack' = AfterCall(AlignedReady(stack, f, handled, n), n, AlignedSlot(stack, handled), o)
      /\ result' = [result EXCEPT ![r] =
           ProtectedResult(AlignedReady(stack, f, handled, n), n, AlignedSlot(stack, handled), o)]
      /\ Hold(r, 1, o.values) /\ ClassOf[r] = "protected" /\ result[r] = Unmade
  BY <1>6 DEF CallAligned
<1>8. /\ Leaves(Values, stack', stack, k, o.values)
      /\ result' = [result EXCEPT ![r] = Made(k + 1, Len(o.values), Len(o.values), o.ok)]
  <2>1. \A i \in 1 .. k : stack[i] = stack[i]
    OBVIOUS
  <2>2. /\ Leaves(Values,
                 AfterCall(AlignedReady(stack, f, handled, n), n, AlignedSlot(stack, handled), o),
                 stack, k, o.values)
        /\ ProtectedResult(AlignedReady(stack, f, handled, n), n, AlignedSlot(stack, handled), o) =
             Made(k + 1, Len(o.values), Len(o.values), o.ok)
    BY <1>5, <2>1, Typed, AlignedLeaves
  <2> QED
    BY <1>7, <2>2
<1>9. o.values \in Seq(Values) /\ Len(o.values) \in Int /\ o.ok \in BOOLEAN
  BY OutcomeValues
<1> QED
  BY <1>4, <1>5, <1>7, <1>8, <1>9, HoldKeeps

LEMMA NoCopies ==
  ASSUME NEW q \in Seq(OnStack)
  PROVE  q \o Copies(Function, 0) = q
<1>1. Copies(Function, 0) \in Seq(OnStack) /\ Len(Copies(Function, 0)) = 0
  BY CopiesProperties DEF OnStack
<1>2. Copies(Function, 0) = <<>>
  BY <1>1, EmptySeq
<1> QED
  BY <1>2, ConcatEmptySeq

(* A call with the function and its arguments already on the stack *)
LEMMA PlainCall ==
  ASSUME NEW q \in Seq(OnStack), NEW n \in Nat, NEW j \in Nat, j + n + 1 = Len(q), NEW o \in Outcomes
  PROVE  Leaves(OnStack, LuaCall(q, n, o.values), q, j, o.values)
<1>1. 0 \in Nat /\ 0 <= n + 1 /\ j + n + 1 = Len(q) + 0
  OBVIOUS
<1>2. Leaves(OnStack, LuaCall(q \o Copies(Function, 0), n, o.values), q, j, o.values)
  BY <1>1, OutcomeOnStack
<1> QED
  BY <1>2, NoCopies

LEMMA ConcatLeaves ==
  ASSUME NEW s \in Seq(Values), NEW y \in Seq(Values)
  PROVE  Leaves(Values, s \o y, s, Len(s), y)
<1>1. /\ s \o y \in Seq(Values) /\ Len(s \o y) = Len(s) + Len(y)
      /\ \A i \in 1 .. Len(s) + Len(y) :
           (s \o y)[i] = IF i <= Len(s) THEN s[i] ELSE y[i - Len(s)]
  BY ConcatProperties
<1>2. Len(s) \in Nat /\ Len(y) \in Nat
  OBVIOUS
<1>3. \A i \in 1 .. Len(s) : (s \o y)[i] = s[i]
  BY <1>1, <1>2
<1>4. ASSUME NEW i \in 1 .. Len(y) PROVE (s \o y)[Len(s) + i] = y[i]
  <2>1. Len(s) + i \in 1 .. Len(s) + Len(y) /\ ~ (Len(s) + i <= Len(s)) /\ (Len(s) + i) - Len(s) = i
    BY <1>2
  <2> QED
    BY <1>1, <2>1
<1> QED
  BY <1>1, <1>3, <1>4 DEF Leaves

LEMMA CallUnsafeKeeps ==
  ASSUME IInv, NEW r \in Results, NEW n \in Nat, NEW o \in Outcomes, CallUnsafe(r, n, o)
  PROVE  IInv'
<1>1. PICK k \in Nat : k = Len(stack)
  BY Typed
<1>2. PICK ready : ready = stack \o Copies(Function, n + 1)
  OBVIOUS
<1>3. PICK c : c = LuaCall(ready, n, o.values)
  OBVIOUS
<1>4. o.values \in Seq(Values) /\ Len(o.values) \in Nat
  BY OutcomeValues
<1>5. Leaves(OnStack, c, stack, k, o.values)
  <2>1. n + 1 \in Nat /\ n + 1 <= n + 1 /\ k + n + 1 = Len(stack) + (n + 1)
    BY <1>1
  <2> QED
    BY <1>2, <1>3, <2>1, Typed, OutcomeOnStack
<1>6. Leaves(Values, c, stack, k, o.values)
  <2>1. /\ c \in Seq(OnStack) /\ Len(c) = k + Len(o.values)
        /\ \A i \in 1 .. k : c[i] = stack[i]
        /\ \A i \in 1 .. Len(o.values) : c[k + i] = o.values[i]
    BY <1>5 DEF Leaves
  <2>2. k \in 0 .. Len(stack)
    BY <1>1
  <2> QED
    BY <1>4, <2>1, <2>2, Typed, LeavesTyped
<1>7. Len(ready) = k + (n + 1)
  <2>1. Function \in OnStack /\ n + 1 \in Nat
    BY DEF OnStack
  <2>2. Copies(Function, n + 1) \in Seq(OnStack) /\ Len(Copies(Function, n + 1)) = n + 1
    BY <2>1, CopiesProperties
  <2>3. Len(stack \o Copies(Function, n + 1)) = Len(stack) + Len(Copies(Function, n + 1))
    BY <2>2, Typed, ConcatProperties
  <2> QED
    BY <1>1, <1>2, <2>2, <2>3
<1>8. UnsafeResult(ready, n, o.values) = Made(k + 1, Len(o.values), Len(o.values), TRUE)
  <2>1. Larger(1, Len(ready) - n) = k + 1
    BY <1>7 DEF Larger
  <2>2. Len(c) - ((k + 1) - 1) = Len(o.values)
    BY <1>4, <1>6 DEF Leaves
  <2> QED
    BY <1>3, <2>1, <2>2 DEF UnsafeResult
<1>9. /\ stack' = c /\ result' = [result EXCEPT ![r] = UnsafeResult(ready, n, o.values)]
      /\ Hold(r, 0, o.values) /\ ClassOf[r] = "unsafe" /\ result[r] = Unmade
  BY <1>2, <1>3 DEF CallUnsafe
<1>10. /\ Leaves(Values, stack', stack, k, o.values)
       /\ result' = [result EXCEPT ![r] = Made(k + 1, Len(o.values), Len(o.values), TRUE)]
  BY <1>6, <1>8, <1>9
<1>11. Hold(r, 0, o.values) /\ result[r] = Unmade
  BY <1>9
<1>12. Len(o.values) \in Int /\ TRUE \in BOOLEAN
  BY <1>4
<1> QED
  BY <1>1, <1>4, <1>10, <1>11, <1>12, HoldAbove

LEMMA UnsafeScriptKeeps ==
  ASSUME IInv, NEW r \in Results, NEW o \in Outcomes, UnsafeScript(r, o)
  PROVE  IInv'
<1>1. PICK k \in Nat : k = Len(stack)
  BY Typed
<1>2. PICK q : q = Append(stack, Function)
  OBVIOUS
<1>3. PICK c : c = LuaCall(q, 0, o.values)
  OBVIOUS
<1>4. o.values \in Seq(Values) /\ Len(o.values) \in Nat
  BY OutcomeValues
<1>5. /\ q \in Seq(OnStack) /\ Len(q) = k + 1 /\ \A i \in 1 .. k : q[i] = stack[i]
  BY <1>1, <1>2, Typed, AppendProperties2 DEF OnStack
<1>6. Leaves(OnStack, c, q, k, o.values)
  <2>1. 0 \in Nat /\ k + 0 + 1 = Len(q)
    BY <1>5
  <2> QED
    BY <1>3, <1>5, <2>1, PlainCall
<1>7. Leaves(Values, c, stack, k, o.values)
  <2>1. \A i \in 1 .. k : c[i] = stack[i]
    BY <1>5, <1>6 DEF Leaves
  <2>2. c \in Seq(OnStack) /\ Len(c) = k + Len(o.values)
        /\ \A i \in 1 .. Len(o.values) : c[k + i] = o.values[i]
    BY <1>6 DEF Leaves
  <2>3. k \in 0 .. Len(stack)
    BY <1>1
  <2> QED
    BY <1>4, <2>1, <2>2, <2>3, Typed, LeavesTyped
<1>8. PICK m \in Nat : m = Len(o.values)
  BY <1>4
<1>9. Len(c) = k + m /\ Len(c) - Len(stack) = m
  BY <1>1, <1>7, <1>8 DEF Leaves
<1>10. Larger(Len(c) - (m - 1), 1) = k + 1
  BY <1>9 DEF Larger
<1>11. /\ stack' = c
       /\ result' = [result EXCEPT ![r] = Made(Larger(Len(c) - (m - 1), 1), m, m, TRUE)]
       /\ Hold(r, 0, o.values) /\ ClassOf[r] = "unsafe" /\ result[r] = Unmade
  BY <1>2, <1>3, <1>9 DEF UnsafeScript
<1>12. /\ Leaves(Values, stack', stack, k, o.values)
       /\ result' = [result EXCEPT ![r] = Made(k + 1, m, m, TRUE)]
  BY <1>7, <1>10, <1>11
<1>13. Hold(r, 0, o.values) /\ result[r] = Unmade
  BY <1>11
<1>14. m \in Int /\ TRUE \in BOOLEAN
  BY <1>8
<1> QED
  BY <1>1, <1>4, <1>8, <1>12, <1>13, <1>14, HoldAbove

LEMMA DoStringKeeps ==
  ASSUME IInv, NEW r \in Results, NEW compiles \in BOOLEAN, NEW handled \in BOOLEAN,
         NEW o \in Outcomes, DoString(r, compiles, handled, o)
  PROVE  IInv'
<1>1. PICK k \in Nat : k = Len(stack)
  BY Typed
<1>2. PICK q : q = Append(stack, Function)
  OBVIOUS
<1>3. o.values \in Seq(Values) /\ Len(o.values) \in Nat /\ o.ok \in BOOLEAN
      /\ (~ o.ok => Len(o.values) = 1)
  BY OutcomeValues
<1>4. Hold(r, 0, o.values) /\ ClassOf[r] = "protected" /\ result[r] = Unmade
  BY DEF DoString
<1>5. CASE compiles
  <2>1. /\ q \in Seq(OnStack) /\ Len(q) = k + 1 /\ \A i \in 1 .. k : q[i] = stack[i]
    BY <1>1, <1>2, Typed, AppendProperties2 DEF OnStack
  <2>2. k <= Len(stack) /\ Function \in OnStack /\ 0 \in Nat
    BY <1>1 DEF OnStack
  <2>3. /\ Leaves(Values, AfterCall(AlignedReady(q, Function, handled, 0), 0, AlignedSlot(q, handled), o),
                  stack, k, o.values)
        /\ ProtectedResult(AlignedReady(q, Function, handled, 0), 0, AlignedSlot(q, handled), o) =
             Made(k + 1, Len(o.values), Len(o.values), o.ok)
    BY <2>1, <2>2, Typed, AlignedLeaves
  <2>4. /\ stack' = AfterCall(AlignedReady(q, Function, handled, 0), 0, AlignedSlot(q, handled), o)
        /\ result' = [result EXCEPT ![r] =
             ProtectedResult(AlignedReady(q, Function, handled, 0), 0, AlignedSlot(q, handled), o)]
    BY <1>2, <1>5 DEF DoString
  <2>5. /\ Leaves(Values, stack', stack, k, o.values)
        /\ result' = [result EXCEPT ![r] = Made(k + 1, Len(o.values), Len(o.values), o.ok)]
    BY <2>3, <2>4
  <2>6. Len(o.values) \in Int
    BY <1>3
  <2> QED
    BY <1>1, <1>3, <1>4, <2>5, <2>6, HoldAbove
<1>6. CASE ~ compiles
  <2>1. /\ stack' = stack \o o.values /\ ~ o.ok
        /\ result' = [result EXCEPT ![r] = Made(AbsIndex(stack', -1), 0, 1, FALSE)]
    BY <1>6 DEF DoString
  <2>2. Leaves(Values, stack', stack, Len(stack), o.values)
    BY <1>3, <2>1, Typed, ConcatLeaves
  <2>3. Len(stack') = k + 1 /\ Len(o.values) = 1
    BY <1>1, <1>3, <2>1, <2>2 DEF Leaves
  <2>4. AbsIndex(stack', -1) = k + 1
    BY <2>3 DEF AbsIndex
  <2>5. ClassOf[r] = "unsafe" => 0 = Len(o.values)
    BY <1>4
  <2>6. /\ Leaves(Values, stack', stack, k, o.values)
        /\ result' = [result EXCEPT ![r] = Made(k + 1, 0, 1, FALSE)]
    BY <1>1, <2>1, <2>2, <2>4
  <2>7. 0 \in Int /\ FALSE \in BOOLEAN
    OBVIOUS
  <2> QED
    BY <1>1, <1>3, <1>4, <2>3, <2>5, <2>6, <2>7, HoldAbove
<1> QED
  BY <1>5, <1>6

LEMMA LoadKeeps ==
  ASSUME IInv, NEW r \in Results, NEW v \in Values, NEW ok \in BOOLEAN, Load(r, v, ok)
  PROVE  IInv'
<1>1. PICK k \in Nat : k = Len(stack)
  BY Typed
<1>2. <<v>> \in Seq(Values) /\ Len(<<v>>) = 1
  OBVIOUS
<1>3. stack' = stack \o <<v>>
  BY Typed, AppendIsConcat DEF Load
<1>4. Leaves(Values, stack', stack, Len(stack), <<v>>)
  BY <1>2, <1>3, Typed, ConcatLeaves
<1>5. Len(stack') = k + 1
  BY <1>1, <1>2, <1>4 DEF Leaves
<1>6. AbsIndex(stack', -1) = k + 1
  BY <1>5 DEF AbsIndex
<1>7. /\ result' = [result EXCEPT ![r] = Made(AbsIndex(stack', -1), 1, 1, ok)]
      /\ Hold(r, 0, <<v>>) /\ ClassOf[r] = "load" /\ result[r] = Unmade
  BY DEF Load
<1>8. /\ Leaves(Values, stack', stack, k, <<v>>)
      /\ result' = [result EXCEPT ![r] = Made(k + 1, 1, 1, ok)]
  BY <1>1, <1>4, <1>6, <1>7
<1>9. 1 \in Int
  OBVIOUS
<1> QED
  BY <1>1, <1>2, <1>7, <1>8, <1>9, HoldAbove

--------------------------------------------------------------------------------
(* Calls that keep no result leave the stack as they found it. *)

LEMMA CallTypedKeeps ==
  ASSUME IInv, NEW handled \in BOOLEAN, NEW n \in Nat, NEW o \in Outcomes,
         CallTyped(handled, n, o)
  PROVE  IInv'
<1>1. PICK k \in Nat : k = Len(stack)
  BY Typed
<1>2. PICK q : q = IF handled THEN Append(stack, Handler) ELSE stack
  OBVIOUS
<1>3. /\ q \in Seq(OnStack) /\ Len(q) = k + (IF handled THEN 1 ELSE 0)
      /\ \A i \in 1 .. k : q[i] = stack[i]
  <2>1. CASE handled
    <3>1. Handler \in OnStack
      BY DEF OnStack
    <3>2. /\ Append(stack, Handler) \in Seq(OnStack) /\ Len(Append(stack, Handler)) = Len(stack) + 1
          /\ \A i \in 1 .. Len(stack) : Append(stack, Handler)[i] = stack[i]
      BY <3>1, Typed, AppendProperties2
    <3> QED
      BY <1>1, <1>2, <2>1, <3>2
  <2>2. CASE ~ handled
    BY <1>1, <1>2, <2>2, Typed
  <2> QED
    BY <2>1, <2>2
<1>4. PICK j \in Nat : j = Len(q)
  BY <1>3
<1>5. PICK c : c = LuaCall(q \o <<Function>>, 0, o.values)
  OBVIOUS
<1>6. o.values \in Seq(Values) /\ Len(o.values) = n
  BY OutcomeValues DEF CallTyped
<1>7. Leaves(OnStack, c, q, j, o.values)
  <2>1. Function \in OnStack /\ <<Function>> \in Seq(OnStack) /\ Len(<<Function>>) = 1
    BY DEF OnStack
  <2>2. Append(q, Function) = q \o <<Function>>
    BY <1>3, <2>1, AppendIsConcat
  <2>3. /\ Append(q, Function) \in Seq(OnStack) /\ Len(Append(q, Function)) = Len(q) + 1
        /\ \A i \in 1 .. Len(q) : Append(q, Function)[i] = q[i]
    BY <1>3, <2>1, AppendProperties2
  <2>4. 0 \in Nat /\ j + 0 + 1 = Len(Append(q, Function))
    BY <1>4, <2>3
  <2>5. Leaves(OnStack, c, Append(q, Function), j, o.values)
    BY <1>5, <2>2, <2>3, <2>4, PlainCall
  <2> QED
    BY <1>4, <2>3, <2>5 DEF Leaves
<1>8. PICK p : p = Pop(c, n)
  OBVIOUS
<1>9. p = q
  <2>1. c \in Seq(OnStack) /\ Len(c) = j + n /\ \A i \in 1 .. j : c[i] = q[i]
    BY <1>6, <1>7 DEF Leaves
  <2>2. n \in 0 .. Len(c) /\ Len(c) - n = j
    BY <2>1
  <2>3. p \in Seq(OnStack) /\ Len(p) = j /\ \A i \in 1 .. j : p[i] = c[i]
    BY <1>8, <2>1, <2>2, PopProperties
  <2>4. Len(p) = Len(q) /\ \A i \in 1 .. Len(p) : p[i] = q[i]
    BY <1>4, <2>1, <2>3
  <2> QED
    BY <1>3, <2>3, <2>4, SeqEqual
<1>10. stack' = IF handled THEN LuaRemove(p, Len(stack) + 1) ELSE p
  <2>1. (IF handled THEN Append(stack, Handler) ELSE stack) \o <<Function>> = q \o <<Function>>
    BY <1>2
  <2> QED
    BY <1>2, <1>5, <1>8, <2>1 DEF CallTyped
<1>11. stack' = stack
  <2>1. CASE handled
    <3>1. k + 1 \in 1 .. Len(q) /\ Len(q) = k + 1
      BY <1>3, <2>1
    <3>2. /\ LuaRemove(q, k + 1) \in Seq(OnStack)
          /\ Len(LuaRemove(q, k + 1)) = Len(q) - 1
          /\ \A i \in 1 .. (k + 1) - 1 : LuaRemove(q, k + 1)[i] = q[i]
      BY <1>3, <3>1, RemoveProperties
    <3>3. PICK w : w = LuaRemove(q, k + 1)
      OBVIOUS
    <3>4. w \in Seq(OnStack) /\ Len(w) = k /\ \A i \in 1 .. k : w[i] = stack[i]
      BY <1>3, <3>1, <3>2, <3>3
    <3>5. w = stack
      BY <1>1, <3>4, Typed, SeqEqual
    <3> QED
      BY <1>1, <1>9, <1>10, <2>1, <3>3, <3>5
  <2>2. CASE ~ handled
    BY <1>2, <1>9, <1>10, <2>2
  <2> QED
    BY <2>1, <2>2
<1>12. UNCHANGED vars
  BY <1>11 DEF CallTyped, vars
<1> QED
  BY <1>12, UnchangedKeeps

LEMMA RemoveLast ==
  ASSUME NEW s \in Seq(OnStack), NEW b \in Seq(OnStack), Len(s) = Len(b) + 1,
         \A i \in 1 .. Len(b) : s[i] = b[i]
  PROVE  StackRemove(s, Len(b) + 1, 1) = b
<1>1. PICK k \in Nat : k = Len(b)
  OBVIOUS
<1>2. k + 1 \in Nat \ {0} /\ 1 \in Nat /\ (k + 1) + 1 - 1 <= Len(s)
  BY <1>1
<1>3. /\ StackRemove(s, k + 1, 1) \in Seq(OnStack)
      /\ Len(StackRemove(s, k + 1, 1)) = Len(s) - 1
      /\ \A j \in 1 .. (k + 1) - 1 : StackRemove(s, k + 1, 1)[j] = s[j]
  BY <1>2, StackRemoveProperties
<1>4. PICK w : w = StackRemove(s, k + 1, 1)
  OBVIOUS
<1>5. w \in Seq(OnStack) /\ Len(w) = Len(b) /\ \A j \in 1 .. Len(w) : w[j] = b[j]
  <2>1. (k + 1) - 1 = k /\ Len(s) - 1 = k
    BY <1>1
  <2> QED
    BY <1>1, <1>3, <1>4, <2>1
<1> QED
  BY <1>1, <1>4, <1>5, SeqEqual

LEMMA ScriptThrowsKeeps ==
  ASSUME IInv, NEW o \in Outcomes, ScriptThrows(o)
  PROVE  IInv'
<1>1. o.values \in Seq(Values) /\ Len(o.values) = 1
  BY OutcomeValues DEF ScriptThrows
<1>2. PICK s : s = stack \o o.values
  OBVIOUS
<1>3. s \in Seq(OnStack) /\ Len(s) = Len(stack) + 1 /\ \A i \in 1 .. Len(stack) : s[i] = stack[i]
  <2>1. Leaves(Values, s, stack, Len(stack), o.values)
    BY <1>1, <1>2, Typed, ConcatLeaves
  <2>2. Values \subseteq OnStack
    BY DEF OnStack
  <2> QED
    BY <1>1, <2>1, <2>2, SeqMonotonic DEF Leaves
<1>4. StackRemove(s, Len(stack) + 1, 1) = stack
  BY <1>3, Typed, RemoveLast
<1>5. PICK t : t = Append(stack, Function)
  OBVIOUS
<1>6. t \in Seq(OnStack) /\ Len(t) = Len(stack) + 1 /\ \A i \in 1 .. Len(stack) : t[i] = stack[i]
  <2>1. Function \in OnStack
    BY DEF OnStack
  <2> QED
    BY <1>5, <2>1, Typed, AppendProperties2
<1>7. StackRemove(t, Len(stack) + 1, 1) = stack
  BY <1>6, Typed, RemoveLast
<1>8. stack' = StackRemove(Append(StackRemove(stack \o o.values, Len(stack) + 1, 1), Function),
                           Len(stack) + 1, 1)
  BY DEF ScriptThrows, Made
<1>9. stack' = stack
  BY <1>2, <1>4, <1>5, <1>7, <1>8
<1>10. UNCHANGED vars
  BY <1>9 DEF ScriptThrows, vars
<1> QED
  BY <1>10, UnchangedKeeps

--------------------------------------------------------------------------------
(* Result objects *)

LEMMA DefaultKeeps ==
  ASSUME IInv, NEW r \in Results, Default(r)
  PROVE  IInv'
<1>1. \A k \in 1 .. Top : order[k] # r
  BY UnmadeIdle DEF Default
<1>2. Blank \in ResultType \cup {Unmade} /\ Blank.popcount = 0 /\ Blank.returncount = 0
  BY DEF Blank, ResultType
<1>3. result' = [result EXCEPT ![r] = Blank] /\ UNCHANGED <<stack, order, own, given>>
  BY DEF Default
<1> QED
  BY <1>1, <1>2, <1>3, IdleKeeps

LEMMA DestroyKeeps ==
  ASSUME IInv, NEW r \in Results, Destroy(r)
  PROVE  IInv'
<1>1. /\ result[r] # Unmade /\ stack' = Released(r)
      /\ result' = [result EXCEPT ![r] = Unmade]
  BY DEF Destroy
<1>2. CASE ~ InOrder(r) /\ UNCHANGED <<order, own, given>>
  <2>1. \A k \in 1 .. Top : order[k] # r
    BY <1>2 DEF InOrder, Top
  <2>2. result[r].popcount = 0 /\ result[r].returncount = 0
    BY <1>1, <1>2 DEF IInv, HeldOnce
  <2>3. Pop(stack, 0) = stack
    <3>1. 0 \in 0 .. Len(stack) /\ Len(stack) - 0 = Len(stack)
      BY Typed
    <3>2. /\ Pop(stack, 0) \in Seq(Values) /\ Len(Pop(stack, 0)) = Len(stack) - 0
          /\ \A i \in 1 .. Len(stack) - 0 : Pop(stack, 0)[i] = stack[i]
      BY <3>1, Typed, PopProperties
    <3>3. Len(Pop(stack, 0)) = Len(stack) /\ \A i \in 1 .. Len(Pop(stack, 0)) : Pop(stack, 0)[i] = stack[i]
      BY <3>1, <3>2
    <3> QED
      BY <3>2, <3>3, Typed, SeqEqual
  <2>4. stack' = stack
    BY <1>1, <2>2, <2>3 DEF Released, StackRemove
  <2>5. Unmade \in ResultType \cup {Unmade}
    OBVIOUS
  <2> QED
    BY <1>1, <1>2, <2>1, <2>4, <2>5, IdleKeeps
<1>3. CASE Top > 0 /\ order[Top] = r /\ (ClassOf[r] = "unsafe" => own[Top + 1] = <<>>) /\ LetGo(r)
  BY <1>1, <1>3, LetGoKeeps
<1> QED
  BY <1>2, <1>3 DEF Destroy

LEMMA MoveConstructKeeps ==
  ASSUME IInv, Corners = {}, NEW d \in Results, NEW s \in Results, MoveConstruct(d, s)
  PROVE  IInv'
<1>1. \A k \in 1 .. Top : order[k] # d
  BY UnmadeIdle DEF MoveConstruct
<1>2. /\ d # s /\ Converts(d, s) /\ PassOn(d, s) /\ UNCHANGED <<stack, own>>
      /\ result' = [result EXCEPT ![d] = Taken(d, s), ![s] = Abandoned(s)]
  BY DEF MoveConstruct
<1> QED
  BY <1>1, <1>2, MoveKeeps

LEMMA MoveAssignKeeps ==
  ASSUME IInv, Corners = {},
         NEW d \in Results, NEW s \in Results, MoveAssign(d, s)
  PROVE  IInv'
<1>1. ~ InOrder(d)
  BY DEF MoveAssign
<1>2. \A k \in 1 .. Top : order[k] # d
  BY <1>1 DEF InOrder, Top
<1>3. /\ d # s /\ Converts(d, s) /\ PassOn(d, s) /\ UNCHANGED <<stack, own>>
      /\ result' = [result EXCEPT ![d] = Taken(d, s), ![s] = Abandoned(s)]
  BY <1>1 DEF MoveAssign
<1> QED
  BY <1>2, <1>3, MoveKeeps

--------------------------------------------------------------------------------
(* The invariant *)

LEMMA InitInv == Init => IInv
<1> SUFFICES ASSUME Init PROVE IInv
  OBVIOUS
<1>1. /\ stack = <<>> /\ result = [r \in Results |-> Unmade] /\ order = <<>>
      /\ own = <<<<>>>> /\ given = [r \in Results |-> <<>>]
  BY DEF Init
<1>2. Top = 0 /\ Len(own) = 1 /\ own[1] = <<>> /\ Len(stack) = 0
  BY <1>1 DEF Top
<1>3. TypeOK
  BY <1>1, <1>2 DEF TypeOK, Top
<1>4. End(0) = 0
  BY DEF End
<1>5. Ascending /\ NothingLost /\ ResultsKeepValues /\ HeldOnce /\ HeldSound
  <2>1. Ascending
    BY <1>2, <1>4 DEF Ascending
  <2>2. NothingLost
    BY <1>2, <1>4 DEF NothingLost
  <2>3. ResultsKeepValues /\ HeldSound
    BY <1>2 DEF ResultsKeepValues, HeldSound
  <2>4. HeldOnce
    BY <1>1, <1>2 DEF HeldOnce
  <2> QED
    BY <2>1, <2>2, <2>3, <2>4
<1>6. OwnValuesKept
  <2>1. \A k \in 1 .. Top + 1 : k = 1
    BY <1>2
  <2> QED
    BY <1>2, <2>1 DEF OwnValuesKept
<1> QED
  BY <1>3, <1>5, <1>6 DEF IInv

LEMMA StepInv ==
  ASSUME Corners = {}, IInv, [Next]_vars
  PROVE  IInv'
<1>1. 0 .. MaxArgs \subseteq Nat /\ 0 .. MaxReturns \subseteq Nat
  BY CallAssumption
<1>2. CASE \E r \in Results, handled \in BOOLEAN, n \in 0 .. MaxArgs, o \in Outcomes :
             CallProtected(r, handled, n, o) \/ CallAligned(r, handled, n, o)
  BY <1>1, <1>2, CallProtectedKeeps, CallAlignedKeeps
<1>3. CASE \E r \in Results, n \in 0 .. MaxArgs, o \in Outcomes : CallUnsafe(r, n, o)
  BY <1>1, <1>3, CallUnsafeKeeps
<1>4. CASE \E r \in Results, o \in Outcomes : UnsafeScript(r, o)
  BY <1>4, UnsafeScriptKeeps
<1>5. CASE \E handled \in BOOLEAN, n \in 0 .. MaxReturns, o \in Outcomes : CallTyped(handled, n, o)
  BY <1>1, <1>5, CallTypedKeeps
<1>6. CASE \E r \in Results, compiles, handled \in BOOLEAN, o \in Outcomes :
             DoString(r, compiles, handled, o)
  BY <1>6, DoStringKeeps
<1>7. CASE \E o \in Outcomes : ScriptThrows(o)
  BY <1>7, ScriptThrowsKeeps
<1>8. CASE \E r \in Results, v \in Values, ok \in BOOLEAN : Load(r, v, ok)
  BY <1>8, LoadKeeps
<1>9. CASE \E r \in Results : Default(r) \/ Destroy(r) \/ PushResult(r)
  BY <1>9, DefaultKeeps, DestroyKeeps, PushResultKeeps
<1>10. CASE \E d, s \in Results : MoveConstruct(d, s) \/ MoveAssign(d, s)
  BY <1>10, MoveConstructKeeps, MoveAssignKeeps
<1>11. CASE \E v \in Values : PushOwn(v)
  BY <1>11, PushOwnKeeps
<1>12. CASE PopOwn
  BY <1>12, PopOwnKeeps
<1>13. CASE UNCHANGED vars
  BY <1>13, UnchangedKeeps
<1> QED
  BY <1>2, <1>3, <1>4, <1>5, <1>6, <1>7, <1>8, <1>9, <1>10, <1>11, <1>12, <1>13 DEF Next

(* The invariant holds in every program that takes none of the corners: it  *)
(* assigns over no result that holds values, and makes no unsafe result of a *)
(* chunk that did not compile.                                              *)
THEOREM Invariance == Corners = {} => (Spec => []IInv)
<1> SUFFICES ASSUME Corners = {} PROVE Spec => []IInv
  OBVIOUS
<1>1. Init => IInv
  BY InitInv
<1>2. IInv /\ [Next]_vars => IInv'
  BY StepInv
<1> QED
  BY <1>1, <1>2, PTL DEF Spec

(* Type correctness: nothing that is removed from the stack, by a result's  *)
(* destructor or by a call, leaves a handler or a function of the call      *)
(* behind among the program's values.                                       *)
THEOREM TypeCorrect == Corners = {} => (Spec => []TypeOK)
<1>1. IInv => TypeOK
  BY DEF IInv
<1> QED
  BY <1>1, Invariance, PTL

(* The stack holds the values of the live results and the program's own,    *)
(* and nothing else: no call and no destructor leaks or underflows it.      *)
THEOREM StackAccounted == Corners = {} => (Spec => []NothingLost)
<1>1. IInv => NothingLost
  BY DEF IInv
<1> QED
  BY <1>1, Invariance, PTL

(* A result reads what its call returned for as long as it lives, and the   *)
(* program's own values survive every call and every destructor.            *)
THEOREM ValuesKept ==
  Corners = {} => (Spec => []ValuesStay)
<1>1. IInv => ValuesStay
  BY DEF IInv, ValuesStay
<1> QED
  BY <1>1, Invariance, PTL

(* At most one object answers for the values of a call, however its result  *)
(* is moved.                                                                *)
THEOREM OneHolder == Corners = {} => (Spec => []HeldOnce)
<1>1. IInv => HeldOnce
  BY DEF IInv
<1> QED
  BY <1>1, Invariance, PTL
================================================================================

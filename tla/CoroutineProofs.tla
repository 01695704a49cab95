---------------------------- MODULE CoroutineProofs -----------------------------
(***************************************************************************)
(* Proofs about Coroutine: in a program without corner cases, however many  *)
(* objects and threads it has, the status cached in every informed object,  *)
(* the results and the threads' stacks stay in step with Lua.               *)
(***************************************************************************)
EXTENDS Coroutine, SequenceTheorems, TLAPS

Failed(t) == thread[t].status = "error"

(* A thread has one result at most.  Without one, and if nothing failed on  *)
(* it, it shows the program's values only; what it showed before a coroutine *)
(* was suspended is gone, as only an empty thread is resumed.                *)
ThreadSound(t) ==
  /\ \A r, q \in HeldOn(t) : r = q
  /\ thread[t].status # "ok" => thread[t].base = <<>>
  /\ HeldOn(t) = {} /\ ~ Failed(t) => Seen(thread[t]) = own[t]
  /\ Failed(t) => own[t] = <<>>

(* A result of a failure is the top value and pops all that the thread      *)
(* showed; any other one starts at index 1, below the program's values.     *)
ResultSound(r) ==
  LET t == result[r].on
      seen == Seen(thread[t])
  IN IF Failed(t)
     THEN /\ Len(given[r]) = 1 /\ result[r].returncount = 1
          /\ result[r].popcount \in 1 .. Len(seen)
          /\ result[r].index = Len(seen) /\ seen[Len(seen)] = given[r][1]
     ELSE /\ seen = given[r] \o own[t]
          /\ result[r].index = 1
          /\ result[r].returncount = Len(given[r]) /\ result[r].popcount = Len(given[r])

(* c says of its coroutine what Lua would. *)
Right(c) ==
  Made(c) /\ co[c].on # NULL => (co[c].stats = "yielded" <=> Resumable(co[c].on))

StacksSound ==
  /\ \A t \in Threads : ThreadSound(t)
  /\ \A r \in Results : result[r] # Unmade => ResultSound(r)

InformedRight == \A c \in informed : Right(c)

(* The inductive invariant. *)
IInv == TypeOK /\ StacksSound /\ InformedRight

--------------------------------------------------------------------------------
(* Stacks *)

LEMMA PopTyped ==
  ASSUME NEW S, NEW s \in Seq(S), NEW n \in Nat
  PROVE  Pop(s, n) \in Seq(S)
<1> DEFINE m == Len(s) - n
<1>1. Len(s) \in Nat /\ 1 \in Int /\ m \in Int /\ m <= Len(s)
  OBVIOUS
<1>2. \A i \in 1 .. m : s[i] \in S
  BY <1>1, ElementOfSeq
<1>3. SubSeq(s, 1, m) \in Seq(S)
  <2> HIDE DEF m
  <2> QED
    BY <1>1, <1>2, SubSeqProperties
<1> QED
  BY <1>3 DEF Pop

(* The values pushed last are popped first. *)
LEMMA PopPushed ==
  ASSUME NEW S, NEW s \in Seq(S), NEW u \in Seq(S)
  PROVE  Pop(s \o u, Len(u)) = s
<1>1. /\ s \o u \in Seq(S) /\ Len(s \o u) = Len(s) + Len(u)
      /\ \A i \in 1 .. Len(s) + Len(u) : (s \o u)[i] = IF i <= Len(s) THEN s[i] ELSE u[i - Len(s)]
  BY ConcatProperties
<1>2. Len(s) \in Nat /\ Len(u) \in Nat /\ 1 \in Int
  OBVIOUS
<1> DEFINE w == s \o u
<1>3. w \in Seq(S) /\ Len(w) - Len(u) = Len(s) /\ \A i \in 1 .. Len(s) : w[i] = s[i]
  BY <1>1, <1>2
<1> HIDE DEF w
<1>4. \A i \in 1 .. Len(s) : w[i] \in S
  BY <1>3, ElementOfSeq
<1>5. /\ SubSeq(w, 1, Len(s)) \in Seq(S)
      /\ Len(SubSeq(w, 1, Len(s))) = IF 1 <= Len(s) THEN Len(s) - 1 + 1 ELSE 0
      /\ \A i \in 1 .. Len(s) - 1 + 1 : SubSeq(w, 1, Len(s))[i] = w[1 + i - 1]
  <2> DEFINE m == Len(s)
  <2>1. m \in Int /\ 1 \in Int /\ \A i \in 1 .. m : w[i] \in S
    BY <1>2, <1>4
  <2> HIDE DEF m
  <2>2. /\ SubSeq(w, 1, m) \in Seq(S)
        /\ Len(SubSeq(w, 1, m)) = IF 1 <= m THEN m - 1 + 1 ELSE 0
        /\ \A i \in 1 .. m - 1 + 1 : SubSeq(w, 1, m)[i] = w[1 + i - 1]
    BY <2>1, SubSeqProperties
  <2> QED
    BY <2>2 DEF m
<1>6. Len(SubSeq(w, 1, Len(s))) = Len(s) /\ \A i \in 1 .. Len(s) : SubSeq(w, 1, Len(s))[i] = s[i]
  BY <1>2, <1>3, <1>5
<1>7. SubSeq(w, 1, Len(s)) = s
  <2> DEFINE x == SubSeq(w, 1, Len(s))
  <2>1. x \in Seq(S) /\ Len(x) = Len(s) /\ \A i \in 1 .. Len(x) : x[i] = s[i]
    BY <1>5, <1>6
  <2> HIDE DEF x
  <2>2. x = s
    BY <2>1, SeqEqual
  <2> QED
    BY <2>2 DEF x
<1> QED
  BY <1>3, <1>7 DEF Pop, w

LEMMA PopOne ==
  ASSUME NEW S, NEW s \in Seq(S), NEW u \in Seq(S), u # <<>>
  PROVE  Pop(u, 1) \in Seq(S) /\ Pop(s \o u, 1) = s \o Pop(u, 1)
<1>1. PICK b \in Seq(S), e \in S : u = Append(b, e)
  BY SequenceEmptyOrAppend
<1>2. u = b \o <<e>> /\ <<e>> \in Seq(S) /\ Len(<<e>>) = 1
  BY <1>1, AppendIsConcat
<1>3. s \o b \in Seq(S)
  BY ConcatProperties
<1>4. Pop(b \o <<e>>, 1) = b
  BY <1>2, PopPushed
<1>5. Pop((s \o b) \o <<e>>, 1) = s \o b
  BY <1>2, <1>3, PopPushed
<1>6. (s \o b) \o <<e>> = s \o u
  BY <1>2, ConcatAssociative
<1> QED
  BY <1>2, <1>4, <1>5, <1>6

(* What lies above the first values. *)
LEMMA UpperPart ==
  ASSUME NEW S, NEW s \in Seq(S), NEW u \in Seq(S)
  PROVE  SubSeq(s \o u, Len(s) + 1, Len(s \o u)) = u
<1>1. /\ s \o u \in Seq(S) /\ Len(s \o u) = Len(s) + Len(u)
      /\ \A i \in 1 .. Len(s) + Len(u) : (s \o u)[i] = IF i <= Len(s) THEN s[i] ELSE u[i - Len(s)]
  BY ConcatProperties
<1>2. Len(s) \in Nat /\ Len(u) \in Nat
  OBVIOUS
<1> DEFINE w == s \o u
           m == Len(s) + 1
           n == Len(w)
           x == SubSeq(w, m, n)
<1>3. m \in Int /\ n \in Int /\ n - m + 1 = Len(u) /\ (m <= n <=> Len(u) > 0)
  BY <1>1, <1>2
<1>4. \A i \in m .. n : w[i] \in S
  <2>1. w \in Seq(S) /\ \A i \in m .. n : i \in 1 .. Len(w)
    BY <1>1, <1>2
  <2> HIDE DEF w
  <2> QED
    BY <2>1, ElementOfSeq
<1>5. \A i \in 1 .. Len(u) : w[m + i - 1] = u[i]
  <2> TAKE i \in 1 .. Len(u)
  <2>1. m + i - 1 \in 1 .. Len(s) + Len(u) /\ ~ (m + i - 1 <= Len(s)) /\ (m + i - 1) - Len(s) = i
    BY <1>2
  <2> QED
    BY <1>1, <2>1
<1>6. /\ x \in Seq(S) /\ Len(x) = IF m <= n THEN n - m + 1 ELSE 0
      /\ \A i \in 1 .. n - m + 1 : x[i] = w[m + i - 1]
  <2> HIDE DEF w, m, n
  <2> QED
    BY <1>3, <1>4, SubSeqProperties
<1>7. x \in Seq(S) /\ Len(x) = Len(u) /\ \A i \in 1 .. Len(x) : x[i] = u[i]
  <2> HIDE DEF w, m, n, x
  <2> QED
    BY <1>2, <1>3, <1>5, <1>6
<1>8. x = u
  <2> HIDE DEF x
  <2> QED
    BY <1>7, SeqEqual
<1> QED
  BY <1>8

(* stack::remove of the values at the bottom *)
LEMMA RemoveBottom ==
  ASSUME NEW S, NEW s \in Seq(S), NEW u \in Seq(S)
  PROVE  StackRemove(s \o u, 1, Len(s)) = u
<1> DEFINE w == s \o u
<1>1. w \in Seq(S) /\ Len(w) = Len(s) + Len(u)
  BY ConcatProperties
<1>2. Len(s) \in Nat /\ Len(u) \in Nat
  OBVIOUS
<1>3. CASE Len(s) < 1
  <2>1. s = <<>>
    BY <1>2, <1>3, EmptySeq
  <2>2. w = u
    BY <2>1, ConcatEmptySeq
  <2> QED
    BY <1>3, <2>2 DEF StackRemove
<1>4. CASE Len(s) >= 1 /\ Len(w) = 1
  <2>1. Len(s) = 1 /\ Len(u) = 0
    <3> HIDE DEF w
    <3> QED
      BY <1>1, <1>2, <1>4
  <2>2. u = <<>> /\ w = s /\ <<>> \o s = s
    BY <2>1, EmptySeq, ConcatEmptySeq
  <2>3. Pop(<<>> \o s, Len(s)) = <<>>
    BY EmptySeq, PopPushed
  <2> QED
    BY <1>4, <2>1, <2>2, <2>3 DEF StackRemove
<1>5. CASE Len(s) >= 1 /\ Len(w) # 1
  <2>1. StackRemove(w, 1, Len(s)) = Cut(w, 1, Len(s))
    <3>1. ~ (Len(s) < 1 \/ Len(w) < 1) /\ ~ (1 = -Len(s) \/ 1 = Len(w)) /\ 1 + Len(s) - 1 <= Len(w)
      BY <1>1, <1>2, <1>5
    <3> HIDE DEF w
    <3> QED
      BY <3>1 DEF StackRemove, AbsIndex, RemoveLoop
  <2>2. SubSeq(w, 1, 1 - 1) = <<>>
    BY SubSeqEmpty
  <2>3. SubSeq(w, 1 + Len(s), Len(w)) = u
    <3>1. 1 + Len(s) = Len(s) + 1
      BY <1>2
    <3> QED
      BY <3>1, UpperPart
  <2> QED
    BY <2>1, <2>2, <2>3, ConcatEmptySeq DEF Cut
<1> QED
  BY <1>1, <1>2, <1>3, <1>4, <1>5

(* stack::remove of the values under and with the top one *)
LEMMA RemoveFromTop ==
  ASSUME NEW S, NEW s \in Seq(S), NEW n \in 1 .. Len(s)
  PROVE  StackRemove(s, Len(s), n) \in Seq(S)
<1>1. Len(s) \in Nat /\ n \in Nat /\ ~ (n < 1 \/ Len(s) < 1)
  OBVIOUS
<1>2. StackRemove(s, Len(s), n) = Pop(s, n)
  BY <1>1 DEF StackRemove
<1> QED
  BY <1>1, <1>2, PopTyped

LEMMA TopOf ==
  ASSUME NEW S, NEW s \in Seq(S), NEW u \in Seq(S), u # <<>>
  PROVE  /\ s \o u \in Seq(S) /\ Len(s \o u) \in Nat \ {0}
         /\ (s \o u)[Len(s \o u)] = u[Len(u)]
<1>1. /\ s \o u \in Seq(S) /\ Len(s \o u) = Len(s) + Len(u)
      /\ \A i \in 1 .. Len(s) + Len(u) : (s \o u)[i] = IF i <= Len(s) THEN s[i] ELSE u[i - Len(s)]
  BY ConcatProperties
<1>2. Len(s) \in Nat /\ Len(u) \in Nat \ {0}
  BY EmptySeq
<1>3. Len(s) + Len(u) \in 1 .. Len(s) + Len(u) /\ ~ (Len(s) + Len(u) <= Len(s))
      /\ (Len(s) + Len(u)) - Len(s) = Len(u)
  BY <1>2
<1>4. (s \o u)[Len(s) + Len(u)] = u[Len(u)]
  BY <1>1, <1>3
<1> QED
  BY <1>1, <1>2, <1>4

--------------------------------------------------------------------------------
(* Threads *)

LEMMA Showing ==
  ASSUME NEW th \in ThreadType, NEW s \in Seq(Shown)
  PROVE  /\ WithSeen(th, s) \in ThreadType /\ Seen(WithSeen(th, s)) = s
         /\ WithSeen(th, s).status = th.status
         /\ th.status # "ok" => WithSeen(th, s).base = th.base
BY DEF ThreadType, WithSeen, Seen

LEMMA SeenTyped ==
  ASSUME NEW th \in ThreadType
  PROVE  Seen(th) \in Seq(Shown) /\ Len(Seen(th)) \in Nat
BY DEF ThreadType, Seen

LEMMA ShownWide ==
  ASSUME NEW s \in Seq(Values)
  PROVE  s \in Seq(Shown)
<1>1. Values \subseteq Shown
  BY DEF Shown
<1> QED
  BY <1>1, SeqMonotonic

LEMMA OneLong ==
  ASSUME NEW S, NEW f \in [1 .. 1 -> S]
  PROVE  f \in Seq(S) /\ Len(f) = 1
<1>1. f \in Seq(S)
  BY SeqDef
<1>2. 1 .. Len(f) = 1 .. 1 /\ Len(f) \in Nat
  BY <1>1, LenProperties
<1> QED
  BY <1>1, <1>2

LEMMA OutcomesTyped ==
  ASSUME NEW o \in Outcomes \cup {Refusal}
  PROVE  /\ o.status \in Statuses
         /\ o.inner \in Seq(Shown) /\ o.values \in Seq(Shown)
         /\ o.status = "error" => Len(o.values) = 1
         /\ o.status # "error" => o.inner = <<>>
<1>1. CASE o \in [status : {"ok", "yielded"}, inner : {<<>>}, values : UNION {[1 .. n -> Values] : n \in 0 .. MaxReturns}]
  <2>1. o.values \in UNION {[1 .. n -> Values] : n \in Nat}
    BY <1>1, CoroutineAssumption
  <2>2. o.values \in Seq(Values)
    BY <2>1, SeqDef
  <2> QED
    BY <1>1, <2>2, ShownWide, EmptySeq DEF Statuses
<1>2. CASE o \in [status : {"error"}, inner : UNION {[1 .. n -> Values] : n \in 0 .. MaxInner}, values : [1 .. 1 -> Values]]
  <2>1. o.inner \in UNION {[1 .. n -> Values] : n \in Nat} /\ o.values \in [1 .. 1 -> Values]
    BY <1>2, CoroutineAssumption
  <2>2. o.inner \in Seq(Values) /\ o.values \in Seq(Values)
    BY <2>1, SeqDef
  <2>3. Len(o.values) = 1
    BY <2>1, OneLong
  <2> QED
    BY <1>2, <2>2, <2>3, ShownWide DEF Statuses
<1>3. CASE o = Refusal
  <2>1. Message \in Shown
    BY DEF Shown
  <2>2. <<Message>> \in Seq(Shown) /\ Len(<<Message>>) = 1
    BY <2>1
  <2> QED
    BY <1>3, <2>2, EmptySeq DEF Refusal, Statuses
<1> QED
  BY <1>1, <1>2, <1>3 DEF Outcomes

(* lua_resume of an empty thread, of a suspended one and of a failed one *)
LEMMA Resumed ==
  ASSUME NEW th \in ThreadType, th.base = <<>>, NEW o \in Outcomes \cup {Refusal}, Answers(th, o)
  PROVE  /\ LuaResume(th, o) \in ThreadType /\ LuaResume(th, o).status = o.status
         /\ o.status # "ok" => LuaResume(th, o).base = <<>>
         /\ o.status # "error" => Seen(LuaResume(th, o)) = o.values
         /\ o.status = "error" =>
              /\ Len(Seen(LuaResume(th, o))) \in Nat \ {0}
              /\ Seen(LuaResume(th, o))[Len(Seen(LuaResume(th, o)))] = o.values[1]
<1> DEFINE resumed == LuaResume(th, o)
<1>0. th.status \in Statuses /\ th.frame \in Seq(Shown) /\ th.base \in Seq(Shown)
  BY DEF ThreadType
<1>1. CASE th.status = "error"
  <2>1. o = Refusal /\ o.status = "error" /\ o.values = <<Message>> /\ o.values[1] = Message
    BY <1>1 DEF Answers, Refusal
  <2>2. resumed = [th EXCEPT !.frame = @ \o <<Function, Message>>]
    BY <1>1 DEF LuaResume
  <2>3. Function \in Shown /\ Message \in Shown
    BY DEF Shown
  <2>4. <<Function, Message>> \in Seq(Shown) /\ <<Function, Message>> # <<>>
        /\ Len(<<Function, Message>>) = 2 /\ <<Function, Message>>[2] = Message
    BY <2>3
  <2> DEFINE pair == <<Function, Message>>
             top == th.frame \o pair
  <2>5. top \in Seq(Shown) /\ Len(top) \in Nat \ {0} /\ top[Len(top)] = pair[2]
    <3> HIDE DEF pair
    <3> QED
      BY <1>0, <2>4, TopOf DEF pair
  <2>6. resumed \in ThreadType /\ resumed.status = "error" /\ resumed.base = <<>> /\ resumed.frame = top
    <3> HIDE DEF top, resumed
    <3> QED
      BY <1>1, <2>2, <2>5 DEF ThreadType, top
  <2>7. Seen(resumed) = top
    <3> HIDE DEF top, resumed
    <3> QED
      BY <2>6 DEF Seen
  <2> HIDE DEF top, resumed
  <2>8. pair[2] = Message
    BY <2>4
  <2> HIDE DEF pair
  <2>9. Len(Seen(resumed)) \in Nat \ {0} /\ Seen(resumed)[Len(Seen(resumed))] = o.values[1]
    BY <2>1, <2>5, <2>7, <2>8
  <2> QED
    BY <2>1, <2>6, <2>9 DEF resumed
<1>2. CASE th.status # "error" /\ o.status = "ok"
  <2>1. resumed = [status |-> "ok", base |-> th.base \o o.values, frame |-> <<>>]
    BY <1>2 DEF LuaResume
  <2>2. o.values \in Seq(Shown) /\ th.base \o o.values = o.values
    BY OutcomesTyped, ConcatEmptySeq
  <2>3. resumed = [status |-> "ok", base |-> o.values, frame |-> <<>>]
    BY <2>1, <2>2
  <2>4. <<>> \in Seq(Shown)
    BY EmptySeq
  <2> HIDE DEF resumed
  <2>5. resumed \in ThreadType /\ resumed.status = "ok" /\ resumed.base = o.values
    BY <2>2, <2>3, <2>4 DEF ThreadType, Statuses
  <2>6. Seen(resumed) = o.values
    BY <2>5 DEF Seen
  <2> QED
    BY <1>2, <2>5, <2>6 DEF resumed
<1>3. CASE th.status # "error" /\ o.status # "ok"
  <2> DEFINE top == o.inner \o o.values
  <2>1. resumed = [status |-> o.status, base |-> <<>>, frame |-> top]
    BY <1>3 DEF LuaResume
  <2>2. o.inner \in Seq(Shown) /\ o.values \in Seq(Shown) /\ o.status \in Statuses /\ <<>> \in Seq(Shown)
    BY OutcomesTyped, EmptySeq
  <2>3. top \in Seq(Shown)
    BY <2>2, ConcatProperties
  <2> HIDE DEF resumed
  <2>4. resumed \in ThreadType /\ resumed.status = o.status /\ resumed.base = <<>> /\ Seen(resumed) = top
    <3> HIDE DEF top
    <3> QED
      BY <1>3, <2>1, <2>2, <2>3 DEF ThreadType, Seen
  <2>5. CASE o.status # "error"
    <3>1. o.inner = <<>>
      BY <2>5, OutcomesTyped
    <3>2. top = o.values
      BY <2>2, <3>1, ConcatEmptySeq
    <3> QED
      BY <1>3, <2>4, <2>5, <3>2 DEF resumed
  <2>6. CASE o.status = "error"
    <3>1. Len(o.values) = 1
      BY <2>6, OutcomesTyped
    <3>2. o.values # <<>>
      <4> DEFINE values == o.values
      <4>1. Len(values) = 1
        BY <3>1
      <4> HIDE DEF values
      <4>2. values # <<>>
        BY <4>1, EmptySeq
      <4> QED
        BY <4>2 DEF values
    <3>3. Len(top) \in Nat \ {0} /\ top[Len(top)] = o.values[Len(o.values)]
      <4> DEFINE values == o.values
                 inner == o.inner
                 whole == inner \o values
      <4>1. inner \in Seq(Shown) /\ values \in Seq(Shown) /\ values # <<>>
        BY <2>2, <3>2
      <4> HIDE DEF values, inner
      <4>2. Len(whole) \in Nat \ {0} /\ whole[Len(whole)] = values[Len(values)]
        BY <4>1, TopOf
      <4> QED
        BY <4>2 DEF values, inner
    <3> HIDE DEF top
    <3> QED
      BY <1>3, <2>4, <2>6, <3>1, <3>3 DEF resumed
  <2> QED
    BY <2>5, <2>6
<1> QED
  BY <1>1, <1>2, <1>3

(* What a call keeps in its result, of thread th and outcome o: after is what *)
(* the thread is then, values what the result was given.                     *)
Keeps(res, t, after, o, values) ==
  /\ after \in ThreadType /\ after.status = o.status /\ (o.status # "ok" => after.base = <<>>)
  /\ values \in Seq(Shown)
  /\ res \in ResultType /\ res.on = t
  /\ o.status # "error" =>
       /\ Seen(after) = values /\ res.index = 1
       /\ res.returncount = Len(values) /\ res.popcount = Len(values)
  /\ o.status = "error" =>
       /\ Len(values) = 1 /\ res.returncount = 1
       /\ res.popcount \in 1 .. Len(Seen(after))
       /\ res.index = Len(Seen(after)) /\ Seen(after)[Len(Seen(after))] = values[1]

LEMMA CallKeeps ==
  ASSUME NEW t \in Threads, NEW th \in ThreadType, th.base = <<>>,
         NEW o \in Outcomes \cup {Refusal}, Answers(th, o), NEW handled \in BOOLEAN,
         NEW resumed, resumed = LuaResume(th, o),
         NEW after, after = AfterHandler(resumed, resumed.status = "error" /\ handled),
         NEW values, values = IF after.status # "error" THEN o.values
                              ELSE IF handled THEN <<Handled>> ELSE o.values
  PROVE  Keeps(CoroutineResult(t, resumed, after), t, after, o, values)
<1> DEFINE res == CoroutineResult(t, resumed, after)
           n == Len(Seen(resumed))
<1>1. /\ resumed \in ThreadType /\ resumed.status = o.status
      /\ o.status # "ok" => resumed.base = <<>>
      /\ o.status # "error" => Seen(resumed) = o.values
      /\ o.status = "error" => n \in Nat \ {0} /\ Seen(resumed)[n] = o.values[1]
  BY Resumed
<1>2. o.values \in Seq(Shown) /\ o.status \in Statuses /\ (o.status = "error" => Len(o.values) = 1)
  BY OutcomesTyped
<1>3. Seen(resumed) \in Seq(Shown) /\ n \in Nat /\ ReturnCount(n) = n
  BY <1>1, SeenTyped DEF ReturnCount
<1>4. CASE o.status # "error"
  <2>1. after = resumed
    BY <1>1, <1>4 DEF AfterHandler
  <2>2. values = o.values
    BY <1>1, <1>4, <2>1
  <2>3. res = [on |-> t, index |-> 1, returncount |-> n, popcount |-> n]
    BY <1>1, <1>3, <1>4, <2>1 DEF CoroutineResult
  <2>4. res \in ResultType /\ res.on = t /\ res.index = 1 /\ res.returncount = n /\ res.popcount = n
    <3> HIDE DEF n, res
    <3> QED
      BY <1>3, <2>3 DEF ResultType
  <2>5. n = Len(values) /\ Seen(after) = values
    BY <1>1, <1>4, <2>1, <2>2
  <2> HIDE DEF n, res
  <2>6. QED
    BY <1>1, <1>2, <1>4, <2>1, <2>2, <2>4, <2>5 DEF Keeps, res
<1>5. CASE o.status = "error" /\ ~ handled
  <2>1. after = resumed
    BY <1>5 DEF AfterHandler
  <2>2. values = o.values /\ Len(values) = 1
    BY <1>1, <1>2, <1>5, <2>1
  <2>3. res = [on |-> t, index |-> n, returncount |-> 1, popcount |-> n]
    BY <1>1, <1>3, <1>5, <2>1 DEF CoroutineResult
  <2>4. res \in ResultType /\ res.on = t /\ res.index = n /\ res.returncount = 1 /\ res.popcount = n
    <3> HIDE DEF n, res
    <3> QED
      BY <1>3, <2>3 DEF ResultType
  <2>5. n \in 1 .. n /\ Len(Seen(after)) = n /\ Seen(after)[n] = values[1]
    BY <1>1, <1>5, <2>1, <2>2
  <2> HIDE DEF n, res
  <2>6. QED
    BY <1>1, <1>2, <1>5, <2>1, <2>2, <2>4, <2>5 DEF Keeps, res
<1>6. CASE o.status = "error" /\ handled
  <2> DEFINE top == Append(resumed.frame, Handled)
  <2>1. after = [resumed EXCEPT !.frame = top]
    BY <1>1, <1>6 DEF AfterHandler
  <2>2. resumed.frame = Seen(resumed) /\ Handled \in Shown
    BY <1>1, <1>6 DEF Seen, Shown
  <2>3. top \in Seq(Shown) /\ Len(top) = n + 1 /\ top[n + 1] = Handled
    <3> DEFINE frame == Seen(resumed)
    <3>1. frame \in Seq(Shown) /\ Handled \in Shown
      BY <1>3, <2>2
    <3> HIDE DEF frame
    <3>2. Append(frame, Handled) \in Seq(Shown) /\ Len(Append(frame, Handled)) = Len(frame) + 1
          /\ Append(frame, Handled)[Len(frame) + 1] = Handled
      BY <3>1, AppendProperties
    <3> QED
      BY <2>2, <3>2 DEF frame
  <2> HIDE DEF top
  <2>4. after \in ThreadType /\ after.status = "error" /\ after.base = <<>> /\ Seen(after) = top
    BY <1>1, <1>6, <2>1, <2>3 DEF ThreadType, Seen
  <2>5. values = <<Handled>>
    BY <1>6, <2>4
  <2>6. values \in Seq(Shown) /\ Len(values) = 1 /\ values[1] = Handled
    <3>1. Handled \in Shown
      BY DEF Shown
    <3>2. <<Handled>> \in Seq(Shown) /\ Len(<<Handled>>) = 1 /\ <<Handled>>[1] = Handled
      BY <3>1
    <3> QED
      BY <2>5, <3>2
  <2>7. res = [on |-> t, index |-> n + 1, returncount |-> 1, popcount |-> n]
    BY <1>3, <2>3, <2>4 DEF CoroutineResult
  <2>8. res \in ResultType /\ res.on = t /\ res.index = n + 1 /\ res.returncount = 1 /\ res.popcount = n
    <3> HIDE DEF n, res
    <3> QED
      BY <1>3, <2>7 DEF ResultType
  <2>9. n \in 1 .. n + 1
    BY <1>1, <1>6
  <2> HIDE DEF n, res
  <2>10. QED
    BY <1>6, <2>3, <2>4, <2>6, <2>8, <2>9 DEF Keeps, res
<1> QED
  BY <1>4, <1>5, <1>6

--------------------------------------------------------------------------------
(* The invariant *)

(* A step that touches thread t only leaves every other one in order. *)
LEMMA Elsewhere ==
  ASSUME StacksSound, NEW t \in Threads,
         \A u \in Threads \ {t} : thread'[u] = thread[u] /\ own'[u] = own[u],
         \A q \in Results :
           \/ result'[q] = result[q] /\ given'[q] = given[q]
           \/ /\ result[q] = Unmade \/ result[q].on = t
              /\ result'[q] = Unmade \/ result'[q].on = t
  PROVE  /\ \A u \in Threads \ {t} : ThreadSound(u)'
         /\ \A q \in Results : result'[q] # Unmade /\ result'[q].on \in Threads \ {t} => ResultSound(q)'
<1>1. ASSUME NEW u \in Threads \ {t} PROVE ThreadSound(u)'
  <2>1. HeldOn(u)' = HeldOn(u)
    BY <1>1 DEF HeldOn
  <2>2. ThreadSound(u)
    BY DEF StacksSound
  <2>3. thread'[u] = thread[u] /\ own'[u] = own[u]
    OBVIOUS
  <2> QED
    BY <2>1, <2>2, <2>3 DEF ThreadSound, Failed
<1>2. ASSUME NEW q \in Results, result'[q] # Unmade, result'[q].on \in Threads \ {t}
      PROVE  ResultSound(q)'
  <2>1. result'[q] = result[q] /\ given'[q] = given[q]
    BY <1>2
  <2>2. ResultSound(q)
    BY <1>2, <2>1 DEF StacksSound
  <2>3. thread'[result'[q].on] = thread[result[q].on] /\ own'[result'[q].on] = own[result[q].on]
    BY <1>2, <2>1
  <2> QED
    BY <2>1, <2>2, <2>3 DEF ResultSound, Failed
<1> QED
  BY <1>1, <1>2

(* With t in order as well, everything is. *)
LEMMA Everywhere ==
  ASSUME TypeOK', NEW t \in Threads,
         \A u \in Threads \ {t} : ThreadSound(u)',
         \A q \in Results : result'[q] # Unmade /\ result'[q].on \in Threads \ {t} => ResultSound(q)',
         ThreadSound(t)',
         \A q \in Results : result'[q] # Unmade /\ result'[q].on = t => ResultSound(q)'
  PROVE  StacksSound'
<1>1. \A u \in Threads : ThreadSound(u)'
  OBVIOUS
<1>2. ASSUME NEW q \in Results, result'[q] # Unmade PROVE ResultSound(q)'
  <2>1. result'[q].on \in Threads
    BY <1>2 DEF TypeOK, ResultType
  <2> QED
    BY <1>2, <2>1
<1> QED
  BY <1>1, <1>2 DEF StacksSound

(* The statuses of the threads are all that coroutine objects speak of. *)
LEMMA InformedKept ==
  ASSUME InformedRight, UNCHANGED <<fresh, co, informed>>,
         \A t \in Threads : thread'[t].status = thread[t].status, TypeOK
  PROVE  InformedRight'
<1>1. ASSUME NEW c \in informed PROVE Right(c)'
  <2>1. Right(c)
    BY DEF InformedRight
  <2>2. co[c] # Unmade /\ co[c].on # NULL => co[c].on \in Threads
    BY DEF TypeOK, CoroutineType
  <2> QED
    BY <2>1, <2>2 DEF Right, Made, Resumable
<1> QED
  BY <1>1 DEF InformedRight

--------------------------------------------------------------------------------
(* Calls *)

(* Without the corners, a call finds nothing on its thread that is of use to *)
(* anyone but the coroutine.                                                *)
LEMMA CallerAlone ==
  ASSUME Corners = {}, TypeOK, StacksSound, NEW c \in Coroutines, NEW o \in Outcomes \cup {Refusal}, Callable(c, o)
  PROVE  /\ co[c] \in CoroutineType /\ co[c].on \in Threads /\ co[c].handler.held \in BOOLEAN
         /\ HeldOn(co[c].on) = {}
         /\ thread[co[c].on] \in ThreadType /\ thread[co[c].on].base = <<>>
         /\ Answers(thread[co[c].on], o)
<1>1. co[c] # Unmade /\ co[c].on # NULL
  BY DEF Callable, Runnable, Made
<1>2. co[c] \in CoroutineType /\ co[c].on \in Threads /\ co[c].handler.held \in BOOLEAN
  BY <1>1 DEF TypeOK, CoroutineType, Handlers
<1>3. HeldOn(co[c].on) = {}
  BY DEF Callable
<1>4. thread[co[c].on] \in ThreadType
  BY <1>2 DEF TypeOK
<1>5. thread[co[c].on].base = <<>>
  <2>1. ThreadSound(co[c].on)
    BY <1>2 DEF StacksSound
  <2>2. thread[co[c].on].status = "ok" => thread[co[c].on].base = <<>>
    BY DEF Callable
  <2> QED
    BY <2>1, <2>2 DEF ThreadSound
<1>6. Answers(thread[co[c].on], o)
  BY DEF Callable
<1> QED
  BY <1>2, <1>3, <1>4, <1>5, <1>6

(* The caller is told, and whoever is not is no longer informed. *)
LEMMA CallInforms ==
  ASSUME TypeOK, InformedRight, NEW c \in Coroutines, NEW o \in Outcomes \cup {Refusal},
         co[c] \in CoroutineType, co[c].on \in Threads, Resume(c, o),
         \A u \in Threads \ {co[c].on} : thread'[u].status = thread[u].status,
         thread'[co[c].on].status = o.status
  PROVE  /\ InformedRight'
         /\ co' \in [Coroutines -> CoroutineType \cup {Unmade}]
         /\ fresh' \subseteq Threads /\ informed' \subseteq Coroutines
<1> DEFINE t == co[c].on
<1>1. o.status \in Statuses
  BY OutcomesTyped
<1>2. co' = [co EXCEPT ![c].stats = o.status] /\ fresh' = fresh \ {t} /\ informed' = (informed \ HandlesOf(t)) \cup {c}
  BY DEF Resume, StatsAfter
<1>3. co[c] # Unmade /\ [co[c] EXCEPT !.stats = o.status] \in CoroutineType
  <2>1. CoroutineType = [on : Threads \cup {NULL}, stats : Statuses, handler : Handlers]
    BY DEF CoroutineType
  <2> QED
    BY <1>1, <2>1, CoroutineAssumption
<1>4. /\ co' \in [Coroutines -> CoroutineType \cup {Unmade}]
      /\ fresh' \subseteq Threads /\ informed' \subseteq Coroutines
  BY <1>2, <1>3 DEF TypeOK
<1>5. co'[c] # Unmade /\ co'[c].on = t /\ co'[c].stats = o.status
  <2>1. co'[c] = [co[c] EXCEPT !.stats = o.status]
    BY <1>2 DEF TypeOK
  <2> QED
    BY <1>3, <2>1, CoroutineAssumption DEF CoroutineType
<1>6. Right(c)'
  BY <1>1, <1>2, <1>5 DEF Right, Resumable, Statuses
<1>7. ASSUME NEW d \in informed', d # c PROVE Right(d)'
  <2>1. d \in informed /\ d \notin HandlesOf(t) /\ d \in Coroutines
    BY <1>2, <1>7 DEF TypeOK
  <2>2. Right(d) /\ co'[d] = co[d]
    BY <1>2, <1>7, <2>1 DEF InformedRight, TypeOK
  <2>3. ~ Made(d) \/ co[d].on # t
    BY <2>1 DEF HandlesOf
  <2>4. Made(d) /\ co[d].on # NULL => co[d].on \in Threads \ {t}
    BY <2>1, <2>3 DEF Made, TypeOK, CoroutineType
  <2>5. Made(d) /\ co[d].on # NULL => (Resumable(co[d].on)' <=> Resumable(co[d].on))
    BY <1>2, <2>2, <2>4 DEF Resumable
  <2>6. Made(d)' <=> Made(d)
    BY <2>2 DEF Made
  <2> QED
    BY <2>2, <2>5, <2>6 DEF Right
<1> QED
  BY <1>4, <1>6, <1>7 DEF InformedRight

LEMMA CallSound ==
  ASSUME Corners = {}, IInv, NEW c \in Coroutines, NEW r \in Results,
         NEW o \in Outcomes \cup {Refusal}, Call(c, r, o)
  PROVE  IInv'
<1>0. PICK t \in Threads : t = co[c].on
  BY CallerAlone DEF IInv, Call
<1> DEFINE resumed == LuaResume(thread[t], o)
           after == AfterHandler(resumed, resumed.status = "error" /\ co[c].handler.held)
           res == CoroutineResult(t, resumed, after)
           values == IF after.status # "error" THEN o.values
                     ELSE IF co[c].handler.held THEN <<Handled>> ELSE o.values
<1>1. TypeOK /\ StacksSound /\ InformedRight
  BY DEF IInv
<1>2. /\ result[r] = Unmade /\ Callable(c, o) /\ Resume(c, o)
      /\ thread' = [thread EXCEPT ![t] = after]
      /\ result' = [result EXCEPT ![r] = res]
      /\ given' = [given EXCEPT ![r] = values]
  BY <1>0 DEF Call, HandlerAstray
<1>3. /\ co[c] \in CoroutineType /\ t \in Threads /\ co[c].handler.held \in BOOLEAN
      /\ HeldOn(t) = {} /\ thread[t] \in ThreadType /\ thread[t].base = <<>>
      /\ Answers(thread[t], o)
  BY <1>0, <1>1, <1>2, CallerAlone
<1>4. Keeps(res, t, after, o, values)
  BY <1>3, CallKeeps
<1> HIDE DEF resumed, after, res, values
<1>5. own' = [own EXCEPT ![t] = <<>>]
  BY <1>0, <1>2 DEF Resume
<1>6. /\ after \in ThreadType /\ after.status = o.status /\ res \in ResultType
      /\ res # Unmade /\ res.on = t /\ values \in Seq(Shown)
  BY <1>4, CoroutineAssumption DEF Keeps, ResultType
<1>7. /\ thread'[t] = after /\ own'[t] = <<>>
      /\ \A u \in Threads \ {t} : thread'[u] = thread[u] /\ own'[u] = own[u]
      /\ result'[r] = res /\ given'[r] = values
      /\ \A q \in Results \ {r} : result'[q] = result[q] /\ given'[q] = given[q]
  BY <1>1, <1>2, <1>3, <1>5 DEF TypeOK
<1>8. /\ InformedRight'
      /\ co' \in [Coroutines -> CoroutineType \cup {Unmade}]
      /\ fresh' \subseteq Threads /\ informed' \subseteq Coroutines
  BY <1>0, <1>1, <1>2, <1>3, <1>6, <1>7, CallInforms
<1>9. TypeOK'
  <2>1. <<>> \in Seq(Values)
    BY EmptySeq
  <2> QED
    BY <1>1, <1>2, <1>3, <1>5, <1>6, <1>8, <2>1 DEF TypeOK
<1>10. HeldOn(t)' = {r}
  BY <1>2, <1>3, <1>6, <1>7 DEF HeldOn
<1>11. /\ \A u \in Threads \ {t} : ThreadSound(u)'
       /\ \A q \in Results : result'[q] # Unmade /\ result'[q].on \in Threads \ {t} => ResultSound(q)'
  BY <1>1, <1>2, <1>3, <1>6, <1>7, Elsewhere
<1>12. ThreadSound(t)'
  <2>1. after.status # "ok" => after.base = <<>>
    BY <1>4 DEF Keeps
  <2> QED
    BY <1>7, <1>10, <2>1 DEF ThreadSound
<1>13. ResultSound(r)'
  <2>1. CASE o.status = "error"
    <3>1. /\ Len(values) = 1 /\ res.returncount = 1
          /\ res.popcount \in 1 .. Len(Seen(after))
          /\ res.index = Len(Seen(after)) /\ Seen(after)[Len(Seen(after))] = values[1]
      BY <1>4, <2>1 DEF Keeps
    <3>2. Failed(t)'
      BY <1>6, <1>7, <2>1 DEF Failed
    <3> QED
      BY <1>6, <1>7, <3>1, <3>2 DEF ResultSound
  <2>2. CASE o.status # "error"
    <3>1. /\ Seen(after) = values /\ res.index = 1
          /\ res.returncount = Len(values) /\ res.popcount = Len(values)
      BY <1>4, <2>2 DEF Keeps
    <3>2. ~ Failed(t)'
      BY <1>6, <1>7, <2>2 DEF Failed
    <3>3. values \o <<>> = values
      BY <1>6, ConcatEmptySeq
    <3> QED
      BY <1>6, <1>7, <3>1, <3>2, <3>3 DEF ResultSound
  <2> QED
    BY <2>1, <2>2
<1>14. \A q \in Results : result'[q] # Unmade /\ result'[q].on = t => q = r
  BY <1>10 DEF HeldOn
<1>15. StacksSound'
  BY <1>3, <1>9, <1>11, <1>12, <1>13, <1>14, Everywhere
<1> QED
  BY <1>8, <1>9, <1>15 DEF IInv

LEMMA CallTypedSound ==
  ASSUME Corners = {}, IInv, NEW c \in Coroutines,
         NEW o \in Outcomes \cup {Refusal}, CallTyped(c, o)
  PROVE  IInv'
<1>0. PICK t \in Threads : t = co[c].on
  BY CallerAlone DEF IInv, CallTyped
<1> DEFINE resumed == LuaResume(thread[t], o)
           after == WithSeen(resumed, Pop(Seen(resumed), Len(o.values)))
<1>1. TypeOK /\ StacksSound /\ InformedRight
  BY DEF IInv
<1>2. /\ Callable(c, o) /\ o.status # "error" /\ Resume(c, o)
      /\ thread' = [thread EXCEPT ![t] = after]
      /\ result' = result /\ given' = given
  BY <1>0 DEF CallTyped
<1>3. /\ co[c] \in CoroutineType /\ HeldOn(t) = {}
      /\ thread[t] \in ThreadType /\ thread[t].base = <<>> /\ Answers(thread[t], o)
  BY <1>0, <1>1, <1>2, CallerAlone
<1>4. after \in ThreadType /\ after.status = o.status /\ Seen(after) = <<>> /\ (o.status # "ok" => after.base = <<>>)
  <2>1. /\ resumed \in ThreadType /\ resumed.status = o.status /\ Seen(resumed) = o.values
        /\ o.status # "ok" => resumed.base = <<>>
    BY <1>2, <1>3, Resumed
  <2>2. Pop(o.values, Len(o.values)) = <<>>
    <3> DEFINE values == o.values
    <3>1. values \in Seq(Shown)
      BY OutcomesTyped
    <3> HIDE DEF values
    <3>2. <<>> \o values = values
      BY <3>1, ConcatEmptySeq
    <3>3. Pop(<<>> \o values, Len(values)) = <<>>
      BY <3>1, EmptySeq, PopPushed
    <3> QED
      BY <3>2, <3>3 DEF values
  <2> HIDE DEF resumed
  <2>3. Pop(Seen(resumed), Len(o.values)) = <<>> /\ <<>> \in Seq(Shown)
    BY <2>1, <2>2, EmptySeq
  <2> QED
    BY <2>1, <2>3, Showing
<1> HIDE DEF resumed, after
<1>5. own' = [own EXCEPT ![t] = <<>>]
  BY <1>0, <1>2 DEF Resume
<1>6. /\ thread'[t] = after /\ own'[t] = <<>>
      /\ \A u \in Threads \ {t} : thread'[u] = thread[u] /\ own'[u] = own[u]
  BY <1>1, <1>2, <1>3, <1>5 DEF TypeOK
<1>7. /\ InformedRight'
      /\ co' \in [Coroutines -> CoroutineType \cup {Unmade}]
      /\ fresh' \subseteq Threads /\ informed' \subseteq Coroutines
  BY <1>0, <1>1, <1>2, <1>3, <1>4, <1>6, CallInforms
<1>8. TypeOK'
  <2>1. <<>> \in Seq(Values)
    BY EmptySeq
  <2> QED
    BY <1>1, <1>2, <1>3, <1>4, <1>5, <1>7, <2>1 DEF TypeOK
<1>9. HeldOn(t)' = {}
  BY <1>2, <1>3 DEF HeldOn
<1>10. /\ \A u \in Threads \ {t} : ThreadSound(u)'
       /\ \A q \in Results : result'[q] # Unmade /\ result'[q].on \in Threads \ {t} => ResultSound(q)'
  BY <1>1, <1>2, <1>6, Elsewhere
<1>11. ThreadSound(t)'
  BY <1>4, <1>6, <1>9 DEF ThreadSound
<1>12. \A q \in Results : ~ (result'[q] # Unmade /\ result'[q].on = t)
  BY <1>9 DEF HeldOn
<1>13. StacksSound'
  BY <1>8, <1>10, <1>11, <1>12, Everywhere
<1> QED
  BY <1>7, <1>8, <1>13 DEF IInv

--------------------------------------------------------------------------------
(* Results and the program's own values *)

LEMMA DestroyResultSound ==
  ASSUME IInv, NEW r \in Results, DestroyResult(r)
  PROVE  IInv'
<1>1. TypeOK /\ StacksSound /\ InformedRight
  BY DEF IInv
<1>2. result[r] # Unmade /\ result[r] \in ResultType
  BY <1>1 DEF DestroyResult, TypeOK
<1>0. PICK t \in Threads : t = result[r].on
  BY <1>2 DEF ResultType
<1> DEFINE seen == Seen(thread[t])
           after == WithSeen(thread[t], Released(r))
<1>3. /\ thread' = [thread EXCEPT ![t] = after]
      /\ result' = [result EXCEPT ![r] = Unmade]
      /\ given' = [given EXCEPT ![r] = <<>>]
      /\ UNCHANGED <<fresh, co, informed, own>>
  BY <1>0 DEF DestroyResult
<1>4. ThreadSound(t) /\ ResultSound(r) /\ r \in HeldOn(t)
  BY <1>0, <1>1, <1>2 DEF StacksSound, HeldOn
<1>5. thread[t] \in ThreadType /\ seen \in Seq(Shown) /\ given[r] \in Seq(Shown) /\ own[t] \in Seq(Shown)
  BY <1>1, SeenTyped, ShownWide DEF TypeOK
<1>6. Released(r) \in Seq(Shown) /\ (~ Failed(t) => Released(r) = own[t])
  <2>1. CASE Failed(t)
    <3>1. result[r].popcount \in 1 .. Len(seen) /\ result[r].index = Len(seen)
      BY <1>0, <1>4, <2>1 DEF ResultSound
    <3>2. Released(r) = StackRemove(seen, Len(seen), result[r].popcount)
      BY <1>0, <3>1 DEF Released
    <3> HIDE DEF seen
    <3> QED
      BY <1>5, <2>1, <3>1, <3>2, RemoveFromTop
  <2>2. CASE ~ Failed(t)
    <3>1. seen = given[r] \o own[t] /\ result[r].index = 1 /\ result[r].popcount = Len(given[r])
      BY <1>0, <1>4, <2>2 DEF ResultSound
    <3>2. Released(r) = StackRemove(given[r] \o own[t], 1, Len(given[r]))
      BY <1>0, <3>1 DEF Released
    <3> QED
      BY <1>5, <3>2, RemoveBottom
  <2> QED
    BY <2>1, <2>2
<1>7. /\ after \in ThreadType /\ after.status = thread[t].status /\ Seen(after) = Released(r)
      /\ after.status # "ok" => after.base = thread[t].base
  BY <1>5, <1>6, Showing
<1> HIDE DEF after, seen
<1>8. /\ thread'[t] = after /\ \A u \in Threads \ {t} : thread'[u] = thread[u]
      /\ result'[r] = Unmade /\ \A q \in Results \ {r} : result'[q] = result[q] /\ given'[q] = given[q]
  BY <1>1, <1>3 DEF TypeOK
<1>9. InformedRight'
  <2>1. \A u \in Threads : thread'[u].status = thread[u].status
    BY <1>7, <1>8
  <2> QED
    BY <1>1, <1>3, <2>1, InformedKept
<1>10. TypeOK'
  BY <1>1, <1>3, <1>7, EmptySeq DEF TypeOK
<1>11. HeldOn(t)' = {}
  BY <1>0, <1>4, <1>8 DEF HeldOn, ThreadSound
<1>12. /\ \A u \in Threads \ {t} : ThreadSound(u)'
       /\ \A q \in Results : result'[q] # Unmade /\ result'[q].on \in Threads \ {t} => ResultSound(q)'
  BY <1>0, <1>1, <1>3, <1>8, Elsewhere
<1>13. ThreadSound(t)'
  BY <1>3, <1>4, <1>6, <1>7, <1>8, <1>11 DEF ThreadSound, Failed
<1>14. \A q \in Results : ~ (result'[q] # Unmade /\ result'[q].on = t)
  BY <1>11 DEF HeldOn
<1>15. StacksSound'
  BY <1>10, <1>12, <1>13, <1>14, Everywhere
<1> QED
  BY <1>9, <1>10, <1>15 DEF IInv

(* The program changes its own values, on top of all others. *)
LEMMA OwnSound ==
  ASSUME IInv, NEW t \in Threads, ~ Failed(t), NEW s \in Seq(Shown), NEW mine \in Seq(Values),
         thread' = [thread EXCEPT ![t] = WithSeen(@, s)],
         own' = [own EXCEPT ![t] = mine],
         UNCHANGED <<fresh, co, informed, result, given>>,
         HeldOn(t) = {} => s = mine,
         \A r \in HeldOn(t) : s = given[r] \o mine
  PROVE  IInv'
<1> DEFINE after == WithSeen(thread[t], s)
<1>1. TypeOK /\ StacksSound /\ InformedRight
  BY DEF IInv
<1>2. /\ after \in ThreadType /\ after.status = thread[t].status /\ Seen(after) = s
      /\ after.status # "ok" => after.base = thread[t].base
  BY <1>1, Showing DEF TypeOK
<1>3. thread' = [thread EXCEPT ![t] = after]
  OBVIOUS
<1> HIDE DEF after
<1>4. /\ thread'[t] = after /\ own'[t] = mine
      /\ \A u \in Threads \ {t} : thread'[u] = thread[u] /\ own'[u] = own[u]
  BY <1>1, <1>3 DEF TypeOK
<1>5. InformedRight'
  <2>1. \A u \in Threads : thread'[u].status = thread[u].status
    BY <1>2, <1>4
  <2> QED
    BY <1>1, <2>1, InformedKept
<1>6. TypeOK'
  BY <1>1, <1>2, <1>3 DEF TypeOK
<1>7. HeldOn(t)' = HeldOn(t) /\ Failed(t)' = Failed(t)
  BY <1>2, <1>4 DEF HeldOn, Failed
<1>8. /\ \A u \in Threads \ {t} : ThreadSound(u)'
      /\ \A q \in Results : result'[q] # Unmade /\ result'[q].on \in Threads \ {t} => ResultSound(q)'
  BY <1>1, <1>4, Elsewhere
<1>9. ThreadSound(t)'
  <2>1. ThreadSound(t)
    BY <1>1 DEF StacksSound
  <2> QED
    BY <1>2, <1>4, <1>7, <2>1 DEF ThreadSound
<1>10. ASSUME NEW q \in Results, result'[q] # Unmade, result'[q].on = t PROVE ResultSound(q)'
  <2>1. q \in HeldOn(t) /\ result'[q] = result[q] /\ given'[q] = given[q] /\ result[q].on = t /\ result[q] # Unmade
    BY <1>10 DEF HeldOn
  <2>2. ResultSound(q)
    BY <1>1, <2>1 DEF StacksSound
  <2>3. ~ Failed(t)' /\ Seen(thread'[t]) = given[q] \o mine
    BY <1>2, <1>4, <1>7, <2>1
  <2> QED
    BY <1>4, <2>1, <2>2, <2>3 DEF ResultSound
<1>11. StacksSound'
  BY <1>6, <1>8, <1>9, <1>10, Everywhere
<1> QED
  BY <1>5, <1>6, <1>11 DEF IInv

LEMMA PushOwnSound ==
  ASSUME Corners = {}, IInv, NEW t \in Threads, NEW v \in Values, PushOwn(t, v)
  PROVE  IInv'
<1> DEFINE s == Append(Seen(thread[t]), v)
           mine == Append(own[t], v)
<1>1. TypeOK /\ StacksSound
  BY DEF IInv
<1>2. ~ Failed(t) /\ ThreadSound(t)
  BY <1>1 DEF PushOwn, Failed, StacksSound
<1>3. Seen(thread[t]) \in Seq(Shown) /\ own[t] \in Seq(Values) /\ own[t] \in Seq(Shown) /\ v \in Shown
  BY <1>1, SeenTyped, ShownWide DEF TypeOK, Shown
<1>4. s \in Seq(Shown) /\ mine \in Seq(Values)
  BY <1>3, AppendProperties
<1>5. HeldOn(t) = {} => s = mine
  BY <1>2 DEF ThreadSound
<1>6. ASSUME NEW r \in HeldOn(t) PROVE s = given[r] \o mine
  <2>1. r \in Results /\ result[r] # Unmade /\ result[r].on = t
    BY DEF HeldOn
  <2>2. Seen(thread[t]) = given[r] \o own[t] /\ given[r] \in Seq(Shown)
    BY <1>1, <1>2, <2>1 DEF StacksSound, ResultSound, TypeOK
  <2> DEFINE g == given[r]
             o == own[t]
  <2>3. g \in Seq(Shown) /\ o \in Seq(Shown) /\ v \in Shown /\ Seen(thread[t]) = g \o o
    BY <1>3, <2>2
  <2> HIDE DEF g, o
  <2>4. Append(g \o o, v) = g \o Append(o, v)
    <3>1. g \o o \in Seq(Shown) /\ <<v>> \in Seq(Shown)
      BY <2>3, ConcatProperties
    <3>2. Append(g \o o, v) = (g \o o) \o <<v>> /\ Append(o, v) = o \o <<v>>
      BY <2>3, <3>1, AppendIsConcat
    <3> QED
      BY <2>3, <3>1, <3>2, ConcatAssociative
  <2> QED
    BY <2>3, <2>4 DEF g, o
<1>7. /\ thread' = [thread EXCEPT ![t] = WithSeen(@, s)] /\ own' = [own EXCEPT ![t] = mine]
      /\ UNCHANGED <<fresh, co, informed, result, given>>
  BY DEF PushOwn
<1> HIDE DEF s, mine
<1> QED
  BY <1>2, <1>4, <1>5, <1>6, <1>7, OwnSound

LEMMA PopOwnSound ==
  ASSUME IInv, NEW t \in Threads, PopOwn(t)
  PROVE  IInv'
<1> DEFINE s == Pop(Seen(thread[t]), 1)
           mine == Pop(own[t], 1)
<1>1. TypeOK /\ StacksSound
  BY DEF IInv
<1>2. own[t] # <<>>
  BY DEF PopOwn
<1>3. ~ Failed(t) /\ ThreadSound(t)
  BY <1>1, <1>2 DEF ThreadSound, StacksSound
<1>4. Seen(thread[t]) \in Seq(Shown) /\ own[t] \in Seq(Values) /\ own[t] \in Seq(Shown)
  BY <1>1, SeenTyped, ShownWide DEF TypeOK
<1>5. s \in Seq(Shown) /\ mine \in Seq(Values)
  BY <1>4, PopTyped
<1>6. HeldOn(t) = {} => s = mine
  BY <1>3 DEF ThreadSound
<1>7. ASSUME NEW r \in HeldOn(t) PROVE s = given[r] \o mine
  <2>1. r \in Results /\ result[r] # Unmade /\ result[r].on = t
    BY DEF HeldOn
  <2>2. Seen(thread[t]) = given[r] \o own[t] /\ given[r] \in Seq(Shown)
    BY <1>1, <1>3, <2>1 DEF StacksSound, ResultSound, TypeOK
  <2> DEFINE g == given[r]
             o == own[t]
  <2>3. g \in Seq(Shown) /\ o \in Seq(Shown) /\ o # <<>> /\ Seen(thread[t]) = g \o o
    BY <1>2, <1>4, <2>2
  <2> HIDE DEF g, o
  <2>4. Pop(g \o o, 1) = g \o Pop(o, 1)
    BY <2>3, PopOne
  <2> QED
    BY <2>3, <2>4 DEF g, o
<1>8. /\ thread' = [thread EXCEPT ![t] = WithSeen(@, s)] /\ own' = [own EXCEPT ![t] = mine]
      /\ UNCHANGED <<fresh, co, informed, result, given>>
  BY DEF PopOwn
<1> HIDE DEF s, mine
<1> QED
  BY <1>3, <1>5, <1>6, <1>7, <1>8, OwnSound

--------------------------------------------------------------------------------
(* Coroutine objects *)

(* Steps of the objects leave the stacks alone; what is left to show is that *)
(* those informed afterwards are right.                                     *)
ObjectsTyped ==
  /\ co \in [Coroutines -> CoroutineType \cup {Unmade}]
  /\ fresh \subseteq Threads /\ informed \subseteq Coroutines

LEMMA ObjectStep ==
  ASSUME IInv, UNCHANGED <<thread, result, given, own>>, ObjectsTyped', InformedRight'
  PROVE  IInv'
<1>1. TypeOK'
  BY DEF IInv, TypeOK, ObjectsTyped
<1>2. StacksSound'
  BY DEF IInv, StacksSound, ThreadSound, ResultSound, HeldOn, Failed
<1> QED
  BY <1>1, <1>2 DEF IInv

LEMMA MadeTyped ==
  ASSUME TypeOK, NEW c \in Coroutines, Made(c)
  PROVE  /\ co[c] \in CoroutineType /\ co[c].on \in Threads \cup {NULL}
         /\ co[c].stats \in Statuses /\ co[c].handler \in Handlers
BY DEF TypeOK, Made, CoroutineType

(* Whatever is made of error handlers is one. *)
LEMMA HandlersTyped ==
  ASSUME NEW h \in Handlers, NEW t \in Threads \cup {NULL}
  PROVE  /\ HandlerMoved(t, h) \in Handlers /\ HandlerLeft(t, h) \in Handlers
         /\ \A from \in Handlers : HandlerAssigned(h, from) \in Handlers
         /\ NoHandler \in Handlers
BY DEF Handlers, HandlerMoved, HandlerLeft, HandlerAssigned, NoHandler

LEMMA CoroutineNotUnmade ==
  ASSUME NEW x \in CoroutineType
  PROVE  x # Unmade
BY CoroutineAssumption DEF CoroutineType

(* A move makes a coroutine on the thread s was on, and leaves s on none. *)
LEMMA MovedTyped ==
  ASSUME TypeOK, NEW s \in Coroutines, Made(s), NEW stats \in Statuses, NEW h \in Handlers
  PROVE  /\ MovedFrom(s, stats, h) \in CoroutineType
         /\ MovedFrom(s, stats, h).on = co[s].on /\ MovedFrom(s, stats, h).stats = stats
         /\ LeftOf(s) \in CoroutineType /\ LeftOf(s).on = NULL
<1>1. co[s].on \in Threads \cup {NULL} /\ co[s].stats \in Statuses /\ co[s].handler \in Handlers
  BY MadeTyped
<1>2. HandlerLeft(co[s].on, co[s].handler) \in Handlers
  BY <1>1, HandlersTyped
<1> QED
  BY <1>1, <1>2 DEF MovedFrom, LeftOf, CoroutineType

(* c has the thread and status it had. *)
SpeaksAlike(c) ==
  (Made(c)' <=> Made(c)) /\ (Made(c) => co'[c].on = co[c].on /\ co'[c].stats = co[c].stats)

(* Of a new coroutine on t nobody else knows, and it can be started. *)
LEMMA OthersRight ==
  ASSUME TypeOK, InformedRight, NEW d \in Coroutines, NEW t \in Threads, Free(t, {d}),
         UNCHANGED thread, fresh' = fresh \cup {t}, informed' = informed \cup {d},
         co'[d].on = t, co'[d].stats = "yielded",
         \A c \in Coroutines \ {d} : SpeaksAlike(c)
  PROVE  InformedRight'
<1>1. thread'[t].status = "ok"
  BY DEF Free
<1>2. Right(d)'
  BY <1>1 DEF Right, Resumable
<1>3. ASSUME NEW c \in informed, c # d PROVE Right(c)'
  <2>1. c \in Coroutines \ {d} /\ SpeaksAlike(c)
    BY <1>3 DEF TypeOK
  <2>2. Right(c)
    BY DEF InformedRight
  <2>3. ~ Made(c) \/ co[c].on # t
    BY <1>3, <2>1 DEF Free, HandlesOf
  <2> QED
    BY <2>1, <2>2, <2>3 DEF Right, SpeaksAlike, Resumable
<1> QED
  BY <1>2, <1>3 DEF InformedRight

(* An object that a step leaves alone does. *)
LEMMA LeftAlike ==
  ASSUME NEW c, co'[c] = co[c]
  PROVE  SpeaksAlike(c)
BY DEF SpeaksAlike, Made

(* What d gets is what s was, and s keeps it or denotes nothing afterwards. *)
LEMMA InheritedRight ==
  ASSUME TypeOK, InformedRight, NEW d \in Coroutines, NEW s \in Coroutines, d # s, Made(s),
         UNCHANGED <<thread, fresh>>, Inform(d, s),
         co' \in [Coroutines -> CoroutineType \cup {Unmade}],
         \A c \in Coroutines \ {d, s} : co'[c] = co[c],
         co'[d].on = co[s].on,
         co[s].on # NULL => co'[d].stats = co[s].stats,
         co'[s] = co[s] \/ co'[s].on = NULL
  PROVE  ObjectsTyped' /\ InformedRight'
<1>1. informed' = IF s \in informed THEN informed \cup {d} ELSE informed \ {d}
  BY DEF Inform
<1>2. informed' \subseteq Coroutines /\ fresh' \subseteq Threads
  BY <1>1 DEF TypeOK
<1>3. ASSUME NEW c \in informed', c \notin {d, s} PROVE Right(c)'
  <2>1. c \in informed /\ co'[c] = co[c]
    BY <1>1, <1>2, <1>3
  <2>2. Right(c)
    BY <2>1 DEF InformedRight
  <2> QED
    BY <2>1, <2>2 DEF Right, Made, Resumable
<1>4. ASSUME s \in informed PROVE Right(s)'
  <2>1. Right(s)
    BY <1>4 DEF InformedRight
  <2>2. CASE co'[s] = co[s]
    BY <2>1, <2>2 DEF Right, Made, Resumable
  <2>3. CASE co'[s].on = NULL
    BY <2>3 DEF Right
  <2> QED
    BY <2>2, <2>3
<1>5. ASSUME s \in informed PROVE Right(d)'
  <2>1. Right(s)
    BY <1>5 DEF InformedRight
  <2>2. co[s].on # NULL => (co[s].stats = "yielded" <=> Resumable(co[s].on))
    BY <2>1 DEF Right
  <2> QED
    BY <2>2 DEF Right, Resumable
<1>6. InformedRight'
  BY <1>1, <1>3, <1>4, <1>5 DEF InformedRight
<1> QED
  BY <1>2, <1>6 DEF ObjectsTyped

LEMMA ObjectActionsSound ==
  ASSUME Corners = {}, IInv, NEW d \in Coroutines, NEW s \in Coroutines
  PROVE  /\ \A t \in Threads, handler \in Handlers : Construct(d, t, handler) => IInv'
         /\ Default(d) => IInv'
         /\ DestroyCoroutine(d) => IInv'
         /\ CopyConstruct(d, s) => IInv'
         /\ MoveConstruct(d, s) => IInv'
         /\ CopyAssign(d, s) => IInv'
         /\ MoveAssign(d, s) => IInv'
<1>1. TypeOK /\ InformedRight
  BY DEF IInv
<1>2. CoroutineType = [on : Threads \cup {NULL}, stats : Statuses, handler : Handlers]
  BY DEF CoroutineType
<1>3. "yielded" \in Statuses /\ InitialStats = "yielded"
  BY DEF Statuses, InitialStats
<1>4. \A stats, wanted : Fits(stats, wanted) <=> stats = wanted
  BY DEF Fits
<1>5. ASSUME NEW t \in Threads, NEW handler \in Handlers, Construct(d, t, handler) PROVE IInv'
  <2> DEFINE e == [on |-> t, stats |-> InitialStats, handler |-> handler]
  <2>1. /\ co' = [co EXCEPT ![d] = e] /\ fresh' = fresh \cup {t} /\ informed' = informed \cup {d}
        /\ UNCHANGED <<thread, result, given, own>> /\ Free(t, {})
    BY <1>5 DEF Construct
  <2>2. e \in CoroutineType /\ e.on = t /\ e.stats = "yielded"
    BY <1>2, <1>3
  <2> HIDE DEF e
  <2>3. ObjectsTyped'
    BY <1>1, <2>1, <2>2 DEF TypeOK, ObjectsTyped
  <2>4. Free(t, {d})
    BY <2>1 DEF Free
  <2>5. InformedRight'
    <3>1. co'[d] = e /\ \A c \in Coroutines \ {d} : co'[c] = co[c]
      BY <1>1, <2>1 DEF TypeOK
    <3> QED
      BY <1>1, <2>1, <2>2, <2>4, <3>1, LeftAlike, OthersRight
  <2> QED
    BY <2>1, <2>3, <2>5, ObjectStep
<1>6. ASSUME Default(d) PROVE IInv'
  <2>1. ~ Made(d) /\ co' = [co EXCEPT ![d] = Empty] /\ UNCHANGED <<thread, fresh, informed, result, given, own>>
    BY <1>6 DEF Default
  <2>2. Empty \in CoroutineType /\ Empty.on = NULL
    BY <1>2, <1>3 DEF Empty, NoHandler, Handlers
  <2>3. ObjectsTyped'
    BY <1>1, <2>1, <2>2 DEF TypeOK, ObjectsTyped
  <2>4. ASSUME NEW c \in informed PROVE Right(c)'
    <3>1. Right(c) /\ (c = d \/ co'[c] = co[c]) /\ co'[d] = Empty
      BY <1>1, <2>1 DEF InformedRight, TypeOK
    <3> QED
      BY <2>1, <2>2, <3>1 DEF Right, Made, Resumable
  <2>5. InformedRight'
    BY <2>1, <2>4 DEF InformedRight
  <2> QED
    BY <2>1, <2>3, <2>5, ObjectStep
<1>7. ASSUME DestroyCoroutine(d) PROVE IInv'
  <2>1. co' = [co EXCEPT ![d] = Unmade] /\ UNCHANGED <<thread, fresh, informed, result, given, own>>
    BY <1>7 DEF DestroyCoroutine
  <2>2. ObjectsTyped'
    BY <1>1, <2>1 DEF TypeOK, ObjectsTyped
  <2>3. ASSUME NEW c \in informed PROVE Right(c)'
    <3>1. Right(c) /\ (c = d \/ co'[c] = co[c]) /\ co'[d] = Unmade
      BY <1>1, <2>1 DEF InformedRight, TypeOK
    <3> QED
      BY <2>1, <3>1 DEF Right, Made, Resumable
  <2>4. InformedRight'
    BY <2>1, <2>3 DEF InformedRight
  <2> QED
    BY <2>1, <2>2, <2>4, ObjectStep
<1>8. ASSUME CopyConstruct(d, s) PROVE IInv'
  <2>1. /\ ~ Made(d) /\ Made(s) /\ co' = [co EXCEPT ![d] = co[s]] /\ Inform(d, s)
        /\ UNCHANGED <<thread, fresh, result, given, own>>
    BY <1>8 DEF CopyConstruct
  <2>2. d # s /\ co[s] \in CoroutineType
    BY <1>1, <2>1, MadeTyped
  <2>3. /\ co' \in [Coroutines -> CoroutineType \cup {Unmade}] /\ co'[d] = co[s] /\ co'[s] = co[s]
        /\ \A c \in Coroutines \ {d, s} : co'[c] = co[c]
    BY <1>1, <2>1, <2>2 DEF TypeOK
  <2>4. ObjectsTyped' /\ InformedRight'
    BY <1>1, <2>1, <2>2, <2>3, InheritedRight
  <2> QED
    BY <2>1, <2>4, ObjectStep
<1>9. ASSUME MoveConstruct(d, s) PROVE IInv'
  <2> DEFINE e == MovedFrom(s, InitialStats, HandlerMoved(co[s].on, co[s].handler))
             left == LeftOf(s)
  <2>1. /\ ~ Made(d) /\ Made(s) /\ co' = [co EXCEPT ![d] = e, ![s] = left] /\ Inform(d, s)
        /\ co[s].on # NULL => InitialStats = co[s].stats
        /\ UNCHANGED <<thread, fresh, result, given, own>>
    BY <1>4, <1>9 DEF MoveConstruct
  <2>2. d # s /\ co[s] \in CoroutineType
    BY <1>1, <2>1, MadeTyped
  <2>3. /\ e \in CoroutineType /\ e.on = co[s].on /\ e.stats = InitialStats
        /\ left \in CoroutineType /\ left.on = NULL
    <3>1. HandlerMoved(co[s].on, co[s].handler) \in Handlers
      BY <1>1, <2>1, MadeTyped, HandlersTyped
    <3> QED
      BY <1>1, <1>3, <2>1, <3>1, MovedTyped DEF Statuses
  <2> HIDE DEF e, left
  <2>4. /\ co' \in [Coroutines -> CoroutineType \cup {Unmade}] /\ co'[d] = e /\ co'[s] = left
        /\ \A c \in Coroutines \ {d, s} : co'[c] = co[c]
    BY <1>1, <2>1, <2>2, <2>3 DEF TypeOK
  <2>5. ObjectsTyped' /\ InformedRight'
    BY <1>1, <2>1, <2>2, <2>3, <2>4, InheritedRight
  <2> QED
    BY <2>1, <2>5, ObjectStep
<1>10. ASSUME CopyAssign(d, s) PROVE IInv'
  <2>1. /\ d # s /\ Made(d) /\ Made(s) /\ co' = [co EXCEPT ![d] = Copied(d, s)]
        /\ UNCHANGED <<thread, result, given, own>>
    BY <1>10 DEF CopyAssign
  <2>2. /\ co[s] \in CoroutineType /\ co[d] \in CoroutineType /\ co[d].on \in Threads \cup {NULL}
        /\ co[s].on \in Threads \cup {NULL} /\ co[s].stats \in Statuses
    BY <1>1, <2>1, MadeTyped
  <2>5. HandlerAssigned(co[d].handler, co[s].handler) \in Handlers
    BY <1>1, <2>1, MadeTyped, HandlersTyped
  <2>3. CASE Pinned(d, s) /\ co[s].stats = InitialStats /\ BecomesNew(d)
    <3>1. co[d].on \in Threads
      BY <2>2, <2>3 DEF Pinned
    <3>2. /\ Copied(d, s) \in CoroutineType /\ Copied(d, s).on = co[d].on
          /\ Copied(d, s).stats = "yielded"
      BY <1>2, <1>3, <2>2, <2>3, <2>5 DEF Copied
    <3>3. Free(co[d].on, {d}) /\ fresh' = fresh \cup {co[d].on} /\ informed' = informed \cup {d}
      BY <2>3 DEF BecomesNew
    <3>4. ObjectsTyped'
      BY <1>1, <2>1, <3>1, <3>2, <3>3 DEF TypeOK, ObjectsTyped
    <3>5. InformedRight'
      <4>1. co'[d] = Copied(d, s) /\ \A c \in Coroutines \ {d} : co'[c] = co[c]
        BY <1>1, <2>1 DEF TypeOK
      <4> QED
        BY <1>1, <2>1, <3>1, <3>2, <3>3, <4>1, LeftAlike, OthersRight
    <3> QED
      BY <2>1, <3>4, <3>5, ObjectStep
  <2>4. CASE ~ Pinned(d, s) /\ Inform(d, s) /\ UNCHANGED fresh
    <3>1. /\ Copied(d, s) \in CoroutineType
          /\ Copied(d, s).on = co[s].on /\ Copied(d, s).stats = co[s].stats
      BY <1>2, <2>2, <2>4, <2>5 DEF Copied
    <3>2. /\ co' \in [Coroutines -> CoroutineType \cup {Unmade}]
          /\ co'[d] = Copied(d, s) /\ co'[s] = co[s]
          /\ \A c \in Coroutines \ {d, s} : co'[c] = co[c]
      BY <1>1, <2>1, <2>2, <3>1 DEF TypeOK
    <3>3. ObjectsTyped' /\ InformedRight'
      BY <1>1, <2>1, <2>4, <3>1, <3>2, InheritedRight
    <3> QED
      BY <2>1, <3>3, ObjectStep
  <2> QED
    BY <1>4, <1>10, <2>3, <2>4 DEF CopyAssign
<1>11. ASSUME MoveAssign(d, s) PROVE IInv'
  <2> DEFINE stats == co[d].stats
             t == co[d].on
             left == [co[s] EXCEPT !.handler = HandlerLeft(t, @)]
             e == MovedFrom(s, stats, HandlerFor(co[s].on, d, s))
             kept == [co[d] EXCEPT !.handler = HandlerFor(t, d, s)]
  <2>1. d # s /\ Made(d) /\ Made(s) /\ UNCHANGED <<thread, result, given, own>>
    BY <1>11 DEF MoveAssign
  <2>2. /\ co[s] \in CoroutineType /\ co[d] \in CoroutineType /\ t \in Threads \cup {NULL}
        /\ co[s].on \in Threads \cup {NULL} /\ stats \in Statuses
        /\ co[s].handler \in Handlers /\ co[d].handler \in Handlers
    BY <1>1, <2>1, MadeTyped
  <2>3. /\ \A u \in Threads \cup {NULL} : HandlerFor(u, d, s) \in Handlers
        /\ HandlerLeft(t, co[s].handler) \in Handlers
    BY <2>2, HandlersTyped DEF HandlerFor
  <2>4. CASE /\ Pinned(d, s) /\ stats = InitialStats /\ BecomesNew(d)
             /\ co' = [co EXCEPT ![d] = kept, ![s] = left]
    <3>1. t \in Threads
      BY <2>2, <2>4 DEF Pinned
    <3>2. /\ kept \in CoroutineType /\ kept.on = t /\ kept.stats = "yielded"
          /\ left \in CoroutineType /\ left.on = co[s].on /\ left.stats = co[s].stats
      BY <1>2, <1>3, <2>2, <2>3, <2>4
    <3>3. Free(t, {d}) /\ fresh' = fresh \cup {t} /\ informed' = informed \cup {d}
      BY <2>4 DEF BecomesNew
    <3> HIDE DEF kept, left, t, stats
    <3>4. ObjectsTyped'
      BY <1>1, <2>4, <3>1, <3>2, <3>3 DEF TypeOK, ObjectsTyped
    <3>5. InformedRight'
      <4>1. /\ co'[d] = kept /\ co'[s] = left
            /\ \A c \in Coroutines \ {d, s} : co'[c] = co[c]
        BY <1>1, <2>1, <2>4 DEF TypeOK
      <4>2. \A c \in Coroutines \ {d} : SpeaksAlike(c)
        BY <2>1, <3>2, <4>1, CoroutineNotUnmade DEF SpeaksAlike, Made
      <4> QED
        BY <1>1, <2>1, <3>1, <3>2, <3>3, <4>1, <4>2, CoroutineNotUnmade, OthersRight
    <3> QED
      BY <2>1, <3>4, <3>5, ObjectStep
  <2>5. CASE /\ ~ Pinned(d, s)
             /\ co[s].on # NULL => stats = co[s].stats
             /\ co' = [co EXCEPT ![d] = e, ![s] = LeftOf(s)]
             /\ Inform(d, s) /\ UNCHANGED fresh
    <3>1. /\ e \in CoroutineType /\ e.on = co[s].on /\ e.stats = stats
          /\ LeftOf(s) \in CoroutineType /\ LeftOf(s).on = NULL
      BY <1>1, <2>1, <2>2, <2>3, MovedTyped
    <3> HIDE DEF e, stats
    <3>2. /\ co' \in [Coroutines -> CoroutineType \cup {Unmade}] /\ co'[d] = e /\ co'[s] = LeftOf(s)
          /\ \A c \in Coroutines \ {d, s} : co'[c] = co[c]
      BY <1>1, <2>1, <2>5, <3>1 DEF TypeOK
    <3>3. ObjectsTyped' /\ InformedRight'
      BY <1>1, <2>1, <2>5, <3>1, <3>2, InheritedRight
    <3> QED
      BY <2>1, <3>3, ObjectStep
  <2> QED
    BY <1>4, <1>11, <2>4, <2>5 DEF MoveAssign
<1> QED
  BY <1>5, <1>6, <1>7, <1>8, <1>9, <1>10, <1>11

--------------------------------------------------------------------------------
(* The theorems *)

LEMMA InitSound == Init => IInv
<1> SUFFICES ASSUME Init PROVE IInv
  OBVIOUS
<1>1. \A t \in Threads : thread[t] = [status |-> "ok", base |-> <<>>, frame |-> <<>>]
  BY DEF Init
<1>2. thread \in [Threads -> ThreadType]
  <2>1. [status |-> "ok", base |-> <<>>, frame |-> <<>>] \in ThreadType
    BY EmptySeq DEF ThreadType, Statuses
  <2> QED
    BY <2>1 DEF Init
<1>3. TypeOK
  BY <1>2, EmptySeq DEF Init, TypeOK
<1>4. \A t \in Threads : HeldOn(t) = {} /\ Seen(thread[t]) = own[t] /\ ~ Failed(t)
  BY <1>1 DEF Init, HeldOn, Seen, Failed
<1>5. StacksSound
  BY <1>1, <1>4 DEF Init, StacksSound, ThreadSound
<1>6. InformedRight
  BY DEF Init, InformedRight
<1> QED
  BY <1>3, <1>5, <1>6 DEF IInv

LEMMA NextSound ==
  ASSUME Corners = {}, IInv, [Next]_vars
  PROVE  IInv'
<1>1. CASE \E c \in Coroutines, t \in Threads, handler \in Handlers : Construct(c, t, handler)
  BY <1>1, ObjectActionsSound
<1>2. CASE \E c \in Coroutines : Default(c) \/ DestroyCoroutine(c)
  BY <1>2, ObjectActionsSound
<1>3. CASE \E d, s \in Coroutines :
             CopyConstruct(d, s) \/ MoveConstruct(d, s) \/ CopyAssign(d, s) \/ MoveAssign(d, s)
  BY <1>3, ObjectActionsSound
<1>4. CASE \E c \in Coroutines, o \in Outcomes \cup {Refusal} :
             CallTyped(c, o) \/ \E r \in Results : Call(c, r, o)
  BY <1>4, CallTypedSound, CallSound
<1>5. CASE \E r \in Results : DestroyResult(r)
  BY <1>5, DestroyResultSound
<1>6. CASE \E t \in Threads : PopOwn(t) \/ \E v \in Values : PushOwn(t, v)
  BY <1>6, PopOwnSound, PushOwnSound
<1>7. CASE UNCHANGED vars
  <2>1. UNCHANGED <<thread, result, given, own>> /\ UNCHANGED <<fresh, co, informed>>
    BY <1>7 DEF vars
  <2>2. ObjectsTyped'
    BY <2>1 DEF IInv, TypeOK, ObjectsTyped
  <2>3. InformedRight'
    BY <2>1, InformedKept DEF IInv
  <2> QED
    BY <2>1, <2>2, <2>3, ObjectStep
<1> QED
  BY <1>1, <1>2, <1>3, <1>4, <1>5, <1>6, <1>7 DEF Next

LEMMA Invariance ==
  ASSUME Corners = {}
  PROVE  Spec => []IInv
<1>1. Init => IInv
  BY InitSound
<1>2. IInv /\ [Next]_vars => IInv'
  BY NextSound
<1> QED
  BY <1>1, <1>2, PTL DEF Spec

LEMMA IInvStatus ==
  ASSUME IInv
  PROVE  StatusAgrees
<1>1. ASSUME NEW c \in informed
      PROVE  Made(c) /\ co[c].on # NULL => (co[c].stats = "yielded" <=> Resumable(co[c].on))
  BY DEF IInv, InformedRight, Right
<1>2. Truthful
  BY <1>1 DEF Truthful, Runnable
<1>3. NotRefused
  BY <1>1 DEF NotRefused, Runnable
<1>4. ASSUME NEW t \in Threads, HeldOn(t) = {}, own[t] = <<>>
      PROVE  ThreadStatus(t) = "dead" <=> thread[t].status = "ok"
  <2>1. ThreadSound(t) /\ thread[t].status \in Statuses
    BY DEF IInv, StacksSound, TypeOK, ThreadType
  <2>2. CASE thread[t].status = "ok"
    <3>1. thread[t].base = <<>>
      BY <1>4, <2>1, <2>2 DEF ThreadSound, Seen, Failed
    <3> QED
      BY <2>2, <3>1 DEF ThreadStatus
  <2>3. CASE thread[t].status # "ok"
    BY <2>1, <2>3 DEF ThreadStatus, Statuses
  <2> QED
    BY <2>2, <2>3
<1>5. ThreadStatusAgrees
  BY <1>4 DEF ThreadStatusAgrees
<1> QED
  BY <1>2, <1>3, <1>5 DEF StatusAgrees

LEMMA IInvResults ==
  ASSUME IInv
  PROVE  ResultsRead
<1> SUFFICES ASSUME NEW r \in Results, result[r] # Unmade
             PROVE  /\ result[r].returncount = Len(given[r])
                    /\ \A i \in 1 .. Len(given[r]) :
                         LET seen == Seen(thread[result[r].on])
                             at == result[r].index + i - 1
                         IN at <= Len(seen) /\ seen[at] = given[r][i]
  BY DEF ResultsRead
<1>1. PICK t \in Threads : t = result[r].on
  BY DEF IInv, TypeOK, ResultType
<1> DEFINE seen == Seen(thread[t])
           values == given[r]
<1>2. /\ ResultSound(r) /\ seen \in Seq(Shown) /\ Len(seen) \in Nat
      /\ values \in Seq(Shown) /\ own[t] \in Seq(Shown)
  BY SeenTyped, ShownWide DEF IInv, StacksSound, TypeOK
<1>3. CASE Failed(t)
  <2>1. /\ Len(values) = 1 /\ result[r].returncount = 1
        /\ result[r].index = Len(seen) /\ seen[Len(seen)] = values[1]
    BY <1>1, <1>2, <1>3 DEF ResultSound
  <2>2. ASSUME NEW i \in 1 .. Len(values)
        PROVE  result[r].index + i - 1 <= Len(seen) /\ seen[result[r].index + i - 1] = values[i]
    <3>1. i = 1 /\ result[r].index + i - 1 = Len(seen)
      BY <1>2, <2>1
    <3> QED
      BY <1>2, <2>1, <3>1
  <2> QED
    BY <1>1, <2>1, <2>2
<1>4. CASE ~ Failed(t)
  <2>1. seen = values \o own[t] /\ result[r].index = 1 /\ result[r].returncount = Len(values)
    BY <1>1, <1>2, <1>4 DEF ResultSound
  <2> DEFINE mine == own[t]
  <2>2. mine \in Seq(Shown) /\ Len(mine) \in Nat /\ Len(values) \in Nat
    BY <1>2
  <2> HIDE DEF mine, values
  <2>3. /\ Len(values \o mine) = Len(values) + Len(mine)
        /\ \A i \in 1 .. Len(values) + Len(mine) :
             (values \o mine)[i] = IF i <= Len(values) THEN values[i] ELSE mine[i - Len(values)]
    BY <1>2, <2>2, ConcatProperties
  <2>4. seen = values \o mine
    BY <2>1 DEF mine
  <2> HIDE DEF seen
  <2>5. ASSUME NEW i \in 1 .. Len(values)
        PROVE  result[r].index + i - 1 <= Len(seen) /\ seen[result[r].index + i - 1] = values[i]
    <3>1. result[r].index + i - 1 = i /\ i \in 1 .. Len(values) + Len(mine) /\ i <= Len(values)
      BY <2>1, <2>2
    <3> QED
      BY <2>2, <2>3, <2>4, <3>1
  <2> QED
    BY <1>1, <2>1, <2>5 DEF seen, values
<1> QED
  BY <1>3, <1>4

LEMMA IInvStacks ==
  ASSUME IInv
  PROVE  StackShared
<1>1. ASSUME NEW t \in Threads
      PROVE  /\ Seen(thread[t]) \in Seq(Shown) /\ own[t] \in Seq(Shown) /\ ThreadSound(t)
             /\ \A r \in HeldOn(t) : r \in Results /\ given[r] \in Seq(Shown) /\ HeldOn(t) = {r}
             /\ ~ Failed(t) => \A r \in HeldOn(t) : Seen(thread[t]) = given[r] \o own[t]
  <2>1. Seen(thread[t]) \in Seq(Shown) /\ own[t] \in Seq(Shown)
    BY SeenTyped, ShownWide DEF IInv, TypeOK
  <2>2. ThreadSound(t)
    BY DEF IInv, StacksSound
  <2>3. \A r \in HeldOn(t) : r \in Results /\ result[r] # Unmade /\ result[r].on = t
    BY DEF HeldOn
  <2>4. \A r \in HeldOn(t) : given[r] \in Seq(Shown) /\ HeldOn(t) = {r}
    BY <2>2, <2>3 DEF ThreadSound, IInv, TypeOK
  <2>5. ~ Failed(t) => \A r \in HeldOn(t) : Seen(thread[t]) = given[r] \o own[t]
    BY <2>3 DEF IInv, StacksSound, ResultSound
  <2> QED
    BY <2>1, <2>2, <2>3, <2>4, <2>5
<1>2. ASSUME NEW t \in Threads, ~ Failed(t)
      PROVE  \/ HeldOn(t) = {} /\ Len(Seen(thread[t])) = Len(own[t])
             \/ \E r \in HeldOn(t) : HeldOn(t) = {r} /\ Len(Seen(thread[t])) = Len(given[r]) + Len(own[t])
  <2>1. CASE HeldOn(t) = {}
    BY <1>1, <1>2, <2>1 DEF ThreadSound
  <2>2. ASSUME NEW r \in HeldOn(t)
        PROVE  HeldOn(t) = {r} /\ Len(Seen(thread[t])) = Len(given[r]) + Len(own[t])
    <3> DEFINE g == given[r]
               o == own[t]
    <3>1. g \in Seq(Shown) /\ o \in Seq(Shown) /\ Seen(thread[t]) = g \o o /\ HeldOn(t) = {r}
      BY <1>1, <1>2
    <3> HIDE DEF g, o
    <3>2. Len(g \o o) = Len(g) + Len(o)
      BY <3>1, ConcatProperties
    <3> QED
      BY <3>1, <3>2 DEF g, o
  <2> QED
    BY <2>1, <2>2
<1>3. OnlyHeld
  BY <1>2 DEF OnlyHeld, Failed
<1>4. ASSUME NEW t \in Threads, NEW s \in Seq(Shown), NEW u \in Seq(Shown), s \o u = Seen(thread[t]), u = own[t]
      PROVE  /\ Len(own[t]) <= Len(Seen(thread[t]))
             /\ SubSeq(Seen(thread[t]), Len(Seen(thread[t])) - Len(own[t]) + 1, Len(Seen(thread[t]))) = own[t]
  <2>1. SubSeq(s \o u, Len(s) + 1, Len(s \o u)) = u
    BY UpperPart
  <2>2. Len(s \o u) = Len(s) + Len(u)
    BY ConcatProperties
  <2>3. Len(s) \in Nat /\ Len(u) \in Nat
    OBVIOUS
  <2>4. Len(s \o u) - Len(u) + 1 = Len(s) + 1 /\ Len(u) <= Len(s \o u)
    BY <2>2, <2>3
  <2> QED
    BY <1>4, <2>1, <2>4
<1>5. ASSUME NEW t \in Threads
      PROVE  \E s \in Seq(Shown), u \in Seq(Shown) : s \o u = Seen(thread[t]) /\ u = own[t]
  <2>1. CASE Failed(t)
    <3>1. own[t] = <<>> /\ Seen(thread[t]) \o <<>> = Seen(thread[t])
      BY <1>1, <2>1, ConcatEmptySeq DEF ThreadSound
    <3> QED
      BY <1>1, <3>1
  <2>2. CASE ~ Failed(t) /\ HeldOn(t) = {}
    <3>1. Seen(thread[t]) = own[t]
      BY <1>1, <2>2 DEF ThreadSound
    <3>2. <<>> \o own[t] = own[t] /\ <<>> \in Seq(Shown)
      BY <1>1, ConcatEmptySeq, EmptySeq
    <3> QED
      BY <1>1, <3>1, <3>2
  <2>3. CASE ~ Failed(t) /\ HeldOn(t) # {}
    <3>1. PICK r \in HeldOn(t) : TRUE
      BY <2>3
    <3>2. given[r] \in Seq(Shown) /\ Seen(thread[t]) = given[r] \o own[t]
      BY <1>1, <2>3, <3>1
    <3> QED
      BY <1>1, <3>2
  <2> QED
    BY <2>1, <2>2, <2>3
<1>6. OwnStays
  BY <1>4, <1>5 DEF OwnStays
<1> QED
  BY <1>3, <1>6 DEF StackShared, IInv

(* In a program without corner cases, an object that knows of every call is *)
(* runnable exactly when its coroutine can be resumed, and thread::status    *)
(* says dead exactly when nothing is suspended or failed, whatever is        *)
(* copied, moved and assigned between the calls.                             *)
THEOREM StatusesAgree ==
  ASSUME Corners = {}
  PROVE  Spec => []StatusAgrees
<1>1. IInv => StatusAgrees
  BY IInvStatus
<1> QED
  BY <1>1, Invariance, PTL

(* A result reads what its call yielded, returned or failed with until it is *)
(* destroyed: no program step below or above it moves its values.            *)
THEOREM ResultsReadBack ==
  ASSUME Corners = {}
  PROVE  Spec => []ResultsRead
<1>1. IInv => ResultsRead
  BY IInvResults
<1> QED
  BY <1>1, Invariance, PTL

(* The thread's stack is the result's values and the program's own on top,   *)
(* and nothing else: calls, handlers and destructors leave nothing behind    *)
(* and take nothing that is not theirs.                                      *)
THEOREM StacksShared ==
  ASSUME Corners = {}
  PROVE  Spec => []StackShared
<1>1. IInv => StackShared
  BY IInvStacks
<1> QED
  BY <1>1, Invariance, PTL
================================================================================

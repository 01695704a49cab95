------------------------------- MODULE Container -------------------------------
(***************************************************************************)
(* A C++ container in Lua (usertype_container.hpp): the operations a script *)
(* calls on it and the loops of pairs() over it.                            *)
(*                                                                         *)
(* The default implementation chooses its code by what the C++ type has:     *)
(* random access or a walk, insert or insert_after, find or a search.  Each *)
(* kind below stands for one choice: "vector" (also a deque), "list",       *)
(* "forward_list", "array" (a C array), "set" and "map" (ordered).          *)
(* An element is a node, so that an iterator can be told from an index: the *)
(* iterators of a node container survive what happens to other nodes.       *)
(***************************************************************************)
EXTENDS Integers, Sequences, FiniteSets

CONSTANTS
  Kinds,       \* the kinds considered
  MaxLen,      \* bound on the length of a container
  Values,      \* the values that a script passes
  Keys,        \* the keys of a container that is looked up
  Loops,       \* the iterators that pairs() has made
  StartIndex,  \* SOL_CONTAINER_START_INDEX
  Nil,         \* nil
  End,         \* the end iterator
  Dangling,    \* an iterator that C++ no longer defines
  Corners      \* corner cases the program is assumed to perform

AllKinds == {"vector", "list", "forward_list", "array", "set", "map"}

CornerCases ==
  {"nil_by_index", "below_start", "map_insert", "array_in_coroutine", "empty_forward_list"}

Nodes == 1 .. MaxLen

\* What value.as<V>() makes of a nil.
Default == 0

ASSUME ContainerAssumption ==
  /\ Kinds \subseteq AllKinds
  /\ MaxLen \in Nat \ {0}
  /\ Values \subseteq Keys /\ Keys \subseteq Nat \ {Default}
  /\ StartIndex \in Nat
  /\ Nil \notin Int
  /\ End \notin Nodes /\ Dangling \notin Nodes /\ End # Dangling
  /\ Corners \subseteq CornerCases

VARIABLES
  kind,   \* the kind of the container
  order,  \* its elements from begin to end
  data,   \* data[n]: the key and the value of element n
  loop,   \* the iterators and, for the properties, what they have done
  held,   \* whether the script still holds the container
  alive   \* whether the container exists

vars == <<kind, order, data, loop, held, alive>>

Size == Len(order)

Places == 1 .. Size

Content == {order[i] : i \in Places}

Blank == [key |-> Default, value |-> Default]

Idle == [live |-> FALSE, at |-> End, key |-> 0, pins |-> FALSE, since |-> {}, seen |-> {}]

TypeOK ==
  /\ kind \in Kinds
  /\ order \in Seq(Nodes) /\ Size <= MaxLen
  /\ \A i, j \in Places : order[i] = order[j] => i = j
  /\ data \in [Nodes -> [key : Keys \cup {Default}, value : Keys \cup {Default}]]
  /\ \A n \in Nodes \ Content : data[n] = Blank
  /\ loop \in [Loops -> [live : BOOLEAN, at : Nodes \cup {End, Dangling}, key : 0 .. MaxLen,
                         pins : BOOLEAN, since : SUBSET Nodes, seen : SUBSET Nodes]]
  /\ held \in BOOLEAN /\ alive \in BOOLEAN

Init ==
  /\ kind \in Kinds
  /\ order = IF kind = "array" THEN [i \in Nodes |-> i] ELSE <<>>
  /\ data = [n \in Nodes |-> Blank]
  /\ loop = [i \in Loops |-> Idle]
  /\ held = TRUE
  /\ alive = TRUE

Associative == kind = "map"
Lookup == kind \in {"set", "map"}
Linear == ~Lookup
RandomAccess == kind \in {"vector", "array"}

GetKey(i) == data[order[i]].key
GetValue(i) == data[order[i]].value

(* index_adjustment: what makes the index of a script count from 0. *)
IndexAdjustment == IF StartIndex = 0 THEN 0 ELSE -StartIndex

Position(k) == k + IndexAdjustment

Found(k) == {i \in Places : GetKey(i) = k}

Least(S) == CHOOSE i \in S : \A j \in S : i <= j

--------------------------------------------------------------------------------
(* Reading *)

(* at_category, and get of an array: from 0 to size() - 1, or nil. *)
At(k) == IF Position(k) \in 0 .. Size - 1 THEN GetValue(Position(k) + 1) ELSE Nil

(* get_start: by position, or by key. *)
Get(k) == IF Linear THEN At(k) ELSE IF Found(k) = {} THEN Nil ELSE GetValue(Least(Found(k)))

(* Mutant: the distance itself. *)
Distance(i) == i - 1

(* The distance from begin() to the place, counted from StartIndex. *)
PlaceIndex(i) == (i - 1) - IndexAdjustment

(* find_comparative, or find() of the container: the index of the first such *)
(* element of a sequence, what a key leads to otherwise.                     *)
Find(v) ==
  IF Found(v) = {} THEN Nil
  ELSE IF Linear THEN PlaceIndex(Least(Found(v))) ELSE GetValue(Least(Found(v)))

(* index_of *)
IndexOf(v) == IF Found(v) = {} THEN Nil ELSE PlaceIndex(Least(Found(v)))

--------------------------------------------------------------------------------
(* C++ containers *)

Fresh == CHOOSE n \in Nodes \ Content : \A m \in Nodes \ Content : n <= m

(* An iterator after the content has become o.  A vector that is resized     *)
(* takes its iterators with it, the end included; a node takes its own.      *)
Survives(l, o) ==
  LET nodes == {o[i] : i \in 1 .. Len(o)}
      gone  == \/ kind = "vector" /\ Len(o) # Size
               \/ kind # "vector" /\ l.at \notin nodes \cup {End}
  IN  IF ~l.live THEN l
      ELSE [l EXCEPT !.at = IF gone THEN Dangling ELSE @, !.since = @ \cap nodes, !.seen = @ \cap nodes]

Become(o, d) ==
  /\ order' = o
  /\ data' = d
  /\ loop' = [i \in Loops |-> Survives(loop[i], o)]
  /\ UNCHANGED <<kind, held, alive>>

PutAt(i, e) == Become(order, [data EXCEPT ![order[i]] = e])

InsertBefore(i, e) ==
  /\ Size < MaxLen
  /\ Become(SubSeq(order, 1, i - 1) \o <<Fresh>> \o SubSeq(order, i, Size), [data EXCEPT ![Fresh] = e])

RemoveAt(i) ==
  Become(SubSeq(order, 1, i - 1) \o SubSeq(order, i + 1, Size), [data EXCEPT ![order[i]] = Blank])

(* insert(e) of an ordered container with unique keys *)
InsertUnique(e) ==
  /\ Found(e.key) = {}
  /\ InsertBefore(1 + Cardinality({i \in Places : GetKey(i) < e.key}), e)

(* erase(key) *)
EraseKey(k) == \E i \in Found(k) : RemoveAt(i)

--------------------------------------------------------------------------------
(* Changing *)

(* A script calls while it holds the container. *)
Called == alive /\ held

Element(v) == [key |-> v, value |-> v]

Entry(k, v) == [key |-> k, value |-> IF Associative THEN v ELSE k]

(* The call raises an error. *)
Refuse == UNCHANGED vars

(* set_category: where the write lands.  A walk does not start for a         *)
(* position below 0 and stays on the first element, if there is one.         *)
Reached(p) == IF ~RandomAccess /\ p < 0 /\ Size > 0 THEN 0 ELSE p

(* The walk of insert_after_has and erase_after_has does not start either. *)
ReachedAfter(p) == IF kind = "forward_list" /\ p < 0 THEN 0 ELSE p

(* insert and erase of a sequence check no bounds that keep them defined:    *)
(* a program is assumed to stay inside, and not below the first element.     *)
InBounds(p, last) ==
  \/ p \in 0 .. last
  \/ kind = "forward_list" /\ p < 0 /\ last >= 0 /\ "below_start" \in Corners

Erase(k) ==
  /\ Called
  /\ IF kind = "array" \/ (Lookup /\ Found(k) = {}) THEN Refuse
     ELSE IF Lookup THEN EraseKey(k)
     ELSE InBounds(Position(k), Size - 1) /\ RemoveAt(ReachedAfter(Position(k)) + 1)

(* An empty forward_list has no last element to insert after, and            *)
(* insert_after(end()) is undefined: it writes through a null node.          *)
AppendsToNone(p) == kind = "forward_list" /\ Size = 0 /\ Reached(p) = 0

Undefined == held' = FALSE /\ alive' = FALSE /\ UNCHANGED <<kind, order, data, loop>>

(* Mutant: an element past the last of a forward_list goes before the node that *)
(* the walk left behind.                                                        *)
SetAtBefore(p, e) ==
  \/ Reached(p) \in 0 .. Size - 1 /\ PutAt(Reached(p) + 1, e)
  \/ /\ Reached(p) = Size /\ kind # "array" /\ ~AppendsToNone(p)
     /\ InsertBefore(IF kind = "forward_list" THEN Size ELSE Size + 1, e)
  \/ (Reached(p) \notin 0 .. Size \/ (Reached(p) = Size /\ kind = "array")) /\ Refuse

(* set_category: the element is written, or appended one past the last. *)
SetAt(p, e) ==
  \/ Reached(p) \in 0 .. Size - 1 /\ PutAt(Reached(p) + 1, e)
  \/ /\ Reached(p) = Size /\ kind # "array" /\ ~AppendsToNone(p)
     /\ InsertBefore(Size + 1, e)
  \/ AppendsToNone(p) /\ "empty_forward_list" \in Corners /\ Undefined
  \/ (Reached(p) \notin 0 .. Size \/ (Reached(p) = Size /\ kind = "array")) /\ Refuse

(* set asks the Lua function size for the size of the container and compares the *)
(* index with what that returns: the number of values it pushed.            *)
SizePushed == 1

(* A nil for the last element, which is also the first, or for any. *)
MayWriteNil(k) ==
  \/ kind = "array"
  \/ Size = SizePushed /\ k = SizePushed
  \/ "nil_by_index" \in Corners

SetLinear(k, v) ==
  /\ v = Nil => MayWriteNil(k)
  /\ RandomAccess \/ Position(k) >= 0 \/ Size = 0 \/ "below_start" \in Corners
  /\ IF v = Nil /\ k = SizePushed /\ kind # "array" THEN Erase(k)
     ELSE SetAt(Position(k), Element(IF v = Nil THEN Default ELSE v))

(* set_associative_find; the elements of a set are const. *)
SetByKey(k, v) ==
  IF v = Nil THEN Erase(k)
  ELSE IF Found(k) = {} THEN InsertUnique(Entry(k, v))
  ELSE IF Associative THEN PutAt(Least(Found(k)), Entry(k, v))
  ELSE Refuse

Set(k, v) == Called /\ IF Linear THEN SetLinear(k, v) ELSE SetByKey(k, v)

(* add_copyable: at the end, behind the last node of a forward_list, or *)
(* where the order of the container wants it.                           *)
Add(k, v) ==
  /\ Called
  /\ IF kind = "array" \/ (Lookup /\ Found(k) # {}) THEN Refuse
     ELSE IF Linear THEN InsertBefore(Size + 1, Element(k))
     ELSE InsertUnique(Entry(k, v))

(* insert_lookup passes the value on and drops the key: a map takes the *)
(* value for both.                                                      *)
Insert(k, v) ==
  /\ Called
  /\ Associative => (k = v \/ "map_insert" \in Corners)
  /\ IF kind = "array" \/ (Lookup /\ Found(v) # {}) THEN Refuse
     ELSE IF Lookup THEN InsertUnique(Element(v))
     ELSE InBounds(Position(k), Size) /\ InsertBefore(ReachedAfter(Position(k)) + 1, Element(v))

Clear == Called /\ IF kind = "array" THEN Refuse ELSE Become(<<>>, [n \in Nodes |-> Blank])

--------------------------------------------------------------------------------
(* Loops *)

After(n) ==
  LET i == CHOOSE j \in Places : order[j] = n IN IF i = Size THEN End ELSE order[i + 1]

(* pairs(): from begin() to end().  The iterator keeps the container alive   *)
(* through a reference; that of an array refers to what the main thread has  *)
(* at the index where the caller has the container.                          *)
Pairs(i, onMain) ==
  /\ Called /\ ~Associative
  /\ ~loop[i].live
  /\ kind = "array" => (onMain \/ "array_in_coroutine" \in Corners)
  /\ loop' = [loop EXCEPT ![i] =
       [Idle EXCEPT !.live = TRUE, !.at = IF Size = 0 THEN End ELSE order[1],
                    !.pins = kind # "array" \/ onMain, !.since = Content]]
  /\ UNCHANGED <<kind, order, data, held, alive>>

(* Mutant: the iterator moves on before it is read. *)
NextPairEarly(i) ==
  /\ loop[i].live /\ loop[i].at \in Content
  /\ loop[i].key < MaxLen
  /\ loop' = [loop EXCEPT ![i].key = @ + 1, ![i].at = After(loop[i].at),
                          ![i].seen = @ \cup ({After(loop[i].at)} \ {End})]
  /\ UNCHANGED <<kind, order, data, held, alive>>

(* next_associative: an index one above the last and the element, then the *)
(* iterator moves on.  A script does not go on with an iterator after a    *)
(* change that "can invalidate iteration".                                 *)
NextPair(i) ==
  /\ loop[i].live /\ loop[i].at \in Content
  /\ loop[i].key < MaxLen
  /\ loop' = [loop EXCEPT ![i].key = @ + 1, ![i].at = After(loop[i].at),
                          ![i].seen = @ \cup {loop[i].at}]
  /\ UNCHANGED <<kind, order, data, held, alive>>

(* The loop is over or left, and its iterator collected. *)
Leave(i) ==
  /\ loop[i].live
  /\ loop' = [loop EXCEPT ![i] = Idle]
  /\ UNCHANGED <<kind, order, data, held, alive>>

(* The script lets the container go. *)
Drop ==
  /\ held /\ held' = FALSE
  /\ UNCHANGED <<kind, order, data, loop, alive>>

(* Lua collects the container. *)
Collect ==
  /\ alive /\ ~held
  /\ \A i \in Loops : ~loop[i].pins
  /\ alive' = FALSE /\ order' = <<>> /\ data' = [n \in Nodes |-> Blank]
  /\ loop' = [i \in Loops |-> IF loop[i].live THEN [Idle EXCEPT !.live = TRUE, !.at = Dangling] ELSE Idle]
  /\ UNCHANGED <<kind, held>>

\* The keys, or indices, that a script passes.
Targets == IF Lookup THEN Keys ELSE 0 .. MaxLen + 1

\* What it adds: a key or a value.
Addends == IF Lookup THEN Keys ELSE Values

Change ==
  \/ \E k \in Targets, v \in Values \cup {Nil} : Set(k, v)
  \/ \E k \in Addends, v \in Values : Add(k, v)
  \/ \E k \in Targets, v \in Values : Insert(k, v)
  \/ \E k \in Targets : Erase(k)
  \/ Clear

Iterate ==
  \E i \in Loops :
    \/ \E onMain \in BOOLEAN : Pairs(i, onMain)
    \/ NextPair(i)
    \/ Leave(i)

Next == Change \/ Iterate \/ Drop \/ Collect

Spec == Init /\ [][Next]_vars

--------------------------------------------------------------------------------
(* Safety *)

Items == [i \in Places |-> data[order[i]]]

Contract == INSTANCE ContainerContract WITH
  Sequential <- {"vector", "list", "forward_list"}, Fixed <- {"array"}, Mapping <- {"map"},
  items <- Items

(* Whatever code its C++ type selects, random access, a walk of nodes,       *)
(* insert_after or a lookup, an operation has the effect that               *)
(* containers.rst promises for every container of its sort.                 *)
WritesAsPromised ==
  [][/\ \A k \in Targets, v \in Values \cup {Nil} : Set(k, v) => Contract!Set(k, v)
     /\ \A k \in Addends, v \in Values : Add(k, v) => Contract!Add(k, v)
     /\ \A k \in Targets, v \in Values : Insert(k, v) => Contract!Insert(k, v)
     /\ \A k \in Targets : Erase(k) => Contract!Erase(k)
     /\ Clear => Contract!Clear]_vars

(* What find and index_of answer leads back to the element through get and   *)
(* at: the two directions of the index adjustment undo each other, for       *)
(* sequences and for the rank of a key.                                     *)
ReadsAgree ==
  \A v \in Keys :
    /\ Linear => Find(v) = IndexOf(v)
    /\ Linear /\ Find(v) # Nil => Get(Find(v)) = v
    /\ Lookup => Find(v) = Get(v) /\ (IndexOf(v) # Nil => At(IndexOf(v)) = Get(v))
    /\ Find(v) = Nil <=> \A i \in Places : GetKey(i) # v

(* A loop meets every element that has been there since it began and is      *)
(* there still, each once and in order, whatever was inserted or erased      *)
(* meanwhile without invalidating its iterator; the container is not         *)
(* collected under it ("keep_alive").                                        *)
VisitsEachOnce ==
  \A l \in {loop[i] : i \in Loops} : l.live =>
    /\ alive
    /\ \A j \in Places : order[j] \in l.since /\ l.at # Dangling =>
         (order[j] \in l.seen <=> (l.at = End \/ \E n \in j + 1 .. Size : order[n] = l.at))

(* The index that a loop yields next is the one under which get finds the   *)
(* element (indices that start at 1).                                       *)
IndicesMatch ==
  \A l \in {loop[i] : i \in Loops} :
    /\ StartIndex = 1 /\ RandomAccess
    /\ l.live /\ l.at \in Nodes
    => Get(l.key + 1) = data[l.at].value

(* A loop of pairs() shows what it should, under the right indices, of a      *)
(* container that is there, while the script changes it.                      *)
LoopsAgree == TypeOK /\ VisitsEachOnce /\ IndicesMatch
================================================================================

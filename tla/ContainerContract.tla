--------------------------- MODULE ContainerContract ---------------------------
(***************************************************************************)
(* What a script is promised of the changing operations of a C++ container  *)
(* (documentation/source/containers.rst): the same for every sequence, and  *)
(* the same for every container that is looked up by key.  Iterators, the    *)
(* walks over them and the C++ type do not appear.                          *)
(***************************************************************************)
EXTENDS Integers, Sequences

CONSTANTS
  Sequential,  \* kinds that are indexed by position and grow
  Fixed,       \* kinds that are indexed by position and do not
  Mapping,     \* kinds that hold a value under each key
  Nil          \* the nil of a script

VARIABLES
  kind,        \* what container it is
  items        \* its content in order: records of a key and a value

Keyed == kind \notin Sequential \cup Fixed

Element(v) == [key |-> v, value |-> v]

Entry(k, v) == [key |-> k, value |-> IF kind \in Mapping THEN v ELSE k]

Indices == 1 .. Len(items)

Holds(k) == \E i \in Indices : items[i].key = k

(* e is put in front of position i, or behind the last. *)
Spliced(i, e) == items' = SubSeq(items, 1, i - 1) \o <<e>> \o SubSeq(items, i, Len(items))

(* The item of position i goes. *)
Dropped(i) == items' = SubSeq(items, 1, i - 1) \o SubSeq(items, i + 1, Len(items))

Overwritten(i, e) == items' = [items EXCEPT ![i] = e]

(* The item goes where it belongs in the order, if its key is not held. *)
Merged(e) ==
  IF Holds(e.key) THEN items' = items
  ELSE /\ \E i \in 1 .. Len(items) + 1 : Spliced(i, e)
       /\ \A i \in Indices : items'[i].key < items'[i + 1].key

(* nil erases; a container "is indexed" up to one past its end when it can grow. *)
Set(k, v) ==
  \/ /\ Keyed /\ v = Nil
     /\ IF Holds(k) THEN \E i \in Indices : items[i].key = k /\ Dropped(i) ELSE items' = items
  \/ /\ Keyed /\ v # Nil
     /\ IF Holds(k) THEN \E i \in Indices : items[i].key = k /\ Overwritten(i, Entry(k, v))
                    ELSE Merged(Entry(k, v))
  \/ /\ ~Keyed /\ v = Nil
     /\ IF kind \in Sequential /\ k = Len(items) THEN Dropped(k) ELSE Len(items') = Len(items)
  \/ ~Keyed /\ v # Nil /\ k \in Indices /\ Overwritten(k, Element(v))
  \/ kind \in Sequential /\ v # Nil /\ k = Len(items) + 1 /\ Spliced(k, Element(v))

Add(k, v) ==
  \/ kind \in Sequential /\ Spliced(Len(items) + 1, Element(k))
  \/ Keyed /\ Merged(Entry(k, v))

Insert(k, v) ==
  \/ kind \in Sequential /\ k \in 1 .. Len(items) + 1 /\ Spliced(k, Element(v))
  \/ kind \in Mapping /\ Merged(Entry(k, v))
  \/ Keyed /\ kind \notin Mapping /\ Merged(Element(v))

Erase(k) ==
  \/ kind \in Sequential /\ k \in Indices /\ Dropped(k)
  \/ Keyed /\ \E i \in Indices : items[i].key = k /\ Dropped(i)

Clear == kind \notin Fixed /\ items' = <<>>
================================================================================

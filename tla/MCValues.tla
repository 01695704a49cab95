-------------------------------- MODULE MCValues -------------------------------
EXTENDS Values

Long == Integral(6, TRUE)
ULong == Integral(6, FALSE)
Tiny == Integral(3, TRUE)
Number == Simple("number")
String == Simple("string")
Alternatives == VariantOf(<<String, Simple("bool"), Long>>)
Longs == SequenceOf(Long)
Grid == SequenceOf(Longs)
Record == MapOf(String, Long)
Lookup == MapOf(Long, String)

MCEnum == Tiny
MCOverflow == -32
MCBases == [A |-> {}, B |-> {}, C |-> {"A", "B"}, D |-> {"A", "B", "C"}]
MCOffset == [A |-> [A |-> 0, B |-> 0, C |-> 0, D |-> 0], B |-> [A |-> 0, B |-> 0, C |-> 0, D |-> 0],
             C |-> [A |-> 0, B |-> 2, C |-> 0, D |-> 0], D |-> [A |-> 1, B |-> 3, C |-> 1, D |-> 0]]
NoBases == [c \in DOMAIN MCBases |-> {}]
Registries == {[A |-> {}, B |-> {}, C |-> {"A", "B"}, D |-> {"C"}],
                 [A |-> {}, B |-> {}, C |-> {"B"}, D |-> {"A", "B", "C"}]}
MCPrograms == (Builds \X {NoBases}) \cup ({{"precision"}} \X Registries)

int(n) == [int |-> n]
MCSent ==
  ({Long} \X {int(n) : n \in {-32, -1, 0, 17, 31}}) \cup ({ULong} \X {int(n) : n \in {0, 31, 32, 33, 62, 63}})
  \cup ({Tiny, Simple("enum")} \X {int(-4), int(3)}) \cup ({Number} \X {[num |-> 3], [num |-> 4], [num |-> 128]})
  \cup ({Simple("bool")} \X {[bool |-> b] : b \in BOOLEAN}) \cup ({String} \X {[str |-> 2], [str |-> NotANumber]})
  \cup ({OptionalOf(Long)} \X {None, int(17)})
  \cup ({Alternatives} \X {[alternative |-> 1, value |-> [str |-> 2]], [alternative |-> 2, value |-> [bool |-> FALSE]],
                           [alternative |-> 3, value |-> int(5)]})
  \cup ({VariantOf(<<Number, Long>>)} \X {[alternative |-> 2, value |-> int(5)]})
  \cup ({Longs} \X {[items |-> s] : s \in {<<>>, <<int(3)>>, <<int(3), int(-1), int(3)>>}})
  \cup ({SequenceOf(ULong)} \X {[items |-> <<int(3), int(33)>>]})
  \cup ({SequenceOf(OptionalOf(Long))} \X {[items |-> <<int(3), None, int(5)>>], [items |-> <<int(3), int(5)>>]})
  \cup ({SequenceOf(PairOf(String, Long))} \X {[items |-> <<[parts |-> <<[str |-> NotANumber], int(3)>>]>>]})
  \cup ({SequenceOf(SeveralOf(<<Long, Long>>))} \X {[items |-> <<[parts |-> <<int(3), int(4)>>]>>]})
  \cup ({SeveralOf(<<Long, String>>)} \X {[parts |-> <<int(3), [str |-> 2]>>]})
  \cup ({ArrayOf(Long, 2)} \X {[items |-> <<int(3), int(4)>>]})
  \cup ({Grid} \X {[items |-> <<[items |-> <<int(3)>>], [items |-> <<>>]>>]})
  \cup ({Record} \X {[entries |-> {}], [entries |-> {<<[str |-> 2], int(3)>>, <<[str |-> NotANumber], int(4)>>}]})
  \cup ({Lookup} \X {[entries |-> {<<int(1), [str |-> NotANumber]>>, <<int(-1), [str |-> 2]>>}]})
  \cup ({PointerTo("A"), SharedTo("A"), HandleTo("D")} \X {Null, [at |-> 10]})

Scalars == {Integer(n) : n \in {-32, -1, 3, 17, 31}} \cup {[float |-> h] : h \in {3, 4, -5, 128}}
           \cup {[string |-> k] : k \in {2, 3, NotANumber}} \cup {[boolean |-> FALSE], Nil}
Elements == {Integer(3), [string |-> 2], [float |-> 4]}
Tables == LET keys == {Integer(0), Integer(1), Integer(2), [string |-> NotANumber]}
          IN {[table |-> f] : f \in UNION {[S -> Elements] : S \in SUBSET keys}}
Grids == {[table |-> f] : f \in [{Integer(1), Integer(2)} -> {[table |-> <<>>], [table |-> [k \in {Integer(1)} |-> Integer(3)]],
                                                              [table |-> [k \in {Integer(1)} |-> [string |-> NotANumber]]]}]}
Userdatas == {[userdata |-> c, stored |-> s, at |-> 10] : c \in DOMAIN MCBases, s \in {"value", "pointer", "shared", "handle"}}

MCFound ==
  ({Long, ULong, Tiny, Simple("enum"), Number, Simple("bool"), String, OptionalOf(Long), OptionalOf(String), Alternatives,
    VariantOf(<<Number, Long>>), Longs, Exhaustive(Longs)} \X Scalars)
  \cup ({Longs, ArrayOf(Long, 2), Record, Lookup, Exhaustive(Longs), Exhaustive(Record), SequenceOf(SeveralOf(<<Long, Long>>))} \X Tables)
  \cup ({Grid} \X Grids)
  \cup ({PointerTo(c) : c \in DOMAIN MCBases} \X (Userdatas \cup {Nil}))
  \cup ({SharedTo(c) : c \in DOMAIN MCBases} \X (Userdatas \cup {Nil})) \cup ({HandleTo("D"), HandleTo("A")} \X (Userdatas \cup {Nil}))
================================================================================

--------------------------------- MODULE Text ----------------------------------
(***************************************************************************)
(* Strings between C++ and Lua: a UTF-16 or UTF-32 string is pushed as      *)
(* UTF-8, and a Lua string, whoever made it, is read as one.  Both ways     *)
(* first find the room the result needs, unless it surely fits a buffer on  *)
(* the stack, and then convert; the two passes decode the text separately.  *)
(***************************************************************************)
EXTENDS Unicode, SequencesExt

CONSTANTS
  Bytes, Units16, Units32,  \* the code units texts are made of
  MaxLength,   \* bound on the units of a text
  MaxBytes,    \* bound on the bytes of a text made by Lua
  BufferSize,  \* SOL_OPTIMIZATION_STRING_CONVERSION_STACK_SIZE
  Corners      \* corner cases the program is assumed to perform

TextCorners == {"trailing_surrogate", "ill_formed_long", "ill_formed_utf32", "no_terminator"}

ASSUME UnitsAssumption ==
  /\ Bytes \subseteq 0 .. 255 /\ Units32 \subseteq Nat
  /\ \A u \in Units16 : u \in Nat /\ u <= \hFFFF

ASSUME TextAssumption ==
  /\ MaxLength \in Nat /\ MaxBytes \in Nat /\ BufferSize \in Nat \ {0}
  /\ Unset \notin Int /\ Corners \subseteq TextCorners

VARIABLES
  text,    \* the C++ string being pushed
  kind,    \* its encoding, or "lua": the Lua string is there already
  phase,   \* what the conversion is doing
  pos,     \* the next unit to convert
  needed,  \* the units counted so far
  room,    \* the units the target has room for
  lua,     \* the Lua string, as far as it is written
  target,  \* the encoding the Lua string is read in
  read     \* the C++ string it is read into, as far as it is written

vars == <<text, kind, phase, pos, needed, room, lua, target, read>>

Kinds == {"utf16", "utf32"}
Targets == {"utf16", "utf32", "char16", "char32"}
Phases == {"push", "count", "write", "pushed", "get", "copy", "done"}

Texts(units, n) == UNION {[1 .. i -> units] : i \in 0 .. n}

--------------------------------------------------------------------------------
(* What a text says: the code points of its well-formed parts, and the      *)
(* replacement for every other unit (Unicode, tables 3-5 to 3-7).           *)

WellFormedLength(s, i) ==
  LET b(k) == IF i + k <= Len(s) THEN s[i + k] ELSE -1
      tail(k) == \h80 <= b(k) /\ b(k) <= \hBF
  IN CASE 0 <= b(0) /\ b(0) <= \h7F -> 1
       [] \hC2 <= b(0) /\ b(0) <= \hDF /\ tail(1) -> 2
       [] b(0) = \hE0 /\ tail(1) /\ b(1) >= \hA0 /\ tail(2) -> 3
       [] b(0) = \hED /\ tail(1) /\ b(1) <= \h9F /\ tail(2) -> 3
       [] b(0) \in \hE1 .. \hEF \ {\hED} /\ tail(1) /\ tail(2) -> 3
       [] b(0) = \hF0 /\ tail(1) /\ b(1) >= \h90 /\ tail(2) /\ tail(3) -> 4
       [] b(0) = \hF4 /\ tail(1) /\ b(1) <= \h8F /\ tail(2) /\ tail(3) -> 4
       [] b(0) \in \hF1 .. \hF3 /\ tail(1) /\ tail(2) /\ tail(3) -> 4
       [] OTHER -> 0

(* The code point of n bytes: the bits after their marks, read as one number. *)
BytesValue(s, n) ==
  LET first == s[1] - (CASE n = 1 -> 0 [] n = 2 -> 192 [] n = 3 -> 224 [] n = 4 -> 240)
  IN FoldLeft(LAMBDA v, b : 64 * v + (b - 128), first, Tail(s))

Says8(s) ==
  LET at[i \in 1 .. Len(s) + 1] ==
        LET n == WellFormedLength(s, i)
        IN IF i > Len(s) THEN <<>>
           ELSE IF n = 0 THEN <<Replacement>> \o at[i + 1]
           ELSE <<BytesValue(SubSeq(s, i, i + n - 1), n)>> \o at[i + n]
  IN at[1]

Says16(s) ==
  LET pair(i) == i < Len(s) /\ s[i] \in \hD800 .. \hDBFF /\ s[i + 1] \in \hDC00 .. \hDFFF
      at[i \in 1 .. Len(s) + 1] ==
        IF i > Len(s) THEN <<>>
        ELSE IF pair(i) THEN <<65536 + 1024 * (s[i] % 1024) + (s[i + 1] % 1024)>> \o at[i + 2]
        ELSE IF s[i] \in \hD800 .. \hDFFF THEN <<Replacement>> \o at[i + 1]
        ELSE <<s[i]>> \o at[i + 1]
  IN at[1]

Says32(s) ==
  [i \in DOMAIN s |-> IF s[i] \in \hD800 .. \hDFFF \/ s[i] > LastCodePoint THEN Replacement ELSE s[i]]

Says(s, encoding) ==
  CASE encoding = "utf16" -> Says16(s)
    [] encoding = "utf32" -> Says32(s)
    [] encoding = "lua" -> Says8(s)

(* Every surrogate is one of a pair; every unit a code point. *)
WellFormed(s, encoding) ==
  CASE encoding = "utf16" ->
         \A i \in DOMAIN s :
           /\ IsLeadSurrogate(s[i]) => i < Len(s) /\ IsTrailSurrogate(s[i + 1])
           /\ IsTrailSurrogate(s[i]) => i > 1 /\ IsLeadSurrogate(s[i - 1])
    [] encoding = "utf32" -> Says32(s) = s

--------------------------------------------------------------------------------
(* Pushing: count and convert_into of unqualified_pusher *)

(* What lies behind the text: the terminator, or anything. *)
Beyond == IF "no_terminator" \in Corners THEN Units16 ELSE {0}

Decode(s, it, beyond) ==
  IF kind = "utf16" THEN Utf16ToCodePoint(s, it, beyond) ELSE Utf32ToCodePoint(s, it, beyond)

(* The counting pass encodes whatever code point it was left with. *)
Garbage == {0, \h80, \h800, \h10000}

Push ==
  /\ phase = "push" /\ kind \in Kinds
  /\ pos' = 1
  /\ IF 4 * Len(text) <= BufferSize
     THEN phase' = "write" /\ room' = BufferSize
     ELSE phase' = "count" /\ UNCHANGED room
  /\ UNCHANGED <<text, kind, needed, lua, target, read>>

CountUnit ==
  /\ phase = "count" /\ pos <= Len(text)
  /\ \E beyond \in Beyond, c \in Garbage :
       LET dr == Decode(text, pos, beyond)
           cp == IF dr.codepoint = Unset THEN c ELSE dr.codepoint
       IN needed' = needed + Len(CodePointToUtf8(cp)) /\ pos' = dr.next
  /\ UNCHANGED <<text, kind, phase, room, lua, target, read>>

(* Mutant: a string that does not fit goes into the buffer all the same. *)
RoomShort == BufferSize

Room == IF needed < BufferSize THEN BufferSize ELSE needed

Counted ==
  /\ phase = "count" /\ pos > Len(text)
  /\ phase' = "write" /\ room' = Room /\ pos' = 1
  /\ UNCHANGED <<text, kind, needed, lua, target, read>>

PushedPoint(dr) == IF dr.error # "ok" THEN Replacement ELSE dr.codepoint

WriteUnit ==
  /\ phase = "write" /\ pos <= Len(text)
  /\ \E beyond \in Beyond :
       LET dr == Decode(text, pos, beyond)
       IN lua' = lua \o CodePointToUtf8(PushedPoint(dr)) /\ pos' = dr.next
  /\ UNCHANGED <<text, kind, phase, needed, room, target, read>>

Pushed ==
  /\ phase = "write" /\ pos > Len(text)
  /\ phase' = "pushed"
  /\ UNCHANGED <<text, kind, pos, needed, room, lua, target, read>>

--------------------------------------------------------------------------------
(* Getting: get_into and convert *)

Encode(c) == IF target \in {"utf32", "char32"} THEN CodePointToUtf32(c) ELSE CodePointToUtf16(c)

(* One unit of convert: an ill-formed sequence is replaced byte by byte. *)
Converted ==
  LET dr == Utf8ToCodePoint(lua, pos, 0)
  IN IF dr.error # "ok" THEN [c |-> Replacement, next |-> pos + 1]
     ELSE [c |-> dr.codepoint, next |-> dr.next]

Get ==
  /\ phase = "pushed" /\ target \in Kinds
  /\ pos' = 1 /\ needed' = 0
  /\ phase' = IF lua = <<>> THEN "done" ELSE "get"
  /\ UNCHANGED <<text, kind, room, lua, target, read>>

CountRead ==
  /\ phase = "get"
  /\ IF pos <= Len(lua)
     THEN /\ needed' = needed + Len(Encode(Converted.c)) /\ pos' = Converted.next
          /\ UNCHANGED <<phase, room>>
     ELSE /\ phase' = "copy" /\ room' = needed /\ pos' = 1
          /\ UNCHANGED needed
  /\ UNCHANGED <<text, kind, lua, target, read>>

(* Mutant: the copy stays at what it cannot decode. *)
CopyReadStays ==
  /\ phase = "copy"
  /\ IF pos <= Len(lua)
     THEN /\ IF Utf8ToCodePoint(lua, pos, 0).error # "ok" THEN UNCHANGED <<pos, read>>
             ELSE read' = read \o Encode(Converted.c) /\ pos' = Converted.next
          /\ UNCHANGED phase
     ELSE phase' = "done" /\ UNCHANGED <<pos, read>>
  /\ UNCHANGED <<text, kind, needed, room, lua, target>>

CopyRead ==
  /\ phase = "copy"
  /\ IF pos <= Len(lua)
     THEN /\ read' = read \o Encode(Converted.c) /\ pos' = Converted.next
          /\ UNCHANGED phase
     ELSE phase' = "done" /\ UNCHANGED <<pos, read>>
  /\ UNCHANGED <<text, kind, needed, room, lua, target>>

(* unqualified_getter<char16_t>, <char32_t>: the first unit of the first *)
(* code point.                                                           *)
GetChar ==
  /\ phase = "pushed" /\ target \in {"char16", "char32"}
  /\ LET dr == Utf8ToCodePoint(lua, 1, 0)
     IN read' = <<Encode(PushedPoint(dr))[1]>>
  /\ phase' = "done"
  /\ UNCHANGED <<text, kind, pos, needed, room, lua, target>>

--------------------------------------------------------------------------------
(* The texts a program pushes. *)

Pushable(s, encoding) ==
  CASE encoding = "utf16" ->
         /\ (\E i \in DOMAIN s : IsTrailSurrogate(s[i]) /\ (i = 1 \/ ~IsLeadSurrogate(s[i - 1])))
              => "trailing_surrogate" \in Corners
         /\ ~WellFormed(s, encoding) => 4 * Len(s) <= BufferSize \/ "ill_formed_long" \in Corners
    [] encoding = "utf32" -> WellFormed(s, encoding) \/ "ill_formed_utf32" \in Corners

Init ==
  /\ kind \in Kinds \cup {"lua"} /\ target \in Targets
  /\ text \in IF kind = "utf16" THEN {s \in Texts(Units16, MaxLength) : Pushable(s, kind)}
              ELSE IF kind = "utf32" THEN {s \in Texts(Units32, MaxLength) : Pushable(s, kind)}
              ELSE {<<>>}
  /\ lua \in IF kind = "lua" THEN Texts(Bytes, MaxBytes) ELSE {<<>>}
  /\ phase = IF kind = "lua" THEN "pushed" ELSE "push"
  /\ pos = 1 /\ needed = 0 /\ room = 0 /\ read = <<>>

Finished == phase = "done" /\ UNCHANGED vars

Next ==
  \/ Push \/ CountUnit \/ Counted \/ WriteUnit \/ Pushed
  \/ Get \/ CountRead \/ CopyRead \/ GetChar
  \/ Finished

(* Each conversion is one loop of one thread. *)
Fairness == WF_vars(Next)

Spec == Init /\ [][Next]_vars /\ Fairness
--------------------------------------------------------------------------------

TypeOK ==
  /\ kind \in Kinds \cup {"lua"} /\ target \in Targets /\ phase \in Phases
  /\ pos \in 1 .. Len(text) + Len(lua) + 1
  /\ needed \in Nat /\ room \in Nat
  /\ lua \in Seq(0 .. 255) /\ read \in Seq(Nat)

(* Neither conversion writes past what was counted for it, and what was      *)
(* counted for a C++ string is filled to the last unit.                      *)
WithinRoom ==
  /\ phase \in {"write", "pushed"} /\ kind # "lua" => Len(lua) <= room
  /\ phase = "copy" => Len(read) <= room
  /\ phase = "done" /\ target \in Kinds /\ lua # <<>> => Len(read) = room

(* The Lua string says what the C++ string says, ill-formed units replaced,   *)
(* and the C++ string that is read says what the Lua string says ("will       *)
(* replace ill-formed characters with the unicode replacement codepoint").    *)
Transcoded ==
  LET first == IF Says8(lua) = <<>> THEN Replacement ELSE Head(Says8(lua)) IN
  /\ kind # "lua" => IsPrefix(Says8(lua), Says(text, kind))
  /\ kind # "lua" /\ phase = "pushed" => Says8(lua) = Says(text, kind)
  /\ phase \in {"copy", "done"} /\ target \in Kinds => IsPrefix(Says(read, target), Says8(lua))
  /\ phase = "done" =>
       CASE target \in Kinds -> Says(read, target) = Says8(lua)
         [] target = "char32" -> read = <<first>>
         [] target = "char16" -> read = <<CodePointToUtf16(first)[1]>>

(* Every conversion comes to its end. *)
ConversionEnds == <>(phase = "done")
================================================================================

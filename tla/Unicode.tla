-------------------------------- MODULE Unicode --------------------------------
(***************************************************************************)
(* The decoders and encoders of UTF-8, UTF-16 and UTF-32, bit by bit as the *)
(* code computes them.  A text is a sequence of code units and it an index  *)
(* into it; a decoder that does not look for the end before it reads meets  *)
(* what lies beyond: the terminator of a string.                            *)
(***************************************************************************)
EXTENDS Integers, Sequences

CONSTANT Unset   \* a field of a result that the decoder leaves uninitialized

(* unicode_detail *)
LastCodePoint == \h10FFFF
Replacement == \hFFFD

IsLeadSurrogate(u) == \hD800 <= u /\ u <= \hDBFF
IsTrailSurrogate(u) == \hDC00 <= u /\ u <= \hDFFF
IsSurrogate(u) == \hD800 <= u /\ u <= \hDFFF

IsInvalid(b) == b = \hC0 \/ b = \hC1 \/ b > \hF4

IsContinuation(b) == b \div 64 = 2

IsOverlong(u, bytes) ==
  u <= \h7F \/ (u <= \h7FF /\ bytes > 2) \/ (u <= \hFFFF /\ bytes > 3)

SequenceLength(b) == IF b < \h80 THEN 1 ELSE IF b < \hE0 THEN 2 ELSE IF b < \hF0 THEN 3 ELSE 4

Decode2(b0, b1) == (b0 % 32) * 64 + (b1 % 64)

Decode3(b0, b1, b2) == (b0 % 16) * 4096 + (b1 % 64) * 64 + (b2 % 64)

Decode4(b0, b1, b2, b3) == (b0 % 8) * 262144 + (b1 % 64) * 4096 + (b2 % 64) * 64 + (b3 % 64)

(* Mutant: the offset of the supplementary planes is forgotten. *)
CombineSurrogatesLow(lead, trail) == (lead - \hD800) * 1024 + (trail - \hDC00)

CombineSurrogates(lead, trail) == \h10000 + (lead - \hD800) * 1024 + (trail - \hDC00)

--------------------------------------------------------------------------------
(* Encoders *)

CodePointToUtf8(c) ==
  IF c <= \h7F THEN <<c>>
  ELSE IF c <= \h7FF THEN <<\hC0 + (c \div 64), \h80 + (c % 64)>>
  ELSE IF c <= \hFFFF
  THEN <<\hE0 + (c \div 4096), \h80 + ((c \div 64) % 64), \h80 + (c % 64)>>
  ELSE <<\hF0 + ((c \div 262144) % 8), \h80 + ((c \div 4096) % 64),
         \h80 + ((c \div 64) % 64), \h80 + (c % 64)>>

CodePointToUtf16(c) ==
  IF c <= \hFFFF THEN <<c>>
  ELSE <<\hD800 + (((c - \h10000) \div 1024) % 1024), \hDC00 + ((c - \h10000) % 1024)>>

CodePointToUtf32(c) == <<c>>

--------------------------------------------------------------------------------
(* Decoders *)

Read(text, i, beyond) == IF i <= Len(text) THEN text[i] ELSE beyond

Decoded(c, next) == [error |-> "ok", codepoint |-> c, next |-> next]

DecodeError(e, next) == [error |-> e, codepoint |-> Unset, next |-> next]

(* The code point of n bytes. *)
DecodeBytes(n, b0, b1, b2, b3) ==
  IF n = 1 THEN b0
  ELSE IF n = 2 THEN Decode2(b0, b1)
  ELSE IF n = 3 THEN Decode3(b0, b1, b2)
  ELSE Decode4(b0, b1, b2, b3)

(* utf8_to_code_point *)
Utf8ToCodePoint(text, it, beyond) ==
  LET b(i) == Read(text, it + i, beyond)
      n == SequenceLength(b(0))
      broken == {i \in {1, 2, 3} : i < n /\ ~IsContinuation(b(i))}
      c == DecodeBytes(n, b(0), b(1), b(2), b(3))
  IN IF it > Len(text) THEN DecodeError("sequence_too_short", it)
     ELSE IF n = 1 THEN Decoded(c, it + 1)
     ELSE IF IsInvalid(b(0)) \/ IsContinuation(b(0)) THEN DecodeError("invalid_code_unit", it)
     ELSE IF broken # {}
     THEN DecodeError("invalid_code_unit", it + CHOOSE i \in broken : \A j \in broken : i <= j)
     ELSE IF IsOverlong(c, n) THEN DecodeError("overlong_sequence", Unset)
     ELSE IF IsSurrogate(c) \/ c > LastCodePoint THEN DecodeError("invalid_code_point", Unset)
     ELSE Decoded(c, it + n)

(* utf16_to_code_point *)
Utf16ToCodePoint(text, it, beyond) ==
  LET lead == Read(text, it, beyond)
      trail == Read(text, it + 1, beyond)
  IN IF it > Len(text) THEN DecodeError("sequence_too_short", it)
     ELSE IF ~IsSurrogate(lead) THEN Decoded(lead, it + 1)
     ELSE IF ~IsLeadSurrogate(lead) THEN DecodeError("invalid_leading_surrogate", it)
     ELSE IF ~IsTrailSurrogate(trail) THEN DecodeError("invalid_trailing_surrogate", it + 1)
     ELSE Decoded(CombineSurrogates(lead, trail), it + 2)

(* utf32_to_code_point *)
Utf32ToCodePoint(text, it, beyond) ==
  IF it > Len(text) THEN DecodeError("sequence_too_short", it)
  ELSE Decoded(text[it], it + 1)
================================================================================

----------------------------- MODULE CrossingProofs -----------------------------
(***************************************************************************)
(* What crosses between Lua and C++ arrives.  Of a call: the overload that  *)
(* runs is the first that fits, its parameters read the arguments they were *)
(* checked for, and what it makes is returned whole, destroyed once and     *)
(* kept while the policies say so, for every list of candidates, parameters *)
(* and arguments.  Of a text: what the decoders make of what the encoders   *)
(* wrote, for every code point and whatever lies behind the text, and the   *)
(* two passes of a conversion, which for texts of every length count and    *)
(* write the same.                                                          *)
(***************************************************************************)
EXTENDS Calls, Text, SequenceTheorems, WellFoundedInduction, NaturalsInduction, TLAPS


(* The code points there are: surrogates are not among them. *)
CodePoint(c) == c \in Nat /\ c <= LastCodePoint /\ ~IsSurrogate(c)

(* A lead surrogate carries the ten high bits of what a code point has above *)
(* the first plane, a trail surrogate the ten low ones.                      *)
LEMMA SurrogateHalves ==
  ASSUME NEW n \in Nat, n < 1048576
  PROVE  /\ (n \div 1024) % 1024 \in Nat /\ (n \div 1024) % 1024 <= 1023
         /\ n % 1024 \in Nat /\ n % 1024 <= 1023
         /\ n = ((n \div 1024) % 1024) * 1024 + (n % 1024)
  BY SMT

(* Every code point survives UTF-16 (code_point_to_utf16, then               *)
(* utf16_to_code_point), and the decoder stops right behind it.              *)
THEOREM Utf16RoundTrip ==
  ASSUME NEW c, CodePoint(c), NEW beyond \in Int
  PROVE  Utf16ToCodePoint(CodePointToUtf16(c), 1, beyond) =
           Decoded(c, Len(CodePointToUtf16(c)) + 1)
<1>1. CASE c <= \hFFFF
  <2>1. CodePointToUtf16(c) = <<c>>
    BY <1>1, SMT DEF CodePointToUtf16
  <2>2. QED
    BY <2>1, SMT DEF Utf16ToCodePoint, Read, CodePoint
<1>2. CASE ~(c <= \hFFFF)
  <2> DEFINE n == c - \h10000
             high == (n \div 1024) % 1024
             low == n % 1024
             lead == \hD800 + high
             trail == \hDC00 + low
  <2>1. CodePointToUtf16(c) = <<lead, trail>>
    BY <1>2, SMT DEF CodePointToUtf16
  <2>2. n \in Nat /\ n < 1048576
    BY <1>2, SMT DEF CodePoint, LastCodePoint
  <2>3. /\ high \in Nat /\ high <= 1023 /\ low \in Nat /\ low <= 1023
        /\ n = high * 1024 + low
    BY <2>2, SurrogateHalves, SMT
  <2> HIDE DEF high, low
  <2>4. IsSurrogate(lead) /\ IsLeadSurrogate(lead) /\ IsTrailSurrogate(trail)
    BY <2>3, SMT DEF IsSurrogate, IsLeadSurrogate, IsTrailSurrogate
  <2>5. CombineSurrogates(lead, trail) = c
    BY <2>3, <2>2, <1>2, SMT DEF CombineSurrogates, CodePoint
  <2> HIDE DEF lead, trail
  <2>6. QED
    BY <2>1, <2>4, <2>5, SMT DEF Utf16ToCodePoint, Read
<1>3. QED
  BY <1>1, <1>2, SMT

(* The digits of a number below 2^21 in base 64. *)
LEMMA Digits ==
  ASSUME NEW c \in Nat, c < 2097152
  PROVE  /\ c % 64 \in Nat /\ c % 64 <= 63
         /\ (c \div 64) % 64 \in Nat /\ (c \div 64) % 64 <= 63
         /\ (c \div 4096) % 64 \in Nat /\ (c \div 4096) % 64 <= 63
         /\ (c \div 262144) % 8 \in Nat /\ (c \div 262144) % 8 <= 7
         /\ c = ((c \div 262144) % 8) * 262144 + ((c \div 4096) % 64) * 4096
                  + ((c \div 64) % 64) * 64 + (c % 64)
  BY SMT

(* A byte that starts with the mark 10 is a continuation, and its other six *)
(* bits are what was put there.                                             *)
LEMMA ContinuationByte ==
  ASSUME NEW d \in Nat, d <= 63
  PROVE  IsContinuation(\h80 + d) /\ (\h80 + d) % 64 = d
  BY SMT DEF IsContinuation

LEMMA LeadBytes ==
  ASSUME NEW d \in Nat
  PROVE  /\ d <= 31 => (\hC0 + d) % 32 = d /\ ~IsContinuation(\hC0 + d)
         /\ d <= 15 => (\hE0 + d) % 16 = d /\ ~IsContinuation(\hE0 + d)
         /\ d <= 7 => (\hF0 + d) % 8 = d /\ ~IsContinuation(\hF0 + d)
  BY SMT DEF IsContinuation

(* What utf8_to_code_point accepts at it: n bytes that make up c. *)
SpelledAt(s, it, beyond, n, b0, b1, b2, b3, c) ==
  /\ it \in Nat /\ Len(s) \in Nat /\ it <= Len(s) /\ n \in {2, 3, 4}
  /\ Read(s, it + 0, beyond) = b0 /\ Read(s, it + 1, beyond) = b1
  /\ Read(s, it + 2, beyond) = b2 /\ Read(s, it + 3, beyond) = b3
  /\ SequenceLength(b0) = n /\ ~IsInvalid(b0) /\ ~IsContinuation(b0)
  /\ IsContinuation(b1) /\ (n > 2 => IsContinuation(b2)) /\ (n > 3 => IsContinuation(b3))
  /\ c \in Nat /\ DecodeBytes(n, b0, b1, b2, b3) = c
  /\ ~IsOverlong(c, n) /\ ~IsSurrogate(c) /\ c <= LastCodePoint

LEMMA Utf8Accepts ==
  ASSUME NEW s, NEW it, NEW beyond, NEW n, NEW b0, NEW b1, NEW b2, NEW b3, NEW c,
         SpelledAt(s, it, beyond, n, b0, b1, b2, b3, c)
  PROVE  Utf8ToCodePoint(s, it, beyond) = Decoded(c, it + n)
<1> DEFINE b(i) == Read(s, it + i, beyond)
           broken == {i \in {1, 2, 3} : i < n /\ ~IsContinuation(b(i))}
<1>1. broken = {}
  BY SMT DEF SpelledAt
<1>2. /\ SequenceLength(b(0)) = n /\ ~IsInvalid(b(0)) /\ ~IsContinuation(b(0))
      /\ DecodeBytes(n, b(0), b(1), b(2), b(3)) = c
  BY SMT DEF SpelledAt
<1> HIDE DEF b
<1>3. ~(it > Len(s)) /\ n # 1 /\ ~(c > LastCodePoint)
  BY SMT DEF SpelledAt, LastCodePoint
<1>4. it \in Nat /\ Len(s) \in Nat /\ n \in {2, 3, 4} /\ ~IsOverlong(c, n) /\ ~IsSurrogate(c)
  BY DEF SpelledAt
<1>5. QED
  BY <1>1, <1>2, <1>3, <1>4, SMT DEF Utf8ToCodePoint, b

(* Every code point survives UTF-8 (code_point_to_utf8, then                 *)
(* utf8_to_code_point), and the decoder stops right behind it.               *)
THEOREM Utf8RoundTrip ==
  ASSUME NEW c, CodePoint(c), NEW beyond \in Int
  PROVE  Utf8ToCodePoint(CodePointToUtf8(c), 1, beyond) =
           Decoded(c, Len(CodePointToUtf8(c)) + 1)
<1> DEFINE d0 == c % 64
           d1 == (c \div 64) % 64
           d2 == (c \div 4096) % 64
           d3 == (c \div 262144) % 8
           s == CodePointToUtf8(c)
<1>1. c \in Nat /\ c <= LastCodePoint /\ ~IsSurrogate(c) /\ c < 2097152
  BY SMT DEF CodePoint, LastCodePoint
<1>2. /\ d0 \in Nat /\ d0 <= 63 /\ d1 \in Nat /\ d1 <= 63
      /\ d2 \in Nat /\ d2 <= 63 /\ d3 \in Nat /\ d3 <= 7
      /\ c = d3 * 262144 + d2 * 4096 + d1 * 64 + d0
  BY <1>1, Digits, SMT
<1>3. CASE c <= \h7F
  <2>1. s = <<c>>
    BY <1>3, <1>1, SMT DEF CodePointToUtf8
  <2>2. QED
    BY <2>1, <1>1, <1>3, SMT DEF Utf8ToCodePoint, Read, DecodeBytes, SequenceLength
<1>4. CASE \h7F < c /\ c <= \h7FF
  <2>1. c \div 64 = d1 /\ d1 <= 31 /\ d1 >= 2 /\ c = d1 * 64 + d0
    BY <1>4, <1>1, SMT
  <2>2. s = <<\hC0 + d1, \h80 + d0>>
    BY <1>4, <1>1, <2>1, SMT DEF CodePointToUtf8
  <2> HIDE DEF d0, d1, s
  <2>3. /\ SequenceLength(\hC0 + d1) = 2 /\ ~IsInvalid(\hC0 + d1)
        /\ ~IsContinuation(\hC0 + d1) /\ IsContinuation(\h80 + d0)
        /\ Decode2(\hC0 + d1, \h80 + d0) = c
    BY <1>2, <2>1, ContinuationByte, LeadBytes, SMT DEF SequenceLength, IsInvalid, Decode2
  <2>4. ~IsOverlong(c, 2)
    BY <1>4, <1>1, SMT DEF IsOverlong
  <2>5. /\ Len(s) = 2
        /\ Read(s, 1 + 0, beyond) = \hC0 + d1 /\ Read(s, 1 + 1, beyond) = \h80 + d0
        /\ Read(s, 1 + 2, beyond) = beyond /\ Read(s, 1 + 3, beyond) = beyond
    BY <2>2, SMT DEF Read
  <2>6. DecodeBytes(2, \hC0 + d1, \h80 + d0, beyond, beyond) = c
    BY <2>3, SMT DEF DecodeBytes
  <2>7. SpelledAt(s, 1, beyond, 2, \hC0 + d1, \h80 + d0, beyond, beyond, c)
    BY <2>3, <2>4, <2>5, <2>6, <1>1, SMT DEF SpelledAt
  <2>8. 1 + 2 = Len(s) + 1
    BY <2>5, SMT
  <2>9. Utf8ToCodePoint(s, 1, beyond) = Decoded(c, 1 + 2)
    BY <2>7, Utf8Accepts
  <2>10. QED
    BY <2>8, <2>9, Zenon DEF s
<1>5. CASE \h7FF < c /\ c <= \hFFFF
  <2>1. c \div 4096 = d2 /\ d2 <= 15 /\ c = d2 * 4096 + d1 * 64 + d0
    BY <1>5, <1>1, SMT
  <2>2. s = <<\hE0 + d2, \h80 + d1, \h80 + d0>>
    BY <1>5, <1>1, <2>1, SMT DEF CodePointToUtf8
  <2> HIDE DEF d0, d1, d2, s
  <2>3. /\ SequenceLength(\hE0 + d2) = 3 /\ ~IsInvalid(\hE0 + d2)
        /\ ~IsContinuation(\hE0 + d2)
        /\ IsContinuation(\h80 + d1) /\ IsContinuation(\h80 + d0)
        /\ Decode3(\hE0 + d2, \h80 + d1, \h80 + d0) = c
    BY <1>2, <2>1, ContinuationByte, LeadBytes, SMT DEF SequenceLength, IsInvalid, Decode3
  <2>4. ~IsOverlong(c, 3)
    BY <1>5, <1>1, SMT DEF IsOverlong
  <2>5. /\ Len(s) = 3
        /\ Read(s, 1 + 0, beyond) = \hE0 + d2 /\ Read(s, 1 + 1, beyond) = \h80 + d1
        /\ Read(s, 1 + 2, beyond) = \h80 + d0 /\ Read(s, 1 + 3, beyond) = beyond
    BY <2>2, SMT DEF Read
  <2>6. DecodeBytes(3, \hE0 + d2, \h80 + d1, \h80 + d0, beyond) = c
    BY <2>3, SMT DEF DecodeBytes
  <2>7. SpelledAt(s, 1, beyond, 3, \hE0 + d2, \h80 + d1, \h80 + d0, beyond, c)
    BY <2>3, <2>4, <2>5, <2>6, <1>1, SMT DEF SpelledAt
  <2>8. 1 + 3 = Len(s) + 1
    BY <2>5, SMT
  <2>9. Utf8ToCodePoint(s, 1, beyond) = Decoded(c, 1 + 3)
    BY <2>7, Utf8Accepts
  <2>10. QED
    BY <2>8, <2>9, Zenon DEF s
<1>6. CASE \hFFFF < c
  <2>1. d3 <= 4
    BY <1>1, <1>2, SMT DEF LastCodePoint
  <2>2. s = <<\hF0 + d3, \h80 + d2, \h80 + d1, \h80 + d0>>
    BY <1>6, <1>1, SMT DEF CodePointToUtf8
  <2> HIDE DEF d0, d1, d2, d3, s
  <2>3. /\ SequenceLength(\hF0 + d3) = 4 /\ ~IsInvalid(\hF0 + d3)
        /\ ~IsContinuation(\hF0 + d3) /\ IsContinuation(\h80 + d2)
        /\ IsContinuation(\h80 + d1) /\ IsContinuation(\h80 + d0)
        /\ Decode4(\hF0 + d3, \h80 + d2, \h80 + d1, \h80 + d0) = c
    BY <1>2, <2>1, ContinuationByte, LeadBytes, SMT DEF SequenceLength, IsInvalid, Decode4
  <2>4. ~IsOverlong(c, 4)
    BY <1>6, <1>1, SMT DEF IsOverlong
  <2>5. /\ Len(s) = 4
        /\ Read(s, 1 + 0, beyond) = \hF0 + d3 /\ Read(s, 1 + 1, beyond) = \h80 + d2
        /\ Read(s, 1 + 2, beyond) = \h80 + d1 /\ Read(s, 1 + 3, beyond) = \h80 + d0
    BY <2>2, SMT DEF Read
  <2>6. DecodeBytes(4, \hF0 + d3, \h80 + d2, \h80 + d1, \h80 + d0) = c
    BY <2>3, SMT DEF DecodeBytes
  <2>7. SpelledAt(s, 1, beyond, 4, \hF0 + d3, \h80 + d2, \h80 + d1, \h80 + d0, c)
    BY <2>3, <2>4, <2>5, <2>6, <1>1, SMT DEF SpelledAt
  <2>8. 1 + 4 = Len(s) + 1
    BY <2>5, SMT
  <2>9. Utf8ToCodePoint(s, 1, beyond) = Decoded(c, 1 + 4)
    BY <2>7, Utf8Accepts
  <2>10. QED
    BY <2>8, <2>9, Zenon DEF s
<1>7. QED
  BY <1>1, <1>3, <1>4, <1>5, <1>6, SMT

(* The spellings of code_point_to_utf8. *)
LEMMA Spellings ==
  ASSUME NEW c \in Nat
  PROVE  /\ c > \h7FF /\ c <= \hFFFF =>
              CodePointToUtf8(c) =
                <<\hE0 + (c \div 4096), \h80 + ((c \div 64) % 64), \h80 + (c % 64)>>
         /\ c > \hFFFF =>
              CodePointToUtf8(c) =
                <<\hF0 + ((c \div 262144) % 8), \h80 + ((c \div 4096) % 64),
                  \h80 + ((c \div 64) % 64), \h80 + (c % 64)>>
  BY SMT DEF CodePointToUtf8

(* A sequence of bytes with the marks they should have, that is neither        *)
(* overlong nor says what is no code point, is the spelling of what it says.   *)
Marked2(b0, b1) ==
  /\ b0 \in 0 .. 255 /\ b1 \in 0 .. 255
  /\ b0 > \hC1 /\ b0 < \hE0
  /\ IsContinuation(b1)

LEMMA Spelling2 ==
  ASSUME NEW b0, NEW b1, Marked2(b0, b1)
  PROVE  /\ CodePoint(Decode2(b0, b1))
         /\ CodePointToUtf8(Decode2(b0, b1)) = <<b0, b1>>
<1> DEFINE c == Decode2(b0, b1)
<1>1. /\ c \in Nat /\ c > \h7F /\ c <= \h7FF
      /\ b0 = \hC0 + (c \div 64) /\ b1 = \h80 + (c % 64)
  BY SMT DEF Marked2, Decode2, IsContinuation
<1> HIDE DEF c
<1>2. CodePoint(c) /\ CodePointToUtf8(c) = <<b0, b1>>
  BY <1>1, SMT DEF CodePoint, LastCodePoint, IsSurrogate, CodePointToUtf8
<1>3. QED
  BY <1>2 DEF c

Marked3(b0, b1, b2) ==
  /\ b0 \in 0 .. 255 /\ b1 \in 0 .. 255 /\ b2 \in 0 .. 255
  /\ b0 >= \hE0 /\ b0 < \hF0
  /\ IsContinuation(b1) /\ IsContinuation(b2)

LEMMA Spelling3 ==
  ASSUME NEW b0, NEW b1, NEW b2, Marked3(b0, b1, b2),
         ~IsOverlong(Decode3(b0, b1, b2), 3), ~IsSurrogate(Decode3(b0, b1, b2))
  PROVE  /\ CodePoint(Decode3(b0, b1, b2))
         /\ CodePointToUtf8(Decode3(b0, b1, b2)) = <<b0, b1, b2>>
<1> DEFINE c == Decode3(b0, b1, b2)
<1>1. /\ c \in Nat /\ c <= \hFFFF
      /\ b0 = \hE0 + (c \div 4096) /\ b1 = \h80 + ((c \div 64) % 64)
      /\ b2 = \h80 + (c % 64)
  BY SMTT(30) DEF Marked3, Decode3, IsContinuation
<1>2. ~IsOverlong(c, 3) /\ ~IsSurrogate(c)
  OBVIOUS
<1> HIDE DEF c
<1>3. c > \h7FF /\ c <= LastCodePoint
  BY <1>1, <1>2, SMT DEF IsOverlong, LastCodePoint
<1>4. CodePointToUtf8(c) = <<b0, b1, b2>>
  BY <1>1, <1>3, Spellings, SMT
<1>5. QED
  BY <1>1, <1>2, <1>3, <1>4, SMT DEF CodePoint, c

Marked4(b0, b1, b2, b3) ==
  /\ b0 \in 0 .. 255 /\ b1 \in 0 .. 255 /\ b2 \in 0 .. 255 /\ b3 \in 0 .. 255
  /\ b0 >= \hF0 /\ b0 <= \hF4
  /\ IsContinuation(b1) /\ IsContinuation(b2) /\ IsContinuation(b3)

LEMMA Spelling4 ==
  ASSUME NEW b0, NEW b1, NEW b2, NEW b3, Marked4(b0, b1, b2, b3),
         ~IsOverlong(Decode4(b0, b1, b2, b3), 4), ~IsSurrogate(Decode4(b0, b1, b2, b3)), ~(Decode4(b0, b1, b2, b3) > LastCodePoint)
  PROVE  /\ CodePoint(Decode4(b0, b1, b2, b3))
         /\ CodePointToUtf8(Decode4(b0, b1, b2, b3)) = <<b0, b1, b2, b3>>
<1> DEFINE c == Decode4(b0, b1, b2, b3)
<1>1. /\ c \in Nat
      /\ b0 = \hF0 + ((c \div 262144) % 8) /\ b1 = \h80 + ((c \div 4096) % 64)
      /\ b2 = \h80 + ((c \div 64) % 64) /\ b3 = \h80 + (c % 64)
  BY SMTT(120) DEF Marked4, Decode4, IsContinuation
<1>2. ~IsOverlong(c, 4) /\ ~IsSurrogate(c) /\ ~(c > LastCodePoint)
  OBVIOUS
<1> HIDE DEF c
<1>3. c > \hFFFF /\ c <= LastCodePoint
  BY <1>1, <1>2, SMT DEF IsOverlong, LastCodePoint
<1>4. CodePointToUtf8(c) = <<b0, b1, b2, b3>>
  BY <1>1, <1>3, Spellings, SMT
<1>5. QED
  BY <1>1, <1>2, <1>3, <1>4, SMT DEF CodePoint, c

(* What utf8_to_code_point does not refuse. *)
LEMMA Utf8Accepted ==
  ASSUME NEW s, Len(s) \in Nat, NEW it \in 1 .. Len(s), NEW beyond \in Int,
         s[it] \in 0 .. 255, NEW dr, dr = Utf8ToCodePoint(s, it, beyond), dr.error = "ok",
         ~IsContinuation(beyond)
  PROVE  \/ s[it] <= \h7F /\ dr = Decoded(s[it], it + 1)
         \/ /\ s[it] > \hC1 /\ s[it] <= \hF4
            /\ \E n \in {2, 3, 4} : \E c :
                 /\ n = SequenceLength(s[it]) /\ it + n - 1 <= Len(s)
                 /\ \A i \in 1 .. n - 1 : IsContinuation(s[it + i])
                 /\ c = DecodeBytes(n, s[it], Read(s, it + 1, beyond),
                                    Read(s, it + 2, beyond), Read(s, it + 3, beyond))
                 /\ ~IsOverlong(c, n) /\ ~IsSurrogate(c) /\ ~(c > LastCodePoint)
                 /\ dr = Decoded(c, it + n)
<1> DEFINE b(i) == Read(s, it + i, beyond)
           n == SequenceLength(b(0))
           broken == {i \in {1, 2, 3} : i < n /\ ~IsContinuation(b(i))}
           c == DecodeBytes(n, b(0), b(1), b(2), b(3))
<1>0. s[it] \in 0 .. 255 /\ Len(s) \in Nat /\ it \in Nat /\ it + 0 = it /\ it <= Len(s)
  OBVIOUS
<1>1. b(0) = s[it]
  BY <1>0, SMT DEF Read
<1>11. n = SequenceLength(s[it])
  BY <1>1
<1> HIDE DEF b, n, c
<1>12. /\ n \in {1, 2, 3, 4} /\ (n = 1 => s[it] <= \h7F)
       /\ n # 1 /\ ~IsInvalid(s[it]) /\ ~IsContinuation(s[it]) =>
            s[it] > \hC1 /\ s[it] <= \hF4
  <2> DEFINE first == s[it]
  <2>1. first \in 0 .. 255 /\ n = SequenceLength(first)
    BY <1>11
  <2> HIDE DEF first
  <2>2. /\ n \in {1, 2, 3, 4} /\ (n = 1 => first <= \h7F)
        /\ n # 1 /\ ~IsInvalid(first) /\ ~IsContinuation(first) =>
             first > \hC1 /\ first <= \hF4
    BY <2>1, SMT DEF SequenceLength, IsInvalid, IsContinuation
  <2>3. QED
    BY <2>2, SMT DEF first
<1>13. c = DecodeBytes(n, s[it], b(1), b(2), b(3))
  BY <1>1 DEF c
<1>2. \/ n = 1 /\ dr = Decoded(c, it + 1)
      \/ /\ n # 1 /\ ~IsInvalid(b(0)) /\ ~IsContinuation(b(0)) /\ broken = {}
         /\ ~IsOverlong(c, n) /\ ~IsSurrogate(c) /\ ~(c > LastCodePoint)
         /\ dr = Decoded(c, it + n)
  BY <1>0, <1>12, SMT DEF Utf8ToCodePoint, DecodeError, b, n, c
<1>3. CASE n = 1 /\ dr = Decoded(c, it + 1)
  <2>1. s[it] <= \h7F /\ c = s[it]
    BY <1>12, <1>13, <1>3 DEF DecodeBytes
  <2>2. QED
    BY <2>1, <1>3
<1>4. CASE /\ n # 1 /\ ~IsInvalid(b(0)) /\ ~IsContinuation(b(0)) /\ broken = {}
           /\ ~IsOverlong(c, n) /\ ~IsSurrogate(c) /\ ~(c > LastCodePoint)
           /\ dr = Decoded(c, it + n)
  <2>1. n \in {2, 3, 4} /\ s[it] > \hC1 /\ s[it] <= \hF4
    BY <1>1, <1>12, <1>4
  <2>2. \A i \in 1 .. n - 1 : IsContinuation(b(i))
    BY <1>4, <2>1, SMT
  <2>3. \A i \in 1 .. n - 1 : it + i <= Len(s) /\ b(i) = s[it + i]
    BY <2>1, <2>2, <1>0, SMT DEF b, Read
  <2>4. it + n - 1 <= Len(s)
    BY <2>1, <2>3, <1>0, SMT
  <2>5. \A i \in 1 .. n - 1 : IsContinuation(s[it + i])
    BY <2>2, <2>3
  <2>6. /\ n = SequenceLength(s[it])
        /\ c = DecodeBytes(n, s[it], Read(s, it + 1, beyond),
                            Read(s, it + 2, beyond), Read(s, it + 3, beyond))
    BY <1>11, <1>13 DEF b
  <2>7. QED
    BY <2>1, <2>4, <2>5, <2>6, <1>4
<1>5. QED
  BY <1>2, <1>3, <1>4

(* What utf8_to_code_point accepts, wherever it stands in whatever bytes a    *)
(* Lua string holds, is a code point and is spelled in the one way            *)
(* code_point_to_utf8 spells it: no overlong form, no surrogate, nothing      *)
(* behind the last code point, and nothing that reaches past the end.         *)
THEOREM Utf8Sound ==
  ASSUME NEW s, Len(s) \in Nat, \A i \in 1 .. Len(s) : s[i] \in 0 .. 255,
         NEW it \in 1 .. Len(s), NEW beyond \in Int, ~IsContinuation(beyond),
         Utf8ToCodePoint(s, it, beyond).error = "ok"
  PROVE  LET dr == Utf8ToCodePoint(s, it, beyond)
             spelling == CodePointToUtf8(dr.codepoint)
         IN /\ CodePoint(dr.codepoint)
            /\ dr.next = it + Len(spelling) /\ dr.next <= Len(s) + 1
            /\ \A i \in 1 .. Len(spelling) : s[it + (i - 1)] = spelling[i]
<1> DEFINE dr == Utf8ToCodePoint(s, it, beyond)
           first == s[it]
           b1 == Read(s, it + 1, beyond)
           b2 == Read(s, it + 2, beyond)
           b3 == Read(s, it + 3, beyond)
           Spelled(c) ==
             /\ CodePoint(c)
             /\ dr.next = it + Len(CodePointToUtf8(c)) /\ dr.next <= Len(s) + 1
             /\ \A i \in 1 .. Len(CodePointToUtf8(c)) : s[it + (i - 1)] = CodePointToUtf8(c)[i]
<1>1. /\ Len(s) \in Nat /\ it \in Nat /\ it <= Len(s)
      /\ \A i \in 1 .. Len(s) : s[i] \in 0 .. 255
  OBVIOUS
<1>2. first \in 0 .. 255 /\ s[it + 0] = first /\ s[it + (1 - 1)] = first
  BY <1>1
<1> HIDE DEF dr
<1>3. CASE first <= \h7F /\ dr = Decoded(first, it + 1)
  <2> HIDE DEF first
  <2>1. CodePointToUtf8(first) = <<first>>
    BY <1>2, <1>3, SMT DEF CodePointToUtf8
  <2>2. CodePoint(first)
    BY <1>2, <1>3, SMT DEF CodePoint, LastCodePoint, IsSurrogate
  <2>3. dr.next = it + 1 /\ dr.codepoint = first
    BY <1>3 DEF Decoded
  <2>4. Len(CodePointToUtf8(first)) = 1 /\ CodePointToUtf8(first)[1] = first
    BY <2>1
  <2>5. Spelled(first)
    BY <2>2, <2>3, <2>4, <1>1, <1>2, SMT
  <2>6. QED
    BY <2>3, <2>5 DEF dr
<1>4. ASSUME NEW n \in {2, 3, 4}, NEW c,
             first > \hC1, first <= \hF4,
             n = SequenceLength(first), it + n - 1 <= Len(s),
             \A i \in 1 .. n - 1 : IsContinuation(s[it + i]),
             c = DecodeBytes(n, first, b1, b2, b3),
             ~IsOverlong(c, n), ~IsSurrogate(c), ~(c > LastCodePoint),
             dr = Decoded(c, it + n)
      PROVE  Spelled(dr.codepoint)
  <2>1. dr.next = it + n /\ dr.codepoint = c /\ dr.next <= Len(s) + 1
    BY <1>1, <1>4 DEF Decoded
  <2>2. /\ b1 \in 0 .. 255 /\ b1 = s[it + 1] /\ IsContinuation(b1)
        /\ n > 2 => b2 \in 0 .. 255 /\ b2 = s[it + 2] /\ IsContinuation(b2)
        /\ n > 3 => b3 \in 0 .. 255 /\ b3 = s[it + 3] /\ IsContinuation(b3)
    BY <1>1, <1>4, SMTT(30) DEF Read
  <2>3. s[it + (1 - 1)] = first /\ s[it + (2 - 1)] = s[it + 1]
        /\ s[it + (3 - 1)] = s[it + 2] /\ s[it + (4 - 1)] = s[it + 3]
    BY <1>2
  <2> HIDE DEF first, b1, b2, b3
  <2>4. /\ n = 2 => first < \hE0
        /\ n = 3 => first >= \hE0 /\ first < \hF0
        /\ n = 4 => first >= \hF0
    BY <1>2, <1>4, SMT DEF SequenceLength
  <2>5. CASE n = 2
    <3>1. c = Decode2(first, b1)
      BY <1>4, <2>5 DEF DecodeBytes
    <3>2. CodePoint(Decode2(first, b1)) /\ CodePointToUtf8(Decode2(first, b1)) = <<first, b1>>
      <4>1. Marked2(first, b1)
        BY <1>2, <1>4, <2>2, <2>4, <2>5, SMT DEF Marked2
      <4>2. QED
        BY <4>1, Spelling2
    <3>3. Len(CodePointToUtf8(c)) = 2 /\ CodePointToUtf8(c)[1] = first /\ CodePointToUtf8(c)[2] = b1
      BY <3>1, <3>2
    <3>4. ASSUME NEW i \in 1 .. Len(CodePointToUtf8(c))
          PROVE  s[it + (i - 1)] = CodePointToUtf8(c)[i]
      <4>1. i = 1 \/ i = 2
        BY <3>3
      <4>2. QED
        BY <4>1, <3>3, <2>2, <2>3, <2>5
    <3>5. QED
      BY <3>1, <3>2, <3>3, <3>4, <2>1, <2>5
  <2>6. CASE n = 3
    <3>1. c = Decode3(first, b1, b2)
      BY <1>4, <2>6 DEF DecodeBytes
    <3>2. CodePoint(Decode3(first, b1, b2)) /\ CodePointToUtf8(Decode3(first, b1, b2)) = <<first, b1, b2>>
      <4>1. Marked3(first, b1, b2)
        BY <1>2, <1>4, <2>2, <2>4, <2>6, SMT DEF Marked3
      <4>2. ~IsOverlong(Decode3(first, b1, b2), 3) /\ ~IsSurrogate(Decode3(first, b1, b2))
        BY <3>1, <1>4, <2>6
      <4>3. QED
        BY <4>1, <4>2, Spelling3, SMT
    <3>3. Len(CodePointToUtf8(c)) = 3 /\ CodePointToUtf8(c)[1] = first /\ CodePointToUtf8(c)[2] = b1 /\ CodePointToUtf8(c)[3] = b2
      BY <3>1, <3>2
    <3>4. ASSUME NEW i \in 1 .. Len(CodePointToUtf8(c))
          PROVE  s[it + (i - 1)] = CodePointToUtf8(c)[i]
      <4>1. i = 1 \/ i = 2 \/ i = 3
        BY <3>3
      <4>2. QED
        BY <4>1, <3>3, <2>2, <2>3, <2>6
    <3>5. QED
      BY <3>1, <3>2, <3>3, <3>4, <2>1, <2>6
  <2>7. CASE n = 4
    <3>1. c = Decode4(first, b1, b2, b3)
      BY <1>4, <2>7 DEF DecodeBytes
    <3>2. CodePoint(Decode4(first, b1, b2, b3)) /\ CodePointToUtf8(Decode4(first, b1, b2, b3)) = <<first, b1, b2, b3>>
      <4>1. Marked4(first, b1, b2, b3)
        BY <1>2, <1>4, <2>2, <2>4, <2>7, SMT DEF Marked4
      <4>2. ~IsOverlong(Decode4(first, b1, b2, b3), 4) /\ ~IsSurrogate(Decode4(first, b1, b2, b3)) /\ ~(Decode4(first, b1, b2, b3) > LastCodePoint)
        BY <3>1, <1>4, <2>7
      <4>3. QED
        BY <4>1, <4>2, Spelling4, SMT
    <3>3. Len(CodePointToUtf8(c)) = 4 /\ CodePointToUtf8(c)[1] = first /\ CodePointToUtf8(c)[2] = b1 /\ CodePointToUtf8(c)[3] = b2 /\ CodePointToUtf8(c)[4] = b3
      BY <3>1, <3>2
    <3>4. ASSUME NEW i \in 1 .. Len(CodePointToUtf8(c))
          PROVE  s[it + (i - 1)] = CodePointToUtf8(c)[i]
      <4>1. i = 1 \/ i = 2 \/ i = 3 \/ i = 4
        BY <3>3
      <4>2. QED
        BY <4>1, <3>3, <2>2, <2>3, <2>7
    <3>5. QED
      BY <3>1, <3>2, <3>3, <3>4, <2>1, <2>7
  <2>8. QED
    BY <2>5, <2>6, <2>7, <2>1
<1>5. QED
  BY <1>1, <1>2, <1>3, <1>4, Utf8Accepted DEF dr

--------------------------------------------------------------------------------
(* Two passes *)

(* The counts a pass over units 1 .. end came by: at each of the places it    *)
(* was at, and it is at last with total.  step says where it goes from a     *)
(* unit, size what it counts for it.                                         *)
Tally(at, places, last, total, end, step, size) ==
  /\ at \in [places -> Nat] /\ places \subseteq Nat
  /\ 1 \in places /\ at[1] = 0
  /\ last \in places /\ at[last] = total
  /\ \A q \in places : 1 <= q /\ q <= last /\ at[q] <= total
  /\ \A q \in places : q # last =>
       q <= end /\ step[q] \in places /\ at[step[q]] = at[q] + size[q]

Tallied(last, total, end, step, size) ==
  \E at, places : Tally(at, places, last, total, end, step, size)

(* A second pass is where the first one was, with as much written as had been *)
(* counted there; the first came past the end with total.                    *)
Replayed(it, written, total, end, step, size) ==
  \E at, places, last :
    /\ Tally(at, places, last, total, end, step, size)
    /\ last > end /\ it \in places /\ at[it] = written

LEMMA TallyStarts ==
  ASSUME NEW end, NEW step, NEW size
  PROVE  Tallied(1, 0, end, step, size)
<1> DEFINE at == [q \in {1} |-> 0]
<1>1. Tally(at, {1}, 1, 0, end, step, size)
  BY DEF Tally
<1> QED
  BY <1>1 DEF Tallied

LEMMA TallyGoesOn ==
  ASSUME NEW last, NEW total, NEW end \in Nat, NEW step, NEW size,
         Tallied(last, total, end, step, size), last <= end,
         NEW next \in Nat, next = step[last], next > last,
         NEW more \in Nat, more = size[last]
  PROVE  Tallied(next, total + more, end, step, size)
<1>1. PICK at, places : Tally(at, places, last, total, end, step, size)
  BY DEF Tallied
<1> DEFINE further == places \cup {next}
           at2 == [q \in further |-> IF q = next THEN total + more ELSE at[q]]
<1>2. last \in Nat /\ total \in Nat /\ at[last] = total /\ last \in places /\ places \subseteq Nat
  BY <1>1 DEF Tally
<1>3. \A q \in places : q \in Nat /\ 1 <= q /\ q <= last /\ q < next /\ q # next /\ at[q] \in Nat /\ at[q] <= total
  BY <1>1, <1>2 DEF Tally
<1>4. further \subseteq Nat /\ at2 \in [further -> Nat]
  <2>1. total + more \in Nat
    BY <1>2
  <2>2. \A q \in further : q \in Nat /\ (q # next => q \in places)
    BY <1>2
  <2>3. \A q \in further : at2[q] \in Nat
    BY <1>3, <2>1, <2>2
  <2> QED
    BY <2>2, <2>3
<1>5. /\ next \in further /\ at2[next] = total + more
      /\ \A q \in places : q \in further /\ at2[q] = at[q]
  BY <1>3
<1>6. \A q \in further : q \in places \/ q = next
  OBVIOUS
<1> HIDE DEF further, at2
<1>7. 1 \in further /\ at2[1] = 0
  BY <1>1, <1>5 DEF Tally
<1>8. ASSUME NEW q \in further PROVE 1 <= q /\ q <= next /\ at2[q] <= total + more
  <2>1. CASE q \in places
    BY <1>2, <1>3, <1>5, <2>1
  <2>2. CASE q = next
    BY <1>2, <1>3, <1>5, <2>2
  <2> QED
    BY <1>6, <2>1, <2>2
<1>9. ASSUME NEW q \in further, q # next
      PROVE  q <= end /\ step[q] \in further /\ at2[step[q]] = at2[q] + size[q]
  <2>1. q \in places /\ at2[q] = at[q]
    BY <1>5, <1>6, <1>9
  <2>2. CASE q = last
    BY <1>2, <1>5, <2>1, <2>2
  <2>3. CASE q # last
    <3>1. q <= end /\ step[q] \in places /\ at[step[q]] = at[q] + size[q]
      BY <1>1, <2>1, <2>3 DEF Tally
    <3> QED
      BY <1>5, <2>1, <3>1
  <2> QED
    BY <2>2, <2>3
<1>10. Tally(at2, further, next, total + more, end, step, size)
  BY <1>4, <1>5, <1>7, <1>8, <1>9 DEF Tally
<1> QED
  BY <1>4, <1>10 DEF Tallied

LEMMA ReplayStarts ==
  ASSUME NEW last, NEW total, NEW end \in Nat, NEW step, NEW size,
         Tallied(last, total, end, step, size), last > end
  PROVE  Replayed(1, 0, total, end, step, size)
<1>1. PICK at, places : Tally(at, places, last, total, end, step, size)
  BY DEF Tallied
<1>2. 1 \in places /\ at[1] = 0 /\ last \in Nat
  BY <1>1 DEF Tally
<1> QED
  BY <1>1, <1>2 DEF Replayed

LEMMA ReplayGoesOn ==
  ASSUME NEW it, NEW written, NEW total, NEW end \in Nat, NEW step, NEW size,
         Replayed(it, written, total, end, step, size), it <= end
  PROVE  Replayed(step[it], written + size[it], total, end, step, size)
<1>1. PICK at, places, last :
        /\ Tally(at, places, last, total, end, step, size)
        /\ last > end /\ it \in places /\ at[it] = written
  BY DEF Replayed
<1>2. it \in Nat /\ last \in Nat /\ it # last
  BY <1>1 DEF Tally
<1>3. step[it] \in places /\ at[step[it]] = written + size[it]
  BY <1>1, <1>2 DEF Tally
<1> QED
  BY <1>1, <1>3 DEF Replayed

(* What is written never exceeds what was counted, and is all of it at the   *)
(* end.                                                                      *)
LEMMA ReplayFits ==
  ASSUME NEW it, NEW written, NEW total, NEW end \in Nat, NEW step, NEW size,
         Replayed(it, written, total, end, step, size)
  PROVE  /\ it \in Nat /\ 1 <= it /\ written \in Nat /\ total \in Nat
         /\ written <= total /\ (it > end => written = total)
<1>1. PICK at, places, last :
        /\ Tally(at, places, last, total, end, step, size)
        /\ last > end /\ it \in places /\ at[it] = written
  BY DEF Replayed
<1>2. it \in Nat /\ 1 <= it /\ written \in Nat /\ total \in Nat /\ written <= total /\ at[last] = total
  BY <1>1 DEF Tally
<1>3. ASSUME it > end PROVE it = last
  BY <1>1, <1>2, <1>3 DEF Tally
<1> QED
  BY <1>1, <1>2, <1>3

--------------------------------------------------------------------------------
(* Pushing *)

(* What is written for the unit at q, and where the next one is. *)
PushedAt(q) == CodePointToUtf8(PushedPoint(Decode(text, q, 0)))

PushStep == [q \in 1 .. Len(text) |-> Decode(text, q, 0).next]

PushSize == [q \in 1 .. Len(text) |-> Len(PushedAt(q))]

(* The text of a program without corner cases. *)
Pushing ==
  /\ kind \in Kinds /\ text \in Seq(Nat) /\ Pushable(text, kind)
  /\ kind = "utf16" => \A i \in 1 .. Len(text) : text[i] <= \hFFFF

(* A pass over UTF-16 is never at the second unit of a pair. *)
AtStart(q) == kind = "utf16" /\ q <= Len(text) => ~ IsTrailSurrogate(text[q])

LEMMA Utf8Bytes ==
  ASSUME NEW c \in Nat
  PROVE  /\ CodePointToUtf8(c) \in Seq(0 .. 255)
         /\ Len(CodePointToUtf8(c)) \in 1 .. 4
         /\ c <= \hFFFF => Len(CodePointToUtf8(c)) <= 3
<1> DEFINE d0 == \h80 + (c % 64)
           d1 == \h80 + ((c \div 64) % 64)
           d2 == \h80 + ((c \div 4096) % 64)
           two == \hC0 + (c \div 64)
           three == \hE0 + (c \div 4096)
           four == \hF0 + ((c \div 262144) % 8)
<1>1. /\ d0 \in 0 .. 255 /\ d1 \in 0 .. 255 /\ d2 \in 0 .. 255 /\ four \in 0 .. 255
      /\ c <= \h7FF => two \in 0 .. 255
      /\ c <= \hFFFF => three \in 0 .. 255
      /\ c <= \h7F => c \in 0 .. 255
  BY SMT
<1>2. CASE c <= \h7F
  <2>1. CodePointToUtf8(c) = <<c>>
    BY <1>2 DEF CodePointToUtf8
  <2> QED
    BY <1>1, <1>2, <2>1
<1>3. CASE \h7F < c /\ c <= \h7FF
  <2>1. CodePointToUtf8(c) = <<two, d0>>
    BY <1>3 DEF CodePointToUtf8
  <2> HIDE DEF two, d0
  <2> QED
    BY <1>1, <1>3, <2>1
<1>4. CASE \h7FF < c /\ c <= \hFFFF
  <2>1. CodePointToUtf8(c) = <<three, d1, d0>>
    BY <1>4 DEF CodePointToUtf8
  <2> HIDE DEF three, d1, d0
  <2> QED
    BY <1>1, <1>4, <2>1
<1>5. CASE \hFFFF < c
  <2>1. CodePointToUtf8(c) = <<four, d2, d1, d0>>
    BY <1>5 DEF CodePointToUtf8
  <2> HIDE DEF four, d2, d1, d0
  <2> QED
    BY <1>1, <1>5, <2>1
<1> QED
  BY <1>2, <1>3, <1>4, <1>5

(* What is pushed for one code point. *)
LEMMA PointBytes ==
  ASSUME NEW point \in Nat, NEW encoded, encoded = CodePointToUtf8(point)
  PROVE  /\ encoded \in Seq(0 .. 255) /\ Len(encoded) \in Nat /\ Len(encoded) <= 4
         /\ point <= \hFFFF => Len(encoded) <= 3
<1>1. encoded \in Seq(0 .. 255)
  BY Utf8Bytes
<1>2. Len(encoded) \in 1 .. 4
  BY Utf8Bytes
<1>3. point <= \hFFFF => Len(encoded) <= 3
  BY Utf8Bytes
<1>4. PICK n \in 1 .. 4 : n = Len(encoded)
  BY <1>2
<1>5. Len(encoded) \in Nat /\ Len(encoded) <= 4
  BY <1>4
<1> QED
  BY <1>1, <1>3, <1>5, SMT

LEMMA UnsetIsNoUnit == \A c \in Nat : c # Unset
<1>1. \A c \in Nat : c \in Int
  OBVIOUS
<1>2. Unset \notin Int
  BY TextAssumption
<1> QED
  BY <1>1, <1>2, Zenon

(* One unit or pair of UTF-16 in a text a program pushes. *)
LEMMA PushUtf16 ==
  ASSUME Corners = {}, kind = "utf16", text \in Seq(Nat), Pushable(text, kind),
         NEW q \in 1 .. Len(text), AtStart(q), text[q] <= \hFFFF,
         NEW dr, dr = Decode(text, q, 0)
  PROVE  /\ dr.next \in Nat /\ q < dr.next /\ dr.next <= Len(text) + 1 /\ AtStart(dr.next)
         /\ PushedPoint(dr) \in Nat
         /\ PushedPoint(dr) > \hFFFF => dr.next = q + 2
         /\ 4 * Len(text) > BufferSize => dr.codepoint # Unset /\ PushedPoint(dr) = dr.codepoint
<1> DEFINE n == Len(text)
           u == text[q]
           v == Read(text, q + 1, 0)
<1>1. n \in Nat /\ q \in Nat /\ 1 <= q /\ q <= n /\ u \in Nat /\ DOMAIN text = 1 .. n /\ Read(text, q, 0) = u
  BY DEF Read
<1>2. \A i \in 1 .. n : IsTrailSurrogate(text[i]) => i # 1 /\ IsLeadSurrogate(text[i - 1])
  BY <1>1 DEF Pushable
<1>3. 4 * n > BufferSize => WellFormed(text, "utf16")
  <2>1. BufferSize \in Nat
    BY TextAssumption
  <2> QED
    BY <1>1, <2>1 DEF Pushable
<1>4. dr = Utf16ToCodePoint(text, q, 0)
  BY DEF Decode
<1>5. v \in Nat /\ (q + 1 <= n => v = text[q + 1]) /\ (q + 1 > n => v = 0)
  BY <1>1 DEF Read
<1>6. ~ IsTrailSurrogate(u)
  BY <1>1 DEF AtStart
<1>7. \A c \in Nat : c # Unset
  BY UnsetIsNoUnit
<1>8. \A i \in 1 .. n : IsTrailSurrogate(text[i]) => ~ IsLeadSurrogate(text[i]) /\ IsSurrogate(text[i])
  <2>1. \A i \in 1 .. n : text[i] \in Nat
    BY <1>1
  <2> QED
    BY <2>1 DEF IsTrailSurrogate, IsLeadSurrogate, IsSurrogate
<1>9. AtStart(q + 1) \/ (IsLeadSurrogate(u) /\ IsTrailSurrogate(v))
  <2>1. CASE q + 1 <= n /\ IsTrailSurrogate(text[q + 1])
    <3>1. q + 1 \in 1 .. n /\ (q + 1) - 1 = q
      BY <1>1, <2>1
    <3> QED
      BY <1>2, <1>5, <2>1, <3>1
  <2>2. CASE ~ (q + 1 <= n /\ IsTrailSurrogate(text[q + 1]))
    BY <2>2 DEF AtStart
  <2> QED
    BY <2>1, <2>2
<1>10. IsSurrogate(u) <=> IsLeadSurrogate(u)
  BY <1>1, <1>6 DEF IsSurrogate, IsLeadSurrogate, IsTrailSurrogate
<1> HIDE DEF n, u, v
<1>11. CASE ~ IsSurrogate(u)
  <2>1. dr = Decoded(u, q + 1)
    BY <1>1, <1>4, <1>11 DEF Utf16ToCodePoint, n, u
  <2>2. dr.error = "ok" /\ dr.next = q + 1 /\ dr.codepoint = u /\ PushedPoint(dr) = u
    BY <2>1 DEF Decoded, PushedPoint
  <2> QED
    BY <1>1, <1>7, <1>9, <1>10, <1>11, <2>2 DEF n, u
<1>12. CASE IsSurrogate(u) /\ ~ IsTrailSurrogate(v)
  <2>1. dr = DecodeError("invalid_trailing_surrogate", q + 1)
    BY <1>1, <1>4, <1>10, <1>12 DEF Utf16ToCodePoint, n, u, v
  <2>2. dr.error # "ok" /\ dr.next = q + 1 /\ PushedPoint(dr) = Replacement
    BY <2>1 DEF DecodeError, PushedPoint
  <2>3. ~ (4 * n > BufferSize)
    <3>1. WellFormed(text, "utf16") => q < n /\ IsTrailSurrogate(text[q + 1])
      BY <1>1, <1>10, <1>12 DEF WellFormed, n, u
    <3> QED
      BY <1>1, <1>3, <1>5, <1>12, <3>1
  <2> QED
    BY <1>1, <1>9, <1>12, <2>2, <2>3 DEF n, Replacement
<1>13. CASE IsSurrogate(u) /\ IsTrailSurrogate(v)
  <2>1. dr = Decoded(CombineSurrogates(u, v), q + 2)
    BY <1>1, <1>4, <1>10, <1>13 DEF Utf16ToCodePoint, n, u, v
  <2>2. q + 1 \in 1 .. n /\ v = text[q + 1]
    BY <1>1, <1>5, <1>13 DEF IsTrailSurrogate
  <2>3. CombineSurrogates(u, v) \in Nat
    BY <1>1, <1>5, <1>10, <1>13 DEF CombineSurrogates, IsLeadSurrogate, IsTrailSurrogate
  <2>4. dr.error = "ok" /\ dr.next = q + 2 /\ dr.codepoint = CombineSurrogates(u, v)
        /\ PushedPoint(dr) = CombineSurrogates(u, v)
    BY <2>1 DEF Decoded, PushedPoint
  <2>5. AtStart(q + 2)
    <3>1. ASSUME q + 2 <= n, IsTrailSurrogate(text[q + 2]) PROVE FALSE
      <4>1. q + 2 \in 1 .. n /\ (q + 2) - 1 = q + 1
        BY <1>1, <3>1
      <4> QED
        BY <1>2, <1>8, <1>13, <2>2, <3>1, <4>1
    <3> QED
      BY <3>1 DEF AtStart, n
  <2> QED
    BY <1>1, <1>7, <2>2, <2>3, <2>4, <2>5 DEF n
<1> QED
  BY <1>11, <1>12, <1>13

(* One unit of UTF-32 is a code point, whatever it is. *)
LEMMA PushUtf32 ==
  ASSUME kind = "utf32", text \in Seq(Nat), NEW q \in 1 .. Len(text),
         NEW dr, dr = Decode(text, q, 0)
  PROVE  /\ dr.next = q + 1
         /\ PushedPoint(dr) = text[q] /\ dr.codepoint # Unset /\ PushedPoint(dr) = dr.codepoint
<1>1. dr = Decoded(text[q], q + 1)
  BY DEF Decode, Utf32ToCodePoint
<1>2. text[q] \in Nat
  OBVIOUS
<1>3. text[q] # Unset
  BY <1>2, UnsetIsNoUnit
<1> QED
  BY <1>1, <1>3 DEF Decoded, PushedPoint

(* Whatever is being pushed, a step goes forwards, to the start of a          *)
(* sequence, and needs four bytes for each unit at most; and a text that is  *)
(* counted has no unit for which the two passes differ.                      *)
LEMMA PushUnit ==
  ASSUME Corners = {}, Pushing, NEW q \in 1 .. Len(text), AtStart(q),
         NEW dr, dr = Decode(text, q, 0), NEW encoded, encoded = PushedAt(q)
  PROVE  /\ dr.next \in Nat /\ q < dr.next /\ dr.next <= Len(text) + 1 /\ AtStart(dr.next)
         /\ encoded \in Seq(0 .. 255) /\ Len(encoded) \in Nat /\ Len(encoded) <= 4 * (dr.next - q)
         /\ dr.next = PushStep[q] /\ Len(encoded) = PushSize[q]
         /\ 4 * Len(text) > BufferSize => dr.codepoint # Unset /\ CodePointToUtf8(dr.codepoint) = encoded
<1>1. dr.next = PushStep[q] /\ Len(encoded) = PushSize[q] /\ encoded = CodePointToUtf8(PushedPoint(dr))
  BY DEF PushStep, PushSize, PushedAt
<1>2. Len(text) \in Nat /\ q \in Nat /\ q <= Len(text) /\ text[q] \in Nat /\ text \in Seq(Nat)
  BY DEF Pushing
<1>3. CASE kind = "utf16"
  <2>1. /\ dr.next \in Nat /\ q < dr.next /\ dr.next <= Len(text) + 1 /\ AtStart(dr.next)
        /\ PushedPoint(dr) \in Nat /\ (PushedPoint(dr) > \hFFFF => dr.next = q + 2)
        /\ 4 * Len(text) > BufferSize => dr.codepoint # Unset /\ PushedPoint(dr) = dr.codepoint
    BY <1>3, PushUtf16 DEF Pushing
  <2>2. PICK point \in Nat : point = PushedPoint(dr)
    BY <2>1
  <2>3. encoded = CodePointToUtf8(point)
    BY <1>1, <2>2
  <2>4. encoded \in Seq(0 .. 255)
    BY <2>3, PointBytes, SMT
  <2>5. Len(encoded) \in Nat /\ Len(encoded) <= 4
    BY <2>3, PointBytes, SMT
  <2>6. point <= \hFFFF => Len(encoded) <= 3
    BY <2>3, PointBytes, SMT
  <2>7. Len(encoded) <= 4 * (dr.next - q)
    BY <1>2, <2>1, <2>2, <2>5, <2>6
  <2>8. dr.next \in Nat /\ q < dr.next /\ dr.next <= Len(text) + 1 /\ AtStart(dr.next)
    BY <2>1
  <2>9. 4 * Len(text) > BufferSize => dr.codepoint # Unset /\ point = dr.codepoint
    BY <2>1, <2>2
  <2>10. 4 * Len(text) > BufferSize => dr.codepoint # Unset /\ CodePointToUtf8(dr.codepoint) = encoded
    BY <2>3, <2>9, Zenon
  <2> QED
    BY <1>1, <2>4, <2>5, <2>7, <2>8, <2>10, Zenon
<1>4. CASE kind = "utf32"
  <2>1. dr.next = q + 1 /\ PushedPoint(dr) \in Nat /\ dr.codepoint # Unset /\ PushedPoint(dr) = dr.codepoint
    BY <1>2, <1>4, PushUtf32
  <2>2. PICK point \in Nat : point = PushedPoint(dr)
    BY <2>1
  <2>3. encoded = CodePointToUtf8(point)
    BY <1>1, <2>2
  <2>4. encoded \in Seq(0 .. 255)
    BY <2>3, PointBytes, SMT
  <2>5. Len(encoded) \in Nat /\ Len(encoded) <= 4
    BY <2>3, PointBytes, SMT
  <2>6. Len(encoded) <= 4 * (dr.next - q)
    BY <1>2, <2>1, <2>5
  <2>7. AtStart(dr.next)
    BY <1>4 DEF AtStart
  <2>8. dr.next \in Nat /\ q < dr.next /\ dr.next <= Len(text) + 1
    BY <1>2, <2>1
  <2>9. dr.codepoint # Unset /\ CodePointToUtf8(dr.codepoint) = encoded
    BY <2>1, <2>2, <2>3, Zenon
  <2> QED
    BY <1>1, <2>4, <2>5, <2>6, <2>7, <2>8, <2>9, Zenon
<1> QED
  BY <1>3, <1>4 DEF Kinds, Pushing

--------------------------------------------------------------------------------
(* Reading *)

ConvertedAt(q) ==
  LET dr == Utf8ToCodePoint(lua, q, 0)
  IN IF dr.error # "ok" THEN [c |-> Replacement, next |-> q + 1]
     ELSE [c |-> dr.codepoint, next |-> dr.next]

ReadStep == [q \in 1 .. Len(lua) |-> ConvertedAt(q).next]

ReadSize == [q \in 1 .. Len(lua) |-> Len(Encode(ConvertedAt(q).c))]

LEMMA EncodedUnits ==
  ASSUME NEW c \in Nat
  PROVE  Encode(c) \in Seq(Nat) /\ Len(Encode(c)) \in Nat
<1> DEFINE lead == \hD800 + (((c - \h10000) \div 1024) % 1024)
           trail == \hDC00 + ((c - \h10000) % 1024)
<1>1. \hFFFF < c => lead \in Nat /\ trail \in Nat
  BY SMT
<1>2. CodePointToUtf32(c) \in Seq(Nat) /\ Len(CodePointToUtf32(c)) \in Nat
  BY DEF CodePointToUtf32
<1>3. CodePointToUtf16(c) \in Seq(Nat) /\ Len(CodePointToUtf16(c)) \in Nat
  <2>1. CASE c <= \hFFFF
    BY <2>1 DEF CodePointToUtf16
  <2>2. CASE \hFFFF < c
    <3>1. CodePointToUtf16(c) = <<lead, trail>>
      BY <2>2 DEF CodePointToUtf16
    <3> HIDE DEF lead, trail
    <3> QED
      BY <1>1, <2>2, <3>1
  <2> QED
    BY <2>1, <2>2
<1> QED
  BY <1>2, <1>3 DEF Encode

(* The first unit of one code point. *)
LEMMA FirstUnit ==
  ASSUME NEW c \in Nat
  PROVE  Encode(c)[1] \in Nat
<1> DEFINE lead == \hD800 + (((c - \h10000) \div 1024) % 1024)
           trail == \hDC00 + ((c - \h10000) % 1024)
<1>1. \hFFFF < c => lead \in Nat
  BY SMT
<1>2. CodePointToUtf32(c)[1] \in Nat
  BY DEF CodePointToUtf32
<1>3. CodePointToUtf16(c)[1] \in Nat
  <2>1. CASE c <= \hFFFF
    BY <2>1 DEF CodePointToUtf16
  <2>2. CASE \hFFFF < c
    <3>1. CodePointToUtf16(c) = <<lead, trail>>
      BY <2>2 DEF CodePointToUtf16
    <3> HIDE DEF lead, trail
    <3> QED
      BY <1>1, <2>2, <3>1
  <2> QED
    BY <2>1, <2>2
<1> QED
  BY <1>2, <1>3 DEF Encode

(* Whatever bytes Lua has, a step goes forwards. *)
LEMMA ReadUnit ==
  ASSUME lua \in Seq(0 .. 255), NEW q \in 1 .. Len(lua), NEW r, r = ConvertedAt(q),
         NEW units, units = Encode(r.c)
  PROVE  /\ r.next \in Nat /\ q < r.next
         /\ units \in Seq(Nat) /\ Len(units) \in Nat
         /\ r.next = ReadStep[q] /\ Len(units) = ReadSize[q]
<1> DEFINE dr == Utf8ToCodePoint(lua, q, 0)
           spelling == CodePointToUtf8(dr.codepoint)
<1>1. r.next = ReadStep[q] /\ Len(units) = ReadSize[q]
  BY DEF ReadStep, ReadSize
<1>2. Len(lua) \in Nat /\ q \in Nat /\ 0 \in Int
  OBVIOUS
<1>6. \A i \in 1 .. Len(lua) : lua[i] \in 0 .. 255
  BY ElementOfSeq
<1>3. ~ IsContinuation(0)
  BY SMT DEF IsContinuation
<1>4. CASE dr.error = "ok"
  <2>1. CodePoint(dr.codepoint) /\ dr.next = q + Len(spelling)
    BY <1>2, <1>3, <1>4, <1>6, Utf8Sound
  <2>2. r.c = dr.codepoint /\ r.next = dr.next
    BY <1>4 DEF ConvertedAt
  <2> HIDE DEF dr
  <2>3. PICK c \in Nat : c = dr.codepoint
    BY <2>1 DEF CodePoint
  <2>4. Len(spelling) \in 1 .. 4
    <3>1. Len(CodePointToUtf8(c)) \in 1 .. 4
      BY Utf8Bytes
    <3> QED
      BY <2>3, <3>1
  <2> HIDE DEF spelling
  <2>5. r.next \in Nat /\ q < r.next
    <3>1. PICK n \in 1 .. 4 : n = Len(spelling)
      BY <2>4
    <3>2. r.next = q + n
      BY <2>1, <2>2, <3>1
    <3> QED
      BY <1>2, <3>2
  <2>6. units \in Seq(Nat) /\ Len(units) \in Nat
    BY <2>2, <2>3, EncodedUnits
  <2> QED
    BY <1>1, <2>5, <2>6
<1>5. CASE dr.error # "ok"
  <2>1. r.c = Replacement /\ r.next = q + 1
    BY <1>5 DEF ConvertedAt
  <2>2. Replacement \in Nat
    BY DEF Replacement
  <2>3. units \in Seq(Nat) /\ Len(units) \in Nat
    BY <2>1, <2>2, EncodedUnits
  <2> QED
    BY <1>1, <1>2, <2>1, <2>3
<1> QED
  BY <1>4, <1>5

--------------------------------------------------------------------------------
(* The inductive invariant *)

(* The bytes that are written fit the buffer, or are those that were counted. *)
RoomFits ==
  IF 4 * Len(text) <= BufferSize
  THEN room = BufferSize /\ pos <= Len(text) + 1 /\ Len(lua) <= 4 * (pos - 1)
  ELSE \E total : Replayed(pos, Len(lua), total, Len(text), PushStep, PushSize) /\ total <= room

Counting ==
  /\ Pushing /\ AtStart(pos)
  /\ 4 * Len(text) > BufferSize
  /\ Tallied(pos, needed, Len(text), PushStep, PushSize)

IInv ==
  /\ kind \in Kinds \cup {"lua"} /\ target \in Targets /\ phase \in Phases
  /\ pos \in Nat /\ 1 <= pos /\ needed \in Nat /\ room \in Nat
  /\ lua \in Seq(0 .. 255) /\ read \in Seq(Nat)
  /\ phase = "push" => Pushing /\ needed = 0
  /\ phase \in {"push", "count"} => lua = <<>>
  /\ phase \notin {"copy", "done"} => read = <<>>
  /\ phase = "count" => Counting
  /\ phase = "write" => Pushing /\ AtStart(pos) /\ RoomFits
  /\ phase = "pushed" /\ kind # "lua" => Len(lua) <= room
  /\ phase = "get" => target \in Kinds /\ Tallied(pos, needed, Len(lua), ReadStep, ReadSize)
  /\ phase = "copy" => target \in Kinds /\ Replayed(pos, Len(read), room, Len(lua), ReadStep, ReadSize)
  /\ phase = "done" /\ target \in Kinds /\ lua # <<>> => Len(read) = room

LEMMA TextStarts ==
  ASSUME Corners = {}, Pushing
  PROVE  AtStart(1)
<1>1. text \in Seq(Nat) /\ Len(text) \in Nat /\ DOMAIN text = 1 .. Len(text)
  BY DEF Pushing
<1>2. ASSUME kind = "utf16", 1 <= Len(text) PROVE ~ IsTrailSurrogate(text[1])
  BY <1>1, <1>2 DEF Pushing, Pushable
<1> QED
  BY <1>2 DEF AtStart

LEMMA TextsTyped ==
  ASSUME NEW units, NEW n \in Nat, NEW s \in Texts(units, n)
  PROVE  s \in Seq(units) /\ Len(s) \in Nat /\ (\A i \in 1 .. Len(s) : s[i] \in units)
<1>1. PICK i \in 0 .. n : s \in [1 .. i -> units]
  BY DEF Texts
<1>2. s \in Seq(units) /\ i \in Nat
  BY <1>1
<1>3. Len(s) = i /\ \A j \in 1 .. i : s[j] \in units
  BY <1>1, <1>2
<1> QED
  BY <1>2, <1>3

(* The elements say what a sequence is one of. *)
LEMMA ElementsTyped ==
  ASSUME NEW S, NEW T, NEW s \in Seq(S), \A i \in 1 .. Len(s) : s[i] \in T
  PROVE  s \in Seq(T)
  OBVIOUS

LEMMA InitSound == Init => IInv
<1> SUFFICES ASSUME Init PROVE IInv
  OBVIOUS
<1>1. MaxLength \in Nat /\ MaxBytes \in Nat
  BY TextAssumption
<1>2. /\ kind \in Kinds \cup {"lua"} /\ target \in Targets
      /\ pos = 1 /\ needed = 0 /\ room = 0 /\ read = <<>>
      /\ phase = (IF kind = "lua" THEN "pushed" ELSE "push")
      /\ kind = "lua" => lua \in Texts(Bytes, MaxBytes)
      /\ kind # "lua" => lua = <<>>
      /\ kind = "utf16" => text \in Texts(Units16, MaxLength) /\ Pushable(text, kind)
      /\ kind = "utf32" => text \in Texts(Units32, MaxLength) /\ Pushable(text, kind)
  BY DEF Init, Kinds
<1>3. lua \in Seq(0 .. 255)
  <2>1. CASE kind = "lua"
    <3>1. PICK s \in Texts(Bytes, MaxBytes) : s = lua
      BY <1>2, <2>1
    <3>3. s \in Seq(Bytes) /\ \A i \in 1 .. Len(s) : s[i] \in Bytes
      BY <1>1, TextsTyped
    <3>4. ASSUME NEW i \in 1 .. Len(s) PROVE s[i] \in 0 .. 255
      <4>1. PICK b \in Bytes : b = s[i]
        BY <3>3
      <4>2. b \in 0 .. 255
        BY UnitsAssumption
      <4> QED
        BY <4>1, <4>2
    <3> DEFINE Byte == 0 .. 255
    <3>5. \A i \in 1 .. Len(s) : s[i] \in Byte
      BY <3>4
    <3> HIDE DEF Byte
    <3>6. s \in Seq(Byte)
      BY <3>3, <3>5, ElementsTyped
    <3>2. s \in Seq(0 .. 255)
      BY <3>6 DEF Byte
    <3> QED
      BY <3>1, <3>2
  <2>2. CASE kind # "lua"
    BY <1>2, <2>2
  <2> QED
    BY <2>1, <2>2
<1>4. ASSUME kind = "utf16" PROVE Pushing
  <2>3. PICK s \in Texts(Units16, MaxLength) : s = text
    BY <1>2, <1>4
  <2>4. s \in Seq(Units16) /\ \A i \in 1 .. Len(s) : s[i] \in Nat /\ s[i] <= \hFFFF
    BY <1>1, TextsTyped, UnitsAssumption
  <2>5. s \in Seq(Nat)
    BY <2>4, ElementsTyped
  <2> QED
    BY <1>2, <1>4, <2>3, <2>4, <2>5 DEF Pushing, Kinds
<1>5. ASSUME kind = "utf32" PROVE Pushing
  <2>2. PICK s \in Texts(Units32, MaxLength) : s = text
    BY <1>2, <1>5
  <2>4. s \in Seq(Units32) /\ \A i \in 1 .. Len(s) : s[i] \in Units32
    BY <1>1, TextsTyped
  <2>5. ASSUME NEW i \in 1 .. Len(s) PROVE s[i] \in Nat
    <3>1. PICK u \in Units32 : u = s[i]
      BY <2>4
    <3>2. u \in Nat
      BY UnitsAssumption
    <3> QED
      BY <3>1, <3>2
  <2>3. s \in Seq(Nat)
    BY <2>4, <2>5, ElementsTyped
  <2>1. text \in Seq(Nat)
    BY <2>2, <2>3
  <2> QED
    BY <1>2, <1>5, <2>1 DEF Pushing, Kinds
<1> QED
  BY <1>2, <1>3, <1>4, <1>5 DEF IInv, Kinds, Phases

LEMMA PushSound ==
  ASSUME Corners = {}, IInv, Push
  PROVE  IInv'
<1>1. /\ phase = "push" /\ pos' = 1 /\ Pushing /\ needed = 0 /\ lua = <<>> /\ read = <<>>
      /\ UNCHANGED <<text, kind, needed, lua, target, read>>
      /\ IF 4 * Len(text) <= BufferSize
         THEN phase' = "write" /\ room' = BufferSize ELSE phase' = "count" /\ room' = room
  BY DEF IInv, Push
<1>2. Pushing'
  BY <1>1 DEF Pushing
<1>3. AtStart(1)'
  BY <1>1, TextStarts DEF AtStart, Pushing
<1>4. Len(text) \in Nat /\ BufferSize \in Nat /\ Len(lua) = 0
  <2>1. text \in Seq(Nat) /\ BufferSize \in Nat
    BY <1>1, TextAssumption DEF Pushing
  <2> QED
    BY <1>1, <2>1
<1>5. CASE 4 * Len(text) <= BufferSize
  <2>1. RoomFits'
    BY <1>1, <1>4, <1>5 DEF RoomFits
  <2> QED
    BY <1>1, <1>2, <1>3, <1>4, <1>5, <2>1 DEF IInv, Phases
<1>6. CASE ~ (4 * Len(text) <= BufferSize)
  <2>2. Tallied(1, 0, Len(text'), PushStep', PushSize')
    BY TallyStarts
  <2>3. Counting'
    BY <1>1, <1>2, <1>3, <1>4, <1>6, <2>2 DEF Counting
  <2> QED
    BY <1>1, <1>2, <1>3, <1>6, <2>3 DEF IInv, Phases
<1> QED
  BY <1>5, <1>6

(* What a step of pushing leaves as it is. *)
LEMMA TextKept ==
  ASSUME UNCHANGED <<text, kind>>
  PROVE  PushStep' = PushStep /\ PushSize' = PushSize /\ (Pushing => Pushing')
  BY DEF PushStep, PushSize, PushedAt, Decode, Pushing

LEMMA LuaKept ==
  ASSUME UNCHANGED <<lua, target>>
  PROVE  ReadStep' = ReadStep /\ ReadSize' = ReadSize
  BY DEF ReadStep, ReadSize, ConvertedAt, Encode

LEMMA JoinedTyped ==
  ASSUME NEW S, NEW s \in Seq(S), NEW u \in Seq(S)
  PROVE  s \o u \in Seq(S) /\ Len(s \o u) = Len(s) + Len(u) /\ Len(s) \in Nat /\ Len(u) \in Nat
  OBVIOUS

LEMMA CountUnitSound ==
  ASSUME Corners = {}, IInv, CountUnit
  PROVE  IInv'
<1>1. PICK c \in Garbage :
        LET dr == Decode(text, pos, 0)
            cp == IF dr.codepoint = Unset THEN c ELSE dr.codepoint
        IN needed' = needed + Len(CodePointToUtf8(cp)) /\ pos' = dr.next
  BY DEF CountUnit, Beyond
<1>2. /\ phase = "count" /\ pos <= Len(text) /\ Counting /\ pos \in Nat /\ 1 <= pos /\ needed \in Nat
      /\ UNCHANGED <<text, kind, phase, room, lua, target, read>>
  BY DEF CountUnit, IInv
<1>3. /\ Pushing /\ AtStart(pos) /\ 4 * Len(text) > BufferSize /\ Len(text) \in Nat
      /\ Tallied(pos, needed, Len(text), PushStep, PushSize)
  BY <1>2 DEF Counting, Pushing
<1>4. PICK q \in 1 .. Len(text) : q = pos
  BY <1>2, <1>3
<1>5. PICK dr : dr = Decode(text, q, 0)
  OBVIOUS
<1>6. PICK encoded : encoded = PushedAt(q)
  OBVIOUS
<1>7. /\ dr.next \in Nat /\ q < dr.next /\ AtStart(dr.next)
      /\ Len(encoded) \in Nat /\ dr.next = PushStep[q] /\ Len(encoded) = PushSize[q]
      /\ dr.codepoint # Unset /\ CodePointToUtf8(dr.codepoint) = encoded
  BY <1>3, <1>4, <1>5, <1>6, PushUnit
<1>8. pos' = dr.next /\ needed' = needed + Len(encoded)
  BY <1>1, <1>4, <1>5, <1>7
<1>9. Tallied(dr.next, needed + Len(encoded), Len(text), PushStep, PushSize)
  BY <1>2, <1>3, <1>4, <1>7, TallyGoesOn
<1>10. Counting'
  <2>1. PushStep' = PushStep /\ PushSize' = PushSize /\ Pushing'
    BY <1>2, <1>3, TextKept
  <2>2. AtStart(pos)'
    BY <1>2, <1>7, <1>8 DEF AtStart
  <2> QED
    BY <1>2, <1>3, <1>8, <1>9, <2>1, <2>2 DEF Counting
<1>11. pos' \in Nat /\ 1 <= pos' /\ needed' \in Nat
  BY <1>2, <1>4, <1>7, <1>8
<1> QED
  BY <1>2, <1>10, <1>11 DEF IInv

LEMMA CountedSound ==
  ASSUME Corners = {}, IInv, Counted
  PROVE  IInv'
<1>1. /\ phase = "count" /\ pos > Len(text) /\ Counting /\ needed \in Nat /\ lua = <<>> /\ read = <<>>
      /\ phase' = "write" /\ room' = Room /\ pos' = 1
      /\ UNCHANGED <<text, kind, needed, lua, target, read>>
  BY DEF Counted, IInv
<1>2. /\ Pushing /\ 4 * Len(text) > BufferSize /\ Len(text) \in Nat
      /\ Tallied(pos, needed, Len(text), PushStep, PushSize)
  BY <1>1 DEF Counting, Pushing
<1>3. Replayed(1, 0, needed, Len(text), PushStep, PushSize)
  BY <1>1, <1>2, ReplayStarts
<1>4. BufferSize \in Nat
  BY TextAssumption
<1>5. Room \in Nat /\ needed <= Room
  BY <1>1, <1>4 DEF Room
<1>6. PushStep' = PushStep /\ PushSize' = PushSize /\ Pushing'
  BY <1>1, <1>2, TextKept
<1>7. AtStart(pos)'
  BY <1>1, <1>2, TextStarts DEF AtStart
<1>8. RoomFits'
  <2>1. ~ (4 * Len(text) <= BufferSize)
    BY <1>2, <1>4
  <2>2. Len(lua') = 0
    BY <1>1
  <2> QED
    BY <1>1, <1>3, <1>5, <1>6, <2>1, <2>2 DEF RoomFits
<1> QED
  BY <1>1, <1>5, <1>6, <1>7, <1>8 DEF IInv, Phases

LEMMA WriteUnitSound ==
  ASSUME Corners = {}, IInv, WriteUnit
  PROVE  IInv'
<1>1. lua' = lua \o PushedAt(pos) /\ pos' = Decode(text, pos, 0).next
  BY DEF WriteUnit, Beyond, PushedAt
<1>2. /\ phase = "write" /\ pos <= Len(text) /\ pos \in Nat /\ 1 <= pos
      /\ Pushing /\ AtStart(pos) /\ RoomFits /\ lua \in Seq(0 .. 255) /\ read = <<>> /\ room \in Nat
      /\ UNCHANGED <<text, kind, phase, needed, room, target, read>>
  BY DEF WriteUnit, IInv
<1>3. Len(text) \in Nat /\ BufferSize \in Nat
  BY <1>2, TextAssumption DEF Pushing
<1>4. PICK q \in 1 .. Len(text) : q = pos
  BY <1>2, <1>3
<1>5. PICK dr : dr = Decode(text, q, 0)
  OBVIOUS
<1>6. PICK encoded : encoded = PushedAt(q)
  OBVIOUS
<1>7. /\ dr.next \in Nat /\ q < dr.next /\ dr.next <= Len(text) + 1 /\ AtStart(dr.next)
      /\ encoded \in Seq(0 .. 255) /\ Len(encoded) \in Nat /\ Len(encoded) <= 4 * (dr.next - q)
      /\ dr.next = PushStep[q] /\ Len(encoded) = PushSize[q]
  BY <1>2, <1>4, <1>5, <1>6, PushUnit
<1>8. pos' = dr.next /\ lua' = lua \o encoded
  BY <1>1, <1>4, <1>5, <1>6
<1>9. lua' \in Seq(0 .. 255) /\ Len(lua') = Len(lua) + Len(encoded) /\ Len(lua) \in Nat
  <2> DEFINE Byte == 0 .. 255
  <2> HIDE DEF Byte
  <2>1. lua \in Seq(Byte) /\ encoded \in Seq(Byte)
    BY <1>2, <1>7 DEF Byte
  <2>2. PICK s \in Seq(Byte) : s = lua
    BY <2>1
  <2>3. s \o encoded \in Seq(Byte) /\ Len(s \o encoded) = Len(s) + Len(encoded) /\ Len(s) \in Nat
    BY <2>1, JoinedTyped
  <2> QED
    BY <1>8, <2>2, <2>3 DEF Byte
<1>10. PushStep' = PushStep /\ PushSize' = PushSize /\ Pushing'
  BY <1>2, TextKept
<1>11. AtStart(pos)'
  BY <1>2, <1>7, <1>8 DEF AtStart
<1>12. RoomFits'
  <2>1. CASE 4 * Len(text) <= BufferSize
    <3>1. room = BufferSize /\ Len(lua) <= 4 * (pos - 1)
      BY <1>2, <2>1 DEF RoomFits
    <3>2. Len(lua') <= 4 * (pos' - 1)
      BY <1>4, <1>7, <1>8, <1>9, <3>1
    <3> QED
      BY <1>2, <1>7, <1>8, <2>1, <3>1, <3>2 DEF RoomFits
  <2>2. CASE ~ (4 * Len(text) <= BufferSize)
    <3>1. PICK total : Replayed(pos, Len(lua), total, Len(text), PushStep, PushSize) /\ total <= room
      BY <1>2, <2>2 DEF RoomFits
    <3>2. Replayed(PushStep[q], Len(lua) + PushSize[q], total, Len(text), PushStep, PushSize)
      BY <1>3, <1>4, <3>1, ReplayGoesOn
    <3>3. Replayed(pos', Len(lua'), total, Len(text), PushStep, PushSize)
      BY <1>7, <1>8, <1>9, <3>2
    <3> QED
      BY <1>2, <1>10, <2>2, <3>1, <3>3 DEF RoomFits
  <2> QED
    BY <2>1, <2>2
<1>13. pos' \in Nat /\ 1 <= pos'
  BY <1>4, <1>7, <1>8
<1> QED
  BY <1>2, <1>9, <1>10, <1>11, <1>12, <1>13 DEF IInv

LEMMA PushedSound ==
  ASSUME Corners = {}, IInv, Pushed
  PROVE  IInv'
<1>1. /\ phase = "write" /\ pos > Len(text) /\ phase' = "pushed" /\ Pushing /\ RoomFits /\ pos \in Nat
      /\ UNCHANGED <<text, kind, pos, needed, room, lua, target, read>> /\ read = <<>>
      /\ lua \in Seq(0 .. 255) /\ room \in Nat
  BY DEF Pushed, IInv
<1>2. Len(text) \in Nat /\ BufferSize \in Nat
  BY <1>1, TextAssumption DEF Pushing
<1>3. Len(lua) <= room
  <2>1. CASE 4 * Len(text) <= BufferSize
    <3>1. room = BufferSize /\ pos <= Len(text) + 1 /\ Len(lua) <= 4 * (pos - 1)
      BY <1>1, <2>1 DEF RoomFits
    <3>2. pos - 1 = Len(text)
      BY <1>1, <1>2, <3>1
    <3>3. PICK n \in Nat : n = Len(lua)
      BY <1>1
    <3>4. n <= room
      BY <1>2, <2>1, <3>1, <3>2, <3>3
    <3> QED
      BY <3>3, <3>4
  <2>2. CASE ~ (4 * Len(text) <= BufferSize)
    <3>1. PICK total : Replayed(pos, Len(lua), total, Len(text), PushStep, PushSize) /\ total <= room
      BY <1>1, <2>2 DEF RoomFits
    <3>2. PICK end \in Nat : end = Len(text)
      BY <1>2
    <3>3. PICK written \in Nat : written = Len(lua)
      BY <1>1
    <3>4. Replayed(pos, written, total, end, PushStep, PushSize)
      BY <3>1, <3>2, <3>3
    <3>5. total \in Nat /\ written <= total
      BY <3>4, ReplayFits, Zenon
    <3> QED
      BY <1>1, <3>1, <3>3, <3>5
  <2> QED
    BY <2>1, <2>2
<1> QED
  BY <1>1, <1>3 DEF IInv, Phases

LEMMA GetSound ==
  ASSUME IInv, Get
  PROVE  IInv'
<1>1. /\ phase = "pushed" /\ target \in Kinds /\ pos' = 1 /\ needed' = 0
      /\ phase' = IF lua = <<>> THEN "done" ELSE "get"
      /\ UNCHANGED <<text, kind, room, lua, target, read>> /\ read = <<>>
  BY DEF Get, IInv
<1>2. Tallied(1, 0, Len(lua'), ReadStep', ReadSize')
  BY TallyStarts
<1>3. CASE lua = <<>>
  BY <1>1, <1>3 DEF IInv, Phases
<1>4. CASE lua # <<>>
  BY <1>1, <1>2, <1>4 DEF IInv, Phases
<1> QED
  BY <1>3, <1>4

LEMMA CountReadSound ==
  ASSUME IInv, CountRead
  PROVE  IInv'
<1>1. /\ phase = "get" /\ lua \in Seq(0 .. 255) /\ pos \in Nat /\ 1 <= pos /\ needed \in Nat
      /\ target \in Kinds /\ Tallied(pos, needed, Len(lua), ReadStep, ReadSize)
      /\ UNCHANGED <<text, kind, lua, target, read>> /\ read = <<>>
  BY DEF CountRead, IInv
<1>2. Len(lua) \in Nat
  BY <1>1
<1>3. ReadStep' = ReadStep /\ ReadSize' = ReadSize
  BY <1>1, LuaKept
<1>4. CASE pos <= Len(lua)
  <2>1. /\ needed' = needed + Len(Encode(Converted.c)) /\ pos' = Converted.next
        /\ UNCHANGED <<phase, room>>
    BY <1>4 DEF CountRead
  <2>2. PICK q \in 1 .. Len(lua) : q = pos
    BY <1>1, <1>2, <1>4
  <2>3. PICK r : r = ConvertedAt(q)
    OBVIOUS
  <2>4. PICK units : units = Encode(r.c)
    OBVIOUS
  <2>5. /\ r.next \in Nat /\ q < r.next /\ Len(units) \in Nat
        /\ r.next = ReadStep[q] /\ Len(units) = ReadSize[q]
    BY <1>1, <2>2, <2>3, <2>4, ReadUnit
  <2>6. pos' = r.next /\ needed' = needed + Len(units)
    BY <2>1, <2>2, <2>3, <2>4 DEF Converted, ConvertedAt
  <2>7. Tallied(r.next, needed + Len(units), Len(lua), ReadStep, ReadSize)
    BY <1>1, <1>2, <1>4, <2>2, <2>5, TallyGoesOn
  <2>8. pos' \in Nat /\ 1 <= pos' /\ needed' \in Nat
    BY <1>1, <2>2, <2>5, <2>6
  <2> QED
    BY <1>1, <1>3, <2>1, <2>6, <2>7, <2>8 DEF IInv
<1>5. CASE ~ (pos <= Len(lua))
  <2>1. phase' = "copy" /\ room' = needed /\ pos' = 1 /\ UNCHANGED needed
    BY <1>5 DEF CountRead
  <2>2. Replayed(1, 0, needed, Len(lua), ReadStep, ReadSize)
    BY <1>1, <1>2, <1>5, ReplayStarts
  <2>3. Len(read') = 0
    BY <1>1
  <2> QED
    BY <1>1, <1>3, <2>1, <2>2, <2>3 DEF IInv, Phases
<1> QED
  BY <1>4, <1>5

LEMMA CopyReadSound ==
  ASSUME IInv, CopyRead
  PROVE  IInv'
<1>1. /\ phase = "copy" /\ lua \in Seq(0 .. 255) /\ read \in Seq(Nat) /\ room \in Nat
      /\ target \in Kinds /\ Replayed(pos, Len(read), room, Len(lua), ReadStep, ReadSize)
      /\ UNCHANGED <<text, kind, needed, room, lua, target>>
  BY DEF CopyRead, IInv
<1>2. Len(lua) \in Nat /\ pos \in Nat /\ 1 <= pos /\ (pos > Len(lua) => Len(read) = room)
  <2>1. PICK end \in Nat : end = Len(lua)
    BY <1>1
  <2>2. PICK written \in Nat : written = Len(read)
    BY <1>1
  <2>3. Replayed(pos, written, room, end, ReadStep, ReadSize)
    BY <1>1, <2>1, <2>2
  <2>4. pos \in Nat /\ 1 <= pos /\ (pos > end => written = room)
    BY <2>3, ReplayFits, Zenon
  <2> QED
    BY <2>1, <2>2, <2>4
<1>3. ReadStep' = ReadStep /\ ReadSize' = ReadSize
  BY <1>1, LuaKept
<1>4. CASE pos <= Len(lua)
  <2>1. read' = read \o Encode(Converted.c) /\ pos' = Converted.next /\ UNCHANGED phase
    BY <1>4 DEF CopyRead
  <2>2. PICK q \in 1 .. Len(lua) : q = pos
    BY <1>2, <1>4
  <2>3. PICK r : r = ConvertedAt(q)
    OBVIOUS
  <2>4. PICK units : units = Encode(r.c)
    OBVIOUS
  <2>5. /\ r.next \in Nat /\ q < r.next /\ units \in Seq(Nat) /\ Len(units) \in Nat
        /\ r.next = ReadStep[q] /\ Len(units) = ReadSize[q]
    BY <1>1, <2>2, <2>3, <2>4, ReadUnit
  <2>6. pos' = r.next /\ read' = read \o units
    BY <2>1, <2>2, <2>3, <2>4 DEF Converted, ConvertedAt
  <2>7. PICK s \in Seq(Nat) : s = read
    BY <1>1
  <2>8. read' \in Seq(Nat) /\ Len(read') = Len(read) + Len(units)
    <3>1. PICK u \in Seq(Nat) : u = units
      BY <2>5
    <3>2. s \o u \in Seq(Nat) /\ Len(s \o u) = Len(s) + Len(u)
      BY JoinedTyped
    <3> QED
      BY <2>6, <2>7, <3>1, <3>2, Zenon
  <2>9. Replayed(ReadStep[q], Len(read) + ReadSize[q], room, Len(lua), ReadStep, ReadSize)
    BY <1>1, <1>2, <2>2, ReplayGoesOn
  <2>10. Replayed(pos', Len(read'), room, Len(lua), ReadStep, ReadSize)
    BY <2>5, <2>6, <2>8, <2>9
  <2>11. pos' \in Nat /\ 1 <= pos'
    BY <2>2, <2>5, <2>6
  <2> QED
    BY <1>1, <1>3, <2>1, <2>8, <2>10, <2>11 DEF IInv
<1>5. CASE ~ (pos <= Len(lua))
  <2>1. phase' = "done" /\ UNCHANGED <<pos, read>>
    BY <1>5 DEF CopyRead
  <2>2. Len(read) = room
    BY <1>2, <1>5
  <2> QED
    BY <1>1, <2>1, <2>2 DEF IInv, Phases
<1> QED
  BY <1>4, <1>5

LEMMA GetCharSound ==
  ASSUME IInv, GetChar
  PROVE  IInv'
<1> DEFINE dr == Utf8ToCodePoint(lua, 1, 0)
<1>1. /\ phase = "pushed" /\ target \in {"char16", "char32"} /\ lua \in Seq(0 .. 255)
      /\ read' = <<Encode(PushedPoint(dr))[1]>> /\ phase' = "done"
      /\ UNCHANGED <<text, kind, pos, needed, room, lua, target>>
  BY DEF GetChar, IInv
<1>2. PushedPoint(dr) \in Nat
  <2>1. CASE dr.error # "ok"
    BY <2>1 DEF PushedPoint, Replacement
  <2>2. CASE dr.error = "ok"
    <3>1. Len(lua) \in Nat
      BY <1>1
    <3>2. 1 <= Len(lua)
      <4>1. ASSUME 1 > Len(lua) PROVE dr = DecodeError("sequence_too_short", 1)
        BY <3>1, <4>1 DEF Utf8ToCodePoint
      <4> QED
        BY <2>2, <3>1, <4>1 DEF DecodeError
    <3>3. 1 \in 1 .. Len(lua) /\ 0 \in Int /\ ~ IsContinuation(0)
      BY <3>1, <3>2 DEF IsContinuation
    <3>4. \A i \in 1 .. Len(lua) : lua[i] \in 0 .. 255
      <4> DEFINE Byte == 0 .. 255
      <4>1. lua \in Seq(Byte)
        BY <1>1
      <4> HIDE DEF Byte
      <4>2. \A i \in 1 .. Len(lua) : lua[i] \in Byte
        BY <4>1, ElementOfSeq
      <4> QED
        BY <4>2 DEF Byte
    <3>5. CodePoint(dr.codepoint)
      BY <2>2, <3>1, <3>3, <3>4, Utf8Sound
    <3> QED
      BY <2>2, <3>5 DEF PushedPoint, CodePoint
  <2> QED
    BY <2>1, <2>2
<1> HIDE DEF dr
<1>3. PICK c \in Nat : c = PushedPoint(dr)
  BY <1>2
<1>4. Encode(c)[1] \in Nat
  BY FirstUnit
<1>5. read' \in Seq(Nat)
  <2>1. PICK u \in Nat : u = Encode(c)[1]
    BY <1>4
  <2>2. read' = <<u>>
    BY <1>1, <1>3, <2>1
  <2> QED
    BY <2>2
<1>6. target \notin Kinds
  BY <1>1 DEF Kinds
<1> QED
  BY <1>1, <1>5, <1>6 DEF IInv, Phases

LEMMA FinishedSound ==
  ASSUME IInv, UNCHANGED vars
  PROVE  IInv'
<1>1. UNCHANGED <<text, kind, phase, pos, needed, room, lua, target, read>>
  BY DEF vars
<1>2. /\ PushStep' = PushStep /\ PushSize' = PushSize /\ (Pushing => Pushing')
      /\ ReadStep' = ReadStep /\ ReadSize' = ReadSize
  BY <1>1, TextKept, LuaKept
<1>3. (AtStart(pos) => AtStart(pos)') /\ (RoomFits => RoomFits')
  BY <1>1, <1>2 DEF AtStart, RoomFits
<1>4. Counting => Counting'
  BY <1>1, <1>2, <1>3 DEF Counting
<1> QED
  BY <1>1, <1>2, <1>3, <1>4 DEF IInv

LEMMA NextSound ==
  ASSUME Corners = {}
  PROVE  IInv /\ [Next]_vars => IInv'
<1> SUFFICES ASSUME IInv, [Next]_vars PROVE IInv'
  OBVIOUS
<1> QED
  BY PushSound, CountUnitSound, CountedSound, WriteUnitSound, PushedSound,
     GetSound, CountReadSound, CopyReadSound, GetCharSound, FinishedSound
  DEF Next, Finished

LEMMA RoomEnough == IInv => WithinRoom
<1> SUFFICES ASSUME IInv PROVE WithinRoom
  OBVIOUS
<1>1. ASSUME phase = "write" PROVE Len(lua) <= room
  <2>1. Pushing /\ RoomFits /\ pos \in Nat /\ lua \in Seq(0 .. 255) /\ room \in Nat
    BY <1>1 DEF IInv
  <2>2. Len(text) \in Nat /\ BufferSize \in Nat /\ Len(lua) \in Nat
    BY <2>1, TextAssumption DEF Pushing
  <2>3. CASE 4 * Len(text) <= BufferSize
    <3>1. room = BufferSize /\ pos <= Len(text) + 1 /\ Len(lua) <= 4 * (pos - 1)
      BY <2>1, <2>3 DEF RoomFits
    <3> QED
      BY <2>1, <2>2, <2>3, <3>1
  <2>4. CASE ~ (4 * Len(text) <= BufferSize)
    <3>1. PICK total : Replayed(pos, Len(lua), total, Len(text), PushStep, PushSize) /\ total <= room
      BY <2>1, <2>4 DEF RoomFits
    <3>2. PICK end \in Nat : end = Len(text)
      BY <2>2
    <3>3. PICK written \in Nat : written = Len(lua)
      BY <2>2
    <3>4. Replayed(pos, written, total, end, PushStep, PushSize)
      BY <3>1, <3>2, <3>3
    <3>5. total \in Nat /\ written <= total
      BY <3>4, ReplayFits, Zenon
    <3> QED
      BY <2>1, <3>1, <3>3, <3>5
  <2> QED
    BY <2>3, <2>4
<1>2. ASSUME phase = "copy" PROVE Len(read) <= room
  <2>1. PICK end \in Nat : end = Len(lua)
    BY DEF IInv
  <2>2. PICK written \in Nat : written = Len(read)
    BY DEF IInv
  <2>3. Replayed(pos, written, room, end, ReadStep, ReadSize)
    BY <1>2, <2>1, <2>2 DEF IInv
  <2>4. written <= room
    BY <2>3, ReplayFits, Zenon
  <2> QED
    BY <2>2, <2>4
<1> QED
  BY <1>1, <1>2 DEF IInv, WithinRoom

(* What count and convert_into of unqualified_pusher find in one pass over a *)
(* UTF-16 or UTF-32 string is the room the other needs, and what get_into    *)
(* counts in a Lua string, whatever bytes it is made of, is what it copies,  *)
(* to the last unit: neither conversion writes behind its buffer or leaves a *)
(* unit unwritten.  For texts of every length, every size of the buffer on   *)
(* the stack and every code unit.                                            *)
THEOREM NothingPastItsRoom ==
  ASSUME Corners = {}
  PROVE  Spec => []WithinRoom
<1>1. Init => IInv
  BY InitSound
<1>2. IInv /\ [Next]_vars => IInv'
  BY NextSound
<1>3. IInv => WithinRoom
  BY RoomEnough
<1> QED
  BY <1>1, <1>2, <1>3, PTL DEF Spec

--------------------------------------------------------------------------------
(* Induction over the parameters of a list *)

LEMMA LeastOf ==
  ASSUME NEW S, S \subseteq Nat, S # {}
  PROVE  \E x \in S : \A y \in S : x <= y
<1> DEFINE R == {ss \in Nat \X Nat : ss[1] < ss[2]}
<1>1. IsWellFoundedOn(R, Nat)
  BY NatLessThanWellFounded DEF OpToRel
<1> HIDE DEF R
<1>2. PICK x \in S : \A y \in S : ~ (<<y, x>> \in R)
  BY <1>1, WFMin
<1>3. ASSUME NEW y \in S PROVE x <= y
  <2>1. ~ (<<y, x>> \in R) /\ x \in Nat /\ y \in Nat
    BY <1>2
  <2> QED
    BY <2>1 DEF R
<1> QED
  BY <1>2, <1>3

(* What holds of 0 and is kept from each number to the next holds of all. *)
LEMMA Steps ==
  ASSUME NEW N \in Nat, NEW P, 0 \in P, \A n \in 1 .. N : n - 1 \in P => n \in P
  PROVE  \A n \in 0 .. N : n \in P
<1> DEFINE Bad == {n \in 0 .. N : n \notin P}
<1>1. ASSUME Bad # {} PROVE FALSE
  <2>1. Bad \subseteq Nat
    OBVIOUS
  <2>2. PICK n \in Bad : \A k \in Bad : n <= k
    <3> HIDE DEF Bad
    <3> QED
      BY <1>1, <2>1, LeastOf
  <2> QED
    BY <2>2
<1> QED
  BY <1>1

--------------------------------------------------------------------------------
(* Parameters: what they take, how much, and what the walks do with one *)

LEMMA ParameterForms ==
  ASSUME NEW p \in Parameters
  PROVE  \/ p.name \in SimpleTypes
         \/ p.name = "optional" /\ p.of[1] \in InnerTypes
         \/ p.name \in {"pair", "variant"} /\ p.of[1] \in InnerTypes /\ p.of[2] \in InnerTypes
  BY DEF Parameters, Plain, Optional, Pair, Variant

LEMMA WidthIs ==
  ASSUME NEW p \in Parameters
  PROVE  /\ Width(p) \in {0, 1, 2}
         /\ p.name = "pair" <=> Width(p) = 2
         /\ p.name \in Transparent <=> Width(p) = 0
  BY ParameterForms DEF Width, SimpleTypes, Transparent, References

(* How many arguments the first m parameters stand for. *)
Widths(sig) ==
  LET sum[n \in 0 .. Len(sig)] == IF n = 0 THEN 0 ELSE sum[n - 1] + Width(sig[n])
  IN  sum

LEMMA ArityGoes ==
  ASSUME NEW sig, Len(sig) \in Nat
  PROVE  /\ ArityOfFirst(sig, 0) = 0
         /\ \A n \in 1 .. Len(sig) : ArityOfFirst(sig, n) = ArityOfFirst(sig, n - 1) + Width(sig[n])
<1> DEFINE Is(f, m) == f = [n \in 0 .. m |-> IF n = 0 THEN 0 ELSE f[n - 1] + Width(sig[n])]
           P == {m \in Nat : \E f : Is(f, m)}
<1>1. 0 \in P
  <2>1. Is([n \in 0 .. 0 |-> 0], 0)
    OBVIOUS
  <2> QED
    BY <2>1
<1>2. ASSUME NEW m \in 1 .. Len(sig), m - 1 \in P PROVE m \in P
  <2>1. PICK g : Is(g, m - 1)
    BY <1>2
  <2> DEFINE more == [n \in 0 .. m |-> IF n = m THEN g[m - 1] + Width(sig[m]) ELSE g[n]]
  <2>2. \A n \in 0 .. m - 1 : g[n] = IF n = 0 THEN 0 ELSE g[n - 1] + Width(sig[n])
    BY <2>1
  <2>3. \A n \in 0 .. m : more[n] = IF n = 0 THEN 0 ELSE more[n - 1] + Width(sig[n])
    BY <2>2
  <2>4. Is(more, m)
    BY <2>3
  <2> HIDE DEF more
  <2> QED
    BY <2>4
<1>3. Len(sig) \in P
  <2> HIDE DEF P
  <2>1. \A m \in 0 .. Len(sig) : m \in P
    BY <1>1, <1>2, Steps, Zenon
  <2> QED
    BY <2>1
<1>4. Is(Widths(sig), Len(sig))
  BY <1>3, Zenon DEF Widths
<1>5. PICK A : A = Widths(sig)
  OBVIOUS
<1>6. \A m \in 0 .. Len(sig) : ArityOfFirst(sig, m) = A[m]
  BY <1>5 DEF ArityOfFirst, Widths
<1>7. A = [n \in 0 .. Len(sig) |-> IF n = 0 THEN 0 ELSE A[n - 1] + Width(sig[n])]
  BY <1>4, <1>5
<1>8. A[0] = 0 /\ \A n \in 1 .. Len(sig) : A[n] = A[n - 1] + Width(sig[n])
  BY <1>7
<1> QED
  BY <1>6, <1>8

LEMMA ArityIs ==
  ASSUME NEW sig \in Seq(Parameters)
  PROVE  \A n \in 0 .. Len(sig) : ArityOfFirst(sig, n) \in Nat
<1> DEFINE P == {m \in Nat : ArityOfFirst(sig, m) \in Nat}
<1>1. 0 \in P
  BY ArityGoes
<1>2. ASSUME NEW m \in 1 .. Len(sig), m - 1 \in P PROVE m \in P
  <2>1. Width(sig[m]) \in Nat
    BY WidthIs
  <2> QED
    BY <2>1, <1>2, ArityGoes
<1>3. \A m \in 0 .. Len(sig) : m \in P
  <2>1. Len(sig) \in Nat
    OBVIOUS
  <2> HIDE DEF P
  <2> QED
    BY <2>1, <1>1, <1>2, Steps, Zenon
<1> QED
  BY <1>3

--------------------------------------------------------------------------------
(* Slots and arguments *)

(* The arguments of c as a walk finds them, above k values. *)
Slots(c, k, s) ==
  /\ c.args \in Seq(ArgumentKinds) /\ k \in {0, 1}
  /\ \A i \in 1 .. Len(c.args) : c.args[i] # "bare"
  /\ Len(s) = Len(c.args) + k /\ DOMAIN s = 1 .. Len(s)
  /\ \A i \in 1 .. Len(c.args) : s[i + k] = Entry(c.args[i], i)

(* A walk at slot i is where n arguments are taken, or beyond them all. *)
Aligned(c, k, i, n) ==
  /\ i \in Nat /\ n \in Nat /\ i > k
  /\ i = n + 1 + k \/ (i > Len(c.args) + k /\ n >= Len(c.args))

Number(c, i) == IF i \in DOMAIN c.args THEN i ELSE -1

LEMMA SlotSeen ==
  ASSUME NEW c, NEW k, NEW s, NEW i, NEW n, Slots(c, k, s), Aligned(c, k, i, n)
  PROVE  /\ KindAt(s, i) = ArgAt(c, n + 1) /\ FromAt(s, i) = Number(c, n + 1)
         /\ KindAt(s, i) # "bare"
         /\ KindAt(s, i) = "none" \/ KindAt(s, i) \in ArgumentKinds
         /\ Aligned(c, k, i + 1, n + 1)
         /\ KindAt(s, i) = "none" => Aligned(c, k, i, n + 1)
<1>1. k \in Nat /\ Len(c.args) \in Nat /\ DOMAIN c.args = 1 .. Len(c.args)
  BY DEF Slots
<1>2. CASE i \in 1 .. Len(s)
  <2>1. i = n + 1 + k /\ n + 1 \in 1 .. Len(c.args)
    BY <1>1, <1>2 DEF Slots, Aligned
  <2>2. s[i] = Entry(c.args[n + 1], n + 1)
    BY <2>1, <1>1 DEF Slots
  <2>3. c.args[n + 1] \in ArgumentKinds /\ c.args[n + 1] # "bare" /\ c.args[n + 1] # "none"
    BY <2>1, <1>1 DEF Slots, ArgumentKinds, UserdataKinds, ClassKinds, TableKinds
  <2>4. KindAt(s, i) = c.args[n + 1] /\ FromAt(s, i) = n + 1
    BY <2>2, <1>2 DEF KindAt, FromAt, Entry, Slots
  <2>5. n + 1 \in DOMAIN c.args
    BY <2>1, <1>1
  <2>6. ArgAt(c, n + 1) = c.args[n + 1] /\ Number(c, n + 1) = n + 1
    BY <2>5, Zenon DEF ArgAt, Number
  <2>7. Aligned(c, k, i + 1, n + 1)
    BY <2>1, <1>1 DEF Aligned
  <2> QED
    BY ONLY <2>3, <2>4, <2>6, <2>7, Zenon
<1>3. CASE i \notin 1 .. Len(s)
  <2>1. i > Len(c.args) + k /\ n >= Len(c.args)
    BY <1>1, <1>3 DEF Slots, Aligned
  <2>2. KindAt(s, i) = "none" /\ FromAt(s, i) = -1
    BY <1>3 DEF Slots, KindAt, FromAt
  <2> QED
    BY <2>1, <2>2, <1>1 DEF ArgAt, Number, Aligned
<1> QED
  BY <1>2, <1>3

--------------------------------------------------------------------------------
(* Checking one parameter *)

LEMMA ShareIs ==
  ASSUME NEW name \in SimpleTypes \ {"stream"}, NEW found
  PROVE  /\ Share(name, found) \in {0, 1}
         /\ name \in Transparent => Share(name, found) = 0
         /\ name \notin Transparent /\ found \in Accepts(name) => Share(name, found) = 1 \/ found = "none"
<1>1. name = "nil" => Accepts(name) = {"nil", "none"} /\ name \notin Transparent
  BY DEF Accepts, Transparent, References
<1>2. CASE name = "nil"
  BY <1>1, <1>2 DEF Share
<1>3. CASE name # "nil"
  BY <1>3 DEF Share, Transparent
<1> QED
  BY <1>2, <1>3

(* A walk that used u slots and left nothing on the stack. *)
Stands(w, u) == u \in Nat /\ w.used = u /\ w.left = << >>

LEMMA WalkedStands ==
  ASSUME NEW ok, NEW u \in Nat, NEW used, used = u, NEW left, left = << >>, NEW silent
  PROVE  Stands(Walked(ok, used, left, silent), u)
  BY Zenon DEF Walked, Stands

LEMMA WalkedOn ==
  ASSUME NEW w, NEW used, NEW left, NEW v, v = Walked(w.ok, used, left, w.silent)
  PROVE  v.ok = w.ok /\ v.silent = w.silent
  BY Zenon DEF Walked

LEMMA WalkedQuietly ==
  ASSUME NEW w, NEW used, NEW left, NEW v, v = Walked(w.ok, used, left, ~w.ok)
  PROVE  v.ok = w.ok /\ (v.silent <=> ~w.ok)
<1>1. v.ok = w.ok
  BY Zenon DEF Walked
<1>2. v.silent <=> ~w.ok
  BY Zenon DEF Walked
<1> QED
  BY <1>1, <1>2

LEMMA WalkedAstray ==
  ASSUME NEW w, NEW used, NEW left, NEW v, v = Walked(FALSE, used, left, w.silent)
  PROVE  ~v.ok /\ v.silent = w.silent
  BY Zenon DEF Walked

LEMMA OneFinds ==
  ASSUME NEW w, NEW name, NEW s, NEW i, NEW v, v = CheckOne(w, name, s, i)
  PROVE  /\ v.ok <=> KindAt(s, i) \in Accepts(name)
         /\ v.silent = w.silent
  BY Zenon DEF CheckOne, Walked

LEMMA OneUses ==
  ASSUME NEW w, NEW u, Stands(w, u), NEW name \in SimpleTypes \ {"stream"},
         NEW s, NEW i, NEW v, v = CheckOne(w, name, s, i)
  PROVE  Stands(v, u + Share(name, KindAt(s, i)))
<1>1. v.used = w.used + Share(name, KindAt(s, i)) /\ v.left = w.left \o Leftover(name, KindAt(s, i))
  BY Zenon DEF CheckOne, Walked
<1>2. Leftover(name, KindAt(s, i)) = << >>
  BY DEF Leftover
<1>3. Share(name, KindAt(s, i)) \in Nat
  BY ShareIs
<1> QED
  BY <1>1, <1>2, <1>3 DEF Stands

LEMMA TransparentTakes ==
  ASSUME NEW name \in Transparent
  PROVE  Accepts(name) = ArgumentKinds \cup {"none"}
<1>1. Accepts(name) = CASE name \in Transparent -> ArgumentKinds \cup {"none"}
                        [] name \in References -> AcceptsReference(name)
                        [] name = "bool" -> {"bool"}
                        [] name = "integer" -> {"int"}
                        [] name = "number" -> {"int", "frac"}
                        [] name = "string" -> {"str"}
                        [] name = "nil" -> {"nil", "none"}
                        [] name = "stream" -> {}
                        [] OTHER -> AcceptsObject(name)
  BY Zenon DEF Accepts
<1>2. /\ name \notin References
      /\ name \notin {"bool", "integer", "number", "string", "nil", "stream"}
  BY DEF Transparent, References
<1> QED
  BY <1>1, <1>2

(* The check of a type at slot i gave v: it uses a slot, unless there is none. *)
Sees(c, k, i, n, u, name, w, v) ==
  \E m \in {0, 1} :
    /\ Stands(v, u + m)
    /\ v.silent = w.silent
    /\ v.ok <=> ArgAt(c, n + 1) \in Promises(name)
    /\ name \in Transparent => m = 0 /\ v.ok
    /\ v.ok /\ name \notin Transparent => Aligned(c, k, i + m, n + 1)

(* The check of a type at a slot takes what the type promises to take. *)
LEMMA SimpleChecked ==
  ASSUME NEW c, NEW k, NEW s, NEW i, NEW n, Slots(c, k, s), Aligned(c, k, i, n),
         NEW name \in SimpleTypes \ {"stream"}, NEW w, NEW u, Stands(w, u),
         NEW v, v = CheckOne(w, name, s, i)
  PROVE  Sees(c, k, i, n, u, name, w, v)
<1>1. PICK found : found = KindAt(s, i)
  OBVIOUS
<1>2. (v.ok <=> found \in Accepts(name)) /\ v.silent = w.silent
  BY <1>1, OneFinds
<1>3. PICK m \in {0, 1} : m = Share(name, found)
  BY ShareIs
<1>4. Stands(v, u + m)
  BY <1>1, <1>3, OneUses
<1>5. /\ found = ArgAt(c, n + 1) /\ found # "bare" /\ (found = "none" \/ found \in ArgumentKinds)
      /\ Aligned(c, k, i + 1, n + 1) /\ (found = "none" => Aligned(c, k, i, n + 1))
  BY <1>1, SlotSeen
<1>6. v.ok <=> ArgAt(c, n + 1) \in Promises(name)
  BY <1>2, <1>5 DEF Promises
<1>7. name \in Transparent => m = 0 /\ v.ok
  BY <1>2, <1>3, <1>5, ShareIs, TransparentTakes
<1>8. v.ok /\ name \notin Transparent => Aligned(c, k, i + m, n + 1)
  <2>1. SUFFICES ASSUME v.ok, name \notin Transparent PROVE Aligned(c, k, i + m, n + 1)
    OBVIOUS
  <2>2. m = 1 \/ (m = 0 /\ found = "none")
    BY <1>2, <1>3, <2>1, ShareIs
  <2>3. i + 0 = i
    BY DEF Aligned
  <2> QED
    BY <2>2, <2>3, <1>5
<1> QED
  BY <1>2, <1>4, <1>6, <1>7, <1>8 DEF Sees

(* What parameter p takes when n arguments are taken before it. *)
TakesAt(p, c, n) == Takes(p, <<ArgAt(c, n + 1), ArgAt(c, n + 2)>>)

(* A walk that has found no fault yet. *)
Faultless(w, u) == w.ok /\ ~w.silent /\ Stands(w, u)

(* After u slots one parameter was checked, which gave v: it is taken if the   *)
(* arguments are its own, and what it uses is no more than its width.          *)
Checks(c, k, p, i, n, u, v) ==
  \E m \in 0 .. Width(p) :
    /\ Stands(v, u + m)
    /\ v.ok <=> TakesAt(p, c, n)
    /\ v.ok => Aligned(c, k, i + m, n + Width(p))
    /\ v.silent => ~v.ok /\ p.name = "optional"

LEMMA PlainChecked ==
  ASSUME NEW c, NEW k, NEW s, NEW i, NEW n, Slots(c, k, s), Aligned(c, k, i, n),
         NEW p \in Parameters, p.name \in SimpleTypes \ {"stream"},
         NEW w, NEW u, Faultless(w, u), NEW v, v = CheckParameter(w, p, s, i)
  PROVE  Checks(c, k, p, i, n, u, v)
<1>1. p.name \notin {"optional", "pair", "variant"}
  BY DEF SimpleTypes, Transparent, References
<1>2. v = CheckOne(w, p.name, s, i)
  BY <1>1 DEF CheckParameter
<1>3. Stands(w, u) /\ ~w.silent
  BY DEF Faultless
<1>4. PICK m \in {0, 1} :
        /\ Stands(v, u + m) /\ v.silent = w.silent
        /\ v.ok <=> ArgAt(c, n + 1) \in Promises(p.name)
        /\ p.name \in Transparent => m = 0 /\ v.ok
        /\ v.ok /\ p.name \notin Transparent => Aligned(c, k, i + m, n + 1)
  <2>1. Sees(c, k, i, n, u, p.name, w, v)
    BY <1>2, <1>3, SimpleChecked
  <2> QED
    BY <2>1 DEF Sees
<1>5. TakesAt(p, c, n) <=> p.name \in Transparent \/ ArgAt(c, n + 1) \in Promises(p.name)
  BY <1>1 DEF TakesAt, Takes
<1>6. Width(p) = IF p.name \in Transparent THEN 0 ELSE 1
  BY <1>1 DEF Width
<1>7. i + 0 = i /\ n + 0 = n
  BY DEF Aligned
<1> QED
  BY <1>3, <1>4, <1>5, <1>6, <1>7 DEF Checks

LEMMA OptionalChecked ==
  ASSUME NEW c, NEW k, NEW s, NEW i, NEW n, Slots(c, k, s), Aligned(c, k, i, n),
         NEW p \in Parameters, p.name = "optional", p.of[1] \in InnerTypes,
         NEW w, NEW u, Faultless(w, u), NEW v, v = CheckParameter(w, p, s, i)
  PROVE  Checks(c, k, p, i, n, u, v)
<1>1. v = CheckOptional(w, p.of[1], s, i)
  BY DEF CheckParameter
<1>2. Width(p) = 1
  BY DEF Width, Transparent
<1>3. TakesAt(p, c, n) <=> ArgAt(c, n + 1) \in Promises(p.of[1]) \cup {"nil", "none"}
  BY DEF TakesAt, Takes, Transparent
<1>4. PICK found : found = KindAt(s, i)
  OBVIOUS
<1>5. /\ found = ArgAt(c, n + 1) /\ Aligned(c, k, i + 1, n + 1)
      /\ found = "none" => Aligned(c, k, i, n + 1)
  BY <1>4, SlotSeen
<1>6. Stands(w, u) /\ ~w.silent /\ w.ok
  BY DEF Faultless
<1>7. i + 0 = i /\ u + 0 = u /\ u \in Nat
  BY <1>6 DEF Aligned, Stands
<1>8. CASE found = "none"
  <2>1. v = w
    BY <1>1, <1>4, <1>8 DEF CheckOptional
  <2> QED
    BY <2>1, <1>2, <1>3, <1>5, <1>6, <1>7, <1>8 DEF Checks
<1>9. CASE found = "nil"
  <2>1. v = Walked(w.ok, w.used + 1, w.left, w.silent)
    BY <1>1, <1>4, <1>9 DEF CheckOptional
  <2>2. v.ok = w.ok /\ v.silent = w.silent
    <3>1. PICK used, left : used = w.used + 1 /\ left = w.left
      OBVIOUS
    <3>2. v = Walked(w.ok, used, left, w.silent)
      BY <2>1, <3>1, Zenon
    <3> QED
      BY <3>2, WalkedOn, SMT
  <2>3. Stands(v, u + 1)
    <3>1. u + 1 \in Nat /\ w.used + 1 = u + 1 /\ w.left = << >>
      BY <1>6 DEF Stands
    <3> QED
      BY <3>1, <2>1, WalkedStands, Zenon
  <2> QED
    BY <2>2, <2>3, <1>2, <1>3, <1>5, <1>6, <1>9 DEF Checks
<1>10. CASE found \notin {"nil", "none"}
  <2>1. p.of[1] \in SimpleTypes \ {"stream"} /\ p.of[1] \notin Transparent
    BY DEF InnerTypes
  <2>2. PICK x : x = CheckOne(w, p.of[1], s, i)
    OBVIOUS
  <2>3. PICK m \in {0, 1} :
          /\ Stands(x, u + m)
          /\ x.ok <=> ArgAt(c, n + 1) \in Promises(p.of[1])
          /\ x.ok => Aligned(c, k, i + m, n + 1)
    <3>1. Sees(c, k, i, n, u, p.of[1], w, x)
      BY <2>1, <2>2, <1>6, SimpleChecked
    <3> QED
      BY <2>1, <3>1 DEF Sees
  <2>4. v = Walked(x.ok, x.used, x.left, ~x.ok)
    BY <1>1, <1>4, <1>10, <2>2 DEF CheckOptional
  <2>5. v.ok = x.ok /\ (v.silent <=> ~x.ok)
    BY <2>4, WalkedQuietly, SMT
  <2>6. Stands(v, u + m)
    <3>1. u + m \in Nat /\ x.used = u + m /\ x.left = << >>
      BY <2>3 DEF Stands
    <3> QED
      BY <3>1, <2>4, WalkedStands
  <2> QED
    BY <2>3, <2>5, <2>6, <1>2, <1>3, <1>5, <1>10 DEF Checks
<1> QED
  BY <1>8, <1>9, <1>10

LEMMA PairChecked ==
  ASSUME NEW c, NEW k, NEW s, NEW i, NEW n, Slots(c, k, s), Aligned(c, k, i, n),
         NEW p \in Parameters, p.name = "pair", p.of[1] \in InnerTypes, p.of[2] \in InnerTypes,
         NEW w, NEW u, u = 0, Faultless(w, u), NEW v, v = CheckParameter(w, p, s, i)
  PROVE  Checks(c, k, p, i, n, u, v)
<1>1. Width(p) = 2
  BY DEF Width, Transparent
<1>2. TakesAt(p, c, n) <=> ArgAt(c, n + 1) \in Promises(p.of[1]) /\ ArgAt(c, n + 2) \in Promises(p.of[2])
  BY DEF TakesAt, Takes, Transparent
<1>3. /\ p.of[1] \in SimpleTypes \ {"stream"} /\ p.of[1] \notin Transparent
      /\ p.of[2] \in SimpleTypes \ {"stream"} /\ p.of[2] \notin Transparent
  BY DEF InnerTypes
<1>4. Stands(w, u) /\ ~w.silent
  BY DEF Faultless
<1>5. i \in Nat /\ n \in Nat /\ i + w.used = i
  BY <1>4 DEF Stands, Aligned
<1>6. PICK x : x = CheckOne(w, p.of[1], s, i)
  OBVIOUS
<1>7. v = IF x.ok THEN CheckOne(x, p.of[2], s, i + x.used) ELSE x
  BY <1>5, <1>6, Zenon DEF CheckParameter, CheckPair
<1>8. PICK m \in {0, 1} :
        /\ Stands(x, u + m) /\ x.silent = w.silent
        /\ x.ok <=> ArgAt(c, n + 1) \in Promises(p.of[1])
        /\ x.ok => Aligned(c, k, i + m, n + 1)
  <2>1. Sees(c, k, i, n, u, p.of[1], w, x)
    BY <1>3, <1>4, <1>6, SimpleChecked
  <2> QED
    BY <2>1, <1>3 DEF Sees
<1>9. CASE ~x.ok
  BY <1>1, <1>2, <1>4, <1>7, <1>8, <1>9 DEF Checks
<1>10. CASE x.ok
  <2>1. x.used = m
    BY <1>8 DEF Stands
  <2>2. v = CheckOne(x, p.of[2], s, i + m)
    BY <1>7, <1>10, <2>1
  <2>3. Aligned(c, k, i + m, n + 1) /\ Stands(x, u + m)
    BY <1>8, <1>10
  <2>4. PICK l \in {0, 1} :
          /\ Stands(v, u + m + l) /\ v.silent = x.silent
          /\ v.ok <=> ArgAt(c, n + 1 + 1) \in Promises(p.of[2])
          /\ v.ok => Aligned(c, k, i + m + l, n + 1 + 1)
    <3>1. Sees(c, k, i + m, n + 1, u + m, p.of[2], x, v)
      BY <2>2, <2>3, <1>3, SimpleChecked
    <3> QED
      BY <3>1, <1>3 DEF Sees
  <2>5. /\ i + m + l = i + (m + l) /\ n + 1 + 1 = n + 2 /\ m + l \in 0 .. 2
        /\ u + m + l = u + (m + l)
    BY <1>5
  <2> QED
    BY <2>4, <2>5, <1>1, <1>2, <1>4, <1>8, <1>10 DEF Checks
<1> QED
  BY <1>9, <1>10

LEMMA VariantChecked ==
  ASSUME NEW c, NEW k, NEW s, NEW i, NEW n, Slots(c, k, s), Aligned(c, k, i, n),
         NEW p \in Parameters, p.name = "variant", p.of[1] \in InnerTypes, p.of[2] \in InnerTypes,
         NEW w, NEW u, Faultless(w, u)
  PROVE  Checks(c, k, p, i, n, u, CheckParameter(w, p, s, i))
<1>0. PICK v : v = CheckParameter(w, p, s, i)
  OBVIOUS
<1> SUFFICES Checks(c, k, p, i, n, u, v)
  BY <1>0
<1>1. Width(p) = 1
  BY DEF Width, Transparent
<1>2. TakesAt(p, c, n) <=> ArgAt(c, n + 1) \in Promises(p.of[1]) \cup Promises(p.of[2])
  BY DEF TakesAt, Takes, Transparent
<1>3. /\ p.of[1] \in SimpleTypes \ {"stream"} /\ p.of[1] \notin Transparent
      /\ p.of[2] \in SimpleTypes \ {"stream"} /\ p.of[2] \notin Transparent
  BY DEF InnerTypes
<1>4. Stands(w, u) /\ ~w.silent
  BY DEF Faultless
<1>5. PICK last, first : last = CheckOne(w, p.of[2], s, i) /\ first = CheckOne(w, p.of[1], s, i)
  OBVIOUS
<1>6. v = IF last.ok THEN last ELSE IF first.ok THEN first
          ELSE Walked(FALSE, w.used + 1, w.left, w.silent)
  BY <1>0, <1>5, Zenon DEF CheckParameter, CheckVariant
<1>7. PICK m \in {0, 1} :
        /\ Stands(last, u + m) /\ last.silent = w.silent
        /\ last.ok <=> ArgAt(c, n + 1) \in Promises(p.of[2])
        /\ last.ok => Aligned(c, k, i + m, n + 1)
  <2>1. Sees(c, k, i, n, u, p.of[2], w, last)
    BY <1>3, <1>4, <1>5, SimpleChecked
  <2> QED
    BY <2>1, <1>3 DEF Sees
<1>8. PICK l \in {0, 1} :
        /\ Stands(first, u + l) /\ first.silent = w.silent
        /\ first.ok <=> ArgAt(c, n + 1) \in Promises(p.of[1])
        /\ first.ok => Aligned(c, k, i + l, n + 1)
  <2>1. Sees(c, k, i, n, u, p.of[1], w, first)
    BY <1>3, <1>4, <1>5, SimpleChecked
  <2> QED
    BY <2>1, <1>3 DEF Sees
<1>9. CASE last.ok
  <2>1. v = last
    BY <1>6, <1>9
  <2> QED
    BY <2>1, <1>1, <1>2, <1>4, <1>7, <1>9 DEF Checks
<1>10. CASE ~last.ok /\ first.ok
  <2>1. v = first
    BY <1>6, <1>10
  <2> QED
    BY <2>1, <1>1, <1>2, <1>4, <1>8, <1>10 DEF Checks
<1>11. CASE ~last.ok /\ ~first.ok
  <2>1. v = Walked(FALSE, w.used + 1, w.left, w.silent)
    BY <1>6, <1>11, Zenon
  <2>2. ~v.ok /\ v.silent = w.silent
    BY <2>1, WalkedAstray, Zenon
  <2>3. Stands(v, u + 1)
    <3>1. u + 1 \in Nat /\ w.used + 1 = u + 1 /\ w.left = << >>
      BY <1>4 DEF Stands
    <3> QED
      BY <3>1, <2>1, WalkedStands, Zenon
  <2> QED
    BY <2>2, <2>3, <1>1, <1>2, <1>4, <1>7, <1>8, <1>11 DEF Checks
<1> QED
  BY <1>9, <1>10, <1>11

(* The check of a parameter that begins at its arguments accepts just what the *)
(* parameter promises to take, and ends where the next one begins.             *)
LEMMA ParameterChecked ==
  ASSUME NEW c, NEW k, NEW s, NEW i, NEW n, Slots(c, k, s), Aligned(c, k, i, n),
         NEW p \in Parameters, p.name # "stream",
         NEW w, NEW u, Faultless(w, u), p.name = "pair" => u = 0,
         NEW v, v = CheckParameter(w, p, s, i)
  PROVE  Checks(c, k, p, i, n, u, v)
<1>1. CASE p.name \in SimpleTypes
  BY <1>1, PlainChecked
<1>2. CASE p.name = "optional" /\ p.of[1] \in InnerTypes
  BY <1>2, OptionalChecked
<1>3. CASE p.name = "variant" /\ p.of[1] \in InnerTypes /\ p.of[2] \in InnerTypes
  BY <1>3, VariantChecked
<1>4. CASE p.name = "pair" /\ p.of[1] \in InnerTypes /\ p.of[2] \in InnerTypes
  BY <1>4, PairChecked
<1> QED
  BY <1>1, <1>2, <1>3, <1>4, ParameterForms

--------------------------------------------------------------------------------
(* Checking a list of parameters *)

(* A list without the corner cases of parameters. *)
Straight(sig) ==
  /\ sig \in Seq(Parameters)
  /\ \A p \in 1 .. Len(sig) :
       /\ sig[p].name # "stream"
       /\ sig[p].name = "pair" => ArityOfFirst(sig, p - 1) = 0
       /\ sig[p].name = "optional" /\ sig[p].of[1] \in References => p = Len(sig)

LEMMA SkippedIs == \A c : Skipped(c) \in {0, 1, 2}
  BY DEF Skipped

LEMMA SuitsIs ==
  ASSUME NEW c, NEW sig \in Seq(Parameters), NEW p \in 1 .. Len(sig)
  PROVE  Suits(c, sig, p) <=> TakesAt(sig[p], c, Before(c, sig, p))
<1> DEFINE n == Before(c, sig, p)
           w == IF sig[p].name = "variadic_args" THEN Len(c.args) - n ELSE Width(sig[p])
           kinds == [j \in 1 .. w |-> ArgAt(c, n + j)]
<1>1. sig[p] \in Parameters
  OBVIOUS
<1>2. DOMAIN Own(c, sig, p) = 1 .. w
  BY DEF Own
<1>3. Suits(c, sig, p) <=> Takes(sig[p], kinds)
  BY <1>2, Zenon DEF Suits
<1> HIDE DEF n
<1>4. CASE sig[p].name \in Transparent
  BY <1>3, <1>4 DEF Takes, TakesAt, Transparent
<1>5. CASE sig[p].name \notin Transparent
  <2>1. w = Width(sig[p]) /\ w \in {1, 2} /\ (sig[p].name = "pair" <=> w = 2)
    BY <1>1, <1>5, WidthIs DEF Transparent
  <2>2. kinds[1] = ArgAt(c, n + 1) /\ (w = 2 => kinds[2] = ArgAt(c, n + 2))
    BY <2>1
  <2>3. PICK ks : ks = kinds
    OBVIOUS
  <2>4. ks[1] = ArgAt(c, n + 1) /\ (sig[p].name = "pair" => ks[2] = ArgAt(c, n + 2))
    BY <2>1, <2>2, <2>3
  <2>5. Takes(sig[p], ks) <=> TakesAt(sig[p], c, n)
    BY <2>4, <1>5 DEF Takes, TakesAt
  <2> QED
    BY <2>3, <2>5, <1>3 DEF n
<1> QED
  BY <1>4, <1>5

(* The walk over the first n parameters gave w. *)
Walks(c, k, sig, start, n, w) ==
  \E u :
    /\ Stands(w, u)
    /\ w.ok <=> \A p \in 1 .. n : Suits(c, sig, p)
    /\ w.ok => /\ ~w.silent /\ u <= ArityOfFirst(sig, n)
               /\ Aligned(c, k, start + u, Skipped(c) + ArityOfFirst(sig, n))
    /\ w.silent => \E p \in 1 .. n : sig[p].name = "optional" /\ ~Suits(c, sig, p)

LEMMA WalkStarts ==
  ASSUME NEW c, NEW k, NEW s, Slots(c, k, s), NEW sig, Straight(sig), NEW start, start = Skipped(c) + 1 + k
  PROVE  Walks(c, k, sig, start, 0, Walk)
<1>1. Walk.ok /\ ~Walk.silent
  BY Zenon DEF Walk, Walked
<1>2. Stands(Walk, 0)
  BY WalkedStands, Zenon DEF Walk, Walked, Stands
<1>3. Len(sig) \in Nat /\ ArityOfFirst(sig, 0) = 0
  BY ArityGoes DEF Straight
<1>4. Aligned(c, k, start + 0, Skipped(c) + 0)
  <2>1. PICK n \in Nat : n = Skipped(c)
    BY SkippedIs
  <2>2. k \in Nat /\ start = n + 1 + k
    BY <2>1 DEF Slots
  <2>3. start + 0 \in Nat /\ n + 0 \in Nat /\ start + 0 > k /\ start + 0 = n + 0 + 1 + k
    BY <2>2
  <2> QED
    BY <2>1, <2>3 DEF Aligned
<1> QED
  BY <1>1, <1>2, <1>3, <1>4 DEF Walks

LEMMA WalkGoesOn ==
  ASSUME NEW c, NEW k, NEW s, Slots(c, k, s), NEW sig, Straight(sig), NEW start, start = Skipped(c) + 1 + k,
         NEW n \in 1 .. Len(sig), NEW w, Walks(c, k, sig, start, n - 1, w),
         NEW v, v = CheckNext(w, sig[n], s, start)
  PROVE  Walks(c, k, sig, start, n, v)
<1>1. PICK u :
        /\ Stands(w, u)
        /\ w.ok <=> \A p \in 1 .. n - 1 : Suits(c, sig, p)
        /\ w.ok => /\ ~w.silent /\ u <= ArityOfFirst(sig, n - 1)
                   /\ Aligned(c, k, start + u, Skipped(c) + ArityOfFirst(sig, n - 1))
        /\ w.silent => \E p \in 1 .. n - 1 : sig[p].name = "optional" /\ ~Suits(c, sig, p)
  BY DEF Walks
<1>2. n \in Nat /\ n >= 1 /\ Len(sig) \in Nat /\ sig \in Seq(Parameters)
  BY DEF Straight
<1>3. CASE ~w.ok
  <2>1. v = w
    BY <1>3 DEF CheckNext
  <2>2. ~ \A p \in 1 .. n : Suits(c, sig, p)
    BY <1>1, <1>2, <1>3
  <2>3. w.silent => \E p \in 1 .. n : sig[p].name = "optional" /\ ~Suits(c, sig, p)
    BY <1>1, <1>2
  <2> QED
    BY <2>1, <2>2, <2>3, <1>1, <1>3 DEF Walks
<1>4. CASE w.ok
  <2>1. PICK i, m : i = start + u /\ m = Skipped(c) + ArityOfFirst(sig, n - 1)
    OBVIOUS
  <2>2. PICK p : p = sig[n]
    OBVIOUS
  <2>3. /\ p \in Parameters /\ p.name # "stream"
        /\ p.name = "pair" => ArityOfFirst(sig, n - 1) = 0
    BY <2>2 DEF Straight
  <2>4. Faultless(w, u) /\ Aligned(c, k, i, m) /\ u \in Nat
    BY <1>1, <1>4, <2>1 DEF Faultless, Stands
  <2>5. p.name = "pair" => u = 0
    BY <2>3, <2>4, <1>1, <1>4
  <2>6. w.used = u
    BY <1>1 DEF Stands
  <2>7. v = CheckParameter(w, p, s, i)
    BY <1>4, <2>1, <2>2, <2>6 DEF CheckNext
  <2>8. Checks(c, k, p, i, m, u, v)
    BY <2>3, <2>4, <2>5, <2>7, ParameterChecked
  <2>9. PICK l \in 0 .. Width(p) :
          /\ Stands(v, u + l)
          /\ v.ok <=> TakesAt(p, c, m)
          /\ v.ok => Aligned(c, k, i + l, m + Width(p))
          /\ v.silent => ~v.ok /\ p.name = "optional"
    BY <2>8 DEF Checks
  <2>10. v.ok <=> Suits(c, sig, n)
    BY <2>1, <2>2, <2>9, <1>2, SuitsIs DEF Before
  <2>11. v.ok <=> \A q \in 1 .. n : Suits(c, sig, q)
    BY <2>10, <1>1, <1>2, <1>4
  <2>12. /\ ArityOfFirst(sig, n) = ArityOfFirst(sig, n - 1) + Width(p)
         /\ ArityOfFirst(sig, n - 1) \in Nat /\ Width(p) \in Nat /\ Skipped(c) \in Nat
         /\ start \in Nat
    <3>1. ArityOfFirst(sig, n - 1) \in Nat
      BY <1>2, ArityIs
    <3>2. ArityOfFirst(sig, n) = ArityOfFirst(sig, n - 1) + Width(p)
      BY <1>2, <2>2, ArityGoes
    <3>3. Width(p) \in Nat /\ Skipped(c) \in Nat /\ k \in Nat
      BY <2>3, WidthIs, SkippedIs DEF Slots
    <3> QED
      BY <3>1, <3>2, <3>3
  <2>13. v.ok => /\ ~v.silent /\ u + l <= ArityOfFirst(sig, n)
                 /\ Aligned(c, k, start + (u + l), Skipped(c) + ArityOfFirst(sig, n))
    <3>1. u + l <= ArityOfFirst(sig, n)
      BY <2>4, <2>9, <2>12, <1>1, <1>4
    <3>2. i + l = start + (u + l)
      <4>1. l \in Nat
        BY <2>12
      <4> QED
        BY <4>1, <2>1, <2>4, <2>12
    <3>3. m + Width(p) = Skipped(c) + ArityOfFirst(sig, n)
      BY <2>1, <2>12
    <3> QED
      BY <3>1, <3>2, <3>3, <2>9
  <2>14. v.silent => \E q \in 1 .. n : sig[q].name = "optional" /\ ~Suits(c, sig, q)
    BY <2>2, <2>9, <2>10, <1>2
  <2> QED
    BY <2>9, <2>11, <2>13, <2>14 DEF Walks
<1> QED
  BY <1>3, <1>4

Checking(sig, s, start) ==
  LET walk[n \in 0 .. Len(sig)] ==
        IF n = 0 THEN Walk ELSE CheckNext(walk[n - 1], sig[n], s, start)
  IN  walk

LEMMA CheckGoes ==
  ASSUME NEW sig, Len(sig) \in Nat, NEW s, NEW start, NEW W, W = Checking(sig, s, start)
  PROVE  /\ CheckTypes(sig, s, start) = W[Len(sig)] /\ W[0] = Walk
         /\ \A n \in 1 .. Len(sig) : W[n] = CheckNext(W[n - 1], sig[n], s, start)
<1> DEFINE Is(f, m) == f = [n \in 0 .. m |-> IF n = 0 THEN Walk ELSE CheckNext(f[n - 1], sig[n], s, start)]
           P == {m \in Nat : \E f : Is(f, m)}
<1>1. 0 \in P
  <2>1. Is([n \in 0 .. 0 |-> Walk], 0)
    OBVIOUS
  <2> QED
    BY <2>1
<1>2. ASSUME NEW m \in 1 .. Len(sig), m - 1 \in P PROVE m \in P
  <2>1. PICK g : Is(g, m - 1)
    BY <1>2
  <2> DEFINE more == [n \in 0 .. m |-> IF n = m THEN CheckNext(g[m - 1], sig[m], s, start) ELSE g[n]]
  <2>2. \A n \in 0 .. m - 1 : g[n] = IF n = 0 THEN Walk ELSE CheckNext(g[n - 1], sig[n], s, start)
    BY <2>1
  <2>3. \A n \in 0 .. m : more[n] = IF n = 0 THEN Walk ELSE CheckNext(more[n - 1], sig[n], s, start)
    BY <2>2
  <2>4. Is(more, m)
    BY <2>3
  <2> HIDE DEF more
  <2> QED
    BY <2>4
<1>3. Len(sig) \in P
  <2> HIDE DEF P
  <2>1. \A m \in 0 .. Len(sig) : m \in P
    BY <1>1, <1>2, Steps, Zenon
  <2> QED
    BY <2>1
<1>4. Is(W, Len(sig))
  BY <1>3, Zenon DEF Checking
<1>5. CheckTypes(sig, s, start) = W[Len(sig)]
  BY DEF CheckTypes, Checking
<1>6. W[0] = Walk /\ \A n \in 1 .. Len(sig) : W[n] = CheckNext(W[n - 1], sig[n], s, start)
  BY <1>4
<1> QED
  BY <1>5, <1>6

(* A list is found good just if each of its parameters takes the arguments     *)
(* that are its own.                                                           *)
LEMMA ListChecked ==
  ASSUME NEW c, NEW k, NEW s, Slots(c, k, s), NEW sig, Straight(sig), NEW start, start = Skipped(c) + 1 + k,
         NEW w, w = CheckTypes(sig, s, start)
  PROVE  /\ w.left = << >>
         /\ w.ok <=> \A p \in 1 .. Len(sig) : Suits(c, sig, p)
         /\ w.silent => \E p \in 1 .. Len(sig) : sig[p].name = "optional" /\ ~Suits(c, sig, p)
<1>1. Len(sig) \in Nat
  BY DEF Straight
<1>2. PICK W : W = Checking(sig, s, start)
  OBVIOUS
<1>3. /\ w = W[Len(sig)] /\ W[0] = Walk
      /\ \A n \in 1 .. Len(sig) : W[n] = CheckNext(W[n - 1], sig[n], s, start)
  BY <1>1, <1>2, CheckGoes
<1> DEFINE P == {n \in Nat : Walks(c, k, sig, start, n, W[n])}
<1>4. 0 \in P
  BY <1>3, WalkStarts
<1>5. ASSUME NEW n \in 1 .. Len(sig), n - 1 \in P PROVE n \in P
  <2>1. Walks(c, k, sig, start, n, W[n])
    BY <1>3, <1>5, WalkGoesOn
  <2> QED
    BY <2>1
<1>6. \A n \in 0 .. Len(sig) : n \in P
  <2> HIDE DEF P
  <2> QED
    BY <1>1, <1>4, <1>5, Steps, Zenon
<1>7. Walks(c, k, sig, start, Len(sig), w)
  BY <1>1, <1>3, <1>6
<1> QED
  BY <1>7 DEF Walks, Stands

--------------------------------------------------------------------------------
(* Reading the arguments *)

Sequence(s) == \E S : s \in Seq(S)

LEMMA Appended ==
  ASSUME NEW s, Sequence(s), NEW v
  PROVE  /\ Sequence(Append(s, v)) /\ Len(Append(s, v)) = Len(s) + 1
         /\ Append(s, v)[Len(s) + 1] = v
         /\ \A i \in 1 .. Len(s) : Append(s, v)[i] = s[i]
<1>1. PICK S : s \in Seq(S)
  BY DEF Sequence
<1>2. PICK T : T = S \cup {v}
  OBVIOUS
<1>3. s \in Seq(T) /\ v \in T
  BY <1>1, <1>2
<1>4. Append(s, v) \in Seq(T)
  BY <1>3
<1> QED
  BY <1>3, <1>4 DEF Sequence

(* The slots the getter of a parameter looks at, after u slots, from slot i. *)
Looked(p, s, i, u) ==
  CASE p.name = "variadic_args" -> [j \in 1 .. (Len(s) - i + 1) |-> FromAt(s, i + j - 1)]
    [] p.name = "this_state" -> << >>
    [] p.name = "pair" -> <<FromAt(s, i), FromAt(s, i + u + 1)>>
    [] OTHER -> <<FromAt(s, i)>>

(* A getter that starts at its parameter's arguments gets just them. *)
LEMMA OwnRead ==
  ASSUME NEW c, NEW k, NEW s, NEW i, NEW m, Slots(c, k, s), Aligned(c, k, i, m),
         NEW sig \in Seq(Parameters), NEW n \in 1 .. Len(sig), m = Before(c, sig, n),
         NEW u, sig[n].name = "pair" => u = 0
  PROVE  Looked(sig[n], s, i, u) = Own(c, sig, n)
<1>1. PICK p : p = sig[n]
  OBVIOUS
<1>2. p \in Parameters
  BY <1>1
<1>3. Own(c, sig, n) = [j \in 1 .. (IF p.name = "variadic_args" THEN Len(c.args) - m ELSE Width(p))
                          |-> Number(c, m + j)]
  BY <1>1, Zenon DEF Own, Number
<1>4. /\ FromAt(s, i) = Number(c, m + 1)
      /\ FromAt(s, i + 1) = Number(c, m + 2)
      /\ i \in Nat /\ m \in Nat
  <2>1. FromAt(s, i) = Number(c, m + 1) /\ Aligned(c, k, i + 1, m + 1)
    BY SlotSeen
  <2>2. FromAt(s, i + 1) = Number(c, m + 1 + 1)
    BY <2>1, SlotSeen
  <2>3. i \in Nat /\ m \in Nat
    BY DEF Aligned
  <2>4. m + 1 + 1 = m + 2
    BY <2>3
  <2> QED
    BY <2>1, <2>2, <2>3, <2>4
<1>5. CASE p.name = "variadic_args"
  <2>1. Looked(p, s, i, u) = [j \in 1 .. (Len(s) - i + 1) |-> FromAt(s, i + j - 1)]
    BY <1>5 DEF Looked
  <2>2. Len(s) = Len(c.args) + k /\ Len(c.args) \in Nat /\ k \in Nat
    BY DEF Slots
  <2>3. CASE i = m + 1 + k
    <3>1. Len(s) - i + 1 = Len(c.args) - m
      BY <2>2, <2>3, <1>4
    <3>2. ASSUME NEW j \in 1 .. (Len(c.args) - m) PROVE FromAt(s, i + j - 1) = Number(c, m + j)
      <4>1. Aligned(c, k, i + j - 1, m + j - 1)
        <5>1. j \in Nat /\ j >= 1 /\ k \in Nat /\ m \in Nat /\ i = m + 1 + k
          BY <2>2, <2>3, <1>4
        <5>2. i + j - 1 \in Nat /\ m + j - 1 \in Nat
          BY ONLY <5>1
        <5>3. i + j - 1 > k
          BY ONLY <5>1
        <5>4. i + j - 1 = (m + j - 1) + 1 + k
          BY ONLY <5>1
        <5> QED
          BY <5>2, <5>3, <5>4 DEF Aligned
      <4>2. FromAt(s, i + j - 1) = Number(c, m + j - 1 + 1)
        BY <4>1, SlotSeen
      <4>3. m + j - 1 + 1 = m + j
        BY <1>4, <2>2
      <4> QED
        BY <4>2, <4>3
    <3> QED
      BY <3>1, <3>2, <2>1, <1>1, <1>3, <1>5
  <2>4. CASE i > Len(c.args) + k /\ m >= Len(c.args)
    <3>1. 1 .. (Len(s) - i + 1) = {} /\ 1 .. (Len(c.args) - m) = {}
      <4>1. PICK ends \in Int, given \in Nat : ends = Len(s) /\ given = Len(c.args)
        BY <2>2
      <4>2. m \in Int /\ i \in Int /\ ends - i + 1 < 1 /\ given - m < 1
        BY <4>1, <2>2, <2>4, <1>4
      <4>3. \A x \in Int : x < 1 => 1 .. x = {}
        OBVIOUS
      <4>4. 1 .. (ends - i + 1) = {} /\ 1 .. (given - m) = {}
        BY <4>2, <4>3
      <4> QED
        BY <4>1, <4>4
    <3> QED
      BY <3>1, <2>1, <1>1, <1>3, <1>5
  <2> QED
    BY <2>3, <2>4 DEF Aligned
<1>6. CASE p.name = "this_state"
  <2>1. Width(p) = 0
    BY <1>6 DEF Width, Transparent
  <2>2. Looked(p, s, i, u) = << >>
    BY <1>6 DEF Looked
  <2>3. Own(c, sig, n) = [j \in 1 .. 0 |-> Number(c, m + j)]
    BY <2>1, <1>3, <1>6
  <2> QED
    BY <2>2, <2>3, <1>1
<1>7. CASE p.name = "pair"
  <2>1. Width(p) = 2
    BY <1>7 DEF Width, Transparent
  <2>2. i + u + 1 = i + 1
    BY <1>1, <1>4, <1>7
  <2>3. Looked(p, s, i, u) = <<Number(c, m + 1), Number(c, m + 2)>>
    BY <2>2, <1>4, <1>7 DEF Looked
  <2>4. Own(c, sig, n) = [j \in 1 .. 2 |-> Number(c, m + j)]
    BY <2>1, <1>3, <1>7
  <2> QED
    BY <2>3, <2>4, <1>1
<1>8. CASE p.name \notin {"variadic_args", "this_state", "pair"}
  <2>1. Width(p) = 1
    BY <1>8 DEF Width, Transparent
  <2>2. Looked(p, s, i, u) = <<Number(c, m + 1)>>
    BY <1>4, <1>8 DEF Looked
  <2>3. Own(c, sig, n) = [j \in 1 .. 1 |-> Number(c, m + j)]
    BY <2>1, <1>3, <1>8
  <2> QED
    BY <2>2, <2>3, <1>1
<1> QED
  BY <1>5, <1>6, <1>7, <1>8

(* How many slots the getter uses up. *)
Taken(p, found) == IF p.name = "pair" THEN 2 ELSE GetShare(p, found)

LEMMA TakenIs ==
  ASSUME NEW p \in Parameters, p.name # "stream", NEW found
  PROVE  Taken(p, found) \in 0 .. Width(p)
<1>1. CASE p.name \in Transparent
  BY <1>1 DEF Taken, GetShare, Width, Transparent
<1>2. CASE p.name = "optional"
  BY <1>2 DEF Taken, GetShare, Width, Transparent
<1>3. CASE p.name \notin Transparent /\ p.name # "optional"
  BY <1>3 DEF Taken, GetShare, Width
<1> QED
  BY <1>1, <1>2, <1>3

LEMMA TakenAligned ==
  ASSUME NEW c, NEW k, NEW s, NEW i, NEW m, Slots(c, k, s), Aligned(c, k, i, m),
         NEW p \in Parameters, p.name # "stream", ~(p.name = "optional" /\ p.of[1] \in References)
  PROVE  Aligned(c, k, i + Taken(p, KindAt(s, i)), m + Width(p))
<1>1. PICK found : found = KindAt(s, i)
  OBVIOUS
<1>2. /\ found = "none" \/ found \in ArgumentKinds
      /\ Aligned(c, k, i + 1, m + 1)
      /\ found = "none" => Aligned(c, k, i, m + 1)
  BY <1>1, SlotSeen
<1>3. i + 0 = i /\ m + 0 = m /\ i \in Nat /\ m \in Nat
  BY DEF Aligned
<1>4. CASE p.name \in Transparent
  <2>1. Taken(p, found) = 0 /\ Width(p) = 0
    BY <1>4 DEF Taken, GetShare, Width, Transparent
  <2> QED
    BY <2>1, <1>1, <1>3
<1>5. CASE p.name = "optional"
  <2>1. Width(p) = 1 /\ Taken(p, found) = IF found \in ArgumentKinds THEN 1 ELSE 0
    BY <1>5 DEF Taken, GetShare, Width, Transparent
  <2> QED
    BY <2>1, <1>1, <1>2, <1>3
<1>6. CASE p.name = "pair"
  <2>1. Width(p) = 2 /\ Taken(p, found) = 2
    BY <1>6 DEF Taken, Width, Transparent
  <2>2. Aligned(c, k, i + 1 + 1, m + 1 + 1)
    BY <1>2, SlotSeen
  <2>3. i + 1 + 1 = i + 2 /\ m + 1 + 1 = m + 2
    BY <1>3
  <2> QED
    BY <2>1, <2>2, <2>3, <1>1
<1>7. CASE p.name \notin Transparent \cup {"optional", "pair"}
  <2>1. Width(p) = 1 /\ Taken(p, found) = 1
    BY <1>7 DEF Taken, GetShare, Width
  <2> QED
    BY <2>1, <1>1, <1>2
<1> QED
  BY <1>4, <1>5, <1>6, <1>7

(* The getters of the first n parameters gave r. *)
Reads(c, k, sig, start, n, r) ==
  \E u, g :
    /\ r.used = u /\ r.got = g
    /\ Sequence(g) /\ Len(g) = n /\ \A p \in 1 .. n : g[p] = Own(c, sig, p)
    /\ n < Len(sig) => /\ u \in Nat /\ u <= ArityOfFirst(sig, n)
                       /\ Aligned(c, k, start + u, Skipped(c) + ArityOfFirst(sig, n))

LEMMA GetterParts ==
  ASSUME NEW r, NEW p, NEW s, NEW i, NEW v, v = GetParameter(r, p, s, i)
  PROVE  /\ v.used = r.used + Taken(p, KindAt(s, i))
         /\ v.got = Append(r.got, Looked(p, s, i, r.used))
  BY Zenon DEF GetParameter, Taken, Looked

LEMMA ReadingStarts ==
  ASSUME NEW c, NEW k, NEW s, Slots(c, k, s), NEW sig, Straight(sig), NEW start, start = Skipped(c) + 1 + k
  PROVE  Reads(c, k, sig, start, 0, NoSlots)
<1>1. NoSlots.used = 0 /\ NoSlots.got = << >>
  BY DEF NoSlots
<1>2. Sequence(<< >>) /\ Len(<< >>) = 0
  BY DEF Sequence
<1>3. Len(sig) \in Nat /\ ArityOfFirst(sig, 0) = 0
  BY ArityGoes DEF Straight
<1>4. Aligned(c, k, start + 0, Skipped(c) + 0)
  <2>1. PICK n \in Nat : n = Skipped(c)
    BY SkippedIs
  <2>2. k \in Nat /\ start = n + 1 + k
    BY <2>1 DEF Slots
  <2>3. start + 0 \in Nat /\ n + 0 \in Nat /\ start + 0 > k /\ start + 0 = n + 0 + 1 + k
    BY <2>2
  <2> QED
    BY <2>1, <2>3 DEF Aligned
<1>5. \A p \in 1 .. 0 : FALSE
  OBVIOUS
<1> QED
  BY <1>1, <1>2, <1>3, <1>4, <1>5 DEF Reads

LEMMA ReadingGoesOn ==
  ASSUME NEW c, NEW k, NEW s, Slots(c, k, s), NEW sig, Straight(sig), NEW start, start = Skipped(c) + 1 + k,
         NEW n \in 1 .. Len(sig), NEW r, Reads(c, k, sig, start, n - 1, r),
         NEW v, v = GetParameter(r, sig[n], s, start + r.used)
  PROVE  Reads(c, k, sig, start, n, v)
<1>1. n \in Nat /\ n >= 1 /\ Len(sig) \in Nat /\ sig \in Seq(Parameters) /\ n - 1 < Len(sig)
  BY DEF Straight
<1>2. PICK u, g :
        /\ r.used = u /\ r.got = g
        /\ Sequence(g) /\ Len(g) = n - 1 /\ \A p \in 1 .. n - 1 : g[p] = Own(c, sig, p)
        /\ u \in Nat /\ u <= ArityOfFirst(sig, n - 1)
        /\ Aligned(c, k, start + u, Skipped(c) + ArityOfFirst(sig, n - 1))
  BY <1>1 DEF Reads
<1>3. PICK i, m, p : i = start + u /\ m = Before(c, sig, n) /\ p = sig[n]
  OBVIOUS
<1>4. /\ p \in Parameters /\ p.name # "stream" /\ (p.name = "pair" => ArityOfFirst(sig, n - 1) = 0)
      /\ p.name = "optional" /\ p.of[1] \in References => n = Len(sig)
  BY <1>3 DEF Straight
<1>5. p.name = "pair" => u = 0
  BY <1>2, <1>4
<1>6. Aligned(c, k, i, m)
  BY <1>2, <1>3 DEF Before
<1>7. v = GetParameter(r, p, s, i)
  BY <1>2, <1>3
<1>8. v.used = u + Taken(p, KindAt(s, i)) /\ v.got = Append(g, Looked(p, s, i, u))
  BY <1>2, <1>7, GetterParts
<1>9. Looked(p, s, i, u) = Own(c, sig, n)
  <2>1. sig[n].name = "pair" => u = 0
    BY <1>3, <1>5
  <2>2. sig \in Seq(Parameters) /\ m = Before(c, sig, n)
    BY <1>1, <1>3
  <2>3. Looked(sig[n], s, i, u) = Own(c, sig, n)
    BY ONLY <2>1, <2>2, <1>6, Slots(c, k, s), n \in 1 .. Len(sig), OwnRead
  <2> QED
    BY <2>3, <1>3
<1>10. PICK h : h = Append(g, Own(c, sig, n))
  OBVIOUS
<1>11. Sequence(h) /\ Len(h) = n /\ \A q \in 1 .. n : h[q] = Own(c, sig, q)
  <2>1. /\ Sequence(h) /\ Len(h) = Len(g) + 1 /\ h[Len(g) + 1] = Own(c, sig, n)
        /\ \A q \in 1 .. Len(g) : h[q] = g[q]
    BY <1>2, <1>10, Appended
  <2>2. Len(g) + 1 = n
    BY <1>1, <1>2
  <2> QED
    BY <2>1, <2>2, <1>1, <1>2
<1>12. PICK l : l = Taken(p, KindAt(s, i))
  OBVIOUS
<1>13. n < Len(sig) => /\ u + l \in Nat /\ u + l <= ArityOfFirst(sig, n)
                       /\ Aligned(c, k, start + (u + l), Skipped(c) + ArityOfFirst(sig, n))
  <2>1. SUFFICES ASSUME n < Len(sig)
                 PROVE  /\ u + l \in Nat /\ u + l <= ArityOfFirst(sig, n)
                        /\ Aligned(c, k, start + (u + l), Skipped(c) + ArityOfFirst(sig, n))
    OBVIOUS
  <2>2. ~(p.name = "optional" /\ p.of[1] \in References)
    BY <1>1, <1>4, <2>1
  <2>3. Aligned(c, k, i + l, m + Width(p))
    BY <2>2, <1>4, <1>6, <1>12, TakenAligned
  <2>4. l \in 0 .. Width(p)
    BY <1>4, <1>12, TakenIs
  <2>5. /\ ArityOfFirst(sig, n) = ArityOfFirst(sig, n - 1) + Width(p)
        /\ ArityOfFirst(sig, n - 1) \in Nat /\ Width(p) \in Nat /\ Skipped(c) \in Nat /\ start \in Nat
    <3>1. ArityOfFirst(sig, n - 1) \in Nat
      BY <1>1, ArityIs
    <3>2. ArityOfFirst(sig, n) = ArityOfFirst(sig, n - 1) + Width(p)
      BY <1>1, <1>3, ArityGoes
    <3>3. Width(p) \in Nat /\ Skipped(c) \in Nat /\ k \in Nat
      BY <1>4, WidthIs, SkippedIs DEF Slots
    <3> QED
      BY <3>1, <3>2, <3>3
  <2>6. l \in Nat /\ u + l \in Nat /\ u + l <= ArityOfFirst(sig, n)
    <3>1. u \in Nat /\ u <= ArityOfFirst(sig, n - 1)
      BY <1>2
    <3> QED
      BY ONLY <2>4, <2>5, <3>1
  <2>7. i + l = start + (u + l)
    BY <2>5, <2>6, <1>2, <1>3
  <2>8. m + Width(p) = Skipped(c) + ArityOfFirst(sig, n)
    BY <2>5, <1>3 DEF Before
  <2> QED
    BY <2>3, <2>6, <2>7, <2>8
<1> QED
  BY <1>8, <1>9, <1>10, <1>11, <1>12, <1>13 DEF Reads

Reading(sig, s, start) ==
  LET reading[n \in 0 .. Len(sig)] ==
        IF n = 0 THEN NoSlots
        ELSE GetParameter(reading[n - 1], sig[n], s, start + reading[n - 1].used)
  IN  reading

ReadNext(r, p, s, start) == GetParameter(r, p, s, start + r.used)

LEMMA GetGoes ==
  ASSUME NEW sig, Len(sig) \in Nat, NEW s, NEW start, NEW W, W = Reading(sig, s, start)
  PROVE  /\ GetTypes(sig, s, start) = W[Len(sig)].got /\ W[0] = NoSlots
         /\ \A n \in 1 .. Len(sig) : W[n] = ReadNext(W[n - 1], sig[n], s, start)
<1> DEFINE Is(f, m) == f = [n \in 0 .. m |-> IF n = 0 THEN NoSlots ELSE ReadNext(f[n - 1], sig[n], s, start)]
           P == {m \in Nat : \E f : Is(f, m)}
<1>1. 0 \in P
  <2>1. Is([n \in 0 .. 0 |-> NoSlots], 0)
    OBVIOUS
  <2> QED
    BY <2>1
<1>2. ASSUME NEW m \in 1 .. Len(sig), m - 1 \in P PROVE m \in P
  <2>1. PICK g : Is(g, m - 1)
    BY <1>2
  <2> DEFINE more == [n \in 0 .. m |-> IF n = m THEN ReadNext(g[m - 1], sig[m], s, start) ELSE g[n]]
  <2>2. \A n \in 0 .. m - 1 : g[n] = IF n = 0 THEN NoSlots ELSE ReadNext(g[n - 1], sig[n], s, start)
    BY <2>1
  <2>3. \A n \in 0 .. m : more[n] = IF n = 0 THEN NoSlots ELSE ReadNext(more[n - 1], sig[n], s, start)
    BY <2>2
  <2>4. Is(more, m)
    BY <2>3
  <2> HIDE DEF more
  <2> QED
    BY <2>4
<1>3. Len(sig) \in P
  <2> HIDE DEF P
  <2>1. \A m \in 0 .. Len(sig) : m \in P
    BY <1>1, <1>2, Steps, Zenon
  <2> QED
    BY <2>1
<1>4. Is(W, Len(sig))
  BY <1>3, Zenon DEF Reading, ReadNext
<1>5. GetTypes(sig, s, start) = W[Len(sig)].got
  BY Zenon DEF GetTypes, Reading
<1>6. W[0] = NoSlots /\ \A n \in 1 .. Len(sig) : W[n] = ReadNext(W[n - 1], sig[n], s, start)
  BY <1>4
<1> QED
  BY <1>5, <1>6

(* Every parameter of a list gets the arguments that are its own. *)
LEMMA ListRead ==
  ASSUME NEW c, NEW k, NEW s, Slots(c, k, s), NEW sig, Straight(sig), NEW start, start = Skipped(c) + 1 + k
  PROVE  GetTypes(sig, s, start) = [p \in 1 .. Len(sig) |-> Own(c, sig, p)]
<1>1. Len(sig) \in Nat
  BY DEF Straight
<1>2. PICK W : W = Reading(sig, s, start)
  OBVIOUS
<1>3. /\ GetTypes(sig, s, start) = W[Len(sig)].got /\ W[0] = NoSlots
      /\ \A n \in 1 .. Len(sig) : W[n] = ReadNext(W[n - 1], sig[n], s, start)
  BY <1>1, <1>2, GetGoes
<1> DEFINE P == {n \in Nat : Reads(c, k, sig, start, n, W[n])}
<1>4. 0 \in P
  BY <1>3, ReadingStarts
<1>5. ASSUME NEW n \in 1 .. Len(sig), n - 1 \in P PROVE n \in P
  <2>1. W[n] = GetParameter(W[n - 1], sig[n], s, start + W[n - 1].used)
    BY <1>3, Zenon DEF ReadNext
  <2>2. Reads(c, k, sig, start, n, W[n])
    BY <2>1, <1>5, ReadingGoesOn
  <2> QED
    BY <2>2
<1>6. \A n \in 0 .. Len(sig) : n \in P
  <2> HIDE DEF P
  <2> QED
    BY <1>1, <1>4, <1>5, Steps, Zenon
<1>7. Reads(c, k, sig, start, Len(sig), W[Len(sig)])
  BY <1>1, <1>6
<1>8. PICK g : /\ GetTypes(sig, s, start) = g
               /\ Sequence(g) /\ Len(g) = Len(sig) /\ \A p \in 1 .. Len(sig) : g[p] = Own(c, sig, p)
  BY <1>3, <1>7 DEF Reads
<1>9. g = [p \in 1 .. Len(sig) |-> Own(c, sig, p)]
  BY <1>8 DEF Sequence
<1> QED
  BY <1>8, <1>9

--------------------------------------------------------------------------------
(* Calls without a corner case *)

Hows == {"function", "protect", "method", "setter", "overload", "factories", "constructors", "initializers"}

(* The sole candidate of a call is never passed over for an optional parameter, *)
(* nor does an initializer fail.                                                *)
SoleServes(c) ==
  Len(c.sigs) = 1 =>
    /\ \A p \in 1 .. Len(c.sigs[1]) : c.sigs[1][p].name = "optional" => Suits(c, c.sigs[1], p)
    /\ c.how = "initializers" => Fits(c, c.sigs[1])

Policied(c) ==
  /\ c.policies \in Seq(Policies) /\ Len(c.policies) \in {0, 1}
  /\ c.how \in {"overload", "constructors"} => c.policies = << >>
  /\ \A i \in 1 .. Len(c.policies) : c.policies[i].self => c.policies[i].target = -1 /\ c.args # << >>

Ordinary(c) ==
  /\ c.how \in Hows
  /\ c.args \in Seq(ArgumentKinds) /\ \A i \in 1 .. Len(c.args) : c.args[i] # "bare"
  /\ Len(c.sigs) \in Nat \ {0} /\ DOMAIN c.sigs = 1 .. Len(c.sigs) /\ (~Resolves(c) => Len(c.sigs) = 1)
  /\ \A j \in 1 .. Len(c.sigs) : Straight(c.sigs[j])
  /\ SoleServes(c) /\ Policied(c)
  /\ c.gives \in (IF Constructing(c) THEN {"nothing"} ELSE {"nothing", "value", "reference", "object"})

LEMMA NoCorners ==
  ASSUME NEW c \in Menu, CornersOf(c) = {}
  PROVE  Ordinary(c)
<1>1. /\ \A j \in DOMAIN c.sigs : \A p \in DOMAIN c.sigs[j] :
           /\ c.sigs[j][p].name # "stream"
           /\ ~(c.sigs[j][p].name = "pair" /\ ArityOfFirst(c.sigs[j], p - 1) > 0)
           /\ ~(c.sigs[j][p].name = "optional" /\ c.sigs[j][p].of[1] \in References /\ p < Len(c.sigs[j]))
           /\ ~(c.sigs[j][p].name = "optional" /\ Len(c.sigs) = 1 /\ ~Suits(c, c.sigs[j], p))
      /\ \A i \in DOMAIN c.args : c.args[i] # "bare"
      /\ c.how # "plain"
      /\ ~(c.how = "initializers" /\ Len(c.sigs) = 1 /\ ~Fits(c, c.sigs[1]))
      /\ ~(c.how = "overload" /\ c.policies # << >>)
      /\ ~(c.how = "constructors" /\ c.policies # << >>)
      /\ ~(Len(c.policies) > 1)
  BY Zenon DEF CornersOf
<1>2. /\ c.how \in Hows
      /\ c.sigs \in Seq(Seq(Parameters)) /\ c.args \in Seq(ArgumentKinds)
      /\ c.policies \in Seq(Policies)
      /\ c.sigs # << >> /\ (~Resolves(c) => Len(c.sigs) = 1)
      /\ c.gives \in (IF Constructing(c) THEN {"nothing"} ELSE {"nothing", "value", "reference", "object"})
      /\ \A i \in DOMAIN c.policies :
            c.policies[i].self => c.policies[i].target = -1 /\ c.args # << >>
  BY <1>1, MenuAssumption DEF Hows
<1>3. Len(c.sigs) \in Nat \ {0} /\ DOMAIN c.sigs = 1 .. Len(c.sigs)
  BY <1>2
<1>4. ASSUME NEW j \in 1 .. Len(c.sigs) PROVE Straight(c.sigs[j])
  <2>1. PICK sig \in Seq(Parameters) : sig = c.sigs[j]
    BY <1>2
  <2>2. ASSUME NEW p \in 1 .. Len(sig)
        PROVE  /\ sig[p].name # "stream"
               /\ sig[p].name = "pair" => ArityOfFirst(sig, p - 1) = 0
               /\ sig[p].name = "optional" /\ sig[p].of[1] \in References => p = Len(sig)
    <3>1. ArityOfFirst(sig, p - 1) \in Nat
      BY ArityIs
    <3>2. p \in DOMAIN sig /\ j \in DOMAIN c.sigs
      BY <1>3
    <3>3. /\ sig[p].name # "stream"
          /\ ~(sig[p].name = "pair" /\ ArityOfFirst(sig, p - 1) > 0)
          /\ ~(sig[p].name = "optional" /\ sig[p].of[1] \in References /\ p < Len(sig))
      BY <1>1, <2>1, <3>2, Zenon
    <3> QED
      BY <3>1, <3>3
  <2> QED
    BY <2>1, <2>2 DEF Straight
<1>5. SoleServes(c)
  <2> SUFFICES ASSUME Len(c.sigs) = 1
               PROVE  /\ \A p \in 1 .. Len(c.sigs[1]) : c.sigs[1][p].name = "optional" => Suits(c, c.sigs[1], p)
                      /\ c.how = "initializers" => Fits(c, c.sigs[1])
    BY DEF SoleServes
  <2>1. 1 \in DOMAIN c.sigs /\ DOMAIN c.sigs[1] = 1 .. Len(c.sigs[1])
    BY <1>2
  <2> QED
    BY <1>1, <2>1, Zenon
<1>6. Policied(c)
  <2>1. Len(c.policies) \in {0, 1} /\ DOMAIN c.policies = 1 .. Len(c.policies)
    <3>1. Len(c.policies) \in Nat /\ DOMAIN c.policies = 1 .. Len(c.policies)
      BY <1>2
    <3>2. ~(Len(c.policies) > 1)
      BY <1>1
    <3>3. ASSUME NEW n \in Nat, ~(n > 1) PROVE n \in {0, 1}
      BY <3>3
    <3> QED
      BY <3>1, <3>2, <3>3
  <2> QED
    BY <1>1, <1>2, <2>1 DEF Policied
<1>7. \A i \in 1 .. Len(c.args) : c.args[i] # "bare"
  BY <1>1, <1>2
<1> QED
  BY <1>2, <1>3, <1>4, <1>5, <1>6, <1>7 DEF Ordinary

--------------------------------------------------------------------------------
(* What holds between the steps of a call *)

Stages == {"start", "match", "check", "run", "push", "copy", "policies", "return", "ended", "gone"}

(* Who can keep something alive: the object that is made and the arguments. *)
Keepers(c) == 0 .. Len(c.args)
Idle(c) == [o \in Keepers(c) |-> {}]

(* The values on the stack come from arguments or from the object that is made, *)
(* those that are objects do so in any case.                                    *)
StackTyped ==
  /\ Sequence(stack)
  /\ \A j \in 1 .. Len(stack) :
       stack[j].from \in {-1} \cup Keepers(call) /\ (IsUserdata(stack[j]) => stack[j].from # -1)

MadeObjects == [memory : {"none", "raw", "built"}, tabled : BOOLEAN, destroyed : Nat]
Looks(m, memory, tabled, destroyed) ==
  m \in MadeObjects /\ m.memory = memory /\ (m.tabled <=> tabled) /\ m.destroyed = destroyed

MadeTyped ==
  /\ made \in MadeObjects
  /\ made.destroyed = IF 0 \in dead /\ made.tabled THEN 1 ELSE 0
  /\ made.memory = "none" => 0 \notin dead /\ ~made.tabled

CallTyped ==
  /\ call \in Menu /\ CornersOf(call) = {} /\ pc \in Stages
  /\ dead \subseteq Keepers(call) /\ uses \in [Keepers(call) -> SUBSET Keepers(call)]
  /\ StackTyped /\ MadeTyped

(* Until the function has run the stack is as the call found it, above the     *)
(* object that a constructor makes; nothing is collected and nothing is kept.  *)
Begun == Constructing(call) /\ pc # "start" /\ (call.how = "initializers" => pc # "match")
Memory == IF ~Begun THEN "none" ELSE IF pc = "push" THEN "built" ELSE "raw"

Untouched ==
  /\ Slots(call, IF Begun THEN 1 ELSE 0, stack) /\ Sequence(stack)
  /\ Begun => stack[1] = Entry(IF call.how = "initializers" THEN "T" ELSE "bare", 0)
  /\ Looks(made, Memory, Begun /\ call.how = "initializers", 0)
  /\ pinned <=> Begun
  /\ dead = {} /\ uses = Idle(call) /\ outcome = "none" /\ ~threw

(* No candidate before cand fits; the one that runs does. *)
NoneBefore == \A j \in 1 .. cand - 1 : ~Fits(call, call.sigs[j])

Searching ==
  /\ pc = "start" => cand = 1
  /\ pc = "match" => Resolves(call) /\ cand \in 1 .. Len(call.sigs) + 1 /\ NoneBefore
  /\ pc \in {"check", "run"} => cand \in 1 .. Len(call.sigs) /\ NoneBefore
  /\ pc = "check" => IF Len(call.sigs) = 1 THEN Resolves(call) => RightCount(call.sigs[cand])
                     ELSE Fits(call, call.sigs[cand])
  /\ pc = "run" => /\ Fits(call, call.sigs[cand])
                   /\ got = [p \in 1 .. Len(call.sigs[cand]) |-> Own(call, call.sigs[cand], p)]

Whole == made.memory = "built" /\ made.tabled
ReturnsSelf(c) == \E i \in 1 .. Len(c.policies) : c.policies[i].self
Returning(c) == c.gives # "nothing" \/ Constructing(c) \/ ReturnsSelf(c)

(* What a call without a policy that returns self has on top for a result. *)
ResultOnTop ==
  IF Constructing(call) \/ call.gives \in {"object", "reference"} THEN Top = Entry("T", 0)
  ELSE call.gives = "value" => Top = Entry("int", -1)

(* What the call returns. *)
TopRight == IF ReturnsSelf(call) THEN Top.from = Meant(call, 1) ELSE ResultOnTop

(* A stack that was not cleaned has each argument where the policies expect it. *)
InPlace ==
  ~CleanStack(call) =>
    /\ \A i \in Nat \ {0} : Meant(call, i) \in Keepers(call) =>
         i \in 1 .. Len(stack) /\ stack[i].from = Meant(call, i)
    /\ Constructing(call) => stack[1] = Entry("T", 0)

OnStack(o) == \E j \in 1 .. Len(stack) : stack[j].from = o

Resulting ==
  /\ outcome = "none" /\ ~threw /\ ~pinned /\ 0 \notin dead
  /\ ~CleanStack(call) => dead = {}
  /\ InPlace
  /\ made.memory # "none" => OnStack(0)
  /\ IF pc = "copy" THEN ~Constructing(call) /\ call.gives = "object" /\ made.memory = "raw" /\ made.tabled
     ELSE IF Constructing(call) \/ call.gives = "object" THEN Whole
     ELSE made.memory = "none"
  /\ pc # "return" => /\ stack # << >> \/ ~Returning(call) \/ ReturnsSelf(call)
                      /\ ResultOnTop /\ uses = Idle(call)

(* What policy p is about: whose user value it sets, and that it keeps what the *)
(* policy says.                                                                 *)
Keeper(p) == IF p.target = -1 THEN Top.from ELSE Meant(call, p.target)

Keeps(p) ==
  (p.target = -1 => IsUserdata(Top)) /\ Keeper(p) \in Keepers(call) =>
    /\ \A o \in Keepers(call) : o # Keeper(p) => uses[o] = {}
    /\ Keeper(p) = Top.from =>
         \A i \in p.deps : Meant(call, i) \in Keepers(call) => Meant(call, i) \in uses[Keeper(p)]

AllKeep == \A n \in 1 .. Len(call.policies) : Keeps(call.policies[n])

Returned ==
  /\ pc = "return" /\ Returning(call) => stack # << >> /\ TopRight /\ AllKeep
  /\ outcome = "returned" =>
       /\ stack = << >> \/ (stack = <<Top>> /\ Returning(call) /\ TopRight /\ AllKeep)
       /\ Constructing(call) \/ call.gives = "object" => Whole
       /\ DependenciesKept

(* After the call: an error because nothing fits, or one of the function's. *)
Over ==
  /\ outcome \in {"none", "error", "returned"}
  /\ IF pc \in {"ended", "gone"} THEN ~pinned /\ (made.memory = "built" <=> made.tabled) ELSE outcome = "none"
  /\ outcome = "error" /\ ~threw =>
       \/ \A j \in 1 .. Len(call.sigs) : ~Fits(call, call.sigs[j])
       \/ call.how \in {"method", "setter"} /\ ArgAt(call, 1) \notin ClassKinds

CallInv ==
  /\ CallTyped /\ Searching /\ Returned /\ Over
  /\ pc \in {"start", "match", "check", "run", "push"} => Untouched
  /\ pc \in {"copy", "policies", "return"} => Resulting

--------------------------------------------------------------------------------
(* The made object, as its steps leave it *)

LEMMA LooksSo ==
  ASSUME NEW memory \in {"none", "raw", "built"}, NEW tabled \in BOOLEAN, NEW m,
         m = [memory |-> memory, tabled |-> tabled, destroyed |-> 0]
  PROVE  Looks(m, memory, tabled, 0)
<1>1. m.memory = memory /\ m.destroyed = 0
  BY Zenon
<1>2. m.tabled <=> tabled
  BY Zenon
<1>3. m \in MadeObjects
  BY DEF MadeObjects
<1> QED
  BY <1>1, <1>2, <1>3 DEF Looks

LEMMA MadeOf ==
  ASSUME NEW a, NEW b, NEW d, NEW n, n = [memory |-> a, tabled |-> b, destroyed |-> d]
  PROVE  n.memory = a /\ n.tabled = b /\ n.destroyed = d
  BY Zenon

LEMMA LooksBuilt ==
  ASSUME NEW memory, NEW tabled, NEW destroyed, NEW m, Looks(m, memory, tabled, destroyed),
         NEW n, n = [m EXCEPT !.memory = "built"]
  PROVE  Looks(n, "built", tabled, destroyed)
<1>1. PICK a, b, d : m = [memory |-> a, tabled |-> b, destroyed |-> d] /\ b \in BOOLEAN /\ d \in Nat
  BY DEF Looks, MadeObjects
<1>2. n = [memory |-> "built", tabled |-> b, destroyed |-> d]
  BY <1>1
<1>3. (m.tabled <=> b) /\ m.destroyed = d
  BY <1>1, Zenon
<1>4. n.memory = "built" /\ n.destroyed = d
  BY ONLY <1>2, MadeOf, Zenon
<1>5. n.tabled <=> b
  BY ONLY <1>2, MadeOf, Zenon
<1>6. n \in MadeObjects
  BY <1>1, <1>2 DEF MadeObjects
<1> QED
  BY <1>3, <1>4, <1>5, <1>6 DEF Looks

LEMMA LooksTabled ==
  ASSUME NEW memory, NEW tabled, NEW destroyed, NEW m, Looks(m, memory, tabled, destroyed),
         NEW now \in BOOLEAN, NEW n, n = [m EXCEPT !.tabled = @ \/ now]
  PROVE  Looks(n, memory, tabled \/ now, destroyed)
<1>1. PICK a, b, d : /\ m = [memory |-> a, tabled |-> b, destroyed |-> d]
                     /\ a \in {"none", "raw", "built"} /\ b \in BOOLEAN /\ d \in Nat
  BY DEF Looks, MadeObjects
<1>2. n = [memory |-> a, tabled |-> (b \/ now), destroyed |-> d]
  BY <1>1
<1>3. (m.tabled <=> b) /\ m.destroyed = d /\ m.memory = a
  BY <1>1, Zenon
<1>4. n.memory = a /\ n.destroyed = d
  BY ONLY <1>2, MadeOf, Zenon
<1>5. n.tabled <=> b \/ now
  BY ONLY <1>2, MadeOf, Zenon
<1>6. n \in MadeObjects
  BY <1>1, <1>2 DEF MadeObjects
<1> QED
  BY <1>3, <1>4, <1>5, <1>6 DEF Looks

LEMMA LooksDestroyed ==
  ASSUME NEW memory, NEW tabled, NEW destroyed, NEW m, Looks(m, memory, tabled, destroyed),
         NEW n, n = [m EXCEPT !.destroyed = @ + 1]
  PROVE  Looks(n, memory, tabled, destroyed + 1)
<1>1. PICK a, b, d : /\ m = [memory |-> a, tabled |-> b, destroyed |-> d]
                     /\ a \in {"none", "raw", "built"} /\ b \in BOOLEAN /\ d \in Nat
  BY DEF Looks, MadeObjects
<1>2. n = [memory |-> a, tabled |-> b, destroyed |-> d + 1]
  BY <1>1
<1>3. (m.tabled <=> b) /\ m.destroyed = d /\ m.memory = a
  BY <1>1, Zenon
<1>4. n.memory = a /\ n.destroyed = d + 1
  BY ONLY <1>2, MadeOf, Zenon
<1>5. n.tabled <=> b
  BY ONLY <1>2, MadeOf, Zenon
<1>6. n \in MadeObjects
  BY <1>1, <1>2 DEF MadeObjects
<1> QED
  BY <1>3, <1>4, <1>5, <1>6 DEF Looks

--------------------------------------------------------------------------------
(* Before the function has run *)

Early == {"start", "match", "check", "run", "push"}

LEMMA SlotsTyped ==
  ASSUME NEW c, NEW k, NEW s, Slots(c, k, s), NEW found, k = 1 => s[1] = Entry(found, 0),
         NEW j \in 1 .. Len(s)
  PROVE  s[j].from \in 0 .. Len(c.args)
<1>1. Len(c.args) \in Nat /\ k \in {0, 1} /\ Len(s) = Len(c.args) + k
  BY DEF Slots
<1>2. CASE k = 1 /\ j = 1
  BY <1>1, <1>2 DEF Entry
<1>3. CASE ~(k = 1 /\ j = 1)
  <2>1. PICK i \in 1 .. Len(c.args) : j = i + k
    <3>1. j - k \in 1 .. Len(c.args) /\ j = (j - k) + k
      BY <1>1, <1>3
    <3> QED
      BY <3>1
  <2>2. s[j] = Entry(c.args[i], i)
    BY <2>1 DEF Slots
  <2> QED
    BY <2>2, <1>1 DEF Entry
<1> QED
  BY <1>2, <1>3

LEMMA EarlyHolds ==
  call \in Menu /\ CornersOf(call) = {} /\ pc \in Early /\ Untouched /\ Searching => CallInv
<1> SUFFICES ASSUME call \in Menu, CornersOf(call) = {}, pc \in Early, Untouched, Searching
             PROVE  CallInv
  OBVIOUS
<1>1. StackTyped
  <2>1. ASSUME NEW j \in 1 .. Len(stack) PROVE stack[j].from \in Keepers(call)
    <3>1. PICK k : k = IF Begun THEN 1 ELSE 0
      OBVIOUS
    <3>2. PICK found : found = IF call.how = "initializers" THEN "T" ELSE "bare"
      OBVIOUS
    <3>3. Slots(call, k, stack) /\ (k = 1 => stack[1] = Entry(found, 0))
      BY <3>1, <3>2 DEF Untouched
    <3> QED
      BY <3>3, SlotsTyped DEF Keepers
  <2>2. \A j \in 1 .. Len(stack) : stack[j].from # -1
    BY <2>1 DEF Keepers
  <2> QED
    BY <2>1, <2>2 DEF StackTyped, Untouched
<1>2. MadeTyped
  BY DEF Untouched, Looks, MadeTyped, Memory
<1>3. uses \in [Keepers(call) -> SUBSET Keepers(call)] /\ dead = {} /\ outcome = "none"
  BY DEF Untouched, Idle
<1>4. CallTyped
  BY <1>1, <1>2, <1>3 DEF CallTyped, Stages, Early
<1>5. Returned /\ Over
  BY <1>3 DEF Returned, Over, Early
<1> QED
  BY <1>4, <1>5 DEF CallInv, Early

LEMMA CallStarts ==
  ASSUME CallCorners = {}
  PROVE  CallsInit => CallInv
<1> SUFFICES ASSUME CallsInit PROVE CallInv
  OBVIOUS
<1>1. call \in Menu /\ CornersOf(call) = {}
  BY DEF CallsInit
<1>2. Ordinary(call)
  BY <1>1, NoCorners
<1>3. ~Begun /\ pc \in Early
  BY DEF CallsInit, Begun, Early
<1>4. Slots(call, 0, stack) /\ Sequence(stack)
  <2>1. call.args \in Seq(ArgumentKinds) /\ \A i \in 1 .. Len(call.args) : call.args[i] # "bare"
    BY <1>2 DEF Ordinary
  <2>2. PICK N \in Nat : N = Len(call.args)
    BY <2>1
  <2>3. stack = [i \in 1 .. N |-> Entry(call.args[i], i)]
    BY <2>1, <2>2 DEF CallsInit
  <2>4. PICK S : S = {Entry(call.args[i], i) : i \in 1 .. N}
    OBVIOUS
  <2>5. stack \in Seq(S) /\ Len(stack) = N
    BY <2>3, <2>4
  <2>6. \A i \in 1 .. N : stack[i + 0] = Entry(call.args[i], i)
    BY <2>3
  <2>7. DOMAIN stack = 1 .. N
    BY <2>3
  <2> QED
    BY <2>1, <2>2, <2>5, <2>6, <2>7 DEF Slots, Sequence
<1>5. Looks(made, "none", FALSE, 0)
  BY LooksSo, Zenon DEF CallsInit, Unmade
<1>6. Untouched
  BY <1>3, <1>4, <1>5 DEF Untouched, CallsInit, Memory, Idle, Keepers
<1>7. Searching
  BY DEF Searching, CallsInit
<1> QED
  BY <1>1, <1>3, <1>6, <1>7, EarlyHolds

(* Nothing stays in the registry where Lua unwinds the C++ frames. *)
LEMMA EndedAs ==
  ASSUME CallCorners = {}, NEW how, NEW thrown, Ended(how, thrown)
  PROVE  /\ pc' = "ended" /\ outcome' = how /\ ~pinned'
         /\ stack' = IF how = "returned" THEN <<Top>> ELSE << >>
  BY DEF Ended

(* A call without a candidate that fits ends in an error, and so does one of a *)
(* member whose self is no object.                                             *)
LEMMA FailEnds ==
  ASSUME CallCorners = {}, CallInv, Untouched, pc \in {"start", "match", "check"}, ~made.tabled, Fail,
         \/ \A j \in 1 .. Len(call.sigs) : ~Fits(call, call.sigs[j])
         \/ call.how \in {"method", "setter"} /\ ArgAt(call, 1) \notin ClassKinds
  PROVE  CallInv'
<1>1. /\ pc' = "ended" /\ outcome' = "error" /\ stack' = << >> /\ ~pinned'
      /\ call' = call /\ made' = made /\ dead' = dead /\ uses' = uses /\ threw' = threw
  BY EndedAs DEF Fail
<1>2. made.memory # "built"
  BY DEF Untouched, Looks, Memory
<1>3. StackTyped'
  <2>1. Sequence(<< >>)
    BY DEF Sequence
  <2> QED
    BY <1>1, <2>1 DEF StackTyped
<1>4. MadeTyped'
  BY <1>1 DEF CallInv, CallTyped, MadeTyped
<1>5. CallTyped'
  BY <1>1, <1>3, <1>4 DEF CallInv, CallTyped, Stages
<1>6. Searching' /\ Returned'
  BY <1>1 DEF Searching, Returned
<1>7. Over'
  BY <1>1, <1>2 DEF Over
<1> QED
  BY <1>1, <1>5, <1>6, <1>7 DEF CallInv

LEMMA MembersStart ==
  ASSUME CallCorners = {}, CallInv, StartMember
  PROVE  CallInv'
<1>1. call \in Menu /\ CornersOf(call) = {} /\ pc = "start" /\ Untouched /\ Searching
  BY DEF StartMember, CallInv, CallTyped
<1>2. Ordinary(call)
  BY <1>1, NoCorners
<1>3. ~Constructing(call) /\ ~Resolves(call) /\ ~Begun
  BY <1>1 DEF StartMember, Constructing, Resolves, Begun
<1>4. Slots(call, 0, stack)
  BY <1>1, <1>3 DEF Untouched
<1>5. CASE KindAt(stack, 1) \in Accepts("class*") \ {"nil"}
  <2>1. /\ pc' = "check"
        /\ UNCHANGED <<call, stack, cand, made, pinned, uses, dead, threw, outcome>>
    BY <1>5 DEF StartMember
  <2>2. Untouched'
    <3>1. ~Begun'
      BY <1>3, <2>1 DEF Begun, Constructing
    <3> QED
      BY <1>1, <1>3, <2>1, <3>1 DEF Untouched, Looks, Memory, Idle, Keepers
  <2>3. Searching'
    <3>1. cand = 1 /\ Len(call.sigs) = 1
      BY <1>1, <1>2, <1>3 DEF Searching, Ordinary
    <3>2. ~Resolves(call)'
      BY <1>3, <2>1 DEF Resolves, Constructing
    <3>3. NoneBefore'
      BY <2>1, <3>1 DEF NoneBefore
    <3> QED
      BY <2>1, <3>1, <3>2, <3>3 DEF Searching
  <2>4. (call \in Menu /\ CornersOf(call) = {} /\ pc \in Early /\ Untouched /\ Searching)'
    BY <1>1, <2>1, <2>2, <2>3 DEF Early
  <2> QED
    BY <2>4, EarlyHolds, PTL
<1>6. CASE ~(KindAt(stack, 1) \in Accepts("class*") \ {"nil"})
  <2>1. Fail
    BY <1>6 DEF StartMember
  <2>2. KindAt(stack, 1) = ArgAt(call, 1)
    <3>1. Aligned(call, 0, 1, 0)
      BY DEF Aligned
    <3> QED
      BY <1>4, <3>1, SlotSeen
  <2>3. ArgAt(call, 1) \notin ClassKinds
    <3>1. Accepts("class*") = ClassKinds \cup {"bare", "nil"}
      BY DEF Accepts, AcceptsObject, Transparent, References
    <3> QED
      BY <1>6, <2>2, <3>1 DEF ClassKinds
  <2>4. ~made.tabled
    BY <1>1, <1>3 DEF Untouched, Looks
  <2>5. call.how \in {"method", "setter"}
    BY DEF StartMember
  <2> QED
    BY <1>1, <2>1, <2>3, <2>4, <2>5, FailEnds
<1> QED
  BY <1>5, <1>6

LEMMA FunctionsStart ==
  ASSUME CallInv, StartFunction
  PROVE  CallInv'
<1>1. call \in Menu /\ CornersOf(call) = {} /\ pc = "start" /\ Untouched /\ Searching
  BY DEF StartFunction, CallInv, CallTyped
<1>2. Ordinary(call)
  BY <1>1, NoCorners
<1>3. /\ pc' = IF Resolves(call) THEN "match" ELSE "check"
      /\ UNCHANGED <<call, stack, cand, made, pinned, uses, dead, threw, outcome>>
  BY DEF StartFunction
<1>4. ~Begun /\ ~Begun'
  BY <1>1, <1>3 DEF Begun, StartFunction, Constructing, Resolves
<1>5. Untouched'
  BY <1>1, <1>3, <1>4 DEF Untouched, Looks, Memory, Idle, Keepers
<1>6. Searching'
  <2>1. cand = 1
    BY <1>1 DEF Searching
  <2>2. Resolves(call)' <=> Resolves(call)
    BY <1>3 DEF Resolves, Constructing
  <2>3. NoneBefore'
    BY <1>3, <2>1 DEF NoneBefore
  <2>4. Len(call.sigs) \in Nat \ {0} /\ (~Resolves(call) => Len(call.sigs) = 1)
    BY <1>2 DEF Ordinary
  <2> QED
    BY <1>3, <2>1, <2>2, <2>3, <2>4 DEF Searching
<1>7. (call \in Menu /\ CornersOf(call) = {} /\ pc \in Early /\ Untouched /\ Searching)'
  BY <1>1, <1>3, <1>5, <1>6 DEF Early
<1> QED
  BY <1>7, EarlyHolds, PTL

LEMMA Prepended ==
  ASSUME NEW T, NEW s \in Seq(T), NEW one \in Seq(T), Len(one) = 1
  PROVE  /\ one \o s \in Seq(T) /\ Len(one \o s) = Len(s) + 1 /\ (one \o s)[1] = one[1]
         /\ \A i \in 1 .. Len(s) : (one \o s)[i + 1] = s[i]
<1>1. /\ one \o s \in Seq(T) /\ Len(one \o s) = Len(one) + Len(s)
      /\ \A i \in 1 .. Len(one) + Len(s) : (one \o s)[i] = IF i <= Len(one) THEN one[i] ELSE s[i - Len(one)]
  BY ONLY one \in Seq(T), s \in Seq(T), ConcatProperties
<1>2. Len(s) \in Nat
  OBVIOUS
<1>3. (one \o s)[1] = one[1]
  BY <1>1, <1>2
<1>4. ASSUME NEW i \in 1 .. Len(s) PROVE (one \o s)[i + 1] = s[i]
  <2>1. i + 1 \in 1 .. 1 + Len(s) /\ ~(i + 1 <= 1) /\ (i + 1) - 1 = i
    BY <1>2
  <2> QED
    BY <1>1, <2>1
<1> QED
  BY <1>1, <1>2, <1>3, <1>4

(* The new object goes below the arguments. *)
LEMMA PutBelow ==
  ASSUME NEW c, NEW s, Slots(c, 0, s), Sequence(s), NEW found, NEW t, t = <<Entry(found, 0)>> \o s
  PROVE  Slots(c, 1, t) /\ Sequence(t) /\ t[1] = Entry(found, 0)
<1>1. PICK S : s \in Seq(S)
  BY DEF Sequence
<1>2. PICK T : T = S \cup {Entry(found, 0)}
  OBVIOUS
<1>3. PICK e : e = Entry(found, 0)
  OBVIOUS
<1>4. <<e>> \in Seq(T) /\ s \in Seq(T) /\ Len(<<e>>) = 1
  BY <1>1, <1>2, <1>3
<1>5. PICK N \in Nat : N = Len(s) /\ N = Len(c.args)
  BY <1>1 DEF Slots
<1>6. t \in Seq(T) /\ Len(t) = N + 1 /\ t[1] = e /\ \A i \in 1 .. N : t[i + 1] = s[i]
  <2>1. PICK one : one = <<e>>
    OBVIOUS
  <2>2. one \in Seq(T) /\ Len(one) = 1 /\ one[1] = e
    BY <1>4, <2>1
  <2>3. t = one \o s
    BY <1>3, <2>1
  <2>4. s \in Seq(T)
    BY <1>4
  <2>5. /\ one \o s \in Seq(T) /\ Len(one \o s) = Len(s) + 1 /\ (one \o s)[1] = one[1]
        /\ \A i \in 1 .. Len(s) : (one \o s)[i + 1] = s[i]
    BY ONLY <2>2, <2>4, Prepended
  <2> QED
    BY <1>5, <2>2, <2>3, <2>5
<1>7. \A i \in 1 .. N : s[i] = Entry(c.args[i], i)
  <2>1. \A i \in 1 .. N : i + 0 = i
    OBVIOUS
  <2> QED
    BY <1>5, <2>1 DEF Slots
<1>8. DOMAIN t = 1 .. Len(t)
  BY <1>6
<1> QED
  BY <1>3, <1>5, <1>6, <1>7, <1>8 DEF Slots, Sequence

LEMMA ConstructorsStart ==
  ASSUME CallInv, StartConstructing
  PROVE  CallInv'
<1>1. call \in Menu /\ CornersOf(call) = {} /\ pc = "start" /\ Untouched /\ Searching
  BY DEF StartConstructing, CallInv, CallTyped
<1>2. Ordinary(call)
  BY <1>1, NoCorners
<1>3. call.how = "constructors" /\ Constructing(call) /\ Resolves(call)
  BY <1>2 DEF StartConstructing, Ordinary, Hows, Constructing, Resolves
<1>4. /\ pc' = "match" /\ pinned' = TRUE
      /\ made' = [memory |-> "raw", tabled |-> FALSE, destroyed |-> 0]
      /\ stack' = <<Entry("bare", 0)>> \o stack
      /\ UNCHANGED <<call, cand, uses, dead, threw, outcome>>
  BY DEF StartConstructing, Allocated
<1>5. ~Begun /\ Begun'
  BY <1>1, <1>3, <1>4 DEF Begun, Constructing
<1>6. Slots(call, 1, stack') /\ Sequence(stack') /\ stack'[1] = Entry("bare", 0)
  BY <1>1, <1>4, <1>5, PutBelow DEF Untouched
<1>7. Looks(made', "raw", FALSE, 0)
  BY <1>4, LooksSo, Zenon
<1>8. Untouched'
  BY <1>1, <1>3, <1>4, <1>5, <1>6, <1>7 DEF Untouched, Looks, Memory, Idle, Keepers
<1>9. Searching'
  <2>1. cand = 1
    BY <1>1 DEF Searching
  <2>2. Resolves(call)'
    BY <1>3, <1>4
  <2>3. NoneBefore'
    BY <1>4, <2>1 DEF NoneBefore
  <2>4. Len(call.sigs) \in Nat \ {0}
    BY <1>2 DEF Ordinary
  <2> QED
    BY <1>4, <2>1, <2>2, <2>3, <2>4 DEF Searching
<1>10. (call \in Menu /\ CornersOf(call) = {} /\ pc \in Early /\ Untouched /\ Searching)'
  BY <1>1, <1>4, <1>8, <1>9 DEF Early
<1> QED
  BY <1>10, EarlyHolds, PTL

--------------------------------------------------------------------------------
(* Finding the candidate *)

LEMMA StartsAre ==
  ASSUME NEW c, Ordinary(c)
  PROVE  /\ Resolves(c) => /\ MatchStart(c) = Skipped(c) + 1 + (IF c.how = "constructors" THEN 1 ELSE 0)
                           /\ ArgCount(c) = Len(c.args) - Skipped(c)
         /\ CallStart(c) = Skipped(c) + 1 + (IF Constructing(c) THEN 1 ELSE 0)
<1>1. PICK how \in Hows : how = c.how
  BY DEF Ordinary
<1>2. Syntax(c) = IF c.args # << >> /\ c.args[1] = "class" THEN 1 ELSE 0
  BY <1>1 DEF Syntax, Hows
<1>3. PICK y \in {0, 1} : y = Syntax(c)
  BY <1>2
<1>4. Len(c.args) \in Nat
  BY DEF Ordinary
<1>5. CASE how \in {"function", "protect", "method", "setter"}
  <2>1. CallStart(c) = Skipped(c) + 1 /\ ~Constructing(c)
    BY <1>1, <1>5 DEF Constructing, CallStart, Skipped
  <2>2. ~Resolves(c)
    BY <1>1, <1>5, <2>1 DEF Resolves
  <2> QED
    BY <2>1, <2>2, SkippedIs
<1>6. CASE how = "overload"
  <2>1. Skipped(c) = 0 /\ MatchStart(c) = 1 /\ CallStart(c) = 1 /\ ArgCount(c) = Len(c.args)
    BY <1>1, <1>6 DEF CallStart, Skipped, MatchStart, ArgCount, Constructing
  <2> QED
    BY <1>1, <1>4, <1>6, <2>1 DEF Constructing
<1>7. CASE how = "factories"
  <2>1. Skipped(c) = 1 /\ MatchStart(c) = 2 /\ CallStart(c) = 2 /\ ArgCount(c) = Len(c.args) - 1
    BY <1>1, <1>7 DEF CallStart, Skipped, MatchStart, ArgCount, Constructing
  <2> QED
    BY <1>1, <1>4, <1>7, <2>1 DEF Constructing
<1>8. CASE how = "constructors"
  <2>1. Skipped(c) = y /\ MatchStart(c) = 2 + y /\ CallStart(c) = 2 + y /\ ArgCount(c) = Len(c.args) - y
    BY <1>1, <1>2, <1>3, <1>8 DEF CallStart, Skipped, MatchStart, ArgCount, Constructing
  <2> QED
    BY <1>1, <1>3, <1>4, <1>8, <2>1 DEF Constructing
<1>9. CASE how = "initializers"
  <2>1. Skipped(c) = y /\ MatchStart(c) = 1 + y /\ CallStart(c) = 1 + y + 1 /\ ArgCount(c) = Len(c.args) - y
    BY <1>1, <1>2, <1>3, <1>9 DEF CallStart, Skipped, MatchStart, ArgCount, Constructing
  <2> QED
    BY <1>1, <1>3, <1>4, <1>9, <2>1 DEF Constructing
<1> QED
  BY <1>1, <1>5, <1>6, <1>7, <1>8, <1>9 DEF Hows

LEMMA WalkIs == Walk.left = << >> /\ Walk.ok /\ ~Walk.silent
  BY Zenon DEF Walk, Walked

(* What a call looks at for candidate sig. *)
Compared(c, sig, s) ==
  IF ~(Len(c.sigs) = 1) /\ (RuntimeVariadics(sig) \/ FreeArity(sig) = ArgCount(c))
  THEN CheckTypes(sig, s, MatchStart(c)) ELSE Walk

(* A candidate is refused just if it does not fit, except that of a sole one   *)
(* only the number of the arguments is looked at.                              *)
LEMMA MatchFinds ==
  ASSUME NEW c, Ordinary(c), Resolves(c), NEW s,
         Slots(c, IF c.how = "constructors" THEN 1 ELSE 0, s),
         NEW j \in 1 .. Len(c.sigs), NEW sig, sig = c.sigs[j],
         NEW w, w = Compared(c, sig, s),
         NEW refused, refused <=> Refused(sig, ArgCount(c), Len(c.sigs) = 1, w)
  PROVE  /\ w.left = << >>
         /\ refused => ~Fits(c, sig)
         /\ ~refused => IF Len(c.sigs) = 1 THEN RuntimeVariadics(sig) \/ FreeArity(sig) = ArgCount(c)
                        ELSE Fits(c, sig)
<1> DEFINE counted == RuntimeVariadics(sig) \/ FreeArity(sig) = ArgCount(c)
           all == \A p \in 1 .. Len(sig) : Suits(c, sig, p)
<1>1. Straight(sig) /\ DOMAIN sig = 1 .. Len(sig)
  BY DEF Ordinary, Straight
<1>2. Fits(c, sig) <=> counted /\ all
  <2>1. ArgCount(c) = Len(c.args) - Skipped(c)
    BY StartsAre
  <2> QED
    BY <1>1, <2>1 DEF Fits
<1>3. CASE Len(c.sigs) # 1 /\ counted
  <2>1. w = CheckTypes(sig, s, MatchStart(c))
    BY <1>3 DEF Compared
  <2>2. MatchStart(c) = Skipped(c) + 1 + (IF c.how = "constructors" THEN 1 ELSE 0)
    BY StartsAre
  <2>3. w.left = << >> /\ (w.ok <=> all)
    BY <1>1, <2>1, <2>2, ListChecked
  <2>4. refused <=> ~w.ok
    BY <1>3 DEF Refused
  <2> QED
    BY <1>2, <1>3, <2>3, <2>4
<1>4. CASE Len(c.sigs) = 1 \/ ~counted
  <2>1. w = Walk
    BY <1>4 DEF Compared
  <2>2. w.left = << >>
    BY <2>1, WalkIs
  <2>3. refused <=> ~counted \/ (Len(c.sigs) # 1 /\ ~w.ok)
    BY Zenon DEF Refused
  <2> QED
    BY <1>2, <1>4, <2>2, <2>3
<1> QED
  BY <1>3, <1>4

LEMMA NothingAdded ==
  ASSUME NEW s, Sequence(s)
  PROVE  s \o << >> = s
<1>1. PICK S : s \in Seq(S)
  BY DEF Sequence
<1> QED
  BY <1>1, ConcatEmptySeq

LEMMA CandidatesMatch ==
  ASSUME CallInv, Match
  PROVE  CallInv'
<1>1. call \in Menu /\ CornersOf(call) = {} /\ pc = "match" /\ Untouched /\ Searching /\ cand \in DOMAIN call.sigs
  BY DEF Match, CallInv, CallTyped
<1>2. Ordinary(call)
  BY <1>1, NoCorners
<1>3. Resolves(call) /\ cand \in 1 .. Len(call.sigs) /\ NoneBefore /\ Len(call.sigs) \in Nat
  BY <1>1, <1>2 DEF Searching, Ordinary
<1>4. PICK k : k = IF call.how = "constructors" THEN 1 ELSE 0
  OBVIOUS
<1>5. /\ Begun <=> call.how = "constructors"
      /\ k = 1 <=> Begun
  BY <1>1, <1>2, <1>4 DEF Begun, Ordinary, Hows, Constructing
<1>6. Slots(call, k, stack) /\ Sequence(stack)
  BY <1>1, <1>4, <1>5 DEF Untouched
<1>7. PICK sig, w : sig = call.sigs[cand] /\ w = Compared(call, sig, stack)
  OBVIOUS
<1>8. PICK refused \in BOOLEAN : refused <=> Refused(sig, ArgCount(call), Len(call.sigs) = 1, w)
  OBVIOUS
<1>9. /\ w.left = << >>
      /\ refused => ~Fits(call, sig)
      /\ ~refused => IF Len(call.sigs) = 1 THEN RightCount(sig) ELSE Fits(call, sig)
  <2>1. Slots(call, IF call.how = "constructors" THEN 1 ELSE 0, stack)
    BY <1>4, <1>6
  <2>2. /\ w.left = << >>
        /\ refused => ~Fits(call, sig)
        /\ ~refused => IF Len(call.sigs) = 1 THEN RuntimeVariadics(sig) \/ FreeArity(sig) = ArgCount(call)
                       ELSE Fits(call, sig)
    BY ONLY <1>2, <1>3, <1>7, <1>8, <2>1, MatchFinds
  <2> QED
    BY <2>2 DEF RightCount
<1>10. /\ IF refused
          THEN /\ cand' = cand + 1
               /\ stack' = stack \o w.left
               /\ UNCHANGED <<pc, made, pinned>>
          ELSE /\ pc' = "check"
               /\ cand' = cand
               /\ IF call.how = "initializers" THEN Allocated(TRUE)
                  ELSE stack' = stack \o w.left /\ UNCHANGED <<made, pinned>>
       /\ UNCHANGED <<call, uses, dead, threw, outcome>>
  BY <1>7, <1>8, Zenon DEF Match, Compared, RightCount
<1>11. stack \o w.left = stack
  BY <1>6, <1>9, NothingAdded
<1>12. pc' \in Early
  BY <1>1, <1>10 DEF Early
<1>13. Searching'
  <2>1. Resolves(call)' <=> Resolves(call)
    BY <1>10 DEF Resolves, Constructing
  <2>2. CASE refused
    <3>1. NoneBefore'
      <4>1. ASSUME NEW j \in 1 .. cand' - 1 PROVE ~Fits(call, call.sigs[j])
        <5>1. j \in 1 .. cand - 1 \/ j = cand
          BY <1>3, <1>10, <2>2
        <5> QED
          BY <1>3, <1>7, <1>9, <2>2, <5>1 DEF NoneBefore
      <4> QED
        BY <1>10, <4>1 DEF NoneBefore
    <3>2. pc' = "match" /\ cand' = cand + 1 /\ call' = call
      BY <1>1, <1>10, <2>2
    <3> QED
      BY <1>3, <2>1, <3>1, <3>2 DEF Searching
  <2>3. CASE ~refused
    <3>1. NoneBefore'
      BY <1>3, <1>10, <2>3 DEF NoneBefore
    <3>2. pc' = "check" /\ cand' = cand /\ call' = call
      BY <1>10, <2>3
    <3>3. IF Len(call.sigs) = 1 THEN Resolves(call)' => RightCount(call.sigs[cand])'
          ELSE Fits(call, call.sigs[cand])
      BY <1>7, <1>9, <2>3, <3>2 DEF RightCount
    <3> QED
      BY <1>3, <3>1, <3>2, <3>3 DEF Searching
  <2> QED
    BY <2>2, <2>3
<1>14. Untouched'
  <2>1. CASE refused \/ call.how # "initializers"
    <3>1. stack' = stack /\ UNCHANGED <<call, made, pinned, uses, dead, threw, outcome>> /\ pc' \in {"match", "check"}
      BY <1>1, <1>10, <1>11, <2>1
    <3>2. Begun' <=> Begun
      BY <1>1, <1>10, <2>1, <3>1 DEF Begun, Constructing
    <3> QED
      BY <1>1, <3>1, <3>2 DEF Untouched, Looks, Memory, Idle, Keepers
  <2>2. CASE ~refused /\ call.how = "initializers"
    <3>1. /\ stack' = <<Entry("T", 0)>> \o stack /\ pinned' = TRUE /\ pc' = "check"
          /\ made' = [memory |-> "raw", tabled |-> TRUE, destroyed |-> 0]
          /\ UNCHANGED <<call, uses, dead, threw, outcome>>
      BY <1>10, <2>2 DEF Allocated
    <3>2. ~Begun /\ Begun'
      BY <1>1, <2>2, <3>1 DEF Begun, Constructing
    <3>3. Slots(call, 1, stack') /\ Sequence(stack') /\ stack'[1] = Entry("T", 0)
      BY <1>1, <3>1, <3>2, PutBelow DEF Untouched
    <3>4. Looks(made', "raw", TRUE, 0)
      BY <3>1, LooksSo, Zenon
    <3> QED
      BY <1>1, <2>2, <3>1, <3>2, <3>3, <3>4 DEF Untouched, Looks, Memory, Idle, Keepers
  <2> QED
    BY <2>1, <2>2
<1>15. (call \in Menu /\ CornersOf(call) = {} /\ pc \in Early /\ Untouched /\ Searching)'
  BY <1>1, <1>10, <1>12, <1>13, <1>14
<1> QED
  BY <1>15, EarlyHolds, PTL

LEMMA NoneMatches ==
  ASSUME CallCorners = {}, CallInv, NoMatch
  PROVE  CallInv'
<1>1. /\ call \in Menu /\ CornersOf(call) = {} /\ pc = "match" /\ Untouched /\ Searching
      /\ cand \notin DOMAIN call.sigs /\ Fail
  BY DEF NoMatch, CallInv, CallTyped
<1>2. Ordinary(call)
  BY <1>1, NoCorners
<1>3. \A j \in 1 .. Len(call.sigs) : ~Fits(call, call.sigs[j])
  <2>1. cand \in 1 .. Len(call.sigs) + 1 /\ NoneBefore /\ cand \notin 1 .. Len(call.sigs) /\ Len(call.sigs) \in Nat
    BY <1>1, <1>2 DEF Searching, Ordinary
  <2>2. cand - 1 = Len(call.sigs)
    BY <2>1
  <2> QED
    BY <2>1, <2>2 DEF NoneBefore
<1>4. ~made.tabled
  BY <1>1 DEF Untouched, Looks, Begun
<1> QED
  BY <1>1, <1>3, <1>4, FailEnds

--------------------------------------------------------------------------------
(* Checking and running it *)

LEMMA CallsCheck ==
  ASSUME CallCorners = {}, CallInv, Check
  PROVE  CallInv'
<1>1. call \in Menu /\ CornersOf(call) = {} /\ pc = "check" /\ Untouched /\ Searching
  BY DEF Check, CallInv, CallTyped
<1>2. Ordinary(call)
  BY <1>1, NoCorners
<1>3. cand \in 1 .. Len(call.sigs) /\ NoneBefore
  BY <1>1 DEF Searching
<1>4. PICK sig : sig = call.sigs[cand]
  OBVIOUS
<1>5. Straight(sig) /\ DOMAIN sig = 1 .. Len(sig)
  BY <1>2, <1>3, <1>4 DEF Ordinary, Straight
<1>6. PICK k : k = IF Constructing(call) THEN 1 ELSE 0
  OBVIOUS
<1>7. Begun <=> Constructing(call)
  BY <1>1 DEF Begun
<1>8. Slots(call, k, stack) /\ Sequence(stack)
  BY <1>1, <1>6, <1>7 DEF Untouched
<1>9. CallStart(call) = Skipped(call) + 1 + k
  BY <1>2, <1>6, StartsAre
<1>10. PICK w : w = CheckTypes(sig, stack, CallStart(call))
  OBVIOUS
<1>11. /\ w.left = << >>
       /\ w.ok <=> \A p \in 1 .. Len(sig) : Suits(call, sig, p)
       /\ w.silent => \E p \in 1 .. Len(sig) : sig[p].name = "optional" /\ ~Suits(call, sig, p)
  BY <1>5, <1>8, <1>9, <1>10, ListChecked
<1>12. PICK raises \in BOOLEAN : raises <=> ~w.ok /\ ~w.silent
  OBVIOUS
<1>13. IF raises THEN Fail
       ELSE /\ pc' = "run"
            /\ stack' = stack \o w.left
            /\ got' = GetTypes(sig, stack', CallStart(call))
            /\ UNCHANGED <<call, cand, made, pinned, uses, dead, threw, outcome>>
  <2>1. Checked
    BY DEF Checked
  <2> QED
    BY <1>4, <1>10, <1>12, <2>1, Zenon DEF Check, Raises
<1>14. Fits(call, sig) => \A p \in 1 .. Len(sig) : Suits(call, sig, p)
  BY <1>5 DEF Fits
<1>15. Len(call.sigs) # 1 => Fits(call, sig)
  BY <1>1, <1>4 DEF Searching
<1>16. Len(call.sigs) = 1 => cand = 1 /\ SoleServes(call)
  BY <1>2, <1>3 DEF Ordinary
<1>17. CASE raises
  <2>1. ~Fits(call, sig) /\ Len(call.sigs) = 1 /\ cand = 1
    BY <1>11, <1>12, <1>14, <1>15, <1>16, <1>17
  <2>2. \A j \in 1 .. Len(call.sigs) : ~Fits(call, call.sigs[j])
    BY <1>4, <2>1
  <2>3. call.how # "initializers"
    BY <1>4, <1>16, <2>1 DEF SoleServes
  <2>4. ~made.tabled
    BY <1>1, <2>3 DEF Untouched, Looks
  <2> QED
    BY <1>1, <1>13, <1>17, <2>2, <2>4, FailEnds
<1>18. CASE ~raises
  <2>1. ~w.silent
    <3>1. ASSUME w.silent PROVE FALSE
      <4>1. PICK p \in 1 .. Len(sig) : sig[p].name = "optional" /\ ~Suits(call, sig, p)
        BY <1>11, <3>1
      <4>2. Len(call.sigs) = 1 /\ sig = call.sigs[1]
        BY <1>4, <1>14, <1>15, <1>16, <4>1
      <4> QED
        BY <1>16, <4>1, <4>2 DEF SoleServes
    <3> QED
      BY <3>1
  <2>2. \A p \in 1 .. Len(sig) : Suits(call, sig, p)
    BY <1>11, <1>12, <1>18, <2>1
  <2>3. Fits(call, sig)
    <3>1. CASE Len(call.sigs) # 1
      BY <1>15, <3>1
    <3>2. CASE Len(call.sigs) = 1
      <4>1. Resolves(call) => RightCount(sig)
        BY <1>1, <1>4, <3>2 DEF Searching
      <4>2. Resolves(call) => RuntimeVariadics(sig) \/ FreeArity(sig) = Len(call.args) - Skipped(call)
        BY <1>2, <4>1, StartsAre DEF RightCount
      <4> QED
        BY <1>5, <2>2, <4>2 DEF Fits
    <3> QED
      BY <3>1, <3>2
  <2>4. stack' = stack
    BY <1>8, <1>11, <1>13, <1>18, NothingAdded
  <2>5. /\ pc' = "run" /\ got' = GetTypes(sig, stack', CallStart(call))
        /\ UNCHANGED <<call, cand, made, pinned, uses, dead, threw, outcome>>
    BY <1>13, <1>18
  <2>6. got' = [p \in 1 .. Len(sig) |-> Own(call, sig, p)]
    <3>1. GetTypes(sig, stack, CallStart(call)) = [p \in 1 .. Len(sig) |-> Own(call, sig, p)]
      BY <1>5, <1>8, <1>9, <2>2, ListRead
    <3> QED
      BY <2>4, <2>5, <3>1
  <2>7. Searching'
    <3>1. NoneBefore'
      BY <1>3, <2>5 DEF NoneBefore
    <3> QED
      BY <1>3, <1>4, <2>3, <2>5, <2>6, <3>1 DEF Searching
  <2>8. Untouched'
    <3>1. Begun' <=> Begun
      BY <1>1, <2>5 DEF Begun, Constructing
    <3> QED
      BY <1>1, <2>4, <2>5, <3>1 DEF Untouched, Looks, Memory, Idle, Keepers
  <2>9. (call \in Menu /\ CornersOf(call) = {} /\ pc \in Early /\ Untouched /\ Searching)'
    BY <1>1, <2>5, <2>7, <2>8 DEF Early
  <2> QED
    BY <2>9, EarlyHolds, PTL
<1> QED
  BY <1>17, <1>18

LEMMA FunctionsThrow ==
  ASSUME CallCorners = {}, CallInv, Throw
  PROVE  CallInv'
<1>1. call \in Menu /\ CornersOf(call) = {} /\ pc = "run" /\ Untouched
  BY DEF Throw, CallInv, CallTyped
<1>2. Caught(call) /\ call.how # "initializers"
  BY DEF Throw
<1>3. /\ pc' = "ended" /\ outcome' = "error" /\ stack' = << >> /\ ~pinned' /\ threw' = TRUE
      /\ call' = call /\ made' = made /\ dead' = dead /\ uses' = uses
  <2>1. Ended(IF Caught(call) THEN "error" ELSE "escaped", TRUE)
    BY DEF Throw, Thrown
  <2>2. Ended("error", TRUE)
    BY <1>2, <2>1
  <2>3. /\ pc' = "ended" /\ outcome' = "error" /\ ~pinned'
        /\ stack' = IF "error" = "returned" THEN <<Top>> ELSE << >>
    BY <2>2, EndedAs, Zenon
  <2> QED
    BY <2>3 DEF Throw, Thrown
<1>4. made.memory # "built" /\ ~made.tabled
  BY <1>1, <1>2 DEF Untouched, Looks, Memory
<1>5. StackTyped'
  <2>1. Sequence(<< >>)
    BY DEF Sequence
  <2> QED
    BY <1>3, <2>1 DEF StackTyped
<1>6. MadeTyped'
  BY <1>3 DEF CallInv, CallTyped, MadeTyped
<1>7. CallTyped'
  BY <1>3, <1>5, <1>6 DEF CallInv, CallTyped, Stages
<1>8. Searching' /\ Returned'
  BY <1>3 DEF Searching, Returned
<1>9. Over'
  BY <1>3, <1>4 DEF Over
<1> QED
  BY <1>3, <1>7, <1>8, <1>9 DEF CallInv

LEMMA FunctionsRun ==
  ASSUME CallInv, Run
  PROVE  CallInv'
<1>1. call \in Menu /\ CornersOf(call) = {} /\ pc = "run" /\ Untouched
  BY DEF Run, CallInv, CallTyped
<1>2. /\ pc' = "push"
      /\ made' = IF Constructing(call) THEN [made EXCEPT !.memory = "built"] ELSE made
      /\ UNCHANGED <<call, stack, pinned, uses, dead, threw, outcome>>
  BY DEF Run
<1>3. (Begun <=> Constructing(call)) /\ (Begun' <=> Begun)
  BY <1>1, <1>2 DEF Begun, Constructing
<1>4. Looks(made', IF Begun THEN "built" ELSE "none", Begun /\ call.how = "initializers", 0)
  <2>1. CASE Begun
    <3>1. Looks(made, "raw", call.how = "initializers", 0)
      BY <1>1, <2>1 DEF Untouched, Looks, Memory
    <3>2. made' = [made EXCEPT !.memory = "built"]
      BY <1>2, <1>3, <2>1
    <3>3. Looks(made', "built", call.how = "initializers", 0)
      BY ONLY <3>1, <3>2, LooksBuilt
    <3> QED
      BY <2>1, <3>3 DEF Looks
  <2>2. CASE ~Begun
    BY <1>1, <1>2, <1>3, <2>2 DEF Untouched, Looks, Memory
  <2> QED
    BY <2>1, <2>2
<1>5. Untouched'
  BY <1>1, <1>2, <1>3, <1>4 DEF Untouched, Looks, Memory, Idle, Keepers
<1>6. Searching'
  BY <1>2 DEF Searching
<1>7. (call \in Menu /\ CornersOf(call) = {} /\ pc \in Early /\ Untouched /\ Searching)'
  BY <1>1, <1>2, <1>5, <1>6 DEF Early
<1> QED
  BY <1>7, EarlyHolds, PTL

--------------------------------------------------------------------------------
(* Pushing the result *)

LEMMA LateHolds ==
  CallTyped /\ pc \in {"copy", "policies"} /\ Resulting => CallInv
<1> SUFFICES ASSUME CallTyped, pc \in {"copy", "policies"}, Resulting PROVE CallInv
  OBVIOUS
<1>1. outcome = "none"
  BY DEF Resulting
<1>2. Searching /\ Returned /\ Over
  BY <1>1 DEF Searching, Returned, Over
<1> QED
  BY <1>2 DEF CallInv

LEMMA PoliciesKeepStacks ==
  ASSUME NEW c, Ordinary(c), ~CleanStack(c)
  PROVE  Constructing(c) => c.how = "initializers"
  BY DEF Ordinary, Policied, CleanStack, Constructing, Hows

LEMMA MeantIs ==
  ASSUME NEW c, NEW i \in Nat \ {0}
  PROVE  Meant(c, i) \in Nat /\ i = Meant(c, i) + (IF Constructing(c) THEN 1 ELSE 0)
  BY DEF Meant

LEMMA TypedTop ==
  ASSUME StackTyped, stack # << >>
  PROVE  /\ Len(stack) \in Nat \ {0} /\ Top = stack[Len(stack)]
         /\ Top.from \in {-1} \cup Keepers(call) /\ (IsUserdata(Top) => Top.from # -1)
<1>1. PICK S : stack \in Seq(S)
  BY DEF StackTyped, Sequence
<1>2. Len(stack) \in Nat \ {0}
  BY <1>1
<1>3. Top = stack[Len(stack)]
  BY <1>1 DEF Top, Last
<1>4. Len(stack) \in 1 .. Len(stack)
  BY <1>2
<1> QED
  BY <1>2, <1>3, <1>4 DEF StackTyped

(* A value is pushed on the stack of the call, or on the cleaned one. *)
LEMMA PushedOn ==
  ASSUME StackTyped, NEW e, stack' = Append(Cleaned, e), UNCHANGED call,
         e.from \in {-1} \cup Keepers(call), IsUserdata(e) => e.from # -1
  PROVE  /\ StackTyped' /\ stack' # << >> /\ Top' = e
         /\ OnStack(e.from)'
         /\ ~CleanStack(call) => \A j \in 1 .. Len(stack) : j \in 1 .. Len(stack') /\ stack'[j] = stack[j]
<1>1. PICK s : s = Cleaned
  OBVIOUS
<1>2. Sequence(s)
  BY <1>1 DEF Cleaned, StackTyped, Sequence
<1>3. PICK S : s \in Seq(S)
  BY <1>2 DEF Sequence
<1>4. PICK N \in Nat : N = Len(s)
  BY <1>3
<1>5. /\ Sequence(stack') /\ Len(stack') = N + 1 /\ stack'[N + 1] = e
      /\ \A j \in 1 .. N : stack'[j] = s[j]
  BY <1>1, <1>2, <1>4, Appended
<1>6. stack' # << >>
  BY <1>5
<1>7. ASSUME NEW j \in 1 .. N
      PROVE  s[j].from \in {-1} \cup Keepers(call) /\ (IsUserdata(s[j]) => s[j].from # -1)
  <2>1. s = stack
    <3>1. s # << >>
      BY <1>3, <1>4
    <3> QED
      BY <1>1, <3>1 DEF Cleaned
  <2> QED
    BY <1>4, <2>1 DEF StackTyped
<1>8. StackTyped'
  <2>1. ASSUME NEW j \in 1 .. N + 1
        PROVE  stack'[j].from \in {-1} \cup Keepers(call) /\ (IsUserdata(stack'[j]) => stack'[j].from # -1)
    <3>1. CASE j = N + 1
      BY <1>5, <3>1
    <3>2. CASE j # N + 1
      <4>1. j \in 1 .. N
        BY <3>2
      <4> QED
        BY <1>5, <1>7, <4>1
    <3> QED
      BY <3>1, <3>2
  <2> QED
    BY <1>5, <2>1 DEF StackTyped, IsUserdata, Keepers
<1>9. Top' = e
  BY <1>5, <1>6 DEF Top, Last
<1>10. OnStack(e.from)'
  <2>1. N + 1 \in 1 .. Len(stack')
    BY <1>5
  <2> QED
    BY <1>5, <2>1 DEF OnStack
<1>11. ~CleanStack(call) => \A j \in 1 .. Len(stack) : j \in 1 .. Len(stack') /\ stack'[j] = stack[j]
  <2>1. ~CleanStack(call) => s = stack
    BY <1>1 DEF Cleaned
  <2> QED
    BY <1>4, <1>5, <2>1
<1> QED
  BY <1>6, <1>8, <1>9, <1>10, <1>11

LEMMA ArgumentsInPlaceYet ==
  ASSUME CallInv, pc = "push"
  PROVE  InPlace
<1>1. call \in Menu /\ CornersOf(call) = {} /\ Untouched
  BY DEF CallInv, CallTyped
<1>2. Ordinary(call)
  BY <1>1, NoCorners
<1>3. Begun <=> Constructing(call)
  BY DEF Begun
<1>4. PICK k \in {0, 1} : k = IF Constructing(call) THEN 1 ELSE 0
  OBVIOUS
<1>5. Slots(call, k, stack)
  BY <1>1, <1>3, <1>4 DEF Untouched
<1>6. PICK N \in Nat : N = Len(call.args)
  BY <1>2 DEF Ordinary
<1> SUFFICES ASSUME ~CleanStack(call)
             PROVE  /\ \A i \in Nat \ {0} : Meant(call, i) \in Keepers(call) =>
                         i \in 1 .. Len(stack) /\ stack[i].from = Meant(call, i)
                    /\ Constructing(call) => stack[1] = Entry("T", 0)
  BY DEF InPlace
<1>7. Constructing(call) => stack[1] = Entry("T", 0)
  BY <1>1, <1>2, <1>3, PoliciesKeepStacks DEF Untouched
<1>8. ASSUME NEW i \in Nat \ {0}, Meant(call, i) \in Keepers(call)
      PROVE  i \in 1 .. Len(stack) /\ stack[i].from = Meant(call, i)
  <2>1. PICK m \in 0 .. N : m = Meant(call, i)
    BY <1>6, <1>8 DEF Keepers
  <2>2. i = m + k
    BY <1>4, <2>1, MeantIs
  <2>3. Len(stack) = N + k
    BY <1>5, <1>6 DEF Slots
  <2>4. CASE m = 0
    <3>1. k = 1 /\ i = 1
      BY <1>4, <2>2, <2>4
    <3>2. stack[1] = Entry("T", 0)
      BY <1>4, <1>7, <3>1
    <3>3. stack[1].from = 0
      BY <3>2 DEF Entry
    <3>4. 1 \in 1 .. Len(stack)
      BY <2>3, <3>1
    <3> QED
      BY <2>1, <2>4, <3>1, <3>3, <3>4
  <2>5. CASE m # 0
    <3>1. m \in 1 .. N
      BY <2>5
    <3>2. stack[m + k] = Entry(call.args[m], m)
      BY <1>5, <1>6, <3>1 DEF Slots
    <3>3. stack[m + k].from = m
      BY <3>2 DEF Entry
    <3>4. m + k \in 1 .. Len(stack)
      BY <2>3, <3>1
    <3> QED
      BY <2>1, <2>2, <3>3, <3>4
  <2> QED
    BY <2>4, <2>5
<1> QED
  BY <1>7, <1>8

LEMMA MadeKeeps ==
  ASSUME NEW c, Ordinary(c)
  PROVE  0 \in Keepers(c) /\ Len(c.args) \in Nat
  BY DEF Ordinary, Keepers

(* A push on top of them leaves the arguments in place. *)
LEMMA InPlaceStill ==
  ASSUME InPlace, UNCHANGED call, 0 \in Keepers(call),
         ~CleanStack(call) => \A j \in 1 .. Len(stack) : j \in 1 .. Len(stack') /\ stack'[j] = stack[j]
  PROVE  InPlace'
<1> SUFFICES ASSUME ~CleanStack(call)
             PROVE  /\ \A i \in Nat \ {0} : Meant(call, i) \in Keepers(call) =>
                         i \in 1 .. Len(stack') /\ stack'[i].from = Meant(call, i)
                    /\ Constructing(call) => stack'[1] = Entry("T", 0)
  BY DEF InPlace, CleanStack, Meant, Keepers, Constructing
<1>1. ASSUME NEW i \in Nat \ {0}, Meant(call, i) \in Keepers(call)
      PROVE  i \in 1 .. Len(stack') /\ stack'[i].from = Meant(call, i)
  BY <1>1 DEF InPlace
<1>2. ASSUME Constructing(call) PROVE stack'[1] = Entry("T", 0)
  <2>1. Meant(call, 1) = 0
    BY <1>2 DEF Meant
  <2> QED
    BY <1>2, <2>1 DEF InPlace
<1> QED
  BY <1>1, <1>2

LEMMA UserdataT == IsUserdata(Entry("T", 0)) /\ ~IsUserdata(Entry("int", -1)) /\ ~IsUserdata(Entry("none", -1))
  BY DEF IsUserdata, Entry, UserdataKinds, ClassKinds

LEMMA ConstructedPushed ==
  ASSUME CallInv, PushConstructed
  PROVE  CallInv'
<1>1. call \in Menu /\ CornersOf(call) = {} /\ pc = "push" /\ Untouched /\ CallTyped
  BY DEF PushConstructed, CallInv, CallTyped
<1>2. Ordinary(call)
  BY <1>1, NoCorners
<1>3. Constructing(call) /\ Begun
  BY <1>1 DEF PushConstructed, Begun
<1>4. PICK now \in BOOLEAN : now = Tabled
  BY DEF Tabled
<1>5. /\ made' = [made EXCEPT !.tabled = @ \/ now]
      /\ stack' = Append(Cleaned, Entry(IF made'.tabled THEN "T" ELSE "bare", 0))
      /\ pinned' = FALSE /\ pc' = "policies"
      /\ UNCHANGED <<call, uses, dead, threw, outcome>>
  BY <1>4, Zenon DEF PushConstructed
<1>6. (call.how = "initializers") \/ now
  <2>1. CASE CleanStack(call)
    BY <1>4, <2>1, Zenon DEF Tabled
  <2> QED
    BY <1>2, <1>3, <2>1, PoliciesKeepStacks
<1>7. PICK tabled \in BOOLEAN : tabled <=> call.how = "initializers"
  OBVIOUS
<1>8. made' \in MadeObjects /\ Whole' /\ made'.destroyed = 0
  <2>1. Looks(made, "built", tabled, 0)
    BY <1>1, <1>3, <1>7 DEF Untouched, Looks, Memory
  <2>2. made' = [made EXCEPT !.tabled = @ \/ now]
    BY <1>5
  <2>3. now \in BOOLEAN
    OBVIOUS
  <2>4. Looks(made', "built", tabled \/ now, 0)
    BY ONLY <2>1, <2>2, <2>3, LooksTabled, ZenonT(40)
  <2> QED
    BY <1>6, <1>7, <2>4 DEF Looks, Whole
<1>9. stack' = Append(Cleaned, Entry("T", 0))
  BY <1>5, <1>8 DEF Whole
<1>10. /\ StackTyped' /\ stack' # << >> /\ Top' = Entry("T", 0) /\ OnStack(0)'
       /\ ~CleanStack(call) => \A j \in 1 .. Len(stack) : j \in 1 .. Len(stack') /\ stack'[j] = stack[j]
  <2>1. PICK e : e = Entry("T", 0)
    OBVIOUS
  <2>2. e.from = 0
    BY <2>1 DEF Entry
  <2>3. e.from \in {-1} \cup Keepers(call) /\ e.from # -1
    BY <1>2, <2>2, MadeKeeps
  <2>4. StackTyped /\ stack' = Append(Cleaned, e) /\ UNCHANGED call
    BY <1>1, <1>5, <1>9, <2>1 DEF CallTyped
  <2> QED
    BY <2>1, <2>2, <2>3, <2>4, PushedOn
<1>11. InPlace'
  BY <1>1, <1>2, <1>5, <1>10, ArgumentsInPlaceYet, InPlaceStill, MadeKeeps
<1>12. CallTyped'
  <2>1. MadeTyped'
    BY <1>1, <1>5, <1>8 DEF MadeTyped, Whole, Untouched
  <2> QED
    BY <1>1, <1>5, <1>10, <2>1 DEF CallTyped, Stages, Keepers
<1>13. Resulting'
  <2>1. ResultOnTop'
    BY <1>3, <1>5, <1>10 DEF ResultOnTop, Constructing
  <2>2. Constructing(call)'
    BY <1>3, <1>5 DEF Constructing
  <2> QED
    BY <1>1, <1>5, <1>8, <1>10, <1>11, <2>1, <2>2 DEF Resulting, Untouched, Idle, Keepers, Whole
<1>14. (CallTyped /\ pc \in {"copy", "policies"} /\ Resulting)'
  BY <1>5, <1>12, <1>13
<1> QED
  BY <1>14, LateHolds, PTL

LEMMA ObjectsPushed ==
  ASSUME CallInv, PushObject
  PROVE  CallInv'
<1>1. call \in Menu /\ CornersOf(call) = {} /\ pc = "push" /\ Untouched /\ CallTyped
  BY DEF PushObject, CallInv, CallTyped
<1>2. Ordinary(call)
  BY <1>1, NoCorners
<1>3. ~Constructing(call) /\ ~Begun /\ call.gives = "object"
  BY <1>1 DEF PushObject, Begun
<1>4. /\ made' = [memory |-> "raw", tabled |-> TRUE, destroyed |-> 0]
      /\ stack' = Append(Cleaned, Entry("T", 0))
      /\ pc' = "copy"
      /\ UNCHANGED <<call, pinned, uses, dead, threw, outcome>>
  BY DEF PushObject
<1>5. Looks(made', "raw", TRUE, 0)
  BY <1>4, LooksSo, Zenon
<1>6. made' \in MadeObjects /\ made'.memory = "raw" /\ made'.tabled /\ made'.destroyed = 0
  BY <1>5 DEF Looks
<1>7. /\ StackTyped' /\ stack' # << >> /\ Top' = Entry("T", 0) /\ OnStack(0)'
      /\ ~CleanStack(call) => \A j \in 1 .. Len(stack) : j \in 1 .. Len(stack') /\ stack'[j] = stack[j]
  <2>1. PICK e : e = Entry("T", 0)
    OBVIOUS
  <2>2. e.from = 0
    BY <2>1 DEF Entry
  <2>3. e.from \in {-1} \cup Keepers(call) /\ e.from # -1
    BY <1>2, <2>2, MadeKeeps
  <2>4. StackTyped /\ stack' = Append(Cleaned, e) /\ UNCHANGED call
    BY <1>1, <1>4, <2>1 DEF CallTyped
  <2> QED
    BY <2>1, <2>2, <2>3, <2>4, PushedOn
<1>8. InPlace'
  BY <1>1, <1>2, <1>4, <1>7, ArgumentsInPlaceYet, InPlaceStill, MadeKeeps
<1>9. CallTyped'
  <2>1. MadeTyped'
    BY <1>1, <1>4, <1>6 DEF MadeTyped, Untouched
  <2> QED
    BY <1>1, <1>4, <1>7, <2>1 DEF CallTyped, Stages, Keepers
<1>10. Resulting'
  <2>1. ResultOnTop'
    BY <1>3, <1>4, <1>7 DEF ResultOnTop
  <2>2. ~Constructing(call)'
    BY <1>3, <1>4 DEF Constructing
  <2> QED
    BY <1>1, <1>3, <1>4, <1>6, <1>7, <1>8, <2>1, <2>2 DEF Resulting, Untouched, Idle, Keepers
<1>11. (CallTyped /\ pc \in {"copy", "policies"} /\ Resulting)'
  BY <1>4, <1>9, <1>10
<1> QED
  BY <1>11, LateHolds, PTL

LEMMA ResultsPushed ==
  ASSUME CallInv, PushResult
  PROVE  CallInv'
<1>1. call \in Menu /\ CornersOf(call) = {} /\ pc = "push" /\ Untouched /\ CallTyped
  BY DEF PushResult, CallInv, CallTyped
<1>2. Ordinary(call)
  BY <1>1, NoCorners
<1>3. ~Constructing(call) /\ ~Begun /\ call.gives \in {"nothing", "value", "reference"}
  BY <1>1, <1>2 DEF PushResult, Begun, Ordinary
<1>4. /\ stack' = (CASE call.gives = "reference" -> Append(Cleaned, Entry("T", 0))
                     [] call.gives = "value" -> Append(Cleaned, Entry("int", -1))
                     [] call.gives = "nothing" -> Cleaned)
      /\ pc' = "policies"
      /\ UNCHANGED <<call, made, pinned, uses, dead, threw, outcome>>
  BY DEF PushResult
<1>5. Looks(made, "none", FALSE, 0)
  BY <1>1, <1>3 DEF Untouched, Looks, Memory
<1>6. /\ StackTyped'
      /\ call.gives # "nothing" => stack' # << >> /\ Top' = (IF call.gives = "reference" THEN Entry("T", 0) ELSE Entry("int", -1))
      /\ ~CleanStack(call) => \A j \in 1 .. Len(stack) : j \in 1 .. Len(stack') /\ stack'[j] = stack[j]
  <2>1. CASE call.gives # "nothing"
    <3>1. PICK e : e = IF call.gives = "reference" THEN Entry("T", 0) ELSE Entry("int", -1)
      OBVIOUS
    <3>2. e.from \in {-1} \cup Keepers(call) /\ (IsUserdata(e) => e.from # -1)
      <4>1. CASE call.gives = "reference"
        <5>1. e.from = 0
          BY <3>1, <4>1 DEF Entry
        <5> QED
          BY <1>2, <5>1, MadeKeeps
      <4>2. CASE call.gives # "reference"
        <5>1. e.from = -1
          BY <3>1, <4>2 DEF Entry
        <5> QED
          BY <3>1, <4>2, <5>1, UserdataT
      <4> QED
        BY <4>1, <4>2
    <3>3. StackTyped /\ stack' = Append(Cleaned, e) /\ UNCHANGED call
      BY <1>1, <1>3, <1>4, <2>1, <3>1 DEF CallTyped
    <3> QED
      BY <3>1, <3>2, <3>3, PushedOn
  <2>2. CASE call.gives = "nothing"
    <3>1. stack' = Cleaned
      BY <1>4, <2>2
    <3>2. CASE CleanStack(call)
      <4>1. stack' = << >> /\ Sequence(<< >>)
        BY <3>1, <3>2 DEF Cleaned, Sequence
      <4> QED
        BY <2>2, <3>2, <4>1 DEF StackTyped
    <3>3. CASE ~CleanStack(call)
      <4>1. stack' = stack
        BY <3>1, <3>3 DEF Cleaned
      <4> QED
        BY <1>1, <1>4, <2>2, <4>1 DEF CallTyped, StackTyped, IsUserdata, Keepers
    <3> QED
      BY <3>2, <3>3
  <2> QED
    BY <2>1, <2>2
<1>7. InPlace'
  BY <1>1, <1>2, <1>4, <1>6, ArgumentsInPlaceYet, InPlaceStill, MadeKeeps
<1>8. CallTyped'
  <2>1. MadeTyped'
    BY <1>1, <1>4 DEF MadeTyped, CallTyped
  <2> QED
    BY <1>1, <1>4, <1>6, <2>1 DEF CallTyped, Stages, Keepers
<1>9. Resulting'
  <2>1. ~Constructing(call)'
    BY <1>3, <1>4 DEF Constructing
  <2>2. ResultOnTop'
    BY <1>3, <1>4, <1>6, <2>1 DEF ResultOnTop
  <2>3. made.memory = "none"
    BY <1>5 DEF Looks
  <2>4. stack' # << >> \/ ~Returning(call) \/ ReturnsSelf(call)
    BY <1>3, <1>6 DEF Returning
  <2>5. Returning(call)' = Returning(call) /\ ReturnsSelf(call)' = ReturnsSelf(call)
    BY <1>4 DEF Returning, ReturnsSelf, Constructing
  <2> QED
    BY <1>1, <1>3, <1>4, <1>6, <1>7, <2>1, <2>2, <2>3, <2>4, <2>5 DEF Resulting, Untouched, Idle, Keepers
<1>10. (CallTyped /\ pc \in {"copy", "policies"} /\ Resulting)'
  BY <1>4, <1>8, <1>9
<1> QED
  BY <1>10, LateHolds, PTL

LEMMA ResultsCopied ==
  ASSUME CallCorners = {}, CallInv, Copy
  PROVE  CallInv'
<1>1. call \in Menu /\ CornersOf(call) = {} /\ pc = "copy" /\ Resulting /\ CallTyped
  BY DEF Copy, CallInv, CallTyped
<1>2. /\ made' = [made EXCEPT !.memory = "built"] /\ pc' = "policies"
      /\ UNCHANGED <<call, stack, pinned, uses, dead, threw, outcome>>
  BY DEF Copy, CopyThrows
<1>3. ~Constructing(call) /\ call.gives = "object" /\ made.memory = "raw" /\ made.tabled /\ 0 \notin dead
  BY <1>1 DEF Resulting
<1>4. Looks(made, "raw", TRUE, 0)
  BY <1>1, <1>3 DEF CallTyped, MadeTyped, Looks
<1>5. Looks(made', "built", TRUE, 0)
  <2>1. made' = [made EXCEPT !.memory = "built"]
    BY <1>2
  <2> QED
    BY ONLY <1>4, <2>1, LooksBuilt, Zenon
<1>6. made' \in MadeObjects /\ Whole' /\ made'.destroyed = 0
  BY <1>5 DEF Looks, Whole
<1>7. CallTyped'
  <2>1. MadeTyped'
    BY <1>2, <1>3, <1>6 DEF MadeTyped, Whole
  <2>2. StackTyped'
    BY <1>1, <1>2 DEF CallTyped, StackTyped, IsUserdata, Keepers
  <2> QED
    BY <1>1, <1>2, <2>1, <2>2 DEF CallTyped, Stages, Keepers
<1>8. Resulting'
  <2>1. OnStack(0)' /\ InPlace' /\ ResultOnTop' /\ ~Constructing(call)'
    BY <1>1, <1>2, <1>3 DEF Resulting, OnStack, InPlace, ResultOnTop, Constructing, Keepers, Meant, CleanStack, Top
  <2>2. stack' # << >> \/ ~Returning(call)' \/ ReturnsSelf(call)'
    BY <1>1, <1>2 DEF Resulting, Returning, ReturnsSelf, Constructing
  <2> QED
    BY <1>1, <1>2, <1>3, <1>6, <2>1, <2>2 DEF Resulting, Idle, Keepers
<1>9. (CallTyped /\ pc \in {"copy", "policies"} /\ Resulting)'
  BY <1>2, <1>7, <1>8
<1> QED
  BY <1>9, LateHolds, PTL

--------------------------------------------------------------------------------
(* Policies *)

Applying(c, s, u) ==
  LET done[n \in 0 .. Len(c.policies)] ==
        IF n = 0 THEN [stack |-> s, uses |-> u]
        ELSE HandlePolicy(done[n - 1].stack, done[n - 1].uses, c.policies[n])
  IN  done

LEMMA PolicyApplied ==
  ASSUME NEW c, NEW s, NEW u
  PROVE  /\ Len(c.policies) = 0 => Applying(c, s, u)[0] = [stack |-> s, uses |-> u]
         /\ Len(c.policies) = 1 => Applying(c, s, u)[1] = HandlePolicy(s, u, c.policies[1])
<1> SUFFICES ASSUME Len(c.policies) \in {0, 1}
             PROVE  /\ Len(c.policies) = 0 => Applying(c, s, u)[0] = [stack |-> s, uses |-> u]
                    /\ Len(c.policies) = 1 => Applying(c, s, u)[1] = HandlePolicy(s, u, c.policies[1])
  BY Zenon
<1>0. PICK D : D = Applying(c, s, u)
  OBVIOUS
<1> DEFINE Goes(f) ==
      f = [n \in 0 .. Len(c.policies) |->
             IF n = 0 THEN [stack |-> s, uses |-> u]
             ELSE HandlePolicy(f[n - 1].stack, f[n - 1].uses, c.policies[n])]
<1>1. PICK z, h : z = [stack |-> s, uses |-> u] /\ h = HandlePolicy(z.stack, z.uses, c.policies[1])
  OBVIOUS
<1>2. \E f : Goes(f)
  <2>1. PICK f : f = [n \in 0 .. Len(c.policies) |-> IF n = 0 THEN z ELSE h]
    OBVIOUS
  <2>2. f[0] = z
    BY <2>1
  <2>3. \A n \in 0 .. Len(c.policies) : n # 0 => n = 1 /\ n - 1 = 0
    <3>1. ASSUME NEW L \in {0, 1}, NEW n \in 0 .. L, n # 0 PROVE n = 1 /\ n - 1 = 0
      BY <3>1
    <3> QED
      BY <3>1
  <2>4. \A n \in 0 .. Len(c.policies) :
          (IF n = 0 THEN z ELSE h) =
          (IF n = 0 THEN [stack |-> s, uses |-> u]
           ELSE HandlePolicy(f[n - 1].stack, f[n - 1].uses, c.policies[n]))
    BY <1>1, <2>2, <2>3
  <2>5. Goes(f)
    BY <2>1, <2>4
  <2> QED
    BY <2>5
<1>3. Goes(D)
  BY <1>0, <1>2, Zenon DEF Applying
<1>4. D[0] = z
  BY <1>1, <1>3
<1>5. Len(c.policies) = 1 => D[1] = HandlePolicy(D[0].stack, D[0].uses, c.policies[1])
  BY <1>3
<1>6. z.stack = s /\ z.uses = u
  BY <1>1
<1> QED
  BY <1>0, <1>1, <1>4, <1>5, <1>6

(* What one policy makes of the stack s and the user values u. *)
Topped(s, p) == IF p.self THEN Append(s, IF s = << >> THEN Entry("none", -1) ELSE s[1]) ELSE s
Aimed(t, p) == IF p.target = -1 THEN Len(t) ELSE p.target
Setting(t, p) ==
  p.deps # {} /\ Aimed(t, p) \in DOMAIN t /\ IsUserdata(t[Aimed(t, p)]) /\ t[Aimed(t, p)].from >= 0

LEMMA PolicyHandled ==
  ASSUME NEW s, NEW u, NEW p, NEW h, h = HandlePolicy(s, u, p), NEW t, t = Topped(s, p)
  PROVE  /\ h.stack = t
         /\ h.uses = IF Setting(t, p) THEN [u EXCEPT ![t[Aimed(t, p)].from] = Kept(t, p.deps)] ELSE u
<1>1. CASE Setting(t, p)
  <2>1. h = [stack |-> t, uses |-> [u EXCEPT ![t[Aimed(t, p)].from] = Kept(t, p.deps)]]
    BY <1>1 DEF HandlePolicy, Setting, Topped, Aimed
  <2> QED
    BY <1>1, <2>1
<1>2. CASE ~Setting(t, p)
  <2>1. h = [stack |-> t, uses |-> u]
    BY <1>2 DEF HandlePolicy, Setting, Topped, Aimed
  <2> QED
    BY <1>2, <2>1
<1> QED
  BY <1>1, <1>2

LEMMA SelfIs ==
  ASSUME NEW c, Ordinary(c)
  PROVE  /\ Len(c.policies) = 0 => c.policies = << >> /\ ~ReturnsSelf(c)
         /\ Len(c.policies) = 1 =>
              /\ ReturnsSelf(c) <=> c.policies[1].self
              /\ c.policies[1] \in Policies /\ ~CleanStack(c)
              /\ c.policies[1].self => c.policies[1].target = -1 /\ c.args # << >>
<1>1. PICK P \in Seq(Policies) : P = c.policies
  BY DEF Ordinary, Policied
<1>2. Len(P) \in {0, 1} /\ DOMAIN P = 1 .. Len(P)
  BY <1>1 DEF Ordinary, Policied
<1>3. CASE Len(P) = 0
  <2>1. P = << >>
    BY <1>1, <1>3
  <2> QED
    BY <1>1, <1>3, <2>1 DEF ReturnsSelf
<1>4. CASE Len(P) = 1
  <2>1. P[1] \in Policies /\ P # << >>
    BY <1>1, <1>2, <1>4
  <2>2. ReturnsSelf(c) <=> P[1].self
    BY <1>1, <1>4 DEF ReturnsSelf
  <2>3. ~CleanStack(c)
    BY <1>1, <2>1 DEF CleanStack, Ordinary, Policied
  <2>4. P[1].self => P[1].target = -1 /\ c.args # << >>
    BY <1>1, <1>4 DEF Ordinary, Policied
  <2> QED
    BY <1>1, <1>4, <2>1, <2>2, <2>3, <2>4
<1> QED
  BY <1>1, <1>2, <1>3, <1>4

(* The value that returns_self returns is the first argument, or the object. *)
LEMMA SelfFirst ==
  ASSUME CallTyped, InPlace, ~CleanStack(call), NEW p \in Policies, p.self, call.args # << >>,
         stack' = Topped(stack, p), UNCHANGED call
  PROVE  /\ StackTyped' /\ stack' # << >> /\ Top'.from = Meant(call, 1)
         /\ \A j \in 1 .. Len(stack) : j \in 1 .. Len(stack') /\ stack'[j] = stack[j]
<1>1. Ordinary(call)
  BY NoCorners DEF CallTyped
<1>2. Meant(call, 1) \in Keepers(call)
  <2>1. Len(call.args) \in Nat \ {0}
    BY <1>1 DEF Ordinary
  <2> QED
    BY <2>1 DEF Meant, Keepers
<1>3. 1 \in 1 .. Len(stack) /\ stack[1].from = Meant(call, 1)
  BY <1>2 DEF InPlace
<1>4. stack # << >>
  BY <1>3
<1>5. PICK e : e = stack[1]
  OBVIOUS
<1>6. stack' = Append(Cleaned, e) /\ StackTyped
  BY <1>4, <1>5 DEF Topped, Cleaned, CallTyped
<1>7. e.from \in {-1} \cup Keepers(call) /\ (IsUserdata(e) => e.from # -1)
  BY <1>3, <1>5, <1>6 DEF StackTyped
<1>8. /\ StackTyped' /\ stack' # << >> /\ Top' = e
      /\ \A j \in 1 .. Len(stack) : j \in 1 .. Len(stack') /\ stack'[j] = stack[j]
  BY <1>6, <1>7, PushedOn
<1> QED
  BY <1>3, <1>5, <1>8

LEMMA PolicyKeeps ==
  ASSUME NEW p \in Policies, Ordinary(call), StackTyped, InPlace, ~CleanStack(call), TopRight, p.self <=> ReturnsSelf(call),
         p.self => p.target = -1, Returning(call),
         uses = IF Setting(stack, p) THEN [Idle(call) EXCEPT ![stack[Aimed(stack, p)].from] = Kept(stack, p.deps)]
                ELSE Idle(call)
  PROVE  Keeps(p)
<1> SUFFICES ASSUME p.target = -1 => IsUserdata(Top), Keeper(p) \in Keepers(call)
             PROVE  /\ \A o \in Keepers(call) : o # Keeper(p) => uses[o] = {}
                    /\ Keeper(p) = Top.from =>
                         \A i \in p.deps : Meant(call, i) \in Keepers(call) => Meant(call, i) \in uses[Keeper(p)]
  BY DEF Keeps
<1>1. PICK K : K = Keeper(p)
  OBVIOUS
<1>2. PICK i : i = Aimed(stack, p)
  OBVIOUS
<1>3. K \in Keepers(call)
  BY <1>1
<1>4. i \in DOMAIN stack /\ stack[i].from = K /\ K >= 0
  <2>1. DOMAIN stack = 1 .. Len(stack) /\ Len(stack) \in Nat
    BY DEF StackTyped, Sequence
  <2>2. CASE p.target = -1
    <3>1. stack # << >>
      BY <2>2, UserdataT DEF Top
    <3> QED
      BY <1>1, <1>2, <2>1, <2>2, <3>1, TypedTop DEF Keeper, Aimed, Keepers
  <2>3. CASE p.target # -1
    <3>1. p.target \in Nat \ {0}
      BY <2>3 DEF Policies
    <3>2. p.target \in 1 .. Len(stack) /\ stack[p.target].from = Meant(call, p.target)
      BY <1>1, <1>3, <2>3, <3>1 DEF InPlace, Keeper
    <3> QED
      BY <1>1, <1>2, <1>3, <2>1, <2>3, <3>2 DEF Keeper, Aimed, Keepers
  <2> QED
    BY <2>2, <2>3
<1>5. \A o \in Keepers(call) : o # K => uses[o] = {}
  BY <1>2, <1>4 DEF Idle
<1>6. ASSUME K = Top.from, NEW d \in p.deps, Meant(call, d) \in Keepers(call)
      PROVE  Meant(call, d) \in uses[K]
  <2>1. p.deps \in SUBSET (Nat \ {0})
    BY DEF Policies
  <2>2. d \in Nat \ {0} /\ p.deps # {}
    BY <2>1
  <2>3. d \in 1 .. Len(stack) /\ stack[d].from = Meant(call, d)
    BY <1>6, <2>2 DEF InPlace
  <2>4. IsUserdata(stack[i])
    <3>1. CASE p.target = -1
      <4>1. stack # << >>
        BY <3>1, UserdataT DEF Top
      <4>2. stack[i] = Top
        BY <1>2, <3>1, <4>1, TypedTop DEF Aimed
      <4> QED
        BY <3>1, <4>2
    <3>2. CASE p.target # -1
      <4>1. p.target \in Nat \ {0} /\ i = p.target /\ K = Meant(call, p.target)
        BY <1>1, <1>2, <3>2 DEF Policies, Aimed, Keeper
      <4>2. ResultOnTop
        BY <3>2 DEF TopRight
      <4>3. Top = Entry("T", 0) \/ Top = Entry("int", -1)
        <5>1. Constructing(call) \/ call.gives \in {"value", "object", "reference"}
          BY <3>2 DEF Returning, Ordinary
        <5>2. CASE Constructing(call) \/ call.gives \in {"object", "reference"}
          BY <4>2, <5>2 DEF ResultOnTop
        <5>3. CASE call.gives = "value" /\ ~Constructing(call)
          BY <4>2, <5>3 DEF ResultOnTop
        <5> QED
          BY <5>1, <5>2, <5>3
      <4>4. Top.from = 0
        BY <1>4, <1>6, <4>3 DEF Entry
      <4>5. Constructing(call) /\ i = 1
        <5>1. i \in Nat \ {0} /\ Meant(call, i) = 0
          BY <1>6, <4>1, <4>4
        <5>2. i = Meant(call, i) + (IF Constructing(call) THEN 1 ELSE 0)
          BY <5>1, MeantIs
        <5> QED
          BY <5>1, <5>2
      <4>6. stack[1] = Entry("T", 0)
        BY <4>5 DEF InPlace
      <4> QED
        BY <4>5, <4>6, UserdataT
    <3> QED
      BY <3>1, <3>2
  <2>5. Setting(stack, p)
    BY <1>2, <1>4, <2>2, <2>4 DEF Setting
  <2>6. uses = [Idle(call) EXCEPT ![K] = Kept(stack, p.deps)]
    BY <1>2, <1>4, <2>5
  <2>7. uses[K] = Kept(stack, p.deps)
    BY <1>3, <2>6 DEF Idle
  <2>8. FromAt(stack, d) = Meant(call, d) /\ Meant(call, d) # -1
    <3>1. d \in DOMAIN stack
      BY <2>3 DEF StackTyped, Sequence
    <3> QED
      BY <1>6, <2>3, <3>1 DEF FromAt, Keepers
  <2> QED
    BY <2>7, <2>8 DEF Kept
<1> QED
  BY <1>1, <1>5, <1>6

(* What the fresh table of dependencies keeps can keep something alive itself. *)
LEMMA KeptIs ==
  ASSUME StackTyped, NEW deps
  PROVE  Kept(stack, deps) \subseteq Keepers(call)
<1>1. ASSUME NEW i \in deps PROVE FromAt(stack, i) \in {-1} \cup Keepers(call)
  BY DEF FromAt, StackTyped, Sequence
<1> QED
  BY <1>1 DEF Kept

LEMMA KeptTyped ==
  StackTyped => \A deps : Kept(stack, deps) \subseteq Keepers(call)
  BY KeptIs

(* What policy p makes of the user values. *)
Sets(p) ==
  /\ p.self <=> ReturnsSelf(call)
  /\ p.self => p.target = -1
  /\ uses = IF Setting(stack, p) THEN [Idle(call) EXCEPT ![stack[Aimed(stack, p)].from] = Kept(stack, p.deps)]
            ELSE Idle(call)

SettersKeep == \A p \in Policies : Sets(p) => Keeps(p)

LEMMA AllAreKept ==
  StackTyped /\ InPlace /\ ~CleanStack(call) /\ TopRight /\ Returning(call) /\ Ordinary(call) => SettersKeep
  BY PolicyKeeps DEF Sets, SettersKeep

LEMMA PoliciesApply ==
  ASSUME CallInv, ApplyPolicies
  PROVE  CallInv'
<1>1. call \in Menu /\ CornersOf(call) = {} /\ pc = "policies" /\ Resulting /\ CallTyped
  BY DEF ApplyPolicies, CallInv, CallTyped
<1>2. Ordinary(call) /\ Len(call.policies) \in {0, 1}
  BY <1>1, NoCorners DEF Ordinary, Policied
<1>3. PICK D : D = Applying(call, stack, uses)
  OBVIOUS
<1>4. PICK h : h = D[Len(call.policies)]
  OBVIOUS
<1>5. /\ stack' = h.stack /\ uses' = h.uses /\ pc' = "return"
      /\ UNCHANGED <<call, cand, got, made, pinned, dead, threw, outcome>>
  BY <1>3, <1>4, Zenon DEF ApplyPolicies, Applying
<1>6. StackTyped /\ InPlace /\ ResultOnTop /\ uses = Idle(call)
      /\ (stack # << >> \/ ~Returning(call) \/ ReturnsSelf(call))
  BY <1>1 DEF CallTyped, Resulting
<1>7. /\ Returning(call)' = Returning(call) /\ ReturnsSelf(call)' = ReturnsSelf(call)
      /\ CleanStack(call)' = CleanStack(call) /\ Constructing(call)' = Constructing(call)
      /\ Keepers(call)' = Keepers(call) /\ Ordinary(call)' = Ordinary(call)
  BY <1>5
<1>8. /\ StackTyped' /\ InPlace'
      /\ uses' \in [Keepers(call) -> SUBSET Keepers(call)]
      /\ OnStack(0) => OnStack(0)'
      /\ Returning(call) => stack' # << >> /\ TopRight' /\ AllKeep'
  <2>1. CASE Len(call.policies) = 0
    <3>1. h = [stack |-> stack, uses |-> uses]
      <4>1. Applying(call, stack, uses)[0] = [stack |-> stack, uses |-> uses]
        BY <1>2, <2>1, PolicyApplied
      <4> QED
        BY <1>3, <1>4, <2>1, <4>1
    <3>2. stack' = stack /\ uses' = uses
      BY <1>5, <3>1
    <3>3. call.policies = << >> /\ ~ReturnsSelf(call)
      BY <1>2, <2>1, SelfIs
    <3>4. StackTyped' /\ InPlace' /\ Top' = Top /\ ResultOnTop' /\ (OnStack(0) => OnStack(0)')
      BY <1>5, <1>6, <3>2 DEF StackTyped, InPlace, ResultOnTop, OnStack, IsUserdata, Top
    <3>5. TopRight'
      BY <1>7, <3>3, <3>4 DEF TopRight
    <3>6. AllKeep'
      BY <1>5, <2>1 DEF AllKeep
    <3> QED
      BY <1>1, <1>6, <3>2, <3>3, <3>4, <3>5, <3>6 DEF CallTyped
  <2>2. CASE Len(call.policies) = 1
    <3>1. PICK p \in Policies : p = call.policies[1]
      BY <1>2, <2>2, SelfIs
    <3>2. h = HandlePolicy(stack, uses, p)
      <4>1. Applying(call, stack, uses)[1] = HandlePolicy(stack, uses, p)
        <5>1. Len(call.policies) \in {0, 1}
          BY <1>2
        <5>2. Len(call.policies) = 1 => Applying(call, stack, uses)[1] = HandlePolicy(stack, uses, call.policies[1])
          BY ONLY <5>1, PolicyApplied, Zenon
        <5> QED
          BY <2>2, <3>1, <5>2
      <4> QED
        BY <1>3, <1>4, <2>2, <4>1
    <3>3. /\ stack' = Topped(stack, p)
          /\ uses' = IF Setting(stack', p) THEN [uses EXCEPT ![stack'[Aimed(stack', p)].from] = Kept(stack', p.deps)]
                     ELSE uses
      <4>1. PICK t : t = Topped(stack, p)
        OBVIOUS
      <4>2. /\ h.stack = t
            /\ h.uses = IF Setting(t, p) THEN [uses EXCEPT ![t[Aimed(t, p)].from] = Kept(t, p.deps)] ELSE uses
        BY ONLY <3>2, <4>1, PolicyHandled
      <4> QED
        BY <1>5, <4>1, <4>2
    <3>4. /\ p.self <=> ReturnsSelf(call)
          /\ p.self => p.target = -1 /\ call.args # << >>
          /\ ~CleanStack(call)
      BY <1>2, <2>2, <3>1, SelfIs
    <3>5. /\ StackTyped' /\ (Returning(call) => stack' # << >> /\ TopRight')
          /\ \A j \in 1 .. Len(stack) : j \in 1 .. Len(stack') /\ stack'[j] = stack[j]
      <4>1. CASE p.self
        <5>1. /\ StackTyped' /\ stack' # << >> /\ Top'.from = Meant(call, 1)
              /\ \A j \in 1 .. Len(stack) : j \in 1 .. Len(stack') /\ stack'[j] = stack[j]
          BY <1>1, <1>5, <1>6, <3>3, <3>4, <4>1, SelfFirst
        <5>2. TopRight'
          BY <1>5, <1>7, <3>4, <4>1, <5>1 DEF TopRight, Meant
        <5> QED
          BY <5>1, <5>2
      <4>2. CASE ~p.self
        <5>1. stack' = stack
          BY <3>3, <4>2 DEF Topped
        <5>2. StackTyped' /\ ResultOnTop'
          BY <1>5, <1>6, <5>1 DEF StackTyped, ResultOnTop, IsUserdata, Top
        <5>3. TopRight'
          BY <1>7, <3>4, <4>2, <5>2 DEF TopRight
        <5> QED
          BY <1>6, <3>4, <4>2, <5>1, <5>2, <5>3
      <4> QED
        BY <4>1, <4>2
    <3>6. InPlace'
      BY <1>2, <1>5, <1>6, <3>5, InPlaceStill, MadeKeeps
    <3>7. OnStack(0) => OnStack(0)'
      BY <3>5 DEF OnStack
    <3>8. uses' \in [Keepers(call) -> SUBSET Keepers(call)]
      <4>1. Kept(stack', p.deps) \subseteq Keepers(call)
        <5>1. (\A deps : Kept(stack, deps) \subseteq Keepers(call))'
          BY <3>5, KeptTyped, PTL
        <5> QED
          BY <1>7, <5>1
      <4>2. uses \in [Keepers(call) -> SUBSET Keepers(call)]
        BY <1>1 DEF CallTyped
      <4> QED
        BY <3>3, <4>1, <4>2
    <3>9. ASSUME Returning(call) PROVE AllKeep'
      <4>1. (StackTyped /\ InPlace /\ ~CleanStack(call) /\ TopRight /\ Returning(call) /\ Ordinary(call))'
        BY <1>2, <1>7, <3>4, <3>5, <3>6, <3>9
      <4>2. SettersKeep'
        BY <4>1, AllAreKept, PTL
      <4>3. Keeps(p)'
        <5>1. Idle(call)' = uses
          BY <1>5, <1>6
        <5>2. ReturnsSelf(call)' <=> p.self
          BY <1>7, <3>4
        <5>3. Sets(p)'
          BY <3>3, <3>4, <5>1, <5>2 DEF Sets
        <5> QED
          BY <4>2, <5>3 DEF SettersKeep
      <4>4. \A n \in 1 .. Len(call.policies) : n = 1
        BY <2>2
      <4> QED
        BY <1>5, <3>1, <4>3, <4>4 DEF AllKeep
    <3> QED
      BY <3>5, <3>6, <3>7, <3>8, <3>9
  <2> QED
    BY <1>2, <2>1, <2>2
<1>9. CallTyped'
  <2>1. MadeTyped'
    BY <1>1, <1>5 DEF CallTyped, MadeTyped
  <2> QED
    BY <1>1, <1>5, <1>7, <1>8, <2>1 DEF CallTyped, Stages
<1>10. Resulting'
  BY <1>1, <1>5, <1>7, <1>8 DEF Resulting, Whole
<1>11. Searching' /\ Over' /\ Returned'
  <2>1. outcome' = "none"
    BY <1>1, <1>5 DEF Resulting
  <2> QED
    BY <1>5, <1>7, <1>8, <2>1 DEF Searching, Over, Returned
<1> QED
  BY <1>5, <1>9, <1>10, <1>11 DEF CallInv

--------------------------------------------------------------------------------
(* The end of the call *)

LEMMA OneTyped ==
  ASSUME NEW e
  PROVE  Sequence(<<e>>) /\ Len(<<e>>) = 1 /\ <<e>>[1] = e /\ <<e>> # << >> /\ Last(<<e>>) = e
<1>1. <<e>> \in Seq({e}) /\ Len(<<e>>) = 1 /\ <<e>>[1] = e
  OBVIOUS
<1> QED
  BY <1>1 DEF Sequence, Last

LEMMA CallsReturn ==
  ASSUME CallCorners = {}, CallInv, Return
  PROVE  CallInv'
<1>1. call \in Menu /\ CornersOf(call) = {} /\ pc = "return" /\ Resulting /\ CallTyped
  BY DEF Return, CallInv, CallTyped
<1>2. Ordinary(call)
  BY <1>1, NoCorners
<1>3. UNCHANGED <<call, cand, got, made, uses, dead, threw>>
  BY DEF Return
<1>4. ReturnsSelf(call) <=> \E i \in DOMAIN call.policies : call.policies[i].self
  <2>1. DOMAIN call.policies = 1 .. Len(call.policies)
    BY <1>2 DEF Ordinary, Policied
  <2> QED
    BY <2>1 DEF ReturnsSelf
<1>5. /\ pc' = "ended" /\ outcome' = "returned" /\ ~pinned'
      /\ stack' = IF Returning(call) THEN <<Top>> ELSE << >>
  <2>1. CASE Returning(call)
    <3>1. Ended("returned", FALSE)
      BY <1>4, <2>1, Zenon DEF Return, Returning
    <3>2. /\ pc' = "ended" /\ outcome' = "returned" /\ ~pinned'
          /\ stack' = IF "returned" = "returned" THEN <<Top>> ELSE << >>
      BY <3>1, EndedAs, Zenon
    <3> QED
      BY <2>1, <3>2
  <2>2. CASE ~Returning(call)
    <3>1. pc' = "ended" /\ outcome' = "returned" /\ stack' = << >> /\ UNCHANGED pinned
      BY <1>4, <2>2, Zenon DEF Return, Returning
    <3> QED
      BY <1>1, <2>2, <3>1 DEF Resulting
  <2> QED
    BY <2>1, <2>2
<1>6. made.memory = "built" <=> made.tabled
  BY <1>1 DEF Resulting, Whole, CallTyped, MadeTyped
<1>7. MadeTyped'
  BY <1>1, <1>3 DEF CallTyped, MadeTyped
<1>8. Searching' /\ Over'
  <2>1. Searching'
    BY <1>5 DEF Searching
  <2> QED
    BY <1>3, <1>5, <1>6, <2>1 DEF Over
<1>9. Constructing(call)' \/ call.gives' = "object" => Whole'
  BY <1>1, <1>3 DEF Resulting, Whole, Constructing
<1>10. DependenciesKept'
  <2>1. CASE Len(call.policies) = 0
    <3>1. DOMAIN call.policies = 1 .. 0
      BY <1>2, <2>1 DEF Ordinary, Policied
    <3> QED
      BY <1>3, <3>1 DEF DependenciesKept
  <2>2. CASE Len(call.policies) = 1
    <3>1. ~CleanStack(call)
      BY <1>2, <2>2, SelfIs
    <3>2. dead' = {}
      BY <1>1, <1>3, <3>1 DEF Resulting
    <3> QED
      BY <3>2 DEF DependenciesKept
  <2> QED
    BY <1>2, <2>1, <2>2 DEF Ordinary, Policied
<1>11. CASE Returning(call)
  <2>1. stack # << >> /\ TopRight /\ AllKeep /\ StackTyped
    BY <1>1, <1>11 DEF CallInv, Returned, CallTyped
  <2>2. PICK e : e = Top
    OBVIOUS
  <2>3. stack' = <<e>>
    BY <1>5, <1>11, <2>2
  <2>4. Top' = e /\ stack' = <<Top'>>
    BY <2>3, OneTyped DEF Top
  <2>5. StackTyped'
    <3>1. e.from \in {-1} \cup Keepers(call) /\ (IsUserdata(e) => e.from # -1)
      BY <2>1, <2>2, TypedTop
    <3>2. Sequence(stack') /\ Len(stack') = 1 /\ stack'[1] = e
      BY <2>3, OneTyped
    <3> QED
      BY <1>3, <3>1, <3>2 DEF StackTyped, IsUserdata, Keepers
  <2>6. TopRight'
    BY <1>3, <2>1, <2>2, <2>4 DEF TopRight, ResultOnTop, ReturnsSelf, Meant, Constructing
  <2>7. AllKeep'
    BY <1>3, <2>1, <2>2, <2>4 DEF AllKeep, Keeps, Keeper, Keepers, Meant, Constructing, IsUserdata
  <2>8. Returned'
    <3>1. Returning(call)'
      BY <1>3, <1>11 DEF Returning, ReturnsSelf, Constructing
    <3> QED
      BY <1>5, <1>9, <1>10, <2>4, <2>6, <2>7, <3>1 DEF Returned
  <2>9. CallTyped'
    BY <1>1, <1>3, <1>5, <1>7, <2>5 DEF CallTyped, Stages, Keepers
  <2> QED
    BY <1>5, <1>8, <2>8, <2>9 DEF CallInv
<1>12. CASE ~Returning(call)
  <2>1. stack' = << >> /\ Sequence(<< >>)
    BY <1>5, <1>12 DEF Sequence
  <2>2. StackTyped'
    BY <2>1 DEF StackTyped
  <2>3. Returned'
    BY <1>5, <1>9, <1>10, <2>1 DEF Returned
  <2>4. CallTyped'
    BY <1>1, <1>3, <1>5, <1>7, <2>2 DEF CallTyped, Stages, Keepers
  <2> QED
    BY <1>5, <1>8, <2>3, <2>4 DEF CallInv
<1> QED
  BY <1>11, <1>12

--------------------------------------------------------------------------------
(* Garbage *)

LEMMA StackReached ==
  ASSUME NEW j \in DOMAIN stack
  PROVE  stack[j].from \in Reached
  BY DEF Reached

LEMMA NothingReached ==
  ASSUME stack = << >>, ~pinned
  PROVE  Reached = {}
  BY DEF Reached

(* What keeps one object alive, directly, with only one keeper at all. *)
LEMMA OneKeeper ==
  ASSUME NEW e, stack = <<e>>, ~pinned, NEW K \in Reached, K # -1,
         uses \in [Keepers(call) -> SUBSET Keepers(call)],
         e.from \in {-1} \cup Keepers(call),
         \A o \in Keepers(call) : o # K => uses[o] = {}
  PROVE  K = e.from /\ uses[K] \subseteq Reached
<1> DEFINE Grow(S) == S \cup UNION {uses[o] : o \in S \ {-1}}
<1>1. {stack[i].from : i \in DOMAIN stack} \cup (IF pinned THEN {0} ELSE {}) = {e.from}
  <2>1. stack[1] = e /\ DOMAIN stack = {1}
    OBVIOUS
  <2> QED
    BY <2>1
<1>2. Reached = Grow(Grow(Grow({e.from})))
  BY <1>1 DEF Reached
<1>3. \A S, o : o \in S \ {-1} => uses[o] \subseteq Grow(S)
  OBVIOUS
<1>4. \A S : S \subseteq Grow(S)
  OBVIOUS
<1>5. CASE K = e.from
  <2>1. uses[K] \subseteq Grow({e.from})
    BY <1>5
  <2> QED
    BY <1>2, <1>4, <1>5, <2>1
<1>6. CASE K # e.from
  <2>1. Grow({e.from}) = {e.from}
    BY <1>6
  <2> QED
    BY <1>2, <1>6, <2>1
<1> QED
  BY <1>5, <1>6

(* Before the function has run, and as long as the policies need them, Lua can *)
(* collect neither an argument nor the made object.                            *)
LEMMA EarlyAlive ==
  ASSUME CallInv, pc \in Early
  PROVE  Objects \subseteq Reached
<1>1. call \in Menu /\ CornersOf(call) = {} /\ Untouched
  BY DEF CallInv, CallTyped, Early
<1>2. Ordinary(call)
  BY <1>1, NoCorners
<1>3. PICK k \in {0, 1} : k = IF Begun THEN 1 ELSE 0
  OBVIOUS
<1>4. Slots(call, k, stack)
  BY <1>1, <1>3 DEF Untouched
<1>5. ASSUME NEW i \in DOMAIN call.args PROVE i \in Reached
  <2>1. i \in 1 .. Len(call.args) /\ Len(call.args) \in Nat
    BY <1>2 DEF Ordinary
  <2>2. i + k \in DOMAIN stack /\ stack[i + k] = Entry(call.args[i], i)
    BY <1>4, <2>1 DEF Slots
  <2>3. stack[i + k].from = i
    BY <2>2 DEF Entry
  <2> QED
    BY <2>2, <2>3, StackReached
<1>6. ASSUME made.memory # "none" PROVE 0 \in Reached
  <2>1. Begun
    BY <1>1, <1>6 DEF Untouched, Looks, Memory
  <2>2. 1 \in DOMAIN stack
    BY <1>2, <1>3, <1>4, <2>1 DEF Slots, Ordinary
  <2>3. stack[1].from = 0
    BY <1>1, <2>1 DEF Untouched, Entry
  <2> QED
    BY <2>2, <2>3, StackReached
<1> QED
  BY <1>5, <1>6 DEF Objects

LEMMA LateAlive ==
  ASSUME CallInv, pc \in {"copy", "policies", "return"}
  PROVE  /\ ~CleanStack(call) => Objects \subseteq Reached
         /\ 0 \notin Objects \ Reached
<1>1. call \in Menu /\ CornersOf(call) = {} /\ Resulting /\ StackTyped
  BY DEF CallInv, CallTyped
<1>2. Ordinary(call)
  BY <1>1, NoCorners
<1>3. DOMAIN stack = 1 .. Len(stack)
  BY <1>1 DEF StackTyped, Sequence
<1>4. ASSUME made.memory # "none" PROVE 0 \in Reached
  BY <1>1, <1>3, <1>4, StackReached DEF Resulting, OnStack
<1>5. ASSUME ~CleanStack(call), NEW n \in DOMAIN call.args PROVE n \in Reached
  <2>1. n \in 1 .. Len(call.args) /\ Len(call.args) \in Nat
    BY <1>2 DEF Ordinary
  <2>2. PICK i \in Nat \ {0} : Meant(call, i) = n
    <3>1. CASE Constructing(call)
      <4>1. n + 1 \in Nat \ {0} /\ Meant(call, n + 1) = n
        BY <2>1, <3>1 DEF Meant
      <4> QED
        BY <4>1
    <3>2. CASE ~Constructing(call)
      <4>1. n \in Nat \ {0} /\ Meant(call, n) = n
        BY <2>1, <3>2 DEF Meant
      <4> QED
        BY <4>1
    <3> QED
      BY <3>1, <3>2
  <2>3. i \in 1 .. Len(stack) /\ stack[i].from = n
    BY <1>1, <1>5, <2>1, <2>2 DEF Resulting, InPlace, Keepers
  <2> QED
    BY <1>3, <2>3, StackReached
<1>6. made.memory = "none" => 0 \notin Objects
  <2>1. 0 \notin DOMAIN call.args
    BY <1>2 DEF Ordinary
  <2> QED
    BY <2>1 DEF Objects
<1> QED
  BY <1>4, <1>5, <1>6 DEF Objects

(* No value that a policy keeps is garbage while its keeper is not. *)
LEMMA KeptAlive ==
  ASSUME CallInv, outcome = "returned", NEW n \in DOMAIN call.policies,
         NEW p, p = call.policies[n],
         p.target = -1 => IsUserdata(Top), Keeper(p) \in Reached,
         NEW i \in p.deps, Meant(call, i) \in Keepers(call)
  PROVE  Meant(call, i) \in Reached
<1>1. /\ call \in Menu /\ CornersOf(call) = {} /\ StackTyped
      /\ uses \in [Keepers(call) -> SUBSET Keepers(call)]
      /\ stack = << >> \/ (stack = <<Top>> /\ TopRight /\ AllKeep)
      /\ ~pinned
  BY DEF CallInv, CallTyped, Returned, Over
<1>2. Ordinary(call)
  BY <1>1, NoCorners
<1>3. n \in 1 .. Len(call.policies) /\ p \in Policies
  BY <1>2 DEF Ordinary, Policied
<1>4. stack # << >>
  BY <1>1, NothingReached
<1>5. PICK e : e = Top
  OBVIOUS
<1>6. PICK K : K = Keeper(p)
  OBVIOUS
<1>7. stack = <<e>> /\ Keeps(p)
  BY <1>1, <1>3, <1>4, <1>5 DEF AllKeep
<1>8. e.from \in {-1} \cup Keepers(call) /\ (IsUserdata(e) => e.from # -1)
  BY <1>1, <1>4, <1>5, TypedTop
<1>9. K # -1 /\ K \in Reached
  <2>1. CASE p.target = -1
    BY <1>5, <1>6, <1>8, <2>1 DEF Keeper
  <2>2. CASE p.target # -1
    <3>1. p.target \in Nat \ {0}
      BY <1>3, <2>2 DEF Policies
    <3>2. Meant(call, p.target) \in Nat
      BY <3>1, MeantIs
    <3> QED
      BY <1>6, <2>2, <3>2 DEF Keeper
  <2> QED
    BY <2>1, <2>2
<1>10. CASE K \in Keepers(call)
  <2>1. /\ \A o \in Keepers(call) : o # K => uses[o] = {}
        /\ K = Top.from => Meant(call, i) \in uses[K]
    BY <1>6, <1>7, <1>10 DEF Keeps
  <2>2. K = e.from /\ uses[K] \subseteq Reached
    BY <1>1, <1>7, <1>8, <1>9, <2>1, OneKeeper
  <2> QED
    BY <1>5, <2>1, <2>2
<1>11. CASE K \notin Keepers(call)
  <2>1. \A S \in SUBSET ({-1} \cup Keepers(call)) : UNION {uses[o] : o \in S \ {-1}} \subseteq Keepers(call)
    BY <1>1
  <2>2. {stack[j].from : j \in DOMAIN stack} \cup (IF pinned THEN {0} ELSE {}) \subseteq {-1} \cup Keepers(call)
    BY <1>1, <1>7, <1>8
  <2>3. Reached \subseteq {-1} \cup Keepers(call)
    <3> DEFINE Grow(S) == S \cup UNION {uses[o] : o \in S \ {-1}}
               roots == {stack[j].from : j \in DOMAIN stack} \cup (IF pinned THEN {0} ELSE {})
    <3>1. \A S \in SUBSET ({-1} \cup Keepers(call)) : Grow(S) \in SUBSET ({-1} \cup Keepers(call))
      BY <2>1
    <3>2. Reached = Grow(Grow(Grow(roots)))
      BY DEF Reached
    <3>3. roots \in SUBSET ({-1} \cup Keepers(call))
      BY <2>2
    <3> HIDE DEF Grow, roots
    <3> QED
      BY <3>1, <3>2, <3>3
  <2> QED
    BY <1>9, <1>11, <2>3
<1> QED
  BY <1>10, <1>11

LEMMA GarbageCollected ==
  ASSUME CallInv, NEW o \in 0 .. Len(call.args), Collect(o)
  PROVE  CallInv'
<1>1. /\ o \in Objects \ Reached /\ o \notin dead /\ dead' = dead \cup {o} /\ pc # "gone"
      /\ made' = IF o = 0 /\ made.tabled THEN [made EXCEPT !.destroyed = @ + 1] ELSE made
      /\ UNCHANGED <<call, pc, cand, got, stack, pinned, uses, threw, outcome>>
  BY DEF Collect
<1>2. CallTyped /\ Searching /\ Returned /\ Over /\ pc \notin Early
  BY <1>1, EarlyAlive DEF CallInv
<1>3. Ordinary(call)
  BY <1>2, NoCorners DEF CallTyped
<1>4. /\ made' \in MadeObjects /\ made'.memory = made.memory /\ (made'.tabled <=> made.tabled)
      /\ made'.destroyed = IF o = 0 /\ made.tabled THEN made.destroyed + 1 ELSE made.destroyed
  <2>1. PICK memory, destroyed : memory = made.memory /\ destroyed = made.destroyed
    OBVIOUS
  <2>2. PICK tabled \in BOOLEAN : tabled <=> made.tabled
    OBVIOUS
  <2>3. Looks(made, memory, tabled, destroyed)
    BY <1>2, <2>1, <2>2 DEF CallTyped, MadeTyped, Looks
  <2>4. CASE o = 0 /\ made.tabled
    <3>1. made' = [made EXCEPT !.destroyed = @ + 1]
      BY <1>1, <2>4
    <3>2. Looks(made', memory, tabled, destroyed + 1)
      BY ONLY <2>3, <3>1, LooksDestroyed
    <3> QED
      BY <2>1, <2>2, <2>4, <3>2 DEF Looks
  <2>5. CASE ~(o = 0 /\ made.tabled)
    BY <1>1, <1>2, <2>5 DEF CallTyped, MadeTyped
  <2> QED
    BY <2>4, <2>5
<1>5. CallTyped'
  <2>1. dead' \subseteq Keepers(call)
    BY <1>1, <1>2 DEF CallTyped, Keepers
  <2>2. o = 0 => made.memory # "none"
    <3>1. 0 \notin DOMAIN call.args
      BY <1>3 DEF Ordinary
    <3> QED
      BY <1>1, <3>1 DEF Objects
  <2>3. MadeTyped'
    <3>1. MadeTyped
      BY <1>2 DEF CallTyped
    <3>2. CASE o = 0
      <4>1. 0 \notin dead /\ 0 \in dead'
        BY <1>1, <3>2
      <4> QED
        BY <1>4, <2>2, <3>1, <3>2, <4>1 DEF MadeTyped
    <3>3. CASE o # 0
      <4>1. 0 \in dead' <=> 0 \in dead
        BY <1>1, <3>3
      <4> QED
        BY <1>4, <3>1, <3>3, <4>1 DEF MadeTyped
    <3> QED
      BY <3>2, <3>3
  <2>4. StackTyped'
    BY <1>1, <1>2 DEF CallTyped, StackTyped, IsUserdata, Keepers
  <2> QED
    BY <1>1, <1>2, <2>1, <2>3, <2>4 DEF CallTyped, Keepers
<1>6. Searching' /\ pc' \notin Early
  BY <1>1, <1>2 DEF Searching, Early
<1>7. Over'
  BY <1>1, <1>2, <1>4 DEF Over
<1>8. /\ Top' = Top /\ TopRight' = TopRight /\ Constructing(call)' = Constructing(call)
      /\ Returning(call)' = Returning(call) /\ AllKeep' = AllKeep /\ (Whole' <=> Whole)
  <2>1. Top' = Top /\ call' = call /\ stack' = stack /\ uses' = uses
    BY <1>1 DEF Top
  <2>2. /\ Constructing(call)' = Constructing(call) /\ Returning(call)' = Returning(call)
        /\ ReturnsSelf(call)' = ReturnsSelf(call)
    BY <2>1 DEF Constructing, Returning, ReturnsSelf
  <2>3. TopRight' = TopRight
    BY <2>1, <2>2 DEF TopRight, ResultOnTop, Meant
  <2>4. AllKeep' = AllKeep
    BY <2>1 DEF AllKeep, Keeps, Keeper, Keepers, Meant, IsUserdata
  <2>5. Whole' <=> Whole
    BY <1>4 DEF Whole
  <2> QED
    BY <2>1, <2>2, <2>3, <2>4, <2>5
<1>9. Reached' = Reached
  BY <1>1 DEF Reached
<1>10. Returned'
  <2>1. ASSUME outcome = "returned" PROVE DependenciesKept'
    <3>1. ASSUME NEW n \in DOMAIN call.policies, NEW p, p = call.policies[n],
                 p.target = -1 => IsUserdata(Top), Keeper(p) \in Reached
          PROVE  {Meant(call, i) : i \in p.deps} \cap dead' = {}
      <4>1. {Meant(call, i) : i \in p.deps} \cap dead = {}
        BY <1>2, <2>1, <3>1 DEF Returned, DependenciesKept, Keeper
      <4>2. ASSUME NEW i \in p.deps, Meant(call, i) = o PROVE FALSE
        <5>1. Meant(call, i) \in Keepers(call)
          BY <4>2 DEF Keepers
        <5>2. Meant(call, i) \in Reached
          BY <2>1, <3>1, <5>1, KeptAlive
        <5> QED
          BY <1>1, <4>2, <5>2
      <4> QED
        BY <1>1, <4>1, <4>2
    <3>2. \A n \in DOMAIN call.policies :
            (call.policies[n].target = -1 => IsUserdata(Top)) /\ Keeper(call.policies[n]) \in Reached =>
              {Meant(call, i) : i \in call.policies[n].deps} \cap dead' = {}
      BY <3>1
    <3> QED
      BY <1>1, <1>8, <1>9, <3>2 DEF DependenciesKept, Keeper
  <2>2. /\ pc = "return" /\ Returning(call) => stack # << >> /\ TopRight /\ AllKeep
        /\ outcome = "returned" =>
             /\ stack = << >> \/ (stack = <<Top>> /\ Returning(call) /\ TopRight /\ AllKeep)
             /\ Constructing(call) \/ call.gives = "object" => Whole
    BY <1>2 DEF Returned
  <2> QED
    BY <1>1, <1>8, <2>1, <2>2 DEF Returned
<1>11. ASSUME pc \in {"copy", "policies", "return"} PROVE Resulting'
  <2>1. Resulting
    BY <1>11 DEF CallInv
  <2>2. CleanStack(call) /\ o # 0
    BY <1>1, <1>11, LateAlive
  <2>3. 0 \notin dead'
    BY <1>1, <2>1, <2>2 DEF Resulting
  <2>4. InPlace' = InPlace /\ ResultOnTop' = ResultOnTop /\ OnStack(0)' = OnStack(0)
        /\ CleanStack(call)' = CleanStack(call) /\ ReturnsSelf(call)' = ReturnsSelf(call) /\ Idle(call)' = Idle(call)
    BY <1>1, <1>8 DEF InPlace, ResultOnTop, OnStack, CleanStack, ReturnsSelf, Idle, Keepers, Meant, Constructing
  <2> QED
    BY <1>1, <1>4, <1>8, <2>1, <2>2, <2>3, <2>4 DEF Resulting
<1> QED
  BY <1>1, <1>5, <1>6, <1>7, <1>10, <1>11 DEF CallInv, Early

LEMMA ResultsDropped ==
  ASSUME CallInv, Drop
  PROVE  CallInv'
<1>1. /\ pc = "ended" /\ pc' = "ended" /\ stack' = << >>
      /\ UNCHANGED <<call, cand, got, made, pinned, uses, dead, threw, outcome>>
  BY DEF Drop
<1>2. CallTyped /\ Returned /\ Over
  BY DEF CallInv
<1>3. StackTyped'
  <2>1. Sequence(<< >>)
    BY DEF Sequence
  <2> QED
    BY <1>1, <2>1 DEF StackTyped
<1>4. CallTyped'
  BY <1>1, <1>2, <1>3 DEF CallTyped, MadeTyped, Keepers
<1>5. Searching' /\ Over'
  BY <1>1, <1>2 DEF Searching, Over
<1>6. Returned'
  <2>1. ASSUME outcome = "returned" PROVE DependenciesKept'
    <3>1. Reached' = {}
      <4>1. ~pinned'
        BY <1>1, <1>2 DEF Over
      <4> QED
        BY <1>1, <4>1 DEF Reached
    <3> QED
      BY <3>1 DEF DependenciesKept
  <2>2. Constructing(call)' = Constructing(call) /\ (Whole' <=> Whole)
    BY <1>1 DEF Constructing, Whole
  <2> QED
    BY <1>1, <1>2, <2>1, <2>2 DEF Returned
<1> QED
  BY <1>1, <1>4, <1>5, <1>6 DEF CallInv

LEMMA CallsFinish ==
  ASSUME CallInv, Finish
  PROVE  CallInv'
<1>1. /\ pc = "ended" /\ pc' = "gone" /\ stack = << >>
      /\ UNCHANGED <<call, stack, cand, got, made, pinned, uses, dead, threw, outcome>>
  BY DEF Finish
<1>2. CallTyped /\ Returned /\ Over
  BY DEF CallInv
<1>3. CallTyped'
  BY <1>1, <1>2 DEF CallTyped, StackTyped, MadeTyped, Keepers, IsUserdata, Stages
<1>4. Searching' /\ Over'
  BY <1>1, <1>2 DEF Searching, Over
<1>5. Returned'
  <2>1. Reached' = {}
    <3>1. ~pinned'
      BY <1>1, <1>2 DEF Over
    <3> QED
      BY <1>1, <3>1 DEF Reached
  <2>2. DependenciesKept'
    BY <2>1 DEF DependenciesKept
  <2>3. Constructing(call)' = Constructing(call) /\ (Whole' <=> Whole)
    BY <1>1 DEF Constructing, Whole
  <2> QED
    BY <1>1, <1>2, <2>2, <2>3 DEF Returned
<1> QED
  BY <1>1, <1>3, <1>4, <1>5 DEF CallInv

--------------------------------------------------------------------------------
(* What holds of every call *)

LEMMA CallSteps ==
  ASSUME CallCorners = {}
  PROVE  CallInv /\ [CallsNext]_callVars => CallInv'
<1> SUFFICES ASSUME CallInv, [CallsNext]_callVars PROVE CallInv'
  OBVIOUS
<1>1. CASE StartMember
  BY <1>1, MembersStart
<1>2. CASE StartConstructing
  BY <1>2, ConstructorsStart
<1>3. CASE StartFunction
  BY <1>3, FunctionsStart
<1>4. CASE Match
  BY <1>4, CandidatesMatch
<1>5. CASE NoMatch
  BY <1>5, NoneMatches
<1>6. CASE Check
  BY <1>6, CallsCheck
<1>7. CASE Throw
  BY <1>7, FunctionsThrow
<1>8. CASE Run
  BY <1>8, FunctionsRun
<1>9. CASE PushConstructed
  BY <1>9, ConstructedPushed
<1>10. CASE PushObject
  BY <1>10, ObjectsPushed
<1>11. CASE PushResult
  BY <1>11, ResultsPushed
<1>12. CASE Copy
  BY <1>12, ResultsCopied
<1>13. CASE ApplyPolicies
  BY <1>13, PoliciesApply
<1>14. CASE Return
  BY <1>14, CallsReturn
<1>15. ASSUME NEW o \in 0 .. Len(call.args), Collect(o) PROVE CallInv'
  BY <1>15, GarbageCollected
<1>16. CASE Drop
  BY <1>16, ResultsDropped
<1>17. CASE Finish
  BY <1>17, CallsFinish
<1>18. CASE UNCHANGED callVars
  <2>1. UNCHANGED <<call, pc, stack, cand, got, made, pinned, uses, dead, threw, outcome>>
    BY <1>18 DEF callVars
  <2>2. Top' = Top /\ Reached' = Reached
    BY <2>1 DEF Top, Reached
  <2>3. StackTyped' = StackTyped /\ MadeTyped' = MadeTyped
    BY <2>1 DEF StackTyped, MadeTyped
  <2>4. CallTyped'
    BY <2>1, <2>3 DEF CallInv, CallTyped
  <2>5. Searching' = Searching
    <3>1. NoneBefore' = NoneBefore
      BY <2>1 DEF NoneBefore
    <3>2. RightCount(call.sigs[cand])' = RightCount(call.sigs[cand])
      BY <2>1 DEF RightCount
    <3> QED
      BY <2>1, <3>1, <3>2 DEF Searching
  <2>6. Untouched' = Untouched
    BY <2>1 DEF Untouched, Begun, Memory
  <2>7. Whole' = Whole /\ ResultOnTop' = ResultOnTop /\ TopRight' = TopRight
    BY <2>1, <2>2 DEF Whole, ResultOnTop, TopRight
  <2>8. Resulting' = Resulting
    <3>1. InPlace' = InPlace /\ OnStack(0)' = OnStack(0)
      BY <2>1 DEF InPlace, OnStack
    <3> QED
      BY <2>1, <2>7, <3>1 DEF Resulting
  <2>9. AllKeep' = AllKeep
    BY <2>1, <2>2 DEF AllKeep, Keeps, Keeper
  <2>10. DependenciesKept' = DependenciesKept
    BY <2>1, <2>2 DEF DependenciesKept
  <2>11. Returned' = Returned
    BY <2>1, <2>2, <2>7, <2>9, <2>10 DEF Returned
  <2>12. Over' = Over
    BY <2>1 DEF Over
  <2> QED
    BY <2>1, <2>4, <2>5, <2>6, <2>8, <2>11, <2>12 DEF CallInv
<1> QED
  BY <1>1, <1>2, <1>3, <1>4, <1>5, <1>6, <1>7, <1>8, <1>9, <1>10, <1>11, <1>12, <1>13, <1>14, <1>15, <1>16, <1>17,
     <1>18 DEF CallsNext

(* In every reachable state of every call without a corner case the invariant  *)
(* holds: where the arguments are, which candidate was found, what is made.    *)
THEOREM CallsInvariant ==
  ASSUME CallCorners = {}
  PROVE  CallsSpec => []CallInv
<1>1. CallsInit => CallInv
  BY CallStarts
<1>2. CallInv /\ [CallsNext]_callVars => CallInv'
  BY CallSteps
<1> QED
  BY <1>1, <1>2, PTL DEF CallsSpec

LEMMA RunsFirst == CallInv => FirstMatchRuns
<1> SUFFICES ASSUME CallInv PROVE FirstMatchRuns
  OBVIOUS
<1>1. Ordinary(call)
  BY NoCorners DEF CallInv, CallTyped
<1>2. DOMAIN call.sigs = 1 .. Len(call.sigs)
  BY <1>1 DEF Ordinary
<1> QED
  BY <1>2 DEF CallInv, Searching, NoneBefore, Over, FirstMatchRuns

LEMMA FindsArguments == CallInv => ArgumentsInPlace
<1> SUFFICES ASSUME CallInv, pc = "run"
             PROVE  /\ got = [p \in DOMAIN call.sigs[cand] |-> Own(call, call.sigs[cand], p)]
                    /\ \A p \in DOMAIN got : \A j \in DOMAIN got[p] : got[p][j] \notin dead
  BY DEF ArgumentsInPlace
<1>1. Ordinary(call) /\ Searching /\ Untouched
  BY NoCorners DEF CallInv, CallTyped
<1>2. DOMAIN call.sigs[cand] = 1 .. Len(call.sigs[cand])
  BY <1>1 DEF Ordinary, Straight, Searching
<1>3. dead = {}
  BY <1>1 DEF Untouched
<1> QED
  BY <1>1, <1>2, <1>3 DEF Searching

LEMMA KeepsPromises == CallInv => AnswersAsPromised
<1> SUFFICES ASSUME CallInv PROVE AnswersAsPromised
  OBVIOUS
<1>1. Ordinary(call) /\ Over /\ Returned
  BY NoCorners DEF CallInv, CallTyped
<1>2. outcome # "escaped"
  BY <1>1 DEF Over
<1>3. ReturnsSelf(call) <=> \E i \in DOMAIN call.policies : call.policies[i].self
  <2>1. DOMAIN call.policies = 1 .. Len(call.policies)
    BY <1>1 DEF Ordinary, Policied
  <2> QED
    BY <2>1 DEF ReturnsSelf
<1>4. ASSUME outcome = "returned", stack # << >>
      PROVE  IF ReturnsSelf(call) THEN Top.from = Meant(call, 1)
             ELSE IF Constructing(call) \/ call.gives = "object"
                  THEN Top = Entry("T", 0) /\ made.memory = "built" /\ made.tabled
             ELSE Top = IF call.gives = "reference" THEN Entry("T", 0) ELSE Entry("int", -1)
  <2>1. Returning(call) /\ TopRight /\ (Constructing(call) \/ call.gives = "object" => Whole)
    BY <1>1, <1>4 DEF Returned
  <2>2. CASE ReturnsSelf(call)
    BY <2>1, <2>2 DEF TopRight
  <2>3. CASE ~ReturnsSelf(call)
    <3>1. ResultOnTop
      BY <2>1, <2>3 DEF TopRight
    <3>2. CASE Constructing(call) \/ call.gives = "object"
      BY <2>1, <2>3, <3>1, <3>2 DEF ResultOnTop, Whole
    <3>3. CASE ~(Constructing(call) \/ call.gives = "object")
      <4>1. call.gives \in {"reference", "value"}
        BY <1>1, <2>1, <2>3, <3>3 DEF Returning, Ordinary
      <4> QED
        BY <2>3, <3>1, <3>3, <4>1 DEF ResultOnTop
    <3> QED
      BY <3>2, <3>3
  <2> QED
    BY <2>2, <2>3
<1> QED
  BY <1>2, <1>3, <1>4 DEF AnswersAsPromised

LEMMA MakesSoundObjects == CallInv => ObjectsSound
<1> SUFFICES ASSUME CallInv PROVE ObjectsSound
  OBVIOUS
<1>1. Over /\ MadeTyped /\ pc \in Stages
  BY DEF CallInv, CallTyped
<1>2. 0 \in dead => pc \in {"ended", "gone"}
  <2>1. pc \in Early => dead = {}
    BY DEF CallInv, Early, Untouched
  <2>2. pc \in {"copy", "policies", "return"} => 0 \notin dead
    BY DEF CallInv, Resulting
  <2> QED
    BY <1>1, <2>1, <2>2 DEF Stages, Early
<1> QED
  BY <1>1, <1>2 DEF Over, MadeTyped, ObjectsSound

LEMMA KeepsDependencies == CallInv => DependenciesKept
  BY DEF CallInv, Returned, DependenciesKept

(* Overload resolution and the checks together are first come, first served,   *)
(* for every list of candidates and every list of arguments: the candidate     *)
(* that runs takes the arguments, none before it does, and a call is refused   *)
(* only if none does (call.hpp, overload_match_arity and the stack checkers).  *)
THEOREM FirstMatchAlwaysRuns ==
  ASSUME CallCorners = {}
  PROVE  CallsSpec => []FirstMatchRuns
  BY CallsInvariant, RunsFirst, PTL

(* However many parameters come before one and whatever they take, its getter  *)
(* reads just the arguments that its checker looked at, while all are alive    *)
(* (the two records of stack::record, one for checking and one for getting).   *)
THEOREM ArgumentsAlwaysInPlace ==
  ASSUME CallCorners = {}
  PROVE  CallsSpec => []ArgumentsInPlace
  BY CallsInvariant, FindsArguments, PTL

(* Every call ends in an error or returns what it promises: a whole object with *)
(* its metatable, self for returns_self, a value or a reference, and lets no    *)
(* exception through Lua's frames (call.hpp, trampoline.hpp).                   *)
THEOREM AnswersAlwaysAsPromised ==
  ASSUME CallCorners = {}
  PROVE  CallsSpec => []AnswersAsPromised
  BY CallsInvariant, KeepsPromises, PTL

(* Whichever step of making an object fails and whenever Lua collects it, only  *)
(* what was constructed is destroyed, once, and no reference to it stays in the *)
(* registry (call.hpp, construct_match and the userdata's __gc).                *)
THEOREM ObjectsAlwaysSound ==
  ASSUME CallCorners = {}
  PROVE  CallsSpec => []ObjectsSound
  BY CallsInvariant, MakesSoundObjects, PTL

(* What a policy says to keep is not collected before what should keep it, for  *)
(* any target and any dependencies (policies.hpp, handle_policy).               *)
THEOREM DependenciesAlwaysKept ==
  ASSUME CallCorners = {}
  PROVE  CallsSpec => []DependenciesKept
  BY CallsInvariant, KeepsDependencies, PTL

================================================================================

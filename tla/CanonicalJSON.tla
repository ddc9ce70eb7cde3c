---------------------------- MODULE CanonicalJSON ---------------------------
(***************************************************************************)
(* The two canonical encoders: bundle/canonical.go, for manifests and for  *)
(* events, and canonicaljson/canonical_json.go, for Legal-Pack audit        *)
(* entries; beside them the reference they are to agree with.              *)
(*                                                                         *)
(* A number is a token of a JSON text, written as an integer or with one of *)
(* ".eE", and counted in halves, so that there are values between integers. *)
(* A float64 is a number of halves rounded to Precision bits; its zero has *)
(* no sign.  A string is a sequence of characters.  An encoded value is the *)
(* integer its digits show or the sequence of characters between the        *)
(* quotes.                                                                 *)
(***************************************************************************)
EXTENDS Integers, Sequences, SequencesExt

CONSTANTS
  Precision,      \* bits of a float64 significand: 53
  IntBits,        \* bits of an int64: 64
  MaxExponent,    \* from 2^MaxExponent on, a number is out of range: 1024
  ExponentDigits  \* from 10^ExponentDigits on, encoding/json writes an exponent: 21

ASSUME WidthAssumption ==
  /\ Precision \in Nat \ {0}
  /\ IntBits \in Nat \ {0}
  /\ MaxExponent \in Nat
  /\ ExponentDigits \in Nat
  /\ Precision + 1 < IntBits
  /\ IntBits < MaxExponent

Integer(n)      == [form |-> "integer", halves |-> 2 * n]
Decimal(halves) == [form |-> "decimal", halves |-> halves]
IsNumber(v)     == "form" \in DOMAIN v

String(chars) == [chars |-> chars]
IsString(v)   == "chars" \in DOMAIN v

Digits(n)    == [digits |-> n]
Quoted(text) == [quoted |-> text]
Refused      == [refused |-> TRUE]

-----------------------------------------------------------------------------
\* Numbers.

Magnitude(x) == IF x < 0 THEN -x ELSE x

Pow2[n \in Nat]  == IF n = 0 THEN 1 ELSE 2 * Pow2[n - 1]
Pow10[n \in Nat] == IF n = 0 THEN 1 ELSE 10 * Pow10[n - 1]

\* The distance of neighbouring float64 around a.
Spacing(a) ==
  IF a < Pow2[Precision] THEN 1
  ELSE LET e == CHOOSE n \in 0..a : Pow2[n] <= a /\ a < Pow2[n + 1] IN Pow2[e - Precision + 1]

\* The nearest of them, of two the even one.
NearestTo(a) ==
  LET unit == Spacing(a)
      q    == a \div unit
      rest == 2 * (a % unit)
      up   == rest > unit \/ (rest = unit /\ q % 2 = 1)
  IN  (IF up THEN q + 1 ELSE q) * unit

Rounded(halves) == IF halves < 0 THEN -NearestTo(-halves) ELSE NearestTo(halves)

OutOfRange(halves) == Magnitude(Rounded(halves)) >= Pow2[MaxExponent + 1]

\* int64(f): beyond its range Go leaves the result to the platform, amd64 gives
\* the least integer and arm64 the nearest.
Platforms == {"amd64", "arm64"}
MaxInt    == Pow2[IntBits - 1] - 1
MinInt    == -Pow2[IntBits - 1]
ToInt64(n, platform) ==
  CASE n \in MinInt..MaxInt               -> n
    [] n > MaxInt /\ platform = "arm64"   -> MaxInt
    [] OTHER                              -> MinInt

marshalFloat(halves, platform) ==
  IF halves % 2 = 0 THEN Digits(ToInt64(halves \div 2, platform)) ELSE Refused

\* What encoding/json writes for an integer float64: of the integers between it and its
\* neighbours that are read as it, those with the most zeros at the end, and of these
\* the nearest.
\* There is one: half way between two of them there is none that a float64 holds.
ReadAlike(n) ==
  LET float == NearestTo(2 * n)
      apart == Spacing(2 * n) \div 2
  IN  {m \in (n - apart)..(n + apart) : NearestTo(2 * m) = float}
MostZeros(S) == Max({k \in 0..ExponentDigits : \E m \in S : m % Pow10[k] = 0})
Shortest(n) ==
  LET alike == ReadAlike(n)
      unit  == Pow10[MostZeros(alike)]
      short == {m \in alike : m % unit = 0}
  IN  CHOOSE m \in short : \A o \in short : Magnitude(m - n) <= Magnitude(o - n)

ShortestDecimal(n) == IF n < 0 THEN -Shortest(-n) ELSE Shortest(n)

\* A number on its way through a float64.
ThroughFloat(v, platform) ==
  IF OutOfRange(v.halves) THEN Refused ELSE marshalFloat(Rounded(v.halves), platform)

\* A json.Number that is an integer is written as it was read.
Verbatim(v) == Digits(v.halves \div 2)

-----------------------------------------------------------------------------
\* Strings.  "n" stands for the characters written as they are, "\\" for those
\* with an escape of their own form, "newline" for those below 0x20, "separator"
\* for U+2028 and U+2029.

Chars == {"n", "\\", "newline", "separator"}

\* What the bundle's encodeString writes for a character; before it, without
\* the case of the backslash.
EscapedNewlineOnly(c) == IF c = "newline" THEN <<"\\", "n">> ELSE <<c>>
Escaped(c) ==
  CASE c = "\\"      -> <<"\\", "\\">>
    [] c = "newline" -> <<"\\", "n">>
    [] OTHER         -> <<c>>

encodeString(chars) == Quoted(FlattenSeq([i \in DOMAIN chars |-> Escaped(chars[i])]))

\* What encoding/json writes, which marshalString takes over: the replacement
\* that is to undo the escape of separators looks for the raw character.
EscapedByLibrary(c) == IF c = "separator" THEN <<"\\", "u2028">> ELSE Escaped(c)
marshalString(chars) ==
  Quoted(FlattenSeq([i \in DOMAIN chars |-> EscapedByLibrary(chars[i])]))

-----------------------------------------------------------------------------
\* Values.

\* bundle: marshalAny on json.Number; before it, on float64 also here.
marshalAnyFloat(v, platform) ==
  IF IsString(v) THEN encodeString(v.chars) ELSE ThroughFloat(v, platform)
marshalAny(v, platform) ==
  IF IsString(v) THEN encodeString(v.chars)
  ELSE IF v.form = "integer" THEN Verbatim(v)
  ELSE ThroughFloat(v, platform)

\* bundle: marshalViaReflection on what json.Unmarshal made, float64 for each number.
\* encoding/json makes a text of it, and marshalAny writes that as it is, unless there is
\* a point or an exponent in it: then marshalFloat has the same float64.  Before it,
\* marshalFloat for each float64.
marshalEachFloat(v, platform) == marshalAnyFloat(v, platform)
marshalViaReflection(v, platform) ==
  IF IsString(v) THEN encodeString(v.chars)
  ELSE LET f == Rounded(v.halves)
       IN  IF f % 2 = 0 /\ Magnitude(f) < 2 * Pow10[ExponentDigits]
           THEN Digits(ShortestDecimal(f \div 2))
           ELSE marshalFloat(f, platform)

\* canonicaljson: marshalAny, which has no floats.
Marshal(v) ==
  IF IsString(v) THEN marshalString(v.chars)
  ELSE IF v.form = "integer" THEN Verbatim(v)
  ELSE Refused

-----------------------------------------------------------------------------
\* The Python references, as the golden vectors and the comments show them.

\* Backslashes and control characters are escaped, and nothing else.  Of the
\* separators, the golden vectors of the bundle and the comments of canonicaljson
\* say so; the changelog has them escaped in bundles.
ReferenceEscape(c) ==
  IF c \in {"\\", "newline"} THEN <<"\\", IF c = "newline" THEN "n" ELSE c>> ELSE <<c>>
ReferenceString(chars) ==
  Quoted(FlattenSeq([i \in DOMAIN chars |-> ReferenceEscape(chars[i])]))

\* For bundles: integers of any size, floats that are integers as integers.
Reference(v) ==
  IF IsString(v) THEN ReferenceString(v.chars)
  ELSE IF v.form = "integer" THEN Verbatim(v)
  ELSE IF OutOfRange(v.halves) \/ Rounded(v.halves) % 2 # 0 THEN Refused
  ELSE Digits(Rounded(v.halves) \div 2)

\* For Legal-Packs: integers only.
LegalReference(v) == IF IsNumber(v) /\ v.form # "integer" THEN Refused ELSE Reference(v)
=============================================================================

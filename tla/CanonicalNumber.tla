--------------------------- MODULE CanonicalNumber ---------------------------
(***************************************************************************)
(* Canonical JSON numbers (idempotency.go): what canonicalNumber does to a *)
(* number that came as text, or that Go code held as a float64, and to its *)
(* own output when it is canonicalized again further on.                   *)
(*                                                                         *)
(* A text is its sign, its digits without a point, the power of ten of the *)
(* last digit, and its form: an integer has neither point nor exponent.    *)
(* The thresholds and the precision of binary64 are constants, so that     *)
(* small ones can be checked: the functions of strconv and big are taken   *)
(* to be exact, and are given here by what they compute.                   *)
(***************************************************************************)
EXTENDS Integers

CONSTANTS
  Precision,    \* bits of a significand: 53
  MinExponent,  \* the least power of two of a last bit: -1074
  MaxExponent,  \* the greatest: 971
  DecimalLow,   \* the least power of ten written out: -6
  DecimalHigh,  \* the least that is not: 21
  GeneralLow,   \* the same for strconv's format 'g': -4
  GeneralHigh,  \* and 6
  MaxCoefficient,  \* bound: the digits of an integer
  MaxFraction,     \* bound: the digits of another number
  MaxTen,          \* bound: the power of ten of its last digit, downwards
  MaxWireTen       \* bound: and upwards

FloatAssumption ==
  Precision \in Nat \ {0} /\ MinExponent <= 0 /\ 0 <= MaxExponent
ThresholdAssumption ==
  DecimalLow < 0 /\ 0 < GeneralHigh /\ GeneralHigh <= DecimalHigh
GeneralFormatAssumption == 10 ^ GeneralHigh <= 2 ^ Precision

(* 2^53 - 1. *)
LastGeneration == 2 ^ Precision - 1

(* Exact comparison: values in units of 2^MinExponent / 10^MaxTen. *)
Scaled(coefficient, ten) ==
  coefficient * 10 ^ (ten + MaxTen) * 2 ^ (-MinExponent)

Unit(exponent) == 2 ^ (exponent - MinExponent) * 10 ^ MaxTen

MagnitudeOf(text) == Scaled(text.digits, text.ten)

-----------------------------------------------------------------------------
(* Binary floats: significand times a power of two. *)

Overflow == [significand |-> 0, exponent |-> MaxExponent + 1]

(* The least exponent whose significands reach a magnitude. *)
FittingExponent(magnitude) ==
  LET fits == {e \in MinExponent..MaxExponent :
                 magnitude < 2 ^ Precision * Unit(e)}
  IN IF fits = {} THEN MaxExponent ELSE CHOOSE e \in fits : \A d \in fits : e <= d

(* A quotient, rounded to the nearest integer, ties to even. *)
Rounded(dividend, divisor) ==
  LET rest == 2 * (dividend % divisor)
      floor == dividend \div divisor
  IN IF rest > divisor \/ (rest = divisor /\ floor % 2 = 1)
     THEN floor + 1 ELSE floor

FloatAt(significand, exponent) ==
  IF significand < 2 ^ Precision
  THEN [significand |-> significand, exponent |-> exponent]
  ELSE IF exponent < MaxExponent
  THEN [significand |-> 2 ^ (Precision - 1), exponent |-> exponent + 1]
  ELSE Overflow

(* The float nearest to a magnitude. *)
NearestAt(magnitude, exponent) ==
  FloatAt(Rounded(magnitude, Unit(exponent)), exponent)

NearestFloat(magnitude) == NearestAt(magnitude, FittingExponent(magnitude))

ValueOf(float) == float.significand * Unit(float.exponent)

Float ==
  {[significand |-> s, exponent |-> e] :
     s \in (2 ^ (Precision - 1))..(2 ^ Precision - 1), e \in MinExponent..MaxExponent}
  \cup {[significand |-> s, exponent |-> MinExponent] :
     s \in 0..(2 ^ (Precision - 1) - 1)}

(* The power of ten of the first digit of a float other than zero. *)
LeadingTen(float) ==
  CHOOSE t \in (-MaxTen)..MaxTen :
    /\ Scaled(1, t) <= ValueOf(float)
    /\ ValueOf(float) \div 10 < Scaled(1, t)

(* Digits without trailing zeros. *)
Stripped(digits, ten) ==
  IF digits % 10 = 0 THEN [digits |-> digits \div 10, ten |-> ten + 1]
  ELSE [digits |-> digits, ten |-> ten]

ReadsBack(float, digits, ten) == NearestFloat(Scaled(digits, ten)) = float

DigitsBelow(float, ten) == ValueOf(float) \div Scaled(1, ten)

(* The greatest power of ten for the last digit. *)
LastTen(float) ==
  LET isEnough(t) == \E d \in {0, 1} : ReadsBack(float, DigitsBelow(float, t) + d, t)
  IN CHOOSE t \in (-MaxTen)..LeadingTen(float) :
       /\ isEnough(t)
       /\ \A u \in (t + 1)..LeadingTen(float) : ~isEnough(u)

(* Of the two neighbours that read back, the nearer one. *)
DigitsAt(float, low, ten) ==
  LET nearest == Rounded(ValueOf(float), Scaled(1, ten))
  IN IF ReadsBack(float, nearest, ten) THEN Stripped(nearest, ten)
     ELSE Stripped(IF nearest = low THEN low + 1 ELSE low, ten)

ShortestAt(float, ten) == DigitsAt(float, DigitsBelow(float, ten), ten)

(* The shortest digits that read back as the float, nearest to it, ties to *)
(* an even last digit.                                                     *)
ShortestDigits(float) == ShortestAt(float, LastTen(float))

-----------------------------------------------------------------------------
(* Texts *)

Form == {"integer", "fraction", "scientific"}

Text(negative, digits, ten, form) ==
  [negative |-> negative, digits |-> digits, ten |-> ten, form |-> form]

ZeroText == Text(FALSE, 0, 0, "integer")

Refused == Text(FALSE, 0, 0, "refused")

DigitCount(digits) ==
  CHOOSE n \in 1..(2 * MaxTen + 1) :
    10 ^ (n - 1) <= digits /\ digits < 10 ^ n

(* Written out in full, if the first digit lies between low and high. *)
WrittenOut(negative, shortest, first, low, high) ==
  IF first < low \/ first >= high
  THEN Text(negative, shortest.digits, shortest.ten, "scientific")
  ELSE IF shortest.ten >= 0
  THEN Text(negative, shortest.digits * 10 ^ shortest.ten, 0, "integer")
  ELSE Text(negative, shortest.digits, shortest.ten, "fraction")

WriteDigits(negative, shortest, low, high) ==
  WrittenOut(negative, shortest,
             shortest.ten + DigitCount(shortest.digits) - 1, low, high)

Layout(negative, float, low, high) ==
  WriteDigits(negative, ShortestDigits(float), low, high)

IsIntegerLexeme(text) == text.form = "integer"

IsValueOf(float, magnitude) == float # Overflow /\ ValueOf(float) = magnitude

ExactlyRepresentable(text) ==
  IsValueOf(NearestFloat(MagnitudeOf(text)), MagnitudeOf(text))

(* A number is refused where its float is too large, or is not the integer *)
(* that the text shows.                                                    *)
NumberText(text, float) ==
  IF IsIntegerLexeme(text) /\ ~ExactlyRepresentable(text) THEN Refused
  ELSE IF float = Overflow THEN Refused
  ELSE IF float.significand = 0 THEN ZeroText
  ELSE Layout(text.negative, float, DecimalLow, DecimalHigh)

(* Mutant: integers are rounded like any other number. *)
MutantIntegersRounded(text) ==
  NumberText([text EXCEPT !.form = "fraction"], NearestFloat(MagnitudeOf(text)))

CanonicalNumber(text) == NumberText(text, NearestFloat(MagnitudeOf(text)))

(* The text that canonicalFloat makes of a float64, before it is handed on. *)
GeneralText(negative, float) ==
  IF float.significand = 0 THEN Text(negative, 0, 0, "integer")
  ELSE Layout(negative, float, GeneralLow, GeneralHigh)

CanonicalFloat(negative, float) == CanonicalNumber(GeneralText(negative, float))

(* The text that encoding/json makes of a float64 in a struct, which is     *)
(* canonicalized as text.                                                  *)
StructText(negative, float) ==
  IF float.significand = 0 THEN Text(negative, 0, 0, "integer")
  ELSE Layout(negative, float, DecimalLow, DecimalHigh)

-----------------------------------------------------------------------------
(* A number on its way: it arrives as text, as a float64 or as a float64   *)
(* in a struct, and each node that it passes canonicalizes what it was     *)
(* given.                                                                  *)

VARIABLES
  text,  \* the number as it is written now
  from   \* where it came from: a member of Source

vars == <<text, from>>

Source == {"wire", "float", "struct", "canonical"}

WireText ==
  {Text(n, d, 0, "integer") : n \in BOOLEAN, d \in 0..MaxCoefficient}
  \cup {Text(n, d, t, "fraction") :
          n \in BOOLEAN, d \in 0..MaxFraction, t \in (-MaxTen)..(-1)}
  \cup {Text(n, d, t, "scientific") :
          n \in BOOLEAN, d \in 0..MaxFraction, t \in (-MaxTen)..MaxWireTen}

Init ==
  \/ text \in WireText /\ from = "wire"
  \/ /\ text \in {GeneralText(n, f) : n \in BOOLEAN, f \in Float}
     /\ from = "float"
  \/ /\ text \in {StructText(n, f) : n \in BOOLEAN, f \in Float}
     /\ from = "struct"

Canonicalize ==
  /\ CanonicalNumber(text) # Refused
  /\ text' = CanonicalNumber(text)
  /\ from' = "canonical"

Next == Canonicalize

Spec == Init /\ [][Next]_vars

-----------------------------------------------------------------------------
(* Properties *)

TypeOK ==
  /\ text.negative \in BOOLEAN /\ text.digits \in Nat
  /\ text.ten \in Int /\ text.form \in Form
  /\ text.form = "integer" => text.ten = 0
  /\ from = "canonical" /\ text.form # "integer" => text.digits % 10 # 0
  /\ text.form = "fraction" => text.ten < 0
  /\ from \in Source

(* Numbers that read as the same float64 get the same text, however they   *)
(* were written and whether they came as JSON or were held as a float64:   *)
(* digests of equal inputs agree between Go code and the wire, and zero    *)
(* has no sign (idempotency.go:420, :456).                                 *)
OneTextPerFloat ==
  LET canonical == CanonicalNumber(text)
      float == NearestFloat(MagnitudeOf(text))
  IN canonical # Refused =>
       /\ canonical = CanonicalFloat(text.negative /\ float.significand # 0, float)
       /\ NearestFloat(MagnitudeOf(canonical)) = float

(* An integer is not rounded without a word: a reader of the canonical     *)
(* text that uses binary64 finds exactly the integer that was written      *)
(* (idempotency.go:445).                                                   *)
IntegersAreNotRounded ==
  IsIntegerLexeme(text) /\ CanonicalNumber(text) # Refused =>
    ValueOf(NearestFloat(MagnitudeOf(CanonicalNumber(text))))
      = MagnitudeOf(text)

(* No finite float64 is refused: the check on integers never sees digits   *)
(* that shortest formatting made up (idempotency.go:420).                  *)
FloatsAreAccepted == from = "float" => CanonicalNumber(text) # Refused

(* Canonicalized again, a canonical number with a point or an exponent     *)
(* stays as it is, and so does an integer that binary64 holds one by one;  *)
(* beyond, an integer text is accepted exactly if it is the value of its   *)
(* float. The same goes for a float64 in a struct, which reaches the check *)
(* on integers with its digits filled up (idempotency.go:312, :445).       *)
CanonicalIsStable ==
  from \in {"canonical", "struct"} =>
    LET again == CanonicalNumber(text)
        accepted == \/ ~IsIntegerLexeme(text)
                    \/ text.digits <= 2 ^ Precision
                    \/ ExactlyRepresentable(text)
    IN /\ again = Refused <=> ~accepted
       /\ from = "canonical" /\ accepted => again = text

(* "MaxAccountGeneration is the largest integer that retains one exact     *)
(* identity across protobuf int64, decimal gRPC metadata, and RFC 8785     *)
(* JSON grants." (metadata.go:68): the number of a generation is canonical *)
(* and reads as that generation, and the next one as another.              *)
GenerationIsExact ==
  IsIntegerLexeme(text) /\ ~text.negative /\ text.digits \in 1..LastGeneration =>
    /\ CanonicalNumber(text) = text
    /\ ValueOf(NearestFloat(MagnitudeOf(text))) = MagnitudeOf(text)
    /\ NearestFloat(MagnitudeOf([text EXCEPT !.digits = @ + 1]))
         # NearestFloat(MagnitudeOf(text))

(* "canonical output cannot be parsed", "canonicalization is not           *)
(* idempotent" (conformance_test.go:276, :279): whatever is accepted once  *)
(* is accepted again, and unchanged.                                       *)
Idempotent == from = "canonical" => CanonicalNumber(text) = text
=============================================================================

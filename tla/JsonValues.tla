----------------------------- MODULE JsonValues -----------------------------
(***************************************************************************)
(* The values, strings and tokens of canonical JSON (idempotency.go), and  *)
(* how a value is written, given how the values in it are.  The order in   *)
(* which Go walks a map is left open, and so is the order in which         *)
(* sort.Slice leaves equal elements.                                       *)
(*                                                                         *)
(* A string is a sequence of code points; in a text, each is spelled as    *)
(* itself, with a short escape or with \u.  Separators and blanks are left *)
(* to encoding/json.                                                       *)
(***************************************************************************)
EXTENDS Integers, FiniteSets, Sequences, SequencesExt

-----------------------------------------------------------------------------
(* Strings *)

Spelling == {"literal", "short", "unicode"}

(* Halves of surrogate pairs are none: see JsonStrings. *)
IsCodePoint(point) == point <= 1114111 /\ (point < 55296 \/ 57343 < point)

IsSpelledString(spelled) ==
  /\ spelled \in Seq([point : Nat, spelling : Spelling])
  /\ \A i \in DOMAIN spelled : IsCodePoint(spelled[i].point)

Points(spelled) == [i \in DOMAIN spelled |-> spelled[i].point]

ShortEscape == {8, 9, 10, 12, 13, 34, 92}

CanonicalString(string) ==
  [i \in DOMAIN string |->
     [point |-> string[i],
      spelling |-> CASE string[i] \in ShortEscape -> "short"
                     [] string[i] \notin ShortEscape /\ string[i] < 32 -> "unicode"
                     [] OTHER -> "literal"]]

Utf16(string) ==
  LET units(point) ==
        IF point < 65536 THEN <<point>>
        ELSE <<55296 + (point - 65536) \div 1024, 56320 + ((point - 65536) % 1024)>>
  IN FlattenSeq([i \in DOMAIN string |-> units(string[i])])

(* Is a before b?  Decided where they differ first, or by their lengths. *)
FirstDifference(a, b) ==
  LET common == {i \in DOMAIN a \cap DOMAIN b : a[i] # b[i]}
  IN IF common = {} THEN 0 ELSE CHOOSE i \in common : \A j \in common : i <= j

(* Mutant: by code point. *)
MutantByCodePoint(a, b) ==
  LET i == FirstDifference(a, b)
  IN IF i = 0 THEN Len(a) < Len(b) ELSE a[i] < b[i]

CompareUTF16(a, b) ==
  LET aa == Utf16(a)
      bb == Utf16(b)
      i == FirstDifference(aa, bb)
  IN IF i = 0 THEN Len(aa) < Len(bb) ELSE aa[i] < bb[i]

-----------------------------------------------------------------------------
(* Values.  An object maps its names to values. *)

Atom == {"null", "number", "inexact"}

AtomValue(atom) == [kind |-> atom]
StringValue(string) == [kind |-> "string", string |-> string]
ArrayValue(items) == [kind |-> "array", items |-> items]
ObjectValue(members) == [kind |-> "object", members |-> members]

(* Tokens *)
Symbol == {"{", "}", "[", "]"} \cup Atom
SymbolToken(symbol) == [token |-> symbol]
StringToken(spelled) == [token |-> "string", spelled |-> spelled]

(* The orders in which sort.Slice may leave the names of an object. *)
SortedNames(names) ==
  {order \in SetToSeqs(names) :
     \A i, j \in DOMAIN order : i < j => ~CompareUTF16(order[j], order[i])}

-----------------------------------------------------------------------------
(* Writing *)

(* A sequence of sets of texts gives the texts made of one of each. *)
OneOfEach(texts) ==
  {FlattenSeq(choice) :
     choice \in {c \in [DOMAIN texts -> UNION {texts[i] : i \in DOMAIN texts}] :
                   \A i \in DOMAIN texts : c[i] \in texts[i]}}

Enclosed(open, texts, close) ==
  {<<SymbolToken(open)>> \o text \o <<SymbolToken(close)>> : text \in texts}

Members(members, order, written(_)) ==
  [i \in DOMAIN order |->
     {<<StringToken(CanonicalString(order[i]))>> \o text :
        text \in written(members[order[i]])}]

(* The texts that the value may be written as; none, if it is refused.     *)
TextsOf(value, written(_)) ==
  CASE value.kind = "inexact" -> {}
    [] value.kind \in Atom \ {"inexact"} -> {<<SymbolToken(value.kind)>>}
    [] value.kind = "string" -> {<<StringToken(CanonicalString(value.string))>>}
    [] value.kind = "array" ->
         Enclosed("[", OneOfEach([i \in DOMAIN value.items |-> written(value.items[i])]), "]")
    [] value.kind = "object" ->
         UNION {Enclosed("{", OneOfEach(Members(value.members, order, written)), "}") :
                  order \in SortedNames(DOMAIN value.members)}
=============================================================================

----------------------------- MODULE JsonStrings -----------------------------
(***************************************************************************)
(* The scan that CanonicalizeJSON makes of a text before encoding/json     *)
(* reads it (validateJSONStrings, idempotency.go).  encoding/json puts     *)
(* U+FFFD where a string holds bytes that are no UTF-8 or half of a        *)
(* surrogate pair; the scan is there to refuse such a text instead.        *)
(*                                                                         *)
(* A text is a sequence of chunks.  Behind a backslash "u" and four hex    *)
(* digits are an escape; elsewhere they are five plain characters.  The    *)
(* text goes on behind the chunk at which the scan refuses it.             *)
(***************************************************************************)
EXTENDS Integers, FiniteSets, Sequences

CONSTANTS
  MaxChunks,  \* bound: the length of a text
  MaxOutside  \* bound: where in it plain chunks may be outside of strings

MaxChunksAssumption == MaxChunks \in Nat /\ MaxOutside \in Nat

Chunk == {
  "quote",
  "backslash",
  "letter",      \* one of / b f n r t
  "high",        \* u and four digits: the first half of a surrogate pair
  "low",         \* u and four digits: the second half
  "unit",        \* u and four digits: another code unit
  "u",           \* u without four digits
  "character",   \* another ASCII character
  "control",     \* a byte below 0x20
  "rune",        \* a well-formed sequence of several bytes
  "byte"}        \* a byte that belongs to none

Refused == "refused"        \* at a chunk, whatever is behind it
Unfinished == "unfinished"  \* as it ends inside of a string

-----------------------------------------------------------------------------
(* The scan, by what it has just read. *)

AfterBackslash(chunk) ==
  CASE chunk \in {"quote", "backslash", "letter", "unit"} -> "string"
    [] chunk = "high" -> "high"
    [] OTHER -> Refused

(* Mutant: the first byte of a sequence is judged by itself. *)
MutantInString(chunk) ==
  CASE chunk = "quote" -> "outside"
    [] chunk = "backslash" -> "escape"
    [] chunk \in {"control", "byte", "rune"} -> Refused
    [] OTHER -> "string"

InString(chunk) ==
  CASE chunk = "quote" -> "outside"
    [] chunk = "backslash" -> "escape"
    [] chunk \in {"control", "byte"} -> Refused
    [] OTHER -> "string"

(* Behind a first half only a second one may follow, as an escape. *)
AfterHigh(mode, chunk) ==
  CASE mode = "high" /\ chunk = "backslash" -> "highEscape"
    [] mode = "highEscape" /\ chunk = "low" -> "string"
    [] OTHER -> Refused

Outside(chunk) == IF chunk = "quote" THEN "string" ELSE "outside"

ValidateJSONStrings(mode, chunk) ==
  CASE mode = "outside" -> Outside(chunk)
    [] mode = "string" -> InString(chunk)
    [] mode = "escape" -> AfterBackslash(chunk)
    [] OTHER -> AfterHigh(mode, chunk)

-----------------------------------------------------------------------------
VARIABLES
  text,  \* the chunks read so far
  mode   \* where the scan stands, or its result

vars == <<text, mode>>

Mode == {"outside", "string", "escape", "high", "highEscape"}

Init == text = <<>> /\ mode = "outside"

Read ==
  /\ mode \in Mode
  /\ Len(text) < MaxChunks
  /\ \E chunk \in Chunk :
       /\ mode = "outside" /\ chunk # "quote" => Len(text) < MaxOutside
       /\ text' = Append(text, chunk)
       /\ mode' = ValidateJSONStrings(mode, chunk)

(* The scan has returned; the rest of the text may be anything. *)
FollowRefusal ==
  /\ mode = Refused
  /\ Len(text) < MaxChunks
  /\ \E chunk \in Chunk : text' = Append(text, chunk)
  /\ UNCHANGED mode

End ==
  /\ mode \in Mode
  /\ mode' = IF mode = "outside" THEN "accepted" ELSE Unfinished
  /\ UNCHANGED text

Next == Read \/ FollowRefusal \/ End

Spec == Init /\ [][Next]_vars

-----------------------------------------------------------------------------
(* The same by position, as a reader of the finished text would judge it.  *)

Backslashes(i) ==
  CHOOSE n \in 0..(i - 1) :
    /\ \A j \in (i - n)..(i - 1) : text[j] = "backslash"
    /\ n < i - 1 => text[i - n - 1] # "backslash"

IsEscaped(i) == Backslashes(i) % 2 = 1

IsDelimiter(i) == text[i] = "quote" /\ ~IsEscaped(i)

IsInside(i) ==
  LET before == {j \in 1..(i - 1) : IsDelimiter(j)}
      lastOpens[n \in 0..(i - 1)] ==
        IF n = 0 THEN FALSE
        ELSE IF n \in before THEN ~lastOpens[n - 1] ELSE lastOpens[n - 1]
  IN lastOpens[i - 1] /\ ~IsDelimiter(i)

IsHalf(i, kind) ==
  i \in DOMAIN text /\ text[i] = kind /\ IsEscaped(i) /\ IsInside(i)

(* encoding/json would put U+FFFD for chunk i. *)
IsReplaced(i) ==
  \/ text[i] = "byte" /\ IsInside(i)
  \/ IsHalf(i, "high") /\ ~IsHalf(i + 2, "low")
  \/ IsHalf(i, "low") /\ ~IsHalf(i - 2, "high")

(* Nor is it JSON at all. *)
IsMalformed(i) ==
  /\ IsInside(i)
  /\ \/ text[i] = "control"
     \/ IsEscaped(i) /\ text[i] \in {"character", "rune", "byte", "u"}

(* JSON has no backslash outside of strings: the decoder refuses it. *)
BackslashOutside ==
  \E i \in DOMAIN text : text[i] = "backslash" /\ ~IsInside(i)

-----------------------------------------------------------------------------
(* Properties *)

TypeOK ==
  /\ text \in Seq(Chunk)
  /\ mode \in Mode \cup {"accepted", Refused, Unfinished}
  /\ mode \in {"escape", "highEscape"} => text[Len(text)] = "backslash"
  /\ mode = "high" => text[Len(text)] = "high"

(* A text that the scan lets pass is read without replacement characters:  *)
(* two inputs that differ in broken text never get the same canonical      *)
(* form (idempotency.go:652, :660, :672).                                  *)
NothingIsReplaced ==
  mode = "accepted" /\ ~BackslashOutside => ~\E i \in DOMAIN text : IsReplaced(i)

(* The scan refuses no text that the decoder would read as it is: once it  *)
(* has refused one at a chunk, no text that goes on from there is without  *)
(* a chunk that is replaced or malformed, and a text that it finds         *)
(* unfinished leaves a string open (idempotency.go:630-683).               *)
OnlyBrokenTextIsRefused ==
  ~BackslashOutside =>
    /\ mode = Refused => \E i \in DOMAIN text : IsReplaced(i) \/ IsMalformed(i)
    /\ mode = Unfinished =>
         Cardinality({i \in DOMAIN text : IsDelimiter(i)}) % 2 = 1
=============================================================================

---------------------------- MODULE CanonicalJson ----------------------------
(***************************************************************************)
(* Canonical JSON (idempotency.go): a text is decoded token by token into  *)
(* a value, the value is written in canonical form, and the next node      *)
(* decodes that text again.                                                *)
(*                                                                         *)
(* JsonStrings has the scan that comes first, CanonicalNumber the numbers: *)
(* here one number is itself, and one is refused when it is written.       *)
(***************************************************************************)
EXTENDS JsonValues

CONSTANTS
  Spelled,              \* spelled strings that a text may hold
  CanonicalForms(_),    \* the canonical texts of a value: that of CanonicalText
  MaxTokens,            \* bound: the length of a text from outside
  MaxDepth              \* bound: the nesting of a text

BoundAssumption == MaxTokens \in Nat /\ MaxDepth \in Nat

SpelledAssumption == \A spelled \in Spelled : IsSpelledString(spelled)

(* What CanonicalText defines it by. *)
WritingAssumption ==
  \A value : CanonicalForms(value) = TextsOf(value, CanonicalForms)

-----------------------------------------------------------------------------
(* Decoding.  A frame is an array or an object that is being read; "name"  *)
(* is the one whose value comes next, "written" counts those in the text.  *)

VARIABLES
  text,      \* the tokens read so far
  stack,     \* the frames, innermost last
  decoded,   \* the value, once it is complete
  state,     \* "decoding", "decoded", "accepted" or "refused"
  canonical  \* the canonical text, when it is read again

vars == <<text, stack, decoded, state, canonical>>

Nothing == <<>>

Frame(kind) ==
  [kind |-> kind, items |-> <<>>, members |-> <<>>, name |-> Nothing, written |-> 0]

Top == Last(stack)

AwaitsName == stack # <<>> /\ Top.kind = "object" /\ Top.name = Nothing

(* The control characters, the quote and the backslash need an escape. *)
IsWellSpelled(spelled) ==
  \A i \in DOMAIN spelled :
    CASE spelled[i].spelling = "literal" ->
           spelled[i].point >= 32 /\ spelled[i].point \notin {34, 92}
      [] spelled[i].spelling = "short" -> spelled[i].point \in ShortEscape \cup {47}
      [] OTHER -> TRUE

IsRepeated(frame, name) == name \in DOMAIN frame.members

With(members, name, value) ==
  [n \in DOMAIN members \cup {name} |-> IF n = name THEN value ELSE members[n]]

(* A complete value goes into the frame around it, or is the result. *)
Deliver(frames, value) ==
  IF frames = <<>>
  THEN stack' = <<>> /\ decoded' = value /\ state' = "decoded"
  ELSE LET outer == Last(frames)
           filled == IF outer.kind = "array"
                     THEN [outer EXCEPT !.items = Append(@, value)]
                     ELSE [outer EXCEPT !.members = With(@, outer.name[1], value),
                                        !.name = Nothing]
       IN stack' = Append(Front(frames), filled) /\ UNCHANGED <<decoded, state>>

Refuse == state' = "refused" /\ UNCHANGED <<stack, decoded>>

ReadName(spelled) ==
  LET name == Points(spelled)
  IN IF IsRepeated(Top, name) THEN Refuse
     ELSE /\ stack' = Append(Front(stack), [Top EXCEPT !.name = <<name>>,
                                                       !.written = @ + 1])
          /\ UNCHANGED <<decoded, state>>

Open(kind) ==
  /\ stack' = Append(stack, Frame(kind))
  /\ UNCHANGED <<decoded, state>>

Close(kind) ==
  IF stack # <<>> /\ Top.kind = kind /\ Top.name = Nothing
  THEN Deliver(Front(stack), IF kind = "array" THEN ArrayValue(Top.items)
                             ELSE ObjectValue(Top.members))
  ELSE Refuse

DecodeJSONValue(token) ==
  CASE token.token = "string" ->
         IF ~IsWellSpelled(token.spelled) THEN Refuse
         ELSE IF AwaitsName THEN ReadName(token.spelled)
         ELSE Deliver(stack, StringValue(Points(token.spelled)))
    [] token.token = "}" -> Close("object")
    [] token.token = "]" -> Close("array")
    [] token.token = "{" /\ ~AwaitsName -> Open("object")
    [] token.token = "[" /\ ~AwaitsName -> Open("array")
    [] token.token \in Atom /\ ~AwaitsName -> Deliver(stack, AtomValue(token.token))
    [] OTHER -> Refuse

-----------------------------------------------------------------------------
Init ==
  /\ text = <<>>
  /\ stack = <<>>
  /\ decoded = Nothing
  /\ state = "decoding"
  /\ canonical = Nothing

(* What comes next: anything from outside, or the canonical text. *)
NextToken ==
  IF canonical = Nothing
  THEN IF Len(text) = MaxTokens THEN {}
       ELSE {SymbolToken(s) : s \in IF Len(stack) = MaxDepth THEN Symbol \ {"{", "["}
                                    ELSE Symbol}
            \cup {StringToken(spelled) : spelled \in Spelled}
  ELSE IF Len(text) = Len(canonical) THEN {} ELSE {canonical[Len(text) + 1]}

ReadToken ==
  /\ state = "decoding"
  /\ \E token \in NextToken :
       /\ DecodeJSONValue(token)
       /\ text' = Append(text, token)
  /\ UNCHANGED canonical

(* The value is complete and the text goes on. *)
ReadTrailingData ==
  /\ state = "decoded"
  /\ \E token \in NextToken : text' = Append(text, token)
  /\ state' = "refused"
  /\ UNCHANGED <<stack, decoded, canonical>>

EndOfText ==
  /\ state \in {"decoding", "decoded"}
  /\ canonical # Nothing => Len(text) = Len(canonical)
  /\ state' = IF state = "decoded" THEN "accepted" ELSE "refused"
  /\ UNCHANGED <<text, stack, decoded, canonical>>

(* The value is written, and the next node reads what it gets. *)
WriteAndReadAgain ==
  /\ state = "accepted" /\ canonical = Nothing
  /\ canonical' \in CanonicalForms(decoded)
  /\ text' = <<>>
  /\ stack' = <<>>
  /\ decoded' = Nothing
  /\ state' = "decoding"

Next == ReadToken \/ ReadTrailingData \/ EndOfText \/ WriteAndReadAgain

Spec == Init /\ [][Next]_vars

-----------------------------------------------------------------------------
(* Properties *)

TypeOK ==
  /\ state \in {"decoding", "decoded", "accepted", "refused"}
  /\ \A i \in DOMAIN stack :
       /\ stack[i].kind \in {"array", "object"}
       /\ stack[i].name # Nothing => stack[i].kind = "object"
       /\ i < Len(stack) /\ stack[i].kind = "object" => stack[i].name # Nothing
  /\ state \in {"decoded", "accepted"} => stack = <<>>

(* No member of a text is lost: one whose name comes twice, in whatever    *)
(* spelling, is refused, or two readers of a request would each see their  *)
(* own (idempotency.go:578).                                               *)
NoMemberIsLost ==
  \A i \in DOMAIN stack :
    stack[i].written = Cardinality(DOMAIN stack[i].members) + Len(stack[i].name)

(* A value has one canonical text, in whatever order Go walks its maps     *)
(* (idempotency.go:348, :356).                                             *)
OneTextPerValue ==
  state = "accepted" => Cardinality(CanonicalForms(decoded)) <= 1

(* Names come in the order of RFC 8785: characters beyond the basic plane  *)
(* before those at its end (idempotency.go:519).                           *)
Rank(point) == CASE point < 55296 -> point
                 [] 55296 <= point /\ point < 65536 -> point + 1048576
                 [] OTHER -> point - 65536 + 55296

Precedes(a, b) ==
  \E n \in 0..Len(a) :
    /\ n < Len(b) /\ \A i \in 1..n : a[i] = b[i]
    /\ n = Len(a) \/ Rank(a[n + 1]) < Rank(b[n + 1])

NamesInOrder ==
  state = "accepted" /\ decoded.kind = "object" =>
    \A order \in SortedNames(DOMAIN decoded.members) :
      \A i \in 1..(Len(order) - 1) : Precedes(order[i], order[i + 1])

(* The canonical text of whatever was accepted is accepted again, and is   *)
(* its own canonical text: the caller's and the service's digests are of   *)
(* the same bytes (conformance_test.go:274-280; protocol.md:249).          *)
CanonicalAgain ==
  canonical # Nothing =>
    /\ state # "refused"
    /\ state = "accepted" => CanonicalForms(decoded) = {canonical}
=============================================================================

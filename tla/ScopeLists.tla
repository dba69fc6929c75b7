----------------------------- MODULE ScopeLists -----------------------------
(***************************************************************************)
(* Names and lists of scopes, character by character and item by item:     *)
(* grant.go and replay.go check names by two different rules, and compare  *)
(* lists by position, by membership or by order.  The other modules take   *)
(* names as atoms and lists as sets; this one shows what that rests on.    *)
(*                                                                         *)
(* A name is a sequence of code points, BadByte for a byte that is no      *)
(* UTF-8.  Length limits are constants: the code has 128 and 256 bytes.    *)
(***************************************************************************)
EXTENDS Integers, Sequences, FiniteSets

CONSTANTS
  MaxName,    \* bytes of a name
  MaxScope,   \* bytes of a scope
  Names,      \* names to be judged
  Lists       \* lists of scopes to be compared

LimitAssumption == MaxScope \in Nat /\ MaxName \in Nat /\ MaxScope <= MaxName

ItemAssumption ==
  Names \subseteq Seq(Nat) /\ <<>> \in Lists /\ Lists \subseteq Seq(Seq(Nat))

VARIABLES
  name,     \* a name
  left,     \* the scopes of a grant
  right,    \* the scopes asked for, or those of its renewal
  verdict   \* what was found of them

vars == <<name, left, right, verdict>>

-----------------------------------------------------------------------------
(* Characters (package unicode) *)

Arrow == 8594
BadByte == 65533  \* a range loop sees U+FFFD

IsControl(c) == c < 32 \/ c \in 127..159
IsSpace(c) == c \in 9..13 \cup {32, 133, 160}

Bytes(c) == IF c = BadByte \/ c < 128 THEN 1 ELSE IF c < 2048 THEN 2 ELSE 3

LengthOf(value) ==
  LET upTo[i \in 0..Len(value)] ==
        IF i = 0 THEN 0 ELSE upTo[i - 1] + Bytes(value[i])
  IN upTo[Len(value)]

IsTrimmed(value) ==
  value # <<>> => ~ IsSpace(value[1]) /\ ~ IsSpace(value[Len(value)])

(* Go compares strings by their bytes: for UTF-8, by their code points. *)
Less(a, b) ==
  \/ Len(a) < Len(b) /\ \A i \in DOMAIN a : a[i] = b[i]
  \/ \E i \in DOMAIN a \cap DOMAIN b :
       a[i] < b[i] /\ \A j \in 1..(i - 1) : a[j] = b[j]

-----------------------------------------------------------------------------
(* Names *)

validateGrantToken(value, maxLen) ==
  /\ value # <<>>
  /\ LengthOf(value) <= maxLen
  /\ IsTrimmed(value)
  /\ \A i \in DOMAIN value : ~ IsControl(value[i]) /\ value[i] # Arrow

(* The other rule: DEL and the second block of controls pass. *)
validateReplayToken(value) ==
  /\ value # <<>>
  /\ IsTrimmed(value)
  /\ LengthOf(value) <= MaxName
  /\ \A i \in DOMAIN value : value[i] >= 32 /\ value[i] # Arrow

-----------------------------------------------------------------------------
(* Lists *)

(* Mutant: equal neighbours pass. *)
MutantSortedOnly(values) ==
  \A i \in DOMAIN values :
    /\ validateGrantToken(values[i], MaxScope)
    /\ i > 1 => ~ Less(values[i], values[i - 1])

isSortedUnique(values) ==
  \A i \in DOMAIN values :
    /\ validateGrantToken(values[i], MaxScope)
    /\ i > 1 => Less(values[i - 1], values[i])

containsScope(scopes, wanted) == \E i \in DOMAIN scopes : scopes[i] = wanted

(* Mutant: compared position by position. *)
MutantPrefixSubset(required, granted) ==
  \A i \in DOMAIN required : i \in DOMAIN granted /\ required[i] = granted[i]

scopesSubset(required, granted) ==
  \A i \in DOMAIN required : containsScope(granted, required[i])

sameStringSlice(a, b) ==
  Len(a) = Len(b) /\ \A i \in DOMAIN a : a[i] = b[i]

-----------------------------------------------------------------------------
Init ==
  /\ verdict = {}
  /\ \/ name \in Names /\ left = <<>> /\ right = <<>>
     \/ name = <<>> /\ left \in Lists /\ right \in Lists

(* A name is judged where it is signed and where it becomes a replay key. *)
JudgeName ==
  /\ name # <<>>
  /\ verdict' = {v \in {"grant", "replay"} :
                   IF v = "grant" THEN validateGrantToken(name, MaxName)
                   ELSE validateReplayToken(name)}
  /\ UNCHANGED <<name, left, right>>

(* Two lists that the claims' validator has taken are compared. *)
CompareLists ==
  /\ name = <<>>
  /\ isSortedUnique(left) /\ isSortedUnique(right)
  /\ verdict' = {v \in {"subset", "same"} :
                   IF v = "subset" THEN scopesSubset(right, left)
                   ELSE sameStringSlice(right, left)} \cup {"compared"}
  /\ UNCHANGED <<name, left, right>>

Next == JudgeName \/ CompareLists

Spec == Init /\ [][Next]_vars

-----------------------------------------------------------------------------
ScopesOf(list) == {list[i] : i \in DOMAIN list}

(* Every variable has its type; lists that are compared repeat nothing.    *)
TypeOK ==
  /\ name \in Names \cup {<<>>}
  /\ left \in Lists /\ right \in Lists
  /\ verdict \subseteq {"grant", "replay", "subset", "same", "compared"}
  /\ "compared" \in verdict =>
       Cardinality(ScopesOf(left)) = Len(left)
         /\ Cardinality(ScopesOf(right)) = Len(right)

(* Whatever operation or owner a grant can name has a replay key: nothing  *)
(* the Agent admits is later refused by its own ledger (grant.go:703,      *)
(* replay.go:256).                                                         *)
GrantedNameHasKey == "grant" \in verdict => "replay" \in verdict

(* Comparing accepted lists by position is comparing sets, so a renewal    *)
(* (replay.go:284) and the narrowing of a child (product_delegation.go:354) *)
(* see neither order nor repetition.                                       *)
ListsAreSets ==
  "compared" \in verdict =>
    /\ "same" \in verdict <=> ScopesOf(left) = ScopesOf(right)
    /\ "subset" \in verdict <=> ScopesOf(right) \subseteq ScopesOf(left)
=============================================================================

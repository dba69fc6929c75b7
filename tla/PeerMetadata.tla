----------------------------- MODULE PeerMetadata -----------------------------
(***************************************************************************)
(* The gRPC metadata with which Agent and message-server authenticate each *)
(* other (metadata.go): formatted by one side, carried by stacks that may  *)
(* repeat, drop, pad or respell a value, and parsed by the other side.     *)
(*                                                                         *)
(* A token is a sequence of sextets, NoSextet for a character outside the  *)
(* alphabet; a generation is a sequence of characters.  Sizes are          *)
(* constants: the code has 32 bytes in 43 characters.                      *)
(***************************************************************************)
EXTENDS Integers, FiniteSets, Sequences

CONSTANTS
  CapabilityTokenBytes,  \* bytes of a token
  MaxAccountGeneration,  \* the largest account generation: 2^53 - 1
  MaxInteger,            \* the largest that ParseInt takes: 2^63 - 1
  Instance,              \* instance ids
  RawTokens,             \* raw tokens that services are configured with
  Generations,           \* account generations they are configured with
  MaxText                \* bound: characters of a generation on the wire

SizeAssumption ==
  /\ CapabilityTokenBytes \in Nat \ {0}
  /\ MaxAccountGeneration \in Nat /\ MaxInteger \in Nat
  /\ MaxAccountGeneration <= MaxInteger
  /\ Generations \subseteq Int

VARIABLES
  sent,   \* the metadata of the service that calls
  wire,   \* the values under each key
  state,  \* "configured", "sent", "respelled", "accepted" or "refused"
  parsed  \* the metadata that the receiver has read

vars == <<sent, wire, state, parsed>>

-----------------------------------------------------------------------------
(* Tokens *)

CapabilityTokenLength == (8 * CapabilityTokenBytes + 5) \div 6

NoSextet == 64

Byte == 0..255
Bits == 6 * CapabilityTokenLength

(* The number that the sextets, or the bytes, of a token make. *)
Digits(sequence, base) ==
  LET upTo[i \in 0..Len(sequence)] ==
        IF i = 0 THEN 0 ELSE base * upTo[i - 1] + sequence[i]
  IN upTo[Len(sequence)]

Spare == 2 ^ (Bits - 8 * CapabilityTokenBytes)

EncodeCapabilityToken(raw) ==
  [i \in 1..CapabilityTokenLength |->
     ((Digits(raw, 256) * Spare) \div 64 ^ (CapabilityTokenLength - i)) % 64]

DecodeToken(token) ==
  [i \in 1..CapabilityTokenBytes |->
     ((Digits(token, 64) \div Spare) \div 256 ^ (CapabilityTokenBytes - i)) % 256]

(* Mutant: the bits that are left over are not looked at. *)
MutantAnySpareBits(token) ==
  Len(token) = CapabilityTokenLength /\ \A i \in DOMAIN token : token[i] # NoSextet

ValidateCapabilityToken(token) ==
  /\ Len(token) = CapabilityTokenLength
  /\ \A i \in DOMAIN token : token[i] # NoSextet
  /\ EncodeCapabilityToken(DecodeToken(token)) = token

FormatCapabilityToken(token) == [scheme |-> "DTX-Capability-Token", blanks |-> 1, token |-> token]

ParsesAsToken(value) ==
  /\ value.blanks = 1
  /\ value.scheme = "DTX-Capability-Token"
  /\ ValidateCapabilityToken(value.token)

-----------------------------------------------------------------------------
(* Instance ids and generations *)

IdSpelling == {"canonical", "uppercase", "plain", "nil"}

ValidateInstanceID(value) == value.id \in Instance /\ value.spelling = "canonical"

Plus == 10
Minus == 11
Other == 12

ValidAccountGeneration(value) == value > 0 /\ value <= MaxAccountGeneration

(* The number is divided by ten until one digit is left. *)
FormatInt(value) ==
  LET rest[i \in 0..value] == IF i = 0 THEN value ELSE rest[i - 1] \div 10
      last == CHOOSE i \in 0..value :
                rest[i] < 10 /\ \A j \in 0..value : rest[j] < 10 => i <= j
  IN [i \in 1..(last + 1) |-> rest[last + 1 - i] % 10]

ParseInt(text) ==
  LET signed == text # <<>> /\ text[1] \in {Plus, Minus}
      digits == IF signed THEN Tail(text) ELSE text
  IN IF digits = <<>> \/ \E i \in DOMAIN digits : digits[i] > 9 THEN -1
     ELSE IF Digits(digits, 10) > MaxInteger THEN -1
     ELSE IF text[1] = Minus THEN -Digits(digits, 10) ELSE Digits(digits, 10)

ParsesAsGeneration(text) ==
  /\ text # <<0>>
  /\ Len(text) > 1 => text[1] # 0
  /\ text[1] \notin {Plus, Minus}
  /\ ValidAccountGeneration(ParseInt(text))

-----------------------------------------------------------------------------
(* Metadata *)

Key == {"authorization", "instance", "generation"}

Plain(value) == <<[value |-> value, padded |-> FALSE]>>

FormatCapabilityMetadata(metadata) ==
  [authorization |-> Plain(FormatCapabilityToken(metadata.token)),
   instance |-> Plain(metadata.instance),
   generation |-> Plain(FormatInt(metadata.generation))]

MayFormat(metadata) ==
  /\ ValidateCapabilityToken(metadata.token)
  /\ ValidateInstanceID(metadata.instance)
  /\ ValidAccountGeneration(metadata.generation)

(* Exactly one value, with no blanks around it. *)
HasOne(items) == Len(items) = 1 /\ ~items[1].padded

ParsesAsMetadata(values) ==
  /\ \A key \in Key : HasOne(values[key])
  /\ ParsesAsToken(values.authorization[1].value)
  /\ ValidateInstanceID(values.instance[1].value)
  /\ values.generation[1].value # <<>>
  /\ ParsesAsGeneration(values.generation[1].value)

ParseCapabilityMetadata(values) ==
  [token |-> values.authorization[1].value.token,
   instance |-> values.instance[1].value,
   generation |-> ParseInt(values.generation[1].value)]

-----------------------------------------------------------------------------
NoMetadata == [token |-> <<>>, instance |-> [id |-> "none", spelling |-> "nil"],
               generation |-> 0]

Init ==
  /\ sent \in [token : {EncodeCapabilityToken(raw) : raw \in RawTokens},
               instance : [id : Instance, spelling : IdSpelling],
               generation : Generations]
  /\ wire = [key \in Key |-> <<>>]
  /\ state = "configured"
  /\ parsed = NoMetadata

Format ==
  /\ state = "configured"
  /\ IF MayFormat(sent)
     THEN wire' = FormatCapabilityMetadata(sent) /\ state' = "sent"
     ELSE state' = "refused" /\ UNCHANGED wire
  /\ UNCHANGED <<sent, parsed>>

(* Another stack may write a value in its own way. *)
Texts(key) ==
  CASE key = "authorization" ->
         [scheme : {"DTX-Capability-Token", "Bearer"}, blanks : {1, 2},
          token : [1..CapabilityTokenLength -> 0..NoSextet]]
    [] key = "instance" -> [id : Instance, spelling : IdSpelling]
    [] key = "generation" -> UNION {[1..n -> 0..Other] : n \in 0..MaxText}

Respell ==
  /\ state = "sent"
  /\ \E key \in Key :
       \/ \E value \in Texts(key) : wire' = [wire EXCEPT ![key] = Plain(value)]
       \/ wire' = [wire EXCEPT ![key] = @ \o @]
       \/ wire' = [wire EXCEPT ![key] = <<>>]
       \/ wire' = [wire EXCEPT ![key][1].padded = TRUE]
  /\ state' = "respelled"
  /\ UNCHANGED <<sent, parsed>>

Receive ==
  /\ state \in {"sent", "respelled"}
  /\ IF ParsesAsMetadata(wire)
     THEN parsed' = ParseCapabilityMetadata(wire) /\ state' = "accepted"
     ELSE state' = "refused" /\ UNCHANGED parsed
  /\ UNCHANGED <<sent, wire>>

Next == Format \/ Respell \/ Receive

Spec == Init /\ [][Next]_vars

-----------------------------------------------------------------------------
(* Properties *)

TypeOK ==
  /\ state \in {"configured", "sent", "respelled", "accepted", "refused"}
  /\ DOMAIN wire = Key
  /\ parsed.generation \in 0..MaxAccountGeneration
  /\ parsed.token # <<>> <=> state = "accepted"

(* Each identity has one spelling: what is accepted is what the sender's   *)
(* code would have written for it, so no two stacks can disagree on what   *)
(* a value says (metadata.go:107, :131, :146).                             *)
AcceptedIsCanonical ==
  state = "accepted" =>
    /\ MayFormat(parsed) /\ wire = FormatCapabilityMetadata(parsed)
    /\ parsed.token = EncodeCapabilityToken(DecodeToken(parsed.token))

(* Whatever may be sent is accepted, and read as it was meant, when        *)
(* nothing touches it on the way (metadata.go:80, :101).                   *)
SentIsReadBack ==
  /\ state = "sent" => ParsesAsMetadata(wire) /\ ParseCapabilityMetadata(wire) = sent
  /\ state = "refused" /\ MayFormat(sent) =>
       wire # FormatCapabilityMetadata(sent)
=============================================================================

------------------------------ MODULE GrantWire ------------------------------
(***************************************************************************)
(* Grants as bytes: the key material they are signed and checked with, the *)
(* text they travel as, and what a receiver reads out of it (grant.go).    *)
(* Grants and ControlGrants take a grant to be its claims; this module     *)
(* says when that is so.                                                   *)
(*                                                                         *)
(* A key is named by its pair.  A private key holds a seed and a public    *)
(* half, which raw bytes may get from two pairs.  A payload is a function  *)
(* from the names of its JSON fields to their values; lengths are small    *)
(* numbers.  Raw keys that happen to hold "-----BEGIN" are left out.       *)
(***************************************************************************)
EXTENDS ControlGrants, FiniteSets

CONSTANTS
  KeyPair,              \* Ed25519 key pairs
  DefaultGrantMaxSize,  \* 8 KiB, in the units of Length
  None                  \* nothing

SizeAssumption == DefaultGrantMaxSize \in Nat \ {0}

-----------------------------------------------------------------------------
(* Key material: raw bytes, or a text of PEM blocks. *)

RawPrivate(seed, half) == [form |-> "raw", size |-> 64, seed |-> seed, half |-> half]
RawPublic(pair) == [form |-> "raw", size |-> 32, seed |-> Missing, half |-> pair]

Block(type, pair) == [whole |-> TRUE, type |-> type, algorithm |-> "ed25519",
                      pair |-> pair]
PemFile(block) == [form |-> "text", opens |-> "begin", blocks |-> <<block>>,
                   ends |-> "space"]

(* What key material may be: only 64 raw bytes hold a seed. *)
KeyBlock == [whole: BOOLEAN, type: {"PRIVATE KEY", "PUBLIC KEY"},
             algorithm: {"ed25519", "other"}, pair: KeyPair]
KeyFile ==
  [form: {"raw"}, size: {64}, seed: KeyPair, half: KeyPair]
  \cup [form: {"raw"}, size: Nat \ {64}, seed: {Missing}, half: KeyPair]
  \cup [form: {"text"}, opens: {"begin", "other"}, blocks: Seq(KeyBlock),
        ends: {"space", "other"}]

(* pem.Decode passes over blocks it cannot decode. *)
WholeBlocks(file) == {i \in DOMAIN file.blocks : file.blocks[i].whole}
FirstWhole(file) == CHOOSE i \in WholeBlocks(file) :
                      \A j \in WholeBlocks(file) : i <= j

NotPEM(file) ==
  file.form = "raw" \/ (file.opens # "begin" /\ file.blocks = <<>>)

(* Mutant: what follows the first block is not looked at. *)
MutantIgnoreRest(file) ==
  IF NotPEM(file) THEN "no PEM"
  ELSE IF file.opens = "begin" /\ WholeBlocks(file) # {} THEN "block"
  ELSE "malformed"

(* Whether a file is not PEM, or a single block with nothing around it. *)
DecodeKeyPEM(file) ==
  IF NotPEM(file) THEN "no PEM"
  ELSE IF /\ file.opens = "begin"
          /\ WholeBlocks(file) # {}
          /\ FirstWhole(file) = Len(file.blocks)
          /\ file.ends = "space"
       THEN "block" ELSE "malformed"

NoKey == [seed |-> Missing, half |-> Missing]

PemKey(file, type) ==
  LET block == file.blocks[FirstWhole(file)]
  IN IF block.type = type /\ block.algorithm = "ed25519"
     THEN [seed |-> block.pair, half |-> block.pair] ELSE NoKey

ParseGrantPrivateKey(file) ==
  CASE DecodeKeyPEM(file) = "block" -> PemKey(file, "PRIVATE KEY")
    [] DecodeKeyPEM(file) = "no PEM" /\ file.form = "raw" /\ file.size = 64 ->
         [seed |-> file.seed, half |-> file.half]
    [] OTHER -> NoKey

ParseGrantPublicKey(file) ==
  CASE DecodeKeyPEM(file) = "block" -> PemKey(file, "PUBLIC KEY").half
    [] DecodeKeyPEM(file) = "no PEM" /\ file.form = "raw" /\ file.size = 32 ->
         file.half
    [] OTHER -> Missing

(* PKCS#8 keeps the seed alone. *)
MarshalGrantPrivateKeyPEM(file) ==
  PemFile(Block("PRIVATE KEY", ParseGrantPrivateKey(file).seed))
MarshalGrantPublicKeyPEM(file) ==
  PemFile(Block("PUBLIC KEY", ParseGrantPublicKey(file)))

(* An Ed25519 signature covers both halves of its key; it is good for a    *)
(* public key only when both are of that pair.                             *)
Signature(key, payload) == [key |-> key, payload |-> payload]
SignatureVerifies(pair, payload, signature) ==
  signature = Signature([seed |-> pair, half |-> pair], payload)

-----------------------------------------------------------------------------
(* Payloads *)

CapabilityGrantVersion == 1
OperationControlGrantVersion == 1

(* Claims with the version beside them, in canonical JSON. *)
Marshal(claims) ==
  [canonical |-> TRUE,
   field |-> [f \in {"v"} \cup DOMAIN claims |-> IF f = "v" THEN 1 ELSE claims[f]]]

MarshalGrantClaims(claims) == Marshal(claims)

(* The decoder leaves a field that is absent at its zero value. *)
Decoded(zero, payload) ==
  [f \in DOMAIN zero |->
     IF f \in DOMAIN payload.field THEN payload.field[f] ELSE zero[f]]

OnlyKnownFields(zero, payload) ==
  DOMAIN payload.field \subseteq {"v"} \cup DOMAIN zero

(* Mutant: fields of a later release are skipped. *)
MutantSkipUnknownFields(payload) ==
  IF payload.canonical /\ payload.field["v"] = CapabilityGrantVersion
  THEN Decoded(NoGrant, payload) ELSE NoGrant

(* Mutant: one field is not copied out of the decoded payload. *)
MutantForgetRouteLength(payload) ==
  LET claims == Decoded(NoGrant, payload)
  IN IF /\ payload.canonical
        /\ OnlyKnownFields(NoGrant, payload)
        /\ payload.field["v"] = CapabilityGrantVersion
     THEN [claims EXCEPT !.maxRouteLength = 0] ELSE NoGrant

UnmarshalGrantClaims(payload) ==
  LET claims == Decoded(NoGrant, payload)
  IN IF /\ payload.canonical
        /\ OnlyKnownFields(NoGrant, payload)
        /\ payload.field["v"] = CapabilityGrantVersion
        /\ claims.rootRequestDigest \in RootDigest
        /\ claims.descriptor \in Descriptor
     THEN claims ELSE NoGrant

UnmarshalControlGrant(payload) ==
  IF /\ payload.canonical
     /\ OnlyKnownFields(NoControlGrant, payload)
     /\ payload.field["v"] = OperationControlGrantVersion
  THEN Decoded(NoControlGrant, payload) ELSE NoControlGrant

-----------------------------------------------------------------------------
(* Texts: prefix.payload.signature, the parts in unpadded URL base64.  Its *)
(* decoder overlooks line breaks and the spare bits of a last character.   *)

ReadableSpelling == {"exact", "spare bits", "wrapped"}
Spelling == ReadableSpelling \cup {"padded", "split by a dot"}

ClaimCount(payload) ==
  IF "scopes" \in DOMAIN payload.field THEN Cardinality(payload.field["scopes"]) ELSE 1

Length(text) ==
  ClaimCount(text.payload)
    + Cardinality({p \in DOMAIN text.spelled : text.spelled[p] \notin {"exact", "spare bits"}})

GrantText(prefix, payload, key) ==
  [prefix |-> prefix, payload |-> payload, signature |-> Signature(key, payload),
   spelled |-> [p \in {"payload", "signature"} |-> "exact"]]

MaxSize(codec) == IF codec.maxSize <= 0 THEN DefaultGrantMaxSize ELSE codec.maxSize

(* A text that fits the codec's limit, or none. *)
Fitting(codec, text) == IF Length(text) <= MaxSize(codec) THEN text ELSE None

SignText(codec, claims, file, now) ==
  LET c == Sign(codec, claims, now)
  IN IF ParseGrantPrivateKey(file) = NoKey \/ c = NoGrant THEN None
     ELSE Fitting(codec, GrantText("grant-v1", MarshalGrantClaims(c),
                                   ParseGrantPrivateKey(file)))

SignControlText(codec, claims, file, now) ==
  LET c == SignOperationControlGrant(codec, claims, now)
  IN IF ParseGrantPrivateKey(file) = NoKey \/ c = NoControlGrant THEN None
     ELSE Fitting(codec, GrantText("control-grant-v1", Marshal(c),
                                   ParseGrantPrivateKey(file)))

(* What both kinds of grant go through before the payload is looked at. *)
Authentic(text, file, prefix) ==
  /\ ParseGrantPublicKey(file) # Missing
  /\ Length(text) <= DefaultGrantMaxSize
  /\ text.prefix = prefix
  /\ \A p \in DOMAIN text.spelled : text.spelled[p] \in ReadableSpelling
  /\ SignatureVerifies(ParseGrantPublicKey(file), text.payload, text.signature)

(* The claims the Agent reads at its root boundary, with a zero codec. *)
ReadRoot(text, file, now, b) ==
  LET c == UnmarshalGrantClaims(text.payload)
  IN IF /\ Authentic(text, file, "grant-v1")
        /\ c # NoGrant
        /\ VerifyAgentRootBinding(c, now, b)
     THEN c ELSE NoGrant

ReadControl(text, file, now, b) ==
  LET c == UnmarshalControlGrant(text.payload)
  IN IF /\ Authentic(text, file, "control-grant-v1")
        /\ c # NoControlGrant
        /\ VerifyOperationControlGrant(ZeroCodec, c, now, b)
     THEN c ELSE NoControlGrant
=============================================================================

----------------------------- MODULE GrantTransit -----------------------------
(***************************************************************************)
(* From a key file to accepted claims.  Key files are rewritten as PEM,    *)
(* published and edited by hand; message-server, or another release of it, *)
(* signs a grant; the text is carried by components that may respell or    *)
(* damage it; the Agent reads it.                                          *)
(***************************************************************************)
EXTENDS GrantWire

CONSTANTS
  Setting,       \* bound: what is given, signed and done to it together
  MaxBlocks,     \* bound: the PEM blocks of a key file
  AgentBinding,  \* the root calls the Agent may be serving
  AgentControl,  \* the control calls the Agent may be serving
  SignTime,      \* bound: when grants are signed
  ReadTime       \* bound: when they are read

VARIABLES
  setting,     \* the setting; nothing changes it
  signerFile,  \* message-server's private key material
  readerFile,  \* the Agent's public key material
  signerKey,   \* history: the pair of the last seed read out of signerFile
  readerKey,   \* history: the pair of the last key read out of readerFile
  signed,      \* what was signed last: kind, fields and key
  text,        \* the text of it now
  read         \* what the Agent read out of the text

vars ==
  <<setting, signerFile, readerFile, signerKey, readerKey, signed, text, read>>

GivenSigner == setting.signer      \* key material message-server may be given
GivenReader == setting.reader      \* key material the Agent may be given
SignerCodec == setting.codec       \* the codecs message-server may sign with
RootClaims == setting.roots        \* the root and child claims it signs
ControlClaims == setting.controls  \* the control claims it signs
Edited == setting.edited           \* the pairs of blocks put into key files
Spellings == setting.spellings     \* how a part may be respelled

SpellingAssumption == \A s \in Setting : s.spellings \subseteq Spelling
EditedAssumption == \A s \in Setting : s.edited \subseteq KeyPair
KeyAssumption ==
  /\ Missing \notin KeyPair
  /\ \A s \in Setting : s.signer \cup s.reader \subseteq KeyFile
ClaimsAssumption ==
  \A s \in Setting :
    /\ \A c \in s.roots : DOMAIN c = DOMAIN NoGrant
    /\ \A c \in s.controls : DOMAIN c = DOMAIN NoControlGrant

Init ==
  /\ setting \in Setting
  /\ signerFile \in GivenSigner
  /\ readerFile \in GivenReader
  /\ signerKey = ParseGrantPrivateKey(signerFile).seed
  /\ readerKey = ParseGrantPublicKey(readerFile)
  /\ signed = None
  /\ text = None
  /\ read = None

-----------------------------------------------------------------------------
(* Key files *)

(* A new file: nothing signed before counts. *)
Afresh == signed' = None /\ text' = None /\ read' = None

StoreSigner ==
  /\ ParseGrantPrivateKey(signerFile) # NoKey
  /\ signerFile' = MarshalGrantPrivateKeyPEM(signerFile)
  /\ UNCHANGED readerFile
  /\ Afresh

StoreReader ==
  /\ ParseGrantPublicKey(readerFile) # Missing
  /\ readerFile' = MarshalGrantPublicKeyPEM(readerFile)
  /\ UNCHANGED signerFile
  /\ Afresh

(* The Agent is given the public half of the signer's key. *)
Publish ==
  /\ ParseGrantPrivateKey(signerFile) # NoKey
  /\ readerFile' = RawPublic(ParseGrantPrivateKey(signerFile).half)
  /\ UNCHANGED signerFile
  /\ Afresh

(* A PEM file may get one more block, damage to one that it has, or text   *)
(* around them.  Bound: a block is damaged once, and text comes last.      *)
OneMoreBlock(blocks) ==
  IF Len(blocks) >= MaxBlocks THEN {}
  ELSE UNION {{<<b>> \o blocks, Append(blocks, b)} :
                b \in {Block(blocks[1].type, k) : k \in Edited}}

DamagedBlock(block) ==
  IF ~block.whole \/ block.algorithm = "other" THEN {}
  ELSE {[block EXCEPT !.whole = FALSE], [block EXCEPT !.algorithm = "other"]}

OtherBlocks(blocks) ==
  OneMoreBlock(blocks)
  \cup UNION {{[blocks EXCEPT ![i] = b] : b \in DamagedBlock(blocks[i])} :
                i \in DOMAIN blocks}

Edits(file) ==
  IF \/ Edited = {} \/ file.form = "raw" \/ file.blocks = <<>>
     \/ file.opens = "other" \/ file.ends = "other"
  THEN {}
  ELSE {[file EXCEPT !.blocks = s] : s \in OtherBlocks(file.blocks)}
    \cup {[file EXCEPT !.opens = "other"], [file EXCEPT !.ends = "other"]}

EditSigner ==
  /\ signerFile' \in Edits(signerFile)
  /\ UNCHANGED readerFile
  /\ Afresh

EditReader ==
  /\ readerFile' \in Edits(readerFile)
  /\ UNCHANGED signerFile
  /\ Afresh

-----------------------------------------------------------------------------
(* Grants, one for each pair of files: earlier ones have no part in it. *)

Signed(kind, release, new) ==
  /\ new # None
  /\ text' = new
  /\ signed' = [kind |-> kind, release |-> release, field |-> new.payload.field,
                key |-> ParseGrantPrivateKey(signerFile)]
  /\ read' = None
  /\ UNCHANGED <<signerFile, readerFile>>

SignGrant ==
  /\ text = None
  /\ \E codec \in SignerCodec, claims \in RootClaims, now \in SignTime :
       Signed("grant", "this", SignText(codec, claims, signerFile, now))

SignControlGrant ==
  /\ text = None
  /\ \E codec \in SignerCodec, claims \in ControlClaims, now \in SignTime :
       Signed("control", "this", SignControlText(codec, claims, signerFile, now))

(* The payload of the same claims by a release that counts one version on, *)
(* adds a field, does not have one yet, or writes JSON its own way.        *)
OtherPayloads(payload) ==
  LET known == DOMAIN payload.field IN
  {[payload EXCEPT !.field["v"] = @ + 1],
   [payload EXCEPT !.canonical = FALSE],
   [payload EXCEPT !.field =
      [f \in known \cup {"note"} |-> IF f = "note" THEN Missing ELSE payload.field[f]]]}
  \cup {[payload EXCEPT !.field = [f \in known \ {absent} |-> payload.field[f]]] :
          absent \in known \ {"v"}}

SignElsewhere ==
  /\ text = None
  /\ \E codec \in SignerCodec, now \in SignTime :
       LET Resigned(kind, t) ==
             /\ t # None
             /\ \E payload \in OtherPayloads(t.payload) :
                  Signed(kind, "other",
                         GrantText(t.prefix, payload,
                                   ParseGrantPrivateKey(signerFile)))
       IN \/ \E claims \in RootClaims :
               Resigned("grant", SignText(codec, claims, signerFile, now))
          \/ \E claims \in ControlClaims :
               Resigned("control", SignControlText(codec, claims, signerFile, now))

Carried(new) ==
  /\ text' = new
  /\ read' = None
  /\ UNCHANGED <<signerFile, readerFile, signed>>

Respell ==
  /\ text # None
  /\ \E part \in {"payload", "signature"}, spelling \in Spellings :
       /\ text.spelled[part] = "exact"
       /\ Carried([text EXCEPT !.spelled[part] = spelling])

Relabel ==
  /\ text # None
  /\ \E prefix \in {"grant-v1", "control-grant-v1"} \ {text.prefix} :
       Carried([text EXCEPT !.prefix = prefix])

(* Some time in the payload is no longer the one that was signed. *)
Damage ==
  /\ text # None
  /\ text.payload.field = signed.field
  /\ \E f \in {"issuedAt", "expiresAt"} \cap DOMAIN signed.field :
       Carried([text EXCEPT !.payload.field[f] = @ + 1])

ReadGrant ==
  /\ text # None
  /\ \E b \in AgentBinding, now \in ReadTime :
       LET c == ReadRoot(text, readerFile, now, b)
       IN read' = IF c = NoGrant THEN None ELSE [kind |-> "grant", claims |-> c]
  /\ UNCHANGED <<signerFile, readerFile, signed, text>>

ReadControlGrant ==
  /\ text # None
  /\ \E b \in AgentControl, now \in ReadTime :
       LET c == ReadControl(text, readerFile, now, b)
       IN read' = IF c = NoControlGrant THEN None
                  ELSE [kind |-> "control", claims |-> c]
  /\ UNCHANGED <<signerFile, readerFile, signed, text>>

Latest(key, last) == IF key = Missing THEN last ELSE key

Next ==
  /\ UNCHANGED setting
  /\ \/ StoreSigner \/ StoreReader \/ Publish \/ EditSigner \/ EditReader
     \/ SignGrant \/ SignControlGrant \/ SignElsewhere
     \/ Respell \/ Relabel \/ Damage
     \/ ReadGrant \/ ReadControlGrant
  /\ signerKey' = Latest(ParseGrantPrivateKey(signerFile').seed, signerKey)
  /\ readerKey' = Latest(ParseGrantPublicKey(readerFile'), readerKey)

Spec == Init /\ [][Next]_vars

-----------------------------------------------------------------------------
(* Properties *)

KeyType == [seed: KeyPair, half: KeyPair]

TypeOK ==
  /\ ParseGrantPrivateKey(signerFile) \in KeyType \cup {NoKey}
  /\ ParseGrantPublicKey(readerFile) \in KeyPair \cup {Missing}
  /\ {signerKey, readerKey} \subseteq KeyPair \cup {Missing}
  /\ (signed = None) <=> (text = None)
  /\ signed # None => /\ signed.kind \in {"grant", "control"}
                      /\ signed.key \in KeyType
                      /\ DOMAIN text.spelled = {"payload", "signature"}
  /\ read # None => read.kind \in {"grant", "control"}

(* Whatever is accepted was signed, as a grant of that kind, with the key  *)
(* the Agent was given, by a release that names the same version: every    *)
(* field it signed is read, with its value, and a field it does not have   *)
(* is empty.  No respelling or damage on the way, and no field of a later  *)
(* release, changes what is read (grant.go:238, :580, :797).               *)
ReadAsSigned ==
  read # None =>
    /\ read.kind = signed.kind
    /\ signed.key = [seed |-> ParseGrantPublicKey(readerFile),
                     half |-> ParseGrantPublicKey(readerFile)]
    /\ signed.field["v"] = 1
    /\ DOMAIN signed.field \subseteq {"v"} \cup DOMAIN read.claims
    /\ \A f \in DOMAIN read.claims :
         read.claims[f] = IF f \in DOMAIN signed.field THEN signed.field[f]
                          ELSE IF read.kind = "grant" THEN NoGrant[f]
                          ELSE NoControlGrant[f]

(* The claims of a text that this release signed and nobody has touched.   *)
Intact == /\ signed # None
          /\ signed.release = "this"
          /\ text.spelled = [p \in {"payload", "signature"} |-> "exact"]
          /\ text.prefix = IF signed.kind = "grant" THEN "grant-v1"
                           ELSE "control-grant-v1"
          /\ text.payload.field = signed.field

SignedClaims(zero) == [f \in DOMAIN zero |-> signed.field[f]]

(* An untouched grant is its claims: with the public half of the key that  *)
(* signed it, the text is accepted exactly when the claims are, as long as *)
(* the signer's size limit was not above the receiver's and the halves of  *)
(* its key agree (grant.go:187, :220, :380).                               *)
TextIsItsClaims ==
  Intact /\ ParseGrantPublicKey(readerFile) = signed.key.half =>
    \A now \in ReadTime :
      LET fit == /\ Length(text) <= DefaultGrantMaxSize
                 /\ signed.key.seed = signed.key.half
      IN IF signed.kind = "grant"
         THEN \A b \in AgentBinding :
                ReadRoot(text, readerFile, now, b) # NoGrant
                  <=> fit /\ VerifyAgentRootBinding(SignedClaims(NoGrant), now, b)
         ELSE \A b \in AgentControl :
                ReadControl(text, readerFile, now, b) # NoControlGrant
                  <=> fit /\ VerifyOperationControlGrant(
                               ZeroCodec, SignedClaims(NoControlGrant), now, b)

(* Damage has put the block of a key out of pem.Decode's sight. *)
IsSkipped(file, pair) ==
  /\ file.form = "text"
  /\ \E i \in DOMAIN file.blocks :
       file.blocks[i].pair = pair /\ ~file.blocks[i].whole

(* What is read out of a key file is the key that was last read out of it, *)
(* however often it was refused in between: storing it as PEM keeps the    *)
(* seed that grants are signed with, and of several blocks that are whole  *)
(* none is chosen.  Only if the block of that key is damaged may a block   *)
(* put beside it take its place; and a file may be published anew          *)
(* (grant.go:380, :409, :434, :458, :462-474).                             *)
KeyStays ==
  /\ \/ ParseGrantPrivateKey(signerFile').seed \in {signerKey, Missing}
     \/ signerKey = Missing
     \/ IsSkipped(signerFile', signerKey)
  /\ \/ ParseGrantPublicKey(readerFile') \in {readerKey, Missing}
     \/ readerKey = Missing
     \/ IsSkipped(readerFile', readerKey)
     \/ Publish
=============================================================================

------------------------------ MODULE Requests ------------------------------
(***************************************************************************)
(* Start and Query requests: the digests that bind them to their grant and *)
(* the checks of their shape (idempotency.go, validation.go), and the      *)
(* complete binding of a grant (grant.go).                                 *)
(*                                                                         *)
(* SHA-256 is taken to be injective: a digest is the record of what was    *)
(* hashed, and one of the wrong length is Missing.  A canonical text is    *)
(* one value in one form (CanonicalJson checks that it is).  An operation  *)
(* stands for its capability, the capability's version and its own name.   *)
(***************************************************************************)
EXTENDS Grants

CONSTANTS
  Input,        \* business inputs: JSON objects
  EmptyObject,  \* the object without members
  NotObject,    \* a JSON value that is no object, "null" for one
  Nil           \* Go's nil: a map, a slice, an error's result; an omitted member

InputAssumption == EmptyObject \in Input /\ NotObject \notin Input
DigestAssumption == Missing \notin RootDigest

NodesOf(list) == IF list = Nil THEN {} ELSE RangeOf(list)

-----------------------------------------------------------------------------
(* Business inputs and their texts. *)

Form == {"canonical", "respelled", "broken"}
Text == [value: Input \cup {NotObject}, form: Form]

NoText == [value |-> NotObject, form |-> "broken"]

CanonicalizeJSON(text) ==
  IF text.form = "broken" THEN NoText ELSE [text EXCEPT !.form = "canonical"]

CanonicalJSONEqual(text) ==
  text.form # "broken" /\ CanonicalizeJSON(text) = text

(* Nil is the error. *)
ParseBusinessInput(text) ==
  LET canonical == CanonicalizeJSON(text) IN
  IF canonical = NoText \/ canonical.value = NotObject THEN Nil
  ELSE canonical.value

(* A nil map is written null, which ParseBusinessInput does not take. *)
SerializeBusinessInput(input) ==
  [value |-> IF input = Nil THEN NotObject ELSE input, form |-> "canonical"]

-----------------------------------------------------------------------------
(* Digests *)

ValidateSHA256Digest(digest) == digest # Missing

ValidateRequestDigest(digest) == ValidateSHA256Digest(digest)

ValidateDigest(actual, expected) == actual # Missing /\ actual = expected

(* Mutant: any digest of the right length will do. *)
MutantDigestShapeOnly(actual, expected) ==
  ValidateRequestDigest(actual) /\ ValidateRequestDigest(expected)

VerifyRequestDigest(actual, expected) ==
  /\ ValidateRequestDigest(actual)
  /\ ValidateRequestDigest(expected)
  /\ ValidateDigest(actual, expected)

(* A nil input and an empty object are one business. *)
InputOf(input) == IF input = Nil THEN EmptyObject ELSE input

(* What is hashed.  A nil input is written as an empty object, but a nil   *)
(* list of attachments as null, which an empty list is not.                *)
Preimage(descriptor, revision, input, attachments, grantDigest) ==
  [schema |-> descriptor.schema, operation |-> descriptor.operation,
   revision |-> revision,
   input |-> InputOf(input),
   attachments |-> attachments, grant |-> grantDigest]

computeRequestDigest(descriptor, revision, input, files, grant, includeGrant) ==
  IF /\ ValidateSHA256Digest(descriptor.schema)
     /\ includeGrant => ValidateSHA256Digest(grant)
     /\ \A file \in NodesOf(files) : ValidateSHA256Digest(file)
  THEN Preimage(descriptor, revision, input, files,
                IF includeGrant THEN grant ELSE Nil)
  ELSE Missing

ComputeRequestDigest(descriptor, revision, input, attachments, grantDigest) ==
  computeRequestDigest(descriptor, revision, input, attachments, grantDigest,
                       TRUE)

ComputeRootRequestDigest(descriptor, revision, input, attachments) ==
  computeRequestDigest(descriptor, revision, input, attachments, Nil, FALSE)

-----------------------------------------------------------------------------
(* The shape of requests. *)

ValidatePermissionContext(permission) ==
  /\ permission.ownerID \in OwnerID
  /\ permission.grant # NoGrant
  /\ permission.accountGeneration \in 1..MaxAccountGeneration
  /\ permission.rootRequestDigest # Nil =>
       ValidateSHA256Digest(permission.rootRequestDigest)
  /\ permission.scopes # {}

(* Mutant: the text may come in any form. *)
MutantAnyForm(req) ==
  /\ req.operationID \in Uuid
  /\ req.operation # Missing
  /\ ValidateRequestDigest(req.requestDigest)
  /\ req.revision >= 0
  /\ ValidatePermissionContext(req.permission)
  /\ CanonicalizeJSON(req.json) # NoText
  /\ ValidateStrictCallContext(req.ctx)

ValidateOperationRequest(req) ==
  /\ req.operationID \in Uuid
  /\ req.operation # Missing
  /\ ValidateRequestDigest(req.requestDigest)
  /\ req.revision >= 0
  /\ ValidatePermissionContext(req.permission)
  /\ CanonicalizeJSON(req.json) # NoText
  /\ CanonicalizeJSON(req.json) = req.json
  /\ ValidateStrictCallContext(req.ctx)

ValidateRootOperationRequest(req) ==
  /\ ValidateOperationRequest(req)
  /\ req.ctx.rootOperationID = req.operationID

(* A query names its operation, and no operation UUID. *)
ValidateQueryRequest(req) ==
  /\ req.operation # Missing
  /\ ValidatePermissionContext(req.permission)
  /\ CanonicalizeJSON(req.json) # NoText
  /\ CanonicalizeJSON(req.json) = req.json
  /\ ValidateStrictCallContext(req.ctx)

(* The broker does not take a parent whose digest is absent. *)
ValidateParentPermissionRootDigest(permission) ==
  /\ ValidatePermissionContext(permission)
  /\ permission.rootRequestDigest \in RootDigest

ProductDelegationDigestEqual(claims, productRootDigest) ==
  /\ productRootDigest # Missing
  /\ claims.rootRequestDigest = productRootDigest

-----------------------------------------------------------------------------
(* The complete binding, for the node the call enters at. *)

(* An explicit chain is optional; every other field is required. *)
validateGrantBinding(claims, b) ==
  /\ b.rootOperationID # Missing /\ b.ownerID # Missing
  /\ b.accountGeneration > 0
  /\ b.rootRequestDigest \in RootDigest
  /\ ValidateStrictCallContext(b.ctx)
  /\ claims.chainID = b.ctx.chainID
  /\ claims.rootOperationID = b.ctx.rootOperationID
  /\ b.ctx.route = claims.entryRoute /\ b.ctx.hop = claims.entryHop
  /\ b.chainID # Missing => claims.chainID = b.chainID
  /\ claims.rootOperationID = b.rootOperationID
  /\ claims.ownerID = b.ownerID
  /\ claims.accountGeneration = b.accountGeneration
  /\ claims.rootRequestDigest = b.rootRequestDigest
  /\ ValidateAgentGrantDescriptor(claims, b.descriptor)

(* GrantCodec.Verify *)
VerifyCapabilityGrant(grant, now, b) ==
  VerifySigned(ZeroCodec, grant, now) /\ validateGrantBinding(grant, b)

VerifyAgentQueryGrant(grant, now, b) == VerifyAgentRootBinding(grant, now, b)
-----------------------------------------------------------------------------
(* What may arrive of the requests sent: one as it was sent, one whose     *)
(* text was respelled or damaged, or one with parts of another.            *)

Part == {"operationID", "business", "requestDigest", "grant", "principal", "ctx"}

Mixed(req, other, parts) ==
  [operationID |-> IF "operationID" \in parts THEN other.operationID
                   ELSE req.operationID,
   operation |-> req.operation,
   revision |-> IF "business" \in parts THEN other.revision ELSE req.revision,
   json |-> IF "business" \in parts THEN other.json ELSE req.json,
   requestDigest |-> IF "requestDigest" \in parts THEN other.requestDigest
                     ELSE req.requestDigest,
   permission |->
     LET p == IF "principal" \in parts THEN other.permission ELSE req.permission
     IN [p EXCEPT !.grant = IF "grant" \in parts THEN other.permission.grant
                            ELSE req.permission.grant],
   ctx |-> IF "ctx" \in parts THEN other.ctx ELSE req.ctx]

Arriving(sent, mixedParts) ==
  {Mixed(req, other, parts) : req \in sent, other \in sent, parts \in SUBSET mixedParts}
  \cup {[req EXCEPT !.json.form = form] : req \in sent, form \in Form}
=============================================================================

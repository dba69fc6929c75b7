------------------------------- MODULE Grants -------------------------------
(***************************************************************************)
(* The signed root grant and the Product child derived from it: what can   *)
(* be signed, where each is accepted, and what may change on renewal       *)
(* (grant.go, product_delegation.go, replay.go).                           *)
(*                                                                         *)
(* A grant is the record of its claims: its signature and encoding are     *)
(* taken to be exact, so verifying one means judging its claims.  Scopes   *)
(* are sets (sorted, unique lists on the wire).  A capability, operation,  *)
(* catalog digest and schema digest always travel and are compared         *)
(* together: they are one Descriptor.                                      *)
(***************************************************************************)
EXTENDS CallContext

CONSTANTS
  OwnerID,               \* authenticated owners
  MaxAccountGeneration,  \* the largest account generation
  Scope,                 \* permission scopes
  Descriptor,            \* capability and operation, with their digests
  RootDigest,            \* grant-independent request digests
  DefaultGrantTTL,       \* 15 minutes
  DefaultProductDelegationTTL,  \* 2 minutes
  DefaultGrantClockSkew  \* 30 seconds

ASSUME TTLAssumption ==
  /\ DefaultProductDelegationTTL \in Nat \ {0}
  /\ DefaultGrantTTL \in Nat
  /\ DefaultProductDelegationTTL <= DefaultGrantTTL
ASSUME SkewAssumption == DefaultGrantClockSkew \in Nat
ASSUME AccountAssumption == MaxAccountGeneration \in Nat \ {0}

-----------------------------------------------------------------------------
(* Claims *)

GrantKind == {"root", "product-child"}
TargetKind == {"query", "start_operation"}

(* A zero time is one the signer fills in; NoGrant is a failed signing. *)
NoGrant ==
  [chainID |-> Missing, rootOperationID |-> Missing,
   childOperationID |-> Missing, grantKind |-> "none",
   productTargetKind |-> "none", ownerID |-> Missing, accountGeneration |-> 0,
   scopes |-> {}, descriptor |-> Missing, rootRequestDigest |-> Missing,
   issuedAt |-> 0, expiresAt |-> 0, entryDeadline |-> 0,
   entryRoute |-> <<>>, entryHop |-> 0, maxHop |-> 0, maxRouteLength |-> 0]

ValidateEntryRoute(route, hop) ==
  route \in {<<"ms">>, <<"agent">>} /\ hop = 1

ValidateGrantClaims(c, maxTTL) ==
  /\ c.chainID \in Uuid
  /\ c.rootOperationID \in Uuid
  /\ c.grantKind \in GrantKind
  /\ c.childOperationID \in Uuid \cup {Missing}
  /\ c.grantKind = "root" =>
       c.productTargetKind = "none" /\ c.childOperationID = Missing
  /\ c.grantKind = "product-child" => c.productTargetKind \in TargetKind
  /\ c.productTargetKind = "query" => c.childOperationID = Missing
  /\ c.productTargetKind = "start_operation" => c.childOperationID # Missing
  /\ c.ownerID \in OwnerID
  /\ c.accountGeneration \in 1..MaxAccountGeneration
  /\ c.descriptor \in Descriptor
  /\ c.rootRequestDigest \in RootDigest
  /\ c.scopes # {}
  /\ 0 < c.issuedAt /\ c.issuedAt < c.expiresAt
  /\ c.issuedAt <= c.entryDeadline /\ c.entryDeadline <= c.expiresAt
  /\ c.expiresAt - c.issuedAt <= maxTTL
  /\ c.maxHop \in 1..MaxCallHop
  /\ c.maxRouteLength \in 1..MaxRouteLength
  /\ ValidateEntryRoute(c.entryRoute, c.entryHop)
  /\ c.maxRouteLength >= RouteLength(c.entryRoute)

-----------------------------------------------------------------------------
(* The codec.  Every exported verifier but Verify builds a zero one. *)

ZeroCodec == [maxTTL |-> 0, clockSkew |-> 0]

Normalized(codec) ==
  [maxTTL |-> IF codec.maxTTL <= 0 THEN DefaultGrantTTL ELSE codec.maxTTL,
   clockSkew |-> IF codec.clockSkew < 0 THEN 0 ELSE codec.clockSkew]

OrElse(value, default) == IF value = 0 THEN default ELSE value

Sign(codec, claims, now) ==
  LET maxTTL == Normalized(codec).maxTTL
      issued == OrElse(claims.issuedAt, now)
      expires == OrElse(claims.expiresAt, issued + maxTTL)
      c == [claims EXCEPT
              !.grantKind = IF @ = "none" THEN "root" ELSE @,
              !.issuedAt = issued,
              !.expiresAt = expires,
              !.entryDeadline = OrElse(@, expires),
              !.maxRouteLength = OrElse(@, MaxRouteLength)]
  IN IF ValidateGrantClaims(c, maxTTL) THEN c ELSE NoGrant

VerifySigned(codec, grant, now) ==
  /\ ValidateGrantClaims(grant, Normalized(codec).maxTTL)
  /\ now + Normalized(codec).clockSkew >= grant.issuedAt
  /\ now < grant.expiresAt

-----------------------------------------------------------------------------
(* Boundaries.  A binding holds what the receiver knows of the request.    *)

(* The route of a call that entered where the grant says and has now been  *)
(* accepted by the terminal node.                                          *)
AtBoundary(c, ctx, terminal) ==
  IF terminal = "agent"
  THEN /\ c.entryRoute = <<"ms">>
       /\ ctx.route = <<"ms", "agent">>
       /\ ctx.hop = c.entryHop + 1
  ELSE IF c.entryRoute = <<"ms">>
  THEN /\ ctx.route = <<"ms", "agent", "product">>
       /\ ctx.hop = c.entryHop + 2
  ELSE /\ ctx.route = Append(c.entryRoute, "product")
       /\ ctx.hop = c.entryHop + 1

ValidateRootBinding(c, b, terminal) ==
  /\ b.rootOperationID # Missing
  /\ b.ownerID # Missing
  /\ b.accountGeneration > 0
  /\ b.rootRequestDigest \in RootDigest
  /\ b.requiredScopes # {}
  /\ ValidateStrictCallContext(b.ctx)
  /\ c.chainID = b.ctx.chainID
  /\ c.rootOperationID = b.rootOperationID
  /\ b.ctx.rootOperationID = b.rootOperationID
  /\ c.ownerID = b.ownerID
  /\ c.accountGeneration = b.accountGeneration
  /\ c.rootRequestDigest = b.rootRequestDigest
  /\ b.ctx.deadline <= c.entryDeadline
  /\ b.ctx.deadline <= c.expiresAt
  /\ b.requiredScopes \subseteq c.scopes
  /\ AtBoundary(c, b.ctx, terminal)
  /\ b.ctx.hop <= c.maxHop
  /\ RouteLength(b.ctx.route) <= c.maxRouteLength

ValidateAgentGrantDescriptor(c, descriptor) ==
  descriptor \in Descriptor /\ c.descriptor = descriptor

IsRoot(c) == c.grantKind = "root" /\ c.childOperationID = Missing

VerifyAgentRootBinding(grant, now, b) ==
  /\ VerifySigned(ZeroCodec, grant, now)
  /\ IsRoot(grant)
  /\ ValidateRootBinding(grant, b, "agent")
  /\ ValidateAgentGrantDescriptor(grant, b.descriptor)

(* Mutant: the purpose of the grant is not looked at. *)
MutantRootOfAnyKind(grant, now, b) ==
  /\ VerifySigned(ZeroCodec, grant, now)
  /\ ValidateRootBinding(grant, b, "product")

VerifyRootBinding(grant, now, b) ==
  /\ VerifySigned(ZeroCodec, grant, now)
  /\ IsRoot(grant)
  /\ ValidateRootBinding(grant, b, "product")

VerifyProductDelegationParent(grant, now, b) == VerifyRootBinding(grant, now, b)

-----------------------------------------------------------------------------
(* Product children *)

(* Only a nested Start names a child operation. *)
TargetMatchesChild(kind, childOperationID) ==
  \/ kind = "start_operation" /\ childOperationID \in Uuid
  \/ kind = "query" /\ childOperationID = Missing

(* Mutant: a child may live as long as a root. *)
MutantLongCodec(codec) == Normalized(codec)

ShortCodec(codec) ==
  [Normalized(codec) EXCEPT
     !.maxTTL = IF @ > DefaultProductDelegationTTL
                THEN DefaultProductDelegationTTL ELSE @]

SignProductDelegationGrant(codec, claims, now) ==
  IF TargetMatchesChild(claims.productTargetKind, claims.childOperationID)
  THEN Sign(ShortCodec(codec), [claims EXCEPT !.grantKind = "product-child"], now)
  ELSE NoGrant

(* Mutant: the child's entry is not bound to the call's deadline. *)
MutantChildWithoutDeadline(parent, ctx, request) ==
  [parent EXCEPT
     !.childOperationID = request.childOperationID,
     !.grantKind = "product-child",
     !.productTargetKind = request.targetKind,
     !.scopes = request.scopes,
     !.descriptor = request.descriptor,
     !.rootRequestDigest = request.rootRequestDigest,
     !.issuedAt = 0, !.expiresAt = 0, !.entryDeadline = 0]

(* Mutant: the child keeps the descriptor of its parent. *)
MutantChildKeepsDescriptor(parent, ctx, request) ==
  [parent EXCEPT
     !.childOperationID = request.childOperationID,
     !.grantKind = "product-child",
     !.productTargetKind = request.targetKind,
     !.scopes = request.scopes,
     !.rootRequestDigest = request.rootRequestDigest,
     !.issuedAt = 0, !.expiresAt = 0, !.entryDeadline = ctx.deadline]

(* The claims of a child: who and where from the parent, what from the     *)
(* request, and until when from the call and the signer's clock.           *)
ChildClaims(parent, ctx, request) ==
  [parent EXCEPT
     !.childOperationID = request.childOperationID,
     !.grantKind = "product-child",
     !.productTargetKind = request.targetKind,
     !.entryRoute = <<IF ctx.route[1] = "agent" THEN "agent" ELSE "ms">>,
     !.entryHop = 1,
     !.scopes = request.scopes,
     !.descriptor = request.descriptor,
     !.rootRequestDigest = request.rootRequestDigest,
     !.issuedAt = 0,
     !.expiresAt = 0,
     !.entryDeadline = ctx.deadline]

MayDerive(parent, ctx, request) ==
  /\ ValidateGrantClaims(parent, DefaultGrantTTL)
  /\ IsRoot(parent)
  /\ parent.entryRoute = <<"ms">> /\ parent.entryHop = 1
  /\ ValidateStrictCallContext(ctx)
  /\ ctx.chainID = parent.chainID
  /\ ctx.rootOperationID = parent.rootOperationID
  /\ ctx.route \in {<<"ms", "agent", "product">>, <<"agent", "product">>}
  /\ TargetMatchesChild(request.targetKind, request.childOperationID)
  /\ request.scopes # {}
  /\ request.scopes \subseteq parent.scopes
  /\ request.descriptor \in Descriptor
  /\ request.rootRequestDigest \in RootDigest

SignProductDelegationFromParent(codec, parent, ctx, request, now) ==
  IF MayDerive(parent, ctx, request)
  THEN SignProductDelegationGrant(ShortCodec(codec),
                                  ChildClaims(parent, ctx, request), now)
  ELSE NoGrant

(* Mutant: the nested operation of a Start is not compared. *)
MutantVerifyAnyChild(grant, now, b) ==
  /\ TargetMatchesChild(b.targetKind, b.childOperationID)
  /\ VerifySigned(ZeroCodec, grant, now)
  /\ grant.grantKind = "product-child"
  /\ grant.productTargetKind = b.targetKind
  /\ ValidateRootBinding(grant, b, "product")
  /\ ValidateAgentGrantDescriptor(grant, b.descriptor)

(* Mutant: a child of the full lifetime is one too long. *)
MutantVerifyShorterChild(grant, now, b) ==
  /\ TargetMatchesChild(b.targetKind, b.childOperationID)
  /\ VerifySigned(ZeroCodec, grant, now)
  /\ grant.grantKind = "product-child"
  /\ grant.productTargetKind = b.targetKind
  /\ grant.childOperationID = b.childOperationID
  /\ grant.expiresAt - grant.issuedAt < DefaultProductDelegationTTL
  /\ ValidateRootBinding(grant, b, "product")
  /\ ValidateAgentGrantDescriptor(grant, b.descriptor)

VerifyProductDelegationGrant(grant, now, b) ==
  /\ TargetMatchesChild(b.targetKind, b.childOperationID)
  /\ VerifySigned(ZeroCodec, grant, now)
  /\ grant.grantKind = "product-child"
  /\ grant.productTargetKind = b.targetKind
  /\ grant.childOperationID = b.childOperationID
  /\ grant.expiresAt - grant.issuedAt <= DefaultProductDelegationTTL
  /\ ValidateRootBinding(grant, b, "product")
  /\ ValidateAgentGrantDescriptor(grant, b.descriptor)

-----------------------------------------------------------------------------
(* The broker RPC that exchanges a parent for a child. *)

IsProductDelegationExchangeRoute(route, hop) ==
  \/ route = <<"agent">> /\ hop = 1
  \/ route \in {<<"ms", "agent">>, <<"agent", "product">>} /\ hop = 2
  \/ route = <<"ms", "agent", "product">> /\ hop = 3

ValidateProductDelegationExchangeRequest(ctx, request, parent) ==
  /\ ValidateStrictCallContext(ctx)
  /\ IsProductDelegationExchangeRoute(ctx.route, ctx.hop)
  /\ TargetMatchesChild(request.targetKind, request.childOperationID)
  /\ request.descriptor \in Descriptor
  /\ parent.ownerID # Missing
  /\ parent.accountGeneration \in 1..MaxAccountGeneration
  /\ parent.rootRequestDigest \in RootDigest
  /\ parent.scopes # {}

ValidateProductDelegationExchangeResponse(expiresAt, now) ==
  /\ now > 0
  /\ now < expiresAt
  /\ expiresAt - now <= DefaultProductDelegationTTL

-----------------------------------------------------------------------------
(* Renewal: only the chain and the times may differ. *)

(* Mutant: a renewal may change the scopes. *)
MutantRenewalRescopes(previous, replacement) ==
  /\ ValidateGrantClaims(previous, DefaultGrantTTL)
  /\ ValidateGrantClaims(replacement, DefaultGrantTTL)
  /\ IsRoot(previous) /\ IsRoot(replacement)
  /\ previous.rootOperationID = replacement.rootOperationID
  /\ previous.ownerID = replacement.ownerID
  /\ previous.accountGeneration = replacement.accountGeneration
  /\ previous.rootRequestDigest = replacement.rootRequestDigest

ValidateRootGrantRenewal(previous, replacement) ==
  /\ ValidateGrantClaims(previous, DefaultGrantTTL)
  /\ ValidateGrantClaims(replacement, DefaultGrantTTL)
  /\ IsRoot(previous) /\ previous.productTargetKind = "none"
  /\ IsRoot(replacement) /\ replacement.productTargetKind = "none"
  /\ previous.rootOperationID = replacement.rootOperationID
  /\ previous.ownerID = replacement.ownerID
  /\ previous.accountGeneration = replacement.accountGeneration
  /\ previous.scopes = replacement.scopes
  /\ previous.descriptor = replacement.descriptor
  /\ previous.entryRoute = replacement.entryRoute
  /\ previous.entryHop = replacement.entryHop
  /\ previous.maxHop = replacement.maxHop
  /\ previous.maxRouteLength = replacement.maxRouteLength
  /\ previous.rootRequestDigest = replacement.rootRequestDigest
=============================================================================

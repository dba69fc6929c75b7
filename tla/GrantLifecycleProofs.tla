------------------------ MODULE GrantLifecycleProofs ------------------------
(* Proofs about GrantLifecycle, for every value of its constants. *)
EXTENDS GrantLifecycle, TLAPS

-----------------------------------------------------------------------------
(* Types *)

LEMMA EmptyTypes == NoContext \in ContextType /\ NoGrant \in GrantType
  BY DEF NoContext, ContextType, NoGrant, GrantType

LEMMA AppendType ==
  ASSUME NEW ctx \in ContextType, NEW n \in Node
  PROVE  AppendCallNode(ctx, n) \in ContextType
<1>1. ctx.hop + 1 \in Nat
  BY DEF ContextType
<1>2. ctx.route \in Seq(Node)
  BY DEF ContextType
<1>3. Append(ctx.route, n) \in Seq(Node)
  BY <1>2
<1>4. ASSUME NEW hop \in Nat, NEW route \in Seq(Node)
      PROVE  [ctx EXCEPT !.hop = hop, !.route = route] \in ContextType
  BY DEF ContextType
<1>5. [ctx EXCEPT !.hop = ctx.hop + 1, !.route = Append(ctx.route, n)]
        \in ContextType
  BY <1>1, <1>3, <1>4
<1> QED
  BY <1>5, EmptyTypes DEF AppendCallNode

LEMMA AdvanceTypes ==
  ASSUME NEW ctx \in ContextType
  PROVE  /\ ValidateAndAdvanceAgentCallContext(ctx) \in ContextType
         /\ ProductContext(ctx) \in ContextType
<1>1. \A c \in ContextType :
        /\ AppendCallNode(c, "agent") \in ContextType
        /\ AppendCallNode(c, "product") \in ContextType
  BY AppendType DEF Node
<1> QED
  BY <1>1, EmptyTypes DEF ValidateAndAdvanceAgentCallContext, ProductContext,
     ValidateAndAdvanceProductCallContext

LEMMA NormalizedType ==
  ASSUME NEW codec \in [maxTTL: Nat, clockSkew: Nat]
  PROVE  Normalized(codec) \in [maxTTL: Nat, clockSkew: Nat]
  BY TTLAssumption DEF Normalized

LEMMA ZeroCodecNormal ==
  /\ ZeroCodec \in [maxTTL: Nat, clockSkew: Nat]
  /\ Normalized(ZeroCodec) = [maxTTL |-> DefaultGrantTTL, clockSkew |-> 0]
  BY DEF ZeroCodec, Normalized

(* Whatever the codec fills in, a grant's claims stay well typed. *)
LEMMA FilledType ==
  ASSUME NEW g \in GrantType, NEW kind \in GrantKind \cup {"none"},
         NEW issued \in Nat, NEW expires \in Nat, NEW deadline \in Nat,
         NEW length \in Nat
  PROVE  [g EXCEPT !.grantKind = kind, !.issuedAt = issued,
                   !.expiresAt = expires, !.entryDeadline = deadline,
                   !.maxRouteLength = length] \in GrantType
  BY DEF GrantType

LEMMA SignType ==
  ASSUME NEW codec \in [maxTTL: Nat, clockSkew: Nat],
         NEW claims \in GrantType, NEW t \in Nat
  PROVE  Sign(codec, claims, t) \in GrantType
<1> DEFINE maxTTL == Normalized(codec).maxTTL
           issued == OrElse(claims.issuedAt, t)
           expires == OrElse(claims.expiresAt, issued + maxTTL)
           deadline == OrElse(claims.entryDeadline, expires)
           length == OrElse(claims.maxRouteLength, MaxRouteLength)
           kind == IF claims.grantKind = "none" THEN "root" ELSE claims.grantKind
           c == [claims EXCEPT !.grantKind = kind, !.issuedAt = issued,
                               !.expiresAt = expires, !.entryDeadline = deadline,
                               !.maxRouteLength = length]
<1>1. maxTTL \in Nat
  BY NormalizedType
<1>2. issued \in Nat /\ expires \in Nat
  BY <1>1 DEF OrElse, GrantType
<1>3. deadline \in Nat /\ length \in Nat
  BY <1>2 DEF OrElse, GrantType, MaxRouteLength
<1>4. kind \in GrantKind \cup {"none"}
  BY DEF GrantType, GrantKind
<1>5. Sign(codec, claims, t) = c \/ Sign(codec, claims, t) = NoGrant
  BY DEF Sign
<1> HIDE DEF issued, expires, deadline, length, kind
<1>6. c \in GrantType
  BY <1>2, <1>3, <1>4, FilledType
<1> QED
  BY <1>5, <1>6, EmptyTypes

(* A grant stays one when a claim is replaced by another of its type. *)
LEMMA ClaimUpdates ==
  ASSUME NEW g \in GrantType
  PROVE  /\ \A x \in Uuid \cup {Missing} : [g EXCEPT !.childOperationID = x] \in GrantType
         /\ \A x \in GrantKind \cup {"none"} : [g EXCEPT !.grantKind = x] \in GrantType
         /\ \A x \in TargetKind \cup {"none"} : [g EXCEPT !.productTargetKind = x] \in GrantType
         /\ \A x \in SUBSET Scope : [g EXCEPT !.scopes = x] \in GrantType
         /\ \A x \in Descriptor \cup {Missing} : [g EXCEPT !.descriptor = x] \in GrantType
         /\ \A x \in RootDigest \cup {Missing} : [g EXCEPT !.rootRequestDigest = x] \in GrantType
         /\ \A x \in Nat : [g EXCEPT !.issuedAt = x] \in GrantType
         /\ \A x \in Nat : [g EXCEPT !.expiresAt = x] \in GrantType
         /\ \A x \in Nat : [g EXCEPT !.entryDeadline = x] \in GrantType
         /\ \A x \in Seq(Node) : [g EXCEPT !.entryRoute = x] \in GrantType
         /\ \A x \in Nat : [g EXCEPT !.entryHop = x] \in GrantType
<1>1. ASSUME NEW x \in Uuid \cup {Missing} PROVE [g EXCEPT !.childOperationID = x] \in GrantType
  BY Zenon DEF GrantType
<1>2. ASSUME NEW x \in GrantKind \cup {"none"} PROVE [g EXCEPT !.grantKind = x] \in GrantType
  BY Zenon DEF GrantType
<1>3. ASSUME NEW x \in TargetKind \cup {"none"} PROVE [g EXCEPT !.productTargetKind = x] \in GrantType
  BY Zenon DEF GrantType
<1>4. ASSUME NEW x \in SUBSET Scope PROVE [g EXCEPT !.scopes = x] \in GrantType
  BY Zenon DEF GrantType
<1>5. ASSUME NEW x \in Descriptor \cup {Missing} PROVE [g EXCEPT !.descriptor = x] \in GrantType
  BY Zenon DEF GrantType
<1>6. ASSUME NEW x \in RootDigest \cup {Missing} PROVE [g EXCEPT !.rootRequestDigest = x] \in GrantType
  BY Zenon DEF GrantType
<1>7. ASSUME NEW x \in Nat PROVE [g EXCEPT !.issuedAt = x] \in GrantType
  BY Zenon DEF GrantType
<1>8. ASSUME NEW x \in Nat PROVE [g EXCEPT !.expiresAt = x] \in GrantType
  BY Zenon DEF GrantType
<1>9. ASSUME NEW x \in Nat PROVE [g EXCEPT !.entryDeadline = x] \in GrantType
  BY Zenon DEF GrantType
<1>10. ASSUME NEW x \in Seq(Node) PROVE [g EXCEPT !.entryRoute = x] \in GrantType
  BY Zenon DEF GrantType
<1>11. ASSUME NEW x \in Nat PROVE [g EXCEPT !.entryHop = x] \in GrantType
  BY Zenon DEF GrantType
<1> QED
  BY <1>1, <1>2, <1>3, <1>4, <1>5, <1>6, <1>7, <1>8, <1>9, <1>10, <1>11

(* A signed child is well typed: the broker's claims are. *)
LEMMA ChildClaimsType ==
  ASSUME NEW parent \in GrantType, NEW ctx \in ContextType, NEW request \in Request
  PROVE  ChildClaims(parent, ctx, request) \in GrantType
<1>1. ctx.deadline \in Nat
  BY DEF ContextType
<1>2. /\ request.childOperationID \in Uuid \cup {Missing}
      /\ request.targetKind \in TargetKind \cup {"none"}
      /\ request.scopes \in SUBSET Scope
      /\ request.descriptor \in Descriptor \cup {Missing}
      /\ request.rootRequestDigest \in RootDigest \cup {Missing}
  BY DEF Request
<1>3. <<IF ctx.route[1] = "agent" THEN "agent" ELSE "ms">> \in Seq(Node)
  BY DEF Node
<1>4. "product-child" \in GrantKind \cup {"none"}
  BY DEF GrantKind
<1> DEFINE g1 == [parent EXCEPT !.childOperationID = request.childOperationID]
           g2 == [g1 EXCEPT !.grantKind = "product-child"]
           g3 == [g2 EXCEPT !.productTargetKind = request.targetKind]
           g4 == [g3 EXCEPT !.entryRoute = <<IF ctx.route[1] = "agent" THEN "agent" ELSE "ms">>]
           g5 == [g4 EXCEPT !.entryHop = 1]
           g6 == [g5 EXCEPT !.scopes = request.scopes]
           g7 == [g6 EXCEPT !.descriptor = request.descriptor]
           g8 == [g7 EXCEPT !.rootRequestDigest = request.rootRequestDigest]
           g9 == [g8 EXCEPT !.issuedAt = 0]
           g10 == [g9 EXCEPT !.expiresAt = 0]
           g11 == [g10 EXCEPT !.entryDeadline = ctx.deadline]
<1>5. g11 = ChildClaims(parent, ctx, request)
  BY DEF ChildClaims
<1>6. g1 \in GrantType
  BY ClaimUpdates, <1>2
<1> HIDE DEF g1
<1>7. g2 \in GrantType
  BY <1>6, ClaimUpdates, <1>4
<1> HIDE DEF g2
<1>8. g3 \in GrantType
  BY <1>7, ClaimUpdates, <1>2
<1> HIDE DEF g3
<1>9. g4 \in GrantType
  BY <1>8, ClaimUpdates, <1>3
<1> HIDE DEF g4
<1>10. g5 \in GrantType
  BY <1>9, ClaimUpdates
<1> HIDE DEF g5
<1>11. g6 \in GrantType
  BY <1>10, ClaimUpdates, <1>2
<1> HIDE DEF g6
<1>12. g7 \in GrantType
  BY <1>11, ClaimUpdates, <1>2
<1> HIDE DEF g7
<1>13. g8 \in GrantType
  BY <1>12, ClaimUpdates, <1>2
<1> HIDE DEF g8
<1>14. g9 \in GrantType
  BY <1>13, ClaimUpdates
<1> HIDE DEF g9
<1>15. g10 \in GrantType
  BY <1>14, ClaimUpdates
<1> HIDE DEF g10
<1>16. g11 \in GrantType
  BY <1>15, ClaimUpdates, <1>1
<1> HIDE DEF g11
<1> QED
  BY <1>5, <1>16

LEMMA ChildType ==
  ASSUME NEW parent \in GrantType, NEW ctx \in ContextType,
         NEW request \in Request, NEW t \in Nat
  PROVE  SignProductDelegationFromParent(ZeroCodec, parent, ctx, request, t)
           \in GrantType
<1> DEFINE claims == ChildClaims(parent, ctx, request)
<1>1. ASSUME NEW codec \in [maxTTL: Nat, clockSkew: Nat]
      PROVE  ShortCodec(codec) \in [maxTTL: Nat, clockSkew: Nat]
  BY <1>1, NormalizedType, TTLAssumption DEF ShortCodec
<1>2. [claims EXCEPT !.grantKind = "product-child"] \in GrantType
  <2>1. claims \in GrantType
    BY ChildClaimsType
  <2>2. "product-child" \in GrantKind \cup {"none"}
    BY DEF GrantKind
  <2> HIDE DEF claims
  <2> QED
    BY <2>1, <2>2, ClaimUpdates
<1>3. ShortCodec(ShortCodec(ZeroCodec)) \in [maxTTL: Nat, clockSkew: Nat]
  BY <1>1, ZeroCodecNormal
<1> HIDE DEF claims
<1>4. Sign(ShortCodec(ShortCodec(ZeroCodec)),
           [claims EXCEPT !.grantKind = "product-child"], t) \in GrantType
  BY <1>2, <1>3, SignType
<1> QED
  BY <1>4, EmptyTypes DEF SignProductDelegationFromParent,
     SignProductDelegationGrant, claims

LEMMA AuthorityType == \A g \in GrantType : Authority(g) \in GrantType
<1> TAKE g \in GrantType
<1> QED
  BY DEF Authority, GrantType

LEMMA RootClaimsType ==
  ASSUME NEW chain \in Uuid, NEW scopes \in SUBSET Scope, NEW hops \in OfferedHops,
         generation \in Nat
  PROVE  [NoGrant EXCEPT
            !.chainID = chain, !.rootOperationID = RootOperation,
            !.ownerID = Owner, !.accountGeneration = generation,
            !.scopes = scopes, !.descriptor = AgentTarget,
            !.rootRequestDigest = AgentDigest,
            !.entryRoute = <<"ms">>, !.entryHop = 1, !.maxHop = hops] \in GrantType
<1>1. hops \in Nat /\ <<"ms">> \in Seq(Node)
  BY OfferAssumption DEF Node
<1> QED
  BY <1>1, EmptyTypes, OperationAssumption, TargetAssumption DEF GrantType

LEMMA NewContextType ==
  ASSUME NEW chain \in Uuid, NEW deadline \in Nat
  PROVE  AppendCallNode(NewCallContext(chain, RootOperation, deadline), "ms")
           \in ContextType
<1>1. NewCallContext(chain, RootOperation, deadline) \in ContextType
  BY OperationAssumption DEF NewCallContext, ContextType, Node
<1> QED
  BY <1>1, AppendType DEF Node

LEMMA InitTypeOK == Init => TypeOK
  BY AccountAssumption, BoundAssumption DEF Init, TypeOK

LEMMA NextTypeOK == TypeOK /\ [Next]_vars => TypeOK'
<1> SUFFICES ASSUME TypeOK, [Next]_vars PROVE TypeOK'
  OBVIOUS
<1>0. generation \in Nat /\ now \in Nat
  BY AccountAssumption DEF TypeOK
<1>1. CASE OfferRoot
  <2>1. PICK chain \in Uuid, time \in CallTime, scopes \in SUBSET Scope,
             hops \in OfferedHops :
          offer' =
            [grant |->
               Sign(ZeroCodec,
                    [NoGrant EXCEPT
                       !.chainID = chain, !.rootOperationID = RootOperation,
                       !.ownerID = Owner, !.accountGeneration = generation,
                       !.scopes = scopes, !.descriptor = AgentTarget,
                       !.rootRequestDigest = AgentDigest,
                       !.entryRoute = <<"ms">>, !.entryHop = 1, !.maxHop = hops],
                    now),
             ctx |-> AppendCallNode(NewCallContext(chain, RootOperation, now + time),
                                    "ms")]
    BY <1>1 DEF OfferRoot
  <2>2. now + time \in Nat
    BY <1>0, BoundAssumption
  <2>3. offer' \in CallType
    BY <1>0, <2>1, <2>2, RootClaimsType, SignType, ZeroCodecNormal, NewContextType
    DEF CallType
  <2>4. offers' \in 0..MaxOffers
    BY <1>1, BoundAssumption DEF OfferRoot, TypeOK
  <2> QED
    BY <1>1, <2>3, <2>4 DEF OfferRoot, TypeOK
<1>2. CASE AcceptRoot
  <2>1. offer \in CallType /\ offer' = None
    BY <1>2 DEF AcceptRoot, TypeOK
  <2>2. offer.grant \in GrantType /\ offer.ctx \in ContextType
    BY <2>1 DEF CallType
  <2>3. held' \in CallType \cup {None}
    BY <1>2, <2>2, AdvanceTypes DEF AcceptRoot, TypeOK, CallType
  <2>4. Authority(offer.grant) \in GrantType
    BY <2>2, AuthorityType
  <2>5. first' \in GrantType \cup {None}
    BY <1>2, <2>4 DEF AcceptRoot, TypeOK
  <2> QED
    BY <1>2, <2>1, <2>3, <2>5 DEF AcceptRoot, TypeOK
<1>3. CASE BrokerVerify
  <2>1. held.grant \in GrantType /\ held.ctx \in ContextType
    BY <1>3 DEF BrokerVerify, TypeOK, CallType
  <2>2. PICK request \in Asked :
          broker' = [parent |-> held.grant, ctx |-> ProductContext(held.ctx),
                     request |-> request, grant |-> NoGrant]
    BY <1>3 DEF BrokerVerify
  <2>3. broker' \in ExchangeType
    BY <2>1, <2>2, AdvanceTypes, EmptyTypes, AskedAssumption DEF ExchangeType
  <2> QED
    BY <1>3, <2>3 DEF BrokerVerify, TypeOK
<1>4. CASE BrokerSign
  <2>1. broker \in ExchangeType
    BY <1>4 DEF BrokerSign, TypeOK
  <2>2. PICK grant \in GrantType :
          broker' = IF grant = NoGrant THEN None ELSE [broker EXCEPT !.grant = grant]
    BY <1>0, <1>4, <2>1, ChildType DEF BrokerSign, ExchangeType
  <2>3. broker' \in ExchangeType \cup {None}
    BY <2>1, <2>2 DEF ExchangeType
  <2> QED
    BY <1>4, <2>3 DEF BrokerSign, TypeOK
<1>5. CASE TakeChild
  BY <1>5 DEF TakeChild, TypeOK
<1>6. CASE Rebuild
  BY <1>6, AccountAssumption DEF Rebuild, TypeOK
<1>7. CASE Tick
  BY <1>7 DEF Tick, TypeOK
<1>8. CASE UNCHANGED vars
  BY <1>8 DEF vars, TypeOK
<1> QED
  BY <1>1, <1>2, <1>3, <1>4, <1>5, <1>6, <1>7, <1>8 DEF Next

(* The lifecycle's state is well typed: in particular nothing but a whole  *)
(* grant or none is ever held, exchanged or taken.                         *)
THEOREM TypeCorrect == Spec => []TypeOK
  BY InitTypeOK, NextTypeOK, PTL DEF Spec

-----------------------------------------------------------------------------
(* What the broker's steps establish *)

(* The broker has verified that the parent authorises the call. *)
Verified(parent, ctx, request) ==
  /\ ValidateGrantClaims(parent, DefaultGrantTTL)
  /\ IsRoot(parent)
  /\ parent.entryRoute = <<"ms">> /\ parent.entryHop = 1
  /\ parent.rootOperationID = RootOperation
  /\ parent.ownerID = Owner /\ Owner # Missing
  /\ 3 <= parent.maxHop
  /\ RouteLength(ctx.route) <= parent.maxRouteLength
  /\ ValidateStrictCallContext(ctx)
  /\ ctx.route = <<"ms", "agent", "product">> /\ ctx.hop = 3
  /\ ctx.chainID = parent.chainID
  /\ ctx.rootOperationID = RootOperation
  /\ ctx.deadline <= parent.expiresAt
  /\ TargetMatchesChild(request.targetKind, request.childOperationID)

(* The child it then signs at time t. *)
SignedChild(parent, ctx, request, t) ==
  [chainID |-> parent.chainID, rootOperationID |-> parent.rootOperationID,
   childOperationID |-> request.childOperationID, grantKind |-> "product-child",
   productTargetKind |-> request.targetKind, ownerID |-> parent.ownerID,
   accountGeneration |-> parent.accountGeneration, scopes |-> request.scopes,
   descriptor |-> request.descriptor,
   rootRequestDigest |-> request.rootRequestDigest, issuedAt |-> t,
   expiresAt |-> t + DefaultProductDelegationTTL, entryDeadline |-> ctx.deadline,
   entryRoute |-> <<"ms">>, entryHop |-> 1, maxHop |-> parent.maxHop,
   maxRouteLength |-> parent.maxRouteLength]

(* A grant is its claims. *)
LEMMA GrantRecord ==
  ASSUME NEW g \in GrantType
  PROVE  g = [chainID |-> g.chainID, rootOperationID |-> g.rootOperationID,
              childOperationID |-> g.childOperationID, grantKind |-> g.grantKind,
              productTargetKind |-> g.productTargetKind, ownerID |-> g.ownerID,
              accountGeneration |-> g.accountGeneration, scopes |-> g.scopes,
              descriptor |-> g.descriptor, rootRequestDigest |-> g.rootRequestDigest,
              issuedAt |-> g.issuedAt, expiresAt |-> g.expiresAt,
              entryDeadline |-> g.entryDeadline, entryRoute |-> g.entryRoute,
              entryHop |-> g.entryHop, maxHop |-> g.maxHop,
              maxRouteLength |-> g.maxRouteLength]
  BY DEF GrantType

LEMMA ShortTTL ==
  /\ ShortCodec(ShortCodec(ZeroCodec)) \in [maxTTL: Nat, clockSkew: Nat]
  /\ Normalized(ShortCodec(ShortCodec(ZeroCodec))).maxTTL
       = DefaultProductDelegationTTL
<1> DEFINE short == [maxTTL |-> DefaultProductDelegationTTL, clockSkew |-> 0]
<1>1. ShortCodec(ZeroCodec) = short
  BY ZeroCodecNormal, TTLAssumption DEF ShortCodec
<1>2. Normalized(short) = short
  BY TTLAssumption DEF Normalized
<1>3. ShortCodec(short) = short
  BY <1>2, TTLAssumption DEF ShortCodec
<1> QED
  BY <1>1, <1>2, <1>3, TTLAssumption

(* The claims the broker hands to the codec. *)
LEMMA ChildFields ==
  ASSUME NEW parent \in GrantType, NEW ctx \in ContextType, NEW request \in Request,
         ctx.route = <<"ms", "agent", "product">>
  PROVE  LET c == ChildClaims(parent, ctx, request) IN
         /\ c.chainID = parent.chainID
         /\ c.rootOperationID = parent.rootOperationID
         /\ c.childOperationID = request.childOperationID
         /\ c.grantKind = "product-child"
         /\ c.productTargetKind = request.targetKind
         /\ c.ownerID = parent.ownerID
         /\ c.accountGeneration = parent.accountGeneration
         /\ c.scopes = request.scopes
         /\ c.descriptor = request.descriptor
         /\ c.rootRequestDigest = request.rootRequestDigest
         /\ c.issuedAt = 0 /\ c.expiresAt = 0
         /\ c.entryDeadline = ctx.deadline
         /\ c.entryRoute = <<"ms">> /\ c.entryHop = 1
         /\ c.maxHop = parent.maxHop
         /\ c.maxRouteLength = parent.maxRouteLength
<1> DEFINE c == ChildClaims(parent, ctx, request)
<1>1. c.entryRoute = <<"ms">>
  <2>1. ctx.route[1] = "ms"
    OBVIOUS
  <2>2. c.entryRoute = <<IF ctx.route[1] = "agent" THEN "agent" ELSE "ms">>
    BY DEF ChildClaims, GrantType
  <2> QED
    BY <2>1, <2>2
<1>2. /\ c.chainID = parent.chainID
      /\ c.rootOperationID = parent.rootOperationID
      /\ c.childOperationID = request.childOperationID
      /\ c.grantKind = "product-child"
      /\ c.productTargetKind = request.targetKind
      /\ c.ownerID = parent.ownerID
  BY DEF ChildClaims, GrantType
<1>3. /\ c.accountGeneration = parent.accountGeneration
      /\ c.scopes = request.scopes
      /\ c.descriptor = request.descriptor
      /\ c.rootRequestDigest = request.rootRequestDigest
      /\ c.issuedAt = 0 /\ c.expiresAt = 0
  BY DEF ChildClaims, GrantType
<1>4. /\ c.entryDeadline = ctx.deadline
      /\ c.entryHop = 1
      /\ c.maxHop = parent.maxHop
      /\ c.maxRouteLength = parent.maxRouteLength
  BY DEF ChildClaims, GrantType
<1> QED
  BY <1>1, <1>2, <1>3, <1>4

(* The codec fills in the times and signs if the claims are then valid. *)
LEMMA FilledChild ==
  ASSUME NEW parent \in GrantType, NEW ctx \in ContextType, NEW request \in Request,
         NEW t \in Nat \ {0}, Verified(parent, ctx, request)
  PROVE  SignProductDelegationGrant(ShortCodec(ZeroCodec),
                                    ChildClaims(parent, ctx, request), t)
           = IF ValidateGrantClaims(SignedChild(parent, ctx, request, t),
                                    DefaultProductDelegationTTL)
             THEN SignedChild(parent, ctx, request, t) ELSE NoGrant
<1> DEFINE claims == ChildClaims(parent, ctx, request)
           codec == ShortCodec(ShortCodec(ZeroCodec))
           signed == SignedChild(parent, ctx, request, t)
           until == t + DefaultProductDelegationTTL
           kinded == [claims EXCEPT !.grantKind = "product-child"]
           filled == [kinded EXCEPT
                        !.grantKind = IF kinded.grantKind = "none" THEN "root"
                                      ELSE kinded.grantKind,
                        !.issuedAt = t, !.expiresAt = until,
                        !.entryDeadline = OrElse(kinded.entryDeadline, until),
                        !.maxRouteLength = OrElse(kinded.maxRouteLength,
                                                  MaxRouteLength)]
<1>1. claims \in GrantType
  BY ChildClaimsType
<1>2. /\ claims.chainID = parent.chainID
      /\ claims.rootOperationID = parent.rootOperationID
      /\ claims.childOperationID = request.childOperationID
      /\ claims.grantKind = "product-child"
      /\ claims.productTargetKind = request.targetKind
      /\ claims.ownerID = parent.ownerID
      /\ claims.accountGeneration = parent.accountGeneration
      /\ claims.scopes = request.scopes
      /\ claims.descriptor = request.descriptor
      /\ claims.rootRequestDigest = request.rootRequestDigest
      /\ claims.issuedAt = 0 /\ claims.expiresAt = 0
      /\ claims.entryDeadline = ctx.deadline
      /\ claims.entryRoute = <<"ms">> /\ claims.entryHop = 1
      /\ claims.maxHop = parent.maxHop
      /\ claims.maxRouteLength = parent.maxRouteLength
  BY ChildFields DEF Verified
<1>3. /\ ctx.deadline # 0
      /\ parent.maxRouteLength # 0
  BY DEF Verified, ValidateStrictCallContext, ValidateCallContext, ValidateGrantClaims
<1>4. TargetMatchesChild(claims.productTargetKind, claims.childOperationID)
  BY <1>2 DEF Verified
<1>5. until \in Nat /\ t # 0 /\ Normalized(codec).maxTTL = DefaultProductDelegationTTL
  BY ShortTTL, TTLAssumption
<1> HIDE DEF claims, codec, until
<1>6. kinded = claims
  BY <1>1, <1>2 DEF GrantType
<1>7. filled.grantKind = "product-child" /\ filled \in GrantType
  <2>1. OrElse(kinded.entryDeadline, until) \in Nat
    BY <1>1, <1>5, <1>6 DEF OrElse, GrantType
  <2>2. OrElse(kinded.maxRouteLength, MaxRouteLength) \in Nat
    BY <1>1, <1>6 DEF OrElse, GrantType, MaxRouteLength
  <2>3. kinded.grantKind = "product-child" /\ "product-child" \in GrantKind
    BY <1>2, <1>6 DEF GrantKind
  <2>4. t \in Nat /\ until \in Nat /\ kinded \in GrantType
    BY <1>1, <1>5, <1>6
  <2> HIDE DEF kinded
  <2>5. filled.grantKind = "product-child"
    BY <2>3, <2>4 DEF GrantType
  <2>6. (IF kinded.grantKind = "none" THEN "root" ELSE kinded.grantKind)
          \in GrantKind \cup {"none"}
    BY <2>3
  <2>7. filled \in GrantType
    BY <2>1, <2>2, <2>4, <2>6, FilledType
  <2> QED
    BY <2>5, <2>7
<1>8. filled = signed
  <2>1. /\ filled.issuedAt = t /\ filled.expiresAt = until
        /\ filled.entryDeadline = ctx.deadline
        /\ filled.maxRouteLength = parent.maxRouteLength
    BY <1>1, <1>2, <1>3, <1>6 DEF OrElse, GrantType
  <2>2. /\ filled.chainID = parent.chainID
        /\ filled.rootOperationID = parent.rootOperationID
        /\ filled.childOperationID = request.childOperationID
        /\ filled.productTargetKind = request.targetKind
        /\ filled.ownerID = parent.ownerID
        /\ filled.accountGeneration = parent.accountGeneration
        /\ filled.scopes = request.scopes
    BY <1>1, <1>2, <1>6 DEF GrantType
  <2>3. /\ filled.descriptor = request.descriptor
        /\ filled.rootRequestDigest = request.rootRequestDigest
        /\ filled.entryRoute = <<"ms">> /\ filled.entryHop = 1
        /\ filled.maxHop = parent.maxHop
    BY <1>1, <1>2, <1>6 DEF GrantType
  <2> HIDE DEF filled
  <2> QED
    BY <1>7, <2>1, <2>2, <2>3, GrantRecord DEF SignedChild, until
<1>9. SignProductDelegationGrant(ShortCodec(ZeroCodec), claims, t)
        = Sign(codec, kinded, t)
  BY <1>4 DEF SignProductDelegationGrant, codec
<1>10. Sign(codec, kinded, t)
         = IF ValidateGrantClaims(filled, DefaultProductDelegationTTL)
           THEN filled ELSE NoGrant
  <2>1. kinded.issuedAt = 0 /\ kinded.expiresAt = 0
    BY <1>2, <1>6
  <2>2. OrElse(kinded.issuedAt, t) = t
    BY <2>1 DEF OrElse
  <2>3. OrElse(kinded.expiresAt, t + DefaultProductDelegationTTL) = until
    BY <2>1 DEF OrElse, until
  <2> HIDE DEF kinded
  <2> QED
    BY <1>5, <2>2, <2>3, Zenon DEF Sign
<1> QED
  BY <1>8, <1>9, <1>10 DEF claims

InTime(ctx, t) == ctx.deadline \in t..(t + DefaultProductDelegationTTL)

(* Nothing but the call's deadline can make the child's claims invalid. *)
LEMMA ChildClaimsValid ==
  ASSUME NEW parent \in GrantType, NEW ctx \in ContextType, NEW request \in Request,
         NEW t \in Nat \ {0}, Verified(parent, ctx, request)
  PROVE  LET c == SignedChild(parent, ctx, request, t) IN
         /\ ValidateGrantClaims(c, DefaultProductDelegationTTL) <=> InTime(ctx, t)
         /\ InTime(ctx, t) => ValidateGrantClaims(c, DefaultGrantTTL)
<1> DEFINE c == SignedChild(parent, ctx, request, t)
<1>1. /\ c.chainID \in Uuid
      /\ c.rootOperationID \in Uuid
      /\ c.ownerID \in OwnerID
      /\ c.accountGeneration \in 1..MaxAccountGeneration
      /\ c.maxHop \in 1..MaxCallHop
      /\ c.maxRouteLength \in 1..MaxRouteLength
      /\ ValidateEntryRoute(c.entryRoute, c.entryHop)
      /\ c.maxRouteLength >= RouteLength(c.entryRoute)
  BY DEF SignedChild, Verified, ValidateGrantClaims, ValidateEntryRoute
<1>2. /\ c.descriptor \in Descriptor
      /\ c.rootRequestDigest \in RootDigest
      /\ c.scopes # {}
  BY DEF SignedChild, Request
<1>3. /\ c.grantKind = "product-child"
      /\ c.grantKind \in GrantKind
      /\ c.childOperationID \in Uuid \cup {Missing}
      /\ c.productTargetKind \in TargetKind
      /\ c.productTargetKind = "query" => c.childOperationID = Missing
      /\ c.productTargetKind = "start_operation" => c.childOperationID # Missing
  BY IdentifierAssumption DEF SignedChild, Verified, TargetMatchesChild, GrantKind,
     TargetKind
<1>4. /\ c.issuedAt = t
      /\ c.expiresAt = t + DefaultProductDelegationTTL
      /\ c.entryDeadline = ctx.deadline
  BY DEF SignedChild
<1>5. ctx.deadline \in Nat
  BY DEF ContextType
<1>6. /\ 0 < c.issuedAt /\ c.issuedAt < c.expiresAt
      /\ c.expiresAt - c.issuedAt = DefaultProductDelegationTTL
      /\ c.expiresAt - c.issuedAt <= DefaultProductDelegationTTL
      /\ c.expiresAt - c.issuedAt <= DefaultGrantTTL
  BY <1>4, TTLAssumption
<1>7. (c.issuedAt <= c.entryDeadline /\ c.entryDeadline <= c.expiresAt)
        <=> InTime(ctx, t)
  BY <1>4, <1>5, TTLAssumption DEF InTime
<1>8. c.grantKind # "root"
  BY <1>3
<1> HIDE DEF c
<1>9. ASSUME NEW maxTTL, c.expiresAt - c.issuedAt <= maxTTL
      PROVE  ValidateGrantClaims(c, maxTTL) <=> InTime(ctx, t)
  BY <1>1, <1>2, <1>3, <1>6, <1>7, <1>8, <1>9, Zenon DEF ValidateGrantClaims
<1> QED
  BY <1>6, <1>9, Zenon DEF c

(* What signing from a verified parent yields, and when. *)
LEMMA ChildOfVerified ==
  ASSUME NEW parent \in GrantType, NEW ctx \in ContextType, NEW request \in Request,
         NEW t \in Nat \ {0}, Verified(parent, ctx, request)
  PROVE  LET g == SignProductDelegationFromParent(ZeroCodec, parent, ctx, request, t)
         IN /\ g # NoGrant <=> /\ request.scopes \subseteq parent.scopes
                               /\ InTime(ctx, t)
            /\ g # NoGrant => g = SignedChild(parent, ctx, request, t)
<1>1. MayDerive(parent, ctx, request) <=> request.scopes \subseteq parent.scopes
  BY DEF MayDerive, Verified, Request
<1>2. SignedChild(parent, ctx, request, t) # NoGrant
  <2>1. SignedChild(parent, ctx, request, t).grantKind = "product-child"
    BY DEF SignedChild
  <2>2. NoGrant.grantKind = "none"
    BY DEF NoGrant
  <2> QED
    BY <2>1, <2>2
<1>3. SignProductDelegationGrant(ShortCodec(ZeroCodec),
                                 ChildClaims(parent, ctx, request), t)
        = IF InTime(ctx, t) THEN SignedChild(parent, ctx, request, t) ELSE NoGrant
  BY FilledChild, ChildClaimsValid
<1> QED
  BY <1>1, <1>2, <1>3, Zenon DEF SignProductDelegationFromParent

-----------------------------------------------------------------------------
(* The inductive invariant *)

(* The child of an exchange was signed from its verified parent, at some   *)
(* time up to now at which the call's deadline was near.                   *)
Signed(e) ==
  \E t \in 1..now : /\ InTime(e.ctx, t)
                    /\ e.request.scopes \subseteq e.parent.scopes
                    /\ e.grant = SignedChild(e.parent, e.ctx, e.request, t)

ClockInv == now >= 1

(* The Agent holds a root grant that entered at message-server. *)
HeldInv ==
  held # None => /\ ValidateGrantClaims(held.grant, DefaultGrantTTL)
                 /\ IsRoot(held.grant)
                 /\ held.grant.entryRoute = <<"ms">>

FirstInv == RenewalKeepsAuthority /\ (held = None => first = None)

BrokerInv ==
  broker # None => /\ Verified(broker.parent, broker.ctx, broker.request)
                   /\ broker.grant # NoGrant => Signed(broker)

ChildInv ==
  child # None => /\ Verified(child.parent, child.ctx, child.request)
                  /\ Signed(child)

GrantInv ==
  TypeOK /\ ClockInv /\ HeldInv /\ FirstInv /\ BrokerInv /\ ChildInv

(* What the broker's verification of a held root establishes. *)
LEMMA VerifiedByBroker ==
  ASSUME NEW parent, NEW ctx, NEW request, NEW b,
         parent.entryRoute = <<"ms">>,
         b.ctx = ctx, b.rootOperationID = RootOperation, b.ownerID = Owner,
         TargetMatchesChild(request.targetKind, request.childOperationID),
         VerifyProductDelegationParent(parent, now, b)
  PROVE  Verified(parent, ctx, request)
<1>1. /\ ValidateGrantClaims(parent, DefaultGrantTTL)
      /\ IsRoot(parent)
      /\ ValidateRootBinding(parent, b, "product")
  BY ZeroCodecNormal DEF VerifyProductDelegationParent, VerifyRootBinding, VerifySigned
<1>2. parent.entryHop = 1
  BY <1>1 DEF ValidateGrantClaims, ValidateEntryRoute
<1>3. ctx.route = <<"ms", "agent", "product">> /\ ctx.hop = 3
  BY <1>1, <1>2 DEF ValidateRootBinding, AtBoundary
<1>4. 3 <= parent.maxHop /\ RouteLength(ctx.route) <= parent.maxRouteLength
  BY <1>1, <1>3 DEF ValidateRootBinding
<1>5. /\ parent.rootOperationID = RootOperation
      /\ parent.ownerID = Owner /\ Owner # Missing
      /\ ValidateStrictCallContext(ctx)
      /\ ctx.chainID = parent.chainID
      /\ ctx.rootOperationID = RootOperation
      /\ ctx.deadline <= parent.expiresAt
  BY <1>1 DEF ValidateRootBinding
<1> QED
  BY <1>1, <1>2, <1>3, <1>4, <1>5 DEF Verified

(* A renewal differs from the grant it replaces in chain and times only. *)
LEMMA RenewalAuthority ==
  ASSUME NEW previous \in GrantType, NEW replacement \in GrantType,
         ValidateRootGrantRenewal(previous, replacement)
  PROVE  Authority(replacement) = Authority(previous)
<1>1. Authority(previous) \in GrantType /\ Authority(replacement) \in GrantType
  BY AuthorityType
<1>2. ASSUME NEW g \in GrantType
      PROVE  /\ Authority(g).chainID = Missing
             /\ Authority(g).rootOperationID = g.rootOperationID
             /\ Authority(g).childOperationID = g.childOperationID
             /\ Authority(g).grantKind = g.grantKind
             /\ Authority(g).productTargetKind = g.productTargetKind
             /\ Authority(g).ownerID = g.ownerID
             /\ Authority(g).accountGeneration = g.accountGeneration
             /\ Authority(g).scopes = g.scopes
             /\ Authority(g).descriptor = g.descriptor
             /\ Authority(g).rootRequestDigest = g.rootRequestDigest
             /\ Authority(g).issuedAt = 0 /\ Authority(g).expiresAt = 0
             /\ Authority(g).entryDeadline = 0
             /\ Authority(g).entryRoute = g.entryRoute
             /\ Authority(g).entryHop = g.entryHop
             /\ Authority(g).maxHop = g.maxHop
             /\ Authority(g).maxRouteLength = g.maxRouteLength
  BY DEF Authority, GrantType
<1>3. /\ previous.rootOperationID = replacement.rootOperationID
      /\ previous.childOperationID = replacement.childOperationID
      /\ previous.grantKind = replacement.grantKind
      /\ previous.productTargetKind = replacement.productTargetKind
      /\ previous.ownerID = replacement.ownerID
      /\ previous.accountGeneration = replacement.accountGeneration
      /\ previous.scopes = replacement.scopes
      /\ previous.descriptor = replacement.descriptor
      /\ previous.rootRequestDigest = replacement.rootRequestDigest
      /\ previous.entryRoute = replacement.entryRoute
      /\ previous.entryHop = replacement.entryHop
      /\ previous.maxHop = replacement.maxHop
      /\ previous.maxRouteLength = replacement.maxRouteLength
  BY DEF ValidateRootGrantRenewal, IsRoot
<1> DEFINE p == Authority(previous)
           r == Authority(replacement)
<1>4. /\ p.chainID = r.chainID /\ p.rootOperationID = r.rootOperationID
      /\ p.childOperationID = r.childOperationID /\ p.grantKind = r.grantKind
      /\ p.productTargetKind = r.productTargetKind /\ p.ownerID = r.ownerID
      /\ p.accountGeneration = r.accountGeneration /\ p.scopes = r.scopes
      /\ p.descriptor = r.descriptor /\ p.rootRequestDigest = r.rootRequestDigest
      /\ p.issuedAt = r.issuedAt /\ p.expiresAt = r.expiresAt
      /\ p.entryDeadline = r.entryDeadline /\ p.entryRoute = r.entryRoute
      /\ p.entryHop = r.entryHop /\ p.maxHop = r.maxHop
      /\ p.maxRouteLength = r.maxRouteLength
  BY <1>2, <1>3
<1> HIDE DEF p, r
<1>5. p = r
  BY <1>1, <1>4, GrantRecord DEF p, r
<1> QED
  BY <1>5 DEF p, r

LEMMA AcceptedByAgent ==
  ASSUME NEW grant, NEW t, NEW b, VerifyAgentRootBinding(grant, t, b)
  PROVE  /\ ValidateGrantClaims(grant, DefaultGrantTTL)
         /\ IsRoot(grant)
         /\ grant.entryRoute = <<"ms">>
  BY ZeroCodecNormal DEF VerifyAgentRootBinding, VerifySigned, ValidateRootBinding,
     AtBoundary

(* A signature stays what it is as the clock advances. *)
LEMMA SignedStays ==
  ASSUME NEW CONSTANT e, Signed(e), now \in Nat, now' \in Nat, now <= now'
  PROVE  Signed(e)'
<1>1. PICK t \in 1..now : /\ InTime(e.ctx, t)
                          /\ e.request.scopes \subseteq e.parent.scopes
                          /\ e.grant = SignedChild(e.parent, e.ctx, e.request, t)
  BY DEF Signed
<1>2. t \in 1..(now')
  BY <1>1
<1> QED
  BY <1>1, <1>2, Zenon DEF Signed

LEMMA InitGrantInv == Init => GrantInv
  BY InitTypeOK DEF Init, GrantInv, ClockInv, HeldInv, FirstInv, RenewalKeepsAuthority,
     BrokerInv, ChildInv

LEMMA NextGrantInv == GrantInv /\ [Next]_vars => GrantInv'
<1> SUFFICES ASSUME GrantInv, [Next]_vars PROVE GrantInv'
  OBVIOUS
<1>1. TypeOK /\ TypeOK'
  BY NextTypeOK DEF GrantInv
<1>2. now \in Nat /\ now' \in Nat /\ now <= now'
  <2>1. now \in Nat /\ now' \in Nat
    BY <1>1 DEF TypeOK
  <2>2. now' = now + 1 \/ now' = now
    BY DEF Next, vars, OfferRoot, AcceptRoot, BrokerVerify, BrokerSign, TakeChild,
       Rebuild, Tick
  <2> QED
    BY <2>1, <2>2
<1>3. ClockInv'
  BY <1>2 DEF GrantInv, ClockInv
(* The Agent's root is replaced by AcceptRoot alone. *)
<1>4. UNCHANGED <<held, first>> \/ AcceptRoot
  BY DEF Next, vars, OfferRoot, BrokerVerify, BrokerSign, TakeChild, Rebuild, Tick
<1>5. HeldInv' /\ FirstInv'
  <2>1. CASE UNCHANGED <<held, first>>
    BY <2>1 DEF GrantInv, HeldInv, FirstInv, RenewalKeepsAuthority
  <2>2. CASE AcceptRoot /\ held' # held
    <3> DEFINE ctx == ValidateAndAdvanceAgentCallContext(offer.ctx)
    <3>1. /\ offer \in CallType
          /\ VerifyAgentRootBinding(offer.grant, AgentClock, AgentBinding(ctx))
          /\ held # None => ValidateRootGrantRenewal(held.grant, offer.grant)
          /\ held' = [grant |-> offer.grant, ctx |-> ctx]
          /\ first' = IF first = None THEN Authority(offer.grant) ELSE first
      BY <1>1, <2>2 DEF AcceptRoot, TypeOK
    <3>2. ctx \in ContextType /\ offer.grant \in GrantType
      BY <3>1, AdvanceTypes DEF CallType
    <3> HIDE DEF ctx
    <3>3. HeldInv'
      BY <3>1, AcceptedByAgent DEF HeldInv
    <3>4. held' # None
      BY <3>2, <3>1, NoneAssumption DEF CallType
    <3>5. first' = Authority(offer.grant)
      <4>1. CASE held = None
        BY <3>1, <4>1 DEF GrantInv, FirstInv
      <4>2. CASE held # None
        <5>1. held.grant \in GrantType /\ offer.grant \in GrantType
          BY <1>1, <3>1, <4>2 DEF TypeOK, CallType
        <5>2. Authority(offer.grant) = Authority(held.grant)
          BY <3>1, <4>2, <5>1, RenewalAuthority
        <5>3. Authority(held.grant) = first
          BY <4>2 DEF GrantInv, FirstInv, RenewalKeepsAuthority
        <5> QED
          BY <3>1, <5>2, <5>3
      <4> QED
        BY <4>1, <4>2
    <3>6. held'.grant = offer.grant
      BY <3>1
    <3> QED
      BY <3>3, <3>4, <3>5, <3>6 DEF FirstInv, RenewalKeepsAuthority
  <2>3. CASE AcceptRoot /\ held' = held
    <3>1. CASE UNCHANGED first
      BY <2>1, <2>3, <3>1
    <3>2. CASE first' # first
      <4>1. /\ offer \in CallType
            /\ held' = [grant |-> offer.grant,
                        ctx |-> ValidateAndAdvanceAgentCallContext(offer.ctx)]
            /\ first = None /\ first' = Authority(offer.grant)
        BY <1>1, <2>3, <3>2 DEF AcceptRoot, TypeOK
      <4>2. held' \in CallType
        BY <4>1, AdvanceTypes DEF CallType
      <4>3. held # None /\ held.grant = offer.grant
        BY <2>3, <4>1, <4>2, NoneAssumption
      <4> QED
        BY <2>3, <4>1, <4>3 DEF GrantInv, HeldInv, FirstInv, RenewalKeepsAuthority
    <3> QED
      BY <3>1, <3>2
  <2> QED
    BY <1>4, <2>1, <2>2, <2>3
(* The broker verifies, signs and replies. *)
<1>6. BrokerInv'
  <2>1. CASE UNCHANGED broker
    <3>1. PICK e : e = broker /\ e = broker'
      BY <2>1
    <3> QED
      BY <1>2, <3>1, SignedStays DEF GrantInv, BrokerInv
  <2>2. CASE BrokerVerify
    <3>1. PICK request \in Asked :
            LET ctx == ProductContext(held.ctx) IN
            /\ ValidateProductDelegationExchangeRequest(ctx, request, held.grant)
            /\ VerifyProductDelegationParent(
                 held.grant, now,
                 [AgentBinding(ctx) EXCEPT
                    !.rootRequestDigest = held.grant.rootRequestDigest])
            /\ broker' = [parent |-> held.grant, ctx |-> ctx, request |-> request,
                          grant |-> NoGrant]
      BY <2>2 DEF BrokerVerify
    <3> DEFINE ctx == ProductContext(held.ctx)
               b == [AgentBinding(ctx) EXCEPT
                       !.rootRequestDigest = held.grant.rootRequestDigest]
    <3>2. b.ctx = ctx /\ b.rootOperationID = RootOperation /\ b.ownerID = Owner
      BY DEF AgentBinding
    <3>3. held.grant.entryRoute = <<"ms">>
      BY <2>2 DEF BrokerVerify, GrantInv, HeldInv
    <3>4. TargetMatchesChild(request.targetKind, request.childOperationID)
      BY <3>1 DEF ValidateProductDelegationExchangeRequest
    <3>5. Verified(held.grant, ctx, request)
      <4>1. VerifyProductDelegationParent(held.grant, now, b)
        BY <3>1
      <4> HIDE DEF ctx, b
      <4> QED
        BY <3>2, <3>3, <3>4, <4>1, VerifiedByBroker
    <3>6. /\ broker'.parent = held.grant /\ broker'.ctx = ctx
          /\ broker'.request = request /\ broker'.grant = NoGrant
      BY <3>1
    <3> QED
      BY <3>5, <3>6 DEF BrokerInv
  <2>3. CASE BrokerSign
    <3>1. PICK e, g :
            /\ e = broker
            /\ g = SignProductDelegationFromParent(ZeroCodec, e.parent, e.ctx,
                                                   e.request, now)
            /\ broker' = IF g = NoGrant THEN None ELSE [e EXCEPT !.grant = g]
      BY <2>3 DEF BrokerSign
    <3>2. e \in ExchangeType /\ Verified(e.parent, e.ctx, e.request)
      BY <1>1, <2>3, <3>1 DEF BrokerSign, TypeOK, GrantInv, BrokerInv
    <3>3. /\ e.parent \in GrantType /\ e.ctx \in ContextType /\ e.request \in Request
          /\ now \in Nat \ {0}
      BY <1>2, <3>2 DEF ExchangeType, GrantInv, ClockInv
    <3>4. CASE g = NoGrant
      BY <3>1, <3>4 DEF BrokerInv
    <3>5. CASE g # NoGrant
      <4>1. /\ InTime(e.ctx, now)
            /\ e.request.scopes \subseteq e.parent.scopes
            /\ g = SignedChild(e.parent, e.ctx, e.request, now)
        BY <3>1, <3>2, <3>3, <3>5, ChildOfVerified
      <4>2. PICK f : f = broker' /\ f.parent = e.parent /\ f.ctx = e.ctx
                       /\ f.request = e.request /\ f.grant = g
        BY <3>1, <3>2, <3>5 DEF ExchangeType
      <4>3. Signed(f)
        BY <3>3, <4>1, <4>2 DEF Signed
      <4>4. Signed(f)'
        BY <1>2, <4>3, SignedStays
      <4> QED
        BY <3>2, <4>2, <4>4 DEF BrokerInv
    <3> QED
      BY <3>4, <3>5
  <2>4. CASE TakeChild
    BY <2>4 DEF TakeChild, BrokerInv
  <2> QED
    BY <2>1, <2>2, <2>3, <2>4 DEF Next, vars, OfferRoot, AcceptRoot, Rebuild, Tick
<1>7. ChildInv'
  <2>1. CASE UNCHANGED child
    <3>1. PICK e : e = child /\ e = child'
      BY <2>1
    <3> QED
      BY <1>2, <3>1, SignedStays DEF GrantInv, ChildInv
  <2>2. CASE TakeChild /\ child' # child
    <3>1. PICK e : e = broker /\ e = child'
      BY <2>2 DEF TakeChild
    <3>2. Verified(e.parent, e.ctx, e.request) /\ Signed(e)
      BY <2>2, <3>1 DEF TakeChild, GrantInv, BrokerInv
    <3> QED
      BY <1>2, <3>1, <3>2, SignedStays DEF ChildInv
  <2> QED
    BY <2>1, <2>2 DEF Next, vars, OfferRoot, AcceptRoot, BrokerVerify, BrokerSign,
       Rebuild, Tick
<1> QED
  BY <1>1, <1>3, <1>5, <1>6, <1>7 DEF GrantInv

LEMMA GrantInvariant == Spec => []GrantInv
  BY InitGrantInv, NextGrantInv, PTL DEF Spec

-----------------------------------------------------------------------------
(* Theorems *)

(* No child is signed after the deadline of the call it was exchanged for, *)
(* and a parent's authority ends one delegation TTL after the parent,      *)
(* however late the broker signs (product_delegation.go:80, :159).         *)
THEOREM ChildrenStayWithinTheHorizon == Spec => []DelegationHorizon
<1>1. GrantInv => DelegationHorizon
  <2> SUFFICES ASSUME GrantInv, child # None PROVE DelegationHorizon
    BY DEF DelegationHorizon
  <2>1. PICK t \in 1..now : /\ InTime(child.ctx, t)
                            /\ child.grant = SignedChild(child.parent, child.ctx,
                                                         child.request, t)
    BY DEF GrantInv, ChildInv, Signed
  <2>2. child.ctx.deadline \in Nat /\ child.parent.expiresAt \in Nat /\ t \in Nat
    <3>1. child \in ExchangeType /\ now \in Nat
      BY DEF GrantInv, TypeOK
    <3>2. child.ctx \in ContextType /\ child.parent \in GrantType
      BY <3>1 DEF ExchangeType
    <3> QED
      BY <3>1, <3>2 DEF ContextType, GrantType
  <2>3. child.ctx.deadline <= child.parent.expiresAt
    BY DEF GrantInv, ChildInv, Verified
  <2>4. /\ child.grant.issuedAt = t
        /\ child.grant.expiresAt = t + DefaultProductDelegationTTL
    BY <2>1 DEF SignedChild
  <2>5. t <= child.ctx.deadline
    BY <2>1, <2>2 DEF InTime
  <2> QED
    BY <2>2, <2>3, <2>4, <2>5, TTLAssumption DEF DelegationHorizon
<1> QED
  BY <1>1, GrantInvariant, PTL

(* However often the root is renewed, the Agent acts with the authority it *)
(* first accepted (replay.go:132).                                         *)
THEOREM AuthorityNeverDrifts == Spec => []RenewalKeepsAuthority
<1>1. GrantInv => RenewalKeepsAuthority
  BY DEF GrantInv, FirstInv
<1> QED
  BY <1>1, GrantInvariant, PTL

(* No root is run at Product; no child enters the Agent or is exchanged    *)
(* again (grant.go:59, :299).                                              *)
THEOREM KindsStayApart == Spec => []KindsNotInterchangeable
<1>1. GrantInv => KindsNotInterchangeable
  <2> SUFFICES ASSUME GrantInv PROVE KindsNotInterchangeable
    OBVIOUS
  <2>1. held # None => held.grant.grantKind = "root"
    BY DEF GrantInv, HeldInv, IsRoot
  <2>2. ASSUME child # None PROVE child.grant.grantKind = "product-child"
    <3>1. PICK t \in 1..now :
            child.grant = SignedChild(child.parent, child.ctx, child.request, t)
      BY <2>2 DEF GrantInv, ChildInv, Signed
    <3> QED
      BY <3>1 DEF SignedChild
  <2>3. ASSUME NEW g, NEW t, NEW b, g.grantKind = "root"
        PROVE  ~VerifyProductDelegationGrant(g, t, b)
    BY <2>3 DEF VerifyProductDelegationGrant
  <2>4. ASSUME NEW g, NEW t, NEW b, g.grantKind = "product-child"
        PROVE  /\ ~VerifyAgentRootBinding(g, t, b)
               /\ ~VerifyProductDelegationParent(g, t, b)
    BY <2>4 DEF VerifyAgentRootBinding, VerifyProductDelegationParent,
       VerifyRootBinding, IsRoot
  <2> QED
    BY <2>1, <2>2, <2>3, <2>4, Zenon DEF KindsNotInterchangeable, ProductAccepts
<1> QED
  BY <1>1, GrantInvariant, PTL

(* Product runs under a child only what the broker was asked for, under    *)
(* scopes the parent had, for the account as it was then                   *)
(* (product_delegation.go:62, :163).                                       *)
THEOREM ProductRunsTheExchange == Spec => []ProductRunsWhatWasExchanged
<1>1. GrantInv => ProductRunsWhatWasExchanged
  <2> SUFFICES ASSUME GrantInv, child # None, NEW request \in Request,
                      ProductAccepts(child.grant, child.ctx, request)
               PROVE  /\ request = [child.request EXCEPT !.scopes = request.scopes]
                      /\ request.scopes \subseteq child.request.scopes
                      /\ request.scopes \subseteq child.parent.scopes
                      /\ child.parent.accountGeneration = generation
    BY DEF ProductRunsWhatWasExchanged
  <2>1. PICK t \in 1..now : /\ child.request.scopes \subseteq child.parent.scopes
                            /\ child.grant = SignedChild(child.parent, child.ctx,
                                                         child.request, t)
    BY DEF GrantInv, ChildInv, Signed
  <2>2. child.request \in Request
    BY DEF GrantInv, TypeOK, ExchangeType
  <2>3. /\ child.grant.productTargetKind = child.request.targetKind
        /\ child.grant.childOperationID = child.request.childOperationID
        /\ child.grant.descriptor = child.request.descriptor
        /\ child.grant.rootRequestDigest = child.request.rootRequestDigest
        /\ child.grant.scopes = child.request.scopes
        /\ child.grant.accountGeneration = child.parent.accountGeneration
    BY <2>1 DEF SignedChild
  <2>4. /\ child.grant.productTargetKind = request.targetKind
        /\ child.grant.childOperationID = request.childOperationID
        /\ child.grant.descriptor = request.descriptor
        /\ child.grant.rootRequestDigest = request.rootRequestDigest
        /\ request.scopes \subseteq child.grant.scopes
        /\ child.grant.accountGeneration = generation
    BY DEF ProductAccepts, VerifyProductDelegationGrant, ProductBinding,
       ValidateRootBinding, ValidateAgentGrantDescriptor
  <2>5. request = [child.request EXCEPT !.scopes = request.scopes]
    <3>1. /\ request.targetKind = child.request.targetKind
          /\ request.childOperationID = child.request.childOperationID
          /\ request.descriptor = child.request.descriptor
          /\ request.rootRequestDigest = child.request.rootRequestDigest
      BY <2>3, <2>4
    <3> QED
      BY <2>2, <3>1 DEF Request
  <2> QED
    BY <2>1, <2>3, <2>4, <2>5
<1> QED
  BY <1>1, GrantInvariant, PTL

(* A verified parent yields a child exactly while the call's deadline is   *)
(* ahead by at most a delegation TTL (product_delegation.go:159).          *)
THEOREM SigningWaitsForTheDeadline == Spec => []BrokerSignsNearTheDeadline
<1>1. GrantInv => BrokerSignsNearTheDeadline
  <2> SUFFICES ASSUME GrantInv, broker # None PROVE BrokerSignsNearTheDeadline
    BY DEF BrokerSignsNearTheDeadline
  <2>1. broker \in ExchangeType /\ now \in Nat \ {0}
    BY DEF GrantInv, TypeOK, ClockInv
  <2>2. /\ broker.parent \in GrantType /\ broker.ctx \in ContextType
        /\ broker.request \in Request
    BY <2>1 DEF ExchangeType
  <2>3. Verified(broker.parent, broker.ctx, broker.request)
    BY DEF GrantInv, BrokerInv
  <2> QED
    BY <2>1, <2>2, <2>3, ChildOfVerified DEF BrokerSignsNearTheDeadline, InTime
<1> QED
  BY <1>1, GrantInvariant, PTL

(* Until it expires or the account is rebuilt, Product accepts the child   *)
(* for the request it was exchanged for, from the call it was exchanged in *)
(* (product_delegation.go:163, grant.go:510).                              *)
THEOREM ChildStaysUsable == Spec => []ChildIsUsableUntilExpiry
<1>1. GrantInv => ChildIsUsableUntilExpiry
  <2> SUFFICES ASSUME GrantInv, child # None, now < child.grant.expiresAt,
                      child.parent.accountGeneration = generation
               PROVE  ProductAccepts(child.grant, child.ctx, child.request)
    BY DEF ChildIsUsableUntilExpiry
  <2>1. PICK parent, ctx, request, g :
          parent = child.parent /\ ctx = child.ctx /\ request = child.request
            /\ g = child.grant
    OBVIOUS
  <2>2. child \in ExchangeType /\ now \in Nat
    BY DEF GrantInv, TypeOK
  <2>3. parent \in GrantType /\ ctx \in ContextType /\ request \in Request
    BY <2>1, <2>2 DEF ExchangeType
  <2>4. Verified(parent, ctx, request)
    BY <2>1 DEF GrantInv, ChildInv
  <2>5. PICK t \in 1..now : /\ InTime(ctx, t)
                            /\ request.scopes \subseteq parent.scopes
                            /\ g = SignedChild(parent, ctx, request, t)
    BY <2>1 DEF GrantInv, ChildInv, Signed
  <2>6. t \in Nat \ {0} /\ t <= now
    BY <2>2
  <2>7. ValidateGrantClaims(g, DefaultGrantTTL)
    BY <2>3, <2>4, <2>5, <2>6, ChildClaimsValid
  <2>8. /\ g.issuedAt = t /\ g.expiresAt = t + DefaultProductDelegationTTL
        /\ g.entryDeadline = ctx.deadline
        /\ g.grantKind = "product-child" /\ g.productTargetKind = request.targetKind
        /\ g.childOperationID = request.childOperationID
    BY <2>5 DEF SignedChild
  <2>9. /\ g.chainID = parent.chainID /\ g.rootOperationID = parent.rootOperationID
        /\ g.ownerID = parent.ownerID
        /\ g.accountGeneration = parent.accountGeneration
        /\ g.scopes = request.scopes /\ g.descriptor = request.descriptor
        /\ g.rootRequestDigest = request.rootRequestDigest
    BY <2>5 DEF SignedChild
  <2>10. /\ g.entryRoute = <<"ms">> /\ g.entryHop = 1
         /\ g.maxHop = parent.maxHop /\ g.maxRouteLength = parent.maxRouteLength
    BY <2>5 DEF SignedChild
  <2>11. VerifySigned(ZeroCodec, g, now)
    BY <2>1, <2>2, <2>6, <2>7, <2>8, ZeroCodecNormal DEF VerifySigned
  <2>12. ctx.deadline <= g.entryDeadline /\ ctx.deadline <= g.expiresAt
    BY <2>3, <2>5, <2>6, <2>8, TTLAssumption DEF InTime, ContextType
  <2>13. AtBoundary(g, ctx, "product")
    BY <2>4, <2>10 DEF AtBoundary, Verified
  <2>14. /\ RootOperation # Missing
         /\ generation > 0
         /\ request.rootRequestDigest \in RootDigest
         /\ request.scopes # {}
         /\ request.descriptor \in Descriptor
    BY <2>3, IdentifierAssumption, OperationAssumption DEF Request, GrantInv, TypeOK
  <2> DEFINE b == ProductBinding(ctx, request)
  <2>15. /\ b.ctx = ctx /\ b.rootOperationID = RootOperation /\ b.ownerID = Owner
         /\ b.accountGeneration = generation
         /\ b.rootRequestDigest = request.rootRequestDigest
         /\ b.requiredScopes = request.scopes /\ b.descriptor = request.descriptor
         /\ b.targetKind = request.targetKind
         /\ b.childOperationID = request.childOperationID
    BY DEF ProductBinding
  <2>16. parent.accountGeneration = generation
    BY <2>1
  <2> HIDE DEF b
  <2>17. ValidateRootBinding(g, b, "product")
    BY <2>4, <2>9, <2>10, <2>12, <2>13, <2>14, <2>15, <2>16
    DEF ValidateRootBinding, Verified
  <2>18. g.expiresAt - g.issuedAt <= DefaultProductDelegationTTL
    BY <2>6, <2>8, TTLAssumption
  <2>19. VerifyProductDelegationGrant(g, now, b)
    BY <2>4, <2>8, <2>9, <2>11, <2>14, <2>15, <2>17, <2>18
    DEF VerifyProductDelegationGrant, Verified, ValidateAgentGrantDescriptor
  <2> QED
    BY <2>1, <2>19 DEF ProductAccepts, b
<1> QED
  BY <1>1, GrantInvariant, PTL
=============================================================================

----------------------- MODULE ProductAdmissionProofs -----------------------
(* Proofs about ProductAdmission, for every value of its constants that    *)
(* meets the assumptions.                                                  *)
EXTENDS ProductAdmission, OperatorProofs

Assumptions ==
  /\ DigestAssumption /\ OwnerAssumption
  /\ BusinessAssumption /\ DeadlineAssumption
  /\ CatalogAssumption /\ MaxTimeAssumption

-----------------------------------------------------------------------------
(* The inductive invariant: what the children say that the broker signed,  *)
(* and what the requests carry that the Agent sent.                        *)

ExchangedFor(c) ==
  LET g == c.grant  b == c.business IN
  /\ c.root \in Uuid /\ b \in Business
  /\ TargetMatchesChild(TargetKindOf(b.operation), c.childID)
  /\ ValidateGrantClaims(g, DefaultProductDelegationTTL)
  /\ g.grantKind = "product-child"
  /\ g.productTargetKind = TargetKindOf(b.operation)
  /\ g.childOperationID = c.childID
  /\ g.chainID = c.root /\ g.rootOperationID = c.root /\ g.ownerID = Owner
  /\ g.scopes = {ScopeOf(b.operation)} /\ g.scopes \subseteq RootScopes
  /\ g.descriptor.operation = b.operation
  /\ g.rootRequestDigest
       = ComputeRootRequestDigest(g.descriptor, b.revision, b.input, <<>>)
  /\ g.issuedAt \in Nat /\ g.issuedAt <= now
  /\ g.expiresAt = g.issuedAt + DefaultProductDelegationTTL
  /\ g.entryDeadline = Deadline
  /\ g.entryRoute = <<"ms">> /\ g.entryHop = 1
  /\ g.maxHop = MaxCallHop /\ g.maxRouteLength = MaxRouteLength

(* A nested request as the Agent writes it for c from catalog n.           *)
NestedAsSent(c, n) ==
  LET b == c.business IN
  [operationID |-> c.childID,
   operation |-> b.operation,
   revision |-> b.revision,
   json |-> SerializeBusinessInput(b.input),
   requestDigest |->
     ComputeRequestDigest(DescriptorIn(n, b.operation), b.revision, b.input,
                          <<>>, c.grant),
   permission |->
     [ownerID |-> Owner, accountGeneration |-> c.grant.accountGeneration,
      scopes |-> c.grant.scopes, grant |-> c.grant,
      rootRequestDigest |-> c.grant.rootRequestDigest],
   ctx |-> AppendCallNode(AgentContext(c.root), "agent")]

Clock == now \in Nat \ {0} /\ generation \in 1..MaxAccountGeneration
ChildrenAreExchanged == \A c \in children : ExchangedFor(c)
RequestsAreNested ==
  \A req \in sent : \E c \in children : \E n : req = NestedAsSent(c, n)

NestedInv == Clock /\ ChildrenAreExchanged /\ RequestsAreNested

-----------------------------------------------------------------------------
(* Signing *)

(* The context the Agent holds, and the one Product accepts.               *)
LEMMA RootContexts ==
  ASSUME Assumptions, NEW root \in Uuid
  PROVE  LET agent == AgentContext(root)
             product == ValidateAndAdvanceProductCallContext(agent)
         IN /\ agent \in Contexts(Uuid \cup {Missing}, Node)
            /\ ValidateStrictCallContext(agent)
            /\ agent.rootOperationID = root
            /\ AppendCallNode(agent, "agent") = agent
            /\ product # NoContext
            /\ ValidateStrictCallContext(product)
            /\ product.chainID = root /\ product.rootOperationID = root
            /\ product.deadline = Deadline
            /\ product.route = <<"ms", "agent", "product">> /\ product.hop = 3
            /\ RouteLength(product.route) <= MaxRouteLength
<1> DEFINE begun == AppendCallNode(NewCallContext(root, root, Deadline), "ms")
           agent == ValidateAndAdvanceAgentCallContext(begun)
           product == ValidateAndAdvanceProductCallContext(agent)
<1>1. AgentContext(root) = agent
  BY DEF AgentContext
<1>2. /\ begun \in Contexts(Uuid \cup {Missing}, Node)
      /\ ValidateStrictCallContext(begun)
      /\ begun.chainID = root /\ begun.rootOperationID = root
      /\ begun.deadline = Deadline
      /\ begun.route = <<"ms">> /\ begun.hop = 1
  <2>1. Deadline \in Int /\ Deadline > 0
    BY DEF Assumptions, DeadlineAssumption
  <2>2. /\ ValidateStrictCallContext(begun)
        /\ begun.chainID = root /\ begun.rootOperationID = root
        /\ begun.deadline = Deadline /\ begun.hop = 1
    BY <2>1, BegunContext
  <2>3. begun.route = <<"ms">>
    BY <2>1, BegunContext
  <2>4. begun \in Contexts(Uuid \cup {Missing}, Node)
    BY <2>1, BegunContext
  <2> QED
    BY <2>2, <2>3, <2>4
<1> HIDE DEF begun
<1>3. /\ agent \in Contexts(Uuid \cup {Missing}, Node)
      /\ ValidateStrictCallContext(agent)
      /\ agent.chainID = root /\ agent.rootOperationID = root
      /\ agent.deadline = Deadline
      /\ agent.route = <<"ms", "agent">> /\ agent.hop = 2
  BY <1>2, EntryContextIsTaken
<1> HIDE DEF agent
<1>4. /\ AppendCallNode(agent, "agent") = agent
      /\ product # NoContext /\ ValidateStrictCallContext(product)
      /\ product.chainID = root /\ product.rootOperationID = root
      /\ product.deadline = Deadline
      /\ product.route = <<"ms", "agent", "product">> /\ product.hop = 3
      /\ RouteLength(product.route) <= MaxRouteLength
  BY <1>3, AgentContextIsTaken
<1> QED
  BY <1>1, <1>3, <1>4

(* The root grant of a call, when it could be signed.                      *)
LEMMA RootSigned ==
  ASSUME NEW root, ValidateGrantClaims(RootGrant(root), DefaultGrantTTL)
  PROVE  LET p == RootGrant(root) IN
         /\ DOMAIN p = Claim
         /\ p.chainID = root /\ p.rootOperationID = root /\ p.ownerID = Owner
         /\ p.scopes = RootScopes /\ p.maxHop = MaxCallHop
         /\ p.maxRouteLength = MaxRouteLength
<1> DEFINE p == RootGrant(root)
<1>1. p = Sign(ZeroCodec,
               ClaimsToSign(root, root, Owner, 1, RootScopes, RootDescriptor,
                          RootBusiness, MaxCallHop), 1)
  BY DEF RootGrant, ClaimsToSign
<1>2. p # NoGrant
  <2>1. p.chainID \in Uuid
    BY DEF ValidateGrantClaims
  <2> QED
    BY <2>1, IdentifierAssumption DEF NoGrant
<1> HIDE DEF p
<1> QED
  BY <1>1, <1>2, SignedRoot DEF p

LEMMA ShortTTL ==
  Normalized(ShortCodec(ShortCodec(ZeroCodec))).maxTTL = DefaultProductDelegationTTL
<1>1. ShortCodec(ZeroCodec) = [maxTTL |-> DefaultProductDelegationTTL, clockSkew |-> 0]
  BY TTLAssumption DEF ShortCodec, ZeroCodec, Normalized
<1> DEFINE short == [maxTTL |-> DefaultProductDelegationTTL, clockSkew |-> 0]
<1>2. Normalized(short) = short
  BY TTLAssumption DEF Normalized
<1>3. ShortCodec(short) = short
  BY <1>2 DEF ShortCodec
<1> QED
  BY <1>1, <1>2, <1>3

(* A child, when it could be signed.                                       *)
LEMMA SignedChild ==
  ASSUME NEW p, DOMAIN p = Claim, NEW ctx, NEW request, NEW t \in Nat \ {0},
         ctx.route[1] = "ms", ctx.deadline \in Nat \ {0},
         p.maxRouteLength = MaxRouteLength,
         SignProductDelegationFromParent(ZeroCodec, p, ctx, request, t) # NoGrant
  PROVE  LET g == SignProductDelegationFromParent(ZeroCodec, p, ctx, request, t)
         IN /\ MayDerive(p, ctx, request)
            /\ ValidateGrantClaims(g, DefaultProductDelegationTTL)
            /\ g.grantKind = "product-child"
            /\ g.productTargetKind = request.targetKind
            /\ g.childOperationID = request.childOperationID
            /\ g.chainID = p.chainID /\ g.rootOperationID = p.rootOperationID
            /\ g.ownerID = p.ownerID /\ g.scopes = request.scopes
            /\ g.descriptor = request.descriptor
            /\ g.rootRequestDigest = request.rootRequestDigest
            /\ g.issuedAt = t /\ g.expiresAt = t + DefaultProductDelegationTTL
            /\ g.entryDeadline = ctx.deadline
            /\ g.entryRoute = <<"ms">> /\ g.entryHop = 1
            /\ g.maxHop = p.maxHop /\ g.maxRouteLength = MaxRouteLength
<1> DEFINE codec == ShortCodec(ShortCodec(ZeroCodec))
           route == <<"ms">>
           claims == [ChildClaims(p, ctx, request) EXCEPT !.grantKind = "product-child"]
           g == SignProductDelegationFromParent(ZeroCodec, p, ctx, request, t)
<1> HIDE DEF route
<1>1. MayDerive(p, ctx, request) /\ g = Sign(codec, claims, t)
  BY DEF SignProductDelegationFromParent, SignProductDelegationGrant
<1>2. ChildClaims(p, ctx, request)
        = [p EXCEPT
             !.childOperationID = request.childOperationID,
             !.grantKind = "product-child",
             !.productTargetKind = request.targetKind,
             !.entryRoute = route, !.entryHop = 1,
             !.scopes = request.scopes, !.descriptor = request.descriptor,
             !.rootRequestDigest = request.rootRequestDigest,
             !.issuedAt = 0, !.expiresAt = 0, !.entryDeadline = ctx.deadline]
  BY DEF ChildClaims, route
<1>3. /\ DOMAIN claims = Claim
      /\ claims.chainID = p.chainID /\ claims.rootOperationID = p.rootOperationID
      /\ claims.ownerID = p.ownerID /\ claims.maxHop = p.maxHop
      /\ claims.maxRouteLength = MaxRouteLength
      /\ claims.childOperationID = request.childOperationID
      /\ claims.grantKind = "product-child"
      /\ claims.productTargetKind = request.targetKind
  BY <1>2, ClaimNames
<1>4. /\ claims.entryRoute = route /\ claims.entryHop = 1
      /\ claims.scopes = request.scopes /\ claims.descriptor = request.descriptor
      /\ claims.rootRequestDigest = request.rootRequestDigest
      /\ claims.issuedAt = 0 /\ claims.expiresAt = 0
      /\ claims.entryDeadline = ctx.deadline
  BY <1>2, ClaimNames
<1>5. g # NoGrant
  OBVIOUS
<1> HIDE DEF claims, codec
<1>6. /\ OrElse(claims.issuedAt, t) = t
      /\ \A x : OrElse(claims.expiresAt, x) = x
      /\ \A x : OrElse(claims.entryDeadline, x) = ctx.deadline
      /\ \A x : OrElse(claims.maxRouteLength, x) = MaxRouteLength
  BY <1>3, <1>4 DEF OrElse, MaxRouteLength
<1>7. Normalized(codec).maxTTL = DefaultProductDelegationTTL
  BY ShortTTL DEF codec
<1> HIDE DEF g
<1>8. /\ ValidateGrantClaims(g, DefaultProductDelegationTTL)
      /\ \A f \in Claim \ SignerFills : g[f] = claims[f]
      /\ g.grantKind = "product-child"
      /\ g.issuedAt = t /\ g.expiresAt = t + DefaultProductDelegationTTL
      /\ g.entryDeadline = ctx.deadline /\ g.maxRouteLength = MaxRouteLength
  BY <1>1, <1>3, <1>5, <1>6, <1>7, SignKeeps
<1>9. /\ g.chainID = p.chainID /\ g.rootOperationID = p.rootOperationID
      /\ g.ownerID = p.ownerID /\ g.maxHop = p.maxHop
      /\ g.childOperationID = request.childOperationID
      /\ g.productTargetKind = request.targetKind
      /\ g.entryRoute = route /\ g.entryHop = 1
      /\ g.scopes = request.scopes /\ g.descriptor = request.descriptor
      /\ g.rootRequestDigest = request.rootRequestDigest
  BY <1>3, <1>4, <1>8, ClaimNames DEF SignerFills
<1> QED
  BY <1>1, <1>8, <1>9 DEF g, route

LEMMA ExchangeExchanges ==
  ASSUME Assumptions, NestedInv, Exchange
  PROVE  \A c \in children' : ExchangedFor(c)
<1>1. PICK root \in Uuid, childID \in Uuid \cup {Missing}, b \in Business,
           digest \in {Nil, RootBusiness} :
        LET ctx == ValidateAndAdvanceProductCallContext(AgentContext(root))
            grant ==
              SignProductDelegationFromParent(ZeroCodec, RootGrant(root), ctx,
                                              ExchangeRequest(childID, b), now)
        IN /\ grant # NoGrant
           /\ children' = children \cup
                {[grant |-> grant, childID |-> childID, business |-> b,
                  root |-> root]}
  BY Zenon DEF Exchange
<1> DEFINE ctx == ValidateAndAdvanceProductCallContext(AgentContext(root))
           d == DescriptorIn(catalog.broker, b.operation)
           digested == Digest(catalog.broker, b, <<>>)
           request == ExchangeRequest(childID, b)
           p == RootGrant(root)
           g == SignProductDelegationFromParent(ZeroCodec, p, ctx, request, now)
           c == [grant |-> g, childID |-> childID, business |-> b, root |-> root]
<1>2. g # NoGrant /\ children' = children \cup {c}
  BY <1>1
<1>3. /\ d.operation = b.operation
      /\ digested = ComputeRootRequestDigest(d, b.revision, b.input, <<>>)
  BY DEF Digest, DescriptorIn
<1>4. /\ request.targetKind = TargetKindOf(b.operation)
      /\ request.childOperationID = childID
      /\ request.scopes = {ScopeOf(b.operation)}
      /\ request.descriptor = d /\ request.rootRequestDigest = digested
  BY DEF ExchangeRequest
<1> HIDE DEF d, digested
<1> HIDE DEF request
<1>5. MayDerive(p, ctx, request)
  BY <1>2 DEF SignProductDelegationFromParent
<1>6. /\ DOMAIN p = Claim
      /\ p.chainID = root /\ p.rootOperationID = root /\ p.ownerID = Owner
      /\ p.scopes = RootScopes /\ p.maxHop = MaxCallHop
      /\ p.maxRouteLength = MaxRouteLength
  BY <1>5, RootSigned DEF MayDerive
<1>7. ctx.route[1] = "ms" /\ ctx.deadline = Deadline /\ Deadline \in Nat \ {0}
  <2>1. ctx.route = <<"ms", "agent", "product">> /\ ctx.deadline = Deadline
    BY RootContexts
  <2> QED
    BY <2>1 DEF Assumptions, DeadlineAssumption
<1>8. now \in Nat \ {0}
  BY DEF NestedInv, Clock
<1> HIDE DEF p, ctx
<1>9. /\ ValidateGrantClaims(g, DefaultProductDelegationTTL)
      /\ g.grantKind = "product-child"
      /\ g.productTargetKind = request.targetKind
      /\ g.childOperationID = request.childOperationID
      /\ g.chainID = p.chainID /\ g.rootOperationID = p.rootOperationID
      /\ g.ownerID = p.ownerID /\ g.scopes = request.scopes
      /\ g.descriptor = request.descriptor
      /\ g.rootRequestDigest = request.rootRequestDigest
      /\ g.issuedAt = now /\ g.expiresAt = now + DefaultProductDelegationTTL
      /\ g.entryDeadline = ctx.deadline
      /\ g.entryRoute = <<"ms">> /\ g.entryHop = 1
      /\ g.maxHop = p.maxHop /\ g.maxRouteLength = MaxRouteLength
  BY <1>2, <1>6, <1>7, <1>8, SignedChild
<1>10. /\ TargetMatchesChild(request.targetKind, request.childOperationID)
       /\ request.scopes \subseteq p.scopes
  BY <1>5 DEF MayDerive
<1> HIDE DEF g
<1>11. ExchangedFor(c)
  BY <1>3, <1>4, <1>6, <1>7, <1>8, <1>9, <1>10 DEF ExchangedFor
<1>12. \A x \in children : ExchangedFor(x)
  BY DEF NestedInv, ChildrenAreExchanged
<1> QED
  BY <1>2, <1>11, <1>12

-----------------------------------------------------------------------------
(* The invariant is inductive. *)

LEMMA InitInv ==
  ASSUME Init
  PROVE  NestedInv
<1>1. 1 \in 1..MaxAccountGeneration
  BY AccountAssumption
<1> QED
  BY <1>1 DEF Init, NestedInv, Clock, ChildrenAreExchanged, RequestsAreNested

(* What was exchanged stays exchanged, as the clock goes on.               *)
LEMMA ExchangedStays ==
  ASSUME NestedInv, children' = children, now' \in Nat, now <= now'
  PROVE  ChildrenAreExchanged'
<1>1. now \in Nat
  BY DEF NestedInv, Clock
<1>2. ASSUME NEW c \in children
      PROVE  ExchangedFor(c)'
  <2>1. ExchangedFor(c)
    BY DEF NestedInv, ChildrenAreExchanged
  <2>2. c.grant.issuedAt <= now'
    BY <1>1, <2>1 DEF ExchangedFor
  <2> QED
    BY <2>1, <2>2 DEF ExchangedFor
<1> QED
  BY <1>2 DEF ChildrenAreExchanged

LEMMA NestedStays ==
  ASSUME NestedInv, sent' = sent, children \subseteq children'
  PROVE  RequestsAreNested'
<1>1. \A req \in sent : \E c \in children' : \E n : req = NestedAsSent(c, n)
  BY DEF NestedInv, RequestsAreNested
<1> QED
  BY <1>1 DEF RequestsAreNested, NestedAsSent

LEMMA NextInv ==
  ASSUME Assumptions, NestedInv, [Next]_vars
  PROVE  NestedInv'
<1>1. now \in Nat \ {0} /\ now <= now /\ generation \in 1..MaxAccountGeneration
  BY DEF NestedInv, Clock
<1>2. CASE Exchange
  <2>1. /\ \A c \in children' : ExchangedFor(c)
        /\ now' = now /\ generation' = generation /\ sent' = sent
        /\ children \subseteq children'
    <3>1. \E c : children' = children \cup {c}
      BY <1>2, Zenon DEF Exchange
    <3> QED
      BY <1>2, <3>1, ExchangeExchanges DEF Exchange
  <2>2. ChildrenAreExchanged'
    BY <2>1 DEF ChildrenAreExchanged, ExchangedFor
  <2> QED
    BY <1>1, <2>1, <2>2, NestedStays DEF NestedInv, Clock
<1>3. CASE SendNested
  <2>1. /\ now' = now /\ generation' = generation /\ children' = children
        /\ \E c \in children : sent' = sent \cup {RequestOf(c)}
    BY <1>3 DEF SendNested
  <2>2. PICK c \in children : sent' = sent \cup {NestedAsSent(c, catalog.agent)}
    BY <2>1 DEF RequestOf, NestedAsSent
  <2>3. \A req \in sent' : \E x \in children : \E n : req = NestedAsSent(x, n)
    BY <2>2 DEF NestedInv, RequestsAreNested
  <2>4. RequestsAreNested'
    BY <2>1, <2>3 DEF RequestsAreNested, NestedAsSent
  <2> QED
    BY <1>1, <2>1, <2>4, ExchangedStays DEF NestedInv, Clock
<1>4. CASE AnswerNested \/ Tick \/ ChangeCatalog \/ RebuildAccount \/ UNCHANGED vars
  <2>1. /\ children' = children /\ sent' = sent
        /\ now' \in Nat \ {0} /\ now <= now'
        /\ generation' \in 1..MaxAccountGeneration
    BY <1>1, <1>4, AccountAssumption
    DEF AnswerNested, Tick, ChangeCatalog, RebuildAccount, vars
  <2> QED
    BY <2>1, ExchangedStays, NestedStays DEF NestedInv, Clock
<1> QED
  BY <1>2, <1>3, <1>4 DEF Next

(* The invariant holds in every reachable state.                           *)
LEMMA AlwaysInv ==
  ASSUME Assumptions
  PROVE  Spec => []NestedInv
<1>1. Init => NestedInv
  BY InitInv
<1>2. NestedInv /\ [Next]_vars => NestedInv'
  BY NextInv
<1> QED
  BY <1>1, <1>2, PTL DEF Spec

(* What types there are beyond the invariant.                              *)
TypeInv ==
  /\ now \in 1..MaxTime
  /\ catalog \in [broker: Catalog, agent: Catalog, product: Catalog]
  /\ answer # Nil => CanonicalJSONEqual(answer.json)

LEMMA AdmitsCanonical ==
  ASSUME NEW req, Admits(req)
  PROVE  CanonicalJSONEqual(req.json)
<1>1. CanonicalizeJSON(req.json) # NoText /\ CanonicalizeJSON(req.json) = req.json
  BY DEF Admits, ValidateQueryRequest, ValidateOperationRequest
<1> QED
  BY <1>1 DEF CanonicalJSONEqual, CanonicalizeJSON

LEMMA NextTypeInv ==
  ASSUME Assumptions, TypeInv, [Next]_vars
  PROVE  TypeInv'
<1>1. /\ now \in 1..MaxTime /\ MaxTime \in Nat
      /\ catalog \in [broker: Catalog, agent: Catalog, product: Catalog]
  BY DEF TypeInv, Assumptions, MaxTimeAssumption
<1>2. CASE Exchange \/ SendNested \/ RebuildAccount
  BY <1>1, <1>2 DEF Exchange, SendNested, RebuildAccount, TypeInv
<1>3. CASE AnswerNested
  <2>1. PICK req \in Arriving(sent, MixedParts) :
          answer' = IF Admits(req) THEN req ELSE Nil
    BY <1>3 DEF AnswerNested
  <2>2. answer' # Nil => CanonicalJSONEqual(answer'.json)
    BY <2>1, AdmitsCanonical
  <2> QED
    BY <1>1, <1>3, <2>2 DEF AnswerNested, TypeInv, CanonicalJSONEqual, CanonicalizeJSON
<1>4. CASE Tick
  BY <1>1, <1>4 DEF Tick, TypeInv
<1>5. CASE ChangeCatalog
  <2>1. catalog' \in [broker: Catalog, agent: Catalog, product: Catalog]
    BY <1>1, <1>5 DEF ChangeCatalog
  <2> QED
    BY <1>1, <1>5, <2>1 DEF ChangeCatalog, TypeInv
<1>6. CASE UNCHANGED vars
  BY <1>6 DEF vars, TypeInv, CanonicalJSONEqual, CanonicalizeJSON
<1> QED
  BY <1>2, <1>3, <1>4, <1>5, <1>6 DEF Next

(* Every variable has its type, and what Product took is canonical         *)
(* (product_delegation.go:107, validation.go:120).                         *)
THEOREM TypeCorrect ==
  ASSUME Assumptions
  PROVE  Spec => []TypeOK
<1>1. Init => TypeInv
  BY DEF Init, TypeInv, Assumptions, CatalogAssumption, MaxTimeAssumption
<1>2. TypeInv /\ [Next]_vars => TypeInv'
  BY NextTypeInv
<1>3. NestedInv /\ TypeInv => TypeOK
  <2> SUFFICES ASSUME NestedInv, TypeInv
               PROVE  TypeOK
    OBVIOUS
  <2>1. \A c \in children : ExchangedFor(c)
    BY DEF NestedInv, ChildrenAreExchanged
  <2>2. \A c \in children :
          /\ c.grant.grantKind = "product-child"
          /\ TargetMatchesChild(TargetKindOf(c.business.operation), c.childID)
          /\ c.business \in Business /\ c.root \in Uuid
    BY <2>1 DEF ExchangedFor
  <2> QED
    BY <2>2 DEF NestedInv, Clock, TypeInv, TypeOK
<1> QED
  BY <1>1, <1>2, <1>3, AlwaysInv, PTL DEF Spec

(* No child is for more than the scope of its own operation, and the scope *)
(* that opens the broker stays with the parent (product_delegation.go:68). *)
THEOREM BrokerScopeIsKept ==
  ASSUME Assumptions
  PROVE  Spec => []BrokerScopeStays
<1>1. ASSUME NestedInv
      PROVE  BrokerScopeStays
  <2>1. \A c \in children : ExchangedFor(c)
    BY <1>1 DEF NestedInv, ChildrenAreExchanged
  <2> QED
    BY <2>1 DEF BrokerScopeStays, ExchangedFor, Assumptions, BusinessAssumption
<1> QED
  BY <1>1, AlwaysInv, PTL

-----------------------------------------------------------------------------
(* Product's answers *)

LEMMA NestedFields ==
  ASSUME Assumptions, NestedInv, NEW req \in sent
  PROVE  /\ DOMAIN req = RequestFields
         /\ DOMAIN req.permission = PermissionFields
         /\ req.ctx \in Contexts(Uuid \cup {Missing}, Node)
         /\ \E c \in children : req.permission.grant = c.grant
<1>1a. PICK c \in children : \E n : req = NestedAsSent(c, n)
  BY DEF NestedInv, RequestsAreNested
<1>1. PICK n : req = NestedAsSent(c, n)
  BY <1>1a
<1>2. c.root \in Uuid
  BY DEF NestedInv, ChildrenAreExchanged, ExchangedFor
<1>3. AppendCallNode(AgentContext(c.root), "agent")
        \in Contexts(Uuid \cup {Missing}, Node)
  BY <1>2, RootContexts
<1> QED
  BY <1>1, <1>3 DEF NestedAsSent, RequestFields, PermissionFields

(* Product adds itself to the route and leaves the rest.                   *)
LEMMA ProductAdvances ==
  ASSUME NEW Id, NEW N, NEW ctx \in Contexts(Id, N),
         ValidateAndAdvanceProductCallContext(ctx) # NoContext
  PROVE  ValidateAndAdvanceProductCallContext(ctx).rootOperationID
           = ctx.rootOperationID
<1>1. ValidateAndAdvanceProductCallContext(ctx) = Extended(ctx, "product")
  BY ReceivedIsExtended
<1>2. Extended(ctx, "product").rootOperationID = ctx.rootOperationID
  BY DEF Contexts, Extended
<1> QED
  BY <1>1, <1>2

(* What Product has found out when a child verifies.                       *)
LEMMA VerifiedChildTells ==
  ASSUME NEW req, NEW ctx, NEW g,
         VerifyProductDelegationGrant(g, now, ProductBinding(req, ctx))
  PROVE  /\ g.childOperationID = req.operationID
         /\ g.rootOperationID = ctx.rootOperationID
         /\ g.accountGeneration = generation
         /\ g.descriptor = DescriptorIn(catalog.product, req.operation)
         /\ g.rootRequestDigest
              = ComputeRootRequestDigest(DescriptorIn(catalog.product, req.operation),
                                         req.revision, ParseBusinessInput(req.json),
                                         <<>>)
         /\ g.rootRequestDigest \in RootDigest
<1> DEFINE b == ProductBinding(req, ctx)
<1>1. /\ b.childOperationID = req.operationID
      /\ b.rootOperationID = ctx.rootOperationID
      /\ b.accountGeneration = generation
      /\ b.descriptor = DescriptorIn(catalog.product, req.operation)
      /\ b.rootRequestDigest
           = ComputeRootRequestDigest(DescriptorIn(catalog.product, req.operation),
                                      req.revision, ParseBusinessInput(req.json),
                                      <<>>)
  BY DEF ProductBinding
<1>2. /\ g.childOperationID = b.childOperationID
      /\ ValidateRootBinding(g, b, "product")
      /\ ValidateAgentGrantDescriptor(g, b.descriptor)
  BY Zenon DEF VerifyProductDelegationGrant
<1> HIDE DEF b
<1> QED
  BY <1>1, <1>2, Zenon DEF ValidateRootBinding, ValidateAgentGrantDescriptor

LEMMA AdmittedIsExchanged ==
  ASSUME Assumptions, NestedInv, NEW req \in Arriving(sent, MixedParts), Admits(req)
  PROVE  /\ \E c \in children :
              /\ c.grant = req.permission.grant
              /\ c.childID = req.operationID
              /\ c.business.operation = req.operation
              /\ InputOf(c.business.input) = ParseBusinessInput(req.json)
              /\ c.business.revision = req.revision
              /\ c.root = req.ctx.rootOperationID
              /\ c.grant.descriptor = DescriptorIn(catalog.product, req.operation)
              /\ c.grant.accountGeneration = generation
         /\ req.operation \notin Queries =>
              \E r \in sent :
                /\ r.requestDigest = req.requestDigest
                /\ r.permission.grant = req.permission.grant
                /\ r.operationID = req.operationID
<1> DEFINE ctx == ValidateAndAdvanceProductCallContext(req.ctx)
           g == req.permission.grant
           d == DescriptorIn(catalog.product, req.operation)
           input == ParseBusinessInput(req.json)
<1>1. /\ ctx # NoContext /\ input # Nil
      /\ VerifyProductDelegationGrant(g, now, ProductBinding(req, ctx))
      /\ req.operation \notin Queries =>
           VerifyRequestDigest(
             req.requestDigest,
             ComputeRequestDigest(d, req.revision, input, <<>>, g))
  BY DEF Admits
<1>2. \A r \in sent :
        /\ DOMAIN r = RequestFields /\ DOMAIN r.permission = PermissionFields
        /\ r.ctx \in Contexts(Uuid \cup {Missing}, Node)
        /\ \E c \in children : r.permission.grant = c.grant
  BY NestedFields
<1>3. /\ \E r \in sent : g = r.permission.grant
      /\ \E r \in sent : req.requestDigest = r.requestDigest
      /\ \E r \in sent : req.ctx = r.ctx
  BY <1>2, Arrived
<1>4. PICK c \in children : c.grant = g
  BY <1>2, <1>3
<1>5. /\ ExchangedFor(c)
      /\ g.childOperationID = c.childID /\ g.rootOperationID = c.root
      /\ g.descriptor.operation = c.business.operation
      /\ g.rootRequestDigest
           = ComputeRootRequestDigest(g.descriptor, c.business.revision,
                                      c.business.input, <<>>)
  BY <1>4 DEF NestedInv, ChildrenAreExchanged, ExchangedFor
<1>6. /\ g.childOperationID = req.operationID
      /\ g.rootOperationID = ctx.rootOperationID
      /\ g.accountGeneration = generation
      /\ g.descriptor = d
      /\ g.rootRequestDigest
           = ComputeRootRequestDigest(d, req.revision, input, <<>>)
      /\ g.rootRequestDigest # Missing
  BY <1>1, VerifiedChildTells DEF Assumptions, DigestAssumption
<1>7. ctx.rootOperationID = req.ctx.rootOperationID
  BY <1>1, <1>2, <1>3, ProductAdvances
<1>8. d.operation = req.operation
  BY DEF DescriptorIn
<1> HIDE DEF ctx, g, d, input
<1>9. /\ c.business.revision = req.revision
      /\ InputOf(c.business.input) = InputOf(input)
  BY <1>5, <1>6, RootDigestTells
<1>10. InputOf(input) = input
  BY <1>1 DEF InputOf
<1>11. ASSUME req.operation \notin Queries
       PROVE  \E r \in sent :
                /\ r.requestDigest = req.requestDigest
                /\ r.permission.grant = g
                /\ r.operationID = req.operationID
  <2>1. /\ req.requestDigest # Missing
        /\ req.requestDigest
             = ComputeRequestDigest(d, req.revision, input, <<>>, g)
    BY <1>1, <1>11, Zenon DEF VerifyRequestDigest, ValidateRequestDigest,
       ValidateSHA256Digest, ValidateDigest
  <2>2. PICK r \in sent : req.requestDigest = r.requestDigest
    BY <1>3
  <2>3a. PICK x \in children : \E n : r = NestedAsSent(x, n)
    BY DEF NestedInv, RequestsAreNested
  <2>3. PICK n : r = NestedAsSent(x, n)
    BY <2>3a
  <2>4. /\ r.requestDigest
             = ComputeRequestDigest(DescriptorIn(n, x.business.operation),
                                    x.business.revision, x.business.input, <<>>,
                                    x.grant)
        /\ r.operationID = x.childID /\ r.permission.grant = x.grant
    BY <2>3 DEF NestedAsSent
  <2>5. \A e, q, j, l, k :
          ComputeRequestDigest(e, q, j, l, k) # Missing =>
            ComputeRequestDigest(e, q, j, l, k).grant = k
    BY DEF ComputeRequestDigest, computeRequestDigest, Preimage
  <2>6. req.requestDigest.grant = g
    BY <2>1, <2>5
  <2>7. r.requestDigest.grant = x.grant
    BY <2>1, <2>2, <2>4, <2>5
  <2>8. x.grant = g /\ x.grant.childOperationID = x.childID
    BY <2>2, <2>6, <2>7 DEF NestedInv, ChildrenAreExchanged, ExchangedFor
  <2> QED
    BY <1>6, <2>2, <2>4, <2>8
<1> QED
  BY <1>4, <1>5, <1>6, <1>7, <1>8, <1>9, <1>10, <1>11 DEF g, d, input

(* The two together, as the invariant of the answers.                      *)
AnswerInv == TakenAsExchanged /\ DigestGoesWithItsChild

LEMMA AnswersHold ==
  ASSUME Assumptions
  PROVE  Spec => []AnswerInv
<1>1. ASSUME answer = Nil
      PROVE  AnswerInv
  BY <1>1 DEF AnswerInv, TakenAsExchanged, DigestGoesWithItsChild
<1>2. Init => AnswerInv
  BY <1>1 DEF Init
<1>3. NestedInv /\ AnswerInv /\ [Next]_vars => AnswerInv'
  <2> SUFFICES ASSUME NestedInv, AnswerInv, [Next]_vars
               PROVE  AnswerInv'
    OBVIOUS
  <2>1. CASE AnswerNested /\ answer' # Nil
    <3>1. PICK req \in Arriving(sent, MixedParts) :
            answer' = IF Admits(req) THEN req ELSE Nil
      BY <2>1 DEF AnswerNested
    <3>2. Admits(req) /\ answer' = req
      BY <2>1, <3>1
    <3>3. UNCHANGED <<catalog, generation, children, sent>>
      BY <2>1 DEF AnswerNested
    <3>4. TakenAsExchanged' /\ DigestGoesWithItsChild'
      BY <3>2, <3>3, AdmittedIsExchanged
      DEF TakenAsExchanged, DigestGoesWithItsChild, DescriptorIn
    <3> QED
      BY <3>4 DEF AnswerInv
  <2>2. CASE answer' = Nil
    BY <2>2 DEF AnswerInv, TakenAsExchanged, DigestGoesWithItsChild
  <2>3. CASE UNCHANGED vars
    BY <2>3 DEF vars, AnswerInv, TakenAsExchanged, DigestGoesWithItsChild,
       DescriptorIn
  <2>4. Next /\ ~ AnswerNested => answer' = Nil
    BY DEF Next, Exchange, SendNested, Tick, ChangeCatalog, RebuildAccount
  <2> QED
    BY <2>1, <2>2, <2>3, <2>4
<1> QED
  BY <1>2, <1>3, AlwaysInv, PTL DEF Spec

(* Whatever Product takes of nested requests that were mixed up or came    *)
(* late is one exchange: operation, business, child and root operation,    *)
(* under Product's catalog and for the account as it is                    *)
(* (product_delegation.go:151, :163).                                      *)
THEOREM NestedIsExchanged ==
  ASSUME Assumptions
  PROVE  Spec => []TakenAsExchanged
<1>1. AnswerInv => TakenAsExchanged
  BY DEF AnswerInv
<1> QED
  BY <1>1, AnswersHold, PTL

(* The final digest of a nested Start was computed for the very child it   *)
(* comes with (idempotency.go:92).                                         *)
THEOREM DigestsStayWithChildren ==
  ASSUME Assumptions
  PROVE  Spec => []DigestGoesWithItsChild
<1>1. AnswerInv => DigestGoesWithItsChild
  BY DEF AnswerInv
<1> QED
  BY <1>1, AnswersHold, PTL

-----------------------------------------------------------------------------
(* What the broker signed is taken. *)

(* Where the three services agree, and the child still runs.               *)
Agreed(req) ==
  LET grant == req.permission.grant IN
  /\ grant.descriptor = DescriptorIn(catalog.product, req.operation)
  /\ req.operation \notin Queries =>
       /\ req.requestDigest # Missing
       /\ req.requestDigest.schema = grant.descriptor.schema
  /\ req.revision >= 0
  /\ ParseBusinessInput(req.json) # Nil
  /\ generation = grant.accountGeneration
  /\ now < grant.expiresAt

(* The child of such a request verifies at Product.                        *)
LEMMA AgreedVerifies ==
  ASSUME Assumptions, NestedInv, NEW req, Agreed(req),
         NEW c \in children, NEW n, req = NestedAsSent(c, n)
  PROVE  /\ VerifyProductDelegationGrant(
              c.grant, now,
              ProductBinding(req, ValidateAndAdvanceProductCallContext(req.ctx)))
         /\ ParseBusinessInput(req.json) = c.business.input
         /\ ValidatePermissionContext(req.permission)
<1> DEFINE g == c.grant
           b == c.business
           new == ValidateAndAdvanceProductCallContext(req.ctx)
           d == DescriptorIn(catalog.product, req.operation)
           bind == ProductBinding(req, new)
<1>1. /\ req.operation = b.operation /\ req.revision = b.revision
      /\ req.operationID = c.childID
      /\ req.json = SerializeBusinessInput(b.input)
      /\ req.ctx = AppendCallNode(AgentContext(c.root), "agent")
      /\ req.permission.grant = g
      /\ req.permission.ownerID = Owner
      /\ req.permission.accountGeneration = g.accountGeneration
      /\ req.permission.scopes = g.scopes
      /\ req.permission.rootRequestDigest = g.rootRequestDigest
  BY DEF NestedAsSent
<1>2. /\ g.descriptor = d /\ ParseBusinessInput(req.json) # Nil
      /\ generation = g.accountGeneration /\ now < g.expiresAt
  BY <1>1 DEF Agreed
<1>3. ExchangedFor(c) /\ now \in Nat /\ generation \in 1..MaxAccountGeneration
  BY DEF NestedInv, ChildrenAreExchanged, Clock
<1>4. /\ c.root \in Uuid /\ g.chainID = c.root /\ g.rootOperationID = c.root
      /\ ValidateGrantClaims(g, DefaultProductDelegationTTL)
      /\ g.grantKind = "product-child"
      /\ g.productTargetKind = TargetKindOf(b.operation)
      /\ g.childOperationID = c.childID
      /\ TargetMatchesChild(TargetKindOf(b.operation), c.childID)
      /\ g.ownerID = Owner /\ g.scopes = {ScopeOf(b.operation)}
      /\ g.rootRequestDigest
           = ComputeRootRequestDigest(g.descriptor, b.revision, b.input, <<>>)
  BY <1>3 DEF ExchangedFor
<1>5. /\ g.issuedAt \in Nat /\ g.issuedAt <= now
      /\ g.expiresAt = g.issuedAt + DefaultProductDelegationTTL
      /\ g.entryDeadline = Deadline
      /\ g.entryRoute = <<"ms">> /\ g.entryHop = 1
      /\ g.maxHop = MaxCallHop /\ g.maxRouteLength = MaxRouteLength
  BY <1>3 DEF ExchangedFor
<1>6. /\ ValidateStrictCallContext(new)
      /\ new.chainID = c.root /\ new.rootOperationID = c.root
      /\ new.deadline = Deadline
      /\ new.route = <<"ms", "agent", "product">> /\ new.hop = 3
      /\ RouteLength(new.route) <= MaxRouteLength
  BY <1>1, <1>4, RootContexts
<1>7. /\ g.descriptor \in Descriptor /\ g.rootRequestDigest \in RootDigest
      /\ g.chainID \in Uuid /\ g.entryDeadline <= g.expiresAt
      /\ g.rootRequestDigest # Missing
  BY <1>4 DEF ValidateGrantClaims, Assumptions, DigestAssumption
<1>8. ParseBusinessInput(req.json) = b.input
  BY <1>1, <1>2, WrittenIsRead
<1>9. /\ bind.ctx = new /\ bind.rootOperationID = new.rootOperationID
      /\ bind.ownerID = Owner /\ bind.accountGeneration = generation
      /\ bind.rootRequestDigest = g.rootRequestDigest
      /\ bind.requiredScopes = {ScopeOf(b.operation)}
      /\ bind.descriptor = d
      /\ bind.targetKind = TargetKindOf(b.operation)
      /\ bind.childOperationID = c.childID
  BY <1>1, <1>2, <1>4, <1>8 DEF ProductBinding
<1>10. Owner \in OwnerID /\ Owner # Missing /\ c.root # Missing
  BY <1>4, IdentifierAssumption DEF Assumptions, OwnerAssumption
<1>11. ValidatePermissionContext(req.permission)
  <2>1. g # NoGrant
    BY <1>7, IdentifierAssumption DEF NoGrant
  <2> HIDE DEF g, b, d, bind
  <2>2. /\ req.permission.ownerID \in OwnerID
        /\ req.permission.grant # NoGrant
        /\ req.permission.accountGeneration \in 1..MaxAccountGeneration
        /\ ValidateSHA256Digest(req.permission.rootRequestDigest)
        /\ req.permission.scopes # {}
    BY <1>1, <1>2, <1>3, <1>4, <1>7, <1>10, <2>1 DEF ValidateSHA256Digest
  <2> QED
    BY <2>2 DEF ValidatePermissionContext
<1> HIDE DEF g, b, new, d, bind
<1>12. VerifySigned(ZeroCodec, g, now)
  <2>1. ValidateGrantClaims(g, DefaultGrantTTL)
    <3>1. g.expiresAt - g.issuedAt <= DefaultGrantTTL
      BY <1>5, TTLAssumption
    <3> QED
      BY <1>4, <3>1, Zenon DEF ValidateGrantClaims
  <2> QED
    BY <1>2, <1>3, <1>5, <2>1, ZeroCodecNormal DEF VerifySigned
<1>13. ValidateRootBinding(g, bind, "product")
  <2>1. AtBoundary(g, new, "product")
    BY <1>5, <1>6 DEF AtBoundary
  <2>2. /\ new.deadline <= g.entryDeadline /\ new.deadline <= g.expiresAt
        /\ bind.requiredScopes # {} /\ bind.requiredScopes \subseteq g.scopes
        /\ new.hop <= g.maxHop
        /\ RouteLength(new.route) <= g.maxRouteLength
        /\ bind.accountGeneration > 0
    <3>1. Deadline <= Deadline
      BY DEF Assumptions, DeadlineAssumption
    <3> QED
      BY <1>3, <1>4, <1>5, <1>6, <1>7, <1>9, <3>1, AccountAssumption DEF MaxCallHop
  <2> QED
    BY <1>2, <1>4, <1>5, <1>6, <1>7, <1>9, <1>10, <2>1, <2>2 DEF ValidateRootBinding
<1>14. g.expiresAt - g.issuedAt <= DefaultProductDelegationTTL
  BY <1>5, TTLAssumption
<1>15. VerifyProductDelegationGrant(g, now, bind)
  BY <1>2, <1>4, <1>7, <1>9, <1>12, <1>13, <1>14
  DEF VerifyProductDelegationGrant, ValidateAgentGrantDescriptor
<1> QED
  BY <1>8, <1>11, <1>15 DEF g, b, new, bind

LEMMA AgreedIsTaken ==
  ASSUME Assumptions, NestedInv, NEW req \in sent, Agreed(req)
  PROVE  Admits(req)
<1>1a. PICK c \in children : \E n : req = NestedAsSent(c, n)
  BY DEF NestedInv, RequestsAreNested
<1>1. PICK n : req = NestedAsSent(c, n)
  BY <1>1a
<1> DEFINE g == c.grant
           b == c.business
           new == ValidateAndAdvanceProductCallContext(req.ctx)
           d == DescriptorIn(catalog.product, req.operation)
           input == ParseBusinessInput(req.json)
<1>2. /\ VerifyProductDelegationGrant(g, now, ProductBinding(req, new))
      /\ input = b.input
      /\ ValidatePermissionContext(req.permission)
  BY <1>1, AgreedVerifies
<1>3. /\ req.operation = b.operation /\ req.revision = b.revision
      /\ req.operationID = c.childID
      /\ req.json = SerializeBusinessInput(b.input)
      /\ req.ctx = AppendCallNode(AgentContext(c.root), "agent")
      /\ req.permission.grant = g
      /\ req.requestDigest
           = ComputeRequestDigest(DescriptorIn(n, b.operation), b.revision,
                                  b.input, <<>>, g)
  BY <1>1 DEF NestedAsSent
<1>4. /\ c.root \in Uuid /\ b \in Business
      /\ TargetMatchesChild(TargetKindOf(b.operation), c.childID)
  BY DEF NestedInv, ChildrenAreExchanged, ExchangedFor
<1>5. ValidateStrictCallContext(req.ctx) /\ new # NoContext
  BY <1>3, <1>4, RootContexts
<1>6. /\ input # Nil /\ req.revision >= 0 /\ g.descriptor = d
      /\ req.operation \notin Queries =>
           req.requestDigest # Missing /\ req.requestDigest.schema = d.schema
  BY <1>3 DEF Agreed
<1>7. /\ CanonicalizeJSON(req.json) = req.json
      /\ CanonicalizeJSON(req.json) # NoText
      /\ req.operation # Missing
  BY <1>3, <1>4, <1>6, WrittenIsRead DEF Assumptions, BusinessAssumption
<1>8. CASE req.operation \in Queries
  <2>1. ValidateQueryRequest(req)
    BY <1>2, <1>5, <1>7 DEF ValidateQueryRequest
  <2> QED
    BY <1>2, <1>3, <1>5, <1>6, <1>8, <2>1 DEF Admits
<1>9. CASE req.operation \notin Queries
  <2>1. req.operationID \in Uuid
    BY <1>3, <1>4, <1>9 DEF TargetMatchesChild, TargetKindOf
  <2>2. ValidateOperationRequest(req)
    BY <1>2, <1>5, <1>6, <1>7, <1>9, <2>1
    DEF ValidateOperationRequest, ValidateRequestDigest, ValidateSHA256Digest
  <2>3. /\ DescriptorIn(n, b.operation).operation = d.operation
        /\ DescriptorIn(n, b.operation).schema = d.schema
    <3>1. DescriptorIn(n, b.operation).operation = d.operation
      BY <1>3 DEF DescriptorIn
    <3>2. \A e, r, i, k :
            ComputeRequestDigest(e, r, i, <<>>, k) # Missing =>
              ComputeRequestDigest(e, r, i, <<>>, k).schema = e.schema
      BY DEF ComputeRequestDigest, computeRequestDigest, Preimage
    <3> HIDE DEF g, b, d
    <3> QED
      BY <1>3, <1>6, <1>9, <3>1, <3>2
  <2>4. req.requestDigest = ComputeRequestDigest(d, req.revision, input, <<>>, g)
    <3>1. \A e, f, r, i, k :
            e.operation = f.operation /\ e.schema = f.schema =>
              ComputeRequestDigest(e, r, i, <<>>, k)
                = ComputeRequestDigest(f, r, i, <<>>, k)
      BY DEF ComputeRequestDigest, computeRequestDigest, Preimage
    <3> HIDE DEF g, b, d, input
    <3> QED
      BY <1>2, <1>3, <2>3, <3>1
  <2> HIDE DEF g, b, new, d, input
  <2>5. VerifyRequestDigest(
          req.requestDigest,
          ComputeRequestDigest(d, req.revision, input, <<>>, req.permission.grant))
    BY <1>3, <1>6, <1>9, <2>4, Zenon DEF VerifyRequestDigest,
       ValidateRequestDigest, ValidateSHA256Digest, ValidateDigest
  <2> QED
    BY <1>2, <1>3, <1>5, <1>6, <1>9, <2>2, <2>5 DEF Admits, new, d, input
<1> QED
  BY <1>8, <1>9

(* What the broker signed Product takes, as long as the catalogs agree,    *)
(* the account stands and the child runs (product_delegation.go:68).       *)
THEOREM BrokerDecides ==
  ASSUME Assumptions
  PROVE  Spec => []ExchangedIsTaken
<1>1. ASSUME NestedInv
      PROVE  ExchangedIsTaken
  BY <1>1, AgreedIsTaken DEF ExchangedIsTaken, Agreed
<1> QED
  BY <1>1, AlwaysInv, PTL
=============================================================================

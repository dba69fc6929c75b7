-------------------------- MODULE ProductAdmission --------------------------
(***************************************************************************)
(* Nested requests from the Agent to Product: the broker exchanges a root  *)
(* grant for a child bound to the digest of the nested business, the Agent *)
(* binds its request to that child, and Product computes everything again. *)
(* Three services, three catalogs: broker, Agent and Product each read the *)
(* Product catalog in their own time, and the account may be rebuilt in    *)
(* between.  The services are in the consuming nodes; every decision they  *)
(* take here is one of the library's.                                      *)
(***************************************************************************)
EXTENDS Requests, FiniteSets

CONSTANTS
  Owner,          \* the account's owner
  RootDescriptor, \* what the root grants were signed for
  RootBusiness,   \* its request digest
  RootScopes,     \* and its scopes
  Business,       \* [operation, revision, input]: what the Agent may ask
  Queries,        \* the Product operations that are queries
  Catalog,        \* the Product catalogs, numbered in order
  SchemaOf(_, _), \* the schema digest of an operation in a catalog
  BrokerScope,    \* the scope the broker requires of a parent
  ScopeOf(_),     \* the scope a Product operation requires
  MixedParts,     \* the parts a caller may take from another attempt
  Deadline,       \* the deadline of the root calls
  MaxTime,        \* bound: the clock
  MaxExchanges,   \* bound: children signed
  MaxRequests     \* bound: nested requests sent

OwnerAssumption == Owner \in OwnerID \ {Missing}
DeadlineAssumption == Deadline \in Nat \ {0}
CatalogAssumption == 1 \in Catalog
MaxTimeAssumption == MaxTime \in Nat \ {0}
(* Every operation has a name, and its own scope is not the broker's.      *)
BusinessAssumption ==
  \A b \in Business :
    b.operation # Missing /\ ScopeOf(b.operation) # BrokerScope

VARIABLES
  now,         \* the clock
  catalog,     \* [broker, agent, product]: the catalog each one works from
  generation,  \* the account's generation
  children,    \* exchanges: the child and what it was asked for
  sent,        \* nested requests the Agent has sent
  answer       \* the request Product took last

vars == <<now, catalog, generation, children, sent, answer>>

DescriptorIn(n, operation) ==
  [operation |-> operation, schema |-> SchemaOf(operation, n), catalog |-> n]

TargetKindOf(operation) ==
  IF operation \in Queries THEN "query" ELSE "start_operation"

(* The root grants of two operations of one account, and their calls.      *)
RootGrant(root) ==
  Sign(ZeroCodec,
       [NoGrant EXCEPT
          !.chainID = root, !.rootOperationID = root, !.ownerID = Owner,
          !.accountGeneration = 1, !.scopes = RootScopes,
          !.descriptor = RootDescriptor, !.rootRequestDigest = RootBusiness,
          !.entryRoute = <<"ms">>, !.entryHop = 1, !.maxHop = MaxCallHop],
       1)

(* The context the Agent holds, and the one it has when Product accepts.   *)
AgentContext(root) ==
  ValidateAndAdvanceAgentCallContext(
    AppendCallNode(NewCallContext(root, root, Deadline), "ms"))

Digest(n, b, attachments) ==
  ComputeRootRequestDigest(DescriptorIn(n, b.operation), b.revision, b.input,
                           attachments)

-----------------------------------------------------------------------------
Init ==
  /\ now = 1
  /\ catalog = [broker |-> 1, agent |-> 1, product |-> 1]
  /\ generation = 1
  /\ children = {} /\ sent = {}
  /\ answer = Nil

(* The permission the Agent passes on: its root digest may be missing.     *)
ParentPermission(root, digest) ==
  [ownerID |-> Owner, accountGeneration |-> 1, scopes |-> RootScopes,
   grant |-> RootGrant(root), rootRequestDigest |-> digest]

(* What the broker is asked for, as it knows the operation. *)
ExchangeRequest(childID, b) ==
  [targetKind |-> TargetKindOf(b.operation),
   childOperationID |-> childID,
   scopes |-> {ScopeOf(b.operation)},
   descriptor |-> DescriptorIn(catalog.broker, b.operation),
   rootRequestDigest |-> Digest(catalog.broker, b, <<>>)]

(* Its checks before it signs. *)
BrokerAccepts(root, ctx, request, parent) ==
  /\ ValidateProductDelegationExchangeRequest(ctx, request, parent.grant)
  /\ ValidateParentPermissionRootDigest(parent)
  /\ VerifyProductDelegationParent(
       parent.grant, now,
       [ctx |-> ctx, rootOperationID |-> root, ownerID |-> Owner,
        accountGeneration |-> generation,
        rootRequestDigest |-> parent.rootRequestDigest,
        requiredScopes |-> {BrokerScope}])

(* The broker, from the request to the Agent's check of the reply.         *)
Exchange ==
  /\ Cardinality(children) < MaxExchanges
  /\ \E root \in Uuid, childID \in Uuid \cup {Missing}, b \in Business,
        digest \in {Nil, RootBusiness} :
       LET ctx == ValidateAndAdvanceProductCallContext(AgentContext(root))
           request == ExchangeRequest(childID, b)
           grant ==
             SignProductDelegationFromParent(ZeroCodec, RootGrant(root), ctx,
                                             request, now)
       IN /\ BrokerAccepts(root, ctx, request, ParentPermission(root, digest))
          /\ grant # NoGrant
          /\ ProductDelegationDigestEqual(grant, request.rootRequestDigest)
          /\ ValidateProductDelegationExchangeResponse(grant.expiresAt, now)
          /\ children' = children \cup
               {[grant |-> grant, childID |-> childID, business |-> b,
                 root |-> root]}
  /\ answer' = Nil
  /\ UNCHANGED <<now, catalog, generation, sent>>

(* The Agent sends a nested request under a child, with the final digest   *)
(* it computes from the catalog it knows.                                  *)
RequestOf(c) ==
  LET b == c.business IN
  [operationID |-> c.childID,
   operation |-> b.operation,
   revision |-> b.revision,
   json |-> SerializeBusinessInput(b.input),
   requestDigest |->
     ComputeRequestDigest(DescriptorIn(catalog.agent, b.operation),
                          b.revision, b.input, <<>>, c.grant),
   permission |->
     [ownerID |-> Owner, accountGeneration |-> c.grant.accountGeneration,
      scopes |-> c.grant.scopes, grant |-> c.grant,
      rootRequestDigest |-> c.grant.rootRequestDigest],
   ctx |-> AppendCallNode(AgentContext(c.root), "agent")]

SendNested ==
  /\ Cardinality(sent) < MaxRequests
  /\ \E c \in children : sent' = sent \cup {RequestOf(c)}
  /\ answer' = Nil
  /\ UNCHANGED <<now, catalog, generation, children>>

-----------------------------------------------------------------------------
(* Product's side.  It knows the account as it is.                         *)

ProductBinding(req, ctx) ==
  [ctx |-> ctx, rootOperationID |-> ctx.rootOperationID,
   ownerID |-> req.permission.ownerID,
   accountGeneration |-> generation,
   rootRequestDigest |->
     ComputeRootRequestDigest(DescriptorIn(catalog.product, req.operation),
                              req.revision, ParseBusinessInput(req.json), <<>>),
   requiredScopes |-> {ScopeOf(req.operation)},
   descriptor |-> DescriptorIn(catalog.product, req.operation),
   targetKind |-> TargetKindOf(req.operation),
   childOperationID |-> req.operationID]

Admits(req) ==
  LET ctx == ValidateAndAdvanceProductCallContext(req.ctx) IN
  /\ IF req.operation \in Queries THEN ValidateQueryRequest(req)
     ELSE ValidateOperationRequest(req)
  /\ ctx # NoContext
  /\ ParseBusinessInput(req.json) # Nil
  /\ VerifyProductDelegationGrant(req.permission.grant, now,
                                  ProductBinding(req, ctx))
  /\ req.operation \notin Queries =>
       VerifyRequestDigest(
         req.requestDigest,
         ComputeRequestDigest(DescriptorIn(catalog.product, req.operation),
                              req.revision, ParseBusinessInput(req.json), <<>>,
                              req.permission.grant))

AnswerNested ==
  /\ \E req \in Arriving(sent, MixedParts) :
       answer' = IF Admits(req) THEN req ELSE Nil
  /\ UNCHANGED <<now, catalog, generation, children, sent>>

-----------------------------------------------------------------------------
Tick ==
  /\ now < MaxTime
  /\ now' = now + 1
  /\ answer' = Nil
  /\ UNCHANGED <<catalog, generation, children, sent>>

(* Product is upgraded, or another service reads its catalog again.        *)
ChangeCatalog ==
  /\ \/ /\ catalog.product + 1 \in Catalog
        /\ catalog' = [catalog EXCEPT !.product = @ + 1]
     \/ catalog' = [catalog EXCEPT !.broker = catalog.product]
     \/ catalog' = [catalog EXCEPT !.agent = catalog.product]
  /\ answer' = Nil
  /\ UNCHANGED <<now, generation, children, sent>>

RebuildAccount ==
  /\ generation < MaxAccountGeneration
  /\ generation' = generation + 1
  /\ answer' = Nil
  /\ UNCHANGED <<now, catalog, children, sent>>

Next ==
  \/ Exchange \/ SendNested \/ AnswerNested
  \/ Tick \/ ChangeCatalog \/ RebuildAccount

Spec == Init /\ [][Next]_vars

-----------------------------------------------------------------------------
(* Every variable has its type; what Product took is canonical.            *)
TypeOK ==
  /\ now \in 1..MaxTime
  /\ catalog \in [broker: Catalog, agent: Catalog, product: Catalog]
  /\ generation \in 1..MaxAccountGeneration
  /\ \A c \in children :
       /\ c.grant.grantKind = "product-child"
       /\ TargetMatchesChild(TargetKindOf(c.business.operation), c.childID)
       /\ c.business \in Business /\ c.root \in Uuid
  /\ answer # Nil => CanonicalJSONEqual(answer.json)

(* Whatever Product takes is an exchange: the nested operation, business   *)
(* and root operation the broker was asked for, under the catalog Product  *)
(* has now, for an account that was not rebuilt, in the root's call.       *)
TakenAsExchanged ==
  answer # Nil =>
    \E c \in children :
      /\ c.grant = answer.permission.grant
      /\ c.childID = answer.operationID
      /\ c.business.operation = answer.operation
      /\ InputOf(c.business.input) = ParseBusinessInput(answer.json)
      /\ c.business.revision = answer.revision
      /\ c.root = answer.ctx.rootOperationID
      /\ c.grant.descriptor = DescriptorIn(catalog.product, answer.operation)
      /\ c.grant.accountGeneration = generation

(* A nested Start that Product takes carries the final digest the Agent    *)
(* computed for that child.                                                *)
DigestGoesWithItsChild ==
  answer # Nil /\ answer.operation \notin Queries =>
    \E req \in sent :
      /\ req.requestDigest = answer.requestDigest
      /\ req.permission.grant = answer.permission.grant
      /\ req.operationID = answer.operationID

(* No child is for more than its own operation's scope, and the scope that *)
(* opens the broker stays with the parent.                                 *)
BrokerScopeStays ==
  \A c \in children :
    /\ c.grant.scopes = {ScopeOf(c.business.operation)}
    /\ c.grant.scopes \subseteq RootScopes
    /\ BrokerScope \notin c.grant.scopes

(* A nested request whose three services read one catalog is taken until   *)
(* its child expires, unless the account was rebuilt, or the business is   *)
(* one no child is asked for.                                              *)
ExchangedIsTaken ==
  \A req \in sent :
    LET grant == req.permission.grant IN
    /\ grant.descriptor = DescriptorIn(catalog.product, req.operation)
    /\ req.operation \notin Queries =>
         /\ req.requestDigest # Missing
         /\ req.requestDigest.schema = grant.descriptor.schema
    /\ req.revision >= 0
    /\ ParseBusinessInput(req.json) # Nil
    /\ generation = grant.accountGeneration
    /\ now < grant.expiresAt
    => Admits(req)
=============================================================================

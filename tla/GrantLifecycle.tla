--------------------------- MODULE GrantLifecycle ---------------------------
(***************************************************************************)
(* One operation's authority over time: message-server signs root grants   *)
(* and renews them, the Agent accepts them with its own clock, and the     *)
(* broker exchanges them for Product children in two steps, verifying the  *)
(* parent and then signing, with time, renewals and an account rebuild in  *)
(* between.  The services are in the consuming nodes; every decision they  *)
(* take here is one of the library's.                                      *)
(***************************************************************************)
EXTENDS Grants

CONSTANTS
  RootOperation,  \* the operation's UUID
  Owner,          \* who it is for
  AgentTarget,    \* the Agent descriptor of the root request
  AgentDigest,    \* its request digest
  BrokerScope,    \* the scope the broker requires of a parent
  Drift,          \* how far the Agent's clock may be from message-server's
  OfferedHops,    \* the hop budgets message-server signs
  CallTime,       \* bound: how long a call may be given
  Asked,          \* bound: the exchanges the Agent asks for
  MaxTime,        \* bound: the clock
  MaxOffers,      \* bound: root requests sent
  None            \* nothing

ASSUME OperationAssumption == RootOperation \in Uuid /\ Owner \in OwnerID
ASSUME TargetAssumption ==
  AgentTarget \in Descriptor /\ AgentDigest \in RootDigest
ASSUME OfferAssumption == OfferedHops \subseteq Nat
ASSUME DriftAssumption == Drift \subseteq Int
ASSUME BoundAssumption ==
  MaxTime \in Nat /\ MaxOffers \in Nat /\ CallTime \subseteq Nat

Request ==
  [targetKind: TargetKind, childOperationID: Uuid \cup {Missing},
   scopes: (SUBSET Scope) \ {{}}, descriptor: Descriptor,
   rootRequestDigest: RootDigest]

ASSUME AskedAssumption == Asked \subseteq Request

VARIABLES
  now,         \* message-server's clock, which Product shares
  drift,       \* the Agent's clock minus message-server's
  generation,  \* the account's generation
  offers,      \* root requests sent so far
  offer,       \* a root request on its way to the Agent
  held,        \* the root request the Agent accepted last
  first,       \* the authority it first accepted for this operation
  broker,      \* the exchange in progress
  child        \* the Product child the Agent holds, and where it came from

vars == <<now, drift, generation, offers, offer, held, first, broker, child>>

AgentClock == now + drift

(* A grant without its chain and its times. *)
Authority(grant) == [grant EXCEPT !.chainID = Missing, !.issuedAt = 0,
                                  !.expiresAt = 0, !.entryDeadline = 0]

(* What a receiver binds a grant to: the request, and the account as it is. *)
AgentBinding(ctx) ==
  [ctx |-> ctx, rootOperationID |-> RootOperation, ownerID |-> Owner,
   accountGeneration |-> generation, rootRequestDigest |-> AgentDigest,
   requiredScopes |-> {BrokerScope}, descriptor |-> AgentTarget]

ProductBinding(ctx, request) ==
  [ctx |-> ctx, rootOperationID |-> RootOperation, ownerID |-> Owner,
   accountGeneration |-> generation,
   rootRequestDigest |-> request.rootRequestDigest,
   requiredScopes |-> request.scopes, descriptor |-> request.descriptor,
   targetKind |-> request.targetKind,
   childOperationID |-> request.childOperationID]

(* The Agent's call to Product, as Product accepts it. *)
ProductContext(ctx) ==
  ValidateAndAdvanceProductCallContext(AppendCallNode(ctx, "agent"))

-----------------------------------------------------------------------------
Init ==
  /\ now = 1
  /\ drift \in Drift
  /\ generation = 1
  /\ offers = 0
  /\ offer = None /\ held = None /\ first = None
  /\ broker = None
  /\ child = None

(* message-server signs a root grant, new or renewed, for a call with a    *)
(* deadline; a request still on its way is lost.                           *)
OfferRoot ==
  /\ offers < MaxOffers
  /\ offers' = offers + 1
  /\ \E chain \in Uuid, time \in CallTime, scopes \in SUBSET Scope,
        hops \in OfferedHops :
       LET grant ==
             Sign(ZeroCodec,
                  [NoGrant EXCEPT
                     !.chainID = chain, !.rootOperationID = RootOperation,
                     !.ownerID = Owner, !.accountGeneration = generation,
                     !.scopes = scopes, !.descriptor = AgentTarget,
                     !.rootRequestDigest = AgentDigest,
                     !.entryRoute = <<"ms">>, !.entryHop = 1, !.maxHop = hops],
                  now)
           ctx == AppendCallNode(NewCallContext(chain, RootOperation, now + time),
                                 "ms")
       IN /\ grant # NoGrant
          /\ offer' = [grant |-> grant, ctx |-> ctx]
  /\ UNCHANGED <<now, drift, generation, held, first, broker, child>>

(* The Agent accepts it, or answers with an error. *)
AcceptRoot ==
  /\ offer # None
  /\ offer' = None
  /\ LET ctx == ValidateAndAdvanceAgentCallContext(offer.ctx) IN
     IF /\ ctx # NoContext
        /\ VerifyAgentRootBinding(offer.grant, AgentClock, AgentBinding(ctx))
        /\ held # None => ValidateRootGrantRenewal(held.grant, offer.grant)
     THEN /\ held' = [grant |-> offer.grant, ctx |-> ctx]
          /\ first' = IF first = None THEN Authority(offer.grant) ELSE first
     ELSE UNCHANGED <<held, first>>
  /\ UNCHANGED <<now, drift, generation, offers, broker, child>>

(* The broker accepts the Agent's exchange of its root grant. *)
BrokerVerify ==
  /\ broker = None
  /\ held # None
  /\ \E request \in Asked :
       LET ctx == ProductContext(held.ctx) IN
       /\ ctx # NoContext
       /\ ValidateProductDelegationExchangeRequest(ctx, request, held.grant)
       /\ VerifyProductDelegationParent(
            held.grant, now,
            [AgentBinding(ctx) EXCEPT
               !.rootRequestDigest = held.grant.rootRequestDigest])
       /\ broker' = [parent |-> held.grant, ctx |-> ctx, request |-> request,
                     grant |-> NoGrant]
  /\ UNCHANGED <<now, drift, generation, offers, offer, held, first, child>>

(* It then signs the child, or fails. *)
BrokerSign ==
  /\ broker # None
  /\ broker.grant = NoGrant
  /\ LET grant == SignProductDelegationFromParent(
                    ZeroCodec, broker.parent, broker.ctx, broker.request, now)
     IN broker' = IF grant = NoGrant THEN None
                  ELSE [broker EXCEPT !.grant = grant]
  /\ UNCHANGED <<now, drift, generation, offers, offer, held, first, child>>

(* The Agent takes the reply if its clock finds the expiry sensible. *)
TakeChild ==
  /\ broker # None
  /\ broker.grant # NoGrant
  /\ broker' = None
  /\ child' = IF ValidateProductDelegationExchangeResponse(
                   broker.grant.expiresAt, AgentClock)
              THEN broker ELSE child
  /\ UNCHANGED <<now, drift, generation, offers, offer, held, first>>

(* The account is deleted and created again. *)
Rebuild ==
  /\ generation < MaxAccountGeneration
  /\ generation' = generation + 1
  /\ UNCHANGED <<now, drift, offers, offer, held, first, broker, child>>

Tick ==
  /\ now < MaxTime
  /\ now' = now + 1
  /\ UNCHANGED <<drift, generation, offers, offer, held, first, broker, child>>

Next == OfferRoot \/ AcceptRoot \/ BrokerVerify \/ BrokerSign \/ TakeChild
          \/ Rebuild \/ Tick

Spec == Init /\ [][Next]_vars

-----------------------------------------------------------------------------
(* Properties *)

GrantType ==
  [chainID: Uuid \cup {Missing}, rootOperationID: Uuid \cup {Missing},
   childOperationID: Uuid \cup {Missing}, grantKind: GrantKind \cup {"none"},
   productTargetKind: TargetKind \cup {"none"}, ownerID: OwnerID \cup {Missing},
   accountGeneration: Nat, scopes: SUBSET Scope,
   descriptor: Descriptor \cup {Missing},
   rootRequestDigest: RootDigest \cup {Missing},
   issuedAt: Nat, expiresAt: Nat, entryDeadline: Nat, entryRoute: Seq(Node),
   entryHop: Nat, maxHop: Nat, maxRouteLength: Nat]

ContextType ==
  [chainID: Uuid \cup {Missing}, rootOperationID: Uuid \cup {Missing},
   parentCallID: {Missing}, hop: Nat, route: Seq(Node), deadline: Nat]

CallType == [grant: GrantType, ctx: ContextType]

ExchangeType == [parent: GrantType, ctx: ContextType, request: Request,
                 grant: GrantType]

ASSUME NoneAssumption == None \notin CallType \cup ExchangeType

TypeOK ==
  /\ now \in Nat
  /\ drift \in Drift
  /\ generation \in 1..MaxAccountGeneration
  /\ offers \in 0..MaxOffers
  /\ offer \in CallType \cup {None}
  /\ held \in CallType \cup {None}
  /\ first \in GrantType \cup {None}
  /\ broker \in ExchangeType \cup {None}
  /\ child \in ExchangeType \cup {None}

(* Would Product run this request now, under that grant? *)
ProductAccepts(grant, ctx, request) ==
  VerifyProductDelegationGrant(grant, now, ProductBinding(ctx, request))

(* However long the broker takes between verifying a parent and signing    *)
(* its child, and whatever was renewed meanwhile, no child is signed once  *)
(* the deadline of the call has passed, and a parent's authority ends one  *)
(* delegation TTL after the parent                                         *)
(* (product_delegation.go:80, :159).                                       *)
DelegationHorizon ==
  child # None =>
    /\ child.grant.issuedAt <= child.ctx.deadline
    /\ child.ctx.deadline <= child.parent.expiresAt
    /\ child.grant.expiresAt <=
         child.parent.expiresAt + DefaultProductDelegationTTL

(* What Product runs under a child is what the broker was asked for, under *)
(* scopes the parent had, for an account that has not been rebuilt since   *)
(* (product_delegation.go:19, :62; docs/protocol.md section 3).            *)
ProductRunsWhatWasExchanged ==
  child # None =>
    \A request \in Request :
      ProductAccepts(child.grant, child.ctx, request) =>
        /\ request = [child.request EXCEPT !.scopes = request.scopes]
        /\ request.scopes \subseteq child.request.scopes
        /\ request.scopes \subseteq child.parent.scopes
        /\ child.parent.accountGeneration = generation

(* A child is good for its request, from the call it was exchanged for,    *)
(* until it expires: nothing the broker signs is refused by Product        *)
(* (product_delegation.go:163, grant.go:510).                              *)
ChildIsUsableUntilExpiry ==
  /\ child # None
  /\ now < child.grant.expiresAt
  /\ child.parent.accountGeneration = generation
  => ProductAccepts(child.grant, child.ctx, child.request)

(* Roots and children are never taken for each other: no root is run at    *)
(* Product, and a child neither enters the Agent nor is exchanged again    *)
(* (grant.go:59, :299).                                                    *)
KindsNotInterchangeable ==
  /\ held # None =>
       LET ctx == ProductContext(held.ctx)
       IN \A request \in Request : ~ProductAccepts(held.grant, ctx, request)
  /\ child # None /\ held # None =>
       LET b(ctx) == [AgentBinding(ctx) EXCEPT
                        !.rootRequestDigest = child.grant.rootRequestDigest,
                        !.requiredScopes = child.grant.scopes,
                        !.descriptor = child.grant.descriptor]
       IN /\ ~VerifyAgentRootBinding(child.grant, now, b(held.ctx))
          /\ ~VerifyProductDelegationParent(child.grant, now, b(child.ctx))

(* After any number of renewals the Agent acts with the authority it was   *)
(* first given: only chain and times have changed (replay.go:132).         *)
RenewalKeepsAuthority == held # None => Authority(held.grant) = first

(* A parent the broker verified yields a child exactly while the call's    *)
(* deadline is still ahead by no more than a delegation TTL: a call with   *)
(* more time left than that cannot be exchanged yet                        *)
(* (product_delegation.go:159, grant.go:356).                              *)
BrokerSignsNearTheDeadline ==
  broker # None =>
    (SignProductDelegationFromParent(ZeroCodec, broker.parent, broker.ctx,
                                     broker.request, now) # NoGrant
     <=> /\ broker.request.scopes \subseteq broker.parent.scopes
         /\ broker.ctx.deadline \in now..(now + DefaultProductDelegationTTL))

(* "A zero codec uses safe defaults" (grant.go:127), one of which is       *)
(* DefaultGrantClockSkew (grant.go:21): a root grant that message-server's *)
(* own clock accepts is accepted by an Agent whose clock is behind by no   *)
(* more than that.                                                         *)
FreshGrantAcceptedWithinSkew ==
  offer # None /\ drift \in -DefaultGrantClockSkew..0 =>
    LET ctx == ValidateAndAdvanceAgentCallContext(offer.ctx) IN
    VerifyAgentRootBinding(offer.grant, now, AgentBinding(ctx)) =>
      VerifyAgentRootBinding(offer.grant, AgentClock, AgentBinding(ctx))
=============================================================================

------------------------ MODULE ControlLifecycleProofs ------------------------
(* Proofs about ControlLifecycle, for every value of its constants. *)
EXTENDS ControlLifecycle, OperatorProofs, FiniteSetTheorems, SequenceTheorems,
        TLAPS

-----------------------------------------------------------------------------
(* The calls of the Agent, as Product accepts them *)

ContextType ==
  [chainID: Uuid, rootOperationID: Uuid, parentCallID: {Missing}, hop: Nat,
   route: Seq(Node), deadline: Nat]

(* A context of one chain, at some point of its way. *)
At(c, chain, hop, route, deadline) ==
  /\ c \in ContextType
  /\ c.chainID = chain
  /\ c.hop = hop
  /\ c.route = route
  /\ c.deadline = deadline

(* A node that is not the sender yet is appended, or the call is refused. *)
LEMMA AppendNode ==
  ASSUME NEW c, NEW chain, NEW hop \in Nat, NEW route \in Seq(Node),
         NEW deadline, NEW n \in Node,
         At(c, chain, hop, route, deadline), route = <<>> \/ LastOf(route) # n,
         AppendCallNode(c, n) # NoContext
  PROVE  At(AppendCallNode(c, n), chain, hop + 1, Append(route, n), deadline)
<1> DEFINE r == Append(route, n)
<1>1. r \in Seq(Node) /\ hop + 1 \in Nat
  OBVIOUS
<1>2. /\ c \in ContextType /\ c.chainID = chain /\ c.hop = hop
      /\ c.route = route /\ c.deadline = deadline
  BY DEF At
<1>3. AppendCallNode(c, n) = [c EXCEPT !.hop = @ + 1, !.route = Append(@, n)]
  BY <1>2, Zenon DEF AppendCallNode
<1>4. AppendCallNode(c, n) = [c EXCEPT !.hop = hop + 1, !.route = r]
  BY <1>2, <1>3
<1> HIDE DEF r
<1>5. ASSUME NEW h \in Nat, NEW s \in Seq(Node)
      PROVE  At([c EXCEPT !.hop = h, !.route = s], chain, h, s, deadline)
  BY <1>2 DEF At, ContextType
<1> QED
  BY <1>1, <1>4, <1>5 DEF r

(* A refused call stays refused. *)
LEMMA AppendToNone ==
  ASSUME NEW n
  PROVE  AppendCallNode(NoContext, n) = NoContext
<1>1. NoContext.route = <<>> /\ NoContext.chainID = Missing
  BY DEF NoContext
<1>2. ~ValidateCallPath(NoContext, n)
  BY <1>1, IdentifierAssumption, Zenon DEF ValidateCallPath, ValidateCallContext
<1> QED
  BY <1>1, <1>2, Zenon DEF AppendCallNode

LEMMA ProductCallType ==
  ASSUME NEW chain \in Uuid, NEW root \in Uuid, NEW entry, NEW deadline \in Nat,
         ProductCall(chain, root, entry, deadline) # NoContext
  PROVE  LET ctx == ProductCall(chain, root, entry, deadline) IN
         /\ ctx \in ProductContextType
         /\ ctx.chainID = chain
         /\ ctx.deadline = deadline
         /\ ctx.hop = Len(ctx.route)
<1> DEFINE new == NewCallContext(chain, root, deadline)
           atMs == AppendCallNode(new, "ms")
           atAgent == IF entry = "agent" THEN AppendCallNode(new, "agent")
                      ELSE AppendCallNode(atMs, "agent")
           ctx == AppendCallNode(atAgent, "product")
<1>1. /\ ProductCall(chain, root, entry, deadline) = ctx
      /\ ctx # NoContext
  BY DEF ProductCall, ValidateAndAdvanceProductCallContext
<1>2. At(new, chain, 0, <<>>, deadline)
  BY IdentifierAssumption DEF NewCallContext, At, ContextType
<1> HIDE DEF new
<1>3. atAgent # NoContext
  BY <1>1, AppendToNone
<1>4. CASE entry = "agent"
  <2>1. At(atAgent, chain, 1, <<"agent">>, deadline)
    <3>1. atAgent = AppendCallNode(new, "agent")
      BY <1>4
    <3>2. "agent" \in Node /\ 0 \in Nat /\ 0 + 1 = 1 /\ <<>> \in Seq(Node)
      BY DEF Node
    <3> HIDE DEF atAgent
    <3> QED
      BY <1>2, <1>3, <3>1, <3>2, AppendNode, Routes, Zenon
  <2> HIDE DEF atAgent
  <2>2. At(ctx, chain, 2, <<"agent", "product">>, deadline)
    <3>1. "product" \in Node /\ 1 \in Nat /\ 1 + 1 = 2
          /\ <<"agent">> \in Seq(Node) /\ LastOf(<<"agent">>) # "product"
      BY Routes DEF Node
    <3> QED
      BY <1>1, <2>1, <3>1, AppendNode, Routes, Zenon
  <2> HIDE DEF ctx
  <2> QED
    BY <1>1, <2>2 DEF At, ContextType, ProductContextType
<1>5. CASE entry # "agent"
  <2>1. atAgent = AppendCallNode(atMs, "agent")
    BY <1>5
  <2>2. atMs # NoContext
    BY <1>3, <2>1, AppendToNone
  <2>3. At(atMs, chain, 1, <<"ms">>, deadline)
    <3>1. "ms" \in Node /\ 0 \in Nat /\ 0 + 1 = 1 /\ <<>> \in Seq(Node)
      BY DEF Node
    <3> QED
      BY <1>2, <2>2, <3>1, AppendNode, Routes, Zenon
  <2> HIDE DEF atMs
  <2>4. At(atAgent, chain, 2, <<"ms", "agent">>, deadline)
    <3>1. "agent" \in Node /\ 1 \in Nat /\ 1 + 1 = 2
          /\ <<"ms">> \in Seq(Node) /\ LastOf(<<"ms">>) # "agent"
      BY Routes DEF Node
    <3> HIDE DEF atAgent
    <3> QED
      BY <1>3, <2>1, <2>3, <3>1, AppendNode, Routes, Zenon
  <2> HIDE DEF atAgent
  <2>5. At(ctx, chain, 3, <<"ms", "agent", "product">>, deadline)
    <3>1. "product" \in Node /\ 2 \in Nat /\ 2 + 1 = 3
          /\ <<"ms", "agent">> \in Seq(Node) /\ LastOf(<<"ms", "agent">>) # "product"
      BY Routes DEF Node
    <3> QED
      BY <1>1, <2>4, <3>1, AppendNode, Routes, Zenon
  <2> HIDE DEF ctx
  <2> QED
    BY <1>1, <2>5 DEF At, ContextType, ProductContextType
<1> QED
  BY <1>4, <1>5

-----------------------------------------------------------------------------
(* The grants Product signs *)

(* A grant lives as long as its codec says, and never longer than the TTL. *)
LEMMA LifeTTL ==
  ASSUME NEW life \in Nat \ {0}
  PROVE  /\ ControlTTL(Codec(life))
              = IF life > DefaultControlGrantTTL
                THEN DefaultControlGrantTTL ELSE life
         /\ ControlTTL(Codec(life)) \in 1..DefaultControlGrantTTL
<1>1. Codec(life).maxTTL = life
  BY DEF Codec
<1>2. Normalized(Codec(life)).maxTTL = life
  BY <1>1 DEF Normalized
<1> QED
  BY <1>2, ControlTTLAssumption DEF ControlTTL

(* Claims with some of the fields still empty. *)
UnfilledType ==
  [chainID: Uuid \cup {Missing}, ownerID: OwnerID \cup {Missing},
   accountGeneration: Nat, operationID: Uuid \cup {Missing},
   controlAction: ControlAction \cup {"none"},
   controlScope: {ControlScope(a) : a \in ControlAction \cup {"none"}},
   entryRoute: Seq(Node), entryHop: Nat,
   deadline: Nat, issuedAt: Nat, expiresAt: Nat]

WithTimes(g, i, e, d) ==
  [g EXCEPT !.issuedAt = i, !.expiresAt = e, !.deadline = d]

WithClaims(g, chain, owner, account, op, action, node) ==
  [g EXCEPT !.chainID = chain, !.ownerID = owner, !.accountGeneration = account,
            !.operationID = op, !.controlAction = action,
            !.controlScope = ControlScope(action),
            !.entryRoute = <<node>>, !.entryHop = 1]

Says(c, chain, owner, account, op, action, node) ==
  /\ c \in UnfilledType
  /\ c.chainID = chain /\ c.ownerID = owner
  /\ c.accountGeneration = account /\ c.operationID = op
  /\ c.controlAction = action /\ c.controlScope = ControlScope(action)
  /\ c.entryRoute = <<node>> /\ c.entryHop = 1

Timed(c, i, e, d) == c.issuedAt = i /\ c.expiresAt = e /\ c.deadline = d

LEMMA Claimed ==
  ASSUME NEW g \in UnfilledType, NEW chain \in Uuid, NEW owner \in OwnerID,
         NEW account \in Nat, NEW op \in Uuid, NEW action \in ControlAction,
         NEW node \in Node
  PROVE  LET c == WithClaims(g, chain, owner, account, op, action, node)
         IN /\ Says(c, chain, owner, account, op, action, node)
            /\ Timed(c, g.issuedAt, g.expiresAt, g.deadline)
<1> DEFINE route == <<node>>
           scope == ControlScope(action)
           scopes == {ControlScope(a) : a \in ControlAction \cup {"none"}}
<1>1. route \in Seq(Node) /\ scope \in scopes
  OBVIOUS
<1> HIDE DEF route, scope, scopes
<1> DEFINE c == [g EXCEPT !.chainID = chain, !.ownerID = owner,
                          !.accountGeneration = account, !.operationID = op,
                          !.controlAction = action, !.controlScope = scope,
                          !.entryRoute = route, !.entryHop = 1]
<1>2. /\ c \in UnfilledType
      /\ c.chainID = chain /\ c.ownerID = owner
      /\ c.accountGeneration = account /\ c.operationID = op
      /\ c.controlAction = action /\ c.controlScope = scope
      /\ c.entryRoute = route /\ c.entryHop = 1
      /\ c.deadline = g.deadline /\ c.issuedAt = g.issuedAt
      /\ c.expiresAt = g.expiresAt
  BY <1>1 DEF UnfilledType, scopes
<1>3. c = WithClaims(g, chain, owner, account, op, action, node)
  BY DEF WithClaims, route, scope
<1> HIDE DEF c
<1> QED
  BY <1>2, <1>3 DEF Says, Timed, route, scope

LEMMA Filled ==
  ASSUME NEW g, NEW chain, NEW owner, NEW account, NEW op, NEW action, NEW node,
         Says(g, chain, owner, account, op, action, node),
         NEW i \in Nat, NEW e \in Nat, NEW d \in Nat
  PROVE  /\ Says(WithTimes(g, i, e, d), chain, owner, account, op, action, node)
         /\ Timed(WithTimes(g, i, e, d), i, e, d)
<1> DEFINE scopes == {ControlScope(a) : a \in ControlAction \cup {"none"}}
           c == [g EXCEPT !.issuedAt = i, !.expiresAt = e, !.deadline = d]
<1> HIDE DEF scopes
<1>1. g \in UnfilledType
  BY DEF Says
<1>2. /\ c \in UnfilledType
      /\ c.chainID = g.chainID /\ c.ownerID = g.ownerID
      /\ c.accountGeneration = g.accountGeneration
      /\ c.operationID = g.operationID /\ c.controlAction = g.controlAction
      /\ c.controlScope = g.controlScope
      /\ c.entryRoute = g.entryRoute /\ c.entryHop = g.entryHop
      /\ c.deadline = d /\ c.issuedAt = i /\ c.expiresAt = e
  BY <1>1 DEF UnfilledType, scopes
<1>3. c = WithTimes(g, i, e, d)
  BY DEF WithTimes
<1> HIDE DEF c
<1> QED
  BY <1>2, <1>3 DEF Says, Timed

(* Every call that Product accepts can be given grants.  A grant says what *)
(* it was signed for, and runs out within a TTL.                           *)
LEMMA GrantForClaims ==
  ASSUME NEW op \in Uuid, NEW ctx \in ProductContextType,
         NEW action \in ControlAction, NEW life \in Nat \ {0},
         now \in Nat \ {0}, generation \in 1..MaxAccountGeneration
  PROVE  LET g == GrantFor(op, ctx, action, life) IN
         /\ g \in ControlGrantType
         /\ g.operationID = op
         /\ g.controlAction = action
         /\ g.controlScope = ControlScope(action)
         /\ g.chainID = ctx.chainID
         /\ g.ownerID = Owner
         /\ g.entryRoute = <<ctx.route[1]>>
         /\ g.accountGeneration = generation
         /\ g.issuedAt = now
         /\ g.expiresAt = now + ControlTTL(Codec(life))
         /\ g.deadline = now + ControlTTL(Codec(life))
         /\ g.expiresAt \in (now + 1)..(now + DefaultControlGrantTTL)
<1> DEFINE ttl == ControlTTL(Codec(life))
           node == ctx.route[1]
           claims == WithClaims(NoControlGrant, ctx.chainID, Owner, generation, op,
                                action, node)
           c == WithTimes(claims, now, now + ttl, now + ttl)
<1>1. ttl \in 1..DefaultControlGrantTTL
  BY LifeTTL
<1>2. now \in Nat /\ now # 0 /\ ttl \in Nat /\ now + ttl \in Nat \ {0}
  BY <1>1, ControlTTLAssumption
<1>3. NoControlGrant \in UnfilledType /\ Timed(NoControlGrant, 0, 0, 0)
  BY DEF NoControlGrant, UnfilledType, Timed
<1>4. /\ ctx.chainID \in Uuid /\ node \in Node /\ generation \in Nat
      /\ <<node>> \in {<<"ms">>, <<"agent">>}
  BY AccountAssumption DEF ProductContextType, Node
<1> HIDE DEF node
<1>5. /\ Says(claims, ctx.chainID, Owner, generation, op, action, node)
      /\ Timed(claims, 0, 0, 0)
  BY <1>3, <1>4, OwnerAssumption, Claimed DEF Timed
<1>6. GrantFor(op, ctx, action, life)
        = SignOperationControlGrant(Codec(life), claims, now)
  BY DEF GrantFor, WithClaims, node
<1> HIDE DEF claims
<1>7. /\ Says(c, ctx.chainID, Owner, generation, op, action, node)
      /\ Timed(c, now, now + ttl, now + ttl)
  BY <1>2, <1>5, Filled
<1>8. /\ OrElse(claims.issuedAt, now) = now
      /\ OrElse(claims.expiresAt, now + ttl) = now + ttl
      /\ [claims EXCEPT !.issuedAt = now, !.expiresAt = now + ttl,
                        !.deadline = OrElse(@, now + ttl)] = c
  BY <1>5 DEF OrElse, Timed, WithTimes
<1> HIDE DEF c
<1>9. GrantFor(op, ctx, action, life)
        = IF ValidateOperationControlGrant(c, ttl) THEN c ELSE NoControlGrant
  BY <1>6, <1>8 DEF SignOperationControlGrant
<1> HIDE DEF ttl
<1>10. ValidateOperationControlGrant(c, ttl)
  <2>1. /\ now + ttl <= now + ttl /\ 0 < now + ttl /\ 0 < now
        /\ now < now + ttl /\ (now + ttl) - now <= ttl
    BY <1>1, <1>2, ControlTTLAssumption
  <2>2. ValidateEntryRoute(c.entryRoute, c.entryHop)
    BY <1>4, <1>7 DEF Says, ValidateEntryRoute
  <2> QED
    BY <1>4, <1>7, <2>1, <2>2, OwnerAssumption, Zenon
    DEF Says, Timed, ValidateOperationControlGrant
<1>11. GrantFor(op, ctx, action, life) = c
  BY <1>9, <1>10
<1>12. now + ttl \in (now + 1)..(now + DefaultControlGrantTTL)
  BY <1>1, <1>2, ControlTTLAssumption
<1>13. c \in ControlGrantType
  <2> DEFINE scopes == {ControlScope(a) : a \in ControlAction}
             routes == {<<"ms">>, <<"agent">>}
  <2>1. c.controlScope \in scopes /\ c.entryRoute \in routes
    BY <1>4, <1>7 DEF Says
  <2> HIDE DEF scopes, routes
  <2> QED
    BY <1>2, <1>4, <1>7, <2>1, OwnerAssumption
    DEF Says, Timed, UnfilledType, ControlGrantType, scopes, routes
<1> QED
  BY <1>7, <1>11, <1>12, <1>13 DEF Says, Timed, node, ttl

-----------------------------------------------------------------------------
(* Types *)

LEMMA InitTypeOK == Init => TypeOK
  BY AccountAssumption, ControlBoundAssumption DEF Init, TypeOK, Op!State

LEMMA StartKeepsType ==
  ASSUME TypeOK, NEW op \in Uuid, Start(op)
  PROVE  TypeOK'
<1>1. PICK chain \in Uuid, entry \in Entries, time \in CallTime, life \in Lives,
           wanted \in RequiredActions :
        LET ctx == ProductCall(chain, op, entry, now + time) IN
        /\ ctx # NoContext
        /\ call' = [call EXCEPT ![op] = [ctx |-> ctx, generation |-> generation,
                                       required |-> wanted]]
        /\ signed' = signed \cup
             ({GrantFor(op, ctx, action, life) : action \in RangeOf(wanted)}
                \ {NoControlGrant})
  BY DEF Start
<1> DEFINE ctx == ProductCall(chain, op, entry, now + time)
<1>2. now + time \in Nat
  BY ControlBoundAssumption DEF TypeOK
<1>3. ctx \in ProductContextType
  BY <1>1, <1>2, ProductCallType
<1> HIDE DEF ctx
<1>4. RangeOf(wanted) \subseteq ControlAction
  BY ActionAssumption, ElementOfSeq DEF RangeOf
<1>5. call' \in [Uuid -> StartType \cup {None}]
  BY <1>1, <1>3 DEF TypeOK, StartType, ctx
<1>6. signed' \subseteq ControlGrantType
  BY <1>1, <1>3, <1>4, GrantForClaims, LivesAssumption DEF TypeOK, ctx
<1>7. row' \in [Uuid -> Op!State]
  BY DEF Start, TypeOK, Op!State
<1>8. starts' \in 0..MaxStarts
  BY ControlBoundAssumption DEF Start, TypeOK
<1> QED
  BY <1>5, <1>6, <1>7, <1>8 DEF Start, TypeOK

LEMMA ReplyGrants ==
  ASSUME NEW length, NEW reply \in [1..length -> Envelope],
         NEW codec, NEW t, NEW b
  PROVE  VerifyControlGrantEnvelopeSet(codec, reply, t, b) \subseteq signed
<1>1. \A i \in DOMAIN reply : reply[i].grant \in signed
  BY DEF Envelope
<1> QED
  BY <1>1 DEF VerifyControlGrantEnvelopeSet

LEMMA TakeReplyType ==
  ASSUME TypeOK, NEW op \in Uuid, TakeReply(op)
  PROVE  TypeOK'
<1>1. PICK set \in SUBSET signed :
        held' = IF set = {} THEN held ELSE [held EXCEPT ![op] = set]
  <2>1. PICK reply \in Reply :
          LET set == VerifyControlGrantEnvelopeSet(
                       Codec(0), reply, AgentClock, EnvelopeBinding(op))
          IN held' = IF set = {} THEN held ELSE [held EXCEPT ![op] = set]
    BY DEF TakeReply
  <2>2. PICK length \in ReplyLengths : reply \in [1..length -> Envelope]
    BY DEF Reply
  <2> QED
    BY <2>1, <2>2, ReplyGrants
<1>2. held' \in [Uuid -> SUBSET ControlGrantType]
  BY <1>1 DEF TypeOK
<1> QED
  BY <1>2 DEF TakeReply, TypeOK

LEMMA ControlType ==
  ASSUME TypeOK, NEW op \in Uuid, NEW action \in ControlAction,
         Control(op, action)
  PROVE  TypeOK' /\ done' \in DoneType
<1>1. PICK ctx \in Calls(op) :
        done' = [operation |-> op, action |-> action, ctx |-> ctx]
  BY DEF Control
<1>2. done' \in DoneType
  <2>1. PICK chain \in Uuid, entry \in Entries, time \in CallTime :
          ctx = ProductCall(chain, op, entry, now + time) /\ ctx # NoContext
    BY <1>1 DEF Calls
  <2> QED
    BY <1>1, <2>1, ProductCallType, ControlBoundAssumption DEF DoneType, TypeOK
<1>3. row' \in [Uuid -> Op!State]
  <2>1. PICK state \in RowAfter(op, action) : row' = [row EXCEPT ![op] = state]
    BY DEF Control
  <2>2. row[op] \in Op!State
    BY DEF TypeOK
  <2>3. {s \in Found : Op!ValidateReconcileTransition(row[op], s)} \subseteq Op!State
    BY FoundAssumption DEF Op!State
  <2>4. RowAfter(op, action) \subseteq Op!State
    BY <2>2, <2>3 DEF RowAfter, Op!State
  <2> QED
    BY <2>1, <2>4 DEF TypeOK
<1> QED
  BY <1>2, <1>3 DEF Control, TypeOK

LEMMA NextTypeOK == TypeOK /\ [Next]_vars => TypeOK'
<1> SUFFICES ASSUME TypeOK, [Next]_vars PROVE TypeOK'
  OBVIOUS
<1>1. ASSUME NEW op \in Uuid, Start(op) PROVE TypeOK'
  BY <1>1, StartKeepsType
<1>2. ASSUME NEW op \in Uuid, TakeReply(op) PROVE TypeOK'
  BY <1>2, TakeReplyType
<1>3. ASSUME NEW op \in Uuid, Work(op) PROVE TypeOK'
  BY <1>3, FoundAssumption DEF Work, TypeOK, Op!State
<1>4. ASSUME NEW op \in Uuid, NEW action \in ControlAction, Control(op, action)
      PROVE TypeOK'
  BY <1>4, ControlType
<1>5. CASE Rebuild
  BY <1>5, AccountAssumption DEF Rebuild, TypeOK
<1>6. CASE Tick
  BY <1>6 DEF Tick, TypeOK
<1>7. CASE UNCHANGED vars
  BY <1>7 DEF vars, TypeOK
<1> QED
  BY <1>1, <1>2, <1>3, <1>4, <1>5, <1>6, <1>7 DEF Next

(* The type invariant, for any accounts, operations, actions wanted, lives *)
(* and clocks.                                                             *)
THEOREM TypeCorrect == Spec => []TypeOK
  BY InitTypeOK, NextTypeOK, PTL DEF Spec

-----------------------------------------------------------------------------
(* What a set that verified is made of *)

(* The one grant of each action wanted, all for one call. *)
Whole(set, op, wanted, b) ==
  /\ {g.controlAction : g \in set} = RangeOf(wanted)
  /\ \A g, h \in set : g.controlAction = h.controlAction => g = h
  /\ \A g \in set :
       /\ g.operationID = op /\ g.ownerID = Owner
       /\ g.chainID = b.ctx.chainID
       /\ g.accountGeneration = b.accountGeneration

(* An injective list over the members of another of its length has them    *)
(* all: a set with one envelope for each action wanted lacks none.         *)
LEMMA InjectiveCovers ==
  ASSUME NEW n \in Nat, NEW s, NEW f \in [1..n -> RangeOf(s)], NEW T,
         s \in [1..n -> T], IsInjectiveList(s), IsInjectiveList(f)
  PROVE  RangeOf(f) = RangeOf(s)
<1>1. IsFiniteSet(1..n) /\ Cardinality(1..n) = n
  BY FS_Interval
<1>2. s \in Surjection(1..n, RangeOf(s))
  BY DEF Surjection, RangeOf
<1>3. s \in Injection(1..n, RangeOf(s))
  BY <1>2 DEF Surjection, Injection, IsInjective, IsInjectiveList
<1>4. IsFiniteSet(RangeOf(s)) /\ Cardinality(RangeOf(s)) = n
  BY <1>1, <1>2, <1>3, FS_Surjection
<1>5. f \in Injection(1..n, RangeOf(s))
  BY DEF Injection, IsInjective, IsInjectiveList
<1>6. f \in Surjection(1..n, RangeOf(s))
  BY <1>1, <1>4, <1>5, FS_Injection
<1> QED
  BY <1>6 DEF Surjection, RangeOf

LEMMA SetIsWhole ==
  ASSUME NEW op \in Uuid, call[op] \in StartType,
         NEW length \in Nat, NEW reply \in [1..length -> Envelope],
         NEW codec, NEW t,
         VerifyControlGrantEnvelopeSet(codec, reply, t, EnvelopeBinding(op)) # {}
  PROVE  Whole(VerifyControlGrantEnvelopeSet(codec, reply, t, EnvelopeBinding(op)),
               op, call[op].required, EnvelopeBinding(op))
<1> DEFINE b == EnvelopeBinding(op)
           set == VerifyControlGrantEnvelopeSet(codec, reply, t, b)
           wanted == call[op].required
           actions == [i \in DOMAIN reply |-> reply[i].action]
<1>1. /\ b.ownerID = Owner /\ b.operationID = op
      /\ b.requiredActions = wanted
  BY DEF EnvelopeBinding
<1> HIDE DEF b
<1>2. /\ set = {reply[i].grant : i \in DOMAIN reply}
      /\ ValidateOperationControlGrantEnvelopes(reply, t)
      /\ Len(reply) = Len(wanted)
      /\ IsInjectiveList(wanted)
      /\ \A i \in DOMAIN reply :
           /\ reply[i].action \in RangeOf(wanted)
           /\ VerifyControlGrantAt(codec, reply[i].grant, t,
                                   ActionBinding(b, reply[i].action),
                                   ControlBoundary(b.ctx.route))
  BY <1>1, Zenon DEF VerifyControlGrantEnvelopeSet, b
<1>3. DOMAIN reply = 1..length /\ Len(reply) = length
  OBVIOUS
<1>4. reply # <<>>
  <2>1. PICK g \in set : TRUE
    BY DEF b
  <2>2. \E i \in 1..length : TRUE
    BY <1>2, <1>3, <2>1
  <2> QED
    BY <1>3, <2>2
<1>5. IsInjectiveList(actions)
  BY <1>2, <1>4, Zenon DEF ValidateOperationControlGrantEnvelopes
<1>6. \A i \in DOMAIN reply :
        LET g == reply[i].grant IN
        /\ g.controlAction = reply[i].action
        /\ g.operationID = op /\ g.ownerID = Owner
        /\ g.chainID = b.ctx.chainID
        /\ g.accountGeneration = b.accountGeneration
  <2> SUFFICES ASSUME NEW i \in DOMAIN reply
               PROVE  LET g == reply[i].grant IN
                      /\ g.controlAction = reply[i].action
                      /\ g.operationID = op /\ g.ownerID = Owner
                      /\ g.chainID = b.ctx.chainID
                      /\ g.accountGeneration = b.accountGeneration
    OBVIOUS
  <2> DEFINE a == ActionBinding(b, reply[i].action)
  <2>1. /\ a.controlAction = reply[i].action /\ a.operationID = b.operationID
        /\ a.ownerID = b.ownerID /\ a.ctx = b.ctx
        /\ a.accountGeneration = b.accountGeneration
    BY DEF ActionBinding
  <2> HIDE DEF a
  <2>2. ValidateControlBinding(reply[i].grant, a, ControlBoundary(b.ctx.route))
    BY <1>2 DEF VerifyControlGrantAt, a
  <2> QED
    BY <1>1, <2>1, <2>2, Zenon DEF ValidateControlBinding
<1>7. wanted \in Seq(ControlAction)
  BY ActionAssumption DEF StartType
<1>8. RangeOf(actions) = RangeOf(wanted)
  <2>1. wanted \in [1..length -> ControlAction]
    <3> HIDE DEF wanted
    <3>1. Len(wanted) = length
      BY <1>2, <1>3
    <3> QED
      BY <1>7, <3>1
  <2>2. actions \in [1..length -> RangeOf(wanted)]
    BY <1>2, <1>3
  <2> HIDE DEF actions, wanted
  <2> QED
    BY <1>2, <1>5, <2>1, <2>2, InjectiveCovers
<1>9. {g.controlAction : g \in set} = RangeOf(wanted)
  <2>1. {g.controlAction : g \in set} = {reply[i].action : i \in DOMAIN reply}
    <3> HIDE DEF set
    <3> QED
      BY <1>2, <1>6
  <2>2. RangeOf(actions) = {reply[i].action : i \in DOMAIN reply}
    BY DEF RangeOf
  <2> QED
    BY <1>8, <2>1, <2>2
<1>10. \A g, h \in set : g.controlAction = h.controlAction => g = h
  <2> SUFFICES ASSUME NEW i \in DOMAIN reply, NEW j \in DOMAIN reply,
                      reply[i].grant.controlAction = reply[j].grant.controlAction
               PROVE  reply[i].grant = reply[j].grant
    BY <1>2
  <2>1. actions[i] = actions[j]
    BY <1>6
  <2>2. DOMAIN actions = DOMAIN reply
    OBVIOUS
  <2> HIDE DEF actions
  <2> QED
    BY <1>5, <2>1, <2>2 DEF IsInjectiveList
<1> HIDE DEF set, wanted
<1> QED
  BY <1>2, <1>6, <1>9, <1>10 DEF Whole, set, wanted, b

-----------------------------------------------------------------------------
(* The inductive invariant.  That a set is whole includes that all of it   *)
(* was signed, and that is what makes the rest inductive.                  *)

ControlInv == TypeOK /\ HeldSetIsWhole

LEMMA SignedGrows == ASSUME [Next]_vars PROVE signed \subseteq signed'
<1>1. ASSUME NEW op \in Uuid, Start(op) PROVE signed \subseteq signed'
  BY <1>1 DEF Start
<1> QED
  BY <1>1 DEF Next, TakeReply, Work, Control, Rebuild, Tick, vars

(* What the property says of one set, and of the grants signed by then. *)
WholeSet(o, set, all) ==
  /\ \E wanted \in RequiredActions :
       {g.controlAction : g \in set} = RangeOf(wanted)
  /\ \A g, h \in set :
       /\ g.controlAction = h.controlAction => g = h
       /\ g \in all
       /\ g.operationID = o
       /\ g.ownerID = Owner
       /\ g.chainID = h.chainID
       /\ g.accountGeneration = h.accountGeneration

LEMMA EachIsWhole ==
  /\ HeldSetIsWhole
       <=> \A o \in Uuid : held[o] # {} => WholeSet(o, held[o], signed)
  /\ HeldSetIsWhole'
       <=> \A o \in Uuid : held'[o] # {} => WholeSet(o, held'[o], signed')
  BY Zenon DEF HeldSetIsWhole, WholeSet

LEMMA StaysWhole ==
  ASSUME NEW o, NEW set, NEW all, NEW more, all \subseteq more,
         WholeSet(o, set, all)
  PROVE  WholeSet(o, set, more)
  BY Zenon DEF WholeSet

(* A reply changes what is held of its own operation, and to a whole set. *)
LEMMA ReplyKeepsWhole ==
  ASSUME ControlInv, NEW op \in Uuid, TakeReply(op)
  PROVE  HeldSetIsWhole'
<1>1. PICK reply \in Reply :
        LET set == VerifyControlGrantEnvelopeSet(
                     Codec(0), reply, AgentClock, EnvelopeBinding(op))
        IN held' = IF set = {} THEN held ELSE [held EXCEPT ![op] = set]
  BY DEF TakeReply
<1>2. PICK length \in ReplyLengths : reply \in [1..length -> Envelope]
  BY DEF Reply
<1> DEFINE set == VerifyControlGrantEnvelopeSet(
                    Codec(0), reply, AgentClock, EnvelopeBinding(op))
           wanted == call[op].required
           b == EnvelopeBinding(op)
<1>3. call[op] \in StartType /\ wanted \in RequiredActions
  BY DEF TakeReply, ControlInv, TypeOK, StartType
<1>4. set # {} => Whole(set, op, wanted, b)
  BY <1>2, <1>3, SetIsWhole, ControlBoundAssumption
<1>5. set \subseteq signed
  BY <1>2, ReplyGrants
<1>6. held' = IF set = {} THEN held ELSE [held EXCEPT ![op] = set]
  BY <1>1
<1>7. signed' = signed /\ DOMAIN held = Uuid
  BY DEF TakeReply, ControlInv, TypeOK
<1> HIDE DEF set, wanted, b
<1>8. set # {} => WholeSet(op, set, signed)
  BY <1>3, <1>4, <1>5 DEF Whole, WholeSet
<1>9. \A o \in Uuid : held[o] # {} => WholeSet(o, held[o], signed)
  BY EachIsWhole DEF ControlInv
<1>10. \A o \in Uuid : held'[o] # {} => WholeSet(o, held'[o], signed')
  BY <1>6, <1>7, <1>8, <1>9
<1> QED
  BY <1>10, EachIsWhole

LEMMA NextWhole == ControlInv /\ [Next]_vars => HeldSetIsWhole'
<1> SUFFICES ASSUME ControlInv, [Next]_vars PROVE HeldSetIsWhole'
  OBVIOUS
<1>1. ASSUME NEW op \in Uuid, TakeReply(op) PROVE HeldSetIsWhole'
  BY <1>1, ReplyKeepsWhole
<1>2. ASSUME held' = held PROVE HeldSetIsWhole'
  <2>1. signed \subseteq signed'
    BY SignedGrows
  <2>2. \A o \in Uuid : held[o] # {} => WholeSet(o, held[o], signed)
    BY EachIsWhole DEF ControlInv
  <2>3. \A o \in Uuid : held'[o] # {} => WholeSet(o, held'[o], signed')
    BY <1>2, <2>1, <2>2, StaysWhole
  <2> QED
    BY <2>3, EachIsWhole
<1>3. (\E op \in Uuid : TakeReply(op)) \/ held' = held
  BY DEF Next, Start, Work, Control, Rebuild, Tick, vars
<1> QED
  BY <1>1, <1>2, <1>3

THEOREM ControlInvariant == Spec => []ControlInv
<1>1. Init => ControlInv
  BY InitTypeOK DEF Init, ControlInv, HeldSetIsWhole
<1>2. ControlInv /\ [Next]_vars => ControlInv'
  BY NextTypeOK, NextWhole DEF ControlInv
<1> QED
  BY <1>1, <1>2, PTL DEF Spec

(* The Agent holds all of a set for one call or none of it, whatever       *)
(* replies arrive, and in whatever order (replay.go:189, :216).            *)
THEOREM SetsAreWhole == Spec => []HeldSetIsWhole
<1>1. ControlInv => HeldSetIsWhole
  BY DEF ControlInv
<1> QED
  BY <1>1, ControlInvariant, PTL

-----------------------------------------------------------------------------
(* Control calls *)

(* What Product has checked when it serves a control call. *)
Serves(g, op, action, ctx) ==
  /\ g.operationID = op
  /\ g.controlAction = action
  /\ g.accountGeneration = generation
  /\ g.chainID = ctx.chainID
  /\ g.entryRoute = <<ctx.route[1]>>
  /\ ctx.deadline <= g.deadline
  /\ now < g.expiresAt
  /\ now < g.issuedAt + DefaultControlGrantTTL

LEMMA VerifiedServes ==
  ASSUME NEW g \in ControlGrantType, NEW op, NEW action, NEW ctx,
         now \in Nat,
         VerifyProductOperationControlGrant(
           Codec(0), g, now, ControlBinding(op, action, ctx))
  PROVE  Serves(g, op, action, ctx)
<1> DEFINE b == ControlBinding(op, action, ctx)
           ttl == ControlTTL(Codec(0))
<1>1. /\ b.ctx = ctx /\ b.accountGeneration = generation
      /\ b.operationID = op /\ b.controlAction = action
  BY DEF ControlBinding
<1>2. ttl \in Int /\ ttl <= DefaultControlGrantTTL
  <2>1. Normalized(Codec(0)).maxTTL = DefaultGrantTTL
    BY DEF Codec, Normalized
  <2> QED
    BY <2>1, ControlTTLAssumption, TTLAssumption DEF ControlTTL
<1> HIDE DEF b, ttl
<1>3. /\ ValidateOperationControlGrant(g, ttl)
      /\ now < g.expiresAt
      /\ ValidateControlBinding(g, b, "product")
  BY Zenon DEF VerifyProductOperationControlGrant, VerifyControlGrantAt, b, ttl
<1>4. /\ g.chainID = ctx.chainID /\ g.accountGeneration = generation
      /\ g.operationID = op /\ g.controlAction = action
      /\ ctx.deadline <= g.deadline
      /\ [route |-> ctx.route, hop |-> ctx.hop]
           = ExpectedControlBoundaryRoute(g, "product")
  BY <1>1, <1>3, Zenon DEF ValidateControlBinding
<1>5. g.expiresAt - g.issuedAt <= ttl
  BY <1>3, Zenon DEF ValidateOperationControlGrant
<1>6. now < g.issuedAt + DefaultControlGrantTTL
  BY <1>2, <1>3, <1>5, ControlTTLAssumption DEF ControlGrantType
<1>7. g.entryRoute = <<ctx.route[1]>>
  <2>1. CASE g.entryRoute = <<"ms">>
    <3>1. ctx.route = <<"ms", "agent", "product">>
      BY <1>4, <2>1 DEF ExpectedControlBoundaryRoute
    <3> QED
      BY <2>1, <3>1
  <2>2. CASE g.entryRoute = <<"agent">>
    <3>1. ctx.route = <<"agent", "product">>
      BY <1>4, <2>2 DEF ExpectedControlBoundaryRoute
    <3> QED
      BY <2>2, <3>1
  <2> QED
    BY <2>1, <2>2 DEF ControlGrantType
<1> QED
  BY <1>3, <1>4, <1>6, <1>7 DEF Serves

LEMMA ControlServes ==
  ASSUME ControlInv, NEW op \in Uuid, NEW action \in ControlAction,
         Control(op, action)
  PROVE  \E g \in signed : \E ctx :
           /\ done' = [operation |-> op, action |-> action, ctx |-> ctx]
           /\ Serves(g, op, action, ctx)
<1>1. PICK g \in Presentable, ctx \in Calls(op) :
        /\ VerifyProductOperationControlGrant(
             Codec(0), g, now, ControlBinding(op, action, ctx))
        /\ done' = [operation |-> op, action |-> action, ctx |-> ctx]
  BY DEF Control
<1>2. PICK holder \in Uuid : g \in held[holder]
  BY DEF Presentable
<1>3. g \in signed /\ g \in ControlGrantType /\ now \in Nat
  <2>1. held[holder] # {} => WholeSet(holder, held[holder], signed)
    BY EachIsWhole DEF ControlInv
  <2> QED
    BY <1>2, <2>1 DEF WholeSet, ControlInv, TypeOK
<1>4. Serves(g, op, action, ctx)
  BY <1>1, <1>3, VerifiedServes
<1> QED
  BY <1>1, <1>3, <1>4

(* Whatever Product did last, it did on the chain and the entry of a grant *)
(* signed for that operation, and within its deadline (grant.go:917, :926).*)
THEOREM ServedOnRoute == Spec => []ServedOnItsOwnRoute
<1>1. Init => ServedOnItsOwnRoute
  BY DEF Init, ServedOnItsOwnRoute
<1>2. ControlInv /\ ServedOnItsOwnRoute /\ [Next]_vars => ServedOnItsOwnRoute'
  <2> SUFFICES ASSUME ControlInv, ServedOnItsOwnRoute, [Next]_vars
               PROVE  ServedOnItsOwnRoute'
    OBVIOUS
  <2>1. ASSUME done' = done \/ done' = None PROVE ServedOnItsOwnRoute'
    <3>1. signed \subseteq signed'
      BY SignedGrows
    <3> QED
      BY <2>1, <3>1 DEF ServedOnItsOwnRoute
  <2>2. ASSUME NEW op \in Uuid, NEW action \in ControlAction, Control(op, action)
        PROVE  ServedOnItsOwnRoute'
    <3>1. PICK g \in signed : \E ctx :
            /\ done' = [operation |-> op, action |-> action, ctx |-> ctx]
            /\ Serves(g, op, action, ctx)
      BY <2>2, ControlServes
    <3>2. g \in signed'
      BY SignedGrows
    <3> QED
      BY <3>1, <3>2 DEF ServedOnItsOwnRoute, Serves
  <2>3. \/ done' = done \/ done' = None
        \/ \E op \in Uuid, action \in ControlAction : Control(op, action)
    BY DEF Next, Start, TakeReply, Work, Rebuild, Tick, vars
  <2> QED
    BY <2>1, <2>2, <2>3
<1> QED
  BY <1>1, <1>2, ControlInvariant, PTL DEF Spec

(* What a step may do to a row without a control grant. *)
LEMMA OtherStepsLeaveRows ==
  ASSUME ControlInv, [Next]_vars,
         ~ \E op \in Uuid, action \in ControlAction : Control(op, action),
         NEW o \in Uuid, row'[o] # row[o]
  PROVE  row[o] # "uncertain" /\ row'[o] # "cancelled"
<1>1. row \in [Uuid -> Op!State]
  BY DEF ControlInv, TypeOK
<1>2. ASSUME NEW op \in Uuid, Start(op)
      PROVE  row[o] # "uncertain" /\ row'[o] # "cancelled"
  <2>1. Op!ValidateOperationStateTransition(row[o], "pending") /\ row'[o] = "pending"
    BY <1>1, <1>2 DEF Start
  <2> QED
    BY <1>1, <2>1
    DEF Op!ValidateOperationStateTransition, Op!IsTerminalOperationState, Op!Terminal
<1>3. ASSUME NEW op \in Uuid, Work(op)
      PROVE  row[o] # "uncertain" /\ row'[o] # "cancelled"
  BY <1>1, <1>3, FoundAssumption DEF Work
<1>4. (\E op \in Uuid : Start(op) \/ Work(op)) \/ row' = row
  BY DEF Next, TakeReply, Rebuild, Tick, vars
<1> QED
  BY <1>2, <1>3, <1>4

(* An operation is cancelled, or decided after it was lost, only under a   *)
(* fresh grant for that action on it (grant.go:865, operation_state.go:92).*)
THEOREM LifecycleUnderGrant == Spec => LifecycleNeedsItsGrant
<1> DEFINE Kept(op) ==
      \/ row'[op] = row[op]
      \/ row[op] # "uncertain" /\ row'[op] # "cancelled"
      \/ \E g \in signed :
           /\ g.operationID = op
           /\ g.controlAction =
                IF row[op] = "uncertain" /\ done'.action = "reconcile"
                THEN "reconcile" ELSE "cancel"
           /\ g.accountGeneration = generation
           /\ now < g.issuedAt + DefaultControlGrantTTL
<1>1. ASSUME ControlInv, [Next]_vars, NEW o \in Uuid PROVE Kept(o)
  <2>1. CASE \E op \in Uuid, action \in ControlAction : Control(op, action)
    <3>1. PICK op \in Uuid, action \in ControlAction : Control(op, action)
      BY <2>1
    <3>2. PICK g \in signed : \E ctx :
            /\ done' = [operation |-> op, action |-> action, ctx |-> ctx]
            /\ Serves(g, op, action, ctx)
      BY <1>1, <3>1, ControlServes
    <3>3. done'.action = action
      BY <3>2
    <3>4. PICK state \in RowAfter(op, action) : row' = [row EXCEPT ![op] = state]
      BY <3>1 DEF Control
    <3>5. DOMAIN row = Uuid
      BY <1>1 DEF ControlInv, TypeOK
    <3>6. CASE o # op
      BY <3>4, <3>5, <3>6
    <3>7. CASE o = op
      <4>1. row'[o] = state
        BY <3>4, <3>5, <3>7
      <4>2. \/ state = row[op]
            \/ action = "cancel" /\ state = "cancelled"
            \/ action = "reconcile" /\ row[op] = "uncertain"
        BY DEF RowAfter, Op!ValidateReconcileTransition
      <4>3. CASE action = "cancel"
        BY <3>2, <3>3, <3>7, <4>3 DEF Serves
      <4>4. CASE action # "cancel"
        BY <3>2, <3>3, <3>7, <4>1, <4>2, <4>4 DEF Serves
      <4> QED
        BY <4>3, <4>4
    <3> QED
      BY <3>6, <3>7
  <2>2. CASE ~ \E op \in Uuid, action \in ControlAction : Control(op, action)
    BY <1>1, <2>2, OtherStepsLeaveRows
  <2> QED
    BY <2>1, <2>2
<1> DEFINE A == \A op \in Uuid : Kept(op)
<1>2. ControlInv /\ [Next]_vars => [A]_vars
  BY <1>1
<1>3. Spec => [][A]_vars
  BY <1>2, ControlInvariant, PTL DEF Spec
<1> QED
  BY <1>3 DEF LifecycleNeedsItsGrant

-----------------------------------------------------------------------------
(* The refinement.  A Start issues permits, a control call acts under one, *)
(* and the Agent and the work are invisible.                               *)

PermitOf(g) ==
  [operation |-> g.operationID, action |-> g.controlAction,
   generation |-> g.accountGeneration, until |-> g.expiresAt]

PermitsOf(set) == {PermitOf(g) : g \in set}

ActOf(d) ==
  IF d = None THEN None ELSE [operation |-> d.operation, action |-> d.action]

(* The abstract step, over what the concrete state maps to. *)
LEMMA PermitSteps ==
  /\ Permits!Init
       <=> now = 1 /\ generation = 1 /\ PermitsOf(signed) = {} /\ ActOf(done) = None
  /\ Permits!Issue
       <=> /\ PermitsOf(signed) \subseteq PermitsOf(signed')
           /\ \A p \in PermitsOf(signed') \ PermitsOf(signed) :
                \E op \in Uuid, a \in ControlAction,
                   t \in (now + 1)..(now + DefaultControlGrantTTL) :
                  p = Permits!Permit(op, a, generation, t)
           /\ now' = now /\ generation' = generation
           /\ ActOf(done') = ActOf(done)
  /\ Permits!Act
       <=> /\ \E op \in Uuid, a \in ControlAction, p \in PermitsOf(signed) :
                /\ p = Permits!Permit(op, a, generation, p.until)
                /\ now < p.until
                /\ ActOf(done') = [operation |-> op, action |-> a]
           /\ now' = now /\ generation' = generation
           /\ PermitsOf(signed') = PermitsOf(signed)
  /\ Permits!Rebuild
       <=> /\ generation' = generation + 1
           /\ now' = now /\ PermitsOf(signed') = PermitsOf(signed)
           /\ ActOf(done') = ActOf(done)
  /\ Permits!Tick
       <=> /\ now' = now + 1 /\ ActOf(done') = None
           /\ generation' = generation /\ PermitsOf(signed') = PermitsOf(signed)
  /\ UNCHANGED Permits!vars
       <=> /\ now' = now /\ generation' = generation
           /\ PermitsOf(signed') = PermitsOf(signed) /\ ActOf(done') = ActOf(done)
  BY DEF Permits!Init, Permits!Issue, Permits!Act, Permits!Rebuild, Permits!Tick,
         Permits!vars, PermitsOf, PermitOf, ActOf

LEMMA StartIssues ==
  ASSUME ControlInv, NEW op \in Uuid, Start(op)
  PROVE  Permits!Issue
<1>1. PICK chain \in Uuid, entry \in Entries, time \in CallTime, life \in Lives,
           wanted \in RequiredActions :
        LET ctx == ProductCall(chain, op, entry, now + time) IN
        /\ ctx # NoContext
        /\ signed' = signed \cup
             ({GrantFor(op, ctx, action, life) : action \in RangeOf(wanted)}
                \ {NoControlGrant})
  BY DEF Start
<1> DEFINE ctx == ProductCall(chain, op, entry, now + time)
<1>2. now + time \in Nat /\ now \in Nat \ {0} /\ generation \in 1..MaxAccountGeneration
  BY ControlBoundAssumption DEF ControlInv, TypeOK
<1>3. ctx \in ProductContextType
  BY <1>1, <1>2, ProductCallType
<1>4. RangeOf(wanted) \subseteq ControlAction
  BY ActionAssumption, ElementOfSeq DEF RangeOf
<1>5. signed' = signed \cup
        ({GrantFor(op, ctx, action, life) : action \in RangeOf(wanted)}
           \ {NoControlGrant})
  BY <1>1
<1> HIDE DEF ctx
<1>6. ASSUME NEW g \in signed' \ signed
      PROVE  \E a \in ControlAction,
                t \in (now + 1)..(now + DefaultControlGrantTTL) :
               PermitOf(g) = Permits!Permit(op, a, generation, t)
  <2>1. PICK action \in ControlAction :
          g = GrantFor(op, ctx, action, life) /\ g # NoControlGrant
    BY <1>4, <1>5
  <2>2. /\ g.operationID = op /\ g.controlAction = action
        /\ g.accountGeneration = generation
        /\ g.expiresAt \in (now + 1)..(now + DefaultControlGrantTTL)
    BY <1>2, <1>3, <2>1, GrantForClaims, LivesAssumption
  <2> QED
    BY <2>2 DEF PermitOf, Permits!Permit
<1>7. \A p \in PermitsOf(signed') \ PermitsOf(signed) :
        \E o \in Uuid, a \in ControlAction,
           t \in (now + 1)..(now + DefaultControlGrantTTL) :
          p = Permits!Permit(o, a, generation, t)
  <2> SUFFICES ASSUME NEW g \in signed', g \notin signed
               PROVE  \E o \in Uuid, a \in ControlAction,
                         t \in (now + 1)..(now + DefaultControlGrantTTL) :
                        PermitOf(g) = Permits!Permit(o, a, generation, t)
    BY Zenon DEF PermitsOf
  <2> QED
    BY <1>6
<1>8. PermitsOf(signed) \subseteq PermitsOf(signed')
  BY <1>5 DEF PermitsOf
<1>9. now' = now /\ generation' = generation /\ done' = done
  BY DEF Start
<1> QED
  BY <1>7, <1>8, <1>9, PermitSteps

LEMMA ControlActs ==
  ASSUME ControlInv, NEW op \in Uuid, NEW action \in ControlAction,
         Control(op, action)
  PROVE  Permits!Act
<1>1. PICK g \in signed : \E ctx :
        /\ done' = [operation |-> op, action |-> action, ctx |-> ctx]
        /\ Serves(g, op, action, ctx)
  BY ControlServes
<1>2. /\ g.operationID = op /\ g.controlAction = action
      /\ g.accountGeneration = generation /\ now < g.expiresAt
  BY <1>1 DEF Serves
<1>3. ActOf(done') = [operation |-> op, action |-> action]
  <2>1. done' # None
    BY ControlType, NothingAssumption DEF ControlInv
  <2> QED
    BY <1>1, <2>1 DEF ActOf
<1> DEFINE p == PermitOf(g)
<1>4. p \in PermitsOf(signed)
  BY DEF PermitsOf
<1>5. p = Permits!Permit(op, action, generation, p.until) /\ now < p.until
  BY <1>2 DEF PermitOf, Permits!Permit
<1>6. now' = now /\ generation' = generation /\ signed' = signed
  BY DEF Control
<1> HIDE DEF p
<1>7. \E o \in Uuid, a \in ControlAction, q \in PermitsOf(signed) :
        /\ q = Permits!Permit(o, a, generation, q.until)
        /\ now < q.until
        /\ ActOf(done') = [operation |-> o, action |-> a]
  BY <1>3, <1>4, <1>5
<1> QED
  BY <1>6, <1>7, PermitSteps

(* Product acts on operations only as ControlPermit allows: each control   *)
(* action under a short permit for it that has not run out and was issued  *)
(* to the account as it is (grant.go:877, :913).                           *)
THEOREM ControlIsByPermit == Spec => ImplementsPermits
<1>1. Init => Permits!Init
  <2> SUFFICES ASSUME Init PROVE Permits!Init
    OBVIOUS
  <2>1. PermitsOf(signed) = {} /\ ActOf(done) = None
    BY DEF Init, PermitsOf, ActOf
  <2> QED
    BY <2>1, PermitSteps DEF Init
<1>2. ControlInv /\ [Next]_vars => [Permits!Next]_Permits!vars
  <2> SUFFICES ASSUME ControlInv, [Next]_vars
               PROVE  [Permits!Next]_Permits!vars
    OBVIOUS
  <2>1. ASSUME NEW op \in Uuid, Start(op) PROVE Permits!Next
    BY <2>1, StartIssues DEF Permits!Next
  <2>2. ASSUME NEW op \in Uuid, NEW action \in ControlAction, Control(op, action)
        PROVE  Permits!Next
    BY <2>2, ControlActs DEF Permits!Next
  <2>3. CASE Rebuild
    BY <2>3, PermitSteps DEF Rebuild, Permits!Next
  <2>4. CASE Tick
    <3>1. ActOf(done') = None
      BY <2>4 DEF Tick, ActOf
    <3> QED
      BY <2>4, <3>1, PermitSteps DEF Tick, Permits!Next
  <2>5. ASSUME now' = now, generation' = generation, signed' = signed, done' = done
        PROVE  UNCHANGED Permits!vars
    BY <2>5, PermitSteps
  <2>6. ASSUME NEW op \in Uuid, TakeReply(op) \/ Work(op)
        PROVE  UNCHANGED Permits!vars
    BY <2>5, <2>6 DEF TakeReply, Work
  <2>7. CASE UNCHANGED vars
    BY <2>5, <2>7 DEF vars
  <2> QED
    BY <2>1, <2>2, <2>3, <2>4, <2>6, <2>7 DEF Next
<1> QED
  BY <1>1, <1>2, ControlInvariant, PTL DEF Spec, ImplementsPermits, Permits!Spec

-----------------------------------------------------------------------------
(* Replies that are not late.  What the Agent remembers of a Start is a    *)
(* call that every receiver takes, and that is inductive.                  *)

CallsAreStrict ==
  \A op \in Uuid : call[op] # None => ValidateStrictCallContext(call[op].ctx)

LEMMA AcceptedIsStrict ==
  ASSUME NEW ctx \in ProductContextType, ctx.hop = Len(ctx.route),
         ctx.deadline > 0
  PROVE  ValidateStrictCallContext(ctx)
<1> DEFINE r == ctx.route
<1>1. r = <<"agent", "product">> \/ r = <<"ms", "agent", "product">>
  BY DEF ProductContextType
<1>2. r \in Seq(Node) /\ Len(r) <= MaxCallHop /\ Len(r) \in 0..MaxCallHop
  <2>1. CASE r = <<"agent", "product">>
    BY <2>1 DEF Node, MaxCallHop
  <2>2. CASE r = <<"ms", "agent", "product">>
    BY <2>2 DEF Node, MaxCallHop
  <2> QED
    BY <1>1, <2>1, <2>2
<1>3. RouteLength(r) <= MaxRouteLength
  <2>1. RouteLength(r) \in 0..27
    BY <1>2, ShortRoutes
  <2> QED
    BY <2>1 DEF MaxRouteLength
<1>4. ParseRoute(r)
  BY <1>2 DEF ParseRoute, RangeOf
<1>5. DetectCycle(r)
  BY <1>1 DEF DetectCycle
<1>6. /\ ctx.chainID \in Uuid /\ ctx.rootOperationID \in Uuid
      /\ ctx.parentCallID = Missing
  BY DEF ProductContextType
<1> HIDE DEF r
<1>7. ctx.hop = Len(r)
  BY DEF r
<1> QED
  BY <1>2, <1>3, <1>4, <1>5, <1>6, <1>7, Zenon
  DEF ValidateStrictCallContext, ValidateCallContext, r

LEMMA NextStrict == ControlInv /\ CallsAreStrict /\ [Next]_vars => CallsAreStrict'
<1> SUFFICES ASSUME ControlInv, CallsAreStrict, [Next]_vars
             PROVE  CallsAreStrict'
  OBVIOUS
<1>1. ASSUME NEW op \in Uuid, Start(op) PROVE CallsAreStrict'
  <2>1. PICK chain \in Uuid, entry \in Entries, time \in CallTime,
             wanted \in RequiredActions :
          LET ctx == ProductCall(chain, op, entry, now + time) IN
          /\ ctx # NoContext
          /\ call' = [call EXCEPT ![op] = [ctx |-> ctx, generation |-> generation,
                                         required |-> wanted]]
    BY <1>1 DEF Start
  <2> DEFINE ctx == ProductCall(chain, op, entry, now + time)
  <2>2. now + time \in Nat /\ now + time > 0
    BY ControlBoundAssumption DEF ControlInv, TypeOK
  <2>3. /\ ctx \in ProductContextType /\ ctx.hop = Len(ctx.route)
        /\ ctx.deadline > 0
    BY <2>1, <2>2, ProductCallType
  <2> HIDE DEF ctx
  <2>4. ValidateStrictCallContext(ctx)
    BY <2>3, AcceptedIsStrict
  <2>5. DOMAIN call = Uuid
    BY DEF ControlInv, TypeOK
  <2> QED
    BY <2>1, <2>4, <2>5, Zenon DEF CallsAreStrict, ctx
<1>2. ASSUME call' = call PROVE CallsAreStrict'
  BY <1>2 DEF CallsAreStrict
<1>3. (\E op \in Uuid : Start(op)) \/ call' = call
  BY DEF Next, TakeReply, Work, Control, Rebuild, Tick, vars
<1> QED
  BY <1>1, <1>2, <1>3

(* No list of different control actions is longer than a set may be.       *)
LEMMA FewActions ==
  ASSUME NEW s \in Seq(ControlAction), IsInjectiveList(s)
  PROVE  Len(s) <= MaxOperationControlGrantEnvelopes
<1> DEFINE n == Len(s)
           number(a) == IF a = "get" THEN 1 ELSE IF a = "watch" THEN 2
                        ELSE IF a = "cancel" THEN 3 ELSE 4
           f == [i \in 1..n |-> number(s[i])]
<1>1. DOMAIN s = 1..n /\ n \in Nat /\ \A i \in 1..n : s[i] \in ControlAction
  OBVIOUS
<1>2. \A a, b \in ControlAction : number(a) \in 1..4 /\ (number(a) = number(b) => a = b)
  BY DEF ControlAction
<1> HIDE DEF n, number
<1>3. f \in Injection(1..n, 1..4)
  BY <1>1, <1>2 DEF Injection, IsInjective, IsInjectiveList
<1>4. /\ IsFiniteSet(1..n) /\ Cardinality(1..n) = n
      /\ IsFiniteSet(1..4) /\ Cardinality(1..4) = 4
  <2>1. \A m \in Nat : IsFiniteSet(1..m) /\ Cardinality(1..m) = m
    BY FS_Interval
  <2> QED
    BY <1>1, <2>1
<1>5. n <= 4
  BY <1>3, <1>4, FS_Injection
<1> QED
  BY <1>5 DEF n, MaxOperationControlGrantEnvelopes

(* What the Agent compares a fresh reply with.                             *)
InTime(op, lives) ==
  /\ call[op].generation = generation
  /\ call[op].ctx.deadline <= now + lives
  /\ AgentClock > 0
  /\ drift \in (-ClockSkew)..(lives - 1)
  /\ lives - drift <= DefaultControlGrantTTL

(* One grant of a fresh reply is accepted when all of them are.            *)
LEMMA FreshGrant ==
  ASSUME ControlInv, CallsAreStrict, NEW op \in Uuid, call[op] # None,
         NEW action \in ControlAction, NEW life \in Nat \ {0}
  PROVE  LET g == GrantFor(op, call[op].ctx, action, life)
             b == EnvelopeBinding(op)
             lives == ControlTTL(Codec(life))
         IN /\ g # NoControlGrant
            /\ g.expiresAt = now + lives
            /\ ControlBoundary(b.ctx.route) = "product"
            /\ VerifyControlGrantAt(Codec(0), g, AgentClock,
                                    ActionBinding(b, action), "product")
                 <=> /\ call[op].generation = generation
                     /\ call[op].ctx.deadline <= now + lives
                     /\ drift \in (-ClockSkew)..(lives - 1)
<1> DEFINE ctx == call[op].ctx
           g == GrantFor(op, ctx, action, life)
           b == EnvelopeBinding(op)
           a == ActionBinding(b, action)
           lives == ControlTTL(Codec(life))
<1>1. call[op] \in StartType /\ ctx \in ProductContextType
  BY DEF ControlInv, TypeOK, StartType
<1>2. now \in Nat \ {0} /\ generation \in 1..MaxAccountGeneration
      /\ drift \in Int /\ ClockSkew \in Nat
  BY SkewsAssumption DEF ControlInv, TypeOK
<1>3. lives \in 1..DefaultControlGrantTTL /\ lives \in Nat
  BY LifeTTL, ControlTTLAssumption
<1>4. /\ g \in ControlGrantType
      /\ g.operationID = op /\ g.controlAction = action
      /\ g.controlScope = ControlScope(action)
      /\ g.chainID = ctx.chainID /\ g.ownerID = Owner
      /\ g.entryRoute = <<ctx.route[1]>>
      /\ g.accountGeneration = generation /\ g.issuedAt = now
      /\ g.expiresAt = now + lives /\ g.deadline = now + lives
  BY <1>1, <1>2, GrantForClaims
<1>5. g # NoControlGrant
  BY <1>4, IdentifierAssumption DEF ControlGrantType, NoControlGrant
<1>6. ValidateStrictCallContext(ctx) /\ ctx.hop = Len(ctx.route) /\ ctx.deadline \in Nat
  BY <1>1
  DEF CallsAreStrict, ValidateStrictCallContext, ValidateCallContext, ProductContextType
<1>7. /\ a.ctx = ctx /\ a.ownerID = Owner /\ a.operationID = op
      /\ a.accountGeneration = call[op].generation
      /\ a.controlAction = action /\ a.controlScope = ControlScope(action)
      /\ b.ctx = ctx
  BY DEF EnvelopeBinding, ActionBinding
<1>8. /\ ControlBoundary(ctx.route) = "product"
      /\ [route |-> ctx.route, hop |-> ctx.hop]
           = ExpectedControlBoundaryRoute(g, "product")
  <2> HIDE DEF g
  <2>1. g.entryHop = 1
    BY <1>4 DEF ControlGrantType
  <2>2. CASE ctx.route = <<"ms", "agent", "product">>
    <3>1. g.entryRoute = <<"ms">> /\ ctx.hop = 3
      BY <1>4, <1>6, <2>2
    <3> QED
      BY <2>1, <2>2, <3>1 DEF ControlBoundary, ExpectedControlBoundaryRoute
  <2>3. CASE ctx.route = <<"agent", "product">>
    <3>1. g.entryRoute = <<"agent">> /\ ctx.hop = 2 /\ g.entryRoute # <<"ms">>
      BY <1>4, <1>6, <2>3
    <3> QED
      BY <2>1, <2>3, <3>1 DEF ControlBoundary, ExpectedControlBoundaryRoute
  <2> QED
    BY <1>1, <2>2, <2>3 DEF ProductContextType
<1>9. /\ ControlTTL(Codec(0)) = DefaultControlGrantTTL
      /\ Normalized(Codec(0)).clockSkew = ClockSkew
  <2>1. /\ Normalized(Codec(0)).maxTTL = DefaultGrantTTL
        /\ Normalized(Codec(0)).clockSkew = ClockSkew
    BY <1>2 DEF Codec, Normalized
  <2> QED
    BY <2>1, ControlTTLAssumption, TTLAssumption DEF ControlTTL
<1> HIDE DEF g, a, b, lives
<1>10. ValidateOperationControlGrant(g, DefaultControlGrantTTL)
  <2>1. /\ g.deadline <= g.expiresAt /\ 0 < g.deadline /\ 0 < g.issuedAt
        /\ g.issuedAt < g.expiresAt
        /\ g.expiresAt - g.issuedAt <= DefaultControlGrantTTL
    BY <1>2, <1>3, <1>4, ControlTTLAssumption
  <2>2. ValidateEntryRoute(g.entryRoute, g.entryHop)
    BY <1>4 DEF ControlGrantType, ValidateEntryRoute
  <2>3. /\ g.chainID \in Uuid /\ g.operationID \in Uuid
        /\ g.ownerID \in OwnerID
        /\ g.accountGeneration \in 1..MaxAccountGeneration
    BY <1>4 DEF ControlGrantType
  <2> QED
    BY <1>4, <2>1, <2>2, <2>3, Zenon DEF ValidateOperationControlGrant
<1>11. ValidateControlBinding(g, a, "product")
         <=> call[op].generation = generation /\ ctx.deadline <= now + lives
  <2>1. op # Missing /\ Owner # Missing /\ call[op].generation > 0
    BY <1>1, IdentifierAssumption, OwnerAssumption, AccountAssumption DEF StartType
  <2>2. "product" # "agent"
    OBVIOUS
  <2> QED
    BY <1>4, <1>6, <1>7, <1>8, <2>1, <2>2, Zenon DEF ValidateControlBinding
<1>12. /\ AgentClock < g.expiresAt <=> drift <= lives - 1
       /\ AgentClock + ClockSkew >= g.issuedAt <=> drift >= -ClockSkew
  BY <1>2, <1>3, <1>4 DEF AgentClock
<1>13. drift \in (-ClockSkew)..(lives - 1)
         <=> drift <= lives - 1 /\ drift >= -ClockSkew
  BY <1>2, <1>3
<1>14. VerifyControlGrantAt(Codec(0), g, AgentClock, a, "product")
         <=> /\ call[op].generation = generation
             /\ ctx.deadline <= now + lives
             /\ drift \in (-ClockSkew)..(lives - 1)
  BY <1>9, <1>10, <1>11, <1>12, <1>13 DEF VerifyControlGrantAt
<1> QED
  BY <1>4, <1>5, <1>7, <1>8, <1>14 DEF g, a, b, lives

(* All of a fresh reply is accepted, or nothing.                           *)
LEMMA FreshReplyTaken ==
  ASSUME ControlInv, CallsAreStrict, NEW op \in Uuid, call[op] # None,
         NEW life \in Nat \ {0},
         call[op].required # <<>>, IsInjectiveList(call[op].required)
  PROVE  VerifyControlGrantEnvelopeSet(Codec(0), FreshReply(op, life), AgentClock,
                                       EnvelopeBinding(op)) # {}
           <=> InTime(op, ControlTTL(Codec(life)))
<1> DEFINE wanted == call[op].required
           reply == FreshReply(op, life)
           b == EnvelopeBinding(op)
           lives == ControlTTL(Codec(life))
           n == Len(wanted)
<1>1. wanted \in Seq(ControlAction) /\ call[op] \in StartType
  BY ActionAssumption DEF ControlInv, TypeOK, StartType
<1>2. n \in Nat \ {0} /\ DOMAIN wanted = 1..n /\ n <= MaxOperationControlGrantEnvelopes
  <2>1. n # 0
    BY <1>1, EmptySeq
  <2> HIDE DEF wanted
  <2>2. n \in Nat /\ DOMAIN wanted = 1..n
    BY <1>1
  <2>3. IsInjectiveList(wanted)
    BY DEF wanted
  <2> QED
    BY <1>1, <2>1, <2>2, <2>3, FewActions
<1>3. /\ now \in Nat \ {0} /\ drift \in Int
      /\ lives \in 1..DefaultControlGrantTTL /\ DefaultControlGrantTTL \in Nat
  BY LifeTTL, SkewsAssumption, ControlTTLAssumption DEF ControlInv, TypeOK
<1>4. /\ b.requiredActions = wanted /\ b.ctx = call[op].ctx
      /\ b.ownerID = Owner /\ b.operationID = op
      /\ b.accountGeneration = call[op].generation
  BY DEF EnvelopeBinding
<1>5. /\ DOMAIN reply = 1..n
      /\ Len(reply) = n
      /\ \A i \in 1..n :
           /\ wanted[i] \in ControlAction /\ wanted[i] \in RangeOf(wanted)
           /\ reply[i].action = wanted[i]
           /\ reply[i].grant = GrantFor(op, call[op].ctx, wanted[i], life)
           /\ reply[i].expiresAt = reply[i].grant.expiresAt
  <2>1. DOMAIN reply = 1..n
    BY <1>2 DEF FreshReply
  <2>2. \A i \in 1..n :
           /\ wanted[i] \in ControlAction /\ wanted[i] \in RangeOf(wanted)
           /\ reply[i].action = wanted[i]
           /\ reply[i].grant = GrantFor(op, call[op].ctx, wanted[i], life)
           /\ reply[i].expiresAt = reply[i].grant.expiresAt
    BY <1>1, <1>2 DEF FreshReply, RangeOf
  <2>3. reply = [i \in 1..n |-> reply[i]]
    BY <1>2 DEF FreshReply
  <2> HIDE DEF reply, n
  <2>4. Len(reply) = n
    BY <1>2, <2>1, <2>3
  <2> QED
    BY <2>1, <2>2, <2>4
<1> HIDE DEF reply, b, lives, n
<1>6. \A i \in 1..n :
        /\ reply[i].grant # NoControlGrant
        /\ reply[i].grant.expiresAt = now + lives
        /\ ControlBoundary(b.ctx.route) = "product"
        /\ VerifyControlGrantAt(Codec(0), reply[i].grant, AgentClock,
                                ActionBinding(b, reply[i].action), "product")
             <=> /\ call[op].generation = generation
                 /\ call[op].ctx.deadline <= now + lives
                 /\ drift \in (-ClockSkew)..(lives - 1)
  BY <1>5, FreshGrant DEF b, lives
<1>7. 1 \in 1..n
  BY <1>2
<1>8. /\ RangeOf(wanted) \subseteq ControlAction
      /\ IsInjectiveList(wanted)
      /\ IsInjectiveList([i \in DOMAIN reply |-> reply[i].action])
      /\ reply # <<>>
  <2>1. RangeOf(wanted) \subseteq ControlAction
    BY <1>2, <1>5 DEF RangeOf
  <2>2. IsInjectiveList(wanted)
    OBVIOUS
  <2>3. IsInjectiveList([i \in DOMAIN reply |-> reply[i].action])
    BY <1>2, <1>5, <2>2 DEF IsInjectiveList
  <2>4. reply # <<>>
    BY <1>5, <1>7
  <2> QED
    BY <2>1, <2>2, <2>3, <2>4
<1>9. ValidateControlGrantEnvelopeBinding(b)
  <2>1. ValidateStrictCallContext(b.ctx)
    BY <1>4 DEF CallsAreStrict
  <2>2. call[op].generation > 0 /\ Owner \in OwnerID
    BY <1>1, AccountAssumption, OwnerAssumption DEF StartType
  <2>3. b.requiredActions # <<>>
    BY <1>4
  <2> QED
    BY <1>4, <2>1, <2>2, <2>3, Zenon DEF ValidateControlGrantEnvelopeBinding
<1>10. ValidateOperationControlGrantEnvelopes(reply, AgentClock)
         <=> /\ AgentClock > 0
             /\ AgentClock < now + lives
             /\ (now + lives) - AgentClock <= DefaultControlGrantTTL
  <2>1. \A i \in DOMAIN reply :
          /\ reply[i].action \in ControlAction
          /\ reply[i].grant # NoControlGrant
          /\ reply[i].expiresAt = now + lives
    BY <1>5, <1>6
  <2>2. Len(reply) <= MaxOperationControlGrantEnvelopes /\ 1 \in DOMAIN reply
    BY <1>2, <1>5, <1>7
  <2> QED
    BY <1>8, <2>1, <2>2, Zenon DEF ValidateOperationControlGrantEnvelopes
<1>11. /\ AgentClock < now + lives <=> drift <= lives - 1
       /\ (now + lives) - AgentClock <= DefaultControlGrantTTL
            <=> lives - drift <= DefaultControlGrantTTL
  BY <1>3 DEF AgentClock
<1>12. drift \in (-ClockSkew)..(lives - 1) => drift <= lives - 1
  BY <1>3, SkewsAssumption
<1> DEFINE accepted ==
      /\ ValidateOperationControlGrantEnvelopes(reply, AgentClock)
      /\ \A i \in DOMAIN reply :
           VerifyControlGrantAt(Codec(0), reply[i].grant, AgentClock,
                                ActionBinding(b, reply[i].action), "product")
<1>13. VerifyControlGrantEnvelopeSet(Codec(0), reply, AgentClock, b)
         = IF accepted THEN {reply[i].grant : i \in DOMAIN reply} ELSE {}
  <2>1. /\ Len(reply) = Len(b.requiredActions)
        /\ IsInjectiveList(b.requiredActions)
        /\ RangeOf(b.requiredActions) \subseteq ControlAction
        /\ \A i \in DOMAIN reply :
             /\ reply[i].action \in RangeOf(b.requiredActions)
             /\ reply[i].expiresAt = reply[i].grant.expiresAt
    BY <1>4, <1>5, <1>8 DEF n
  <2>2. ControlBoundary(b.ctx.route) = "product" /\ "product" # "unsupported"
    BY <1>6, <1>7
  <2> QED
    BY <1>9, <2>1, <2>2, Zenon DEF VerifyControlGrantEnvelopeSet
<1>14. {reply[i].grant : i \in DOMAIN reply} # {}
  BY <1>5, <1>7
<1>15. accepted
         <=> /\ AgentClock > 0
             /\ AgentClock < now + lives
             /\ (now + lives) - AgentClock <= DefaultControlGrantTTL
             /\ call[op].generation = generation
             /\ call[op].ctx.deadline <= now + lives
             /\ drift \in (-ClockSkew)..(lives - 1)
  BY <1>5, <1>6, <1>7, <1>10
<1>16. accepted <=> InTime(op, lives)
  BY <1>11, <1>12, <1>15 DEF InTime
<1> HIDE DEF accepted
<1> QED
  BY <1>13, <1>14, <1>16 DEF reply, b, lives

(* A set that the Agent gets as it was signed is accepted in exactly the   *)
(* clock skews, deadlines and lives that FreshSetAccepted gives, whatever  *)
(* the actions it wants: some, and each once (validation.go:42,            *)
(* grant.go:873, :920).                                                    *)
THEOREM FreshSetsAreTaken ==
  ASSUME \A wanted \in RequiredActions : wanted # <<>> /\ IsInjectiveList(wanted)
  PROVE  Spec => []FreshSetAccepted
<1> DEFINE Inv == ControlInv /\ CallsAreStrict
<1>1. Init => Inv
  <2>1. Init => CallsAreStrict
    BY DEF Init, CallsAreStrict
  <2>2. Init => ControlInv
    BY InitTypeOK DEF Init, ControlInv, HeldSetIsWhole
  <2> QED
    BY <2>1, <2>2
<1>2. Inv /\ [Next]_vars => Inv'
  BY NextTypeOK, NextWhole, NextStrict DEF ControlInv
<1>3. Inv => FreshSetAccepted
  <2> SUFFICES ASSUME Inv, NEW op \in Uuid, call[op] # None,
                      NEW life \in 1..(DefaultControlGrantTTL + 1)
               PROVE  LET lives == IF life > DefaultControlGrantTTL
                                   THEN DefaultControlGrantTTL ELSE life
                      IN VerifyControlGrantEnvelopeSet(
                           Codec(0), FreshReply(op, life), AgentClock,
                           EnvelopeBinding(op)) # {}
                         <=> InTime(op, lives)
    BY DEF FreshSetAccepted, InTime
  <2>1. life \in Nat \ {0}
    BY ControlTTLAssumption
  <2>2. call[op].required \in RequiredActions
    BY DEF ControlInv, TypeOK, StartType
  <2> QED
    BY <2>1, <2>2, FreshReplyTaken, LifeTTL
<1> QED
  BY <1>1, <1>2, <1>3, PTL DEF Spec
=============================================================================

-------------------------- MODULE ControlLifecycle --------------------------
(***************************************************************************)
(* Control of running operations.  The Agent starts an operation at        *)
(* Product, again after a lost reply, and each reply carries a set of      *)
(* control grants that Product signed for the call.  Replies may be        *)
(* delayed, repeated, reordered, or put together wrongly by the server;    *)
(* the Agent keeps a set only if all of it verifies.  A control call       *)
(* presents one grant, and Product acts on the operation's row.  The       *)
(* services are in the consuming nodes; every decision they take here is   *)
(* one of the library's.                                                   *)
(***************************************************************************)
EXTENDS ControlGrants

CONSTANTS
  Owner,            \* who the operations are for
  RequiredActions,  \* the lists of actions the Agent may want with a Start
  Drift,            \* how far the Agent's clock may be from Product's
  ClockSkew,        \* the skew the receivers' codecs allow
  Lives,            \* how long Product lets grants live
  Entries,          \* the nodes where chains may enter
  Found,            \* bound: the outcomes work and reconciliation find
  CallTime,         \* bound: how long a call may be given
  ReplyLengths,     \* bound: the envelopes of a reply
  MaxTime,          \* bound: the clock
  MaxStarts,        \* bound: Starts sent
  None              \* nothing

ASSUME OwnerAssumption == Owner \in OwnerID \ {Missing}
ASSUME ActionAssumption == RequiredActions \subseteq Seq(ControlAction)
ASSUME EntriesAssumption == Entries \subseteq {"ms", "agent"}
ASSUME LivesAssumption == Lives \subseteq Nat \ {0}
ASSUME SkewsAssumption == ClockSkew \in Nat /\ Drift \subseteq Int
ASSUME ControlBoundAssumption ==
  /\ MaxTime \in Nat /\ MaxStarts \in Nat
  /\ CallTime \subseteq Nat /\ ReplyLengths \subseteq Nat

Op == INSTANCE OperationState WITH
        OperationID <- Uuid, CapabilityID <- Descriptor,
        Operation <- Descriptor, Grant <- {}

ASSUME FoundAssumption == Found \subseteq {"completed", "failed"}

VARIABLES
  now,         \* Product's clock, which message-server shares
  drift,       \* the Agent's clock minus Product's
  generation,  \* the account's generation
  call,        \* for each operation, the Start the Agent sent last
  row,         \* its state in Product's ledger
  starts,      \* Starts answered so far
  signed,      \* the control grants in all the sets
  held,        \* for each operation, the set the Agent holds
  done         \* the last control action Product took at this time

vars == <<now, drift, generation, call, row, starts, signed, held, done>>

AgentClock == now + drift

Codec(life) == [maxTTL |-> life, clockSkew |-> ClockSkew]

(* A call of the Agent to Product, as Product accepts it. *)
ProductCall(chain, root, entry, deadline) ==
  LET ctx == NewCallContext(chain, root, deadline)
      atAgent == IF entry = "agent" THEN AppendCallNode(ctx, "agent")
                 ELSE AppendCallNode(AppendCallNode(ctx, "ms"), "agent")
  IN ValidateAndAdvanceProductCallContext(atAgent)

-----------------------------------------------------------------------------
Init ==
  /\ now = 1
  /\ drift \in Drift
  /\ generation = 1
  /\ call = [op \in Uuid |-> None]
  /\ row = [op \in Uuid |-> "unspecified"]
  /\ starts = 0
  /\ signed = {}
  /\ held = [op \in Uuid |-> {}]
  /\ done = None

(* The grant Product signs for one action of a call. *)
GrantFor(op, ctx, action, life) ==
  SignOperationControlGrant(
    Codec(life),
    [NoControlGrant EXCEPT
       !.chainID = ctx.chainID, !.ownerID = Owner,
       !.accountGeneration = generation, !.operationID = op,
       !.controlAction = action, !.controlScope = ControlScope(action),
       !.entryRoute = <<ctx.route[1]>>, !.entryHop = 1],
    now)

(* A Start, or its replay on the same or another chain, reaches Product.   *)
(* Only the first creates a row; each is answered with a new set.          *)
Start(op) ==
  /\ starts < MaxStarts
  /\ starts' = starts + 1
  /\ \E chain \in Uuid, entry \in Entries, time \in CallTime,
        life \in Lives, wanted \in RequiredActions :
       LET ctx == ProductCall(chain, op, entry, now + time) IN
       /\ ctx # NoContext
       /\ call' = [call EXCEPT ![op] = [ctx |-> ctx, generation |-> generation,
                                      required |-> wanted]]
       /\ signed' = signed \cup
            ({GrantFor(op, ctx, action, life) : action \in RangeOf(wanted)}
               \ {NoControlGrant})
  /\ row' = [row EXCEPT ![op] =
               IF Op!ValidateOperationStateTransition(@, "pending")
               THEN "pending" ELSE @]
  /\ UNCHANGED <<now, drift, generation, held, done>>

EnvelopeBinding(op) ==
  [ctx |-> call[op].ctx, ownerID |-> Owner,
   accountGeneration |-> call[op].generation, operationID |-> op,
   requiredActions |-> call[op].required]

(* An envelope as a server should write it, or with another expiry. *)
Envelope ==
  {[action |-> g.controlAction, grant |-> g, expiresAt |-> g.expiresAt + later] :
     g \in signed, later \in {0, 1}}

(* A reply: any list of envelopes made of grants that were signed, for     *)
(* this operation or another, now or before.                               *)
Reply == UNION {[1..length -> Envelope] : length \in ReplyLengths}

(* A reply to its Start reaches the Agent, which keeps the set only if all *)
(* of the reply verifies.                                                  *)
TakeReply(op) ==
  /\ call[op] # None
  /\ \E set \in {VerifyControlGrantEnvelopeSet(
                   Codec(0), reply, AgentClock, EnvelopeBinding(op)) :
                 reply \in Reply} :
       held' = IF set = {} THEN held ELSE [held EXCEPT ![op] = set]
  /\ UNCHANGED <<now, drift, generation, call, row, starts, signed, done>>

(* What Product does with a control call it has accepted. *)
RowAfter(op, action) ==
  CASE action = "cancel" /\ Op!ValidateOperationStateTransition(row[op], "cancelled")
         -> {"cancelled"}
    [] action = "reconcile"
         -> {s \in Found : Op!ValidateReconcileTransition(row[op], s)}
              \cup (IF row[op] = "uncertain" THEN {} ELSE {row[op]})
    [] OTHER -> {row[op]}

ControlBinding(op, action, ctx) ==
  [ctx |-> ctx, ownerID |-> Owner, accountGeneration |-> generation,
   operationID |-> op, controlAction |-> action,
   controlScope |-> ControlScope(action)]

Presentable == UNION {held[op] : op \in Uuid}

Calls(op) ==
  {ProductCall(chain, op, entry, now + time) :
     chain \in Uuid, entry \in Entries, time \in CallTime} \ {NoContext}

(* A control call: the Agent presents some grant it holds, in a call on    *)
(* some chain, and Product serves it only if the grant verifies.           *)
Control(op, action) ==
  /\ \E g \in Presentable, ctx \in Calls(op) :
       /\ VerifyProductOperationControlGrant(
            Codec(0), g, now, ControlBinding(op, action, ctx))
       /\ done' = [operation |-> op, action |-> action, ctx |-> ctx]
  /\ \E state \in RowAfter(op, action) : row' = [row EXCEPT ![op] = state]
  /\ UNCHANGED <<now, drift, generation, call, starts, signed, held>>

(* Product works on the operation, or loses track of it. *)
Work(op) ==
  /\ row[op] \in {"pending", "running"}
  /\ \E state \in {"running", "uncertain"} \cup Found :
       /\ Op!ValidateOperationStateTransition(row[op], state)
       /\ row' = [row EXCEPT ![op] = state]
  /\ UNCHANGED <<now, drift, generation, call, starts, signed, held, done>>

(* The account is deleted and created again. *)
Rebuild ==
  /\ generation < MaxAccountGeneration
  /\ generation' = generation + 1
  /\ UNCHANGED <<now, drift, call, row, starts, signed, held, done>>

Tick ==
  /\ now < MaxTime
  /\ now' = now + 1
  /\ done' = None
  /\ UNCHANGED <<drift, generation, call, row, starts, signed, held>>

Next ==
  \/ \E op \in Uuid : Start(op) \/ TakeReply(op) \/ Work(op)
  \/ \E op \in Uuid, action \in ControlAction : Control(op, action)
  \/ Rebuild
  \/ Tick

Spec == Init /\ [][Next]_vars

-----------------------------------------------------------------------------
(* Properties *)

ControlGrantType ==
  [chainID: Uuid, ownerID: OwnerID, accountGeneration: 1..MaxAccountGeneration,
   operationID: Uuid, controlAction: ControlAction,
   controlScope: {ControlScope(a) : a \in ControlAction},
   entryRoute: {<<"ms">>, <<"agent">>}, entryHop: {1},
   deadline: Nat \ {0}, issuedAt: Nat \ {0}, expiresAt: Nat \ {0}]

ProductContextType ==
  [chainID: Uuid, rootOperationID: Uuid, parentCallID: {Missing}, hop: {2, 3},
   route: {<<"ms", "agent", "product">>, <<"agent", "product">>},
   deadline: Nat]

StartType == [ctx: ProductContextType, generation: 1..MaxAccountGeneration,
              required: RequiredActions]

DoneType == [operation: Uuid, action: ControlAction, ctx: ProductContextType]

ASSUME NothingAssumption == None \notin StartType \cup DoneType

TypeOK ==
  /\ now \in Nat \ {0}
  /\ drift \in Drift
  /\ generation \in 1..MaxAccountGeneration
  /\ call \in [Uuid -> StartType \cup {None}]
  /\ row \in [Uuid -> Op!State]
  /\ starts \in 0..MaxStarts
  /\ signed \subseteq ControlGrantType
  /\ held \in [Uuid -> SUBSET ControlGrantType]
  /\ done \in DoneType \cup {None}

(* The Agent never holds part of a set, or a set put together from several *)
(* accounts, chains or operations, or with times other than the signed     *)
(* ones: whatever replies came, in whatever order (replay.go:189, :216).   *)
HeldSetIsWhole ==
  \A op \in Uuid : held[op] # {} =>
    /\ \E wanted \in RequiredActions :
         {g.controlAction : g \in held[op]} = RangeOf(wanted)
    /\ \A g, h \in held[op] :
         /\ g.controlAction = h.controlAction => g = h
         /\ g \in signed
         /\ g.operationID = op
         /\ g.ownerID = Owner
         /\ g.chainID = h.chainID
         /\ g.accountGeneration = h.accountGeneration

(* Product acts under short permits for one operation and one action: the  *)
(* system implements ControlPermit (grant.go:877, :913; docs/protocol.md   *)
(* section 7).                                                             *)
Permits ==
  INSTANCE ControlPermit WITH
    Operation <- Uuid, Action <- ControlAction, TTL <- DefaultControlGrantTTL,
    permits <- {[operation |-> g.operationID, action |-> g.controlAction,
                 generation |-> g.accountGeneration, until |-> g.expiresAt] :
                  g \in signed},
    done <- IF done = None THEN None
            ELSE [operation |-> done.operation, action |-> done.action]

ImplementsPermits == Permits!Spec

(* A cancellation, and a decision of an uncertain operation, happen only   *)
(* under a grant for that very action on that very operation, signed for   *)
(* the account as it now is and less than a control TTL ago                *)
(* (grant.go:865, operation_state.go:92).                                  *)
LifecycleNeedsItsGrant ==
  [][\A op \in Uuid :
       \/ row'[op] = row[op]
       \/ row[op] # "uncertain" /\ row'[op] # "cancelled"
       \/ \E g \in signed :
            /\ g.operationID = op
            /\ g.controlAction =
                 IF row[op] = "uncertain" /\ done'.action = "reconcile"
                 THEN "reconcile" ELSE "cancel"
            /\ g.accountGeneration = generation
            /\ now < g.issuedAt + DefaultControlGrantTTL]_vars

(* A control call is served only on the chain its set was given for, by    *)
(* way of the node where that chain entered, and no later than the grant's *)
(* deadline was to be: a set does not travel to another call (grant.go:917,*)
(* :926).                                                                  *)
ServedOnItsOwnRoute ==
  done # None =>
    \E g \in signed :
      /\ g.operationID = done.operation
      /\ g.chainID = done.ctx.chainID
      /\ g.entryRoute = <<done.ctx.route[1]>>
      /\ done.ctx.deadline <= g.deadline

(* The reply Product would send at this moment, if its order is kept. *)
FreshReply(op, life) ==
  [i \in DOMAIN call[op].required |->
     LET action == call[op].required[i]
         g == GrantFor(op, call[op].ctx, action, life)
     IN [action |-> action, grant |-> g, expiresAt |-> g.expiresAt]]

(* When the Agent takes a reply that has just been signed: the call may    *)
(* have no more time left than the grants; an Agent whose clock is behind  *)
(* needs not only a codec that allows the skew but also grants that live   *)
(* shorter than the control TTL by as much, as envelopes are judged        *)
(* without any skew (validation.go:42, grant.go:873, :920).                *)
FreshSetAccepted ==
  \A op \in Uuid, life \in 1..(DefaultControlGrantTTL + 1) :
    LET lives == IF life > DefaultControlGrantTTL
                 THEN DefaultControlGrantTTL ELSE life IN
    call[op] # None =>
      (VerifyControlGrantEnvelopeSet(Codec(0), FreshReply(op, life), AgentClock,
                                     EnvelopeBinding(op)) # {}
       <=> /\ call[op].generation = generation
           /\ call[op].ctx.deadline <= now + lives
           /\ AgentClock > 0
           /\ drift \in (-ClockSkew)..(lives - 1)
           /\ lives - drift <= DefaultControlGrantTTL)
=============================================================================

------------------------------ MODULE CallChain ------------------------------
(***************************************************************************)
(* Synchronous private calls between message-server, Agent and Product,    *)
(* each hop building its context with AppendCallNode and accepting it with *)
(* the receiver-side helpers of CallContext.  The services and their       *)
(* handler pools live in the consuming nodes.                              *)
(*                                                                         *)
(* An activation is one call: sent by its parent, refused or queued when   *)
(* it arrives, and served in a slot of its node's pool.  A handler that    *)
(* makes a nested call keeps its slot while it waits, and any handler may  *)
(* try to call any service: what stops a call is the validators alone.     *)
(***************************************************************************)
EXTENDS CallContext, FiniteSets

CONSTANTS
  Activation,  \* calls; each is made once
  PoolSize,    \* handler slots per service
  PeerBound,   \* receive with the peer-bound helpers, or the generic one
  Lossy,       \* whether a call may be lost on the way
  MaxSends,    \* bound: nested calls per activation
  MaxTime,     \* bound: the clock
  None         \* no activation

Service == {"agent", "product"}

ASSUME PoolAssumption == PoolSize \in [Service -> Nat \ {0}]
ASSUME FlagAssumption == PeerBound \in BOOLEAN /\ Lossy \in BOOLEAN
ASSUME BoundAssumption == MaxSends \in Nat /\ MaxTime \in Nat
ASSUME NoneAssumption == None \notin Activation

VARIABLES
  act,  \* the activations
  now   \* the clock, milliseconds

vars == <<act, now>>

Idle == [pc |-> "idle", node |-> "ms", ctx |-> NoContext, parent |-> None,
         child |-> None, sends |-> 0]

(* Activations that hold, or are about to hold, a slot. *)
Active == {"running", "waiting"}
Accepted == {"queued", "running", "waiting", "done"}

InService(node) ==
  {h \in Activation : /\ act[h].parent # None
                      /\ act[h].node = node
                      /\ act[h].pc \in Active}

-----------------------------------------------------------------------------
Init == act = [h \in Activation |-> Idle] /\ now = 0

(* An authenticated request reaches message-server, or the Agent runs a    *)
(* background job: a new chain, not yet routed.                            *)
Originate(h) ==
  /\ act[h].pc = "idle"
  /\ \E node \in {"ms", "agent"}, chain \in Uuid, root \in Uuid \cup {Missing},
        deadline \in 1..(MaxTime + 1) :
       /\ \A g \in Activation : act[g].ctx.chainID # chain
       /\ act' = [act EXCEPT ![h] =
                    [Idle EXCEPT !.pc = "running", !.node = node,
                       !.ctx = NewCallContext(chain, root, deadline)]]
  /\ UNCHANGED now

(* The sender appends itself and waits; h2 is the call on its way. *)
Send(h, h2) ==
  LET ctx == AppendCallNode(act[h].ctx, act[h].node) IN
  /\ act[h].pc = "running"
  /\ act[h].sends < MaxSends
  /\ act[h2].pc = "idle"
  /\ ~DeadlineExceeded(act[h].ctx, now)
  /\ ctx # NoContext
  /\ \E to \in Service :
       act' = [act EXCEPT
                 ![h].pc = "waiting", ![h].child = h2, ![h].sends = @ + 1,
                 ![h2] = [Idle EXCEPT !.pc = "sent", !.node = to, !.ctx = ctx,
                                      !.parent = h]]
  /\ UNCHANGED now

AcceptedContext(node, ctx) ==
  IF ~PeerBound THEN ValidateAndAdvanceCallContext(ctx, node)
  ELSE IF node = "agent" THEN ValidateAndAdvanceAgentCallContext(ctx)
  ELSE ValidateAndAdvanceProductCallContext(ctx)

(* The waiting parent of h gets its answer, if it still waits for it. *)
Resume(a, h) ==
  LET p == a[h].parent IN
  IF p # None /\ a[p].child = h
  THEN [a EXCEPT ![p].pc = "running", ![p].child = None]
  ELSE a

(* The receiver advances the context, or answers with an error. *)
Arrive(h) ==
  LET ctx == AcceptedContext(act[h].node, act[h].ctx) IN
  /\ act[h].pc = "sent"
  /\ act' = IF ctx = NoContext
            THEN Resume([act EXCEPT ![h].pc = "refused"], h)
            ELSE [act EXCEPT ![h].pc = "queued", ![h].ctx = ctx]
  /\ UNCHANGED now

Lose(h) ==
  /\ Lossy
  /\ act[h].pc = "sent"
  /\ act' = [act EXCEPT ![h].pc = "lost"]
  /\ UNCHANGED now

(* A queued call is served when its node has a free slot. *)
Serve(h) ==
  /\ act[h].pc = "queued"
  /\ Cardinality(InService(act[h].node)) < PoolSize[act[h].node]
  /\ act' = [act EXCEPT ![h].pc = "running"]
  /\ UNCHANGED now

Finish(h) ==
  /\ act[h].pc = "running"
  /\ act' = Resume([act EXCEPT ![h].pc = "done"], h)
  /\ UNCHANGED now

(* The caller's deadline passes: it stops waiting, its callee does not. *)
GiveUp(h) ==
  /\ act[h].pc = "waiting"
  /\ DeadlineExceeded(act[h].ctx, now)
  /\ act' = [act EXCEPT ![h].pc = "running", ![h].child = None]
  /\ UNCHANGED now

Tick == now < MaxTime /\ now' = now + 1 /\ UNCHANGED act

Next ==
  \/ \E h \in Activation : \/ Originate(h) \/ Arrive(h) \/ Lose(h) \/ Serve(h)
                           \/ Finish(h) \/ GiveUp(h)
                           \/ \E h2 \in Activation : Send(h, h2)
  \/ Tick

Spec == Init /\ [][Next]_vars

(* Calls arrive, free slots are taken, timers fire, and handlers that      *)
(* wait for nobody finish.                                                 *)
FairSpec ==
  /\ Spec
  /\ \A h \in Activation : /\ WF_vars(Arrive(h)) /\ WF_vars(Serve(h))
                           /\ WF_vars(Finish(h)) /\ WF_vars(GiveUp(h))
  /\ WF_vars(Tick)

-----------------------------------------------------------------------------
(* Properties *)

ContextType == [chainID: Uuid \cup Token \cup {Missing},
                rootOperationID: Uuid \cup Token \cup {Missing},
                parentCallID: Uuid \cup Token \cup {Missing},
                hop: Nat, route: Seq(Node), deadline: Nat]

TypeOK ==
  /\ act \in [Activation ->
                [pc: Accepted \cup {"idle", "sent", "refused", "lost"},
                 node: Node, ctx: ContextType,
                 parent: Activation \cup {None}, child: Activation \cup {None},
                 sends: Nat]]
  /\ now \in 0..MaxTime

(* The nodes the call of h really went through. *)
Trace(h) == IF act[h].parent = None THEN <<act[h].node>> ELSE act[h].ctx.route

IsAcceptedCall(h) == act[h].parent # None /\ act[h].pc \in Accepted

(* An accepted call carries exactly the nodes it went through, once each,  *)
(* and never more than three (callcontext.go:100, :158).                   *)
RouteIsTheTrace ==
  \A h \in Activation :
    IsAcceptedCall(h) =>
      /\ act[h].ctx.route = Append(Trace(act[h].parent), act[h].node)
      /\ act[h].ctx.hop = Len(act[h].ctx.route)
      /\ DetectCycle(act[h].ctx.route)
      /\ act[h].ctx.hop <= MaxCallHop

(* A nested call belongs to the chain and root operation of the call that  *)
(* made it, and has no more time (callcontext.go:130).                     *)
InheritsCall ==
  \A h \in Activation :
    IsAcceptedCall(h) =>
      LET p == act[h].parent IN
      /\ act[h].ctx.chainID = act[p].ctx.chainID
      /\ act[h].ctx.rootOperationID = act[p].ctx.rootOperationID
      /\ act[h].ctx.deadline = act[p].ctx.deadline

(* Nothing a Product handler sends is accepted, although re-appending its  *)
(* own node succeeds (callcontext.go:112, :269).                           *)
ProductIsTerminal ==
  \A h \in Activation : IsAcceptedCall(h) => act[act[h].parent].node # "product"

(* Handlers that wait with their slots held never wait for each other in a *)
(* circle: every call returns, before or without a deadline.               *)
EveryCallReturns ==
  \A h \in Activation : act[h].pc = "waiting" ~> act[h].pc # "waiting"
=============================================================================

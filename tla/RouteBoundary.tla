---------------------------- MODULE RouteBoundary ----------------------------
(***************************************************************************)
(* The receiving helpers of CallContext against every context a peer's     *)
(* message can hold, whatever its sender did: any route, hop, identifiers  *)
(* and deadline, and what the sender-side append makes of it.              *)
(***************************************************************************)
EXTENDS CallContext

CONSTANTS
  Foreign,   \* a route node that is none of the three
  MaxLength  \* bound: nodes of a received route

ForeignAssumption == Foreign \notin Node
LengthAssumption == MaxLength \in Nat

VARIABLE wire  \* the context last received

Received == UNION {[1..n -> Node \cup {Foreign}] : n \in 0..MaxLength}

(* The decoded message is unconstrained. *)
Init ==
  \E route \in Received, hop \in -1..(MaxCallHop + 1), deadline \in {0, 1},
     chain \in Uuid \cup Token \cup {Missing} :
    wire = [chainID |-> chain, rootOperationID |-> chain,
            parentCallID |-> Missing, hop |-> hop, route |-> route,
            deadline |-> deadline]

(* A node passes it on. *)
Relay(n) ==
  /\ AppendCallNode(wire, n) # NoContext
  /\ wire' = AppendCallNode(wire, n)

Next == \E n \in Node : Relay(n)

Spec == Init /\ [][Next]_wire

-----------------------------------------------------------------------------
(* The private paths, as the comment on ValidateCallPath draws them. *)
Path == {<<"ms">>, <<"ms", "agent">>, <<"ms", "agent", "product">>,
         <<"agent">>, <<"agent", "product">>}

Sound(ctx) == /\ ctx.chainID \in Uuid /\ ctx.rootOperationID \in Uuid
              /\ ctx.hop = Len(ctx.route) /\ ctx.deadline > 0

(* Product accepts exactly the calls that came along a private path from   *)
(* the Agent, and completes that path (callcontext.go:243, :263).          *)
ProductBoundaryIsExact ==
  LET ctx == ValidateAndAdvanceProductCallContext(wire) IN
  /\ ctx # NoContext <=>
       Sound(wire) /\ wire.route \in {<<"agent">>, <<"ms", "agent">>}
  /\ ctx # NoContext =>
       ctx.route \in {<<"agent", "product">>, <<"ms", "agent", "product">>}
         /\ Sound(ctx)

(* What the generic receiver helper returns is itself a valid context, so  *)
(* a node that forwards it is not refused for what an earlier one did, and *)
(* sending from the node that accepted it changes nothing                  *)
(* (callcontext.go:112, :158).                                             *)
AdvanceThenSendIsStable ==
  \A n \in Node :
    LET ctx == ValidateAndAdvanceCallContext(wire, n) IN
    ctx # NoContext => ValidateCallContext(ctx) /\ AppendCallNode(ctx, n) = ctx

(* "The peer-bound helpers reject an empty route, the wrong sender, and    *)
(* anything forwarded by Product" (docs/protocol.md:46; callcontext.go:194,*)
(* "only the following private transitions are allowed").                  *)
AgentBoundaryFollowsPaths ==
  LET ctx == ValidateAndAdvanceAgentCallContext(wire) IN
  ctx # NoContext => ctx.route \in Path
=============================================================================

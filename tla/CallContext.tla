----------------------------- MODULE CallContext -----------------------------
(***************************************************************************)
(* The call context that travels with every private call, and the checks   *)
(* of callcontext.go.  A route is a sequence of nodes; a context with a    *)
(* malformed route string is one whose route names an unknown node.        *)
(* Identifiers are only compared: Uuid are the operation UUIDs, Token the  *)
(* other well-formed tokens, Missing an empty or malformed one.            *)
(***************************************************************************)
EXTENDS Integers, Sequences

CONSTANTS
  Uuid,     \* identifiers that are operation UUIDs
  Token,    \* well-formed tokens that are no UUID
  Missing   \* an empty or malformed identifier

ASSUME IdentifierAssumption == Missing \notin Uuid \cup Token

Node == {"ms", "agent", "product"}

MaxCallHop == 3

(* A validator that fails returns no context. *)
NoContext == [chainID |-> Missing, rootOperationID |-> Missing,
              parentCallID |-> Missing, hop |-> 0, route |-> <<>>, deadline |-> 0]

RangeOf(s) == {s[i] : i \in DOMAIN s}

LastOf(s) == s[Len(s)]

-----------------------------------------------------------------------------
(* The length of a route on the wire: the separator takes three bytes. *)
NodeLength(n) == CASE n = "ms" -> 2 [] n = "agent" -> 5 [] OTHER -> 7

RouteLength(route) ==
  IF route = <<>> THEN 0
  ELSE LET upTo[i \in 1..Len(route)] ==
             NodeLength(route[i]) + (IF i = 1 THEN 0 ELSE upTo[i - 1] + 3)
       IN upTo[Len(route)]

MaxRouteLength == 256

ParseRoute(route) == RangeOf(route) \subseteq Node

DetectCycle(route) ==
  \A i, j \in DOMAIN route : route[i] = route[j] => i = j

(* The parent call is optional: Missing stands for its absence. *)
ValidateCallContext(ctx) ==
  /\ ctx.chainID \in Uuid \cup Token
  /\ ctx.rootOperationID \in Uuid \cup Token
  /\ ctx.parentCallID \in Uuid \cup Token \cup {Missing}
  /\ ctx.hop \in 0..MaxCallHop
  /\ RouteLength(ctx.route) <= MaxRouteLength
  /\ ctx.deadline > 0
  /\ ParseRoute(ctx.route)
  /\ Len(ctx.route) = ctx.hop
  /\ DetectCycle(ctx.route)

ValidateStrictCallContext(ctx) ==
  /\ ValidateCallContext(ctx)
  /\ ctx.chainID \in Uuid
  /\ ctx.rootOperationID \in Uuid
  /\ ctx.parentCallID \in Uuid \cup {Missing}

-----------------------------------------------------------------------------
AllowedTransition(from, to) ==
  \/ from = "ms" /\ to = "agent"
  \/ from = "agent" /\ to = "product"

(* Mutant: only shape and depth are checked. *)
MutantPathByDepth(ctx, currentNode) ==
  /\ ValidateCallContext(ctx)
  /\ currentNode \in Node
  /\ ctx.hop < MaxCallHop

(* May currentNode be appended?  Only the last edge is looked at. *)
ValidateCallPath(ctx, currentNode) ==
  /\ ValidateCallContext(ctx)
  /\ currentNode \in Node
  /\ IF ctx.route = <<>>
     THEN currentNode \in {"ms", "agent"}
     ELSE /\ LastOf(ctx.route) # "product"
          /\ currentNode \notin RangeOf(ctx.route)
          /\ AllowedTransition(LastOf(ctx.route), currentNode)
          /\ ctx.hop < MaxCallHop

(* Mutant: the copy takes the chain for the root operation. *)
MutantAppendMixesIDs(ctx, senderNode) ==
  IF ctx.route # <<>> /\ ParseRoute(ctx.route) /\ LastOf(ctx.route) = senderNode
  THEN ctx
  ELSE IF ParseRoute(ctx.route) /\ ValidateCallPath(ctx, senderNode)
  THEN [ctx EXCEPT !.hop = @ + 1, !.route = Append(@, senderNode),
                   !.rootOperationID = ctx.chainID]
  ELSE NoContext

(* Sender side.  Re-appending one's own node is a no-op, and is not        *)
(* validated again; NoContext is the error.                                *)
AppendCallNode(ctx, senderNode) ==
  IF ctx.route # <<>> /\ ParseRoute(ctx.route) /\ LastOf(ctx.route) = senderNode
  THEN ctx
  ELSE IF ParseRoute(ctx.route) /\ ValidateCallPath(ctx, senderNode)
  THEN [ctx EXCEPT !.hop = @ + 1, !.route = Append(@, senderNode)]
  ELSE NoContext

(* Receiver side. *)
ValidateAndAdvanceCallContext(ctx, receiverNode) ==
  IF ctx.route # <<>> /\ ValidateCallPath(ctx, receiverNode)
  THEN AppendCallNode(ctx, receiverNode)
  ELSE NoContext

(* Mutant: identifiers need not be UUIDs. *)
MutantBoundaryNotStrict(ctx, expectedPeer) ==
  /\ ctx.route # <<>>
  /\ ValidateCallContext(ctx)
  /\ LastOf(ctx.route) = expectedPeer

ValidatePeerBoundary(ctx, expectedPeer) ==
  /\ ctx.route # <<>>
  /\ ValidateStrictCallContext(ctx)
  /\ LastOf(ctx.route) = expectedPeer

ValidateAgentCallPath(ctx) ==
  ValidatePeerBoundary(ctx, "ms") /\ ValidateCallPath(ctx, "agent")

(* Mutant: the sender of a Product call is not checked. *)
MutantProductPathByShape(ctx) ==
  ctx.route # <<>> /\ ValidateStrictCallContext(ctx)

ValidateProductCallPath(ctx) ==
  ValidatePeerBoundary(ctx, "agent") /\ ValidateCallPath(ctx, "product")

(* Mutant: the context is judged and returned as it came. *)
MutantAgentKeepsContext(ctx) ==
  IF ValidateAgentCallPath(ctx) THEN ctx ELSE NoContext

ValidateAndAdvanceAgentCallContext(ctx) ==
  IF ValidateAgentCallPath(ctx) THEN AppendCallNode(ctx, "agent") ELSE NoContext

ValidateAndAdvanceProductCallContext(ctx) ==
  IF ValidateProductCallPath(ctx) THEN AppendCallNode(ctx, "product")
  ELSE NoContext

-----------------------------------------------------------------------------
(* A query has no root operation: its chain stands in for it. *)
NewCallContext(chainID, rootOperationID, deadline) ==
  [chainID |-> chainID,
   rootOperationID |-> IF rootOperationID = Missing THEN chainID
                       ELSE rootOperationID,
   parentCallID |-> Missing, hop |-> 0, route |-> <<>>, deadline |-> deadline]

RemainingDeadlineMs(ctx, now) ==
  IF ctx.deadline <= 0 \/ ctx.deadline < now THEN 0 ELSE ctx.deadline - now

DeadlineExceeded(ctx, now) == RemainingDeadlineMs(ctx, now) = 0
=============================================================================

--------------------------- MODULE CallChainProofs ---------------------------
(* Proofs about CallChain, for every value of its constants: any number of *)
(* calls, pools of any size, calls that are lost or not, and receivers     *)
(* that are bound to their peers or not.                                   *)
EXTENDS CallChain, OperatorProofs, FiniteSetTheorems

-----------------------------------------------------------------------------
(* Type correctness *)

ActType ==
  [pc: Accepted \cup {"idle", "sent", "refused", "lost"},
   node: Node, ctx: ContextType,
   parent: Activation \cup {None}, child: Activation \cup {None},
   sends: Nat]

Identifier == Uuid \cup Token \cup {Missing}

LEMMA ContextTypes ==
  /\ ContextType \subseteq Contexts(Identifier, Node)
  /\ NoContext \in ContextType
  /\ Idle \in ActType
<1>1. NoContext \in ContextType
  BY EmptySeq DEF NoContext, ContextType
<1>2. ContextType \subseteq Contexts(Identifier, Node)
  BY DEF ContextType, Contexts, Identifier
<1>3. Idle \in ActType
  BY <1>1 DEF Idle, ActType, Node
<1> QED
  BY <1>1, <1>2, <1>3

LEMMA ExtendedType ==
  ASSUME NEW ctx \in ContextType, NEW n \in Node
  PROVE  Extended(ctx, n) \in ContextType
<1>1. ctx.hop + 1 \in Nat /\ Append(ctx.route, n) \in Seq(Node)
  BY DEF ContextType
<1>2. Extended(ctx, n) = [ctx EXCEPT !.hop = ctx.hop + 1,
                                     !.route = Append(ctx.route, n)]
  BY DEF Extended, ContextType
<1> QED
  BY <1>1, <1>2 DEF ContextType

(* What an accepted call's context is.                                     *)
LEMMA AcceptedIsExtended ==
  ASSUME NEW ctx \in ContextType, NEW n \in Service,
         AcceptedContext(n, ctx) # NoContext
  PROVE  /\ ctx.route # <<>> /\ ValidateCallPath(ctx, n)
         /\ AcceptedContext(n, ctx) = Extended(ctx, n)
  BY ContextTypes, ReceivedIsExtended DEF AcceptedContext, Service

LEMMA ResumeType ==
  ASSUME NEW a \in [Activation -> ActType], NEW h \in Activation
  PROVE  Resume(a, h) \in [Activation -> ActType]
  BY DEF Resume, ActType, Active, Accepted

(* A call answers its parent: only the parent's pc and child change.       *)
LEMMA ResumeFrame ==
  ASSUME NEW a \in [Activation -> ActType], NEW h \in Activation,
         NEW g \in Activation, g # h => a[g].child # g,
         a[h].parent # h
  PROVE  /\ Resume(a, h)[g].node = a[g].node
         /\ Resume(a, h)[g].ctx = a[g].ctx
         /\ Resume(a, h)[g].parent = a[g].parent
         /\ Resume(a, h)[g].pc = a[g].pc \/ Resume(a, h)[g].pc = "running"
         /\ Resume(a, h)[g] # a[g] => g # h /\ a[g].child = h
  BY DEF Resume, ActType

LEMMA TypeOKIs ==
  TypeOK <=> act \in [Activation -> ActType] /\ now \in 0..MaxTime
  BY DEF TypeOK, ActType

LEMMA InitTypeOK == Init => TypeOK
  BY TypeOKIs, ContextTypes, BoundAssumption DEF Init

(* The types are preserved: one step per action. *)
LEMMA NextTypeOK == TypeOK /\ [Next]_vars => TypeOK'
<1> SUFFICES ASSUME TypeOK, [Next]_vars PROVE TypeOK'
  OBVIOUS
<1>0. act \in [Activation -> ActType] /\ now \in 0..MaxTime
  BY TypeOKIs
<1> DEFINE Goal == act' \in [Activation -> ActType]
<1>1. ASSUME NEW h \in Activation, Originate(h) PROVE Goal
  <2>1. PICK node \in {"ms", "agent"}, chain \in Uuid,
             root \in Uuid \cup {Missing}, deadline \in 1..(MaxTime + 1) :
          act' = [act EXCEPT ![h] =
                    [Idle EXCEPT !.pc = "running", !.node = node,
                       !.ctx = NewCallContext(chain, root, deadline)]]
    BY <1>1 DEF Originate
  <2>2. NewCallContext(chain, root, deadline) \in ContextType
    BY EmptySeq, BoundAssumption DEF NewCallContext, ContextType
  <2>3. [Idle EXCEPT !.pc = "running", !.node = node,
           !.ctx = NewCallContext(chain, root, deadline)] \in ActType
    BY <2>2, ContextTypes DEF ActType, Accepted, Node
  <2> QED
    BY <1>0, <2>1, <2>3
<1>2. ASSUME NEW h \in Activation, NEW h2 \in Activation, Send(h, h2) PROVE Goal
  <2> DEFINE ctx == AppendCallNode(act[h].ctx, act[h].node)
  <2>1. act[h].ctx \in ContextType /\ act[h].node \in Node /\ ctx # NoContext
    BY <1>0, <1>2 DEF Send, ActType
  <2>2. ctx \in ContextType
    BY <2>1, ContextTypes, AppendCases, ExtendedType
  <2> HIDE DEF ctx
  <2>3. PICK to \in Service :
          act' = [act EXCEPT
                    ![h].pc = "waiting", ![h].child = h2, ![h].sends = @ + 1,
                    ![h2] = [Idle EXCEPT !.pc = "sent", !.node = to, !.ctx = ctx,
                                         !.parent = h]]
    BY <1>2 DEF Send, ctx
  <2>4. [Idle EXCEPT !.pc = "sent", !.node = to, !.ctx = ctx, !.parent = h]
          \in ActType
    BY <2>2, ContextTypes DEF ActType, Service, Node
  <2>5. [act[h] EXCEPT !.pc = "waiting", !.child = h2, !.sends = @ + 1] \in ActType
    <3>1. act[h] \in ActType /\ act[h].sends + 1 \in Nat
      BY <1>0 DEF ActType
    <3> QED
      BY <3>1 DEF ActType, Accepted
  <2> QED
    BY <1>0, <2>3, <2>4, <2>5
<1>3. ASSUME NEW h \in Activation, Arrive(h) PROVE Goal
  <2> DEFINE ctx == AcceptedContext(act[h].node, act[h].ctx)
  <2>1. act[h].ctx \in ContextType /\ act[h].node \in Node
    BY <1>0 DEF ActType
  <2>2. ctx \in ContextType
    <3>1. CASE ctx = NoContext
      BY <3>1, ContextTypes
    <3>2. CASE ctx # NoContext
      BY <2>1, <3>2, ContextTypes, ReceivedIsExtended, ExtendedType
      DEF AcceptedContext, Node
    <3> QED
      BY <3>1, <3>2
  <2> HIDE DEF ctx
  <2>3. [act EXCEPT ![h].pc = "refused"] \in [Activation -> ActType]
    BY <1>0 DEF ActType
  <2>4. [act EXCEPT ![h].pc = "queued", ![h].ctx = ctx] \in [Activation -> ActType]
    BY <1>0, <2>2 DEF ActType, Accepted
  <2> QED
    BY <1>3, <2>3, <2>4, ResumeType DEF Arrive, ctx
<1>4. ASSUME NEW h \in Activation, Lose(h) PROVE Goal
  BY <1>0, <1>4 DEF Lose, ActType
<1>5. ASSUME NEW h \in Activation, Serve(h) PROVE Goal
  BY <1>0, <1>5 DEF Serve, ActType, Accepted
<1>6. ASSUME NEW h \in Activation, Finish(h) PROVE Goal
  <2>1. [act EXCEPT ![h].pc = "done"] \in [Activation -> ActType]
    BY <1>0 DEF ActType, Accepted
  <2> QED
    BY <1>6, <2>1, ResumeType DEF Finish
<1>7. ASSUME NEW h \in Activation, GiveUp(h) PROVE Goal
  BY <1>0, <1>7 DEF GiveUp, ActType, Accepted
<1>8. ASSUME UNCHANGED act PROVE Goal
  BY <1>0, <1>8
<1>9. Goal
  <2> HIDE DEF Goal
  <2> QED
    BY <1>1, <1>2, <1>3, <1>4, <1>5, <1>6, <1>7, <1>8 DEF Next, Tick, vars
<1>10. now' \in 0..MaxTime
  <2>1. Tick \/ UNCHANGED now
    BY DEF Next, vars, Originate, Send, Arrive, Lose, Serve, Finish, GiveUp
  <2> QED
    BY <1>0, <2>1, BoundAssumption DEF Tick
<1> QED
  BY <1>9, <1>10 DEF TypeOK, ActType

(* Every variable has its type: a context always has a route of nodes, and *)
(* a call a parent among the calls (callcontext.go:63).                    *)
THEOREM TypeCorrect == Spec => []TypeOK
  BY InitTypeOK, NextTypeOK, PTL DEF Spec

-----------------------------------------------------------------------------
(* What a step does to one call: it begins a chain, is sent by a handler,  *)
(* is accepted, or keeps its node, its context and its parent.             *)

Served == {"running", "waiting", "done"}

Begins(h) ==
  /\ act[h].pc = "idle" /\ act'[h].pc = "running"
  /\ act'[h].parent = None /\ act'[h].ctx.route = <<>>

SentBy(h, p) ==
  /\ act[h].pc = "idle" /\ act'[h].pc = "sent"
  /\ act[p].pc = "running" /\ p # h
  /\ act'[h].parent = p /\ act'[h].node \in Service
  /\ AppendCallNode(act[p].ctx, act[p].node) # NoContext
  /\ act'[h].ctx = AppendCallNode(act[p].ctx, act[p].node)

IsTaken(h) ==
  /\ act[h].pc = "sent" /\ act'[h].pc = "queued"
  /\ act'[h].parent = act[h].parent /\ act'[h].node = act[h].node
  /\ AcceptedContext(act[h].node, act[h].ctx) # NoContext
  /\ act'[h].ctx = AcceptedContext(act[h].node, act[h].ctx)

Moves(h) ==
  /\ act'[h].node = act[h].node /\ act'[h].ctx = act[h].ctx
  /\ act'[h].parent = act[h].parent
  /\ act'[h].pc \in Accepted => act[h].pc \in Accepted
  /\ act[h].pc \in Served => act'[h].pc \in Served
  /\ act'[h].pc = "sent" => act[h].pc = "sent"
  /\ act'[h].pc = "idle" <=> act[h].pc = "idle"

HopStep(h) ==
  Begins(h) \/ (\E p \in Activation : SentBy(h, p)) \/ IsTaken(h) \/ Moves(h)

(* A handler that waits for nobody is not waiting.                         *)
ChildWaits == \A h \in Activation : act[h].child # None => act[h].pc = "waiting"

LEMMA HopSteps ==
  ASSUME TypeOK, ChildWaits, [Next]_vars, NEW g \in Activation
  PROVE  HopStep(g) /\ (act'[g].child # None => act'[g].pc = "waiting")
<1> DEFINE Goal == HopStep(g) /\ (act'[g].child # None => act'[g].pc = "waiting")
<1>0. act \in [Activation -> ActType]
  BY DEF TypeOK, ActType
<1>1. ASSUME act'[g] = act[g] PROVE Goal
  BY <1>1 DEF HopStep, Moves, ChildWaits
<1>2. ASSUME NEW h \in Activation, Originate(h) PROVE Goal
  <2>1. CASE g # h
    BY <1>0, <1>1, <1>2, <2>1 DEF Originate
  <2>2. CASE g = h
    <3>1. PICK node \in {"ms", "agent"}, chain \in Uuid,
               root \in Uuid \cup {Missing}, deadline \in 1..(MaxTime + 1) :
            act' = [act EXCEPT ![h] =
                      [Idle EXCEPT !.pc = "running", !.node = node,
                         !.ctx = NewCallContext(chain, root, deadline)]]
      BY <1>2 DEF Originate
    <3>2. /\ act'[g].pc = "running" /\ act'[g].parent = None
          /\ act'[g].child = None
          /\ act'[g].ctx = NewCallContext(chain, root, deadline)
      BY <1>0, <2>2, <3>1 DEF Idle
    <3>3. act'[g].ctx.route = <<>>
      BY <3>2 DEF NewCallContext
    <3> QED
      BY <1>2, <2>2, <3>2, <3>3 DEF Originate, HopStep, Begins
  <2> QED
    BY <2>1, <2>2
<1>3. ASSUME NEW h \in Activation, NEW h2 \in Activation, Send(h, h2) PROVE Goal
  <2> DEFINE ctx == AppendCallNode(act[h].ctx, act[h].node)
  <2>1. /\ act[h].pc = "running" /\ act[h2].pc = "idle" /\ h # h2
        /\ ctx # NoContext
    BY <1>3 DEF Send
  <2>2. PICK to \in Service :
          act' = [act EXCEPT
                    ![h].pc = "waiting", ![h].child = h2, ![h].sends = @ + 1,
                    ![h2] = [Idle EXCEPT !.pc = "sent", !.node = to, !.ctx = ctx,
                                         !.parent = h]]
    BY <1>3 DEF Send
  <2> HIDE DEF ctx
  <2>3. CASE g # h /\ g # h2
    BY <1>0, <1>1, <2>2, <2>3
  <2>4. CASE g = h
    <3>1. /\ act'[g].pc = "waiting" /\ act'[g].node = act[g].node
          /\ act'[g].ctx = act[g].ctx /\ act'[g].parent = act[g].parent
      BY <1>0, <2>1, <2>2, <2>4 DEF ActType
    <3> QED
      BY <2>1, <2>4, <3>1 DEF HopStep, Moves, Accepted, Served
  <2>5. CASE g = h2
    <3>1. /\ act'[g].pc = "sent" /\ act'[g].node = to /\ act'[g].parent = h
          /\ act'[g].ctx = ctx /\ act'[g].child = None
      BY <1>0, <2>1, <2>2, <2>5 DEF Idle
    <3>2. SentBy(g, h)
      BY <2>1, <2>5, <3>1 DEF SentBy, ctx
    <3> QED
      BY <3>1, <3>2 DEF HopStep
  <2> QED
    BY <2>3, <2>4, <2>5
<1>4. ASSUME NEW h \in Activation, NEW a \in [Activation -> ActType],
             act' = Resume(a, h), act[h].child = None,
             \A x \in Activation \ {h} : a[x] = act[x],
             a[h].parent = act[h].parent, a[h].child = None, g # h
      PROVE  Goal
  <2>1. CASE act'[g] = act[g]
    BY <1>1, <2>1
  <2>2. CASE act'[g] # act[g]
    <3>1. /\ act[g].child = h
          /\ act'[g] = [act[g] EXCEPT !.pc = "running", !.child = None]
      BY <1>4, <2>2 DEF Resume, ActType
    <3>2. act[g].pc = "waiting"
      BY <3>1, NoneAssumption DEF ChildWaits
    <3>3. /\ act'[g].pc = "running" /\ act'[g].child = None
          /\ act'[g].node = act[g].node /\ act'[g].ctx = act[g].ctx
          /\ act'[g].parent = act[g].parent
      BY <1>0, <3>1 DEF ActType
    <3> QED
      BY <3>2, <3>3 DEF HopStep, Moves, Accepted, Served
  <2> QED
    BY <2>1, <2>2
<1>5. ASSUME NEW h \in Activation, NEW a \in [Activation -> ActType],
             act' = Resume(a, h), a[h].child = None
      PROVE  act'[h] = a[h]
  BY <1>5, NoneAssumption DEF Resume, ActType
<1>6. ASSUME NEW h \in Activation, Arrive(h) PROVE Goal
  <2> DEFINE ctx == AcceptedContext(act[h].node, act[h].ctx)
  <2>0. act[h].pc = "sent" /\ act[h].child = None
    BY <1>6 DEF Arrive, ChildWaits
  <2>1. CASE ctx = NoContext
    <3> DEFINE a == [act EXCEPT ![h].pc = "refused"]
    <3>1. act' = Resume(a, h)
      BY <1>6, <2>1 DEF Arrive
    <3>2. /\ a \in [Activation -> ActType]
          /\ \A x \in Activation \ {h} : a[x] = act[x]
          /\ a[h].pc = "refused"
          /\ a[h].parent = act[h].parent /\ a[h].child = None
          /\ a[h].node = act[h].node /\ a[h].ctx = act[h].ctx
      BY <1>0, <2>0 DEF ActType
    <3> HIDE DEF a
    <3>3. CASE g # h
      BY <1>4, <2>0, <3>1, <3>2, <3>3
    <3>4. CASE g = h
      <4>1. act'[h] = a[h]
        BY <1>5, <3>1, <3>2
      <4> QED
        BY <2>0, <3>2, <3>4, <4>1 DEF HopStep, Moves, Accepted, Served
    <3> QED
      BY <3>3, <3>4
  <2>2. CASE ctx # NoContext
    <3>1. act' = [act EXCEPT ![h].pc = "queued", ![h].ctx = ctx]
      BY <1>6, <2>2 DEF Arrive
    <3> HIDE DEF ctx
    <3>2. CASE g # h
      BY <1>0, <1>1, <3>1, <3>2
    <3>3. CASE g = h
      <4>1. /\ act'[g].pc = "queued" /\ act'[g].ctx = ctx
            /\ act'[g].node = act[g].node /\ act'[g].parent = act[g].parent
            /\ act'[g].child = act[g].child
        BY <1>0, <3>1, <3>3 DEF ActType
      <4>2. IsTaken(g)
        BY <2>0, <2>2, <3>3, <4>1 DEF IsTaken, ctx
      <4> QED
        BY <2>0, <3>3, <4>1, <4>2 DEF HopStep
    <3> QED
      BY <3>2, <3>3
  <2> QED
    BY <2>1, <2>2
<1>7. ASSUME NEW h \in Activation, Finish(h) PROVE Goal
  <2> DEFINE a == [act EXCEPT ![h].pc = "done"]
  <2>0. act[h].pc = "running" /\ act[h].child = None
    BY <1>7 DEF Finish, ChildWaits
  <2>1. act' = Resume(a, h)
    BY <1>7 DEF Finish
  <2>2. /\ a \in [Activation -> ActType]
        /\ \A x \in Activation \ {h} : a[x] = act[x]
        /\ a[h].pc = "done"
        /\ a[h].parent = act[h].parent /\ a[h].child = None
        /\ a[h].node = act[h].node /\ a[h].ctx = act[h].ctx
    BY <1>0, <2>0 DEF ActType, Accepted
  <2> HIDE DEF a
  <2>3. CASE g # h
    BY <1>4, <2>0, <2>1, <2>2, <2>3
  <2>4. CASE g = h
    <3>1. act'[h] = a[h]
      BY <1>5, <2>1, <2>2
    <3> QED
      BY <2>0, <2>2, <2>4, <3>1 DEF HopStep, Moves, Accepted, Served
  <2> QED
    BY <2>3, <2>4
<1>8. ASSUME NEW h \in Activation, Lose(h) \/ Serve(h) \/ GiveUp(h) PROVE Goal
  <2>1. CASE g # h
    BY <1>0, <1>1, <1>8, <2>1 DEF Lose, Serve, GiveUp
  <2>2. CASE g = h
    <3>1. /\ act'[g].node = act[g].node /\ act'[g].ctx = act[g].ctx
          /\ act'[g].parent = act[g].parent
          /\ \/ /\ act[g].pc = "sent" /\ act'[g].pc = "lost"
                /\ act'[g].child = act[g].child
             \/ /\ act[g].pc = "queued" /\ act'[g].pc = "running"
                /\ act'[g].child = act[g].child
             \/ /\ act[g].pc = "waiting" /\ act'[g].pc = "running"
                /\ act'[g].child = None
      BY <1>0, <1>8, <2>2 DEF Lose, Serve, GiveUp, ActType
    <3> QED
      BY <3>1 DEF HopStep, Moves, Accepted, Served, ChildWaits
  <2> QED
    BY <2>1, <2>2
<1>9. ASSUME UNCHANGED act PROVE Goal
  BY <1>1, <1>9
<1> HIDE DEF Goal
<1>10. Goal
  BY <1>2, <1>3, <1>6, <1>7, <1>8, <1>9 DEF Next, Tick, vars
<1> QED
  BY <1>10 DEF Goal

-----------------------------------------------------------------------------
(* The inductive invariant.  The handler that made a call is running or    *)
(* has run, so its node, context and parent are settled; what it sent is   *)
(* its own trace; and what was accepted is that trace and one node more.   *)

Inherits(h) ==
  LET p == act[h].parent IN
  /\ act[h].ctx.chainID = act[p].ctx.chainID
  /\ act[h].ctx.rootOperationID = act[p].ctx.rootOperationID
  /\ act[h].ctx.deadline = act[p].ctx.deadline

Origin(h) ==
  /\ act[h].pc = "idle" => act[h].parent = None
  /\ act[h].pc # "idle" /\ act[h].parent = None =>
       act[h].pc \in Served /\ act[h].ctx.route = <<>>
  /\ act[h].parent # None => act[act[h].parent].pc \in Served

OnItsWay(h) ==
  act[h].pc = "sent" =>
    /\ act[h].parent # None /\ act[h].node \in Service
    /\ act[h].ctx.route = Trace(act[h].parent)
    /\ Inherits(h)

Received(h) ==
  IsAcceptedCall(h) =>
    /\ act[h].ctx.route = Append(Trace(act[h].parent), act[h].node)
    /\ act[h].ctx.hop = Len(act[h].ctx.route)
    /\ DetectCycle(act[h].ctx.route)
    /\ act[h].ctx.hop <= MaxCallHop
    /\ Inherits(h)
    /\ AllowedTransition(act[act[h].parent].node, act[h].node)

ChainInv ==
  /\ TypeOK
  /\ ChildWaits
  /\ \A h \in Activation : Origin(h) /\ OnItsWay(h) /\ Received(h)

(* The trace of a handler is a route that ends at its node.                *)
LEMMA TraceFacts ==
  ASSUME ChainInv, NEW p \in Activation, act[p].pc \in Served
  PROVE  /\ Trace(p) \in Seq(Node) /\ Trace(p) # <<>>
         /\ LastOf(Trace(p)) = act[p].node
<1>0. act[p] \in ActType
  BY DEF ChainInv, TypeOK, ActType
<1>1. CASE act[p].parent = None
  BY <1>0, <1>1 DEF Trace, LastOf, ActType
<1>2. CASE act[p].parent # None
  <2>1. /\ Trace(p) = act[p].ctx.route
        /\ act[p].ctx.route = Append(Trace(act[p].parent), act[p].node)
    BY <1>2 DEF ChainInv, Received, IsAcceptedCall, Served, Accepted, Trace
  <2>2. PICK q \in Activation : q = act[p].parent
    BY <1>0, <1>2 DEF ActType
  <2>3. act[q].pc \in Served /\ act[q] \in ActType
    BY <1>2, <2>2 DEF ChainInv, Origin, TypeOK, ActType
  <2>4. Trace(q) \in Seq(Node)
    BY <2>3 DEF Trace, ActType, ContextType
  <2> QED
    BY <1>0, <2>1, <2>2, <2>4, AppendedRoute DEF ActType, ContextType
<1> QED
  BY <1>1, <1>2

(* What a handler sends is its own trace, with its chain and deadline.     *)
LEMMA SentIsTheTrace ==
  ASSUME ChainInv, NEW p \in Activation, act[p].pc = "running",
         NEW ctx, ctx = AppendCallNode(act[p].ctx, act[p].node), ctx # NoContext
  PROVE  /\ ctx.route = Trace(p)
         /\ ctx.chainID = act[p].ctx.chainID
         /\ ctx.rootOperationID = act[p].ctx.rootOperationID
         /\ ctx.deadline = act[p].ctx.deadline
<1> DEFINE old == act[p].ctx
           n == act[p].node
<1>0. /\ act[p] \in ActType /\ act[p].pc \in Served
      /\ old \in ContextType /\ old \in Contexts(Identifier, Node) /\ n \in Node
  BY ContextTypes DEF ChainInv, TypeOK, ActType, Served
<1>1. /\ Extended(old, n).route = Append(old.route, n)
      /\ Extended(old, n).chainID = old.chainID
      /\ Extended(old, n).rootOperationID = old.rootOperationID
      /\ Extended(old, n).deadline = old.deadline
  BY <1>0 DEF Extended, ContextType
<1>2. \/ ctx = old /\ old.route # <<>>
      \/ ctx = Extended(old, n) /\ n \notin RangeOf(old.route)
  BY <1>0, AppendCases, PathFacts
<1>3. CASE act[p].parent = None
  <2>1. old.route = <<>> /\ Trace(p) = <<n>>
    BY <1>3 DEF ChainInv, Origin, Trace
  <2>2. ctx = Extended(old, n)
    BY <1>2, <2>1
  <2> QED
    BY <1>1, <2>1, <2>2
<1>4. CASE act[p].parent # None
  <2>1. Trace(p) = old.route /\ old.route \in Seq(Node)
    BY <1>0, <1>4 DEF Trace, ContextType
  <2>2. old.route # <<>> /\ LastOf(old.route) = n
    BY <1>0, <2>1, TraceFacts
  <2>3. n \in RangeOf(old.route)
    BY <2>1, <2>2, EmptySeq DEF LastOf, RangeOf
  <2>4. ctx = old
    BY <1>2, <2>3
  <2> QED
    BY <2>1, <2>4
<1> QED
  BY <1>3, <1>4

(* A handler's identity does not change once it runs.                      *)
LEMMA HandlersAreStable ==
  ASSUME ChainInv, [Next]_vars, NEW p \in Activation, act[p].pc \in Served
  PROVE  /\ act'[p].pc \in Served
         /\ act'[p].node = act[p].node /\ act'[p].ctx = act[p].ctx
         /\ act'[p].parent = act[p].parent
         /\ Trace(p)' = Trace(p)
<1>1. HopStep(p)
  BY HopSteps DEF ChainInv
<1>2. Moves(p)
  BY <1>1 DEF HopStep, Begins, SentBy, IsTaken, Served
<1> QED
  BY <1>2 DEF Moves, Trace

LEMMA NextChainInv == ChainInv /\ [Next]_vars => ChainInv'
<1> SUFFICES ASSUME ChainInv, [Next]_vars PROVE ChainInv'
  OBVIOUS
<1>1. TypeOK'
  BY NextTypeOK DEF ChainInv
<1>2. \A h \in Activation : HopStep(h)
  BY HopSteps DEF ChainInv
<1>3. ChildWaits'
  BY HopSteps DEF ChainInv, ChildWaits
<1>4. ASSUME NEW h \in Activation
      PROVE  Origin(h)' /\ OnItsWay(h)' /\ Received(h)'
  <2>0. act[h] \in ActType /\ Origin(h) /\ OnItsWay(h) /\ Received(h)
    BY DEF ChainInv, TypeOK, ActType
  <2>1. CASE Begins(h)
    BY <2>1 DEF Begins, Origin, OnItsWay, Received, IsAcceptedCall, Served
  <2>2. ASSUME NEW p \in Activation, SentBy(h, p)
        PROVE  Origin(h)' /\ OnItsWay(h)' /\ Received(h)'
    <3>1. /\ act'[p].pc \in Served /\ act'[p].ctx = act[p].ctx
          /\ Trace(p)' = Trace(p)
      BY <2>2, HandlersAreStable DEF SentBy, Served
    <3>2. act'[h].ctx.route = Trace(p) /\ act'[h].ctx.chainID = act[p].ctx.chainID
          /\ act'[h].ctx.rootOperationID = act[p].ctx.rootOperationID
          /\ act'[h].ctx.deadline = act[p].ctx.deadline
      BY <2>2, SentIsTheTrace DEF SentBy
    <3>3. act'[h].parent = p /\ p # None
      BY <2>2, NoneAssumption DEF SentBy
    <3>4. Origin(h)' /\ Received(h)'
      BY <2>2, <3>1, <3>3 DEF SentBy, Origin, Received, IsAcceptedCall, Accepted
    <3>5. OnItsWay(h)'
      <4>1. Inherits(h)'
        BY <3>1, <3>2, <3>3 DEF Inherits
      <4>2. Trace(act[h].parent)' = Trace(p)'
        BY <3>3 DEF Trace
      <4> QED
        BY <2>2, <3>1, <3>2, <3>3, <4>1, <4>2 DEF SentBy, OnItsWay
    <3> QED
      BY <3>4, <3>5
  (* The step of an accepted call or of none: its parent stays as it was.  *)
  <2>3. ASSUME act[h].parent # None, act'[h].parent = act[h].parent
        PROVE  /\ act[h].parent \in Activation
               /\ act[act[h].parent].pc \in Served
               /\ act'[act[h].parent].pc \in Served
               /\ act'[act[h].parent].node = act[act[h].parent].node
               /\ act'[act[h].parent].ctx = act[act[h].parent].ctx
               /\ Trace(act[h].parent)' = Trace(act[h].parent)
    <3>1. PICK p \in Activation : p = act[h].parent
      BY <2>0, <2>3 DEF ActType
    <3>2. act[p].pc \in Served
      BY <2>0, <2>3, <3>1 DEF Origin
    <3>3. Trace(act[h].parent)' = Trace(p)'
      BY <2>3, <3>1 DEF Trace
    <3> QED
      BY <3>1, <3>2, <3>3, HandlersAreStable
  <2>4. CASE IsTaken(h)
    <3> DEFINE p == act[h].parent
               ctx == act[h].ctx
    <3>1. /\ p # None /\ act[h].node \in Service /\ ctx.route = Trace(p)
          /\ Inherits(h)
      BY <2>0, <2>4 DEF IsTaken, OnItsWay
    <3>2. /\ p \in Activation /\ act[p].pc \in Served /\ act'[h].parent = p
          /\ act'[p].pc \in Served
          /\ act'[p].node = act[p].node /\ act'[p].ctx = act[p].ctx
          /\ Trace(p)' = Trace(p)
      BY <2>3, <2>4, <3>1 DEF IsTaken
    <3>3. ctx \in ContextType /\ ctx \in Contexts(Identifier, Node)
      BY <2>0, ContextTypes DEF ActType
    <3>4. /\ ctx.route # <<>> /\ ValidateCallPath(ctx, act[h].node)
          /\ act'[h].ctx = Extended(ctx, act[h].node)
      BY <2>4, <3>1, <3>3, AcceptedIsExtended DEF IsTaken
    <3>5. /\ ctx.route \in Seq(Node) /\ ctx.hop = Len(ctx.route)
          /\ ctx.hop < MaxCallHop
          /\ DetectCycle(ctx.route) /\ act[h].node \notin RangeOf(ctx.route)
          /\ AllowedTransition(LastOf(ctx.route), act[h].node)
      BY <3>3, <3>4, PathFacts
    <3>6. /\ act'[h].ctx.route = Append(ctx.route, act[h].node)
          /\ act'[h].ctx.hop = ctx.hop + 1
          /\ act'[h].ctx.chainID = ctx.chainID
          /\ act'[h].ctx.rootOperationID = ctx.rootOperationID
          /\ act'[h].ctx.deadline = ctx.deadline
      BY <3>3, <3>4 DEF Extended, ContextType
    <3>7. AllowedTransition(act[p].node, act[h].node)
      BY <3>1, <3>2, <3>5, TraceFacts
    <3>8. /\ act'[h].ctx.hop = Len(act'[h].ctx.route)
          /\ act'[h].ctx.hop <= MaxCallHop
          /\ DetectCycle(act'[h].ctx.route)
      BY <3>5, <3>6, AppendedRoute, AppendedNoCycle DEF MaxCallHop
    <3>9. Inherits(h)'
      BY <3>1, <3>2, <3>6 DEF Inherits
    <3>10. Trace(act[h].parent)' = Trace(p)
      BY <3>2 DEF Trace
    <3>11. Received(h)'
      BY <2>4, <3>1, <3>2, <3>6, <3>7, <3>8, <3>9, <3>10 DEF IsTaken, Received
    <3> QED
      BY <2>4, <3>1, <3>2, <3>11 DEF IsTaken, Origin, OnItsWay
  <2>5. CASE Moves(h)
    <3>1. CASE act[h].parent = None
      BY <2>0, <2>5, <3>1
      DEF Moves, Origin, OnItsWay, Received, IsAcceptedCall
    <3>2. CASE act[h].parent # None
      <4> DEFINE p == act[h].parent
      <4>1. /\ act'[p].pc \in Served /\ act'[h].parent = p
            /\ act'[p].node = act[p].node /\ act'[p].ctx = act[p].ctx
            /\ Trace(p)' = Trace(p)
        BY <2>3, <2>5, <3>2 DEF Moves
      <4>2. Trace(act[h].parent)' = Trace(act[h].parent)
        BY <4>1
      <4>3. Inherits(h) => Inherits(h)'
        BY <2>5, <4>1 DEF Moves, Inherits
      <4>4. Origin(h)'
        BY <2>0, <2>5, <3>2, <4>1 DEF Moves, Origin
      <4>5. OnItsWay(h)'
        BY <2>0, <2>5, <4>2, <4>3 DEF Moves, OnItsWay
      <4>6. Received(h)'
        BY <2>0, <2>5, <4>1, <4>2, <4>3 DEF Moves, Received, IsAcceptedCall
      <4> QED
        BY <4>4, <4>5, <4>6
    <3> QED
      BY <3>1, <3>2
  <2> QED
    BY <1>2, <2>1, <2>2, <2>4, <2>5 DEF HopStep
<1> QED
  BY <1>1, <1>3, <1>4 DEF ChainInv

LEMMA ChainInvariant == Spec => []ChainInv
<1>1. Init => ChainInv
  <2>1. Init => TypeOK
    BY InitTypeOK
  <2> QED
    BY <2>1 DEF Init, ChainInv, ChildWaits, Origin, OnItsWay, Received,
       IsAcceptedCall, Idle
<1> QED
  BY <1>1, NextChainInv, PTL DEF Spec

(* Whatever handlers attempt and however calls interleave, are lost or are *)
(* answered late, an accepted call carries the nodes it went through, once *)
(* each, and at most three of them (callcontext.go:100, :158).             *)
THEOREM RoutesAreTraces == Spec => []RouteIsTheTrace
<1>1. ChainInv => RouteIsTheTrace
  BY DEF ChainInv, Received, RouteIsTheTrace
<1> QED
  BY <1>1, ChainInvariant, PTL

(* A nested call never leaves its chain, its root operation or its         *)
(* deadline (callcontext.go:130).                                          *)
THEOREM CallsInherit == Spec => []InheritsCall
<1>1. ChainInv => InheritsCall
  BY DEF ChainInv, Received, Inherits, InheritsCall
<1> QED
  BY <1>1, ChainInvariant, PTL

(* No receiver, peer-bound or generic, accepts what a Product handler      *)
(* sends (callcontext.go:112, :269).                                       *)
THEOREM ProductCallsNobody == Spec => []ProductIsTerminal
<1>1. ChainInv => ProductIsTerminal
  BY DEF ChainInv, Received, ProductIsTerminal, AllowedTransition
<1> QED
  BY <1>1, ChainInvariant, PTL

-----------------------------------------------------------------------------
(* Waiting.  A handler waits for a call of its own that is still to be     *)
(* answered, and a nested call is one node further along ms, agent,        *)
(* product, so slots that are held while waiting are waited for in that    *)
(* order only.                                                             *)

Unanswered == {"sent", "lost", "queued", "running", "waiting"}

WaitsForItsCall(g) ==
  act[g].pc = "waiting" =>
    /\ act[g].child \in Activation
    /\ act[act[g].child].parent = g
    /\ act[act[g].child].pc \in Unanswered

WaitInv == ChainInv /\ \A g \in Activation : WaitsForItsCall(g)

LEMMA NextWaits ==
  ASSUME WaitInv, [Next]_vars, NEW g \in Activation, act'[g].pc = "waiting"
  PROVE  /\ act'[g].child \in Activation
         /\ act'[act'[g].child].parent = g
         /\ act'[act'[g].child].pc \in Unanswered
<1> DEFINE Goal == /\ act'[g].child \in Activation
                   /\ act'[act'[g].child].parent = g
                   /\ act'[act'[g].child].pc \in Unanswered
           c == act[g].child
<1>0. /\ act \in [Activation -> ActType] /\ ChildWaits
      /\ WaitsForItsCall(g)
  BY DEF WaitInv, ChainInv, TypeOK, ActType
<1>1. ASSUME act'[g] = act[g],
             act'[c].parent = act[c].parent, act'[c].pc \in Unanswered
      PROVE  Goal
  BY <1>0, <1>1 DEF WaitsForItsCall
<1>2. act[g].pc = "waiting" =>
        c \in Activation /\ act[c].parent = g /\ act[c].pc \in Unanswered
  BY <1>0 DEF WaitsForItsCall
<1> HIDE DEF c
<1>3. ASSUME NEW h \in Activation, Originate(h) PROVE Goal
  <2>1. /\ act[h].pc = "idle" /\ act'[h].pc = "running"
        /\ \A x \in Activation \ {h} : act'[x] = act[x]
    BY <1>0, <1>3 DEF Originate, Idle
  <2>2. g # h /\ act[g].pc = "waiting"
    BY <2>1
  <2>3. c # h
    BY <1>2, <2>1, <2>2 DEF Unanswered
  <2> QED
    BY <1>1, <1>2, <2>1, <2>2, <2>3
<1>4. ASSUME NEW h \in Activation, NEW h2 \in Activation, Send(h, h2) PROVE Goal
  <2>1. /\ act[h].pc = "running" /\ act[h2].pc = "idle" /\ h # h2
        /\ act'[h].pc = "waiting" /\ act'[h].child = h2
        /\ act'[h].parent = act[h].parent
        /\ act'[h2].pc = "sent" /\ act'[h2].parent = h
        /\ \A x \in Activation \ {h, h2} : act'[x] = act[x]
    <3> DEFINE ctx == AppendCallNode(act[h].ctx, act[h].node)
    <3>1. act[h].pc = "running" /\ act[h2].pc = "idle" /\ h # h2
      BY <1>4 DEF Send
    <3>2. PICK to \in Service :
            act' = [act EXCEPT
                      ![h].pc = "waiting", ![h].child = h2, ![h].sends = @ + 1,
                      ![h2] = [Idle EXCEPT !.pc = "sent", !.node = to,
                                           !.ctx = ctx, !.parent = h]]
      BY <1>4 DEF Send
    <3> HIDE DEF ctx
    <3> QED
      BY <1>0, <3>1, <3>2 DEF Idle, ActType
  <2>2. CASE g = h
    BY <2>1, <2>2 DEF Unanswered
  <2>3. CASE g # h
    <3>1. act'[g] = act[g] /\ act[g].pc = "waiting"
      BY <2>1, <2>3
    <3>2. c # h2
      BY <1>2, <2>1, <3>1 DEF Unanswered
    <3>3. act'[c].parent = act[c].parent /\ act'[c].pc \in Unanswered
      BY <1>2, <2>1, <3>1, <3>2 DEF Unanswered
    <3> QED
      BY <1>1, <3>1, <3>3
  <2> QED
    BY <2>2, <2>3
(* An answer wakes the handler that waits for it, and no other.            *)
<1>5. ASSUME NEW h \in Activation, NEW a \in [Activation -> ActType],
             act' = Resume(a, h), a[h].pc \notin Unanswered,
             \A x \in Activation \ {h} : a[x] = act[x],
             a[h].parent = act[h].parent, act[h].child = None, a[h].child = None
      PROVE  Goal
  <2> DEFINE p == a[h].parent
  <2>1. CASE p # None /\ a[p].child = h
    <3>1. p \in Activation /\ act' = [a EXCEPT ![p].pc = "running", ![p].child = None]
      BY <1>5, <2>1 DEF Resume, ActType
    <3>2. /\ act'[p].pc = "running" /\ act'[p].parent = a[p].parent
          /\ \A x \in Activation \ {p} : act'[x] = a[x]
      BY <3>1 DEF ActType
    <3>3. p # h
      BY <1>5, <2>1, NoneAssumption
    <3> HIDE DEF p
    <3>4. g # p /\ g # h
      BY <1>5, <3>2, <3>3 DEF Unanswered
    <3>5. act'[g] = act[g] /\ act[g].pc = "waiting"
      BY <1>5, <3>2, <3>4
    <3>6. c # h
      BY <1>2, <1>5, <3>4, <3>5 DEF p
    <3>7. act'[c].parent = act[c].parent /\ act'[c].pc \in Unanswered
      BY <1>2, <1>5, <3>2, <3>3, <3>5, <3>6 DEF Unanswered
    <3> QED
      BY <1>1, <3>5, <3>7
  <2>2. CASE ~(p # None /\ a[p].child = h)
    <3>1. act' = a
      BY <1>5, <2>2 DEF Resume
    <3>2. g # h
      BY <1>5, <3>1 DEF Unanswered
    <3>3. act'[g] = act[g] /\ act[g].pc = "waiting"
      BY <1>5, <3>1, <3>2
    <3>4. c # h
      BY <1>2, <1>5, <2>2, <3>2, <3>3, NoneAssumption DEF c
    <3> QED
      BY <1>1, <1>2, <1>5, <3>1, <3>3, <3>4
  <2> QED
    BY <2>1, <2>2
<1>6. ASSUME NEW h \in Activation,
             \A x \in Activation \ {h} : act'[x] = act[x],
             act'[h].parent = act[h].parent, act'[h].pc \in Unanswered,
             act'[h].pc # "waiting"
      PROVE  Goal
  BY <1>1, <1>2, <1>6
<1>7. ASSUME NEW h \in Activation, Arrive(h) PROVE Goal
  <2> DEFINE ctx == AcceptedContext(act[h].node, act[h].ctx)
  <2>0. act[h].pc = "sent" /\ act[h].child = None
    BY <1>0, <1>7 DEF Arrive, ChildWaits
  <2>1. CASE ctx = NoContext
    <3> DEFINE a == [act EXCEPT ![h].pc = "refused"]
    <3>1. act' = Resume(a, h)
      BY <1>7, <2>1 DEF Arrive
    <3>2. /\ a \in [Activation -> ActType]
          /\ \A x \in Activation \ {h} : a[x] = act[x]
          /\ a[h].pc = "refused"
          /\ a[h].parent = act[h].parent /\ a[h].child = None
      BY <1>0, <2>0 DEF ActType
    <3> HIDE DEF a
    <3>3. a[h].pc \notin Unanswered
      BY <3>2 DEF Unanswered
    <3> QED
      BY <1>5, <2>0, <3>1, <3>2, <3>3
  <2>2. CASE ctx # NoContext
    <3>1. act' = [act EXCEPT ![h].pc = "queued", ![h].ctx = ctx]
      BY <1>7, <2>2 DEF Arrive
    <3> HIDE DEF ctx
    <3> QED
      BY <1>0, <1>6, <3>1 DEF ActType, Unanswered
  <2> QED
    BY <2>1, <2>2
<1>8. ASSUME NEW h \in Activation, Finish(h) PROVE Goal
  <2> DEFINE a == [act EXCEPT ![h].pc = "done"]
  <2>0. act[h].pc = "running" /\ act[h].child = None
    BY <1>0, <1>8 DEF Finish, ChildWaits
  <2>1. act' = Resume(a, h)
    BY <1>8 DEF Finish
  <2>2. /\ a \in [Activation -> ActType]
        /\ \A x \in Activation \ {h} : a[x] = act[x]
        /\ a[h].pc = "done"
        /\ a[h].parent = act[h].parent /\ a[h].child = None
    BY <1>0, <2>0 DEF ActType, Accepted
  <2> HIDE DEF a
  <2>3. a[h].pc \notin Unanswered
    BY <2>2 DEF Unanswered
  <2> QED
    BY <1>5, <2>0, <2>1, <2>2, <2>3
<1>9. ASSUME NEW h \in Activation, Lose(h) \/ Serve(h) \/ GiveUp(h) PROVE Goal
  <2>1. /\ \A x \in Activation \ {h} : act'[x] = act[x]
        /\ act'[h].parent = act[h].parent
        /\ act'[h].pc \in {"lost", "running"}
    BY <1>0, <1>9 DEF Lose, Serve, GiveUp, ActType
  <2> QED
    BY <1>6, <2>1 DEF Unanswered
<1>10. ASSUME UNCHANGED act PROVE Goal
  BY <1>1, <1>2, <1>10
<1> HIDE DEF Goal
<1>11. Goal
  BY <1>3, <1>4, <1>7, <1>8, <1>9, <1>10 DEF Next, Tick, vars
<1> QED
  BY <1>11 DEF Goal

LEMMA WaitInvariant == Spec => []WaitInv
<1>1. Init => \A g \in Activation : WaitsForItsCall(g)
  BY DEF Init, Idle, WaitsForItsCall
<1>2. WaitInv /\ [Next]_vars => (\A g \in Activation : WaitsForItsCall(g))'
  BY NextWaits DEF WaitsForItsCall
<1> QED
  BY <1>1, <1>2, ChainInvariant, PTL DEF Spec, WaitInv

(* A handler that runs will finish, a call on its way will arrive, one     *)
(* that is lost lets its deadline pass, and one that is queued where a     *)
(* slot is free is served.                                                 *)
GoesOn(g) ==
  \/ act[g].pc \in {"running", "sent", "lost"}
  \/ /\ act[g].pc = "queued"
     /\ Cardinality(InService(act[g].node)) < PoolSize[act[g].node]

Held(node) ==
  \E h \in Activation : act[h].node = node /\ act[h].pc \in {"queued", "waiting"}

NobodyIsStuck ==
  (\E node \in Node : Held(node)) => \E g \in Activation : GoesOn(g)

(* If whoever waits for nodes beyond this one goes on, so does whoever     *)
(* waits at this one.                                                      *)
LEMMA WaitsForLaterNodes ==
  ASSUME WaitInv, NEW node,
         \A later \in Node : AllowedTransition(node, later) /\ Held(later)
                               => \E g \in Activation : GoesOn(g)
  PROVE  Held(node) => \E g \in Activation : GoesOn(g)
<1>0. \A h \in Activation :
        act[h] \in ActType /\ Origin(h) /\ Received(h) /\ WaitsForItsCall(h)
  BY DEF WaitInv, ChainInv, TypeOK, ActType
<1>1. ASSUME NEW h \in Activation, act[h].node = node, act[h].pc = "waiting"
      PROVE  \E g \in Activation : GoesOn(g)
  <2>1. PICK c \in Activation : act[c].parent = h /\ act[c].pc \in Unanswered
    BY <1>0, <1>1 DEF WaitsForItsCall
  <2>2. CASE act[c].pc \in {"running", "sent", "lost"}
    BY <2>2 DEF GoesOn
  <2>3. CASE act[c].pc \in {"queued", "waiting"}
    <3>1. IsAcceptedCall(c)
      BY <2>1, <2>3, NoneAssumption DEF IsAcceptedCall, Accepted
    <3>2. AllowedTransition(node, act[c].node) /\ act[c].node \in Node
      BY <1>0, <1>1, <2>1, <3>1 DEF Received, ActType
    <3> QED
      BY <2>3, <3>2 DEF Held
  <2> QED
    BY <2>1, <2>2, <2>3 DEF Unanswered
<1>2. ASSUME NEW h \in Activation, act[h].node = node, act[h].pc = "queued"
      PROVE  \E g \in Activation : GoesOn(g)
  <2>1. node \in Service
    <3>1. IsAcceptedCall(h)
      BY <1>0, <1>2 DEF Origin, IsAcceptedCall, Accepted, Served
    <3>2. AllowedTransition(act[act[h].parent].node, node)
      BY <1>0, <1>2, <3>1 DEF Received
    <3> QED
      BY <3>2 DEF AllowedTransition, Service
  <2>2. CASE InService(node) = {}
    <3>1. Cardinality(InService(node)) = 0 /\ PoolSize[node] \in Nat \ {0}
      BY <2>1, <2>2, FS_EmptySet, PoolAssumption
    <3>2. Cardinality(InService(node)) < PoolSize[node]
      BY <3>1
    <3> QED
      BY <1>2, <3>2 DEF GoesOn
  <2>3. CASE InService(node) # {}
    <3>1. PICK g \in Activation : act[g].node = node /\ act[g].pc \in Active
      BY <2>3 DEF InService
    <3> QED
      BY <1>1, <3>1 DEF Active, GoesOn
  <2> QED
    BY <2>2, <2>3
<1> QED
  BY <1>1, <1>2 DEF Held

(* Handlers keep their slots while they wait, and yet in no state do all   *)
(* of them wait for each other, whatever the sizes of the pools and        *)
(* whichever helper the receivers use: some handler runs, or some call is  *)
(* on its way, lost, or queued where there is room (callcontext.go:334).   *)
THEOREM NoCircularWait == Spec => []NobodyIsStuck
<1>1. ASSUME WaitInv PROVE NobodyIsStuck
  <2>1. Held("product") => \E g \in Activation : GoesOn(g)
    BY <1>1, WaitsForLaterNodes DEF AllowedTransition
  <2>2. Held("agent") => \E g \in Activation : GoesOn(g)
    BY <1>1, <2>1, WaitsForLaterNodes DEF AllowedTransition
  <2>3. Held("ms") => \E g \in Activation : GoesOn(g)
    BY <1>1, <2>2, WaitsForLaterNodes DEF AllowedTransition
  <2> QED
    BY <2>1, <2>2, <2>3 DEF NobodyIsStuck, Node
<1> QED
  BY <1>1, WaitInvariant, PTL

=============================================================================

----------------------------- MODULE OperatorProofs -----------------------------
(* What the library's operators make of contexts, routes, digests and root *)
(* grants: the lemmas that the proofs about calls, controls and both       *)
(* admissions rest on; and theorems on which contexts each receiver        *)
(* accepts, of all that a message can hold.                                *)
EXTENDS Requests, SequenceTheorems, TLAPS

-----------------------------------------------------------------------------
(* Contexts whose identifiers are in Id and whose routes name nodes of N,  *)
(* right or wrong.                                                         *)
Contexts(Id, N) ==
  [chainID: Id, rootOperationID: Id, parentCallID: Id, hop: Int, route: Seq(N),
   deadline: Int]

(* The context with one more node.                                         *)
Extended(ctx, n) == [ctx EXCEPT !.hop = @ + 1, !.route = Append(@, n)]

-----------------------------------------------------------------------------
(* Routes *)

LEMMA AppendedRoute ==
  ASSUME NEW N, NEW r \in Seq(N), NEW n
  PROVE  /\ Append(r, n) \in Seq(N \cup {n})
         /\ Len(Append(r, n)) = Len(r) + 1
         /\ DOMAIN Append(r, n) = 1..(Len(r) + 1)
         /\ \A i \in DOMAIN r : i # Len(r) + 1 /\ Append(r, n)[i] = r[i]
         /\ Append(r, n)[Len(r) + 1] = n
         /\ LastOf(Append(r, n)) = n
         /\ Append(r, n) # <<>>
  BY DEF LastOf

LEMMA AppendedRange ==
  ASSUME NEW N, NEW r \in Seq(N), NEW n
  PROVE  RangeOf(Append(r, n)) = RangeOf(r) \cup {n}
<1>1. DOMAIN Append(r, n) = DOMAIN r \cup {Len(r) + 1}
  OBVIOUS
<1> QED
  BY <1>1, AppendedRoute DEF RangeOf

LEMMA AppendedNoCycle ==
  ASSUME NEW N, NEW r \in Seq(N), NEW n, DetectCycle(r), n \notin RangeOf(r)
  PROVE  DetectCycle(Append(r, n))
<1>1. DOMAIN Append(r, n) = DOMAIN r \cup {Len(r) + 1}
  OBVIOUS
<1>2. \A i \in DOMAIN r : r[i] # n
  BY DEF RangeOf
<1> QED
  BY <1>1, <1>2, AppendedRoute DEF DetectCycle

LEMMA ParsedRoute ==
  ASSUME NEW N, NEW r \in Seq(N), ParseRoute(r)
  PROVE  r \in Seq(Node)
<1>1. \A i \in 1..Len(r) : r[i] \in Node
  BY DEF ParseRoute, RangeOf
<1>2. r = [i \in 1..Len(r) |-> r[i]] /\ Len(r) \in Nat
  OBVIOUS
<1> QED
  BY <1>1, <1>2

(* The routes there are, and how each goes on.                             *)
LEMMA Routes ==
  /\ Append(<<>>, "ms") = <<"ms">> /\ Append(<<>>, "agent") = <<"agent">>
  /\ Append(<<"ms">>, "agent") = <<"ms", "agent">>
  /\ Append(<<"agent">>, "product") = <<"agent", "product">>
  /\ Append(<<"ms", "agent">>, "product") = <<"ms", "agent", "product">>
  /\ LastOf(<<"ms">>) = "ms" /\ LastOf(<<"agent">>) = "agent"
  /\ LastOf(<<"ms", "agent">>) = "agent"
  /\ {<<>>, <<"ms">>, <<"agent">>, <<"ms", "agent">>} \subseteq Seq(Node)
<1>1. Append(<<>>, "ms") = <<"ms">> /\ Append(<<>>, "agent") = <<"agent">>
  OBVIOUS
<1>2. ASSUME NEW s \in Seq(Node), NEW t \in Seq(Node), NEW n \in Node,
             Len(t) = Len(s) + 1, t[Len(t)] = n, \A i \in 1..Len(s) : t[i] = s[i]
      PROVE  Append(s, n) = t
  <2>1. Append(s, n) \in Seq(Node) /\ Len(Append(s, n)) = Len(t)
    BY <1>2, AppendProperties
  <2>2. \A i \in 1..Len(Append(s, n)) : Append(s, n)[i] = t[i]
    BY <1>2, <2>1, AppendProperties
  <2> QED
    BY <2>1, <2>2, SeqEqual
<1>3. /\ Append(<<"ms">>, "agent") = <<"ms", "agent">>
      /\ Append(<<"agent">>, "product") = <<"agent", "product">>
  <2>1. ASSUME NEW m \in Node, NEW n \in Node
        PROVE  Append(<<m>>, n) = <<m, n>>
    <3>1. /\ <<m>> \in Seq(Node) /\ <<m, n>> \in Seq(Node)
          /\ Len(<<m, n>>) = Len(<<m>>) + 1 /\ <<m, n>>[Len(<<m, n>>)] = n
          /\ \A i \in 1..Len(<<m>>) : <<m, n>>[i] = <<m>>[i]
      OBVIOUS
    <3> QED
      BY <1>2, <3>1
  <2> QED
    BY <2>1 DEF Node
<1>4. Append(<<"ms", "agent">>, "product") = <<"ms", "agent", "product">>
  <2> DEFINE s == <<"ms", "agent">>
             t == <<"ms", "agent", "product">>
  <2>1. s \in Seq(Node) /\ t \in Seq(Node) /\ "product" \in Node
    BY DEF Node
  <2>2. Len(t) = Len(s) + 1 /\ t[Len(t)] = "product"
    OBVIOUS
  <2>3. \A i \in 1..Len(s) : t[i] = s[i]
    OBVIOUS
  <2> HIDE DEF s, t
  <2>4. Append(s, "product") = t
    BY <1>2, <2>1, <2>2, <2>3
  <2> QED
    BY <2>4 DEF s, t
<1>5. LastOf(<<"ms">>) = "ms" /\ LastOf(<<"agent">>) = "agent"
  BY DEF LastOf
<1>6. LastOf(<<"ms", "agent">>) = "agent"
  BY DEF LastOf
<1>7. {<<>>, <<"ms">>, <<"agent">>, <<"ms", "agent">>} \subseteq Seq(Node)
  BY DEF Node
<1> QED
  BY <1>1, <1>2, <1>3, <1>4, <1>5, <1>6, <1>7

-----------------------------------------------------------------------------
(* Sender and receiver *)

(* A valid path grows by a node it has not been through.                   *)
LEMMA PathFacts ==
  ASSUME NEW Id, NEW N, NEW ctx \in Contexts(Id, N), NEW n,
         ValidateCallPath(ctx, n)
  PROVE  /\ ctx.route \in Seq(Node) /\ n \in Node
         /\ ctx.hop = Len(ctx.route) /\ ctx.hop < MaxCallHop
         /\ DetectCycle(ctx.route)
         /\ n \notin RangeOf(ctx.route)
         /\ ctx.route # <<>> =>
              /\ LastOf(ctx.route) # "product"
              /\ AllowedTransition(LastOf(ctx.route), n)
         /\ ctx.route = <<>> => n \in {"ms", "agent"}
<1>1. ctx.route \in Seq(N) /\ ValidateCallContext(ctx)
  BY DEF Contexts, ValidateCallPath
<1>2. ctx.route \in Seq(Node)
  BY <1>1, ParsedRoute DEF ValidateCallContext
<1>3. RangeOf(<<>>) = {} /\ Len(<<>>) = 0
  BY DEF RangeOf
<1> QED
  BY <1>1, <1>2, <1>3 DEF ValidateCallPath, ValidateCallContext, MaxCallHop

(* Where the path is valid, the sender is appended.                        *)
LEMMA AppendExtends ==
  ASSUME NEW Id, NEW N, NEW ctx \in Contexts(Id, N), NEW n,
         ValidateCallPath(ctx, n)
  PROVE  AppendCallNode(ctx, n) = Extended(ctx, n) /\ Extended(ctx, n) # NoContext
<1>1. ctx.route \in Seq(N) /\ ctx.route \in Seq(Node) /\ ParseRoute(ctx.route)
  BY PathFacts DEF Contexts, ValidateCallPath, ValidateCallContext
<1>2. ctx.route # <<>> => LastOf(ctx.route) # n
  <2>1. ctx.route # <<>> => LastOf(ctx.route) \in RangeOf(ctx.route)
    BY <1>1 DEF LastOf, RangeOf
  <2> QED
    BY <2>1, PathFacts
<1>3. Extended(ctx, n) # NoContext
  <2>1. Extended(ctx, n).route = Append(ctx.route, n)
    BY DEF Contexts, Extended
  <2>2. NoContext.route = <<>>
    BY DEF NoContext
  <2> QED
    BY <1>1, <2>1, <2>2, AppendedRoute
<1> QED
  BY <1>1, <1>2, <1>3 DEF AppendCallNode, Extended

(* The sender side either changes nothing, appends, or fails.              *)
LEMMA AppendCases ==
  ASSUME NEW Id, NEW N, NEW ctx \in Contexts(Id, N), NEW n,
         AppendCallNode(ctx, n) # NoContext
  PROVE  \/ /\ ctx.route # <<>> /\ LastOf(ctx.route) = n
            /\ AppendCallNode(ctx, n) = ctx
         \/ /\ ValidateCallPath(ctx, n)
            /\ AppendCallNode(ctx, n) = Extended(ctx, n)
  BY DEF AppendCallNode, Extended

(* Every receiver helper accepts a call only along a valid path that has   *)
(* begun, and completes it with the receiver.                              *)
LEMMA ReceivedIsExtended ==
  ASSUME NEW Id, NEW N, NEW ctx \in Contexts(Id, N)
  PROVE  /\ \A n : ValidateAndAdvanceCallContext(ctx, n) # NoContext =>
                     /\ ctx.route # <<>> /\ ValidateCallPath(ctx, n)
                     /\ ValidateAndAdvanceCallContext(ctx, n) = Extended(ctx, n)
         /\ ValidateAndAdvanceAgentCallContext(ctx) # NoContext =>
              /\ ctx.route # <<>> /\ ValidateCallPath(ctx, "agent")
              /\ ValidateAndAdvanceAgentCallContext(ctx) = Extended(ctx, "agent")
         /\ ValidateAndAdvanceProductCallContext(ctx) # NoContext =>
              /\ ctx.route # <<>> /\ ValidateCallPath(ctx, "product")
              /\ ValidateAndAdvanceProductCallContext(ctx)
                   = Extended(ctx, "product")
  BY AppendExtends
  DEF ValidateAndAdvanceCallContext, ValidateAndAdvanceAgentCallContext,
      ValidateAndAdvanceProductCallContext, ValidateAgentCallPath,
      ValidateProductCallPath, ValidatePeerBoundary

-----------------------------------------------------------------------------
(* The length of a route on the wire.  It is computed by recursion over    *)
(* the route, and no route of at most MaxCallHop nodes is too long.        *)

PartLengths(r, f) ==
  f = [i \in 1..Len(r) |-> NodeLength(r[i]) + (IF i = 1 THEN 0 ELSE f[i - 1] + 3)]

LEMMA OneToThree ==
  ASSUME NEW r \in Seq(Node), r # <<>>, Len(r) <= MaxCallHop
  PROVE  /\ Len(r) \in {1, 2, 3} /\ 1..Len(r) \subseteq {1, 2, 3}
         /\ 1 \in 1..Len(r) /\ Len(r) \in 1..Len(r)
         /\ 3 \in 1..Len(r) => 2 \in 1..Len(r)
<1> DEFINE n == Len(r)
<1>1. n \in Nat \ {0}
  BY EmptySeq
<1>2. n <= 3
  BY DEF MaxCallHop
<1> HIDE DEF n
<1>3. n = 1 \/ n = 2 \/ n = 3
  BY <1>1, <1>2
<1>4. /\ n \in {1, 2, 3} /\ 1..n \subseteq {1, 2, 3}
      /\ 1 \in 1..n /\ n \in 1..n
      /\ 3 \in 1..n => 2 \in 1..n
  BY <1>3
<1> QED
  BY <1>4 DEF n

LEMMA PartLengthsExist ==
  ASSUME NEW r \in Seq(Node), r # <<>>, Len(r) <= MaxCallHop
  PROVE  \E f : PartLengths(r, f)
<1> DEFINE first == NodeLength(r[1])
           two == NodeLength(r[2]) + (first + 3)
           three == NodeLength(r[3]) + (two + 3)
           g == [i \in 1..Len(r) |-> IF i = 1 THEN first ELSE IF i = 2 THEN two ELSE three]
           e == [i \in 1..Len(r) |->
                   NodeLength(r[i]) + (IF i = 1 THEN 0 ELSE g[i - 1] + 3)]
<1>1. \A i \in 1..Len(r) : i = 1 \/ i = 2 \/ i = 3
  BY OneToThree
<1>2. first + 0 = first
  BY DEF NodeLength
<1>3. 1 \in 1..Len(r) => g[1] = first /\ e[1] = first + 0
  OBVIOUS
<1>4. 2 \in 1..Len(r) => g[2] = two /\ e[2] = NodeLength(r[2]) + (g[1] + 3)
  OBVIOUS
<1>5. 3 \in 1..Len(r) => g[3] = three /\ e[3] = NodeLength(r[3]) + (g[2] + 3)
  OBVIOUS
<1>6. 1 \in 1..Len(r) /\ (3 \in 1..Len(r) => 2 \in 1..Len(r))
  BY OneToThree
<1>7. DOMAIN g = 1..Len(r) /\ DOMAIN e = 1..Len(r)
      /\ g = [i \in 1..Len(r) |-> g[i]] /\ e = [i \in 1..Len(r) |-> e[i]]
  OBVIOUS
<1>8. PartLengths(r, g) <=> g = e
  BY DEF PartLengths
<1> HIDE DEF g, e
<1>9. \A i \in 1..Len(r) : g[i] = e[i]
  BY <1>1, <1>2, <1>3, <1>4, <1>5, <1>6
<1>10. g = e
  BY <1>7, <1>9
<1> QED
  BY <1>8, <1>10

LEMMA ShortRoutes ==
  ASSUME NEW r \in Seq(Node), Len(r) <= MaxCallHop
  PROVE  RouteLength(r) \in 0..27
<1>1. CASE r = <<>>
  BY <1>1 DEF RouteLength
<1>2. CASE r # <<>>
  <2> DEFINE f == CHOOSE g : PartLengths(r, g)
  <2>1. PartLengths(r, f)
    BY <1>2, PartLengthsExist
  <2>2. RouteLength(r) = f[Len(r)]
    BY <1>2 DEF RouteLength, PartLengths
  <2> HIDE DEF f
  <2>3. \A i \in 1..Len(r) :
          f[i] = NodeLength(r[i]) + (IF i = 1 THEN 0 ELSE f[i - 1] + 3)
    BY <2>1 DEF PartLengths
  <2>4. \A i \in 1..Len(r) : NodeLength(r[i]) \in 2..7
    BY DEF NodeLength
  <2>5. 1 \in 1..Len(r) /\ (3 \in 1..Len(r) => 2 \in 1..Len(r))
    BY <1>2, OneToThree
  <2>6. f[1] \in 0..7
    <3>1. f[1] = NodeLength(r[1]) + 0
      BY <2>3, <2>5
    <3> QED
      BY <2>4, <2>5, <3>1
  <2>7. ASSUME 2 \in 1..Len(r) PROVE f[2] \in 0..17
    <3>1. f[2] = NodeLength(r[2]) + (f[2 - 1] + 3)
      BY <2>3, <2>7
    <3>2. NodeLength(r[2]) \in 2..7 /\ 2 - 1 = 1
      BY <2>4, <2>7
    <3> QED
      BY <2>6, <3>1, <3>2
  <2>8. ASSUME 3 \in 1..Len(r) PROVE f[3] \in 0..27
    <3>1. f[3] = NodeLength(r[3]) + (f[3 - 1] + 3) /\ 3 - 1 = 2
      BY <2>3, <2>8
    <3>2. f[3] = NodeLength(r[3]) + (f[2] + 3)
      BY <3>1
    <3>3. NodeLength(r[3]) \in 2..7 /\ f[2] \in 0..17
      BY <2>4, <2>5, <2>7, <2>8
    <3>4. \A x \in 2..7, y \in 0..17 : x + (y + 3) \in 0..27
      OBVIOUS
    <3> QED
      BY <3>2, <3>3, <3>4
  <2>9. Len(r) \in {1, 2, 3} /\ Len(r) \in 1..Len(r)
    BY <1>2, OneToThree
  <2>10. f[Len(r)] \in 0..27
    <3>1. CASE Len(r) = 1
      BY <2>6, <3>1
    <3>2. CASE Len(r) = 2
      BY <2>7, <2>9, <3>2
    <3>3. CASE Len(r) = 3
      BY <2>8, <2>9, <3>3
    <3> QED
      BY <2>9, <3>1, <3>2, <3>3
  <2> QED
    BY <2>2, <2>10
<1> QED
  BY <1>1, <1>2

(* What a valid path becomes is a valid context again, so no node refuses  *)
(* it for what an earlier one did.                                         *)
LEMMA ExtendedIsValid ==
  ASSUME NEW Id, NEW N, NEW ctx \in Contexts(Id, N), NEW n,
         ValidateCallPath(ctx, n)
  PROVE  ValidateCallContext(Extended(ctx, n))
<1> DEFINE r == Append(ctx.route, n)
<1>1. /\ Extended(ctx, n).route = r
      /\ Extended(ctx, n).hop = ctx.hop + 1
      /\ Extended(ctx, n).chainID = ctx.chainID
      /\ Extended(ctx, n).rootOperationID = ctx.rootOperationID
      /\ Extended(ctx, n).parentCallID = ctx.parentCallID
      /\ Extended(ctx, n).deadline = ctx.deadline
  BY DEF Contexts, Extended
<1>2. /\ ctx.route \in Seq(Node) /\ n \in Node /\ ctx.hop = Len(ctx.route)
      /\ ctx.hop < MaxCallHop
      /\ DetectCycle(ctx.route) /\ n \notin RangeOf(ctx.route)
  BY PathFacts
<1>3. r \in Seq(Node) /\ Len(r) = ctx.hop + 1 /\ Len(r) <= MaxCallHop
  BY <1>2 DEF MaxCallHop
<1>4. DetectCycle(r) /\ ParseRoute(r)
  <2>1. DetectCycle(r)
    BY <1>2, AppendedNoCycle
  <2>2. RangeOf(r) \subseteq Node
    BY <1>3 DEF RangeOf
  <2> QED
    BY <2>1, <2>2 DEF ParseRoute
<1>5. RouteLength(r) <= MaxRouteLength
  <2>1. RouteLength(r) \in 0..27
    BY <1>3, ShortRoutes
  <2> QED
    BY <2>1 DEF MaxRouteLength
<1>6. ctx.hop + 1 \in 0..MaxCallHop
  BY <1>2 DEF MaxCallHop
<1> HIDE DEF r
<1> QED
  BY <1>1, <1>3, <1>4, <1>5, <1>6 DEF ValidateCallPath, ValidateCallContext

-----------------------------------------------------------------------------
(* What the receivers accept, of all the contexts a message can hold *)

(* The identifiers, hop and deadline a peer-bound receiver asks for.       *)
Strict(ctx) ==
  /\ ctx.chainID \in Uuid /\ ctx.rootOperationID \in Uuid
  /\ ctx.parentCallID \in Uuid \cup {Missing}
  /\ ctx.hop = Len(ctx.route) /\ ctx.deadline > 0

(* The routes of one or two nodes that end at a given one.                 *)
LEMMA ShortEnding ==
  ASSUME NEW r \in Seq(Node), NEW m, LastOf(r) = m
  PROVE  /\ Len(r) = 1 => r = <<m>>
         /\ Len(r) = 2 => /\ r[1] \in Node /\ r[1] \in RangeOf(r)
                          /\ r = <<r[1], m>>
                          /\ DetectCycle(r) => r[1] # m
<1>1. CASE Len(r) = 1
  BY <1>1 DEF LastOf
<1>2. CASE Len(r) = 2
  <2>1. r[2] = m /\ r[1] \in Node /\ r[1] \in RangeOf(r)
    BY <1>2 DEF LastOf, RangeOf
  <2>2. r = <<r[1], m>>
    BY <1>2, <2>1
  <2>3. DetectCycle(r) => r[1] # m
    BY <1>2, <2>1 DEF DetectCycle
  <2> QED
    BY <1>2, <2>1, <2>2, <2>3
<1> QED
  BY <1>1, <1>2

LEMMA ShortRoute ==
  ASSUME NEW m \in Node
  PROVE  /\ <<m>> \in Seq(Node) /\ Len(<<m>>) = 1 /\ LastOf(<<m>>) = m
         /\ RangeOf(<<m>>) = {m} /\ DetectCycle(<<m>>)
         /\ \A n \in Node \ {m} :
              /\ <<n, m>> \in Seq(Node) /\ Len(<<n, m>>) = 2
              /\ LastOf(<<n, m>>) = m /\ RangeOf(<<n, m>>) = {n, m}
              /\ DetectCycle(<<n, m>>)
<1>1. /\ <<m>> \in Seq(Node) /\ Len(<<m>>) = 1 /\ LastOf(<<m>>) = m
      /\ RangeOf(<<m>>) = {m} /\ DetectCycle(<<m>>)
  BY DEF LastOf, RangeOf, DetectCycle
<1>2. ASSUME NEW n \in Node \ {m}
      PROVE  /\ <<n, m>> \in Seq(Node) /\ Len(<<n, m>>) = 2
             /\ LastOf(<<n, m>>) = m /\ RangeOf(<<n, m>>) = {n, m}
             /\ DetectCycle(<<n, m>>)
  BY DEF LastOf, RangeOf, DetectCycle
<1> QED
  BY <1>1, <1>2

(* The short routes that end at a peer and do not go through a node.       *)
LEMMA PeerRoutes ==
  ASSUME NEW N, NEW r \in Seq(N), NEW peer \in Node, NEW n \in Node, peer # n
  PROVE  (/\ r \in Seq(Node) /\ r # <<>> /\ Len(r) < MaxCallHop
          /\ DetectCycle(r) /\ n \notin RangeOf(r) /\ LastOf(r) = peer)
           <=> \/ r = <<peer>>
               \/ \E m \in Node \ {peer, n} : r = <<m, peer>>
<1>1. ASSUME r \in Seq(Node), r # <<>>, Len(r) < MaxCallHop, DetectCycle(r),
             n \notin RangeOf(r), LastOf(r) = peer
      PROVE  \/ r = <<peer>>
             \/ \E m \in Node \ {peer, n} : r = <<m, peer>>
  <2>1. Len(r) \in Nat /\ Len(r) # 0
    BY <1>1
  <2>2. Len(r) = 1 \/ Len(r) = 2
    <3> DEFINE k == Len(r)
    <3>1. k \in Nat /\ k # 0 /\ k < 3
      BY <1>1, <2>1 DEF MaxCallHop
    <3> HIDE DEF k
    <3>2. k = 1 \/ k = 2
      BY <3>1
    <3> QED
      BY <3>2 DEF k
  <2>3. CASE Len(r) = 1
    BY <1>1, <2>3, ShortEnding
  <2>4. CASE Len(r) = 2
    <3>1. r[1] \in Node \ {peer, n} /\ r = <<r[1], peer>>
      BY <1>1, <2>4, ShortEnding
    <3> QED
      BY <3>1
  <2> QED
    BY <2>2, <2>3, <2>4
<1>2. ASSUME r = <<peer>>
      PROVE  /\ r \in Seq(Node) /\ r # <<>> /\ Len(r) < MaxCallHop
             /\ DetectCycle(r) /\ n \notin RangeOf(r) /\ LastOf(r) = peer
  <2>1. Len(<<peer>>) < MaxCallHop /\ <<peer>> # <<>>
    BY ShortRoute DEF MaxCallHop
  <2>2. /\ <<peer>> \in Seq(Node) /\ DetectCycle(<<peer>>)
        /\ n \notin RangeOf(<<peer>>) /\ LastOf(<<peer>>) = peer
    BY ShortRoute
  <2> QED
    BY <1>2, <2>1, <2>2
<1>3. ASSUME NEW m \in Node \ {peer, n}, r = <<m, peer>>
      PROVE  /\ r \in Seq(Node) /\ r # <<>> /\ Len(r) < MaxCallHop
             /\ DetectCycle(r) /\ n \notin RangeOf(r) /\ LastOf(r) = peer
  <2>1. Len(<<m, peer>>) < MaxCallHop /\ <<m, peer>> # <<>>
    BY DEF MaxCallHop
  <2>2. m \in Node \ {peer} /\ m # n
    BY <1>3
  <2>3. /\ <<m, peer>> \in Seq(Node) /\ DetectCycle(<<m, peer>>)
        /\ RangeOf(<<m, peer>>) = {m, peer} /\ LastOf(<<m, peer>>) = peer
    BY <2>2, ShortRoute
  <2> QED
    BY <1>3, <2>1, <2>2, <2>3
<1> QED
  BY <1>1, <1>2, <1>3

(* What the path check of a receiver amounts to, behind its peer.          *)
LEMMA PeerPath ==
  ASSUME NEW Id, NEW N, NEW ctx \in Contexts(Id, N),
         NEW peer \in Node, NEW n \in Node, AllowedTransition(peer, n)
  PROVE  ValidatePeerBoundary(ctx, peer) /\ ValidateCallPath(ctx, n)
           <=> /\ Strict(ctx)
               /\ \/ ctx.route = <<peer>>
                  \/ \E m \in Node \ {peer, n} : ctx.route = <<m, peer>>
<1> DEFINE r == ctx.route
           Goes == /\ r \in Seq(Node) /\ r # <<>> /\ Len(r) < MaxCallHop
                   /\ DetectCycle(r) /\ n \notin RangeOf(r) /\ LastOf(r) = peer
<1>1. peer # n /\ peer # "product"
  BY DEF AllowedTransition
<1>2. r \in Seq(N)
  BY DEF Contexts
<1>3. Goes <=> \/ r = <<peer>>
               \/ \E m \in Node \ {peer, n} : r = <<m, peer>>
  <2>1. \A q \in Seq(N) :
          (/\ q \in Seq(Node) /\ q # <<>> /\ Len(q) < MaxCallHop
           /\ DetectCycle(q) /\ n \notin RangeOf(q) /\ LastOf(q) = peer)
            <=> \/ q = <<peer>>
                \/ \E m \in Node \ {peer, n} : q = <<m, peer>>
    BY <1>1, PeerRoutes
  <2> HIDE DEF r
  <2> QED
    BY <1>2, <2>1
<1>4. ValidatePeerBoundary(ctx, peer) /\ ValidateCallPath(ctx, n)
        => Strict(ctx) /\ Goes
  <2>1. ValidatePeerBoundary(ctx, peer) => r # <<>> /\ LastOf(r) = peer
    BY DEF ValidatePeerBoundary
  <2>2. ValidateCallPath(ctx, n) =>
          /\ r \in Seq(Node) /\ ctx.hop = Len(r) /\ ctx.hop < MaxCallHop
          /\ DetectCycle(r) /\ n \notin RangeOf(r)
    BY PathFacts
  <2>3. ValidatePeerBoundary(ctx, peer) => Strict(ctx)
    BY DEF Strict, ValidatePeerBoundary, ValidateStrictCallContext,
       ValidateCallContext
  <2> HIDE DEF r
  <2> QED
    BY <2>1, <2>2, <2>3
<1>5. ASSUME Strict(ctx), Goes
      PROVE  ValidatePeerBoundary(ctx, peer) /\ ValidateCallPath(ctx, n)
  <2>1. Len(r) \in Nat /\ Len(r) = ctx.hop
    BY <1>5 DEF Strict
  <2>2. ctx.hop \in 0..MaxCallHop /\ ctx.hop < MaxCallHop
    BY <1>5, <2>1 DEF MaxCallHop
  <2>3. RouteLength(r) <= MaxRouteLength
    <3>1. Len(r) <= MaxCallHop
      BY <2>1, <2>2 DEF MaxCallHop
    <3>2. RouteLength(r) \in 0..27
      BY <1>5, <3>1, ShortRoutes, Zenon
    <3> QED
      BY <3>2 DEF MaxRouteLength
  <2>4. ParseRoute(r)
    BY <1>5 DEF ParseRoute, RangeOf
  <2>5. ValidateStrictCallContext(ctx)
    BY <1>5, <2>1, <2>2, <2>3, <2>4
       DEF Strict, ValidateStrictCallContext, ValidateCallContext
  <2>6. ValidateCallPath(ctx, n)
    BY <1>1, <1>5, <2>2, <2>5 DEF ValidateStrictCallContext, ValidateCallPath
  <2> QED
    BY <1>5, <2>5, <2>6 DEF ValidatePeerBoundary
<1> QED
  BY <1>3, <1>4, <1>5

(* Whatever a message holds, Product accepts exactly the strict calls that *)
(* came along a private path from the Agent, and completes that path       *)
(* (callcontext.go:243, :263).                                             *)
THEOREM ProductAcceptsPrivatePaths ==
  ASSUME NEW Id, NEW N, NEW ctx \in Contexts(Id, N)
  PROVE  LET next == ValidateAndAdvanceProductCallContext(ctx) IN
         /\ next # NoContext
              <=> Strict(ctx) /\ ctx.route \in {<<"agent">>, <<"ms", "agent">>}
         /\ next # NoContext =>
              /\ Strict(next)
              /\ next.route \in {<<"agent", "product">>,
                                 <<"ms", "agent", "product">>}
<1> DEFINE next == ValidateAndAdvanceProductCallContext(ctx)
<1>1. ValidateProductCallPath(ctx)
        <=> Strict(ctx) /\ ctx.route \in {<<"agent">>, <<"ms", "agent">>}
  <2>1. /\ "agent" \in Node /\ "product" \in Node
        /\ AllowedTransition("agent", "product")
        /\ Node \ {"agent", "product"} = {"ms"}
    BY DEF Node, AllowedTransition
  <2>2. ValidateProductCallPath(ctx)
          <=> /\ Strict(ctx)
              /\ \/ ctx.route = <<"agent">>
                 \/ \E m \in {"ms"} : ctx.route = <<m, "agent">>
    BY <2>1, PeerPath DEF ValidateProductCallPath
  <2> QED
    BY <2>2
<1>2. ValidateProductCallPath(ctx) => next = Extended(ctx, "product") /\ next # NoContext
  BY AppendExtends DEF ValidateProductCallPath, ValidateAndAdvanceProductCallContext
<1>3. ~ValidateProductCallPath(ctx) => next = NoContext
  BY DEF ValidateAndAdvanceProductCallContext
<1>4. ASSUME ValidateProductCallPath(ctx)
      PROVE  /\ Strict(next)
             /\ next.route \in {<<"agent", "product">>,
                                <<"ms", "agent", "product">>}
  <2>1. /\ next.route = Append(ctx.route, "product") /\ next.hop = ctx.hop + 1
        /\ next.chainID = ctx.chainID
        /\ next.rootOperationID = ctx.rootOperationID
        /\ next.parentCallID = ctx.parentCallID /\ next.deadline = ctx.deadline
    BY <1>2, <1>4 DEF Contexts, Extended
  <2>2. /\ ctx.route \in {<<"agent">>, <<"ms", "agent">>} /\ ctx.route \in Seq(N)
        /\ Strict(ctx)
    BY <1>1, <1>4 DEF Contexts
  <2>3. Len(next.route) = Len(ctx.route) + 1
    BY <2>1, <2>2, AppendedRoute
  <2>4. next.route \in {<<"agent", "product">>, <<"ms", "agent", "product">>}
    BY <2>1, <2>2, Routes
  <2> HIDE DEF next
  <2> QED
    BY <2>1, <2>2, <2>3, <2>4 DEF Strict
<1> HIDE DEF next
<1>5. /\ next # NoContext
           <=> Strict(ctx) /\ ctx.route \in {<<"agent">>, <<"ms", "agent">>}
      /\ next # NoContext =>
           /\ Strict(next)
           /\ next.route \in {<<"agent", "product">>,
                              <<"ms", "agent", "product">>}
  BY <1>1, <1>2, <1>3, <1>4
<1> QED
  BY <1>5 DEF next

(* The Agent accepts exactly the strict calls from message-server, and the *)
(* ones that message-server is said to have had from Product: the one      *)
(* route off the private paths that it lets in (callcontext.go:193, :232). *)
THEOREM AgentAcceptsOneForeignPath ==
  ASSUME NEW Id, NEW N, NEW ctx \in Contexts(Id, N)
  PROVE  ValidateAndAdvanceAgentCallContext(ctx) # NoContext
           <=> Strict(ctx) /\ ctx.route \in {<<"ms">>, <<"product", "ms">>}
<1>1. ValidateAgentCallPath(ctx)
        <=> Strict(ctx) /\ ctx.route \in {<<"ms">>, <<"product", "ms">>}
  <2>1. /\ "ms" \in Node /\ "agent" \in Node /\ AllowedTransition("ms", "agent")
        /\ Node \ {"ms", "agent"} = {"product"}
    BY DEF Node, AllowedTransition
  <2>2. ValidateAgentCallPath(ctx)
          <=> /\ Strict(ctx)
              /\ \/ ctx.route = <<"ms">>
                 \/ \E m \in {"product"} : ctx.route = <<m, "ms">>
    BY <2>1, PeerPath DEF ValidateAgentCallPath
  <2> QED
    BY <2>2
<1>2. ValidateAgentCallPath(ctx) => ValidateAndAdvanceAgentCallContext(ctx) # NoContext
  BY AppendExtends DEF ValidateAgentCallPath, ValidateAndAdvanceAgentCallContext
<1>3. ~ValidateAgentCallPath(ctx) => ValidateAndAdvanceAgentCallContext(ctx) = NoContext
  BY DEF ValidateAndAdvanceAgentCallContext
<1> QED
  BY <1>1, <1>2, <1>3

(* What a receiver returns is valid again, and sending it on from the node *)
(* that accepted it changes nothing, although that send is not validated   *)
(* (callcontext.go:112, :158).                                             *)
THEOREM AdvancedIsStable ==
  ASSUME NEW Id, NEW N, NEW ctx \in Contexts(Id, N), NEW n \in Node,
         ValidateAndAdvanceCallContext(ctx, n) # NoContext
  PROVE  LET next == ValidateAndAdvanceCallContext(ctx, n) IN
         ValidateCallContext(next) /\ AppendCallNode(next, n) = next
<1> DEFINE next == ValidateAndAdvanceCallContext(ctx, n)
<1>1. next = Extended(ctx, n) /\ ValidateCallPath(ctx, n)
  BY ReceivedIsExtended
<1>2. ValidateCallContext(next)
  BY <1>1, ExtendedIsValid
<1>3. next.route = Append(ctx.route, n) /\ ctx.route \in Seq(N)
  BY <1>1 DEF Contexts, Extended
<1>4. next.route # <<>> /\ LastOf(next.route) = n
  <2> HIDE DEF next
  <2>1. ASSUME NEW r \in Seq(N)
        PROVE  Append(r, n) # <<>> /\ LastOf(Append(r, n)) = n
    BY DEF LastOf
  <2> QED
    BY <1>3, <2>1
<1> HIDE DEF next
<1>5. AppendCallNode(next, n) = next
  BY <1>2, <1>4 DEF AppendCallNode, ValidateCallContext
<1> QED
  BY <1>2, <1>5 DEF next

-----------------------------------------------------------------------------
(* Digests.  Equal digests are of equal requests.                          *)

LEMMA RootDigestTells ==
  ASSUME NEW d, NEW r, NEW i, NEW a, NEW e, NEW q, NEW j, NEW b,
         ComputeRootRequestDigest(d, r, i, a) # Missing,
         ComputeRootRequestDigest(d, r, i, a) = ComputeRootRequestDigest(e, q, j, b)
  PROVE  /\ d.schema = e.schema /\ d.operation = e.operation
         /\ r = q /\ a = b
         /\ InputOf(i) = InputOf(j)
<1>1. Preimage(d, r, i, a, Nil) = Preimage(e, q, j, b, Nil)
  BY DEF ComputeRootRequestDigest, computeRequestDigest
<1>2. \A f, s, k, c :
        LET p == Preimage(f, s, k, c, Nil) IN
        /\ p.schema = f.schema /\ p.operation = f.operation
        /\ p.revision = s /\ p.attachments = c
        /\ p.input = InputOf(k)
  BY DEF Preimage
<1> QED
  BY <1>1, <1>2

(* A final digest goes with one grant.                                     *)
LEMMA FinalDigestTells ==
  ASSUME NEW d, NEW r, NEW i, NEW a, NEW g, NEW e, NEW q, NEW j, NEW b, NEW h,
         ComputeRequestDigest(d, r, i, a, g) # Missing,
         ComputeRequestDigest(d, r, i, a, g) = ComputeRequestDigest(e, q, j, b, h)
  PROVE  /\ d.schema = e.schema /\ d.operation = e.operation
         /\ g = h
<1>1. Preimage(d, r, i, a, g) = Preimage(e, q, j, b, h)
  BY DEF ComputeRequestDigest, computeRequestDigest
<1>2. \A f, s, k, c, l :
        LET p == Preimage(f, s, k, c, l) IN
        p.schema = f.schema /\ p.operation = f.operation /\ p.grant = l
  BY DEF Preimage
<1> QED
  BY <1>1, <1>2

(* A digest depends on no more of a descriptor than it hashes.             *)
LEMMA RootDigestOfSchema ==
  ASSUME NEW d, NEW e, NEW r, NEW i, NEW a,
         d.schema = e.schema, d.operation = e.operation
  PROVE  ComputeRootRequestDigest(d, r, i, a) = ComputeRootRequestDigest(e, r, i, a)
  BY DEF ComputeRootRequestDigest, computeRequestDigest, Preimage

(* A digest that is there was computed of the business it holds.           *)
LEMMA RootDigestHolds ==
  ASSUME NEW d, NEW r, NEW i, NEW a, ComputeRootRequestDigest(d, r, i, a) # Missing
  PROVE  /\ ComputeRootRequestDigest(d, r, i, a).attachments = a
         /\ ValidateSHA256Digest(d.schema)
         /\ \A file \in NodesOf(a) : ValidateSHA256Digest(file)
  BY DEF ComputeRootRequestDigest, computeRequestDigest, Preimage

(* What is read of the text of an input is the input.                      *)
LEMMA WrittenIsRead ==
  ASSUME NEW input, ParseBusinessInput(SerializeBusinessInput(input)) # Nil
  PROVE  /\ ParseBusinessInput(SerializeBusinessInput(input)) = input
         /\ input # Nil
         /\ CanonicalizeJSON(SerializeBusinessInput(input))
              = SerializeBusinessInput(input)
         /\ CanonicalizeJSON(SerializeBusinessInput(input)) # NoText
<1> DEFINE value == IF input = Nil THEN NotObject ELSE input
           text == [value |-> value, form |-> "canonical"]
<1>1. SerializeBusinessInput(input) = text
  BY DEF SerializeBusinessInput
<1> HIDE DEF value
<1>2. CanonicalizeJSON(text) = text /\ text # NoText
  BY DEF CanonicalizeJSON, NoText
<1>3. ParseBusinessInput(text) = IF value = NotObject THEN Nil ELSE value
  BY <1>2 DEF ParseBusinessInput
<1> QED
  BY <1>1, <1>2, <1>3 DEF value

-----------------------------------------------------------------------------
(* Signing.  The codec fills in the kind, the times and the route length,  *)
(* and leaves every other claim.                                           *)

Claim == DOMAIN NoGrant

LEMMA ClaimNames ==
  Claim = {"chainID", "rootOperationID", "childOperationID", "grantKind",
           "productTargetKind", "ownerID", "accountGeneration", "scopes",
           "descriptor", "rootRequestDigest", "issuedAt", "expiresAt",
           "entryDeadline", "entryRoute", "entryHop", "maxHop", "maxRouteLength"}
  BY DEF Claim, NoGrant

LEMMA ZeroCodecNormal ==
  /\ Normalized(ZeroCodec).maxTTL = DefaultGrantTTL
  /\ Normalized(ZeroCodec).clockSkew = 0
  BY DEF ZeroCodec, Normalized

SignerFills == {"grantKind", "issuedAt", "expiresAt", "entryDeadline", "maxRouteLength"}

LEMMA SignKeeps ==
  ASSUME NEW codec, NEW claims, DOMAIN claims = Claim, NEW t,
         Sign(codec, claims, t) # NoGrant
  PROVE  LET g == Sign(codec, claims, t)
             maxTTL == Normalized(codec).maxTTL
             issued == OrElse(claims.issuedAt, t)
             expires == OrElse(claims.expiresAt, issued + maxTTL)
         IN /\ ValidateGrantClaims(g, maxTTL)
            /\ DOMAIN g = Claim /\ g = [f \in Claim |-> g[f]]
            /\ \A f \in Claim \ SignerFills : g[f] = claims[f]
            /\ g.grantKind = IF claims.grantKind = "none" THEN "root"
                             ELSE claims.grantKind
            /\ g.issuedAt = issued
            /\ g.expiresAt = expires
            /\ g.entryDeadline = OrElse(claims.entryDeadline, expires)
            /\ g.maxRouteLength = OrElse(claims.maxRouteLength, MaxRouteLength)
<1> DEFINE maxTTL == Normalized(codec).maxTTL
           issued == OrElse(claims.issuedAt, t)
           expires == OrElse(claims.expiresAt, issued + maxTTL)
           kind == IF claims.grantKind = "none" THEN "root" ELSE claims.grantKind
           deadline == OrElse(claims.entryDeadline, expires)
           length == OrElse(claims.maxRouteLength, MaxRouteLength)
           c == [claims EXCEPT !.grantKind = kind, !.issuedAt = issued,
                               !.expiresAt = expires, !.entryDeadline = deadline,
                               !.maxRouteLength = length]
<1>1. Sign(codec, claims, t) = IF ValidateGrantClaims(c, maxTTL) THEN c ELSE NoGrant
  BY DEF Sign
<1> HIDE DEF maxTTL, issued, expires, kind, deadline, length
<1>2. /\ DOMAIN c = Claim /\ c = [f \in Claim |-> c[f]]
      /\ \A f \in Claim \ SignerFills : c[f] = claims[f]
      /\ c.grantKind = kind /\ c.issuedAt = issued /\ c.expiresAt = expires
      /\ c.entryDeadline = deadline /\ c.maxRouteLength = length
  BY ClaimNames DEF SignerFills
<1> HIDE DEF c
<1>3. Sign(codec, claims, t) = c /\ ValidateGrantClaims(c, maxTTL)
  BY <1>1
<1> QED
  BY <1>2, <1>3 DEF maxTTL, issued, expires, kind, deadline, length

(* What message-server signs for a call that enters there.                 *)
ClaimsToSign(chain, op, owner, account, scopes, descriptor, digest, hops) ==
  [NoGrant EXCEPT
     !.chainID = chain, !.rootOperationID = op,
     !.ownerID = owner, !.accountGeneration = account,
     !.scopes = scopes, !.descriptor = descriptor, !.rootRequestDigest = digest,
     !.entryRoute = <<"ms">>, !.entryHop = 1, !.maxHop = hops]

LEMMA SignedRoot ==
  ASSUME NEW chain, NEW op, NEW owner, NEW account, NEW scopes, NEW descriptor,
         NEW digest, NEW hops, NEW t \in Nat \ {0},
         Sign(ZeroCodec, ClaimsToSign(chain, op, owner, account, scopes, descriptor,
                                    digest, hops), t) # NoGrant
  PROVE  LET g == Sign(ZeroCodec,
                       ClaimsToSign(chain, op, owner, account, scopes, descriptor,
                                  digest, hops), t)
         IN /\ ValidateGrantClaims(g, DefaultGrantTTL)
            /\ DOMAIN g = Claim /\ g = [f \in Claim |-> g[f]]
            /\ IsRoot(g) /\ g.productTargetKind = "none"
            /\ g.chainID = chain /\ g.rootOperationID = op
            /\ g.ownerID = owner /\ g.accountGeneration = account
            /\ g.scopes = scopes /\ g.descriptor = descriptor
            /\ g.rootRequestDigest = digest
            /\ g.entryRoute = <<"ms">> /\ g.entryHop = 1 /\ g.maxHop = hops
            /\ g.issuedAt = t /\ g.expiresAt = t + DefaultGrantTTL
            /\ g.entryDeadline = t + DefaultGrantTTL
            /\ g.maxRouteLength = MaxRouteLength
<1> DEFINE claims == ClaimsToSign(chain, op, owner, account, scopes, descriptor,
                                digest, hops)
           g == Sign(ZeroCodec, claims, t)
           route == <<"ms">>
<1> HIDE DEF route
<1>1. /\ DOMAIN claims = Claim
      /\ claims.chainID = chain /\ claims.rootOperationID = op
      /\ claims.ownerID = owner /\ claims.accountGeneration = account
      /\ claims.scopes = scopes /\ claims.descriptor = descriptor
      /\ claims.rootRequestDigest = digest
  BY DEF ClaimsToSign, NoGrant, Claim
<1>2. /\ claims.entryRoute = route /\ claims.entryHop = 1 /\ claims.maxHop = hops
      /\ claims.childOperationID = Missing
      /\ claims.grantKind = "none" /\ claims.productTargetKind = "none"
      /\ claims.issuedAt = 0 /\ claims.expiresAt = 0
      /\ claims.entryDeadline = 0 /\ claims.maxRouteLength = 0
  BY DEF ClaimsToSign, NoGrant, route
<1> HIDE DEF claims
<1>3. /\ OrElse(claims.issuedAt, t) = t
      /\ \A x : OrElse(claims.expiresAt, x) = x
      /\ \A x : OrElse(claims.entryDeadline, x) = x
      /\ \A x : OrElse(claims.maxRouteLength, x) = x
  BY <1>2 DEF OrElse
<1>4. g # NoGrant
  BY DEF claims
<1>5. /\ ValidateGrantClaims(g, DefaultGrantTTL)
      /\ DOMAIN g = Claim /\ g = [f \in Claim |-> g[f]]
      /\ \A f \in Claim \ SignerFills : g[f] = claims[f]
      /\ g.grantKind = "root"
      /\ g.issuedAt = t /\ g.expiresAt = t + DefaultGrantTTL
      /\ g.entryDeadline = t + DefaultGrantTTL
      /\ g.maxRouteLength = MaxRouteLength
  BY <1>1, <1>2, <1>3, <1>4, SignKeeps, ZeroCodecNormal
<1> HIDE DEF g
<1>6. /\ g.chainID = chain /\ g.rootOperationID = op
      /\ g.ownerID = owner /\ g.accountGeneration = account
      /\ g.scopes = scopes /\ g.descriptor = descriptor
      /\ g.rootRequestDigest = digest
      /\ g.entryRoute = route /\ g.entryHop = 1 /\ g.maxHop = hops
      /\ g.childOperationID = Missing /\ g.productTargetKind = "none"
  BY <1>1, <1>2, <1>5, ClaimNames DEF SignerFills
<1> QED
  BY <1>5, <1>6 DEF g, claims, route, IsRoot

-----------------------------------------------------------------------------
(* The contexts requests travel with *)

(* A context that message-server sends with.                               *)
LEMMA EntryContext ==
  ASSUME NEW chain \in Uuid, NEW op \in Uuid, NEW deadline \in Int,
         ValidateStrictCallContext(
           AppendCallNode(NewCallContext(chain, op, deadline), "ms"))
  PROVE  AppendCallNode(NewCallContext(chain, op, deadline), "ms")
           \in Contexts(Uuid \cup {Missing}, Node)
<1> DEFINE new == NewCallContext(chain, op, deadline)
           ctx == AppendCallNode(new, "ms")
           r == Append(new.route, "ms")
<1>1. new \in Contexts(Uuid \cup {Missing}, Node)
  BY DEF NewCallContext, Contexts
<1>2. ctx # NoContext
  <2>1. ctx.chainID \in Uuid
    BY DEF ValidateStrictCallContext
  <2> QED
    BY <2>1, IdentifierAssumption DEF NoContext
<1>3. ctx = new \/ ctx = Extended(new, "ms")
  BY <1>1, <1>2, AppendCases
<1>4. new.hop + 1 \in Int /\ r \in Seq(Node)
  BY <1>1 DEF Contexts, Node
<1>5. ASSUME NEW h \in Int, NEW s \in Seq(Node)
      PROVE  [new EXCEPT !.hop = h, !.route = s] \in Contexts(Uuid \cup {Missing}, Node)
  <2> HIDE DEF new
  <2> QED
    BY <1>1, <1>5 DEF Contexts
<1>6. Extended(new, "ms") = [new EXCEPT !.hop = new.hop + 1, !.route = r]
  BY DEF Extended
<1> QED
  BY <1>1, <1>3, <1>4, <1>5, <1>6

(* A strict context on a valid path goes on strictly.                      *)
LEMMA NextNode ==
  ASSUME NEW ctx \in Contexts(Uuid \cup {Missing}, Node), NEW n,
         ValidateStrictCallContext(ctx), ValidateCallPath(ctx, n)
  PROVE  LET new == Extended(ctx, n) IN
         /\ AppendCallNode(ctx, n) = new /\ new # NoContext
         /\ new \in Contexts(Uuid \cup {Missing}, Node)
         /\ ValidateStrictCallContext(new)
         /\ new.chainID = ctx.chainID
         /\ new.rootOperationID = ctx.rootOperationID
         /\ new.deadline = ctx.deadline
         /\ new.route = Append(ctx.route, n) /\ new.hop = ctx.hop + 1
         /\ RouteLength(new.route) <= MaxRouteLength
<1> DEFINE new == Extended(ctx, n)
           r == Append(ctx.route, n)
<1>1. AppendCallNode(ctx, n) = new /\ new # NoContext
  BY AppendExtends
<1>2. /\ new.chainID = ctx.chainID /\ new.rootOperationID = ctx.rootOperationID
      /\ new.parentCallID = ctx.parentCallID /\ new.deadline = ctx.deadline
      /\ new.hop = ctx.hop + 1 /\ new.route = r
  BY DEF Contexts, Extended
<1>3. ValidateCallContext(new)
  BY ExtendedIsValid
<1>4. r \in Seq(Node) /\ ctx.hop + 1 \in Int
  BY DEF Contexts, ValidateCallPath
<1>5. new = [ctx EXCEPT !.hop = ctx.hop + 1, !.route = r]
  BY DEF Extended
<1> HIDE DEF new, r
<1>6. new \in Contexts(Uuid \cup {Missing}, Node)
  BY <1>4, <1>5 DEF Contexts
<1>7. ValidateStrictCallContext(new)
  BY <1>2, <1>3 DEF ValidateStrictCallContext
<1>8. RouteLength(new.route) <= MaxRouteLength
  BY <1>3 DEF ValidateCallContext
<1> QED
  BY <1>1, <1>2, <1>6, <1>7, <1>8 DEF new, r

(* A context that comes from message-server is one the Agent takes.        *)
LEMMA EntryContextIsTaken ==
  ASSUME NEW ctx \in Contexts(Uuid \cup {Missing}, Node),
         ValidateStrictCallContext(ctx), ctx.route = <<"ms">>, ctx.hop = 1
  PROVE  LET new == ValidateAndAdvanceAgentCallContext(ctx) IN
         /\ new # NoContext
         /\ new \in Contexts(Uuid \cup {Missing}, Node)
         /\ ValidateStrictCallContext(new)
         /\ new.chainID = ctx.chainID
         /\ new.rootOperationID = ctx.rootOperationID
         /\ new.deadline = ctx.deadline
         /\ new.route = <<"ms", "agent">> /\ new.hop = 2
         /\ RouteLength(new.route) <= MaxRouteLength
<1> DEFINE r == <<"ms">>
<1>1. Len(r) = 1 /\ DOMAIN r = {1} /\ r[1] = "ms" /\ r # <<>>
  OBVIOUS
<1>2. Append(r, "agent") = <<"ms", "agent">> /\ LastOf(r) = "ms" /\ ctx.route = r
  BY Routes
<1> HIDE DEF r
<1>3. "agent" \notin RangeOf(r)
  BY <1>1 DEF RangeOf
<1>4. ValidateCallPath(ctx, "agent")
  BY <1>1, <1>2, <1>3 DEF ValidateCallPath, ValidateStrictCallContext,
     AllowedTransition, Node, MaxCallHop
<1>5. ValidateAgentCallPath(ctx)
  BY <1>1, <1>2, <1>4 DEF ValidateAgentCallPath, ValidatePeerBoundary
<1>6. ValidateAndAdvanceAgentCallContext(ctx) = Extended(ctx, "agent")
  BY <1>4, <1>5, NextNode DEF ValidateAndAdvanceAgentCallContext
<1> DEFINE next == Extended(ctx, "agent")
<1>7. /\ AppendCallNode(ctx, "agent") = next /\ next # NoContext
      /\ next \in Contexts(Uuid \cup {Missing}, Node)
      /\ ValidateStrictCallContext(next)
      /\ next.chainID = ctx.chainID
      /\ next.rootOperationID = ctx.rootOperationID
      /\ next.deadline = ctx.deadline
      /\ next.route = Append(ctx.route, "agent") /\ next.hop = ctx.hop + 1
      /\ RouteLength(next.route) <= MaxRouteLength
  BY <1>4, NextNode
<1> HIDE DEF next
<1> QED
  BY <1>2, <1>6, <1>7 DEF next

(* And the Agent's is one that Product takes.                              *)
LEMMA AgentContextIsTaken ==
  ASSUME NEW ctx \in Contexts(Uuid \cup {Missing}, Node),
         ValidateStrictCallContext(ctx), ctx.route = <<"ms", "agent">>, ctx.hop = 2
  PROVE  LET new == ValidateAndAdvanceProductCallContext(ctx) IN
         /\ AppendCallNode(ctx, "agent") = ctx
         /\ new # NoContext
         /\ ValidateStrictCallContext(new)
         /\ new.chainID = ctx.chainID
         /\ new.rootOperationID = ctx.rootOperationID
         /\ new.deadline = ctx.deadline
         /\ new.route = <<"ms", "agent", "product">> /\ new.hop = 3
         /\ RouteLength(new.route) <= MaxRouteLength
<1> DEFINE r == <<"ms", "agent">>
<1>1. DOMAIN r = {1, 2} /\ r[1] = "ms" /\ r[2] = "agent" /\ r # <<>>
  OBVIOUS
<1>2. /\ Append(r, "product") = <<"ms", "agent", "product">>
      /\ LastOf(r) = "agent" /\ ctx.route = r
  BY Routes
<1> HIDE DEF r
<1>3. "product" \notin RangeOf(r)
  BY <1>1 DEF RangeOf
<1>4. ParseRoute(r)
  BY <1>2 DEF ValidateStrictCallContext, ValidateCallContext
<1>5. AppendCallNode(ctx, "agent") = ctx
  BY <1>1, <1>2, <1>4 DEF AppendCallNode
<1>6. ValidateCallPath(ctx, "product")
  BY <1>1, <1>2, <1>3 DEF ValidateCallPath, ValidateStrictCallContext,
     AllowedTransition, Node, MaxCallHop
<1>7. ValidateProductCallPath(ctx)
  BY <1>1, <1>2, <1>6 DEF ValidateProductCallPath, ValidatePeerBoundary
<1>8. ValidateAndAdvanceProductCallContext(ctx) = Extended(ctx, "product")
  BY <1>6, <1>7, NextNode DEF ValidateAndAdvanceProductCallContext
<1> DEFINE next == Extended(ctx, "product")
<1>9. /\ AppendCallNode(ctx, "product") = next /\ next # NoContext
      /\ next \in Contexts(Uuid \cup {Missing}, Node)
      /\ ValidateStrictCallContext(next)
      /\ next.chainID = ctx.chainID
      /\ next.rootOperationID = ctx.rootOperationID
      /\ next.deadline = ctx.deadline
      /\ next.route = Append(ctx.route, "product") /\ next.hop = ctx.hop + 1
      /\ RouteLength(next.route) <= MaxRouteLength
  BY <1>6, NextNode
<1> HIDE DEF next
<1> QED
  BY <1>2, <1>5, <1>8, <1>9 DEF next

(* A context that begins at message-server.                                *)
LEMMA BegunContext ==
  ASSUME NEW chain \in Uuid, NEW op \in Uuid, NEW deadline \in Int, deadline > 0
  PROVE  LET ctx == AppendCallNode(NewCallContext(chain, op, deadline), "ms") IN
         /\ ctx \in Contexts(Uuid \cup {Missing}, Node)
         /\ ValidateStrictCallContext(ctx)
         /\ ctx.chainID = chain /\ ctx.rootOperationID = op
         /\ ctx.deadline = deadline
         /\ ctx.route = <<"ms">> /\ ctx.hop = 1
<1> DEFINE new == NewCallContext(chain, op, deadline)
<1>1. op # Missing
  BY IdentifierAssumption
<1>2. /\ new \in Contexts(Uuid \cup {Missing}, Node)
      /\ new.chainID = chain /\ new.rootOperationID = op
      /\ new.parentCallID = Missing /\ new.hop = 0 /\ new.route = <<>>
      /\ new.deadline = deadline
  BY <1>1 DEF NewCallContext, Contexts
<1> HIDE DEF new
<1>3. RangeOf(<<>>) = {} /\ Len(<<>>) = 0 /\ DOMAIN <<>> = {}
  BY DEF RangeOf
<1>4. ValidateCallContext(new)
  BY <1>2, <1>3 DEF ValidateCallContext, RouteLength, MaxRouteLength, MaxCallHop,
     ParseRoute, DetectCycle
<1>5. ValidateStrictCallContext(new) /\ ValidateCallPath(new, "ms")
  BY <1>2, <1>4 DEF ValidateStrictCallContext, ValidateCallPath, Node
<1>6. Append(<<>>, "ms") = <<"ms">>
  BY Routes
<1> DEFINE next == Extended(new, "ms")
<1>7. /\ AppendCallNode(new, "ms") = next /\ next # NoContext
      /\ next \in Contexts(Uuid \cup {Missing}, Node)
      /\ ValidateStrictCallContext(next)
      /\ next.chainID = new.chainID
      /\ next.rootOperationID = new.rootOperationID
      /\ next.deadline = new.deadline
      /\ next.route = Append(new.route, "ms") /\ next.hop = new.hop + 1
      /\ RouteLength(next.route) <= MaxRouteLength
  BY <1>2, <1>5, NextNode
<1> HIDE DEF next
<1> QED
  BY <1>2, <1>6, <1>7 DEF new

-----------------------------------------------------------------------------
(* Arrival.  Whatever was mixed up or respelled, the parts are of requests *)
(* that were sent.                                                         *)

RequestFields == {"operationID", "operation", "revision", "json",
                  "requestDigest", "permission", "ctx"}
PermissionFields == {"ownerID", "accountGeneration", "scopes", "grant",
                     "rootRequestDigest"}

LEMMA Arrived ==
  ASSUME NEW S, NEW mixable,
         \A r \in S : /\ DOMAIN r = RequestFields
                      /\ DOMAIN r.permission = PermissionFields,
         NEW req \in Arriving(S, mixable)
  PROVE  /\ \E r \in S : req.permission.grant = r.permission.grant
         /\ \E r \in S : req.requestDigest = r.requestDigest
         /\ \E r \in S : req.permission.ownerID = r.permission.ownerID
         /\ \E r \in S : req.ctx = r.ctx
         /\ \E r \in S : \/ req.json = r.json
                         \/ \E form \in Form : req.json = [r.json EXCEPT !.form = form]
<1>1. ASSUME NEW r \in S, NEW other \in S, NEW parts, req = Mixed(r, other, parts)
      PROVE  /\ req.permission.grant
                  \in {r.permission.grant, other.permission.grant}
             /\ req.permission.ownerID
                  \in {r.permission.ownerID, other.permission.ownerID}
             /\ req.requestDigest \in {r.requestDigest, other.requestDigest}
             /\ req.json \in {r.json, other.json}
             /\ req.ctx \in {r.ctx, other.ctx}
  <2> DEFINE p == IF "principal" \in parts THEN other.permission ELSE r.permission
             g == IF "grant" \in parts THEN other.permission.grant
                  ELSE r.permission.grant
  <2>1. req.permission = [p EXCEPT !.grant = g]
    BY <1>1 DEF Mixed
  <2>2. /\ DOMAIN p = PermissionFields
        /\ p.ownerID \in {r.permission.ownerID, other.permission.ownerID}
    OBVIOUS
  <2>3. g \in {r.permission.grant, other.permission.grant}
    OBVIOUS
  <2> HIDE DEF p, g
  <2>4. req.permission.grant = g /\ req.permission.ownerID = p.ownerID
    BY <2>1, <2>2 DEF PermissionFields
  <2>5. /\ req.requestDigest \in {r.requestDigest, other.requestDigest}
        /\ req.json \in {r.json, other.json}
        /\ req.ctx \in {r.ctx, other.ctx}
    BY <1>1 DEF Mixed
  <2> QED
    BY <2>2, <2>3, <2>4, <2>5
<1>2. ASSUME NEW r \in S, NEW form \in Form, req = [r EXCEPT !.json.form = form]
      PROVE  /\ req.permission = r.permission
             /\ req.requestDigest = r.requestDigest
             /\ req.json = [r.json EXCEPT !.form = form]
             /\ req.ctx = r.ctx
  <2> DEFINE j == [r.json EXCEPT !.form = form]
  <2>1. req = [r EXCEPT !.json = j]
    BY <1>2
  <2> HIDE DEF j
  <2>2. /\ req.permission = r.permission /\ req.requestDigest = r.requestDigest
        /\ req.json = j /\ req.ctx = r.ctx
    BY <2>1 DEF RequestFields
  <2> QED
    BY <2>2 DEF j
<1>3. \/ \E r \in S, other \in S, parts \in SUBSET mixable :
           req = Mixed(r, other, parts)
      \/ \E r \in S, form \in Form : req = [r EXCEPT !.json.form = form]
  BY DEF Arriving
<1>4. CASE \E r \in S, other \in S, parts \in SUBSET mixable :
             req = Mixed(r, other, parts)
  <2>1. PICK r \in S, other \in S, parts \in SUBSET mixable :
          req = Mixed(r, other, parts)
    BY <1>4
  <2> QED
    BY <1>1, <2>1
<1>5. CASE \E r \in S, form \in Form : req = [r EXCEPT !.json.form = form]
  <2>1. PICK r \in S, form \in Form : req = [r EXCEPT !.json.form = form]
    BY <1>5
  <2>2. /\ req.permission = r.permission
        /\ req.requestDigest = r.requestDigest
        /\ req.json = [r.json EXCEPT !.form = form]
        /\ req.ctx = r.ctx
    BY <1>2, <2>1
  <2> QED
    BY <2>2
<1> QED
  BY <1>3, <1>4, <1>5
=============================================================================

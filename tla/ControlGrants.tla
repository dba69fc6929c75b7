---------------------------- MODULE ControlGrants ----------------------------
(***************************************************************************)
(* The short grants that a Start hands back, one for each control action   *)
(* on the operation: how one is signed, where it is accepted, and when a   *)
(* whole set of them is (grant.go, replay.go, validation.go).              *)
(*                                                                         *)
(* As in Grants, a grant is the record of its claims; NoControlGrant is    *)
(* whatever does not decode to one.  A set travels as a sequence of        *)
(* envelopes, which repeat the action and the expiry outside the grant.    *)
(***************************************************************************)
EXTENDS Grants

CONSTANT DefaultControlGrantTTL  \* 2 minutes

ASSUME ControlTTLAssumption ==
  /\ DefaultControlGrantTTL \in Nat \ {0}
  /\ DefaultControlGrantTTL <= DefaultGrantTTL

ControlAction == {"get", "watch", "cancel", "reconcile"}

(* The one scope derived from an action. *)
ControlScope(action) == <<"operation:control", action>>

MaxOperationControlGrantEnvelopes == 4

NoControlGrant ==
  [chainID |-> Missing, ownerID |-> Missing, accountGeneration |-> 0,
   operationID |-> Missing, controlAction |-> "none",
   controlScope |-> ControlScope("none"), entryRoute |-> <<>>, entryHop |-> 0,
   deadline |-> 0, issuedAt |-> 0, expiresAt |-> 0]

(* Unlike a root grant's, the deadline may lie before the issue time. *)
ValidateOperationControlGrant(c, maxTTL) ==
  /\ c.chainID \in Uuid
  /\ c.operationID \in Uuid
  /\ c.ownerID \in OwnerID
  /\ c.accountGeneration \in 1..MaxAccountGeneration
  /\ 0 < c.deadline /\ c.deadline <= c.expiresAt
  /\ 0 < c.issuedAt /\ c.issuedAt < c.expiresAt
  /\ c.controlAction \in ControlAction
  /\ c.controlScope = ControlScope(c.controlAction)
  /\ ValidateEntryRoute(c.entryRoute, c.entryHop)
  /\ c.expiresAt - c.issuedAt <= maxTTL

ControlTTL(codec) ==
  IF Normalized(codec).maxTTL > DefaultControlGrantTTL
  THEN DefaultControlGrantTTL ELSE Normalized(codec).maxTTL

SignOperationControlGrant(codec, claims, now) ==
  LET issued == OrElse(claims.issuedAt, now)
      expires == OrElse(claims.expiresAt, issued + ControlTTL(codec))
      c == [claims EXCEPT !.issuedAt = issued,
                          !.expiresAt = expires,
                          !.deadline = OrElse(@, expires)]
  IN IF ValidateOperationControlGrant(c, ControlTTL(codec))
     THEN c ELSE NoControlGrant

-----------------------------------------------------------------------------
(* Boundaries.  A binding holds what the receiver knows of the call. *)

(* The route a call has at the boundary where it entered as the grant says. *)
ExpectedControlBoundaryRoute(c, terminal) ==
  IF terminal = "agent"
  THEN [route |-> <<"ms", "agent">>, hop |-> c.entryHop + 1]
  ELSE IF c.entryRoute = <<"ms">>
  THEN [route |-> <<"ms", "agent", "product">>, hop |-> c.entryHop + 2]
  ELSE [route |-> <<"agent", "product">>, hop |-> c.entryHop + 1]

(* Mutant: the operation is not compared. *)
MutantControlOfAnyOperation(c, b, terminal) ==
  /\ ValidateStrictCallContext(b.ctx)
  /\ c.chainID = b.ctx.chainID
  /\ c.ownerID = b.ownerID
  /\ c.accountGeneration = b.accountGeneration
  /\ c.controlAction = b.controlAction
  /\ b.ctx.deadline <= c.deadline
  /\ terminal = "agent" => c.entryRoute = <<"ms">>
  /\ [route |-> b.ctx.route, hop |-> b.ctx.hop]
       = ExpectedControlBoundaryRoute(c, terminal)

(* Mutant: a grant outlives the account it was signed for. *)
MutantControlOfAnyGeneration(c, b, terminal) ==
  /\ ValidateStrictCallContext(b.ctx)
  /\ c.chainID = b.ctx.chainID
  /\ c.ownerID = b.ownerID
  /\ c.operationID = b.operationID
  /\ c.controlAction = b.controlAction
  /\ b.ctx.deadline <= c.deadline
  /\ terminal = "agent" => c.entryRoute = <<"ms">>
  /\ [route |-> b.ctx.route, hop |-> b.ctx.hop]
       = ExpectedControlBoundaryRoute(c, terminal)

(* Mutant: any chain of the operation will do. *)
MutantControlOnAnyChain(c, b, terminal) ==
  /\ ValidateStrictCallContext(b.ctx)
  /\ c.ownerID = b.ownerID
  /\ c.accountGeneration = b.accountGeneration
  /\ c.operationID = b.operationID
  /\ c.controlAction = b.controlAction
  /\ b.ctx.deadline <= c.deadline
  /\ terminal = "agent" => c.entryRoute = <<"ms">>
  /\ [route |-> b.ctx.route, hop |-> b.ctx.hop]
       = ExpectedControlBoundaryRoute(c, terminal)

ValidateControlBinding(c, b, terminal) ==
  /\ b.ownerID # Missing
  /\ b.operationID # Missing
  /\ b.accountGeneration > 0
  /\ ValidateStrictCallContext(b.ctx)
  /\ c.chainID = b.ctx.chainID
  /\ c.ownerID = b.ownerID
  /\ c.accountGeneration = b.accountGeneration
  /\ c.operationID = b.operationID
  /\ c.controlAction = b.controlAction
  /\ c.controlScope = b.controlScope
  /\ b.ctx.deadline <= c.deadline
  /\ terminal = "agent" => c.entryRoute = <<"ms">>
  /\ [route |-> b.ctx.route, hop |-> b.ctx.hop]
       = ExpectedControlBoundaryRoute(c, terminal)

VerifyControlGrantAt(codec, grant, now, b, terminal) ==
  /\ ValidateOperationControlGrant(grant, ControlTTL(codec))
  /\ now < grant.expiresAt
  /\ now + Normalized(codec).clockSkew >= grant.issuedAt
  /\ ValidateControlBinding(grant, b, terminal)

VerifyOperationControlGrant(codec, grant, now, b) ==
  VerifyControlGrantAt(codec, grant, now, b, "agent")

VerifyProductOperationControlGrant(codec, grant, now, b) ==
  VerifyControlGrantAt(codec, grant, now, b, "product")

-----------------------------------------------------------------------------
(* Sets of grants. *)

IsInjectiveList(s) == \A i, j \in DOMAIN s : s[i] = s[j] => i = j

(* Mutant: an envelope may promise any expiry to come. *)
MutantEnvelopesOfAnyLife(envelopes, now) ==
  /\ now > 0
  /\ \A i \in DOMAIN envelopes : now < envelopes[i].expiresAt

(* The shape of a set, whose grants stay opaque: an empty one is fine. *)
ValidateOperationControlGrantEnvelopes(envelopes, now) ==
  envelopes # <<>> =>
    /\ Len(envelopes) <= MaxOperationControlGrantEnvelopes
    /\ now > 0
    /\ IsInjectiveList([i \in DOMAIN envelopes |-> envelopes[i].action])
    /\ \A i \in DOMAIN envelopes :
         /\ envelopes[i].action \in ControlAction
         /\ envelopes[i].grant # NoControlGrant
         /\ now < envelopes[i].expiresAt
         /\ envelopes[i].expiresAt - now <= DefaultControlGrantTTL

ValidateControlGrantEnvelopeBinding(b) ==
  /\ b.ownerID \in OwnerID
  /\ b.accountGeneration > 0
  /\ b.operationID \in Uuid
  /\ b.requiredActions # <<>>
  /\ ValidateStrictCallContext(b.ctx)

(* The boundary is chosen by the route the call really has. *)
ControlBoundary(route) ==
  CASE route = <<"ms", "agent">> -> "agent"
    [] route \in {<<"ms", "agent", "product">>, <<"agent", "product">>} ->
         "product"
    [] OTHER -> "unsupported"

ActionBinding(b, action) ==
  [ctx |-> b.ctx, ownerID |-> b.ownerID,
   accountGeneration |-> b.accountGeneration, operationID |-> b.operationID,
   controlAction |-> action, controlScope |-> ControlScope(action)]

(* Mutant: envelopes that do not verify are left out of the result. *)
MutantSkipBadEnvelopes(codec, envelopes, now, b) ==
  IF /\ ValidateControlGrantEnvelopeBinding(b)
     /\ ValidateOperationControlGrantEnvelopes(envelopes, now)
     /\ ControlBoundary(b.ctx.route) # "unsupported"
  THEN {envelopes[i].grant : i \in
         {j \in DOMAIN envelopes :
            VerifyControlGrantAt(codec, envelopes[j].grant, now,
                                 ActionBinding(b, envelopes[j].action),
                                 ControlBoundary(b.ctx.route))}}
  ELSE {}

(* The claims of a set, or none of them: one bad envelope refuses all, and *)
(* one refusal is like another.                                            *)
VerifyControlGrantEnvelopeSet(codec, envelopes, now, b) ==
  IF /\ Len(envelopes) = Len(b.requiredActions)
     /\ IsInjectiveList(b.requiredActions)
     /\ RangeOf(b.requiredActions) \subseteq ControlAction
     /\ \A i \in DOMAIN envelopes :
          /\ envelopes[i].action \in RangeOf(b.requiredActions)
          /\ envelopes[i].expiresAt = envelopes[i].grant.expiresAt
     /\ ValidateOperationControlGrantEnvelopes(envelopes, now)
     /\ ValidateControlGrantEnvelopeBinding(b)
     /\ ControlBoundary(b.ctx.route) # "unsupported"
     /\ \A i \in DOMAIN envelopes :
          VerifyControlGrantAt(codec, envelopes[i].grant, now,
                               ActionBinding(b, envelopes[i].action),
                               ControlBoundary(b.ctx.route))
  THEN {envelopes[i].grant : i \in DOMAIN envelopes}
  ELSE {}
=============================================================================

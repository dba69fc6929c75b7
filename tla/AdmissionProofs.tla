--------------------------- MODULE AdmissionProofs ---------------------------
(* Proofs about Admission, for every value of its constants that meets the *)
(* assumptions.                                                            *)
EXTENDS RequestPaths, OperatorProofs

Assumptions ==
  /\ InputAssumption /\ DigestAssumption /\ OwnerAssumption
  /\ BusinessAssumption /\ TimeAssumption /\ AbsenceAssumption
  /\ SettingAssumption /\ CatalogAssumption /\ ScopesAssumption

-----------------------------------------------------------------------------
(* The inductive invariant: what the grants that were signed say, what the *)
(* requests that were sent carry, and what the rows of the ledger hold.    *)

SignedFor(s) ==
  LET g == s.grant  b == s.business IN
  /\ s.operationID \in Uuid /\ b \in Business /\ s.files \in Attached
  /\ g \in RootGrant
  /\ ValidateGrantClaims(g, DefaultGrantTTL) /\ IsRoot(g)
  /\ g.rootOperationID = s.operationID /\ g.ownerID = Owner
  /\ g.entryRoute = <<"ms">> /\ g.entryHop = 1
  /\ g.maxRouteLength = MaxRouteLength
  /\ g.issuedAt \in Nat /\ g.issuedAt <= now
  /\ g.expiresAt = g.issuedAt + DefaultGrantTTL
  /\ g.entryDeadline = g.expiresAt
  /\ g.descriptor.operation = b.operation
  /\ g.rootRequestDigest
       = ComputeRootRequestDigest(g.descriptor, b.revision, b.input, s.files)

(* A request as message-server writes it, for the attempt a and with the   *)
(* grant of h, from catalog n and the files as they were.                  *)
AsSent(a, h, n, list, account, ctx) ==
  LET b == a.business IN
  [operationID |-> IF b.operation \in Queries THEN Nil ELSE a.operationID,
   operation |-> b.operation,
   revision |-> b.revision,
   json |-> SerializeBusinessInput(b.input),
   requestDigest |->
     IF b.operation \in Queries THEN Missing
     ELSE ComputeRequestDigest(DescriptorIn(n, b.operation), b.revision, b.input,
                               list, h.grant),
   permission |->
     [ownerID |-> Owner, accountGeneration |-> account,
      scopes |-> h.grant.scopes, grant |-> h.grant,
      rootRequestDigest |-> h.grant.rootRequestDigest],
   ctx |-> ctx]

(* What the check at the entry leaves.                                     *)
EntryChecked(a, h, n, list, account, ctx) ==
  LET g == h.grant  b == a.business IN
  /\ g.rootOperationID = a.operationID
  /\ g.accountGeneration = account /\ account \in 1..MaxAccountGeneration
  /\ g.descriptor = DescriptorIn(n, b.operation)
  /\ g.rootRequestDigest
       = ComputeRootRequestDigest(DescriptorIn(n, b.operation), b.revision,
                                  b.input, list)
  /\ ctx \in Contexts(Uuid \cup {Missing}, Node)
  /\ ValidateStrictCallContext(ctx)
  /\ ctx.route = <<"ms">> /\ ctx.hop = 1
  /\ ctx.chainID = g.chainID /\ ctx.rootOperationID = a.operationID

Row(op, row) ==
  LET req == row.request IN
  /\ row.key =
       [operationID |-> op, capabilityID |-> req.operation,
        operation |-> req.operation, ownerID |-> Owner,
        accountGeneration |-> req.permission.accountGeneration,
        rootRequestDigest |->
          ComputeRootRequestDigest(DescriptorIn(row.catalog, req.operation),
                                   req.revision, ParseBusinessInput(req.json),
                                   row.files)]
  /\ Fence!ValidKey(row.key) /\ row.catalog \in Catalog
  /\ ParseBusinessInput(req.json) # Nil
  /\ req.json \in Text /\ CanonicalJSONEqual(req.json)

Clocks == now \in Nat \ {0} /\ generation \in 1..MaxAccountGeneration
InSetting ==
  /\ setting \in Setting /\ now \in 1..setting.until
  /\ catalog \in [ms: Catalog, agent: Catalog] /\ files \in Attached
GrantsAreSigned == \A s \in signed : SignedFor(s)
RequestsAreSent ==
  \A req \in sent : \E a, h \in signed : \E n, list, account, ctx :
    /\ req = AsSent(a, h, n, list, account, ctx)
    /\ EntryChecked(a, h, n, list, account, ctx)
RowsAreStarts ==
  /\ DOMAIN ledger = Uuid
  /\ \A op \in Uuid : ledger[op] # Nil => Row(op, ledger[op])

AdmissionInv ==
  /\ Clocks /\ InSetting
  /\ GrantsAreSigned /\ RequestsAreSent /\ RowsAreStarts

-----------------------------------------------------------------------------
(* Signing and sending *)

LEMMA GrantAsRecord ==
  ASSUME NEW g, g = [f \in Claim |-> g[f]],
         ValidateGrantClaims(g, DefaultGrantTTL), IsRoot(g),
         g.ownerID = Owner, g.scopes \in GrantedScopes,
         g.issuedAt \in Nat, g.expiresAt \in Nat, g.entryDeadline \in Nat,
         g.entryRoute = <<"ms">>, g.entryHop = 1,
         g.maxRouteLength = MaxRouteLength
  PROVE  g \in RootGrant
<1> DEFINE route == <<"ms">>
<1> HIDE DEF route
<1>1. /\ g.chainID \in Uuid /\ g.rootOperationID \in Uuid
      /\ g.childOperationID = Missing /\ g.grantKind = "root"
      /\ g.productTargetKind = "none"
      /\ g.accountGeneration \in 1..MaxAccountGeneration
      /\ g.descriptor \in Descriptor /\ g.rootRequestDigest \in RootDigest
      /\ g.maxHop \in 1..MaxCallHop
  BY DEF ValidateGrantClaims, IsRoot
<1>2. g.entryRoute = route
  BY DEF route
<1>3. g = [chainID |-> g.chainID, rootOperationID |-> g.rootOperationID,
           childOperationID |-> g.childOperationID, grantKind |-> g.grantKind,
           productTargetKind |-> g.productTargetKind, ownerID |-> g.ownerID,
           accountGeneration |-> g.accountGeneration, scopes |-> g.scopes,
           descriptor |-> g.descriptor, rootRequestDigest |-> g.rootRequestDigest,
           issuedAt |-> g.issuedAt, expiresAt |-> g.expiresAt,
           entryDeadline |-> g.entryDeadline, entryRoute |-> g.entryRoute,
           entryHop |-> g.entryHop, maxHop |-> g.maxHop,
           maxRouteLength |-> g.maxRouteLength]
  BY ClaimNames
<1> QED
  BY <1>1, <1>2, <1>3 DEF RootGrant, route

(* A setting gives no more than the constants.                             *)
LEMMA SettingParts ==
  ASSUME Assumptions, setting \in Setting
  PROVE  /\ setting.operations \subseteq Uuid /\ setting.business \subseteq Business
         /\ setting.generations \in 1..MaxAccountGeneration
         /\ setting.catalogs \subseteq Catalog /\ setting.attached \subseteq Attached
         /\ setting.until \in Nat \ {0}
BY DEF Assumptions, SettingAssumption, SettingType

LEMMA SignGrantSigns ==
  ASSUME Assumptions, AdmissionInv, SignGrant
  PROVE  \A s \in signed' : SignedFor(s)
<1>1. PICK op \in Uuid, chain \in Uuid, b \in Business,
           scopes \in GrantedScopes, hops \in HopBudget :
        LET d == DescriptorIn(catalog.ms, b.operation)
            g == Sign(ZeroCodec,
                      ClaimsToSign(chain, op, Owner, generation, scopes, d,
                                 RootDigestOf(catalog.ms, b.operation,
                                              b.revision, b.input), hops),
                      now)
        IN /\ g # NoGrant
           /\ signed' = signed \cup
                {[grant |-> g, operationID |-> op, business |-> b, files |-> files]}
  <2>1. setting.operations \subseteq Uuid /\ setting.business \subseteq Business
    BY SettingParts DEF AdmissionInv, InSetting
  <2>2. PICK op \in setting.operations, chain \in setting.operations,
             b \in setting.business, scopes \in GrantedScopes, hops \in HopBudget :
          LET d == DescriptorIn(catalog.ms, b.operation)
              g == Sign(ZeroCodec,
                        ClaimsToSign(chain, op, Owner, generation, scopes, d,
                                     RootDigestOf(catalog.ms, b.operation,
                                                  b.revision, b.input), hops),
                        now)
          IN /\ g # NoGrant
             /\ signed' = signed \cup
                  {[grant |-> g, operationID |-> op, business |-> b,
                    files |-> files]}
    BY Zenon DEF SignGrant, ClaimsToSign
  <2> QED
    BY <2>1, <2>2
<1> DEFINE d == DescriptorIn(catalog.ms, b.operation)
           digest == RootDigestOf(catalog.ms, b.operation, b.revision, b.input)
           g == Sign(ZeroCodec,
                     ClaimsToSign(chain, op, Owner, generation, scopes, d, digest,
                                hops), now)
           s == [grant |-> g, operationID |-> op, business |-> b, files |-> files]
<1>2. now \in Nat \ {0} /\ files \in Attached
  BY DEF AdmissionInv, Clocks, InSetting
<1>3. digest = ComputeRootRequestDigest(d, b.revision, b.input, files)
      /\ d.operation = b.operation
  BY DEF RootDigestOf, DescriptorIn
<1>4. g # NoGrant
  BY <1>1
<1> HIDE DEF d, digest
<1>5. /\ ValidateGrantClaims(g, DefaultGrantTTL) /\ IsRoot(g)
      /\ g.rootOperationID = op /\ g.ownerID = Owner
      /\ g.descriptor = d /\ g.rootRequestDigest = digest
      /\ g.entryRoute = <<"ms">> /\ g.entryHop = 1
      /\ g.issuedAt = now /\ g.expiresAt = now + DefaultGrantTTL
      /\ g.entryDeadline = g.expiresAt
      /\ g.maxRouteLength = MaxRouteLength
  BY <1>2, <1>4, SignedRoot
<1>6. signed' = signed \cup {s}
  BY <1>1 DEF d, digest
<1> HIDE DEF g
<1>7. g \in RootGrant
  <2>1. g.scopes = scopes /\ g = [f \in Claim |-> g[f]]
    BY <1>2, <1>4, SignedRoot DEF g
  <2>2. /\ g.issuedAt \in Nat /\ g.expiresAt \in Nat
        /\ g.entryDeadline \in Nat
    BY <1>2, <1>5, TTLAssumption
  <2> QED
    BY <1>5, <2>1, <2>2, GrantAsRecord
<1>8. SignedFor(s)
  BY <1>2, <1>3, <1>5, <1>7 DEF SignedFor
<1> QED
  BY <1>6, <1>8 DEF AdmissionInv, GrantsAreSigned

LEMMA SendRequestSends ==
  ASSUME Assumptions, AdmissionInv, SendRequest
  PROVE  RequestsAreSent'
<1>1. PICK a \in signed, h \in signed, time \in CallTime :
        LET ctx == AppendCallNode(
                     NewCallContext(a.grant.chainID, a.operationID, now + time),
                     "ms")
        IN /\ VerifyCapabilityGrant(h.grant, now, EntryBinding(a, ctx))
           /\ sent' = sent \cup {RequestOf(a, h.grant, ctx)}
  BY DEF SendRequest
<1> DEFINE ctx == AppendCallNode(
                    NewCallContext(a.grant.chainID, a.operationID, now + time),
                    "ms")
           bind == EntryBinding(a, ctx)
           b == a.business
           n == catalog.ms
           req == RequestOf(a, h.grant, ctx)
<1>2. SignedFor(a) /\ SignedFor(h) /\ now \in Nat /\ now + time \in Int
      /\ generation \in 1..MaxAccountGeneration
  BY DEF AdmissionInv, GrantsAreSigned, Clocks, Assumptions, TimeAssumption
<1>3. a.grant.chainID \in Uuid /\ a.operationID \in Uuid
  BY <1>2 DEF SignedFor, ValidateGrantClaims
<1>4. validateGrantBinding(h.grant, bind)
  BY <1>1 DEF VerifyCapabilityGrant
<1>5. /\ bind.ctx = ctx /\ bind.rootOperationID = a.operationID
      /\ bind.accountGeneration = generation
      /\ bind.rootRequestDigest
           = ComputeRootRequestDigest(DescriptorIn(n, b.operation), b.revision,
                                      b.input, files)
      /\ bind.descriptor = DescriptorIn(n, b.operation)
  BY DEF EntryBinding, RootDigestOf
<1>6. /\ req = AsSent(a, h, n, files, generation, ctx)
      /\ sent' = sent \cup {req}
  BY <1>1 DEF RequestOf, AsSent
<1> HIDE DEF ctx, bind, req
<1>7. /\ ValidateStrictCallContext(ctx)
      /\ h.grant.chainID = ctx.chainID
      /\ h.grant.rootOperationID = ctx.rootOperationID
      /\ ctx.route = h.grant.entryRoute /\ ctx.hop = h.grant.entryHop
      /\ h.grant.rootOperationID = a.operationID
      /\ h.grant.accountGeneration = generation
      /\ h.grant.rootRequestDigest = bind.rootRequestDigest
      /\ h.grant.descriptor = bind.descriptor
  BY <1>4, <1>5, Zenon DEF validateGrantBinding, ValidateAgentGrantDescriptor
<1>8. ctx \in Contexts(Uuid \cup {Missing}, Node)
  BY <1>2, <1>3, <1>7, EntryContext DEF ctx
<1>9. EntryChecked(a, h, n, files, generation, ctx)
  BY <1>2, <1>5, <1>7, <1>8 DEF EntryChecked, SignedFor
<1>10. signed' = signed
  BY DEF SendRequest
<1>11. \A r \in sent' : \E x, y \in signed : \E m, list, account, c :
         /\ r = AsSent(x, y, m, list, account, c)
         /\ EntryChecked(x, y, m, list, account, c)
  BY <1>6, <1>9 DEF AdmissionInv, RequestsAreSent
<1> QED
  BY <1>10, <1>11 DEF RequestsAreSent, AsSent, EntryChecked

-----------------------------------------------------------------------------
(* Arrival.  Whatever was mixed up or respelled, the parts are of requests *)
(* that were sent.                                                         *)

LEMMA SentFields ==
  ASSUME Assumptions, AdmissionInv, NEW req \in sent
  PROVE  /\ DOMAIN req = RequestFields
         /\ DOMAIN req.permission = PermissionFields
         /\ req.permission.ownerID = Owner
         /\ req.json \in Text
         /\ req.ctx \in Contexts(Uuid \cup {Missing}, Node)
<1>1a. PICK a, h \in signed : \E n, list, account, ctx :
        /\ req = AsSent(a, h, n, list, account, ctx)
        /\ EntryChecked(a, h, n, list, account, ctx)
  BY DEF AdmissionInv, RequestsAreSent
<1>1. PICK n, list, account, ctx :
        /\ req = AsSent(a, h, n, list, account, ctx)
        /\ EntryChecked(a, h, n, list, account, ctx)
  BY <1>1a
<1>2. a.business.input \in Input \cup {Nil}
  BY DEF AdmissionInv, GrantsAreSigned, SignedFor, Assumptions, BusinessAssumption
<1>3. SerializeBusinessInput(a.business.input) \in Text
  BY <1>2 DEF SerializeBusinessInput, Text, Form
<1> QED
  BY <1>1, <1>3 DEF AsSent, EntryChecked, RequestFields, PermissionFields

LEMMA ArrivedParts ==
  ASSUME Assumptions, AdmissionInv, NEW req \in Arriving(sent, MixedParts)
  PROVE  /\ \E r \in sent : req.permission.grant = r.permission.grant
         /\ \E r \in sent : req.requestDigest = r.requestDigest
         /\ req.permission.ownerID = Owner
         /\ req.json \in Text
         /\ req.ctx \in Contexts(Uuid \cup {Missing}, Node)
<1>1. \A r \in sent :
        /\ DOMAIN r = RequestFields /\ DOMAIN r.permission = PermissionFields
        /\ r.permission.ownerID = Owner
        /\ r.json \in Text
        /\ r.ctx \in Contexts(Uuid \cup {Missing}, Node)
  BY SentFields
<1>2. /\ \E r \in sent : req.permission.grant = r.permission.grant
      /\ \E r \in sent : req.requestDigest = r.requestDigest
      /\ \E r \in sent : req.permission.ownerID = r.permission.ownerID
      /\ \E r \in sent : req.ctx = r.ctx
      /\ \E r \in sent :
           \/ req.json = r.json
           \/ \E form \in Form : req.json = [r.json EXCEPT !.form = form]
  BY <1>1, Arrived
<1>3. req.json \in Text
  BY <1>1, <1>2 DEF Text
<1> QED
  BY <1>1, <1>2, <1>3

(* The grant of a request that arrived was signed.                         *)
LEMMA ArrivedGrant ==
  ASSUME Assumptions, AdmissionInv, NEW req \in Arriving(sent, MixedParts)
  PROVE  \E s \in signed : s.grant = req.permission.grant
<1>1. PICK r \in sent : req.permission.grant = r.permission.grant
  BY ArrivedParts
<1>2. PICK h \in signed : r.permission.grant = h.grant
  <2>1a. PICK a, h \in signed : \E n, list, account, ctx :
          r = AsSent(a, h, n, list, account, ctx)
    BY DEF AdmissionInv, RequestsAreSent
  <2>1. PICK n, list, account, ctx :
          r = AsSent(a, h, n, list, account, ctx)
    BY <2>1a
  <2> QED
    BY <2>1 DEF AsSent
<1> QED
  BY <1>1, <1>2

-----------------------------------------------------------------------------
(* Admission *)

(* What the Agent has found out when a grant verifies.                     *)
LEMMA VerifiedTells ==
  ASSUME NEW req, NEW ctx, NEW revision, NEW g,
         VerifyAgentRootBinding(g, now, AgentBinding(req, ctx, revision, files))
  PROVE  /\ g.rootOperationID = ctx.rootOperationID
         /\ g.ownerID = req.permission.ownerID
         /\ g.accountGeneration = req.permission.accountGeneration
         /\ g.descriptor = DescriptorIn(catalog.agent, req.operation)
         /\ g.rootRequestDigest
              = ComputeRootRequestDigest(DescriptorIn(catalog.agent, req.operation),
                                         revision, ParseBusinessInput(req.json),
                                         files)
         /\ g.rootRequestDigest \in RootDigest
<1> DEFINE b == AgentBinding(req, ctx, revision, files)
<1>1. /\ b.rootOperationID = ctx.rootOperationID
      /\ b.ownerID = req.permission.ownerID
      /\ b.accountGeneration = req.permission.accountGeneration
      /\ b.descriptor = DescriptorIn(catalog.agent, req.operation)
      /\ b.rootRequestDigest
           = ComputeRootRequestDigest(DescriptorIn(catalog.agent, req.operation),
                                      revision, ParseBusinessInput(req.json),
                                      files)
  BY DEF AgentBinding
<1>2. ValidateRootBinding(g, b, "agent") /\ ValidateAgentGrantDescriptor(g, b.descriptor)
  BY DEF VerifyAgentRootBinding
<1> HIDE DEF b
<1> QED
  BY <1>1, <1>2, Zenon DEF ValidateRootBinding, ValidateAgentGrantDescriptor

(* A grant the Agent verified for some business was signed for it.         *)
LEMMA SignedForThis ==
  ASSUME Assumptions, AdmissionInv, NEW req \in Arriving(sent, MixedParts),
         NEW ctx, NEW revision,
         ParseBusinessInput(req.json) # Nil,
         VerifyAgentRootBinding(req.permission.grant, now,
                                AgentBinding(req, ctx, revision, files))
  PROVE  \E s \in signed :
           /\ s.grant = req.permission.grant
           /\ s.business.operation = req.operation
           /\ InputOf(s.business.input) = ParseBusinessInput(req.json)
           /\ s.files = files
           /\ s.business.revision = revision
           /\ s.operationID = ctx.rootOperationID
<1> DEFINE g == req.permission.grant
           d == DescriptorIn(catalog.agent, req.operation)
<1>1. PICK s \in signed : s.grant = g
  BY ArrivedGrant
<1>2. /\ g.rootOperationID = s.operationID
      /\ g.descriptor.operation = s.business.operation
      /\ g.rootRequestDigest
           = ComputeRootRequestDigest(g.descriptor, s.business.revision,
                                      s.business.input, s.files)
  BY <1>1 DEF AdmissionInv, GrantsAreSigned, SignedFor
<1>3. /\ g.rootOperationID = ctx.rootOperationID
      /\ g.descriptor = d
      /\ g.rootRequestDigest
           = ComputeRootRequestDigest(d, revision, ParseBusinessInput(req.json),
                                      files)
      /\ g.rootRequestDigest # Missing
  BY VerifiedTells DEF Assumptions, DigestAssumption
<1>4. d.operation = req.operation
  BY DEF DescriptorIn
<1> HIDE DEF g, d
<1>5. /\ s.business.revision = revision /\ s.files = files
      /\ InputOf(s.business.input) = InputOf(ParseBusinessInput(req.json))
  BY <1>2, <1>3, RootDigestTells
<1> QED
  BY <1>1, <1>2, <1>3, <1>4, <1>5 DEF InputOf, g

(* The receiver adds itself to the route and leaves the rest.              *)
LEMMA AgentAdvances ==
  ASSUME NEW Id, NEW N, NEW ctx \in Contexts(Id, N),
         ValidateAndAdvanceAgentCallContext(ctx) # NoContext
  PROVE  /\ ValidateAndAdvanceAgentCallContext(ctx).chainID = ctx.chainID
         /\ ValidateAndAdvanceAgentCallContext(ctx).rootOperationID
              = ctx.rootOperationID
         /\ ValidateAndAdvanceAgentCallContext(ctx).deadline = ctx.deadline
<1>1. ValidateAndAdvanceAgentCallContext(ctx) = Extended(ctx, "agent")
  BY ReceivedIsExtended
<1>2. /\ Extended(ctx, "agent").chainID = ctx.chainID
      /\ Extended(ctx, "agent").rootOperationID = ctx.rootOperationID
      /\ Extended(ctx, "agent").deadline = ctx.deadline
  BY DEF Contexts, Extended
<1> QED
  BY <1>1, <1>2

LEMMA StartAdmitted ==
  ASSUME Assumptions, AdmissionInv, NEW req \in Arriving(sent, MixedParts),
         AdmitsStart(req)
  PROVE  /\ \E s \in signed :
              /\ s.grant = req.permission.grant
              /\ s.business.operation = req.operation
              /\ InputOf(s.business.input) = ParseBusinessInput(req.json)
              /\ s.files = files
              /\ s.operationID = req.operationID
              /\ s.business.revision = req.revision
              /\ s.grant.accountGeneration = req.permission.accountGeneration
              /\ s.grant.descriptor = DescriptorIn(catalog.agent, req.operation)
         /\ \E r \in sent :
              /\ r.requestDigest = req.requestDigest
              /\ r.permission.grant = req.permission.grant
              /\ r.operationID = req.operationID
<1> DEFINE ctx == ValidateAndAdvanceAgentCallContext(req.ctx)
           g == req.permission.grant
           d == DescriptorIn(catalog.agent, req.operation)
<1>1. /\ ValidateRootOperationRequest(req)
      /\ ctx # NoContext
      /\ ParseBusinessInput(req.json) # Nil
      /\ VerifyAgentRootBinding(g, now, AgentBinding(req, ctx, req.revision, files))
      /\ VerifyRequestDigest(
           req.requestDigest,
           ComputeRequestDigest(d, req.revision, ParseBusinessInput(req.json),
                                files, g))
  BY DEF AdmitsStart
<1>2. ctx.rootOperationID = req.operationID
  BY <1>1, ArrivedParts, AgentAdvances DEF ValidateRootOperationRequest
<1>3. /\ g.accountGeneration = req.permission.accountGeneration
      /\ g.descriptor = d /\ g.rootOperationID = ctx.rootOperationID
  BY <1>1, VerifiedTells
<1>4. PICK s \in signed :
        /\ s.grant = g
        /\ s.business.operation = req.operation
        /\ InputOf(s.business.input) = ParseBusinessInput(req.json)
        /\ s.files = files
        /\ s.business.revision = req.revision
        /\ s.operationID = ctx.rootOperationID
  BY <1>1, SignedForThis
<1>5. PICK r \in sent : req.requestDigest = r.requestDigest
  BY ArrivedParts
<1>6a. PICK a, h \in signed : \E n, list, account, c :
        /\ r = AsSent(a, h, n, list, account, c)
        /\ EntryChecked(a, h, n, list, account, c)
  BY DEF AdmissionInv, RequestsAreSent
<1>6. PICK n, list, account, c :
        /\ r = AsSent(a, h, n, list, account, c)
        /\ EntryChecked(a, h, n, list, account, c)
  BY <1>6a
<1>7. /\ req.requestDigest # Missing
      /\ req.requestDigest
           = ComputeRequestDigest(d, req.revision, ParseBusinessInput(req.json),
                                  files, g)
  BY <1>1, Zenon DEF VerifyRequestDigest, ValidateRequestDigest,
     ValidateSHA256Digest, ValidateDigest
<1>8. /\ a.business.operation \notin Queries
      /\ r.requestDigest
           = ComputeRequestDigest(DescriptorIn(n, a.business.operation),
                                  a.business.revision, a.business.input, list,
                                  h.grant)
      /\ r.operationID = a.operationID
      /\ r.permission.grant = h.grant
  BY <1>5, <1>6, <1>7 DEF AsSent
<1> HIDE DEF g, d, ctx
<1>9. h.grant = g
  <2>1. \A e, q, j, l, k :
          ComputeRequestDigest(e, q, j, l, k) # Missing =>
            ComputeRequestDigest(e, q, j, l, k).grant = k
    BY DEF ComputeRequestDigest, computeRequestDigest, Preimage
  <2>2. req.requestDigest.grant = g
    BY <1>7, <2>1
  <2>3. r.requestDigest # Missing
    BY <1>5, <1>7
  <2>4. r.requestDigest.grant = h.grant
    BY <1>8, <2>1, <2>3
  <2> QED
    BY <1>5, <2>2, <2>4
<1>10. r.operationID = req.operationID
  BY <1>2, <1>3, <1>6, <1>8, <1>9 DEF EntryChecked
<1> QED
  BY <1>2, <1>3, <1>4, <1>5, <1>8, <1>9, <1>10 DEF g, d

LEMMA QueryAdmitted ==
  ASSUME Assumptions, AdmissionInv, NEW req \in Arriving(sent, MixedParts),
         AdmitsQuery(req)
  PROVE  \E s \in signed :
           /\ s.grant = req.permission.grant
           /\ s.business.operation = req.operation
           /\ InputOf(s.business.input) = ParseBusinessInput(req.json)
           /\ s.files = files
           /\ s.grant.accountGeneration = req.permission.accountGeneration
           /\ s.grant.descriptor = DescriptorIn(catalog.agent, req.operation)
<1> DEFINE ctx == ValidateAndAdvanceAgentCallContext(req.ctx)
           g == req.permission.grant
<1>1. /\ ParseBusinessInput(req.json) # Nil
      /\ VerifyAgentRootBinding(g, now, AgentBinding(req, ctx, 0, files))
  BY DEF AdmitsQuery, VerifyAgentQueryGrant
<1>2. /\ g.accountGeneration = req.permission.accountGeneration
      /\ g.descriptor = DescriptorIn(catalog.agent, req.operation)
  BY <1>1, VerifiedTells
<1> QED
  BY <1>1, <1>2, SignedForThis

-----------------------------------------------------------------------------
(* The ledger *)

(* The key of a Start the Agent admits is well formed, and made of what the *)
(* request says.                                                           *)
LEMMA AdmittedKey ==
  ASSUME Assumptions, AdmissionInv, NEW req \in Arriving(sent, MixedParts),
         AdmitsStart(req)
  PROVE  /\ req.operationID \in Uuid
         /\ ParseBusinessInput(req.json) # Nil
         /\ req.json \in Text /\ CanonicalizeJSON(req.json) = req.json
         /\ CanonicalizeJSON(req.json) # NoText
         /\ KeyOf(req) =
              [operationID |-> req.operationID, capabilityID |-> req.operation,
               operation |-> req.operation, ownerID |-> Owner,
               accountGeneration |-> req.permission.accountGeneration,
               rootRequestDigest |->
                 ComputeRootRequestDigest(DescriptorIn(catalog.agent, req.operation),
                                          req.revision, ParseBusinessInput(req.json),
                                          files)]
         /\ Fence!ValidKey(KeyOf(req))
<1> DEFINE ctx == ValidateAndAdvanceAgentCallContext(req.ctx)
           g == req.permission.grant
           d == DescriptorIn(catalog.agent, req.operation)
           digest == ComputeRootRequestDigest(d, req.revision,
                                              ParseBusinessInput(req.json), files)
           account == req.permission.accountGeneration
<1>1. /\ ValidateOperationRequest(req)
      /\ ParseBusinessInput(req.json) # Nil
      /\ VerifyAgentRootBinding(g, now, AgentBinding(req, ctx, req.revision, files))
  BY DEF AdmitsStart, ValidateRootOperationRequest
<1>2. /\ req.operationID \in Uuid
      /\ CanonicalizeJSON(req.json) = req.json
      /\ CanonicalizeJSON(req.json) # NoText
      /\ account \in 1..MaxAccountGeneration
  BY <1>1, Zenon DEF ValidateOperationRequest, ValidatePermissionContext
<1>3. digest \in RootDigest
  BY <1>1, VerifiedTells
<1>4. req.permission.ownerID = Owner /\ Owner \in OwnerID /\ req.json \in Text
  BY ArrivedParts DEF Assumptions, OwnerAssumption
<1>5. req.operation \in {b.operation : b \in Business}
  <2>1. PICK s \in signed : s.business.operation = req.operation
    BY StartAdmitted
  <2>2. s.business \in Business
    BY DEF AdmissionInv, GrantsAreSigned, SignedFor
  <2> QED
    BY <2>1, <2>2
<1> DEFINE key == [operationID |-> req.operationID, capabilityID |-> req.operation,
                   operation |-> req.operation, ownerID |-> Owner,
                   accountGeneration |-> account, rootRequestDigest |-> digest]
<1>6. KeyOf(req) = key
  BY <1>4 DEF KeyOf, RootDigestOf
<1> HIDE DEF digest, account
<1>7. Fence!ValidKey(key)
  BY <1>2, <1>3, <1>4, <1>5 DEF Fence!ValidKey
<1> QED
  BY <1>1, <1>2, <1>4, <1>6, <1>7 DEF key, digest, account

(* A canonical text is the text of what it is read as.                     *)
LEMMA CanonicalIsRead ==
  ASSUME NEW json \in Text, CanonicalizeJSON(json) = json,
         CanonicalizeJSON(json) # NoText, ParseBusinessInput(json) # Nil
  PROVE  /\ json = [value |-> ParseBusinessInput(json), form |-> "canonical"]
         /\ CanonicalJSONEqual(json)
<1>1. json = [value |-> json.value, form |-> json.form]
  BY DEF Text
<1>2. json.form # "broken"
  BY DEF CanonicalizeJSON
<1>3. json.form = "canonical"
  <2>1. CanonicalizeJSON(json) = [json EXCEPT !.form = "canonical"]
    BY <1>2 DEF CanonicalizeJSON
  <2>2. [json EXCEPT !.form = "canonical"].form = "canonical"
    BY DEF Text
  <2> QED
    BY <2>1, <2>2
<1>4. ParseBusinessInput(json) = json.value
  BY DEF ParseBusinessInput
<1> QED
  BY <1>1, <1>2, <1>3, <1>4 DEF CanonicalJSONEqual

LEMMA AnswerKeepsRows ==
  ASSUME Assumptions, AdmissionInv, AnswerRequest
  PROVE  RowsAreStarts'
<1>1. PICK req \in Arriving(sent, MixedParts) :
        ledger' = IF Outcome(req) = "admitted"
                  THEN [ledger EXCEPT ![req.operationID] =
                          [key |-> KeyOf(req), request |-> req, files |-> files,
                           catalog |-> catalog.agent]]
                  ELSE ledger
  BY DEF AnswerRequest
<1>2. /\ DOMAIN ledger = Uuid
      /\ \A op \in Uuid : ledger[op] # Nil => Row(op, ledger[op])
  BY DEF AdmissionInv, RowsAreStarts
<1>3. CASE Outcome(req) # "admitted"
  BY <1>1, <1>2, <1>3 DEF RowsAreStarts
<1>4. CASE Outcome(req) = "admitted"
  <2> DEFINE row == [key |-> KeyOf(req), request |-> req, files |-> files,
                     catalog |-> catalog.agent]
  <2>1. AdmitsStart(req)
    BY <1>4 DEF Outcome
  <2>2. req.operationID \in Uuid /\ Row(req.operationID, row)
    <3>1. CanonicalJSONEqual(req.json)
      BY <2>1, AdmittedKey, CanonicalIsRead
    <3> HIDE DEF row
    <3>2. /\ row.key = KeyOf(req) /\ row.request = req
          /\ row.files = files /\ row.catalog = catalog.agent
      BY DEF row
    <3>3. catalog.agent \in Catalog
      BY DEF AdmissionInv, InSetting
    <3> QED
      BY <2>1, <3>1, <3>2, <3>3, AdmittedKey DEF Row
  <2> HIDE DEF row
  <2>3. ledger' = [ledger EXCEPT ![req.operationID] = row]
    BY <1>1, <1>4 DEF row
  <2>4. \A op \in Uuid : ledger'[op] # Nil => Row(op, ledger'[op])
    BY <1>2, <2>2, <2>3
  <2> QED
    BY <1>2, <2>3, <2>4 DEF RowsAreStarts
<1> QED
  BY <1>3, <1>4

-----------------------------------------------------------------------------
(* The invariant is inductive. *)

LEMMA InitInv ==
  ASSUME Assumptions, Init
  PROVE  AdmissionInv
<1>1. 1 \in 1..MaxAccountGeneration
  BY AccountAssumption
<1>2. InSetting
  BY SettingParts DEF Init, InSetting, Assumptions, CatalogAssumption
<1> QED
  BY <1>1, <1>2 DEF Init, AdmissionInv, Clocks, InSetting, GrantsAreSigned,
     RequestsAreSent, RowsAreStarts

(* A step stays in its setting.                                            *)
LEMMA SettingStays ==
  ASSUME Assumptions, InSetting, [Next]_vars
  PROVE  InSetting'
<1>1. /\ setting.catalogs \subseteq Catalog /\ setting.attached \subseteq Attached
      /\ setting.until \in Nat \ {0}
  BY SettingParts DEF InSetting
<1>2. /\ setting \in Setting /\ now \in 1..setting.until
      /\ catalog \in [ms: Catalog, agent: Catalog] /\ files \in Attached
  BY DEF InSetting
<1>3. CASE SignGrant \/ SendRequest \/ AnswerRequest \/ RebuildAccount \/ UNCHANGED vars
  BY <1>2, <1>3
  DEF SignGrant, SendRequest, AnswerRequest, RebuildAccount, vars, InSetting
<1>4. CASE Tick
  BY <1>1, <1>2, <1>4 DEF Tick, InSetting
<1>5. CASE ChangeCatalog
  BY <1>1, <1>2, <1>5 DEF ChangeCatalog, InSetting
<1>6. CASE ReplaceFiles
  BY <1>1, <1>2, <1>6 DEF ReplaceFiles, InSetting
<1> QED
  BY <1>3, <1>4, <1>5, <1>6 DEF Next

(* What was signed stays signed, as the clock goes on.                     *)
LEMMA SignedStays ==
  ASSUME AdmissionInv, now' \in Nat, now <= now'
  PROVE  \A s \in signed : SignedFor(s)'
<1>1. \A s \in signed : SignedFor(s) /\ now \in Nat
  BY DEF AdmissionInv, GrantsAreSigned, Clocks
<1>2. ASSUME NEW s \in signed
      PROVE  SignedFor(s)'
  <2>1. SignedFor(s)
    BY <1>1
  <2>2. s.grant.issuedAt <= now'
    BY <1>1 DEF SignedFor
  <2> QED
    BY <2>1, <2>2 DEF SignedFor
<1> QED
  BY <1>2

(* More grants leave what was sent.                                        *)
LEMMA SentStays ==
  ASSUME AdmissionInv, sent' = sent, signed \subseteq signed'
  PROVE  RequestsAreSent'
<1>1. \A req \in sent : \E a, h \in signed : \E n, list, account, ctx :
        /\ req = AsSent(a, h, n, list, account, ctx)
        /\ EntryChecked(a, h, n, list, account, ctx)
  BY DEF AdmissionInv, RequestsAreSent
<1>2. ASSUME NEW req \in sent
      PROVE  \E a, h \in signed' : \E n, list, account, ctx :
               /\ req = AsSent(a, h, n, list, account, ctx)
               /\ EntryChecked(a, h, n, list, account, ctx)
  <2>1. PICK a \in signed, h \in signed :
          \E n, list, account, ctx :
            /\ req = AsSent(a, h, n, list, account, ctx)
            /\ EntryChecked(a, h, n, list, account, ctx)
    BY <1>1
  <2>2. a \in signed' /\ h \in signed'
    OBVIOUS
  <2> QED
    BY <2>1, <2>2
<1> QED
  BY <1>2 DEF RequestsAreSent, AsSent, EntryChecked

LEMMA NextInv ==
  ASSUME Assumptions, AdmissionInv, [Next]_vars
  PROVE  AdmissionInv'
<1>1. /\ now \in Nat \ {0} /\ generation \in 1..MaxAccountGeneration
      /\ InSetting' /\ setting.generations \in 1..MaxAccountGeneration
  BY SettingStays, SettingParts DEF AdmissionInv, Clocks, InSetting
<1>2. ASSUME ledger' = ledger
      PROVE  RowsAreStarts'
  BY <1>2 DEF AdmissionInv, RowsAreStarts
<1>3. ASSUME signed' = signed, now' \in Nat, now <= now'
      PROVE  GrantsAreSigned'
  BY <1>3, SignedStays DEF GrantsAreSigned
<1>4. now <= now
  BY <1>1
<1>5. CASE SignGrant
  <2>1. /\ \A s \in signed' : SignedFor(s)
        /\ now' = now
    BY <1>5, SignGrantSigns DEF SignGrant
  <2>2. GrantsAreSigned'
    BY <2>1 DEF GrantsAreSigned, SignedFor
  <2>3. /\ signed \subseteq signed' /\ sent' = sent /\ ledger' = ledger
        /\ generation' = generation
    BY <1>5 DEF SignGrant
  <2> QED
    BY <1>1, <1>2, <2>1, <2>2, <2>3, SentStays
    DEF AdmissionInv, Clocks
<1>6. CASE SendRequest
  <2>1. /\ RequestsAreSent' /\ now' = now /\ signed' = signed /\ ledger' = ledger
        /\ generation' = generation
    BY <1>6, SendRequestSends DEF SendRequest
  <2> QED
    BY <1>1, <1>2, <1>3, <1>4, <2>1 DEF AdmissionInv, Clocks
<1>7. CASE AnswerRequest
  <2>1. /\ RowsAreStarts' /\ now' = now /\ signed' = signed /\ sent' = sent
        /\ generation' = generation
    BY <1>7, AnswerKeepsRows DEF AnswerRequest
  <2> QED
    BY <1>1, <1>3, <1>4, <2>1, SentStays DEF AdmissionInv, Clocks
<1>8. CASE Tick \/ ChangeCatalog \/ ReplaceFiles \/ RebuildAccount \/ UNCHANGED vars
  <2>1. /\ signed' = signed /\ sent' = sent /\ ledger' = ledger
        /\ now' \in Nat \ {0} /\ now <= now'
        /\ generation' \in 1..MaxAccountGeneration
    BY <1>1, <1>8, AccountAssumption
    DEF Tick, ChangeCatalog, ReplaceFiles, RebuildAccount, vars
  <2> QED
    BY <1>1, <1>2, <1>3, <2>1, SentStays DEF AdmissionInv, Clocks
<1> QED
  BY <1>5, <1>6, <1>7, <1>8 DEF Next

(* The invariant holds in every reachable state.                           *)
LEMMA AlwaysInv ==
  ASSUME Assumptions
  PROVE  Spec => []AdmissionInv
<1>1. Init => AdmissionInv
  BY InitInv
<1>2. AdmissionInv /\ [Next]_vars => AdmissionInv'
  BY NextInv
<1> QED
  BY <1>1, <1>2, PTL DEF Spec

-----------------------------------------------------------------------------
(* What an answer says, it says of the state it is given in: the step that  *)
(* answers leaves all but the ledger, and every other one forgets the      *)
(* answer.                                                                 *)

LEMMA QuietSteps ==
  ASSUME Next, ~ AnswerRequest
  PROVE  answer' = Nil
  BY DEF Next, SignGrant, SendRequest, Tick, ChangeCatalog, ReplaceFiles,
     RebuildAccount

LEMMA Answered ==
  ASSUME AnswerRequest, answer' # Nil
  PROVE  \E req \in Arriving(sent, MixedParts) :
           /\ answer' = [request |-> req, outcome |-> Outcome(req)]
           /\ answer'.request = req /\ answer'.outcome = Outcome(req)
           /\ Outcome(req) # "refused"
           /\ Outcome(req) # "admitted" => ledger' = ledger
           /\ UNCHANGED <<catalog, files, signed, sent>>
  BY DEF AnswerRequest

LEMMA TakenIsAdmitted ==
  ASSUME NEW req, Outcome(req) # "refused"
  PROVE  IF IsQuery(req) THEN AdmitsQuery(req) ELSE AdmitsStart(req)
  BY DEF Outcome

LEMMA AnswerIsSigned ==
  ASSUME Assumptions, AdmissionInv, AnswerRequest
  PROVE  AdmittedAsSigned'
<1>1. CASE answer' = Nil
  BY <1>1 DEF AdmittedAsSigned, Taken
<1>2. CASE answer' # Nil
  <2>1. PICK req \in Arriving(sent, MixedParts) :
          /\ answer'.request = req
          /\ Outcome(req) # "refused"
          /\ UNCHANGED <<catalog, files, signed, sent>>
    BY <1>2, Answered
  <2>2. \E s \in signed :
          /\ s.grant = req.permission.grant
          /\ s.business.operation = req.operation
          /\ InputOf(s.business.input) = ParseBusinessInput(req.json)
          /\ s.files = files
          /\ ~ IsQuery(req) => /\ s.operationID = req.operationID
                               /\ s.business.revision = req.revision
          /\ s.grant.accountGeneration = req.permission.accountGeneration
          /\ s.grant.descriptor = DescriptorIn(catalog.agent, req.operation)
    <3>1. CASE IsQuery(req)
      BY <2>1, <3>1, TakenIsAdmitted, QueryAdmitted
    <3>2. CASE ~ IsQuery(req)
      BY <2>1, <3>2, TakenIsAdmitted, StartAdmitted
    <3> QED
      BY <3>1, <3>2
  <2> QED
    BY <2>1, <2>2 DEF AdmittedAsSigned, IsQuery, DescriptorIn, InputOf
<1> QED
  BY <1>1, <1>2

LEMMA AnswerHasItsDigest ==
  ASSUME Assumptions, AdmissionInv, AnswerRequest
  PROVE  DigestGoesWithItsGrant'
<1>1. CASE answer' = Nil
  BY <1>1 DEF DigestGoesWithItsGrant, Taken
<1>2. CASE answer' # Nil
  <2>1. PICK req \in Arriving(sent, MixedParts) :
          /\ answer'.request = req
          /\ Outcome(req) # "refused"
          /\ UNCHANGED <<catalog, files, signed, sent>>
    BY <1>2, Answered
  <2>2. ~ IsQuery(req) =>
          \E r \in sent :
            /\ r.requestDigest = req.requestDigest
            /\ r.permission.grant = req.permission.grant
            /\ r.operationID = req.operationID
    BY <2>1, TakenIsAdmitted, StartAdmitted
  <2> QED
    BY <2>1, <2>2 DEF DigestGoesWithItsGrant, IsQuery
<1> QED
  BY <1>1, <1>2

(* A request that meets a row: its key and that of the row.                *)
LEMMA MeetsRow ==
  ASSUME Assumptions, AdmissionInv, NEW req \in Arriving(sent, MixedParts),
         Outcome(req) \in {"replayed", "conflict"}
  PROVE  /\ AdmitsStart(req)
         /\ req.operationID \in Uuid
         /\ Row(req.operationID, ledger[req.operationID])
         /\ Outcome(req) = "replayed"
              <=> Fence!ValidateStartReplayKey(ledger[req.operationID].key,
                                               KeyOf(req))
<1>1. /\ AdmitsStart(req)
      /\ ledger[req.operationID] # Nil
      /\ Outcome(req) = "replayed"
           <=> Fence!ValidateStartReplayKey(ledger[req.operationID].key, KeyOf(req))
  BY DEF Outcome
<1>2. req.operationID \in Uuid
  BY <1>1, AdmittedKey
<1> QED
  BY <1>1, <1>2 DEF AdmissionInv, RowsAreStarts

(* The keys of two Starts, of which the Agent has admitted both, agree     *)
(* just when they ask for the same.                                        *)
LEMMA KeysTell ==
  ASSUME Assumptions, AdmissionInv, NEW req \in Arriving(sent, MixedParts),
         AdmitsStart(req), NEW row, Row(req.operationID, row)
  PROVE  Fence!ValidateStartReplayKey(row.key, KeyOf(req)) <=>
           /\ req.operation = row.request.operation
           /\ req.revision = row.request.revision
           /\ req.json = row.request.json
           /\ files = row.files
           /\ SchemaOf(req.operation, catalog.agent)
                = SchemaOf(req.operation, row.catalog)
           /\ req.permission.accountGeneration
                = row.request.permission.accountGeneration
<1> DEFINE old == row.request
           d == DescriptorIn(catalog.agent, req.operation)
           e == DescriptorIn(row.catalog, old.operation)
           input == ParseBusinessInput(req.json)
           first == ParseBusinessInput(old.json)
           digest == ComputeRootRequestDigest(d, req.revision, input, files)
           was == ComputeRootRequestDigest(e, old.revision, first, row.files)
           account == req.permission.accountGeneration
           before == old.permission.accountGeneration
<1>1. /\ Fence!ValidKey(KeyOf(req)) /\ Fence!ValidKey(row.key)
      /\ input # Nil /\ first # Nil
      /\ KeyOf(req) =
           [operationID |-> req.operationID, capabilityID |-> req.operation,
            operation |-> req.operation, ownerID |-> Owner,
            accountGeneration |-> account, rootRequestDigest |-> digest]
      /\ row.key =
           [operationID |-> req.operationID, capabilityID |-> old.operation,
            operation |-> old.operation, ownerID |-> Owner,
            accountGeneration |-> before, rootRequestDigest |-> was]
  BY AdmittedKey DEF Row
<1>2. /\ d.schema = SchemaOf(req.operation, catalog.agent)
      /\ d.operation = req.operation
      /\ e.schema = SchemaOf(old.operation, row.catalog)
      /\ e.operation = old.operation
  BY DEF DescriptorIn
<1>3. input = first <=> req.json = old.json
  <2>1. req.json = [value |-> input, form |-> "canonical"]
    BY AdmittedKey, CanonicalIsRead
  <2>2. old.json = [value |-> first, form |-> "canonical"]
    <3>1. old.json \in Text /\ CanonicalJSONEqual(old.json)
      BY DEF Row
    <3>2. CanonicalizeJSON(old.json) = old.json /\ CanonicalizeJSON(old.json) # NoText
      BY <3>1 DEF CanonicalJSONEqual, NoText
    <3> QED
      BY <1>1, <3>1, <3>2, CanonicalIsRead
  <2> QED
    BY <2>1, <2>2
<1> HIDE DEF d, e, input, first, digest, was, account, before, old
<1>4. digest \in RootDigest
  BY <1>1 DEF Fence!ValidKey
<1>5. Fence!ValidateStartReplayKey(row.key, KeyOf(req)) <=>
        /\ old.operation = req.operation
        /\ before = account
        /\ was = digest
  BY <1>1 DEF Fence!ValidateStartReplayKey
<1>6. ASSUME old.operation = req.operation
      PROVE  was = digest <=>
               /\ old.revision = req.revision /\ row.files = files
               /\ first = input /\ e.schema = d.schema
  <2>1. ASSUME was = digest
        PROVE  /\ old.revision = req.revision /\ row.files = files
               /\ first = input /\ e.schema = d.schema
    <3>1. was # Missing
      BY <1>4, <2>1 DEF Assumptions, DigestAssumption
    <3>2. /\ ComputeRootRequestDigest(e, old.revision, first, row.files) # Missing
          /\ ComputeRootRequestDigest(e, old.revision, first, row.files)
               = ComputeRootRequestDigest(d, req.revision, input, files)
      BY <2>1, <3>1 DEF was, digest
    <3> QED
      BY <1>1, <3>2, RootDigestTells DEF InputOf
  <2>2. ASSUME old.revision = req.revision, row.files = files, first = input,
               e.schema = d.schema
        PROVE  was = digest
    <3>1. ComputeRootRequestDigest(e, req.revision, input, files)
            = ComputeRootRequestDigest(d, req.revision, input, files)
      BY <1>2, <1>6, <2>2, RootDigestOfSchema
    <3> QED
      BY <2>2, <3>1 DEF was, digest
  <2> QED
    BY <2>1, <2>2
<1>7. \/ old.operation # req.operation
      \/ e.schema = SchemaOf(req.operation, row.catalog)
  BY <1>2
<1> QED
  BY <1>2, <1>3, <1>5, <1>6, <1>7 DEF old, account, before

LEMMA AnswerFromTheRow ==
  ASSUME Assumptions, AdmissionInv, AnswerRequest
  PROVE  (ReplayIsSameBusiness /\ ConflictIsReal)'
<1>1. CASE answer' = Nil
  BY <1>1 DEF ReplayIsSameBusiness, ConflictIsReal
<1>2. CASE answer' # Nil
  <2>1. PICK req \in Arriving(sent, MixedParts) :
          /\ answer'.request = req /\ answer'.outcome = Outcome(req)
          /\ Outcome(req) # "admitted" => ledger' = ledger
          /\ UNCHANGED <<catalog, files>>
    BY <1>2, Answered
  <2>2. CASE Outcome(req) \in {"replayed", "conflict"}
    <3> DEFINE row == ledger[req.operationID]
    <3>1. /\ AdmitsStart(req) /\ Row(req.operationID, row)
          /\ Outcome(req) = "replayed"
               <=> Fence!ValidateStartReplayKey(row.key, KeyOf(req))
      BY <2>2, MeetsRow
    <3>2. ledger'[req.operationID] = row
      BY <2>1, <2>2
    <3> HIDE DEF row
    <3>3. Fence!ValidateStartReplayKey(row.key, KeyOf(req)) <=>
            /\ req.operation = row.request.operation
            /\ req.revision = row.request.revision
            /\ req.json = row.request.json
            /\ files = row.files
            /\ SchemaOf(req.operation, catalog.agent)
                 = SchemaOf(req.operation, row.catalog)
            /\ req.permission.accountGeneration
                 = row.request.permission.accountGeneration
      BY <3>1, KeysTell
    <3>4. ReplayIsSameBusiness'
      BY <2>1, <3>1, <3>2, <3>3 DEF ReplayIsSameBusiness, RowOf
    <3>5. ConflictIsReal'
      BY <2>1, <3>1, <3>2, <3>3 DEF ConflictIsReal, RowOf
    <3> QED
      BY <3>4, <3>5
  <2>3. CASE Outcome(req) \notin {"replayed", "conflict"}
    BY <2>1, <2>3 DEF ReplayIsSameBusiness, ConflictIsReal
  <2> QED
    BY <2>2, <2>3
<1> QED
  BY <1>1, <1>2

(* The types of requests                                                   *)

LEMMA SentTypes ==
  ASSUME Assumptions, AdmissionInv, NEW req \in sent
  PROVE  RequestType(req)
<1>1a. PICK a, h \in signed : \E n, list, account, ctx :
        /\ req = AsSent(a, h, n, list, account, ctx)
        /\ EntryChecked(a, h, n, list, account, ctx)
  BY DEF AdmissionInv, RequestsAreSent
<1>1. PICK n, list, account, ctx :
        /\ req = AsSent(a, h, n, list, account, ctx)
        /\ EntryChecked(a, h, n, list, account, ctx)
  BY <1>1a
<1>2. SignedFor(a) /\ SignedFor(h)
  BY DEF AdmissionInv, GrantsAreSigned
<1>3. req.operationID \in Uuid \cup {Nil} /\ req.operation = a.business.operation
      /\ req.permission.ownerID = Owner
      /\ req.permission.accountGeneration = account
      /\ req.permission.scopes = h.grant.scopes
  BY <1>1, <1>2 DEF AsSent, SignedFor
<1>4. a.business \in Business /\ account \in 1..MaxAccountGeneration
  BY <1>1, <1>2 DEF SignedFor, EntryChecked
<1>5. h.grant.scopes \in GrantedScopes
  BY <1>2 DEF SignedFor, RootGrant
<1>6. req.json \in Text
  BY SentFields
<1> QED
  BY <1>3, <1>4, <1>5, <1>6 DEF RequestType, Assumptions, ScopesAssumption

(* Neither mixing parts up nor respelling a text changes a type.           *)
LEMMA ArrivedTypes ==
  ASSUME Assumptions, AdmissionInv, NEW req \in Arriving(sent, MixedParts)
  PROVE  RequestType(req)
<1>1. \A r \in sent : /\ RequestType(r) /\ DOMAIN r = RequestFields
                      /\ DOMAIN r.permission = PermissionFields
  BY SentTypes, SentFields
<1>2. req.json \in Text /\ req.permission.ownerID = Owner
  BY ArrivedParts
<1>3. \/ \E r, other \in sent, parts \in SUBSET MixedParts : req = Mixed(r, other, parts)
      \/ \E r \in sent, form \in Form : req = [r EXCEPT !.json.form = form]
  BY DEF Arriving
<1>4. ASSUME NEW r \in sent, NEW other \in sent, NEW parts, req = Mixed(r, other, parts)
      PROVE  RequestType(req)
  <2> DEFINE p == IF "principal" \in parts THEN other.permission ELSE r.permission
             g == IF "grant" \in parts THEN other.permission.grant
                  ELSE r.permission.grant
  <2>1. req.permission = [p EXCEPT !.grant = g]
    BY <1>4 DEF Mixed
  <2>2. /\ DOMAIN p = PermissionFields
        /\ p.accountGeneration \in 1..MaxAccountGeneration /\ p.scopes \subseteq Scope
    BY <1>1 DEF RequestType
  <2> HIDE DEF p, g
  <2>3. /\ req.permission.accountGeneration = p.accountGeneration
        /\ req.permission.scopes = p.scopes
    BY <2>1, <2>2 DEF PermissionFields
  <2>4. /\ req.operationID \in {r.operationID, other.operationID}
        /\ req.operation = r.operation
    BY <1>4 DEF Mixed
  <2> QED
    BY <1>1, <1>2, <2>2, <2>3, <2>4 DEF RequestType
<1>5. ASSUME NEW r \in sent, NEW form \in Form, req = [r EXCEPT !.json.form = form]
      PROVE  RequestType(req)
  <2> DEFINE j == [r.json EXCEPT !.form = form]
  <2>1. req = [r EXCEPT !.json = j]
    BY <1>5
  <2> HIDE DEF j
  <2>2. /\ req.permission = r.permission /\ req.operationID = r.operationID
        /\ req.operation = r.operation
    BY <1>1, <2>1 DEF RequestFields
  <2> QED
    BY <1>1, <1>2, <2>2 DEF RequestType
<1> QED
  BY <1>3, <1>4, <1>5

AnswerIsTyped == answer # Nil => RequestType(answer.request)

(* The five together, as the invariant of the answers.                     *)
AnswerInv ==
  /\ AnswerIsTyped
  /\ AdmittedAsSigned /\ DigestGoesWithItsGrant
  /\ ReplayIsSameBusiness /\ ConflictIsReal

LEMMA AnswersHold ==
  ASSUME Assumptions
  PROVE  Spec => []AnswerInv
<1>1. ASSUME answer = Nil
      PROVE  AnswerInv
  BY <1>1 DEF AnswerInv, AnswerIsTyped, AdmittedAsSigned,
     DigestGoesWithItsGrant, Taken,
     ReplayIsSameBusiness, ConflictIsReal
<1>2. Init => AnswerInv
  BY <1>1 DEF Init
<1>3. AdmissionInv /\ AnswerInv /\ [Next]_vars => AnswerInv'
  <2> SUFFICES ASSUME AdmissionInv, AnswerInv, [Next]_vars
               PROVE  AnswerInv'
    OBVIOUS
  <2>1. CASE AnswerRequest
    <3>1. AnswerIsTyped'
      <4>1. answer' # Nil => \E req \in Arriving(sent, MixedParts) : answer'.request = req
        BY <2>1, Answered
      <4> QED
        BY <4>1, ArrivedTypes DEF AnswerIsTyped, RequestType
    <3> QED
      BY <2>1, <3>1, AnswerIsSigned, AnswerHasItsDigest, AnswerFromTheRow DEF AnswerInv
  <2>2. CASE Next /\ ~ AnswerRequest
    <3>1. answer' = Nil
      BY <2>2, QuietSteps
    <3> QED
      BY <3>1 DEF AnswerInv, AnswerIsTyped, AdmittedAsSigned,
     DigestGoesWithItsGrant, Taken,
         ReplayIsSameBusiness, ConflictIsReal
  <2>3. CASE UNCHANGED vars
    BY <2>3 DEF vars, AnswerInv, AnswerIsTyped, RequestType, AdmittedAsSigned,
       DigestGoesWithItsGrant, Taken,
       ReplayIsSameBusiness, ConflictIsReal, RowOf, IsQuery, DescriptorIn, InputOf
  <2> QED
    BY <2>1, <2>2, <2>3
<1> QED
  BY <1>2, <1>3, AlwaysInv, PTL DEF Spec

-----------------------------------------------------------------------------
(* Whatever the Agent takes of requests that were mixed up or came late,   *)
(* it takes for the business, files, account, schema and catalog that      *)
(* message-server signed the grant for (grant.go:267, idempotency.go:62).  *)
THEOREM TakenAsSigned ==
  ASSUME Assumptions
  PROVE  Spec => []AdmittedAsSigned
<1>1. AnswerInv => AdmittedAsSigned
  BY DEF AnswerInv
<1> QED
  BY <1>1, AnswersHold, PTL

(* The final digest of a Start the Agent takes was computed for the very   *)
(* grant it carries (idempotency.go:92).                                   *)
THEOREM DigestsStayWithGrants ==
  ASSUME Assumptions
  PROVE  Spec => []DigestGoesWithItsGrant
<1>1. AnswerInv => DigestGoesWithItsGrant
  BY DEF AnswerInv
<1> QED
  BY <1>1, AnswersHold, PTL

(* A Start is answered from the ledger exactly when it asks for what the   *)
(* first one asked for, in the same account: the grant, the chain and the  *)
(* catalog alone neither make a conflict nor hide one (replay.go:75).      *)
THEOREM ReplaysAreExact ==
  ASSUME Assumptions
  PROVE  Spec => [](ReplayIsSameBusiness /\ ConflictIsReal)
<1>1. AnswerInv => ReplayIsSameBusiness /\ ConflictIsReal
  BY DEF AnswerInv
<1> QED
  BY <1>1, AnswersHold, PTL

-----------------------------------------------------------------------------
(* What passed the entry *)

(* A request that was sent, and all that the entry does not look at.       *)
Passing(req) ==
  LET grant == req.permission.grant IN
  /\ req.ctx.deadline <= grant.entryDeadline
  /\ grant.maxHop >= 2
  /\ RequiredScope \in grant.scopes
  /\ req.revision >= 0
  /\ ParseBusinessInput(req.json) # Nil
  /\ grant.descriptor = DescriptorIn(catalog.agent, req.operation)
  /\ grant.rootRequestDigest.attachments = files
  /\ now < grant.expiresAt

(* The Agent's binding of such a request verifies, with the revision the   *)
(* grant was signed for.                                                   *)
LEMMA PassingVerifies ==
  ASSUME Assumptions, AdmissionInv, NEW req, Passing(req),
         NEW a \in signed, NEW h \in signed, NEW n, NEW list, NEW account, NEW ctx,
         req = AsSent(a, h, n, list, account, ctx),
         EntryChecked(a, h, n, list, account, ctx)
  PROVE  /\ VerifyAgentRootBinding(
              h.grant, now,
              AgentBinding(req, ValidateAndAdvanceAgentCallContext(ctx),
                           a.business.revision, files))
         /\ ParseBusinessInput(req.json) = a.business.input
         /\ list = files
         /\ ValidatePermissionContext(req.permission)
<1> DEFINE g == h.grant
           b == a.business
           new == ValidateAndAdvanceAgentCallContext(ctx)
           d == DescriptorIn(catalog.agent, req.operation)
           bind == AgentBinding(req, new, b.revision, files)
<1>1. /\ req.operation = b.operation /\ req.revision = b.revision
      /\ req.json = SerializeBusinessInput(b.input)
      /\ req.ctx = ctx /\ req.permission.grant = g
      /\ req.permission.ownerID = Owner
      /\ req.permission.accountGeneration = account
      /\ req.permission.scopes = g.scopes
      /\ req.permission.rootRequestDigest = g.rootRequestDigest
  BY DEF AsSent
<1>2. /\ ctx.deadline <= g.entryDeadline /\ g.maxHop >= 2
      /\ RequiredScope \in g.scopes
      /\ ParseBusinessInput(req.json) # Nil
      /\ g.descriptor = d
      /\ g.rootRequestDigest.attachments = files
      /\ now < g.expiresAt
  BY <1>1 DEF Passing
<1>3. SignedFor(h) /\ SignedFor(a) /\ now \in Nat
  BY DEF AdmissionInv, GrantsAreSigned, Clocks
<1>4. /\ g.rootOperationID = a.operationID /\ a.operationID \in Uuid
      /\ g.accountGeneration = account /\ account \in 1..MaxAccountGeneration
      /\ g.rootRequestDigest
           = ComputeRootRequestDigest(g.descriptor, b.revision, b.input, list)
      /\ ctx.chainID = g.chainID /\ ctx.rootOperationID = a.operationID
  BY <1>3 DEF EntryChecked, SignedFor
<1>5. /\ ctx \in Contexts(Uuid \cup {Missing}, Node)
      /\ ctx.deadline \in Int
      /\ ValidateStrictCallContext(new)
      /\ new.chainID = ctx.chainID /\ new.rootOperationID = ctx.rootOperationID
      /\ new.deadline = ctx.deadline
      /\ new.route = <<"ms", "agent">> /\ new.hop = 2
      /\ RouteLength(new.route) <= MaxRouteLength
  BY EntryContextIsTaken DEF EntryChecked, Contexts
<1>6. /\ g \in RootGrant /\ ValidateGrantClaims(g, DefaultGrantTTL) /\ IsRoot(g)
      /\ g.ownerID = Owner /\ g.entryRoute = <<"ms">> /\ g.entryHop = 1
      /\ g.maxRouteLength = MaxRouteLength
      /\ g.issuedAt \in Nat /\ g.issuedAt <= now /\ g.entryDeadline = g.expiresAt
  BY <1>3 DEF SignedFor
<1>7. /\ g.descriptor \in Descriptor /\ g.rootRequestDigest \in RootDigest
      /\ g.chainID \in Uuid
  BY <1>6 DEF ValidateGrantClaims
<1>8. g.rootRequestDigest # Missing
  BY <1>7 DEF Assumptions, DigestAssumption
<1>9. list = files
  BY <1>2, <1>4, <1>8, RootDigestHolds
<1>10. ParseBusinessInput(req.json) = b.input
  BY <1>1, <1>2, WrittenIsRead
<1>11. /\ bind.ctx = new /\ bind.rootOperationID = new.rootOperationID
       /\ bind.ownerID = Owner /\ bind.accountGeneration = account
       /\ bind.rootRequestDigest = g.rootRequestDigest
       /\ bind.requiredScopes = {RequiredScope}
       /\ bind.descriptor = d
  BY <1>1, <1>2, <1>4, <1>9, <1>10 DEF AgentBinding
<1>12. Owner \in OwnerID /\ Owner # Missing /\ a.operationID # Missing
  BY <1>4, IdentifierAssumption DEF Assumptions, OwnerAssumption
<1>13. ValidatePermissionContext(req.permission)
  <2>1. g # NoGrant
    BY <1>7, IdentifierAssumption DEF NoGrant
  <2> HIDE DEF g, d, bind
  <2>2. /\ req.permission.ownerID \in OwnerID
        /\ req.permission.grant # NoGrant
        /\ req.permission.accountGeneration \in 1..MaxAccountGeneration
        /\ ValidateSHA256Digest(req.permission.rootRequestDigest)
        /\ req.permission.scopes # {}
    BY <1>1, <1>2, <1>4, <1>8, <1>12, <2>1 DEF ValidateSHA256Digest
  <2> QED
    BY <2>2 DEF ValidatePermissionContext
<1> HIDE DEF g, b, new, d, bind
<1>14. VerifySigned(ZeroCodec, g, now)
  BY <1>2, <1>3, <1>6, ZeroCodecNormal DEF VerifySigned
<1>15. ValidateRootBinding(g, bind, "agent")
  <2>1. AtBoundary(g, new, "agent")
    BY <1>5, <1>6 DEF AtBoundary
  <2>2. /\ new.deadline <= g.entryDeadline /\ new.deadline <= g.expiresAt
        /\ bind.requiredScopes # {} /\ bind.requiredScopes \subseteq g.scopes
        /\ new.hop <= g.maxHop
        /\ RouteLength(new.route) <= g.maxRouteLength
        /\ bind.accountGeneration > 0
    BY <1>2, <1>4, <1>5, <1>6, <1>11, AccountAssumption
  <2> QED
    BY <1>4, <1>5, <1>6, <1>7, <1>11, <1>12, <2>1, <2>2 DEF ValidateRootBinding
<1>16. VerifyAgentRootBinding(g, now, bind)
  BY <1>2, <1>6, <1>7, <1>11, <1>14, <1>15
  DEF VerifyAgentRootBinding, ValidateAgentGrantDescriptor
<1> QED
  BY <1>9, <1>10, <1>13, <1>16 DEF g, b, new, bind

LEMMA PassingIsTaken ==
  ASSUME Assumptions, AdmissionInv, NEW req \in sent, Passing(req)
  PROVE  Outcome(req) # "refused"
<1>1a. PICK a, h \in signed : \E n, list, account, ctx :
        /\ req = AsSent(a, h, n, list, account, ctx)
        /\ EntryChecked(a, h, n, list, account, ctx)
  BY DEF AdmissionInv, RequestsAreSent
<1>1. PICK n, list, account, ctx :
        /\ req = AsSent(a, h, n, list, account, ctx)
        /\ EntryChecked(a, h, n, list, account, ctx)
  BY <1>1a
<1> DEFINE g == h.grant
           b == a.business
           new == ValidateAndAdvanceAgentCallContext(ctx)
           d == DescriptorIn(catalog.agent, req.operation)
<1>2. /\ VerifyAgentRootBinding(g, now, AgentBinding(req, new, b.revision, files))
      /\ ParseBusinessInput(req.json) = b.input /\ list = files
      /\ ValidatePermissionContext(req.permission)
  BY <1>1, PassingVerifies
<1>3. /\ req.operation = b.operation /\ req.revision = b.revision
      /\ req.json = SerializeBusinessInput(b.input)
      /\ req.ctx = ctx /\ req.permission.grant = g
      /\ b.operation \notin Queries =>
           /\ req.operationID = a.operationID
           /\ req.requestDigest
                = ComputeRequestDigest(DescriptorIn(n, b.operation), b.revision,
                                       b.input, list, g)
  BY <1>1 DEF AsSent
<1>4. /\ a.operationID \in Uuid /\ b \in Business /\ g \in RootGrant
      /\ ValidateGrantClaims(g, DefaultGrantTTL)
  BY DEF AdmissionInv, GrantsAreSigned, SignedFor
<1>5. /\ ParseBusinessInput(req.json) # Nil
      /\ CanonicalizeJSON(req.json) = req.json
      /\ CanonicalizeJSON(req.json) # NoText
      /\ req.revision >= 0 /\ g.descriptor = d
  <2>1. ParseBusinessInput(req.json) # Nil /\ req.revision >= 0 /\ g.descriptor = d
    BY <1>3 DEF Passing
  <2> QED
    BY <1>3, <2>1, WrittenIsRead
<1>6. /\ ValidateStrictCallContext(ctx) /\ new # NoContext
      /\ ctx.rootOperationID = a.operationID
      /\ g.descriptor = DescriptorIn(n, b.operation)
      /\ g.rootRequestDigest
           = ComputeRootRequestDigest(DescriptorIn(n, b.operation), b.revision,
                                      b.input, list)
  BY <1>1, EntryContextIsTaken DEF EntryChecked
<1>7. req.operation # Missing /\ b.input \in Input
      /\ (b.operation \in Queries => b.revision = 0)
  BY <1>2, <1>3, <1>4, <1>5 DEF Assumptions, BusinessAssumption
<1>8. CASE IsQuery(req)
  <2>1. b.revision = 0
    BY <1>3, <1>7, <1>8 DEF IsQuery
  <2>2. ValidateQueryRequest(req)
    BY <1>2, <1>3, <1>5, <1>6, <1>7 DEF ValidateQueryRequest
  <2> HIDE DEF g, b, new, d
  <2>3. VerifyAgentQueryGrant(req.permission.grant, now,
                              AgentBinding(req, new, 0, files))
    BY <1>2, <1>3, <2>1 DEF VerifyAgentQueryGrant
  <2>4. AdmitsQuery(req)
    BY <1>3, <1>5, <1>6, <2>2, <2>3 DEF AdmitsQuery, new
  <2> QED
    BY <1>8, <2>4 DEF Outcome
<1>9. CASE ~ IsQuery(req)
  <2>1. /\ req.operationID = a.operationID
        /\ req.requestDigest
             = ComputeRequestDigest(d, req.revision, ParseBusinessInput(req.json),
                                    files, g)
    BY <1>2, <1>3, <1>5, <1>6, <1>9 DEF IsQuery
  <2>2. req.requestDigest # Missing
    <3>1. ValidateSHA256Digest(d.schema)
          /\ \A file \in NodesOf(files) : ValidateSHA256Digest(file)
      <4>1. g.rootRequestDigest # Missing
        BY <1>4 DEF ValidateGrantClaims, Assumptions, DigestAssumption
      <4> HIDE DEF g, b, d
      <4>2. ComputeRootRequestDigest(d, b.revision, b.input, files) # Missing
        BY <1>2, <1>5, <1>6, <4>1
      <4> QED
        BY <4>2, RootDigestHolds
    <3>2. ValidateSHA256Digest(g)
      BY <1>4 DEF ValidateSHA256Digest, Assumptions, AbsenceAssumption
    <3> DEFINE final == Preimage(d, b.revision, b.input, files, g)
    <3>3. d \in Descriptor
      BY <1>4, <1>5 DEF ValidateGrantClaims
    <3>4. files \in Attached /\ b.input # Nil
      BY <1>2, <1>5 DEF AdmissionInv, InSetting
    <3>5. final \in FinalDigest
      <4>1. /\ d.schema \in {x.schema : x \in Descriptor}
            /\ d.operation \in {x.operation : x \in Descriptor}
            /\ b.revision \in {x.revision : x \in Business}
        BY <1>4, <3>3
      <4> HIDE DEF g, b, d
      <4> QED
        BY <1>4, <1>7, <3>4, <4>1 DEF Preimage, InputOf, FinalDigest, g
    <3> HIDE DEF g, b, d, final
    <3>6. req.requestDigest = final
      BY <1>2, <1>3, <2>1, <3>1, <3>2
      DEF ComputeRequestDigest, computeRequestDigest, final
    <3> QED
      BY <3>5, <3>6 DEF Assumptions, AbsenceAssumption
  <2>3. ValidateRootOperationRequest(req)
    BY <1>2, <1>3, <1>4, <1>5, <1>6, <1>7, <2>1, <2>2
    DEF ValidateRootOperationRequest, ValidateOperationRequest,
        ValidateRequestDigest, ValidateSHA256Digest
  <2> HIDE DEF g, b, new, d
  <2>4. VerifyRequestDigest(
          req.requestDigest,
          ComputeRequestDigest(d, req.revision, ParseBusinessInput(req.json),
                               files, req.permission.grant))
    BY <1>3, <2>1, <2>2, Zenon DEF VerifyRequestDigest, ValidateRequestDigest,
       ValidateSHA256Digest, ValidateDigest
  <2>5. VerifyAgentRootBinding(req.permission.grant, now,
                               AgentBinding(req, new, req.revision, files))
    BY <1>2, <1>3
  <2>6. AdmitsStart(req)
    BY <1>3, <1>5, <1>6, <2>3, <2>4, <2>5 DEF AdmitsStart, new, d
  <2> QED
    BY <1>9, <2>6 DEF Outcome
<1> QED
  BY <1>8, <1>9

(* What passed the check at the entry passes the Agent's, whatever was     *)
(* renewed meanwhile, as long as what the entry does not look at is right, *)
(* the catalog and the files are those it was signed for and the grant     *)
(* runs (grant.go:660).                                                    *)
THEOREM EntryDecides ==
  ASSUME Assumptions
  PROVE  Spec => []EntryCheckSuffices
<1>1. AdmissionInv => EntryCheckSuffices
  BY PassingIsTaken DEF EntryCheckSuffices, Passing
<1> QED
  BY <1>1, AlwaysInv, PTL

(* Every variable has its type: the parts of grants, requests and rows, and *)
(* the request of a row is canonical (validation.go:120).                  *)
LEMMA RootTypes ==
  ASSUME Assumptions
  PROVE  Spec => []TypeOK
<1>1. AdmissionInv /\ AnswerInv => TypeOK
  <2> SUFFICES ASSUME AdmissionInv, AnswerInv
               PROVE  TypeOK
    OBVIOUS
  <2>1. \A s \in signed :
          s.operationID \in Uuid /\ s.business \in Business /\ s.files \in Attached
    BY DEF AdmissionInv, GrantsAreSigned, SignedFor
  <2>2. \A req \in sent : RequestType(req)
    BY SentTypes
  <2>3. \A op \in Uuid :
          ledger[op] # Nil =>
            /\ Fence!ValidKey(ledger[op].key)
            /\ CanonicalJSONEqual(ledger[op].request.json)
            /\ ledger[op].catalog \in Catalog
    BY DEF AdmissionInv, RowsAreStarts, Row
  <2> QED
    BY <2>1, <2>2, <2>3
    DEF AdmissionInv, InSetting, Clocks, AnswerInv, AnswerIsTyped, TypeOK
<1> QED
  BY <1>1, AlwaysInv, AnswersHold, PTL

-----------------------------------------------------------------------------
(* The two paths.  A behaviour of the paths is one of Admission or one of  *)
(* the nested requests, and never of both, so that what is proved of each  *)
(* holds of the paths.                                                     *)

LEMMA RootApart == PathsSpec => []~(part = "root") \/ Spec
<1>1. PathsInit /\ part = "root" => Init
  BY DEF PathsInit
<1>2. [PathsNext]_pathVars /\ part = "root" => (part = "root")' /\ [Next]_vars
  BY DEF PathsNext, RootStep, NestedStep, pathVars
<1>3. [PathsNext]_pathVars /\ ~(part = "root") => (~(part = "root"))'
  BY DEF PathsNext, RootStep, NestedStep, pathVars
<1> QED
  BY <1>1, <1>2, <1>3, PTL DEF PathsSpec, Spec

LEMMA NestedApart == PathsSpec => []~(part = "nested") \/ Nested!Spec
<1>1. PathsInit /\ part = "nested" => Nested!Init
  BY DEF PathsInit
<1>2. [PathsNext]_pathVars /\ part = "nested"
        => (part = "nested")' /\ [Nested!Next]_(Nested!vars)
  BY DEF PathsNext, RootStep, NestedStep, pathVars, vars, Nested!vars
<1>3. [PathsNext]_pathVars /\ ~(part = "nested") => (~(part = "nested"))'
  BY DEF PathsNext, RootStep, NestedStep, pathVars
<1> QED
  BY <1>1, <1>2, <1>3, PTL DEF PathsSpec, Nested!Spec

(* Every variable has its type on both paths; the request of a row, and    *)
(* whatever Product took, is canonical (validation.go:120).                *)
THEOREM TypeCorrect ==
  ASSUME Assumptions, Nested!Assumptions
  PROVE  PathsSpec => []PathsTypeOK
<1>1. Spec => []TypeOK
  BY RootTypes
<1>2. Nested!Spec => []Nested!TypeOK
  BY Nested!TypeCorrect, IdentifierAssumption, TTLAssumption, SkewAssumption,
     AccountAssumption
<1>3. (~(part = "root") \/ TypeOK) /\ (~(part = "nested") \/ Nested!TypeOK)
        => PathsTypeOK
  BY DEF PathsTypeOK
<1> QED
  BY <1>1, <1>2, <1>3, RootApart, NestedApart, PTL

(* Whatever is taken, at the Agent or at Product, and however it was put   *)
(* together, is one business that a grant was signed for, and its final    *)
(* digest goes with that grant (idempotency.go:62, :92; grant.go:267;      *)
(* product_delegation.go:151, :163).                                       *)
THEOREM OnlyTheSignedIsTaken ==
  ASSUME Assumptions, Nested!Assumptions
  PROVE  PathsSpec => []TakenIsSigned
<1>1. /\ Spec => []AdmittedAsSigned
      /\ Spec => []DigestGoesWithItsGrant
  BY TakenAsSigned, DigestsStayWithGrants
<1>2. /\ Nested!Spec => []Nested!TakenAsExchanged
      /\ Nested!Spec => []Nested!DigestGoesWithItsChild
      /\ Nested!Spec => []Nested!BrokerScopeStays
  BY Nested!NestedIsExchanged, Nested!DigestsStayWithChildren,
     Nested!BrokerScopeIsKept, IdentifierAssumption, TTLAssumption, SkewAssumption,
     AccountAssumption
<1>3. /\ ~(part = "root") \/ (AdmittedAsSigned /\ DigestGoesWithItsGrant)
      /\ \/ ~(part = "nested")
         \/ /\ Nested!TakenAsExchanged /\ Nested!DigestGoesWithItsChild
            /\ Nested!BrokerScopeStays
      => TakenIsSigned
  BY DEF TakenIsSigned
<1> QED
  BY <1>1, <1>2, <1>3, RootApart, NestedApart, PTL

(* A Start is answered from the ledger exactly when it asks for what the   *)
(* first one asked for, on whichever path the behaviour is (replay.go:75). *)
THEOREM ReplaysAlwaysExact ==
  ASSUME Assumptions
  PROVE  PathsSpec => []ReplayIsExact
<1>1. Spec => [](ReplayIsSameBusiness /\ ConflictIsReal)
  BY ReplaysAreExact
<1>2. ~(part = "root") \/ (ReplayIsSameBusiness /\ ConflictIsReal) => ReplayIsExact
  BY DEF ReplayIsExact
<1> QED
  BY <1>1, <1>2, RootApart, PTL

(* No check refuses what the one before it let through: the Agent takes    *)
(* what passed the entry, and Product what the broker signed, as long as   *)
(* catalogs, files and account stay and the grant runs (grant.go:660,      *)
(* product_delegation.go:68).                                              *)
THEOREM PassedIsAlwaysTaken ==
  ASSUME Assumptions, Nested!Assumptions
  PROVE  PathsSpec => []PassedIsTaken
<1>1. Spec => []EntryCheckSuffices
  BY EntryDecides
<1>2. Nested!Spec => []Nested!ExchangedIsTaken
  BY Nested!BrokerDecides, IdentifierAssumption, TTLAssumption, SkewAssumption,
     AccountAssumption
<1>3. /\ ~(part = "root") \/ EntryCheckSuffices
      /\ ~(part = "nested") \/ Nested!ExchangedIsTaken
      => PassedIsTaken
  BY DEF PassedIsTaken
<1> QED
  BY <1>1, <1>2, <1>3, RootApart, NestedApart, PTL
=============================================================================

----------------------------- MODULE Admission ------------------------------
(***************************************************************************)
(* Root requests from message-server to the Agent: a grant is signed for   *)
(* the digest of the business, checked where the call enters, bound by the *)
(* final digest, and everything is computed again by the Agent from its    *)
(* own catalog.  Requests arrive late, twice, respelled, or put together   *)
(* from parts of two attempts; catalogs, attachments and the account       *)
(* change meanwhile.  The services are in the consuming nodes; every       *)
(* decision they take here is one of the library's.                        *)
(***************************************************************************)
EXTENDS Requests, FiniteSets

CONSTANTS
  Owner,          \* the account's owner
  Business,       \* [operation, revision, input]: what may be asked
  Queries,        \* the operations that are queries
  Catalog,        \* the Agent's catalogs, numbered in order
  SchemaOf(_, _), \* the schema digest of an operation in a catalog
  Attached,       \* lists of digests of the files an input may refer to
  Setting,        \* what a behaviour starts from, see SettingType
  RequiredScope,  \* the scope the Agent requires
  GrantedScopes,  \* the sets of scopes message-server grants
  HopBudget,      \* the hop budgets it signs
  CallTime,       \* bound: how long a call may be given
  MaxGrants,      \* bound: grants signed
  MaxRequests     \* bound: requests sent

(* The operations and the business of one behaviour, the last generation   *)
(* of its account, its catalogs and files, the parts a caller may take     *)
(* from another attempt, and the end of its clock.                         *)
SettingType ==
  [operations: SUBSET Uuid, business: SUBSET Business,
   generations: 1..MaxAccountGeneration, catalogs: SUBSET Catalog,
   attached: SUBSET Attached, mixed: SUBSET Part, until: Nat \ {0}]
SettingAssumption == Setting \subseteq SettingType
CatalogAssumption == 1 \in Catalog
TimeAssumption == CallTime \subseteq Nat
ScopesAssumption == GrantedScopes \subseteq SUBSET Scope
OwnerAssumption == Owner \in OwnerID \ {Missing}
(* Every operation has a name, and a query has no revision of its own.     *)
BusinessAssumption ==
  \A b \in Business :
    /\ b.operation # Missing
    /\ b.input \in Input \cup {Nil}
    /\ b.operation \in Queries => b.revision = 0
DescriptorAssumption ==
  \A b \in Business, n \in Catalog :
    [operation |-> b.operation, schema |-> SchemaOf(b.operation, n),
     catalog |-> n] \in Descriptor

(* The grants message-server signs, and the final digests that bind them.  *)
(* What is absent is none of them.                                         *)
RootGrant ==
  [chainID: Uuid, rootOperationID: Uuid, childOperationID: {Missing},
   grantKind: {"root"}, productTargetKind: {"none"}, ownerID: {Owner},
   accountGeneration: 1..MaxAccountGeneration, scopes: GrantedScopes,
   descriptor: Descriptor, rootRequestDigest: RootDigest,
   issuedAt: Nat, expiresAt: Nat, entryDeadline: Nat,
   entryRoute: {<<"ms">>}, entryHop: {1}, maxHop: 1..MaxCallHop,
   maxRouteLength: {MaxRouteLength}]
FinalDigest ==
  [schema: {d.schema : d \in Descriptor},
   operation: {d.operation : d \in Descriptor},
   revision: {b.revision : b \in Business}, input: Input,
   attachments: Attached, grant: RootGrant]
AbsenceAssumption == Missing \notin RootGrant /\ Missing \notin FinalDigest

VARIABLES
  setting,     \* nothing changes it
  now,         \* the clock
  catalog,     \* [ms, agent]: the catalog each one works from
  files,       \* digests of the attachments, as they are now
  generation,  \* the account's generation
  signed,      \* grants, and what message-server signed them for
  sent,        \* requests it has sent
  ledger,      \* the Agent's rows: key and request of the first Start
  answer       \* the Agent's last answer, when it took the request

vars == <<setting, now, catalog, files, generation, signed, sent, ledger, answer>>

MixedParts == setting.mixed

Fence == INSTANCE OperationState
           WITH OperationID <- Uuid, Grant <- {},
                CapabilityID <- {b.operation : b \in Business},
                Operation <- {b.operation : b \in Business}

DescriptorIn(n, operation) ==
  [operation |-> operation, schema |-> SchemaOf(operation, n), catalog |-> n]

IsQuery(req) == req.operation \in Queries

(* The root digest of a request, as a service computes it from its catalog *)
(* and from the files as they are.                                         *)
RootDigestOf(n, operation, revision, input) ==
  ComputeRootRequestDigest(DescriptorIn(n, operation), revision, input, files)

-----------------------------------------------------------------------------
Init ==
  /\ setting \in Setting
  /\ now = 1
  /\ catalog = [ms |-> 1, agent |-> 1]
  /\ files \in setting.attached
  /\ generation = 1
  /\ signed = {} /\ sent = {}
  /\ ledger = [op \in Uuid |-> Nil]
  /\ answer = Nil

(* message-server signs a grant for a business, or renews one.             *)
SignGrant ==
  /\ Cardinality(signed) < MaxGrants
  /\ \E op, chain \in setting.operations, b \in setting.business,
        scopes \in GrantedScopes, hops \in HopBudget :
       LET grant ==
             Sign(ZeroCodec,
                  [NoGrant EXCEPT
                     !.chainID = chain, !.rootOperationID = op,
                     !.ownerID = Owner, !.accountGeneration = generation,
                     !.scopes = scopes,
                     !.descriptor = DescriptorIn(catalog.ms, b.operation),
                     !.rootRequestDigest =
                       RootDigestOf(catalog.ms, b.operation, b.revision, b.input),
                     !.entryRoute = <<"ms">>, !.entryHop = 1, !.maxHop = hops],
                  now)
       IN /\ grant # NoGrant
          /\ signed' = signed \cup
               {[grant |-> grant, operationID |-> op, business |-> b,
                 files |-> files]}
  /\ answer' = Nil
  /\ UNCHANGED <<setting, now, catalog, files, generation, sent, ledger>>

(* What message-server binds the grant of an attempt to, at the entry.     *)
EntryBinding(attempt, ctx) ==
  LET b == attempt.business IN
  [ctx |-> ctx, chainID |-> Missing, rootOperationID |-> attempt.operationID,
   ownerID |-> Owner, accountGeneration |-> generation,
   rootRequestDigest |->
     RootDigestOf(catalog.ms, b.operation, b.revision, b.input),
   descriptor |-> DescriptorIn(catalog.ms, b.operation)]

RequestOf(attempt, grant, ctx) ==
  LET b == attempt.business
      descriptor == DescriptorIn(catalog.ms, b.operation)
  IN [operationID |-> IF b.operation \in Queries THEN Nil
                      ELSE attempt.operationID,
      operation |-> b.operation,
      revision |-> b.revision,
      json |-> SerializeBusinessInput(b.input),
      requestDigest |->
        IF b.operation \in Queries THEN Missing
        ELSE ComputeRequestDigest(descriptor, b.revision, b.input, files, grant),
      permission |->
        [ownerID |-> Owner, accountGeneration |-> generation,
         scopes |-> grant.scopes, grant |-> grant,
         rootRequestDigest |-> grant.rootRequestDigest],
      ctx |-> ctx]

(* It sends an attempt with one of its grants that passes the entry check. *)
SendRequest ==
  /\ Cardinality(sent) < MaxRequests
  /\ \E attempt \in signed, held \in signed, time \in CallTime :
       LET ctx == AppendCallNode(
                    NewCallContext(attempt.grant.chainID, attempt.operationID,
                                   now + time), "ms")
       IN /\ VerifyCapabilityGrant(held.grant, now, EntryBinding(attempt, ctx))
          /\ sent' = sent \cup {RequestOf(attempt, held.grant, ctx)}
  /\ answer' = Nil
  /\ UNCHANGED <<setting, now, catalog, files, generation, signed, ledger>>

-----------------------------------------------------------------------------
(* The Agent's side. *)

AgentBinding(req, ctx, revision, requiredFiles) ==
  [ctx |-> ctx, rootOperationID |-> ctx.rootOperationID,
   ownerID |-> req.permission.ownerID,
   accountGeneration |-> req.permission.accountGeneration,
   rootRequestDigest |->
     ComputeRootRequestDigest(DescriptorIn(catalog.agent, req.operation),
                              revision, ParseBusinessInput(req.json),
                              requiredFiles),
   requiredScopes |-> {RequiredScope},
   descriptor |-> DescriptorIn(catalog.agent, req.operation)]

(* A query has no revision of its own. *)
AdmitsQuery(req) ==
  LET ctx == ValidateAndAdvanceAgentCallContext(req.ctx) IN
  /\ ValidateQueryRequest(req)
  /\ ctx # NoContext
  /\ ParseBusinessInput(req.json) # Nil
  /\ VerifyAgentQueryGrant(req.permission.grant, now,
                           AgentBinding(req, ctx, 0, files))

AdmitsStart(req) ==
  LET ctx == ValidateAndAdvanceAgentCallContext(req.ctx) IN
  /\ ValidateRootOperationRequest(req)
  /\ ctx # NoContext
  /\ ParseBusinessInput(req.json) # Nil
  /\ VerifyAgentRootBinding(req.permission.grant, now,
                            AgentBinding(req, ctx, req.revision, files))
  /\ VerifyRequestDigest(
       req.requestDigest,
       ComputeRequestDigest(DescriptorIn(catalog.agent, req.operation),
                            req.revision, ParseBusinessInput(req.json), files,
                            req.permission.grant))

(* Mutant: the key holds the final digest. *)
MutantKeyWithFinalDigest(req) ==
  [operationID |-> req.operationID, capabilityID |-> req.operation,
   operation |-> req.operation, ownerID |-> req.permission.ownerID,
   accountGeneration |-> req.permission.accountGeneration,
   rootRequestDigest |-> req.requestDigest]

KeyOf(req) ==
  [operationID |-> req.operationID, capabilityID |-> req.operation,
   operation |-> req.operation, ownerID |-> req.permission.ownerID,
   accountGeneration |-> req.permission.accountGeneration,
   rootRequestDigest |->
     RootDigestOf(catalog.agent, req.operation, req.revision,
                  ParseBusinessInput(req.json))]

Outcome(req) ==
  IF IsQuery(req) THEN IF AdmitsQuery(req) THEN "answered" ELSE "refused"
  ELSE IF ~ AdmitsStart(req) THEN "refused"
  ELSE IF ledger[req.operationID] = Nil THEN "admitted"
  ELSE IF Fence!ValidateStartReplayKey(ledger[req.operationID].key, KeyOf(req))
  THEN "replayed" ELSE "conflict"

(* The Agent answers one; only the first Start of an operation leaves a    *)
(* row, and a refusal leaves nothing.                                      *)
AnswerRequest ==
  /\ \E req \in Arriving(sent, MixedParts) :
       /\ answer' = IF Outcome(req) = "refused" THEN Nil
                    ELSE [request |-> req, outcome |-> Outcome(req)]
       /\ ledger' = IF Outcome(req) = "admitted"
                    THEN [ledger EXCEPT ![req.operationID] =
                            [key |-> KeyOf(req), request |-> req, files |-> files,
                             catalog |-> catalog.agent]]
                    ELSE ledger
  /\ UNCHANGED <<setting, now, catalog, files, generation, signed, sent>>

-----------------------------------------------------------------------------
Tick ==
  /\ now < setting.until
  /\ now' = now + 1
  /\ answer' = Nil
  /\ UNCHANGED <<setting, catalog, files, generation, signed, sent, ledger>>

(* The Agent is upgraded, or message-server reads its catalog again.       *)
ChangeCatalog ==
  /\ \/ /\ catalog.agent + 1 \in setting.catalogs
        /\ catalog' = [catalog EXCEPT !.agent = @ + 1]
     \/ catalog' = [catalog EXCEPT !.ms = catalog.agent]
  /\ answer' = Nil
  /\ UNCHANGED <<setting, now, files, generation, signed, sent, ledger>>

ReplaceFiles ==
  /\ files' \in setting.attached
  /\ answer' = Nil
  /\ UNCHANGED <<setting, now, catalog, generation, signed, sent, ledger>>

(* The account is deleted and created again. *)
RebuildAccount ==
  /\ generation < setting.generations
  /\ generation' = generation + 1
  /\ answer' = Nil
  /\ UNCHANGED <<setting, now, catalog, files, signed, sent, ledger>>

Next ==
  \/ SignGrant \/ SendRequest \/ AnswerRequest
  \/ Tick \/ ChangeCatalog \/ ReplaceFiles \/ RebuildAccount

Spec == Init /\ [][Next]_vars

-----------------------------------------------------------------------------
RequestType(req) ==
  /\ req.operationID \in Uuid \cup {Nil}
  /\ [operation |-> req.operation] \in {[operation |-> b.operation] : b \in Business}
  /\ req.json \in Text
  /\ req.permission.ownerID = Owner
  /\ req.permission.accountGeneration \in 1..MaxAccountGeneration
  /\ req.permission.scopes \subseteq Scope

(* Every variable has its type; a row's key is well formed and its request *)
(* canonical.                                                              *)
TypeOK ==
  /\ setting \in Setting
  /\ now \in 1..setting.until
  /\ catalog \in [ms: Catalog, agent: Catalog]
  /\ files \in Attached
  /\ generation \in 1..MaxAccountGeneration
  /\ \A s \in signed :
       s.operationID \in Uuid /\ s.business \in Business /\ s.files \in Attached
  /\ \A req \in sent : RequestType(req)
  /\ \A op \in Uuid :
       ledger[op] # Nil =>
         /\ Fence!ValidKey(ledger[op].key)
         /\ CanonicalJSONEqual(ledger[op].request.json)
         /\ ledger[op].catalog \in Catalog
  /\ answer # Nil => RequestType(answer.request)

Taken == answer # Nil

(* Whatever the Agent takes, and however the parts of the request were put *)
(* together, it takes for what message-server signed the grant for: the    *)
(* operation, input, revision and files, the account, and the schema and   *)
(* catalog the Agent has now.                                              *)
AdmittedAsSigned ==
  Taken =>
    LET req == answer.request IN
    \E s \in signed :
      /\ s.grant = req.permission.grant
      /\ s.business.operation = req.operation
      /\ InputOf(s.business.input) = ParseBusinessInput(req.json)
      /\ s.files = files
      /\ ~ IsQuery(req) => /\ s.operationID = req.operationID
                           /\ s.business.revision = req.revision
      /\ s.grant.accountGeneration = req.permission.accountGeneration
      /\ s.grant.descriptor = DescriptorIn(catalog.agent, req.operation)

(* A Start the Agent takes carries the final digest that message-server    *)
(* computed for the very grant it carries: a renewed grant does not go     *)
(* with the digest of the one before.                                      *)
DigestGoesWithItsGrant ==
  Taken /\ ~ IsQuery(answer.request) =>
    \E req \in sent :
      /\ req.requestDigest = answer.request.requestDigest
      /\ req.permission.grant = answer.request.permission.grant
      /\ req.operationID = answer.request.operationID

RowOf(req) == ledger[req.operationID]

(* A Start that is answered from the ledger asks for just what the first   *)
(* one asked for, whatever grant either came with.                         *)
ReplayIsSameBusiness ==
  answer # Nil /\ answer.outcome = "replayed" =>
    LET req == answer.request  row == RowOf(req) IN
    /\ req.operation = row.request.operation
    /\ req.revision = row.request.revision
    /\ req.json = row.request.json
    /\ files = row.files
    /\ SchemaOf(req.operation, catalog.agent)
         = SchemaOf(req.operation, row.catalog)
    /\ req.permission.accountGeneration
         = row.request.permission.accountGeneration

(* A conflict is never about the grant, the chain or the catalog alone:    *)
(* the business, its files, its schema or the account is another one.      *)
ConflictIsReal ==
  answer # Nil /\ answer.outcome = "conflict" =>
    LET req == answer.request  row == RowOf(req) IN
    \/ req.operation # row.request.operation
    \/ req.revision # row.request.revision
    \/ req.json # row.request.json
    \/ files # row.files
    \/ SchemaOf(req.operation, catalog.agent)
         # SchemaOf(req.operation, row.catalog)
    \/ req.permission.accountGeneration
         # row.request.permission.accountGeneration

(* A request that passed the check at the entry passes the Agent's, if     *)
(* what the entry does not look at is right: its deadline, hop budget,     *)
(* scope, revision and kind of input; and if the Agent's catalog and the   *)
(* files are those it was signed for and the grant still runs.             *)
EntryCheckSuffices ==
  \A req \in sent :
    LET grant == req.permission.grant IN
    /\ req.ctx.deadline <= grant.entryDeadline
    /\ grant.maxHop >= 2
    /\ RequiredScope \in grant.scopes
    /\ req.revision >= 0
    /\ ParseBusinessInput(req.json) # Nil
    /\ grant.descriptor = DescriptorIn(catalog.agent, req.operation)
    /\ grant.rootRequestDigest.attachments = files
    /\ now < grant.expiresAt
    => Outcome(req) # "refused"
=============================================================================

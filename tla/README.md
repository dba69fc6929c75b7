# Dirextalk Capability API: a TLA+ development

This directory holds TLA+ specifications of the hand-written Go library in
`src/gen/go/dirextalk/capability/v1/`, the TLC configurations that check them on
small instances, and proofs, checked by TLAPS, of the results that matter most.

The library is a contract shared by three nodes that are not in this
repository: *message-server* (`ms`), the *Agent* and *Product*. It performs no
I/O and keeps no state. It is a set of validators, each of which a node calls at
a certain point: before it writes a row, when a call arrives, when it signs or
verifies a grant. Whether a validator is right can only be said of a system that
calls it. The specifications therefore come in two layers:

* **pure modules** translate the library, one operator per function
  (`OperationState`, `CallContext`, `Grants`, `ControlGrants`, `Requests`,
  `GrantWire`, and those on canonical JSON, metadata and scope lists). A Go function
  that returns an error is a predicate that is `FALSE`, or returns `NoContext` or
  `NoGrant`;
* **state machines** put concurrent, crashing, slow actors around those
  operators (`OperationLedger`, `CallChain`, `GrantLifecycle`, `ControlLifecycle`,
  `Admission`, `ProductAdmission`, `GrantTransit`).
  An actor decides *only* with the library's operators, at the points the source's
  comments, tests and `docs/protocol.md` name. Its actions are marked *external*
  in `PROJECT.json`, since the code of the actors is elsewhere.

What is checked is that the validators, so called, are *enough*.

## Inventory

### Components

| Component | Source | State | Operations |
|---|---|---|---|
| Operation state machine | `operation_state.go` | none; it judges rows kept by the ledger: UNSPECIFIED, PENDING, RUNNING, COMPLETED, FAILED, CANCELLED, UNCERTAIN | `IsTerminalOperationState`, `ValidateOperationStateTransition`, `RecoverOperationStateAfterRestart`, `ValidateReconcileTransition`, `ValidateTerminalUpdate` |
| Tombstones | `operation_state.go` | what a compacted row leaves: replay key, final digest, state, revision | `ValidateTombstoneConflict`, `ValidateRootTombstoneConflict`, `ValidateStartReplayTombstoneConflict` |
| Replay fence | `replay.go` | keys and receipts of Start calls | `StartReplayKey.Validate`, `ValidateStartReplayKey`, `ValidateStartReplayReceipt`, `ValidateRootGrantRenewal` |
| Call context | `callcontext.go` | chain, root operation, hop, route, deadline; travels with each private call | `NewCallContext`, `AppendCallNode`, `ValidateAndAdvance…`, `Validate…CallPath`, `DeadlineExceeded` |
| Grants | `grant.go` | signed claims | `Sign`, `Verify`, `VerifyAgentRootBinding`, `VerifyAgentQueryGrant`, `VerifyRootBinding`, `ValidateGrantClaims` |
| Control grants | `grant.go`, `replay.go`, `validation.go` | a set of two-minute grants, one for each control action on an operation | `SignOperationControlGrant`, `Verify…ControlGrant`, `ValidateOperationControlGrantEnvelopes`, `VerifyControlGrantEnvelopeSet` |
| Keys and texts of grants | `grant.go` | key files; a grant as prefix, payload and signature | `Parse…Key`, `Marshal…KeyPEM`, `marshalGrantClaims`, `unmarshalGrantClaims`, size limits |
| Product delegation | `product_delegation.go` | a parent grant being exchanged for a short-lived child | `SignProductDelegationFromParent`, `VerifyProductDelegationGrant`, exchange request and response |
| Request validation | `validation.go` | none | the checks of Start and Query requests, permissions and digests |
| Canonical JSON, digests | `idempotency.go` | none | `Canonicalize`, `CanonicalizeJSON`, `ParseBusinessInput`, `ComputeRootRequestDigest`, `ComputeRequestDigest` |
| Metadata | `metadata.go` | gRPC metadata | `Format…`, `Parse…`, `ValidAccountGeneration` |
| Protocol messages, data types | `src/api`, `*.pb.go`, `models.gen.go` | generated | none |

Outside the repository, modelled from how the library is meant to be called: the
**ledger service** (rows, workers, compaction, recovery), the **call services**
(handler pools, nested calls, deadlines), **message-server's signer and
broker**, the **Agent** that holds grants and sends nested requests, **Product**, and
the handlers that put the checks of a request together.

### How they interact

1. A caller's Start reaches message-server, which opens a chain
   (`NewCallContext`), signs a root grant (`Sign`) bound to owner, account
   generation, scopes, descriptor and the *root* request digest, appends itself to
   the route (`AppendCallNode`) and calls the Agent.
2. The Agent accepts the context (`ValidateAndAdvanceAgentCallContext`) and the
   grant (`VerifyAgentRootBinding`), then looks the operation UUID up in its
   ledger: a row or tombstone answers a replay (`ValidateStartReplayKey`, the
   tombstone fences), otherwise a PENDING row is created and a worker spawned. Each
   row update is judged by `ValidateOperationStateTransition`,
   `ValidateTerminalUpdate` or `ValidateReconcileTransition`.
3. To act on Product, the Agent exchanges its root grant at message-server's
   broker: the broker verifies the parent (`VerifyProductDelegationParent`), then
   signs a child (`SignProductDelegationFromParent`). The Agent appends itself to
   the route and calls Product with the child, which Product judges with
   `ValidateAndAdvanceProductCallContext` and `VerifyProductDelegationGrant`.
4. Product answers a Start, or its replay, with a set of control grants bound to that
   call (`SignOperationControlGrant`). The Agent keeps the set only if all of it
   verifies (`VerifyControlGrantEnvelopeSet`), and presents one of its grants with
   each get, watch, cancel or reconcile call.
5. Each request carries two digests of its business. The root digest, without the
   grant, is what a root grant is signed for and what identifies a replay; the final
   digest adds the grant that came back. Every node computes them again from its own
   catalog and the canonical form of the input.

### What is hard, and what must hold

| Where | Hard behaviour | Correctness |
|---|---|---|
| Ledger | racing admissions of one UUID; workers that outlive a timeout or cancel; crashes between admitting, calling and recording; crashes during recovery; compaction under a replay; renewed grants change the final digest | a side effect happens at most once; a terminal outcome never changes; a replay is answered with the state of the operation it asked for and never an older one than was told before; every admitted operation is eventually decided |
| Calls | sender and receiver both append nodes; callers give up while callees go on; pools are held while waiting; chains start at `ms` or at the Agent | the route is the true trace; Product is terminal; chain, root and deadline are inherited; waiting never closes a circle |
| Grants | the broker verifies and signs at different times; renewals and account rebuilds in between; clocks differ; roots and children share an envelope | a child does not extend its parent's authority past a bound; Product runs what was exchanged; kinds are never mixed; renewals keep the authority |
| Control grants | replies lost, repeated and reordered; sets of two chains at once; account rebuilds; clocks apart | a set is held whole or not at all; Product acts only under a live grant for that action on that operation |
| Requests | catalogs, files, account and grant change between signing, entry and admission; parts of two attempts are mixed up | what is taken was signed, as it now stands; a replay asks for what the first asked for; what passed the entry passes the Agent |
| Digests, metadata | binary64 rounding, UTF-16 order, two readers of one text, shared and cyclic values, lenient transports | nothing of an input is lost; one text per value; one spelling per identity |
| Texts and keys | two releases at once; key files stored, damaged and edited | what is read was signed, in every field; a key file keeps the key it last had or is refused, unless the block of that key is damaged |

The hazards, each at its line and with the properties that cover it, are in
`PROJECT.json`.

## Modules

| Module | Extends | What it models |
|---|---|---|
| `OperationState` | | every function of `operation_state.go`; replay keys and receipts of `replay.go` |
| `OperationOutcome` | | abstract: an operation UUID as a register written once |
| `OperationLedger` | `OperationState` | a durable ledger with callers, workers, upstream, timers, reconciliation, compaction, crash and recovery; refines `OperationOutcome` |
| `OperationLedgerProofs` | `OperationLedger` | theorems about the ledger, with its refinement |
| `CallContext` | | every function of `callcontext.go` |
| `CallChain` | `CallContext` | synchronous nested calls, pools, deadlines, lost calls |
| `CallChainProofs` | `CallChain`, `OperatorProofs` | theorems about nested calls |
| `RouteBoundary` | `CallContext` | the receiving helpers against every context a message can hold |
| `Grants` | `CallContext` | root and child grants of `grant.go`, `product_delegation.go`; root renewal of `replay.go` |
| `GrantLifecycle` | `Grants` | signer, Agent, broker, clocks, renewals and account rebuilds |
| `GrantLifecycleProofs` | `GrantLifecycle` | theorems about grants |
| `ControlGrants` | `Grants` | control grants and envelope sets |
| `ControlPermit` | | abstract: short permits for one action on one operation |
| `ControlLifecycle` | `ControlGrants` | Starts and replays, their replies, control calls, the row they act on; refines `ControlPermit` |
| `ControlLifecycleProofs` | `ControlLifecycle`, `OperatorProofs` | theorems about control |
| `Requests` | `Grants` | `validation.go`; the digests of `idempotency.go` and their inputs; `Verify` and `VerifyAgentQueryGrant` |
| `OperatorProofs` | `Requests` | lemmas on routes, digests, signing and mixed requests; theorems on what each receiver accepts |
| `Admission` | `Requests` | root requests from signing to the Agent's ledger |
| `ProductAdmission` | `Requests` | nested requests from exchange to Product |
| `ProductAdmissionProofs` | `ProductAdmission`, `OperatorProofs` | theorems about nested requests |
| `RequestPaths` | `Admission` | both ways of a request, with nested ones as an instance of `ProductAdmissionProofs` |
| `AdmissionProofs` | `RequestPaths`, `OperatorProofs` | theorems about root requests and about both ways |
| `CanonicalNumber` | | numbers of canonical JSON, with the binary64 arithmetic under them |
| `JsonStrings` | | the scan for broken strings, next to the decoder's own reading |
| `JsonValues` | | strings, values and tokens of JSON; the order of names; what a value is written as, given how the values in it are |
| `CanonicalText` | `JsonValues` | the same with the recursion closed, for TLC |
| `CanonicalJson` | `JsonValues` | decoding of texts token by token, repeated names, writing and reading again |
| `CanonicalWalk` | | the walk over Go values with shared and cyclic parts |
| `PeerMetadata` | | `metadata.go`, `ValidateOperationID` |
| `ScopeLists` | | names and lists of scopes, on three code paths |
| `GrantWire` | `ControlGrants` | key parsing and marshalling; the texts of grants |
| `GrantTransit` | `GrantWire` | key files over time; texts on their way |
| `Library` | `GrantTransit` | side by side: contexts from any peer, strings, the walk, lists, metadata, texts of JSON, texts and keys of grants |
| `LibraryProofs` | `Library`, `OperatorProofs` | theorems about the parts of `Library` |
| `MCLibrary` | `Library` | with numbers: the eight parts without actors of their own |
| other `MC…` | the module named | definitions the `.cfg` files give to constants |

`Library`, `MCLibrary` and `RequestPaths` put parts side by side, which they extend or
INSTANCE. A behaviour chooses a part at its start and stays in it (`part`). Their
properties are the conjunctions of the parts' properties, named for what they say
together; each conjunct is defined, with its comment, in the part's module.

### State and actions

**`OperationLedger`.** `row` and `tomb` are the durable store; the other variables
are in-memory or belong to others. A Start (`Submit`) is a record in `req` whose
`pc` says how far its handler is: it looks the UUID up (`LookupTombstone`,
`LookupRow`, `LookupNothing`), and later, in a *separate* transaction, creates the
row (`Admit`, which re-reads and may lose the race) or replies (`Replay`, which
refuses a snapshot the row has left behind and reads again). Each admission spawns
one `worker`, which takes the row, calls its upstream and records the answer
(`WorkerRun`, `WorkerCall`, `WorkerFinish`); `Upstream` performs the side effect
whether or not the ledger is up. `MarkUncertain`, `Cancel`, `ReconcilePoll`,
`ReconcileCommit` and `Compact` are the other transactions on a row. `Crash` kills
handlers, workers and polls; `Recover` passes each row through
`RecoverOperationStateAfterRestart`, one row per step, and a second crash may come
in between. `TombstoneFence` selects which of the three exported fences a retry
against a tombstone meets. `disclosed` is a history variable: the revision the
newest answer carried.

**`CallChain`.** Each element of `act` is one call and its handler. `Send` builds the
outgoing context with `AppendCallNode`; `Arrive` applies the receiver's helper
and queues or refuses the call; `Serve` takes a slot of the node's pool; `Finish`
wakes the caller; `GiveUp` is the caller's deadline. Any handler may try to call any
service: only the validators stop it.

**`RouteBoundary`.** Its initial states are all contexts with a route of up to
`MaxLength` nodes (one of them possibly unknown), any hop from -1 to 4, a zero or
positive deadline, and UUID, token or missing identifiers; `Relay` is
`AppendCallNode` at any node.

**`GrantLifecycle`.** `offer` is the root request on its way, `held` what the Agent
accepted last, `broker` an exchange between verification and reply, `child` the
last child the Agent took; `first` is a history variable. `now` is the clock of
message-server and Product, `now + drift` the Agent's. `BrokerVerify` and
`BrokerSign` are separate steps, between which `Tick`, a renewal or `Rebuild` may
come.

**`ControlLifecycle`.** `Start` is a Start or its replay at Product: it signs a set for
this call and may create the row. The reply is not a variable: `TakeReply` gives the
Agent *any* list of envelopes over the grants signed so far (so replies may be late,
repeated, reordered, for another operation or wrongly put together), and `held` is
what its check returned. `Control` presents any held grant in any call; `RowAfter` is
what Product then does with the row. `drift` is the Agent's clock minus Product's.

**`Admission`.** `setting` is what a behaviour starts from, one of the records in
`Setting`: which operations, business, generations, catalogs, files and mixtures it
has, and how far its clock goes. `catalog` holds the catalogs that message-server and the Agent go by,
`signed` the grants, `sent` the requests (each both digests, the text of the input
and the permission), `ledger` the Agent's rows and `answer` the last answer.
`SendRequest` may exchange any subset of `MixedParts` (the setting's) for the part of an
earlier attempt and damage the text. `ChangeCatalog`, `ReplaceFiles`, `RebuildAccount` and
`Tick` come anywhere. `ProductAdmission` has the same shape for nested requests, with
the broker's exchange before and Product's catalog as a third one.

**`GrantTransit`.** `setting` is one of the records in `Setting`: the key files, limits,
claims, edits and spellings of one behaviour. `signerFile` and `readerFile` are the key files the nodes were given;
they may be stored as PEM, published and edited: `Edits` puts another whole block before
or behind, damages one (its text or its algorithm) or puts text around them.
`signerKey` and `readerKey` are history: the key last read out of each file, which a
refused file leaves as it was. `SignElsewhere` signs payloads of
another release; `Respell`, `Relabel` and `Damage` are what a carrier may do.

**The modules on canonical JSON.** `JsonStrings` reads a text chunk by chunk with the scan
and the decoder side by side. When the scan has refused a chunk, `FollowRefusal` lets the
text go on in any way, so that a refusal is judged by all texts it stands for.
`CanonicalJson` decodes token by token with an explicit stack, as `decodeJSONValue`
recurses. How `canonicalizeValue` recurses is the constant `CanonicalForms` of that
module, which is `CanonicalText`'s in the run: a recursive operator would put the module
out of the provers' reach. `CanonicalWalk` walks a heap of locations and remembers
addresses as `canonicalizeValue` does. `CanonicalNumber` goes from one text to the next by
`Canonicalize`.

### Abstractions

* UUIDs, tokens, digests, scopes and descriptors are members of small sets.
  `Missing` stands for an empty or malformed value, which the validators treat
  alike. Their spelling is the subject of `PeerMetadata` and `ScopeLists` only.
* SHA-256 is injective: a digest is the record of what was hashed. What is hashed is
  `Preimage` in `Requests`; its canonical text is the subject of the modules on
  canonical JSON.
* A signature verifies under a key exactly if its holder signed that payload. In
  all modules but `GrantWire` a signed grant is the record of its claims.
* A route is a sequence of nodes. Its length on the wire is kept
  (`RouteLength`), as `maxRouteLength` depends on it.
* A capability, operation, catalog digest and schema digest are always compared
  together and are one `Descriptor`. In `Requests` a descriptor is a record, as
  digests look at some of its fields only.
* The terminal error of a receipt is a function of its state.
* `strconv` and `encoding/json` are modelled from their documented behaviour at the
  calls the source makes; a float has `Precision` bits instead of 53.

## Runs

| Run (`.cfg`) | Result | What it shows |
|---|---|---|
| `LedgerSafety` | pass | the replay contract with the replay-key fence, as invariants, action properties and refinement of `OperationOutcome` |
| `LedgerLiveness` | pass | every admitted operation is decided; every Start answered |
| `LedgerRootFence` | violation | finding 1 |
| `CallRoutes` | pass | routes are traces, context is inherited, Product is terminal |
| `CallDeadlock` | pass | no circular wait, even with one slot per pool, no deadline firing and the generic receiver |
| `RouteInterior` | violation | finding 2 |
| `GrantSafety` | pass | delegation horizon, what Product runs, kinds, renewal, when a child can be signed |
| `GrantSkew` | violation | finding 3 |
| `Control` | pass | sets are held whole; control is by permit, on its own route, under a live grant; when a fresh set is taken |
| `Requests` | pass | on both ways: what is taken was signed; replays are exact; what passed one check passes the next |
| `Library` | pass | the eight stateless parts over all their small inputs |
| `CanonicalAgain` | violation | finding 4 |

### Bounds, and why they are enough

* *Ledger*: one UUID (operations share nothing but the crash), three Starts
  by two owners with two grants. Three Starts are an admission, a racing or
  late one, and a replay that meets either's leftovers; two owners and grants are
  the least that can differ. One crash: a second one, also between two recoveries,
  and a second operation are beyond this instance; the proofs cover any number of
  both, for every property but the two liveness ones. The legacy
  tombstone is one an earlier release may have left: it knows the UUID and final
  digest only. Symmetry over requests, grants and owners, which are only compared for
  equality; not used in the liveness run.
* *Calls*: four activations are one more than the longest legal chain, or two chains
  that nest once each and compete. Two nested calls per handler allow a retry after
  a lost call. `MaxTime = 2` lets deadlines pass at each of the hops. One slot
  per pool is the worst case for a circular wait. The proofs of `CallRoutes` are
  for any number of activations, calls and slots.
* *Grants*: `DefaultProductDelegationTTL = 1` and `DefaultGrantTTL = 2` keep the
  order of 2 and 15 minutes; `MaxTime = 3` lets both expire. Calls are given 1 or 2
  time units, so a deadline may be within or beyond a delegation TTL. Two root
  requests are an original and its renewal (on either chain); two account
  generations are one rebuild; the broker's exchanges are a query and a nested
  Start, with a scope the parent may or may not have.
* *Control*: two operations and two chains, so that a set can be presented for another
  one; two Starts, so that a reply can be put together from two sets; two wanted
  actions and replies of one or two envelopes, so that one can be missing, repeated
  or exchanged. Product's grants live for one unit of a TTL of two, and expire in
  the run; clocks differ by up to one unit each way. `FreshSetAccepted` asks of every
  state about lives up to beyond the TTL.
* *Requests*: in the setting `MixedUp`, two grants and two requests for four businesses
  (two inputs, one of them nil; two revisions; a Start and a query), with every subset of
  the parts exchanged; in `Upgraded` and
  `Rebuilt`, three catalogs of which the third has another schema and two file lists, or two
  accounts and two catalogs, with a clock that goes to 3 under grants that live for 2, and
  the grant and its account exchanged; on the path *nested*, two exchanges
  under two roots and two requests. Two of each are the least that can be mixed up, and
  every predicate compares a request with one grant, one row and one catalog. The two
  UUIDs are symmetric: they are only compared for equality.
* *Library*: routes of four nodes are one longer than any legal one. Floats of
  four bits with an exponent range of sixteen have every kind of neighbour: exact and
  inexact integers, subnormals, ties and overflow, on both sides of each layout
  threshold. Six chunks are a surrogate pair in a string, and leave room
behind a refusal; six tokens hold an object
  with two members, or one in another. Three locations make every shape of
  sharing and one cycle through another. Tokens of one byte have six spare bits'
  worth of spellings; generations reach beyond the largest, and texts have two
  characters, which is one more than a number needs to have a leading zero. Scopes and names
  of three characters take every character class the rules tell apart. Grants of
  two and four claims stand on both sides of the size limit. Key files have two blocks
  of two pairs, each damaged once, which is what it takes to change a key; text around
  them comes last, as a file that has it is refused whatever else is in it.

Deadlock is checked in `Requests`, where time goes on. Elsewhere `CHECK_DEADLOCK FALSE`
is set: requests, calls, crashes, inputs and time are bounded, and a system whose
callers are all answered rightly stops.

### Fairness

`OperationLedger!FairSpec`: a handler or worker that can take a step is scheduled;
a timer marks an undecided row UNCERTAIN in the end; a caller that sees UNCERTAIN
reconciles; a restarted process recovers each row before it serves
(`operation_state.go:74`). Nothing is assumed of the upstream, of cancels, of
compaction or of crashes, so a lost answer is decided by reconciliation alone.
`CallChain!FairSpec`: calls arrive, free slots are taken, handlers that wait for
nobody finish, the deadline timer fires. In `CallDeadlock` the clock cannot reach
a deadline, so `EveryCallReturns` does not lean on timeouts. Fairness is weak
throughout.

### Findings

1. `ValidateRootTombstoneConflict` accepts a retry by UUID and root digest alone,
   which `docs/protocol.md` section 4 and the comment at `operation_state.go:156`
   say is not sufficient. The root digest does not cover owner or generation.
2. The Agent boundary accepts a route whose interior is not a private path
   (product, then ms), against `callcontext.go:193` and `docs/protocol.md:46`.
3. `DefaultGrantClockSkew` is never applied: a zero codec has no skew, although
   `grant.go:127` says it uses safe defaults.
4. `CanonicalizeJSON` is not idempotent: 9223372036854775808 (2^63) is accepted, its
   canonical text is 9223372036854776000, and that text is refused. Any integer
   beyond 2^53 that binary64 holds exactly, and whose shortest digits padded with
   zeros are another number that it does not hold, does the same, in whatever spelling
   the integer rule accepts. `ParseBusinessInput` thus accepts an input that
   `ComputeRequestDigest` then refuses.
5. A key file may change its key. `grant.go:380` and `:411` accept only "a PKCS#8 PEM
   block" and "a PKIX PUBLIC KEY PEM block", and `decodeKeyPEM` refuses whatever follows
   the block it decodes (`:470`); but `pem.Decode` skips a block it cannot decode, so
   that a damaged block of one key with a whole block of another behind it is the other
   key. `KeyStays`, in the run `Library`, therefore excepts the key whose block is
   damaged (`IsSkipped`); without the exception TLC finds: store the key as PEM, damage
   the block, add a block of another pair. `DamagedBlockIsSkipped` proves it for every
   two pairs. The divergence has no violation run of its own.

### Divergences without a run

Met while modelling; each is visible in the definition named.

* `ValidateOperationStateTransition` lets any caller take UNCERTAIN to a terminal
  state (`OperationState`); `docs/protocol.md:125` reserves that for
  `ReconcileOperation`.
* `Canonicalize` refuses invalid UTF-8 in a plain string, but a struct is first
  written by `encoding/json`, which replaces it (`CanonicalWalk!LeafIsWritten`;
  `idempotency.go:126`, `:312`). Two structs that differ in such bytes have one
  digest.
* A nil business input is hashed as `{}` and written as `null`, which
  `ParseBusinessInput` refuses (`Requests!SerializeBusinessInput`;
  `idempotency.go:179`).
* A child may be signed, and a nested Start taken, for the UUID of its own root
  operation (`Grants!MayDerive`); `validation.go:131` says that the two differ.
* A child has the scopes of its own operation (`Grants!ChildClaims`), as the comment at
  `product_delegation.go:151` says and the one at `:20` does not.
* A nil list of attachment digests and an empty one have different digests
  (`idempotency.go:293`), and neither attachments nor version and schema are in the
  request message: both sides must come by the same list.

### What the properties say that no document does

* A child may outlive its parent, by at most one delegation TTL
  (`DelegationHorizon`), and a call with more than one delegation TTL left
  cannot be exchanged yet (`BrokerSignsNearTheDeadline`).
* A Start with more time left than a control TTL is answered with a set nobody
  accepts; an Agent that is behind by d needs, beyond a codec with that skew, grants
  that live d shorter than the TTL, because envelopes are judged without a skew
  (`FreshSetAccepted`).
* A catalog that changes without the schema of an operation refuses the grant although
  the root digest is the same (`EntryCheckSuffices` needs the Agent's own catalog).
* A name that a grant may hold always has a replay key, but not the reverse: DEL and
  the C1 controls pass the replay rule only (`GrantedNameHasKey`).
* The walk refuses, as cyclic, a prefix of a slice and a pointer to its first item if
  they are kept inside that slice (`RefusedOnlyIfNested`).
* A float64 beyond 2^53 inside a struct may be refused, where the plain float is
  accepted, as it comes back as the text of an integer (`StructText`).
* Raw private keys whose halves are of two pairs sign grants that no public key
  accepts; storing them as PEM keeps the seed and repairs them (`TextIsItsClaims`).
* A grant has several texts that a reader accepts, and the final digest binds the
  text: an intermediary that respells a grant breaks the digest, not the grant.
* A signer with a wider size or life limit makes grants that the zero codec of every
  boundary helper refuses (`TextIsItsClaims`).

## Proofs

Every safety and action property and both refinements that the runs on `OperationLedger`,
`CallChain`, `GrantLifecycle` and `ControlLifecycle` check are proved, and so are every
property of `Requests` and of `Library`; only the part *numbers*, which `MCLibrary` puts
beside it, and that a canonical text is its own canonical form are left to TLC. Each theorem holds for every value of the
constants that meets the named assumptions. The runs show that there are such values, as TLC
evaluates the assumptions on each instance; only the `NoneAssumption`s, that the marker of
an empty slot is nothing else, and `WritingAssumption`, which is the definition in
`CanonicalText`, are about more values than it can try. The former hold of the model value
that the runs use; the latter is a definition by recursion on what a value contains, and so
is met by one operator.

### The ledger

`OperationLedgerProofs` is for every finite or infinite set of requests, operations,
owners, digests and grants, every number of crashes, and each of the three tombstone
fences, but for the results that need the full one (`FullFence`, the replay key):

* `TypeCorrect`: `Spec => []TypeOK`;
* `TerminalNeverChanges`: `Spec => TerminalImmutable`;
* `AtMostOnce`: `Spec => []AtMostOnceSideEffect`;
* `NeverToldOlder`: `Spec => DisclosedMonotone`;
* `CompletionIsReal`: `Spec => []CompletedHasItsEffect`;
* `CancelledIsUntouched`: `Spec => []CancelledBeforeRunHasNoEffect`;
* `SameIdentity`: under the full fence, `[]AcceptedMeansSameIdentity`;
* `RenewalIsNoConflict`: under the full fence, `[]RenewalNeverConflicts`;
* `LedgerRefinesContract`: under the full fence, `Spec => ImplementsContract`.

Beyond the types, nothing is inductive by itself. Five invariants stand on each other:

1. `StoreInv` adds what the store's shape is: a tombstone is terminal, a UUID with a
   tombstone has no row left, a row that is not there is empty, only a created
   request has a worker, and a submitted call has a complete key. That is enough for
   `TerminalNeverChanges` and, as a step only creates, advances or keeps what is
   stored of a UUID (`StoreStep`), for `DisclosedInv`: what was told is never ahead
   of what is stored.
2. `ReplayInv` relates callers to the store: a call that is being answered holds a
   snapshot under its own key, the UUID of whoever was answered is still known, at most
   one request per UUID was ever admitted, and each call to the upstream belongs to a
   worker. `Admit` can therefore succeed only for a UUID no worker was ever spawned
   for, which is `AtMostOnceSideEffect`. Under the full fence it also holds
   `AcceptedMeansSameIdentity`.
3. `RenewalInv`: whoever met a conflict met another key, and keys do not change.
4. `EffectInv`: a worker calls only while it runs, and whatever is recorded as
   completed, in a row or by a poll on its way, names a call of that operation that
   took effect.
5. `RunInv` counts revisions: an operation whose worker ran has been RUNNING, which
   took its second revision, so a row cancelled straight from PENDING, at its second,
   had no worker running. A worker that is still queued then can no longer call.

The refinement maps the store, the calls that took effect and the answers to the
register of `OperationOutcome`. Every action is a step of the register or a
stutter; crash and recovery are stutters, compaction is one because the tombstone keeps
state and key, and the fence is what makes an answer from it `Tell` the right identity.
`NoneAssumption` (the marker of an empty slot is no request, key or state) is needed
here, because the register compares with it.

### Contexts and calls

`OperatorProofs` states, for contexts with any identifiers and routes of any length
and content, what `RouteBoundary` checks up to a length and more:

* `ProductAcceptsPrivatePaths`: Product accepts exactly the strict contexts on the routes
  agent and ms-agent, and completes them (`ProductBoundaryIsExact` without a bound);
* `AgentAcceptsOneForeignPath`: the Agent accepts exactly the strict contexts on ms
  and product-ms. Finding 2 is thus one route and no more;
* `AdvancedIsStable`: `AdvanceThenSendIsStable` without a bound.

`RouteLength` is a recursive function over the route; a route that passes the other
checks has at most three nodes, for which its values are written out
(`PartLengthsExist`, `ShortRoutes`).

`CallChainProofs` is for every set of activations and UUIDs, any pools, either
receiver, and calls lost or not:

* `TypeCorrect`: `Spec => []TypeOK`;
* `RoutesAreTraces`: `Spec => []RouteIsTheTrace`;
* `CallsInherit`: `Spec => []InheritsCall`;
* `ProductCallsNobody`: `Spec => []ProductIsTerminal`;
* `NoCircularWait`: `Spec => []NobodyIsStuck`, which no run states: as long as a
  handler waits or a call is queued, some handler runs, some call is on its way or lost,
  or some queued call has a free slot.

The inductive invariant `ChainInv` says of each activation where it comes from
(`Origin`), what it carries while it is sent (`OnItsWay`: its caller's trace) and what
once received (`Received`: that trace and one more node, without a cycle and within the
hop limit, at a node that the caller's may call). As nothing but the receiver writes an accepted context, and the caller's
own context stays while its callee lives, `HopSteps` reduces the eight actions to
four things that can happen to an activation. For `NoCircularWait`, `WaitInv` adds that
whoever waits, waits for a call of its own that is still unanswered; with the order of
nodes, `WaitsForLaterNodes` then goes backwards from Product, where nobody waits for a
call that was accepted. It is the safety half of `EveryCallReturns`.

### Grants

`GrantLifecycleProofs` proves every property that `GrantSafety` checks, for every
set of contexts, owners, scopes, descriptors, digests and requests, any hop and
route limits offered, any bounds on time and accounts, and any TTLs and skew that
satisfy `TTLAssumption` and `SkewAssumption`:

* `TypeCorrect`: `Spec => []TypeOK`;
* `ProductRunsTheExchange`: `Spec => []ProductRunsWhatWasExchanged`;
* `SigningWaitsForTheDeadline`: `Spec => []BrokerSignsNearTheDeadline`;
* `ChildStaysUsable`: `Spec => []ChildIsUsableUntilExpiry`;
* `ChildrenStayWithinTheHorizon`: `Spec => []DelegationHorizon`;
* `KindsStayApart`: `Spec => []KindsNotInterchangeable`;
* `AuthorityNeverDrifts`: `Spec => []RenewalKeepsAuthority`.

The one assumption beyond the code's constants is `NoneAssumption`: the marker of an
empty slot is no call and no exchange. The inductive invariant `GrantInv` keeps, for
the exchange in the broker and the child that left it, what the code checked when it
took the step, however late it is now: `Verified`, the
facts the parent's verification returned with (its claims, its limits, the strict
context three hops in, the binding of the request), none of which mentions the time;
and `Signed`, that the child *is* the record `SignedChild` for some past second at
which the call's deadline was ahead by no more than a delegation TTL. It also says
that a held grant is a root that entered at message-server. Two lemmas about the
operators carry the weight: `ChildOfVerified` (the signing of a verified parent
succeeds exactly under those two conditions, and yields that record) and
`RenewalAuthority` (a renewal accepted by `ValidateAgentRootGrantRenewal` has the
same authority).

### Control grants

`ControlLifecycleProofs` proves every property that `Control` checks, for
every set of operations, wanted lists, lives, drifts, call times and reply lengths,
and any TTLs and skew that satisfy the named assumptions:

* `TypeCorrect`: `Spec => []TypeOK`;
* `SetsAreWhole`: `Spec => []HeldSetIsWhole`;
* `ServedOnRoute`: `Spec => []ServedOnItsOwnRoute`;
* `LifecycleUnderGrant`: `Spec => LifecycleNeedsItsGrant`;
* `FreshSetsAreTaken`: `Spec => []FreshSetAccepted`;
* `ControlIsByPermit`: `Spec => ImplementsPermits`, the refinement.

The inductive invariant `ControlInv` is the types and `HeldSetIsWhole`. `SetIsWhole`
says what a verified reply is made of, whatever it was put together from: its
actions are as many as the wanted ones, all among them and no two alike, hence
just those (`InjectiveCovers`), and each grant is bound to the one call. As `signed`
only grows, a whole set stays whole. `VerifiedServes` says what Product knows when it
serves a control call: a signed grant for that operation, action and account, on the
call's chain and entry, younger than its TTL. The refinement maps each signed grant
to its permit (`PermitsOf`) and the last control call to its action (`ActOf`): `Start`
issues permits, `Control` acts under one, and the Agent's steps are stutters.

`FreshSetsAreTaken` needs one invariant more, `CallsAreStrict` (the context of every
Start the Agent remembers is one that a receiver takes), and one hypothesis: that each
list of wanted actions is not empty and has none twice. A list with one twice cannot
be met, as `ValidateOperationControlGrantEnvelopes` refuses repeated actions, and an
empty one is met by no grants at all, whatever the clocks say.

### Requests

`AdmissionProofs` and `ProductAdmissionProofs` are for every set of operations, UUIDs,
scopes, catalogs, businesses, inputs, attachments and texts, any settings, any
exchangeable parts and any number of requests. `AdmissionProofs` states the properties
of `Requests` from those of the two ways:

| Theorem | States | From |
|---|---|---|
| `TypeCorrect` | `[]PathsTypeOK` | `RootTypes`, `ProductAdmissionProofs!TypeCorrect` |
| `OnlyTheSignedIsTaken` | `[]TakenIsSigned` | `TakenAsSigned`, `DigestsStayWithGrants`, `ProductAdmissionProofs!NestedIsExchanged`, `!DigestsStayWithChildren`, `!BrokerScopeIsKept` |
| `ReplaysAlwaysExact` | `[]ReplayIsExact` | `ReplaysAreExact` |
| `PassedIsAlwaysTaken` | `[]PassedIsTaken` | `EntryDecides`, `ProductAdmissionProofs!BrokerDecides` |

`Nested` in `RequestPaths` is an instance of the module of the proofs, so its theorems
can be cited for the instance, with its constants; `RootApart` and `NestedApart`
say that a behaviour of `PathsSpec` on one way is one of that way's specification.

`AdmissionInv` says what each signed grant is (`SignedFor`), that each sent request is
the request for one signing with the grant of a possibly other one (`AsSent`) and has
passed the entry (`EntryChecked`), and what a row of the ledger was put there by
(`Row`). `NestedInv` has the same two parts for children and nested requests. Both
are about what the *sender* wrote. What arrives may be mixed of two of them, so the
properties follow from what the receiver checked: a request that is taken carries a
root digest that the receiver computed from its own catalog and the canonical
input, and the grant was signed for that digest; as digests are injective (`Preimage`
is a record), the business is the same (`RootDigestHolds`, `WrittenIsRead`, `Arrived`).

The types need more than the other properties do: `TypeInv` of `ProductAdmissionProofs`
says that what is in the broker, sent or taken has its type and was admitted in
canonical form; for `Admission` the types follow from `AdmissionInv` (`SentTypes`,
`ArrivedTypes`, `AnswerIsTyped`).

The assumptions are predicates of the modules that `MCRequests` gives TLC for both
ways. `SettingAssumption`, `CatalogAssumption`, `ScopesAssumption` and
`MaxTimeAssumption` are types: of the settings, of the first catalog, of granted scopes
and of the end of the clock. `DigestAssumption` says that a digest is not empty and `InputAssumption` that the
empty object is an input and what is no object is none; `OwnerAssumption`, `BusinessAssumption`,
`TimeAssumption` and `DeadlineAssumption` that owners and operations have names, that a
query has revision 0 (`validation.go:144` has none for it), that the broker's own
scope is no operation's, that calls are given no negative time and a deadline is not 0; `AbsenceAssumption` that the value
which stands for an empty grant or digest is none.

### Texts, keys, lists, values, strings, metadata and JSON

`LibraryProofs` proves the parts of `Library`, each by itself and for every value of its
constants, and then lifts each result to `LibrarySpec`, of whose behaviours those
in a part are behaviours of that part's specification (`RoutesApart` to
`GrantsApart`):

| Theorem | States | Assumes |
|---|---|---|
| `TypeCorrect` | `[]LibraryTypeOK` | `Assumptions`, `HeapAssumption`, `ItemAssumption`, `SizeAssumption`, `NoneAssumption` |
| `BoundariesAlwaysExact` | `[]BoundariesAreExact` | |
| `AllIsRead` | `[]NothingIsLostInReading` | |
| `WrittenAsOne` | `[]OneTextPerValue` | `Texts!WritingAssumption`: a value is written as `CanonicalText` says; `Texts!SpelledAssumption`: strings are of code points |
| `OnlyNestedIsRefused` | `[]RefusedOnlyIfNested` | `Walk!HeapAssumption`: finitely many locations |
| `ListsCompareAsSets` | `[]ListsAreSets` | `Scopes!ItemAssumption`: characters are numbers |
| `OneSpellingEach` | `[]IdentityHasOneSpelling` | `Metadata!SizeAssumption`: a token has bytes, generations are integers, the largest is read as one |
| `ReadIsAsSigned` | `[]GrantReadAsSigned` | `Assumptions` |
| `TextsAreTheirClaims` | `[]GrantTextIsItsClaims` | `Assumptions` |
| `KeysStay` | `KeyStaysOrIsRefused` | `Assumptions` |
| `DamagedBlockIsSkipped` | finding 5: a damaged block and a whole one of another pair are that other key, private and public | |

`Assumptions` are those of `GrantTransit`: keys are edited into keys
(`EditedAssumption`), the files given to the nodes are key material and the absence of a
key is none (`KeyAssumption`), and the claims to be signed have the fields of claims
(`ClaimsAssumption`). `NoneAssumption` says that the
marker of an empty slot is no text and nothing that was signed.

* *Texts and keys.* `TransitInv`: files are key material, and a text holds what was
  signed (`SignedIsShaped`), by this release or another, under the signature of
  just that, unless a time in its payload was damaged. Respelling, relabelling and damage
  keep it (`CarriedHolds`). A text that is read verifies under the reader's key, hence it
  was signed with the key of that pair, and the kind in the payload, which the
  signature covers, is the one it is read as (`DecodedIsSigned`). For key files,
  `StoredIsRead` says what storing keeps. A key that is read out of blocks is that of the
  one whole block among them (`KeyIsOfTheWholeBlock`), and an edit keeps the pairs of
  the blocks (`EditsKeepPairs`). The strengthening for `KeysStay` is `KeysHeld`, a part of
  `TransitInv`: a file yields the key last read out of it or none, and in the latter
  case still has a block of that key. So an edit after which a file yields a key again
  either brings back the same one, or leaves a damaged block of it (`HeldThroughEdit`).
* *Lists.* Two strictly ordered lists of the same items are equal (`OrderedIsOne`, by the
  least place where they differ), and `Less` is a strict order of texts of any length
  (`LessIsTransitive`); the verdict on two accepted lists is thus one on their sets.
* *The walk.* The levels below a location (`LevelsAre`) turn what lies below it, a
  recursive function of the heap, into sets that can be counted. `WalkInv` has a frame
  for each call that is under way: every call is for the item that the one before it has
  come to, no address is entered twice, and what a call has done is `Safe`: nothing in
  it is within itself and none of it is at an address the walk is inside of. A location
  whose address is met again therefore is within itself, and a path without a
  repetition is no longer than there are locations (`PathIsShort`).
* *Strings.* `ScanInv` says what the scan knows of the text it has read: where it
  stands (outside, inside, after a backslash, after the first half of a pair) is
  what the decoder makes of the same text, although the one counts forward and the other
  looks back at the run of backslashes before each quote (`CountGoesOn`,
  `EscapeGoesOn`, `OpenGoesOn`). What is refused is `IsSpoilt`, by the chunks up to the
  refusal and, for half a pair, by what follows it there: no text that goes on from there
  mends it (`StaysSpoilt`), and a spoilt text is replaced or malformed (`SpoiltIsBroken`).
* *Metadata.* A generation is written by dividing by ten and read by multiplying, each a
  recursive function. A number reads back from its own digits (`NumberReadsBack`, by
  induction from the first digit on), and a text of digits without a zero in front is
  what its number is written as (`DigitsAreWritten`, by induction from the last one); so
  what `ParseInt` and the code's own checks let pass has one spelling
  (`GenerationIsCanonical`). A token needs no such argument, as the code encodes it again
  and compares. `PeerInv`: what is on the wire is what the sender's code formatted until it is
  respelled, and afterwards any values at all; nothing is read but what parses.
* *Texts of JSON.* A character that RFC 8785 puts first has the smaller UTF-16 units
  (`UnitsDiffer`, by its three ranges), so a name that `Precedes` another is before it by
  `CompareUTF16` (`PrecedesIsLess`); of two names one precedes the other, hence sort.Slice
  has one order to leave the names in, whatever order the map was walked in
  (`SortedAre`, `OneOrder`). A value is therefore written once if the values in it are
  (`AtomOnce` to `ObjectOnce`). `TextInv` carries that along the frames of the decoder:
  each holds such values only, as a value is delivered when all in it are complete. No
  induction over values is needed, as the text is what they grow by. It also counts the
  members of each frame, since a repeated name is refused (`NameIsRead`), and keeps a name
  for every object that waits for a value. The count and the types need no assumption.
* *Contexts.* `WireInv` is that a message holds a context, of whatever content; the two
  properties are those of `OperatorProofs`, for the instance's own operators
  (`SameHelpers`).

What is computed over texts and values of any length is written as recursive functions
on the natural numbers. `Recursion` says that these have their values and
`NatSetInduction` is the induction they need: a set of numbers that is not empty has a
least one (`LeastNatural`).

### Model-checked only

* Liveness: `AdmittedIsDecided`, `EveryStartIsAnswered`, `EveryCallReturns`. A proof from
  weak fairness needs `ENABLED`. What a wait would have to be for the last to fail is
  excluded by `NoCircularWait`.
* `CanonicalFormsStay`. Of numbers: `CanonicalNumber` rests on binary arithmetic with powers,
  which the provers know nothing of; that an account generation stays exact as a JSON number
  is its `GenerationIsExact`. Of texts (`CanonicalAgain`): that what was written is read as
  the same value is an induction over trees of values, for which the library has no theorem
  that the installed provers could use.
* The four violations: TLC shows their counterexamples.

## Not modelled, and why

* **Protobuf, gRPC stubs, OpenAPI types**: generated code. The messages appear as the
  records the validators judge. **Scripts**: code generation.
* **Base64, PEM, Ed25519, SHA-256, `encoding/json`, `strconv`**: external, as described
  under Abstractions.
* **Watch streams**: only a message shape is in the repository; the sequence rules are
  in `docs/protocol.md` and no source implements them.
* **The runtime chain fence** that `docs/protocol.md` describes for `ms` re-entry: in no
  source file, so `CallChain` does without it.
* **Conversions of Go values that are no plain maps, slices, pointers, strings and
  numbers** (`json.Marshaler`, struct tags): what `encoding/json` does with them is not
  this library's. They are the leaves of `CanonicalWalk`.
* **Error kinds**: a refusal is a refusal, whichever error wraps it, except where the
  ledger tells conflicts from replays.

## Plan

Done: the ledger, its refinement and proofs; calls and routes, with proofs; grants,
delegation and proofs; control grants, their refinement and proofs; requests on
both ways, with proofs; scope lists, the walk over values, broken strings, metadata, texts
and keys of grants, texts of JSON, with proofs; canonical numbers.

Next: `Admission` over `OperationLedger`, so that a request's checks and the ledger's crash
and compaction meet in one run.

-------------------------- MODULE OperationLedger --------------------------
(***************************************************************************)
(* A durable operation ledger that decides every step with the validators  *)
(* of OperationState.  The ledger service itself lives in the consuming    *)
(* nodes; what is checked is that the library's validators, called at the  *)
(* points their comments name, are enough to keep the replay contract in   *)
(* the face of concurrent Starts, zombie workers, timeouts, cancels,       *)
(* reconciliation, crashes and compaction.                                 *)
(*                                                                         *)
(* A row update is one transaction: it re-reads the row, asks the          *)
(* validator, and writes.  Everything between two transactions interleaves.*)
(***************************************************************************)
EXTENDS OperationState

CONSTANTS
  Request,         \* Start calls; each is sent once
  TombstoneFence,  \* which of the exported fences a retry meets
  None,            \* no result
  MaxCrashes,      \* bound: process crashes
  LegacyTombstone  \* tombstones an earlier release may have left

ASSUME FenceAssumption ==
  TombstoneFence \in {"replay_key", "root_digest", "request_digest"}
ASSUME NoneAssumption ==
  /\ None \notin Request
  /\ None \notin StartReplayKey \cup State
ASSUME CrashAssumption == MaxCrashes \in Nat
ASSUME LegacyAssumption ==
  /\ LegacyTombstone \subseteq OperationTombstone
  /\ \A t \in LegacyTombstone : IsTerminalOperationState(t.state)

VARIABLES
  row,        \* durable: operation rows
  tomb,       \* durable: tombstones of compacted operations
  toRecover,  \* rows the restarted process has not recovered yet
  crashes,    \* crashes so far
  req,        \* Start calls in flight and their replies
  worker,     \* the worker each admission spawned
  call,       \* the upstream call each worker made
  recon,      \* what a reconciliation found upstream
  disclosed   \* the newest revision any caller was told, per operation

vars == <<row, tomb, toRecover, crashes, req, worker, call, recon, disclosed>>

-----------------------------------------------------------------------------
NoKey ==
  [operationID |-> Missing, capabilityID |-> Missing, operation |-> Missing,
   ownerID |-> Missing, accountGeneration |-> 0, rootRequestDigest |-> Missing]

EmptyRow == [key |-> NoKey, requestDigest |-> Missing, state |-> "unspecified",
             result |-> None, revision |-> 0]

NoTombstone == [key |-> NoKey, requestDigest |-> Missing,
                state |-> "unspecified", revision |-> 0]

NoReceipt == [key |-> NoKey, state |-> "unspecified", result |-> None,
              revision |-> 0]

NoPoll == [state |-> "unspecified", result |-> None]

Receipt(k, r) == [key |-> k, state |-> r.state, result |-> r.result,
                  revision |-> r.revision]

(* Start calls that passed request validation carry complete keys. *)
WellFormedKey == {k \in StartReplayKey : ValidKey(k)}

HasRow(op)  == row[op].state # "unspecified"
HasTomb(op) == tomb[op].state # "unspecified"

(* What the store knows of an operation, compacted or not. *)
StoredState(op) == IF HasTomb(op) THEN tomb[op].state ELSE row[op].state
StoredKey(op) == IF HasTomb(op) THEN tomb[op].key ELSE row[op].key
StoredRevision(op) == IF HasTomb(op) THEN tomb[op].revision
                      ELSE row[op].revision

Serving == toRecover = {}

(* Mutant: a retry after compaction is matched by its final digest. *)
MutantTombstoneByDigest(t, k, digest) ==
  ValidateTombstoneConflict(t, k.operationID, digest)

TombstoneAccepts(t, k, digest) ==
  CASE TombstoneFence = "replay_key" ->
         ValidateStartReplayTombstoneConflict(t, k)
    [] TombstoneFence = "root_digest" ->
         ValidateRootTombstoneConflict(t, k.operationID, k.rootRequestDigest)
    [] TombstoneFence = "request_digest" ->
         ValidateTombstoneConflict(t, k.operationID, digest)

FinalDigest(r) == <<req[r].key.rootRequestDigest, req[r].grant>>

OpOf(r) == req[r].key.operationID

Advance(op, state, result) ==
  row' = [row EXCEPT ![op].state = state, ![op].result = result,
                     ![op].revision = @ + 1]

-----------------------------------------------------------------------------
Init ==
  /\ row = [op \in OperationID |-> EmptyRow]
  /\ tomb \in [OperationID -> LegacyTombstone \cup {NoTombstone}]
  /\ \A op \in OperationID :
       tomb[op].state # "unspecified" => tomb[op].key.operationID = op
  /\ toRecover = {}
  /\ crashes = 0
  /\ req = [r \in Request |-> [pc |-> "idle", key |-> NoKey, grant |-> Missing,
                               receipt |-> NoReceipt]]
  /\ worker = [r \in Request |-> "none"]
  /\ call = [r \in Request |-> "none"]
  /\ recon = [op \in OperationID |-> NoPoll]
  /\ disclosed = [op \in OperationID |-> 0]

-----------------------------------------------------------------------------
(* StartOperation *)

(* A caller starts, retries, or replays with a renewed grant. *)
Submit(r) ==
  /\ Serving
  /\ req[r].pc = "idle"
  /\ \E k \in WellFormedKey, g \in Grant :
       req' = [req EXCEPT ![r].pc = "received", ![r].key = k, ![r].grant = g]
  /\ UNCHANGED <<row, tomb, toRecover, crashes, worker, call, recon, disclosed>>

(* The operation was compacted: answer from the tombstone. *)
LookupTombstone(r) ==
  LET op == OpOf(r) IN
  /\ Serving
  /\ req[r].pc = "received"
  /\ HasTomb(op)
  /\ IF TombstoneAccepts(tomb[op], req[r].key, FinalDigest(r))
     THEN /\ req' = [req EXCEPT ![r].pc = "replayed",
                                ![r].receipt =
                                  [key |-> req[r].key,
                                   state |-> tomb[op].state,
                                   result |-> None,
                                   revision |-> tomb[op].revision]]
          /\ disclosed' = [disclosed EXCEPT ![op] = tomb[op].revision]
     ELSE /\ req' = [req EXCEPT ![r].pc = "conflict"]
          /\ UNCHANGED disclosed
  /\ UNCHANGED <<row, tomb, toRecover, crashes, worker, call, recon>>

(* The operation exists: take a snapshot of its receipt. *)
LookupRow(r) ==
  LET op == OpOf(r) IN
  /\ Serving
  /\ req[r].pc = "received"
  /\ HasRow(op)
  /\ IF ValidateStartReplayKey(row[op].key, req[r].key)
     THEN req' = [req EXCEPT ![r].pc = "replaying",
                             ![r].receipt = Receipt(req[r].key, row[op])]
     ELSE req' = [req EXCEPT ![r].pc = "conflict"]
  /\ UNCHANGED <<row, tomb, toRecover, crashes, worker, call, recon, disclosed>>

LookupNothing(r) ==
  /\ Serving
  /\ req[r].pc = "received"
  /\ ~HasRow(OpOf(r)) /\ ~HasTomb(OpOf(r))
  /\ req' = [req EXCEPT ![r].pc = "admitting"]
  /\ UNCHANGED <<row, tomb, toRecover, crashes, worker, call, recon, disclosed>>

(* Create the row, unless another Start did so since the lookup. *)
Admit(r) ==
  LET op == OpOf(r) IN
  /\ Serving
  /\ req[r].pc = "admitting"
  /\ IF ValidateOperationStateTransition(StoredState(op), "pending")
     THEN /\ row' = [row EXCEPT ![op] =
                       [key |-> req[r].key, requestDigest |-> FinalDigest(r),
                        state |-> "pending", result |-> None, revision |-> 1]]
          /\ worker' = [worker EXCEPT ![r] = "queued"]
          /\ req' = [req EXCEPT ![r].pc = "created"]
          /\ disclosed' = [disclosed EXCEPT ![op] = 1]
     ELSE /\ req' = [req EXCEPT ![r].pc = "received"]
          /\ UNCHANGED <<row, worker, disclosed>>
  /\ UNCHANGED <<tomb, toRecover, crashes, call, recon>>

(* Mutant: a refused snapshot is tried again without reading the row. *)
MutantReplayWithoutReread(r) ==
  LET op == OpOf(r) IN
  /\ Serving
  /\ req[r].pc = "replaying"
  /\ HasRow(op)
  /\ ValidateStartReplayReceipt(Receipt(row[op].key, row[op]), req[r].receipt)
  /\ req' = [req EXCEPT ![r].pc = "replayed"]
  /\ disclosed' = [disclosed EXCEPT ![op] = req[r].receipt.revision]
  /\ UNCHANGED <<row, tomb, toRecover, crashes, worker, call, recon>>

(* Reply with the snapshot if it is still the receipt, or read again. *)
Replay(r) ==
  LET op == OpOf(r) IN
  /\ Serving
  /\ req[r].pc = "replaying"
  /\ IF /\ HasRow(op)
        /\ ValidateStartReplayReceipt(Receipt(row[op].key, row[op]),
                                      req[r].receipt)
     THEN /\ req' = [req EXCEPT ![r].pc = "replayed"]
          /\ disclosed' = [disclosed EXCEPT ![op] = req[r].receipt.revision]
     ELSE /\ req' = [req EXCEPT ![r].pc = "received",
                                ![r].receipt = NoReceipt]
          /\ UNCHANGED disclosed
  /\ UNCHANGED <<row, tomb, toRecover, crashes, worker, call, recon>>

-----------------------------------------------------------------------------
(* The worker of an admission, and the upstream it calls *)

(* Mutant: the worker goes on although its row could not be advanced. *)
MutantRunAnyway(r) ==
  LET op == OpOf(r) IN
  /\ Serving
  /\ worker[r] = "queued"
  /\ worker' = [worker EXCEPT ![r] = "running"]
  /\ IF ValidateOperationStateTransition(row[op].state, "running")
     THEN Advance(op, "running", None) ELSE UNCHANGED row
  /\ UNCHANGED <<tomb, toRecover, crashes, req, call, recon, disclosed>>

WorkerRun(r) ==
  LET op == OpOf(r) IN
  /\ Serving
  /\ worker[r] = "queued"
  /\ IF ValidateOperationStateTransition(row[op].state, "running")
     THEN /\ Advance(op, "running", None)
          /\ worker' = [worker EXCEPT ![r] = "running"]
     ELSE /\ worker' = [worker EXCEPT ![r] = "done"]
          /\ UNCHANGED row
  /\ UNCHANGED <<tomb, toRecover, crashes, req, call, recon, disclosed>>

WorkerCall(r) ==
  /\ Serving
  /\ worker[r] = "running"
  /\ worker' = [worker EXCEPT ![r] = "calling"]
  /\ call' = [call EXCEPT ![r] = "sent"]
  /\ UNCHANGED <<row, tomb, toRecover, crashes, req, recon, disclosed>>

(* The upstream performs the side effect, refuses it, or never sees the    *)
(* call; it does so whether or not the ledger's process is up.             *)
Upstream(r) ==
  /\ call[r] = "sent"
  /\ \E o \in {"applied", "refused", "lost"} : call' = [call EXCEPT ![r] = o]
  /\ UNCHANGED <<row, tomb, toRecover, crashes, req, worker, recon, disclosed>>

(* The answer comes back, perhaps long after a timeout, a cancel or a      *)
(* reconciliation has written the row; an accepted duplicate is a no-op.   *)
WorkerFinish(r) ==
  LET op == OpOf(r)
      next == IF call[r] = "applied" THEN "completed" ELSE "failed"
      result == IF call[r] = "applied" THEN r ELSE None
  IN
  /\ Serving
  /\ worker[r] = "calling"
  /\ call[r] \in {"applied", "refused"}
  /\ worker' = [worker EXCEPT ![r] = "done"]
  /\ IF /\ HasRow(op)
        /\ ValidateTerminalUpdate(row[op].state, next,
                                  row[op].requestDigest, FinalDigest(r))
        /\ row[op].state # next
     THEN Advance(op, next, result)
     ELSE UNCHANGED row
  /\ UNCHANGED <<tomb, toRecover, crashes, req, call, recon, disclosed>>

-----------------------------------------------------------------------------
(* Timeouts, cancels, reconciliation, compaction *)

MarkUncertain(op) ==
  /\ Serving
  /\ HasRow(op)
  /\ ValidateOperationStateTransition(row[op].state, "uncertain")
  /\ Advance(op, "uncertain", None)
  /\ UNCHANGED <<tomb, toRecover, crashes, req, worker, call, recon, disclosed>>

Cancel(op) ==
  /\ Serving
  /\ HasRow(op)
  /\ ValidateOperationStateTransition(row[op].state, "cancelled")
  /\ row[op].state # "cancelled"
  /\ Advance(op, "cancelled", None)
  /\ UNCHANGED <<tomb, toRecover, crashes, req, worker, call, recon, disclosed>>

Applied(op) == {r \in Request : call[r] = "applied" /\ OpOf(r) = op}

(* Mutant: a call that was sent counts as one that took effect. *)
MutantPollTrustsSent(op) ==
  /\ Serving
  /\ row[op].state = "uncertain"
  /\ recon[op] = NoPoll
  /\ \E r \in Request :
       /\ call[r] # "none" /\ OpOf(r) = op
       /\ recon' = [recon EXCEPT ![op] = [state |-> "completed", result |-> r]]
  /\ UNCHANGED <<row, tomb, toRecover, crashes, req, worker, call, disclosed>>

ReconcilePoll(op) ==
  /\ Serving
  /\ row[op].state = "uncertain"
  /\ recon[op] = NoPoll
  /\ \/ \E r \in Applied(op) :
          recon' = [recon EXCEPT ![op] = [state |-> "completed", result |-> r]]
     \/ /\ Applied(op) = {}
        /\ \E s \in {"failed", "cancelled"} :
             recon' = [recon EXCEPT ![op] = [state |-> s, result |-> None]]
  /\ UNCHANGED <<row, tomb, toRecover, crashes, req, worker, call, disclosed>>

ReconcileCommit(op) ==
  /\ Serving
  /\ recon[op] # NoPoll
  /\ IF /\ HasRow(op)
        /\ ValidateReconcileTransition(row[op].state, recon[op].state)
     THEN Advance(op, recon[op].state, recon[op].result)
     ELSE UNCHANGED row
  /\ recon' = [recon EXCEPT ![op] = NoPoll]
  /\ UNCHANGED <<tomb, toRecover, crashes, req, worker, call, disclosed>>

(* After its retention period a terminal row shrinks to a tombstone. *)
Compact(op) ==
  /\ Serving
  /\ IsTerminalOperationState(row[op].state)
  /\ tomb' = [tomb EXCEPT ![op] =
                [key |-> row[op].key, requestDigest |-> row[op].requestDigest,
                 state |-> row[op].state, revision |-> row[op].revision]]
  /\ row' = [row EXCEPT ![op] = EmptyRow]
  /\ UNCHANGED <<toRecover, crashes, req, worker, call, recon, disclosed>>

-----------------------------------------------------------------------------
(* Crash and restart.  Handlers, workers and polls die; rows, tombstones   *)
(* and upstream calls do not.  Rows are recovered one by one before the    *)
(* process serves again, and it may crash in between.                      *)

Crash ==
  /\ crashes < MaxCrashes
  /\ crashes' = crashes + 1
  /\ toRecover' = OperationID
  /\ req' = [r \in Request |->
               IF req[r].pc \in {"received", "admitting", "replaying"}
               THEN [req[r] EXCEPT !.pc = "lost"] ELSE req[r]]
  /\ worker' = [r \in Request |->
                  IF worker[r] = "none" THEN "none" ELSE "done"]
  /\ recon' = [op \in OperationID |-> NoPoll]
  /\ UNCHANGED <<row, tomb, call, disclosed>>

Recover(op) ==
  LET state == RecoverOperationStateAfterRestart(row[op].state) IN
  /\ op \in toRecover
  /\ toRecover' = toRecover \ {op}
  /\ IF state # row[op].state THEN Advance(op, state, None) ELSE UNCHANGED row
  /\ UNCHANGED <<tomb, crashes, req, worker, call, recon, disclosed>>

-----------------------------------------------------------------------------
StartStep(r) ==
  LookupTombstone(r) \/ LookupRow(r) \/ LookupNothing(r) \/ Admit(r) \/ Replay(r)

WorkerStep(r) == WorkerRun(r) \/ WorkerCall(r) \/ WorkerFinish(r)

ReconcileStep(op) == ReconcilePoll(op) \/ ReconcileCommit(op)

Next ==
  \/ \E r \in Request : Submit(r) \/ StartStep(r) \/ WorkerStep(r) \/ Upstream(r)
  \/ \E op \in OperationID : \/ MarkUncertain(op) \/ Cancel(op)
                             \/ ReconcileStep(op)
                             \/ Compact(op) \/ Recover(op)
  \/ Crash

Spec == Init /\ [][Next]_vars

(* Handlers and workers are scheduled, timers fire, a caller that sees     *)
(* UNCERTAIN reconciles, and a restart recovers every row.  The upstream,  *)
(* cancels, compaction and crashes are not owed to anybody.                *)
FairSpec ==
  /\ Spec
  /\ \A r \in Request : WF_vars(StartStep(r)) /\ WF_vars(WorkerStep(r))
  /\ \A op \in OperationID : /\ WF_vars(MarkUncertain(op))
                             /\ WF_vars(ReconcileStep(op))
                             /\ WF_vars(Recover(op))

-----------------------------------------------------------------------------
(* Properties *)

ReqState == {"idle", "received", "admitting", "replaying", "created",
             "replayed", "conflict", "lost"}

WorkerState == {"none", "queued", "running", "calling", "done"}

CallState == {"none", "sent", "applied", "refused", "lost"}

RowType == [key: StartReplayKey, requestDigest: RequestDigest \cup {Missing},
            state: State, result: Request \cup {None}, revision: Nat]

ReceiptType == [key: StartReplayKey, state: State, result: Request \cup {None},
                revision: Nat]

ReqType == [pc: ReqState, key: StartReplayKey, grant: Grant \cup {Missing},
            receipt: ReceiptType]

PollType == [state: Terminal \cup {"unspecified"}, result: Request \cup {None}]

TypeOK ==
  /\ row \in [OperationID -> RowType]
  /\ tomb \in [OperationID -> OperationTombstone]
  /\ toRecover \subseteq OperationID
  /\ crashes \in 0..MaxCrashes
  /\ req \in [Request -> ReqType]
  /\ worker \in [Request -> WorkerState]
  /\ call \in [Request -> CallState]
  /\ recon \in [OperationID -> PollType]
  /\ disclosed \in [OperationID -> Nat]

(* Replays, renewed grants, racing admissions, restarts and compaction     *)
(* never make an operation call its upstream a second time                 *)
(* (operation_state.go:22, :74, :117).                                     *)
AtMostOnceSideEffect ==
  \A r1, r2 \in Request :
    call[r1] # "none" /\ call[r2] # "none" /\ OpOf(r1) = OpOf(r2) => r1 = r2

(* A Start that was answered with a receipt, before or after compaction,   *)
(* asked for exactly the operation the UUID was bound to (replay.go:72,    *)
(* operation_state.go:155).                                                *)
AcceptedMeansSameIdentity ==
  \A r \in Request :
    req[r].pc \in {"created", "replayed"} => StoredKey(OpOf(r)) = req[r].key

(* Renewing the grant alone never turns a replay into a conflict           *)
(* (operation_state.go:27, replay.go:33).                                  *)
RenewalNeverConflicts ==
  \A r \in Request : req[r].pc = "conflict" => StoredKey(OpOf(r)) # req[r].key

(* An operation cancelled before its worker ran has called nothing: the    *)
(* cancel took the row straight from PENDING, its first revision.          *)
CancelledBeforeRunHasNoEffect ==
  \A op \in OperationID :
    StoredState(op) = "cancelled" /\ StoredRevision(op) = 2 =>
      \A r \in Request : OpOf(r) = op => call[r] = "none"

(* COMPLETED carries the result of an upstream call that took effect,      *)
(* whether a worker, a late worker or a reconciliation recorded it.        *)
CompletedHasItsEffect ==
  \A op \in OperationID :
    row[op].state = "completed" => row[op].result \in Applied(op)

(* Once terminal, state, result, identity and revision never change, not   *)
(* even as the row becomes a tombstone (operation_state.go:47, :104).      *)
TerminalStays(op) ==
  IsTerminalOperationState(StoredState(op)) =>
    /\ StoredState(op)' = StoredState(op)
    /\ StoredKey(op)' = StoredKey(op)
    /\ StoredRevision(op)' = StoredRevision(op)
    /\ HasRow(op)' => row'[op].result = row[op].result

TerminalImmutable == [][\A op \in OperationID : TerminalStays(op)]_vars

(* No caller is told an older receipt than one already told: a replay that *)
(* read its receipt before the row moved on is refused (replay.go:110).    *)
DisclosedMonotone ==
  [][\A op \in OperationID : disclosed'[op] >= disclosed[op]]_vars

(* The replay contract. *)
Contract == INSTANCE OperationOutcome WITH
  Identity <- StartReplayKey,
  Effect <- Request,
  Outcome <- Terminal,
  identity <- [op \in OperationID |->
                 IF StoredState(op) = "unspecified" THEN None ELSE StoredKey(op)],
  effect <- [op \in OperationID |-> Applied(op)],
  outcome <- [op \in OperationID |->
                IF IsTerminalOperationState(StoredState(op))
                THEN StoredState(op) ELSE None],
  told <- {<<OpOf(r), req[r].key, req[r].receipt.state>> :
             r \in {q \in Request :
                      /\ req[q].pc = "replayed"
                      /\ IsTerminalOperationState(req[q].receipt.state)}}

(* The ledger implements the write-once register callers are promised.     *)
ImplementsContract == Contract!Spec

(* Every admitted operation is eventually decided, whatever is lost or     *)
(* crashes on the way (RUNNING and PENDING rows cannot be left behind by a *)
(* restart, UNCERTAIN ones can be reconciled).                             *)
AdmittedIsDecided ==
  \A op \in OperationID : HasRow(op) ~> IsTerminalOperationState(StoredState(op))

(* Every Start is answered unless the process crashes under it, although a *)
(* replay must read again whenever the row moved between read and reply.   *)
EveryStartIsAnswered ==
  \A r \in Request :
    req[r].pc = "received" ~>
      req[r].pc \in {"created", "replayed", "conflict", "lost"}

=============================================================================

--------------------------- MODULE OperationState ---------------------------
(***************************************************************************)
(* The durable operation state machine and the replay fences of the        *)
(* library (operation_state.go and replay.go), as predicates over records. *)
(* A validator that returns an error is a predicate that is FALSE.         *)
(*                                                                         *)
(* UUIDs, tokens and digests are only ever compared, so each is an element *)
(* of a constant set; Missing stands for an empty or malformed field.      *)
(***************************************************************************)
EXTENDS Naturals

CONSTANTS
  OperationID,           \* operation UUIDs
  CapabilityID,          \* capability identifiers
  Operation,             \* operation names
  OwnerID,               \* authenticated owners
  MaxAccountGeneration,  \* the largest account generation
  RootDigest,            \* grant-independent business digests (32 bytes)
  Grant,                 \* signed root grants presented with a Start
  Missing                \* an absent or malformed field

ASSUME GenerationAssumption == MaxAccountGeneration \in Nat \ {0}
ASSUME MissingAssumption ==
  /\ Missing \notin OperationID \cup CapabilityID \cup Operation \cup OwnerID
  /\ Missing \notin RootDigest
  /\ Missing \notin RootDigest \X Grant

-----------------------------------------------------------------------------
(* States.  "unspecified" is the zero value: no row exists. *)

State == {"unspecified", "pending", "running", "completed", "failed",
          "cancelled", "uncertain"}

Terminal == {"completed", "failed", "cancelled"}

IsTerminalOperationState(state) == state \in Terminal

(* Mutant: an uncertain operation may be admitted again. *)
MutantReadmitUncertain(from, to) ==
  IF from \in Terminal
  THEN from = to
  ELSE \/ from = "unspecified" /\ to = "pending"
       \/ from = "pending"     /\ to \in {"running", "cancelled", "uncertain"}
       \/ from = "running"     /\ to \in Terminal \cup {"uncertain"}
       \/ from = "uncertain"   /\ to \in Terminal \cup {"pending"}

ValidateOperationStateTransition(from, to) ==
  IF IsTerminalOperationState(from)
  THEN from = to
  ELSE \/ from = "unspecified" /\ to = "pending"
       \/ from = "pending"     /\ to \in {"running", "cancelled", "uncertain"}
       \/ from = "running"     /\ to \in Terminal \cup {"uncertain"}
       \/ from = "uncertain"   /\ to \in Terminal

(* The state a row is given when its process restarts. *)
RecoverOperationStateAfterRestart(state) ==
  IF state \in {"pending", "running"} THEN "uncertain" ELSE state

(* Mutant: reconciliation may only find that the operation completed. *)
MutantReconcileCompletesOnly(from, to) == from = "uncertain" /\ to = "completed"

ValidateReconcileTransition(from, to) ==
  /\ from = "uncertain"
  /\ IsTerminalOperationState(to)

-----------------------------------------------------------------------------
(* The final request digest binds the business digest and the grant it     *)
(* travelled with, so a renewed grant changes it.                          *)

RequestDigest == RootDigest \X Grant

(* Mutant: a duplicate is recognised by its digest alone. *)
MutantUpdateByDigest(previousState, nextState, previousDigest, nextDigest) ==
  IF ~IsTerminalOperationState(previousState)
  THEN ValidateOperationStateTransition(previousState, nextState)
  ELSE previousDigest = nextDigest

ValidateTerminalUpdate(previousState, nextState, previousDigest, nextDigest) ==
  IF ~IsTerminalOperationState(previousState)
  THEN ValidateOperationStateTransition(previousState, nextState)
  ELSE /\ previousState = nextState
       /\ previousDigest \in RequestDigest
       /\ nextDigest \in RequestDigest
       /\ previousDigest = nextDigest

-----------------------------------------------------------------------------
(* Replay keys and receipts. *)

StartReplayKey ==
  [operationID: OperationID \cup {Missing},
   capabilityID: CapabilityID \cup {Missing},
   operation: Operation \cup {Missing},
   ownerID: OwnerID \cup {Missing},
   accountGeneration: 0..MaxAccountGeneration,
   rootRequestDigest: RootDigest \cup {Missing}]

(* StartReplayKey.Validate *)
ValidKey(k) ==
  /\ k.operationID \in OperationID
  /\ k.capabilityID \in CapabilityID
  /\ k.operation \in Operation
  /\ k.ownerID \in OwnerID
  /\ k.accountGeneration \in 1..MaxAccountGeneration
  /\ k.rootRequestDigest \in RootDigest

(* Mutant: the principal is not compared. *)
MutantKeyWithoutOwner(existing, requested) ==
  /\ ValidKey(existing)
  /\ ValidKey(requested)
  /\ existing = [requested EXCEPT !.ownerID = existing.ownerID]

ValidateStartReplayKey(existing, requested) ==
  /\ ValidKey(existing)
  /\ ValidKey(requested)
  /\ existing.operationID = requested.operationID
  /\ existing.capabilityID = requested.capabilityID
  /\ existing.operation = requested.operation
  /\ existing.ownerID = requested.ownerID
  /\ existing.accountGeneration = requested.accountGeneration
  /\ existing.rootRequestDigest = requested.rootRequestDigest

(* Mutant: only identity and result are compared. *)
MutantReceiptWithoutState(existing, replay) ==
  /\ ValidateStartReplayKey(existing.key, replay.key)
  /\ existing.result = replay.result

(* A receipt is what a replay returns; control grants are not part of it.  *)
(* The error of a failed operation is a function of its state here.        *)
ValidateStartReplayReceipt(existing, replay) ==
  /\ ValidateStartReplayKey(existing.key, replay.key)
  /\ existing.state = replay.state
  /\ existing.result = replay.result
  /\ existing.revision = replay.revision

-----------------------------------------------------------------------------
(* Tombstones: what is kept of a terminal operation once it is compacted.  *)
(* The three fences the library exports for a retry against one, from the  *)
(* narrowest comparison to the full replay key.                            *)

OperationTombstone ==
  [key: StartReplayKey,
   requestDigest: RequestDigest \cup {Missing},
   state: State,
   revision: Nat]

ValidateTombstoneConflict(tombstone, operationID, requestDigest) ==
  /\ tombstone.key.operationID \in OperationID
  /\ operationID \in OperationID
  /\ IsTerminalOperationState(tombstone.state)
  /\ tombstone.requestDigest \in RequestDigest
  /\ requestDigest \in RequestDigest
  /\ tombstone.key.operationID = operationID
  /\ tombstone.requestDigest = requestDigest

ValidateRootTombstoneConflict(tombstone, operationID, rootRequestDigest) ==
  /\ tombstone.key.operationID \in OperationID
  /\ operationID \in OperationID
  /\ IsTerminalOperationState(tombstone.state)
  /\ tombstone.key.rootRequestDigest \in RootDigest
  /\ rootRequestDigest \in RootDigest
  /\ tombstone.key.operationID = operationID
  /\ tombstone.key.rootRequestDigest = rootRequestDigest

ValidateStartReplayTombstoneConflict(tombstone, requested) ==
  /\ tombstone.key.operationID \in OperationID
  /\ ValidKey(requested)
  /\ IsTerminalOperationState(tombstone.state)
  /\ tombstone.key.rootRequestDigest \in RootDigest
  /\ ValidKey(tombstone.key)
  /\ ValidateStartReplayKey(tombstone.key, requested)
=============================================================================

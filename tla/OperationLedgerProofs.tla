------------------------ MODULE OperationLedgerProofs ------------------------
(* Proofs about OperationLedger, for every value of its constants. *)
EXTENDS OperationLedger, TLAPS

-----------------------------------------------------------------------------
(* Type correctness *)

LEMMA KeyTypes == /\ NoKey \in StartReplayKey
                  /\ WellFormedKey \subseteq StartReplayKey
  BY GenerationAssumption DEF NoKey, StartReplayKey, WellFormedKey

(* The fence compares every field. *)
LEMMA MatchingKeysAreEqual ==
  ASSUME NEW k1 \in StartReplayKey, NEW k2 \in StartReplayKey,
         ValidateStartReplayKey(k1, k2)
  PROVE  k1 = k2
  BY DEF StartReplayKey, ValidateStartReplayKey

LEMMA EmptyTypes == /\ EmptyRow \in RowType
                    /\ NoTombstone \in OperationTombstone
                    /\ NoReceipt \in ReceiptType
                    /\ NoPoll \in PollType
  BY KeyTypes DEF EmptyRow, NoTombstone, NoReceipt, NoPoll, RowType,
     OperationTombstone, ReceiptType, PollType, State

LEMMA InitTypeOK == Init => TypeOK
<1> SUFFICES ASSUME Init PROVE TypeOK
  OBVIOUS
<1>1. req \in [Request -> ReqType]
  BY KeyTypes, EmptyTypes DEF Init, ReqType, ReqState
<1>2. tomb \in [OperationID -> OperationTombstone]
  BY EmptyTypes, LegacyAssumption DEF Init
<1>3. /\ row \in [OperationID -> RowType]
      /\ recon \in [OperationID -> PollType]
      /\ disclosed \in [OperationID -> Nat]
  BY EmptyTypes DEF Init
<1>4. /\ worker \in [Request -> WorkerState]
      /\ call \in [Request -> CallState]
  BY DEF Init, WorkerState, CallState
<1> QED
  BY <1>1, <1>2, <1>3, <1>4, CrashAssumption DEF Init, TypeOK

(* A row update keeps the rows well typed. *)
LEMMA AdvanceType ==
  ASSUME row \in [OperationID -> RowType], NEW op \in OperationID,
         NEW s \in State, NEW res \in Request \cup {None}, Advance(op, s, res)
  PROVE  row' \in [OperationID -> RowType]
<1> DEFINE new == [row[op] EXCEPT !.state = s, !.result = res,
                                  !.revision = row[op].revision + 1]
<1>1. row[op].revision + 1 \in Nat
  BY DEF RowType
<1>2. row[op] \in RowType
  OBVIOUS
<1>3. new \in RowType
  BY <1>1, <1>2 DEF RowType
<1>4. row' = [row EXCEPT ![op] = new]
  BY DEF Advance
<1> HIDE DEF new
<1> QED
  BY <1>3, <1>4

(* Moving a Start call on, with or without a receipt, keeps it well typed. *)
LEMMA ReqType1 ==
  ASSUME req \in [Request -> ReqType], NEW r \in Request, NEW pc \in ReqState
  PROVE  /\ [req EXCEPT ![r].pc = pc] \in [Request -> ReqType]
         /\ \A c \in ReceiptType :
              [req EXCEPT ![r].pc = pc, ![r].receipt = c] \in [Request -> ReqType]
<1>1. [req[r] EXCEPT !.pc = pc] \in ReqType
  BY DEF ReqType
<1>2. ASSUME NEW c \in ReceiptType
      PROVE [req[r] EXCEPT !.pc = pc, !.receipt = c] \in ReqType
  BY DEF ReqType
<1> QED
  BY <1>1, <1>2

(* A call that was submitted carries a complete key and a grant, and only  *)
(* an admitted one has a worker.                                           *)
KeysPresent ==
  \A r \in Request : /\ req[r].pc # "idle" => /\ ValidKey(req[r].key)
                                             /\ req[r].grant \in Grant
                     /\ worker[r] # "none" => req[r].pc = "created"

TypeInv == TypeOK /\ KeysPresent

LEMMA SubmittedOp ==
  ASSUME TypeInv, NEW r \in Request, req[r].pc # "idle" \/ worker[r] # "none"
  PROVE  OpOf(r) \in OperationID
  BY DEF TypeInv, KeysPresent, ValidKey, OpOf

LEMMA InitTypeInv == Init => TypeInv
  BY InitTypeOK DEF Init, TypeInv, KeysPresent

(* The types are preserved: one step per action. *)
LEMMA NextTypeOK == TypeInv /\ [Next]_vars => TypeOK'
<1> SUFFICES ASSUME TypeInv, [Next]_vars PROVE TypeOK'
  OBVIOUS
<1>0. TypeOK
  BY DEF TypeInv
<1>1. ASSUME NEW r \in Request, Submit(r) PROVE TypeOK'
  <2>1. PICK k \in WellFormedKey, g \in Grant :
          req' = [req EXCEPT ![r].pc = "received", ![r].key = k, ![r].grant = g]
    BY <1>1 DEF Submit
  <2>2. [req[r] EXCEPT !.pc = "received", !.key = k, !.grant = g] \in ReqType
    BY <1>0, KeyTypes DEF TypeOK, ReqType, ReqState
  <2>3. req' \in [Request -> ReqType]
    BY <1>0, <2>1, <2>2 DEF TypeOK
  <2> QED
    BY <1>0, <1>1, <2>3 DEF Submit, TypeOK
<1>2. ASSUME NEW r \in Request, LookupTombstone(r) PROVE TypeOK'
  <2> DEFINE op == OpOf(r)
             c == [key |-> req[r].key, state |-> tomb[op].state,
                   result |-> None, revision |-> tomb[op].revision]
  <2>1. op \in OperationID
    BY <1>2, SubmittedOp DEF LookupTombstone
  <2>2. c \in ReceiptType /\ tomb[op].revision \in Nat
    BY <1>0, <2>1 DEF TypeOK, ReqType, ReceiptType, OperationTombstone
  <2>3. req' \in [Request -> ReqType]
    <3>1. /\ [req EXCEPT ![r].pc = "replayed", ![r].receipt = c] \in [Request -> ReqType]
          /\ [req EXCEPT ![r].pc = "conflict"] \in [Request -> ReqType]
      BY <1>0, <2>2, ReqType1 DEF ReqState, TypeOK
    <3> QED
      BY <1>2, <3>1 DEF LookupTombstone
  <2>4. disclosed' \in [OperationID -> Nat]
    BY <1>0, <1>2, <2>2 DEF LookupTombstone, TypeOK
  <2> QED
    BY <1>0, <1>2, <2>3, <2>4 DEF LookupTombstone, TypeOK
<1>3. ASSUME NEW r \in Request, LookupRow(r) PROVE TypeOK'
  <2>1. OpOf(r) \in OperationID
    BY <1>3, SubmittedOp DEF LookupRow
  <2>2. Receipt(req[r].key, row[OpOf(r)]) \in ReceiptType
    BY <1>0, <2>1 DEF TypeOK, ReqType, ReceiptType, RowType, Receipt
  <2> DEFINE c == Receipt(req[r].key, row[OpOf(r)])
  <2>3. req' \in [Request -> ReqType]
    <3>1. /\ [req EXCEPT ![r].pc = "replaying", ![r].receipt = c] \in [Request -> ReqType]
          /\ [req EXCEPT ![r].pc = "conflict"] \in [Request -> ReqType]
      BY <1>0, <2>2, ReqType1 DEF ReqState, TypeOK
    <3> QED
      BY <1>3, <3>1 DEF LookupRow
  <2> QED
    BY <1>0, <1>3, <2>3 DEF LookupRow, TypeOK
<1>4. ASSUME NEW r \in Request, LookupNothing(r) PROVE TypeOK'
  BY <1>0, <1>4, ReqType1 DEF LookupNothing, ReqState, TypeOK
<1>5. ASSUME NEW r \in Request, Admit(r) PROVE TypeOK'
  <2> DEFINE op == OpOf(r)
             new == [key |-> req[r].key, requestDigest |-> FinalDigest(r),
                     state |-> "pending", result |-> None, revision |-> 1]
  <2>1. op \in OperationID
    BY <1>5, SubmittedOp DEF Admit
  <2>2. req' \in [Request -> ReqType]
    <3>1. /\ [req EXCEPT ![r].pc = "created"] \in [Request -> ReqType]
          /\ [req EXCEPT ![r].pc = "received"] \in [Request -> ReqType]
      BY <1>0, ReqType1 DEF ReqState, TypeOK
    <3> QED
      BY <1>5, <3>1 DEF Admit
  <2>3. row' \in [OperationID -> RowType]
    <3>1. FinalDigest(r) \in RequestDigest
      BY <1>5 DEF Admit, TypeInv, KeysPresent, ValidKey, FinalDigest, RequestDigest
    <3>2. new \in RowType
      BY <1>0, <3>1 DEF TypeOK, RowType, ReqType, State
    <3>3. row' = [row EXCEPT ![op] = new] \/ UNCHANGED row
      BY <1>5 DEF Admit
    <3> HIDE DEF new
    <3> QED
      BY <1>0, <2>1, <3>2, <3>3 DEF TypeOK
  <2>4. worker' \in [Request -> WorkerState] /\ disclosed' \in [OperationID -> Nat]
    BY <1>0, <1>5 DEF Admit, TypeOK, WorkerState
  <2> QED
    BY <1>0, <1>5, <2>2, <2>3, <2>4 DEF Admit, TypeOK
<1>6. ASSUME NEW r \in Request, Replay(r) PROVE TypeOK'
  <2>1. OpOf(r) \in OperationID
    BY <1>6, SubmittedOp DEF Replay
  <2>2. req[r].receipt.revision \in Nat
    BY <1>0 DEF TypeOK, ReqType, ReceiptType
  <2>3. req' \in [Request -> ReqType]
    <3>1. /\ [req EXCEPT ![r].pc = "received", ![r].receipt = NoReceipt] \in [Request -> ReqType]
          /\ [req EXCEPT ![r].pc = "replayed"] \in [Request -> ReqType]
      BY <1>0, EmptyTypes, ReqType1 DEF ReqState, TypeOK
    <3> QED
      BY <1>6, <3>1 DEF Replay
  <2>4. disclosed' \in [OperationID -> Nat]
    BY <1>0, <1>6, <2>2 DEF Replay, TypeOK
  <2> QED
    BY <1>0, <1>6, <2>3, <2>4 DEF Replay, TypeOK
<1>7. ASSUME NEW r \in Request, WorkerRun(r) PROVE TypeOK'
  <2>1. OpOf(r) \in OperationID
    BY <1>7, SubmittedOp DEF WorkerRun
  <2>2. row' \in [OperationID -> RowType]
    BY <1>0, <1>7, <2>1, AdvanceType DEF WorkerRun, State, TypeOK
  <2>3. worker' \in [Request -> WorkerState]
    BY <1>0, <1>7 DEF WorkerRun, WorkerState, TypeOK
  <2> QED
    BY <1>0, <1>7, <2>2, <2>3 DEF WorkerRun, TypeOK
<1>8. ASSUME NEW r \in Request, WorkerCall(r) PROVE TypeOK'
  BY <1>0, <1>8 DEF WorkerCall, WorkerState, CallState, TypeOK
<1>9. ASSUME NEW r \in Request, Upstream(r) PROVE TypeOK'
  BY <1>0, <1>9 DEF Upstream, CallState, TypeOK
<1>10. ASSUME NEW r \in Request, WorkerFinish(r) PROVE TypeOK'
  <2> DEFINE next == IF call[r] = "applied" THEN "completed" ELSE "failed"
             result == IF call[r] = "applied" THEN r ELSE None
  <2>1. OpOf(r) \in OperationID
    BY <1>10, SubmittedOp DEF WorkerFinish
  <2>2. next \in State /\ result \in Request \cup {None}
    BY DEF State
  <2>3. Advance(OpOf(r), next, result) \/ UNCHANGED row
    BY <1>10 DEF WorkerFinish
  <2> HIDE DEF next, result
  <2>4. row' \in [OperationID -> RowType]
    BY <1>0, <2>1, <2>2, <2>3, AdvanceType DEF TypeOK
  <2>5. worker' \in [Request -> WorkerState]
    BY <1>0, <1>10 DEF WorkerFinish, WorkerState, TypeOK
  <2> QED
    BY <1>0, <1>10, <2>4, <2>5 DEF WorkerFinish, TypeOK
<1>11. ASSUME NEW op \in OperationID, MarkUncertain(op) PROVE TypeOK'
  BY <1>0, <1>11, AdvanceType DEF MarkUncertain, State, TypeOK
<1>12. ASSUME NEW op \in OperationID, Cancel(op) PROVE TypeOK'
  BY <1>0, <1>12, AdvanceType DEF Cancel, State, TypeOK
<1>13. ASSUME NEW op \in OperationID, ReconcilePoll(op) PROVE TypeOK'
  BY <1>0, <1>13 DEF ReconcilePoll, Applied, Terminal, PollType, TypeOK
<1>14. ASSUME NEW op \in OperationID, ReconcileCommit(op) PROVE TypeOK'
  <2>1. recon[op].state \in State /\ recon[op].result \in Request \cup {None}
    BY <1>0 DEF TypeOK, PollType, Terminal, State
  <2>2. Advance(op, recon[op].state, recon[op].result) \/ UNCHANGED row
    BY <1>14 DEF ReconcileCommit
  <2>3. row' \in [OperationID -> RowType]
    BY <1>0, <2>1, <2>2, AdvanceType DEF TypeOK
  <2> QED
    BY <1>0, <1>14, <2>3, EmptyTypes DEF ReconcileCommit, TypeOK
<1>15. ASSUME NEW op \in OperationID, Compact(op) PROVE TypeOK'
  <2> DEFINE t == [key |-> row[op].key, requestDigest |-> row[op].requestDigest,
                   state |-> row[op].state, revision |-> row[op].revision]
  <2>1. t \in OperationTombstone
    BY <1>0 DEF TypeOK, RowType, OperationTombstone
  <2> HIDE DEF t
  <2>2. tomb' = [tomb EXCEPT ![op] = t]
    BY <1>15 DEF Compact, t
  <2>3. row' \in [OperationID -> RowType]
    BY <1>0, <1>15, EmptyTypes DEF Compact, TypeOK
  <2> QED
    BY <1>0, <1>15, <2>1, <2>2, <2>3 DEF Compact, TypeOK
<1>16. ASSUME NEW op \in OperationID, Recover(op) PROVE TypeOK'
  <2> DEFINE s == RecoverOperationStateAfterRestart(row[op].state)
  <2>1. s \in State
    BY <1>0 DEF TypeOK, RowType, RecoverOperationStateAfterRestart, State
  <2>2. Advance(op, s, None) \/ UNCHANGED row
    BY <1>16 DEF Recover
  <2>3. row' \in [OperationID -> RowType]
    BY <1>0, <2>1, <2>2, AdvanceType DEF TypeOK
  <2> QED
    BY <1>0, <1>16, <2>3 DEF Recover, TypeOK
<1>17. ASSUME Crash PROVE TypeOK'
  <2>1. ASSUME NEW r \in Request
        PROVE  [req[r] EXCEPT !.pc = "lost"] \in ReqType
    BY <1>0 DEF TypeOK, ReqType, ReqState
  <2>2. req' \in [Request -> ReqType]
    BY <1>0, <1>17, <2>1 DEF Crash, TypeOK
  <2>3. crashes' \in 0..MaxCrashes
    BY <1>0, <1>17, CrashAssumption DEF Crash, TypeOK
  <2>4. worker' \in [Request -> WorkerState]
    BY <1>17 DEF Crash, WorkerState
  <2> QED
    BY <1>0, <1>17, <2>2, <2>3, <2>4, EmptyTypes DEF Crash, TypeOK
<1>18. CASE UNCHANGED vars
  BY <1>0, <1>18 DEF vars, TypeOK
<1> QED
  BY <1>1, <1>2, <1>3, <1>4, <1>5, <1>6, <1>7, <1>8, <1>9, <1>10, <1>11,
     <1>12, <1>13, <1>14, <1>15, <1>16, <1>17, <1>18
  DEF Next, StartStep, WorkerStep, ReconcileStep

LEMMA NextKeysPresent == TypeInv /\ [Next]_vars => KeysPresent'
<1> SUFFICES ASSUME TypeInv, [Next]_vars, NEW q \in Request
             PROVE  /\ req'[q].pc # "idle" => /\ ValidKey(req'[q].key)
                                              /\ req'[q].grant \in Grant
                    /\ worker'[q] # "none" => req'[q].pc = "created"
  BY DEF KeysPresent
<1>0. /\ req \in [Request -> ReqType]
      /\ worker \in [Request -> WorkerState]
      /\ req[q].pc # "idle" => ValidKey(req[q].key) /\ req[q].grant \in Grant
      /\ worker[q] # "none" => req[q].pc = "created"
  BY DEF TypeInv, TypeOK, KeysPresent
<1>1. CASE UNCHANGED <<req, worker>>
  BY <1>0, <1>1
<1>2. ASSUME NEW r \in Request, Submit(r)
      PROVE  /\ req'[q].pc # "idle" => ValidKey(req'[q].key) /\ req'[q].grant \in Grant
             /\ worker'[q] # "none" => req'[q].pc = "created"
  <2>1. PICK k \in WellFormedKey, g \in Grant :
          req' = [req EXCEPT ![r].pc = "received", ![r].key = k, ![r].grant = g]
    BY <1>2 DEF Submit
  <2>2. ValidKey(k)
    BY DEF WellFormedKey
  <2>3. q = r => req'[q].key = k /\ req'[q].grant = g /\ worker[q] = "none"
    BY <1>0, <1>2, <2>1 DEF Submit, ReqType
  <2>4. q # r => req'[q] = req[q]
    BY <1>0, <2>1
  <2> QED
    BY <1>0, <1>2, <2>2, <2>3, <2>4 DEF Submit
(* The other steps of a call keep its key and grant. *)
<1>3. ASSUME NEW r \in Request, StartStep(r)
      PROVE  /\ req'[q].pc # "idle" => ValidKey(req'[q].key) /\ req'[q].grant \in Grant
             /\ worker'[q] # "none" => req'[q].pc = "created"
  <2>1. /\ req[r].pc \notin {"idle", "created"}
        /\ req'[q].key = req[q].key /\ req'[q].grant = req[q].grant
        /\ q # r => req'[q] = req[q]
    BY <1>0, <1>3 DEF StartStep, LookupTombstone, LookupRow, LookupNothing,
       Admit, Replay, ReqType
  <2>2. worker'[q] # "none" => worker[q] # "none" \/ (q = r /\ req'[q].pc = "created")
    BY <1>0, <1>3 DEF StartStep, LookupTombstone, LookupRow, LookupNothing,
       Admit, Replay, ReqType
  <2> QED
    BY <1>0, <2>1, <2>2
<1>4. ASSUME NEW r \in Request, WorkerStep(r)
      PROVE  UNCHANGED req /\ (worker'[q] # "none" => worker[q] # "none")
  BY <1>0, <1>4 DEF WorkerStep, WorkerRun, WorkerCall, WorkerFinish
<1>5. ASSUME Crash
      PROVE  /\ req'[q].pc # "idle" => ValidKey(req'[q].key) /\ req'[q].grant \in Grant
             /\ worker'[q] # "none" => req'[q].pc = "created"
  <2>1. /\ req'[q].key = req[q].key /\ req'[q].grant = req[q].grant
        /\ req'[q].pc \in {req[q].pc, "lost"}
        /\ req[q].pc = "created" => req'[q].pc = "created"
        /\ req[q].pc = "idle" => req'[q].pc = "idle"
    BY <1>0, <1>5 DEF Crash, ReqType
  <2>2. worker'[q] # "none" => worker[q] # "none"
    BY <1>5 DEF Crash
  <2> QED
    BY <1>0, <2>1, <2>2
<1>6. ASSUME NEW r \in Request, Upstream(r) PROVE UNCHANGED <<req, worker>>
  BY <1>6 DEF Upstream
<1>7. ASSUME NEW op \in OperationID,
             MarkUncertain(op) \/ Cancel(op) \/ ReconcileStep(op)
               \/ Compact(op) \/ Recover(op)
      PROVE  UNCHANGED <<req, worker>>
  BY <1>7 DEF MarkUncertain, Cancel, ReconcileStep, ReconcilePoll,
     ReconcileCommit, Compact, Recover
<1> QED
  BY <1>0, <1>1, <1>2, <1>3, <1>4, <1>5, <1>6, <1>7 DEF Next, vars

(* The variables always have their types, and a call past submission its   *)
(* complete key: SubmittedOp may be used wherever TypeInv is.              *)
THEOREM TypeCorrect == Spec => []TypeOK
<1>1. Init => TypeInv
  BY InitTypeInv
<1>2. TypeInv /\ [Next]_vars => TypeInv'
  BY NextTypeOK, NextKeysPresent DEF TypeInv
<1>3. TypeInv => TypeOK
  BY DEF TypeInv
<1> QED
  BY <1>1, <1>2, <1>3, PTL DEF Spec

-----------------------------------------------------------------------------
(* What a step does to the store.  Every step either keeps what the store  *)
(* knows of an operation, creates it, or advances it from a non-terminal   *)
(* state: compaction and restarts are among the first and the last.        *)

Pursuable == {"pending", "running", "uncertain"}

(* A tombstone is terminal and has taken the place of its row. *)
StoreShape ==
  \A op \in OperationID :
    /\ tomb[op].state \in Terminal \cup {"unspecified"}
    /\ HasTomb(op) => row[op] = EmptyRow
    /\ ~HasRow(op) => row[op] = EmptyRow

Keeps(op) ==
  /\ StoredState(op)' = StoredState(op)
  /\ StoredKey(op)' = StoredKey(op)
  /\ StoredRevision(op)' = StoredRevision(op)
  /\ HasRow(op)' => row'[op] = row[op]

Creates(op) ==
  /\ StoredState(op) = "unspecified"
  /\ StoredState(op)' = "pending"
  /\ StoredRevision(op)' = 1

Advances(op) ==
  /\ ~HasTomb(op) /\ ~HasTomb(op)'
  /\ row[op].state \in Pursuable
  /\ row'[op].state \in Terminal \cup {"running", "uncertain"}
  /\ row'[op].key = row[op].key
  /\ row'[op].revision = row[op].revision + 1

LEMMA AdvanceStep ==
  ASSUME TypeInv, StoreShape, NEW op \in OperationID, NEW s, NEW res,
         s \in Terminal \cup {"running", "uncertain"},
         Advance(op, s, res), row[op].state \in Pursuable, UNCHANGED tomb
  PROVE  /\ StoreShape'
         /\ Advances(op)
         /\ row'[op].state = s /\ row'[op].result = res
         /\ \A o \in OperationID \ {op} : row'[o] = row[o] /\ Keeps(o)
<1>1. row \in [OperationID -> RowType]
  BY DEF TypeInv, TypeOK
<1>2. ~HasTomb(op) /\ ~HasTomb(op)'
  BY DEF StoreShape, HasTomb, EmptyRow, Pursuable
<1>3. /\ row'[op].state = s /\ row'[op].result = res
      /\ row'[op].key = row[op].key
      /\ row'[op].revision = row[op].revision + 1
  BY <1>1 DEF Advance, RowType
<1>4. \A o \in OperationID \ {op} : row'[o] = row[o] /\ tomb'[o] = tomb[o]
  BY <1>1 DEF Advance
<1>5. \A o \in OperationID \ {op} : Keeps(o)
  BY <1>4 DEF Keeps, StoredState, StoredKey, StoredRevision, HasTomb
<1>6. StoreShape'
  BY <1>2, <1>3, <1>4 DEF StoreShape, HasTomb, HasRow, Terminal
<1> QED
  BY <1>2, <1>3, <1>4, <1>5, <1>6 DEF Advances

(* An admission either sends the call back to read again, or creates the   *)
(* operation under the key of the call.                                    *)
LEMMA AdmitStep ==
  ASSUME TypeInv, StoreShape, NEW r \in Request, Admit(r),
         NEW op \in OperationID, op = OpOf(r)
  PROVE  /\ req[r].pc = "admitting" /\ UNCHANGED tomb
         /\ \/ /\ UNCHANGED <<row, worker, disclosed>>
               /\ req' = [req EXCEPT ![r].pc = "received"]
            \/ /\ ~HasTomb(op) /\ row[op].state = "unspecified"
               /\ row'[op].key = req[r].key
               /\ row'[op].state = "pending"
               /\ row'[op].result = None
               /\ row'[op].revision = 1
               /\ \A o \in OperationID \ {op} : row'[o] = row[o]
               /\ req' = [req EXCEPT ![r].pc = "created"]
               /\ worker' = [worker EXCEPT ![r] = "queued"]
               /\ disclosed' = [disclosed EXCEPT ![op] = 1]
<1>0. row \in [OperationID -> RowType]
  BY DEF TypeInv, TypeOK
<1>1. req[r].pc = "admitting" /\ UNCHANGED tomb
  BY DEF Admit
<1>2. CASE ValidateOperationStateTransition(StoredState(op), "pending")
  <2>1. StoredState(op) = "unspecified"
    BY <1>2 DEF ValidateOperationStateTransition, IsTerminalOperationState, Terminal
  <2>2. ~HasTomb(op) /\ row[op].state = "unspecified"
    BY <2>1 DEF StoredState, HasTomb
  <2>3. /\ row' = [row EXCEPT ![op] =
                     [key |-> req[r].key, requestDigest |-> FinalDigest(r),
                      state |-> "pending", result |-> None, revision |-> 1]]
        /\ req' = [req EXCEPT ![r].pc = "created"]
        /\ worker' = [worker EXCEPT ![r] = "queued"]
        /\ disclosed' = [disclosed EXCEPT ![op] = 1]
    BY <1>2 DEF Admit
  <2> QED
    BY <1>0, <1>1, <2>2, <2>3
<1>3. CASE ~ValidateOperationStateTransition(StoredState(op), "pending")
  BY <1>1, <1>3 DEF Admit
<1> QED
  BY <1>2, <1>3

LEMMA StoreStep ==
  TypeInv /\ StoreShape /\ [Next]_vars =>
    /\ StoreShape'
    /\ \A op \in OperationID : Keeps(op) \/ Creates(op) \/ Advances(op)
<1> DEFINE Goal == /\ StoreShape'
                   /\ \A op \in OperationID : Keeps(op) \/ Creates(op) \/ Advances(op)
<1> SUFFICES ASSUME TypeInv, StoreShape, [Next]_vars PROVE Goal
  OBVIOUS
<1>0. row \in [OperationID -> RowType] /\ tomb \in [OperationID -> OperationTombstone]
  BY DEF TypeInv, TypeOK
<1>1. CASE UNCHANGED <<row, tomb>>
  BY <1>1 DEF StoreShape, Keeps, StoredState, StoredKey, StoredRevision,
     HasTomb, HasRow
<1>2. ASSUME NEW r \in Request, Admit(r) PROVE Goal
  <2>0. PICK op \in OperationID : op = OpOf(r)
    BY <1>2, SubmittedOp DEF Admit
  <2>1. CASE UNCHANGED row
    BY <1>1, <1>2, <2>1 DEF Admit
  <2>2. CASE ~UNCHANGED row
    <3>1. /\ ~HasTomb(op) /\ row[op].state = "unspecified" /\ UNCHANGED tomb
          /\ row'[op].state = "pending"
          /\ row'[op].revision = 1
          /\ \A o \in OperationID \ {op} : row'[o] = row[o]
      BY <1>2, <2>0, <2>2, AdmitStep
    <3>2. Creates(op)
      BY <3>1 DEF Creates, StoredState, StoredRevision, HasTomb
    <3>3. \A o \in OperationID \ {op} : Keeps(o)
      BY <3>1 DEF Keeps, StoredState, StoredKey, StoredRevision, HasTomb
    <3>4. StoreShape'
      BY <3>1 DEF StoreShape, HasTomb, HasRow
    <3> QED
      BY <3>2, <3>3, <3>4
  <2> QED
    BY <2>1, <2>2
<1>3. ASSUME NEW r \in Request, WorkerRun(r) PROVE Goal
  <2>1. OpOf(r) \in OperationID
    BY <1>3, SubmittedOp DEF WorkerRun
  <2>2. CASE UNCHANGED row
    BY <1>1, <1>3, <2>2 DEF WorkerRun
  <2>3. CASE ~UNCHANGED row
    <3>1. Advance(OpOf(r), "running", None) /\ row[OpOf(r)].state = "pending"
          /\ UNCHANGED tomb
      BY <1>3, <2>3 DEF WorkerRun, ValidateOperationStateTransition,
         IsTerminalOperationState, Terminal
    <3> QED
      BY <2>1, <3>1, AdvanceStep DEF Pursuable
  <2> QED
    BY <2>2, <2>3
<1>4. ASSUME NEW r \in Request, WorkerFinish(r) PROVE Goal
  <2> DEFINE next == IF call[r] = "applied" THEN "completed" ELSE "failed"
             result == IF call[r] = "applied" THEN r ELSE None
  <2>1. OpOf(r) \in OperationID
    BY <1>4, SubmittedOp DEF WorkerFinish
  <2>2. CASE UNCHANGED row
    BY <1>1, <1>4, <2>2 DEF WorkerFinish
  <2>3. CASE ~UNCHANGED row
    <3>1. /\ Advance(OpOf(r), next, result)
          /\ ValidateTerminalUpdate(row[OpOf(r)].state, next,
                                    row[OpOf(r)].requestDigest, FinalDigest(r))
          /\ row[OpOf(r)].state # next
          /\ UNCHANGED tomb
      BY <1>4, <2>3 DEF WorkerFinish
    <3>2. row[OpOf(r)].state \in Pursuable /\ next \in Terminal
      BY <3>1 DEF ValidateTerminalUpdate, ValidateOperationStateTransition,
         IsTerminalOperationState, Terminal, Pursuable
    <3> HIDE DEF next, result
    <3> QED
      BY <2>1, <3>1, <3>2, AdvanceStep
  <2> QED
    BY <2>2, <2>3
<1>5. ASSUME NEW op \in OperationID, MarkUncertain(op) PROVE Goal
  <2>1. Advance(op, "uncertain", None) /\ row[op].state \in Pursuable /\ UNCHANGED tomb
    BY <1>5 DEF MarkUncertain, ValidateOperationStateTransition, HasRow,
       IsTerminalOperationState, Terminal, Pursuable
  <2> QED
    BY <2>1, AdvanceStep
<1>6. ASSUME NEW op \in OperationID, Cancel(op) PROVE Goal
  <2>1. Advance(op, "cancelled", None) /\ row[op].state \in Pursuable /\ UNCHANGED tomb
    BY <1>6 DEF Cancel, ValidateOperationStateTransition, HasRow,
       IsTerminalOperationState, Terminal, Pursuable
  <2> QED
    BY <2>1, AdvanceStep DEF Terminal
<1>7. ASSUME NEW op \in OperationID, ReconcileCommit(op) PROVE Goal
  <2>1. CASE UNCHANGED row
    BY <1>1, <1>7, <2>1 DEF ReconcileCommit
  <2>2. CASE ~UNCHANGED row
    <3>1. /\ Advance(op, recon[op].state, recon[op].result)
          /\ recon[op].state \in Terminal
          /\ row[op].state = "uncertain" /\ UNCHANGED tomb
      BY <1>7, <2>2 DEF ReconcileCommit, ValidateReconcileTransition,
         IsTerminalOperationState
    <3> QED
      BY <3>1, AdvanceStep DEF Pursuable
  <2> QED
    BY <2>1, <2>2
<1>8. ASSUME NEW op \in OperationID, Recover(op) PROVE Goal
  <2>1. CASE UNCHANGED row
    BY <1>1, <1>8, <2>1 DEF Recover
  <2>2. CASE ~UNCHANGED row
    <3>1. /\ Advance(op, "uncertain", None)
          /\ row[op].state \in Pursuable /\ UNCHANGED tomb
      BY <1>8, <2>2 DEF Recover, RecoverOperationStateAfterRestart, Pursuable
    <3> QED
      BY <3>1, AdvanceStep
  <2> QED
    BY <2>1, <2>2
<1>9. ASSUME NEW op \in OperationID, Compact(op) PROVE Goal
  <2>1. /\ row[op].state \in Terminal /\ ~HasTomb(op)
        /\ row'[op] = EmptyRow
        /\ tomb'[op].state = row[op].state /\ tomb'[op].key = row[op].key
        /\ tomb'[op].revision = row[op].revision
        /\ \A o \in OperationID \ {op} : row'[o] = row[o] /\ tomb'[o] = tomb[o]
    BY <1>0, <1>9 DEF Compact, StoreShape, EmptyRow, IsTerminalOperationState, Terminal
  <2>2. \A o \in OperationID : Keeps(o)
    BY <2>1 DEF Keeps, StoredState, StoredKey, StoredRevision, HasTomb, HasRow,
       EmptyRow, Terminal
  <2>3. StoreShape'
    BY <2>1 DEF StoreShape, HasTomb, HasRow
  <2> QED
    BY <2>2, <2>3
<1>10. ASSUME NEW r \in Request,
              Submit(r) \/ LookupTombstone(r) \/ LookupRow(r) \/ LookupNothing(r)
                \/ Replay(r) \/ WorkerCall(r) \/ Upstream(r)
       PROVE  UNCHANGED <<row, tomb>>
  BY <1>10 DEF Submit, LookupTombstone, LookupRow, LookupNothing, Replay,
     WorkerCall, Upstream
<1>11. ASSUME NEW op \in OperationID, ReconcilePoll(op) PROVE UNCHANGED <<row, tomb>>
  BY <1>11 DEF ReconcilePoll
<1>12. ASSUME Crash PROVE UNCHANGED <<row, tomb>>
  BY <1>12 DEF Crash
<1> HIDE DEF Goal
<1> QED
  BY <1>1, <1>2, <1>3, <1>4, <1>5, <1>6, <1>7, <1>8, <1>9, <1>10, <1>11, <1>12
  DEF Next, StartStep, WorkerStep, ReconcileStep, vars

(* The store's shape is invariant. *)
StoreInv == TypeInv /\ StoreShape

LEMMA StoreInvariant == Spec => []StoreInv
<1>1. Init => StoreInv
  BY InitTypeInv, LegacyAssumption
  DEF Init, StoreInv, StoreShape, HasTomb, HasRow, EmptyRow, NoTombstone,
      IsTerminalOperationState
<1>2. StoreInv /\ [Next]_vars => StoreInv'
  BY StoreStep, NextTypeOK, NextKeysPresent DEF StoreInv, TypeInv
<1> QED
  BY <1>1, <1>2, PTL DEF Spec

(* A terminal operation keeps its state, identity, revision and result     *)
(* under every step, compaction included.                                  *)
THEOREM TerminalNeverChanges == Spec => TerminalImmutable
<1>1. ASSUME StoreInv, [Next]_vars, NEW op \in OperationID
      PROVE  TerminalStays(op)
  <2>1. Keeps(op) \/ Creates(op) \/ Advances(op)
    BY <1>1, StoreStep DEF StoreInv
  <2>2. CASE Keeps(op)
    BY <2>2 DEF Keeps, TerminalStays
  <2>3. CASE Creates(op)
    BY <2>3 DEF Creates, TerminalStays, IsTerminalOperationState, Terminal
  <2>4. CASE Advances(op)
    BY <2>4 DEF Advances, TerminalStays, IsTerminalOperationState, Terminal,
       StoredState, Pursuable
  <2> QED
    BY <2>1, <2>2, <2>3, <2>4
<1>2. StoreInv /\ [Next]_vars => [\A op \in OperationID : TerminalStays(op)]_vars
  BY <1>1
<1> QED
  BY <1>2, StoreInvariant, PTL DEF Spec, TerminalImmutable

-----------------------------------------------------------------------------
(* What a step does to a Start call. *)

Answered == {"created", "replayed"}

(* Only the full replay key fence compares identities after compaction.    *)
FullFence == TombstoneFence = "replay_key"

(* A snapshot is the receipt of the call's own key. *)
OwnSnapshots ==
  \A r \in Request : req[r].pc = "replaying" => req[r].receipt.key = req[r].key

(* A call is newly answered only by creating the operation, or by replaying*)
(* one the store knows under that very key.                                *)
CallStep(q, op) ==
  /\ req[q].pc # "idle" => req'[q].key = req[q].key
  /\ req[q].pc \in Answered => req'[q].pc = req[q].pc
  /\ req'[q].pc = "created" /\ req[q].pc # "created" =>
       /\ req[q].pc = "admitting"
       /\ StoredState(op) = "unspecified"
       /\ StoredState(op)' = "pending"
       /\ StoredKey(op)' = req[q].key
       /\ \A p \in Request \ {q} : req'[p] = req[p]
  /\ req'[q].pc = "replayed" /\ req[q].pc # "replayed" =>
       /\ req[q].pc # "idle"
       /\ StoredState(op) # "unspecified"
       /\ UNCHANGED <<row, tomb>>
       /\ FullFence => ValidateStartReplayKey(StoredKey(op), req[q].key)
  /\ req'[q].pc = "replaying" => req'[q].receipt.key = req'[q].key

LEMMA CallSteps ==
  ASSUME StoreInv, OwnSnapshots, [Next]_vars, NEW q \in Request, NEW op,
         OpOf(q) = op
  PROVE  CallStep(q, op)
<1>0. /\ req \in [Request -> ReqType]
      /\ req[q].pc = "replaying" => req[q].receipt.key = req[q].key
  BY DEF StoreInv, TypeInv, TypeOK, OwnSnapshots
<1>1. CASE UNCHANGED req
  BY <1>0, <1>1 DEF CallStep, Answered
<1>2. ASSUME NEW r \in Request, Submit(r) PROVE CallStep(q, op)
  <2>1. PICK k \in WellFormedKey, g \in Grant :
          req' = [req EXCEPT ![r].pc = "received", ![r].key = k, ![r].grant = g]
    BY <1>2 DEF Submit
  <2>2. q # r => req'[q] = req[q]
    BY <1>0, <2>1
  <2>3. q = r => req[q].pc = "idle" /\ req'[q].pc = "received"
    BY <1>0, <1>2, <2>1 DEF Submit, ReqType
  <2> QED
    BY <1>0, <2>2, <2>3 DEF CallStep, Answered
<1>3. ASSUME NEW r \in Request, LookupTombstone(r) PROVE CallStep(q, op)
  <2>1. q # r => req'[q] = req[q]
    BY <1>0, <1>3 DEF LookupTombstone
  <2>2. ASSUME q = r
        PROVE  /\ req[q].pc = "received" /\ req'[q].pc \in {"replayed", "conflict"}
               /\ req'[q].key = req[q].key
               /\ HasTomb(op) /\ UNCHANGED <<row, tomb>>
               /\ req'[q].pc = "replayed" =>
                    TombstoneAccepts(tomb[op], req[q].key, FinalDigest(r))
    BY <1>0, <1>3, <2>2 DEF LookupTombstone, ReqType
  <2>3. ASSUME q = r, req'[q].pc = "replayed"
        PROVE  /\ StoredState(op) # "unspecified"
               /\ FullFence => ValidateStartReplayKey(StoredKey(op), req[q].key)
    BY <2>2, <2>3 DEF TombstoneAccepts, ValidateStartReplayTombstoneConflict,
       FullFence, StoredKey, StoredState, HasTomb
  <2> QED
    BY <1>0, <2>1, <2>2, <2>3 DEF CallStep, Answered
<1>4. ASSUME NEW r \in Request, LookupRow(r) PROVE CallStep(q, op)
  <2>1. q # r => req'[q] = req[q]
    BY <1>0, <1>4 DEF LookupRow
  <2>2. q = r => /\ req[q].pc = "received" /\ req'[q].pc \in {"replaying", "conflict"}
                 /\ req'[q].key = req[q].key
                 /\ req'[q].pc = "replaying" => req'[q].receipt.key = req'[q].key
    BY <1>0, <1>4 DEF LookupRow, Receipt, ReqType
  <2> QED
    BY <1>0, <2>1, <2>2 DEF CallStep, Answered
<1>5. ASSUME NEW r \in Request, LookupNothing(r) PROVE CallStep(q, op)
  <2>1. /\ q # r => req'[q] = req[q]
        /\ q = r => /\ req[q].pc = "received" /\ req'[q].pc = "admitting"
                    /\ req'[q].key = req[q].key
    BY <1>0, <1>5 DEF LookupNothing, ReqType
  <2> QED
    BY <1>0, <2>1 DEF CallStep, Answered
<1>6. ASSUME NEW r \in Request, Admit(r) PROVE CallStep(q, op)
  <2>1. \A p \in Request \ {r} : req'[p] = req[p]
    BY <1>0, <1>6 DEF Admit
  <2>2. CASE q # r
    BY <1>0, <2>1, <2>2 DEF CallStep, Answered
  <2>3. CASE q = r
    <3>1. op \in OperationID
      BY <1>6, <2>3, SubmittedOp DEF Admit, StoreInv
    <3>2. req[q].pc = "admitting" /\ req'[q].key = req[q].key
      BY <1>0, <1>6, <2>3 DEF Admit, ReqType
    <3>3. CASE req' = [req EXCEPT ![r].pc = "received"]
      BY <1>0, <2>3, <3>2, <3>3 DEF CallStep, Answered, ReqType
    <3>4. CASE req' # [req EXCEPT ![r].pc = "received"]
      <4>1. /\ ~HasTomb(op) /\ row[op].state = "unspecified"
            /\ row'[op].key = req[r].key /\ row'[op].state = "pending"
            /\ req' = [req EXCEPT ![r].pc = "created"]
            /\ UNCHANGED tomb
        BY <1>6, <2>3, <3>1, <3>4, AdmitStep DEF StoreInv
      <4>2. req'[q].pc = "created"
        BY <1>0, <2>3, <4>1 DEF ReqType
      <4> QED
        BY <2>1, <2>3, <3>2, <4>1, <4>2
        DEF CallStep, Answered, StoredState, StoredKey, HasTomb
    <3> QED
      BY <3>3, <3>4
  <2> QED
    BY <2>2, <2>3
<1>7. ASSUME NEW r \in Request, Replay(r) PROVE CallStep(q, op)
  <2>1. q # r => req'[q] = req[q]
    BY <1>0, <1>7 DEF Replay
  <2>2. ASSUME q = r
        PROVE  /\ req[q].pc = "replaying" /\ req'[q].pc \in {"replayed", "received"}
               /\ req'[q].key = req[q].key
               /\ UNCHANGED <<row, tomb>>
               /\ req'[q].pc = "replayed" =>
                    /\ HasRow(op)
                    /\ ValidateStartReplayReceipt(Receipt(row[op].key, row[op]),
                                                  req[q].receipt)
    BY <1>0, <1>7, <2>2 DEF Replay, ReqType
  <2>3. ASSUME q = r, req'[q].pc = "replayed"
        PROVE  /\ StoredState(op) # "unspecified"
               /\ ValidateStartReplayKey(StoredKey(op), req[q].key)
    <3>1. op \in OperationID
      BY <1>7, <2>3, SubmittedOp DEF Replay, StoreInv
    <3>2. ~HasTomb(op)
      BY <2>2, <2>3, <3>1 DEF StoreInv, StoreShape, HasRow, EmptyRow
    <3> QED
      BY <1>0, <2>2, <2>3, <3>2
      DEF ValidateStartReplayReceipt, Receipt, StoredState, StoredKey, HasRow
  <2> QED
    BY <1>0, <2>1, <2>2, <2>3 DEF CallStep, Answered
<1>8. ASSUME Crash PROVE CallStep(q, op)
  <2>1. /\ req'[q].key = req[q].key
        /\ req'[q].pc \in {req[q].pc, "lost"}
        /\ req[q].pc \in Answered => req'[q].pc = req[q].pc
        /\ req'[q].pc # "replaying"
    BY <1>0, <1>8 DEF Crash, ReqType, Answered
  <2> QED
    BY <2>1 DEF CallStep
<1>9. ASSUME NEW r \in Request, WorkerStep(r) \/ Upstream(r) PROVE UNCHANGED req
  BY <1>9 DEF WorkerStep, WorkerRun, WorkerCall, WorkerFinish, Upstream
<1>10. ASSUME NEW o \in OperationID,
              MarkUncertain(o) \/ Cancel(o) \/ ReconcileStep(o)
                \/ Compact(o) \/ Recover(o)
       PROVE  UNCHANGED req
  BY <1>10 DEF MarkUncertain, Cancel, ReconcileStep, ReconcilePoll,
     ReconcileCommit, Compact, Recover
<1> QED
  BY <1>1, <1>2, <1>3, <1>4, <1>5, <1>6, <1>7, <1>8, <1>9, <1>10
  DEF Next, StartStep, vars

-----------------------------------------------------------------------------
(* The replay invariant.  An answered call found or created the operation, *)
(* an operation has one creator, and only its creator's worker calls the   *)
(* upstream.                                                               *)

AnsweredIsStored ==
  \A r \in Request : req[r].pc \in Answered => StoredState(OpOf(r)) # "unspecified"

OneCreator ==
  \A r1, r2 \in Request :
    req[r1].pc = "created" /\ req[r2].pc = "created" /\ OpOf(r1) = OpOf(r2)
      => r1 = r2

CallsHaveWorkers == \A r \in Request : call[r] # "none" => worker[r] # "none"

ReplayInv ==
  /\ StoreInv
  /\ OwnSnapshots
  /\ AnsweredIsStored
  /\ OneCreator
  /\ CallsHaveWorkers
  /\ FullFence => AcceptedMeansSameIdentity

LEMMA InitReplayInv == Init => ReplayInv
<1> SUFFICES ASSUME Init PROVE ReplayInv
  OBVIOUS
<1>1. StoreInv
  BY InitTypeInv, LegacyAssumption
  DEF Init, StoreInv, StoreShape, HasTomb, HasRow, EmptyRow, NoTombstone,
      IsTerminalOperationState
<1>2. \A r \in Request : req[r].pc = "idle" /\ call[r] = "none"
  BY DEF Init
<1> QED
  BY <1>1, <1>2 DEF ReplayInv, OwnSnapshots, AnsweredIsStored, Answered,
     OneCreator, CallsHaveWorkers, AcceptedMeansSameIdentity

LEMMA NextReplayInv == ReplayInv /\ [Next]_vars => ReplayInv'
<1> SUFFICES ASSUME ReplayInv, [Next]_vars PROVE ReplayInv'
  OBVIOUS
<1>1. StoreInv'
  BY StoreStep, NextTypeOK, NextKeysPresent DEF ReplayInv, StoreInv, TypeInv
<1>2. ASSUME NEW q \in Request, NEW op, op = OpOf(q) PROVE CallStep(q, op)
  BY <1>2, CallSteps DEF ReplayInv
<1>3. \A op \in OperationID : Keeps(op) \/ Creates(op) \/ Advances(op)
  BY StoreStep DEF ReplayInv, StoreInv
<1>4. OwnSnapshots'
  BY <1>2 DEF CallStep, OwnSnapshots
(* What is known of an answered call and the operation it named. *)
<1>5. ASSUME NEW q \in Request, NEW op, op = OpOf(q), req[q].pc # "idle"
      PROVE  OpOf(q)' = op /\ op \in OperationID /\ req'[q].key = req[q].key
  BY <1>2, <1>5, SubmittedOp DEF CallStep, OpOf, ReplayInv, StoreInv
<1>6. ASSUME NEW q \in Request, req'[q].pc \in Answered PROVE req[q].pc # "idle"
  BY <1>2, <1>6 DEF CallStep, Answered
<1>7. AnsweredIsStored'
  <2> SUFFICES ASSUME NEW q \in Request, req'[q].pc \in Answered
               PROVE  StoredState(OpOf(q))' # "unspecified"
    BY DEF AnsweredIsStored
  <2>1. PICK op \in OperationID : op = OpOf(q) /\ OpOf(q)' = op
    BY <1>5, <1>6
  <2>2. \/ StoredState(op) # "unspecified"
        \/ StoredState(op)' # "unspecified"
    BY <1>2, <2>1 DEF CallStep, Answered, ReplayInv, AnsweredIsStored
  <2>3. StoredState(op)' # "unspecified"
    BY <1>3, <2>2 DEF Keeps, Creates, Advances, StoredState, Pursuable, Terminal, HasTomb
  <2> QED
    BY <2>1, <2>3 DEF StoredState, HasTomb
<1>8. OneCreator'
  <2> SUFFICES ASSUME NEW r1 \in Request, NEW r2 \in Request,
                      req'[r1].pc = "created", req'[r2].pc = "created",
                      OpOf(r1)' = OpOf(r2)', r1 # r2
               PROVE  FALSE
    BY DEF OneCreator
  <2>1. OpOf(r1) = OpOf(r2)
    BY <1>5, <1>6 DEF Answered
  <2>2. \/ req[r1].pc = "created" /\ req[r2].pc = "created"
        \/ req[r1].pc # "created" /\ req[r2].pc = "created"
        \/ req[r1].pc = "created" /\ req[r2].pc # "created"
    BY <1>2 DEF CallStep
  <2>3. ASSUME NEW p \in Request, NEW q \in Request, req'[p].pc = "created",
               req[p].pc # "created", req[q].pc = "created", OpOf(p) = OpOf(q)
        PROVE  FALSE
    BY <1>2, <2>3 DEF CallStep, ReplayInv, AnsweredIsStored, Answered
  <2> QED
    BY <2>1, <2>2, <2>3 DEF ReplayInv, OneCreator
<1>9. CallsHaveWorkers'
  <2>1. ASSUME NEW q \in Request
        PROVE  /\ worker[q] # "none" => worker'[q] # "none"
               /\ call'[q] # "none" /\ call[q] = "none" => worker'[q] # "none"
    <3>0. worker \in [Request -> WorkerState] /\ call \in [Request -> CallState]
      BY DEF ReplayInv, StoreInv, TypeInv, TypeOK
    <3>1. CASE UNCHANGED <<worker, call>>
      BY <3>1
    <3>2. ASSUME NEW r \in Request, StartStep(r)
          PROVE  /\ UNCHANGED call
                 /\ worker[q] # "none" => worker'[q] # "none"
      BY <3>0, <3>2 DEF StartStep, LookupTombstone, LookupRow, LookupNothing,
         Admit, Replay
    <3>3. ASSUME NEW r \in Request, WorkerStep(r)
          PROVE  /\ worker[q] # "none" => worker'[q] # "none"
                 /\ call'[q] # "none" /\ call[q] = "none" => worker'[q] # "none"
      BY <3>0, <3>3 DEF WorkerStep, WorkerRun, WorkerCall, WorkerFinish
    <3>4. ASSUME NEW r \in Request, Upstream(r)
          PROVE  UNCHANGED worker /\ (call[q] = "none" => call'[q] = "none")
      BY <3>0, <3>4 DEF Upstream
    <3>5. ASSUME Crash
          PROVE  UNCHANGED call /\ (worker[q] # "none" => worker'[q] # "none")
      BY <3>5 DEF Crash
    <3>6. ASSUME NEW r \in Request, Submit(r) PROVE UNCHANGED <<worker, call>>
      BY <3>6 DEF Submit
    <3>7. ASSUME NEW o \in OperationID,
                 MarkUncertain(o) \/ Cancel(o) \/ ReconcileStep(o)
                   \/ Compact(o) \/ Recover(o)
          PROVE  UNCHANGED <<worker, call>>
      BY <3>7 DEF MarkUncertain, Cancel, ReconcileStep, ReconcilePoll,
         ReconcileCommit, Compact, Recover
    <3> QED
      BY <3>1, <3>2, <3>3, <3>4, <3>5, <3>6, <3>7 DEF Next, vars
  <2> QED
    BY <2>1 DEF ReplayInv, CallsHaveWorkers
<1>10. ASSUME FullFence PROVE AcceptedMeansSameIdentity'
  <2> SUFFICES ASSUME NEW q \in Request, req'[q].pc \in Answered
               PROVE  StoredKey(OpOf(q))' = req'[q].key
    BY DEF AcceptedMeansSameIdentity, Answered
  <2>1. PICK op \in OperationID : op = OpOf(q) /\ OpOf(q)' = op
    BY <1>5, <1>6
  <2>2. req'[q].key = req[q].key /\ ValidKey(req[q].key)
    BY <1>5, <1>6 DEF ReplayInv, StoreInv, TypeInv, KeysPresent
  <2>3. CASE req[q].pc \in Answered
    <3>1. StoredKey(op) = req[q].key
      BY <1>10, <2>1, <2>3 DEF ReplayInv, AcceptedMeansSameIdentity, Answered
    <3>2. StoredKey(op)' = StoredKey(op)
      BY <1>3, <2>1, <2>3 DEF Keeps, Creates, Advances, StoredKey, ReplayInv,
         AnsweredIsStored
    <3> QED
      BY <2>1, <2>2, <3>1, <3>2 DEF StoredKey, HasTomb
  <2>4. CASE req[q].pc \notin Answered
    <3>1. CASE req'[q].pc = "created"
      <4>1. StoredKey(op)' = req[q].key
        BY <1>2, <2>1, <2>4, <3>1 DEF CallStep, Answered
      <4> QED
        BY <2>1, <2>2, <4>1 DEF StoredKey, HasTomb
    <3>2. CASE req'[q].pc = "replayed"
      <4>1. /\ ValidateStartReplayKey(StoredKey(op), req[q].key)
            /\ UNCHANGED <<row, tomb>>
        BY <1>2, <1>10, <2>1, <2>4, <3>2 DEF CallStep, Answered
      <4>2. StoredKey(op) \in StartReplayKey /\ req[q].key \in StartReplayKey
        BY <1>5, <1>6, <2>1 DEF ReplayInv, StoreInv, TypeInv, TypeOK, StoredKey,
           RowType, OperationTombstone, ReqType
      <4>3. StoredKey(op) = req[q].key
        BY <4>1, <4>2, MatchingKeysAreEqual
      <4> QED
        BY <2>1, <2>2, <4>1, <4>3 DEF StoredKey, HasTomb
    <3> QED
      BY <3>1, <3>2, <1>10 DEF Answered
  <2> QED
    BY <2>3, <2>4
<1> QED
  BY <1>1, <1>4, <1>7, <1>8, <1>9, <1>10 DEF ReplayInv, FullFence

LEMMA ReplayInvariant == Spec => []ReplayInv
  BY InitReplayInv, NextReplayInv, PTL DEF Spec

(* An operation calls its upstream at most once, whichever fence its       *)
(* tombstones meet: a replay never creates, and a restart never re-runs.   *)
THEOREM AtMostOnce == Spec => []AtMostOnceSideEffect
<1>1. ReplayInv => AtMostOnceSideEffect
  BY DEF ReplayInv, OneCreator, CallsHaveWorkers, StoreInv, TypeInv, KeysPresent,
     AtMostOnceSideEffect
<1> QED
  BY <1>1, ReplayInvariant, PTL

(* With the full replay key fence, a Start is only ever answered with the  *)
(* receipt of the operation it names, before and after compaction.         *)
THEOREM SameIdentity == Spec => [](FullFence => AcceptedMeansSameIdentity)
<1>1. ReplayInv => (FullFence => AcceptedMeansSameIdentity)
  BY DEF ReplayInv
<1> QED
  BY <1>1, ReplayInvariant, PTL
-----------------------------------------------------------------------------
(* What callers are told.  Whatever a step discloses is the revision the   *)
(* store has after it, and revisions only grow.                            *)

DisclosedKnown ==
  \A op \in OperationID : disclosed[op] <= StoredRevision(op)

DisclosedInv == StoreInv /\ DisclosedKnown

LEMMA RevisionStep ==
  ASSUME StoreInv, [Next]_vars, NEW op \in OperationID
  PROVE  /\ StoredRevision(op) \in Nat /\ StoredRevision(op)' \in Nat
         /\ StoredRevision(op)' >= StoredRevision(op)
<1>1. Keeps(op) \/ Creates(op) \/ Advances(op)
  BY StoreStep DEF StoreInv
<1>2. StoredRevision(op) \in Nat
  BY DEF StoreInv, TypeInv, TypeOK, StoredRevision, RowType, OperationTombstone
<1>3. CASE Keeps(op)
  BY <1>2, <1>3 DEF Keeps
<1>4. CASE Creates(op)
  <2>1. StoredRevision(op) = 0
    BY <1>4 DEF Creates, StoreInv, StoreShape, StoredState, StoredRevision,
       HasRow, HasTomb, EmptyRow
  <2> QED
    BY <1>4, <2>1 DEF Creates
<1>5. CASE Advances(op)
  BY <1>2, <1>5 DEF Advances, StoredRevision, HasTomb
<1> QED
  BY <1>1, <1>3, <1>4, <1>5

LEMMA DisclosedStep ==
  ASSUME StoreInv, [Next]_vars, NEW op \in OperationID
  PROVE  \/ disclosed'[op] = disclosed[op]
         \/ disclosed'[op] = StoredRevision(op)'
<1> DEFINE Goal == \/ disclosed'[op] = disclosed[op]
                   \/ disclosed'[op] = StoredRevision(op)'
<1>0. disclosed \in [OperationID -> Nat]
  BY DEF StoreInv, TypeInv, TypeOK
<1>1. CASE UNCHANGED disclosed
  BY <1>1
<1>2. ASSUME NEW r \in Request, LookupTombstone(r) PROVE Goal
  <2>1. CASE OpOf(r) # op
    BY <1>0, <1>2, <2>1 DEF LookupTombstone
  <2>2. CASE OpOf(r) = op
    <3>1. UNCHANGED disclosed \/ disclosed'[op] = tomb[op].revision
      BY <1>0, <1>2, <2>2 DEF LookupTombstone
    <3>2. HasTomb(op) /\ UNCHANGED tomb
      BY <1>2, <2>2 DEF LookupTombstone
    <3> QED
      BY <3>1, <3>2 DEF StoredRevision, HasTomb
  <2> QED
    BY <2>1, <2>2
<1>3. ASSUME NEW r \in Request, Admit(r) PROVE Goal
  <2>1. PICK o \in OperationID : o = OpOf(r)
    BY <1>3, SubmittedOp DEF Admit, StoreInv
  <2>2. \/ UNCHANGED disclosed
        \/ /\ disclosed' = [disclosed EXCEPT ![o] = 1]
           /\ ~HasTomb(o) /\ UNCHANGED tomb
           /\ row'[o].revision = 1
    BY <1>3, <2>1, AdmitStep DEF StoreInv
  <2> QED
    BY <1>0, <2>2 DEF StoredRevision, HasTomb
<1>4. ASSUME NEW r \in Request, Replay(r) PROVE Goal
  <2>1. CASE OpOf(r) # op
    BY <1>0, <1>4, <2>1 DEF Replay
  <2>2. CASE OpOf(r) = op
    <3>1. \/ UNCHANGED disclosed
          \/ HasRow(op) /\ disclosed'[op] = row[op].revision
      BY <1>0, <1>4, <2>2 DEF Replay, ValidateStartReplayReceipt, Receipt
    <3>2. UNCHANGED <<row, tomb>>
      BY <1>4 DEF Replay
    <3>3. HasRow(op) => ~HasTomb(op)
      BY DEF StoreInv, StoreShape, HasRow, EmptyRow
    <3> QED
      BY <3>1, <3>2, <3>3 DEF StoredRevision, HasTomb
  <2> QED
    BY <2>1, <2>2
<1>5. ASSUME NEW r \in Request,
             Submit(r) \/ LookupRow(r) \/ LookupNothing(r) \/ WorkerStep(r)
               \/ Upstream(r)
      PROVE  UNCHANGED disclosed
  BY <1>5 DEF Submit, LookupRow, LookupNothing, WorkerStep, WorkerRun,
     WorkerCall, WorkerFinish, Upstream
<1>6. ASSUME NEW o \in OperationID,
             MarkUncertain(o) \/ Cancel(o) \/ ReconcileStep(o)
               \/ Compact(o) \/ Recover(o)
      PROVE  UNCHANGED disclosed
  BY <1>6 DEF MarkUncertain, Cancel, ReconcileStep, ReconcilePoll,
     ReconcileCommit, Compact, Recover
<1>7. ASSUME Crash PROVE UNCHANGED disclosed
  BY <1>7 DEF Crash
<1> HIDE DEF Goal
<1>8. Goal
  <2>1. UNCHANGED disclosed => Goal
    BY DEF Goal
  <2> QED
    BY <2>1, <1>2, <1>3, <1>4, <1>5, <1>6, <1>7 DEF Next, StartStep, vars
<1> QED
  BY <1>8 DEF Goal

LEMMA DisclosedInvariant == Spec => []DisclosedInv
<1>1. Init => DisclosedKnown
  <2> SUFFICES ASSUME Init, NEW op \in OperationID
               PROVE  disclosed[op] <= StoredRevision(op)
    BY DEF DisclosedKnown
  <2>1. TypeOK
    BY InitTypeOK
  <2>2. disclosed[op] = 0 /\ StoredRevision(op) \in Nat
    BY <2>1 DEF Init, TypeOK, StoredRevision, RowType, OperationTombstone
  <2> QED
    BY <2>2
<1>2. DisclosedInv /\ [Next]_vars => DisclosedKnown'
  <2> SUFFICES ASSUME DisclosedInv, [Next]_vars, NEW op \in OperationID
               PROVE  disclosed'[op] <= StoredRevision(op)'
    BY DEF DisclosedKnown
  <2>1. disclosed[op] \in Nat /\ disclosed[op] <= StoredRevision(op)
    BY DEF DisclosedInv, DisclosedKnown, StoreInv, TypeInv, TypeOK
  <2> QED
    BY <2>1, RevisionStep, DisclosedStep DEF DisclosedInv
<1> QED
  BY <1>1, <1>2, StoreInvariant, PTL DEF Spec, DisclosedInv

(* No caller is ever told a revision older than one already told, however  *)
(* late its snapshot and whatever was compacted meanwhile (replay.go:110). *)
THEOREM NeverToldOlder == Spec => DisclosedMonotone
<1>1. ASSUME DisclosedInv, [Next]_vars, NEW op \in OperationID
      PROVE  disclosed'[op] >= disclosed[op]
  <2>1. disclosed[op] \in Nat /\ disclosed[op] <= StoredRevision(op)
    BY <1>1 DEF DisclosedInv, DisclosedKnown, StoreInv, TypeInv, TypeOK
  <2> QED
    BY <1>1, <2>1, RevisionStep, DisclosedStep DEF DisclosedInv
<1>2. DisclosedInv /\ [Next]_vars =>
        [\A op \in OperationID : disclosed'[op] >= disclosed[op]]_vars
  BY <1>1
<1> QED
  BY <1>2, DisclosedInvariant, PTL DEF Spec, DisclosedMonotone

-----------------------------------------------------------------------------
(* Conflicts.  A call meets one only at an operation the store knows under *)
(* another key, and neither key changes afterwards.                        *)

ConflictsAreReal ==
  \A r \in Request :
    req[r].pc = "conflict" =>
      StoredState(OpOf(r)) # "unspecified" /\ StoredKey(OpOf(r)) # req[r].key

ConflictStep(q, op) ==
  req'[q].pc = "conflict" /\ req[q].pc # "conflict" =>
    /\ req[q].pc = "received"
    /\ UNCHANGED <<row, tomb>>
    /\ StoredState(op) # "unspecified"
    /\ FullFence => StoredKey(op) # req[q].key

LEMMA ConflictSteps ==
  ASSUME StoreInv, [Next]_vars, NEW q \in Request, NEW op, OpOf(q) = op
  PROVE  ConflictStep(q, op)
<1>0. req \in [Request -> ReqType]
  BY DEF StoreInv, TypeInv, TypeOK
<1>1. CASE req'[q] = req[q]
  BY <1>1 DEF ConflictStep
<1>2. ASSUME LookupTombstone(q) PROVE ConflictStep(q, op)
  <2>1. SUFFICES ASSUME req'[q].pc = "conflict", req[q].pc # "conflict"
                 PROVE  /\ req[q].pc = "received"
                        /\ UNCHANGED <<row, tomb>>
                        /\ StoredState(op) # "unspecified"
                        /\ FullFence => StoredKey(op) # req[q].key
    BY DEF ConflictStep
  <2>2. /\ req[q].pc = "received" /\ UNCHANGED <<row, tomb>>
        /\ HasTomb(op)
        /\ ~TombstoneAccepts(tomb[op], req[q].key, FinalDigest(q))
    BY <1>0, <1>2, <2>1 DEF LookupTombstone, ReqType
  <2>3. op \in OperationID /\ ValidKey(req[q].key)
    BY <2>2, SubmittedOp DEF StoreInv, TypeInv, KeysPresent
  <2>4. tomb[op].state \in Terminal
    BY <2>2, <2>3 DEF StoreInv, StoreShape, HasTomb
  <2>5. FullFence => tomb[op].key # req[q].key
    BY <2>2, <2>3, <2>4
    DEF FullFence, TombstoneAccepts, ValidateStartReplayTombstoneConflict,
        ValidateStartReplayKey, ValidKey, IsTerminalOperationState
  <2> QED
    BY <2>2, <2>5 DEF StoredState, StoredKey, HasTomb
<1>3. ASSUME LookupRow(q) PROVE ConflictStep(q, op)
  <2>1. SUFFICES ASSUME req'[q].pc = "conflict", req[q].pc # "conflict"
                 PROVE  /\ req[q].pc = "received"
                        /\ UNCHANGED <<row, tomb>>
                        /\ StoredState(op) # "unspecified"
                        /\ FullFence => StoredKey(op) # req[q].key
    BY DEF ConflictStep
  <2>2. /\ req[q].pc = "received" /\ UNCHANGED <<row, tomb>>
        /\ HasRow(op)
        /\ ~ValidateStartReplayKey(row[op].key, req[q].key)
    BY <1>0, <1>3, <2>1 DEF LookupRow, ReqType
  <2>3. op \in OperationID /\ ValidKey(req[q].key)
    BY <2>2, SubmittedOp DEF StoreInv, TypeInv, KeysPresent
  <2>4. row[op].key # req[q].key
    BY <2>2, <2>3 DEF ValidateStartReplayKey
  <2>5. ~HasTomb(op)
    BY <2>2, <2>3 DEF StoreInv, StoreShape, HasRow, EmptyRow
  <2> QED
    BY <2>2, <2>4, <2>5 DEF StoredState, StoredKey, HasRow
<1>4. ASSUME Submit(q) \/ LookupNothing(q) \/ Admit(q) \/ Replay(q)
      PROVE  req'[q].pc # "conflict"
  BY <1>0, <1>4 DEF Submit, LookupNothing, Admit, Replay, ReqType
<1>5. ASSUME NEW r \in Request, r # q, Submit(r) \/ StartStep(r)
      PROVE  req'[q] = req[q]
  BY <1>0, <1>5 DEF Submit, StartStep, LookupTombstone, LookupRow, LookupNothing,
     Admit, Replay
<1>6. ASSUME Crash PROVE req'[q].pc = "conflict" => req[q].pc = "conflict"
  BY <1>0, <1>6 DEF Crash, ReqType
<1>7. ASSUME NEW r \in Request, WorkerStep(r) \/ Upstream(r) PROVE UNCHANGED req
  BY <1>7 DEF WorkerStep, WorkerRun, WorkerCall, WorkerFinish, Upstream
<1>8. ASSUME NEW o \in OperationID,
             MarkUncertain(o) \/ Cancel(o) \/ ReconcileStep(o)
               \/ Compact(o) \/ Recover(o)
      PROVE  UNCHANGED req
  BY <1>8 DEF MarkUncertain, Cancel, ReconcileStep, ReconcilePoll,
     ReconcileCommit, Compact, Recover
<1>9. CASE req'[q].pc # "conflict" \/ req[q].pc = "conflict"
  BY <1>9 DEF ConflictStep
<1> QED
  BY <1>1, <1>2, <1>3, <1>4, <1>5, <1>6, <1>7, <1>8, <1>9
  DEF Next, StartStep, vars

RenewalInv == ReplayInv /\ (FullFence => ConflictsAreReal)

LEMMA NextConflictsAreReal ==
  RenewalInv /\ FullFence /\ [Next]_vars => ConflictsAreReal'
<1> SUFFICES ASSUME RenewalInv, FullFence, [Next]_vars,
                    NEW q \in Request, req'[q].pc = "conflict"
             PROVE  /\ StoredState(OpOf(q))' # "unspecified"
                    /\ StoredKey(OpOf(q))' # req'[q].key
  BY DEF ConflictsAreReal
<1>0. StoreInv /\ OwnSnapshots
  BY DEF RenewalInv, ReplayInv
<1>1. PICK op : op = OpOf(q)
  OBVIOUS
<1>2. CallStep(q, op) /\ ConflictStep(q, op)
  BY <1>0, <1>1, CallSteps, ConflictSteps
<1>3. req[q].pc # "idle" /\ req'[q].key = req[q].key
  BY <1>2 DEF CallStep, ConflictStep
<1>4. op \in OperationID /\ OpOf(q)' = op
  BY <1>0, <1>1, <1>3, SubmittedOp DEF OpOf, StoreInv
<1>5. StoredState(op) # "unspecified" /\ StoredKey(op) # req[q].key
  BY <1>1, <1>2 DEF ConflictStep, RenewalInv, ConflictsAreReal
<1>6. Keeps(op) \/ Creates(op) \/ Advances(op)
  BY <1>0, <1>4, StoreStep DEF StoreInv
<1>7. StoredState(op)' # "unspecified" /\ StoredKey(op)' = StoredKey(op)
  BY <1>5, <1>6 DEF Keeps, Creates, Advances, StoredState, StoredKey, HasTomb, Terminal
<1> QED
  BY <1>3, <1>4, <1>5, <1>7 DEF StoredState, StoredKey, HasTomb

LEMMA RenewalInvariant == Spec => []RenewalInv
<1>1. Init => (FullFence => ConflictsAreReal)
  BY DEF Init, ConflictsAreReal
<1>2. RenewalInv /\ [Next]_vars => (FullFence => ConflictsAreReal)'
  BY NextConflictsAreReal DEF FullFence
<1> QED
  BY <1>1, <1>2, ReplayInvariant, PTL DEF Spec, RenewalInv

(* With the full replay key fence, a caller that retries the same business *)
(* is never told of a conflict, whichever grant it retries with, and       *)
(* whether or not the operation was compacted (replay.go:33).              *)
THEOREM RenewalIsNoConflict == Spec => [](FullFence => RenewalNeverConflicts)
<1>1. RenewalInv => (FullFence => RenewalNeverConflicts)
  BY DEF RenewalInv, ConflictsAreReal, RenewalNeverConflicts
<1> QED
  BY <1>1, RenewalInvariant, PTL

-----------------------------------------------------------------------------
(* Workers and the calls they made.  A worker runs only once its row is    *)
(* RUNNING, calls only while it runs, and a call is never taken back.      *)

WorkersBeforeCalls ==
  \A r \in Request : call[r] # "none" => worker[r] \in {"calling", "done"}

WorkerMoves(q, op) ==
  /\ call[q] \notin {"none", "sent"} => call'[q] = call[q]
  /\ call[q] = "sent" => call'[q] # "none"
  /\ call[q] = "none" => \/ call'[q] = "none"
                         \/ worker[q] = "running" /\ worker'[q] = "calling"
  /\ \/ worker'[q] = worker[q]
     \/ worker[q] # "none" /\ worker'[q] = "done"
     \/ worker[q] = "none" /\ worker'[q] = "queued" /\ UNCHANGED call
     \/ worker[q] = "running" /\ worker'[q] = "calling"
     \/ /\ worker[q] = "queued" /\ worker'[q] = "running" /\ UNCHANGED call
        /\ row[op].state = "pending" /\ row'[op].state = "running"
        /\ row'[op].revision = row[op].revision + 1

LEMMA WorkerMoveSteps ==
  ASSUME StoreInv, WorkersBeforeCalls, [Next]_vars,
         NEW q \in Request, NEW op, OpOf(q) = op
  PROVE  WorkerMoves(q, op)
<1>0. /\ worker \in [Request -> WorkerState] /\ call \in [Request -> CallState]
      /\ row \in [OperationID -> RowType]
  BY DEF StoreInv, TypeInv, TypeOK
<1>1. CASE worker'[q] = worker[q] /\ call'[q] = call[q]
  BY <1>1 DEF WorkerMoves
<1>2. CASE Admit(q)
  <2>1. worker[q] = "none" \/ UNCHANGED worker
    BY <1>2 DEF Admit, StoreInv, TypeInv, KeysPresent
  <2> QED
    BY <1>0, <1>2, <2>1 DEF Admit, WorkerMoves
<1>3. CASE WorkerRun(q)
  <2>1. op \in OperationID
    BY <1>3, SubmittedOp DEF WorkerRun, StoreInv
  <2>2. CASE ValidateOperationStateTransition(row[op].state, "running")
    <3>1. /\ row[op].state = "pending" /\ worker'[q] = "running"
          /\ Advance(op, "running", None)
      BY <1>0, <1>3, <2>2 DEF WorkerRun, ValidateOperationStateTransition,
         IsTerminalOperationState, Terminal
    <3>2. row'[op].state = "running" /\ row'[op].revision = row[op].revision + 1
      BY <1>0, <2>1, <3>1 DEF Advance, RowType
    <3> QED
      BY <1>3, <3>1, <3>2 DEF WorkerRun, WorkerMoves
  <2>3. CASE ~ValidateOperationStateTransition(row[op].state, "running")
    <3>1. worker[q] = "queued" /\ worker'[q] = "done" /\ UNCHANGED call
      BY <1>0, <1>3, <2>3 DEF WorkerRun
    <3> QED
      BY <3>1 DEF WorkerMoves
  <2> QED
    BY <2>2, <2>3
<1>4. CASE WorkerCall(q)
  <2>1. /\ worker[q] = "running" /\ worker'[q] = "calling"
        /\ call[q] = "none" /\ call'[q] = "sent"
    BY <1>0, <1>4 DEF WorkerCall, WorkersBeforeCalls
  <2> QED
    BY <2>1 DEF WorkerMoves
<1>5. CASE WorkerFinish(q)
  BY <1>0, <1>5 DEF WorkerFinish, WorkerMoves
<1>6. CASE Upstream(q)
  BY <1>0, <1>6 DEF Upstream, WorkerMoves
<1>7. ASSUME NEW r \in Request, r # q, Admit(r) \/ WorkerStep(r) \/ Upstream(r)
      PROVE  worker'[q] = worker[q] /\ call'[q] = call[q]
  BY <1>0, <1>7 DEF Admit, WorkerStep, WorkerRun, WorkerCall, WorkerFinish, Upstream
<1>8. CASE Crash
  BY <1>0, <1>8 DEF Crash, WorkerMoves
<1>9. ASSUME NEW r \in Request,
             Submit(r) \/ LookupTombstone(r) \/ LookupRow(r) \/ LookupNothing(r)
               \/ Replay(r)
      PROVE  UNCHANGED <<worker, call>>
  BY <1>9 DEF Submit, LookupTombstone, LookupRow, LookupNothing, Replay
<1>10. ASSUME NEW o \in OperationID,
             MarkUncertain(o) \/ Cancel(o) \/ ReconcileStep(o)
               \/ Compact(o) \/ Recover(o)
      PROVE  UNCHANGED <<worker, call>>
  BY <1>10 DEF MarkUncertain, Cancel, ReconcileStep, ReconcilePoll,
     ReconcileCommit, Compact, Recover
<1> QED
  BY <1>1, <1>2, <1>3, <1>4, <1>5, <1>6, <1>7, <1>8, <1>9, <1>10
  DEF Next, StartStep, WorkerStep, vars

-----------------------------------------------------------------------------
(* Effects.  What is recorded as completed, in a row or by a poll, names a *)
(* call of that operation that took effect.                                *)

EffectsRecorded ==
  \A op \in OperationID :
    /\ row[op].state = "completed" => row[op].result \in Applied(op)
    /\ recon[op].state = "completed" => recon[op].result \in Applied(op)

EffectInv == ReplayInv /\ WorkersBeforeCalls /\ EffectsRecorded

LEMMA NextWorkersBeforeCalls ==
  EffectInv /\ [Next]_vars => WorkersBeforeCalls'
<1> SUFFICES ASSUME EffectInv, [Next]_vars, NEW q \in Request, call'[q] # "none"
             PROVE  worker'[q] \in {"calling", "done"}
  BY DEF WorkersBeforeCalls
<1>1. WorkerMoves(q, OpOf(q))
  BY WorkerMoveSteps DEF EffectInv, ReplayInv
<1> QED
  BY <1>1 DEF WorkerMoves, EffectInv, WorkersBeforeCalls

(* A call keeps its operation, and an effect stays.                        *)
LEMMA EffectStays ==
  ASSUME EffectInv, [Next]_vars, NEW q \in Request, call[q] # "none"
  PROVE  /\ OpOf(q) \in OperationID /\ OpOf(q)' = OpOf(q)
         /\ call[q] = "applied" => call'[q] = "applied"
<1>1. worker[q] # "none" /\ req[q].pc # "idle"
  BY DEF EffectInv, ReplayInv, CallsHaveWorkers, StoreInv, TypeInv, KeysPresent
<1>2. CallStep(q, OpOf(q)) /\ WorkerMoves(q, OpOf(q))
  BY CallSteps, WorkerMoveSteps DEF EffectInv, ReplayInv
<1> QED
  BY <1>1, <1>2, SubmittedOp DEF CallStep, WorkerMoves, OpOf, EffectInv,
     ReplayInv, StoreInv

LEMMA AppliedGrows ==
  ASSUME EffectInv, [Next]_vars, NEW op
  PROVE  Applied(op) \subseteq Applied(op)'
<1> SUFFICES ASSUME NEW q \in Request, call[q] = "applied", OpOf(q) = op
             PROVE  call'[q] = "applied" /\ OpOf(q)' = op
  BY DEF Applied, OpOf
<1> QED
  BY EffectStays

(* Where a completed row, or a poll that found one, comes from.            *)
CompletionStep(op) ==
  /\ row'[op].state = "completed" =>
       \/ row'[op] = row[op]
       \/ row'[op].result \in Applied(op)
       \/ recon[op].state = "completed" /\ row'[op].result = recon[op].result
  /\ recon'[op].state = "completed" =>
       recon'[op] = recon[op] \/ recon'[op].result \in Applied(op)

LEMMA CompletionSteps ==
  ASSUME StoreInv, [Next]_vars, NEW op \in OperationID
  PROVE  CompletionStep(op)
<1>0. row \in [OperationID -> RowType] /\ recon \in [OperationID -> PollType]
  BY DEF StoreInv, TypeInv, TypeOK
<1>1. ASSUME UNCHANGED recon, row'[op] = row[op] \/ row'[op].state # "completed"
      PROVE  CompletionStep(op)
  BY <1>1 DEF CompletionStep
<1>2. ASSUME NEW r \in Request, Admit(r) PROVE CompletionStep(op)
  <2>1. row'[op] = row[op] \/ row'[op].state = "pending"
    BY <1>0, <1>2 DEF Admit
  <2> QED
    BY <1>1, <1>2, <2>1 DEF Admit
<1>3. ASSUME NEW r \in Request, WorkerRun(r) PROVE CompletionStep(op)
  <2>1. row'[op] = row[op] \/ row'[op].state = "running"
    BY <1>0, <1>3 DEF WorkerRun, Advance, RowType
  <2> QED
    BY <1>1, <1>3, <2>1 DEF WorkerRun
<1>4. ASSUME NEW r \in Request, WorkerFinish(r) PROVE CompletionStep(op)
  <2>1. UNCHANGED recon
    BY <1>4 DEF WorkerFinish
  <2>2. CASE call[r] # "applied" \/ OpOf(r) # op
    <3>1. row'[op] = row[op] \/ row'[op].state = "failed"
      BY <1>0, <1>4, <2>2 DEF WorkerFinish, Advance, RowType
    <3> QED
      BY <1>1, <2>1, <3>1
  <2>3. CASE call[r] = "applied" /\ OpOf(r) = op
    <3>1. row'[op] = row[op] \/ row'[op].result = r
      BY <1>0, <1>4, <2>3 DEF WorkerFinish, Advance, RowType
    <3>2. r \in Applied(op)
      BY <2>3 DEF Applied
    <3> QED
      BY <2>1, <3>1, <3>2 DEF CompletionStep
  <2> QED
    BY <2>2, <2>3
<1>5. ASSUME NEW o \in OperationID, MarkUncertain(o) PROVE CompletionStep(op)
  <2>1. row'[op] = row[op] \/ row'[op].state = "uncertain"
    BY <1>0, <1>5 DEF MarkUncertain, Advance, RowType
  <2> QED
    BY <1>1, <1>5, <2>1 DEF MarkUncertain
<1>6. ASSUME NEW o \in OperationID, Cancel(o) PROVE CompletionStep(op)
  <2>1. row'[op] = row[op] \/ row'[op].state = "cancelled"
    BY <1>0, <1>6 DEF Cancel, Advance, RowType
  <2> QED
    BY <1>1, <1>6, <2>1 DEF Cancel
<1>7. ASSUME NEW o \in OperationID, ReconcilePoll(o) PROVE CompletionStep(op)
  <2>1. UNCHANGED row
    BY <1>7 DEF ReconcilePoll
  <2>2. \/ recon'[op] = recon[op]
        \/ recon'[op].state # "completed"
        \/ recon'[op].result \in Applied(op)
    <3>1. CASE o # op
      BY <1>0, <1>7, <3>1 DEF ReconcilePoll
    <3>2. CASE o = op
      BY <1>0, <1>7, <3>2 DEF ReconcilePoll
    <3> QED
      BY <3>1, <3>2
  <2> QED
    BY <2>1, <2>2 DEF CompletionStep
<1>8. ASSUME NEW o \in OperationID, ReconcileCommit(o) PROVE CompletionStep(op)
  <2>1. recon'[op] = recon[op] \/ recon'[op].state # "completed"
    BY <1>0, <1>8 DEF ReconcileCommit, NoPoll
  <2>2. \/ row'[op] = row[op]
        \/ row'[op].state = recon[op].state /\ row'[op].result = recon[op].result
    BY <1>0, <1>8 DEF ReconcileCommit, Advance, RowType
  <2> QED
    BY <2>1, <2>2 DEF CompletionStep
<1>9. ASSUME NEW o \in OperationID, Compact(o) PROVE CompletionStep(op)
  <2>1. row'[op] = row[op] \/ row'[op] = EmptyRow
    BY <1>0, <1>9 DEF Compact
  <2> QED
    BY <1>1, <1>9, <2>1 DEF Compact, EmptyRow
<1>10. ASSUME NEW o \in OperationID, Recover(o) PROVE CompletionStep(op)
  <2>1. row'[op] = row[op] \/ row'[op].state = "uncertain"
    BY <1>0, <1>10
    DEF Recover, Advance, RowType, RecoverOperationStateAfterRestart
  <2> QED
    BY <1>1, <1>10, <2>1 DEF Recover
<1>11. CASE Crash
  BY <1>0, <1>11 DEF Crash, CompletionStep, NoPoll
<1>12. ASSUME NEW r \in Request,
             Submit(r) \/ LookupTombstone(r) \/ LookupRow(r) \/ LookupNothing(r)
               \/ Replay(r) \/ WorkerCall(r) \/ Upstream(r)
      PROVE  UNCHANGED <<row, recon>>
  BY <1>12 DEF Submit, LookupTombstone, LookupRow, LookupNothing, Replay,
     WorkerCall, Upstream
<1> QED
  BY <1>1, <1>2, <1>3, <1>4, <1>5, <1>6, <1>7, <1>8, <1>9, <1>10, <1>11, <1>12
  DEF Next, StartStep, WorkerStep, ReconcileStep, vars

LEMMA EffectInvariant == Spec => []EffectInv
<1>1. Init => WorkersBeforeCalls /\ EffectsRecorded
  BY DEF Init, WorkersBeforeCalls, EffectsRecorded, EmptyRow, NoPoll
<1>2. EffectInv /\ [Next]_vars => EffectsRecorded'
  <2> SUFFICES ASSUME EffectInv, [Next]_vars, NEW op \in OperationID
               PROVE  /\ row'[op].state = "completed" =>
                           row'[op].result \in Applied(op)'
                      /\ recon'[op].state = "completed" =>
                           recon'[op].result \in Applied(op)'
    BY DEF EffectsRecorded, Applied, OpOf
  <2>1. CompletionStep(op)
    BY CompletionSteps DEF EffectInv, ReplayInv
  <2>2. Applied(op) \subseteq Applied(op)'
    BY AppliedGrows
  <2> QED
    BY <2>1, <2>2 DEF CompletionStep, EffectInv, EffectsRecorded
<1> QED
  BY <1>1, <1>2, NextWorkersBeforeCalls, ReplayInvariant, PTL DEF Spec, EffectInv

(* An operation is recorded as completed only with the result of a call    *)
(* of its own that took effect, through every timeout, cancel, restart and *)
(* reconciliation in between (operation_state.go:47, :74).                 *)
THEOREM CompletionIsReal == Spec => []CompletedHasItsEffect
<1>1. EffectInv => CompletedHasItsEffect
  BY DEF EffectInv, EffectsRecorded, CompletedHasItsEffect
<1> QED
  BY <1>1, EffectInvariant, PTL

-----------------------------------------------------------------------------
(* Revisions count steps.  An operation whose worker ran has been through  *)
(* RUNNING, which took its second revision, so any outcome is at least the *)
(* third.                                                                  *)

Ran(r) == worker[r] \in {"running", "calling"} \/ call[r] # "none"

RevisionsCount ==
  /\ \A op \in OperationID : HasRow(op) => row[op].revision >= 1
  /\ \A r \in Request :
       Ran(r) =>
         /\ StoredState(OpOf(r)) \in {"running", "uncertain"} \cup Terminal
         /\ StoredRevision(OpOf(r)) >= 2
         /\ StoredState(OpOf(r)) \in Terminal => StoredRevision(OpOf(r)) >= 3

RunInv == EffectInv /\ RevisionsCount

LEMMA NextRevisionsCount == RunInv /\ [Next]_vars => RevisionsCount'
<1> SUFFICES ASSUME RunInv, [Next]_vars PROVE RevisionsCount'
  OBVIOUS
<1>0. StoreInv /\ TypeInv /\ StoreShape
  BY DEF RunInv, EffectInv, ReplayInv, StoreInv
<1>1. \A op \in OperationID : Keeps(op) \/ Creates(op) \/ Advances(op)
  BY <1>0, StoreStep
<1>2. ASSUME NEW op \in OperationID, HasRow(op)' PROVE row'[op].revision >= 1
  <2>1. CASE Keeps(op)
    BY <1>2, <2>1 DEF Keeps, HasRow, RunInv, RevisionsCount
  <2>2. CASE Creates(op)
    <3>1. row'[op].revision = 1 \/ HasTomb(op)'
      BY <2>2 DEF Creates, StoredRevision, HasTomb
    <3>2. StoreShape'
      BY <1>0, StoreStep
    <3> QED
      BY <1>2, <3>1, <3>2 DEF StoreShape, HasRow, EmptyRow, HasTomb
  <2>3. CASE Advances(op)
    <3>1. HasRow(op) /\ row[op].revision \in Nat
      BY <1>0, <2>3 DEF Advances, HasRow, Pursuable, TypeInv, TypeOK, RowType
    <3> QED
      BY <2>3, <3>1 DEF Advances, RunInv, RevisionsCount
  <2> QED
    BY <1>1, <2>1, <2>2, <2>3
<1>3. ASSUME NEW q \in Request, Ran(q)'
      PROVE  /\ StoredState(OpOf(q))' \in {"running", "uncertain"} \cup Terminal
             /\ StoredRevision(OpOf(q))' >= 2
             /\ StoredState(OpOf(q))' \in Terminal => StoredRevision(OpOf(q))' >= 3
  <2>1. PICK op : op = OpOf(q)
    OBVIOUS
  <2>2. CallStep(q, op) /\ WorkerMoves(q, op)
    BY <1>0, <2>1, CallSteps, WorkerMoveSteps DEF RunInv, EffectInv, ReplayInv
  <2>3. Ran(q) \/ worker[q] = "queued"
    BY <1>3, <2>2 DEF WorkerMoves, Ran
  <2>4. worker[q] # "none" /\ req[q].pc # "idle"
    BY <1>0, <2>3 DEF Ran, RunInv, EffectInv, ReplayInv, CallsHaveWorkers,
       TypeInv, KeysPresent
  <2>5. op \in OperationID /\ OpOf(q)' = op
    BY <1>0, <2>1, <2>2, <2>4, SubmittedOp DEF CallStep, OpOf
  <2>6. StoredRevision(op) \in Nat /\ StoredRevision(op)' \in Nat
    BY <1>0, <2>5, RevisionStep
  <2> DEFINE Counted == /\ StoredState(op)' \in {"running", "uncertain"} \cup Terminal
                        /\ StoredRevision(op)' >= 2
                        /\ StoredState(op)' \in Terminal => StoredRevision(op)' >= 3
  <2>7. ASSUME Ran(q) PROVE Counted
    <3>1. /\ StoredState(op) \in {"running", "uncertain"} \cup Terminal
          /\ StoredRevision(op) >= 2
          /\ StoredState(op) \in Terminal => StoredRevision(op) >= 3
      BY <2>1, <2>7 DEF RunInv, RevisionsCount
    <3>2. CASE Keeps(op)
      BY <3>1, <3>2 DEF Keeps
    <3>3. CASE Advances(op)
      BY <2>6, <3>1, <3>3 DEF Advances, StoredState, StoredRevision, HasTomb
    <3>4. ~Creates(op)
      BY <3>1 DEF Creates, Terminal
    <3> QED
      BY <1>1, <2>5, <3>2, <3>3, <3>4
  <2>8. ASSUME ~Ran(q) PROVE Counted
    <3>1. /\ row[op].state = "pending" /\ row'[op].state = "running"
          /\ row'[op].revision = row[op].revision + 1
      BY <1>3, <2>2, <2>3, <2>8 DEF WorkerMoves, Ran
    <3>2. ~HasTomb(op)'
      BY <1>0, <2>5, <3>1, StoreStep DEF StoreShape, HasTomb, EmptyRow
    <3>3. row[op].revision \in Nat /\ row[op].revision >= 1
      BY <1>0, <2>5, <3>1 DEF TypeInv, TypeOK, RowType, HasRow, RunInv,
         RevisionsCount
    <3> QED
      BY <3>1, <3>2, <3>3 DEF StoredState, StoredRevision, HasTomb, Terminal
  <2>9. Counted
    BY <2>7, <2>8
  <2> QED
    BY <2>5, <2>9 DEF StoredState, StoredRevision, HasTomb
<1> QED
  BY <1>2, <1>3 DEF RevisionsCount

LEMMA RunInvariant == Spec => []RunInv
<1>1. Init => RevisionsCount
  BY DEF Init, RevisionsCount, Ran, HasRow, EmptyRow
<1> QED
  BY <1>1, NextRevisionsCount, EffectInvariant, PTL DEF Spec, RunInv

(* An operation that was cancelled straight from PENDING has called no     *)
(* upstream and never will.                                                *)
THEOREM CancelledIsUntouched == Spec => []CancelledBeforeRunHasNoEffect
<1>1. RunInv => CancelledBeforeRunHasNoEffect
  BY DEF RunInv, RevisionsCount, Ran, Terminal, CancelledBeforeRunHasNoEffect
<1> QED
  BY <1>1, RunInvariant, PTL

-----------------------------------------------------------------------------
(* The ledger implements the replay contract of OperationOutcome.  The     *)
(* four functions below are what the contract's variables are instantiated *)
(* with; every step of the ledger changes one of them, or none.            *)

boundIdentity == [op \in OperationID |->
  IF StoredState(op) = "unspecified" THEN None ELSE StoredKey(op)]

performed == [op \in OperationID |-> Applied(op)]

decided == [op \in OperationID |->
  IF IsTerminalOperationState(StoredState(op)) THEN StoredState(op) ELSE None]

toldOf == {<<OpOf(r), req[r].key, req[r].receipt.state>> :
             r \in {q \in Request :
                      /\ req[q].pc = "replayed"
                      /\ IsTerminalOperationState(req[q].receipt.state)}}

LEMMA ContractActions ==
  /\ \A op, i :
       Contract!Admit(op, i) <=>
         /\ boundIdentity[op] = None
         /\ boundIdentity' = [boundIdentity EXCEPT ![op] = i]
         /\ UNCHANGED <<performed, decided, toldOf>>
  /\ \A op, e :
       Contract!Perform(op, e) <=>
         /\ boundIdentity[op] # None
         /\ performed[op] = {}
         /\ performed' = [performed EXCEPT ![op] = {e}]
         /\ UNCHANGED <<boundIdentity, decided, toldOf>>
  /\ \A op, s :
       Contract!Decide(op, s) <=>
         /\ boundIdentity[op] # None
         /\ decided[op] = None
         /\ s = "completed" => performed[op] # {}
         /\ decided' = [decided EXCEPT ![op] = s]
         /\ UNCHANGED <<boundIdentity, performed, toldOf>>
  /\ \A op :
       Contract!Tell(op) <=>
         /\ decided[op] # None
         /\ toldOf' = toldOf \cup {<<op, boundIdentity[op], decided[op]>>}
         /\ UNCHANGED <<boundIdentity, performed, decided>>
  /\ Contract!vars = <<boundIdentity, performed, decided, toldOf>>
  BY DEF Contract!Admit, Contract!Perform, Contract!Decide, Contract!Tell,
     Contract!vars, boundIdentity, performed, decided, toldOf

(* What each of the four reads of an operation.                            *)
LEMMA BarValues ==
  ASSUME StoreInv, NEW op \in OperationID
  PROVE  /\ boundIdentity[op] = None <=> StoredState(op) = "unspecified"
         /\ StoredState(op) # "unspecified" => boundIdentity[op] = StoredKey(op)
         /\ decided[op] = None <=> StoredState(op) \notin Terminal
         /\ StoredState(op) \in Terminal => decided[op] = StoredState(op)
         /\ performed[op] = Applied(op)
<1>1. StoredKey(op) \in StartReplayKey /\ StoredState(op) \in State
  BY DEF StoreInv, TypeInv, TypeOK, StoredKey, StoredState, RowType,
     OperationTombstone
<1> QED
  BY <1>1, NoneAssumption DEF boundIdentity, decided, performed,
     IsTerminalOperationState

LEMMA KeepsBars ==
  ASSUME \A op \in OperationID : Keeps(op)
  PROVE  boundIdentity' = boundIdentity /\ decided' = decided
  BY DEF Keeps, boundIdentity, decided

(* A step touches the row and the tombstone of one operation at most.      *)
LEMMA OneOperation ==
  ASSUME StoreInv, [Next]_vars, NEW op \in OperationID, ~Keeps(op)
  PROVE  \A o \in OperationID \ {op} : Keeps(o)
<1> DEFINE Same(o) == row'[o] = row[o] /\ tomb'[o] = tomb[o]
           Goal == \A o \in OperationID \ {op} : Same(o)
<1>0. row \in [OperationID -> RowType] /\ tomb \in [OperationID -> OperationTombstone]
  BY DEF StoreInv, TypeInv, TypeOK
<1>1. ASSUME NEW o, Same(o) PROVE Keeps(o)
  BY <1>1 DEF Keeps, StoredState, StoredKey, StoredRevision, HasTomb
<1>2. ~Same(op)
  BY <1>1
<1>3. ASSUME NEW r \in Request, Admit(r) \/ WorkerRun(r) \/ WorkerFinish(r)
      PROVE  Goal
  <2>1. \A o \in OperationID : o # OpOf(r) => Same(o)
    BY <1>0, <1>3 DEF Admit, WorkerRun, WorkerFinish, Advance
  <2> QED
    BY <1>2, <2>1
<1>4. ASSUME NEW x \in OperationID,
             MarkUncertain(x) \/ Cancel(x) \/ ReconcileCommit(x)
               \/ Compact(x) \/ Recover(x)
      PROVE  Goal
  <2>1. \A o \in OperationID : o # x => Same(o)
    BY <1>0, <1>4 DEF MarkUncertain, Cancel, ReconcileCommit, Compact, Recover,
       Advance
  <2> QED
    BY <1>2, <2>1
<1>5. ASSUME NEW r \in Request,
             Submit(r) \/ LookupTombstone(r) \/ LookupRow(r) \/ LookupNothing(r)
               \/ Replay(r) \/ WorkerCall(r) \/ Upstream(r)
      PROVE  UNCHANGED <<row, tomb>>
  BY <1>5 DEF Submit, LookupTombstone, LookupRow, LookupNothing, Replay,
     WorkerCall, Upstream
<1>6. ASSUME NEW x \in OperationID, ReconcilePoll(x) PROVE UNCHANGED <<row, tomb>>
  BY <1>6 DEF ReconcilePoll
<1>7. ASSUME Crash PROVE UNCHANGED <<row, tomb>>
  BY <1>7 DEF Crash
<1>8. ~UNCHANGED <<row, tomb>>
  BY <1>2
<1>9. Goal
  <2> HIDE DEF Goal
  <2> QED
    BY <1>3, <1>4, <1>5, <1>6, <1>7, <1>8
    DEF Next, StartStep, WorkerStep, ReconcileStep, vars
<1> QED
  BY <1>1, <1>9

(* Only two actions tell, and only the upstream performs.                  *)
Tells(r) == LookupTombstone(r) \/ Replay(r)

LEMMA ToldFrame ==
  ASSUME StoreInv, [Next]_vars, \A r \in Request : ~Tells(r)
  PROVE  toldOf' = toldOf
<1> DEFINE Same(q) == /\ req'[q].pc = "replayed" <=> req[q].pc = "replayed"
                      /\ req[q].pc = "replayed" =>
                           /\ req'[q].key = req[q].key
                           /\ req'[q].receipt = req[q].receipt
<1>0. req \in [Request -> ReqType]
  BY DEF StoreInv, TypeInv, TypeOK
<1>1. ASSUME NEW q \in Request PROVE Same(q)
  <2>1. CASE UNCHANGED req
    BY <2>1
  <2>2. ASSUME NEW r \in Request, Submit(r) \/ LookupRow(r) \/ LookupNothing(r)
                                    \/ Admit(r)
        PROVE  Same(q)
    <3>1. CASE q # r
      BY <1>0, <2>2, <3>1 DEF Submit, LookupRow, LookupNothing, Admit
    <3>2. CASE q = r
      BY <1>0, <2>2, <3>2 DEF Submit, LookupRow, LookupNothing, Admit, ReqType
    <3> QED
      BY <3>1, <3>2
  <2>3. CASE Crash
    BY <1>0, <2>3 DEF Crash, ReqType
  <2>4. ASSUME NEW r \in Request, WorkerStep(r) \/ Upstream(r) PROVE UNCHANGED req
    BY <2>4 DEF WorkerStep, WorkerRun, WorkerCall, WorkerFinish, Upstream
  <2>5. ASSUME NEW o \in OperationID,
               MarkUncertain(o) \/ Cancel(o) \/ ReconcileStep(o)
                 \/ Compact(o) \/ Recover(o)
        PROVE  UNCHANGED req
    BY <2>5 DEF MarkUncertain, Cancel, ReconcileStep, ReconcilePoll,
       ReconcileCommit, Compact, Recover
  <2> HIDE DEF Same
  <2> QED
    BY <2>1, <2>2, <2>3, <2>4, <2>5 DEF Next, StartStep, Tells, vars
<1> QED
  BY <1>1 DEF toldOf, OpOf

LEMMA PerformedFrame ==
  ASSUME EffectInv, [Next]_vars, \A r \in Request : ~Upstream(r)
  PROVE  performed' = performed
<1>0. call \in [Request -> CallState]
  BY DEF EffectInv, ReplayInv, StoreInv, TypeInv, TypeOK
<1>1. ASSUME NEW q \in Request, call'[q] = "applied" PROVE call[q] = "applied"
  <2>1. ASSUME NEW r \in Request, WorkerCall(r) PROVE call[q] = "applied"
    BY <1>0, <1>1, <2>1 DEF WorkerCall
  <2>2. ASSUME NEW r \in Request,
               Submit(r) \/ StartStep(r) \/ WorkerRun(r) \/ WorkerFinish(r)
        PROVE  UNCHANGED call
    BY <2>2 DEF Submit, StartStep, LookupTombstone, LookupRow, LookupNothing,
       Admit, Replay, WorkerRun, WorkerFinish
  <2>3. ASSUME NEW o \in OperationID,
               MarkUncertain(o) \/ Cancel(o) \/ ReconcileStep(o)
                 \/ Compact(o) \/ Recover(o)
        PROVE  UNCHANGED call
    BY <2>3 DEF MarkUncertain, Cancel, ReconcileStep, ReconcilePoll,
       ReconcileCommit, Compact, Recover
  <2>4. ASSUME Crash PROVE UNCHANGED call
    BY <2>4 DEF Crash
  <2> QED
    BY <1>1, <2>1, <2>2, <2>3, <2>4 DEF Next, WorkerStep, vars
<1>2. ASSUME NEW op \in OperationID PROVE Applied(op)' = Applied(op)
  <2>1. Applied(op) \subseteq Applied(op)'
    BY AppliedGrows
  <2>2. ASSUME NEW q \in Request, call'[q] = "applied", OpOf(q)' = op
        PROVE  call[q] = "applied" /\ OpOf(q) = op
    BY <1>1, <2>2, EffectStays
  <2> QED
    BY <2>1, <2>2 DEF Applied, OpOf
<1> QED
  BY <1>2 DEF performed

-----------------------------------------------------------------------------
LEMMA InitContract == Init => Contract!Init
<1> SUFFICES ASSUME Init PROVE Contract!Init
  OBVIOUS
<1>1. StoreInv
  BY InitReplayInv DEF ReplayInv
<1>2. boundIdentity \in [OperationID -> StartReplayKey \cup {None}]
  BY <1>1 DEF boundIdentity, StoreInv, TypeInv, TypeOK, StoredKey, RowType,
     OperationTombstone
<1>3. decided \in [OperationID -> Terminal \cup {None}]
  BY DEF decided, IsTerminalOperationState
<1>4. \A op \in OperationID : boundIdentity[op] = None <=> decided[op] = None
  <2> SUFFICES ASSUME NEW op \in OperationID
               PROVE  StoredState(op) = "unspecified"
                        <=> StoredState(op) \notin Terminal
    BY <1>1, BarValues
  <2>1. row[op].state = "unspecified" /\ tomb[op].state \in Terminal \cup {"unspecified"}
    BY <1>1 DEF Init, EmptyRow, StoreInv, StoreShape
  <2> QED
    BY <2>1 DEF StoredState, HasTomb, Terminal
<1>5. performed = [op \in OperationID |-> {}]
  BY DEF Init, performed, Applied
<1>6. toldOf = {}
  BY DEF Init, toldOf
<1> QED
  BY <1>2, <1>3, <1>4, <1>5, <1>6
  DEF Contract!Init, boundIdentity, decided, performed, toldOf

LEMMA TellingSteps ==
  ASSUME FullFence, RunInv, RunInv', [Next]_vars, NEW r \in Request, Tells(r)
  PROVE  toldOf' = toldOf \/ \E op \in OperationID : Contract!Tell(op)
<1>0. StoreInv /\ req \in [Request -> ReqType]
  BY DEF RunInv, EffectInv, ReplayInv, StoreInv, TypeInv, TypeOK
<1>1. UNCHANGED <<row, tomb, call>> /\ \A q \in Request \ {r} : req'[q] = req[q]
  BY <1>0 DEF Tells, LookupTombstone, Replay
<1>2. req[r].pc \in {"received", "replaying"} /\ req'[r].key = req[r].key
  BY <1>0 DEF Tells, LookupTombstone, Replay, ReqType
<1>3. PICK op \in OperationID : op = OpOf(r) /\ OpOf(r)' = op
  BY <1>0, <1>2, SubmittedOp DEF OpOf, StoreInv
<1>4. CASE req'[r].pc # "replayed"
  BY <1>1, <1>2, <1>4 DEF toldOf, OpOf
<1>5. CASE req'[r].pc = "replayed" /\ req'[r].receipt.state \notin Terminal
  BY <1>1, <1>2, <1>5 DEF toldOf, OpOf, IsTerminalOperationState
<1>6. CASE req'[r].pc = "replayed" /\ req'[r].receipt.state \in Terminal
  <2>1. StoredState(op) = req'[r].receipt.state
    <3>1. CASE LookupTombstone(r)
      <4>1. HasTomb(op) /\ req'[r].receipt.state = tomb[op].state
        BY <1>0, <1>2, <1>3, <1>6, <3>1 DEF LookupTombstone, ReqType
      <4> QED
        BY <4>1 DEF StoredState
    <3>2. CASE Replay(r)
      <4>1. HasRow(op) /\ req'[r].receipt.state = row[op].state
        BY <1>0, <1>2, <1>3, <1>6, <3>2
        DEF Replay, ReqType, ValidateStartReplayReceipt, Receipt
      <4>2. ~HasTomb(op)
        BY <1>0, <4>1 DEF StoreInv, StoreShape, HasRow, EmptyRow
      <4> QED
        BY <4>1, <4>2 DEF StoredState
    <3> QED
      BY <3>1, <3>2 DEF Tells
  <2>2. StoredKey(op)' = req'[r].key
    BY <1>3, <1>6 DEF RunInv, EffectInv, ReplayInv, AcceptedMeansSameIdentity,
       FullFence, StoredKey, HasTomb
  <2>3. StoredKey(op) = req[r].key
    BY <1>1, <1>2, <2>2 DEF StoredKey, HasTomb
  <2>4. /\ decided[op] # None
        /\ decided[op] = req'[r].receipt.state
        /\ boundIdentity[op] = req'[r].key
    BY <1>0, <1>2, <1>6, <2>1, <2>3, BarValues DEF Terminal
  <2>5. toldOf' = toldOf \cup {<<op, boundIdentity[op], decided[op]>>}
    <3>1. toldOf' = toldOf \cup {<<op, req'[r].key, req'[r].receipt.state>>}
      BY <1>1, <1>2, <1>3, <1>6 DEF toldOf, OpOf, IsTerminalOperationState
    <3> QED
      BY <2>4, <3>1
  <2>6. boundIdentity' = boundIdentity /\ decided' = decided
    BY <1>1 DEF boundIdentity, decided, StoredState, StoredKey, HasTomb
  <2>7. performed' = performed
    <3>1. \A q \in Request : call[q] = "applied" => OpOf(q)' = OpOf(q)
      BY EffectStays DEF RunInv
    <3> QED
      BY <1>1, <3>1 DEF performed, Applied
  <2> QED
    BY <2>4, <2>5, <2>6, <2>7, ContractActions
<1> QED
  BY <1>4, <1>5, <1>6

LEMMA PerformingSteps ==
  ASSUME RunInv, [Next]_vars, NEW r \in Request, Upstream(r)
  PROVE  \/ UNCHANGED <<boundIdentity, performed, decided, toldOf>>
         \/ \E op \in OperationID : Contract!Perform(op, r)
<1>0. StoreInv /\ call \in [Request -> CallState]
  BY DEF RunInv, EffectInv, ReplayInv, StoreInv, TypeInv, TypeOK
<1>1. /\ UNCHANGED <<row, tomb, req>> /\ call[r] = "sent"
      /\ \A q \in Request \ {r} : call'[q] = call[q]
  BY <1>0 DEF Upstream
<1>2. /\ boundIdentity' = boundIdentity /\ decided' = decided
      /\ toldOf' = toldOf
  BY <1>1 DEF boundIdentity, decided, toldOf, StoredState, StoredKey, HasTomb, OpOf
<1>3. CASE call'[r] # "applied"
  <2>1. performed' = performed
    BY <1>1, <1>3 DEF performed, Applied, OpOf
  <2> QED
    BY <1>2, <2>1
<1>4. CASE call'[r] = "applied"
  <2>1. PICK op \in OperationID : op = OpOf(r)
    BY <1>1, EffectStays DEF RunInv
  <2>2. req[r].pc = "created"
    BY <1>1 DEF RunInv, EffectInv, ReplayInv, CallsHaveWorkers, StoreInv, TypeInv,
       KeysPresent
  <2>3. StoredState(op) # "unspecified"
    BY <2>1, <2>2 DEF RunInv, EffectInv, ReplayInv, AnsweredIsStored, Answered
  <2>4. Applied(op) = {}
    <3>1. AtMostOnceSideEffect
      BY DEF RunInv, EffectInv, ReplayInv, OneCreator, CallsHaveWorkers, StoreInv,
         TypeInv, KeysPresent, AtMostOnceSideEffect
    <3> QED
      BY <1>1, <2>1, <3>1 DEF AtMostOnceSideEffect, Applied
  <2>5. Applied(op)' = {r}
    BY <1>1, <1>4, <2>1, <2>4 DEF Applied, OpOf
  <2>6. \A o \in OperationID \ {op} : Applied(o)' = Applied(o)
    BY <1>1, <2>1 DEF Applied, OpOf
  <2>7. performed' = [performed EXCEPT ![op] = {r}] /\ performed[op] = {}
    BY <2>4, <2>5, <2>6 DEF performed
  <2>8. boundIdentity[op] # None
    BY <1>0, <2>3, BarValues
  <2> QED
    BY <1>2, <2>7, <2>8, ContractActions
<1> QED
  BY <1>3, <1>4

LEMMA StoringSteps ==
  ASSUME RunInv, RunInv', [Next]_vars, \A r \in Request : ~Tells(r) /\ ~Upstream(r)
  PROVE  \/ UNCHANGED <<boundIdentity, performed, decided, toldOf>>
         \/ \E op \in OperationID, i \in StartReplayKey : Contract!Admit(op, i)
         \/ \E op \in OperationID, s \in Terminal : Contract!Decide(op, s)
<1>0. StoreInv /\ StoreInv'
  BY DEF RunInv, EffectInv, ReplayInv
<1>1. performed' = performed /\ toldOf' = toldOf
  BY <1>0, PerformedFrame, ToldFrame DEF RunInv
<1>2. CASE \A op \in OperationID : Keeps(op)
  BY <1>1, <1>2, KeepsBars
<1>3. ASSUME NEW op \in OperationID, ~Keeps(op)
      PROVE  \/ UNCHANGED <<boundIdentity, performed, decided, toldOf>>
             \/ \E i \in StartReplayKey : Contract!Admit(op, i)
             \/ \E s \in Terminal : Contract!Decide(op, s)
  <2>1. Creates(op) \/ Advances(op)
    BY <1>0, <1>3, StoreStep DEF StoreInv
  <2>2. \A o \in OperationID \ {op} :
          /\ StoredState(o)' = StoredState(o)
          /\ StoredKey(o)' = StoredKey(o)
    BY <1>0, <1>3, OneOperation DEF Keeps
  <2>3. CASE Creates(op)
    <3>1. PICK i \in StartReplayKey : i = StoredKey(op)'
      BY <1>0 DEF StoreInv, TypeInv, TypeOK, StoredKey, HasTomb, RowType,
         OperationTombstone
    <3>2. boundIdentity' = [boundIdentity EXCEPT ![op] = i]
      BY <2>2, <2>3, <3>1 DEF Creates, boundIdentity
    <3>3. decided' = decided
      BY <2>2, <2>3 DEF Creates, decided, IsTerminalOperationState, Terminal
    <3>4. boundIdentity[op] = None
      BY <1>0, <2>3, BarValues DEF Creates
    <3> QED
      BY <1>1, <3>2, <3>3, <3>4, ContractActions
  <2>4. CASE Advances(op)
    <3>1. /\ StoredState(op) \in Pursuable
          /\ StoredKey(op)' = StoredKey(op)
          /\ StoredState(op)' \in Terminal \cup {"running", "uncertain"}
          /\ StoredState(op)' = row'[op].state
      BY <2>4 DEF Advances, StoredState, StoredKey, HasTomb
    <3>2. StoredState(op) # "unspecified" /\ StoredState(op)' # "unspecified"
      BY <3>1 DEF Pursuable, Terminal
    <3>3. boundIdentity' = boundIdentity
      BY <2>2, <3>1, <3>2 DEF boundIdentity
    <3>4. StoredState(op) \notin Terminal
      BY <3>1 DEF Pursuable, Terminal
    <3>5. CASE StoredState(op)' \notin Terminal
      <4>1. decided' = decided
        BY <2>2, <3>4, <3>5 DEF decided, IsTerminalOperationState
      <4> QED
        BY <1>1, <3>3, <4>1
    <3>6. CASE StoredState(op)' \in Terminal
      <4>1. PICK s \in Terminal : s = StoredState(op)'
        BY <3>6
      <4>2. decided' = [decided EXCEPT ![op] = s]
        BY <2>2, <4>1 DEF decided, IsTerminalOperationState
      <4>3. boundIdentity[op] # None /\ decided[op] = None
        BY <1>0, <3>2, <3>4, BarValues
      <4>4. s = "completed" => performed[op] # {}
        <5>1. row'[op].state = "completed" => row'[op].result \in Applied(op)'
          BY DEF RunInv, EffectInv, EffectsRecorded, Applied, OpOf
        <5>2. performed'[op] = Applied(op)'
          BY DEF performed, Applied, OpOf
        <5> QED
          BY <1>1, <3>1, <4>1, <5>1, <5>2
      <4> QED
        BY <1>1, <3>3, <4>1, <4>2, <4>3, <4>4, ContractActions
    <3> QED
      BY <3>5, <3>6
  <2> QED
    BY <2>1, <2>3, <2>4
<1> QED
  BY <1>2, <1>3

(* With the full replay key fence, rows, workers, tombstones, crashes and  *)
(* retries together are a register written once per operation UUID: bound  *)
(* to one identity, performed at most once, decided at most once, and told *)
(* to every caller under that identity (operation_state.go:22, :117,       *)
(* replay.go:33, :72).                                                     *)
THEOREM LedgerRefinesContract ==
  ASSUME FullFence PROVE Spec => ImplementsContract
<1>1. RunInv /\ RunInv' /\ [Next]_vars => [Contract!Next]_(Contract!vars)
  <2> SUFFICES ASSUME RunInv, RunInv', [Next]_vars
               PROVE  [Contract!Next]_(Contract!vars)
    OBVIOUS
  <2>1. ASSUME NEW r \in Request, Tells(r)
        PROVE  \/ UNCHANGED <<boundIdentity, performed, decided, toldOf>>
               \/ \E op \in OperationID : Contract!Tell(op)
    <3>1. CASE \E op \in OperationID : Contract!Tell(op)
      BY <3>1
    <3>2. CASE toldOf' = toldOf
      <4>1. UNCHANGED <<row, tomb, call>>
        BY <2>1 DEF Tells, LookupTombstone, Replay
      <4>2. boundIdentity' = boundIdentity /\ decided' = decided
        BY <4>1 DEF boundIdentity, decided, StoredState, StoredKey, HasTomb
      <4>3. \A q \in Request : call[q] = "applied" => OpOf(q)' = OpOf(q)
        BY EffectStays DEF RunInv
      <4>4. performed' = performed
        BY <4>1, <4>3 DEF performed, Applied
      <4> QED
        BY <3>2, <4>2, <4>4
    <3> QED
      BY <2>1, <3>1, <3>2, FullFence, TellingSteps
  <2>2. ASSUME NEW r \in Request, Upstream(r)
        PROVE  \/ UNCHANGED <<boundIdentity, performed, decided, toldOf>>
               \/ \E op \in OperationID : Contract!Perform(op, r)
    BY <2>2, PerformingSteps
  <2>3. ASSUME \A r \in Request : ~Tells(r) /\ ~Upstream(r)
        PROVE  \/ UNCHANGED <<boundIdentity, performed, decided, toldOf>>
               \/ \E op \in OperationID, i \in StartReplayKey : Contract!Admit(op, i)
               \/ \E op \in OperationID, s \in Terminal : Contract!Decide(op, s)
    BY <2>3, StoringSteps
  <2>4. UNCHANGED <<boundIdentity, performed, decided, toldOf>>
          => UNCHANGED Contract!vars
    BY DEF Contract!vars, boundIdentity, performed, decided, toldOf
  <2> QED
    BY <2>1, <2>2, <2>3, <2>4 DEF Contract!Next
<1> QED
  BY <1>1, InitContract, RunInvariant, PTL DEF Spec, ImplementsContract, Contract!Spec
=============================================================================

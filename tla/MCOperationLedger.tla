-------------------------- MODULE MCOperationLedger --------------------------
(* OperationLedger for TLC. *)
EXTENDS OperationLedger, TLC

(* One tombstone of an earlier release that kept the UUID and the final    *)
(* request digest, and not the replay key (operation_state.go:26).         *)
LegacyDigestOnly ==
  {[key |-> [NoKey EXCEPT !.operationID = op],
    requestDigest |-> d, state |-> "completed", revision |-> 3] :
     op \in OperationID, d \in RequestDigest}

NoLegacy == {}

(* Requests, grants and owners are only compared.  Used by safety runs. *)
Symmetry == Permutations(Request) \cup Permutations(Grant)
              \cup Permutations(OwnerID)
==============================================================================

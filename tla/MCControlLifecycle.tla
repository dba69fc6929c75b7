------------------------- MODULE MCControlLifecycle -------------------------
(* ControlLifecycle for TLC. *)
EXTENDS ControlLifecycle, TLC

(* What an Agent wants with its operations. *)
CancelAndReconcile == {<<"cancel", "reconcile">>}

Around == {-1, 0, 1}
Chains == Permutations(Uuid)
=============================================================================

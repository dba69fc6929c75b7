---------------------------- MODULE MCCallChain ----------------------------
(* CallChain for TLC. *)
EXTENDS CallChain, TLC

OneSlot == [s \in Service |-> 1]

Symmetry == Permutations(Activation) \cup Permutations(Uuid)
============================================================================

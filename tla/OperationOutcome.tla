-------------------------- MODULE OperationOutcome --------------------------
(***************************************************************************)
(* What the replay contract promises a caller, without rows, workers,      *)
(* crashes or tombstones: an operation UUID is a register written once.    *)
(* It is bound to one identity, its side effect is performed at most once, *)
(* its outcome is decided at most once, and every caller that is told an   *)
(* outcome is told that one, under that identity.                          *)
(***************************************************************************)
CONSTANTS
  OperationID,  \* operation UUIDs
  Identity,     \* replay identities
  Effect,       \* side effects an upstream can perform
  Outcome,      \* terminal outcomes
  None          \* not yet

VARIABLES
  identity,  \* the identity each UUID is bound to
  effect,    \* the side effects performed for it
  outcome,   \* its terminal outcome
  told       \* what callers were told: <<UUID, identity, outcome>>

vars == <<identity, effect, outcome, told>>

TypeOK ==
  /\ identity \in [OperationID -> Identity \cup {None}]
  /\ effect \in [OperationID -> SUBSET Effect]
  /\ outcome \in [OperationID -> Outcome \cup {None}]
  /\ told \subseteq OperationID \X Identity \X Outcome

(* Some operations may have been decided by an earlier release. *)
Init ==
  /\ identity \in [OperationID -> Identity \cup {None}]
  /\ outcome \in [OperationID -> Outcome \cup {None}]
  /\ \A op \in OperationID : identity[op] = None <=> outcome[op] = None
  /\ effect = [op \in OperationID |-> {}]
  /\ told = {}

Admit(op, i) ==
  /\ identity[op] = None
  /\ identity' = [identity EXCEPT ![op] = i]
  /\ UNCHANGED <<effect, outcome, told>>

Perform(op, e) ==
  /\ identity[op] # None
  /\ effect[op] = {}
  /\ effect' = [effect EXCEPT ![op] = {e}]
  /\ UNCHANGED <<identity, outcome, told>>

(* Only an operation whose side effect was performed completes. *)
Decide(op, s) ==
  /\ identity[op] # None
  /\ outcome[op] = None
  /\ s = "completed" => effect[op] # {}
  /\ outcome' = [outcome EXCEPT ![op] = s]
  /\ UNCHANGED <<identity, effect, told>>

Tell(op) ==
  /\ outcome[op] # None
  /\ told' = told \cup {<<op, identity[op], outcome[op]>>}
  /\ UNCHANGED <<identity, effect, outcome>>

Next ==
  \E op \in OperationID :
    \/ \E i \in Identity : Admit(op, i)
    \/ \E e \in Effect : Perform(op, e)
    \/ \E s \in Outcome : Decide(op, s)
    \/ Tell(op)

Spec == Init /\ [][Next]_vars
=============================================================================

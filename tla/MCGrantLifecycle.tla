-------------------------- MODULE MCGrantLifecycle --------------------------
(* GrantLifecycle for TLC. *)
EXTENDS GrantLifecycle

(* The Agent's clock is message-server's, or a tick behind it. *)
Exact == {0}
Behind == {-1}

(* A query and a nested Start, one with a scope the parent may lack. *)
SomeExchanges ==
  {r \in Request :
     /\ r.descriptor # AgentTarget /\ r.rootRequestDigest # AgentDigest
     /\ r.scopes = Scope \ {BrokerScope}
     /\ TargetMatchesChild(r.targetKind, r.childOperationID)
     /\ r.childOperationID # RootOperation}
=============================================================================

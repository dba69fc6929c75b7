---------------------------- MODULE ControlPermit ----------------------------
(***************************************************************************)
(* What control grants promise, without claims, routes, envelopes or       *)
(* clocks that differ: short permits.  A permit lets one action be done on *)
(* one operation, until it runs out or the account is rebuilt, and nothing *)
(* is ever done without a permit that is still good.                       *)
(***************************************************************************)
EXTENDS Naturals

CONSTANTS
  Operation,  \* operation UUIDs
  Action,     \* control actions
  TTL,        \* the longest a permit lasts
  None        \* nothing was done yet

VARIABLES
  now,         \* the clock of the node that issues and honours permits
  generation,  \* the account's generation
  permits,     \* the permits issued so far
  done         \* the control action done last, at this time

vars == <<now, generation, permits, done>>

Permit(operation, action, gen, until) ==
  [operation |-> operation, action |-> action, generation |-> gen,
   until |-> until]

Init == now = 1 /\ generation = 1 /\ permits = {} /\ done = None

Issue ==
  /\ permits \subseteq permits'
  /\ \A p \in permits' \ permits :
       \E op \in Operation, a \in Action, t \in (now + 1)..(now + TTL) :
         p = Permit(op, a, generation, t)
  /\ UNCHANGED <<now, generation, done>>

Act ==
  /\ \E op \in Operation, a \in Action, p \in permits :
       /\ p = Permit(op, a, generation, p.until)
       /\ now < p.until
       /\ done' = [operation |-> op, action |-> a]
  /\ UNCHANGED <<now, generation, permits>>

Rebuild ==
  /\ generation' = generation + 1
  /\ UNCHANGED <<now, permits, done>>

Tick ==
  /\ now' = now + 1
  /\ done' = None
  /\ UNCHANGED <<generation, permits>>

Next == Issue \/ Act \/ Rebuild \/ Tick

Spec == Init /\ [][Next]_vars
=============================================================================

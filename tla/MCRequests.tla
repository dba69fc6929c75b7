----------------------------- MODULE MCRequests -----------------------------
(***************************************************************************)
(* Admission of requests at the Agent and at Product: root requests put    *)
(* together from all the parts of two attempts, root requests while        *)
(* catalogs, files and the account change, and nested requests.            *)
(***************************************************************************)
EXTENDS RequestPaths, TLC

CONSTANTS
  u1, u2, owner1, execute, read, write,
  run, list,         \* operations of the Agent: a Start and a query
  chat, send, find,  \* the root operation, a nested Start, a nested query
  one, empty, file

MCUuid == {u1, u2}
MCToken == {}
MCOwnerID == {owner1}
MCScope == {execute, read, write}
MCInput == {one, empty}
MCQueries == {list, find}
MCCatalog == {1, 2, 3}

Operations == {run, list, chat, send, find}

(* The schema of an operation changes with the third catalog. *)
MCSchemaOf(operation, n) == IF n < 3 THEN 1 ELSE 2

MCDescriptor == [operation: Operations, schema: {1, 2}, catalog: MCCatalog]

MCRootDigest ==
  [schema: {1, 2}, operation: Operations, revision: -1..1, input: MCInput,
   attachments: {Nil, <<>>, <<file>>}, grant: {Nil}]

Ask(operation, revision, input) ==
  [operation |-> operation, revision |-> revision, input |-> input]

(* The sets of scopes granted, and the scope of a Product operation. *)
MCGrantedScopes == {{execute}}
MCScopeOf(operation) == IF operation = find THEN read ELSE write

MCBusiness ==
  {Ask(run, 0, one), Ask(run, -1, one), Ask(run, 0, Nil), Ask(list, 0, one)}
MCNestedBusiness == {Ask(send, 0, one), Ask(find, 0, one)}

MCAttached == {<<>>, <<file>>}

(* Starts and queries of every kind, and all that may be mixed up in them. *)
MixedUp ==
  [operations |-> MCUuid, business |-> MCBusiness, generations |-> 1,
   catalogs |-> {1}, attached |-> {<<file>>}, mixed |-> Part, until |-> 1]

(* The grant and its account may be exchanged, and time moves on: three    *)
(* catalogs and the files in one setting, the account and the first two    *)
(* catalogs in the other.                                                  *)
Changing(op, generations, catalogs, attached) ==
  [operations |-> {op}, business |-> {Ask(run, 0, one)},
   generations |-> generations, catalogs |-> catalogs, attached |-> attached,
   mixed |-> {"grant", "principal"}, until |-> 3]

Upgraded(op) == Changing(op, 1, MCCatalog, MCAttached)
Rebuilt(op) == Changing(op, 2, {1, 2}, {<<file>>})

MCSetting == {MixedUp} \cup UNION {{Upgraded(op), Rebuilt(op)} : op \in MCUuid}

(* Two exchanges under two root operations, and two nested requests. *)
MCRootDescriptor == [operation |-> chat, schema |-> 1, catalog |-> 1]
MCRootBusiness == ComputeRootRequestDigest(MCRootDescriptor, 0, one, <<>>)
MCNestedMixed == Part \ {"principal", "ctx"}

Symmetry == Permutations(MCUuid)

-----------------------------------------------------------------------------
ASSUME RequestAssumption ==
  /\ InputAssumption /\ OwnerAssumption /\ DigestAssumption
  /\ BusinessAssumption /\ DescriptorAssumption /\ AbsenceAssumption
  /\ CatalogAssumption /\ SettingAssumption /\ TimeAssumption
  /\ ScopesAssumption
  /\ Nested!DeadlineAssumption /\ Nested!BusinessAssumption
  /\ Nested!MaxTimeAssumption
=============================================================================

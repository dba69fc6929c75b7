---------------------------- MODULE RequestPaths ----------------------------
(***************************************************************************)
(* The two ways a request takes: root requests from message-server to the  *)
(* Agent, which are Admission, and nested ones from the Agent to Product.  *)
(* A behaviour stays on one path.  Nested is an instance of the module     *)
(* that proves ProductAdmission's theorems, so that they are about it.     *)
(***************************************************************************)
EXTENDS Admission

CONSTANTS
  RootDescriptor, RootBusiness, RootScopes, BrokerScope, ScopeOf(_), Deadline,
  MaxExchanges,     \* those of ProductAdmission
  NestedBusiness,   \* its Business
  NestedMixed,      \* its MixedParts
  NestedMaxTime     \* its MaxTime

VARIABLE part       \* the path; nothing changes it

Nested ==
  INSTANCE ProductAdmissionProofs
    WITH Business <- NestedBusiness, MixedParts <- NestedMixed,
         MaxTime <- NestedMaxTime, children <- signed

pathVars == <<part, vars>>

PathsInit ==
  \/ part = "root" /\ Init
  \/ /\ part = "nested" /\ Nested!Init
     /\ setting = Nil /\ files = <<>> /\ ledger = Nil

RootStep == part = "root" /\ Next /\ UNCHANGED part
NestedStep ==
  part = "nested" /\ Nested!Next /\ UNCHANGED <<part, setting, files, ledger>>

PathsNext == RootStep \/ NestedStep

PathsSpec == PathsInit /\ [][PathsNext]_pathVars

-----------------------------------------------------------------------------
(* Every variable has its type; the request of a row, and whatever Product *)
(* took, is canonical (validation.go:120), and a child's operation fits    *)
(* its kind (product_delegation.go:107).                                   *)
PathsTypeOK ==
  /\ part = "root" => TypeOK
  /\ part = "nested" => Nested!TypeOK

(* However a request was put together, whatever is taken is one business   *)
(* that a grant was signed for, in the account, schema and catalog of now, *)
(* and its final digest goes with just that grant: at the Agent for root   *)
(* requests, at Product for nested ones, whose child is for its own scope  *)
(* only (idempotency.go:62, :92; validation.go:92, :131; grant.go:267;     *)
(* product_delegation.go:151, :163).                                       *)
TakenIsSigned ==
  /\ part = "root" => AdmittedAsSigned /\ DigestGoesWithItsGrant
  /\ part = "nested" =>
       /\ Nested!TakenAsExchanged /\ Nested!DigestGoesWithItsChild
       /\ Nested!BrokerScopeStays

(* A Start that is answered from the ledger asks for just what the first   *)
(* one asked for, and one that conflicts for something else: the grant,    *)
(* the chain and the catalog alone never decide (replay.go:75).            *)
ReplayIsExact == part = "root" => ReplayIsSameBusiness /\ ConflictIsReal

(* No check refuses what the one before it let through: what passed the    *)
(* entry passes the Agent, and what the broker signed passes Product, as   *)
(* long as the catalogs, the files and the account are those it was signed *)
(* for and the grant runs (grant.go:660, product_delegation.go:68).        *)
PassedIsTaken ==
  /\ part = "root" => EntryCheckSuffices
  /\ part = "nested" => Nested!ExchangedIsTaken
=============================================================================

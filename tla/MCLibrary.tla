------------------------------ MODULE MCLibrary ------------------------------
(***************************************************************************)
(* The parts of the library that keep no state: those of Library, and the  *)
(* numbers beside them.  A behaviour stays in one part; number and from    *)
(* are the variables of the numbers, and None elsewhere.                   *)
(***************************************************************************)
EXTENDS Library

CONSTANTS
  u1, t1, owner1, message, d1,  \* the one call that grants are signed for
  k1, k2,                       \* key pairs
  l1, l2, l3                    \* locations of Go values

VARIABLES number, from

mcVars == <<libraryVars, number, from>>

-----------------------------------------------------------------------------
(* Floats of four bits; integers of four digits, fractions of two. *)
Numbers ==
  INSTANCE CanonicalNumber
    WITH Precision <- 4, MinExponent <- -8, MaxExponent <- 7,
         DecimalLow <- -2, DecimalHigh <- 3,
         GeneralLow <- -1, GeneralHigh <- 1,
         MaxCoefficient <- 1999, MaxFraction <- 99, MaxTen <- 3,
         MaxWireTen <- 1, text <- number

(* U+0061, U+FB33, U+1F600, a line feed and U+0001: names that tell the    *)
(* orders and the spellings apart.                                         *)
One(point, spelling) == <<[point |-> point, spelling |-> spelling]>>

MCSpelled == {
  <<>>,
  One(97, "literal"), One(97, "unicode"),
  One(97, "literal") \o One(10, "short"),
  One(64307, "literal"), One(128512, "unicode"), One(1, "unicode")}

Canonical == INSTANCE CanonicalText

MCCanonicalForms(value) == Canonical!CanonicalizeValue(value)

-----------------------------------------------------------------------------
(* Two instances, and tokens of one byte. *)
MCInstance == {"agent-1", "ms-1"}
MCRawTokens == {<<0>>, <<90>>, <<255>>}

-----------------------------------------------------------------------------
(* A tab, a space, two letters, DEL, NEL, a no-break space, the arrow and  *)
(* a byte that is no UTF-8.                                                *)
Characters == {9, 32, 97, 98, 127, 133, 160, 8594, 65533}

UpTo(n, S) == UNION {[1..k -> S] : k \in 0..n}

ScopeNames == {<<97>>, <<97, 98>>, <<98>>, <<97, 97, 98>>, <<32, 97>>, <<>>}

MCNames == UpTo(3, Characters)
MCLists == UpTo(3, ScopeNames)

(* Three slices, maps and pointers, with a leaf that is refused. *)
MCLocation == {l1, l2, l3}

-----------------------------------------------------------------------------
(* One call from message-server to the Agent, and the grants signed for it. *)
MCUuid == {u1}
MCToken == {t1}
MCOwnerID == {owner1}
MCScope == {1, 2, 3}
MCDescriptor == {message}
MCRootDigest == {d1}
MCKeyPair == {k1, k2}

Call == [chainID |-> u1, rootOperationID |-> u1, parentCallID |-> Missing,
         hop |-> 2, route |-> <<"ms", "agent">>, deadline |-> 2]

RootGrant ==
  [NoGrant EXCEPT !.chainID = u1, !.rootOperationID = u1,
     !.ownerID = owner1, !.accountGeneration = 1, !.descriptor = message,
     !.rootRequestDigest = d1, !.entryRoute = <<"ms">>, !.entryHop = 1,
     !.maxHop = 3, !.scopes = {1}]

(* One that fits any limit, one that needs a larger one, and a child. *)
SomeRoots ==
  {RootGrant, [RootGrant EXCEPT !.scopes = {1, 2, 3}],
   [RootGrant EXCEPT !.grantKind = "product-child", !.productTargetKind = "query"]}

SomeControls ==
  {[NoControlGrant EXCEPT !.chainID = u1, !.ownerID = owner1,
      !.accountGeneration = 1, !.operationID = u1, !.controlAction = "cancel",
      !.controlScope = ControlScope("cancel"), !.entryRoute = <<"ms">>,
      !.entryHop = 1]}

MCAgentBinding ==
  {[ctx |-> Call, rootOperationID |-> u1, ownerID |-> owner1,
    accountGeneration |-> 1, rootRequestDigest |-> d1, requiredScopes |-> {1},
    descriptor |-> message]}

MCAgentControl ==
  {[ctx |-> Call, ownerID |-> owner1, accountGeneration |-> 1,
    operationID |-> u1, controlAction |-> "cancel",
    controlScope |-> ControlScope("cancel")]}

(* The defaults, and limits above them. *)
Defaults == [maxTTL |-> 0, clockSkew |-> 0, maxSize |-> 0]
SomeCodecs == {Defaults, [Defaults EXCEPT !.maxTTL = 5, !.maxSize = 5]}

(* Texts of several sizes and releases, carried by others. *)
Carrying ==
  [signer |-> {PemFile(Block("PRIVATE KEY", k1)), RawPublic(k1)},
   reader |-> {PemFile(Block("PUBLIC KEY", k1))},
   codec |-> SomeCodecs, roots |-> SomeRoots, controls |-> SomeControls,
   edited |-> {}, spellings |-> Spelling]

(* A proper key, one whose halves are of two pairs, and a public key; key  *)
(* files as they are stored, published and edited.                         *)
KeyKeeping ==
  [signer |-> {RawPrivate(k1, k1), RawPrivate(k1, k2), RawPublic(k1)},
   reader |-> {RawPublic(k1)},
   codec |-> {Defaults}, roots |-> {RootGrant}, controls |-> {},
   edited |-> {k2}, spellings |-> {}]

MCSetting == {Carrying, KeyKeeping}

-----------------------------------------------------------------------------
ASSUME RouteAssumption ==
  Boundary!ForeignAssumption /\ Boundary!LengthAssumption
ASSUME NumberAssumption ==
  /\ Numbers!FloatAssumption /\ Numbers!ThresholdAssumption
  /\ Numbers!GeneralFormatAssumption
ASSUME TextAssumption ==
  Strings!MaxChunksAssumption /\ Texts!BoundAssumption /\ Texts!SpelledAssumption
ASSUME WalkAssumption == Walk!HeapAssumption
ASSUME MetadataAssumption == Metadata!SizeAssumption
ASSUME ListAssumption == Scopes!LimitAssumption /\ Scopes!ItemAssumption
ASSUME GrantAssumption ==
  /\ SizeAssumption /\ SpellingAssumption /\ EditedAssumption
  /\ KeyAssumption /\ ClaimsAssumption

-----------------------------------------------------------------------------
NoPart ==
  NoRoute /\ NoString /\ NoWalk /\ NoList /\ NoPeer /\ NoJson /\ NoTransit

MCInit ==
  \/ LibraryInit /\ number = None /\ from = None
  \/ part = "numbers" /\ Numbers!Init /\ NoPart

LibraryStep == LibraryNext /\ UNCHANGED <<number, from>>
NumberStep == part = "numbers" /\ Numbers!Next /\ UNCHANGED libraryVars

MCNext == LibraryStep \/ NumberStep

MCSpec == MCInit /\ [][MCNext]_mcVars

-----------------------------------------------------------------------------
(* What is canonical stays what it is.  Numbers: equal float64s have one   *)
(* canonical number wherever they come from, integers are not rounded,     *)
(* floats are not refused, and a canonical number is its own canonical     *)
(* form unless it is an integer that binary64 no longer holds one by one,  *)
(* as it does every account generation.  Texts: the canonical text of      *)
(* whatever was accepted is accepted again, as it is (idempotency.go:240,  *)
(* :420, :445, :456; metadata.go:68; conformance_test.go:274-280).         *)
CanonicalFormsStay ==
  /\ part = "numbers" =>
       /\ Numbers!TypeOK
       /\ Numbers!OneTextPerFloat /\ Numbers!IntegersAreNotRounded
       /\ Numbers!FloatsAreAccepted /\ Numbers!CanonicalIsStable
       /\ Numbers!GenerationIsExact
  /\ part = "texts" => Texts!CanonicalAgain
=============================================================================

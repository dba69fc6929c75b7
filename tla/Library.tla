------------------------------- MODULE Library -------------------------------
(***************************************************************************)
(* Parts of the library that keep no state, side by side: each one over    *)
(* its own inputs, from "part" on.  A behaviour stays in one part, and the *)
(* variables of the others hold None.  GrantTransit is the part "grants".  *)
(***************************************************************************)
EXTENDS GrantTransit

CONSTANTS
  Foreign, MaxLength,               \* those of RouteBoundary
  MaxChunks, MaxOutside,            \* those of JsonStrings
  Location, Root, Leaf, MaxItems,   \* those of CanonicalWalk
  MaxName, MaxScope, Names, Lists,  \* those of ScopeLists
  CapabilityTokenBytes, MaxInteger, Instance, RawTokens, Generations,
  MaxText,                          \* those of PeerMetadata
  Spelled, CanonicalForms(_), MaxTokens, MaxDepth  \* those of CanonicalJson

VARIABLES
  part,                           \* the part; nothing changes it
  wire,                           \* those of RouteBoundary
  chunks, mode,                   \* those of JsonStrings
  heap, stack, visiting, state,   \* those of CanonicalWalk
  name, left, right, verdict,     \* those of ScopeLists
  peer, values, stage, seen,      \* those of PeerMetadata
  tokens, frames, decoded, reading, rewritten  \* those of CanonicalJson

Boundary == INSTANCE RouteBoundary
Strings == INSTANCE JsonStrings WITH text <- chunks
Walk == INSTANCE CanonicalWalk
Scopes == INSTANCE ScopeLists
Metadata ==
  INSTANCE PeerMetadata
    WITH sent <- peer, wire <- values, state <- stage, parsed <- seen
Texts ==
  INSTANCE CanonicalJson WITH text <- tokens, stack <- frames, state <- reading,
                               canonical <- rewritten

stringVars == <<chunks, mode>>
walkVars == <<heap, stack, visiting, state>>
listVars == <<name, left, right, verdict>>
peerVars == <<peer, values, stage, seen>>
textVars == <<tokens, frames, decoded, reading, rewritten>>
libraryVars ==
  <<part, wire, stringVars, walkVars, listVars, peerVars, textVars, vars>>

NoRoute == wire = None
NoString == chunks = None /\ mode = None
NoWalk == heap = None /\ stack = None /\ visiting = None /\ state = None
NoList == name = None /\ left = None /\ right = None /\ verdict = None
NoPeer == peer = None /\ values = None /\ stage = None /\ seen = None
NoJson == /\ tokens = None /\ frames = None /\ decoded = None
          /\ reading = None /\ rewritten = None
NoTransit == /\ setting = None /\ signerFile = None /\ readerFile = None
             /\ signerKey = None /\ readerKey = None
             /\ signed = None /\ text = None /\ read = None

LibraryInit ==
  \/ /\ part = "routes" /\ Boundary!Init
     /\ NoString /\ NoWalk /\ NoList /\ NoPeer /\ NoJson /\ NoTransit
  \/ /\ part = "strings" /\ Strings!Init
     /\ NoRoute /\ NoWalk /\ NoList /\ NoPeer /\ NoJson /\ NoTransit
  \/ /\ part = "walk" /\ Walk!Init
     /\ NoRoute /\ NoString /\ NoList /\ NoPeer /\ NoJson /\ NoTransit
  \/ /\ part = "lists" /\ Scopes!Init
     /\ NoRoute /\ NoString /\ NoWalk /\ NoPeer /\ NoJson /\ NoTransit
  \/ /\ part = "metadata" /\ Metadata!Init
     /\ NoRoute /\ NoString /\ NoWalk /\ NoList /\ NoJson /\ NoTransit
  \/ /\ part = "texts" /\ Texts!Init
     /\ NoRoute /\ NoString /\ NoWalk /\ NoList /\ NoPeer /\ NoTransit
  \/ /\ part = "grants" /\ Init
     /\ NoRoute /\ NoString /\ NoWalk /\ NoList /\ NoPeer /\ NoJson

RouteStep ==
  /\ part = "routes" /\ Boundary!Next
  /\ UNCHANGED <<part, stringVars, walkVars, listVars, peerVars, textVars, vars>>

StringStep ==
  /\ part = "strings" /\ Strings!Next
  /\ UNCHANGED <<part, wire, walkVars, listVars, peerVars, textVars, vars>>

WalkStep ==
  /\ part = "walk" /\ Walk!Next
  /\ UNCHANGED <<part, wire, stringVars, listVars, peerVars, textVars, vars>>

ListStep ==
  /\ part = "lists" /\ Scopes!Next
  /\ UNCHANGED <<part, wire, stringVars, walkVars, peerVars, textVars, vars>>

MetadataStep ==
  /\ part = "metadata" /\ Metadata!Next
  /\ UNCHANGED <<part, wire, stringVars, walkVars, listVars, textVars, vars>>

TextStep ==
  /\ part = "texts" /\ Texts!Next
  /\ UNCHANGED <<part, wire, stringVars, walkVars, listVars, peerVars, vars>>

GrantStep ==
  /\ part = "grants" /\ Next
  /\ UNCHANGED <<part, wire, stringVars, walkVars, listVars, peerVars, textVars>>

LibraryNext ==
  \/ RouteStep \/ StringStep \/ WalkStep \/ ListStep \/ MetadataStep \/ TextStep
  \/ GrantStep

LibrarySpec == LibraryInit /\ [][LibraryNext]_libraryVars

-----------------------------------------------------------------------------
(* The variables of each part have their types.  The walk remembers just   *)
(* the addresses it is inside of, metadata that is read is well formed, an *)
(* object that waits for a value has its name, and key material that is    *)
(* read is of its pairs (callcontext.go:37, idempotency.go:240, :578,      *)
(* replay.go:284, metadata.go:98, grant.go:380).                           *)
LibraryTypeOK ==
  /\ part = "routes" => wire.route \in Seq(Node \cup {Foreign})
  /\ part = "strings" => Strings!TypeOK
  /\ part = "walk" => Walk!TypeOK
  /\ part = "lists" => Scopes!TypeOK
  /\ part = "metadata" => Metadata!TypeOK
  /\ part = "texts" => Texts!TypeOK
  /\ part = "grants" => TypeOK

(* Whatever context a message holds, Product accepts exactly those that    *)
(* came along a private path from the Agent, and what a receiver returns   *)
(* can be sent on as it is (callcontext.go:112, :158, :243, :263).         *)
BoundariesAreExact ==
  part = "routes" =>
    Boundary!ProductBoundaryIsExact /\ Boundary!AdvanceThenSendIsStable

(* Nothing of a JSON text is lost in reading it: no member, as a name that *)
(* comes twice is refused, and no character of a string, as the scan lets  *)
(* nothing pass that is replaced; and what the scan refuses is broken or   *)
(* unfinished, whatever follows (idempotency.go:578, :630, :652, :672).    *)
NothingIsLostInReading ==
  /\ part = "strings" => Strings!NothingIsReplaced /\ Strings!OnlyBrokenTextIsRefused
  /\ part = "texts" => Texts!NoMemberIsLost

(* A value has one canonical text, in whatever order Go walks its maps,    *)
(* with its names in the order of RFC 8785 (idempotency.go:348, :356,      *)
(* :519).                                                                  *)
OneTextPerValue == part = "texts" => Texts!OneTextPerValue /\ Texts!NamesInOrder

(* The walk over a Go value ends, writes what is shared each time, and     *)
(* refuses only an address that is within itself (idempotency.go:236-253). *)
RefusedOnlyIfNested ==
  part = "walk" => Walk!DepthIsBounded /\ Walk!RefusedOnlyIfNested

(* Lists of scopes that were accepted compare as sets, and a name that a   *)
(* grant may hold has a replay key (replay.go:256, :284,                   *)
(* product_delegation.go:354).                                             *)
ListsAreSets ==
  part = "lists" => Scopes!ListsAreSets /\ Scopes!GrantedNameHasKey

(* Metadata that may be sent is read as it was meant, and each identity is *)
(* accepted in one spelling only, whatever is on the wire (metadata.go:80, *)
(* :107, :131, :146).                                                      *)
IdentityHasOneSpelling ==
  part = "metadata" => Metadata!AcceptedIsCanonical /\ Metadata!SentIsReadBack

(* Whatever the Agent reads out of a text was signed as that kind of       *)
(* grant, with its own key, in every field (grant.go:238, :580, :797).     *)
GrantReadAsSigned == part = "grants" => ReadAsSigned

(* An untouched text is accepted exactly when its claims are, if it fits   *)
(* and the halves of the signing key agree (grant.go:187, :220, :380).     *)
GrantTextIsItsClaims == part = "grants" => TextIsItsClaims

(* A key file that is stored, published or edited yields the key that it   *)
(* yielded last or is refused, unless the block of that key was damaged    *)
(* (grant.go:380, :409, :434, :458, :462-474).                             *)
KeyStaysOrIsRefused == [][part = "grants" => KeyStays]_libraryVars
=============================================================================

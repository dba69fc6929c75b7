---------------------------- MODULE CanonicalWalk ----------------------------
(***************************************************************************)
(* Canonicalize on a Go value (canonicalizeValue, idempotency.go): the     *)
(* walk over slices, maps and pointers that share memory or contain        *)
(* themselves, which keeps the addresses it is inside of in "visiting".    *)
(*                                                                         *)
(* A heap gives each location what it holds.  A map is walked like a       *)
(* slice.  A prefix s[:n] and a pointer &s[0] have the address of s.  The  *)
(* other values are leaves: only what the walk does with them matters, and *)
(* a struct is one, for encoding/json writes it and the text is read back. *)
(***************************************************************************)
EXTENDS Integers, FiniteSets, Sequences, SequencesExt

CONSTANTS
  Location,  \* where slices, maps and pointers are
  Root,      \* the value that is canonicalized
  Leaf,      \* a subset of LeafKind: the leaves a heap may hold
  MaxItems   \* bound: the length of a slice

LeafKind == {"text", "nil", "brokenText", "structWithBrokenText", "channel"}

HeapAssumption ==
  /\ IsFiniteSet(Location)
  /\ Root \in Location /\ Location \cap Leaf = {}
  /\ Leaf \subseteq LeafKind /\ MaxItems \in Nat

Value == Location \cup Leaf

Holding ==
  [kind : {"slice"}, items : BoundedSeq(Value, MaxItems)]
  \cup [kind : {"pointer"}, to : Value]
  \cup [kind : {"prefix"}, of : Location, length : 0..MaxItems]
  \cup [kind : {"first"}, of : Location]

IsHeap(h) ==
  \A l \in Location :
    /\ h[l].kind = "prefix" =>
         h[h[l].of].kind = "slice" /\ h[l].length <= Len(h[h[l].of].items)
    /\ h[l].kind = "first" =>
         h[h[l].of].kind = "slice" /\ Len(h[h[l].of].items) > 0

-----------------------------------------------------------------------------
VARIABLES
  heap,      \* what each location holds; nothing changes it
  stack,     \* the calls that are under way, each with the items it has done
  visiting,  \* the addresses that the walk is inside of
  state      \* "walking", "written", "cyclic" or "unsupported"

vars == <<heap, stack, visiting, state>>

Address(l) == IF heap[l].kind \in {"prefix", "first"} THEN heap[l].of ELSE l

Items(l) ==
  CASE heap[l].kind = "slice" -> heap[l].items
    [] heap[l].kind = "pointer" -> <<heap[l].to>>
    [] heap[l].kind = "prefix" -> SubSeq(heap[heap[l].of].items, 1, heap[l].length)
    [] heap[l].kind = "first" -> <<heap[heap[l].of].items[1]>>

Call(l) == [at |-> l, done |-> 0]

Init ==
  /\ heap \in {h \in [Location -> Holding] : IsHeap(h)}
  /\ stack = <<Call(Root)>>
  /\ visiting = {Address(Root)}
  /\ state = "walking"

Top == Last(stack)

NextItem == Items(Top.at)[Top.done + 1]

(* encoding/json replaces broken text, so a struct that holds it passes. *)
LeafIsWritten(leaf) == leaf \notin {"brokenText", "channel"}

WriteLeaf ==
  /\ state = "walking" /\ stack # <<>>
  /\ Top.done < Len(Items(Top.at))
  /\ NextItem \in Leaf
  /\ IF LeafIsWritten(NextItem)
     THEN /\ stack' = Append(Front(stack), [Top EXCEPT !.done = @ + 1])
          /\ UNCHANGED state
     ELSE /\ state' = "unsupported"
          /\ UNCHANGED stack
  /\ UNCHANGED <<heap, visiting>>

Remembered(l) == {Address(l)}

Enter ==
  /\ state = "walking" /\ stack # <<>>
  /\ Top.done < Len(Items(Top.at))
  /\ NextItem \in Location
  /\ IF Remembered(NextItem) \subseteq visiting /\ Remembered(NextItem) # {}
     THEN state' = "cyclic" /\ UNCHANGED <<stack, visiting>>
     ELSE /\ stack' = Append(stack, Call(NextItem))
          /\ visiting' = visiting \cup Remembered(NextItem)
          /\ UNCHANGED state
  /\ UNCHANGED heap

(* Mutant: an address is never forgotten. *)
MutantForget(l) == visiting

(* The deferred deletion. *)
Forget(l) == visiting \ {Address(l)}

Return ==
  /\ state = "walking" /\ stack # <<>>
  /\ Top.done = Len(Items(Top.at))
  /\ visiting' = Forget(Top.at)
  /\ LET callers == Front(stack)
     IN IF callers = <<>>
        THEN stack' = <<>> /\ state' = "written"
        ELSE /\ stack' = [callers EXCEPT ![Len(callers)].done = @ + 1]
             /\ UNCHANGED state
  /\ UNCHANGED heap

Next == WriteLeaf \/ Enter \/ Return

Spec == Init /\ [][Next]_vars

-----------------------------------------------------------------------------
(* What lies below a location. *)

ItemsOf(l) == {Items(l)[i] : i \in DOMAIN Items(l)}

Below(l) ==
  LET within[n \in 0..Cardinality(Location)] ==
        IF n = 0 THEN ItemsOf(l)
        ELSE within[n - 1] \cup UNION {ItemsOf(m) : m \in within[n - 1] \cap Location}
  IN within[Cardinality(Location)]

Reached == {Root} \cup Below(Root)

ContainsItself == \E l \in Reached \cap Location : l \in Below(l)

(* Something is inside of what has the same address. *)
AddressRepeats ==
  \E l \in Reached \cap Location :
    \E m \in Below(l) \cap Location : Address(l) = Address(m)

-----------------------------------------------------------------------------
(* Properties *)

(* The walk remembers the addresses it is inside of, and each call only    *)
(* once.                                                                   *)
TypeOK ==
  /\ state \in {"walking", "written", "cyclic", "unsupported"}
  /\ visiting = {Address(stack[i].at) : i \in DOMAIN stack}
  /\ state = "written" <=> stack = <<>>

(* The recursion ends: it is never deeper than there are locations, even   *)
(* in a value that contains itself (idempotency.go:236, :249).             *)
DepthIsBounded == Len(stack) <= Cardinality(Location)

(* What is shared but not nested is written each time it comes up: only    *)
(* an address within itself is refused, and that is a value that contains  *)
(* itself, unless it is a prefix of a slice or a pointer to its first      *)
(* item, kept inside that slice (idempotency.go:240, :253).                *)
RefusedOnlyIfNested ==
  /\ state = "cyclic" => AddressRepeats
  /\ state = "written" => ~AddressRepeats
  /\ state = "cyclic" /\ ~ContainsItself =>
       \E l \in Reached \cap Location : heap[l].kind \in {"prefix", "first"}

=============================================================================

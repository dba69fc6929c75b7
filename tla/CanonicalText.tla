---------------------------- MODULE CanonicalText ----------------------------
(* The canonical texts of a value (canonicalizeValue in idempotency.go).   *)
EXTENDS JsonValues

RECURSIVE CanonicalizeValue(_)
CanonicalizeValue(value) == TextsOf(value, CanonicalizeValue)
=============================================================================

-------------------------- MODULE MCCanonicalNumber --------------------------
(* CanonicalNumber for TLC, which reads no negative number in a cfg. *)
EXTENDS CanonicalNumber

SmallMinExponent == -8
SmallDecimalLow == -2
SmallGeneralLow == -1
=============================================================================

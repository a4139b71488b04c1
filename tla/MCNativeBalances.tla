-------------------------- MODULE MCNativeBalances --------------------------
(* Instances of NativeBalances for TLC. *)
EXTENDS NativeBalances

CONSTANTS s1, s2, o1, o2

GainOrLoss == {-1, 1}
=============================================================================

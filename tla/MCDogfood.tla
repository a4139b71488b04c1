----------------------------- MODULE MCDogfood -----------------------------
(* Instances of Dogfood for TLC. *)
EXTENDS Dogfood, TLC

CONSTANTS k1, k2, k3

KeySymmetry == Permutations({k1, k2, k3})
=============================================================================

--------------------------- MODULE MCVotingPower ---------------------------
(* Instances of VotingPower for TLC. *)
EXTENDS VotingPower, TLC

CONSTANTS o1, o2

OperatorSymmetry == Permutations({o1, o2})
=============================================================================

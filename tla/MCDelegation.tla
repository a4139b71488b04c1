---------------------------- MODULE MCDelegation ----------------------------
(***************************************************************************)
(* Instances of the restaking ledger for TLC.                              *)
(***************************************************************************)
EXTENDS Delegation, TLC

CONSTANTS s1, s2, o1, o2

\* Stakers differ only where an account is also an operator (native), and
\* no operator is distinguished.
StakerSymmetry == Permutations({s1, s2})
OperatorSymmetry == Permutations({o1, o2})
=============================================================================

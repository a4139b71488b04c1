------------------------------ MODULE MCRewards ------------------------------
(***************************************************************************)
(* Instances of Rewards for TLC.                                           *)
(***************************************************************************)
EXTENDS Rewards

CONSTANTS s1, s2

TwoDeposits == (s1 :> 1) @@ (s2 :> 2)
=============================================================================

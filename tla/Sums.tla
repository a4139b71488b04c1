-------------------------------- MODULE Sums --------------------------------
(***************************************************************************)
(* Finite sums, the arithmetic the ledger invariants are stated in.        *)
(*                                                                         *)
(* The chain never computes these sums: the stores keep running totals     *)
(* (a pool's TotalShare, a staker's PendingUndelegationAmount) beside the  *)
(* entries they summarise.  "The running total is the sum of the entries"  *)
(* is what the invariants of the other modules say, and the lemmas of      *)
(* ArithmeticProofs are what their proofs use: what one changed entry does *)
(* to a sum.                                                               *)
(*                                                                         *)
(* Sum is a recursive function over the subsets of the domain, so that TLC *)
(* can evaluate it; that the recursion has a solution is itself proved     *)
(* (PartialSumsExist), by induction over the subsets of a finite set.      *)
(***************************************************************************)
EXTENDS Integers, FiniteSets

Pick(s) == CHOOSE x \in s : TRUE

PartialSums(f) ==
  LET sum[s \in SUBSET DOMAIN f] ==
        IF s = {} THEN 0 ELSE f[Pick(s)] + sum[s \ {Pick(s)}]
  IN  sum

\* The sum of all values of the function f, whose domain is a finite set.
Sum(f) == PartialSums(f)[DOMAIN f]

\* g is the function of partial sums of f over the subsets in D.
IsPartialSums(g, f, D) ==
  g = [s \in D |-> IF s = {} THEN 0 ELSE f[Pick(s)] + g[s \ {Pick(s)}]]
=============================================================================

----------------------------- MODULE ShareMath ------------------------------
(***************************************************************************)
(* The share arithmetic of x/delegation/keeper/share.go.                   *)
(*                                                                         *)
(* A LegacyDec is an integer number of units of 10^-18; here a decimal is  *)
(* an integer number of units of 1/Precision, and every operation is the   *)
(* operation cosmossdk.io/math performs on that integer: MulInt is exact,  *)
(* QuoInt truncates, Mul and Quo round half to even.  Shares, totals and   *)
(* proportions are decimals; token amounts are plain integers.             *)
(***************************************************************************)
EXTENDS Integers

CONSTANT Precision          \* units per 1, 10^18 in the code

ASSUME PrecisionAssumption ==
  Precision \in Nat /\ Precision >= 2 /\ Precision % 2 = 0

One == Precision            \* the decimal 1

Dec(n) == n * Precision     \* NewDecFromInt

TruncateInt(d) == d \div Precision

\* n carries one factor Precision too many; drop it, half to even.
ChopPrecisionAndRound(n) ==
  LET quo  == n \div Precision
      rem  == n % Precision
      half == Precision \div 2
  IN  IF rem < half \/ (rem = half /\ quo % 2 = 0) THEN quo ELSE quo + 1

Mul(d1, d2) == ChopPrecisionAndRound(d1 * d2)

Quo(d1, d2) == ChopPrecisionAndRound((d1 * Precision * Precision) \div d2)

MinOf(x, y) == IF x <= y THEN x ELSE y
-----------------------------------------------------------------------------
(***************************************************************************)
(* Tokens a number of shares stands for.  The error returns are a          *)
(* predicate of their own, so that a caller's guard can name them.         *)
(***************************************************************************)
TokensFromSharesFails(stakerShare, totalShare, totalAmount) ==
  \/ stakerShare > totalShare
  \/ totalShare = 0 /\ totalAmount # 0

TokensFromShares(stakerShare, totalShare, totalAmount) ==
  IF totalShare = 0 THEN 0
  ELSE TruncateInt(Quo(stakerShare * totalAmount, totalShare))

(***************************************************************************)
(* Shares an amount of tokens stands for.                                  *)
(***************************************************************************)
SharesFromTokensFails(totalShare, totalAmount) ==
  totalAmount = 0 /\ totalShare # 0

SharesFromTokens(totalShare, stakerAmount, totalAmount) ==
  IF totalAmount = 0 THEN 0 ELSE (totalShare * stakerAmount) \div totalAmount

(***************************************************************************)
(* The tokens RemoveShareFromOperator takes out of a pool for a share: the *)
(* last share takes all that is left.                                      *)
(***************************************************************************)
RemovedToken(share, totalShare, totalAmount) ==
  IF share = totalShare THEN totalAmount
  ELSE TokensFromShares(share, totalShare, totalAmount)
=============================================================================

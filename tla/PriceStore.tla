----------------------------- MODULE PriceStore -----------------------------
(***************************************************************************)
(* The stored prices of one token and their average over an epoch:         *)
(* x/oracle/keeper/prices.go and x/oracle/types/prices.go.                 *)
(*                                                                         *)
(* A record [next, at, acc, twap] is what the store holds for a token: the *)
(* next round ID, the prices of the latest MaxSizePrices rounds, the       *)
(* accumulated price (start and last round, sum) and the last TWAP.  A     *)
(* price is a number; NoPrice is the empty string, stored for a round that *)
(* is committed before the token has a price.  Timestamps and decimals are *)
(* left out.                                                               *)
(***************************************************************************)
EXTENDS Integers, TLC, Functions

CONSTANT MaxSizePrices

ASSUME PriceStoreAssumption == MaxSizePrices \in Nat \ {0}

NoPrice == 0
NoAcc == [start |-> 0, last |-> 0, sum |-> 0]
NoPrices == [next |-> 1, at |-> [r \in {} |-> NoPrice], acc |-> NoAcc, twap |-> NoPrice]

\* The accumulated price of a token starts before round r.
StartAt(r) == [start |-> r, last |-> r - 1, sum |-> 0]

\* Mutant: the price of one round only, however many had it.
AccumulateOne(acc, r, price) == [acc EXCEPT !.last = r, !.sum = @ + price]

\* Rounds after acc.last up to r all had this price.
AccumulatePriceTR(acc, r, price) ==
  [acc EXCEPT !.last = r, !.sum = @ + price * (r - acc.last)]

\* The accumulated price after round r was stored with this price.
accumulatePriceTR(at, acc, r, price) ==
  LET prev == r - 1
      base == IF acc = NoAcc THEN StartAt(prev) ELSE acc
  IN  IF prev < 1 \/ prev \notin DOMAIN at THEN acc
      ELSE IF at[prev] = price THEN base
      ELSE IF prev <= base.last \/ at[prev] = NoPrice THEN acc
      ELSE AccumulatePriceTR(base, prev, at[prev])

CanAppend(p, r) == r = p.next

\* Only used when CanAppend; otherwise the code returns false and changes nothing.
AppendPriceTR(p, r, price, accumulate) ==
  LET all == (r :> price) @@ p.at
      at == Restrict(all, DOMAIN all \ {r - MaxSizePrices})
  IN  [p EXCEPT !.at = at, !.next = r + 1,
                !.acc = IF accumulate THEN accumulatePriceTR(at, @, r, price) ELSE @]

Latest(p) == p.next - 1
GetPriceTRLatest(p) == IF Latest(p) \in DOMAIN p.at THEN p.at[Latest(p)] ELSE NoPrice

\* Round r repeats the latest price.
GrowRoundID(p, r, accumulate) ==
  IF r < p.next THEN p
  ELSE AppendPriceTR([p EXCEPT !.next = r], r, GetPriceTRLatest(p), accumulate)

CalculateTWAP(p) ==
  LET l == Latest(p)
      behind == l > p.acc.last + 1
      lost == behind /\ (l - 1 \notin DOMAIN p.at \/ p.at[l - 1] = NoPrice)
      acc == IF behind THEN AccumulatePriceTR(p.acc, l - 1, p.at[l - 1]) ELSE p.acc
  IN  IF GetPriceTRLatest(p) = NoPrice THEN p
      ELSE IF p.acc = NoAcc \/ l <= 1 \/ lost \/ l = acc.start
      THEN [p EXCEPT !.twap = GetPriceTRLatest(p)]
      ELSE [p EXCEPT !.twap = acc.sum \div (l - acc.start)]

ResetAccumulatedPrice(p) ==
  IF GetPriceTRLatest(p) = NoPrice THEN p ELSE [p EXCEPT !.acc = StartAt(Latest(p))]
=============================================================================

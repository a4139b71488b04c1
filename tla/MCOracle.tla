------------------------------ MODULE MCOracle ------------------------------
(* Instances of Oracle for TLC. *)
EXTENDS Oracle

Feeder(token, start, interval, end, startRound) ==
  [token |-> token, start |-> start, interval |-> interval, end |-> end, startRound |-> startRound]
Quote(det, price) == [det |-> det, price |-> price]

\* Validator 1 and one of the others agree on a price; 3 comes and goes.
ThreePowers == <<5, 1, 2>>
ChangedPowers == <<5, 1, 0>>
SomePowers == {ThreePowers, ChangedPowers}

\* Two prices of the source, both in one message, and a false one.
TwoPrices == {{Quote(1, 1)}, {Quote(1, 1), Quote(2, 2)}, {Quote(2, 3)}}

OneFeeder == <<Feeder(1, 1, 4, 0, 1)>>

Request(feeder, heights) == [feeder |-> feeder, heights |-> heights]
\* A second token before its feeder starts, with windows that overlap those of the
\* first, and the end of the first feeder.
SomeRequests == {Request(Feeder(2, 6, 4, 0, 1), {4}), Request(Feeder(1, 0, 0, 4, 0), {3})}

\* A token of one phase with short rounds, one of two phases with long ones.
MixedFeeders == <<Feeder(1, 1, 2, 0, 1), Feeder(2, 1, 4, 0, 1)>>
ManyPrices == {{Quote(1, 1)}, {Quote(2, 2)}}
Single == <<1>>
SinglePowers == {Single}
\* Price 2 is the root of a tree of two leaves, price 1 of none.
LeavesOfPrice == [p \in {1, 2} |-> IF p = 2 THEN 2 ELSE 0]
NewTwoPhases == {Request(Feeder(3, 3, 4, 0, 1), {2})}
NoLeaves == [p \in {1, 2} |-> 0]
=============================================================================

CONSTANTS
  s1 = s1
  s2 = s2
  o1 = o1
  o2 = o2
  Stakers = {s1, s2}
  Operators = {o1, o2}
  Amounts = {1}
  Changes <- GainOrLoss
  Modulus = 16
  MaxOps = 5
  MaxChanges = 1
  MaxMoves = 3
  MaxReverts = 1
  MaxRestarts = 1
SPECIFICATION FairSpec
CHECK_DEADLOCK FALSE
INVARIANT
  BalancesExact
PROPERTY
  ChangesArrive

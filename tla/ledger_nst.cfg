CONSTANTS
  s1 = s1
  s2 = s2
  o1 = o1
  o2 = o2
  Precision = 100
  Stakers = {s1}
  Operators = {o1, o2}
  AssetKind = "NST"
  Amounts = {1, 2}
  Proportions = {50}
  InitialBalance = 3
  InstantUndelegationPenalty = 50
  MaxUndelegationCompletions = 1
  UnbondingEpochs = 0
  RewardDelegation = FALSE
  MaxStaking = 3
  MaxUndelegations = 2
  MaxHeight = 2
  MaxEpoch = 2
  MaxHold = 0
SPECIFICATION Spec
SYMMETRY OperatorSymmetry
INVARIANTS
  ActualWithinAmount
  NSTDecreaseLosesCrumbs
PROPERTY
  CustodyImplemented

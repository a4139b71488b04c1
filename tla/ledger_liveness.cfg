CONSTANTS
  s1 = s1
  s2 = s2
  o1 = o1
  o2 = o2
  Precision = 100
  Stakers = {s1}
  Operators = {o1}
  AssetKind = "LST"
  Amounts = {1}
  Proportions = {}
  InitialBalance = 3
  InstantUndelegationPenalty = 25
  MaxUndelegationCompletions = 1
  UnbondingEpochs = 1
  RewardDelegation = FALSE
  MaxStaking = 2
  MaxUndelegations = 2
  MaxHeight = 2
  MaxEpoch = 3
  MaxHold = 1
SPECIFICATION FairSpec
PROPERTY
  EveryUndelegationCompletes

CONSTANTS
  s1 = s1
  s2 = s2
  o1 = o1
  o2 = o2
  Precision = 100
  Stakers = {o1, s1}
  Operators = {o1}
  AssetKind = "native"
  Amounts = {1, 2}
  Proportions = {50, 100}
  InitialBalance = 2
  InstantUndelegationPenalty = 25
  MaxUndelegationCompletions = 1
  UnbondingEpochs = 0
  RewardDelegation = TRUE
  MaxStaking = 1
  MaxUndelegations = 2
  MaxHeight = 3
  MaxEpoch = 2
  MaxHold = 0
SPECIFICATION Spec
INVARIANTS
  ShareholdersAreListed
  PendingMatchesRecords
PROPERTY
  CustodyImplemented

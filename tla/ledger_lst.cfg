CONSTANTS
  s1 = s1
  s2 = s2
  o1 = o1
  o2 = o2
  Precision = 100
  Stakers = {s1, s2}
  Operators = {o1}
  AssetKind = "LST"
  Amounts = {1, 3}
  Proportions = {50, 100}
  InitialBalance = 3
  InstantUndelegationPenalty = 25
  MaxUndelegationCompletions = 1
  UnbondingEpochs = 1
  RewardDelegation = FALSE
  MaxStaking = 4
  MaxUndelegations = 2
  MaxHeight = 3
  MaxEpoch = 3
  MaxHold = 0
SPECIFICATION Spec
SYMMETRY StakerSymmetry
INVARIANTS
  TypeOK
  SharesMatchPool
  PendingMatchesRecords
  OperatorShareIsSelfDelegation
  CanAlwaysLeave
PROPERTIES
  CompletionIsDueAndExact
  CustodyImplemented

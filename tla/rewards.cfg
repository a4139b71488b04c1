CONSTANTS
  s1 = s1
  s2 = s2
  Precision = 10
  Stakers = {s1, s2}
  Redelegators = {s2}
  Amounts = {1}
  Deposits <- TwoDeposits
  Fees = {5}
  Proportions = {10}
  CommunityTax = 1
  CommissionRate = 1
  Splits = {9}
  Fractions = {5, 10}
  RewardsPriced = {TRUE, FALSE}
  OncePerBlock = TRUE
  InstantPenalties = {0, 10}
  MaxUndelegations = 1
  MaxEpoch = 5
  MaxChanges = 2
  MaxSlashes = 1
  MaxWithdrawals = 1

SPECIFICATION Spec
CHECK_DEADLOCK FALSE
INVARIANTS
  RewardsConserved
  ReferencesExact
  RequestsSucceed
  PromisesCovered

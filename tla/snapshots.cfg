CONSTANTS
  o1 = o1
  o2 = o2
  Operators = {o1, o2}
  MinSelfDelegation = 1
  UnbondingDuration = 1
  MaxStake = 1
  MaxHeight = 6
  MaxTransactions = 5
SPECIFICATION Spec
SYMMETRY OperatorSymmetry
INVARIANTS
  SnapshotGivesPower
  FilterHeightCoversInfraction
  OptOutDelaysUnbonding
CHECK_DEADLOCK FALSE

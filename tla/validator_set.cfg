CONSTANTS
  k1 = k1 k2 = k2 k3 = k3
  Operators = {1, 2}
  Genesis = {1}
  Keys = {k1, k2, k3}
  None = None
  EpochsUntilUnbonded = 1
  MaxValidators = 1
  JailDuration = 1
  MissJailDuration = 1
  MaliciousJailDuration = 2
  MaxPower = 1
  MaxEpoch = 4
  MaxTransactions = 5
SYMMETRY KeySymmetry
SPECIFICATION Spec
CHECK_DEADLOCK FALSE
INVARIANTS
  InfractionsReachOperator
  KeysHaveOneOperator
  TombstonedKeyNotReused
  PunishedHoldNoPower
  JailTermServed
  OptOutTakesEffect

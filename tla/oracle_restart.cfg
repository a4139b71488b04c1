CONSTANTS
  MaxSizePrices = 2
  Validators = {1}
  Honest = {}
  Powers <- SinglePowers
  GenesisPowers <- Single
  Messages <- ManyPrices
  MaxNonce = 1 ThresholdA = 2 ThresholdB = 3
  ReportedRoundsWindow = 2 MinReportedPerWindow = 1
  GenesisFeeders <- MixedFeeders
  Requests <- NewTwoPhases
  TwoPhases = {2, 3}
  Leaves <- LeavesOfPrice
  EpochEnds = {4, 7}
  MaxHeight = 7 MaxUpdates = 1 MaxChanges = 0 MaxMessages = 3
SPECIFICATION Spec
CHECK_DEADLOCK FALSE
INVARIANTS
  RestartSucceeds

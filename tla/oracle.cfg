CONSTANTS
  MaxSizePrices = 2
  Validators = {1, 2, 3}
  Honest = {1, 2}
  Powers <- SomePowers
  GenesisPowers <- ThreePowers
  Messages <- TwoPrices
  MaxNonce = 2 ThresholdA = 2 ThresholdB = 3
  ReportedRoundsWindow = 2 MinReportedPerWindow = 1
  GenesisFeeders <- OneFeeder
  Requests <- SomeRequests
  TwoPhases = {}
  Leaves <- NoLeaves
  EpochEnds = {}
  MaxHeight = 8 MaxUpdates = 1 MaxChanges = 1 MaxMessages = 3
SPECIFICATION Spec
CHECK_DEADLOCK FALSE
INVARIANTS
  RecoveryReproduces
  NoncesMatchWindows
  RoundsContinuous
  OnlyTruePrices
  HonestNeverSlashed

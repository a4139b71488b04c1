CONSTANTS
  AVSs = {a1, a2}
  Operators = {o1, o2}
  Keys = {k1, k2}
  TaskAddrs = {t1}
  ZeroAddr = zero
  Spellings = {checksummed, lower}
  Identifiers = {day}
  OtherIdentifiers = {}
  Responses = {yes}
  None = None
  Periods = {0, 1}
  MaxTasks = 1
  MaxEpoch = 5
  MaxChanges = 5
SPECIFICATION Spec
INVARIANTS NoCopiedSignature StatisticsFinal EveryTaskCounted
PROPERTY VerdictFinal
CHECK_DEADLOCK FALSE
SYMMETRY Symmetry

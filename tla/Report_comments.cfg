\* Three histories, and result files of two scenarios, with failures of every step.
CONSTANTS
  a = a
  b = b
  Scenarios = {a, b}
  Histories <- MCHistories
  Outputs <- MCOutputs
  Texts <- MCTexts
  Limit = 10
  NoteLen = 4
SPECIFICATION Spec
INVARIANTS
  EveryScenarioAccounted
  HistoryDecides
  ThresholdIsUsable
  LogsAreKept
  ShownIsStored

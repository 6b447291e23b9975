SPECIFICATION Spec
CONSTANTS
  Reg = {"reg0", "reg1"}
  Reg0 = "reg0"
  Sizes <- MCSizes
  MaxTime = 20
INVARIANTS
  Remainder
  TotalCoversResults
PROPERTIES
  NoOverlap
  ResultsReady
CHECK_DEADLOCK FALSE

SPECIFICATION Spec
CONSTANTS
  MaxN <- MCMaxN
  Jobs <- MCJobs
  REPF = 3
  NUMREG = 3
  Numbers = {2, 5}
  Fact <- MCFact
  Power <- MCPower
INVARIANTS
  ResultRight
  BufferFits
  OperandsReady
  BusesUsedUp
  RejectsOnlyNegative

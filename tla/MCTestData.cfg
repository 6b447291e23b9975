SPECIFICATION Spec
CONSTANTS
  Limbs <- MCLimbs
  Numbers <- MCNumbers
  LimbDigits = 2
  MAX_PREC = 4
  MaxCalls = 2
INVARIANTS EachPairOnce ColumnByColumn SignalsReplayStarts
INVARIANTS StreamMultiplies DifferencesOpposite ResultBelowPrec

SPECIFICATION FairSpec
CONSTANTS
  NUMREG = 2
  SlotLimbs = 8
  LoadLimbs <- OneLimb
  ProgLens <- Lens
  Kinds <- FewKinds
PROPERTIES
  StopReturns
  StepReturnsOrExit

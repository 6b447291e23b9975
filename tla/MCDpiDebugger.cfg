SPECIFICATION Spec
CONSTANTS
  NUMREG = 2
  SlotLimbs = 16
  LoadLimbs <- OneLimb
  ProgLens <- Lens3
  Kinds <- AllKinds
INVARIANTS
  MemoryGuarded
  OneStepPerCall
  ViewIsCurrent
  CheckExact
PROPERTIES
  QuietBetweenSteps

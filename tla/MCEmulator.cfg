SPECIFICATION Spec
CONSTANTS
  NUMREG = 3
  Value <- MCValue
  BusFiles <- MCBusFiles
  ProgSizes <- MCProgSizes
INVARIANTS
  PhysPermutation
  BusAligned
PROPERTIES
  RenamesOnBorrow
  MachineSpec
CHECK_DEADLOCK FALSE

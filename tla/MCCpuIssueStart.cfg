CONSTANTS
  Register = {"r0", "r1", "r2", "r3"}
  Shadow = "sh"
  Program <- Addition
  Starts <- AdditionStarts
  MaxInstr = 3
  AddDelay = 27
  MultDelay = 54
  UnlLead = 2
  Rules = {}
SPECIFICATION FairSpec
PROPERTIES AllIssued

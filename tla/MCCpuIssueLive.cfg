CONSTANTS
  Register = {"r0", "r1", "r2", "r3"}
  Shadow = "sh"
  Program <- Flowing
  Starts <- FlowingStarts
  MaxInstr = 3
  AddDelay = 2
  MultDelay = 3
  UnlLead = 2
  Rules = {}
SPECIFICATION FairSpec
PROPERTIES AllIssued

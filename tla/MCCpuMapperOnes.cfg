CONSTANTS
  Register = {"r0", "r1", "r2"}
  Shadow = "sh"
  Program <- Renaming
  Differences <- LowOnes
  Sums <- NoOnes
  Ripe = 7
  Latency = 19
  Settle = 12
SPECIFICATION Spec
INVARIANTS NumbersAgree

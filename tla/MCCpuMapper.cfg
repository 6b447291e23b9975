CONSTANTS
  Register = {"r0", "r1", "r2"}
  Shadow = "sh"
  Program <- Renaming
  Differences <- Plain
  Sums <- NoOnes
  Ripe = 4
  Latency = 1
  Settle = 1
SPECIFICATION Spec
INVARIANTS MapsApart NumbersAgree ClaimsNoOther
PROPERTIES ExchangesHeld

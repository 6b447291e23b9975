CONSTANTS
  Register = {"r0", "r1", "r2", "r3"}
  Shadow = "sh"
  Program <- Mixed
  Starts <- MixedStarts
  MaxInstr = 4
  AddDelay = 2
  MultDelay = 3
  UnlLead = 4
  Rules = {"LoaderFree", "RouteFree", "NoStale"}
SPECIFICATION Spec
INVARIANTS OneAtATime TakenSafely InUseIsBusy HasRoute NothingLeaks
PROPERTIES IsScoreboard
CHECK_DEADLOCK FALSE

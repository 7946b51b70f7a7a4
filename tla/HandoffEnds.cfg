\* Two applies and one fault under fairness; a child may end in any way.
\* The system may rest: every apply finished and no fault left to spend.
SPECIFICATION FairSpec
CONSTANTS
  a1 = a1
  a2 = a2
  n1 = n1
  n2 = n2
  n3 = n3
  Apply = {a1, a2}
  Mode <- LauncherThenExit
  Server = {n1, n2, n3}
  NoApply = NoApply
  NoServer = NoServer
  KillOutcomes = {"dies", "orphaned", "lingers"}
  DbFails = FALSE
  WriteFails = TRUE
  Torn = TRUE
  FreeFails = TRUE
  MaxFaults = 1
PROPERTIES
  RestartsEnd
CHECK_DEADLOCK FALSE

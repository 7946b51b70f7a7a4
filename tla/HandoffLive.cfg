\* Two applies and two faults under fairness; the database answers.
\* The system may rest: every apply finished and no fault left to spend.
SPECIFICATION FairSpec
CONSTANTS
  a1 = a1
  a2 = a2
  n1 = n1
  n2 = n2
  n3 = n3
  Apply = {a1, a2}
  Mode <- LauncherThenExit
  Server = {n1, n2, n3}
  NoApply = NoApply
  NoServer = NoServer
  KillOutcomes = {"dies", "orphaned"}
  DbFails = FALSE
  WriteFails = TRUE
  Torn = FALSE
  FreeFails = FALSE
  MaxFaults = 2
PROPERTIES
  RestartHappens
  RowRecorded
CHECK_DEADLOCK FALSE

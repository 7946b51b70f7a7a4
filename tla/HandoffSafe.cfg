\* Two applies, two faults, inserts and write-backs that fail.
\* The system may rest: every apply finished and no fault left to spend.
SPECIFICATION Spec
CONSTANTS
  a1 = a1
  a2 = a2
  n1 = n1
  n2 = n2
  n3 = n3
  Apply = {a1, a2}
  Mode <- LauncherThenExit
  Server = {n1, n2, n3}
  NoApply = NoApply
  NoServer = NoServer
  KillOutcomes = {"dies", "orphaned"}
  DbFails = TRUE
  WriteFails = TRUE
  Torn = FALSE
  FreeFails = TRUE
  MaxFaults = 2
SYMMETRY MCSymmetry
INVARIANTS
  TypeOK
  LastRowKept
PROPERTIES
  OwesOneRow
CHECK_DEADLOCK FALSE

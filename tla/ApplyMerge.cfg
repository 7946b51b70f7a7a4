\* Two applies, both with a restart, two requests at once, and every file
\* operation that the code goes past may fail.  The server stops only for the
\* restarts.  f3 is a protected path of the second package.
\* The system may rest: every session answered and no stop left to spend.
SPECIFICATION Spec
CONSTANTS
  s1 = s1
  s2 = s2
  s3 = s3
  r1 = r1
  r2 = r2
  f1 = f1
  f2 = f2
  f3 = f3
  Session = {s1, s2}
  Request = {r1, r2}
  Restarting = {s1, s2}
  Pkg <- MCPkg
  File = {f1, f2, f3}
  Absent = Absent
  Protected = {f3}
  Managed = {f1, f2}
  Base = Base
  NoOne = NoOne
  Broken = Broken
  Swallowed = {"restore", "orphans"}
  MaxStops = 0
SYMMETRY MCSymmetry
INVARIANTS
  CancelLeavesNoTrace
  GeoStoppedWhileMerging
  PackageWhole
  BuildMatches
PROPERTIES
  AppliesAtomically
CHECK_DEADLOCK FALSE

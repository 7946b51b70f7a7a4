\* Two applies with a restart, two requests at once, one more stop of the server.
\* The system may rest: every session answered and no stop left to spend.
SPECIFICATION Spec
CONSTANTS
  s1 = s1
  s2 = s2
  s3 = s3
  r1 = r1
  r2 = r2
  f1 = f1
  f2 = f2
  f3 = f3
  Session = {s1, s2}
  Request = {r1, r2}
  Restarting = {s1, s2}
  Pkg <- MCPkg
  File = {f1}
  Absent = Absent
  Protected = {}
  Managed = {f1}
  Base = Base
  NoOne = NoOne
  Broken = Broken
  Swallowed = {}
  MaxStops = 1
SYMMETRY MCSessionSymmetry
INVARIANTS
  TypeOK
  CommitUnderLock
  CommitsExclude
  LockAccounted
  PackageKept
CHECK_DEADLOCK FALSE

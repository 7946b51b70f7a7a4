\* Two applies under fairness, one stop, errors swallowed.
\* The system may rest: every session answered and no stop left to spend.
SPECIFICATION FairSpec
CONSTANTS
  s1 = s1
  s2 = s2
  s3 = s3
  r1 = r1
  r2 = r2
  f1 = f1
  f2 = f2
  f3 = f3
  Session = {s1, s2}
  Request = {r1}
  Restarting = {s1}
  Pkg <- MCPkg
  File = {f1}
  Absent = Absent
  Protected = {}
  Managed = {f1}
  Base = Base
  NoOne = NoOne
  Broken = Broken
  Swallowed = {"recover"}
  MaxStops = 1
PROPERTIES
  LockReleased
CHECK_DEADLOCK FALSE

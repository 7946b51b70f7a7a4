\* Two runs of one server and one of another, one fault.
\* Every run ends, so the system may rest.
SPECIFICATION Spec
CONSTANTS
  k1 = k1
  k2 = k2
  k3 = k3
  p1 = p1
  p2 = p2
  Run = {k1, k2, k3}
  Process = {p1, p2}
  Home <- MCHome
  PoolMax <- MCPoolMax
  MaxFaults = 1
  Before = Before
  NoTable = NoTable
SYMMETRY MCSymmetry
INVARIANTS
  TypeOK
  ProcessesExclude
  TableWhole
  CopyKept
PROPERTIES
  ReplacesWhole
CHECK_DEADLOCK FALSE

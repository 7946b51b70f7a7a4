\* Two files of one directory of tiles.  One of them is copied into the
\* folder, and f1 is uploaded; two rows, a user's conversion beside the one of
\* the folder check, one deletion, restart or failed step.
SPECIFICATION Spec
CONSTANTS
  f1 = f1
  f2 = f2
  d1 = d1
  u1 = u1
  File = {f1, f2}
  Directory = {d1}
  Slug <- MCSlug
  Upload = {u1}
  Target <- MCTarget
  Call = {c1}
  Drop = Drop
  NoFile = NoFile
  MaxRows = 2
  MaxWrites = 1
  MaxMishaps = 1
INVARIANTS
  TypeOK
  GateExcludes
  NoDoubleRow
PROPERTIES
  KeepsCatalogue

\* One file, copied and uploaded, and the conversions of the folder check only; up to
\* two faults, deletions or restarts, under fairness.
SPECIFICATION FairSpec
CONSTANTS
  f1 = f1
  f2 = f2
  d1 = d1
  u1 = u1
  File = {f1}
  Directory = {d1}
  Slug <- MCSlug
  Upload = {u1}
  Target <- MCTarget
  Call = {}
  Drop = Drop
  NoFile = NoFile
  MaxRows = 3
  MaxWrites = 1
  MaxMishaps = 2
PROPERTIES
  FileRegistered
  RowTried
  ConversionEnds

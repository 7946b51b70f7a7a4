\* Two files of one directory of tiles, a user's conversion beside the one of
\* the folder check, one fault: tiles of an earlier or a failed conversion are
\* recorded as the result of this one.
SPECIFICATION Spec
CONSTANTS
  f1 = f1
  f2 = f2
  d1 = d1
  u1 = u1
  File = {f1, f2}
  Directory = {d1}
  Slug <- MCSlug
  Upload = {u1}
  Target <- MCTarget
  Call = {c1}
  Drop = Drop
  NoFile = NoFile
  MaxRows = 3
  MaxWrites = 1
  MaxMishaps = 1
INVARIANTS
  DoneIsMade

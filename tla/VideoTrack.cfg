\* Two videos, two users who open them, one change of a file on disk,
\* two requests written, one error or restart.
\* The system may rest: the analyser is missing and every bound is spent.
SPECIFICATION FairSpec
CONSTANTS
  Video = {v1, v2}
  Opener = {r1, r2}
  NoVideo = NoVideo
  MaxVersion = 2
  MaxClock = 2
  MaxFaults = 1
INVARIANTS
  TypeOK
  RequestKept
  QueuedIsAnalysed
PROPERTIES
  KeepsResults
  RequestWorkedOff
CHECK_DEADLOCK FALSE

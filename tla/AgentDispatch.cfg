SPECIFICATION FairSpec
CONSTANTS
  shot1 = shot1
  shot2 = shot2
  chord = chord
  text = text
  comp = comp
  odd = odd
  rec1 = rec1
  rec2 = rec2
  stop1 = stop1
  poll = poll
  push = push
  None = None
  Cmds <- WorkCmds
  Arrivals <- WorkArrivals
  Verb <- VerbOf
  Keys <- WorkKeys
  Input <- InputOf
  Capped <- CappedStarts
INVARIANTS
  FreshShot
  NothingStuck
  RecorderTruthful
PROPERTIES
  Answered
\* Every command is answered in the end.
CHECK_DEADLOCK FALSE

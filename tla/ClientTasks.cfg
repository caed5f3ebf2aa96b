\* Two nodes, one video, Play pressed twice: a second press may come before the first is done, or after a Stop.
SPECIFICATION FairSpec
CONSTANTS
  a = a
  b = b
  v = v
  w = w
  Nodes = {a, b}
  Videos = {v}
  Queued = Queued
  Stopped = Stopped
  NoChoice = NoChoice
  MaxPlays = 2
INVARIANTS
  TypeOK
  SourceIsAsked
PROPERTIES
  OnlyPlayStarts
  OnlyLateChoicesAreLeft
  QueuedIsServed
\* The process ends when its packet task does.
CHECK_DEADLOCK FALSE

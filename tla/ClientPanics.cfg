\* Two nodes, one video, one Play.
SPECIFICATION Spec
CONSTANTS
  a = a
  b = b
  v = v
  w = w
  Nodes = {a, b}
  Videos = {v}
  Queued = Queued
  Stopped = Stopped
  NoChoice = NoChoice
  MaxPlays = 1
INVARIANTS
  RedirectedIsPlaying
\* The process ends when its packet task does.
CHECK_DEADLOCK FALSE

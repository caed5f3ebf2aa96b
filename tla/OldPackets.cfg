\* One file, two relays: a packet that overtakes another is enough.
SPECIFICATION Spec
CONSTANTS
  r = r
  x = x
  v = v
  mp4 = mp4
  mkv = mkv
  Nodes = {r, x}
  Files = {mp4, mkv}
  Videos = {v}
  VideoOf <- NameOfBoth
  Neighbours = {r, x}
  MaxStarts = 1
  Video = v
  First = r
  Hops = 2
  MaxPackets = 3
  MaxFaults = 1
  MaxAsks = 1
PROPERTIES
  OlderPacketsIgnored
CHECK_DEADLOCK FALSE

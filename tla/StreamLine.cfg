\* One video in two files, two starts, two relays, four packets, one fault.
SPECIFICATION FairSpec
CONSTANTS
  r = r
  x = x
  v = v
  mp4 = mp4
  mkv = mkv
  Nodes = {r, x}
  Files = {mp4, mkv}
  Videos = {v}
  VideoOf <- NameOfBoth
  Neighbours = {r, x}
  MaxStarts = 2
  Video = v
  First = r
  Hops = 2
  MaxPackets = 4
  MaxFaults = 1
  MaxAsks = 2
INVARIANTS
  TypeOK
  LossIsBounded
PROPERTIES
  StreamComesBack

\* A server, its neighbour m, a node n behind it that serves the client; every
\* fault alone, and pairs of them.
SPECIFICATION OverlayFairSpec
CONSTANTS
  s = s
  m = m
  n = n
  c = c
  v = v
  mp4 = mp4
  NoRoute = NoRoute
  Nodes = {m, n}
  Peers = {s, m, n}
  Clients = {c}
  Videos = {v}
  Neighbours <- EachOther
  ParentLists <- AnyParents
  Server = s
  Known = {m}
  Files = {mp4}
  VideoOf <- OneFile
  MaxStarts = 2
  Video = v
  Home = n
  Client = c
  Faults <- OneOrTwo
INVARIANTS
  OverlayTypeOK
  RoutesAreSubscribed
PROPERTIES
  StreamRecovers
  DeathIsNoticed
CHECK_DEADLOCK FALSE

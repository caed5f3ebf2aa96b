\* Both nodes are the server's neighbours; m takes the server for dead once.
SPECIFICATION OverlayFairSpec
CONSTANTS
  s = s
  m = m
  n = n
  c = c
  v = v
  mp4 = mp4
  NoRoute = NoRoute
  Nodes = {m, n}
  Peers = {s, m, n}
  Clients = {c}
  Videos = {v}
  Neighbours <- EachOther
  ParentLists <- AnyParents
  Server = s
  Known = {m, n}
  Files = {mp4}
  VideoOf <- OneFile
  MaxStarts = 2
  Video = v
  Home = n
  Client = c
  Faults <- OneAlarm
PROPERTIES
  CirclesBreak
CHECK_DEADLOCK FALSE

\* Two clients, one video, one peer.
SPECIFICATION Spec
CONSTANTS
  n = n
  p = p
  q = q
  c = c
  d = d
  v = v
  w = w
  Nodes = {n}
  Peers = {n, p}
  Clients = {c, d}
  Videos = {v}
  NoRoute = NoRoute
  Neighbours <- OnePeer
  ParentLists <- NoParents
PROPERTIES
  PingEndsSubscriptions

\* One video, one client, two peers that may also subscribe; any send may fail.
SPECIFICATION Spec
CONSTANTS
  n = n
  p = p
  q = q
  c = c
  d = d
  v = v
  w = w
  Nodes = {n}
  Peers = {n, p, q}
  Clients = {c}
  Videos = {v}
  NoRoute = NoRoute
  Neighbours <- OnePeer
  ParentLists <- NoneOrOther
INVARIANTS
  TypeOK
  SubscribersHaveSource
  DeadRouteIsQueued
  QueuedIsUnavailable
PROPERTIES
  WatchedKeepsRoute
  StreamsAreAskedFor

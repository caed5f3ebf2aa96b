\* One video, two peers that may also subscribe, one client.
SPECIFICATION FairSpec
CONSTANTS
  p = p
  q = q
  c = c
  v = v
  k = k
  Peers = {p, q}
  Clients = {c}
  Videos = {v}
  NoRoute = NoRoute
  NoVideo = NoVideo
  Subscribers = {c, p}
  MaxBusy = 2
  Waiting = {k}
  Steady = q
INVARIANTS
  TypeOK
  DeadRouteIsHandled
PROPERTIES
  SubscriberIsServed
  QueuedIsAsked

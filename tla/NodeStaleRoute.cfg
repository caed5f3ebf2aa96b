\* One video, two peers, one client; two tasks at a time.
SPECIFICATION FairSpec
CONSTANTS
  p = p
  q = q
  c = c
  v = v
  k = k
  Peers = {p, q}
  Clients = {c}
  Videos = {v}
  NoRoute = NoRoute
  NoVideo = NoVideo
  Subscribers = {c}
  MaxBusy = 2
  Waiting = {k}
  Steady = q
PROPERTIES
  DeadRouteIsLeft

---- MODULE Node ----
(* One action per packet handler and per background check of a relay node:   *)
(* node/src/node.rs and node/src/handle.rs. Handlers run one at a time here: *)
(* each action is a handler from its first line to its return, with every    *)
(* packet it hands to the socket in `sent`. The environment is open: at any  *)
(* time any peer, node or client may send any packet of its kind, so that    *)
(* loss, duplication and reordering below the handlers are all included.     *)
(*                                                                           *)
(* Delays and hops are left out: get_best_node_to_redirect may choose any    *)
(* active route that offers the video. Vectors used as sets are sets.        *)
EXTENDS Integers, FiniteSets

CONSTANTS Nodes,        \* the nodes modelled
          Peers,        \* addresses that flood: nodes (modelled or not), servers
          Clients,      \* addresses of clients
          Videos,
          NoRoute,      \* "video_routes has no entry"
          Neighbours,   \* what the bootstrapper tells each node
          ParentLists   \* bound: the parent lists that floods carry

ASSUME NodeAssumption ==
  /\ Nodes \subseteq Peers
  /\ Peers \cap Clients = {}
  /\ NoRoute \notin Peers
  /\ Neighbours \in [Nodes -> SUBSET Peers]
  /\ ParentLists \subseteq SUBSET Peers

VARIABLES neighbours,    \* addresses floods are sent on to
          status,        \* available_routes[p].status, "Unknown": no entry
          offers,        \* available_routes[p].available_videos
          parents,       \* available_routes[p].node_type, the Parent's parents
          interested,    \* subscribers of each video
          videoRoutes,   \* the peer each video was requested from
          queue,         \* pending_video_requests
          lastPings,     \* clients that ever pinged (keys of last_pings)
          lastVideos,    \* videos ever received (keys of last_video_packet_time)
          connecting,    \* parents that NewNeighbour was sent to, no outcome yet
          locked,        \* videos whose `interested` entry is locked for good
          halted,        \* background tasks that wait for such a lock for good
          unsent,        \* history: videos whose last request failed to be sent
          sent           \* what the last step handed to the socket

vars == <<neighbours, status, offers, parents, interested, videoRoutes, queue,
          lastPings, lastVideos, connecting, locked, halted, unsent, sent>>

Addrs == Peers \cup Clients

VideoList(c, vs) == [type |-> "VideoList", to |-> c, videos |-> vs]
RequestVideo(p, v) == [type |-> "RequestVideo", to |-> p, video |-> v]
StopVideo(p, v) == [type |-> "StopVideo", to |-> p, video |-> v]
VideoPacket(a, v) == [type |-> "VideoPacket", to |-> a, video |-> v]
NewNeighbour(p) == [type |-> "NewNeighbour", to |-> p]
FloodPacket(p, vs, ps, ns) ==
  [type |-> "FloodPacket", to |-> p, videos |-> vs, parents |-> ps, visited |-> ns]

TypeOK ==
  /\ neighbours \in [Nodes -> SUBSET Peers]
  /\ status \in [Nodes -> [Peers -> {"Unknown", "Active", "Unresponsive"}]]
  /\ offers \in [Nodes -> [Peers -> SUBSET Videos]]
  /\ parents \in [Nodes -> [Peers -> SUBSET Peers]]
  /\ interested \in [Nodes -> [Videos -> SUBSET Addrs]]
  /\ videoRoutes \in [Nodes -> [Videos -> Peers \cup {NoRoute}]]
  /\ queue \in [Nodes -> SUBSET Videos]
  /\ lastPings \in [Nodes -> SUBSET Clients]
  /\ lastVideos \in [Nodes -> SUBSET Videos]
  /\ connecting \in [Nodes -> SUBSET Peers]
  /\ locked \in [Nodes -> SUBSET Videos]
  /\ halted \in [Nodes -> SUBSET {"neighbours", "clients"}]
  /\ unsent \in [Nodes -> SUBSET Videos]

\* State::new with the answer of the bootstrapper.
Init ==
  /\ neighbours = Neighbours
  /\ status = [n \in Nodes |-> [p \in Peers |-> "Unknown"]]
  /\ offers = [n \in Nodes |-> [p \in Peers |-> {}]]
  /\ parents = [n \in Nodes |-> [p \in Peers |-> {}]]
  /\ interested = [n \in Nodes |-> [v \in Videos |-> {}]]
  /\ videoRoutes = [n \in Nodes |-> [v \in Videos |-> NoRoute]]
  /\ queue = [n \in Nodes |-> {}]
  /\ lastPings = [n \in Nodes |-> {}]
  /\ lastVideos = [n \in Nodes |-> {}]
  /\ connecting = [n \in Nodes |-> {}]
  /\ locked = [n \in Nodes |-> {}]
  /\ halted = [n \in Nodes |-> {}]
  /\ unsent = [n \in Nodes |-> {}]
  /\ sent = {}

----
\* The packet task runs: it holds no lock it waits for.
Receiving(n) == locked[n] = {}

\* The active routes that offer v: any of them may be the best.
Offering(n, v) == {p \in Peers : status[n][p] = "Active" /\ v \in offers[n][p]}

\* get_videos(to): what an active route other than `to` offers.
GetVideos(n, to) == {v \in Videos : Offering(n, v) \ {to} # {}}

\* get_parents: every entry of available_routes is a parent, unresponsive or not.
GetParents(n) == {p \in Peers : status[n][p] # "Unknown"}

\* BestNodes with the status of a peer read before it is set.
BestNodesStale(n, down) ==
  {best \in [Videos -> Peers \cup {NoRoute}] :
     \A v \in Videos : IF Offering(n, v) = {} THEN best[v] = NoRoute
                                              ELSE best[v] \in Offering(n, v)}

\* get_best_node_to_redirect for every video at once, with the peers `down`
\* out of the choice; NoRoute where nobody is left to ask.
BestNodes(n, down) ==
  {best \in [Videos -> Peers \cup {NoRoute}] :
     \A v \in Videos : LET candidates == Offering(n, v) \ down
                       IN  IF candidates = {} THEN best[v] = NoRoute
                                              ELSE best[v] \in candidates}

\* request_video_to_node for the videos vs: the route is set once the packet
\* is sent, and stays as it was if the send fails.
Asked(vs, best, failed) == {v \in vs : best[v] # NoRoute /\ v \notin failed}
RoutesAfter(routes, vs, best, failed) ==
  [v \in Videos |-> IF v \in Asked(vs, best, failed) THEN best[v] ELSE routes[v]]
Requests(vs, best, failed) ==
  {RequestVideo(best[v], v) : v \in Asked(vs, best, failed)}
UnsentAfter(n, vs, best, failed) ==
  (unsent[n] \ vs) \cup {v \in vs : best[v] # NoRoute /\ v \in failed}

\* Nobody to ask: pending_video_requests. First what it would be with every
\* request queued, and with none.
QueueAll(vs, best) == vs
QueueNone(vs, best) == {}
Unplaced(vs, best) == {v \in vs : best[v] = NoRoute}

\* handle_stop_video of a for each of the videos vs: the videos that lose
\* their last subscriber, and with it their route. First without the count of
\* the subscribers that remain.
EndedAlways(n, a, vs) == {v \in vs : videoRoutes[n][v] # NoRoute}
Ended(n, a, vs) == {v \in vs : interested[n][v] \subseteq {a} /\ videoRoutes[n][v] # NoRoute}
SubscribersLeft(n, a, vs) ==
  [v \in Videos |-> IF v \in vs THEN interested[n][v] \ {a} ELSE interested[n][v]]
RoutesLeft(n, a, vs) ==
  [v \in Videos |-> IF v \in Ended(n, a, vs) THEN NoRoute ELSE videoRoutes[n][v]]
Stops(n, a, vs) == {StopVideo(videoRoutes[n][v], v) : v \in Ended(n, a, vs)}

----
\* HandleRequestVideo with the requester entered as the route.
RequestSwapped(n, a, v) ==
  /\ Receiving(n)
  /\ interested' = [interested EXCEPT ![n][v] = @ \cup {a}]
  /\ videoRoutes' = [videoRoutes EXCEPT ![n][v] = a]
  /\ sent' = {}
  /\ UNCHANGED <<neighbours, status, offers, parents, queue, lastPings, lastVideos,
                 connecting, locked, halted, unsent>>

\* HandleRequestVideo with the subscriber noted only once there is a stream.
RequestUnnoted(n, a, v) ==
  /\ Receiving(n)
  /\ interested' = [interested EXCEPT ![n][v] = IF videoRoutes[n][v] = NoRoute THEN @ ELSE @ \cup {a}]
  /\ \E best \in BestNodes(n, {}), failed \in SUBSET Videos :
       LET vs == IF videoRoutes[n][v] = NoRoute THEN {v} ELSE {}
       IN  /\ videoRoutes' = [videoRoutes EXCEPT ![n] = RoutesAfter(@, vs, best, failed)]
           /\ queue' = [queue EXCEPT ![n] = @ \cup Unplaced(vs, best)]
           /\ unsent' = [unsent EXCEPT ![n] = UnsentAfter(n, vs, best, failed)]
           /\ sent' = Requests(vs, best, failed)
  /\ UNCHANGED <<neighbours, status, offers, parents, lastPings, lastVideos,
                 connecting, locked, halted>>

\* handle_request_video. The subscriber stays even if the request upstream
\* cannot be sent.
HandleRequestVideo(n, a, v) ==
  /\ Receiving(n)
  /\ interested' = [interested EXCEPT ![n][v] = @ \cup {a}]
  /\ \E best \in BestNodes(n, {}), failed \in SUBSET Videos :
       LET vs == IF videoRoutes[n][v] = NoRoute THEN {v} ELSE {}
       IN  /\ videoRoutes' = [videoRoutes EXCEPT ![n] = RoutesAfter(@, vs, best, failed)]
           /\ queue' = [queue EXCEPT ![n] = @ \cup Unplaced(vs, best)]
           /\ unsent' = [unsent EXCEPT ![n] = UnsentAfter(n, vs, best, failed)]
           /\ sent' = Requests(vs, best, failed)
  /\ UNCHANGED <<neighbours, status, offers, parents, lastPings, lastVideos,
                 connecting, locked, halted>>

\* handle_stop_video. A queued request is not withdrawn.
HandleStopVideo(n, a, v) ==
  /\ Receiving(n)
  /\ interested' = [interested EXCEPT ![n] = SubscribersLeft(n, a, {v})]
  /\ videoRoutes' = [videoRoutes EXCEPT ![n] = RoutesLeft(n, a, {v})]
  /\ sent' = Stops(n, a, {v})
  /\ UNCHANGED <<neighbours, status, offers, parents, queue, lastPings,
                 lastVideos, connecting, locked, halted, unsent>>

\* The videos a client is subscribed to and does not list in its ping.
Stale(n, c, requested) == {v \in Videos \ requested : c \in interested[n][v]}

\* What the ping leaves locked: nothing, or the part of `interested` that the
\* first of these videos shares its lock with.
Shards(n, c, requested) ==
  IF Stale(n, c, requested) = {} THEN {{}}
  ELSE {shard \in SUBSET Videos : shard \cap Stale(n, c, requested) # {}}

\* handle_client_ping: a listed video without a route is requested for the
\* client, one with a route is left alone. A subscription the client does not
\* list is to be stopped, inside an iteration over `interested` that holds
\* the lock handle_stop_video takes: there the packet task stops for good.
\* The answer was made at the start and is sent at the end.
HandleClientPing(n, c, requested) ==
  /\ Receiving(n)
  /\ lastPings' = [lastPings EXCEPT ![n] = @ \cup {c}]
  /\ \E best \in BestNodes(n, {}) :
       LET vs == {v \in requested : videoRoutes[n][v] = NoRoute}
       IN  /\ interested' = [interested EXCEPT ![n] =
                [v \in Videos |-> IF v \in vs THEN @[v] \cup {c} ELSE @[v]]]
           /\ videoRoutes' = [videoRoutes EXCEPT ![n] = RoutesAfter(@, vs, best, {})]
           /\ queue' = [queue EXCEPT ![n] = @ \cup Unplaced(vs, best)]
           /\ unsent' = [unsent EXCEPT ![n] = UnsentAfter(n, vs, best, {})]
           /\ sent' = Requests(vs, best, {})
                      \cup IF Stale(n, c, requested) = {} THEN {VideoList(c, GetVideos(n, c))}
                                                          ELSE {}
  /\ \E shard \in Shards(n, c, requested) : locked' = [locked EXCEPT ![n] = shard]
  /\ UNCHANGED <<neighbours, status, offers, parents, lastVideos, connecting, halted>>

\* handle_client_ping when the request for `bad` cannot be sent: the handler
\* returns there. The videos `before` came earlier in the list.
ClientPingFails(n, c, requested) ==
  /\ Receiving(n)
  /\ lastPings' = [lastPings EXCEPT ![n] = @ \cup {c}]
  /\ \E best \in BestNodes(n, {}), bad \in requested, before \in SUBSET requested :
       LET vs == {v \in before \cup {bad} : videoRoutes[n][v] = NoRoute}
       IN  /\ bad \in vs /\ best[bad] # NoRoute /\ bad \notin before
           /\ interested' = [interested EXCEPT ![n] =
                [v \in Videos |-> IF v \in vs THEN @[v] \cup {c} ELSE @[v]]]
           /\ videoRoutes' = [videoRoutes EXCEPT ![n] = RoutesAfter(@, vs, best, {bad})]
           /\ queue' = [queue EXCEPT ![n] = @ \cup Unplaced(vs, best)]
           /\ unsent' = [unsent EXCEPT ![n] = UnsentAfter(n, vs, best, {bad})]
           /\ sent' = Requests(vs, best, {bad})
  /\ UNCHANGED <<neighbours, status, offers, parents, lastVideos, connecting, locked, halted>>

\* handle_flood_packet: the sender's entry is renewed, queued videos it offers
\* are requested from it and leave the queue even if that fails, and the flood
\* goes on to every neighbour but the sender, less the videos only that
\* neighbour has. A flood that was here before is dropped at once.
HandleFloodPacket(n, p, vs, ps, visited) ==
  /\ Receiving(n)
  /\ p # n /\ n \notin visited
  /\ status' = [status EXCEPT ![n][p] = "Active"]
  /\ offers' = [offers EXCEPT ![n][p] = vs]
  /\ parents' = [parents EXCEPT ![n][p] = ps]
  /\ \E failed \in SUBSET Videos :
       LET pending == queue[n] \cap vs
           best == [v \in Videos |-> p]
       IN  /\ videoRoutes' = [videoRoutes EXCEPT ![n] = RoutesAfter(@, pending, best, failed)]
           /\ unsent' = [unsent EXCEPT ![n] = UnsentAfter(n, pending, best, failed)]
           /\ sent' = Requests(pending, best, failed)
                \cup {FloodPacket(q, GetVideos(n, q)', GetParents(n)', visited \cup {n}) :
                        q \in neighbours[n] \ {p}}
  /\ queue' = [queue EXCEPT ![n] = @ \ vs]
  /\ UNCHANGED <<neighbours, interested, lastPings, lastVideos, connecting, locked, halted>>

\* handle_packet with a NewNeighbour.
HandleNewNeighbour(n, p) ==
  /\ Receiving(n)
  /\ p # n
  /\ neighbours' = [neighbours EXCEPT ![n] = @ \cup {p}]
  /\ sent' = {}
  /\ UNCHANGED <<status, offers, parents, interested, videoRoutes, queue,
                 lastPings, lastVideos, connecting, locked, halted, unsent>>

\* handle_video_packet: noted, and sent on to the subscribers unless its
\* sequence number jumps. A send that fails ends the broadcast.
HandleVideoPacket(n, v) ==
  /\ Receiving(n)
  /\ lastVideos' = [lastVideos EXCEPT ![n] = @ \cup {v}]
  /\ \E to \in SUBSET interested[n][v] : sent' = {VideoPacket(a, v) : a \in to}
  /\ UNCHANGED <<neighbours, status, offers, parents, interested, videoRoutes,
                 queue, lastPings, connecting, locked, halted, unsent>>

----
\* The status is set and handle_unresponsive_node called: the videos received
\* from p and the videos sent to p are listed first; those sent are stopped;
\* those received are asked of another route or queued, and then the parents
\* of p are contacted as well.
BecomesUnresponsive(n, p) ==
  /\ status[n][p] = "Active"
  /\ \A v \in locked[n] : p \notin interested[n][v]
  /\ status' = [status EXCEPT ![n][p] = "Unresponsive"]
  /\ \E best \in BestNodes(n, {p}), failed \in SUBSET Videos :
       LET receiving == {v \in Videos : videoRoutes[n][v] = p}
           sending == {v \in Videos : p \in interested[n][v]}
           remaining == Unplaced(receiving, best)
           contacted == IF remaining = {} THEN {} ELSE parents[n][p] \ {n}
       IN  /\ interested' = [interested EXCEPT ![n] = SubscribersLeft(n, p, sending)]
           /\ videoRoutes' = [videoRoutes EXCEPT ![n] =
                RoutesAfter(RoutesLeft(n, p, sending), receiving, best, failed)]
           /\ queue' = [queue EXCEPT ![n] = @ \cup remaining]
           /\ unsent' = [unsent EXCEPT ![n] = UnsentAfter(n, receiving, best, failed)]
           /\ connecting' = [connecting EXCEPT ![n] = @ \cup contacted]
           /\ sent' = Stops(n, p, sending) \cup Requests(receiving, best, failed)
                      \cup {NewNeighbour(q) : q \in contacted}
  /\ UNCHANGED <<neighbours, offers, parents, lastPings, lastVideos, locked>>

\* The same while the entry of a video sent to p is locked for good: some of
\* the others are stopped, and the task gets no further.
UnresponsiveHangs(n, p) ==
  LET sending == {v \in Videos : p \in interested[n][v]}
  IN  /\ status[n][p] = "Active"
      /\ sending \cap locked[n] # {}
      /\ status' = [status EXCEPT ![n][p] = "Unresponsive"]
      /\ \E done \in SUBSET (sending \ locked[n]) :
           /\ interested' = [interested EXCEPT ![n] = SubscribersLeft(n, p, done)]
           /\ videoRoutes' = [videoRoutes EXCEPT ![n] = RoutesLeft(n, p, done)]
           /\ sent' = Stops(n, p, done)
      /\ UNCHANGED <<neighbours, offers, parents, queue, lastPings, lastVideos,
                     connecting, locked, unsent>>

\* handle_send_flood_packet_result with a Timeout or an error: it matters only
\* for a neighbour that has an active entry of its own. Each packet has a task
\* of its own to wait for its result.
FloodNotAcked(n, p) ==
  /\ p \in neighbours[n]
  /\ BecomesUnresponsive(n, p) \/ UnresponsiveHangs(n, p)
  /\ UNCHANGED halted

\* run_check_neighbours_task: an active peer has sent no flood for more than
\* three intervals. Time is left out: it may be so at any time. First with a
\* look at the neighbours only.
NeighbourSilent(n, p) ==
  /\ "neighbours" \notin halted[n] /\ p \in neighbours[n]
  /\ \/ BecomesUnresponsive(n, p) /\ UNCHANGED halted
     \/ UnresponsiveHangs(n, p) /\ halted' = [halted EXCEPT ![n] = @ \cup {"neighbours"}]

ParentSilent(n, p) ==
  /\ "neighbours" \notin halted[n]
  /\ \/ BecomesUnresponsive(n, p) /\ UNCHANGED halted
     \/ UnresponsiveHangs(n, p) /\ halted' = [halted EXCEPT ![n] = @ \cup {"neighbours"}]

\* The outcome of a NewNeighbour, in the task connect_to_node_parent spawned.
ConnectAcked(n, p) ==
  /\ p \in connecting[n]
  /\ connecting' = [connecting EXCEPT ![n] = @ \ {p}]
  /\ neighbours' = [neighbours EXCEPT ![n] = @ \cup {p}]
  /\ sent' = {}
  /\ UNCHANGED <<status, offers, parents, interested, videoRoutes, queue,
                 lastPings, lastVideos, locked, halted, unsent>>

ConnectTimesOut(n, p) ==
  /\ p \in connecting[n]
  /\ connecting' = [connecting EXCEPT ![n] = @ \ {p}]
  /\ sent' = {}
  /\ UNCHANGED <<neighbours, status, offers, parents, interested, videoRoutes,
                 queue, lastPings, lastVideos, locked, halted, unsent>>

\* run_client_health_check_task: a client that pinged once and not for more
\* than three intervals is unsubscribed from everything.
ClientSilent(n, c) ==
  LET playing == {v \in Videos : c \in interested[n][v]}
  IN  /\ "clients" \notin halted[n]
      /\ c \in lastPings[n]
      /\ playing # {} /\ playing \cap locked[n] = {}
      /\ interested' = [interested EXCEPT ![n] = SubscribersLeft(n, c, playing)]
      /\ videoRoutes' = [videoRoutes EXCEPT ![n] = RoutesLeft(n, c, playing)]
      /\ sent' = Stops(n, c, playing)
      /\ UNCHANGED <<neighbours, status, offers, parents, queue, lastPings,
                     lastVideos, connecting, locked, halted, unsent>>

\* The same with a subscription in a part of `interested` that is locked.
ClientCheckHangs(n, c) ==
  LET playing == {v \in Videos : c \in interested[n][v]}
  IN  /\ "clients" \notin halted[n]
      /\ c \in lastPings[n]
      /\ playing \cap locked[n] # {}
      /\ halted' = [halted EXCEPT ![n] = @ \cup {"clients"}]
      /\ \E done \in SUBSET (playing \ locked[n]) :
           /\ interested' = [interested EXCEPT ![n] = SubscribersLeft(n, c, done)]
           /\ videoRoutes' = [videoRoutes EXCEPT ![n] = RoutesLeft(n, c, done)]
           /\ sent' = Stops(n, c, done)
      /\ UNCHANGED <<neighbours, status, offers, parents, queue, lastPings,
                     lastVideos, connecting, locked, unsent>>

\* run_video_health_check_task: a video that was received once, and not for
\* 500 ms, is asked again of the peer its route names.
VideoSilent(n, v) ==
  /\ v \in lastVideos[n]
  /\ videoRoutes[n][v] # NoRoute
  /\ sent' = {RequestVideo(videoRoutes[n][v], v)}
  /\ UNCHANGED <<neighbours, status, offers, parents, interested, videoRoutes,
                 queue, lastPings, lastVideos, connecting, locked, halted, unsent>>

\* The process ends, by a crash, ctrl-c or a task that returned, and another
\* starts with the bootstrapper's answer and nothing else.
Restart(n) ==
  /\ neighbours' = [neighbours EXCEPT ![n] = Neighbours[n]]
  /\ status' = [status EXCEPT ![n] = [p \in Peers |-> "Unknown"]]
  /\ offers' = [offers EXCEPT ![n] = [p \in Peers |-> {}]]
  /\ parents' = [parents EXCEPT ![n] = [p \in Peers |-> {}]]
  /\ interested' = [interested EXCEPT ![n] = [v \in Videos |-> {}]]
  /\ videoRoutes' = [videoRoutes EXCEPT ![n] = [v \in Videos |-> NoRoute]]
  /\ queue' = [queue EXCEPT ![n] = {}]
  /\ lastPings' = [lastPings EXCEPT ![n] = {}]
  /\ lastVideos' = [lastVideos EXCEPT ![n] = {}]
  /\ connecting' = [connecting EXCEPT ![n] = {}]
  /\ locked' = [locked EXCEPT ![n] = {}]
  /\ halted' = [halted EXCEPT ![n] = {}]
  /\ unsent' = [unsent EXCEPT ![n] = {}]
  /\ sent' = {}

PacketStep(n) ==
  \/ \E a \in Addrs \ {n}, v \in Videos : HandleRequestVideo(n, a, v)
  \/ \E a \in Addrs \ {n}, v \in Videos : HandleStopVideo(n, a, v)
  \/ \E c \in Clients, requested \in SUBSET Videos : HandleClientPing(n, c, requested)
  \/ \E c \in Clients, requested \in SUBSET Videos : ClientPingFails(n, c, requested)
  \/ \E p \in Peers, vs \in SUBSET Videos, ps \in ParentLists, visited \in SUBSET Nodes :
        HandleFloodPacket(n, p, vs, ps, visited)
  \/ \E p \in Peers : HandleNewNeighbour(n, p)
  \/ \E v \in Videos : HandleVideoPacket(n, v)

TaskStep(n) ==
  \/ \E p \in Peers : FloodNotAcked(n, p)
  \/ \E p \in Peers : ParentSilent(n, p)
  \/ \E p \in Peers : ConnectAcked(n, p)
  \/ \E p \in Peers : ConnectTimesOut(n, p)
  \/ \E c \in Clients : ClientSilent(n, c)
  \/ \E c \in Clients : ClientCheckHangs(n, c)
  \/ \E v \in Videos : VideoSilent(n, v)

Next == \E n \in Nodes : PacketStep(n) \/ TaskStep(n) \/ Restart(n)

Spec == Init /\ [][Next]_vars

----
\* While a video has a subscriber it has a route or waits in the queue, unless
\* its last request failed to be sent: no sequence of requests, stops, pings,
\* floods and deaths leaves a subscriber that nobody will ever serve.
SubscribersHaveSource ==
  \A n \in Nodes, v \in Videos :
    interested[n][v] # {}
      => (videoRoutes[n][v] # NoRoute \/ v \in queue[n] \cup unsent[n])

\* A route names a peer the node knows, and if that peer is unresponsive the
\* video waits in the queue for another one, unless its last request failed to
\* be sent or the packet task has stopped.
DeadRouteIsQueued ==
  \A n \in Nodes, v \in Videos :
    (Receiving(n) /\ videoRoutes[n][v] # NoRoute /\ v \notin unsent[n]) =>
      \/ status[n][videoRoutes[n][v]] = "Active"
      \/ status[n][videoRoutes[n][v]] = "Unresponsive" /\ v \in queue[n]

\* A video waits in the queue only while no active peer offers it: a request
\* that could be served is not left waiting.
QueuedIsUnavailable ==
  \A n \in Nodes : \A v \in queue[n] : Offering(n, v) = {}

\* No step takes the route of a video that still has subscribers after it,
\* whatever fails.
WatchedKeepsRoute ==
  [][\A n \in Nodes, v \in Videos :
       (videoRoutes[n][v] # NoRoute /\ videoRoutes'[n][v] = NoRoute)
         => interested'[n][v] = {}]_vars

\* handle_unresponsive_node finds the route of v dead, with nobody subscribed
\* to v but the dead peer: handle_stop_video takes the route (handle.rs:97),
\* and the loop over the videos listed before asks for v again, for nobody.
AskedAgainForNobody(n, v) ==
  \E p \in Peers : /\ videoRoutes[n][v] = p /\ interested[n][v] \subseteq {p}
                   /\ status[n][p] = "Active" /\ status'[n][p] = "Unresponsive"

\* Every route a step sets, where there was none or one to another peer, is set
\* for somebody who is subscribed then or for a request that was queued, or it
\* is the route that handle_unresponsive_node sets again for nobody. These are
\* the two ways to a stream that nobody watches: a subscriber that left a
\* queued video, and a dead peer that was route and last subscriber at once.
StreamsAreAskedFor ==
  [][\A n \in Nodes, v \in Videos :
       videoRoutes'[n][v] \notin {videoRoutes[n][v], NoRoute}
         => \/ interested'[n][v] # {}
            \/ v \in queue[n]
            \/ AskedAgainForNobody(n, v)]_vars

----
\* common/src/packet.rs:33-35: the list of a ping tells a node that lost its
\* state which videos the client is interested in, "without having to send the
\* `RequestVideo` packet again".
PingRestoresSubscriptions ==
  [][\A n \in Nodes, c \in Clients, requested \in SUBSET Videos :
       HandleClientPing(n, c, requested)
         => \A v \in requested : c \in interested'[n][v]]_vars

\* node/src/handle.rs:38-40: a client that does not list a video "is not
\* interested in video {video_id} anymore", and its subscription is stopped.
PingEndsSubscriptions ==
  [][\A n \in Nodes, c \in Clients, requested \in SUBSET Videos :
       HandleClientPing(n, c, requested)
         => \A v \in Videos \ requested : c \notin interested'[n][v]]_vars

====

---- MODULE NodeProofs ----
(* Proofs about Node for every set of nodes, peers, clients and videos.      *)
EXTENDS Node, TLAPS

Routes == [Videos -> Peers \cup {NoRoute}]

\* What a choice of best nodes is: a route for every video that somebody other
\* than the peers `down` offers, and NoRoute exactly for the others.
LEMMA BestNodesFacts ==
  ASSUME NEW n \in Nodes, NEW down \in SUBSET Peers, NEW best \in BestNodes(n, down)
  PROVE  /\ best \in Routes
         /\ \A v \in Videos :
              /\ best[v] = NoRoute => Offering(n, v) \ down = {}
              /\ best[v] # NoRoute => best[v] \in Offering(n, v) \ down
  BY NodeAssumption DEF BestNodes, Routes, Offering

\* The tables of routes and subscribers the handlers compute are tables.
LEMMA TablesAreTyped ==
  ASSUME TypeOK, NEW n \in Nodes, NEW a, NEW vs \in SUBSET Videos,
         NEW routes \in Routes, NEW best \in Routes, NEW failed
  PROVE  /\ RoutesAfter(routes, vs, best, failed) \in Routes
         /\ RoutesLeft(n, a, vs) \in Routes
         /\ SubscribersLeft(n, a, vs) \in [Videos -> SUBSET Addrs]
         /\ Unplaced(vs, best) \subseteq Videos
         /\ UnsentAfter(n, vs, best, failed) \subseteq Videos
<1>1. RoutesAfter(routes, vs, best, failed) \in Routes
  BY DEF RoutesAfter, Asked, Routes
<1>2. RoutesLeft(n, a, vs) \in Routes
  BY DEF RoutesLeft, Routes, TypeOK
<1>3. SubscribersLeft(n, a, vs) \in [Videos -> SUBSET Addrs]
  BY DEF SubscribersLeft, TypeOK
<1>4. Unplaced(vs, best) \subseteq Videos
  BY DEF Unplaced
<1>5. UnsentAfter(n, vs, best, failed) \subseteq Videos
  BY DEF UnsentAfter, TypeOK
<1> QED BY <1>1, <1>2, <1>3, <1>4, <1>5

LEMMA InitTypeOK == Init => TypeOK
  BY NodeAssumption DEF Init, TypeOK

----
\* Each handler keeps the types.
LEMMA RequestTypeOK ==
  ASSUME TypeOK, NEW n \in Nodes, NEW a \in Addrs, NEW v \in Videos, HandleRequestVideo(n, a, v)
  PROVE  TypeOK'
<1> PICK best \in BestNodes(n, {}), failed \in SUBSET Videos :
      LET vs == IF videoRoutes[n][v] = NoRoute THEN {v} ELSE {}
      IN  /\ videoRoutes' = [videoRoutes EXCEPT ![n] = RoutesAfter(@, vs, best, failed)]
          /\ queue' = [queue EXCEPT ![n] = @ \cup Unplaced(vs, best)]
          /\ unsent' = [unsent EXCEPT ![n] = UnsentAfter(n, vs, best, failed)]
  BY DEF HandleRequestVideo
<1> DEFINE vs == IF videoRoutes[n][v] = NoRoute THEN {v} ELSE {}
<1>1. best \in Routes
  BY BestNodesFacts
<1>2. vs \in SUBSET Videos /\ videoRoutes[n] \in Routes
  BY DEF TypeOK, Routes
<1>3. RoutesAfter(videoRoutes[n], vs, best, failed) \in Routes
      /\ Unplaced(vs, best) \subseteq Videos /\ UnsentAfter(n, vs, best, failed) \subseteq Videos
  BY <1>1, <1>2, TablesAreTyped
<1>4. /\ videoRoutes' \in [Nodes -> Routes] /\ queue' \in [Nodes -> SUBSET Videos]
      /\ unsent' \in [Nodes -> SUBSET Videos]
  BY <1>3 DEF TypeOK, Routes
<1>5. interested' \in [Nodes -> [Videos -> SUBSET Addrs]]
  BY DEF HandleRequestVideo, TypeOK
<1> QED BY <1>4, <1>5 DEF HandleRequestVideo, TypeOK, Routes

LEMMA StopTypeOK ==
  ASSUME TypeOK, NEW n \in Nodes, NEW a, NEW v \in Videos, HandleStopVideo(n, a, v)
  PROVE  TypeOK'
<1>1. RoutesLeft(n, a, {v}) \in Routes /\ SubscribersLeft(n, a, {v}) \in [Videos -> SUBSET Addrs]
  BY DEF TypeOK, RoutesLeft, SubscribersLeft, Routes
<1> QED BY <1>1 DEF HandleStopVideo, TypeOK, Routes

LEMMA PingTypeOK ==
  ASSUME TypeOK, NEW n \in Nodes, NEW c \in Clients, NEW requested \in SUBSET Videos,
         HandleClientPing(n, c, requested) \/ ClientPingFails(n, c, requested)
  PROVE  TypeOK'
<1>1. PICK best \in BestNodes(n, {}), failed, vs \in SUBSET Videos :
        /\ interested' = [interested EXCEPT ![n] =
             [v \in Videos |-> IF v \in vs THEN @[v] \cup {c} ELSE @[v]]]
        /\ videoRoutes' = [videoRoutes EXCEPT ![n] = RoutesAfter(@, vs, best, failed)]
        /\ queue' = [queue EXCEPT ![n] = @ \cup Unplaced(vs, best)]
        /\ unsent' = [unsent EXCEPT ![n] = UnsentAfter(n, vs, best, failed)]
  <2>1. CASE HandleClientPing(n, c, requested)
    <3> DEFINE vs == {v \in requested : videoRoutes[n][v] = NoRoute}
    <3>1. vs \in SUBSET Videos
      OBVIOUS
    <3> HIDE DEF vs
    <3> QED BY <2>1, <3>1 DEF HandleClientPing, vs
  <2>2. CASE ClientPingFails(n, c, requested)
    <3>1. PICK best \in BestNodes(n, {}), bad \in requested, before \in SUBSET requested :
            LET vs == {v \in before \cup {bad} : videoRoutes[n][v] = NoRoute}
            IN  /\ interested' = [interested EXCEPT ![n] =
                     [v \in Videos |-> IF v \in vs THEN @[v] \cup {c} ELSE @[v]]]
                /\ videoRoutes' = [videoRoutes EXCEPT ![n] = RoutesAfter(@, vs, best, {bad})]
                /\ queue' = [queue EXCEPT ![n] = @ \cup Unplaced(vs, best)]
                /\ unsent' = [unsent EXCEPT ![n] = UnsentAfter(n, vs, best, {bad})]
      BY <2>2 DEF ClientPingFails
    <3> DEFINE vs == {v \in before \cup {bad} : videoRoutes[n][v] = NoRoute}
    <3>2. vs \in SUBSET Videos
      OBVIOUS
    <3> HIDE DEF vs
    <3> QED BY <3>1, <3>2 DEF vs
  <2> QED BY <2>1, <2>2
<1>2. best \in Routes /\ videoRoutes[n] \in Routes
  BY BestNodesFacts DEF TypeOK, Routes
<1>3. RoutesAfter(videoRoutes[n], vs, best, failed) \in Routes
      /\ Unplaced(vs, best) \subseteq Videos /\ UnsentAfter(n, vs, best, failed) \subseteq Videos
  BY <1>2, TablesAreTyped
<1>4. /\ videoRoutes' \in [Nodes -> Routes] /\ queue' \in [Nodes -> SUBSET Videos]
      /\ unsent' \in [Nodes -> SUBSET Videos]
  BY <1>1, <1>3 DEF TypeOK, Routes
<1>5. interested' \in [Nodes -> [Videos -> SUBSET Addrs]]
  BY <1>1 DEF TypeOK, Addrs
<1>6. /\ lastPings' = [lastPings EXCEPT ![n] = @ \cup {c}]
      /\ UNCHANGED <<neighbours, status, offers, parents, lastVideos, connecting>>
  BY DEF HandleClientPing, ClientPingFails
<1>7. locked' \in [Nodes -> SUBSET Videos] /\ UNCHANGED halted
  <2>1. CASE ClientPingFails(n, c, requested)
    BY <2>1 DEF ClientPingFails, TypeOK
  <2>2. CASE HandleClientPing(n, c, requested)
    <3>1. Shards(n, c, requested) \subseteq SUBSET Videos
      BY DEF Shards
    <3> QED BY <2>2, <3>1 DEF HandleClientPing, TypeOK
  <2> QED BY <2>1, <2>2
<1> QED BY <1>4, <1>5, <1>6, <1>7 DEF TypeOK, Routes

LEMMA FloodTypeOK ==
  ASSUME TypeOK, NEW n \in Nodes, NEW p \in Peers, NEW vs \in SUBSET Videos,
         NEW ps \in ParentLists, NEW visited, HandleFloodPacket(n, p, vs, ps, visited)
  PROVE  TypeOK'
<1>1. PICK failed \in SUBSET Videos :
        /\ videoRoutes' = [videoRoutes EXCEPT ![n] =
             RoutesAfter(@, queue[n] \cap vs, [v \in Videos |-> p], failed)]
        /\ unsent' = [unsent EXCEPT ![n] =
             UnsentAfter(n, queue[n] \cap vs, [v \in Videos |-> p], failed)]
  BY DEF HandleFloodPacket
<1>2. [v \in Videos |-> p] \in Routes /\ videoRoutes[n] \in Routes
  BY DEF TypeOK, Routes
<1>3. /\ RoutesAfter(videoRoutes[n], queue[n] \cap vs, [v \in Videos |-> p], failed) \in Routes
      /\ UnsentAfter(n, queue[n] \cap vs, [v \in Videos |-> p], failed) \subseteq Videos
  BY <1>2, TablesAreTyped
<1>4. videoRoutes' \in [Nodes -> Routes] /\ unsent' \in [Nodes -> SUBSET Videos]
  BY <1>1, <1>3 DEF TypeOK, Routes
<1>5. /\ status' \in [Nodes -> [Peers -> {"Unknown", "Active", "Unresponsive"}]]
      /\ offers' \in [Nodes -> [Peers -> SUBSET Videos]]
      /\ parents' \in [Nodes -> [Peers -> SUBSET Peers]]
      /\ queue' \in [Nodes -> SUBSET Videos]
  BY NodeAssumption DEF HandleFloodPacket, TypeOK
<1> QED BY <1>4, <1>5 DEF HandleFloodPacket, TypeOK, Routes

LEMMA UnresponsiveTypeOK ==
  ASSUME TypeOK, NEW n \in Nodes, NEW p \in Peers, BecomesUnresponsive(n, p), UNCHANGED halted
  PROVE  TypeOK'
<1> DEFINE receiving == {v \in Videos : videoRoutes[n][v] = p}
           sending == {v \in Videos : p \in interested[n][v]}
<1>1. PICK best \in BestNodes(n, {p}), failed \in SUBSET Videos :
        /\ interested' = [interested EXCEPT ![n] = SubscribersLeft(n, p, sending)]
        /\ videoRoutes' = [videoRoutes EXCEPT ![n] =
             RoutesAfter(RoutesLeft(n, p, sending), receiving, best, failed)]
        /\ queue' = [queue EXCEPT ![n] = @ \cup Unplaced(receiving, best)]
        /\ unsent' = [unsent EXCEPT ![n] = UnsentAfter(n, receiving, best, failed)]
        /\ connecting' = [connecting EXCEPT ![n] =
             @ \cup IF Unplaced(receiving, best) = {} THEN {} ELSE parents[n][p] \ {n}]
  BY DEF BecomesUnresponsive
<1>2. receiving \in SUBSET Videos /\ sending \in SUBSET Videos
  OBVIOUS
<1> HIDE DEF receiving, sending
<1>3. best \in Routes
  BY BestNodesFacts
<1>4. RoutesLeft(n, p, sending) \in Routes
      /\ SubscribersLeft(n, p, sending) \in [Videos -> SUBSET Addrs]
  BY <1>2, <1>3, TablesAreTyped
<1>5. RoutesAfter(RoutesLeft(n, p, sending), receiving, best, failed) \in Routes
      /\ Unplaced(receiving, best) \subseteq Videos
      /\ UnsentAfter(n, receiving, best, failed) \subseteq Videos
  BY <1>2, <1>3, <1>4, TablesAreTyped
<1>6. /\ videoRoutes' \in [Nodes -> Routes]
      /\ queue' \in [Nodes -> SUBSET Videos]
      /\ unsent' \in [Nodes -> SUBSET Videos]
      /\ interested' \in [Nodes -> [Videos -> SUBSET Addrs]]
      /\ connecting' \in [Nodes -> SUBSET Peers]
  BY <1>1, <1>4, <1>5 DEF TypeOK, Routes
<1>7. status' \in [Nodes -> [Peers -> {"Unknown", "Active", "Unresponsive"}]]
  BY DEF BecomesUnresponsive, TypeOK
<1> QED BY <1>6, <1>7 DEF BecomesUnresponsive, TypeOK, Routes

LEMMA UnresponsiveHangsTypeOK ==
  ASSUME TypeOK, NEW n \in Nodes, NEW p \in Peers, UnresponsiveHangs(n, p),
         halted' \in [Nodes -> SUBSET {"neighbours", "clients"}]
  PROVE  TypeOK'
<1>1. PICK done \in SUBSET Videos :
        /\ interested' = [interested EXCEPT ![n] = SubscribersLeft(n, p, done)]
        /\ videoRoutes' = [videoRoutes EXCEPT ![n] = RoutesLeft(n, p, done)]
  BY DEF UnresponsiveHangs
<1>2. RoutesLeft(n, p, done) \in Routes
      /\ SubscribersLeft(n, p, done) \in [Videos -> SUBSET Addrs]
  BY DEF TypeOK, RoutesLeft, SubscribersLeft, Routes
<1>3. status' \in [Nodes -> [Peers -> {"Unknown", "Active", "Unresponsive"}]]
  BY DEF UnresponsiveHangs, TypeOK
<1> QED BY <1>1, <1>2, <1>3 DEF UnresponsiveHangs, TypeOK, Routes

LEMMA DeathTypeOK ==
  ASSUME TypeOK, NEW n \in Nodes, NEW p \in Peers, FloodNotAcked(n, p) \/ ParentSilent(n, p)
  PROVE  TypeOK'
<1>1. CASE BecomesUnresponsive(n, p) /\ UNCHANGED halted
  BY <1>1, UnresponsiveTypeOK
<1>2. CASE UnresponsiveHangs(n, p) /\ UNCHANGED halted
  BY <1>2, UnresponsiveHangsTypeOK DEF TypeOK
<1>3. CASE UnresponsiveHangs(n, p) /\ halted' = [halted EXCEPT ![n] = @ \cup {"neighbours"}]
  <2>1. halted' \in [Nodes -> SUBSET {"neighbours", "clients"}]
    BY <1>3 DEF TypeOK
  <2> QED BY <1>3, <2>1, UnresponsiveHangsTypeOK
<1> QED BY <1>1, <1>2, <1>3 DEF FloodNotAcked, ParentSilent

LEMMA ClientHangsTypeOK ==
  ASSUME TypeOK, NEW n \in Nodes, NEW c \in Clients, ClientCheckHangs(n, c)
  PROVE  TypeOK'
<1>1. PICK done \in SUBSET Videos :
        /\ interested' = [interested EXCEPT ![n] = SubscribersLeft(n, c, done)]
        /\ videoRoutes' = [videoRoutes EXCEPT ![n] = RoutesLeft(n, c, done)]
  BY DEF ClientCheckHangs
<1>2. RoutesLeft(n, c, done) \in Routes
      /\ SubscribersLeft(n, c, done) \in [Videos -> SUBSET Addrs]
  BY DEF TypeOK, RoutesLeft, SubscribersLeft, Routes
<1>3. halted' \in [Nodes -> SUBSET {"neighbours", "clients"}]
  BY DEF ClientCheckHangs, TypeOK
<1> QED BY <1>1, <1>2, <1>3 DEF ClientCheckHangs, TypeOK, Routes

LEMMA SilentClientTypeOK ==
  ASSUME TypeOK, NEW n \in Nodes, NEW c \in Clients, ClientSilent(n, c)
  PROVE  TypeOK'
<1> DEFINE playing == {v \in Videos : c \in interested[n][v]}
<1>1. playing \in SUBSET Videos
  OBVIOUS
<1>2. /\ interested' = [interested EXCEPT ![n] = SubscribersLeft(n, c, playing)]
      /\ videoRoutes' = [videoRoutes EXCEPT ![n] = RoutesLeft(n, c, playing)]
      /\ UNCHANGED <<neighbours, status, offers, parents, queue, lastPings,
                     lastVideos, connecting, locked, halted, unsent>>
  BY DEF ClientSilent
<1> HIDE DEF playing
<1>3. RoutesLeft(n, c, playing) \in Routes
      /\ SubscribersLeft(n, c, playing) \in [Videos -> SUBSET Addrs]
  BY <1>1 DEF TypeOK, RoutesLeft, SubscribersLeft, Routes
<1> QED BY <1>2, <1>3 DEF TypeOK, Routes

LEMMA RestTypeOK ==
  ASSUME TypeOK, NEW n \in Nodes,
         \/ \E p \in Peers : HandleNewNeighbour(n, p)
         \/ \E v \in Videos : HandleVideoPacket(n, v)
         \/ \E p \in Peers : ConnectAcked(n, p) \/ ConnectTimesOut(n, p)
         \/ \E v \in Videos : VideoSilent(n, v)
         \/ Restart(n)
  PROVE  TypeOK'
<1>1. ASSUME NEW p \in Peers, HandleNewNeighbour(n, p) PROVE TypeOK'
  BY <1>1 DEF HandleNewNeighbour, TypeOK
<1>2. ASSUME NEW v \in Videos, HandleVideoPacket(n, v) PROVE TypeOK'
  BY <1>2 DEF HandleVideoPacket, TypeOK
<1>3. ASSUME NEW p \in Peers, ConnectAcked(n, p) PROVE TypeOK'
  BY <1>3 DEF ConnectAcked, TypeOK
<1>6. ASSUME NEW p \in Peers, ConnectTimesOut(n, p) PROVE TypeOK'
  BY <1>6 DEF ConnectTimesOut, TypeOK
<1>4. ASSUME NEW v \in Videos, VideoSilent(n, v) PROVE TypeOK'
  BY <1>4 DEF VideoSilent, TypeOK
<1>5. CASE Restart(n)
  BY <1>5, NodeAssumption DEF Restart, TypeOK
<1> QED BY <1>1, <1>2, <1>3, <1>4, <1>5, <1>6

LEMMA NextTypeOK == TypeOK /\ [Next]_vars => TypeOK'
<1> SUFFICES ASSUME TypeOK, [Next]_vars PROVE TypeOK'
  OBVIOUS
<1>1. CASE UNCHANGED vars
  BY <1>1 DEF vars, TypeOK
<1>2. ASSUME NEW n \in Nodes, PacketStep(n) PROVE TypeOK'
  BY <1>2, RequestTypeOK, StopTypeOK, PingTypeOK, FloodTypeOK, RestTypeOK DEF PacketStep
<1>3. ASSUME NEW n \in Nodes, TaskStep(n) PROVE TypeOK'
  BY <1>3, DeathTypeOK, SilentClientTypeOK, ClientHangsTypeOK, RestTypeOK DEF TaskStep
<1>4. ASSUME NEW n \in Nodes, Restart(n) PROVE TypeOK'
  BY <1>4, RestTypeOK
<1> QED BY <1>1, <1>2, <1>3, <1>4 DEF Next

\* Every variable keeps its type.
THEOREM TypeCorrect == Spec => []TypeOK
  BY InitTypeOK, NextTypeOK, PTL DEF Spec

----
\* The invariants together.
NInv == /\ TypeOK
        /\ QueuedIsUnavailable
        /\ SubscribersHaveSource
        /\ DeadRouteIsQueued

\* What a round of requests for the videos vs does to one video.
LEMMA AttemptFacts ==
  ASSUME NEW n \in Nodes, NEW vs, NEW routes, NEW best, NEW failed, NEW v \in Videos
  PROVE  /\ v \notin vs => RoutesAfter(routes, vs, best, failed)[v] = routes[v]
         /\ v \notin vs /\ v \in unsent[n] => v \in UnsentAfter(n, vs, best, failed)
         /\ v \in vs /\ best[v] # NoRoute /\ v \notin UnsentAfter(n, vs, best, failed)
              => RoutesAfter(routes, vs, best, failed)[v] = best[v]
         /\ v \in vs /\ (best[v] = NoRoute \/ v \in UnsentAfter(n, vs, best, failed))
              => RoutesAfter(routes, vs, best, failed)[v] = routes[v]
  BY DEF RoutesAfter, Asked, UnsentAfter

LEMMA InitNInv == Init => NInv
  BY InitTypeOK DEF Init, NInv, QueuedIsUnavailable, SubscribersHaveSource, DeadRouteIsQueued

\* No step but a restart opens a lock that is closed for good.
LocksStay == \A m \in Nodes : locked'[m] = {} => locked[m] = {}

\* Asking for the videos vs, which have no route: what handle_request_video
\* does to the tables, alone or inside a ping. Other videos may gain
\* subscribers only if they have a route.
LEMMA AskKeeps ==
  ASSUME NInv, TypeOK', NEW n \in Nodes, NEW vs \in SUBSET Videos,
         NEW best \in BestNodes(n, {}), NEW failed,
         \A v \in vs : videoRoutes[n][v] = NoRoute,
         \A v \in Videos \ vs :
           interested'[n][v] = interested[n][v] \/ videoRoutes[n][v] # NoRoute,
         \A m \in Nodes \ {n} : interested'[m] = interested[m],
         videoRoutes' = [videoRoutes EXCEPT ![n] = RoutesAfter(@, vs, best, failed)],
         queue' = [queue EXCEPT ![n] = @ \cup Unplaced(vs, best)],
         unsent' = [unsent EXCEPT ![n] = UnsentAfter(n, vs, best, failed)],
         UNCHANGED <<status, offers>>, LocksStay
  PROVE  NInv'
<1> USE DEF NInv
<1>1. \A v \in Videos :
        /\ best[v] = NoRoute => Offering(n, v) = {}
        /\ best[v] # NoRoute => (best[v] \in Peers /\ status[n][best[v]] = "Active")
  BY BestNodesFacts DEF Offering
<1>2. QueuedIsUnavailable'
  BY <1>1 DEF QueuedIsUnavailable, Offering, TypeOK, Unplaced
<1>3. \A v \in Videos :
        /\ v \in vs /\ best[v] # NoRoute /\ v \notin unsent'[n] => videoRoutes'[n][v] = best[v]
        /\ v \in vs /\ (best[v] = NoRoute \/ v \in unsent'[n]) => videoRoutes'[n][v] = NoRoute
        /\ v \in vs /\ best[v] = NoRoute => v \in queue'[n]
        /\ v \notin vs => videoRoutes'[n][v] = videoRoutes[n][v]
        /\ v \notin vs /\ v \in unsent[n] => v \in unsent'[n]
        /\ v \in queue[n] => v \in queue'[n]
  <2>1. /\ videoRoutes'[n] = RoutesAfter(videoRoutes[n], vs, best, failed)
        /\ unsent'[n] = UnsentAfter(n, vs, best, failed)
        /\ queue'[n] = queue[n] \cup Unplaced(vs, best)
    BY DEF TypeOK
  <2> QED BY <2>1, AttemptFacts DEF Unplaced
<1>4. \A m \in Nodes \ {n} : /\ videoRoutes'[m] = videoRoutes[m]
                             /\ queue'[m] = queue[m]
                             /\ unsent'[m] = unsent[m]
                             /\ interested'[m] = interested[m]
  BY DEF TypeOK
<1>5. SubscribersHaveSource'
  BY <1>3, <1>4 DEF SubscribersHaveSource
<1>6. DeadRouteIsQueued'
  BY <1>1, <1>3, <1>4 DEF DeadRouteIsQueued, LocksStay, Receiving
<1> QED BY <1>2, <1>5, <1>6

LEMMA RequestKeeps ==
  ASSUME NInv, TypeOK', NEW n \in Nodes, NEW a \in Addrs, NEW v \in Videos,
         HandleRequestVideo(n, a, v)
  PROVE  NInv'
<1> DEFINE vs == IF videoRoutes[n][v] = NoRoute THEN {v} ELSE {}
<1>1. PICK best \in BestNodes(n, {}), failed \in SUBSET Videos :
        /\ videoRoutes' = [videoRoutes EXCEPT ![n] = RoutesAfter(@, vs, best, failed)]
        /\ queue' = [queue EXCEPT ![n] = @ \cup Unplaced(vs, best)]
        /\ unsent' = [unsent EXCEPT ![n] = UnsentAfter(n, vs, best, failed)]
  BY DEF HandleRequestVideo
<1>2. vs \in SUBSET Videos /\ \A u \in vs : videoRoutes[n][u] = NoRoute
  OBVIOUS
<1>3. /\ \A u \in Videos \ vs :
           interested'[n][u] = interested[n][u] \/ videoRoutes[n][u] # NoRoute
      /\ \A m \in Nodes \ {n} : interested'[m] = interested[m]
  BY DEF HandleRequestVideo, NInv, TypeOK
<1>4. UNCHANGED <<status, offers>> /\ LocksStay
  BY DEF HandleRequestVideo, LocksStay
<1> HIDE DEF vs
<1> QED BY <1>1, <1>2, <1>3, <1>4, AskKeeps

LEMMA PingKeeps ==
  ASSUME NInv, TypeOK', NEW n \in Nodes, NEW c \in Clients, NEW requested \in SUBSET Videos,
         HandleClientPing(n, c, requested)
  PROVE  NInv'
<1> DEFINE vs == {v \in requested : videoRoutes[n][v] = NoRoute}
<1>1. PICK best \in BestNodes(n, {}) :
        /\ interested' = [interested EXCEPT ![n] =
             [v \in Videos |-> IF v \in vs THEN @[v] \cup {c} ELSE @[v]]]
        /\ videoRoutes' = [videoRoutes EXCEPT ![n] = RoutesAfter(@, vs, best, {})]
        /\ queue' = [queue EXCEPT ![n] = @ \cup Unplaced(vs, best)]
        /\ unsent' = [unsent EXCEPT ![n] = UnsentAfter(n, vs, best, {})]
  BY DEF HandleClientPing
<1>2. vs \in SUBSET Videos /\ \A v \in vs : videoRoutes[n][v] = NoRoute
  OBVIOUS
<1>3. UNCHANGED <<status, offers>> /\ LocksStay
  BY DEF HandleClientPing, LocksStay, Receiving, NInv, TypeOK
<1> HIDE DEF vs
<1>4. /\ \A v \in Videos \ vs : interested'[n][v] = interested[n][v]
      /\ \A m \in Nodes \ {n} : interested'[m] = interested[m]
  BY <1>1 DEF NInv, TypeOK
<1> QED BY <1>1, <1>2, <1>3, <1>4, AskKeeps

LEMMA PingFailsKeeps ==
  ASSUME NInv, TypeOK', NEW n \in Nodes, NEW c \in Clients, NEW requested \in SUBSET Videos,
         ClientPingFails(n, c, requested)
  PROVE  NInv'
<1>1. PICK best \in BestNodes(n, {}), bad \in requested, before \in SUBSET requested :
        LET vs == {v \in before \cup {bad} : videoRoutes[n][v] = NoRoute}
        IN  /\ interested' = [interested EXCEPT ![n] =
                 [v \in Videos |-> IF v \in vs THEN @[v] \cup {c} ELSE @[v]]]
            /\ videoRoutes' = [videoRoutes EXCEPT ![n] = RoutesAfter(@, vs, best, {bad})]
            /\ queue' = [queue EXCEPT ![n] = @ \cup Unplaced(vs, best)]
            /\ unsent' = [unsent EXCEPT ![n] = UnsentAfter(n, vs, best, {bad})]
  BY DEF ClientPingFails
<1> DEFINE vs == {v \in before \cup {bad} : videoRoutes[n][v] = NoRoute}
<1>2. vs \in SUBSET Videos /\ \A v \in vs : videoRoutes[n][v] = NoRoute
  OBVIOUS
<1>3. UNCHANGED <<status, offers>> /\ LocksStay
  BY DEF ClientPingFails, LocksStay
<1> DEFINE failed == {bad}
<1>4. /\ interested' = [interested EXCEPT ![n] =
           [v \in Videos |-> IF v \in vs THEN @[v] \cup {c} ELSE @[v]]]
      /\ videoRoutes' = [videoRoutes EXCEPT ![n] = RoutesAfter(@, vs, best, failed)]
      /\ queue' = [queue EXCEPT ![n] = @ \cup Unplaced(vs, best)]
      /\ unsent' = [unsent EXCEPT ![n] = UnsentAfter(n, vs, best, failed)]
  BY <1>1
<1> HIDE DEF vs, failed
<1>5. /\ \A v \in Videos \ vs : interested'[n][v] = interested[n][v]
      /\ \A m \in Nodes \ {n} : interested'[m] = interested[m]
  BY <1>4 DEF NInv, TypeOK
<1> QED BY <1>2, <1>3, <1>4, <1>5, AskKeeps

\* Unsubscribing a from the videos vs: the others keep subscribers and route.
LEMMA StopKeeps ==
  ASSUME NInv, TypeOK', NEW n \in Nodes, NEW a, NEW vs \in SUBSET Videos,
         interested' = [interested EXCEPT ![n] = SubscribersLeft(n, a, vs)],
         videoRoutes' = [videoRoutes EXCEPT ![n] = RoutesLeft(n, a, vs)],
         UNCHANGED <<status, offers, queue, locked, unsent>>
  PROVE  NInv'
<1> USE DEF NInv
<1>1. QueuedIsUnavailable'
  BY DEF QueuedIsUnavailable, Offering
<1>2. \A v \in Videos :
        /\ interested'[n][v] \subseteq interested[n][v]
        /\ videoRoutes'[n][v] = NoRoute
           \/ videoRoutes'[n][v] = videoRoutes[n][v]
        /\ videoRoutes'[n][v] # videoRoutes[n][v] => interested'[n][v] = {}
  BY DEF TypeOK, SubscribersLeft, RoutesLeft, Ended
<1>3. \A m \in Nodes \ {n} : videoRoutes'[m] = videoRoutes[m] /\ interested'[m] = interested[m]
  BY DEF TypeOK
<1>4. SubscribersHaveSource'
  BY <1>2, <1>3 DEF SubscribersHaveSource
<1>5. DeadRouteIsQueued'
  BY <1>2, <1>3 DEF DeadRouteIsQueued, Receiving
<1> QED BY <1>1, <1>4, <1>5

\* A flood serves what waits for it, from a peer that is active now.
LEMMA FloodKeeps ==
  ASSUME NInv, TypeOK', NEW n \in Nodes, NEW p \in Peers, NEW vs \in SUBSET Videos,
         NEW ps \in ParentLists, NEW visited, HandleFloodPacket(n, p, vs, ps, visited)
  PROVE  NInv'
<1> USE DEF NInv
<1> DEFINE pending == queue[n] \cap vs
           best == [v \in Videos |-> p]
<1>1. PICK failed \in SUBSET Videos :
        /\ videoRoutes' = [videoRoutes EXCEPT ![n] = RoutesAfter(videoRoutes[n], pending, best, failed)]
        /\ unsent' = [unsent EXCEPT ![n] = UnsentAfter(n, pending, best, failed)]
  BY DEF HandleFloodPacket
<1>2. /\ status' = [status EXCEPT ![n][p] = "Active"]
      /\ offers' = [offers EXCEPT ![n][p] = vs]
      /\ queue' = [queue EXCEPT ![n] = @ \ vs]
      /\ interested' = interested
      /\ locked' = locked
  BY DEF HandleFloodPacket
<1>3. QueuedIsUnavailable'
  BY <1>2 DEF QueuedIsUnavailable, Offering, TypeOK
<1>4. \A v \in Videos :
        /\ v \in pending /\ v \notin unsent'[n] => videoRoutes'[n][v] = p
        /\ v \notin pending => videoRoutes'[n][v] = videoRoutes[n][v]
        /\ v \notin pending /\ v \in unsent[n] => v \in unsent'[n]
  <2>1. \A v \in Videos : best[v] = p /\ p # NoRoute
    BY NodeAssumption
  <2> HIDE DEF best, pending
  <2>2. /\ videoRoutes'[n] = RoutesAfter(videoRoutes[n], pending, best, failed)
        /\ unsent'[n] = UnsentAfter(n, pending, best, failed)
    BY <1>1 DEF TypeOK
  <2> QED BY <2>1, <2>2, AttemptFacts
<1>5. \A m \in Nodes \ {n} : /\ videoRoutes'[m] = videoRoutes[m]
                             /\ queue'[m] = queue[m]
                             /\ unsent'[m] = unsent[m]
                             /\ status'[m] = status[m]
  BY <1>1, <1>2 DEF TypeOK
<1>6. queue'[n] = queue[n] \ vs
  BY <1>2 DEF TypeOK
<1>7. SubscribersHaveSource'
  BY <1>2, <1>4, <1>5, <1>6, NodeAssumption DEF SubscribersHaveSource
<1>8. \A q \in Peers : status'[n][q] = IF q = p THEN "Active" ELSE status[n][q]
  BY <1>2 DEF TypeOK
<1>9. DeadRouteIsQueued'
  <2>1. ASSUME NEW v \in Videos, videoRoutes'[n][v] # NoRoute, locked[n] = {}, v \notin unsent'[n]
        PROVE  \/ status'[n][videoRoutes'[n][v]] = "Active"
               \/ status'[n][videoRoutes'[n][v]] = "Unresponsive" /\ v \in queue'[n]
    <3>1. CASE v \in pending
      BY <1>4, <1>8, <2>1, <3>1
    <3>2. CASE v \notin pending
      <4>1. videoRoutes'[n][v] = videoRoutes[n][v] /\ videoRoutes[n][v] \in Peers
        BY <1>4, <2>1, <3>2 DEF TypeOK
      <4> QED BY <1>4, <1>6, <1>8, <2>1, <3>2, <4>1 DEF DeadRouteIsQueued, Receiving
    <3> QED BY <3>1, <3>2
  <2>2. ASSUME NEW m \in Nodes \ {n}, NEW v \in Videos, videoRoutes'[m][v] # NoRoute,
               locked[m] = {}, v \notin unsent'[m]
        PROVE  \/ status'[m][videoRoutes'[m][v]] = "Active"
               \/ status'[m][videoRoutes'[m][v]] = "Unresponsive" /\ v \in queue'[m]
    BY <1>5, <2>2 DEF DeadRouteIsQueued, Receiving
  <2> QED BY <1>2, <2>1, <2>2 DEF DeadRouteIsQueued, Receiving
<1> QED BY <1>3, <1>7, <1>9

\* A death redirects or queues every video that came from the dead peer.
LEMMA UnresponsiveKeeps ==
  ASSUME NInv, TypeOK', NEW n \in Nodes, NEW p \in Peers, BecomesUnresponsive(n, p)
  PROVE  NInv'
<1> USE DEF NInv
<1> DEFINE receiving == {v \in Videos : videoRoutes[n][v] = p}
           sending == {v \in Videos : p \in interested[n][v]}
<1>1. PICK best \in BestNodes(n, {p}), failed \in SUBSET Videos :
        /\ interested' = [interested EXCEPT ![n] = SubscribersLeft(n, p, sending)]
        /\ videoRoutes' = [videoRoutes EXCEPT ![n] =
             RoutesAfter(RoutesLeft(n, p, sending), receiving, best, failed)]
        /\ queue' = [queue EXCEPT ![n] = @ \cup Unplaced(receiving, best)]
        /\ unsent' = [unsent EXCEPT ![n] = UnsentAfter(n, receiving, best, failed)]
  BY DEF BecomesUnresponsive
<1>2. status' = [status EXCEPT ![n][p] = "Unresponsive"] /\ UNCHANGED <<offers, locked>>
  BY DEF BecomesUnresponsive
<1>3. \A v \in Videos :
        /\ best[v] = NoRoute => Offering(n, v) \ {p} = {}
        /\ best[v] # NoRoute => (best[v] \in Peers \ {p} /\ status[n][best[v]] = "Active")
  BY BestNodesFacts DEF Offering
<1>4. \A q \in Peers : status'[n][q] = IF q = p THEN "Unresponsive" ELSE status[n][q]
  BY <1>2 DEF TypeOK
<1>5. queue'[n] = queue[n] \cup Unplaced(receiving, best)
  BY <1>1 DEF TypeOK
<1>6. \A m \in Nodes \ {n} : /\ videoRoutes'[m] = videoRoutes[m]
                             /\ queue'[m] = queue[m]
                             /\ unsent'[m] = unsent[m]
                             /\ interested'[m] = interested[m]
                             /\ status'[m] = status[m]
  BY <1>1, <1>2 DEF TypeOK
<1>7. QueuedIsUnavailable'
  <2>1. ASSUME NEW v \in queue'[n] PROVE Offering(n, v)' = {}
    BY <1>2, <1>3, <1>4, <1>5, <2>1 DEF QueuedIsUnavailable, Offering, Unplaced, TypeOK
  <2>2. ASSUME NEW m \in Nodes \ {n}, NEW v \in queue'[m] PROVE Offering(m, v)' = {}
    BY <1>2, <1>6, <2>2 DEF QueuedIsUnavailable, Offering
  <2> QED BY <2>1, <2>2 DEF QueuedIsUnavailable
<1>8. SubscribersHaveSource' /\ DeadRouteIsQueued'
  <2>1. \A v \in Videos : v \in receiving /\ best[v] = NoRoute => v \in queue'[n]
    BY <1>5 DEF Unplaced
  <2>2. \A v \in Videos :
          /\ v \in receiving /\ best[v] # NoRoute /\ v \notin unsent'[n]
               => videoRoutes'[n][v] = best[v]
          /\ v \notin receiving \/ best[v] = NoRoute \/ v \in unsent'[n]
               => videoRoutes'[n][v] = RoutesLeft(n, p, sending)[v]
          /\ v \notin receiving /\ v \in unsent[n] => v \in unsent'[n]
    <3> HIDE DEF receiving, sending
    <3>1. /\ videoRoutes'[n] = RoutesAfter(RoutesLeft(n, p, sending), receiving, best, failed)
          /\ unsent'[n] = UnsentAfter(n, receiving, best, failed)
      BY <1>1 DEF TypeOK
    <3> QED BY <3>1, AttemptFacts
  <2>3. \A v \in Videos :
          /\ RoutesLeft(n, p, sending)[v] \in {NoRoute, videoRoutes[n][v]}
          /\ RoutesLeft(n, p, sending)[v] # videoRoutes[n][v] => interested'[n][v] = {}
          /\ interested'[n][v] \subseteq interested[n][v]
    BY <1>1 DEF TypeOK, RoutesLeft, SubscribersLeft, Ended
  <2>4. \A v \in Videos : v \in queue[n] => v \in queue'[n]
    BY <1>5
  <2>5. \A v \in Videos : v \notin receiving => videoRoutes[n][v] # p
    OBVIOUS
  <2> HIDE DEF receiving, sending
  <2>6. SubscribersHaveSource'
    <3>1. ASSUME NEW v \in Videos, interested'[n][v] # {}
          PROVE  videoRoutes'[n][v] # NoRoute \/ v \in queue'[n] \cup unsent'[n]
      BY <2>1, <2>2, <2>3, <2>4, <3>1 DEF SubscribersHaveSource
    <3>2. ASSUME NEW m \in Nodes \ {n}, NEW v \in Videos, interested'[m][v] # {}
          PROVE  videoRoutes'[m][v] # NoRoute \/ v \in queue'[m] \cup unsent'[m]
      BY <1>6, <3>2 DEF SubscribersHaveSource
    <3> QED BY <3>1, <3>2 DEF SubscribersHaveSource
  <2>7. DeadRouteIsQueued'
    <3>1. ASSUME NEW v \in Videos, videoRoutes'[n][v] # NoRoute, locked[n] = {},
                 v \notin unsent'[n]
          PROVE  \/ status'[n][videoRoutes'[n][v]] = "Active"
                 \/ status'[n][videoRoutes'[n][v]] = "Unresponsive" /\ v \in queue'[n]
      <4>1. CASE v \in receiving /\ best[v] # NoRoute
        BY <1>3, <1>4, <2>2, <3>1, <4>1
      <4>2. CASE ~(v \in receiving /\ best[v] # NoRoute)
        <5>1. videoRoutes'[n][v] = videoRoutes[n][v]
          BY <2>2, <2>3, <3>1, <4>2
        <5>2. videoRoutes[n][v] \in Peers
          BY <3>1, <5>1 DEF TypeOK
        <5>3. CASE v \in receiving
          BY <1>4, <2>1, <4>2, <5>1, <5>2, <5>3 DEF receiving
        <5>4. CASE v \notin receiving
          BY <1>4, <2>2, <2>4, <2>5, <3>1, <5>1, <5>2, <5>4 DEF DeadRouteIsQueued, Receiving
        <5> QED BY <5>3, <5>4
      <4> QED BY <4>1, <4>2
    <3>2. ASSUME NEW m \in Nodes \ {n}, NEW v \in Videos, videoRoutes'[m][v] # NoRoute,
                 locked[m] = {}, v \notin unsent'[m]
          PROVE  \/ status'[m][videoRoutes'[m][v]] = "Active"
                 \/ status'[m][videoRoutes'[m][v]] = "Unresponsive" /\ v \in queue'[m]
      BY <1>6, <3>2 DEF DeadRouteIsQueued, Receiving
    <3> QED BY <1>2, <3>1, <3>2 DEF DeadRouteIsQueued, Receiving
  <2> QED BY <2>6, <2>7
<1> QED BY <1>7, <1>8

\* A death that is never dealt with, behind a lock: the queue still holds only
\* what nobody offers, and the routes that stay are the subscribers' source.
LEMMA HangsKeeps ==
  ASSUME NInv, TypeOK', NEW n \in Nodes, NEW p \in Peers, UnresponsiveHangs(n, p)
  PROVE  NInv'
<1> USE DEF NInv
<1>1. PICK done \in SUBSET Videos :
        /\ interested' = [interested EXCEPT ![n] = SubscribersLeft(n, p, done)]
        /\ videoRoutes' = [videoRoutes EXCEPT ![n] = RoutesLeft(n, p, done)]
  BY DEF UnresponsiveHangs
<1>2. /\ status' = [status EXCEPT ![n][p] = "Unresponsive"]
      /\ locked[n] # {}
      /\ UNCHANGED <<offers, queue, locked, unsent>>
  BY DEF UnresponsiveHangs
<1>3. QueuedIsUnavailable'
  BY <1>2 DEF QueuedIsUnavailable, Offering, TypeOK
<1>4. \A v \in Videos :
        /\ interested'[n][v] \subseteq interested[n][v]
        /\ videoRoutes'[n][v] # videoRoutes[n][v] => interested'[n][v] = {}
  BY <1>1 DEF TypeOK, SubscribersLeft, RoutesLeft, Ended
<1>5. \A m \in Nodes \ {n} : /\ videoRoutes'[m] = videoRoutes[m]
                             /\ interested'[m] = interested[m]
                             /\ status'[m] = status[m]
  BY <1>1, <1>2 DEF TypeOK
<1>6. SubscribersHaveSource'
  BY <1>2, <1>4, <1>5 DEF SubscribersHaveSource
<1>7. DeadRouteIsQueued'
  BY <1>2, <1>5 DEF DeadRouteIsQueued, Receiving
<1> QED BY <1>3, <1>6, <1>7

\* Steps that leave routes, subscribers, queue and peers alone.
LEMMA UnchangedKeeps ==
  ASSUME NInv, TypeOK', UNCHANGED <<status, offers, interested, videoRoutes, queue, locked, unsent>>
  PROVE  NInv'
  BY DEF NInv, QueuedIsUnavailable, Offering, SubscribersHaveSource, DeadRouteIsQueued,
         Receiving

LEMMA RestartKeeps ==
  ASSUME NInv, TypeOK', NEW n \in Nodes, Restart(n)
  PROVE  NInv'
<1> USE DEF NInv, Restart
<1>1. QueuedIsUnavailable'
  BY DEF QueuedIsUnavailable, Offering, TypeOK
<1>2. SubscribersHaveSource'
  BY DEF SubscribersHaveSource, TypeOK
<1>3. DeadRouteIsQueued'
  BY DEF DeadRouteIsQueued, TypeOK, Receiving
<1> QED BY <1>1, <1>2, <1>3

LEMMA NextNInv == NInv /\ [Next]_vars => NInv'
<1> SUFFICES ASSUME NInv, [Next]_vars PROVE NInv'
  OBVIOUS
<1>0. TypeOK'
  BY NextTypeOK DEF NInv
<1>1. CASE UNCHANGED vars
  BY <1>0, <1>1, UnchangedKeeps DEF vars
<1>2. ASSUME NEW n \in Nodes, PacketStep(n) PROVE NInv'
  <2>1. ASSUME NEW a \in Addrs, NEW v \in Videos, HandleRequestVideo(n, a, v) PROVE NInv'
    BY <1>0, <2>1, RequestKeeps
  <2>2. ASSUME NEW a \in Addrs, NEW v \in Videos, HandleStopVideo(n, a, v) PROVE NInv'
    <3>1. {v} \in SUBSET Videos
      OBVIOUS
    <3> QED BY <1>0, <2>2, <3>1, StopKeeps DEF HandleStopVideo
  <2>3. ASSUME NEW c \in Clients, NEW requested \in SUBSET Videos,
               HandleClientPing(n, c, requested)
        PROVE  NInv'
    BY <1>0, <2>3, PingKeeps
  <2>4. ASSUME NEW c \in Clients, NEW requested \in SUBSET Videos,
               ClientPingFails(n, c, requested)
        PROVE  NInv'
    BY <1>0, <2>4, PingFailsKeeps
  <2>5. ASSUME NEW p \in Peers, NEW vs \in SUBSET Videos, NEW ps \in ParentLists,
               NEW visited \in SUBSET Nodes, HandleFloodPacket(n, p, vs, ps, visited)
        PROVE  NInv'
    BY <1>0, <2>5, FloodKeeps
  <2>6. ASSUME NEW p \in Peers, HandleNewNeighbour(n, p) PROVE NInv'
    BY <1>0, <2>6, UnchangedKeeps DEF HandleNewNeighbour
  <2>7. ASSUME NEW v \in Videos, HandleVideoPacket(n, v) PROVE NInv'
    BY <1>0, <2>7, UnchangedKeeps DEF HandleVideoPacket
  <2> QED BY <1>2, <2>1, <2>2, <2>3, <2>4, <2>5, <2>6, <2>7 DEF PacketStep
<1>3. ASSUME NEW n \in Nodes, TaskStep(n) PROVE NInv'
  <2>1. ASSUME NEW p \in Peers, BecomesUnresponsive(n, p) PROVE NInv'
    BY <1>0, <2>1, UnresponsiveKeeps
  <2>2. ASSUME NEW p \in Peers, ConnectAcked(n, p) PROVE NInv'
    BY <1>0, <2>2, UnchangedKeeps DEF ConnectAcked
  <2>3. ASSUME NEW p \in Peers, ConnectTimesOut(n, p) PROVE NInv'
    BY <1>0, <2>3, UnchangedKeeps DEF ConnectTimesOut
  <2>4. ASSUME NEW c \in Clients, ClientSilent(n, c) PROVE NInv'
    <3> DEFINE playing == {v \in Videos : c \in interested[n][v]}
    <3>1. playing \in SUBSET Videos
      OBVIOUS
    <3>2. /\ interested' = [interested EXCEPT ![n] = SubscribersLeft(n, c, playing)]
          /\ videoRoutes' = [videoRoutes EXCEPT ![n] = RoutesLeft(n, c, playing)]
          /\ UNCHANGED <<status, offers, queue, locked, unsent>>
      BY <2>4 DEF ClientSilent
    <3> HIDE DEF playing
    <3> QED BY <1>0, <3>1, <3>2, StopKeeps
  <2>5. ASSUME NEW v \in Videos, VideoSilent(n, v) PROVE NInv'
    BY <1>0, <2>5, UnchangedKeeps DEF VideoSilent
  <2>6. ASSUME NEW p \in Peers, UnresponsiveHangs(n, p) PROVE NInv'
    BY <1>0, <2>6, HangsKeeps
  <2>7. ASSUME NEW c \in Clients, ClientCheckHangs(n, c) PROVE NInv'
    <3>1. PICK done \in SUBSET Videos :
            /\ interested' = [interested EXCEPT ![n] = SubscribersLeft(n, c, done)]
            /\ videoRoutes' = [videoRoutes EXCEPT ![n] = RoutesLeft(n, c, done)]
      BY <2>7 DEF ClientCheckHangs
    <3>2. UNCHANGED <<status, offers, queue, locked, unsent>>
      BY <2>7 DEF ClientCheckHangs
    <3> QED BY <1>0, <3>1, <3>2, StopKeeps
  <2> QED BY <1>3, <2>1, <2>2, <2>3, <2>4, <2>5, <2>6, <2>7
          DEF TaskStep, FloodNotAcked, ParentSilent
<1>4. ASSUME NEW n \in Nodes, Restart(n) PROVE NInv'
  BY <1>0, <1>4, RestartKeeps
<1> QED BY <1>1, <1>2, <1>3, <1>4 DEF Next

----
\* The invariants hold in every reachable state.
THEOREM Invariant == Spec => []NInv
  BY InitNInv, NextNInv, PTL DEF Spec

\* No queued video is offered by an active peer, whatever fails.
THEOREM QueueIsNeeded == Spec => []QueuedIsUnavailable
<1>1. NInv => QueuedIsUnavailable
  BY DEF NInv
<1> QED BY <1>1, Invariant, PTL

\* No subscriber is left without a route or a place in the queue, unless the
\* last request for the video failed to be sent.
THEOREM SubscribersAreServed == Spec => []SubscribersHaveSource
<1>1. NInv => SubscribersHaveSource
  BY DEF NInv
<1> QED BY <1>1, Invariant, PTL

\* A video whose route is dead waits in the queue, unless the last request for
\* it failed to be sent or the packet task has stopped.
THEOREM DeadRoutesWait == Spec => []DeadRouteIsQueued
<1>1. NInv => DeadRouteIsQueued
  BY DEF NInv
<1> QED BY <1>1, Invariant, PTL

----
\* Unsubscribing takes a route only with its last subscriber.
LEMMA StopEndsUnwatched ==
  ASSUME TypeOK, NEW n \in Nodes, NEW a, NEW vs \in SUBSET Videos, NEW v \in Videos,
         RoutesLeft(n, a, vs)[v] # videoRoutes[n][v]
  PROVE  SubscribersLeft(n, a, vs)[v] = {}
  BY DEF RoutesLeft, SubscribersLeft, Ended

\* Asking never takes a route.
LEMMA AskingKeepsRoutes ==
  ASSUME NEW routes, NEW vs, NEW best, NEW failed, NEW v \in Videos,
         routes[v] # NoRoute
  PROVE  RoutesAfter(routes, vs, best, failed)[v] # NoRoute
  BY DEF RoutesAfter, Asked

\* One step of the node n, seen at its own tables: the other nodes keep theirs.
LEMMA StepKeepsWatchedRoutes ==
  ASSUME TypeOK, Next, NEW m \in Nodes, NEW v \in Videos,
         videoRoutes[m][v] # NoRoute, videoRoutes'[m][v] = NoRoute
  PROVE  interested'[m][v] = {}
<1> USE DEF TypeOK
<1>1. ASSUME NEW n \in Nodes, NEW a \in Addrs, NEW u \in Videos, HandleRequestVideo(n, a, u)
      PROVE  FALSE
  BY <1>1, AskingKeepsRoutes DEF HandleRequestVideo
<1>2. ASSUME NEW n \in Nodes, NEW a \in Addrs, NEW u \in Videos, HandleStopVideo(n, a, u)
      PROVE  interested'[m][v] = {}
  <2>1. {u} \in SUBSET Videos
    OBVIOUS
  <2> QED BY <1>2, <2>1, StopEndsUnwatched DEF HandleStopVideo
<1>3. ASSUME NEW n \in Nodes, NEW c \in Clients, NEW requested \in SUBSET Videos,
             HandleClientPing(n, c, requested)
      PROVE  FALSE
  BY <1>3, AskingKeepsRoutes DEF HandleClientPing
<1>4. ASSUME NEW n \in Nodes, NEW c \in Clients, NEW requested \in SUBSET Videos,
             ClientPingFails(n, c, requested)
      PROVE  FALSE
  BY <1>4, AskingKeepsRoutes DEF ClientPingFails
<1>5. ASSUME NEW n \in Nodes, NEW p \in Peers, NEW vs \in SUBSET Videos, NEW ps \in ParentLists,
             NEW visited \in SUBSET Nodes, HandleFloodPacket(n, p, vs, ps, visited)
      PROVE  FALSE
  BY <1>5, AskingKeepsRoutes DEF HandleFloodPacket
<1>6. ASSUME NEW n \in Nodes, NEW p \in Peers, BecomesUnresponsive(n, p)
      PROVE  interested'[m][v] = {}
  <2> DEFINE sending == {u \in Videos : p \in interested[n][u]}
             receiving == {u \in Videos : videoRoutes[n][u] = p}
  <2>1. PICK best \in BestNodes(n, {p}), failed \in SUBSET Videos :
          /\ interested' = [interested EXCEPT ![n] = SubscribersLeft(n, p, sending)]
          /\ videoRoutes' = [videoRoutes EXCEPT ![n] =
               RoutesAfter(RoutesLeft(n, p, sending), receiving, best, failed)]
    BY <1>6 DEF BecomesUnresponsive
  <2>2. sending \in SUBSET Videos
    OBVIOUS
  <2> HIDE DEF sending, receiving
  <2>3. m = n
    BY <2>1
  <2>4. RoutesLeft(n, p, sending)[v] = NoRoute
    BY <2>1, <2>3, AskingKeepsRoutes
  <2>5. SubscribersLeft(n, p, sending)[v] = {}
    BY <2>2, <2>3, <2>4, StopEndsUnwatched
  <2> QED BY <2>1, <2>3, <2>5
<1>7. ASSUME NEW n \in Nodes, NEW c \in Clients, ClientSilent(n, c)
      PROVE  interested'[m][v] = {}
  <2> DEFINE playing == {u \in Videos : c \in interested[n][u]}
  <2>1. /\ interested' = [interested EXCEPT ![n] = SubscribersLeft(n, c, playing)]
        /\ videoRoutes' = [videoRoutes EXCEPT ![n] = RoutesLeft(n, c, playing)]
    BY <1>7 DEF ClientSilent
  <2>2. playing \in SUBSET Videos
    OBVIOUS
  <2> HIDE DEF playing
  <2> QED BY <2>1, <2>2, StopEndsUnwatched
<1>12. ASSUME NEW n \in Nodes, NEW a, NEW done \in SUBSET Videos,
              interested' = [interested EXCEPT ![n] = SubscribersLeft(n, a, done)],
              videoRoutes' = [videoRoutes EXCEPT ![n] = RoutesLeft(n, a, done)]
       PROVE  interested'[m][v] = {}
  BY <1>12, StopEndsUnwatched
<1>13. ASSUME NEW n \in Nodes, NEW p \in Peers, UnresponsiveHangs(n, p)
       PROVE  interested'[m][v] = {}
  BY <1>12, <1>13 DEF UnresponsiveHangs
<1>14. ASSUME NEW n \in Nodes, NEW c \in Clients, ClientCheckHangs(n, c)
       PROVE  interested'[m][v] = {}
  BY <1>12, <1>14 DEF ClientCheckHangs
<1>8. ASSUME NEW n \in Nodes, Restart(n) PROVE interested'[m][v] = {}
  BY <1>8 DEF Restart
<1>9. ASSUME NEW n \in Nodes,
             \/ \E p \in Peers : HandleNewNeighbour(n, p)
             \/ \E u \in Videos : HandleVideoPacket(n, u)
             \/ \E p \in Peers : ConnectAcked(n, p)
             \/ \E p \in Peers : ConnectTimesOut(n, p)
             \/ \E u \in Videos : VideoSilent(n, u)
      PROVE  FALSE
  BY <1>9 DEF HandleNewNeighbour, HandleVideoPacket, ConnectAcked, ConnectTimesOut, VideoSilent
<1>10. ASSUME NEW n \in Nodes, PacketStep(n) PROVE interested'[m][v] = {}
  BY <1>10, <1>1, <1>2, <1>3, <1>4, <1>5, <1>9 DEF PacketStep
<1>11. ASSUME NEW n \in Nodes, TaskStep(n) PROVE interested'[m][v] = {}
  BY <1>11, <1>6, <1>7, <1>9, <1>13, <1>14 DEF TaskStep, FloodNotAcked, ParentSilent
<1> QED BY <1>8, <1>10, <1>11 DEF Next

\* No step, of any handler or check and whatever fails, takes the route of a
\* video that keeps a subscriber.
THEOREM WatchedKeepsItsRoute == Spec => WatchedKeepsRoute
<1>1. TypeOK /\ [Next]_vars =>
        [\A n \in Nodes, v \in Videos :
           (videoRoutes[n][v] # NoRoute /\ videoRoutes'[n][v] = NoRoute)
             => interested'[n][v] = {}]_vars
  BY StepKeepsWatchedRoutes
<1> QED BY <1>1, TypeCorrect, PTL DEF Spec, WatchedKeepsRoute

\* One step of the node n, seen at its own tables.
LEMMA StepStartsAskedStreams ==
  ASSUME TypeOK, Next, NEW m \in Nodes, NEW v \in Videos,
         videoRoutes'[m][v] \notin {videoRoutes[m][v], NoRoute}
  PROVE  interested'[m][v] # {} \/ v \in queue[m] \/ AskedAgainForNobody(m, v)
<1> USE DEF TypeOK
<1>1. ASSUME NEW n \in Nodes, NEW a \in Addrs, NEW u \in Videos, HandleRequestVideo(n, a, u)
      PROVE  interested'[m][v] # {}
  <2> DEFINE vs == IF videoRoutes[n][u] = NoRoute THEN {u} ELSE {}
  <2>1. PICK best, failed :
          videoRoutes' = [videoRoutes EXCEPT ![n] = RoutesAfter(@, vs, best, failed)]
    BY <1>1 DEF HandleRequestVideo
  <2> HIDE DEF vs
  <2>2. m = n /\ v \in vs
    BY <2>1 DEF RoutesAfter, Asked, RoutesLeft
  <2>3. v = u
    BY <2>2 DEF vs
  <2>4. interested' = [interested EXCEPT ![n][u] = @ \cup {a}]
    BY <1>1 DEF HandleRequestVideo
  <2> QED BY <2>2, <2>3, <2>4
<1>2. ASSUME NEW n \in Nodes, NEW a \in Addrs, NEW u \in Videos, HandleStopVideo(n, a, u)
      PROVE  FALSE
  BY <1>2 DEF RoutesAfter, Asked, RoutesLeft, HandleStopVideo
<1>3. ASSUME NEW n \in Nodes, NEW c \in Clients, NEW requested \in SUBSET Videos,
             HandleClientPing(n, c, requested)
      PROVE  interested'[m][v] # {}
  <2> DEFINE vs == {u \in requested : videoRoutes[n][u] = NoRoute}
  <2>1. PICK best \in BestNodes(n, {}) :
          /\ interested' = [interested EXCEPT ![n] =
               [u \in Videos |-> IF u \in vs THEN @[u] \cup {c} ELSE @[u]]]
          /\ videoRoutes' = [videoRoutes EXCEPT ![n] = RoutesAfter(@, vs, best, {})]
    BY <1>3 DEF HandleClientPing
  <2> HIDE DEF vs
  <2>2. m = n /\ v \in vs
    BY <2>1 DEF RoutesAfter, Asked
  <2> QED BY <2>1, <2>2
<1>4. ASSUME NEW n \in Nodes, NEW c \in Clients, NEW requested \in SUBSET Videos,
             ClientPingFails(n, c, requested)
      PROVE  interested'[m][v] # {}
  <2>1. PICK best \in BestNodes(n, {}), bad \in requested, before \in SUBSET requested :
          LET vs == {u \in before \cup {bad} : videoRoutes[n][u] = NoRoute}
          IN  /\ interested' = [interested EXCEPT ![n] =
                   [u \in Videos |-> IF u \in vs THEN @[u] \cup {c} ELSE @[u]]]
              /\ videoRoutes' = [videoRoutes EXCEPT ![n] = RoutesAfter(@, vs, best, {bad})]
    BY <1>4 DEF ClientPingFails
  <2> DEFINE vs == {u \in before \cup {bad} : videoRoutes[n][u] = NoRoute}
  <2>2. /\ interested' = [interested EXCEPT ![n] =
             [u \in Videos |-> IF u \in vs THEN @[u] \cup {c} ELSE @[u]]]
        /\ videoRoutes' = [videoRoutes EXCEPT ![n] = RoutesAfter(@, vs, best, {bad})]
    BY <2>1
  <2> HIDE DEF vs
  <2>3. m = n /\ v \in vs
    BY <2>2 DEF RoutesAfter, Asked
  <2> QED BY <2>2, <2>3
<1>5. ASSUME NEW n \in Nodes, NEW p \in Peers, NEW vs \in SUBSET Videos, NEW ps \in ParentLists,
             NEW visited \in SUBSET Nodes, HandleFloodPacket(n, p, vs, ps, visited)
      PROVE  v \in queue[m]
  BY <1>5 DEF RoutesAfter, Asked, RoutesLeft, HandleFloodPacket
<1>6. ASSUME NEW n \in Nodes, NEW p \in Peers, BecomesUnresponsive(n, p)
      PROVE  interested'[m][v] # {} \/ AskedAgainForNobody(m, v)
  <2> DEFINE sending == {u \in Videos : p \in interested[n][u]}
             receiving == {u \in Videos : videoRoutes[n][u] = p}
  <2>1. PICK best, failed :
          /\ interested' = [interested EXCEPT ![n] = SubscribersLeft(n, p, sending)]
          /\ videoRoutes' = [videoRoutes EXCEPT ![n] =
               RoutesAfter(RoutesLeft(n, p, sending), receiving, best, failed)]
    BY <1>6 DEF BecomesUnresponsive
  <2> HIDE DEF sending, receiving
  <2>2. m = n /\ v \in receiving
    BY <2>1 DEF RoutesAfter, Asked, RoutesLeft
  <2>3. interested'[n][v] = {} => interested[n][v] \subseteq {p}
    BY <2>1 DEF SubscribersLeft
  <2>4. status[n][p] = "Active" /\ status'[n][p] = "Unresponsive"
    BY <1>6 DEF BecomesUnresponsive
  <2> QED BY <2>2, <2>3, <2>4 DEF AskedAgainForNobody, receiving
<1>7. ASSUME NEW n \in Nodes, NEW a, NEW done,
             videoRoutes' = [videoRoutes EXCEPT ![n] = RoutesLeft(n, a, done)]
      PROVE  FALSE
  BY <1>7 DEF RoutesAfter, Asked, RoutesLeft
<1>8. ASSUME NEW n \in Nodes,
             \/ \E p \in Peers : UnresponsiveHangs(n, p)
             \/ \E c \in Clients : ClientSilent(n, c) \/ ClientCheckHangs(n, c)
      PROVE  FALSE
  <2>1. ASSUME NEW p \in Peers, UnresponsiveHangs(n, p) PROVE FALSE
    BY <1>7, <2>1 DEF UnresponsiveHangs
  <2>2. ASSUME NEW c \in Clients, ClientSilent(n, c) PROVE FALSE
    BY <1>7, <2>2 DEF ClientSilent
  <2>3. ASSUME NEW c \in Clients, ClientCheckHangs(n, c) PROVE FALSE
    BY <1>7, <2>3 DEF ClientCheckHangs
  <2> QED BY <1>8, <2>1, <2>2, <2>3
<1>9. ASSUME NEW n \in Nodes,
             \/ \E p \in Peers : HandleNewNeighbour(n, p)
             \/ \E u \in Videos : HandleVideoPacket(n, u)
             \/ \E p \in Peers : ConnectAcked(n, p)
             \/ \E p \in Peers : ConnectTimesOut(n, p)
             \/ \E u \in Videos : VideoSilent(n, u)
             \/ Restart(n)
      PROVE  FALSE
  <2>1. CASE Restart(n)
    BY <2>1 DEF Restart
  <2> QED BY <1>9, <2>1 DEF HandleNewNeighbour, HandleVideoPacket, ConnectAcked, ConnectTimesOut,
                            VideoSilent
<1>10. ASSUME NEW n \in Nodes, PacketStep(n) PROVE interested'[m][v] # {} \/ v \in queue[m]
  BY <1>10, <1>1, <1>2, <1>3, <1>4, <1>5, <1>9 DEF PacketStep
<1>11. ASSUME NEW n \in Nodes, TaskStep(n)
       PROVE  interested'[m][v] # {} \/ AskedAgainForNobody(m, v)
  BY <1>11, <1>6, <1>8, <1>9 DEF TaskStep, FloodNotAcked, ParentSilent
<1> QED BY <1>9, <1>10, <1>11 DEF Next

\* In every node each route that is set, or set to another peer, is set for a
\* subscriber or a queued request, but for the one that the death of a peer who
\* was both route and last subscriber sets again for nobody.
THEOREM StreamsStartAskedFor == Spec => StreamsAreAskedFor
<1>1. TypeOK /\ [Next]_vars =>
        [\A n \in Nodes, v \in Videos :
           videoRoutes'[n][v] \notin {videoRoutes[n][v], NoRoute}
             => \/ interested'[n][v] # {}
                \/ v \in queue[n]
                \/ AskedAgainForNobody(n, v)]_vars
  BY StepStartsAskedStreams
<1> QED BY <1>1, TypeCorrect, PTL DEF Spec, StreamsAreAskedFor

====

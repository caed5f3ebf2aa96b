---- MODULE OverlayProofs ----
(* The composition keeps its types, and each node in it is a node of Node:   *)
(* what Node's invariants promise holds in every overlay. The invariant says *)
(* that no node has itself as a peer, so that nobody sends himself a packet. *)
EXTENDS Overlay, NodeProofs

\* A packet that k may send to a peer, as far as its receiver relies on it.
Mail(k, x) ==
  /\ x.to \in Peers \ {k}
  /\ x.type \in {"RequestVideo", "StopVideo"} => x.video \in Videos
  /\ x.type = "FloodPacket" =>
       x.videos \subseteq Videos /\ x.parents \subseteq Peers /\ x.visited \subseteq Nodes
  /\ x.type = "ClientPing" => k \in Clients /\ x.videos \subseteq Videos

SentOK(k) == \A x \in sent : x.type \in {"VideoList", "VideoPacket"} \/ Mail(k, x)

\* No node is its own neighbour, parent or route.
OwnOK ==
  \A k \in Nodes : /\ status[k][k] = "Unknown"
                   /\ k \notin neighbours[k] /\ k \notin connecting[k]
                   /\ \A v \in Videos : videoRoutes[k][v] # k

NetOK ==
  \A m \in net : /\ m[1] \in Addrs
                 /\ Mail(m[1], m[2])
                 /\ m[1] \in Clients =>
                      m[2].to \in Nodes /\ m[2].type \in {"RequestVideo", "ClientPing"}

----
\* What a node asks for, and what it stops, goes to its peers.
LEMMA RequestsAreMail ==
  ASSUME NEW n \in Nodes, NEW vs \in SUBSET Videos, NEW best \in Routes, NEW failed,
         NEW routes, \A v \in Videos : best[v] # n /\ routes[v] # n
  PROVE  /\ \A x \in Requests(vs, best, failed) : Mail(n, x)
         /\ \A v \in Videos : RoutesAfter(routes, vs, best, failed)[v] # n
<1>1. ASSUME NEW v \in Asked(vs, best, failed) PROVE Mail(n, RequestVideo(best[v], v))
  BY <1>1 DEF Asked, Mail, RequestVideo, Routes
<1>2. \A v \in Videos : RoutesAfter(routes, vs, best, failed)[v] # n
  BY DEF RoutesAfter
<1> QED BY <1>1, <1>2 DEF Requests

LEMMA StopsAreMail ==
  ASSUME TypeOK, OwnOK, NEW n \in Nodes, NEW a, NEW vs \in SUBSET Videos
  PROVE  /\ \A x \in Stops(n, a, vs) : Mail(n, x)
         /\ \A v \in Videos : RoutesLeft(n, a, vs)[v] # n
<1>1. ASSUME NEW v \in Ended(n, a, vs) PROVE Mail(n, StopVideo(videoRoutes[n][v], v))
  BY <1>1 DEF Ended, Mail, StopVideo, TypeOK, OwnOK
<1>2. \A v \in Videos : RoutesLeft(n, a, vs)[v] # n
  BY NodeAssumption DEF RoutesLeft, OwnOK
<1> QED BY <1>1, <1>2 DEF Stops

LEMMA OthersAreBest ==
  ASSUME TypeOK, OwnOK, NEW n \in Nodes, NEW down \in SUBSET Peers, NEW best \in BestNodes(n, down)
  PROVE  best \in Routes /\ \A v \in Videos : best[v] # n
<1>1. best \in Routes /\ \A v \in Videos : best[v] # NoRoute => best[v] \in Offering(n, v) \ down
  BY BestNodesFacts
<1>2. \A v \in Videos : n \notin Offering(n, v)
  BY DEF Offering, OwnOK
<1> QED BY <1>1, <1>2, NodeAssumption

\* A step of node n that keeps its own tables clean of n keeps OwnOK.
LEMMA OwnKeeps ==
  ASSUME OwnOK, NEW n \in Nodes,
         \A k \in Nodes \ {n} : /\ status'[k] = status[k] /\ neighbours'[k] = neighbours[k]
                                /\ connecting'[k] = connecting[k]
                                /\ videoRoutes'[k] = videoRoutes[k],
         status'[n][n] = "Unknown", n \notin neighbours'[n], n \notin connecting'[n],
         \A v \in Videos : videoRoutes'[n][v] # n
  PROVE  OwnOK'
<1> SUFFICES ASSUME NEW k \in Nodes
             PROVE  /\ status'[k][k] = "Unknown"
                    /\ k \notin neighbours'[k] /\ k \notin connecting'[k]
                    /\ \A v \in Videos : videoRoutes'[k][v] # k
  BY DEF OwnOK
<1>1. CASE k = n
  BY <1>1
<1>2. CASE k # n
  BY <1>2 DEF OwnOK
<1> QED BY <1>1, <1>2

----
\* Each handler and check of a node keeps OwnOK and sends mail.
LEMMA RequestIsMail ==
  ASSUME TypeOK, OwnOK, NEW n \in Nodes, NEW a \in Addrs, NEW v \in Videos,
         HandleRequestVideo(n, a, v)
  PROVE  OwnOK' /\ SentOK(n)'
<1> DEFINE vs == IF videoRoutes[n][v] = NoRoute THEN {v} ELSE {}
<1>1. PICK best \in BestNodes(n, {}), failed \in SUBSET Videos :
        /\ videoRoutes' = [videoRoutes EXCEPT ![n] = RoutesAfter(@, vs, best, failed)]
        /\ sent' = Requests(vs, best, failed)
  BY DEF HandleRequestVideo
<1>2. vs \in SUBSET Videos /\ \A w \in Videos : videoRoutes[n][w] # n
  BY DEF OwnOK
<1> HIDE DEF vs
<1>3. best \in Routes /\ \A w \in Videos : best[w] # n
  BY OthersAreBest
<1>4. /\ \A x \in Requests(vs, best, failed) : Mail(n, x)
      /\ \A w \in Videos : RoutesAfter(videoRoutes[n], vs, best, failed)[w] # n
  BY <1>2, <1>3, RequestsAreMail
<1>5. /\ videoRoutes'[n] = RoutesAfter(videoRoutes[n], vs, best, failed)
      /\ \A k \in Nodes \ {n} : videoRoutes'[k] = videoRoutes[k]
  BY <1>1 DEF TypeOK
<1>6. UNCHANGED <<status, neighbours, connecting>>
  BY DEF HandleRequestVideo
<1>7. OwnOK'
  BY <1>4, <1>5, <1>6, OwnKeeps DEF OwnOK
<1>8. SentOK(n)'
  BY <1>1, <1>4 DEF SentOK, Mail
<1> QED BY <1>7, <1>8

\* A stop, in whatever handler, of some of n's videos.
LEMMA StopIsMail ==
  ASSUME TypeOK, OwnOK, NEW n \in Nodes, NEW a, NEW vs \in SUBSET Videos,
         videoRoutes' = [videoRoutes EXCEPT ![n] = RoutesLeft(n, a, vs)],
         sent' = Stops(n, a, vs),
         \A k \in Nodes \ {n} : status'[k] = status[k],
         status'[n][n] = "Unknown", UNCHANGED <<neighbours, connecting>>
  PROVE  OwnOK' /\ SentOK(n)'
<1>1. /\ \A x \in Stops(n, a, vs) : Mail(n, x)
      /\ \A w \in Videos : RoutesLeft(n, a, vs)[w] # n
  BY StopsAreMail
<1>2. /\ videoRoutes'[n] = RoutesLeft(n, a, vs)
      /\ \A k \in Nodes \ {n} : videoRoutes'[k] = videoRoutes[k]
  BY DEF TypeOK
<1>3. OwnOK'
  BY <1>1, <1>2, OwnKeeps DEF OwnOK
<1>4. SentOK(n)'
  BY <1>1 DEF SentOK, Mail
<1> QED BY <1>3, <1>4

LEMMA PingIsMail ==
  ASSUME TypeOK, OwnOK, NEW n \in Nodes, NEW c \in Clients, NEW requested \in SUBSET Videos,
         HandleClientPing(n, c, requested)
  PROVE  OwnOK' /\ SentOK(n)'
<1> DEFINE vs == {w \in requested : videoRoutes[n][w] = NoRoute}
<1>1. PICK best \in BestNodes(n, {}) :
        /\ videoRoutes' = [videoRoutes EXCEPT ![n] = RoutesAfter(@, vs, best, {})]
        /\ sent' \subseteq Requests(vs, best, {}) \cup {VideoList(c, GetVideos(n, c))}
  <2>1. PICK best \in BestNodes(n, {}) :
          /\ videoRoutes' = [videoRoutes EXCEPT ![n] = RoutesAfter(@, vs, best, {})]
          /\ sent' = Requests(vs, best, {})
                      \cup IF Stale(n, c, requested) = {} THEN {VideoList(c, GetVideos(n, c))}
                                                          ELSE {}
    BY DEF HandleClientPing
  <2> HIDE DEF vs
  <2> QED BY <2>1
<1>2. vs \in SUBSET Videos /\ \A w \in Videos : videoRoutes[n][w] # n
  BY DEF OwnOK
<1> HIDE DEF vs
<1>3. best \in Routes /\ \A w \in Videos : best[w] # n
  BY OthersAreBest
<1>4. /\ \A x \in Requests(vs, best, {}) : Mail(n, x)
      /\ \A w \in Videos : RoutesAfter(videoRoutes[n], vs, best, {})[w] # n
  BY <1>2, <1>3, RequestsAreMail
<1>5. /\ videoRoutes'[n] = RoutesAfter(videoRoutes[n], vs, best, {})
      /\ \A k \in Nodes \ {n} : videoRoutes'[k] = videoRoutes[k]
  BY <1>1 DEF TypeOK
<1>6. UNCHANGED <<status, neighbours, connecting>>
  BY DEF HandleClientPing
<1>7. OwnOK'
  BY <1>4, <1>5, <1>6, OwnKeeps DEF OwnOK
<1>8. SentOK(n)'
  <2>1. VideoList(c, GetVideos(n, c)).type = "VideoList"
    BY DEF VideoList
  <2> QED BY <1>1, <1>4, <2>1 DEF SentOK, Mail
<1> QED BY <1>7, <1>8

LEMMA FloodIsMail ==
  ASSUME TypeOK, TypeOK', OwnOK, NEW n \in Nodes, NEW p \in Peers, NEW vs \in SUBSET Videos,
         NEW ps, NEW visited \in SUBSET Nodes, HandleFloodPacket(n, p, vs, ps, visited)
  PROVE  OwnOK' /\ SentOK(n)'
<1> DEFINE pending == queue[n] \cap vs
           best == [w \in Videos |-> p]
           floods == {FloodPacket(q, GetVideos(n, q)', GetParents(n)', visited \cup {n}) :
                        q \in neighbours[n] \ {p}}
<1>1. PICK failed \in SUBSET Videos :
        /\ videoRoutes' = [videoRoutes EXCEPT ![n] = RoutesAfter(@, pending, best, failed)]
        /\ sent' = Requests(pending, best, failed) \cup floods
  BY DEF HandleFloodPacket
<1>2. /\ pending \in SUBSET Videos /\ best \in Routes
      /\ \A w \in Videos : best[w] # n /\ videoRoutes[n][w] # n
  BY DEF TypeOK, OwnOK, Routes, HandleFloodPacket
<1>3. ASSUME NEW x \in floods PROVE Mail(n, x)
  <2>1. PICK q \in neighbours[n] \ {p} :
          x = FloodPacket(q, GetVideos(n, q)', GetParents(n)', visited \cup {n})
    BY <1>3
  <2>2. q \in Peers \ {n}
    BY DEF TypeOK, OwnOK
  <2>3. GetVideos(n, q)' \subseteq Videos /\ GetParents(n)' \subseteq Peers
    BY DEF GetVideos, GetParents
  <2> QED BY <2>1, <2>2, <2>3 DEF Mail, FloodPacket
<1> HIDE DEF pending, best, floods
<1>4. /\ \A x \in Requests(pending, best, failed) : Mail(n, x)
      /\ \A w \in Videos : RoutesAfter(videoRoutes[n], pending, best, failed)[w] # n
  BY <1>2, RequestsAreMail
<1>5. /\ videoRoutes'[n] = RoutesAfter(videoRoutes[n], pending, best, failed)
      /\ \A k \in Nodes \ {n} : videoRoutes'[k] = videoRoutes[k]
  BY <1>1 DEF TypeOK
<1>6. /\ status' = [status EXCEPT ![n][p] = "Active"] /\ p # n
      /\ UNCHANGED <<neighbours, connecting>>
  BY DEF HandleFloodPacket
<1>7. status'[n][n] = "Unknown" /\ \A k \in Nodes \ {n} : status'[k] = status[k]
  BY <1>6 DEF TypeOK, OwnOK
<1>8. OwnOK'
  BY <1>4, <1>5, <1>6, <1>7, OwnKeeps DEF OwnOK
<1>9. SentOK(n)'
  BY <1>1, <1>3, <1>4 DEF SentOK, Mail
<1> QED BY <1>8, <1>9

LEMMA UnresponsiveIsMail ==
  ASSUME TypeOK, OwnOK, NEW n \in Nodes, NEW p \in Peers, BecomesUnresponsive(n, p)
  PROVE  OwnOK' /\ SentOK(n)'
<1> DEFINE receiving == {w \in Videos : videoRoutes[n][w] = p}
           sending == {w \in Videos : p \in interested[n][w]}
           contacted(best) == IF Unplaced(receiving, best) = {} THEN {} ELSE parents[n][p] \ {n}
<1>1. PICK best \in BestNodes(n, {p}), failed \in SUBSET Videos :
        /\ videoRoutes' = [videoRoutes EXCEPT ![n] =
             RoutesAfter(RoutesLeft(n, p, sending), receiving, best, failed)]
        /\ connecting' = [connecting EXCEPT ![n] = @ \cup contacted(best)]
        /\ sent' = Stops(n, p, sending) \cup Requests(receiving, best, failed)
                   \cup {NewNeighbour(q) : q \in contacted(best)}
  BY DEF BecomesUnresponsive
<1>2. sending \in SUBSET Videos /\ receiving \in SUBSET Videos
  OBVIOUS
<1>3. contacted(best) \subseteq Peers \ {n}
  BY DEF TypeOK
<1> DEFINE qs == contacted(best)
<1>4. ASSUME NEW x \in {NewNeighbour(q) : q \in qs} PROVE Mail(n, x)
  <2> HIDE DEF contacted
  <2> QED BY <1>3, <1>4 DEF Mail, NewNeighbour
<1> HIDE DEF receiving, sending, contacted
<1>5. best \in Routes /\ \A w \in Videos : best[w] # n
  BY OthersAreBest
<1>6. /\ \A x \in Stops(n, p, sending) : Mail(n, x)
      /\ \A w \in Videos : RoutesLeft(n, p, sending)[w] # n
  BY <1>2, StopsAreMail
<1>7. /\ \A x \in Requests(receiving, best, failed) : Mail(n, x)
      /\ \A w \in Videos : RoutesAfter(RoutesLeft(n, p, sending), receiving, best, failed)[w] # n
  BY <1>2, <1>5, <1>6, RequestsAreMail
<1>8. /\ videoRoutes'[n] = RoutesAfter(RoutesLeft(n, p, sending), receiving, best, failed)
      /\ connecting'[n] = connecting[n] \cup qs
      /\ \A k \in Nodes \ {n} : videoRoutes'[k] = videoRoutes[k] /\ connecting'[k] = connecting[k]
  BY <1>1 DEF TypeOK
<1>9. /\ status' = [status EXCEPT ![n][p] = "Unresponsive"] /\ status[n][p] = "Active"
      /\ UNCHANGED neighbours
  BY DEF BecomesUnresponsive
<1>10. status'[n][n] = "Unknown" /\ \A k \in Nodes \ {n} : status'[k] = status[k]
  BY <1>9 DEF TypeOK, OwnOK
<1>11. n \notin connecting'[n]
  BY <1>3, <1>8 DEF OwnOK
<1>12. OwnOK'
  BY <1>7, <1>8, <1>9, <1>10, <1>11, OwnKeeps DEF OwnOK
<1>13. SentOK(n)'
  BY <1>1, <1>4, <1>6, <1>7 DEF SentOK, Mail
<1> QED BY <1>12, <1>13

LEMMA HangsIsMail ==
  ASSUME TypeOK, OwnOK, NEW n \in Nodes, NEW p \in Peers, UnresponsiveHangs(n, p)
  PROVE  OwnOK' /\ SentOK(n)'
<1>1. PICK done \in SUBSET Videos :
        /\ videoRoutes' = [videoRoutes EXCEPT ![n] = RoutesLeft(n, p, done)]
        /\ sent' = Stops(n, p, done)
  BY DEF UnresponsiveHangs
<1>2. /\ status' = [status EXCEPT ![n][p] = "Unresponsive"] /\ status[n][p] = "Active"
      /\ UNCHANGED <<neighbours, connecting>>
  BY DEF UnresponsiveHangs
<1>3. status'[n][n] = "Unknown" /\ \A k \in Nodes \ {n} : status'[k] = status[k]
  BY <1>2 DEF TypeOK, OwnOK
<1> QED BY <1>1, <1>2, <1>3, StopIsMail

LEMMA DeathIsMail ==
  ASSUME TypeOK, OwnOK, NEW n \in Nodes, NEW p \in Peers, FloodNotAcked(n, p) \/ ParentSilent(n, p)
  PROVE  OwnOK' /\ SentOK(n)'
  BY UnresponsiveIsMail, HangsIsMail DEF FloodNotAcked, ParentSilent

\* Video packets, and steps that send nothing or repeat a request.
LEMMA RestIsMail ==
  ASSUME TypeOK, OwnOK, NEW n \in Nodes,
         \/ \E p \in Peers : HandleNewNeighbour(n, p)
         \/ \E v \in Videos : HandleVideoPacket(n, v)
         \/ \E p \in Peers : ConnectAcked(n, p) \/ ConnectTimesOut(n, p)
         \/ \E v \in Videos : VideoSilent(n, v)
         \/ Restart(n)
  PROVE  OwnOK' /\ SentOK(n)'
<1>1. ASSUME NEW p \in Peers, HandleNewNeighbour(n, p) PROVE OwnOK' /\ SentOK(n)'
  <2>1. n \notin neighbours'[n] /\ \A k \in Nodes \ {n} : neighbours'[k] = neighbours[k]
    BY <1>1 DEF HandleNewNeighbour, TypeOK, OwnOK
  <2>2. UNCHANGED <<status, connecting, videoRoutes>> /\ sent' = {}
    BY <1>1 DEF HandleNewNeighbour
  <2> QED BY <2>1, <2>2, OwnKeeps DEF OwnOK, SentOK
<1>2. ASSUME NEW v \in Videos, HandleVideoPacket(n, v) PROVE OwnOK' /\ SentOK(n)'
  <2>1. UNCHANGED <<status, neighbours, connecting, videoRoutes>>
    BY <1>2 DEF HandleVideoPacket
  <2>2. \A x \in sent' : x.type = "VideoPacket"
    BY <1>2 DEF HandleVideoPacket, VideoPacket
  <2> QED BY <2>1, <2>2 DEF OwnOK, SentOK
<1>3. ASSUME NEW p \in Peers, ConnectAcked(n, p) \/ ConnectTimesOut(n, p)
      PROVE  OwnOK' /\ SentOK(n)'
  <2>1. /\ n \notin neighbours'[n] /\ \A k \in Nodes \ {n} : neighbours'[k] = neighbours[k]
        /\ n \notin connecting'[n] /\ \A k \in Nodes \ {n} : connecting'[k] = connecting[k]
    BY <1>3 DEF ConnectAcked, ConnectTimesOut, TypeOK, OwnOK
  <2>2. UNCHANGED <<status, videoRoutes>> /\ sent' = {}
    BY <1>3 DEF ConnectAcked, ConnectTimesOut
  <2> QED BY <2>1, <2>2, OwnKeeps DEF OwnOK, SentOK
<1>4. ASSUME NEW v \in Videos, VideoSilent(n, v) PROVE OwnOK' /\ SentOK(n)'
  <2>1. UNCHANGED <<status, neighbours, connecting, videoRoutes>>
    BY <1>4 DEF VideoSilent
  <2>2. Mail(n, RequestVideo(videoRoutes[n][v], v))
    BY <1>4 DEF VideoSilent, Mail, RequestVideo, TypeOK, OwnOK
  <2>3. sent' = {RequestVideo(videoRoutes[n][v], v)}
    BY <1>4 DEF VideoSilent
  <2> QED BY <2>1, <2>2, <2>3 DEF OwnOK, SentOK, Mail
<1>5. ASSUME Restart(n) PROVE OwnOK' /\ SentOK(n)'
  <2>1. /\ status'[n][n] = "Unknown" /\ \A k \in Nodes \ {n} : status'[k] = status[k]
        /\ neighbours'[n] = Neighbours[n] /\ \A k \in Nodes \ {n} : neighbours'[k] = neighbours[k]
        /\ connecting'[n] = {} /\ \A k \in Nodes \ {n} : connecting'[k] = connecting[k]
    BY <1>5, NodeAssumption DEF Restart, TypeOK
  <2>2. /\ \A v \in Videos : videoRoutes'[n][v] = NoRoute
        /\ \A k \in Nodes \ {n} : videoRoutes'[k] = videoRoutes[k]
    BY <1>5 DEF Restart, TypeOK
  <2>3. n \notin Neighbours[n] /\ n # NoRoute
    BY OverlayAssumption, NodeAssumption
  <2>4. OwnOK'
    BY <2>1, <2>2, <2>3, OwnKeeps
  <2> QED BY <1>5, <2>4 DEF Restart, SentOK
<1> QED BY <1>1, <1>2, <1>3, <1>4, <1>5

----
\* What holds of the overlay at any time.
OInv == OverlayTypeOK /\ OwnOK /\ NetOK

\* A step of a node in the overlay.
NodeDoes(k) == Next /\ OwnOK' /\ SentOK(k)'

LEMMA HandlesIsNext ==
  ASSUME OInv, NEW m \in net, m[2].to \in Nodes, Handles(m[2].to, m)
  PROVE  NodeDoes(m[2].to)
<1> DEFINE k == m[2].to
           a == m[1]
           x == m[2]
<1> USE DEF OInv, OverlayTypeOK
<1>1. k \in Nodes /\ a \in Addrs \ {k}
  BY NodeAssumption DEF NetOK, Mail, Addrs
<1>2. CASE x.type = "RequestVideo" /\ HandleRequestVideo(k, a, x.video)
  <2>1. x.video \in Videos
    BY <1>2 DEF NetOK, Mail
  <2>2. OwnOK' /\ SentOK(k)'
    BY <1>1, <1>2, <2>1, RequestIsMail
  <2> QED BY <1>1, <1>2, <2>1, <2>2 DEF NodeDoes, Next, PacketStep
<1>3. CASE x.type = "StopVideo" /\ HandleStopVideo(k, a, x.video)
  <2>1. x.video \in Videos
    BY <1>3 DEF NetOK, Mail
  <2>2. OwnOK' /\ SentOK(k)'
    <3>1. /\ videoRoutes' = [videoRoutes EXCEPT ![k] = RoutesLeft(k, a, {x.video})]
          /\ sent' = Stops(k, a, {x.video})
          /\ UNCHANGED <<status, neighbours, connecting>>
      BY <1>3 DEF HandleStopVideo
    <3>2. {x.video} \in SUBSET Videos /\ status'[k][k] = "Unknown"
      BY <1>1, <2>1, <3>1 DEF OwnOK
    <3> QED BY <1>1, <3>1, <3>2, StopIsMail
  <2> QED BY <1>1, <1>3, <2>1, <2>2 DEF NodeDoes, Next, PacketStep
<1>4. CASE x.type = "NewNeighbour" /\ HandleNewNeighbour(k, a)
  <2>1. a \in Peers
    BY <1>1, <1>4 DEF NetOK, Addrs
  <2>2. OwnOK' /\ SentOK(k)'
    BY <1>1, <1>4, <2>1, RestIsMail
  <2> QED BY <1>1, <1>4, <2>1, <2>2 DEF NodeDoes, Next, PacketStep
<1>5. CASE x.type = "FloodPacket" /\ HandleFloodPacket(k, a, x.videos, x.parents, x.visited)
  <2>1. /\ a \in Peers /\ x.videos \in SUBSET Videos
        /\ x.parents \in ParentLists /\ x.visited \in SUBSET Nodes
    BY <1>1, <1>5, OverlayAssumption DEF NetOK, Mail, Addrs
  <2>2. TypeOK'
    BY <1>1, <1>5, <2>1, FloodTypeOK
  <2>3. OwnOK' /\ SentOK(k)'
    BY <1>1, <1>5, <2>1, <2>2, FloodIsMail
  <2> QED BY <1>1, <1>5, <2>1, <2>3 DEF NodeDoes, Next, PacketStep
<1>6. CASE x.type = "ClientPing" /\ HandleClientPing(k, a, x.videos)
  <2>1. a \in Clients /\ x.videos \in SUBSET Videos
    BY <1>6 DEF NetOK, Mail
  <2>2. OwnOK' /\ SentOK(k)'
    BY <1>1, <1>6, <2>1, PingIsMail
  <2> QED BY <1>1, <1>6, <2>1, <2>2 DEF NodeDoes, Next, PacketStep
<1> QED BY <1>2, <1>3, <1>4, <1>5, <1>6 DEF Handles

\* Whatever node k does, the server's state and the list of the dead are left
\* alone, and what is added to the network is mail of k.
LEMMA PostedKeeps ==
  ASSUME OInv, NEW k \in Nodes, NodeDoes(k),
         net' \subseteq net \cup Posted(k), UNCHANGED <<serverVars, crashed, playing>>
  PROVE  OInv'
<1> USE DEF OInv, OverlayTypeOK
<1>1. TypeOK'
  BY NextTypeOK DEF NodeDoes
<1>2. S!ServerTypeOK'
  BY DEF serverVars, S!ServerTypeOK
<1>3. ASSUME NEW m \in Posted(k)
      PROVE  m[1] \in Addrs /\ m[1] \notin Clients /\ Mail(m[1], m[2])
  <2>1. m[1] = k /\ m[2] \in sent' /\ m[2].type \notin {"VideoList", "VideoPacket"}
    BY DEF Posted, Matters
  <2>2. k \in Addrs /\ k \notin Clients
    BY NodeAssumption DEF Addrs
  <2> QED BY <2>1, <2>2 DEF NodeDoes, SentOK, Mail
<1>4. NetOK'
  BY <1>3 DEF NetOK, Mail
<1>5. \A m \in net' : m[1] \in Addrs /\ m[2].to \in Peers \ {m[1]}
  BY <1>4 DEF NetOK, Mail
<1> QED BY <1>1, <1>2, <1>4, <1>5 DEF NodeDoes

\* The tasks of node k and its process.
LEMMA TasksAreNext ==
  ASSUME OInv, NEW k \in Nodes,
         \/ \E p \in Peers : FloodNotAcked(k, p) \/ ParentSilent(k, p)
         \/ \E p \in Peers : ConnectAcked(k, p) \/ ConnectTimesOut(k, p)
         \/ \E v \in Videos : HandleVideoPacket(k, v) \/ VideoSilent(k, v)
         \/ Restart(k)
  PROVE  NodeDoes(k)
<1> USE DEF OInv, OverlayTypeOK
<1>1. OwnOK' /\ SentOK(k)'
  <2>1. CASE \E p \in Peers : FloodNotAcked(k, p) \/ ParentSilent(k, p)
    BY <2>1, DeathIsMail
  <2>2. CASE \/ \E p \in Peers : ConnectAcked(k, p) \/ ConnectTimesOut(k, p)
             \/ \E v \in Videos : HandleVideoPacket(k, v) \/ VideoSilent(k, v)
             \/ Restart(k)
    BY <2>2, RestIsMail
  <2> QED BY <2>1, <2>2
<1>2. Next
  BY DEF Next, PacketStep, TaskStep
<1> QED BY <1>1, <1>2 DEF NodeDoes

LEMMA NodeStepKeeps ==
  ASSUME OInv, NodeStep
  PROVE  OInv' /\ [Next]_vars
<1> USE DEF OInv, OverlayTypeOK
<1>0. ASSUME NEW k \in Nodes, NodeDoes(k), net' \subseteq net \cup Posted(k),
             UNCHANGED <<serverVars, crashed, playing>>
      PROVE  OInv' /\ [Next]_vars
  BY <1>0, PostedKeeps DEF NodeDoes
<1>9. ASSUME UNCHANGED <<vars, serverVars, crashed, playing>>, net' \subseteq net
      PROVE  OInv' /\ [Next]_vars
  BY <1>9 DEF vars, serverVars, TypeOK, S!ServerTypeOK, OwnOK, NetOK, Mail
<1>1. ASSUME NEW m \in net, DeliverToNode(m) PROVE OInv' /\ [Next]_vars
  <2>1. CASE WasHere(m)
    BY <1>1, <1>9, <2>1 DEF DeliverToNode
  <2>2. CASE ~WasHere(m)
    <3>1. /\ m[2].to \in Nodes /\ Handles(m[2].to, m)
          /\ net' = (net \ {m}) \cup Posted(m[2].to)
          /\ UNCHANGED <<serverVars, crashed, playing>>
      BY <1>1, <2>2 DEF DeliverToNode, Hearing, Sending
    <3>2. NodeDoes(m[2].to)
      BY <3>1, HandlesIsNext
    <3> QED BY <1>0, <3>1, <3>2
  <2> QED BY <2>1, <2>2
<1>2. ASSUME NEW m \in net, Repeat(m) PROVE OInv' /\ [Next]_vars
  <2>1. /\ m[2].to \in Nodes /\ Handles(m[2].to, m)
        /\ net' = net \cup Posted(m[2].to)
        /\ UNCHANGED <<serverVars, crashed, playing>>
    BY <1>2 DEF Repeat, Hearing
  <2>2. NodeDoes(m[2].to)
    BY <2>1, HandlesIsNext
  <2> QED BY <1>0, <2>1, <2>2
<1>3. ASSUME NEW m \in net, Lost(m) PROVE OInv' /\ [Next]_vars
  <2>1. UNCHANGED <<serverVars, crashed, playing>> /\ m[2].to \in Peers
    BY <1>3 DEF Lost, NetOK, Mail
  <2>2. CASE m[1] \in Nodes \cap Alive /\ Waits(m[1], m)
    <3>1. /\ FloodNotAcked(m[1], m[2].to) \/ ConnectTimesOut(m[1], m[2].to)
          /\ net' = (net \ {m}) \cup Posted(m[1])
      BY <1>3, <2>2 DEF Lost
    <3>2. NodeDoes(m[1])
      BY <2>1, <2>2, <3>1, TasksAreNext
    <3> QED BY <1>0, <2>1, <2>2, <3>1, <3>2
  <2>3. CASE ~(m[1] \in Nodes \cap Alive /\ Waits(m[1], m))
    BY <1>3, <1>9, <2>1, <2>3 DEF Lost
  <2> QED BY <2>2, <2>3
<1>4. ASSUME NEW k \in Nodes,
             \/ \E p \in Peers : Connected(k, p) \/ NoticesSilence(k, p) \/ FalseAlarm(k, p)
             \/ \E p \in Peers : AckUnheard(k, p)
             \/ VideoArrives(k) \/ AsksAgain(k)
      PROVE  OInv' /\ [Next]_vars
  <2>1. /\ net' = net \cup Posted(k)
        /\ UNCHANGED <<serverVars, crashed, playing>>
    BY <1>4 DEF Connected, NoticesSilence, FalseAlarm, AckUnheard, VideoArrives, AsksAgain, Sending
  <2>2. \/ \E p \in Peers : FloodNotAcked(k, p) \/ ParentSilent(k, p)
        \/ \E p \in Peers : ConnectAcked(k, p) \/ ConnectTimesOut(k, p)
        \/ HandleVideoPacket(k, Video) \/ VideoSilent(k, Video)
    BY <1>4 DEF Connected, NoticesSilence, FalseAlarm, AckUnheard, VideoArrives, AsksAgain
  <2>3. NodeDoes(k)
    BY <2>2, OverlayAssumption, TasksAreNext
  <2> QED BY <1>0, <2>1, <2>3
<1>5. ASSUME NEW k \in Nodes, NodeRestarts(k) PROVE OInv' /\ [Next]_vars
  <2>1. NodeDoes(k)
    BY <1>5, TasksAreNext DEF NodeRestarts
  <2> QED BY <1>0, <1>5, <2>1 DEF NodeRestarts
<1> QED BY <1>1, <1>2, <1>3, <1>4, <1>5 DEF NodeStep

----
\* The server's steps keep its types.
LEMMA ServerKeepsTypes ==
  ASSUME S!ServerTypeOK,
         \/ \E f \in Files : S!WatchFile(f)
         \/ \E t \in tasks : S!InsertVideo(t)
         \/ \E a \in Nodes, v \in Videos : S!HandleRequestVideo(a, v) \/ S!HandleStopVideo(a, v)
         \/ \E a \in Nodes : S!HandleNewNeighbour(a)
         \/ S!ServerRestart
  PROVE  S!ServerTypeOK'
<1> USE DEF S!ServerTypeOK
<1>1. ASSUME NEW f \in Files, S!WatchFile(f) PROVE S!ServerTypeOK'
  <2>1. VideoOf[f] \in Videos /\ starts' \in 1..MaxStarts /\ starts' = starts + 1
    BY <1>1, OverlayAssumption DEF S!WatchFile
  <2>2. S!Task(starts', VideoOf[f], "starting") \in S!Tasks
    BY <2>1 DEF S!Task, S!Tasks
  <2> QED BY <1>1, <2>1, <2>2 DEF S!WatchFile
<1>2. ASSUME NEW t \in tasks, S!InsertVideo(t) PROVE S!ServerTypeOK'
  <2>1. t.nr \in 1..MaxStarts /\ t.video \in Videos
    BY DEF S!Tasks
  <2>2. S!Task(t.nr, t.video, "streaming") \in S!Tasks
    BY <2>1 DEF S!Task, S!Tasks
  <2>3. tasks' \subseteq S!Tasks
    BY <1>2, <2>2 DEF S!InsertVideo
  <2> QED BY <1>2, <2>1, <2>3 DEF S!InsertVideo
<1>3. ASSUME NEW a \in Nodes, NEW v \in Videos, S!HandleRequestVideo(a, v) \/ S!HandleStopVideo(a, v)
      PROVE  S!ServerTypeOK'
  <2>1. subscribers' \in [Videos -> SUBSET Nodes]
    BY <1>3 DEF S!HandleRequestVideo, S!HandleStopVideo
  <2> QED BY <1>3, <2>1 DEF S!HandleRequestVideo, S!HandleStopVideo
<1>4. ASSUME NEW a \in Nodes, S!HandleNewNeighbour(a) PROVE S!ServerTypeOK'
  BY <1>4 DEF S!HandleNewNeighbour
<1>5. ASSUME S!ServerRestart PROVE S!ServerTypeOK'
  BY <1>5, OverlayAssumption DEF S!ServerRestart
<1> QED BY <1>1, <1>2, <1>3, <1>4, <1>5

\* A step that leaves the nodes alone keeps what is said of them.
LEMMA NodesRest ==
  ASSUME OInv, UNCHANGED vars, S!ServerTypeOK', NetOK', crashed' \subseteq Peers,
         playing' \in {"no", "asked", "yes"}
  PROVE  OInv' /\ [Next]_vars
<1> USE DEF OInv, OverlayTypeOK
<1>1. TypeOK' /\ OwnOK'
  BY DEF vars, TypeOK, OwnOK
<1>2. \A m \in net' : m[1] \in Addrs /\ m[2].to \in Peers \ {m[1]}
  BY DEF NetOK, Mail
<1> QED BY <1>1, <1>2

LEMMA OverlayStepKeeps == OInv /\ [OverlayNext]_overlayVars => OInv' /\ [Next]_vars
<1> SUFFICES ASSUME OInv, [OverlayNext]_overlayVars PROVE OInv' /\ [Next]_vars
  OBVIOUS
<1> USE DEF OInv, OverlayTypeOK
<1>1. CASE UNCHANGED overlayVars
  BY <1>1 DEF overlayVars, vars, serverVars, netVars, TypeOK, S!ServerTypeOK, OwnOK, NetOK, Mail
<1>2. CASE NodeStep
  BY <1>2, NodeStepKeeps
<1>3. ASSUME NEW m \in net, DeliverToServer(m) PROVE OInv' /\ [Next]_vars
  <2>1. m[1] \in Nodes
    BY <1>3, OverlayAssumption DEF DeliverToServer, NetOK, Mail, Addrs
  <2>2. m[2].type \in {"RequestVideo", "StopVideo"} => m[2].video \in Videos
    BY DEF NetOK, Mail
  <2>3. S!ServerTypeOK'
    <3>1. CASE m[2].type = "FloodPacket" /\ UNCHANGED serverVars
      BY <3>1 DEF serverVars, S!ServerTypeOK
    <3>2. CASE m[2].type # "FloodPacket"
      BY <1>3, <2>1, <2>2, <3>2, ServerKeepsTypes DEF DeliverToServer
    <3> QED BY <1>3, <3>1, <3>2 DEF DeliverToServer
  <2>4. NetOK' /\ UNCHANGED <<vars, crashed, playing>>
    BY <1>3 DEF DeliverToServer, NetOK, Mail
  <2> QED BY <2>3, <2>4, NodesRest
<1>4. CASE ServerFloods
  <2>1. ASSUME NEW k \in known
        PROVE  Mail(Server, FloodPacket(k, listed, {}, {}))
    BY OverlayAssumption DEF S!ServerTypeOK, Mail, FloodPacket
  <2>2. Server \in Addrs /\ Server \notin Clients
    BY OverlayAssumption, NodeAssumption DEF Addrs
  <2>3. NetOK'
    BY <1>4, <2>1, <2>2 DEF ServerFloods, NetOK, Mail
  <2>4. S!ServerTypeOK' /\ UNCHANGED <<vars, crashed, playing>>
    BY <1>4 DEF ServerFloods, serverVars, S!ServerTypeOK
  <2> QED BY <2>3, <2>4, NodesRest
<1>5. CASE ServerStep \/ ServerRestarts
  <2>1. S!ServerTypeOK'
    BY <1>5, ServerKeepsTypes DEF ServerStep, Watches, ServerRestarts
  <2>2. UNCHANGED <<vars, net, crashed, playing>>
    BY <1>5 DEF ServerStep, ServerRestarts
  <2> QED BY <2>1, <2>2, NodesRest DEF NetOK, Mail
<1>6. ASSUME NEW p \in Peers, Dies(p) PROVE OInv' /\ [Next]_vars
  <2>1. NetOK' /\ crashed' \subseteq Peers
    BY <1>6 DEF Dies, NetOK, Mail
  <2>2. S!ServerTypeOK' /\ UNCHANGED <<vars, playing>>
    BY <1>6 DEF Dies, serverVars, S!ServerTypeOK
  <2> QED BY <2>1, <2>2, NodesRest
<1>7. CASE Plays
  <2>1. /\ Mail(Client, RequestVideo(Home, Video))
        /\ RequestVideo(Home, Video).to \in Nodes
        /\ RequestVideo(Home, Video).type = "RequestVideo" /\ Client \in Addrs
    BY OverlayAssumption, NodeAssumption DEF Mail, RequestVideo, Addrs
  <2>2. NetOK'
    BY <1>7, <2>1 DEF Plays, NetOK, Mail
  <2>3. S!ServerTypeOK' /\ UNCHANGED <<vars, crashed>> /\ playing' = "asked"
    BY <1>7 DEF Plays, serverVars, S!ServerTypeOK
  <2> QED BY <2>2, <2>3, NodesRest
<1>8. CASE MakesEntry
  <2>1. S!ServerTypeOK' /\ UNCHANGED <<vars, net, crashed>> /\ playing' = "yes"
    BY <1>8 DEF MakesEntry, serverVars, S!ServerTypeOK
  <2> QED BY <2>1, NodesRest DEF NetOK, Mail
<1>9. CASE Pings
  <2>1. PICK vs \in SUBSET Videos : net' = net \cup {<<Client, ClientPing(Home, vs)>>}
    BY <1>9, OverlayAssumption DEF Pings
  <2>2. /\ Mail(Client, ClientPing(Home, vs)) /\ Client \in Addrs
        /\ ClientPing(Home, vs).to \in Nodes /\ ClientPing(Home, vs).type = "ClientPing"
    BY OverlayAssumption, NodeAssumption DEF Mail, ClientPing, Addrs
  <2>3. NetOK'
    BY <2>1, <2>2 DEF NetOK, Mail
  <2>4. S!ServerTypeOK' /\ UNCHANGED <<vars, crashed, playing>>
    BY <1>9 DEF Pings, serverVars, S!ServerTypeOK
  <2> QED BY <2>3, <2>4, NodesRest
<1> QED BY <1>1, <1>2, <1>3, <1>4, <1>5, <1>6, <1>7, <1>8, <1>9 DEF OverlayNext

LEMMA InitOInv == OverlayInit => OInv
<1> SUFFICES ASSUME OverlayInit PROVE OInv
  OBVIOUS
<1>1. TypeOK
  BY InitTypeOK DEF OverlayInit
<1>2. S!ServerTypeOK
  <2>1. Video \in Videos /\ Known \subseteq Nodes
    BY OverlayAssumption
  <2> QED BY <2>1, OverlayAssumption DEF OverlayInit, S!ServerInit, S!ServerTypeOK, S!Tasks
<1>3. OwnOK
  BY OverlayAssumption, NodeAssumption DEF OverlayInit, Init, OwnOK
<1> QED BY <1>1, <1>2, <1>3 DEF OInv, OverlayTypeOK, NetOK, OverlayInit

----
\* Every variable of the overlay keeps its type, and nobody sends a packet to
\* himself, for any nodes, clients, files and faults.
THEOREM OverlayTypeCorrect == OverlaySpec => []OverlayTypeOK
<1>1. OInv => OverlayTypeOK
  BY DEF OInv
<1> QED BY <1>1, InitOInv, OverlayStepKeeps, PTL DEF OverlaySpec

\* Each node of an overlay is a node of Node: every step of the overlay is one
\* of its steps or leaves the nodes alone.
THEOREM OverlayImplementsNode == OverlaySpec => Spec
<1>1. OverlayInit => Init
  BY DEF OverlayInit
<1> QED BY <1>1, InitOInv, OverlayStepKeeps, PTL DEF OverlaySpec, Spec

\* So that in every overlay, whatever is lost, repeated or dies: no watched
\* video is forgotten, no dead route is kept without a place in the queue, and
\* the queue holds only what nobody offers.
THEOREM OverlaySubscribersAreServed ==
  OverlaySpec => [](SubscribersHaveSource /\ DeadRouteIsQueued /\ QueuedIsUnavailable)
<1>1. NInv => SubscribersHaveSource /\ DeadRouteIsQueued /\ QueuedIsUnavailable
  BY DEF NInv
<1> QED BY <1>1, OverlayImplementsNode, Invariant, PTL

----
(* RoutesAreSubscribed: while nothing is given up and nobody restarts or is   *)
(* taken for dead, nothing is stopped, as no active peer's floods ever stop;  *)
(* and the server's entry is made before anybody has heard of the video.      *)

\* Floods of p go on coming to k: the server's own, or those that p passes on.
Reaches(p, k) ==
  IF p = Server THEN k \in known ELSE p \in FloodedWithout(k) /\ k \in neighbours[p]

NobodySeemsDead == \A k \in Nodes, p \in Peers : status[k][p] # "Unresponsive"
ActiveReaches == \A k \in Nodes, p \in Peers : status[k][p] = "Active" => Reaches(p, k)

\* A flood goes to a neighbour, and on its way it has left out every node that
\* it does not list as visited.
FloodReaches(p, x) ==
  IF p = Server THEN x.to \in known
  ELSE /\ p \in Nodes /\ x.to \in neighbours[p] /\ p \in x.visited
       /\ \A k \in Nodes \ x.visited : p \in FloodedWithout(k)
FloodsReach == \A m \in net : m[2].type = "FloodPacket" => FloodReaches(m[1], m[2])

NoStops == \A m \in net : m[2].type # "StopVideo"

\* No packet task has stopped.
NobodyStuck == \A k \in Nodes : locked[k] = {}

\* The video has one task at most, which made the entry, or will.
StartedOnce ==
  \A t \in tasks :
    t.video = Video => /\ Video \in listed => t.stage = "streaming"
                       /\ \A u \in tasks : u.video = Video => u = t

\* Without an entry the server has no subscriber, and nobody knows that it has
\* the video: the entry takes no subscription away.
UnknownAtFirst ==
  Video \notin listed =>
    /\ subscribers[Video] = {}
    /\ \A k \in Nodes : videoRoutes[k][Video] # Server /\ Video \notin offers[k][Server]
    /\ \A m \in net : m[1] = Server /\ m[2].type = "FloodPacket" => Video \notin m[2].videos

Linked ==
  \A k \in Nodes \cup {Client} :
    LET p == Upstream(k)
    IN  p # NoRoute => k \in Subscribed(p) \/ <<k, RequestVideo(p, Video)>> \in net

Smooth ==
  /\ crashed = {} /\ NobodyStuck /\ StartedOnce /\ UnknownAtFirst
  /\ NoStops /\ NobodySeemsDead
  /\ ActiveReaches /\ FloodsReach /\ Linked

SInv == faults \in Seq(FaultKinds) /\ (Undisturbed => Smooth)

\* A fault that disturbs nothing is a repeated packet or one that is not sent.
LEMMA FaultsDisturb ==
  ASSUME faults \in Seq(FaultKinds), NEW kind \in FaultKinds, Fault(kind)
  PROVE  /\ faults' \in Seq(FaultKinds)
         /\ Undisturbed' => Undisturbed /\ kind \in {"repeated", "unsent"}
<1>1. faults' = Append(faults, kind) /\ faults' \in Seq(FaultKinds)
  BY DEF Fault
<1>2. /\ DOMAIN faults = 1..Len(faults) /\ DOMAIN faults' = 1..(Len(faults) + 1)
      /\ Len(faults) \in Nat
      /\ faults'[Len(faults) + 1] = kind /\ \A i \in 1..Len(faults) : faults'[i] = faults[i]
  BY <1>1
<1>3. ToSet(faults) \subseteq ToSet(faults') /\ kind \in ToSet(faults')
  BY <1>2 DEF ToSet
<1> QED BY <1>1, <1>3 DEF Undisturbed

\* Floods reach more nodes when nodes get more neighbours, ...
LEMMA FloodsReachMore ==
  ASSUME crashed = {}, crashed' = {}, NobodyStuck, NobodyStuck', known \subseteq known',
         \A q \in Nodes : neighbours[q] \subseteq neighbours'[q], NEW k \in Nodes
  PROVE  FloodedWithout(k) \subseteq FloodedWithout(k)'
<1> DEFINE others == Nodes \ {k}
<1>0. Hearing = Nodes /\ Hearing' = Nodes
  BY NodeAssumption DEF Alive, Hearing, NobodyStuck, Receiving
<1> SUFFICES ASSUME NEW p \in FloodedWithout(k) PROVE p \in FloodedWithout(k)'
  OBVIOUS
<1>1. /\ p \in others
      /\ \A W \in SUBSET others :
           known \cap others \subseteq W /\ (\A q \in W : neighbours[q] \cap others \subseteq W)
             => p \in W
  BY <1>0 DEF FloodedWithout
<1>2. ASSUME NEW W \in SUBSET others, known' \cap others \subseteq W,
             \A q \in W : neighbours'[q] \cap others \subseteq W
      PROVE  p \in W
  <2>1. \A q \in W : neighbours[q] \cap others \subseteq W
    BY <1>2
  <2>2. known \cap others \subseteq W
    BY <1>2
  <2> QED BY <1>1, <2>1, <2>2
<1> QED BY <1>0, <1>1, <1>2 DEF FloodedWithout

\* ... and the neighbours of those they reach.
LEMMA FloodsGoOn ==
  ASSUME crashed = {}, NobodyStuck, NEW k \in Nodes, NEW n \in Nodes \ {k}, NEW p,
         \/ p = Server /\ n \in known
         \/ p \in FloodedWithout(k) /\ n \in neighbours[p]
  PROVE  n \in FloodedWithout(k)
<1> DEFINE others == Nodes \ {k}
<1>0. Hearing = Nodes
  BY NodeAssumption DEF Alive, Hearing, NobodyStuck, Receiving
<1>1. ASSUME NEW W \in SUBSET others, known \cap others \subseteq W,
             \A q \in W : neighbours[q] \cap others \subseteq W
      PROVE  n \in W
  <2>1. CASE n \in known
    BY <1>1, <2>1
  <2>2. CASE p \in FloodedWithout(k) /\ n \in neighbours[p]
    <3>1. p \in W
      BY <1>0, <1>1, <2>2 DEF FloodedWithout
    <3> QED BY <1>1, <2>2, <3>1
  <2> QED BY <2>1, <2>2
<1> QED BY <1>0, <1>1 DEF FloodedWithout

----
\* What a step of node k that stops nothing does: it adds subscribers and
\* neighbours, and sets a route only with a request to one who offers the video.
Adds(k) ==
  /\ \A j \in Nodes : neighbours[j] \subseteq neighbours'[j]
  /\ \A j \in Nodes, w \in Videos : interested[j][w] \subseteq interested'[j][w]
  /\ \A j \in Nodes, w \in Videos :
       \/ videoRoutes'[j][w] = videoRoutes[j][w]
       \/ /\ j = k /\ RequestVideo(videoRoutes'[j][w], w) \in sent'
          /\ w \in offers'[j][videoRoutes'[j][w]]
  /\ \A x \in sent' : x.type # "StopVideo"
  /\ \A j \in Nodes \ {k} : locked'[j] = locked[j]

\* It leaves the entries of other peers alone, and sends no flood.
NoFlood == UNCHANGED <<status, offers>> /\ \A x \in sent' : x.type # "FloodPacket"

\* Routes that are asked for are requested.
LEMMA AskingRequests ==
  ASSUME NEW vs, NEW routes, NEW best, NEW failed, NEW w \in Videos
  PROVE  \/ RoutesAfter(routes, vs, best, failed)[w] = routes[w]
         \/ /\ w \in vs /\ best[w] # NoRoute /\ RoutesAfter(routes, vs, best, failed)[w] = best[w]
            /\ RequestVideo(best[w], w) \in Requests(vs, best, failed)
<1>0. RoutesAfter(routes, vs, best, failed)[w]
        = IF w \in Asked(vs, best, failed) THEN best[w] ELSE routes[w]
  BY DEF RoutesAfter
<1>1. CASE w \in Asked(vs, best, failed)
  <2>1. /\ RequestVideo(best[w], w) \in Requests(vs, best, failed)
        /\ w \in vs /\ best[w] # NoRoute
    BY <1>1 DEF Requests, Asked
  <2>2. RoutesAfter(routes, vs, best, failed)[w] = best[w]
    BY <1>0, <1>1
  <2> QED BY <2>1, <2>2
<1>2. CASE w \notin Asked(vs, best, failed)
  BY <1>0, <1>2
<1> QED BY <1>1, <1>2

LEMMA RequestsAreRequests ==
  ASSUME NEW vs, NEW best, NEW failed
  PROVE  \A x \in Requests(vs, best, failed) : x.type = "RequestVideo"
  BY DEF Requests, RequestVideo

\* The best is one who offers the video.
LEMMA BestOffers ==
  ASSUME TypeOK, NEW n \in Nodes, NEW best \in BestNodes(n, {}), NEW w \in Videos,
         best[w] # NoRoute
  PROVE  w \in offers[n][best[w]]
  BY BestNodesFacts DEF Offering

LEMMA RequestAdds ==
  ASSUME TypeOK, NEW n \in Nodes, NEW a \in Addrs, NEW v \in Videos, HandleRequestVideo(n, a, v)
  PROVE  Adds(n) /\ NoFlood /\ a \in interested'[n][v]
<1> DEFINE vs == IF videoRoutes[n][v] = NoRoute THEN {v} ELSE {}
<1>1. PICK best \in BestNodes(n, {}), failed \in SUBSET Videos :
        /\ videoRoutes' = [videoRoutes EXCEPT ![n] = RoutesAfter(@, vs, best, failed)]
        /\ sent' = Requests(vs, best, failed)
  BY DEF HandleRequestVideo
<1> HIDE DEF vs
<1>2. /\ videoRoutes'[n] = RoutesAfter(videoRoutes[n], vs, best, failed)
      /\ \A j \in Nodes \ {n} : videoRoutes'[j] = videoRoutes[j]
  BY <1>1 DEF TypeOK
<1>3. /\ a \in interested'[n][v]
      /\ \A j \in Nodes, w \in Videos : interested[j][w] \subseteq interested'[j][w]
  BY DEF HandleRequestVideo, TypeOK
<1>4. UNCHANGED <<neighbours, status, offers, locked>>
  BY DEF HandleRequestVideo
<1>5. \A x \in sent' : x.type = "RequestVideo"
  BY <1>1, RequestsAreRequests
<1>6. ASSUME NEW j \in Nodes, NEW w \in Videos
      PROVE  \/ videoRoutes'[j][w] = videoRoutes[j][w]
             \/ /\ j = n /\ RequestVideo(videoRoutes'[j][w], w) \in sent'
                /\ w \in offers[j][videoRoutes'[j][w]]
  BY <1>1, <1>2, AskingRequests, BestOffers
<1> QED BY <1>3, <1>4, <1>5, <1>6 DEF Adds, NoFlood

LEMMA PingAdds ==
  ASSUME TypeOK, NEW n \in Nodes, NEW c \in Clients, NEW requested \in SUBSET Videos,
         HandleClientPing(n, c, requested)
  PROVE  Adds(n) /\ NoFlood
<1> DEFINE vs == {w \in requested : videoRoutes[n][w] = NoRoute}
<1>1. PICK best \in BestNodes(n, {}) :
        /\ videoRoutes' = [videoRoutes EXCEPT ![n] = RoutesAfter(@, vs, best, {})]
        /\ Requests(vs, best, {}) \subseteq sent'
        /\ sent' \subseteq Requests(vs, best, {}) \cup {VideoList(c, GetVideos(n, c))}
        /\ interested' = [interested EXCEPT ![n] =
             [w \in Videos |-> IF w \in vs THEN @[w] \cup {c} ELSE @[w]]]
  <2>1. PICK best \in BestNodes(n, {}) :
          /\ interested' = [interested EXCEPT ![n] =
               [w \in Videos |-> IF w \in vs THEN @[w] \cup {c} ELSE @[w]]]
          /\ videoRoutes' = [videoRoutes EXCEPT ![n] = RoutesAfter(@, vs, best, {})]
          /\ sent' = Requests(vs, best, {})
                      \cup IF Stale(n, c, requested) = {} THEN {VideoList(c, GetVideos(n, c))}
                                                          ELSE {}
    BY DEF HandleClientPing
  <2> HIDE DEF vs
  <2> QED BY <2>1
<1> HIDE DEF vs
<1>2. /\ videoRoutes'[n] = RoutesAfter(videoRoutes[n], vs, best, {})
      /\ \A j \in Nodes \ {n} : videoRoutes'[j] = videoRoutes[j]
  BY <1>1 DEF TypeOK
<1>3. \A j \in Nodes, w \in Videos : interested[j][w] \subseteq interested'[j][w]
  BY <1>1 DEF TypeOK
<1>4. /\ UNCHANGED <<neighbours, status, offers>>
      /\ \A j \in Nodes \ {n} : locked'[j] = locked[j]
  BY DEF HandleClientPing, TypeOK
<1>5. \A x \in sent' : x.type \in {"RequestVideo", "VideoList"}
  <2>1. VideoList(c, GetVideos(n, c)).type = "VideoList"
    BY DEF VideoList
  <2> QED BY <1>1, <2>1, RequestsAreRequests
<1>6. ASSUME NEW j \in Nodes, NEW w \in Videos
      PROVE  \/ videoRoutes'[j][w] = videoRoutes[j][w]
             \/ /\ j = n /\ RequestVideo(videoRoutes'[j][w], w) \in sent'
                /\ w \in offers[j][videoRoutes'[j][w]]
  BY <1>1, <1>2, AskingRequests, BestOffers
<1> QED BY <1>3, <1>4, <1>5, <1>6 DEF Adds, NoFlood

\* A flood makes its sender's entry active and renews its offer, and goes on to
\* neighbours.
RenewsEntry(n, p, vs) ==
  \A j \in Nodes, q \in Peers :
    \/ status'[j][q] = status[j][q] /\ offers'[j][q] = offers[j][q]
    \/ j = n /\ q = p /\ status'[j][q] = "Active" /\ offers'[j][q] = vs
PassesOn(n, visited) ==
  \A x \in sent' : x.type = "FloodPacket" =>
    x.to \in neighbours[n] /\ x.visited = visited \cup {n}

LEMMA FloodAdds ==
  ASSUME TypeOK, NEW n \in Nodes, NEW p \in Peers, NEW vs \in SUBSET Videos,
         NEW ps, NEW visited \in SUBSET Nodes, HandleFloodPacket(n, p, vs, ps, visited)
  PROVE  Adds(n) /\ n \notin visited /\ RenewsEntry(n, p, vs) /\ PassesOn(n, visited)
<1> DEFINE pending == queue[n] \cap vs
           best == [w \in Videos |-> p]
           floods == {FloodPacket(q, GetVideos(n, q)', GetParents(n)', visited \cup {n}) :
                        q \in neighbours[n] \ {p}}
<1>1. PICK failed \in SUBSET Videos :
        /\ videoRoutes' = [videoRoutes EXCEPT ![n] = RoutesAfter(@, pending, best, failed)]
        /\ sent' = Requests(pending, best, failed) \cup floods
  BY DEF HandleFloodPacket
<1>2. \A x \in floods : /\ x.type = "FloodPacket" /\ x.to \in neighbours[n]
                        /\ x.visited = visited \cup {n}
  BY DEF FloodPacket
<1>11. /\ pending \subseteq vs /\ \A w \in Videos : best[w] = p
       /\ offers' = [offers EXCEPT ![n][p] = vs]
  BY DEF HandleFloodPacket
<1>12. offers'[n][p] = vs
  BY <1>11 DEF TypeOK
<1> HIDE DEF pending, best, floods
<1>3. /\ videoRoutes'[n] = RoutesAfter(videoRoutes[n], pending, best, failed)
      /\ \A j \in Nodes \ {n} : videoRoutes'[j] = videoRoutes[j]
  BY <1>1 DEF TypeOK
<1>4. UNCHANGED <<neighbours, interested, locked>> /\ n \notin visited
  BY DEF HandleFloodPacket
<1>5. \A x \in Requests(pending, best, failed) : x.type = "RequestVideo"
  BY RequestsAreRequests
<1>6. ASSUME NEW j \in Nodes, NEW w \in Videos
      PROVE  \/ videoRoutes'[j][w] = videoRoutes[j][w]
             \/ /\ j = n /\ RequestVideo(videoRoutes'[j][w], w) \in sent'
                /\ w \in offers'[j][videoRoutes'[j][w]]
  BY <1>1, <1>3, <1>11, <1>12, AskingRequests
<1>7. RenewsEntry(n, p, vs)
  <2>1. status' = [status EXCEPT ![n][p] = "Active"]
    BY DEF HandleFloodPacket
  <2> QED BY <1>11, <2>1 DEF TypeOK, RenewsEntry
<1>8. \A x \in sent' : x.type # "StopVideo"
  BY <1>1, <1>2, <1>5
<1>9. Adds(n)
  BY <1>4, <1>6, <1>8 DEF Adds
<1>10. PassesOn(n, visited)
  BY <1>1, <1>2, <1>5 DEF PassesOn
<1> QED BY <1>4, <1>7, <1>9, <1>10

LEMMA RestAdds ==
  ASSUME TypeOK, NEW n \in Nodes,
         \/ \E p \in Peers : HandleNewNeighbour(n, p) \/ ConnectAcked(n, p)
         \/ \E v \in Videos : HandleVideoPacket(n, v) \/ VideoSilent(n, v)
  PROVE  Adds(n) /\ NoFlood
<1>1. ASSUME NEW p \in Peers, HandleNewNeighbour(n, p) \/ ConnectAcked(n, p)
      PROVE  Adds(n) /\ NoFlood
  <2>1. neighbours' = [neighbours EXCEPT ![n] = @ \cup {p}]
    BY <1>1 DEF HandleNewNeighbour, ConnectAcked
  <2>3. \A j \in Nodes : neighbours[j] \subseteq neighbours'[j]
    BY <2>1 DEF TypeOK
  <2>2. UNCHANGED <<interested, videoRoutes, status, offers, locked>> /\ sent' = {}
    BY <1>1 DEF HandleNewNeighbour, ConnectAcked
  <2> QED BY <2>2, <2>3 DEF Adds, NoFlood
<1>2. ASSUME NEW v \in Videos, HandleVideoPacket(n, v) PROVE Adds(n) /\ NoFlood
  BY <1>2 DEF HandleVideoPacket, VideoPacket, Adds, NoFlood
<1>3. ASSUME NEW v \in Videos, VideoSilent(n, v) PROVE Adds(n) /\ NoFlood
  BY <1>3 DEF VideoSilent, RequestVideo, Adds, NoFlood
<1> QED BY <1>1, <1>2, <1>3

----
\* What keeps things smooth: nobody loses a neighbour or a subscriber, an entry
\* becomes active only where floods go on coming, a request is delivered only to
\* one who subscribes the sender or to a server without the video, and a new
\* route comes with a request.
LEMMA SmoothGrows ==
  ASSUME OInv, Smooth, UNCHANGED crashed, NobodyStuck', StartedOnce', UnknownAtFirst',
         known \subseteq known', subscribers[Video] \subseteq subscribers'[Video],
         \A j \in Nodes : neighbours[j] \subseteq neighbours'[j],
         \A j \in Nodes : interested[j][Video] \subseteq interested'[j][Video],
         \A j \in Nodes, p \in Peers :
           status'[j][p] = status[j][p] \/ (status'[j][p] = "Active" /\ Reaches(p, j)),
         \A m \in net' : \/ m \in net
                        \/ /\ m[2].type # "StopVideo"
                           /\ m[2].type = "FloodPacket" => FloodReaches(m[1], m[2]),
         \A m \in net : \/ m \in net' \/ m[2].type # "RequestVideo" \/ m[2].video # Video
                       \/ m[1] \in Subscribed(m[2].to)'
                       \/ (m[2].to = Server /\ Video \notin listed'),
         \A c \in Nodes \cup {Client} :
           Upstream(c)' = Upstream(c) \/ <<c, RequestVideo(Upstream(c)', Video)>> \in net'
  PROVE  Smooth'
<1> USE DEF OInv, OverlayTypeOK
<1>1. crashed = {} /\ crashed' = {} /\ NobodyStuck
  BY DEF Smooth
<1>2. \A j \in Nodes : FloodedWithout(j) \subseteq FloodedWithout(j)'
  BY <1>1, FloodsReachMore
<1>3. \A j \in Nodes : FloodedWithout(j) \subseteq Nodes
  BY DEF FloodedWithout, Hearing
<1>4. ASSUME NEW p, NEW j \in Nodes, Reaches(p, j) PROVE Reaches(p, j)'
  BY <1>2, <1>3, <1>4 DEF Reaches
<1>5. ASSUME NEW p, NEW x, FloodReaches(p, x) PROVE FloodReaches(p, x)'
  BY <1>2, <1>5 DEF FloodReaches
<1>6. NobodySeemsDead' /\ ActiveReaches'
  BY <1>4 DEF Smooth, NobodySeemsDead, ActiveReaches
<1>7. NoStops'
  BY DEF Smooth, NoStops
<1>8. FloodsReach'
  BY <1>5 DEF Smooth, FloodsReach
<1>9. Linked'
  <2> SUFFICES ASSUME NEW c \in Nodes \cup {Client}, Upstream(c)' # NoRoute
               PROVE  \/ c \in Subscribed(Upstream(c))'
                      \/ <<c, RequestVideo(Upstream(c), Video)>>' \in net'
    BY DEF Linked
  <2>1. CASE Upstream(c)' = Upstream(c)
    <3>1. PICK p \in Peers : p = Upstream(c) /\ p = Upstream(c)'
      <4>1. Home \in Peers /\ videoRoutes \in [Nodes -> [Videos -> Peers \cup {NoRoute}]]
        BY OverlayAssumption, NodeAssumption DEF TypeOK
      <4>2. Upstream(c) \in Peers \cup {NoRoute}
        BY <4>1, OverlayAssumption DEF Upstream
      <4> QED BY <2>1, <4>2
    <3>2. Subscribed(p) \subseteq Subscribed(p)'
      BY OverlayAssumption DEF Subscribed
    <3>3. c \in Subscribed(p) \/ <<c, RequestVideo(p, Video)>> \in net
      BY <2>1, <3>1 DEF Smooth, Linked
    <3>4. CASE <<c, RequestVideo(p, Video)>> \in net
      <4> DEFINE m == <<c, RequestVideo(p, Video)>>
      <4>1. m[1] = c /\ m[2].type = "RequestVideo" /\ m[2].video = Video /\ m[2].to = p
        BY DEF RequestVideo
      <4> HIDE DEF m
      <4>2. ~(p = Server /\ Video \notin listed')
        BY <3>1, OverlayAssumption, NodeAssumption DEF Upstream, UnknownAtFirst
      <4>3. m \in net' \/ c \in Subscribed(p)'
        BY <3>4, <4>1, <4>2 DEF m
      <4> QED BY <3>1, <4>3 DEF m
    <3> QED BY <3>1, <3>2, <3>3, <3>4
  <2>2. CASE <<c, RequestVideo(Upstream(c)', Video)>> \in net'
    BY <2>2
  <2> QED BY <2>1, <2>2
<1> QED BY <1>1, <1>6, <1>7, <1>8, <1>9 DEF Smooth

\* A step of a node that adds, in the overlay.
LEMMA AddingKeepsSmooth ==
  ASSUME OInv, Smooth, NEW k \in Nodes, Adds(k), UNCHANGED <<serverVars, crashed, playing>>,
         locked'[k] = locked[k],
         \A j \in Nodes : Video \in offers'[j][Server] => Video \in offers[j][Server] \cup listed,
         Posted(k) \subseteq net', net' \subseteq net \cup Posted(k),
         \A m \in net : \/ m \in net' \/ m[2].type # "RequestVideo"
                       \/ /\ m[2].to = k
                          /\ m[1] \in interested'[k][m[2].video],
         \A j \in Nodes, p \in Peers :
           status'[j][p] = status[j][p] \/ (status'[j][p] = "Active" /\ Reaches(p, j)),
         \A x \in sent' : x.type = "FloodPacket" => FloodReaches(k, x)
  PROVE  Smooth'
<1>1. UNCHANGED <<known, subscribers, listed, tasks>> /\ StartedOnce'
  BY DEF serverVars, Smooth, StartedOnce
<1>2. Video \in Videos /\ k # Server /\ Client \notin Nodes
  BY OverlayAssumption, NodeAssumption
<1>3. ASSUME NEW m \in net', m \notin net
      PROVE  /\ m[2].type # "StopVideo"
             /\ m[2].type = "FloodPacket" => FloodReaches(m[1], m[2])
  <2>1. m \in Posted(k)
    BY <1>3
  <2>2. m[1] = k /\ m[2] \in sent'
    BY <2>1 DEF Posted
  <2> QED BY <2>2 DEF Adds
<1>4. ASSUME NEW c \in Nodes \cup {Client}
      PROVE  Upstream(c)' = Upstream(c) \/ <<c, RequestVideo(Upstream(c)', Video)>> \in net'
  <2>1. CASE c = Client
    BY <2>1 DEF Upstream
  <2>2. CASE c \in Nodes /\ videoRoutes'[c][Video] = videoRoutes[c][Video]
    BY <1>2, <2>2 DEF Upstream
  <2>3. CASE c = k /\ RequestVideo(videoRoutes'[c][Video], Video) \in sent'
    <3>1. Matters(<<k, RequestVideo(videoRoutes'[k][Video], Video)>>)
      BY DEF Matters, RequestVideo, Smooth
    <3>2. <<k, RequestVideo(videoRoutes'[k][Video], Video)>> \in Posted(k)
      BY <2>3, <3>1 DEF Posted
    <3> QED BY <1>2, <2>3, <3>2 DEF Upstream
  <2> QED BY <1>2, <2>1, <2>2, <2>3 DEF Adds
<1>5. ASSUME NEW m \in net, m \notin net', m[2].type = "RequestVideo", m[2].video = Video
      PROVE  m[1] \in Subscribed(m[2].to)'
  BY <1>2, <1>5 DEF Subscribed
<1>6. /\ \A j \in Nodes : neighbours[j] \subseteq neighbours'[j]
      /\ \A j \in Nodes : interested[j][Video] \subseteq interested'[j][Video]
  BY <1>2 DEF Adds
<1>7. NobodyStuck'
  BY DEF Adds, Smooth, NobodyStuck
<1>8. UnknownAtFirst'
  <2> SUFFICES ASSUME Video \notin listed'
               PROVE  /\ subscribers'[Video] = {}
                      /\ \A j \in Nodes : /\ videoRoutes'[j][Video] # Server
                                          /\ Video \notin offers'[j][Server]
                      /\ \A m \in net' : m[1] = Server /\ m[2].type = "FloodPacket"
                                            => Video \notin m[2].videos
    BY DEF UnknownAtFirst
  <2>1. /\ subscribers[Video] = {}
        /\ \A j \in Nodes : videoRoutes[j][Video] # Server /\ Video \notin offers[j][Server]
        /\ \A m \in net : m[1] = Server /\ m[2].type = "FloodPacket" => Video \notin m[2].videos
    BY <1>1 DEF Smooth, UnknownAtFirst
  <2>2. \A j \in Nodes : Video \notin offers'[j][Server]
    BY <1>1, <2>1
  <2>3. \A j \in Nodes : videoRoutes'[j][Video] # Server
    BY <1>2, <2>1, <2>2 DEF Adds
  <2>4. \A m \in net' : m \in net \/ m[1] # Server
    BY <1>2 DEF Posted
  <2> QED BY <1>1, <2>1, <2>2, <2>3, <2>4
<1> QED BY <1>1, <1>3, <1>4, <1>5, <1>6, <1>7, <1>8, SmoothGrows

\* A packet that a node handles is none that stops a video; a flood has come on
\* a way that goes on to the nodes it has not visited.
LEMMA HandlingAdds ==
  ASSUME OInv, Smooth, NEW m \in net, NEW k \in Nodes, m[2].to = k, Handles(k, m)
  PROVE  /\ Adds(k)
         /\ m[2].type = "RequestVideo" => m[1] \in interested'[k][m[2].video]
         /\ \A j \in Nodes, p \in Peers :
              status'[j][p] = status[j][p] \/ (status'[j][p] = "Active" /\ Reaches(p, j))
         /\ \A x \in sent' : x.type = "FloodPacket" => FloodReaches(k, x)
         /\ \A j \in Nodes : Video \in offers'[j][Server] => Video \in offers[j][Server] \cup listed
<1> DEFINE a == m[1]
           x == m[2]
<1> USE DEF OInv, OverlayTypeOK
<1>1. a \in Addrs /\ Mail(a, x)
  BY DEF NetOK
<1>2. CASE x.type = "RequestVideo" /\ HandleRequestVideo(k, a, x.video)
  <2>1. x.video \in Videos
    BY <1>1, <1>2 DEF Mail
  <2>2. Adds(k) /\ NoFlood /\ a \in interested'[k][x.video]
    BY <1>1, <1>2, <2>1, RequestAdds
  <2> QED BY <2>2 DEF NoFlood
<1>3. CASE x.type = "StopVideo"
  BY <1>3 DEF Smooth, NoStops
<1>4. CASE x.type = "NewNeighbour" /\ HandleNewNeighbour(k, a)
  <2>1. a \in Peers
    BY <1>1, <1>4 DEF NetOK, Addrs
  <2>2. Adds(k) /\ NoFlood
    BY <1>4, <2>1, RestAdds
  <2> QED BY <1>4, <2>2 DEF NoFlood
<1>5. CASE x.type = "FloodPacket" /\ HandleFloodPacket(k, a, x.videos, x.parents, x.visited)
  <2>1. a \in Peers /\ x.videos \in SUBSET Videos /\ x.visited \in SUBSET Nodes
    BY <1>1, <1>5 DEF NetOK, Addrs, Mail
  <2>2. /\ Adds(k) /\ k \notin x.visited
        /\ RenewsEntry(k, a, x.videos) /\ PassesOn(k, x.visited)
    <3>1. \A ps : \A vs \in SUBSET Videos, visited \in SUBSET Nodes :
            HandleFloodPacket(k, a, vs, ps, visited)
              => Adds(k) /\ k \notin visited /\ RenewsEntry(k, a, vs) /\ PassesOn(k, visited)
      BY <2>1, FloodAdds
    <3> QED BY <1>5, <2>1, <3>1
  <2>3. FloodReaches(a, x) /\ crashed = {} /\ NobodyStuck
    BY <1>5 DEF Smooth, FloodsReach
  <2>4. Reaches(a, k)
    BY <2>2, <2>3 DEF FloodReaches, Reaches
  <2>5. ASSUME NEW y \in sent', y.type = "FloodPacket" PROVE FloodReaches(k, y)
    <3>1. y.to \in neighbours[k] /\ y.visited = x.visited \cup {k}
      BY <2>2, <2>5 DEF PassesOn
    <3>2. ASSUME NEW j \in Nodes \ y.visited PROVE k \in FloodedWithout(j)
      <4>1. j # k /\ j \notin x.visited
        BY <3>1, <3>2
      <4>2. (a = Server /\ k \in known) \/ (a \in FloodedWithout(j) /\ k \in neighbours[a])
        BY <2>3, <4>1 DEF FloodReaches
      <4> QED BY <2>3, <4>1, <4>2, FloodsGoOn
    <3>3. k # Server
      BY OverlayAssumption
    <3> QED BY <3>1, <3>2, <3>3 DEF FloodReaches
  <2>6. ASSUME NEW j \in Nodes, Video \in offers'[j][Server]
        PROVE  Video \in offers[j][Server] \cup listed
    <3>1. offers'[j][Server] = offers[j][Server] \/ (a = Server /\ offers'[j][Server] = x.videos)
      <4>1. Server \in Peers
        BY OverlayAssumption
      <4> QED BY <2>2, <4>1 DEF RenewsEntry
    <3>2. a = Server /\ Video \in x.videos => Video \in listed
      BY <1>5 DEF Smooth, UnknownAtFirst
    <3> QED BY <2>6, <3>1, <3>2
  <2>7. \A j \in Nodes, p \in Peers :
          status'[j][p] = status[j][p] \/ (status'[j][p] = "Active" /\ Reaches(p, j))
    BY <2>2, <2>4 DEF RenewsEntry
  <2> QED BY <1>5, <2>2, <2>5, <2>6, <2>7
<1>6. CASE x.type = "ClientPing" /\ HandleClientPing(k, a, x.videos)
  <2>1. a \in Clients /\ x.videos \in SUBSET Videos
    BY <1>1, <1>6 DEF Mail
  <2>2. Adds(k) /\ NoFlood
    BY <1>6, <2>1, PingAdds
  <2> QED BY <1>6, <2>2 DEF NoFlood
<1> QED BY <1>2, <1>3, <1>4, <1>5, <1>6 DEF Handles

\* A step that changes neither the nodes nor the server.
LEMMA NodesSame ==
  ASSUME Smooth, UNCHANGED <<vars, serverVars>>,
         \A m \in net' : m \in net \/ m[1] # Server
  PROVE  NobodyStuck' /\ StartedOnce' /\ UnknownAtFirst'
<1>1. UNCHANGED <<locked, tasks, listed, subscribers, videoRoutes, offers>>
  BY DEF vars, serverVars
<1>2. NobodyStuck' /\ StartedOnce'
  BY <1>1 DEF Smooth, NobodyStuck, StartedOnce
<1>3. UnknownAtFirst'
  BY <1>1 DEF Smooth, UnknownAtFirst
<1> QED BY <1>2, <1>3

\* A ping that would stop the packet task is a fault that disturbs.
LEMMA DeliverKeepsSmooth ==
  ASSUME OInv, Smooth, NEW m \in net, DeliverToNode(m),
         ~WasHere(m) => locked'[m[2].to] = locked[m[2].to]
  PROVE  Smooth'
<1>1. CASE WasHere(m)
  <2>1. net' = net \ {m} /\ UNCHANGED <<vars, serverVars, crashed, playing>>
    BY <1>1 DEF DeliverToNode
  <2>2. m[2].type # "RequestVideo"
    BY <1>1 DEF WasHere
  <2>3. \A c : Upstream(c)' = Upstream(c)
    BY <2>1 DEF vars, Upstream
  <2>4. net' \subseteq net
    BY <2>1
  <2>5. NobodyStuck' /\ StartedOnce' /\ UnknownAtFirst'
    BY <2>1, <2>4, NodesSame
  <2> QED BY <2>1, <2>2, <2>3, <2>5, SmoothGrows DEF vars, serverVars
<1>2. CASE ~WasHere(m)
  <2> DEFINE k == m[2].to
  <2>1. /\ k \in Nodes /\ Handles(k, m) /\ locked'[k] = locked[k]
        /\ net' = (net \ {m}) \cup Posted(k)
        /\ UNCHANGED <<serverVars, crashed, playing>>
    BY <1>2 DEF DeliverToNode, Hearing, Sending
  <2> HIDE DEF k
  <2> k = m[2].to
    BY DEF k
  <2> QED BY <2>1, HandlingAdds, AddingKeepsSmooth
<1> QED BY <1>1, <1>2

LEMMA RepeatKeepsSmooth ==
  ASSUME OInv, Smooth, NEW m \in net, Repeat(m)
  PROVE  Smooth'
<1> DEFINE k == m[2].to
<1>1. /\ k \in Nodes /\ Handles(k, m) /\ locked'[k] = locked[k]
      /\ net' = net \cup Posted(k)
      /\ UNCHANGED <<serverVars, crashed, playing>>
  BY DEF Repeat, Hearing
<1> HIDE DEF k
<1> k = m[2].to
  BY DEF k
<1> QED BY <1>1, HandlingAdds, AddingKeepsSmooth

\* The tasks of a node: none of its active peers is silent.
LEMMA NobodyIsSilent ==
  ASSUME OInv, Smooth, NEW k \in Nodes, NEW p \in Peers
  PROVE  ~NoticesSilence(k, p)
<1> SUFFICES ASSUME NoticesSilence(k, p) PROVE FALSE
  OBVIOUS
<1>1. status[k][p] = "Active"
  BY DEF NoticesSilence, ParentSilent, BecomesUnresponsive, UnresponsiveHangs
<1>2. Reaches(p, k) /\ crashed = {}
  BY <1>1 DEF Smooth, ActiveReaches
<1>3. Floods(p, k)
  BY <1>2, OverlayAssumption DEF Reaches, Floods, Alive
<1>4. k \in Hearing
  BY <1>2, NodeAssumption DEF Smooth, NobodyStuck, Hearing, Alive, Receiving
<1> QED BY <1>3, <1>4 DEF NoticesSilence

LEMMA TasksKeepSmooth ==
  ASSUME OInv, Smooth, NEW k \in Nodes, locked'[k] = locked[k],
         (\E p \in Peers : Connected(k, p)) \/ VideoArrives(k) \/ AsksAgain(k)
  PROVE  Smooth'
<1>1. net' = net \cup Posted(k) /\ UNCHANGED <<serverVars, crashed, playing>>
  BY DEF Connected, VideoArrives, AsksAgain, Sending
<1>2. \/ \E p \in Peers : ConnectAcked(k, p)
      \/ \E v \in Videos : HandleVideoPacket(k, v) \/ VideoSilent(k, v)
  BY OverlayAssumption DEF Connected, VideoArrives, AsksAgain
<1>3. Adds(k) /\ NoFlood
  BY <1>2, RestAdds DEF OInv, OverlayTypeOK
<1> QED BY <1>1, <1>3, AddingKeepsSmooth DEF NoFlood

\* The server subscribes those whose request it takes, if it has the video.
LEMMA ServerKeepsSmooth ==
  ASSUME OInv, Smooth, (\E m \in net : DeliverToServer(m)) \/ ServerFloods
  PROVE  Smooth'
<1> USE DEF OInv, OverlayTypeOK
<1>0. UNCHANGED <<vars, crashed, playing>>
  BY DEF DeliverToServer, ServerFloods
<1>1. (\A c : Upstream(c)' = Upstream(c)) /\ NobodyStuck'
  BY <1>0 DEF vars, Upstream, Smooth, NobodyStuck
<1>2. subscribers \in [Videos -> SUBSET Nodes] /\ Video \in Videos
  BY OverlayAssumption DEF S!ServerTypeOK
<1>3. ASSUME NEW m \in net, DeliverToServer(m) PROVE Smooth'
  <2>1. m[2].type # "StopVideo" /\ m[2].to = Server /\ net' = net \ {m}
    BY <1>3 DEF DeliverToServer, Smooth, NoStops
  <2>2. CASE m[2].type = "RequestVideo" /\ S!HandleRequestVideo(m[1], m[2].video)
    <3>1. UNCHANGED <<tasks, listed, known>> /\ StartedOnce'
      BY <2>2 DEF S!HandleRequestVideo, Smooth, StartedOnce
    <3>2. /\ subscribers[Video] \subseteq subscribers'[Video]
          /\ m[2].video = Video /\ Video \in listed => m[1] \in subscribers'[Video]
          /\ Video \notin listed => subscribers'[Video] = subscribers[Video]
      BY <1>2, <2>2 DEF S!HandleRequestVideo
    <3>3. m[2].video = Video => m[1] \in Subscribed(m[2].to)' \/ Video \notin listed'
      BY <2>1, <3>1, <3>2 DEF Subscribed
    <3>4. UnknownAtFirst'
      BY <1>0, <2>1, <3>1, <3>2 DEF vars, Smooth, UnknownAtFirst
    <3> QED BY <1>0, <1>1, <2>1, <3>1, <3>2, <3>3, <3>4, SmoothGrows DEF vars
  <2>3. CASE m[2].type = "NewNeighbour" /\ S!HandleNewNeighbour(m[1])
    <3>1. UNCHANGED <<tasks, listed, subscribers>> /\ known \subseteq known' /\ StartedOnce'
      BY <2>3 DEF S!HandleNewNeighbour, Smooth, StartedOnce
    <3>2. UnknownAtFirst'
      BY <1>0, <2>1, <3>1 DEF vars, Smooth, UnknownAtFirst
    <3> QED BY <1>0, <1>1, <2>1, <2>3, <3>1, <3>2, SmoothGrows DEF vars
  <2>4. CASE m[2].type = "FloodPacket" /\ UNCHANGED serverVars
    <3>1. UNCHANGED <<tasks, listed, subscribers, known>> /\ StartedOnce' /\ UnknownAtFirst'
      BY <1>0, <2>1, <2>4, NodesSame DEF serverVars
    <3> QED BY <1>0, <1>1, <2>1, <2>4, <3>1, SmoothGrows DEF vars
  <2> QED BY <1>3, <2>1, <2>2, <2>3, <2>4 DEF DeliverToServer
<1>4. CASE ServerFloods
  <2>1. UNCHANGED <<tasks, listed, subscribers, known>> /\ net \subseteq net' /\ StartedOnce'
    BY <1>4 DEF ServerFloods, serverVars, Smooth, StartedOnce
  <2>2. ASSUME NEW m \in net', m \notin net
        PROVE  /\ m[2].type # "StopVideo" /\ FloodReaches(m[1], m[2])
               /\ m[2].videos = listed
    <3>1. PICK k \in known : m = <<Server, FloodPacket(k, listed, {}, {})>>
      BY <1>4, <2>2 DEF ServerFloods
    <3> QED BY <3>1 DEF FloodPacket, FloodReaches
  <2>3. UnknownAtFirst'
    BY <1>0, <2>1, <2>2 DEF vars, Smooth, UnknownAtFirst
  <2> QED BY <1>0, <1>1, <2>1, <2>2, <2>3, SmoothGrows DEF vars
<1> QED BY <1>3, <1>4

\* The video's first start, and its entry, which nobody is subscribed to yet.
\* A second start is a fault that disturbs.
LEMMA StartsKeepSmooth ==
  ASSUME OInv, Smooth, UNCHANGED <<vars, net, crashed, playing>>,
         \/ \E f \in Files : S!WatchFile(f) /\ \A t \in tasks : t.video # VideoOf[f]
         \/ \E t \in tasks : S!InsertVideo(t)
  PROVE  Smooth'
<1> USE DEF OInv, OverlayTypeOK
<1>1. (\A c : Upstream(c)' = Upstream(c)) /\ NobodyStuck'
  BY DEF vars, Upstream, Smooth, NobodyStuck
<1>2. /\ subscribers \in [Videos -> SUBSET Nodes] /\ Video \in Videos
      /\ StartedOnce /\ UnknownAtFirst
  BY OverlayAssumption DEF S!ServerTypeOK, Smooth
<1>3. /\ StartedOnce' /\ UnknownAtFirst' /\ UNCHANGED known
      /\ subscribers[Video] \subseteq subscribers'[Video]
  <2>1. ASSUME NEW f \in Files, S!WatchFile(f), \A t \in tasks : t.video # VideoOf[f]
        PROVE  /\ StartedOnce' /\ UnknownAtFirst' /\ UNCHANGED known
               /\ subscribers[Video] \subseteq subscribers'[Video]
    <3>1. /\ tasks' = tasks \cup {S!Task(starts', VideoOf[f], "starting")}
          /\ UNCHANGED <<listed, subscribers, known>> /\ VideoOf[f] \notin listed
      BY <2>1 DEF S!WatchFile
    <3>2. StartedOnce'
      BY <1>2, <2>1, <3>1 DEF StartedOnce, S!Task
    <3>3. UnknownAtFirst'
      BY <1>2, <3>1 DEF vars, UnknownAtFirst
    <3> QED BY <3>1, <3>2, <3>3
  <2>2. ASSUME NEW t \in tasks, S!InsertVideo(t)
        PROVE  /\ StartedOnce' /\ UnknownAtFirst' /\ UNCHANGED known
               /\ subscribers[Video] \subseteq subscribers'[Video]
    <3>1. /\ tasks' = (tasks \ {t}) \cup {S!Task(t.nr, t.video, "streaming")}
          /\ listed' = listed \cup {t.video} /\ t.stage = "starting"
          /\ subscribers' = [subscribers EXCEPT ![t.video] = {}]
          /\ UNCHANGED known
      BY <2>2 DEF S!InsertVideo
    <3>2. CASE t.video = Video
      <4>1. Video \notin listed /\ subscribers[Video] = {}
        BY <1>2, <3>1, <3>2 DEF StartedOnce, UnknownAtFirst
      <4>2. StartedOnce'
        BY <1>2, <3>1, <3>2 DEF StartedOnce, S!Task
      <4> QED BY <1>2, <3>1, <3>2, <4>1, <4>2 DEF UnknownAtFirst
    <3>3. CASE t.video # Video
      <4>1. (Video \in listed' <=> Video \in listed) /\ subscribers'[Video] = subscribers[Video]
        BY <1>2, <3>1, <3>3
      <4>2. StartedOnce'
        BY <1>2, <3>1, <3>3, <4>1 DEF StartedOnce, S!Task
      <4>3. UnknownAtFirst'
        BY <1>2, <4>1 DEF vars, UnknownAtFirst
      <4> QED BY <3>1, <4>1, <4>2, <4>3
    <3> QED BY <3>2, <3>3
  <2> QED BY <2>1, <2>2
<1> QED BY <1>1, <1>3, SmoothGrows DEF vars

\* The client's steps, and a ping of the client that is lost.
LEMMA ClientKeepsSmooth ==
  ASSUME OInv, Smooth,
         \/ Plays \/ MakesEntry \/ Pings
         \/ /\ UNCHANGED <<vars, serverVars, crashed, playing>>
            /\ \E m \in net : m[2].type # "RequestVideo" /\ net' = net \ {m}
  PROVE  Smooth'
<1>1. /\ UNCHANGED <<vars, serverVars, crashed>>
      /\ Upstream(Client)' = Upstream(Client)
           \/ <<Client, RequestVideo(Upstream(Client)', Video)>> \in net'
      /\ \A m \in net : m \in net' \/ m[2].type # "RequestVideo"
      /\ \A m \in net' :
           m \in net \/ (m[1] = Client /\ m[2].type \in {"RequestVideo", "ClientPing"})
  <2>1. CASE Plays
    BY <2>1 DEF Plays, Upstream, RequestVideo
  <2>2. CASE MakesEntry
    BY <2>2 DEF MakesEntry, Upstream
  <2>3. CASE Pings
    BY <2>3 DEF Pings, Upstream, ClientPing
  <2>4. CASE /\ UNCHANGED <<vars, serverVars, crashed, playing>>
             /\ \E m \in net : m[2].type # "RequestVideo" /\ net' = net \ {m}
    BY <2>4 DEF Upstream
  <2> QED BY <2>1, <2>2, <2>3, <2>4
<1>2. Client # Server
  BY OverlayAssumption, NodeAssumption
<1>3. NobodyStuck' /\ StartedOnce' /\ UnknownAtFirst'
  BY <1>1, <1>2, NodesSame
<1>4. \A c \in Nodes \cup {Client} :
        Upstream(c)' = Upstream(c) \/ <<c, RequestVideo(Upstream(c)', Video)>> \in net'
  BY <1>1 DEF Upstream, vars
<1> QED BY <1>1, <1>3, <1>4, SmoothGrows DEF vars, serverVars

\* Every peer takes packets, so that only a ping that comes too late is lost.
LEMMA LostKeepsSmooth ==
  ASSUME OInv, Smooth, NEW m \in net, Lost(m), ~Fault("lost")
  PROVE  Smooth'
<1>1. Mail(m[1], m[2])
  BY DEF OInv, NetOK
<1>2. m[2].to \in Takers
  <2>1. m[2].to \in Nodes \cup {Server}
    BY <1>1, OverlayAssumption DEF Mail
  <2> QED BY <2>1, OverlayAssumption, NodeAssumption
          DEF Smooth, NobodyStuck, Takers, Hearing, Alive, Receiving
<1>3. m[2].type = "ClientPing" /\ m[1] \notin Nodes
  BY <1>1, <1>2, NodeAssumption DEF Lost, IsLate, Mail
<1>4. UNCHANGED <<vars, serverVars, crashed, playing>> /\ net' = net \ {m}
  BY <1>3 DEF Lost
<1> QED BY <1>3, <1>4, ClientKeepsSmooth

LEMMA SmoothStep == OInv /\ SInv /\ [OverlayNext]_overlayVars => SInv'
<1> SUFFICES ASSUME OInv, SInv, [OverlayNext]_overlayVars PROVE SInv'
  OBVIOUS
<1>1. ASSUME UNCHANGED faults \/ Fault("unsent") \/ Fault("repeated"), Smooth => Smooth'
      PROVE  SInv'
  <2>1. CASE UNCHANGED faults
    BY <1>1, <2>1 DEF SInv, Undisturbed
  <2>2. ASSUME NEW kind \in FaultKinds, Fault(kind) PROVE SInv'
    BY <1>1, <2>2, FaultsDisturb DEF SInv
  <2> QED BY <1>1, <2>1, <2>2 DEF FaultKinds
<1>2. ASSUME NEW kind \in FaultKinds \ {"unsent", "repeated"}, Fault(kind) PROVE SInv'
  BY <1>2, FaultsDisturb DEF SInv
<1>3. CASE UNCHANGED overlayVars
  <2>1. UNCHANGED <<vars, serverVars, net, crashed, playing, faults>>
    BY <1>3 DEF overlayVars, netVars
  <2>2. Smooth => Smooth'
    <3> SUFFICES ASSUME Smooth PROVE Smooth'
      OBVIOUS
    <3>1. \A c : Upstream(c)' = Upstream(c)
      BY <2>1 DEF vars, Upstream
    <3>2. NobodyStuck' /\ StartedOnce' /\ UnknownAtFirst'
      BY <2>1, NodesSame
    <3> QED BY <2>1, <3>1, <3>2, SmoothGrows DEF vars, serverVars
  <2> QED BY <1>1, <2>1, <2>2
<1>4. ASSUME NEW k, NEW kept, Sending(k, kept), locked'[k] = locked[k] /\ Smooth => Smooth'
      PROVE  SInv'
  <2>1. CASE Fault("late")
    BY <1>2, <2>1 DEF FaultKinds
  <2>2. CASE locked'[k] = locked[k] /\ (UNCHANGED faults \/ Fault("unsent"))
    BY <1>1, <1>4, <2>2
  <2> QED BY <1>4, <2>1, <2>2 DEF Sending
<1>5. ASSUME NEW m \in net, DeliverToNode(m) PROVE SInv'
  <2>1. CASE WasHere(m)
    <3>1. UNCHANGED faults
      BY <1>5, <2>1 DEF DeliverToNode
    <3> QED BY <1>1, <1>5, <2>1, <3>1, DeliverKeepsSmooth
  <2>2. CASE ~WasHere(m)
    <3>1. Sending(m[2].to, net \ {m})
      BY <1>5, <2>2 DEF DeliverToNode
    <3> QED BY <1>4, <1>5, <3>1, DeliverKeepsSmooth
  <2> QED BY <2>1, <2>2
<1>6. ASSUME NEW m \in net, Repeat(m) PROVE SInv'
  <2>1. Fault("repeated")
    BY <1>6 DEF Repeat
  <2> QED BY <1>1, <1>6, <2>1, RepeatKeepsSmooth
<1>7. ASSUME NEW m \in net, Lost(m) PROVE SInv'
  <2>1. CASE Fault("lost")
    BY <1>2, <2>1 DEF FaultKinds
  <2>2. CASE ~Fault("lost")
    <3>1. UNCHANGED faults
      BY <1>7, <2>2 DEF Lost
    <3> QED BY <1>1, <1>7, <2>2, <3>1, LostKeepsSmooth
  <2> QED BY <2>1, <2>2
<1>8. ASSUME NEW k \in Nodes, NEW p \in Peers, NoticesSilence(k, p) \/ AckUnheard(k, p)
      PROVE  SInv'
  <2>1. Sending(k, net)
    BY <1>8 DEF NoticesSilence, AckUnheard
  <2>2. ~Smooth
    BY <1>8, NobodyIsSilent DEF AckUnheard, Smooth, NobodyStuck, Hearing, Receiving
  <2> QED BY <1>4, <2>1, <2>2
<1>9. ASSUME NEW k \in Nodes,
             (\E p \in Peers : Connected(k, p)) \/ VideoArrives(k) \/ AsksAgain(k)
      PROVE  SInv'
  <2>1. Sending(k, net)
    BY <1>9 DEF Connected, VideoArrives, AsksAgain
  <2> QED BY <1>4, <1>9, <2>1, TasksKeepSmooth
<1>10. CASE \/ \E k \in Nodes, p \in Peers : FalseAlarm(k, p)
            \/ \E k \in Nodes : NodeRestarts(k)
            \/ ServerRestarts
            \/ \E p \in Peers : Dies(p)
  <2>1. Fault("alarm") \/ Fault("restart") \/ Fault("outage") \/ Fault("death")
    BY <1>10 DEF FalseAlarm, NodeRestarts, ServerRestarts, Dies
  <2> QED BY <1>2, <2>1 DEF FaultKinds
<1>11. CASE (\E m \in net : DeliverToServer(m)) \/ ServerFloods
  <2>1. UNCHANGED faults
    BY <1>11 DEF DeliverToServer, ServerFloods
  <2> QED BY <1>1, <1>11, <2>1, ServerKeepsSmooth
<1>12. CASE ServerStep
  <2>1. CASE Fault("twice")
    BY <1>2, <2>1 DEF FaultKinds
  <2>2. CASE ~Fault("twice")
    <3>1. UNCHANGED <<vars, net, crashed, playing, faults>>
      BY <1>12, <2>2 DEF ServerStep, Watches
    <3>2. \/ \E f \in Files : S!WatchFile(f) /\ \A t \in tasks : t.video # VideoOf[f]
          \/ \E t \in tasks : S!InsertVideo(t)
      BY <1>12, <2>2 DEF ServerStep, Watches
    <3> QED BY <1>1, <3>1, <3>2, StartsKeepSmooth
  <2> QED BY <2>1, <2>2
<1>13. CASE Plays \/ MakesEntry \/ Pings
  <2>1. UNCHANGED faults
    BY <1>13 DEF Plays, MakesEntry, Pings
  <2> QED BY <1>1, <1>13, <2>1, ClientKeepsSmooth
<1>14. CASE NodeStep
  BY <1>5, <1>6, <1>7, <1>8, <1>9, <1>10, <1>14 DEF NodeStep
<1> QED BY <1>3, <1>10, <1>11, <1>12, <1>13, <1>14 DEF OverlayNext

LEMMA InitSInv == OverlayInit => SInv
<1> SUFFICES ASSUME OverlayInit PROVE SInv
  OBVIOUS
<1>1. \A k \in Nodes : videoRoutes[k][Video] = NoRoute /\ k # Client
  BY OverlayAssumption, NodeAssumption DEF OverlayInit, Init
<1>2. \A k \in Nodes \cup {Client} : Upstream(k) = NoRoute
  BY <1>1 DEF OverlayInit, Upstream
<1>3. NobodySeemsDead /\ ActiveReaches /\ NobodyStuck
  BY DEF OverlayInit, Init, NobodySeemsDead, ActiveReaches, NobodyStuck
<1>4. StartedOnce /\ UnknownAtFirst
  <2>1. \A k \in Nodes : videoRoutes[k][Video] # Server /\ offers[k][Server] = {}
    BY <1>1, OverlayAssumption, NodeAssumption DEF OverlayInit, Init
  <2> QED BY <2>1, OverlayAssumption DEF OverlayInit, S!ServerInit, StartedOnce, UnknownAtFirst
<1> QED BY <1>2, <1>3, <1>4 DEF OverlayInit, SInv, Smooth, NoStops, FloodsReach, Linked

\* RoutesAreSubscribed, for any nodes, links, clients and files: in an overlay
\* where nothing is given up, nobody dies, restarts or is taken for dead, the
\* server starts the video once and no ping comes too late, whoever has a route
\* is subscribed at its end, or its request is under way.
THEOREM OverlayRoutesAreSubscribed == OverlaySpec => []RoutesAreSubscribed
<1>1. SInv => RoutesAreSubscribed
  BY DEF SInv, Smooth, Linked, RoutesAreSubscribed
<1> QED BY <1>1, InitOInv, OverlayStepKeeps, InitSInv, SmoothStep, PTL DEF OverlaySpec

====

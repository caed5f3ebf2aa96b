---- MODULE Overlay ----
(* The nodes of Node and the server of Server joined by a network, with one  *)
(* client: what a node hands to its socket is what its peers receive. A peer *)
(* may die for good, restart, or be taken for dead while it lives; reliable  *)
(* packets arrive in any order, and may arrive twice or be given up; the     *)
(* server's folder watch may start the video twice. Each of these is a       *)
(* fault, and the faults of a behaviour are those of a sequence in Faults.   *)
(* What follows from a peer's death, or from a packet task that has stopped, *)
(* is none. One flood and one ping are under way at a time. Video packets    *)
(* pass all relays in one step: their way is the subject of Stream.          *)
EXTENDS Node, SequencesExt

CONSTANTS Server,    \* the server's address
          Known,     \* what the bootstrapper tells the server
          Files, VideoOf, MaxStarts,
          Video,     \* the video that is played
          Home,      \* the node that the client is attached to
          Client,
          Faults     \* bound: the kinds of fault that happen, in this order

FaultKinds == {"lost", "repeated", "unsent", "alarm", "restart", "outage",
               "twice", "late", "death"}

ASSUME OverlayAssumption ==
  /\ Server \in Peers \ Nodes /\ Peers = Nodes \cup {Server}
  /\ \A k \in Nodes : k \notin Neighbours[k]
  /\ ParentLists = SUBSET Peers
  /\ Known \subseteq Nodes /\ VideoOf \in [Files -> Videos] /\ MaxStarts \in Nat \ {0}
  /\ Video \in Videos /\ Home \in Nodes /\ Client \in Clients
  /\ Faults \subseteq Seq(FaultKinds)

VARIABLES starts, tasks, listed, number, \* the server, as in Server
          subscribers, \* its `interested`
          known,       \* its `neighbours`
          net,         \* packets on the way, each with its sender
          crashed,     \* peers that died for good
          playing,     \* the client has not asked for the video, has asked, or
                       \* has the entry that its pings list
          faults       \* history

serverVars == <<starts, tasks, listed, number, subscribers, known>>
netVars == <<net, crashed, playing, faults>>
overlayVars == <<vars, serverVars, netVars>>

S == INSTANCE Server WITH interested <- subscribers, neighbours <- known, Neighbours <- Known

\* The processes start: nobody knows of a video, and the server has none yet.
OverlayInit ==
  /\ Init
  /\ S!ServerInit
  /\ net = {} /\ crashed = {} /\ playing = "no" /\ faults = <<>>

ClientPing(k, vs) == [type |-> "ClientPing", to |-> k, videos |-> vs]

Alive == Peers \ crashed

\* A node whose packet task has stopped takes no packet, and so acknowledges
\* none and hears of no Ack; its other tasks go on.
Hearing == {k \in Nodes \cap Alive : Receiving(k)}
Takers == Hearing \cup ({Server} \cap Alive)

Fault(kind) ==
  /\ playing # "no" \/ kind = "twice"
  /\ \E plan \in Faults : IsPrefix(Append(faults, kind), plan)
  /\ faults' = Append(faults, kind)

\* What a step of node k puts on the network: packets to clients, video packets
\* and those to dead peers whose outcome nobody waits for are left out.
Matters(m) ==
  /\ m[2].type \notin {"VideoList", "VideoPacket"}
  /\ m[2].to \in crashed' => m[1] \in Nodes /\ m[2].type \in {"FloodPacket", "NewNeighbour"}
Posted(k) == {m \in {k} \X sent' : Matters(m)}

\* The delay of the server's own floods to a node is not 30 % above that of
\* the floods that come through another node, and they have fewer hops: where
\* the server itself is a route, it is the best.
ServerIsBest(k) ==
  \A v \in Videos :
    (Server \in Offering(k, v)' /\ videoRoutes'[k][v] # videoRoutes[k][v])
      => videoRoutes'[k][v] \in {Server, NoRoute}

\* A step of node k. A ping that stops its packet task is a fault, and so is a
\* request that cannot be sent.
Sending(k, kept) ==
  /\ ServerIsBest(k)
  /\ UNCHANGED <<serverVars, crashed, playing>>
  /\ net' = kept \cup Posted(k)
  /\ \/ locked'[k] # locked[k] /\ Fault("late")
     \/ locked'[k] = locked[k] /\ ~(unsent'[k] \subseteq unsent[k]) /\ Fault("unsent")
     \/ locked'[k] = locked[k] /\ unsent'[k] \subseteq unsent[k] /\ UNCHANGED faults

----
\* The packet task of node k takes a packet. A flood that was at k before is
\* acknowledged and dropped.
Handles(k, m) ==
  LET a == m[1]
      x == m[2]
  IN  \/ x.type = "RequestVideo" /\ HandleRequestVideo(k, a, x.video)
      \/ x.type = "StopVideo" /\ HandleStopVideo(k, a, x.video)
      \/ x.type = "NewNeighbour" /\ HandleNewNeighbour(k, a)
      \/ x.type = "FloodPacket" /\ HandleFloodPacket(k, a, x.videos, x.parents, x.visited)
      \/ x.type = "ClientPing" /\ HandleClientPing(k, a, x.videos)

WasHere(m) == m[2].type = "FloodPacket" /\ m[2].to \in m[2].visited

\* A ping that was made before the entry and comes after the request.
IsLate(m) == m[2].type = "ClientPing" /\ Stale(m[2].to, m[1], m[2].videos) # {}

DeliverToNode(m) ==
  /\ m[2].to \in Hearing
  /\ IF WasHere(m)
     THEN net' = net \ {m} /\ UNCHANGED <<vars, serverVars, crashed, playing, faults>>
     ELSE Handles(m[2].to, m) /\ Sending(m[2].to, net \ {m})

\* The server's socket task: it ignores floods.
DeliverToServer(m) ==
  /\ m[2].to = Server /\ Server \in Alive
  /\ \/ m[2].type = "RequestVideo" /\ S!HandleRequestVideo(m[1], m[2].video)
     \/ m[2].type = "StopVideo" /\ S!HandleStopVideo(m[1], m[2].video)
     \/ m[2].type = "NewNeighbour" /\ S!HandleNewNeighbour(m[1])
     \/ m[2].type = "FloodPacket" /\ UNCHANGED serverVars
  /\ net' = net \ {m}
  /\ UNCHANGED <<vars, crashed, playing, faults>>

\* The network delivers a packet once more, later, with no second fault.
Repeat(m) ==
  /\ Fault("repeated")
  /\ m[2].to \in Hearing /\ m[1] # Server
  /\ Handles(m[2].to, m) /\ ServerIsBest(m[2].to)
  /\ unsent'[m[2].to] \subseteq unsent[m[2].to]
  /\ UNCHANGED <<locked, serverVars, crashed, playing>>
  /\ net' = net \cup Posted(m[2].to)

\* Node k waits for the outcome of a packet.
Waits(k, m) ==
  \/ m[2].type = "FloodPacket" /\ m[2].to \in neighbours[k] /\ status[k][m[2].to] = "Active"
  \/ m[2].type = "NewNeighbour" /\ m[2].to \in connecting[k]

\* A packet is lost, or all its retransmissions: it went to a peer that is dead
\* or takes no packets, or it is a fault. Its sender hears of it if it waits.
Lost(m) ==
  /\ \/ m[2].to \notin Takers /\ UNCHANGED faults
     \/ m[2].to \in Takers /\ IF IsLate(m) THEN UNCHANGED faults ELSE Fault("lost")
  /\ UNCHANGED <<serverVars, crashed, playing>>
  /\ LET k == m[1]
     IN  IF k \in Nodes \cap Alive /\ Waits(k, m)
         THEN /\ \/ m[2].type = "FloodPacket" /\ FloodNotAcked(k, m[2].to)
                 \/ m[2].type = "NewNeighbour" /\ ConnectTimesOut(k, m[2].to)
              /\ net' = (net \ {m}) \cup Posted(k)
         ELSE net' = net \ {m} /\ UNCHANGED vars

\* Otherwise the outcome of a NewNeighbour is its Ack.
Connected(k, p) ==
  /\ k \in Hearing /\ <<k, NewNeighbour(p)>> \notin net
  /\ ConnectAcked(k, p)
  /\ Sending(k, net)

\* A node whose packet task has stopped hears of no Ack: what it waits for
\* runs into the timeout, delivered or not.
AckUnheard(k, p) ==
  /\ k \in Alive \ Hearing
  /\ FloodNotAcked(k, p) \/ ConnectTimesOut(k, p)
  /\ Sending(k, net)

----
\* The nodes that floods reach on a way that does not pass k.
FloodedWithout(k) ==
  LET others == Hearing \ {k}
      closed(W) == /\ known \cap others \subseteq W
                   /\ \A q \in W : neighbours[q] \cap others \subseteq W
  IN  IF Server \in crashed THEN {}
      ELSE {p \in others : \A W \in SUBSET others : closed(W) => p \in W}

\* Floods of p go on coming to k, or one is on its way.
Floods(p, k) ==
  \/ p = Server /\ Server \in Alive /\ k \in known
  \/ p \in FloodedWithout(k) /\ k \in neighbours[p]
  \/ \E m \in net : m[1] = p /\ m[2].type = "FloodPacket" /\ m[2].to = k

\* Three intervals without a flood of p: because none comes any more, or none
\* is taken, or as a fault.
NoticesSilence(k, p) ==
  /\ k \in Alive /\ ~(k \in Hearing /\ Floods(p, k))
  /\ ParentSilent(k, p)
  /\ Sending(k, net)

FalseAlarm(k, p) ==
  /\ k \in Hearing /\ Floods(p, k)
  /\ Fault("alarm")
  /\ ParentSilent(k, p) /\ ServerIsBest(k) /\ unsent'[k] \subseteq unsent[k]
  /\ UNCHANGED <<serverVars, crashed, playing>>
  /\ net' = net \cup Posted(k)

\* The stream reaches node k: the server sends it to k, or a node does that it
\* reaches. Fed is the least set of nodes with this.
Fed ==
  LET fromServer == IF Server \in Alive /\ Video \in listed
                    THEN subscribers[Video] \cap Hearing ELSE {}
      closed(W) == /\ fromServer \subseteq W
                   /\ \A k \in W : interested[k][Video] \cap Hearing \subseteq W
  IN  {k \in Hearing : \A W \in SUBSET Hearing : closed(W) => k \in W}

VideoArrives(k) ==
  /\ Video \notin lastVideos[k] /\ k \in Fed
  /\ HandleVideoPacket(k, Video)
  /\ Sending(k, net)

AsksAgain(k) ==
  /\ VideoSilent(k, Video)
  /\ k \in Alive \ Fed
  /\ Sending(k, net)

NodeRestarts(k) ==
  /\ k \in Alive /\ Fault("restart")
  /\ Restart(k)
  /\ UNCHANGED <<serverVars, net, crashed, playing>>

----
\* run_periodic_flood_packets.
ServerFloods ==
  /\ Server \in Alive
  /\ \A m \in net : m[2].type # "FloodPacket"
  /\ net' = net \cup {<<Server, FloodPacket(k, listed, {}, {})>> : k \in known \cap Alive}
  /\ UNCHANGED <<vars, serverVars, crashed, playing, faults>>

\* The folder watch at a file that nothing was started for, or, as a fault, at
\* one that was and whose ffmpeg takes longer than the 3 s between two looks.
Watches(f) ==
  /\ S!WatchFile(f)
  /\ IF \E t \in tasks : t.video = VideoOf[f] THEN Fault("twice") ELSE UNCHANGED faults

ServerStep ==
  /\ Server \in Alive
  /\ \/ \E f \in Files : Watches(f)
     \/ \E t \in tasks : S!InsertVideo(t) /\ UNCHANGED faults
  /\ UNCHANGED <<vars, net, crashed, playing>>

ServerRestarts ==
  /\ Server \in Alive /\ Fault("outage")
  /\ S!ServerRestart
  /\ UNCHANGED <<vars, net, crashed, playing>>

\* A peer dies for good, but for the client's own node.
Dies(p) ==
  /\ p \in Alive \ {Home} /\ Fault("death")
  /\ crashed' = crashed \cup {p}
  /\ net' = {m \in net : Matters(m)}
  /\ UNCHANGED <<vars, serverVars, playing>>

----
\* The client: client/src/client.rs:159-174 and 374-394. It plays what its node
\* offers it; the request is sent before the entry is made, and a ping lists
\* what has an entry when the ping is made.
Plays ==
  /\ playing = "no"
  /\ Video \in GetVideos(Home, Client)
  /\ playing' = "asked"
  /\ net' = net \cup {<<Client, RequestVideo(Home, Video)>>}
  /\ UNCHANGED <<vars, serverVars, crashed, faults>>

MakesEntry ==
  /\ playing = "asked"
  /\ playing' = "yes"
  /\ UNCHANGED <<vars, serverVars, net, crashed, faults>>

Pings ==
  /\ \A m \in net : m[2].type # "ClientPing"
  /\ CASE playing = "no" -> Video \in GetVideos(Home, Client)
       [] playing = "yes" -> videoRoutes[Home][Video] = NoRoute
       [] OTHER -> TRUE
  /\ net' = net \cup {<<Client, ClientPing(Home, IF playing = "yes" THEN {Video} ELSE {})>>}
  /\ UNCHANGED <<vars, serverVars, crashed, playing, faults>>

NodeStep ==
  \/ \E m \in net : DeliverToNode(m)
  \/ \E m \in net : Repeat(m)
  \/ \E m \in net : Lost(m)
  \/ \E k \in Nodes, p \in Peers : Connected(k, p)
  \/ \E k \in Nodes, p \in Peers : NoticesSilence(k, p)
  \/ \E k \in Nodes, p \in Peers : FalseAlarm(k, p)
  \/ \E k \in Nodes : VideoArrives(k)
  \/ \E k \in Nodes : AsksAgain(k)
  \/ \E k \in Nodes, p \in Peers : AckUnheard(k, p)
  \/ \E k \in Nodes : NodeRestarts(k)

OverlayNext ==
  \/ NodeStep
  \/ \E m \in net : DeliverToServer(m)
  \/ ServerFloods
  \/ ServerStep
  \/ ServerRestarts
  \/ \E p \in Peers : Dies(p)
  \/ Plays
  \/ MakesEntry
  \/ Pings

OverlaySpec == OverlayInit /\ [][OverlayNext]_overlayVars

\* The peers that are alive are delivered each kind of packet and handle it, and
\* their periodic tasks run.
Arrives(k, kind) ==
  \E m \in net : /\ m[2].to = k /\ m[2].type = kind
                 /\ DeliverToNode(m) \/ DeliverToServer(m)

GivenUp(m) == (m[2].to \notin Takers \/ IsLate(m)) /\ Lost(m)

Fairness ==
  /\ \A k \in Peers, kind \in {"RequestVideo", "NewNeighbour", "FloodPacket"} :
       WF_overlayVars(Arrives(k, kind))
  /\ WF_overlayVars(\E m \in net : GivenUp(m))
  /\ \A k \in Nodes : WF_overlayVars(AsksAgain(k))
  /\ WF_overlayVars(\E k \in Nodes : VideoArrives(k))
  /\ WF_overlayVars(\E k \in Nodes, p \in Peers : Connected(k, p))
  /\ WF_overlayVars(\E k \in Nodes, p \in Peers : NoticesSilence(k, p))
  /\ WF_overlayVars(ServerFloods)
  /\ WF_overlayVars(ServerStep)
  /\ WF_overlayVars(MakesEntry)
  /\ WF_overlayVars(Pings)
  /\ WF_overlayVars(Arrives(Home, "ClientPing"))

OverlayFairSpec == OverlaySpec /\ Fairness

----
\* Types; and nobody sends a packet to himself.
OverlayTypeOK ==
  /\ TypeOK
  /\ S!ServerTypeOK
  /\ \A m \in net : m[1] \in Addrs /\ m[2].to \in Peers \ {m[1]}
  /\ crashed \subseteq Peers
  /\ playing \in {"no", "asked", "yes"}

\* Two nodes have each other as the route.
Circle == \E k, l \in Nodes : videoRoutes[k][Video] = l /\ videoRoutes[l][Video] = k

\* The nodes from the client's on, each the route of the one before.
Way ==
  LET closed(W) == Home \in W /\ \A k \in W : {videoRoutes[k][Video]} \cap Nodes \subseteq W
  IN  {k \in Nodes : \A W \in SUBSET Nodes : closed(W) => k \in W}

Served == Home \in Fed /\ Client \in interested[Home][Video]

\* Nothing is given up, nobody has died, restarted or been taken for dead, the
\* video was started once, and no ping came too late.
Undisturbed == ToSet(faults) \subseteq {"repeated", "unsent"}

\* Whom a node has the video from, or the client, and who is subscribed there.
Upstream(k) ==
  IF k = Client THEN IF playing = "no" THEN NoRoute ELSE Home ELSE videoRoutes[k][Video]
Subscribed(p) == IF p = Server THEN subscribers[Video] ELSE interested[p][Video]

\* A node has a route and never received the video, so that it does not ask
\* again (node.rs:426), while its request is gone: the route has forgotten it,
\* or has no stream and waits for none. Nothing brings that stream back.
NeverAsksAgain(k) ==
  LET p == videoRoutes[k][Video]
  IN  /\ p # NoRoute /\ Video \notin lastVideos[k]
      /\ <<k, RequestVideo(p, Video)>> \notin net
      /\ \/ k \notin Subscribed(p)
         \/ p \in Nodes /\ videoRoutes[p][Video] = NoRoute /\ Video \notin queue[p]

\* node/src/handle.rs:48-79 and server/src/server.rs:180-189: until then each
\* link of the way from the client to the server is known at both ends, or the
\* request is under way: no order of requests, pings, floods and video checks,
\* with some repeated or not sent, leaves a route on which nobody serves.
RoutesAreSubscribed ==
  Undisturbed =>
    \A k \in Nodes \cup {Client} :
      LET p == Upstream(k)
      IN  p # NoRoute => k \in Subscribed(p) \/ <<k, RequestVideo(p, Video)>> \in net

\* The client's node knows of nobody who lives, and found that out when it had
\* no stream: parents of dead peers are contacted only for streams they were
\* the routes of (node.rs:292).
Alone == videoRoutes[Home][Video] = NoRoute /\ neighbours[Home] \subseteq crashed

\* The packet task of the client's node has stopped, or the node is alone, or a
\* relay on its way does not ask again.
Hopeless ==
  \/ Home \notin Hearing
  \/ Alone
  \/ \E k \in Way : NeverAsksAgain(k)

\* report/src/main.typ:81 and 356, node.rs:422-441 and 291-308: a client that
\* plays a video is served for good in the end, whatever died, restarted, was
\* lost or came late, as long as the server lives. Only what is hopeless, and
\* stays so, is excepted; two routes that lead to one another are not, as they
\* do not come about in this run.
StreamRecovers ==
  <>[](playing = "no" \/ Server \in crashed \/ Hopeless) \/ <>[]Served

\* When the server has died no node goes on believing that another can serve
\* its video: floods that are still under way end, since no node passes on a
\* flood twice, and with them the routes that nodes have of one another.
DeathIsNoticed ==
  Server \in crashed ~> \A k \in Hearing : Offering(k, Video) = {}

----
\* node/src/node.rs:161-162: a video that a node has from a peer alone is not
\* offered to that peer, "otherwise loops happen": no two nodes keep waiting
\* for the stream of one another.
CirclesBreak == Circle ~> ~Circle

====

---- MODULE NodeTasks ----
(* The tasks of one relay node, side by side: main.rs:39-49. Node has each    *)
(* handler and each check as one step; here a step ends where the code awaits *)
(* a send, or gives up a lock that another task may want (node/src/node.rs,   *)
(* node/src/handle.rs). Peers and clients are the environment, as in Node.    *)
(*                                                                            *)
(* Left out, since Node has it: sends that fail, restarts, video packets and  *)
(* floods passed on, new neighbours, and a ping that leaves out a             *)
(* subscription, which stops the packet task for good. Each video has been    *)
(* received once, as by a node that has started again under streams that run  *)
(* on.                                                                        *)
EXTENDS Integers, FiniteSets

CONSTANTS Peers,    \* addresses of those who flood, and may subscribe
          Clients,  \* addresses of clients
          Videos,
          NoRoute,  \* "video_routes has no entry"
          NoVideo,  \* no request under way
          Subscribers, \* bound: who asks for videos and stops them
          Waiting,  \* bound: the tasks that wait for a flood's Ack at once
          MaxBusy,  \* bound: the tasks that are at a job at once
          Steady    \* a peer whose floods go on, and offer every video

Addrs == Peers \cup Clients
Checkers == {"neighbours"} \cup Waiting
Tasks == {"packets", "clients", "videos"} \cup Checkers

ASSUME NodeTasksAssumption ==
  /\ Peers \cap Clients = {}
  /\ NoRoute \notin Addrs /\ NoVideo \notin Videos
  /\ Waiting \cap {"packets", "clients", "videos", "neighbours"} = {}
  /\ Steady \in Peers /\ Subscribers \subseteq Addrs
  /\ MaxBusy \in Nat

VARIABLES status,      \* available_routes[p].status, "Unknown": no entry
          offers,      \* available_routes[p].available_videos
          interested,  \* subscribers of each video
          videoRoutes, \* the peer each video was requested from
          queue,       \* pending_video_requests
          noticed,     \* `unresponsive` of the neighbours check, not yet marked
          job,         \* what each task is at
          overtaken    \* history: videos given to a peer that was dead already

vars == <<status, offers, interested, videoRoutes, queue, noticed, job, overtaken>>

\* What a task is at, for whom, and the videos its loop has yet to do; the
\* video, and the peer, of the request or the stop under way; the videos it
\* keeps for later: those to redirect, to queue, or to take out of the queue.
Stages == {"idle", "pinging", "looking", "sending", "offered", "asking", "stopping", "removing",
           "marked", "listed", "redirecting"}
Jobs == [at : Stages, addr : Addrs \cup {NoRoute}, todo : SUBSET Videos,
         video : Videos \cup {NoVideo}, to : Peers \cup {NoRoute}, kept : SUBSET Videos]
Idle == [at |-> "idle", addr |-> NoRoute, todo |-> {}, video |-> NoVideo, to |-> NoRoute, kept |-> {}]
For(stage, a, vs) ==
  [at |-> stage, addr |-> a, todo |-> vs, video |-> NoVideo, to |-> NoRoute, kept |-> {}]

TypeOK ==
  /\ status \in [Peers -> {"Unknown", "Active", "Unresponsive"}]
  /\ offers \in [Peers -> SUBSET Videos]
  /\ interested \in [Videos -> SUBSET Addrs]
  /\ videoRoutes \in [Videos -> Peers \cup {NoRoute}]
  /\ queue \subseteq Videos
  /\ noticed \subseteq Peers
  /\ job \in [Tasks -> Jobs]
  /\ overtaken \subseteq Videos

Init ==
  /\ status = [p \in Peers |-> "Unknown"]
  /\ offers = [p \in Peers |-> {}]
  /\ interested = [v \in Videos |-> {}]
  /\ videoRoutes = [v \in Videos |-> NoRoute]
  /\ queue = {} /\ noticed = {}
  /\ job = [t \in Tasks |-> Idle]
  /\ overtaken = {}

----
At(t, stage) == job[t].at = stage
Busy == {t \in Tasks : ~At(t, "idle")}
Free(t) == At(t, "idle") /\ Cardinality(Busy) < MaxBusy

\* A loop with nothing left to do ends at once: with it ends the job, unless a
\* checker has videos to redirect or the queue is still to be changed.
Loops == {"pinging", "asking", "stopping", "redirecting"}
Loop(j) ==
  IF j.todo # {} \/ j.at \notin Loops THEN j
  ELSE CASE j.kept = {} \/ j.at = "pinging" -> Idle
         [] j.kept # {} /\ j.at = "stopping" -> For("redirecting", j.addr, j.kept)
         [] j.kept # {} /\ j.at \in {"asking", "redirecting"} -> j
Goes(t, j) == job' = [job EXCEPT ![t] = Loop(j)]

\* handle_request_video holds the entry of its video while it awaits the send.
Locked(v) == job["packets"].at \in {"looking", "sending"} /\ job["packets"].video = v
Unlocked == \A v \in Videos : ~Locked(v)

Dead(r) == r # NoRoute /\ status[r] # "Active"

\* The videos vs have got the route, or lost the place in the queue, that they
\* now have.
Settle(vs, routes) ==
  overtaken' = (overtaken \ vs) \cup {v \in vs : Dead(routes[v])}

\* get_best_node_to_redirect.
Offering(v) == {p \in Peers : status[p] = "Active" /\ v \in offers[p]}
BestNodes(v) == IF Offering(v) = {} THEN {NoRoute} ELSE Offering(v)

\* handle_request_video, up to the choice: a video with a route is had already.
Subscribe(a, v, todo) ==
  /\ interested' = [interested EXCEPT ![v] = @ \cup {a}]
  /\ Goes("packets", IF videoRoutes[v] # NoRoute THEN For("pinging", a, todo)
                     ELSE [For("looking", a, todo) EXCEPT !.video = v])
  /\ UNCHANGED <<status, offers, videoRoutes, queue, noticed, overtaken>>

\* With nobody to ask it is queued; else the send is awaited. First with the
\* requester asked.
ChooseRequester ==
  LET j == job["packets"]
  IN  /\ At("packets", "looking")
      /\ Goes("packets", [j EXCEPT !.at = "sending", !.to = j.addr])
      /\ UNCHANGED <<status, offers, interested, videoRoutes, queue, noticed, overtaken>>

Choose ==
  LET j == job["packets"]
  IN  /\ At("packets", "looking")
      /\ \E best \in BestNodes(j.video) :
           IF best = NoRoute
           THEN queue' = queue \cup {j.video} /\ Goes("packets", For("pinging", j.addr, j.todo))
           ELSE UNCHANGED queue /\ Goes("packets", [j EXCEPT !.at = "sending", !.to = best])
      /\ UNCHANGED <<status, offers, interested, videoRoutes, noticed, overtaken>>

\* request_video_to_node after its await, in any task: the route is set to the
\* peer that was chosen before it.
Sent(t) ==
  LET j == job[t]
  IN  /\ At(t, "sending")
      /\ videoRoutes' = [videoRoutes EXCEPT ![j.video] = j.to]
      /\ Settle({j.video}, videoRoutes')
      /\ Goes(t, CASE t = "packets" -> For("pinging", j.addr, j.todo)
                   [] t = "videos" -> Idle
                   [] t \in Checkers ->
                        [j EXCEPT !.at = "redirecting", !.video = NoVideo, !.to = NoRoute])
      /\ UNCHANGED <<status, offers, interested, queue, noticed>>

----
\* handle_packet with a RequestVideo.
RequestVideo(a, v) == Free("packets") /\ Subscribe(a, v, {})

\* handle_client_ping, which lists all that the client is subscribed to. The
\* client's entry in last_pings is locked while its check runs.
ClientPing(c, requested) ==
  /\ Free("packets")
  /\ job["clients"].addr # c
  /\ \A v \in Videos : c \in interested[v] => v \in requested
  /\ Goes("packets", For("pinging", c, requested))
  /\ UNCHANGED <<status, offers, interested, videoRoutes, queue, noticed, overtaken>>

\* Each listed video is requested if it has no route. First only if the client
\* is not subscribed to it yet.
PingVideoOnce(v) ==
  LET j == job["packets"]
  IN  /\ At("packets", "pinging") /\ v \in j.todo
      /\ IF videoRoutes[v] = NoRoute /\ j.addr \notin interested[v]
         THEN Subscribe(j.addr, v, j.todo \ {v})
         ELSE /\ Goes("packets", [j EXCEPT !.todo = @ \ {v}])
              /\ UNCHANGED <<status, offers, interested, videoRoutes, queue, noticed, overtaken>>

PingVideo(v) ==
  LET j == job["packets"]
  IN  /\ At("packets", "pinging") /\ v \in j.todo
      /\ IF videoRoutes[v] = NoRoute
         THEN Subscribe(j.addr, v, j.todo \ {v})
         ELSE /\ Goes("packets", [j EXCEPT !.todo = @ \ {v}])
              /\ UNCHANGED <<status, offers, interested, videoRoutes, queue, noticed, overtaken>>

\* handle_packet with a StopVideo.
StopVideo(a, v) ==
  /\ Free("packets")
  /\ Goes("packets", For("stopping", a, {v}))
  /\ UNCHANGED <<status, offers, interested, videoRoutes, queue, noticed, overtaken>>

\* handle_flood_packet renews the sender's entry, then looks at the queue.
FloodPacket(p, vs) ==
  /\ Free("packets")
  /\ status' = [status EXCEPT ![p] = "Active"]
  /\ offers' = [offers EXCEPT ![p] = vs]
  /\ Goes("packets", For("offered", p, vs))
  /\ UNCHANGED <<interested, videoRoutes, queue, noticed, overtaken>>

\* check_pending_videos: what of the queue is offered is noted, asked of the
\* sender one by one, and then taken out of the queue. First only what the
\* sender is the only one to offer.
ListPendingNew ==
  LET j == job["packets"]
      pending == {v \in queue \cap j.todo : Offering(v) = {j.addr}}
  IN  /\ At("packets", "offered")
      /\ Goes("packets", [For("asking", j.addr, pending) EXCEPT !.kept = pending])
      /\ UNCHANGED <<status, offers, interested, videoRoutes, queue, noticed, overtaken>>

ListPending ==
  LET j == job["packets"]
      pending == queue \cap j.todo
  IN  /\ At("packets", "offered")
      /\ Goes("packets", [For("asking", j.addr, pending) EXCEPT !.kept = pending])
      /\ UNCHANGED <<status, offers, interested, videoRoutes, queue, noticed, overtaken>>

AskPending(v) ==
  LET j == job["packets"]
  IN  /\ At("packets", "asking") /\ v \in j.todo
      /\ videoRoutes' = [videoRoutes EXCEPT ![v] = j.addr]
      /\ Settle({v}, videoRoutes')
      /\ Goes("packets", [j EXCEPT !.todo = @ \ {v}])
      /\ UNCHANGED <<status, offers, interested, queue, noticed>>

ForgetPending ==
  LET j == job["packets"]
  IN  /\ At("packets", "asking") /\ j.todo = {}
      /\ queue' = queue \ j.kept
      /\ Settle(j.kept, videoRoutes)
      /\ Goes("packets", Idle)
      /\ UNCHANGED <<status, offers, interested, videoRoutes, noticed>>

----
\* handle_stop_video in any task: the subscriber goes, and the rest is counted;
\* with none left the route is taken away, whoever subscribed meanwhile.
Stop(t, v) ==
  LET j == job[t]
  IN  /\ At(t, "stopping") /\ v \in j.todo /\ ~Locked(v)
      /\ interested' = [interested EXCEPT ![v] = @ \ {j.addr}]
      /\ Goes(t, IF interested'[v] # {} THEN [j EXCEPT !.todo = @ \ {v}]
                 ELSE [j EXCEPT !.at = "removing", !.video = v, !.todo = @ \ {v}])
      /\ UNCHANGED <<status, offers, videoRoutes, queue, noticed, overtaken>>

RemoveRoute(t) ==
  LET j == job[t]
  IN  /\ At(t, "removing")
      /\ videoRoutes' = [videoRoutes EXCEPT ![j.video] = NoRoute]
      /\ overtaken' = overtaken \ {j.video}
      /\ Goes(t, [j EXCEPT !.at = "stopping", !.video = NoVideo])
      /\ UNCHANGED <<status, offers, interested, queue, noticed>>

\* run_client_health_check_task. Clients ping from the start, so each has an
\* entry in last_pings.
ClientSilent(c) ==
  LET playing == {v \in Videos : c \in interested[v]}
  IN  /\ Free("clients") /\ Unlocked
      /\ playing # {}
      /\ Goes("clients", For("stopping", c, playing))
      /\ UNCHANGED <<status, offers, interested, videoRoutes, queue, noticed, overtaken>>

\* run_video_health_check_task at a video that was received once: the route is
\* read, and set again after the await (Sent).
VideoSilent(v) ==
  /\ Free("videos")
  /\ videoRoutes[v] # NoRoute
  /\ Goes("videos", [Idle EXCEPT !.at = "sending", !.video = v, !.to = videoRoutes[v]])
  /\ UNCHANGED <<status, offers, interested, videoRoutes, queue, noticed, overtaken>>

----
\* run_check_neighbours_task lists the silent peers, then marks one by one,
\* without another look at their status.
Notice(silent) ==
  /\ At("neighbours", "idle") /\ noticed = {}
  /\ silent # {} /\ \A p \in silent : status[p] = "Active"
  /\ noticed' = silent
  /\ UNCHANGED <<status, offers, interested, videoRoutes, queue, job, overtaken>>

Mark(p) ==
  /\ Free("neighbours") /\ p \in noticed
  /\ noticed' = noticed \ {p}
  /\ status' = [status EXCEPT ![p] = "Unresponsive"]
  /\ Goes("neighbours", For("marked", p, {}))
  /\ UNCHANGED <<offers, interested, videoRoutes, queue, overtaken>>

\* handle_send_flood_packet_result looks and marks at once.
NotAcked(t, p) ==
  /\ t \in Waiting /\ Free(t)
  /\ status[p] = "Active"
  /\ status' = [status EXCEPT ![p] = "Unresponsive"]
  /\ Goes(t, For("marked", p, {}))
  /\ UNCHANGED <<offers, interested, videoRoutes, queue, noticed, overtaken>>

\* handle_unresponsive_node: the videos received from the peer are listed, then
\* those sent to it.
ListReceiving(t) ==
  LET j == job[t]
  IN  /\ At(t, "marked")
      /\ Goes(t, [j EXCEPT !.at = "listed", !.kept = {v \in Videos : videoRoutes[v] = j.addr}])
      /\ UNCHANGED <<status, offers, interested, videoRoutes, queue, noticed, overtaken>>

ListSending(t) ==
  LET j == job[t]
  IN  /\ At(t, "listed") /\ Unlocked
      /\ Goes(t, [j EXCEPT !.at = "stopping", !.todo = {v \in Videos : j.addr \in interested[v]}])
      /\ UNCHANGED <<status, offers, interested, videoRoutes, queue, noticed, overtaken>>

\* Each video received is asked of another peer, or kept for the queue.
Redirect(t, v) ==
  LET j == job[t]
      rest == j.todo \ {v}
  IN  /\ At(t, "redirecting") /\ v \in j.todo
      /\ \E best \in BestNodes(v) :
           Goes(t, IF best = NoRoute THEN [j EXCEPT !.todo = rest, !.kept = @ \cup {v}]
                   ELSE [j EXCEPT !.at = "sending", !.todo = rest, !.video = v, !.to = best])
      /\ UNCHANGED <<status, offers, interested, videoRoutes, queue, noticed, overtaken>>

\* The rest is queued. First only what is still offered by nobody.
QueueUnoffered(t) ==
  LET j == job[t]
  IN  /\ At(t, "redirecting") /\ j.todo = {}
      /\ queue' = queue \cup {v \in j.kept : Offering(v) = {}}
      /\ overtaken' = overtaken \ j.kept
      /\ Goes(t, Idle)
      /\ UNCHANGED <<status, offers, interested, videoRoutes, noticed>>

QueueRemaining(t) ==
  LET j == job[t]
  IN  /\ At(t, "redirecting") /\ j.todo = {}
      /\ queue' = queue \cup j.kept
      /\ overtaken' = overtaken \ j.kept
      /\ Goes(t, Idle)
      /\ UNCHANGED <<status, offers, interested, videoRoutes, noticed>>

----
\* What starts a job, and what goes on with it.
Starts ==
  \/ \E a \in Subscribers, v \in Videos : RequestVideo(a, v)
  \/ \E a \in Subscribers, v \in Videos : StopVideo(a, v)
  \/ \E c \in Clients, requested \in SUBSET Videos : ClientPing(c, requested)
  \/ \E p \in Peers \ {Steady}, vs \in SUBSET Videos : FloodPacket(p, vs)
  \/ FloodPacket(Steady, Videos)
  \/ \E c \in Clients : ClientSilent(c)
  \/ \E v \in Videos : VideoSilent(v)
  \/ \E silent \in SUBSET Peers : Notice(silent)
  \/ \E t \in Waiting, p \in Peers : NotAcked(t, p)

PacketTask ==
  \/ Choose
  \/ \E v \in Videos : PingVideo(v)
  \/ ListPending
  \/ \E v \in Videos : AskPending(v)
  \/ ForgetPending

Stopping(t) == (\E v \in Videos : Stop(t, v)) \/ RemoveRoute(t)

Checker(t) ==
  \/ ListReceiving(t)
  \/ ListSending(t)
  \/ \E v \in Videos : Redirect(t, v)
  \/ QueueRemaining(t)

TaskStep(t) ==
  \/ t = "packets" /\ PacketTask
  \/ Sent(t)
  \/ Stopping(t)
  \/ t = "neighbours" /\ \E p \in Peers : Mark(p)
  \/ t \in Checkers /\ Checker(t)

Next == Starts \/ \E t \in Tasks : TaskStep(t)

Spec == Init /\ [][Next]_vars

\* Every task that has begun goes on; a client that lives pings, and Steady
\* floods, again and again, until the packet task takes it.
FairSpec ==
  /\ Spec
  /\ \A t \in Tasks : WF_vars(TaskStep(t))
  /\ \A c \in Clients : SF_vars(ClientPing(c, {v \in Videos : c \in interested[v]}))
  /\ SF_vars(FloodPacket(Steady, Videos))

----
\* What a task has listed of the videos of the peer it handles: it will ask for
\* them elsewhere or queue them.
Handling(t, v) ==
  LET j == job[t]
  IN  /\ j.addr = videoRoutes[v]
      /\ \/ j.at = "marked"
         \/ j.at \in {"listed", "stopping", "removing"} /\ v \in j.kept
         \/ j.at = "redirecting" /\ v \in j.todo \cup j.kept
         \/ j.at = "sending" /\ v \in j.todo \cup j.kept \cup {j.video}

\* Whatever the tasks interleave, a video whose route is dead waits in the
\* queue or is about to be redirected, unless a task that had chosen that peer
\* before its await, or had listed the queue before it, came too late.
DeadRouteIsHandled ==
  \A v \in Videos :
    Dead(videoRoutes[v]) =>
      v \in queue \cup overtaken \/ \E t \in Checkers : Handling(t, v)

\* A client that goes on pinging has a route or a place in the queue again and
\* again, even if a stop of somebody else, counted before it subscribed, took
\* its route away.
SubscriberIsServed ==
  \A c \in Clients, v \in Videos :
    (c \in interested[v])
      ~> (videoRoutes[v] # NoRoute \/ v \in queue \/ c \notin interested[v])

\* check_pending_videos has listed v, and will forget it after its awaits.
Listed(v) == At("packets", "asking") /\ v \in job["packets"].kept

\* A video that waits in the queue is asked of a peer that lives, if only one
\* of them goes on flooding it: it does not just leave the queue. There are two
\* exceptions. The flood that takes it up may be from a peer that has died since
\* (`overtaken`). And what check_pending_videos has listed and asked for is
\* forgotten with the list (node.rs:229-232) even if that route is lost before:
\* handle_unresponsive_node has queued it again meanwhile, or a stop that was
\* counted earlier has taken the route.
QueuedIsAsked ==
  \A v \in Videos :
    (v \in queue /\ ~Listed(v))
      ~> \/ videoRoutes[v] # NoRoute /\ ~Dead(videoRoutes[v])
         \/ v \in overtaken

----
\* node.rs:236-237: "Remove all videos that were being received from the
\* unresponsive node and redirect them to another node": none stays with a dead
\* peer for good while another floods it.
DeadRouteIsLeft ==
  \A v \in Videos : Dead(videoRoutes[v]) ~> ~Dead(videoRoutes[v])

====

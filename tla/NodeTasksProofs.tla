---- MODULE NodeTasksProofs ----
(* Proofs about NodeTasks for every set of peers, clients, videos and waiting *)
(* tasks, and for any number of tasks at a job at once.                       *)
EXTENDS NodeTasks, TLAPS

\* What the job of the task t may hold, by its stage.
JobOK(t, j) ==
  /\ j \in Jobs
  /\ j.at = "sending" => j.video \in Videos /\ j.to \in Peers
  /\ j.at \in {"looking", "removing"} => j.video \in Videos
  /\ t = "packets" /\ j.at # "idle" => j.addr \in Addrs
  /\ t = "packets" /\ j.at \in {"offered", "asking"} => j.addr \in Peers
  /\ t = "clients" => j.at # "sending"

Types == TypeOK /\ \A t \in Tasks : JobOK(t, job[t])

\* The kinds of task are told apart.
LEMMA TaskKinds ==
  /\ Checkers \subseteq Tasks /\ "packets" \in Tasks /\ "clients" \in Tasks /\ "videos" \in Tasks
  /\ "neighbours" \in Checkers /\ "packets" \notin Checkers
  /\ "clients" \notin Checkers /\ "videos" \notin Checkers
  BY NodeTasksAssumption DEF Tasks, Checkers

LEMMA NewJobs ==
  ASSUME NEW stage \in Stages, NEW a \in Addrs \cup {NoRoute}, NEW vs \in SUBSET Videos
  PROVE  /\ For(stage, a, vs) \in Jobs /\ Idle \in Jobs
         /\ For(stage, a, vs).at = stage /\ For(stage, a, vs).addr = a
         /\ For(stage, a, vs).todo = vs /\ For(stage, a, vs).kept = {}
         /\ Idle.at = "idle"
  BY DEF For, Idle, Jobs, Stages

\* What becomes of a loop: it goes on, or it ends, or after its stops it goes
\* over to its redirections.
LEMMA LoopFacts ==
  ASSUME NEW j \in Jobs
  PROVE  \/ Loop(j) = j
         \/ j.todo = {} /\ (j.kept = {} \/ j.at = "pinging") /\ Loop(j) = Idle
         \/ j.at = "stopping" /\ Loop(j) = For("redirecting", j.addr, j.kept)
<1>1. CASE j.todo # {} \/ j.at \notin Loops
  BY <1>1 DEF Loop
<1>2. CASE j.todo = {} /\ j.at \in Loops
  <2>1. CASE j.kept = {} \/ j.at = "pinging"
    BY <1>2, <2>1 DEF Loop
  <2>2. CASE j.kept # {} /\ j.at = "stopping"
    BY <1>2, <2>2 DEF Loop
  <2>3. CASE j.kept # {} /\ j.at \in {"asking", "redirecting"}
    BY <1>2, <2>3 DEF Loop
  <2> QED BY <1>2, <2>1, <2>2, <2>3 DEF Loops
<1> QED BY <1>1, <1>2

LEMMA LoopOK ==
  ASSUME NEW t, NEW j, JobOK(t, j)
  PROVE  JobOK(t, Loop(j))
<1>1. CASE Loop(j) = j
  BY <1>1
<1>2. CASE Loop(j) = Idle
  BY <1>2 DEF JobOK, Idle, Jobs, Stages
<1>3. CASE j.at = "stopping" /\ Loop(j) = For("redirecting", j.addr, j.kept)
  BY <1>3 DEF JobOK, For, Jobs, Stages
<1> QED BY <1>1, <1>2, <1>3, LoopFacts DEF JobOK

\* A task whose next job is as it may be leaves all of them so.
LEMMA GoesKeeps ==
  ASSUME Types, NEW t \in Tasks, NEW j, JobOK(t, j), Goes(t, j)
  PROVE  /\ job' \in [Tasks -> Jobs]
         /\ \A s \in Tasks : JobOK(s, job'[s])
<1>1. JobOK(t, Loop(j))
  BY LoopOK
<1>2. Loop(j) \in Jobs
  BY <1>1 DEF JobOK
<1> QED BY <1>1, <1>2 DEF Goes, Types, TypeOK

LEMMA BestNodesFacts ==
  ASSUME NEW v, NEW best \in BestNodes(v), best # NoRoute
  PROVE  best \in Peers
  BY DEF BestNodes, Offering

----
\* Each step keeps the types. First those of the packet task.
LEMMA SubscribeTypes ==
  ASSUME Types, NEW a \in Addrs, NEW v \in Videos, NEW todo \in SUBSET Videos,
         Subscribe(a, v, todo)
  PROVE  Types'
<1> DEFINE j == IF videoRoutes[v] # NoRoute THEN For("pinging", a, todo)
                ELSE [For("looking", a, todo) EXCEPT !.video = v]
<1>1. JobOK("packets", j)
  BY DEF JobOK, For, Jobs, Stages
<1>2. Goes("packets", j)
  BY DEF Subscribe
<1> HIDE DEF j
<1>3. job' \in [Tasks -> Jobs] /\ \A s \in Tasks : JobOK(s, job'[s])
  BY <1>1, <1>2, TaskKinds, GoesKeeps
<1> QED BY <1>3 DEF Subscribe, Types, TypeOK

LEMMA ChooseTypes ==
  ASSUME Types, Choose
  PROVE  Types'
<1> DEFINE old == job["packets"]
<1>1. JobOK("packets", old) /\ old.at = "looking"
  BY TaskKinds DEF Choose, At, Types
<1>2. PICK best \in BestNodes(old.video) :
        IF best = NoRoute
        THEN queue' = queue \cup {old.video} /\ Goes("packets", For("pinging", old.addr, old.todo))
        ELSE UNCHANGED queue /\ Goes("packets", [old EXCEPT !.at = "sending", !.to = best])
  BY DEF Choose
<1>3. UNCHANGED <<status, offers, interested, videoRoutes, noticed, overtaken>>
  BY DEF Choose
<1> HIDE DEF old
<1>4. CASE best = NoRoute
  <2>1. JobOK("packets", For("pinging", old.addr, old.todo))
    BY <1>1 DEF JobOK, For, Jobs, Stages
  <2>2. job' \in [Tasks -> Jobs] /\ \A s \in Tasks : JobOK(s, job'[s])
    BY <1>2, <1>4, <2>1, TaskKinds, GoesKeeps
  <2>3. old.video \in Videos
    BY <1>1 DEF JobOK
  <2> QED BY <1>2, <1>3, <1>4, <2>2, <2>3 DEF Types, TypeOK
<1>5. CASE best # NoRoute
  <2>1. best \in Peers
    BY <1>5, BestNodesFacts
  <2>2. JobOK("packets", [old EXCEPT !.at = "sending", !.to = best])
    BY <1>1, <2>1 DEF JobOK, Jobs, Stages
  <2>3. job' \in [Tasks -> Jobs] /\ \A s \in Tasks : JobOK(s, job'[s])
    BY <1>2, <1>5, <2>2, TaskKinds, GoesKeeps
  <2> QED BY <1>2, <1>3, <1>5, <2>3 DEF Types, TypeOK
<1> QED BY <1>4, <1>5

LEMMA PingVideoTypes ==
  ASSUME Types, NEW v \in Videos, PingVideo(v)
  PROVE  Types'
<1> DEFINE old == job["packets"]
           new == [old EXCEPT !.todo = @ \ {v}]
<1>1. JobOK("packets", old) /\ old.at = "pinging"
  BY TaskKinds DEF PingVideo, At, Types
<1>2. old.addr \in Addrs /\ old.todo \ {v} \in SUBSET Videos
  BY <1>1 DEF JobOK, Jobs
<1>3. CASE videoRoutes[v] = NoRoute
  BY <1>2, <1>3, SubscribeTypes DEF PingVideo
<1>4. CASE videoRoutes[v] # NoRoute
  <2>1. /\ Goes("packets", new)
        /\ UNCHANGED <<status, offers, interested, videoRoutes, queue, noticed, overtaken>>
    BY <1>4 DEF PingVideo
  <2> HIDE DEF old
  <2>2. JobOK("packets", new)
    BY <1>1 DEF JobOK, Jobs
  <2> HIDE DEF new
  <2> QED BY <2>1, <2>2, TaskKinds, GoesKeeps DEF Types, TypeOK
<1> QED BY <1>3, <1>4

LEMMA QueueTypes ==
  ASSUME Types, ListPending \/ (\E v \in Videos : AskPending(v)) \/ ForgetPending
  PROVE  Types'
<1> DEFINE old == job["packets"]
<1>1. JobOK("packets", old)
  BY TaskKinds DEF Types
<1>2. CASE ListPending
  <2> DEFINE pending == queue \cap old.todo
             new == [For("asking", old.addr, pending) EXCEPT !.kept = pending]
  <2>1. /\ old.at = "offered" /\ Goes("packets", new)
        /\ UNCHANGED <<status, offers, interested, videoRoutes, queue, noticed, overtaken>>
    BY <1>2 DEF ListPending, At
  <2>2. pending \in SUBSET Videos
    BY DEF Types, TypeOK
  <2> HIDE DEF old, pending
  <2>3. JobOK("packets", new)
    BY <1>1, <2>1, <2>2 DEF JobOK, For, Jobs, Stages, Addrs
  <2> HIDE DEF new
  <2> QED BY <2>1, <2>3, TaskKinds, GoesKeeps DEF Types, TypeOK
<1>3. ASSUME NEW v \in Videos, AskPending(v) PROVE Types'
  <2> DEFINE new == [old EXCEPT !.todo = @ \ {v}]
  <2>1. /\ old.at = "asking" /\ Goes("packets", new)
        /\ videoRoutes' = [videoRoutes EXCEPT ![v] = old.addr]
        /\ Settle({v}, videoRoutes')
        /\ UNCHANGED <<status, offers, interested, queue, noticed>>
    BY <1>3 DEF AskPending, At
  <2> HIDE DEF old
  <2>2. JobOK("packets", new) /\ old.addr \in Peers
    BY <1>1, <2>1 DEF JobOK, Jobs
  <2>3. overtaken' \subseteq Videos
    BY <2>1 DEF Settle, Types, TypeOK
  <2> HIDE DEF new
  <2> QED BY <2>1, <2>2, <2>3, TaskKinds, GoesKeeps DEF Types, TypeOK
<1>4. CASE ForgetPending
  <2>1. /\ Goes("packets", Idle) /\ queue' = queue \ old.kept
        /\ Settle(old.kept, videoRoutes)
        /\ UNCHANGED <<status, offers, interested, videoRoutes, noticed>>
    BY <1>4 DEF ForgetPending
  <2> HIDE DEF old
  <2>2. JobOK("packets", Idle)
    BY DEF JobOK, Idle, Jobs, Stages
  <2>3. overtaken' \subseteq Videos
    BY <1>1, <2>1 DEF Settle, Types, TypeOK, JobOK, Jobs
  <2> QED BY <2>1, <2>2, <2>3, TaskKinds, GoesKeeps DEF Types, TypeOK
<1> QED BY <1>2, <1>3, <1>4

\* The start of a job changes no table but the sender's entry.
LEMMA BeginTypes ==
  ASSUME Types, NEW t \in Tasks, NEW stage \in {"pinging", "stopping", "offered", "marked"},
         NEW a \in Addrs, NEW vs \in SUBSET Videos, stage = "offered" => a \in Peers,
         Goes(t, For(stage, a, vs)),
         status' \in [Peers -> {"Unknown", "Active", "Unresponsive"}],
         offers' \in [Peers -> SUBSET Videos], noticed' \subseteq Peers,
         UNCHANGED <<interested, videoRoutes, queue, overtaken>>
  PROVE  Types'
<1>1. JobOK(t, For(stage, a, vs))
  BY DEF JobOK, For, Jobs, Stages
<1> QED BY <1>1, GoesKeeps DEF Types, TypeOK

LEMMA StartTypes ==
  ASSUME Types, Starts
  PROVE  Types'
<1>1. ASSUME NEW a \in Subscribers, NEW v \in Videos, RequestVideo(a, v) PROVE Types'
  BY <1>1, SubscribeTypes, NodeTasksAssumption DEF RequestVideo
<1>2. ASSUME NEW a \in Subscribers, NEW v \in Videos, StopVideo(a, v) PROVE Types'
  BY <1>2, BeginTypes, TaskKinds, NodeTasksAssumption DEF StopVideo, Types, TypeOK
<1>3. ASSUME NEW c \in Clients, NEW requested \in SUBSET Videos, ClientPing(c, requested)
      PROVE  Types'
  BY <1>3, BeginTypes, TaskKinds DEF ClientPing, Addrs, Types, TypeOK
<1>4. ASSUME NEW p \in Peers, NEW vs \in SUBSET Videos, FloodPacket(p, vs) PROVE Types'
  <2>1. /\ status' \in [Peers -> {"Unknown", "Active", "Unresponsive"}]
        /\ offers' \in [Peers -> SUBSET Videos] /\ noticed' \subseteq Peers
    BY <1>4 DEF FloodPacket, Types, TypeOK
  <2> QED BY <1>4, <2>1, BeginTypes, TaskKinds DEF FloodPacket, Addrs
<1>5. ASSUME NEW c \in Clients, ClientSilent(c) PROVE Types'
  <2> DEFINE playing == {v \in Videos : c \in interested[v]}
  <2>1. playing \in SUBSET Videos
    OBVIOUS
  <2>2. Goes("clients", For("stopping", c, playing))
        /\ UNCHANGED <<status, offers, interested, videoRoutes, queue, noticed, overtaken>>
    BY <1>5 DEF ClientSilent
  <2> HIDE DEF playing
  <2> QED BY <2>1, <2>2, BeginTypes, TaskKinds DEF Addrs, Types, TypeOK
<1>6. ASSUME NEW v \in Videos, VideoSilent(v) PROVE Types'
  <2> DEFINE new == [Idle EXCEPT !.at = "sending", !.video = v, !.to = videoRoutes[v]]
  <2>1. /\ videoRoutes[v] # NoRoute /\ Goes("videos", new)
        /\ UNCHANGED <<status, offers, interested, videoRoutes, queue, noticed, overtaken>>
    BY <1>6 DEF VideoSilent
  <2>2. JobOK("videos", new)
    BY <2>1 DEF JobOK, Idle, Jobs, Stages, Types, TypeOK
  <2> HIDE DEF new
  <2> QED BY <2>1, <2>2, TaskKinds, GoesKeeps DEF Types, TypeOK
<1>7. ASSUME NEW silent \in SUBSET Peers, Notice(silent) PROVE Types'
  BY <1>7 DEF Notice, Types, TypeOK
<1>8. ASSUME NEW t \in Waiting, NEW p \in Peers, NotAcked(t, p) PROVE Types'
  <2>1. status' \in [Peers -> {"Unknown", "Active", "Unresponsive"}]
    BY <1>8 DEF NotAcked, Types, TypeOK
  <2>2. t \in Tasks
    BY DEF Tasks, Checkers
  <2> QED BY <1>8, <2>1, <2>2, BeginTypes DEF NotAcked, Addrs, Types, TypeOK
<1>9. FloodPacket(Steady, Videos) => Types'
  BY <1>4, NodeTasksAssumption
<1> QED BY <1>1, <1>2, <1>3, <1>4, <1>5, <1>6, <1>7, <1>8, <1>9 DEF Starts

\* request_video_to_node after its await, for each of the tasks.
LEMMA SentTypes ==
  ASSUME Types, NEW t \in Tasks, Sent(t)
  PROVE  Types'
<1> DEFINE old == job[t]
           new == CASE t = "packets" -> For("pinging", old.addr, old.todo)
                    [] t = "videos" -> Idle
                    [] t \in Checkers ->
                         [old EXCEPT !.at = "redirecting", !.video = NoVideo, !.to = NoRoute]
<1>1. /\ old.at = "sending" /\ Goes(t, new)
      /\ videoRoutes' = [videoRoutes EXCEPT ![old.video] = old.to]
      /\ Settle({old.video}, videoRoutes')
      /\ UNCHANGED <<status, offers, interested, queue, noticed>>
  BY DEF Sent, At
<1>2. JobOK(t, old)
  BY DEF Types
<1>3. CASE t \in {"packets", "videos"} \cup Checkers
  <2>1. JobOK(t, new)
    <3>1. CASE t = "packets"
      <4>1. new = For("pinging", old.addr, old.todo)
        BY <3>1, TaskKinds
      <4> HIDE DEF new, old
      <4> QED BY <1>1, <1>2, <3>1, <4>1 DEF JobOK, For, Jobs, Stages
    <3>2. CASE t = "videos"
      BY <3>2, TaskKinds DEF JobOK, Idle, Jobs, Stages
    <3>3. CASE t \in Checkers
      BY <1>2, <3>3, TaskKinds DEF JobOK, Jobs, Stages
    <3> QED BY <1>3, <3>1, <3>2, <3>3
  <2>2. old.video \in Videos /\ old.to \in Peers
    BY <1>1, <1>2 DEF JobOK
  <2> HIDE DEF old, new
  <2>3. overtaken' \subseteq Videos
    BY <1>1, <2>2 DEF Settle, Types, TypeOK
  <2> QED BY <1>1, <2>1, <2>2, <2>3, GoesKeeps DEF Types, TypeOK
<1>4. t # "clients"
  BY <1>1, <1>2 DEF JobOK
<1> QED BY <1>3, <1>4 DEF Tasks

LEMMA StoppingTypes ==
  ASSUME Types, NEW t \in Tasks, Stopping(t)
  PROVE  Types'
<1> DEFINE old == job[t]
<1>1. JobOK(t, old)
  BY DEF Types
<1>2. ASSUME NEW v \in Videos, Stop(t, v) PROVE Types'
  <2> DEFINE new == IF interested'[v] # {} THEN [old EXCEPT !.todo = @ \ {v}]
                    ELSE [old EXCEPT !.at = "removing", !.video = v, !.todo = @ \ {v}]
  <2>1. /\ old.at = "stopping" /\ Goes(t, new)
        /\ interested' = [interested EXCEPT ![v] = @ \ {old.addr}]
        /\ UNCHANGED <<status, offers, videoRoutes, queue, noticed, overtaken>>
    BY <1>2 DEF Stop, At
  <2> HIDE DEF old
  <2>2. JobOK(t, new)
    BY <1>1, <2>1 DEF JobOK, Jobs, Stages
  <2> HIDE DEF new
  <2> QED BY <2>1, <2>2, GoesKeeps DEF Types, TypeOK
<1>3. ASSUME RemoveRoute(t) PROVE Types'
  <2> DEFINE new == [old EXCEPT !.at = "stopping", !.video = NoVideo]
  <2>1. /\ old.at = "removing" /\ Goes(t, new)
        /\ videoRoutes' = [videoRoutes EXCEPT ![old.video] = NoRoute]
        /\ overtaken' = overtaken \ {old.video}
        /\ UNCHANGED <<status, offers, interested, queue, noticed>>
    BY <1>3 DEF RemoveRoute, At
  <2> HIDE DEF old
  <2>2. JobOK(t, new)
    BY <1>1, <2>1 DEF JobOK, Jobs, Stages
  <2> HIDE DEF new
  <2> QED BY <2>1, <2>2, GoesKeeps DEF Types, TypeOK
<1> QED BY <1>2, <1>3 DEF Stopping

LEMMA MarkTypes ==
  ASSUME Types, NEW p \in Peers, Mark(p)
  PROVE  Types'
<1>1. status' \in [Peers -> {"Unknown", "Active", "Unresponsive"}] /\ noticed' \subseteq Peers
  BY DEF Mark, Types, TypeOK
<1> QED BY <1>1, BeginTypes, TaskKinds DEF Mark, Addrs, Types, TypeOK

LEMMA CheckerTypes ==
  ASSUME Types, NEW t \in Checkers, Checker(t)
  PROVE  Types'
<1> DEFINE old == job[t]
<1>1. JobOK(t, old) /\ t \in Tasks /\ t # "packets" /\ t # "clients"
  BY TaskKinds DEF Types
<1>2. CASE ListReceiving(t)
  <2> DEFINE list == {v \in Videos : videoRoutes[v] = old.addr}
             new == [old EXCEPT !.at = "listed", !.kept = list]
  <2>1. /\ Goes(t, new)
        /\ UNCHANGED <<status, offers, interested, videoRoutes, queue, noticed, overtaken>>
    BY <1>2 DEF ListReceiving
  <2>2. list \in SUBSET Videos
    OBVIOUS
  <2> HIDE DEF old, list
  <2>3. JobOK(t, new)
    BY <1>1, <2>2 DEF JobOK, Jobs, Stages
  <2> HIDE DEF new
  <2> QED BY <1>1, <2>1, <2>3, GoesKeeps DEF Types, TypeOK
<1>3. CASE ListSending(t)
  <2> DEFINE list == {v \in Videos : old.addr \in interested[v]}
             new == [old EXCEPT !.at = "stopping", !.todo = list]
  <2>1. /\ Goes(t, new)
        /\ UNCHANGED <<status, offers, interested, videoRoutes, queue, noticed, overtaken>>
    BY <1>3 DEF ListSending
  <2>2. list \in SUBSET Videos
    OBVIOUS
  <2> HIDE DEF old, list
  <2>3. JobOK(t, new)
    BY <1>1, <2>2 DEF JobOK, Jobs, Stages
  <2> HIDE DEF new
  <2> QED BY <1>1, <2>1, <2>3, GoesKeeps DEF Types, TypeOK
<1>4. ASSUME NEW v \in Videos, Redirect(t, v) PROVE Types'
  <2> DEFINE queued == [old EXCEPT !.todo = @ \ {v}, !.kept = @ \cup {v}]
             asked(best) == [old EXCEPT !.at = "sending", !.todo = @ \ {v}, !.video = v, !.to = best]
  <2>1. PICK best \in BestNodes(v) :
          Goes(t, IF best = NoRoute THEN [old EXCEPT !.todo = old.todo \ {v}, !.kept = @ \cup {v}]
                  ELSE [old EXCEPT !.at = "sending", !.todo = old.todo \ {v}, !.video = v, !.to = best])
    BY <1>4 DEF Redirect
  <2>2. UNCHANGED <<status, offers, interested, videoRoutes, queue, noticed, overtaken>>
    BY <1>4 DEF Redirect
  <2>3. Goes(t, IF best = NoRoute THEN queued ELSE asked(best))
    BY <1>1, <2>1
  <2> HIDE DEF old
  <2>4. JobOK(t, queued)
    BY <1>1 DEF JobOK, Jobs, Stages
  <2>5. best # NoRoute => JobOK(t, asked(best))
    BY <1>1, BestNodesFacts DEF JobOK, Jobs, Stages
  <2> HIDE DEF queued, asked
  <2> QED BY <1>1, <2>2, <2>3, <2>4, <2>5, GoesKeeps DEF Types, TypeOK
<1>5. CASE QueueRemaining(t)
  <2>1. /\ Goes(t, Idle) /\ queue' = queue \cup old.kept /\ overtaken' = overtaken \ old.kept
        /\ UNCHANGED <<status, offers, interested, videoRoutes, noticed>>
    BY <1>5 DEF QueueRemaining
  <2> HIDE DEF old
  <2>2. JobOK(t, Idle)
    BY DEF JobOK, Idle, Jobs, Stages
  <2>3. queue' \subseteq Videos
    BY <1>1, <2>1 DEF JobOK, Jobs, Types, TypeOK
  <2> QED BY <1>1, <2>1, <2>2, <2>3, GoesKeeps DEF Types, TypeOK
<1> QED BY <1>2, <1>3, <1>4, <1>5 DEF Checker

LEMMA NextTypes == Types /\ [Next]_vars => Types'
<1> SUFFICES ASSUME Types, [Next]_vars PROVE Types'
  OBVIOUS
<1>1. CASE UNCHANGED vars
  BY <1>1 DEF vars, Types, TypeOK
<1>2. ASSUME NEW t \in Tasks, TaskStep(t) PROVE Types'
  <2>1. CASE t = "packets" /\ PacketTask
    BY <2>1, ChooseTypes, PingVideoTypes, QueueTypes DEF PacketTask
  <2>2. CASE t = "neighbours" /\ \E p \in Peers : Mark(p)
    BY <2>2, MarkTypes
  <2> QED BY <1>2, <2>1, <2>2, SentTypes, StoppingTypes, CheckerTypes DEF TaskStep
<1> QED BY <1>1, <1>2, StartTypes DEF Next

LEMMA InitTypes == Init => Types
  BY NodeTasksAssumption DEF Init, Types, TypeOK, JobOK, Idle, Jobs, Stages

\* Every variable keeps its type, and every job what its stage needs.
THEOREM TypeCorrect == Spec => []TypeOK
<1>1. Types => TypeOK
  BY DEF Types
<1> QED BY <1>1, InitTypes, NextTypes, PTL DEF Spec

----
\* A dead route of v is accounted for.
Handled(v) == v \in queue \cup overtaken \/ \E t \in Checkers : Handling(t, v)

TInv == Types /\ DeadRouteIsHandled

\* The job the task t goes on to, and the jobs of the others.
LEMMA GoesFacts ==
  ASSUME Types, NEW t \in Tasks, NEW j, Goes(t, j)
  PROVE  job'[t] = Loop(j) /\ \A s \in Tasks \ {t} : job'[s] = job[s]
  BY DEF Goes, Types, TypeOK

\* A dead route that was dead before stays accounted for if the step of t keeps
\* what was in the queue or overtaken, and what t itself had listed.
LEMMA StaysHandled ==
  ASSUME TInv, NEW v \in Videos, Dead(videoRoutes[v]), videoRoutes'[v] = videoRoutes[v],
         NEW t \in Tasks, \A s \in Tasks \ {t} : job'[s] = job[s],
         v \in queue \cup overtaken => v \in (queue \cup overtaken)',
         t \in Checkers /\ Handling(t, v) => Handling(t, v)' \/ v \in (queue \cup overtaken)'
  PROVE  Handled(v)'
<1>1. v \in queue \cup overtaken \/ \E s \in Checkers : Handling(s, v)
  BY DEF TInv, DeadRouteIsHandled
<1>2. CASE v \in queue \cup overtaken
  BY <1>2 DEF Handled
<1>3. ASSUME NEW s \in Checkers, Handling(s, v) PROVE Handled(v)'
  <2>1. CASE s = t
    BY <1>3, <2>1 DEF Handled
  <2>2. CASE s # t
    <3>1. job'[s] = job[s]
      BY <2>2, TaskKinds
    <3>2. Handling(s, v)'
      BY <1>3, <3>1 DEF Handling
    <3> QED BY <3>2 DEF Handled
  <2> QED BY <2>1, <2>2
<1> QED BY <1>1, <1>2, <1>3

\* A loop that goes on, or goes over to its redirections, keeps what was listed.
LEMMA LoopHandles ==
  ASSUME NEW j \in Jobs, NEW v
  PROVE  /\ j.at = "stopping" /\ v \in j.kept =>
              /\ Loop(j).addr = j.addr
              /\ \/ Loop(j).at = "stopping" /\ v \in Loop(j).kept
                 \/ Loop(j).at = "redirecting" /\ v \in Loop(j).todo
         /\ j.at = "redirecting" /\ v \in j.todo \cup j.kept => Loop(j) = j
<1>1. CASE Loop(j) = j
  BY <1>1
<1>2. CASE j.todo = {} /\ (j.kept = {} \/ j.at = "pinging")
  BY <1>2
<1>3. CASE j.at = "stopping" /\ Loop(j) = For("redirecting", j.addr, j.kept)
  BY <1>3 DEF For
<1> QED BY <1>1, <1>2, <1>3, LoopFacts

\* No task but a checker, at a step that changes no route and no status and
\* takes nothing out of the queue, matters to dead routes.
LEMMA OthersKeep ==
  ASSUME TInv, NEW t \in Tasks \ Checkers, NEW j, Goes(t, j),
         UNCHANGED <<status, videoRoutes, overtaken>>, queue \subseteq queue'
  PROVE  DeadRouteIsHandled'
<1>1. \A s \in Tasks \ {t} : job'[s] = job[s]
  BY GoesFacts DEF TInv
<1>2. ASSUME NEW v \in Videos, Dead(videoRoutes[v])' PROVE Handled(v)'
  <2>1. Dead(videoRoutes[v])
    BY <1>2 DEF Dead
  <2> QED BY <1>1, <2>1, StaysHandled
<1> QED BY <1>2 DEF DeadRouteIsHandled, Handled

\* A peer marked dead: its routes are those of the task that marked it.
LEMMA MarkedKeeps ==
  ASSUME TInv, NEW t \in Checkers, NEW p \in Peers, At(t, "idle"),
         status' = [status EXCEPT ![p] = "Unresponsive"],
         Goes(t, For("marked", p, {})),
         UNCHANGED <<videoRoutes, queue, overtaken>>
  PROVE  DeadRouteIsHandled'
<1>1. t \in Tasks
  BY TaskKinds
<1>2. job'[t] = Loop(For("marked", p, {})) /\ \A s \in Tasks \ {t} : job'[s] = job[s]
  BY <1>1, GoesFacts DEF TInv
<1>3. job'[t].at = "marked" /\ job'[t].addr = p
  BY <1>2 DEF Loop, For, Loops
<1>4. ASSUME NEW v \in Videos, Dead(videoRoutes[v])' PROVE Handled(v)'
  <2>1. CASE videoRoutes[v] = p
    <3>1. Handling(t, v)'
      BY <1>3, <2>1 DEF Handling
    <3> QED BY <3>1 DEF Handled
  <2>2. CASE videoRoutes[v] # p
    <3>1. Dead(videoRoutes[v])
      BY <1>4, <2>2 DEF Dead, TInv, Types, TypeOK
    <3>2. ~Handling(t, v)
      BY DEF At, Handling
    <3> QED BY <1>1, <1>2, <3>1, <3>2, StaysHandled
  <2> QED BY <2>1, <2>2
<1> QED BY <1>4 DEF DeadRouteIsHandled, Handled

\* A flood renews its sender: fewer routes are dead.
LEMMA FloodKeeps ==
  ASSUME TInv, NEW p \in Peers, NEW vs \in SUBSET Videos, FloodPacket(p, vs)
  PROVE  DeadRouteIsHandled'
<1>1. /\ Goes("packets", For("offered", p, vs)) /\ status' = [status EXCEPT ![p] = "Active"]
      /\ UNCHANGED <<videoRoutes, queue, overtaken>>
  BY DEF FloodPacket
<1>2. \A s \in Tasks \ {"packets"} : job'[s] = job[s]
  BY <1>1, TaskKinds, GoesFacts DEF TInv
<1>3. ASSUME NEW v \in Videos, Dead(videoRoutes[v])' PROVE Handled(v)'
  <2>1. Dead(videoRoutes[v])
    BY <1>1, <1>3 DEF Dead, TInv, Types, TypeOK
  <2> QED BY <1>1, <1>2, <2>1, TaskKinds, StaysHandled
<1> QED BY <1>3 DEF DeadRouteIsHandled, Handled

LEMMA StartKeeps ==
  ASSUME TInv, Starts
  PROVE  DeadRouteIsHandled'
<1>1. ASSUME NEW a \in Addrs, NEW v \in Videos, NEW todo, Subscribe(a, v, todo)
      PROVE  DeadRouteIsHandled'
  BY <1>1, TaskKinds, OthersKeep DEF Subscribe
<1>2. ASSUME NEW a \in Subscribers, NEW v \in Videos, RequestVideo(a, v) \/ StopVideo(a, v)
      PROVE  DeadRouteIsHandled'
  BY <1>1, <1>2, TaskKinds, OthersKeep, NodeTasksAssumption DEF RequestVideo, StopVideo
<1>3. ASSUME NEW c \in Clients, NEW requested, ClientPing(c, requested)
      PROVE  DeadRouteIsHandled'
  BY <1>3, TaskKinds, OthersKeep DEF ClientPing
<1>4. ASSUME NEW c \in Clients, ClientSilent(c) PROVE DeadRouteIsHandled'
  BY <1>4, TaskKinds, OthersKeep DEF ClientSilent
<1>5. ASSUME NEW v \in Videos, VideoSilent(v) PROVE DeadRouteIsHandled'
  BY <1>5, TaskKinds, OthersKeep DEF VideoSilent
<1>6. ASSUME NEW silent, Notice(silent) PROVE DeadRouteIsHandled'
  BY <1>6 DEF Notice, TInv, DeadRouteIsHandled, Dead, Handling
<1>7. ASSUME NEW t \in Waiting, NEW p \in Peers, NotAcked(t, p) PROVE DeadRouteIsHandled'
  <2>1. t \in Checkers
    BY DEF Checkers
  <2> QED BY <1>7, <2>1, MarkedKeeps DEF NotAcked, Free
<1> QED BY <1>2, <1>3, <1>4, <1>5, <1>6, <1>7, FloodKeeps, NodeTasksAssumption DEF Starts

\* The packet task: what it asks of a dead peer, and what it takes out of the
\* queue of a video with a dead route, is overtaken.
LEMMA PacketKeeps ==
  ASSUME TInv, PacketTask
  PROVE  DeadRouteIsHandled'
<1> DEFINE old == job["packets"]
<1>1. ASSUME NEW a, NEW v \in Videos, NEW todo, Subscribe(a, v, todo)
      PROVE  DeadRouteIsHandled'
  BY <1>1, TaskKinds, OthersKeep DEF Subscribe
<1>2. CASE Choose
  <2>1. (\E j : Goes("packets", j)) /\ queue \subseteq queue'
        /\ UNCHANGED <<status, videoRoutes, overtaken>>
    BY <1>2 DEF Choose
  <2> QED BY <2>1, TaskKinds, OthersKeep
<1>3. ASSUME NEW v \in Videos, PingVideo(v) PROVE DeadRouteIsHandled'
  BY <1>1, <1>3, TaskKinds, OthersKeep DEF PingVideo
<1>4. CASE ListPending
  BY <1>4, TaskKinds, OthersKeep DEF ListPending
<1>5. ASSUME NEW u \in Videos, AskPending(u) PROVE DeadRouteIsHandled'
  <2>1. /\ Goes("packets", [old EXCEPT !.todo = @ \ {u}])
        /\ videoRoutes' = [videoRoutes EXCEPT ![u] = old.addr]
        /\ Settle({u}, videoRoutes') /\ UNCHANGED <<status, queue>>
    BY <1>5 DEF AskPending
  <2>2. \A s \in Tasks \ {"packets"} : job'[s] = job[s]
    BY <2>1, TaskKinds, GoesFacts DEF TInv
  <2>3. ASSUME NEW v \in Videos, Dead(videoRoutes[v])' PROVE Handled(v)'
    <3>1. CASE v = u
      BY <2>1, <2>3, <3>1 DEF Settle, Dead, Handled
    <3>2. CASE v # u
      <4>1. Dead(videoRoutes[v]) /\ videoRoutes'[v] = videoRoutes[v]
        BY <2>1, <2>3, <3>2 DEF Dead, TInv, Types, TypeOK
      <4>2. v \in queue \cup overtaken => v \in (queue \cup overtaken)'
        BY <2>1, <3>2 DEF Settle
      <4> QED BY <2>2, <4>1, <4>2, TaskKinds, StaysHandled
    <3> QED BY <3>1, <3>2
  <2> QED BY <2>3 DEF DeadRouteIsHandled, Handled
<1>6. CASE ForgetPending
  <2>1. /\ Goes("packets", Idle) /\ queue' = queue \ old.kept
        /\ Settle(old.kept, videoRoutes) /\ UNCHANGED <<status, videoRoutes>>
    BY <1>6 DEF ForgetPending
  <2>2. \A s \in Tasks \ {"packets"} : job'[s] = job[s]
    BY <2>1, TaskKinds, GoesFacts DEF TInv
  <2>3. ASSUME NEW v \in Videos, Dead(videoRoutes[v])' PROVE Handled(v)'
    <3>1. Dead(videoRoutes[v])
      BY <2>1, <2>3 DEF Dead
    <3>2. CASE v \in old.kept
      BY <2>1, <3>1, <3>2 DEF Settle, Handled
    <3>3. CASE v \notin old.kept
      <4>1. v \in queue \cup overtaken => v \in (queue \cup overtaken)'
        BY <2>1, <3>3 DEF Settle
      <4> QED BY <2>1, <2>2, <3>1, <4>1, TaskKinds, StaysHandled
    <3> QED BY <3>2, <3>3
  <2> QED BY <2>3 DEF DeadRouteIsHandled, Handled
<1> QED BY <1>2, <1>3, <1>4, <1>5, <1>6 DEF PacketTask

\* The end of a send, in any task: a route set to a dead peer is overtaken.
LEMMA SentKeeps ==
  ASSUME TInv, NEW t \in Tasks, Sent(t)
  PROVE  DeadRouteIsHandled'
<1> DEFINE old == job[t]
           checked == [old EXCEPT !.at = "redirecting", !.video = NoVideo, !.to = NoRoute]
           new == CASE t = "packets" -> For("pinging", old.addr, old.todo)
                    [] t = "videos" -> Idle
                    [] t \in Checkers -> checked
<1>1. /\ old.at = "sending" /\ Goes(t, new)
      /\ videoRoutes' = [videoRoutes EXCEPT ![old.video] = old.to]
      /\ Settle({old.video}, videoRoutes') /\ UNCHANGED <<status, queue>>
  BY DEF Sent, At
<1>2. job'[t] = Loop(new) /\ \A s \in Tasks \ {t} : job'[s] = job[s]
  BY <1>1, GoesFacts DEF TInv
<1>3. old \in Jobs
  BY DEF TInv, Types, JobOK
<1>4. t \in Checkers => job'[t] = Loop(checked)
  BY <1>2, TaskKinds
<1> HIDE DEF new
<1>5. ASSUME NEW v \in Videos, Dead(videoRoutes[v])' PROVE Handled(v)'
  <2>1. CASE v = old.video
    BY <1>1, <1>5, <2>1 DEF Settle, Dead, Handled
  <2>2. CASE v # old.video
    <3>1. Dead(videoRoutes[v]) /\ videoRoutes'[v] = videoRoutes[v]
      BY <1>1, <1>5, <2>2 DEF Dead, TInv, Types, TypeOK
    <3>2. v \in queue \cup overtaken => v \in (queue \cup overtaken)'
      BY <1>1, <2>2 DEF Settle
    <3>3. ASSUME t \in Checkers, Handling(t, v) PROVE Handling(t, v)'
      <4>1. v \in old.todo \cup old.kept /\ old.addr = videoRoutes[v]
        BY <1>1, <2>2, <3>3 DEF Handling
      <4>2. checked \in Jobs /\ checked.at = "redirecting" /\ v \in checked.todo \cup checked.kept
            /\ checked.addr = videoRoutes[v]
        BY <1>3, <4>1 DEF Jobs, Stages
      <4> HIDE DEF checked
      <4>3. job'[t] = checked
        BY <1>4, <3>3, <4>2, LoopHandles
      <4> QED BY <3>1, <4>2, <4>3 DEF Handling
    <3> QED BY <1>2, <3>1, <3>2, <3>3, StaysHandled
  <2> QED BY <2>1, <2>2
<1> QED BY <1>5 DEF DeadRouteIsHandled, Handled

\* A step of one task that leaves status, routes and `overtaken` alone, and
\* keeps what the task had listed.
LEMMA ListedKeeps ==
  ASSUME TInv, NEW t \in Tasks, NEW j, Goes(t, j),
         UNCHANGED <<status, videoRoutes, queue, overtaken>>,
         \A v \in Videos : t \in Checkers /\ Handling(t, v) => Handling(t, v)'
  PROVE  DeadRouteIsHandled'
<1>1. \A s \in Tasks \ {t} : job'[s] = job[s]
  BY GoesFacts DEF TInv
<1>2. ASSUME NEW v \in Videos, Dead(videoRoutes[v])' PROVE Handled(v)'
  <2>1. Dead(videoRoutes[v])
    BY <1>2 DEF Dead
  <2> QED BY <1>1, <2>1, StaysHandled
<1> QED BY <1>2 DEF DeadRouteIsHandled, Handled

\* Stops, in any task: a checker has listed the dead peer's videos before them.
LEMMA StoppingKeeps ==
  ASSUME TInv, NEW t \in Tasks, Stopping(t)
  PROVE  DeadRouteIsHandled'
<1> DEFINE old == job[t]
<1>1. old \in Jobs
  BY DEF TInv, Types, JobOK
<1>2. ASSUME NEW u \in Videos, Stop(t, u) PROVE DeadRouteIsHandled'
  <2> DEFINE stopped == [old EXCEPT !.todo = @ \ {u}]
             last == [old EXCEPT !.at = "removing", !.video = u, !.todo = @ \ {u}]
             new == IF interested'[u] # {} THEN stopped ELSE last
  <2>1. /\ old.at = "stopping" /\ Goes(t, new)
        /\ UNCHANGED <<status, videoRoutes, queue, overtaken>>
    BY <1>2 DEF Stop, At
  <2>2. job'[t] = Loop(new)
    BY <2>1, GoesFacts DEF TInv
  <2>3. ASSUME NEW v \in Videos, Handling(t, v) PROVE Handling(t, v)'
    <3>1. old.addr = videoRoutes[v] /\ v \in old.kept
      BY <2>1, <2>3 DEF Handling
    <3>2. CASE interested'[u] # {}
      <4>1. /\ stopped \in Jobs /\ stopped.at = "stopping" /\ v \in stopped.kept
            /\ stopped.addr = videoRoutes[v]
        BY <1>1, <2>1, <3>1 DEF Jobs
      <4>2. job'[t] = Loop(stopped)
        BY <2>2, <3>2
      <4> HIDE DEF stopped
      <4> QED BY <2>1, <4>1, <4>2, LoopHandles DEF Handling
    <3>3. CASE interested'[u] = {}
      <4>1. last.at = "removing" /\ v \in last.kept /\ last.addr = videoRoutes[v]
        BY <1>1, <3>1 DEF Jobs
      <4>2. job'[t] = Loop(last)
        BY <2>2, <3>3
      <4> HIDE DEF last
      <4>3. job'[t] = last
        BY <4>1, <4>2 DEF Loop, Loops
      <4> QED BY <2>1, <4>1, <4>3 DEF Handling
    <3> QED BY <3>2, <3>3
  <2> HIDE DEF new
  <2> QED BY <2>1, <2>3, ListedKeeps
<1>3. ASSUME RemoveRoute(t) PROVE DeadRouteIsHandled'
  <2> DEFINE new == [old EXCEPT !.at = "stopping", !.video = NoVideo]
  <2>1. /\ old.at = "removing" /\ Goes(t, new)
        /\ videoRoutes' = [videoRoutes EXCEPT ![old.video] = NoRoute]
        /\ overtaken' = overtaken \ {old.video} /\ UNCHANGED <<status, queue>>
    BY <1>3 DEF RemoveRoute, At
  <2>2. job'[t] = Loop(new) /\ \A s \in Tasks \ {t} : job'[s] = job[s]
    BY <2>1, GoesFacts DEF TInv
  <2>3. ASSUME NEW v \in Videos, Dead(videoRoutes[v])' PROVE Handled(v)'
    <3>1. v # old.video
      BY <2>1, <2>3 DEF Dead, TInv, Types, TypeOK
    <3>2. Dead(videoRoutes[v]) /\ videoRoutes'[v] = videoRoutes[v]
      BY <2>1, <2>3, <3>1 DEF Dead, TInv, Types, TypeOK
    <3>3. v \in queue \cup overtaken => v \in (queue \cup overtaken)'
      BY <2>1, <3>1
    <3>4. ASSUME Handling(t, v) PROVE Handling(t, v)'
      <4>1. /\ new \in Jobs /\ new.at = "stopping" /\ v \in new.kept
            /\ new.addr = videoRoutes[v]
        BY <1>1, <2>1, <3>4 DEF Handling, Jobs, Stages
      <4> HIDE DEF new
      <4> QED BY <2>2, <3>2, <4>1, LoopHandles DEF Handling
    <3> QED BY <2>2, <3>2, <3>3, <3>4, StaysHandled
  <2> QED BY <2>3 DEF DeadRouteIsHandled, Handled
<1> QED BY <1>2, <1>3 DEF Stopping

\* What a checker lists it redirects or queues.
LEMMA CheckerKeeps ==
  ASSUME TInv, NEW t \in Checkers, Checker(t)
  PROVE  DeadRouteIsHandled'
<1> DEFINE old == job[t]
<1>1. old \in Jobs /\ t \in Tasks
  BY TaskKinds DEF TInv, Types, JobOK
<1>2. CASE ListReceiving(t)
  <2> DEFINE new == [old EXCEPT !.at = "listed", !.kept = {v \in Videos : videoRoutes[v] = old.addr}]
  <2>1. /\ old.at = "marked" /\ Goes(t, new)
        /\ UNCHANGED <<status, videoRoutes, queue, overtaken>>
    BY <1>2 DEF ListReceiving, At
  <2>2. job'[t] = Loop(new)
    BY <1>1, <2>1, GoesFacts DEF TInv
  <2>3. new.at = "listed" /\ new.addr = old.addr /\ new.kept = {v \in Videos : videoRoutes[v] = old.addr}
    BY <1>1 DEF Jobs
  <2> HIDE DEF new
  <2>4. job'[t] = new
    BY <2>2, <2>3 DEF Loop, Loops
  <2>5. ASSUME NEW v \in Videos, Handling(t, v) PROVE Handling(t, v)'
    BY <2>1, <2>3, <2>4, <2>5 DEF Handling
  <2> QED BY <1>1, <2>1, <2>5, ListedKeeps
<1>3. CASE ListSending(t)
  <2> DEFINE new == [old EXCEPT !.at = "stopping", !.todo = {v \in Videos : old.addr \in interested[v]}]
  <2>1. /\ old.at = "listed" /\ Goes(t, new)
        /\ UNCHANGED <<status, videoRoutes, queue, overtaken>>
    BY <1>3 DEF ListSending, At
  <2>2. job'[t] = Loop(new)
    BY <1>1, <2>1, GoesFacts DEF TInv
  <2>3. new \in Jobs /\ new.at = "stopping" /\ new.addr = old.addr /\ new.kept = old.kept
    BY <1>1 DEF Jobs, Stages
  <2> HIDE DEF new
  <2>4. ASSUME NEW v \in Videos, Handling(t, v) PROVE Handling(t, v)'
    BY <2>1, <2>2, <2>3, <2>4, LoopHandles DEF Handling
  <2> QED BY <1>1, <2>1, <2>4, ListedKeeps
<1>4. ASSUME NEW u \in Videos, Redirect(t, u) PROVE DeadRouteIsHandled'
  <2> DEFINE queued == [old EXCEPT !.todo = @ \ {u}, !.kept = @ \cup {u}]
             asked(best) == [old EXCEPT !.at = "sending", !.todo = @ \ {u}, !.video = u, !.to = best]
  <2>1. PICK best \in BestNodes(u) :
          Goes(t, IF best = NoRoute THEN [old EXCEPT !.todo = old.todo \ {u}, !.kept = @ \cup {u}]
                  ELSE [old EXCEPT !.at = "sending", !.todo = old.todo \ {u}, !.video = u, !.to = best])
    BY <1>4 DEF Redirect
  <2>2. old.at = "redirecting" /\ UNCHANGED <<status, videoRoutes, queue, overtaken>>
    BY <1>4 DEF Redirect, At
  <2>3. Goes(t, IF best = NoRoute THEN queued ELSE asked(best))
    BY <1>1, <2>1
  <2>4. job'[t] = Loop(IF best = NoRoute THEN queued ELSE asked(best))
    BY <1>1, <2>3, GoesFacts DEF TInv
  <2>5. ASSUME NEW v \in Videos, Handling(t, v) PROVE Handling(t, v)'
    <3>1. old.addr = videoRoutes[v] /\ v \in old.todo \cup old.kept
      BY <2>2, <2>5 DEF Handling
    <3>2. CASE best = NoRoute
      <4>1. /\ queued \in Jobs /\ queued.at = "redirecting" /\ queued.addr = videoRoutes[v]
            /\ v \in queued.todo \cup queued.kept
        BY <1>1, <2>2, <3>1 DEF Jobs
      <4>2. job'[t] = Loop(queued)
        BY <2>4, <3>2
      <4> HIDE DEF queued
      <4>3. job'[t] = queued
        BY <4>1, <4>2, LoopHandles
      <4> QED BY <2>2, <4>1, <4>3 DEF Handling
    <3>3. CASE best # NoRoute
      <4>1. /\ asked(best).at = "sending" /\ asked(best).addr = videoRoutes[v]
            /\ v \in asked(best).todo \cup asked(best).kept \cup {asked(best).video}
        BY <1>1, <3>1 DEF Jobs
      <4>2. job'[t] = Loop(asked(best))
        BY <2>4, <3>3
      <4> HIDE DEF asked
      <4>3. job'[t] = asked(best)
        BY <4>1, <4>2 DEF Loop, Loops
      <4> QED BY <2>2, <4>1, <4>3 DEF Handling
    <3> QED BY <3>2, <3>3
  <2> HIDE DEF queued, asked
  <2> QED BY <1>1, <2>2, <2>3, <2>5, ListedKeeps
<1>5. CASE QueueRemaining(t)
  <2>1. /\ old.at = "redirecting" /\ old.todo = {} /\ Goes(t, Idle)
        /\ queue' = queue \cup old.kept /\ overtaken' = overtaken \ old.kept
        /\ UNCHANGED <<status, videoRoutes>>
    BY <1>5 DEF QueueRemaining, At
  <2>2. \A s \in Tasks \ {t} : job'[s] = job[s]
    BY <1>1, <2>1, GoesFacts DEF TInv
  <2>3. ASSUME NEW v \in Videos, Dead(videoRoutes[v])' PROVE Handled(v)'
    <3>1. Dead(videoRoutes[v])
      BY <2>1, <2>3 DEF Dead
    <3>2. v \in queue \cup overtaken => v \in (queue \cup overtaken)'
      BY <2>1
    <3>3. Handling(t, v) => v \in (queue \cup overtaken)'
      BY <2>1 DEF Handling
    <3> QED BY <1>1, <2>1, <2>2, <3>1, <3>2, <3>3, StaysHandled
  <2> QED BY <2>3 DEF DeadRouteIsHandled, Handled
<1> QED BY <1>2, <1>3, <1>4, <1>5 DEF Checker

LEMMA InitTInv == Init => TInv
  BY InitTypes DEF TInv, Init, DeadRouteIsHandled, Dead

LEMMA NextTInv == TInv /\ [Next]_vars => TInv'
<1> SUFFICES ASSUME TInv, [Next]_vars PROVE DeadRouteIsHandled'
  BY NextTypes DEF TInv
<1>1. CASE UNCHANGED vars
  BY <1>1 DEF vars, TInv, DeadRouteIsHandled, Dead, Handling
<1>2. ASSUME NEW t \in Tasks, TaskStep(t) PROVE DeadRouteIsHandled'
  <2>1. CASE t = "packets" /\ PacketTask
    BY <2>1, PacketKeeps
  <2>2. ASSUME NEW p \in Peers, t = "neighbours", Mark(p) PROVE DeadRouteIsHandled'
    BY <2>2, TaskKinds, MarkedKeeps DEF Mark, Free
  <2> QED BY <1>2, <2>1, <2>2, SentKeeps, StoppingKeeps, CheckerKeeps DEF TaskStep
<1> QED BY <1>1, <1>2, StartKeeps DEF Next

\* Whatever the tasks interleave, no dead route is forgotten but those that a
\* task set, or took out of the queue, too late.
THEOREM DeadRoutesAreHandled == Spec => []DeadRouteIsHandled
<1>1. TInv => DeadRouteIsHandled
  BY DEF TInv
<1> QED BY <1>1, InitTInv, NextTInv, PTL DEF Spec

====

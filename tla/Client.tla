---- MODULE Client ----
(* The state of one client and the tasks that share it: client/src/client.rs *)
(* and the buttons of client/src/ui.rs. A step ends where a task awaits or   *)
(* gives up a lock, so that the choice of a node for a video, the request to *)
(* it and the change of `playing_videos` are steps that other tasks come     *)
(* between. Nodes are the environment: they answer, or fall silent, at any   *)
(* time. Times, delays and the numbers of pings are left out: an answer that *)
(* matches no pending ping changes nothing, and a ping that is sent changes  *)
(* nothing here (Overlay has the pings and what they do at the node).        *)
EXTENDS Integers

CONSTANTS Nodes,       \* points of presence given on the command line
          Videos,
          Queued,      \* `source` of an entry that waits for a node (None)
          Stopped,     \* "playing_videos has no entry"
          NoChoice,    \* "the task is not between a choice and its use"
          MaxPlays     \* bound: presses of Play for each video

ASSUME ClientAssumption ==
  /\ Queued \notin Nodes /\ Stopped \notin Nodes /\ Queued # Stopped
  /\ MaxPlays \in Nat

\* A node, or the wait for one, that a task has chosen for a video.
Choices == [video : Videos, node : Nodes \cup {Queued}]
Choice(v, a) == [video |-> v, node |-> a]

ASSUME NoChoiceAssumption == NoChoice \notin Choices

VARIABLES status,       \* Node.status
          offers,       \* Node.available_videos
          source,       \* PlayingVideo.source of each video
          told,         \* history: the last packet about a video to a node
          presses,      \* history: presses of Play for each video so far
          clicked,      \* Play tasks that are yet to choose a node
          starting,     \* Play tasks between the choice and the player's launch
          stopping,     \* Stop tasks between the removal and their packet
          answerTodo,   \* packet task: queued videos an answer may serve
          answerChoice, \* packet task: the choice it has made for one of them
          writing,      \* packet task: the video packet it holds the entry for
          checkNode,    \* unresponsive task: the node just marked
          checkTodo,    \* unresponsive task: its videos to be redirected
          checkChoice,  \* unresponsive task: the choice made for one of them
          exited        \* the packet task panicked, and the process with it

tasks == <<clicked, starting, stopping, answerTodo, answerChoice, writing, checkNode, checkTodo,
           checkChoice>>
vars == <<status, offers, source, told, presses, tasks, exited>>

Clicks == {[press |-> i, video |-> v] : i \in 1..MaxPlays, v \in Videos}
Plays == {[press |-> i, choice |-> c] : i \in 1..MaxPlays, c \in Choices}

TypeOK ==
  /\ status \in [Nodes -> {"Connecting", "Connected", "Unresponsive"}]
  /\ offers \in [Nodes -> SUBSET Videos]
  /\ source \in [Videos -> Nodes \cup {Queued, Stopped}]
  /\ told \in [Nodes -> [Videos -> {"nothing", "asked", "unsent", "stopped"}]]
  /\ presses \in [Videos -> 0..MaxPlays]
  /\ clicked \subseteq Clicks
  /\ starting \subseteq Plays
  /\ stopping \subseteq Choices
  /\ answerTodo \subseteq Videos
  /\ answerChoice \in Choices \cup {NoChoice}
  /\ writing \in Choices \cup {NoChoice}
  /\ checkNode \in Nodes \cup {Queued}
  /\ checkTodo \subseteq Videos
  /\ checkChoice \in Choices \cup {NoChoice}
  /\ exited \in BOOLEAN

\* State::new.
Init ==
  /\ status = [a \in Nodes |-> "Connecting"]
  /\ offers = [a \in Nodes |-> {}]
  /\ source = [v \in Videos |-> Stopped]
  /\ told = [a \in Nodes |-> [v \in Videos |-> "nothing"]]
  /\ presses = [v \in Videos |-> 0]
  /\ clicked = {} /\ starting = {} /\ stopping = {}
  /\ answerTodo = {} /\ answerChoice = NoChoice /\ writing = NoChoice
  /\ checkNode = Queued /\ checkTodo = {} /\ checkChoice = NoChoice
  /\ exited = FALSE

----
PlayingFrom(a) == {v \in Videos : source[v] = a}

\* select_best_node, for any delays and loads; Queued if there is nobody. First
\* with no look at the status, and with the entry given up in that case.
OfferingAny(v) == {a \in Nodes : v \in offers[a]}
Offering(v) == {a \in Nodes : status[a] = "Connected" /\ v \in offers[a]}
BestNodesOrStop(v) == IF Offering(v) = {} THEN {Stopped} ELSE Offering(v)
BestNodes(v) == IF Offering(v) = {} THEN {Queued} ELSE Offering(v)

\* request_start_video and request_stop_video: an error of send_reliable is
\* logged, and the caller goes on. A request that fails takes nothing back.
Tell(c, what) ==
  told' = [a \in Nodes |-> IF a = c.node THEN [told[a] EXCEPT ![c.video] = what] ELSE told[a]]
Request(c) ==
  \/ Tell(c, "asked")
  \/ IF c.node \in Nodes /\ told[c.node][c.video] # "asked"
     THEN Tell(c, "unsent") ELSE UNCHANGED told
Withdraw(c) == Tell(c, "stopped") \/ UNCHANGED told

\* The entry of v, or every entry, can be locked for writing.
Writable(v) == \A a \in Nodes : writing # Choice(v, a)
AllWritable == writing = NoChoice

\* The packet task is at `receive`, the unresponsive task in its sleep.
Receiving == answerTodo = {} /\ answerChoice = NoChoice /\ writing = NoChoice
Sleeping == checkNode = Queued /\ checkTodo = {} /\ checkChoice = NoChoice

----
\* ui_start_playing: Play is shown for a video that some node offers and that
\* has no entry. It spawns a task ...
Play(v) ==
  /\ presses[v] < MaxPlays
  /\ source[v] = Stopped
  /\ \E a \in Nodes : v \in offers[a]
  /\ presses' = [presses EXCEPT ![v] = @ + 1]
  /\ clicked' = clicked \cup {[press |-> presses'[v], video |-> v]}
  /\ UNCHANGED <<status, offers, source, told, starting, stopping, answerTodo, answerChoice,
                 writing, checkNode, checkTodo, checkChoice, exited>>

\* ... that chooses a node and asks it ...
ChooseForPlay(t) ==
  /\ clicked' = clicked \ {t}
  /\ \E best \in BestNodes(t.video) :
       /\ Request(Choice(t.video, best))
       /\ starting' = starting \cup {[press |-> t.press, choice |-> Choice(t.video, best)]}
  /\ UNCHANGED <<status, offers, source, presses, stopping, answerTodo, answerChoice, writing,
                 checkNode, checkTodo, checkChoice, exited>>

\* ... and makes the entry when the player runs, in place of any other entry.
StartVideoProcess(t) ==
  /\ Writable(t.choice.video)
  /\ starting' = starting \ {t}
  /\ source' = [source EXCEPT ![t.choice.video] = t.choice.node]
  /\ UNCHANGED <<status, offers, told, presses, clicked, stopping, answerTodo, answerChoice,
                 writing, checkNode, checkTodo, checkChoice, exited>>

\* The player cannot be launched: nothing is played, the request stands.
LaunchFails(t) ==
  /\ starting' = starting \ {t}
  /\ UNCHANGED <<status, offers, source, told, presses, clicked, stopping, answerTodo,
                 answerChoice, writing, checkNode, checkTodo, checkChoice, exited>>

\* ui_stop_playing_id: the entry goes first ...
Stop(v) ==
  /\ source[v] # Stopped
  /\ Writable(v)
  /\ source' = [source EXCEPT ![v] = Stopped]
  /\ stopping' = IF source[v] = Queued THEN stopping
                                       ELSE stopping \cup {Choice(v, source[v])}
  /\ UNCHANGED <<status, offers, told, presses, clicked, starting, answerTodo, answerChoice,
                 writing, checkNode, checkTodo, checkChoice, exited>>

\* ... and its source is told next.
SendStop(c) ==
  /\ stopping' = stopping \ {c}
  /\ Withdraw(c)
  /\ UNCHANGED <<status, offers, source, presses, clicked, starting, answerTodo, answerChoice,
                 writing, checkNode, checkTodo, checkChoice, exited>>

----
\* handle_ping_answer without the look at the queued videos.
AnswerOnly(a, vs) ==
  /\ Receiving
  /\ status' = [status EXCEPT ![a] = "Connected"]
  /\ offers' = [offers EXCEPT ![a] = vs]
  /\ UNCHANGED <<source, told, presses, tasks, exited>>

\* handle_ping_answer: the node is connected, the queued videos it offers are
\* listed ...
HandlePingAnswer(a, vs) ==
  /\ Receiving
  /\ status' = [status EXCEPT ![a] = "Connected"]
  /\ offers' = [offers EXCEPT ![a] = vs]
  /\ answerTodo' = {v \in vs : source[v] = Queued}
  /\ UNCHANGED <<source, told, presses, clicked, starting, stopping, answerChoice, writing,
                 checkNode, checkTodo, checkChoice, exited>>

\* ... for each of them a node is chosen again, and asked ...
ChooseForQueued(v) ==
  /\ v \in answerTodo /\ answerChoice = NoChoice
  /\ answerTodo' = answerTodo \ {v}
  /\ \E best \in BestNodes(v) : /\ answerChoice' = Choice(v, best)
                               /\ Request(Choice(v, best))
  /\ UNCHANGED <<status, offers, source, presses, clicked, starting, stopping, writing, checkNode,
                 checkTodo, checkChoice, exited>>

\* ... and after the await the entry is looked up and unwrapped: if it is gone
\* the packet task panics, and main ends the process.
AssignQueued ==
  /\ answerChoice # NoChoice
  /\ answerChoice' = NoChoice
  /\ exited' = (source[answerChoice.video] = Stopped)
  /\ source' = [source EXCEPT ![answerChoice.video] =
                  IF @ = Stopped THEN @ ELSE answerChoice.node]
  /\ UNCHANGED <<status, offers, told, presses, clicked, starting, stopping, answerTodo, writing,
                 checkNode, checkTodo, checkChoice>>

\* handle_video_packet: the entry's guard is held while the packet waits for
\* room in the player's channel.
ReceiveVideo(v, a) ==
  /\ Receiving
  /\ source[v] # Stopped
  /\ writing' = Choice(v, a)
  /\ UNCHANGED <<status, offers, source, told, presses, clicked, starting, stopping, answerTodo,
                 answerChoice, checkNode, checkTodo, checkChoice, exited>>

PlayerTakes ==
  /\ writing # NoChoice
  /\ writing' = NoChoice
  /\ UNCHANGED <<status, offers, source, told, presses, clicked, starting, stopping, answerTodo,
                 answerChoice, checkNode, checkTodo, checkChoice, exited>>

\* PlayerGone with the entry left where it is.
PlayerGoneKept ==
  /\ writing # NoChoice
  /\ writing' = NoChoice
  /\ Withdraw(writing)
  /\ UNCHANGED <<status, offers, source, presses, clicked, starting, stopping, answerTodo,
                 answerChoice, checkNode, checkTodo, checkChoice, exited>>

\* The player is gone: the node this packet came from, which need not be the
\* video's source, is told to stop, and the entry is removed.
PlayerGone ==
  /\ writing # NoChoice
  /\ writing' = NoChoice
  /\ Withdraw(writing)
  /\ source' = [source EXCEPT ![writing.video] = Stopped]
  /\ UNCHANGED <<status, offers, presses, clicked, starting, stopping, answerTodo, answerChoice,
                 checkNode, checkTodo, checkChoice, exited>>

----
\* handle_unresponsive_pings_nodes_task: a connected node has not answered for
\* more than three intervals and is marked ...
MarkUnresponsive(a) ==
  /\ Sleeping
  /\ status[a] = "Connected"
  /\ status' = [status EXCEPT ![a] = "Unresponsive"]
  /\ checkNode' = a
  /\ UNCHANGED <<offers, source, told, presses, clicked, starting, stopping, answerTodo,
                 answerChoice, writing, checkTodo, checkChoice, exited>>

\* ... the videos played from it are listed, which locks every entry ...
ListPlaying ==
  /\ checkNode # Queued
  /\ AllWritable
  /\ checkNode' = Queued
  /\ checkTodo' = PlayingFrom(checkNode)
  /\ UNCHANGED <<status, offers, source, told, presses, clicked, starting, stopping, answerTodo,
                 answerChoice, writing, checkChoice, exited>>

\* ... each is asked of the best node left, or of nobody ...
ChooseForPlaying(v) ==
  /\ v \in checkTodo /\ checkChoice = NoChoice
  /\ checkTodo' = checkTodo \ {v}
  /\ \E best \in BestNodes(v) : /\ checkChoice' = Choice(v, best)
                               /\ Request(Choice(v, best))
  /\ UNCHANGED <<status, offers, source, presses, clicked, starting, stopping, answerTodo,
                 answerChoice, writing, checkNode, exited>>

\* AssignPlaying as an insert.
InsertPlaying ==
  /\ checkChoice # NoChoice
  /\ Writable(checkChoice.video)
  /\ checkChoice' = NoChoice
  /\ source' = [source EXCEPT ![checkChoice.video] = checkChoice.node]
  /\ UNCHANGED <<status, offers, told, presses, clicked, starting, stopping, answerTodo,
                 answerChoice, writing, checkNode, checkTodo, exited>>

\* ... and has that source if it still has an entry.
AssignPlaying ==
  /\ checkChoice # NoChoice
  /\ Writable(checkChoice.video)
  /\ checkChoice' = NoChoice
  /\ source' = [source EXCEPT ![checkChoice.video] =
                  IF @ = Stopped THEN @ ELSE checkChoice.node]
  /\ UNCHANGED <<status, offers, told, presses, clicked, starting, stopping, answerTodo,
                 answerChoice, writing, checkNode, checkTodo, exited>>

----
Buttons == \/ \E v \in Videos : Play(v) \/ Stop(v)
           \/ \E t \in clicked : ChooseForPlay(t)
           \/ \E t \in starting : StartVideoProcess(t) \/ LaunchFails(t)
           \/ \E c \in stopping : SendStop(c)

PacketTask == \/ \E a \in Nodes, vs \in SUBSET Videos : HandlePingAnswer(a, vs)
              \/ \E v \in Videos : ChooseForQueued(v)
              \/ AssignQueued
              \/ \E v \in Videos, a \in Nodes : ReceiveVideo(v, a)
              \/ PlayerTakes
              \/ PlayerGone

UnresponsiveTask == \/ \E a \in Nodes : MarkUnresponsive(a)
                    \/ ListPlaying
                    \/ \E v \in Videos : ChooseForPlaying(v)
                    \/ AssignPlaying

Next == ~exited /\ (Buttons \/ PacketTask \/ UnresponsiveTask)

Spec == Init /\ [][Next]_vars

\* Tasks that are awake go on, and nodes are pinged. A node that is connected, and
\* is never marked, repeats its answer some time, as the check would mark it
\* otherwise. Players are assumed to go on reading: one that is paused stops
\* the packet task.
FairSpec ==
  /\ Spec
  /\ WF_vars(~exited /\ (\/ AssignQueued \/ \E v \in Videos : ChooseForQueued(v)))
  /\ WF_vars(~exited /\ (PlayerTakes \/ PlayerGone))
  /\ WF_vars(~exited /\ \E t \in clicked : ChooseForPlay(t))
  /\ WF_vars(~exited /\ \E t \in starting : StartVideoProcess(t) \/ LaunchFails(t))
  /\ \A a \in Nodes : SF_vars(/\ ~exited /\ status[a] = "Connected"
                             /\ HandlePingAnswer(a, offers[a]))

----
\* Only Play starts a video: whatever the redirections of the two tasks have
\* chosen in the meantime, a video that was stopped stays stopped.
OnlyPlayStarts ==
  [][\A v \in Videos : (source[v] = Stopped /\ source'[v] # Stopped)
       => \E t \in starting \ starting' : t.choice.video = v]_vars

\* Played from a node that was found dead, and the unresponsive task is done
\* with the video.
LeftBehind(v) ==
  /\ source[v] \in Nodes /\ status[source[v]] = "Unresponsive"
  /\ checkNode # source[v] /\ v \notin checkTodo
  /\ \A a \in Nodes \cup {Queued} : checkChoice # Choice(v, a)

\* report/src/main.typ:195: "todas as streams" of an unresponsive node are
\* redirected. None is left behind, however the tasks and buttons interleave,
\* but for one whose node was chosen earlier and is stored too late: by Play,
\* once the player runs, or by an answer.
OnlyLateChoicesAreLeft ==
  [][\A v \in Videos : (~LeftBehind(v) /\ LeftBehind(v)') =>
       \/ \E t \in starting \ starting' : t.choice = Choice(v, source'[v])
       \/ answerChoice = Choice(v, source'[v]) /\ answerChoice' = NoChoice]_vars

\* report/src/main.typ:197: a queued video is asked of a node that offers it
\* and goes on: not one that a race has queued stays queued while a node that
\* offers it stays connected.
QueuedIsServed ==
  \A v \in Videos, a \in Nodes :
    <>[](status[a] = "Connected" /\ v \in offers[a])
      => []<>(source[v] # Queued \/ exited)

\* Whatever the tasks interleave, the source of a video is a node that was asked
\* for it and not told to stop since. A request that could not be sent may
\* leave a source unasked; told to stop it is only if Play was pressed again:
\* the StopVideo of what was played before may then be sent after the new
\* request (client.rs:181, 261).
SourceIsAsked ==
  \A v \in Videos, a \in Nodes :
    source[v] = a => \/ told[a][v] \in {"asked", "unsent"}
                     \/ told[a][v] = "stopped" /\ presses[v] > 1

----
\* client/src/client.rs:230 asserts, by an unwrap, that the video to be
\* redirected still has its entry after the await.
RedirectedIsPlaying == ~exited

====

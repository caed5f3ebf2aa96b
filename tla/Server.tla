---- MODULE Server ----
(* A server: server/src/server.rs. The folder watch starts a task for each    *)
(* file whose name `videos` does not have; the task makes the entry when      *)
(* ffmpeg runs and then numbers and sends what ffmpeg gives it, as long as    *)
(* somebody is interested. Between the look at `videos` and the entry is the  *)
(* time ffmpeg takes to start, longer or shorter than the 3 s of the watch.   *)
(* Nodes are the environment; times, file names and stream data are left out. *)
EXTENDS Integers

CONSTANTS Nodes,        \* addresses of nodes
          Files,        \* what the video folder may hold
          Videos,
          VideoOf,      \* the id of a file's name, which has no extension
          Neighbours,   \* what the bootstrapper tells the server
          MaxStarts     \* bound: tasks started, by the process and those after it

ASSUME ServerAssumption ==
  /\ VideoOf \in [Files -> Videos]
  /\ Neighbours \subseteq Nodes
  /\ MaxStarts \in Nat

VARIABLES starts,      \* history: tasks started so far
          tasks,       \* the tasks of start_streaming_video
          listed,      \* keys of `videos`
          interested,  \* Video.interested of each key
          number,      \* Video.sequence_number of each key
          neighbours   \* where floods go to

serverVars == <<starts, tasks, listed, interested, number, neighbours>>

\* A task waits for ffmpeg to start, then for its packets.
Task(nr, v, stage) == [nr |-> nr, video |-> v, stage |-> stage]
Tasks == [nr : 1..MaxStarts, video : Videos, stage : {"starting", "streaming"}]

ServerTypeOK ==
  /\ starts \in 0..MaxStarts
  /\ tasks \subseteq Tasks
  /\ listed \subseteq Videos
  /\ interested \in [Videos -> SUBSET Nodes]
  /\ number \in [Videos -> Nat]
  /\ neighbours \subseteq Nodes

\* State::new.
ServerInit ==
  /\ starts = 0
  /\ tasks = {}
  /\ listed = {}
  /\ interested = [v \in Videos |-> {}]
  /\ number = [v \in Videos |-> 0]
  /\ neighbours = Neighbours

----
\* watch_video_folder at one file. A name without an entry is started, even if
\* a task for it is under way or another file has the same name.
WatchFile(f) ==
  /\ starts < MaxStarts
  /\ VideoOf[f] \notin listed
  /\ starts' = starts + 1
  /\ tasks' = tasks \cup {Task(starts', VideoOf[f], "starting")}
  /\ UNCHANGED <<listed, interested, number, neighbours>>

\* start_streaming_video once ffmpeg runs: the new entry takes the place of
\* any other of that name, with its subscribers and its number. First with a
\* number to come that is a packet too early.
InsertEarly(t) ==
  /\ t.stage = "starting"
  /\ tasks' = (tasks \ {t}) \cup {Task(t.nr, t.video, "streaming")}
  /\ listed' = listed \cup {t.video}
  /\ interested' = [interested EXCEPT ![t.video] = {}]
  /\ number' = [number EXCEPT ![t.video] = -1]
  /\ UNCHANGED <<starts, neighbours>>

InsertVideo(t) ==
  /\ t.stage = "starting"
  /\ tasks' = (tasks \ {t}) \cup {Task(t.nr, t.video, "streaming")}
  /\ listed' = listed \cup {t.video}
  /\ interested' = [interested EXCEPT ![t.video] = {}]
  /\ number' = [number EXCEPT ![t.video] = 0]
  /\ UNCHANGED <<starts, neighbours>>

\* ffmpeg does not start, no codec is found, or the file is gone; or ffmpeg
\* ends. The task ends, and an entry stays.
TaskEnds(t) ==
  /\ tasks' = tasks \ {t}
  /\ UNCHANGED <<starts, listed, interested, number, neighbours>>

\* A packet of ffmpeg: numbered and sent to the subscribers, while the entry is
\* locked. The sends go on to the first that fails: `to` are those before it.
\* Without a subscriber the packet is thrown away.
StreamPacket(t, to) ==
  /\ t.stage = "streaming"
  /\ interested[t.video] # {}
  /\ to \subseteq interested[t.video]
  /\ number' = [number EXCEPT ![t.video] = @ + 1]
  /\ UNCHANGED <<starts, tasks, listed, interested, neighbours>>

\* run_client_socket. First with a neighbour that is not kept.
NewNeighbourIgnored(a) == a \in Nodes /\ UNCHANGED serverVars

HandleRequestVideo(a, v) ==
  /\ interested' = IF v \in listed THEN [interested EXCEPT ![v] = @ \cup {a}] ELSE interested
  /\ UNCHANGED <<starts, tasks, listed, number, neighbours>>

HandleStopVideo(a, v) ==
  /\ interested' = [interested EXCEPT ![v] = @ \ {a}]
  /\ UNCHANGED <<starts, tasks, listed, number, neighbours>>

HandleNewNeighbour(a) ==
  /\ neighbours' = neighbours \cup {a}
  /\ UNCHANGED <<starts, tasks, listed, interested, number>>

\* The process ends, by a crash, ctrl-c or a flood that cannot be sent, and
\* another starts.
ServerRestart ==
  /\ tasks' = {}
  /\ listed' = {}
  /\ interested' = [v \in Videos |-> {}]
  /\ number' = [v \in Videos |-> 0]
  /\ neighbours' = Neighbours
  /\ UNCHANGED starts

====

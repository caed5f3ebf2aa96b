---- MODULE ClientProofs ----
(* Proofs about Client for every set of nodes and videos.                    *)
EXTENDS Client, TLAPS

LEMMA InitTypeOK == Init => TypeOK
<1> SUFFICES ASSUME Init PROVE TypeOK
  OBVIOUS
<1>1. /\ status \in [Nodes -> {"Connecting", "Connected", "Unresponsive"}]
      /\ offers \in [Nodes -> SUBSET Videos]
      /\ source \in [Videos -> Nodes \cup {Queued, Stopped}]
      /\ told \in [Nodes -> [Videos -> {"nothing", "asked", "unsent", "stopped"}]]
  BY DEF Init
<1>2. presses \in [Videos -> 0..MaxPlays]
  BY ClientAssumption DEF Init
<1>3. /\ clicked \subseteq Clicks /\ starting \subseteq Plays /\ stopping \subseteq Choices
      /\ answerTodo \subseteq Videos /\ checkTodo \subseteq Videos
      /\ checkNode \in Nodes \cup {Queued}
      /\ exited \in BOOLEAN
  BY DEF Init
<1>4. /\ answerChoice \in Choices \cup {NoChoice}
      /\ writing \in Choices \cup {NoChoice}
      /\ checkChoice \in Choices \cup {NoChoice}
  BY Zenon DEF Init
<1> QED BY <1>1, <1>2, <1>3, <1>4 DEF TypeOK

\* What a task chooses is a choice, and asking or telling keeps the history.
LEMMA BestNodesAreChoices ==
  ASSUME NEW v \in Videos, NEW best \in BestNodes(v)
  PROVE  Choice(v, best) \in Choices
  BY DEF BestNodes, Offering, Choice, Choices

LEMMA ToldIsTyped ==
  ASSUME TypeOK, NEW c \in Choices, Request(c) \/ Withdraw(c)
  PROVE  told' \in [Nodes -> [Videos -> {"nothing", "asked", "unsent", "stopped"}]]
<1>1. ASSUME NEW what \in {"asked", "unsent", "stopped"}, Tell(c, what)
      PROVE  told' \in [Nodes -> [Videos -> {"nothing", "asked", "unsent", "stopped"}]]
  BY <1>1 DEF Tell, TypeOK
<1>2. CASE UNCHANGED told
  BY <1>2 DEF TypeOK
<1> QED BY <1>1, <1>2 DEF Request, Withdraw

----
LEMMA ButtonsTypeOK == TypeOK /\ Buttons => TypeOK'
<1> SUFFICES ASSUME TypeOK, Buttons PROVE TypeOK'
  OBVIOUS
<1> USE DEF TypeOK
<1>1. ASSUME NEW v \in Videos, Play(v) PROVE TypeOK'
  <2>1. presses[v] + 1 \in 1..MaxPlays
    BY <1>1, ClientAssumption DEF Play
  <2>2. presses' \in [Videos -> 0..MaxPlays] /\ presses'[v] \in 1..MaxPlays
    BY <1>1, <2>1 DEF Play
  <2>3. clicked' \subseteq Clicks
    BY <1>1, <2>2 DEF Play, Clicks
  <2> QED BY <1>1, <2>2, <2>3 DEF Play
<1>6. ASSUME NEW t \in clicked, ChooseForPlay(t) PROVE TypeOK'
  <2>1. PICK best \in BestNodes(t.video) :
          /\ Request(Choice(t.video, best))
          /\ starting' = starting \cup {[press |-> t.press, choice |-> Choice(t.video, best)]}
    BY <1>6 DEF ChooseForPlay
  <2>2. t.video \in Videos /\ t.press \in 1..MaxPlays
    BY DEF Clicks
  <2>3. Choice(t.video, best) \in Choices
    BY <2>2, BestNodesAreChoices
  <2>4. told' \in [Nodes -> [Videos -> {"nothing", "asked", "unsent", "stopped"}]]
    BY <2>1, <2>3, ToldIsTyped
  <2>5. starting' \subseteq Plays
    BY <2>1, <2>2, <2>3 DEF Plays
  <2> QED BY <1>6, <2>4, <2>5 DEF ChooseForPlay
<1>2. ASSUME NEW v \in Videos, Stop(v) PROVE TypeOK'
  <2>1. source[v] # Queued => Choice(v, source[v]) \in Choices
    BY <1>2 DEF Stop, Choice, Choices
  <2> QED BY <1>2, <2>1 DEF Stop
<1>3. ASSUME NEW t \in starting, StartVideoProcess(t) PROVE TypeOK'
  <2>1. t.choice.video \in Videos /\ t.choice.node \in Nodes \cup {Queued}
    BY DEF Plays, Choices
  <2> QED BY <1>3, <2>1 DEF StartVideoProcess
<1>4. ASSUME NEW t \in starting, LaunchFails(t) PROVE TypeOK'
  BY <1>4 DEF LaunchFails
<1>5. ASSUME NEW c \in stopping, SendStop(c) PROVE TypeOK'
  <2>1. told' \in [Nodes -> [Videos -> {"nothing", "asked", "unsent", "stopped"}]]
    BY <1>5, ToldIsTyped DEF SendStop
  <2> QED BY <1>5, <2>1 DEF SendStop
<1> QED BY <1>1, <1>2, <1>3, <1>4, <1>5, <1>6 DEF Buttons

LEMMA PacketTypeOK == TypeOK /\ PacketTask => TypeOK'
<1> SUFFICES ASSUME TypeOK, PacketTask PROVE TypeOK'
  OBVIOUS
<1> USE DEF TypeOK
<1>1. ASSUME NEW a \in Nodes, NEW vs \in SUBSET Videos, HandlePingAnswer(a, vs) PROVE TypeOK'
  BY <1>1 DEF HandlePingAnswer
<1>2. ASSUME NEW v \in Videos, ChooseForQueued(v) PROVE TypeOK'
  <2>1. PICK best \in BestNodes(v) :
          answerChoice' = Choice(v, best) /\ Request(Choice(v, best))
    BY <1>2 DEF ChooseForQueued
  <2>2. Choice(v, best) \in Choices
    BY BestNodesAreChoices
  <2>3. told' \in [Nodes -> [Videos -> {"nothing", "asked", "unsent", "stopped"}]]
    BY <2>1, <2>2, ToldIsTyped
  <2> QED BY <1>2, <2>1, <2>2, <2>3 DEF ChooseForQueued
<1>3. CASE AssignQueued
  BY <1>3 DEF AssignQueued, Choices
<1>4. ASSUME NEW v \in Videos, NEW a \in Nodes, ReceiveVideo(v, a) PROVE TypeOK'
  BY <1>4 DEF ReceiveVideo, Choice, Choices
<1>5. CASE PlayerTakes
  BY <1>5 DEF PlayerTakes
<1>6. CASE PlayerGone
  <2>1. writing \in Choices
    BY <1>6 DEF PlayerGone
  <2>2. told' \in [Nodes -> [Videos -> {"nothing", "asked", "unsent", "stopped"}]]
    BY <1>6, <2>1, ToldIsTyped DEF PlayerGone
  <2>3. source' \in [Videos -> Nodes \cup {Queued, Stopped}]
    BY <1>6 DEF PlayerGone
  <2> QED BY <1>6, <2>2, <2>3 DEF PlayerGone
<1> QED BY <1>1, <1>2, <1>3, <1>4, <1>5, <1>6 DEF PacketTask

LEMMA UnresponsiveTypeOK == TypeOK /\ UnresponsiveTask => TypeOK'
<1> SUFFICES ASSUME TypeOK, UnresponsiveTask PROVE TypeOK'
  OBVIOUS
<1> USE DEF TypeOK
<1>1. ASSUME NEW a \in Nodes, MarkUnresponsive(a) PROVE TypeOK'
  BY <1>1 DEF MarkUnresponsive
<1>2. CASE ListPlaying
  BY <1>2 DEF ListPlaying, PlayingFrom
<1>3. ASSUME NEW v \in Videos, ChooseForPlaying(v) PROVE TypeOK'
  <2>1. PICK best \in BestNodes(v) :
          checkChoice' = Choice(v, best) /\ Request(Choice(v, best))
    BY <1>3 DEF ChooseForPlaying
  <2>2. Choice(v, best) \in Choices
    BY BestNodesAreChoices
  <2>3. told' \in [Nodes -> [Videos -> {"nothing", "asked", "unsent", "stopped"}]]
    BY <2>1, <2>2, ToldIsTyped
  <2> QED BY <1>3, <2>1, <2>2, <2>3 DEF ChooseForPlaying
<1>4. CASE AssignPlaying
  BY <1>4 DEF AssignPlaying, Choices
<1> QED BY <1>1, <1>2, <1>3, <1>4 DEF UnresponsiveTask

LEMMA NextTypeOK == TypeOK /\ [Next]_vars => TypeOK'
<1> SUFFICES ASSUME TypeOK, [Next]_vars PROVE TypeOK'
  OBVIOUS
<1>1. CASE UNCHANGED vars
  BY <1>1 DEF vars, tasks, TypeOK
<1> QED BY <1>1, ButtonsTypeOK, PacketTypeOK, UnresponsiveTypeOK DEF Next

\* Every variable keeps its type.
THEOREM TypeCorrect == Spec => []TypeOK
  BY InitTypeOK, NextTypeOK, PTL DEF Spec

----
\* An entry appears only where StartVideoProcess puts it.
LEMMA OnlyLaunchInserts ==
  ASSUME TypeOK, Next, NEW v \in Videos, source[v] = Stopped, source'[v] # Stopped
  PROVE  \E t \in starting \ starting' : t.choice.video = v
<1> USE DEF TypeOK
<1>1. ASSUME NEW t \in starting, StartVideoProcess(t)
      PROVE  \E u \in starting \ starting' : u.choice.video = v
  <2>1. source' = [source EXCEPT ![t.choice.video] = t.choice.node] /\ t \notin starting'
    BY <1>1 DEF StartVideoProcess
  <2>2. t.choice.video = v
    BY <2>1
  <2> QED BY <2>1, <2>2
<1>2. ASSUME NEW u \in Videos, Stop(u) PROVE FALSE
  BY <1>2 DEF Stop
<1>3. CASE AssignQueued
  BY <1>3 DEF AssignQueued
<1>4. CASE AssignPlaying
  BY <1>4 DEF AssignPlaying
<1>5. CASE PlayerGone
  BY <1>5 DEF PlayerGone
<1>6. ASSUME \/ \E u \in Videos : Play(u)
             \/ \E t \in clicked : ChooseForPlay(t)
             \/ \E t \in starting : LaunchFails(t)
             \/ \E c \in stopping : SendStop(c)
             \/ \E a \in Nodes, vs \in SUBSET Videos : HandlePingAnswer(a, vs)
             \/ \E u \in Videos : ChooseForQueued(u)
             \/ \E u \in Videos, a \in Nodes : ReceiveVideo(u, a)
             \/ PlayerTakes
             \/ \E a \in Nodes : MarkUnresponsive(a)
             \/ ListPlaying
             \/ \E u \in Videos : ChooseForPlaying(u)
      PROVE  source' = source
  BY <1>6 DEF Play, ChooseForPlay, LaunchFails, SendStop, HandlePingAnswer,
              ChooseForQueued, ReceiveVideo, PlayerTakes, MarkUnresponsive, ListPlaying, ChooseForPlaying
<1> QED BY <1>1, <1>2, <1>3, <1>4, <1>5, <1>6
        DEF Next, Buttons, PacketTask, UnresponsiveTask

\* Whatever the two tasks have chosen meanwhile, only Play starts a video.
THEOREM StoppedStaysStopped == Spec => OnlyPlayStarts
<1>1. TypeOK /\ [Next]_vars =>
        [\A v \in Videos : (source[v] = Stopped /\ source'[v] # Stopped)
           => \E t \in starting \ starting' : t.choice.video = v]_vars
  BY OnlyLaunchInserts
<1> QED BY <1>1, TypeCorrect, PTL DEF Spec, OnlyPlayStarts

----
\* The unresponsive task does one thing at a time, and what it has chosen stays
\* connected until it is stored, as nobody else marks a node.
CheckInv ==
  /\ checkNode # Queued => checkTodo = {} /\ checkChoice = NoChoice
  /\ \A v \in Videos, a \in Nodes : checkChoice = Choice(v, a) => status[a] = "Connected"

\* The steps that leave the unresponsive task alone, and mark no node.
LEMMA OthersKeepCheck ==
  ASSUME CheckInv, UNCHANGED <<checkNode, checkTodo, checkChoice>>,
         \A a \in Nodes : status'[a] = status[a] \/ status'[a] = "Connected"
  PROVE  CheckInv'
  BY DEF CheckInv

LEMMA OthersMark ==
  ASSUME TypeOK, Buttons \/ PacketTask
  PROVE  /\ UNCHANGED <<checkNode, checkTodo, checkChoice>>
         /\ \A a \in Nodes : status'[a] = status[a] \/ status'[a] = "Connected"
<1>1. ASSUME NEW a \in Nodes, NEW vs \in SUBSET Videos, HandlePingAnswer(a, vs)
      PROVE  /\ UNCHANGED <<checkNode, checkTodo, checkChoice>>
             /\ \A b \in Nodes : status'[b] = status[b] \/ status'[b] = "Connected"
  BY <1>1 DEF HandlePingAnswer, TypeOK
<1>2. CASE \/ Buttons
           \/ \E v \in Videos : ChooseForQueued(v)
           \/ AssignQueued
           \/ \E v \in Videos, a \in Nodes : ReceiveVideo(v, a)
           \/ PlayerTakes \/ PlayerGone
  <2>1. UNCHANGED <<status, checkNode, checkTodo, checkChoice>>
    BY <1>2 DEF Buttons, Play, ChooseForPlay, Stop, StartVideoProcess, LaunchFails, SendStop,
                ChooseForQueued, AssignQueued, ReceiveVideo, PlayerTakes, PlayerGone
  <2> QED BY <2>1
<1> QED BY <1>1, <1>2 DEF PacketTask

LEMMA CheckStep == TypeOK /\ CheckInv /\ [Next]_vars => CheckInv'
<1> SUFFICES ASSUME TypeOK, CheckInv, [Next]_vars PROVE CheckInv'
  OBVIOUS
<1>0. \A v \in Videos, a \in Nodes : Choice(v, a) # NoChoice
  BY NoChoiceAssumption DEF Choice, Choices
<1>1. CASE UNCHANGED vars
  BY <1>1, OthersKeepCheck DEF vars, tasks
<1>2. ASSUME NEW a \in Nodes, MarkUnresponsive(a) PROVE CheckInv'
  BY <1>0, <1>2 DEF MarkUnresponsive, Sleeping, CheckInv
<1>3. CASE ListPlaying
  BY <1>0, <1>3 DEF ListPlaying, CheckInv
<1>4. ASSUME NEW v \in Videos, ChooseForPlaying(v) PROVE CheckInv'
  <2>1. PICK best \in BestNodes(v) : checkChoice' = Choice(v, best)
    BY <1>4 DEF ChooseForPlaying
  <2>2. checkNode' = Queued /\ status' = status
    BY <1>4 DEF ChooseForPlaying, CheckInv
  <2>3. ASSUME NEW u \in Videos, NEW a \in Nodes, checkChoice' = Choice(u, a)
        PROVE  status[a] = "Connected"
    <3>1. best = a
      BY <2>1, <2>3 DEF Choice
    <3>2. best \in Offering(v)
      BY <3>1, ClientAssumption DEF BestNodes
    <3> QED BY <3>1, <3>2 DEF Offering
  <2> QED BY <2>2, <2>3 DEF CheckInv
<1>5. CASE AssignPlaying
  BY <1>0, <1>5 DEF AssignPlaying, CheckInv
<1> QED BY <1>1, <1>2, <1>3, <1>4, <1>5, OthersMark, OthersKeepCheck
        DEF Next, UnresponsiveTask

LEMMA InitCheck == Init => CheckInv
<1>1. \A v \in Videos, a \in Nodes : Choice(v, a) # NoChoice
  BY NoChoiceAssumption DEF Choice, Choices
<1> QED BY <1>1 DEF Init, CheckInv

----
\* Stored by Play or by an answer in this step.
StoredLate(v) ==
  \/ \E t \in starting \ starting' : t.choice = Choice(v, source'[v])
  \/ answerChoice = Choice(v, source'[v]) /\ answerChoice' = NoChoice

\* A step that changes neither the source of v nor what the unresponsive task
\* is at, and marks no node, does not leave v behind.
LEMMA OthersLeaveNone ==
  ASSUME TypeOK, TypeOK', NEW v \in Videos, LeftBehind(v)', source'[v] = source[v],
         UNCHANGED <<checkNode, checkTodo, checkChoice>>,
         \A a \in Nodes : status'[a] = status[a] \/ status'[a] = "Connected"
  PROVE  LeftBehind(v)
  BY DEF LeftBehind

LEMMA OnlyStoredLate ==
  ASSUME TypeOK, TypeOK', CheckInv, Next, NEW v \in Videos, ~LeftBehind(v), LeftBehind(v)'
  PROVE  StoredLate(v)
<1>0. /\ source'[v] \in Nodes /\ status'[source'[v]] = "Unresponsive"
      /\ checkNode' # source'[v] /\ v \notin checkTodo'
      /\ \A a \in Nodes \cup {Queued} : checkChoice' # Choice(v, a)
  BY DEF LeftBehind
<1>a. source'[v] # Stopped /\ source'[v] # Queued
  BY <1>0, ClientAssumption
<1>1. CASE Buttons \/ PacketTask
  <2>1. source'[v] # source[v]
    BY <1>1, OthersMark, OthersLeaveNone
  <2>2. ASSUME NEW t \in starting, StartVideoProcess(t) PROVE StoredLate(v)
    <3>1. t \notin starting' /\ source' = [source EXCEPT ![t.choice.video] = t.choice.node]
      BY <2>2 DEF StartVideoProcess
    <3>2. t.choice.video = v /\ t.choice.node = source'[v]
      BY <2>1, <3>1 DEF TypeOK
    <3>3. t.choice \in Choices
      BY DEF TypeOK, Plays
    <3>4. t.choice = Choice(v, source'[v])
      BY <3>2, <3>3 DEF Choice, Choices
    <3> QED BY <3>1, <3>4 DEF StoredLate
  <2>3. CASE AssignQueued
    <3>1. answerChoice \in Choices /\ answerChoice' = NoChoice
      BY <2>3 DEF AssignQueued, TypeOK
    <3>2. answerChoice.video = v /\ answerChoice.node = source'[v]
      BY <1>a, <2>1, <2>3 DEF AssignQueued, TypeOK
    <3>3. answerChoice = Choice(v, source'[v])
      BY <3>1, <3>2 DEF Choice, Choices
    <3> QED BY <3>1, <3>3 DEF StoredLate
  <2>4. ASSUME NEW u \in Videos, Stop(u) PROVE FALSE
    BY <1>a, <2>1, <2>4 DEF Stop, TypeOK
  <2>5. CASE PlayerGone
    BY <1>a, <2>1, <2>5 DEF PlayerGone, TypeOK
  <2>6. ASSUME \/ \E u \in Videos : Play(u)
               \/ \E t \in clicked : ChooseForPlay(t)
               \/ \E t \in starting : LaunchFails(t)
               \/ \E c \in stopping : SendStop(c)
               \/ \E a \in Nodes, vs \in SUBSET Videos : HandlePingAnswer(a, vs)
               \/ \E u \in Videos : ChooseForQueued(u)
               \/ \E u \in Videos, a \in Nodes : ReceiveVideo(u, a)
               \/ PlayerTakes
        PROVE  source' = source
    BY <2>6 DEF Play, ChooseForPlay, LaunchFails, SendStop, HandlePingAnswer,
                ChooseForQueued, ReceiveVideo, PlayerTakes
  <2> QED BY <1>1, <2>1, <2>2, <2>3, <2>4, <2>5, <2>6 DEF Buttons, PacketTask
<1>2. ASSUME NEW a \in Nodes, MarkUnresponsive(a) PROVE FALSE
  <2>1. /\ checkNode' = a /\ UNCHANGED <<source, checkTodo, checkChoice>> /\ checkNode = Queued
        /\ status' = [status EXCEPT ![a] = "Unresponsive"]
    BY <1>2 DEF MarkUnresponsive, Sleeping
  <2>2. status[source[v]] = "Unresponsive"
    BY <1>0, <2>1 DEF TypeOK
  <2> QED BY <1>0, <1>a, <2>1, <2>2 DEF LeftBehind
<1>3. CASE ListPlaying
  BY <1>0, <1>3 DEF ListPlaying, PlayingFrom, LeftBehind, CheckInv, Choice
<1>4. ASSUME NEW u \in Videos, ChooseForPlaying(u) PROVE FALSE
  <2>1. PICK best \in BestNodes(u) : checkChoice' = Choice(u, best)
    BY <1>4 DEF ChooseForPlaying
  <2>2. best \in Nodes \cup {Queued} /\ u # v
    BY <1>0, <2>1 DEF BestNodes, Offering
  <2>3. /\ UNCHANGED <<source, status, checkNode>> /\ checkTodo' = checkTodo \ {u}
        /\ checkChoice = NoChoice
    BY <1>4 DEF ChooseForPlaying
  <2>4. \A a \in Nodes \cup {Queued} : checkChoice # Choice(v, a)
    BY <2>3, NoChoiceAssumption DEF Choice, Choices
  <2> QED BY <1>0, <2>2, <2>3, <2>4 DEF LeftBehind
<1>5. CASE AssignPlaying
  <2>1. /\ checkChoice \in Choices /\ UNCHANGED <<status, checkNode, checkTodo>>
        /\ source' = [source EXCEPT ![checkChoice.video] =
                        IF @ = Stopped THEN @ ELSE checkChoice.node]
    BY <1>5 DEF AssignPlaying, TypeOK
  <2>2. checkChoice = Choice(checkChoice.video, checkChoice.node)
    BY <2>1 DEF Choice, Choices
  <2>3. CASE checkChoice.video = v
    <3>1. source'[v] = checkChoice.node
      BY <1>a, <2>1, <2>3 DEF TypeOK
    <3>2. status[source'[v]] = "Connected"
      BY <1>0, <2>2, <2>3, <3>1 DEF CheckInv
    <3> QED BY <1>0, <2>1, <3>2
  <2>4. CASE checkChoice.video # v
    <3>1. source'[v] = source[v]
      BY <2>1, <2>4 DEF TypeOK
    <3>2. \A a \in Nodes \cup {Queued} : checkChoice # Choice(v, a)
      BY <2>4 DEF Choice
    <3> QED BY <1>0, <2>1, <3>1, <3>2 DEF LeftBehind
  <2> QED BY <2>3, <2>4
<1> QED BY <1>1, <1>2, <1>3, <1>4, <1>5 DEF Next, UnresponsiveTask

\* Of the videos that were played from a node when it fell silent, none is left
\* with it but by Play or an answer that stores a choice made before.
THEOREM LateChoicesAreTheOnlyOnesLeft == Spec => OnlyLateChoicesAreLeft
<1>1. TypeOK /\ TypeOK' /\ CheckInv /\ [Next]_vars =>
        [\A v \in Videos : (~LeftBehind(v) /\ LeftBehind(v)') =>
           \/ \E t \in starting \ starting' : t.choice = Choice(v, source'[v])
           \/ answerChoice = Choice(v, source'[v]) /\ answerChoice' = NoChoice]_vars
  BY OnlyStoredLate DEF StoredLate
<1>2. Spec => []CheckInv
  BY InitCheck, CheckStep, TypeCorrect, PTL DEF Spec
<1> QED BY <1>1, <1>2, TypeCorrect, PTL DEF Spec, OnlyLateChoicesAreLeft

----
\* What becomes of a video that Play was pressed for no more than once. Until
\* the player runs there is one task for it, no entry, and nothing left of an
\* earlier entry; once a node is told to stop, or is to be, the entry is gone
\* and no task will make another.
Fresh(v) == (\E t \in clicked : t.video = v) \/ (\E t \in starting : t.choice.video = v)
OneTask(v) ==
  /\ \A t, u \in clicked : t.video = v /\ u.video = v => t = u
  /\ \A t, u \in starting : t.choice.video = v /\ u.choice.video = v => t = u
  /\ \A t \in clicked, u \in starting : ~(t.video = v /\ u.choice.video = v)
ToldToStop(v) ==
  (\E c \in stopping : c.video = v) \/ (\E a \in Nodes : told[a][v] = "stopped")
Written(v) == writing \in Choices /\ writing.video = v

PlayedOnce(v) ==
  /\ OneTask(v)
  /\ Fresh(v) => source[v] = Stopped /\ ~ToldToStop(v) /\ ~Written(v)
  /\ ToldToStop(v) => source[v] = Stopped
NotPlayed(v) == source[v] = Stopped /\ ~Fresh(v) /\ ~ToldToStop(v) /\ ~Written(v)

PlayInv == \A v \in Videos : /\ presses[v] = 0 => NotPlayed(v)
                             /\ presses[v] <= 1 => PlayedOnce(v)

\* What is chosen and not yet stored, or stored, was asked for before.
Chosen(c) == (\E t \in starting : t.choice = c) \/ answerChoice = c \/ checkChoice = c
AskInv ==
  \A v \in Videos, a \in Nodes :
    source[v] = a \/ Chosen(Choice(v, a)) => told[a][v] # "nothing"

\* A request, or a stop, changes what one node was last told about one video.
LEMMA RequestFacts ==
  ASSUME TypeOK, NEW c \in Choices, Request(c), NEW a \in Nodes, NEW v \in Videos
  PROVE  /\ told'[a][v] = "stopped" => told[a][v] = "stopped"
         /\ told[a][v] # "nothing" => told'[a][v] # "nothing"
         /\ c = Choice(v, a) => told'[a][v] # "nothing"
<1>1. c.video \in Videos /\ (c = Choice(v, a) => c.node = a /\ c.video = v)
  BY DEF Choices, Choice
<1>2. ASSUME NEW what \in {"asked", "unsent"}, Tell(c, what)
      PROVE  told'[a][v] = IF a = c.node /\ v = c.video THEN what ELSE told[a][v]
  BY <1>1, <1>2 DEF Tell, TypeOK
<1> QED BY <1>1, <1>2 DEF Request

LEMMA WithdrawFacts ==
  ASSUME TypeOK, NEW c \in Choices, Withdraw(c), NEW a \in Nodes, NEW v \in Videos
  PROVE  /\ told'[a][v] = "stopped" => told[a][v] = "stopped" \/ v = c.video
         /\ told[a][v] # "nothing" => told'[a][v] # "nothing"
<1>1. CASE Tell(c, "stopped")
  <2>1. told'[a][v] = IF a = c.node /\ v = c.video THEN "stopped" ELSE told[a][v]
    BY <1>1 DEF Tell, TypeOK, Choices
  <2> QED BY <2>1
<1> QED BY <1>1 DEF Withdraw

----
\* A step forgets no request, and what it chooses or stores was asked for.
LEMMA StepAsks ==
  ASSUME TypeOK, Next, NEW v \in Videos, NEW a \in Nodes
  PROVE  /\ told[a][v] # "nothing" => told'[a][v] # "nothing"
         /\ source'[v] = a \/ Chosen(Choice(v, a))' =>
              source[v] = a \/ Chosen(Choice(v, a)) \/ told'[a][v] # "nothing"
<1> DEFINE Forgets == told[a][v] # "nothing" /\ told'[a][v] = "nothing"
           Gains == (source'[v] = a \/ Chosen(Choice(v, a))')
                      /\ ~(source[v] = a \/ Chosen(Choice(v, a)))
<1> SUFFICES ~Forgets /\ (Gains => told'[a][v] # "nothing")
  OBVIOUS
<1> USE DEF TypeOK
<1>0. /\ Choice(v, a) # NoChoice /\ a # Stopped /\ a # Queued
      /\ \A c \in Choices : c = Choice(c.video, c.node)
      /\ \A u, b : Choice(v, a) = Choice(u, b) => u = v /\ b = a
  BY NoChoiceAssumption, ClientAssumption DEF Choice, Choices
<1>1. ASSUME NEW t \in clicked, ChooseForPlay(t) PROVE ~Forgets /\ (Gains => told'[a][v] # "nothing")
  <2>1. PICK best \in BestNodes(t.video) :
          /\ Request(Choice(t.video, best))
          /\ starting' = starting \cup {[press |-> t.press, choice |-> Choice(t.video, best)]}
    BY <1>1 DEF ChooseForPlay
  <2>2. Choice(t.video, best) \in Choices
    BY BestNodesAreChoices DEF Clicks
  <2>3. Gains => Choice(t.video, best) = Choice(v, a)
    BY <1>1, <2>1 DEF ChooseForPlay, Chosen
  <2> QED BY <2>1, <2>2, <2>3, RequestFacts
<1>2. ASSUME NEW u \in Videos, ChooseForQueued(u) PROVE ~Forgets /\ (Gains => told'[a][v] # "nothing")
  <2>1. PICK best \in BestNodes(u) : answerChoice' = Choice(u, best) /\ Request(Choice(u, best))
    BY <1>2 DEF ChooseForQueued
  <2>2. Gains => Choice(u, best) = Choice(v, a)
    BY <1>2, <2>1 DEF ChooseForQueued, Chosen
  <2> QED BY <2>1, <2>2, BestNodesAreChoices, RequestFacts
<1>3. ASSUME NEW u \in Videos, ChooseForPlaying(u) PROVE ~Forgets /\ (Gains => told'[a][v] # "nothing")
  <2>1. PICK best \in BestNodes(u) : checkChoice' = Choice(u, best) /\ Request(Choice(u, best))
    BY <1>3 DEF ChooseForPlaying
  <2>2. Gains => Choice(u, best) = Choice(v, a)
    BY <1>3, <2>1 DEF ChooseForPlaying, Chosen
  <2> QED BY <2>1, <2>2, BestNodesAreChoices, RequestFacts
<1>4. ASSUME NEW t \in starting, StartVideoProcess(t) PROVE ~Forgets /\ ~Gains
  <2>1. t.choice \in Choices
    BY DEF Plays
  <2>2. source'[v] = a => source[v] = a \/ t.choice = Choice(v, a)
    BY <1>0, <1>4, <2>1 DEF StartVideoProcess
  <2> QED BY <1>4, <2>2 DEF StartVideoProcess, Chosen
<1>5. CASE AssignQueued
  <2>1. source'[v] = a => source[v] = a \/ answerChoice = Choice(v, a)
    BY <1>0, <1>5 DEF AssignQueued
  <2> QED BY <1>0, <1>5, <2>1 DEF AssignQueued, Chosen
<1>6. CASE AssignPlaying
  <2>1. source'[v] = a => source[v] = a \/ checkChoice = Choice(v, a)
    BY <1>0, <1>6 DEF AssignPlaying
  <2> QED BY <1>0, <1>6, <2>1 DEF AssignPlaying, Chosen
<1>7. ASSUME NEW c \in stopping, SendStop(c) PROVE ~Forgets /\ ~Gains
  BY <1>7, WithdrawFacts DEF SendStop, Chosen
<1>8. CASE PlayerGone
  <2>1. writing \in Choices
    BY <1>8 DEF PlayerGone
  <2>2. ~Gains
    BY <1>0, <1>8 DEF PlayerGone, Chosen
  <2> QED BY <1>8, <2>1, <2>2, WithdrawFacts DEF PlayerGone
<1>9. CASE \/ \E u \in Videos : Play(u) \/ Stop(u)
           \/ \E t \in starting : LaunchFails(t)
           \/ \E b \in Nodes, vs \in SUBSET Videos : HandlePingAnswer(b, vs)
           \/ \E u \in Videos, b \in Nodes : ReceiveVideo(u, b)
           \/ PlayerTakes
           \/ \E b \in Nodes : MarkUnresponsive(b)
           \/ ListPlaying
  <2>1. UNCHANGED told /\ (source'[v] = source[v] \/ source'[v] = Stopped)
    BY <1>9 DEF Play, Stop, LaunchFails, HandlePingAnswer, ReceiveVideo, PlayerTakes,
                MarkUnresponsive, ListPlaying
  <2>2. starting' \subseteq starting /\ UNCHANGED <<answerChoice, checkChoice>>
    BY <1>9 DEF Play, Stop, LaunchFails, HandlePingAnswer, ReceiveVideo, PlayerTakes,
                MarkUnresponsive, ListPlaying
  <2> QED BY <1>0, <2>1, <2>2 DEF Chosen
<1> QED BY <1>1, <1>2, <1>3, <1>4, <1>5, <1>6, <1>7, <1>8, <1>9
        DEF Next, Buttons, PacketTask, UnresponsiveTask

LEMMA AskInvariant == Spec => []AskInv
<1>1. Init => AskInv
  BY ClientAssumption, NoChoiceAssumption DEF Init, AskInv, Chosen, Choice, Choices
<1>2. TypeOK /\ AskInv /\ [Next]_vars => AskInv'
  <2>1. CASE UNCHANGED vars
    BY <2>1 DEF vars, tasks, AskInv, Chosen
  <2> QED BY <2>1, StepAsks DEF AskInv
<1> QED BY <1>1, <1>2, TypeCorrect, PTL DEF Spec

----
\* Steps that leave a video with no more than it had, and give it no entry.
LEMMA NoMoreThanBefore ==
  ASSUME PlayInv, NEW v \in Videos, presses'[v] = presses[v],
         clicked' \subseteq clicked, \A t \in starting' \ starting : t.choice.video # v,
         source[v] = Stopped => source'[v] = Stopped,
         ToldToStop(v)' => ToldToStop(v), Written(v)' => Written(v)
  PROVE  /\ presses'[v] = 0 => NotPlayed(v)'
         /\ presses'[v] <= 1 => PlayedOnce(v)'
<1>1. Fresh(v)' => Fresh(v)
  BY DEF Fresh
<1>2. OneTask(v) => OneTask(v)'
  BY DEF OneTask
<1> QED BY <1>1, <1>2 DEF PlayInv, NotPlayed, PlayedOnce

\* Play makes one task for a video that had none, which asks one node.
LEMMA PlayStep ==
  ASSUME TypeOK, PlayInv, NEW v \in Videos, NEW u \in Videos, Play(u)
  PROVE  /\ presses'[v] = 0 => NotPlayed(v)'
         /\ presses'[v] <= 1 => PlayedOnce(v)'
<1> DEFINE click == [press |-> presses'[u], video |-> u]
<1>1. /\ clicked' = clicked \cup {click} /\ click.video = u
      /\ UNCHANGED <<starting, stopping, told, source, writing>>
      /\ presses' = [presses EXCEPT ![u] = @ + 1]
  BY DEF Play
<1> HIDE DEF click
<1>2. ToldToStop(v)' = ToldToStop(v) /\ Written(v)' = Written(v)
  BY <1>1 DEF ToldToStop, Written
<1>3. CASE u # v
  <2>1. presses'[v] = presses[v] /\ source'[v] = source[v]
    BY <1>1, <1>3 DEF TypeOK
  <2>2. Fresh(v)' => Fresh(v)
    BY <1>1, <1>3 DEF Fresh
  <2>3. OneTask(v) => OneTask(v)'
    BY <1>1, <1>3 DEF OneTask
  <2> QED BY <1>2, <2>1, <2>2, <2>3 DEF PlayInv, NotPlayed, PlayedOnce
<1>4. CASE u = v
  <2>1. presses[v] \in Nat /\ presses'[v] = presses[v] + 1
    BY <1>1, <1>4, ClientAssumption DEF TypeOK
  <2>2. CASE presses[v] = 0
    <3>1. NotPlayed(v)
      BY <2>2 DEF PlayInv
    <3>2. OneTask(v)'
      BY <1>1, <3>1 DEF NotPlayed, Fresh, OneTask
    <3> QED BY <1>1, <1>2, <2>1, <2>2, <3>1, <3>2 DEF NotPlayed, PlayedOnce
  <2> QED BY <2>1, <2>2
<1> QED BY <1>3, <1>4

LEMMA ChooseForPlayStep ==
  ASSUME TypeOK, PlayInv, NEW v \in Videos, NEW t \in clicked, ChooseForPlay(t)
  PROVE  /\ presses'[v] = 0 => NotPlayed(v)'
         /\ presses'[v] <= 1 => PlayedOnce(v)'
<1>1. PICK best \in BestNodes(t.video) :
        /\ Request(Choice(t.video, best))
        /\ starting' = starting \cup {[press |-> t.press, choice |-> Choice(t.video, best)]}
  BY DEF ChooseForPlay
<1> DEFINE play == [press |-> t.press, choice |-> Choice(t.video, best)]
<1>2. /\ clicked' = clicked \ {t} /\ starting' = starting \cup {play}
      /\ play.choice.video = t.video
      /\ UNCHANGED <<stopping, source, writing, presses>>
  BY <1>1 DEF ChooseForPlay, Choice
<1> HIDE DEF play
<1>3. ToldToStop(v)' => ToldToStop(v)
  <2>1. Choice(t.video, best) \in Choices
    BY BestNodesAreChoices DEF TypeOK, Clicks
  <2> QED BY <1>1, <1>2, <2>1, RequestFacts DEF ToldToStop
<1>4. Written(v)' => Written(v)
  BY <1>2 DEF Written
<1>5. CASE t.video # v
  BY <1>2, <1>3, <1>4, <1>5, NoMoreThanBefore
<1>6. CASE t.video = v
  <2>1. Fresh(v)
    BY <1>6 DEF Fresh
  <2>2. OneTask(v) => OneTask(v)'
    BY <1>2, <1>6 DEF OneTask
  <2> QED BY <1>2, <1>3, <1>4, <2>1, <2>2 DEF PlayInv, NotPlayed, PlayedOnce
<1> QED BY <1>5, <1>6

\* With the entry the task is gone, and there is no other.
LEMMA LaunchStep ==
  ASSUME TypeOK, PlayInv, NEW v \in Videos, NEW t \in starting, StartVideoProcess(t)
  PROVE  /\ presses'[v] = 0 => NotPlayed(v)'
         /\ presses'[v] <= 1 => PlayedOnce(v)'
<1>1. /\ starting' = starting \ {t}
      /\ source' = [source EXCEPT ![t.choice.video] = t.choice.node]
      /\ UNCHANGED <<clicked, stopping, told, writing, presses>>
  BY DEF StartVideoProcess
<1>2. ToldToStop(v)' = ToldToStop(v) /\ Written(v)' = Written(v)
  BY <1>1 DEF ToldToStop, Written
<1>3. CASE t.choice.video # v
  <2>1. source'[v] = source[v]
    BY <1>1, <1>3 DEF TypeOK
  <2> QED BY <1>1, <1>2, <1>3, <2>1, NoMoreThanBefore
<1>4. CASE t.choice.video = v
  <2>1. Fresh(v)
    BY <1>4 DEF Fresh
  <2>2. OneTask(v) => OneTask(v)' /\ ~Fresh(v)'
    BY <1>1, <1>4 DEF OneTask, Fresh
  <2> QED BY <1>1, <1>2, <2>1, <2>2 DEF PlayInv, NotPlayed, PlayedOnce
<1> QED BY <1>3, <1>4

\* A stop takes the entry first, and is sent when no task can make another.
LEMMA StopStep ==
  ASSUME TypeOK, PlayInv, NEW v \in Videos, NEW u \in Videos, Stop(u)
  PROVE  /\ presses'[v] = 0 => NotPlayed(v)'
         /\ presses'[v] <= 1 => PlayedOnce(v)'
<1>1. /\ source[u] # Stopped /\ source' = [source EXCEPT ![u] = Stopped]
      /\ \A c \in stopping' : c \in stopping \/ c.video = u
      /\ UNCHANGED <<clicked, starting, told, writing, presses>>
  BY DEF Stop, Choice
<1>2. Written(v)' = Written(v)
  BY <1>1 DEF Written
<1>3. CASE u # v
  <2>1. source'[v] = source[v] /\ (ToldToStop(v)' => ToldToStop(v))
    BY <1>1, <1>3 DEF TypeOK, ToldToStop
  <2> QED BY <1>1, <1>2, <2>1, NoMoreThanBefore
<1>4. CASE u = v
  <2>1. source'[v] = Stopped
    BY <1>1, <1>4 DEF TypeOK
  <2>2. Fresh(v)' = Fresh(v) /\ OneTask(v)' = OneTask(v)
    BY <1>1 DEF Fresh, OneTask
  <2> QED BY <1>1, <1>4, <2>1, <2>2 DEF PlayInv, NotPlayed, PlayedOnce
<1> QED BY <1>3, <1>4

LEMMA SendStopStep ==
  ASSUME TypeOK, PlayInv, NEW v \in Videos, NEW c \in stopping, SendStop(c)
  PROVE  /\ presses'[v] = 0 => NotPlayed(v)'
         /\ presses'[v] <= 1 => PlayedOnce(v)'
<1>1. /\ stopping' \subseteq stopping /\ Withdraw(c) /\ c \in Choices
      /\ UNCHANGED <<clicked, starting, source, writing, presses>>
  BY DEF SendStop, TypeOK
<1>2. Written(v)' => Written(v)
  BY <1>1 DEF Written
<1>3. ToldToStop(v)' => ToldToStop(v)
  BY <1>1, WithdrawFacts DEF ToldToStop
<1> QED BY <1>1, <1>2, <1>3, NoMoreThanBefore

\* The player of an entry is written to, and may be gone: so is the entry then.
LEMMA PlayerStep ==
  ASSUME TypeOK, PlayInv, NEW v \in Videos,
         PlayerGone \/ \E u \in Videos, a \in Nodes : ReceiveVideo(u, a)
  PROVE  /\ presses'[v] = 0 => NotPlayed(v)'
         /\ presses'[v] <= 1 => PlayedOnce(v)'
<1>1. CASE PlayerGone
  <2>1. /\ writing \in Choices /\ Withdraw(writing) /\ writing' = NoChoice
        /\ source' = [source EXCEPT ![writing.video] = Stopped]
        /\ UNCHANGED <<clicked, starting, stopping, presses>>
    BY <1>1 DEF PlayerGone, TypeOK
  <2>2. ~Written(v)'
    BY <2>1, NoChoiceAssumption DEF Written
  <2>3. CASE writing.video # v
    <3>1. source'[v] = source[v]
      BY <2>1, <2>3 DEF TypeOK
    <3>2. ToldToStop(v)' => ToldToStop(v)
      BY <2>1, <2>3, WithdrawFacts DEF ToldToStop
    <3> QED BY <2>1, <2>2, <3>1, <3>2, NoMoreThanBefore
  <2>4. CASE writing.video = v
    <3>1. Written(v) /\ source'[v] = Stopped
      BY <2>1, <2>4 DEF Written, TypeOK
    <3>2. Fresh(v)' = Fresh(v) /\ OneTask(v)' = OneTask(v)
      BY <2>1 DEF Fresh, OneTask
    <3> QED BY <2>1, <2>2, <3>1, <3>2 DEF PlayInv, NotPlayed, PlayedOnce
  <2> QED BY <2>3, <2>4
<1>2. ASSUME NEW u \in Videos, NEW a \in Nodes, ReceiveVideo(u, a)
      PROVE  /\ presses'[v] = 0 => NotPlayed(v)'
             /\ presses'[v] <= 1 => PlayedOnce(v)'
  <2>1. /\ source[u] # Stopped /\ writing' = Choice(u, a)
        /\ UNCHANGED <<clicked, starting, stopping, source, told, presses>>
    BY <1>2 DEF ReceiveVideo
  <2>2. ToldToStop(v)' = ToldToStop(v) /\ Fresh(v)' = Fresh(v) /\ OneTask(v)' = OneTask(v)
    BY <2>1 DEF ToldToStop, Fresh, OneTask
  <2>3. Written(v)' => u = v
    BY <2>1 DEF Written, Choice
  <2> QED BY <2>1, <2>2, <2>3 DEF PlayInv, NotPlayed, PlayedOnce
<1> QED BY <1>1, <1>2

\* The other steps only choose, ask, or store where an entry is.
LEMMA OtherStep ==
  ASSUME TypeOK, PlayInv, NEW v \in Videos,
         \/ \E t \in starting : LaunchFails(t)
         \/ \E a \in Nodes, vs \in SUBSET Videos : HandlePingAnswer(a, vs)
         \/ \E u \in Videos : ChooseForQueued(u) \/ ChooseForPlaying(u)
         \/ AssignQueued \/ AssignPlaying \/ PlayerTakes \/ ListPlaying
         \/ \E a \in Nodes : MarkUnresponsive(a)
  PROVE  /\ presses'[v] = 0 => NotPlayed(v)'
         /\ presses'[v] <= 1 => PlayedOnce(v)'
<1>1. /\ UNCHANGED <<clicked, stopping, presses>> /\ starting' \subseteq starting
      /\ writing' \in {writing, NoChoice}
  BY DEF LaunchFails, HandlePingAnswer, ChooseForQueued, ChooseForPlaying, AssignQueued,
         AssignPlaying, PlayerTakes, ListPlaying, MarkUnresponsive
<1>2. source[v] = Stopped => source'[v] = Stopped
  BY DEF LaunchFails, HandlePingAnswer, ChooseForQueued, ChooseForPlaying, AssignQueued,
         AssignPlaying, PlayerTakes, ListPlaying, MarkUnresponsive, TypeOK
<1>3. \A a \in Nodes : told'[a][v] = "stopped" => told[a][v] = "stopped"
  <2>1. ASSUME NEW u \in Videos, ChooseForQueued(u) \/ ChooseForPlaying(u)
        PROVE  \E c \in Choices : Request(c)
    BY <2>1, BestNodesAreChoices DEF ChooseForQueued, ChooseForPlaying
  <2>2. CASE ~\E u \in Videos : ChooseForQueued(u) \/ ChooseForPlaying(u)
    BY <2>2 DEF LaunchFails, HandlePingAnswer, AssignQueued, AssignPlaying, PlayerTakes,
                ListPlaying, MarkUnresponsive
  <2> QED BY <2>1, <2>2, RequestFacts
<1>4. (ToldToStop(v)' => ToldToStop(v)) /\ (Written(v)' => Written(v))
  BY <1>1, <1>3, NoChoiceAssumption DEF ToldToStop, Written
<1> QED BY <1>1, <1>2, <1>4, NoMoreThanBefore

LEMMA PlayInvariant == Spec => []PlayInv
<1>1. Init => PlayInv
  <2> SUFFICES ASSUME Init, NEW v \in Videos
               PROVE  NotPlayed(v) /\ PlayedOnce(v)
    BY DEF PlayInv
  <2>1. ~Fresh(v) /\ OneTask(v)
    BY DEF Init, Fresh, OneTask
  <2>2. ~ToldToStop(v) /\ ~Written(v)
    BY NoChoiceAssumption DEF Init, ToldToStop, Written
  <2>3. source[v] = Stopped
    BY DEF Init
  <2> QED BY <2>1, <2>2, <2>3 DEF NotPlayed, PlayedOnce
<1>2. TypeOK /\ PlayInv /\ [Next]_vars => PlayInv'
  <2> SUFFICES ASSUME TypeOK, PlayInv, [Next]_vars, NEW v \in Videos
               PROVE  /\ presses'[v] = 0 => NotPlayed(v)'
                      /\ presses'[v] <= 1 => PlayedOnce(v)'
    BY DEF PlayInv
  <2>1. CASE UNCHANGED vars
    BY <2>1, NoMoreThanBefore DEF vars, tasks, ToldToStop, Written
  <2> QED BY <2>1, PlayStep, ChooseForPlayStep, LaunchStep, StopStep, SendStopStep, PlayerStep,
             OtherStep DEF Next, Buttons, PacketTask, UnresponsiveTask
<1> QED BY <1>1, <1>2, TypeCorrect, PTL DEF Spec

\* The source of every video was asked for it and not told to stop since, but
\* for requests that could not be sent and videos that Play was pressed for
\* again.
THEOREM SourcesAreAsked == Spec => []SourceIsAsked
<1>1. TypeOK /\ AskInv /\ PlayInv => SourceIsAsked
  <2> SUFFICES ASSUME TypeOK, AskInv, PlayInv, NEW v \in Videos, NEW a \in Nodes,
                      source[v] = a
               PROVE  \/ told[a][v] \in {"asked", "unsent"}
                      \/ told[a][v] = "stopped" /\ presses[v] > 1
    BY DEF SourceIsAsked
  <2>1. told[a][v] \in {"asked", "unsent", "stopped"}
    BY DEF AskInv, TypeOK
  <2>2. told[a][v] = "stopped" => presses[v] > 1
    <3>1. presses[v] \in Nat /\ source[v] # Stopped
      BY ClientAssumption DEF TypeOK
    <3> QED BY <3>1 DEF PlayInv, PlayedOnce, ToldToStop
  <2> QED BY <2>1, <2>2
<1> QED BY <1>1, AskInvariant, PlayInvariant, TypeCorrect, PTL

====

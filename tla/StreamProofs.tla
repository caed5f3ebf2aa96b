---- MODULE StreamProofs ----
(* Proofs about Stream for every set of nodes, files and videos, every number *)
(* of relays and every bound.                                                 *)
EXTENDS Stream, SequenceTheorems, TLAPS

\* No video has given out more numbers than ffmpeg gave packets: this keeps
\* the numbers on the links within their bound, through every restart.
NumbersAreCounted == \A w \in Videos : number[w] <= packets

StreamInv == TypeOK /\ NumbersAreCounted

LEMMA InitStreamInv == Init => StreamInv
<1> SUFFICES ASSUME Init PROVE StreamInv
  OBVIOUS
<1>1. ServerTypeOK
  BY ServerAssumption DEF Init, ServerInit, ServerTypeOK, Tasks
<1>2. /\ link \in [Relays -> Seq(1..MaxPackets)] /\ last \in [Relays -> 0..MaxPackets]
      /\ asked \in 0..MaxAsks /\ packets \in 0..MaxPackets /\ faults \in 0..MaxFaults
      /\ wants \in BOOLEAN /\ mail \subseteq {"RequestVideo", "StopVideo"} /\ allowance \in Int
  <2>1. <<>> \in Seq(1..MaxPackets)
    OBVIOUS
  <2>2. link \in [Relays -> Seq(1..MaxPackets)]
    BY <2>1 DEF Init
  <2>3. mail \subseteq {"RequestVideo", "StopVideo"} /\ wants \in BOOLEAN
    BY DEF Init
  <2>4. last \in [Relays -> 0..MaxPackets] /\ asked \in 0..MaxAsks /\ packets \in 0..MaxPackets
        /\ faults \in 0..MaxFaults /\ allowance \in Int
    BY StreamAssumption DEF Init
  <2> QED BY <2>2, <2>3, <2>4
<1>3. NumbersAreCounted
  BY DEF Init, ServerInit, NumbersAreCounted
<1> QED BY <1>1, <1>2, <1>3 DEF StreamInv, TypeOK

----
\* The steps of the server alone. A new task of the folder watch is a task.
LEMMA WatchKeepsServer ==
  ASSUME StreamInv, NEW f \in Files, WatchFile(f)
  PROVE  ServerTypeOK' /\ (\A w \in Videos : number'[w] <= packets)
<1>1. VideoOf[f] \in Videos /\ starts \in 0..MaxStarts /\ starts < MaxStarts /\ MaxStarts \in Nat
  BY ServerAssumption DEF StreamInv, TypeOK, ServerTypeOK, WatchFile
<1>2. starts' = starts + 1 /\ starts' \in 1..MaxStarts
  BY <1>1 DEF WatchFile
<1>3. Task(starts', VideoOf[f], "starting") \in Tasks
  BY <1>1, <1>2 DEF Task, Tasks
<1>4. tasks' = tasks \cup {Task(starts', VideoOf[f], "starting")}
  BY DEF WatchFile
<1>5. ServerTypeOK'
  BY <1>2, <1>3, <1>4 DEF StreamInv, TypeOK, ServerTypeOK, WatchFile
<1> QED BY <1>5 DEF StreamInv, NumbersAreCounted, WatchFile

\* An entry that takes the place of another.
LEMMA InsertKeepsServer ==
  ASSUME StreamInv, NEW t \in tasks, InsertVideo(t)
  PROVE  ServerTypeOK' /\ (\A w \in Videos : number'[w] <= packets)
<1>1. t \in Tasks /\ t.video \in Videos /\ t.nr \in 1..MaxStarts
  BY DEF StreamInv, TypeOK, ServerTypeOK, Tasks
<1>2. Task(t.nr, t.video, "streaming") \in Tasks
  BY <1>1 DEF Task, Tasks
<1>3. tasks' = (tasks \ {t}) \cup {Task(t.nr, t.video, "streaming")}
  BY DEF InsertVideo
<1>4. /\ interested' \in [Videos -> SUBSET Nodes] /\ number' \in [Videos -> Nat]
      /\ \A w \in Videos : number'[w] = IF w = t.video THEN 0 ELSE number[w]
      /\ \A w \in Videos : interested'[w] = IF w = t.video THEN {} ELSE interested[w]
  BY <1>1 DEF StreamInv, TypeOK, ServerTypeOK, InsertVideo
<1>5. ServerTypeOK'
  BY <1>1, <1>2, <1>3, <1>4 DEF StreamInv, TypeOK, ServerTypeOK, InsertVideo
<1>6. packets \in Nat
  BY DEF StreamInv, TypeOK
<1> QED BY <1>4, <1>5, <1>6 DEF StreamInv, NumbersAreCounted

\* A subscription, and the end of one.
LEMMA RequestKeepsServer ==
  ASSUME StreamInv, NEW a \in Nodes, NEW v \in Videos, HandleRequestVideo(a, v)
  PROVE  ServerTypeOK' /\ (\A w \in Videos : number'[w] <= packets)
<1>1. interested' \in [Videos -> SUBSET Nodes]
  BY DEF StreamInv, TypeOK, ServerTypeOK, HandleRequestVideo
<1> QED BY <1>1 DEF StreamInv, TypeOK, ServerTypeOK, NumbersAreCounted, HandleRequestVideo

LEMMA StopKeepsServer ==
  ASSUME StreamInv, NEW a \in Nodes, NEW v \in Videos, HandleStopVideo(a, v)
  PROVE  ServerTypeOK' /\ (\A w \in Videos : number'[w] <= packets)
<1>1. interested' \in [Videos -> SUBSET Nodes]
  BY DEF StreamInv, TypeOK, ServerTypeOK, HandleStopVideo
<1> QED BY <1>1 DEF StreamInv, TypeOK, ServerTypeOK, NumbersAreCounted, HandleStopVideo

LEMMA ServerStepKeeps == StreamInv /\ ServerStep => StreamInv'
<1> SUFFICES ASSUME StreamInv, ServerStep PROVE StreamInv'
  OBVIOUS
<1>1. ServerTypeOK' /\ (\A w \in Videos : number'[w] <= packets)
  <2>1. CASE \E f \in Files : WatchFile(f)
    BY <2>1, WatchKeepsServer
  <2>2. CASE \E t \in tasks : InsertVideo(t)
    BY <2>2, InsertKeepsServer
  <2>3. CASE \E t \in tasks : TaskEnds(t)
    BY <2>3 DEF StreamInv, TypeOK, ServerTypeOK, NumbersAreCounted, TaskEnds
  <2>4. CASE \E a \in Nodes \ {First}, v \in Videos : HandleRequestVideo(a, v)
    BY <2>4, RequestKeepsServer
  <2>5. CASE \E a \in Nodes \ {First}, v \in Videos : HandleStopVideo(a, v)
    BY <2>5, StopKeepsServer
  <2>6. CASE \E a \in Nodes : HandleNewNeighbour(a)
    BY <2>6 DEF StreamInv, TypeOK, ServerTypeOK, NumbersAreCounted, HandleNewNeighbour
  <2>7. CASE ServerRestart
    <3>1. packets \in Nat
      BY DEF StreamInv, TypeOK
    <3> QED
      BY <2>7, <3>1, ServerAssumption
      DEF StreamInv, TypeOK, ServerTypeOK, NumbersAreCounted, ServerRestart
  <2> QED
    BY <2>1, <2>2, <2>3, <2>4, <2>5, <2>6, <2>7 DEF ServerStep
<1> QED
  BY <1>1 DEF ServerStep, lineVars, StreamInv, TypeOK, NumbersAreCounted

----
\* The steps of the line. A packet of ffmpeg takes the next number.
LEMMA SendVideoKeeps ==
  ASSUME StreamInv, NEW t \in tasks, NEW to \in SUBSET Nodes, SendVideo(t, to)
  PROVE  StreamInv'
<1>1. /\ t.video \in Videos /\ packets \in 0..MaxPackets /\ packets < MaxPackets
      /\ number \in [Videos -> Nat] /\ MaxPackets \in Nat
  BY StreamAssumption DEF StreamInv, TypeOK, ServerTypeOK, Tasks, SendVideo
<1>2. /\ packets' = packets + 1
      /\ \A w \in Videos : number'[w] = IF w = t.video THEN number[w] + 1 ELSE number[w]
      /\ number' \in [Videos -> Nat]
      /\ UNCHANGED <<starts, tasks, listed, interested, neighbours>>
  BY <1>1 DEF SendVideo, StreamPacket
<1>3. NumbersAreCounted' /\ packets' \in 0..MaxPackets
  BY <1>1, <1>2 DEF StreamInv, NumbersAreCounted
<1>4. number'[Video] \in Nat /\ number'[Video] <= MaxPackets
  BY <1>1, <1>2, <1>3, StreamAssumption DEF NumbersAreCounted
<1>5. link' \in [Relays -> Seq(1..MaxPackets)]
  <2>1. CASE t.video = Video /\ First \in interested[Video] /\ First \in to
    <3>1. link' = [link EXCEPT ![1] = Append(@, number'[Video])]
      BY <2>1 DEF SendVideo
    <3>2. number'[Video] \in 1..MaxPackets
      BY <1>1, <1>2, <1>4, <2>1
    <3>3. \A i \in Relays : Append(link[i], number'[Video]) \in Seq(1..MaxPackets)
      BY <3>2 DEF StreamInv, TypeOK
    <3> QED BY <3>1, <3>3 DEF StreamInv, TypeOK
  <2>2. CASE ~(t.video = Video /\ First \in interested[Video] /\ First \in to)
    BY <2>2 DEF SendVideo, StreamInv, TypeOK
  <2> QED BY <2>1, <2>2
<1>6. faults' \in 0..MaxFaults /\ allowance' \in Int
  BY StreamAssumption DEF StreamInv, TypeOK, SendVideo
<1>7. ServerTypeOK'
  BY <1>2 DEF StreamInv, TypeOK, ServerTypeOK, Tasks
<1> QED BY <1>2, <1>3, <1>5, <1>6, <1>7 DEF StreamInv, TypeOK, SendVideo

\* The relay's requests at the server.
LEMMA ReceiveKeeps ==
  ASSUME StreamInv, ReceiveRequest \/ ReceiveStop
  PROVE  StreamInv'
<1>1. ServerTypeOK' /\ (\A w \in Videos : number'[w] <= packets)
  BY StreamAssumption, RequestKeepsServer, StopKeepsServer DEF ReceiveRequest, ReceiveStop
<1>2. faults' \in 0..MaxFaults
  BY StreamAssumption DEF StreamInv, TypeOK, ReceiveRequest, ReceiveStop, Delivered
<1>3. mail' \subseteq {"RequestVideo", "StopVideo"}
  BY DEF StreamInv, TypeOK, ReceiveRequest, ReceiveStop, Delivered
<1>4. allowance' \in Int
  BY StreamAssumption DEF StreamInv, TypeOK, ReceiveRequest, ReceiveStop
<1> QED BY <1>1, <1>2, <1>3, <1>4 DEF StreamInv, TypeOK, NumbersAreCounted, ReceiveRequest, ReceiveStop

\* Taking a packet off a link, and putting one on the next, keeps the numbers.
LEMMA RelayKeeps ==
  ASSUME StreamInv, NEW i \in Relays, Relay(i)
  PROVE  StreamInv'
<1>1. link \in [Relays -> Seq(1..MaxPackets)] /\ link[i] # <<>>
  BY DEF StreamInv, TypeOK, Relay
<1>2. Head(link[i]) \in 1..MaxPackets /\ Tail(link[i]) \in Seq(1..MaxPackets)
  BY <1>1, HeadTailProperties
<1>3. \A j \in Relays : Append(link[j], Head(link[i])) \in Seq(1..MaxPackets)
  BY <1>1, <1>2
<1>4. link' \in [Relays -> Seq(1..MaxPackets)]
  BY <1>1, <1>2, <1>3 DEF Relay
<1>5. last' \in [Relays -> 0..MaxPackets] /\ allowance' \in Int
  BY <1>2, StreamAssumption DEF StreamInv, TypeOK, Relay
<1> QED
  BY <1>4, <1>5
  DEF StreamInv, TypeOK, ServerTypeOK, NumbersAreCounted, Relay, serverVars

LEMMA FaultsKeep ==
  ASSUME StreamInv, NEW i \in Relays, Lose(i) \/ Overtake(i)
  PROVE  StreamInv'
<1>1. link \in [Relays -> Seq(1..MaxPackets)] /\ link[i] \in Seq(1..MaxPackets)
  BY DEF StreamInv, TypeOK
<1>2. faults' \in 0..MaxFaults
  BY StreamAssumption DEF StreamInv, TypeOK, Lose, Overtake
<1>4. allowance' \in Int
  <2>1. i \in Int /\ Hops \in Int /\ allowance \in Int
    BY StreamAssumption DEF StreamInv, TypeOK, Relays
  <2>2. Behind(i) \in Int
    BY <2>1 DEF Behind
  <2> QED BY <2>1, <2>2 DEF Lose, Overtake
<1>3. link' \in [Relays -> Seq(1..MaxPackets)]
  <2>1. CASE Lose(i)
    BY <1>1, <2>1, HeadTailProperties DEF Lose
  <2>2. CASE Overtake(i)
    <3> PICK s : s = link[i]
      OBVIOUS
    <3>1. Len(s) > 1 /\ s \in Seq(1..MaxPackets)
      BY <1>1, <2>2 DEF Overtake
    <3>0. Len(s) \in Nat /\ 1 \in 1..Len(s) /\ 2 \in 1..Len(s)
      BY <3>1, LenProperties
    <3>2. s[1] \in 1..MaxPackets /\ s[2] \in 1..MaxPackets
      BY <3>0, <3>1, ElementOfSeq
    <3>3. Tail(Tail(s)) \in Seq(1..MaxPackets)
      <4>1. s # <<>>
        BY <3>1, EmptySeq
      <4>2. PICK u : u = Tail(s)
        OBVIOUS
      <4>3. u \in Seq(1..MaxPackets) /\ Len(u) = Len(s) - 1
        BY <3>1, <4>1, <4>2, HeadTailProperties
      <4>4. u # <<>>
        BY <3>0, <3>1, <4>3, EmptySeq
      <4>5. Tail(u) \in Seq(1..MaxPackets)
        BY <4>3, <4>4, HeadTailProperties
      <4> QED BY <4>2, <4>5
    <3>4. <<s[2], s[1]>> \in Seq(1..MaxPackets)
      BY <3>2
    <3>5. <<s[2], s[1]>> \o Tail(Tail(s)) \in Seq(1..MaxPackets)
      BY <3>3, <3>4
    <3> QED BY <1>1, <2>2, <3>5 DEF Overtake
  <2> QED BY <2>1, <2>2
<1> QED
  BY <1>2, <1>3, <1>4
  DEF StreamInv, TypeOK, ServerTypeOK, NumbersAreCounted, Lose, Overtake, serverVars

LEMMA WantsKeep ==
  ASSUME StreamInv, Want \/ GiveUp \/ AskAgain
  PROVE  StreamInv'
<1>1. wants' \in BOOLEAN /\ mail' \subseteq {"RequestVideo", "StopVideo"}
  BY DEF StreamInv, TypeOK, Want, GiveUp, AskAgain
<1>2. asked' \in 0..MaxAsks
  BY StreamAssumption DEF StreamInv, TypeOK, Want, GiveUp, AskAgain
<1>3. UNCHANGED <<serverVars, link, last, packets, faults, allowance>>
  BY DEF Want, GiveUp, AskAgain
<1> QED
  BY <1>1, <1>2, <1>3
  DEF StreamInv, TypeOK, ServerTypeOK, NumbersAreCounted, serverVars

LEMMA NextKeepsStreamInv == StreamInv /\ [Next]_vars => StreamInv'
<1> SUFFICES ASSUME StreamInv, [Next]_vars PROVE StreamInv'
  OBVIOUS
<1>1. CASE ServerStep
  BY <1>1, ServerStepKeeps
<1>2. CASE \E t \in tasks, to \in SUBSET Nodes : SendVideo(t, to)
  BY <1>2, SendVideoKeeps
<1>3. CASE ReceiveRequest \/ ReceiveStop
  BY <1>3, ReceiveKeeps
<1>4. CASE Want \/ GiveUp \/ AskAgain
  BY <1>4, WantsKeep
<1>5. CASE \E i \in Relays : Relay(i)
  BY <1>5, RelayKeeps
<1>6. CASE \E i \in Relays : Lose(i) \/ Overtake(i)
  BY <1>6, FaultsKeep
<1>7. CASE UNCHANGED vars
  BY <1>7
  DEF StreamInv, TypeOK, ServerTypeOK, NumbersAreCounted, vars, serverVars, lineVars
<1> QED
  BY <1>1, <1>2, <1>3, <1>4, <1>5, <1>6, <1>7 DEF Next

LEMMA StreamInvariant == Spec => []StreamInv
  BY InitStreamInv, NextKeepsStreamInv, PTL DEF Spec

\* The tables, links and histories have their types: in particular every number
\* on a link was given out for a packet of ffmpeg.
THEOREM TypeCorrect == Spec => []TypeOK
<1>1. StreamInv => TypeOK
  BY DEF StreamInv
<1> QED BY <1>1, StreamInvariant, PTL

====

---- MODULE Stream ----
(* One stream on its way from the server through a line of relays to a client:*)
(* node/src/handle.rs:192-237 at each relay, behind the server of Server. The *)
(* first relay asks the server for the stream and gives it up, and asks again *)
(* when it hears nothing (node/src/node.rs:422-441); those after it stay      *)
(* subscribed to the one before them. Video packets are unreliable: link i,   *)
(* which ends at relay i, loses or delays packets.                            *)
EXTENDS Server, Sequences, FiniteSets

CONSTANTS Video,      \* the stream that is followed
          First,      \* the address of the first relay
          Hops,       \* relays between the server and the client
          MaxPackets, \* bound: packets of ffmpeg that are sent on
          MaxFaults,  \* bound: packets lost, overtaken or delivered twice
          MaxAsks     \* bound: times the first relay wants the stream

ASSUME StreamAssumption ==
  /\ Video \in Videos /\ First \in Nodes
  /\ Hops \in Nat \ {0}
  /\ MaxPackets \in Nat /\ MaxFaults \in Nat /\ MaxAsks \in Nat

VARIABLES link,     \* numbers of the video packets on the way, in order
          last,     \* last_video_sequence_number of each relay, 0: none yet
          wants,    \* the first relay has the server as its route
          mail,     \* its RequestVideo and StopVideo on the way to the server
          asked,    \* history: times it wanted the stream
          packets,  \* history: packets of ffmpeg that were sent on
          faults,   \* history: packets lost, overtaken or delivered twice
          allowance \* history: drops that the faults so far explain, less those
                    \* that relays have made

lineVars == <<link, last, wants, mail, asked, packets, faults, allowance>>
vars == <<serverVars, lineVars>>

Relays == 1..Hops

TypeOK ==
  /\ ServerTypeOK
  /\ link \in [Relays -> Seq(1..MaxPackets)]
  /\ last \in [Relays -> 0..MaxPackets]
  /\ wants \in BOOLEAN
  /\ mail \subseteq {"RequestVideo", "StopVideo"}
  /\ asked \in 0..MaxAsks
  /\ packets \in 0..MaxPackets
  /\ faults \in 0..MaxFaults
  /\ allowance \in Int

Init ==
  /\ ServerInit
  /\ link = [i \in Relays |-> <<>>]
  /\ last = [i \in Relays |-> 0]
  /\ wants = FALSE /\ mail = {} /\ asked = 0
  /\ packets = 0 /\ faults = 0 /\ allowance = 0

\* How many relays a packet on link i is still to pass.
Behind(i) == Hops + 1 - i

----
\* The number that relay i expects instead of k; the first packet is compared
\* with itself. First the same with the last number taken for the next.
ExpectedLate(i, k) == IF last[i] = 0 THEN k ELSE last[i]
Expected(i, k) == (IF last[i] = 0 THEN k ELSE last[i]) + 1

\* handle_video_packet: the number is noted in any case, a packet whose number
\* is ahead of the expected one is dropped, any other is passed on.
Relay(i) ==
  /\ link[i] # <<>>
  /\ LET k == Head(link[i])
         gap == Expected(i, k) < k
     IN  /\ last' = [last EXCEPT ![i] = k]
         /\ link' = [j \in Relays |-> IF j = i THEN Tail(link[j])
                                     ELSE IF j = i + 1 /\ ~gap THEN Append(link[j], k)
                                     ELSE link[j]]
         /\ allowance' = IF gap THEN allowance - 1 ELSE allowance
  /\ UNCHANGED <<serverVars, wants, mail, asked, packets, faults>>

\* The network loses a packet, or delivers the next one first.
Lose(i) ==
  /\ faults < MaxFaults /\ link[i] # <<>>
  /\ faults' = faults + 1
  /\ link' = [link EXCEPT ![i] = Tail(@)]
  /\ allowance' = allowance + Behind(i)
  /\ UNCHANGED <<serverVars, last, wants, mail, asked, packets>>

Overtake(i) ==
  /\ faults < MaxFaults /\ Len(link[i]) > 1
  /\ faults' = faults + 1
  /\ link' = [link EXCEPT ![i] = <<@[2], @[1]>> \o Tail(Tail(@))]
  /\ allowance' = allowance + Behind(i) + 1
  /\ UNCHANGED <<serverVars, last, wants, mail, asked, packets>>

----
\* The first relay gets its first subscriber, or loses its last one.
Want ==
  /\ ~wants /\ asked < MaxAsks
  /\ wants' = TRUE
  /\ asked' = asked + 1
  /\ mail' = mail \cup {"RequestVideo"}
  /\ UNCHANGED <<serverVars, link, last, packets, faults, allowance>>

GiveUp ==
  /\ wants
  /\ wants' = FALSE
  /\ mail' = mail \cup {"StopVideo"}
  /\ UNCHANGED <<serverVars, link, last, asked, packets, faults, allowance>>

\* run_video_health_check_task: a stream that was received once is asked for
\* again when nothing comes. First only while the server has it subscribed.
AskAgainServed ==
  /\ wants /\ First \in interested[Video]
  /\ mail' = mail \cup {"RequestVideo"}
  /\ UNCHANGED <<serverVars, link, last, wants, asked, packets, faults, allowance>>

AskAgain ==
  /\ wants /\ last[1] # 0
  /\ mail' = mail \cup {"RequestVideo"}
  /\ UNCHANGED <<serverVars, link, last, wants, asked, packets, faults, allowance>>

\* Nothing comes: the server does not send to the first relay, and nothing is
\* on the way to it.
Silent == First \notin interested[Video] /\ link[1] = <<>>

\* Mail is reliable: it arrives in any order, and again if its Ack was lost.
Delivered(m) ==
  /\ m \in mail
  /\ \/ mail' = mail \ {m} /\ UNCHANGED faults
     \/ faults < MaxFaults /\ faults' = faults + 1 /\ UNCHANGED mail

\* A relay that is added, while others are served, sees the numbers jump if it
\* was there before.
Joins == First \in interested'[Video] \ interested[Video]
KnowsNumbers == last[1] # 0 \/ link[1] # <<>>

ReceiveRequest ==
  /\ Delivered("RequestVideo")
  /\ HandleRequestVideo(First, Video)
  /\ allowance' = IF Joins /\ KnowsNumbers THEN allowance + Hops ELSE allowance
  /\ UNCHANGED <<link, last, wants, asked, packets>>

ReceiveStop ==
  /\ Delivered("StopVideo")
  /\ HandleStopVideo(First, Video)
  /\ UNCHANGED <<link, last, wants, asked, packets, allowance>>

\* A packet of ffmpeg, on its way to the first relay if that is subscribed. A
\* send to it that fails is a packet lost on the first link.
SendVideo(t, to) ==
  /\ packets < MaxPackets
  /\ StreamPacket(t, to)
  /\ packets' = packets + 1
  /\ LET subscribed == t.video = Video /\ First \in interested[Video]
         fails == subscribed /\ First \notin to
     IN  /\ fails => faults < MaxFaults
         /\ link' = IF subscribed /\ ~fails
                    THEN [link EXCEPT ![1] = Append(@, number'[Video])] ELSE link
         /\ faults' = IF fails THEN faults + 1 ELSE faults
         /\ allowance' = IF fails THEN allowance + Hops ELSE allowance
  /\ UNCHANGED <<last, wants, mail, asked>>

ServerStep ==
  /\ \/ \E f \in Files : WatchFile(f)
     \/ \E t \in tasks : InsertVideo(t)
     \/ \E t \in tasks : TaskEnds(t)
     \/ \E a \in Nodes \ {First}, v \in Videos : HandleRequestVideo(a, v)
     \/ \E a \in Nodes \ {First}, v \in Videos : HandleStopVideo(a, v)
     \/ \E a \in Nodes : HandleNewNeighbour(a)
     \/ ServerRestart
  /\ UNCHANGED lineVars

Next ==
  \/ ServerStep
  \/ \E t \in tasks, to \in SUBSET Nodes : SendVideo(t, to)
  \/ ReceiveRequest
  \/ ReceiveStop
  \/ Want
  \/ GiveUp
  \/ AskAgain
  \/ \E i \in Relays : Relay(i)
  \/ \E i \in Relays : Lose(i)
  \/ \E i \in Relays : Overtake(i)

Spec == Init /\ [][Next]_vars

\* The relay's tasks run, and its reliable packets arrive.
FairSpec ==
  /\ Spec
  /\ WF_vars(Silent /\ AskAgain)
  /\ WF_vars(ReceiveRequest /\ "RequestVideo" \notin mail')
  /\ WF_vars(Relay(1))

----
\* What the relays drop is bounded by what the network did: a lost packet
\* costs at most one more at each relay behind the loss, one overtaken at most
\* one more than that, and one that comes back to a running stream at most one
\* at each relay; no relay goes on dropping, whatever the server's restarts and
\* repeated entries do to the numbers.
LossIsBounded == allowance >= 0

\* A first relay that wants the stream and has received of it once ends up
\* among the subscribers, or the stream is not served at all: whatever became
\* of its subscription, by an entry that replaced it or a late StopVideo.
StreamComesBack ==
  (wants /\ last[1] # 0 /\ Video \in listed)
    ~> (First \in interested[Video] \/ ~wants \/ Video \notin listed)

----
\* node/src/handle.rs:213 "ignore older packets": a packet that is older than
\* the one before it is not passed on.
OlderPacketsIgnored ==
  [][\A i \in 1..(Hops - 1) :
       (Relay(i) /\ last[i] # 0 /\ Head(link[i]) < last[i]) => link'[i + 1] = link[i + 1]]_vars

====

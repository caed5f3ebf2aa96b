---- MODULE ReliableUdpProofs ----
(* Proofs about ReliableUdp for every set of sockets, every set of links,    *)
(* any number of retries, sends and restarts, with and without send errors.  *)
EXTENDS ReliableUdp, TLAPS

\* The inductive invariant, one hypothesis of the argument per conjunct.

\* An id at or above the counter of the running life, and every id of a life
\* still to come, is unused.
UnusedIds ==
  \A p \in Packets :
    (life[p.src] < p.life \/ (life[p.src] = p.life /\ nextId[p.src] <= p.id))
      => stage[p] = "unsent"

\* What is still open belongs to the running life of its sender.
OpenIsCurrent ==
  \A p \in Packets : stage[p] \in {"sent", "pending"} => p.life = life[p.src]

\* Within one life an id names one packet.
OnePacketPerId ==
  \A p, q \in Packets :
    (SameKey(p, q) /\ q.life = p.life /\ stage[p] # "unsent" /\ stage[q] # "unsent")
      => p = q

\* Data in the network was sent, and an Ack in it was earned.
NetIsHonest ==
  /\ \A p \in Packets : Data(p) \in net => stage[p] # "unsent"
  /\ \A s \in Sockets, i \in 0..(MaxSends - 1) :
        Ack(s, i) \in net => \E q \in taken : q.src = s /\ q.id = i

\* What was taken was sent; what is held was taken by the socket that holds it.
TakenWasSent ==
  /\ \A p \in taken : stage[p] # "unsent"
  /\ \A s \in Sockets : holding[s] # NoPacket => (holding[s] \in taken /\ holding[s].dst = s)
  /\ handled \subseteq taken

\* What a socket that never restarted has taken, it has handled or holds.
TakenIsInHand ==
  \A p \in taken : life[p.dst] = 0 => (p \in handled \/ holding[p.dst] = p)

\* The task gives up only with every retry made.
ExpiringHasTried == \A p \in Packets : task[p] = "expiring" => retries[p] = MaxRetries

IInv == /\ TypeOK
        /\ UnusedIds
        /\ OpenIsCurrent
        /\ OnePacketPerId
        /\ NetIsHonest
        /\ TakenWasSent
        /\ TakenIsInHand
        /\ ExpiringHasTried
        /\ TimeoutAfterAllTries
        /\ AckedMeansTaken

----
\* What the set Packets says of the fields of its members.
LEMMA PacketFields ==
  ASSUME NEW p \in Packets
  PROVE  /\ p.src \in Sockets /\ p.dst \in Sockets
         /\ p.life \in 0..MaxLife /\ p.id \in 0..(MaxSends - 1)
  BY DEF Packets

\* Datagrams of the two types differ, and each names its packet or its key.
LEMMA DatagramsDiffer ==
  /\ \A p, q \in Packets : Data(p) = Data(q) => p = q
  /\ \A s, t \in Sockets : \A i, j \in 0..(MaxSends - 1) :
        Ack(s, i) = Ack(t, j) => (s = t /\ i = j)
  /\ \A p \in Packets : \A s \in Sockets : \A i \in 0..(MaxSends - 1) : Data(p) # Ack(s, i)
<1>1. \A p, q \in Packets : Data(p) = Data(q) => p = q
  <2>1. \A p \in Packets : Data(p).packet = p
    BY DEF Data
  <2> QED BY <2>1
<1>2. \A s, t \in Sockets : \A i, j \in 0..(MaxSends - 1) :
        Ack(s, i) = Ack(t, j) => (s = t /\ i = j)
  <2>1. \A s \in Sockets, i \in 0..(MaxSends - 1) : Ack(s, i).to = s /\ Ack(s, i).id = i
    BY DEF Ack
  <2> QED BY <2>1
<1>3. \A p \in Packets : \A s \in Sockets : \A i \in 0..(MaxSends - 1) : Data(p) # Ack(s, i)
  <2>1. \A p \in Packets : Data(p).type = "Reliable"
    BY DEF Data
  <2>2. \A s \in Sockets, i \in 0..(MaxSends - 1) : Ack(s, i).type = "Ack"
    BY DEF Ack
  <2> QED BY <2>1, <2>2
<1> QED BY <1>1, <1>2, <1>3

\* The invariant holds at the start.
LEMMA InitIInv == Init => IInv
<1> SUFFICES ASSUME Init PROVE IInv
  OBVIOUS
<1>1. TypeOK
  BY ConstantsAssumption DEF Init, TypeOK, Stages, TaskStates, Packets
<1>2. UnusedIds /\ OpenIsCurrent /\ OnePacketPerId
  BY DEF Init, UnusedIds, OpenIsCurrent, OnePacketPerId
<1>3. NetIsHonest
  BY DEF Init, NetIsHonest
<1>4. TakenWasSent /\ TakenIsInHand
  BY DEF Init, TakenWasSent, TakenIsInHand
<1>5. ExpiringHasTried /\ TimeoutAfterAllTries /\ AckedMeansTaken
  BY DEF Init, ExpiringHasTried, TimeoutAfterAllTries, AckedMeansTaken
<1> QED BY <1>1, <1>2, <1>3, <1>4, <1>5 DEF IInv

\* Each step keeps the types.
LEMMA NextTypeOK == TypeOK /\ [Next]_vars => TypeOK'
<1> SUFFICES ASSUME TypeOK, [Next]_vars PROVE TypeOK'
  OBVIOUS
<1> USE ConstantsAssumption DEF TypeOK
<1>1. ASSUME NEW p \in Packets, SendReliable(p) PROVE TypeOK'
  BY <1>1, PacketFields DEF SendReliable, FetchAdd, Stages, Datagrams
<1>2. ASSUME NEW s \in Sockets, SendFails(s) PROVE TypeOK'
  BY <1>2 DEF SendFails, FetchAdd
<1>3. ASSUME NEW p \in Packets, RegisterPending(p) PROVE TypeOK'
  BY <1>3 DEF RegisterPending, Stages, TaskStates
<1>4. ASSUME NEW p \in Packets, TaskStep(p) PROVE TypeOK'
  <2>1. CASE Retransmit(p)
    BY <2>1 DEF Retransmit, TriesLeft, Datagrams
  <2>2. CASE RetransmitFails(p) \/ GiveUp(p) \/ TaskEnds(p)
    BY <2>2 DEF RetransmitFails, GiveUp, TaskEnds, TaskStates
  <2>3. CASE Expire(p)
    BY <2>3 DEF Expire, Stages, TaskStates
  <2> QED BY <1>4, <2>1, <2>2, <2>3 DEF TaskStep
<1>5. ASSUME NEW s \in Sockets, NEW i \in 0..(MaxSends - 1), ReceiveAck(s, i) PROVE TypeOK'
  BY <1>5 DEF ReceiveAck, Stages
<1>6. ASSUME NEW p \in Packets, ReceiveReliable(p) PROVE TypeOK'
  BY <1>6, PacketFields DEF ReceiveReliable, Datagrams
<1>7. ASSUME NEW s \in Sockets, Handle(s) PROVE TypeOK'
  BY <1>7 DEF Handle
<1>8. ASSUME NEW s \in Sockets, Restart(s) PROVE TypeOK'
  BY <1>8 DEF Restart, Stages, TaskStates
<1>9. CASE UNCHANGED vars
  BY <1>9 DEF vars
<1> QED BY <1>1, <1>2, <1>3, <1>4, <1>5, <1>6, <1>7, <1>8, <1>9 DEF Next

----
\* A new packet: its id was unused, and no other packet has its key and life.
LEMMA SendKeeps ==
  ASSUME IInv, TypeOK', NEW p \in Packets, SendReliable(p)
  PROVE  IInv'
<1> USE DEF IInv, SendReliable, FetchAdd
<1>0. stage[p] = "unsent" /\ stage'[p] = "sent"
      /\ \A q \in Packets : q # p => stage'[q] = stage[q]
  BY PacketFields DEF TypeOK, UnusedIds
<1>1. UnusedIds'
  BY <1>0, PacketFields, ConstantsAssumption DEF UnusedIds, TypeOK
<1>2. OpenIsCurrent'
  BY <1>0 DEF OpenIsCurrent
<1>3. OnePacketPerId'
  BY <1>0, PacketFields DEF OnePacketPerId, UnusedIds, SameKey, TypeOK
<1>4. NetIsHonest'
  BY <1>0, DatagramsDiffer DEF NetIsHonest
<1>5. TakenWasSent' /\ TakenIsInHand'
  BY <1>0 DEF TakenWasSent, TakenIsInHand, TypeOK
<1>6. ExpiringHasTried' /\ TimeoutAfterAllTries' /\ AckedMeansTaken'
  BY <1>0 DEF ExpiringHasTried, TimeoutAfterAllTries, AckedMeansTaken, SameKey
<1> QED BY <1>1, <1>2, <1>3, <1>4, <1>5, <1>6

\* An id used up by a failed send.
LEMMA SendFailsKeeps ==
  ASSUME IInv, TypeOK', NEW s \in Sockets, SendFails(s)
  PROVE  IInv'
<1> USE DEF IInv, SendFails, FetchAdd
<1>1. UnusedIds'
  BY PacketFields, ConstantsAssumption DEF UnusedIds, TypeOK
<1>2. OpenIsCurrent' /\ OnePacketPerId' /\ NetIsHonest'
  BY DEF OpenIsCurrent, OnePacketPerId, SameKey, NetIsHonest
<1>3. TakenWasSent' /\ TakenIsInHand' /\ ExpiringHasTried'
  BY DEF TakenWasSent, TakenIsInHand, ExpiringHasTried
<1>4. TimeoutAfterAllTries' /\ AckedMeansTaken'
  BY DEF TimeoutAfterAllTries, AckedMeansTaken, SameKey
<1> QED BY <1>1, <1>2, <1>3, <1>4

\* From sent to pending, within the running life.
LEMMA RegisterKeeps ==
  ASSUME IInv, TypeOK', NEW p \in Packets, RegisterPending(p)
  PROVE  IInv'
<1> USE DEF IInv, RegisterPending
<1>0. stage'[p] = "pending" /\ \A q \in Packets : q # p => stage'[q] = stage[q]
  BY DEF TypeOK
<1>1. UnusedIds' /\ OpenIsCurrent' /\ OnePacketPerId'
  BY <1>0 DEF UnusedIds, OpenIsCurrent, OnePacketPerId, SameKey
<1>2. NetIsHonest' /\ TakenWasSent' /\ TakenIsInHand'
  BY <1>0 DEF NetIsHonest, TakenWasSent, TakenIsInHand, TypeOK
<1>3. \A q \in Packets : task'[q] # task[q] => (q = p /\ task'[q] = "looping")
  BY DEF TypeOK
<1>4. ExpiringHasTried' /\ TimeoutAfterAllTries' /\ AckedMeansTaken'
  BY <1>0, <1>3 DEF ExpiringHasTried, TimeoutAfterAllTries, AckedMeansTaken, SameKey
<1> QED BY <1>1, <1>2, <1>4

\* A step of the retransmission task.
LEMMA TaskKeeps ==
  ASSUME IInv, TypeOK', NEW p \in Packets, TaskStep(p)
  PROVE  IInv'
<1> USE DEF IInv
<1>0. /\ UNCHANGED <<nextId, life, holding, taken, handled>>
      /\ stage[p] # "unsent" => stage'[p] # "unsent"
      /\ stage'[p] \in {stage[p], "Timeout"}
      /\ \A q \in Packets : q # p => (stage'[q] = stage[q] /\ task'[q] = task[q]
                                          /\ retries'[q] = retries[q])
      /\ stage[p] = "unsent" => stage'[p] = "unsent"
  BY DEF TaskStep, Retransmit, RetransmitFails, GiveUp, Expire, TaskEnds, TypeOK
<1>1. UnusedIds' /\ OpenIsCurrent' /\ OnePacketPerId'
  BY <1>0 DEF UnusedIds, OpenIsCurrent, OnePacketPerId, SameKey
<1>2. net' = net \/ (net' = net \cup {Data(p)} /\ stage[p] = "pending")
  BY DEF TaskStep, Retransmit, RetransmitFails, GiveUp, Expire, TaskEnds
<1>3. NetIsHonest'
  BY <1>0, <1>2, DatagramsDiffer DEF NetIsHonest
<1>4. TakenWasSent' /\ TakenIsInHand'
  BY <1>0 DEF TakenWasSent, TakenIsInHand, TypeOK
<1>5. ExpiringHasTried' /\ TimeoutAfterAllTries'
  <2>1. task'[p] = "expiring" => retries'[p] = MaxRetries
    BY ConstantsAssumption
       DEF TaskStep, Retransmit, RetransmitFails, GiveUp, Expire, TaskEnds, TypeOK,
           TriesLeft, ExpiringHasTried
  <2>2. stage'[p] = "Timeout" => (retries'[p] = MaxRetries /\ task'[p] # "looping")
    BY DEF TaskStep, Retransmit, RetransmitFails, GiveUp, Expire, TaskEnds, TypeOK,
           ExpiringHasTried, TimeoutAfterAllTries
  <2> QED BY <1>0, <2>1, <2>2 DEF ExpiringHasTried, TimeoutAfterAllTries
<1>6. AckedMeansTaken'
  BY <1>0 DEF AckedMeansTaken, SameKey
<1> QED BY <1>1, <1>3, <1>4, <1>5, <1>6

\* An Ack confirms the pending packet of its id. Its packet was taken, and is
\* the pending one itself when the sender is in its first life.
LEMMA ReceiveAckKeeps ==
  ASSUME IInv, TypeOK', NEW s \in Sockets, NEW i \in 0..(MaxSends - 1), ReceiveAck(s, i)
  PROVE  IInv'
<1> USE DEF IInv, ReceiveAck
<1>0. \A p \in Packets :
        stage'[p] = stage[p]
        \/ (p.src = s /\ p.id = i /\ stage[p] = "pending" /\ stage'[p] = "Acknowledged")
  BY DEF TypeOK
<1>1. UnusedIds' /\ OpenIsCurrent' /\ OnePacketPerId'
  BY <1>0 DEF UnusedIds, OpenIsCurrent, OnePacketPerId, SameKey
<1>2. NetIsHonest' /\ TakenWasSent' /\ TakenIsInHand'
  BY <1>0 DEF NetIsHonest, TakenWasSent, TakenIsInHand, TypeOK
<1>3. ExpiringHasTried' /\ TimeoutAfterAllTries'
  BY <1>0 DEF ExpiringHasTried, TimeoutAfterAllTries
<1>4. PICK q \in taken : q.src = s /\ q.id = i
  BY DEF NetIsHonest
<1>5. q \in Packets /\ stage[q] # "unsent" /\ q.life <= life[s]
  BY <1>4, PacketFields DEF TakenWasSent, UnusedIds, TypeOK
<1>6. ASSUME NEW p \in Packets, stage'[p] = "Acknowledged", stage[p] # "Acknowledged"
      PROVE  SameKey(p, q) /\ q.life <= p.life /\ (p.life = 0 => p \in taken)
  <2>1. p.src = s /\ p.id = i /\ stage[p] = "pending" /\ p.life = life[s]
    BY <1>0, <1>6 DEF OpenIsCurrent
  <2>2. SameKey(p, q) /\ q.life <= p.life
    BY <1>4, <1>5, <2>1 DEF SameKey
  <2>3. p.life = 0 => q.life = p.life
    BY <2>2, <1>5, PacketFields
  <2> QED BY <1>4, <1>5, <2>1, <2>2, <2>3 DEF OnePacketPerId
<1>7. AckedMeansTaken'
  BY <1>4, <1>6 DEF AckedMeansTaken, SameKey
<1> QED BY <1>1, <1>2, <1>3, <1>7

\* A packet is taken, and its Ack enters the network with it.
LEMMA ReceiveReliableKeeps ==
  ASSUME IInv, TypeOK', NEW p \in Packets, ReceiveReliable(p)
  PROVE  IInv'
<1> USE DEF IInv, ReceiveReliable
<1>0. stage[p] # "unsent" /\ p.dst \in Sockets /\ p.src \in Sockets
  BY PacketFields DEF NetIsHonest
<1>1. UnusedIds' /\ OpenIsCurrent' /\ OnePacketPerId'
  BY DEF UnusedIds, OpenIsCurrent, OnePacketPerId, SameKey
<1>2. NetIsHonest'
  <2>1. \A q \in Packets : Data(q) \in net' => stage'[q] # "unsent"
    BY DatagramsDiffer, PacketFields DEF NetIsHonest
  <2>2. ASSUME NEW t \in Sockets, NEW j \in 0..(MaxSends - 1), Ack(t, j) \in net'
        PROVE  \E q \in taken' : q.src = t /\ q.id = j
    BY <2>2, DatagramsDiffer, PacketFields DEF NetIsHonest
  <2> QED BY <2>1, <2>2 DEF NetIsHonest
<1>3. TakenWasSent'
  <2>1. \A t \in Sockets : holding'[t] = IF t = p.dst THEN p ELSE holding[t]
    BY DEF TypeOK
  <2> QED BY <1>0, <2>1 DEF TakenWasSent
<1>4. TakenIsInHand'
  <2>1. ASSUME NEW q \in taken', life'[q.dst] = 0
        PROVE  q \in handled' \/ holding'[q.dst] = q
    <3>1. CASE q = p
      BY <3>1, <1>0 DEF TypeOK
    <3>2. CASE q # p
      <4>1. q \in taken /\ q \in Packets
        BY <3>2, <2>1 DEF TypeOK
      <4>2. q.dst \in Sockets
        BY <4>1, PacketFields
      <4>3. holding[q.dst] = q => q.dst # p.dst
        BY <4>1, NoPacketAssumption
      <4> QED BY <2>1, <4>1, <4>2, <4>3 DEF TakenIsInHand, TypeOK
    <3> QED BY <3>1, <3>2
  <2> QED BY <2>1 DEF TakenIsInHand
<1>5. ExpiringHasTried' /\ TimeoutAfterAllTries' /\ AckedMeansTaken'
  BY DEF ExpiringHasTried, TimeoutAfterAllTries, AckedMeansTaken, SameKey
<1> QED BY <1>1, <1>2, <1>3, <1>4, <1>5

\* The handler returns.
LEMMA HandleKeeps ==
  ASSUME IInv, TypeOK', NEW s \in Sockets, Handle(s)
  PROVE  IInv'
<1> USE DEF IInv, Handle
<1>1. UnusedIds' /\ OpenIsCurrent' /\ OnePacketPerId' /\ NetIsHonest'
  BY DEF UnusedIds, OpenIsCurrent, OnePacketPerId, SameKey, NetIsHonest
<1>2. TakenWasSent' /\ TakenIsInHand'
  BY PacketFields DEF TakenWasSent, TakenIsInHand, TypeOK
<1>3. ExpiringHasTried' /\ TimeoutAfterAllTries' /\ AckedMeansTaken'
  BY DEF ExpiringHasTried, TimeoutAfterAllTries, AckedMeansTaken, SameKey
<1> QED BY <1>1, <1>2, <1>3

\* A restart opens a life whose ids are unused, and abandons what was open.
LEMMA RestartKeeps ==
  ASSUME IInv, TypeOK', NEW s \in Sockets, Restart(s)
  PROVE  IInv'
<1> USE DEF IInv, Restart
<1>0. \A p \in Packets :
        /\ stage'[p] = stage[p]
           \/ (p.src = s /\ stage[p] \in {"sent", "pending"} /\ stage'[p] = "lost")
        /\ p.src = s => stage'[p] \notin {"sent", "pending"}
        /\ task'[p] \in {task[p], "none"}
  BY DEF TypeOK
<1>1. UnusedIds'
  BY <1>0, PacketFields DEF UnusedIds, OpenIsCurrent, TypeOK
<1>2. OpenIsCurrent' /\ OnePacketPerId'
  BY <1>0, PacketFields DEF OpenIsCurrent, OnePacketPerId, SameKey, TypeOK
<1>3. NetIsHonest'
  BY <1>0 DEF NetIsHonest
<1>4. TakenWasSent' /\ TakenIsInHand'
  BY <1>0, PacketFields DEF TakenWasSent, TakenIsInHand, TypeOK
<1>5. ExpiringHasTried' /\ TimeoutAfterAllTries' /\ AckedMeansTaken'
  BY <1>0 DEF ExpiringHasTried, TimeoutAfterAllTries, AckedMeansTaken, SameKey
<1> QED BY <1>1, <1>2, <1>3, <1>4, <1>5

LEMMA NextIInv == IInv /\ [Next]_vars => IInv'
<1> SUFFICES ASSUME IInv, [Next]_vars PROVE IInv'
  OBVIOUS
<1>0. TypeOK'
  BY NextTypeOK DEF IInv
<1>1. CASE UNCHANGED vars
  BY <1>1 DEF vars, IInv, TypeOK, UnusedIds, OpenIsCurrent, OnePacketPerId, SameKey,
              NetIsHonest, TakenWasSent, TakenIsInHand, ExpiringHasTried,
              TimeoutAfterAllTries, AckedMeansTaken
<1>2. CASE Next
  BY <1>0, <1>2, SendKeeps, SendFailsKeeps, RegisterKeeps, TaskKeeps, ReceiveAckKeeps,
     ReceiveReliableKeeps, HandleKeeps, RestartKeeps DEF Next
<1> QED BY <1>1, <1>2

----
\* The inductive invariant holds in every reachable state.
THEOREM Invariant == Spec => []IInv
  BY InitIInv, NextIInv, PTL DEF Spec

\* Every variable keeps its type.
THEOREM TypeCorrect == Spec => []TypeOK
<1>1. IInv => TypeOK
  BY DEF IInv
<1> QED BY <1>1, Invariant, PTL

\* A sender is told `Acknowledged` only of an id that was taken, and of its own
\* packet as long as it has not restarted.
THEOREM AcknowledgedIsTaken == Spec => []AckedMeansTaken
<1>1. IInv => AckedMeansTaken
  BY DEF IInv
<1> QED BY <1>1, Invariant, PTL

\* Without restarts at the two ends, an acknowledged packet is handled or held.
THEOREM AcknowledgedIsHandled == Spec => []AckedMeansHandled
<1>1. IInv => AckedMeansHandled
  BY DEF IInv, AckedMeansTaken, TakenIsInHand, AckedMeansHandled
<1> QED BY <1>1, Invariant, PTL

\* `Timeout` is said only after every retry, by a task that is over.
THEOREM TimeoutIsLast == Spec => []TimeoutAfterAllTries
<1>1. IInv => TimeoutAfterAllTries
  BY DEF IInv
<1> QED BY <1>1, Invariant, PTL

----
\* No step changes an outcome that was told.
LEMMA StepKeepsOutcome ==
  ASSUME IInv, Next, NEW p \in Packets, stage[p] \in {"Acknowledged", "Timeout", "lost"}
  PROVE  stage'[p] = stage[p]
<1> USE DEF IInv, TypeOK
<1>1. ASSUME NEW q \in Packets, SendReliable(q) PROVE stage'[p] = stage[p]
  <2>1. stage[q] = "unsent"
    BY <1>1, PacketFields DEF SendReliable, UnusedIds
  <2> QED BY <1>1, <2>1 DEF SendReliable
<1>2. ASSUME NEW s \in Sockets, SendFails(s) PROVE stage'[p] = stage[p]
  BY <1>2 DEF SendFails
<1>3. ASSUME NEW q \in Packets, RegisterPending(q) PROVE stage'[p] = stage[p]
  BY <1>3 DEF RegisterPending
<1>4. ASSUME NEW q \in Packets, TaskStep(q) PROVE stage'[p] = stage[p]
  BY <1>4 DEF TaskStep, Retransmit, RetransmitFails, GiveUp, Expire, TaskEnds
<1>5. ASSUME NEW s \in Sockets, NEW i \in 0..(MaxSends - 1), ReceiveAck(s, i)
      PROVE  stage'[p] = stage[p]
  BY <1>5 DEF ReceiveAck
<1>6. ASSUME NEW q \in Packets, ReceiveReliable(q) PROVE stage'[p] = stage[p]
  BY <1>6 DEF ReceiveReliable
<1>7. ASSUME NEW s \in Sockets, Handle(s) PROVE stage'[p] = stage[p]
  BY <1>7 DEF Handle
<1>8. ASSUME NEW s \in Sockets, Restart(s) PROVE stage'[p] = stage[p]
  BY <1>8 DEF Restart
<1> QED BY <1>1, <1>2, <1>3, <1>4, <1>5, <1>6, <1>7, <1>8 DEF Next

\* An outcome is final, whatever arrives late and whoever restarts.
THEOREM OutcomesAreFinal == Spec => OutcomeIsFinal
<1>1. IInv /\ [Next]_vars =>
        [\A p \in Packets : stage[p] \in {"Acknowledged", "Timeout", "lost"}
           => stage'[p] = stage[p]]_vars
  BY StepKeepsOutcome
<1> QED BY <1>1, Invariant, PTL DEF Spec, OutcomeIsFinal

----
\* The initial states are initial states of AtLeastOnce.
LEMMA RefinesInit == Init => Promise!Init
  BY DEF Init, Promise!Init, AbstractOutcome

\* Every step of the sockets is a step of AtLeastOnce or changes nothing there.
LEMMA RefinesStep ==
  ASSUME IInv, Next
  PROVE  Promise!Next \/ UNCHANGED Promise!avars
<1> USE DEF IInv, TypeOK, AbstractOutcome
<1>1. ASSUME NEW p \in Packets, SendReliable(p) PROVE Promise!Next
  <2>1. stage[p] = "unsent"
    BY <1>1, PacketFields DEF SendReliable, UnusedIds
  <2>2. \A q \in Packets : (q.src = p.src /\ q.life = p.life /\ q.id = p.id)
                             => AbstractOutcome[q] = "unsent"
    BY <1>1, PacketFields DEF SendReliable, UnusedIds
  <2>3. AbstractOutcome' = [AbstractOutcome EXCEPT ![p] = "open"]
    BY <1>1, <2>1 DEF SendReliable
  <2>4. Promise!Open(p)
    BY <1>1, <2>1, <2>2, <2>3 DEF SendReliable, Promise!Open
  <2> QED BY <2>4 DEF Promise!Next
<1>2. ASSUME NEW s \in Sockets, SendFails(s) PROVE UNCHANGED Promise!avars
  BY <1>2 DEF SendFails, Promise!avars
<1>3. ASSUME NEW p \in Packets, RegisterPending(p) PROVE UNCHANGED Promise!avars
  <2>1. AbstractOutcome' = AbstractOutcome
    BY <1>3 DEF RegisterPending
  <2> QED BY <1>3, <2>1 DEF RegisterPending, Promise!avars
<1>4. ASSUME NEW p \in Packets, TaskStep(p)
      PROVE  Promise!Next \/ UNCHANGED Promise!avars
  <2>1. CASE Expire(p) /\ stage[p] = "pending"
    <3>1. AbstractOutcome' = [AbstractOutcome EXCEPT ![p] = "Timeout"]
      BY <2>1 DEF Expire
    <3>2. Promise!Expire(p)
      BY <2>1, <3>1 DEF Expire, Promise!Expire
    <3> QED BY <3>2 DEF Promise!Next
  <2>2. CASE ~(Expire(p) /\ stage[p] = "pending")
    <3>1. stage' = stage /\ UNCHANGED <<taken, handled>>
      BY <1>4, <2>2 DEF TaskStep, Retransmit, RetransmitFails, GiveUp, Expire, TaskEnds
    <3> QED BY <3>1 DEF Promise!avars
  <2> QED BY <2>1, <2>2
<1>5. ASSUME NEW s \in Sockets, NEW i \in 0..(MaxSends - 1), ReceiveAck(s, i)
      PROVE  Promise!Next \/ UNCHANGED Promise!avars
  <2>1. CASE \E p \in Packets : p.src = s /\ p.id = i /\ stage[p] = "pending"
    <3>1. PICK p \in Packets : p.src = s /\ p.id = i /\ stage[p] = "pending"
      BY <2>1
    <3>2. \A q \in Packets : (q.src = s /\ q.id = i /\ stage[q] = "pending") => q = p
      BY <3>1 DEF OpenIsCurrent, OnePacketPerId, SameKey
    <3>3. AbstractOutcome' = [AbstractOutcome EXCEPT ![p] = "Acknowledged"]
      BY <1>5, <3>1, <3>2 DEF ReceiveAck
    <3>4. PICK q \in taken : q.src = s /\ q.id = i
      BY <1>5 DEF NetIsHonest, ReceiveAck
    <3>5. q.life <= p.life
      BY <3>1, <3>4, PacketFields DEF TakenWasSent, UnusedIds, OpenIsCurrent
    <3>6. Promise!Acknowledge(p)
      BY <1>5, <3>1, <3>3, <3>4, <3>5 DEF ReceiveAck, Promise!Acknowledge
    <3> QED BY <3>6 DEF Promise!Next
  <2>2. CASE ~\E p \in Packets : p.src = s /\ p.id = i /\ stage[p] = "pending"
    <3>1. stage' = stage
      BY <1>5, <2>2 DEF ReceiveAck
    <3> QED BY <1>5, <3>1 DEF ReceiveAck, Promise!avars
  <2> QED BY <2>1, <2>2
<1>6. ASSUME NEW p \in Packets, ReceiveReliable(p) PROVE Promise!Next
  <2>1. Promise!Take(p)
    BY <1>6 DEF ReceiveReliable, Promise!Take, NetIsHonest
  <2> QED BY <2>1 DEF Promise!Next
<1>7. ASSUME NEW s \in Sockets, Handle(s) PROVE Promise!Next
  <2>1. holding[s] \in taken /\ Promise!Handle(holding[s])
    BY <1>7 DEF Handle, Promise!Handle, TakenWasSent
  <2> QED BY <2>1 DEF Promise!Next
<1>8. ASSUME NEW s \in Sockets, Restart(s)
      PROVE  Promise!Next \/ UNCHANGED Promise!avars
  <2>1. AbstractOutcome' = [p \in Packets |->
          IF p.src = s /\ AbstractOutcome[p] = "open" THEN "lost" ELSE AbstractOutcome[p]]
    <3>1. ASSUME NEW p \in Packets
          PROVE  (IF stage'[p] \in {"sent", "pending"} THEN "open" ELSE stage'[p])
                 = IF p.src = s /\ AbstractOutcome[p] = "open"
                     THEN "lost" ELSE AbstractOutcome[p]
      BY <1>8 DEF Restart, Stages
    <3> QED BY <3>1 DEF AbstractOutcome
  <2>2. CASE s \in {p.src : p \in Packets}
    <3>1. Promise!Forget(s)
      BY <1>8, <2>1 DEF Restart, Promise!Forget
    <3> QED BY <2>2, <3>1 DEF Promise!Next
  <2>3. CASE s \notin {p.src : p \in Packets}
    <3>1. stage' = stage
      BY <1>8, <2>3 DEF Restart
    <3> QED BY <1>8, <3>1 DEF Restart, Promise!avars
  <2> QED BY <2>2, <2>3
<1> QED BY <1>1, <1>2, <1>3, <1>4, <1>5, <1>6, <1>7, <1>8 DEF Next

\* The sockets implement AtLeastOnce.
THEOREM Refinement == Spec => ImplementsAtLeastOnce
<1>1. IInv /\ [Next]_vars => [Promise!Next]_(Promise!avars)
  <2>1. UNCHANGED vars => UNCHANGED Promise!avars
    BY DEF vars, Promise!avars, AbstractOutcome
  <2> QED BY <2>1, RefinesStep
<1> QED BY <1>1, RefinesInit, Invariant, PTL DEF Spec, ImplementsAtLeastOnce, Promise!Spec

====

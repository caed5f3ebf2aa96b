---- MODULE ReliableUdp ----
(* The reliable half of common/src/reliable.rs: sockets that send packets    *)
(* with an id, retransmit them from a task of their own until an Ack removes *)
(* the pending entry, and give up after MaxRetries. UDP below them loses,    *)
(* duplicates, delays and reorders; processes crash and start again with     *)
(* their ids back at 0 and the same address.                                 *)
(*                                                                           *)
(* A packet is named by its sender, the life of the sender's process, the id *)
(* and the destination. Lives are history: the code has no such number, and  *)
(* neither datagram carries it.                                              *)
EXTENDS Integers

CONSTANTS Sockets,      \* socket addresses
          Links,        \* pairs <<sender, destination>> that talk
          NoPacket,     \* "the receive loop holds no payload"
          MaxRetries,   \* MAX_RETRIES
          MaxSends,     \* bound: ids a socket uses in one life
          MaxLife,      \* bound: restarts of one process
          IoErrors      \* may send_to return an error?

ASSUME ConstantsAssumption ==
  /\ Links \subseteq Sockets \X Sockets
  /\ MaxRetries \in Nat
  /\ MaxSends \in Nat
  /\ MaxLife \in Nat
  /\ IoErrors \in BOOLEAN

Packets == {p \in [src: Sockets, dst: Sockets, life: 0..MaxLife, id: 0..(MaxSends - 1)] :
              <<p.src, p.dst>> \in Links}

ASSUME NoPacketAssumption == NoPacket \notin Packets

VARIABLES nextId,    \* sequence_number of each socket
          life,      \* history: restarts of each process so far
          stage,     \* where each packet is: see Stages
          retries,   \* PendingPacket.retries
          task,      \* the retransmission task of each packet: see TaskStates
          net,       \* every datagram sent so far; none ever leaves
          holding,   \* the payload each receive loop is handling
          taken,     \* history: packets `receive` has acknowledged and returned
          handled    \* history: packets whose handler has returned

vars == <<nextId, life, stage, retries, task, net, holding, taken, handled>>

\* "sent": send_to has returned and pending_packets has no entry yet.
\* "pending": the entry is in pending_packets. "lost": the process is gone.
Stages == {"unsent", "sent", "pending", "Acknowledged", "Timeout", "lost"}

\* "expiring": the task has let go of the entry at MAX_RETRIES and not yet
\* removed it. "failed": the task has left its loop on an error of send_to.
TaskStates == {"none", "looping", "expiring", "failed", "done"}

Data(p) == [type |-> "Reliable", packet |-> p]
Ack(s, i) == [type |-> "Ack", to |-> s, id |-> i]

Datagrams == {Data(p) : p \in Packets}
             \cup {Ack(s, i) : s \in Sockets, i \in 0..(MaxSends - 1)}

TypeOK ==
  /\ nextId \in [Sockets -> 0..MaxSends]
  /\ life \in [Sockets -> 0..MaxLife]
  /\ stage \in [Packets -> Stages]
  /\ retries \in [Packets -> 0..MaxRetries]
  /\ task \in [Packets -> TaskStates]
  /\ net \subseteq Datagrams
  /\ holding \in [Sockets -> Packets \cup {NoPacket}]
  /\ taken \subseteq Packets
  /\ handled \subseteq Packets

Init ==
  /\ nextId = [s \in Sockets |-> 0]
  /\ life = [s \in Sockets |-> 0]
  /\ stage = [p \in Packets |-> "unsent"]
  /\ retries = [p \in Packets |-> 0]
  /\ task = [p \in Packets |-> "none"]
  /\ net = {}
  /\ holding = [s \in Sockets |-> NoPacket]
  /\ taken = {}
  /\ handled = {}

----
\* fetch_add on the sequence number, and what it would be as a mere load.
LoadOnly(s) == UNCHANGED nextId
FetchAdd(s) == nextId' = [nextId EXCEPT ![s] = @ + 1]

\* The check against MAX_RETRIES, and what it would be one too early or too late.
TriesLeftEarly(p) == retries[p] + 1 < MaxRetries
TriesLeftLate(p) == retries[p] <= MaxRetries
TriesLeft(p) == retries[p] < MaxRetries

\* send_reliable: the id is taken and the datagram goes out. The entry is
\* made after the await, in RegisterPending.
SendReliable(p) ==
  /\ p.life = life[p.src]
  /\ p.id = nextId[p.src]
  /\ FetchAdd(p.src)
  /\ stage' = [stage EXCEPT ![p] = "sent"]
  /\ net' = net \cup {Data(p)}
  /\ UNCHANGED <<life, retries, task, holding, taken, handled>>

\* send_reliable when send_to fails: the caller has the error, the id is used
\* up and nothing is pending.
SendFails(s) ==
  /\ IoErrors
  /\ nextId[s] < MaxSends
  /\ FetchAdd(s)
  /\ UNCHANGED <<life, stage, retries, task, net, holding, taken, handled>>

\* RegisterPending without the task.
RegisterOnly(p) ==
  /\ stage[p] = "sent"
  /\ stage' = [stage EXCEPT ![p] = "pending"]
  /\ UNCHANGED <<nextId, life, retries, task, net, holding, taken, handled>>

\* send_reliable after the await: insert the entry, spawn the task.
RegisterPending(p) ==
  /\ stage[p] = "sent"
  /\ stage' = [stage EXCEPT ![p] = "pending"]
  /\ task' = [task EXCEPT ![p] = "looping"]
  /\ UNCHANGED <<nextId, life, retries, net, holding, taken, handled>>

\* The task wakes and sends again. It holds the entry's guard across the
\* await, so an Ack is processed before or after the step, never inside it.
Retransmit(p) ==
  /\ task[p] = "looping"
  /\ stage[p] = "pending"
  /\ TriesLeft(p)
  /\ retries' = [retries EXCEPT ![p] = @ + 1]
  /\ net' = net \cup {Data(p)}
  /\ UNCHANGED <<nextId, life, stage, task, holding, taken, handled>>

\* The task wakes, send_to fails and the loop breaks: the entry stays.
RetransmitFails(p) ==
  /\ IoErrors
  /\ task[p] = "looping"
  /\ stage[p] = "pending"
  /\ TriesLeft(p)
  /\ task' = [task EXCEPT ![p] = "failed"]
  /\ UNCHANGED <<nextId, life, stage, retries, net, holding, taken, handled>>

\* The task wakes with no tries left and drops the guard ...
GiveUp(p) ==
  /\ task[p] = "looping"
  /\ stage[p] = "pending"
  /\ ~TriesLeft(p)
  /\ task' = [task EXCEPT ![p] = "expiring"]
  /\ UNCHANGED <<nextId, life, stage, retries, net, holding, taken, handled>>

\* Expire without another look at the entry.
ExpireBlindly(p) ==
  /\ task[p] = "expiring"
  /\ task' = [task EXCEPT ![p] = "done"]
  /\ stage' = [stage EXCEPT ![p] = "Timeout"]
  /\ UNCHANGED <<nextId, life, retries, net, holding, taken, handled>>

\* ... then removes the entry. An Ack may have removed it first, and then the
\* task has nothing to say.
Expire(p) ==
  /\ task[p] = "expiring"
  /\ task' = [task EXCEPT ![p] = "done"]
  /\ stage' = [stage EXCEPT ![p] = IF @ = "pending" THEN "Timeout" ELSE @]
  /\ UNCHANGED <<nextId, life, retries, net, holding, taken, handled>>

\* TaskEnds with a missing entry taken for a lost packet.
TaskEndsInTimeout(p) ==
  /\ task[p] = "looping"
  /\ stage[p] # "pending"
  /\ task' = [task EXCEPT ![p] = "done"]
  /\ stage' = [stage EXCEPT ![p] = "Timeout"]
  /\ UNCHANGED <<nextId, life, retries, net, holding, taken, handled>>

\* The task wakes and finds no entry: the packet was acknowledged.
TaskEnds(p) ==
  /\ task[p] = "looping"
  /\ stage[p] # "pending"
  /\ task' = [task EXCEPT ![p] = "done"]
  /\ UNCHANGED <<nextId, life, stage, retries, net, holding, taken, handled>>

\* `receive` with an Ack: whoever sent it, the pending entry with this id is
\* removed and its waiter told. With no such entry the Ack is ignored.
ReceiveAck(s, i) ==
  /\ holding[s] = NoPacket
  /\ Ack(s, i) \in net
  /\ stage' = [p \in Packets |->
        IF p.src = s /\ p.id = i /\ stage[p] = "pending"
          THEN "Acknowledged" ELSE stage[p]]
  /\ UNCHANGED <<nextId, life, retries, task, net, holding, taken, handled>>

\* `receive` with a Reliable packet: the Ack goes out first, then the payload
\* is returned to the loop, once for every copy that arrives. If the Ack
\* cannot be sent the payload is not returned either: as if it never came.
ReceiveReliable(p) ==
  /\ holding[p.dst] = NoPacket
  /\ Data(p) \in net
  /\ net' = net \cup {Ack(p.src, p.id)}
  /\ holding' = [holding EXCEPT ![p.dst] = p]
  /\ taken' = taken \cup {p}
  /\ UNCHANGED <<nextId, life, stage, retries, task, handled>>

\* Handle with the payload dropped on the way to the handler.
HandleNothing(s) ==
  /\ holding[s] # NoPacket
  /\ holding' = [holding EXCEPT ![s] = NoPacket]
  /\ UNCHANGED <<nextId, life, stage, retries, task, net, taken, handled>>

\* The handler of the payload returns and the loop may receive again.
Handle(s) ==
  /\ holding[s] # NoPacket
  /\ handled' = handled \cup {holding[s]}
  /\ holding' = [holding EXCEPT ![s] = NoPacket]
  /\ UNCHANGED <<nextId, life, stage, retries, task, net, taken>>

\* The process dies and another starts on the same address: `new` begins with
\* no pending packets and id 0; what is in the network stays there.
Restart(s) ==
  /\ life[s] < MaxLife
  /\ life' = [life EXCEPT ![s] = @ + 1]
  /\ nextId' = [nextId EXCEPT ![s] = 0]
  /\ stage' = [p \in Packets |->
        IF p.src = s /\ stage[p] \in {"sent", "pending"} THEN "lost" ELSE stage[p]]
  /\ task' = [p \in Packets |-> IF p.src = s THEN "none" ELSE task[p]]
  /\ holding' = [holding EXCEPT ![s] = NoPacket]
  /\ UNCHANGED <<retries, net, taken, handled>>

TaskStep(p) == \/ Retransmit(p)
               \/ RetransmitFails(p)
               \/ GiveUp(p)
               \/ Expire(p)
               \/ TaskEnds(p)

Next ==
  \/ \E p \in Packets : SendReliable(p)
  \/ \E s \in Sockets : SendFails(s)
  \/ \E p \in Packets : RegisterPending(p)
  \/ \E p \in Packets : TaskStep(p)
  \/ \E s \in Sockets, i \in 0..(MaxSends - 1) : ReceiveAck(s, i)
  \/ \E p \in Packets : ReceiveReliable(p)
  \/ \E s \in Sockets : Handle(s)
  \/ \E s \in Sockets : Restart(s)

Spec == Init /\ [][Next]_vars

\* tokio runs a spawned task whenever its sleep is over, and a caller that
\* reached send_reliable goes on after send_to. Nothing is assumed of the
\* network, of the receive loops or of restarts.
FairSpec == /\ Spec
            /\ \A p \in Packets : WF_vars(RegisterPending(p)) /\ WF_vars(TaskStep(p))

----
SameKey(p, q) == q.src = p.src /\ q.id = p.id

\* A sender is told `Acknowledged` only if a packet with this sender and this
\* id was taken by its destination, and by the packet's own destination if
\* the sender has never restarted: a late Ack of an earlier life is the only
\* thing that can confirm the wrong packet.
AckedMeansTaken ==
  \A p \in Packets : stage[p] = "Acknowledged" =>
    /\ \E q \in taken : SameKey(p, q) /\ q.life <= p.life
    /\ p.life = 0 => p \in taken

\* `receive` acknowledges before the payload is handled, so Acknowledged means
\* handled, or still in the hands of the receive loop, only for a destination
\* that never restarted.
AckedMeansHandled ==
  \A p \in Packets :
    (stage[p] = "Acknowledged" /\ p.life = 0 /\ life[p.dst] = 0)
      => (p \in handled \/ holding[p.dst] = p)

\* A sender is told `Timeout` only after MaxRetries retransmissions, and never
\* while the task can still send the packet.
TimeoutAfterAllTries ==
  \A p \in Packets : stage[p] = "Timeout" => (retries[p] = MaxRetries /\ task[p] # "looping")

\* An outcome is final: the waiter is told once, and neither a late Ack, the
\* task nor a restart that reuses the id changes what it was told.
OutcomeIsFinal ==
  [][\A p \in Packets : stage[p] \in {"Acknowledged", "Timeout", "lost"}
       => stage'[p] = stage[p]]_vars

\* Every send_reliable that got past its send_to ends with an outcome, on any
\* network, unless an error of send_to ends its retransmission task.
EverySendResolves ==
  \A p \in Packets :
    stage[p] = "sent" ~> (stage[p] \notin {"sent", "pending"} \/ task[p] = "failed")

----
\* The sockets implement AtLeastOnce: `sent` and `pending` are both open.
AbstractOutcome ==
  [p \in Packets |-> IF stage[p] \in {"sent", "pending"} THEN "open" ELSE stage[p]]

Promise == INSTANCE AtLeastOnce WITH outcome <- AbstractOutcome

ImplementsAtLeastOnce == Promise!Spec

====

---- MODULE AtLeastOnce ----
(* What common/src/reliable.rs promises the callers of send_reliable, with   *)
(* no network, no timers and no retries in it: a packet is opened under an   *)
(* id that no other packet of the same process life uses, it may be taken by *)
(* its destination any number of times from then on, and its sender learns   *)
(* at most one outcome. `Acknowledged` means that the destination of a       *)
(* packet with this id, of this life of the sender or an earlier one, took   *)
(* it; `Timeout` promises nothing about the destination.                     *)
EXTENDS Integers

CONSTANT Packets   \* records with the fields src, dst, life and id

VARIABLES outcome,   \* what the sender knows of each packet
          taken,     \* packets the destination has taken at least once
          handled    \* packets whose payload a handler has finished with

avars == <<outcome, taken, handled>>

Outcomes == {"unsent", "open", "Acknowledged", "Timeout", "lost"}

Init == /\ outcome = [p \in Packets |-> "unsent"]
        /\ taken = {}
        /\ handled = {}

Open(p) ==
  /\ outcome[p] = "unsent"
  /\ \A q \in Packets :
        (q.src = p.src /\ q.life = p.life /\ q.id = p.id) => outcome[q] = "unsent"
  /\ outcome' = [outcome EXCEPT ![p] = "open"]
  /\ UNCHANGED <<taken, handled>>

Take(p) ==
  /\ outcome[p] # "unsent"
  /\ taken' = taken \cup {p}
  /\ UNCHANGED <<outcome, handled>>

Handle(p) ==
  /\ p \in taken
  /\ handled' = handled \cup {p}
  /\ UNCHANGED <<outcome, taken>>

Acknowledge(p) ==
  /\ outcome[p] = "open"
  /\ \E q \in taken : q.src = p.src /\ q.id = p.id /\ q.life <= p.life
  /\ outcome' = [outcome EXCEPT ![p] = "Acknowledged"]
  /\ UNCHANGED <<taken, handled>>

Expire(p) ==
  /\ outcome[p] = "open"
  /\ outcome' = [outcome EXCEPT ![p] = "Timeout"]
  /\ UNCHANGED <<taken, handled>>

\* The process that sent these packets is gone, and nobody learns an outcome.
Forget(s) ==
  /\ outcome' = [p \in Packets |->
        IF p.src = s /\ outcome[p] = "open" THEN "lost" ELSE outcome[p]]
  /\ UNCHANGED <<taken, handled>>

Next == \/ \E p \in Packets :
              Open(p) \/ Take(p) \/ Handle(p) \/ Acknowledge(p) \/ Expire(p)
        \/ \E s \in {p.src : p \in Packets} : Forget(s)

Spec == Init /\ [][Next]_avars
====

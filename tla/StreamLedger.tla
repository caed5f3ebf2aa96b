---- MODULE StreamLedger ----
(* The ledger by which LossIsBounded of Stream is proved. Every packet of the *)
(* followed stream has an id, in the order of sending. For each state there   *)
(* are                                                                        *)
(*   ids[i]  the ids of the packets on link i,                                *)
(*   num[e]  the number that packet e carries,                                *)
(*   due[j]  the ids of the packets that relay j has yet to see,              *)
(*   next    the id of the packet to come,                                    *)
(*   debts   what relays may still drop: <<e, j>> lets relay j drop packet e, *)
(*           and <<e, 0>> says that packet e is a stray, one that overtook    *)
(*           another or was overtaken, which any relay may drop once.         *)
(* A fault of the network adds debts, and a drop takes one away, so that there*)
(* are never more of them than `allowance`: it is at least 0. A packet that is*)
(* no stray is whole. If relay j has no debt for it either its number is at   *)
(* most one more than that of the packet the relay sees before it, which is   *)
(* what handle_video_packet (node/src/handle.rs:192-237) asks of a packet that*)
(* it passes on: a relay drops only what there is a debt for.                 *)
EXTENDS StreamProofs, FiniteSetTheorems, FunctionTheorems, WellFoundedInduction

\* The next packet of ffmpeg is one of the line.
Subscribed == First \in interested[Video]

\* The packets relay j has yet to see, and the one to come if the line gets it.
Counted(D, next) == D \cup (IF Subscribed THEN {next} ELSE {})

\* The ids on a link are those of its packets, which its relay has yet to see.
Carried(ids, num, due) ==
  \A i \in Relays :
    /\ Len(ids[i]) = Len(link[i])
    /\ \A p \in 1..Len(link[i]) : num[ids[i][p]] = link[i][p] /\ ids[i][p] \in due[i]

\* The packets of a link are in the order of their ids: what overtakes another
\* changes places with it.
Ordered(ids) ==
  \A i \in Relays : \A p, q \in 1..Len(link[i]) : p < q => ids[i][p] < ids[i][q]

\* What is on a link the relays before it have seen.
Passed(ids, due) ==
  \A i, j \in Relays : i < j => \A p \in 1..Len(link[j]) : ids[j][p] \notin due[i]

\* What a relay has yet to see is on a link before it.
Placed(ids, due) ==
  \A j \in Relays : \A e \in due[j] :
    \E i \in Relays : i <= j /\ \E p \in 1..Len(link[i]) : e = ids[i][p]

\* What a relay has yet to see the relays behind it have, after all they have.
Nested(due, next) ==
  /\ \A i, j \in Relays : i < j =>
       due[i] \subseteq due[j] /\ \A e \in due[i], d \in due[j] \ due[i] : d < e
  /\ \A i \in Relays : \A e \in due[i] : e < next

\* The ids and numbers are those of the packets on the links.
Lined(ids, num, due, next) ==
  Carried(ids, num, due) /\ Ordered(ids) /\ Passed(ids, due) /\ Placed(ids, due)
    /\ Nested(due, next)

\* A packet that a relay may drop the relays behind it may drop in its place, and
\* the packet to come is no stray.
Owed(debts, next) ==
  /\ \A d \in debts : d[1] <= next
  /\ \A d \in debts : \A j \in Relays : 0 < d[2] /\ d[2] < j => <<d[1], j>> \in debts
  /\ <<next, 0>> \notin debts

\* The packet to come has the number that the server gives next.
NextNumber(num, next) == Subscribed => num[next] = number[Video] + 1

\* Packet e is the last one before y that is no stray, or a stray after it.
Follows(D, debts, e, y) ==
  /\ e \in D /\ e < y
  /\ \A z \in D : e < z /\ z < y => <<z, 0>> \in debts

\* The number of y is at most one more than each number that the relay may have
\* noted when it sees y: of a packet it follows, or, when all those before y are
\* strays, the one noted now, `base`; 0 is none.
Fits(D, num, debts, base, y) ==
  /\ \A e \in D : Follows(D, debts, e, y) => num[y] <= num[e] + 1
  /\ (\A z \in D : z < y => <<z, 0>> \in debts) => base = 0 \/ num[y] <= base + 1

\* Of the packets Y relay j drops only those it has a debt for.
Calm(j, D, num, debts, base, Y) ==
  \A y \in Y : <<y, 0>> \notin debts /\ <<y, j>> \notin debts => Fits(D, num, debts, base, y)

\* Each relay is calm about what it has yet to see.
AllCalm(num, due, debts, next) ==
  \A j \in Relays : Calm(j, due[j], num, debts, last[j], Counted(due[j], next))

\* The ledger is right, and has no more debts than the allowance.
Ledger(ids, num, due, debts, next) ==
  /\ ids \in [Relays -> Seq(Nat)] /\ num \in [Nat -> Nat] /\ due \in [Relays -> SUBSET Nat]
  /\ debts \subseteq Nat \X (0..Hops) /\ IsFiniteSet(debts) /\ next \in Nat
  /\ Lined(ids, num, due, next)
  /\ Owed(debts, next)
  /\ NextNumber(num, next)
  /\ AllCalm(num, due, debts, next)
  /\ Cardinality(debts) <= allowance

\* The code keeps no such books, but some ledger is right.
SomeLedger == \E ids, num, due, debts, next : Ledger(ids, num, due, debts, next)

\* A first relay that noted no number has sent nothing to those behind it.
Quiet == last[1] = 0 => \A i \in Relays : last[i] = 0 /\ (i > 1 => link[i] = <<>>)

\* The inductive invariant.
LossInv == Quiet /\ SomeLedger

----
(* What a relay drops, when packets come and go.                              *)

\* A relay stays calm when only strays go, numbers stay, and no whole packet loses
\* its debt.
LEMMA CalmKept ==
  ASSUME NEW j, NEW D \in SUBSET Nat, NEW Y, NEW num, NEW debts, NEW base,
         Calm(j, D, num, debts, base, Y),
         NEW E \in SUBSET D, NEW Z, NEW num2, NEW debts2,
         \A e \in E : num2[e] = num[e] /\ (<<e, 0>> \in debts2 => <<e, 0>> \in debts),
         \A e \in D \ E : <<e, 0>> \in debts,
         \A y \in Z : <<y, 0>> \notin debts2 /\ <<y, j>> \notin debts2 =>
           y \in Y /\ num2[y] = num[y] /\ <<y, 0>> \notin debts /\ <<y, j>> \notin debts
  PROVE  Calm(j, E, num2, debts2, base, Z)
<1> SUFFICES ASSUME NEW y \in Z, <<y, 0>> \notin debts2, <<y, j>> \notin debts2
             PROVE  Fits(E, num2, debts2, base, y)
  BY DEF Calm
<1>1. y \in Y /\ num2[y] = num[y] /\ Fits(D, num, debts, base, y)
  BY DEF Calm
<1>2. \A e \in E : Follows(E, debts2, e, y) => Follows(D, debts, e, y)
  BY DEF Follows
<1>3. (\A z \in E : z < y => <<z, 0>> \in debts2) => \A z \in D : z < y => <<z, 0>> \in debts
  OBVIOUS
<1> QED BY <1>1, <1>2, <1>3 DEF Fits

\* A relay that notes the number of the first packet, h, expects the rest by it.
LEMMA CalmFront ==
  ASSUME NEW j, NEW D \in SUBSET Nat, NEW Y \in SUBSET Nat, NEW num, NEW debts, NEW base,
         Calm(j, D, num, debts, base, Y),
         NEW h \in D, \A e \in D : h <= e,
         NEW Z \in SUBSET Y, \A y \in Z : h < y,
         NEW debts2,
         \A e \in D \ {h} : <<e, 0>> \in debts2 => <<e, 0>> \in debts,
         \A y \in Z : <<y, 0>> \notin debts2 /\ <<y, j>> \notin debts2 =>
           <<y, 0>> \notin debts /\ <<y, j>> \notin debts
  PROVE  Calm(j, D \ {h}, num, debts2, num[h], Z)
<1> SUFFICES ASSUME NEW y \in Z, <<y, 0>> \notin debts2, <<y, j>> \notin debts2
             PROVE  Fits(D \ {h}, num, debts2, num[h], y)
  BY DEF Calm
<1>1. y \in Y /\ h < y /\ Fits(D, num, debts, base, y)
  BY DEF Calm
<1>2. \A e \in D \ {h} : Follows(D \ {h}, debts2, e, y) => Follows(D, debts, e, y)
  BY DEF Follows
<1>3. (\A z \in D \ {h} : z < y => <<z, 0>> \in debts2) => Follows(D, debts, h, y)
  BY <1>1 DEF Follows
<1> QED BY <1>1, <1>2, <1>3 DEF Fits

\* A relay that never sees h stays calm if w, the next whole packet, owes for it.
LEMMA CalmWithout ==
  ASSUME NEW j, NEW D \in SUBSET Nat, NEW Y \in SUBSET Nat, NEW num, NEW debts, NEW base,
         Calm(j, D, num, debts, base, Y),
         NEW h \in D, NEW w \in Nat, h < w, <<w, 0>> \notin debts,
         D \subseteq Y, \A z \in Y : w <= z \/ z <= h \/ <<z, 0>> \in debts,
         \A y \in Y : y <= w \/ w \in D,
         NEW Z \in SUBSET Y, NEW debts2, <<w, j>> \in debts2,
         \A e \in D \ {h} : <<e, 0>> \in debts2 => <<e, 0>> \in debts,
         \A y \in Z : <<y, 0>> \notin debts2 /\ <<y, j>> \notin debts2 =>
           y # h /\ <<y, 0>> \notin debts /\ <<y, j>> \notin debts
  PROVE  Calm(j, D \ {h}, num, debts2, base, Z)
<1> SUFFICES ASSUME NEW y \in Z, <<y, 0>> \notin debts2, <<y, j>> \notin debts2
             PROVE  Fits(D \ {h}, num, debts2, base, y)
  BY DEF Calm
<1>1. y \in Y /\ y # h /\ y # w /\ <<y, 0>> \notin debts /\ Fits(D, num, debts, base, y)
  BY DEF Calm
<1>2. CASE y < h
  <2>1. \A e \in D \ {h} : Follows(D \ {h}, debts2, e, y) => Follows(D, debts, e, y)
    BY <1>2 DEF Follows
  <2>2. (\A z \in D \ {h} : z < y => <<z, 0>> \in debts2) => \A z \in D : z < y
          => <<z, 0>> \in debts
    BY <1>2
  <2> QED BY <1>1, <2>1, <2>2 DEF Fits
<1>3. CASE h < y /\ y < w
  BY <1>1, <1>3
<1>4. CASE w < y
  <2>1. w \in D \ {h} /\ <<w, 0>> \notin debts2
    BY <1>1, <1>4
  <2>2. \A e \in D \ {h} : Follows(D \ {h}, debts2, e, y) => Follows(D, debts, e, y)
    BY <2>1, <1>4 DEF Follows
  <2>3. ~ \A z \in D \ {h} : z < y => <<z, 0>> \in debts2
    BY <2>1, <1>4
  <2> QED BY <1>1, <2>2, <2>3 DEF Fits
<1> QED BY <1>1, <1>2, <1>3, <1>4

\* Someone owes for the numbers of h and s that change places, as relay j sees it:
\* a whole packet w behind them, h itself, s that was a stray, or both are strays.
Explained(j, D, Y, num, debts, debts2, h, s) ==
  \/ /\ \E w \in Nat : /\ s < w /\ <<w, 0>> \notin debts2 /\ <<w, j>> \in debts2
                       /\ \A z \in Y : w <= z \/ z <= s \/ <<z, 0>> \in debts
                       /\ \A y \in Y : y <= w \/ w \in D
     /\ \/ /\ num[h] <= num[s] + 1
           /\ <<h, 0>> \notin debts
           /\ <<h, 0>> \in debts2 /\ (<<h, j>> \in debts => <<s, j>> \in debts2)
        \/ /\ <<h, 0>> \in debts /\ <<s, 0>> \notin debts
           /\ <<s, 0>> \in debts2 /\ <<h, 0>> \notin debts2
           /\ <<s, j>> \in debts => <<h, j>> \in debts2
  \/ /\ num[h] > num[s] + 1
     /\ <<s, 0>> \notin debts
     /\ <<h, j>> \in debts2 /\ <<h, 0>> \notin debts2 /\ <<s, 0>> \in debts2
  \/ /\ <<s, 0>> \in debts
     /\ <<h, 0>> \in debts2 /\ <<s, 0>> \notin debts2 /\ <<s, j>> \in debts2
  \/ /\ <<h, 0>> \in debts /\ <<s, 0>> \in debts
     /\ <<h, 0>> \in debts2 /\ <<s, 0>> \in debts2

\* A relay stays calm when neighbours change places and someone owes for it.
LEMMA CalmSwapped ==
  ASSUME NEW j, NEW D \in SUBSET Nat, NEW Y \in SUBSET Nat, D \subseteq Y,
         NEW num \in [Nat -> Nat], NEW debts, NEW base,
         Calm(j, D, num, debts, base, Y),
         NEW h \in D, NEW s \in D, h < s, \A z \in Y : z <= h \/ s <= z,
         NEW num2, num2[h] = num[s], num2[s] = num[h],
         \A e \in Y \ {h, s} : num2[e] = num[e],
         NEW debts2,
         \A e \in Y \ {h, s} : <<e, 0>> \in debts2 => <<e, 0>> \in debts,
         \A y \in Y \ {h, s} : <<y, 0>> \notin debts2 /\ <<y, j>> \notin debts2 =>
           <<y, 0>> \notin debts /\ <<y, j>> \notin debts,
         Explained(j, D, Y, num, debts, debts2, h, s)
  PROVE  Calm(j, D, num2, debts2, base, Y)
<1> SUFFICES ASSUME NEW y \in Y, <<y, 0>> \notin debts2, <<y, j>> \notin debts2
             PROVE  Fits(D, num2, debts2, base, y)
  BY DEF Calm
<1>0. Y \subseteq Nat /\ (\A e \in D : num[e] \in Nat) /\ num[y] \in Nat
  OBVIOUS
<1>1. CASE y < h
  <2>1. Fits(D, num, debts, base, y)
    BY <1>1 DEF Calm
  <2>2. \A e \in D : e < y => num2[e] = num[e] /\ e \notin {h, s}
    BY <1>1
  <2>3. \A e \in D : Follows(D, debts2, e, y) => Follows(D, debts, e, y)
    BY <1>1, <2>2 DEF Follows
  <2>4. (\A z \in D : z < y => <<z, 0>> \in debts2) => \A z \in D : z < y => <<z, 0>> \in debts
    BY <2>2
  <2> QED BY <1>1, <2>1, <2>2, <2>3, <2>4 DEF Fits, Follows
<1>2. CASE y = h
  <2>1. /\ <<h, 0>> \in debts /\ <<s, 0>> \notin debts /\ <<s, j>> \notin debts
    BY <1>2 DEF Explained
  <2>2. Fits(D, num, debts, base, s)
    BY <2>1 DEF Calm
  <2>3. \A e \in D : Follows(D, debts2, e, y) => Follows(D, debts, e, s)
    BY <1>2, <2>1 DEF Follows
  <2>4. (\A z \in D : z < y => <<z, 0>> \in debts2) => \A z \in D : z < s => <<z, 0>> \in debts
    BY <1>2, <2>1
  <2>5. \A e \in D : e < y => num2[e] = num[e]
    BY <1>2
  <2> QED BY <1>2, <2>2, <2>3, <2>4, <2>5 DEF Fits, Follows
<1>3. CASE y = s
  <2>1. /\ num[h] <= num[s] + 1 /\ <<h, 0>> \notin debts /\ <<h, j>> \notin debts
             /\ <<h, 0>> \in debts2
    BY <1>3 DEF Explained
  <2>2. Fits(D, num, debts, base, h)
    BY <2>1 DEF Calm
  <2>3. \A e \in D \ {h} : Follows(D, debts2, e, y) => Follows(D, debts, e, h)
    BY <1>3, <2>1 DEF Follows
  <2>4. (\A z \in D : z < y => <<z, 0>> \in debts2) => \A z \in D : z < h => <<z, 0>> \in debts
    BY <1>3, <2>1
  <2>5. \A e \in D : e < h => num2[e] = num[e]
    OBVIOUS
  <2>6. \A e \in D : Follows(D, debts2, e, y) => num2[y] <= num2[e] + 1
    <3> SUFFICES ASSUME NEW e \in D, Follows(D, debts2, e, y) PROVE num2[y] <= num2[e] + 1
      OBVIOUS
    <3>1. CASE e = h
      BY <3>1, <1>3, <2>1
    <3>2. CASE e # h
      BY <3>2, <1>3, <2>2, <2>3, <2>5 DEF Fits, Follows
    <3> QED BY <3>1, <3>2
  <2> QED BY <1>3, <2>2, <2>4, <2>6 DEF Fits
<1>4. CASE s < y
  <2>0. <<y, 0>> \notin debts /\ Fits(D, num, debts, base, y) /\ num2[y] = num[y]
    BY <1>4 DEF Calm
  <2>1. CASE \E z \in D : s < z /\ z < y /\ <<z, 0>> \notin debts2
    <3> PICK z \in D : s < z /\ z < y /\ <<z, 0>> \notin debts2
      BY <2>1
    <3>1. \A e \in D : Follows(D, debts2, e, y) => s < e /\ Follows(D, debts, e, y)
      BY <1>4 DEF Follows
    <3>2. \A e \in D : s < e => num2[e] = num[e]
      OBVIOUS
    <3>3. ~ \A d \in D : d < y => <<d, 0>> \in debts2
      OBVIOUS
    <3> QED BY <2>0, <3>1, <3>2, <3>3 DEF Fits
  <2>2. CASE \A z \in D : s < z /\ z < y => <<z, 0>> \in debts2
    <3>0. \A z \in D : s < z /\ z < y => <<z, 0>> \in debts
      BY <2>2
    <3>1. ASSUME NEW w \in Nat, s < w, <<w, 0>> \notin debts2, <<w, j>> \in debts2,
                 \A z \in Y : w <= z \/ z <= s \/ <<z, 0>> \in debts,
                 \A z \in Y : z <= w \/ w \in D
          PROVE  FALSE
      <4>1. w <= y /\ w # y
        BY <3>1, <1>4, <2>0
      <4>2. w \in D
        BY <4>1, <3>1
      <4> QED BY <3>1, <4>1, <4>2, <2>2
    <3>2. CASE /\ num[h] > num[s] + 1
               /\ <<s, 0>> \notin debts
               /\ <<h, 0>> \notin debts2 /\ <<s, 0>> \in debts2
      <4>1. num[y] <= num[s] + 1
        BY <2>0, <3>0, <1>4 DEF Fits, Follows
      <4>2. \A e \in D : Follows(D, debts2, e, y) => e >= h
        BY <3>2, <1>4 DEF Follows
      <4>3. \A e \in D : e > s => num2[e] = num[e]
              /\ (Follows(D, debts2, e, y) => Follows(D, debts, e, y))
        BY DEF Follows
      <4>4. \A e \in D : Follows(D, debts2, e, y) => num2[y] <= num2[e] + 1
        BY <2>0, <3>2, <4>1, <4>2, <4>3 DEF Fits
      <4>5. ~ \A d \in D : d < y => <<d, 0>> \in debts2
        BY <3>2, <1>4
      <4> QED BY <4>4, <4>5 DEF Fits
    <3>3. CASE /\ <<s, 0>> \in debts
               /\ <<s, 0>> \notin debts2
      <4>0. Follows(D, debts, h, y)
        BY <3>0, <3>3, <1>4 DEF Follows
      <4>1. num[y] <= num[h] + 1
        BY <2>0, <4>0 DEF Fits
      <4>2. \A e \in D : Follows(D, debts2, e, y) => e >= s
        BY <3>3, <1>4 DEF Follows
      <4>3. \A e \in D : e > s => num2[e] = num[e]
              /\ (Follows(D, debts2, e, y) => Follows(D, debts, e, y))
        BY DEF Follows
      <4>4. \A e \in D : Follows(D, debts2, e, y) => num2[y] <= num2[e] + 1
        BY <2>0, <3>3, <4>1, <4>2, <4>3 DEF Fits
      <4>5. ~ \A d \in D : d < y => <<d, 0>> \in debts2
        BY <3>3, <1>4
      <4> QED BY <4>4, <4>5 DEF Fits
    <3>4. CASE /\ <<h, 0>> \in debts /\ <<s, 0>> \in debts
               /\ <<h, 0>> \in debts2 /\ <<s, 0>> \in debts2
      <4>0. Follows(D, debts, h, y) /\ Follows(D, debts, s, y)
        BY <3>0, <3>4, <1>4 DEF Follows
      <4>1. num[y] <= num[h] + 1 /\ num[y] <= num[s] + 1
        BY <2>0, <4>0 DEF Fits
      <4>2. \A e \in D \ {h, s} : num2[e] = num[e]
              /\ (Follows(D, debts2, e, y) => Follows(D, debts, e, y))
        BY <3>4 DEF Follows
      <4>3. \A e \in D : Follows(D, debts2, e, y) => num2[y] <= num2[e] + 1
        BY <2>0, <4>1, <4>2 DEF Fits
      <4>4. (\A z \in D : z < y => <<z, 0>> \in debts2) => \A z \in D : z < y
              => <<z, 0>> \in debts
        BY <3>4
      <4> QED BY <2>0, <4>3, <4>4 DEF Fits
    <3> QED BY <3>1, <3>2, <3>3, <3>4 DEF Explained
  <2> QED BY <2>1, <2>2
<1> QED BY <1>0, <1>1, <1>2, <1>3, <1>4

\* A relay stays calm when a packet comes whose number is one more than the last.
LEMMA CalmLonger ==
  ASSUME NEW j, NEW D \in SUBSET Nat, NEW num, NEW debts, NEW base, NEW n \in Nat,
         Calm(j, D, num, debts, base, D \cup {n}), \A e \in D : e < n,
         <<n, 0>> \notin debts,
         NEW num2, \A e \in D \cup {n} : num2[e] = num[e], num2[n + 1] <= num[n] + 1
  PROVE  Calm(j, D \cup {n}, num2, debts, base, D \cup {n, n + 1})
<1> SUFFICES ASSUME NEW y \in D \cup {n, n + 1}, <<y, 0>> \notin debts, <<y, j>> \notin debts
             PROVE  Fits(D \cup {n}, num2, debts, base, y)
  BY DEF Calm
<1>1. CASE y = n + 1
  <2>1. \A e \in D \cup {n} : Follows(D \cup {n}, debts, e, y) => e = n
    BY <1>1 DEF Follows
  <2> QED BY <1>1, <2>1 DEF Fits
<1>2. CASE y \in D \cup {n}
  <2>1. Fits(D, num, debts, base, y)
    BY <1>2 DEF Calm
  <2>2. \A e \in D \cup {n} : e < y => e \in D
    BY <1>2
  <2>3. \A e \in D \cup {n} : Follows(D \cup {n}, debts, e, y) => Follows(D, debts, e, y)
    BY <2>2 DEF Follows
  <2> QED BY <1>2, <2>1, <2>2, <2>3 DEF Fits, Follows
<1> QED BY <1>1, <1>2

----
(* Sequences and numbers.                                                     *)

\* The relays are numbered from 1.
LEMMA RelaysAre ==
  /\ Relays \subseteq Nat /\ 1 \in Relays
  /\ \A i \in Relays : i >= 1 /\ i <= Hops /\ \A k \in 1..i : k \in Relays
BY StreamAssumption DEF Relays

\* What is left of a sequence without its first element.
LEMMA TailIs ==
  ASSUME NEW S, NEW s \in Seq(S), s # <<>>
  PROVE  /\ Tail(s) \in Seq(S) /\ Len(Tail(s)) \in Nat /\ Len(s) = Len(Tail(s)) + 1
         /\ Len(Tail(s)) = Len(s) - 1
         /\ \A p \in 1..Len(Tail(s)) : Tail(s)[p] = s[p + 1] /\ p + 1 \in 1..Len(s)
         /\ \A p \in 1..Len(s) : p = 1 \/ (p - 1 \in 1..Len(Tail(s)) /\ s[p] = Tail(s)[p - 1])
<1>1. Tail(s) \in Seq(S) /\ Len(Tail(s)) = Len(s) - 1 /\ Len(s) \in Nat /\ Len(Tail(s)) \in Nat
  BY HeadTailProperties, LenProperties
<1>2. \A p \in 1..Len(Tail(s)) : Tail(s)[p] = s[p + 1]
  BY HeadTailProperties
<1>3. \A p \in 1..Len(s) : p = 1 \/ p - 1 \in 1..Len(Tail(s))
  BY <1>1
<1> QED BY <1>1, <1>2, <1>3

\* A sequence over a set is one over a larger set.
LEMMA SeqSubset ==
  ASSUME NEW S, NEW T, S \subseteq T, NEW s \in Seq(S)
  PROVE  s \in Seq(T)
  OBVIOUS

\* A sequence with one more element.
LEMMA AppendIs ==
  ASSUME NEW S, NEW s \in Seq(S), NEW x \in S
  PROVE  /\ Append(s, x) \in Seq(S) /\ Len(s) \in Nat /\ Len(Append(s, x)) = Len(s) + 1
         /\ Append(s, x)[Len(s) + 1] = x
         /\ \A p \in 1..Len(s) : Append(s, x)[p] = s[p]
  BY AppendProperties, LenProperties

\* The first two elements of s have changed places in t.
FrontSwapped(s, t) == t = <<s[2], s[1]>> \o Tail(Tail(s))

\* Only the first two elements change places.
LEMMA SwapIs ==
  ASSUME NEW S, NEW s \in Seq(S), Len(s) > 1, NEW t, FrontSwapped(s, t)
  PROVE  /\ Len(s) \in Nat /\ Len(t) = Len(s) /\ 1 \in 1..Len(s) /\ 2 \in 1..Len(s)
         /\ t[1] = s[2] /\ t[2] = s[1]
         /\ \A p \in 1..Len(s) : p > 2 => t[p] = s[p]
<1>1. s # <<>> /\ Len(s) \in Nat /\ 1 \in 1..Len(s) /\ 2 \in 1..Len(s)
  BY EmptySeq, LenProperties
<1>2. PICK u : u = Tail(s)
  OBVIOUS
<1>3. /\ u \in Seq(S) /\ Len(u) \in Nat /\ Len(s) = Len(u) + 1
      /\ \A p \in 1..Len(s) : p = 1 \/ (p - 1 \in 1..Len(u) /\ s[p] = u[p - 1])
  BY <1>1, <1>2, TailIs
<1>4. u # <<>>
  BY <1>1, <1>3, EmptySeq
<1>5. PICK w : w = Tail(u)
  OBVIOUS
<1>6. /\ w \in Seq(S) /\ Len(w) \in Nat /\ Len(u) = Len(w) + 1
      /\ \A p \in 1..Len(u) : p = 1 \/ (p - 1 \in 1..Len(w) /\ u[p] = w[p - 1])
  BY <1>3, <1>4, <1>5, TailIs
<1>7. PICK c : c = <<s[2], s[1]>>
  OBVIOUS
<1>8. c \in Seq(S) /\ Len(c) = 2 /\ c[1] = s[2] /\ c[2] = s[1]
  <2>1. s[1] \in S /\ s[2] \in S
    BY <1>1, ElementOfSeq
  <2> QED BY <1>7, <2>1
<1>9. t = c \o w
  BY <1>2, <1>5, <1>7 DEF FrontSwapped
<1>10. Len(t) = 2 + Len(w)
         /\ \A p \in 1..(2 + Len(w)) : t[p] = IF p <= 2 THEN c[p] ELSE w[p - 2]
  <2>1. /\ Len(c \o w) = Len(c) + Len(w)
        /\ \A p \in 1..(Len(c) + Len(w)) : (c \o w)[p] = IF p <= Len(c) THEN c[p] ELSE w[p - Len(c)]
    BY <1>6, <1>8, ConcatProperties
  <2> QED BY <1>8, <1>9, <2>1
<1>11. Len(s) = 2 + Len(w)
  BY <1>3, <1>6
<1>12. ASSUME NEW p \in 1..Len(s), p > 2 PROVE t[p] = s[p]
  <2>1. p - 1 \in 1..Len(u) /\ s[p] = u[p - 1] /\ p - 1 # 1 /\ (p - 1) - 1 = p - 2
    BY <1>3, <1>12
  <2>2. u[p - 1] = w[p - 2]
    BY <1>6, <2>1
  <2>3. t[p] = w[p - 2]
    BY <1>10, <1>11, <1>12
  <2> QED BY <2>1, <2>2, <2>3
<1> QED BY <1>1, <1>8, <1>10, <1>11, <1>12

\* A packet that gets another number.
LEMMA Renumbered ==
  ASSUME NEW num \in [Nat -> Nat], NEW e \in Nat, NEW k \in Nat, NEW num2,
         num2 = [num EXCEPT ![e] = k]
  PROVE  num2 \in [Nat -> Nat] /\ num2[e] = k /\ \A d \in Nat : d # e => num2[d] = num[d]
OBVIOUS

----
(* How many debts there are.                                                  *)

\* Each relay from i on may drop packet e.
Levels(e, i) == {<<e, j>> : j \in i..Hops}

\* A set of numbers has a least one.
LEMMA Least ==
  ASSUME NEW S \in SUBSET Nat, S # {}
  PROVE  \E m \in S : \A k \in S : m <= k
<1> DEFINE T == {0..m : m \in S}
           R == StrictSubsetOrdering(Nat)
<1>1. T \subseteq FiniteSubsetsOf(Nat)
  <2>1. \A m \in S : IsFiniteSet(0..m) /\ 0..m \in SUBSET Nat
    BY FS_Interval
  <2> QED BY <2>1 DEF FiniteSubsetsOf
<1>2. T # {}
  OBVIOUS
<1>3. PICK U \in T : \A V \in T : ~ (<<V, U>> \in R)
  <2> HIDE DEF T, R
  <2> QED BY <1>1, <1>2, WFMin, FS_StrictSubsetOrderingWellFounded DEF R
<1>4. PICK m \in S : U = 0..m
  OBVIOUS
<1>5. ASSUME NEW k \in S, k < m PROVE FALSE
  <2>1. 0..k \subseteq 0..m /\ m \in 0..m /\ m \notin 0..k
    BY <1>5
  <2>2. <<0..k, U>> \in R
    BY <1>4, <2>1 DEF StrictSubsetOrdering
  <2> QED BY <1>3, <2>2
<1> QED BY <1>4, <1>5

\* A packet lost on link i costs at most one drop at each relay behind the loss.
LEMMA DebtsAdded ==
  ASSUME NEW K, IsFiniteSet(K), NEW e, NEW i \in 1..(Hops + 1)
  PROVE  /\ IsFiniteSet(K \cup Levels(e, i))
         /\ Cardinality(K \cup Levels(e, i)) <= Cardinality(K) + Behind(i)
<1>1. IsFiniteSet(i..Hops) /\ Cardinality(i..Hops) = Behind(i)
  BY FS_Interval, StreamAssumption DEF Behind
<1>2. [j \in i..Hops |-> <<e, j>>] \in Surjection(i..Hops, Levels(e, i))
  BY DEF Surjection, Levels
<1>3. IsFiniteSet(Levels(e, i)) /\ Cardinality(Levels(e, i)) <= Behind(i)
  BY <1>1, <1>2, FS_Surjection
<1>4. /\ IsFiniteSet(K \cup Levels(e, i))
      /\ Cardinality(K \cup Levels(e, i)) =
           Cardinality(K) + Cardinality(Levels(e, i)) - Cardinality(K \cap Levels(e, i))
  BY <1>3, FS_Union
<1>5. IsFiniteSet(K \cap Levels(e, i))
  BY FS_Intersection
<1>6. Cardinality(K \cap Levels(e, i)) \in Nat /\ Cardinality(K) \in Nat
        /\ Cardinality(Levels(e, i)) \in Nat
  BY <1>3, <1>5, FS_CardinalityType
<1> QED BY <1>3, <1>4, <1>6, StreamAssumption DEF Behind

\* The two packets h and s change places, in the debts too.
Other(h, s, e) == IF e = h THEN s ELSE IF e = s THEN h ELSE e

Swap(K, h, s) == {<<Other(h, s, d[1]), d[2]>> : d \in K}

\* Changing places adds no debt.
LEMMA DebtsSwapped ==
  ASSUME NEW K, IsFiniteSet(K), NEW h, NEW s
  PROVE  IsFiniteSet(Swap(K, h, s)) /\ Cardinality(Swap(K, h, s)) <= Cardinality(K)
<1>1. [d \in K |-> <<Other(h, s, d[1]), d[2]>>] \in Surjection(K, Swap(K, h, s))
  BY DEF Surjection, Swap
<1> QED BY <1>1, FS_Surjection

\* What is owed after the change was owed by the other one.
LEMMA SwapHas ==
  ASSUME NEW S, NEW T, NEW K, K \subseteq S \X T, NEW h, NEW s, NEW e, NEW k
  PROVE  <<e, k>> \in Swap(K, h, s) <=> <<Other(h, s, e), k>> \in K
<1>1. \A d \in K : d = <<d[1], d[2]>>
  OBVIOUS
<1>2. \A c : Other(h, s, Other(h, s, c)) = c
  BY DEF Other
<1>3. ASSUME <<e, k>> \in Swap(K, h, s) PROVE <<Other(h, s, e), k>> \in K
  <2>1. PICK d \in K : <<e, k>> = <<Other(h, s, d[1]), d[2]>>
    BY <1>3 DEF Swap
  <2>2. e = Other(h, s, d[1]) /\ k = d[2]
    BY <2>1
  <2>3. d[1] = Other(h, s, e)
    BY <1>2, <2>2
  <2>4. d = <<Other(h, s, e), k>>
    BY <1>1, <2>2, <2>3
  <2> QED BY <2>4
<1>4. ASSUME <<Other(h, s, e), k>> \in K PROVE <<e, k>> \in Swap(K, h, s)
  <2>1. PICK d \in K : d[1] = Other(h, s, e) /\ d[2] = k
    BY <1>4
  <2>2. <<e, k>> = <<Other(h, s, d[1]), d[2]>>
    BY <1>2, <2>1
  <2> QED BY <2>2 DEF Swap
<1> QED BY <1>3, <1>4

\* What is left of K when relay i drops h: w takes over the debts of h.
Inherit(K, h, w, i) == {d \in K : d[1] # h} \cup Levels(w, i + 1)

\* A drop takes a debt away.
LEMMA DebtsInherited ==
  ASSUME NEW K, IsFiniteSet(K), NEW h, NEW w, NEW i \in Relays, Levels(h, i) \subseteq K
  PROVE  /\ IsFiniteSet(Inherit(K, h, w, i))
         /\ Cardinality(Inherit(K, h, w, i)) <= Cardinality(K) - 1
<1> DEFINE M == K \ {<<h, i>>}
           f == [d \in M |-> IF d[1] = h THEN <<w, d[2]>> ELSE d]
           I == {f[d] : d \in M}
<1>1. <<h, i>> \in K
  BY StreamAssumption DEF Levels, Relays
<1>2. IsFiniteSet(M) /\ Cardinality(M) = Cardinality(K) - 1
  BY <1>1, FS_RemoveElement
<1>3. f \in Surjection(M, I)
  BY DEF Surjection
<1>4. IsFiniteSet(I) /\ Cardinality(I) <= Cardinality(M)
  BY <1>2, <1>3, FS_Surjection
<1>5. Inherit(K, h, w, i) \subseteq I
  <2>1. ASSUME NEW d \in K, d[1] # h PROVE d \in I
    <3>1. d \in M /\ f[d] = d
      BY <2>1
    <3> QED BY <3>1
  <2>2. ASSUME NEW j \in (i + 1)..Hops PROVE <<w, j>> \in I
    <3>1. <<h, j>> \in M /\ f[<<h, j>>] = <<w, j>>
      BY StreamAssumption DEF Levels, Relays
    <3> QED BY <3>1
  <2> QED BY <2>1, <2>2 DEF Inherit, Levels
<1>6. /\ IsFiniteSet(Inherit(K, h, w, i)) /\ Cardinality(Inherit(K, h, w, i)) <= Cardinality(I)
  BY <1>4, <1>5, FS_Subset
<1>7. Cardinality(Inherit(K, h, w, i)) \in Nat /\ Cardinality(I) \in Nat
        /\ Cardinality(M) \in Nat /\ Cardinality(K) \in Nat
  BY <1>2, <1>4, <1>6, FS_CardinalityType
<1> QED BY <1>2, <1>4, <1>6, <1>7

\* The debts when h and s have changed places, x owes to each relay from i on, and
\* `extra` says which of the two has become a stray.
Overtaken(debts, h, s, x, i, extra) == Swap(debts, h, s) \cup extra \cup Levels(x, i)

\* Packets that change places cost a drop at each relay behind them, and one more.
LEMMA DebtsOvertaken ==
  ASSUME NEW debts, debts \subseteq Nat \X (0..Hops), IsFiniteSet(debts),
         NEW next \in Nat, Owed(debts, next),
         NEW h \in Nat, NEW s \in Nat, NEW x \in Nat, h < next, s < next, x <= next,
         NEW i \in Relays, NEW extra \in {{}, {<<h, 0>>}, {<<s, 0>>}}
  PROVE  LET debts2 == Overtaken(debts, h, s, x, i, extra)
         IN  /\ debts2 \subseteq Nat \X (0..Hops) /\ IsFiniteSet(debts2) /\ Owed(debts2, next)
             /\ Cardinality(debts2) <= Cardinality(debts) + Behind(i) + 1
<1> DEFINE debts2 == Overtaken(debts, h, s, x, i, extra)
           K == Swap(debts, h, s)
<1>0. i \in Nat /\ i >= 1 /\ Relays \subseteq Nat /\ (\A j \in Relays : j >= 1 /\ j <= Hops)
        /\ Hops \in Nat
  BY RelaysAre, StreamAssumption
<1>1. IsFiniteSet(K) /\ Cardinality(K) <= Cardinality(debts)
  BY DebtsSwapped
<1>2. IsFiniteSet(extra) /\ Cardinality(extra) <= 1
  <2>1. CASE extra = {}
    BY <2>1, FS_EmptySet
  <2>2. ASSUME NEW e PROVE IsFiniteSet({e}) /\ Cardinality({e}) = 1
    BY FS_Singleton
  <2> QED BY <2>1, <2>2
<1>3. /\ IsFiniteSet(K \cup extra)
      /\ Cardinality(K \cup extra) <= Cardinality(K) + 1
  <2>1. Cardinality(K \cup extra) = Cardinality(K) + Cardinality(extra) - Cardinality(K \cap extra)
    BY <1>1, <1>2, FS_Union
  <2>2. IsFiniteSet(K \cup extra) /\ IsFiniteSet(K \cap extra)
    BY <1>1, <1>2, FS_Union, FS_Intersection
  <2>3. Cardinality(K \cap extra) \in Nat /\ Cardinality(K) \in Nat
          /\ Cardinality(extra) \in Nat
    BY <1>1, <1>2, <2>2, FS_CardinalityType
  <2> QED BY <1>2, <2>1, <2>2, <2>3
<1>4. /\ IsFiniteSet(debts2)
      /\ Cardinality(debts2) <= Cardinality(K \cup extra) + Behind(i)
  <2>1. i \in 1..(Hops + 1)
    BY <1>0
  <2>2. debts2 = (K \cup extra) \cup Levels(x, i)
    BY DEF Overtaken
  <2>3. PICK M : M = K \cup extra
    OBVIOUS
  <2> HIDE DEF debts2, K
  <2> QED BY <1>3, <2>1, <2>2, <2>3, DebtsAdded
<1>5. Cardinality(debts2) <= Cardinality(debts) + Behind(i) + 1
  <2>1. /\ Cardinality(debts2) \in Nat /\ Cardinality(K \cup extra) \in Nat
        /\ Cardinality(K) \in Nat /\ Cardinality(debts) \in Nat /\ Behind(i) \in Nat
    BY <1>0, <1>1, <1>3, <1>4, FS_CardinalityType DEF Behind
  <2> HIDE DEF debts2, K
  <2> QED BY <1>1, <1>3, <1>4, <2>1
<1>6. \A d \in K : \E c \in debts : d = <<Other(h, s, c[1]), c[2]>>
  BY DEF Swap
<1>7. \A c \in debts : <<Other(h, s, c[1]), c[2]>> \in K
  BY DEF Swap
<1>8. \A e \in Nat : Other(h, s, e) \in Nat /\ Other(h, s, Other(h, s, e)) = e
        /\ (e <= next => Other(h, s, e) <= next)
  BY DEF Other
<1>9. \A d \in Levels(x, i) : d[1] = x /\ d[2] \in i..Hops
  BY DEF Levels
<1>10. \A d \in extra : (d = <<h, 0>> \/ d = <<s, 0>>)
  OBVIOUS
<1>11. \A d \in debts2 : d \in K \/ d \in extra \/ d \in Levels(x, i)
  BY DEF Overtaken
<1>12. K \subseteq debts2 /\ Levels(x, i) \subseteq debts2
  BY DEF Overtaken
<1> HIDE DEF debts2, K
<1>13. debts2 \subseteq Nat \X (0..Hops)
  <2>1. K \subseteq Nat \X (0..Hops)
    BY <1>6, <1>8
  <2>2. Levels(x, i) \subseteq Nat \X (0..Hops)
    BY <1>0 DEF Levels
  <2>3. extra \subseteq Nat \X (0..Hops)
    BY <1>0, <1>10
  <2> QED BY <1>11, <2>1, <2>2, <2>3
<1>14. \A d \in debts2 : d[1] <= next
  <2>1. ASSUME NEW d \in K PROVE d[1] <= next
    <3>1. PICK c \in debts : d = <<Other(h, s, c[1]), c[2]>>
      BY <1>6
    <3>2. c[1] \in Nat /\ c[1] <= next /\ d[1] = Other(h, s, c[1])
      BY <3>1 DEF Owed
    <3> QED BY <1>8, <3>2
  <2>2. \A d \in extra : d[1] <= next
    BY <1>10
  <2>3. \A d \in Levels(x, i) : d[1] <= next
    BY <1>9
  <2> QED BY <1>11, <2>1, <2>2, <2>3
<1>15. ASSUME NEW d \in debts2, NEW j \in Relays, 0 < d[2], d[2] < j
              PROVE <<d[1], j>> \in debts2
  <2>1. CASE d \in K
    <3>1. PICK c \in debts : d = <<Other(h, s, c[1]), c[2]>>
      BY <1>6, <2>1
    <3>2. <<c[1], j>> \in debts
      <4>1. d[2] = c[2]
        BY <3>1
      <4> QED BY <1>15, <4>1 DEF Owed
    <3>3. <<Other(h, s, c[1]), j>> \in K
      BY <1>7, <3>2
    <3> QED BY <1>12, <3>1, <3>3
  <2>2. CASE d \in extra
    BY <1>10, <1>15, <2>2
  <2>3. CASE d \in Levels(x, i)
    <3>1. d[1] = x /\ j \in i..Hops
      BY <1>0, <1>9, <1>15, <2>3
    <3> QED BY <1>12, <3>1 DEF Levels
  <2> QED BY <1>11, <2>1, <2>2, <2>3
<1>16. <<next, 0>> \notin debts2
  <2>1. <<next, 0>> \notin K
    <3> SUFFICES ASSUME <<next, 0>> \in K PROVE FALSE
      OBVIOUS
    <3>1. PICK c \in debts : <<next, 0>> = <<Other(h, s, c[1]), c[2]>>
      BY <1>6
    <3>2. c \in Nat \X (0..Hops) /\ c[1] \in Nat /\ c[2] = 0 /\ Other(h, s, c[1]) = next
      BY <3>1
    <3>3. c[1] = next
      BY <3>2 DEF Other
    <3>4. c = <<next, 0>>
      BY <3>2, <3>3
    <3> QED BY <3>4 DEF Owed
  <2>2. <<next, 0>> \notin extra
    BY <1>10
  <2>3. <<next, 0>> \notin Levels(x, i)
    BY <1>0 DEF Levels
  <2> QED BY <1>11, <2>1, <2>2, <2>3
<1> QED BY <1>4, <1>5, <1>13, <1>14, <1>15, <1>16 DEF Owed, debts2

----
(* The ids of the packets on the links, in each kind of step.                 *)

\* The first packet of link i is the first of those that relay i has yet to see.
LEMMA HeadIsFirst ==
  ASSUME StreamInv, NEW ids, NEW num, NEW due, NEW debts, NEW next,
         Ledger(ids, num, due, debts, next), NEW i \in Relays, link[i] # <<>>
  PROVE  /\ ids[i][1] \in Nat /\ ids[i][1] < next
         /\ num[ids[i][1]] = Head(link[i])
         /\ \A e \in due[i] : ids[i][1] <= e
         /\ \A j \in Relays : ids[i][1] \in due[j] <=> i <= j
         /\ \A p \in 1..Len(link[i]) : ids[i][p] = ids[i][1] => p = 1
<1> DEFINE h == ids[i][1]
<1>0. /\ i \in Nat /\ i >= 1 /\ (\A j \in Relays : j \in Nat /\ j >= 1)
      /\ \A j \in Relays : \A k \in 1..j : k \in Relays
  BY RelaysAre
<1>1. /\ link[i] \in Seq(1..MaxPackets) /\ ids[i] \in Seq(Nat) /\ Len(ids[i]) = Len(link[i])
      /\ \A j \in Relays : due[j] \subseteq Nat
  BY DEF StreamInv, TypeOK, Ledger, Lined, Carried
<1>2. Len(link[i]) \in Nat /\ 1 \in 1..Len(link[i])
  BY <1>1, EmptySeq, LenProperties
<1>3. h \in Nat /\ Head(link[i]) = link[i][1]
  BY <1>1, <1>2, ElementOfSeq
<1>4. h \in due[i] /\ num[h] = Head(link[i])
  BY <1>2, <1>3 DEF Ledger, Lined, Carried
<1>5. h < next
  BY <1>4 DEF Ledger, Lined, Nested
<1>6. \A p \in 1..Len(link[i]) : p = 1 \/ h < ids[i][p]
  <2> SUFFICES ASSUME NEW p \in 1..Len(link[i]), p # 1 PROVE h < ids[i][p]
    OBVIOUS
  <2>1. 1 < p
    BY <1>2
  <2> QED BY <1>2, <2>1 DEF Ledger, Lined, Ordered
<1>7. \A j \in Relays : j < i => h \notin due[j]
  BY <1>2 DEF Ledger, Lined, Passed
<1>8. ASSUME NEW j \in Relays, i <= j PROVE h \in due[j]
  <2>1. CASE i = j
    BY <1>4, <2>1
  <2>2. CASE i < j
    <3>1. Nested(due, next)
      BY DEF Ledger, Lined
    <3>2. due[i] \subseteq due[j]
      BY <2>2, <3>1 DEF Nested
    <3> QED BY <1>4, <3>2
  <2>3. i \in Nat /\ j \in Nat
    BY <1>0
  <2>4. i = j \/ i < j
    BY <1>8, <2>3
  <2> QED BY <2>1, <2>2, <2>4
<1>9. ASSUME NEW e \in due[i] PROVE h <= e
  <2>1. PICK k \in Relays : k <= i /\ \E p \in 1..Len(link[k]) : e = ids[k][p]
    BY DEF Ledger, Lined, Placed
  <2>2. PICK p \in 1..Len(link[k]) : e = ids[k][p]
    BY <2>1
  <2>0. k \in Nat /\ k <= i /\ e \in Nat
    BY <1>0, <1>1, <2>1
  <2>3. CASE k = i
    BY <1>2, <1>3, <1>6, <2>0, <2>2, <2>3
  <2>4. CASE k < i
    <3>1. e \in due[k]
      BY <2>0, <2>2 DEF Ledger, Lined, Carried
    <3>2. h \in due[i] \ due[k]
      BY <1>4, <1>7, <2>0, <2>4
    <3>3. Nested(due, next)
      BY DEF Ledger, Lined
    <3>4. h < e
      BY <2>4, <3>1, <3>2, <3>3 DEF Nested
    <3> QED BY <1>3, <2>0, <3>4
  <2> QED BY <1>0, <2>0, <2>3, <2>4
<1>10. \A p \in 1..Len(link[i]) : ids[i][p] = h => p = 1
  BY <1>3, <1>6
<1>11. \A j \in Relays : j < i \/ i <= j
  <2>1. i \in Nat /\ \A j \in Relays : j \in Nat
    BY <1>0
  <2> HIDE DEF h
  <2> QED BY <2>1
<1> QED BY <1>3, <1>4, <1>5, <1>7, <1>8, <1>9, <1>10, <1>11

\* A packet is on one link, in one place.
LEMMA Distinct ==
  ASSUME NEW ids, NEW num, NEW due, NEW next, due \in [Relays -> SUBSET Nat],
         Lined(ids, num, due, next),
         NEW i \in Relays, NEW p \in 1..Len(link[i]), NEW j \in Relays,
           NEW q \in 1..Len(link[j]),
         ids[i][p] = ids[j][q]
  PROVE  i = j /\ p = q
<1>1. /\ \A k \in Relays : \A d \in 1..Len(link[k]) : ids[k][d] \in due[k]
      /\ \A k, m \in Relays : k < m => \A d \in 1..Len(link[m]) : ids[m][d] \notin due[k]
      /\ \A k \in Relays : \A d, e \in 1..Len(link[k]) : d < e => ids[k][d] < ids[k][e]
  BY DEF Lined, Carried, Passed, Ordered
<1>2. i \in Nat /\ j \in Nat /\ p \in Nat /\ q \in Nat
  BY RelaysAre
<1>3. i = j
  <2>1. ~ (i < j) /\ ~ (j < i)
    BY <1>1
  <2> QED BY <1>2, <2>1
<1>4. ids[i][p] \in Nat
  BY <1>1
<1>5. ~ (p < q) /\ ~ (q < p)
  BY <1>1, <1>3, <1>4
<1> QED BY <1>2, <1>3, <1>5

\* Between the first two packets of link i no relay from i on waits for another.
AreNeighbours(due, next, i, h, s) ==
  /\ h \in Nat /\ s \in Nat /\ h < s /\ s < next
  /\ \A j \in Relays : i <= j => h \in due[j] /\ s \in due[j]
  /\ \A j \in Relays : j < i => h \notin due[j] /\ s \notin due[j]
  /\ \A j \in Relays : i <= j => \A z \in Counted(due[j], next) : z <= h \/ s <= z

\* The first two packets of a link are neighbours.
LEMMA SecondIsNext ==
  ASSUME StreamInv, NEW ids, NEW num, NEW due, NEW debts, NEW next,
         Ledger(ids, num, due, debts, next),
         NEW i \in Relays, Len(link[i]) > 1
  PROVE  AreNeighbours(due, next, i, ids[i][1], ids[i][2])
<1>01. PICK h : h = ids[i][1]
  OBVIOUS
<1>02. PICK s : s = ids[i][2]
  OBVIOUS
<1>1. /\ link[i] \in Seq(1..MaxPackets)
      /\ due \in [Relays -> SUBSET Nat] /\ next \in Nat
  BY DEF StreamInv, TypeOK, Ledger
<1>2. Lined(ids, num, due, next)
  BY DEF Ledger
<1>3. Len(link[i]) \in Nat /\ 1 \in 1..Len(link[i]) /\ 2 \in 1..Len(link[i]) /\ link[i] # <<>>
  BY <1>1, EmptySeq, LenProperties
<1>4. i \in Nat /\ Relays \subseteq Nat
  BY RelaysAre
<1>5. h \in due[i] /\ s \in due[i]
  BY <1>01, <1>02, <1>2, <1>3 DEF Lined, Carried
<1>6. h < s
  BY <1>01, <1>02, <1>2, <1>3 DEF Lined, Ordered
<1>7. h < next /\ s < next /\ h \in Nat /\ s \in Nat
  BY <1>1, <1>2, <1>5 DEF Lined, Nested
<1>8. ASSUME NEW j \in Relays, i <= j PROVE h \in due[j] /\ s \in due[j]
  <2>1. i = j \/ i < j
    BY <1>4, <1>8
  <2>2. i < j => due[i] \subseteq due[j]
    BY <1>2 DEF Lined, Nested
  <2> QED BY <1>5, <2>1, <2>2
<1>9. ASSUME NEW j \in Relays, j < i PROVE h \notin due[j] /\ s \notin due[j]
  BY <1>01, <1>02, <1>2, <1>3, <1>9 DEF Lined, Passed
<1>10. ASSUME NEW j \in Relays, i <= j, NEW z \in Counted(due[j], next) PROVE z <= h \/ s <= z
  <2>1. CASE z = next
    BY <1>1, <1>7, <2>1
  <2>2. CASE z \in due[j]
    <3>0. z \in Nat
      BY <1>1, <2>2
    <3>1. PICK k \in Relays : k <= j /\ \E p \in 1..Len(link[k]) : z = ids[k][p]
      BY <1>2, <2>2 DEF Lined, Placed
    <3>2. PICK p \in 1..Len(link[k]) : z = ids[k][p]
      BY <3>1
    <3>3. CASE k = i
      <4>1. p = 1 \/ p = 2 \/ 2 < p
        BY <1>3, <3>3
      <4>2. 2 < p => s < z
        BY <1>02, <1>2, <1>3, <3>2, <3>3 DEF Lined, Ordered
      <4> QED BY <1>01, <1>02, <1>7, <3>0, <3>2, <3>3, <4>1, <4>2
    <3>4. CASE k < i
      <4>1. z \in due[k]
        BY <1>2, <3>2 DEF Lined, Carried
      <4>2. s \in due[i] \ due[k]
        BY <1>5, <1>9, <3>4
      <4>3. s < z
        BY <1>2, <3>4, <4>1, <4>2 DEF Lined, Nested
      <4> QED BY <1>7, <3>0, <4>3
    <3>5. CASE i < k
      <4>1. z \notin due[i]
        BY <1>2, <3>2, <3>5 DEF Lined, Passed
      <4>2. i < j
        BY <1>4, <3>1, <3>5
      <4>3. z < h
        BY <1>2, <1>5, <2>2, <4>1, <4>2 DEF Lined, Nested
      <4> QED BY <1>7, <3>0, <4>3
    <3> QED BY <1>4, <3>3, <3>4, <3>5
  <2> QED BY <2>1, <2>2 DEF Counted
<1>11. \A j \in Relays : i <= j => h \in due[j] /\ s \in due[j]
  BY <1>8
<1>12. \A j \in Relays : j < i => h \notin due[j] /\ s \notin due[j]
  BY <1>9
<1>13. \A j \in Relays : i <= j => \A z \in Counted(due[j], next) : z <= h \/ s <= z
  BY <1>10
<1>14. AreNeighbours(due, next, i, h, s)
  BY <1>6, <1>7, <1>11, <1>12, <1>13 DEF AreNeighbours
<1> QED BY <1>01, <1>02, <1>14

\* Link i loses its first packet.
LinkShortened(i) == link' = [link EXCEPT ![i] = Tail(@)]

\* A packet that is taken from its link no relay has yet to see.
LEMMA RemovedLined ==
  ASSUME StreamInv, NEW ids, NEW num, NEW due, NEW debts, NEW next,
         Ledger(ids, num, due, debts, next), NEW i \in Relays, link[i] # <<>>,
         LinkShortened(i)
  PROVE  Lined([ids EXCEPT ![i] = Tail(@)], num, [j \in Relays |-> due[j] \ {ids[i][1]}], next)'
<1> DEFINE h == ids[i][1]
           ids2 == [ids EXCEPT ![i] = Tail(@)]
           due2 == [j \in Relays |-> due[j] \ {h}]
<1>1. /\ link[i] \in Seq(1..MaxPackets) /\ ids[i] \in Seq(Nat) /\ ids[i] # <<>>
      /\ (\A j \in Relays : Len(ids[j]) = Len(link[j]) /\ Len(link[j]) \in Nat)
      /\ Relays \subseteq Nat
  BY EmptySeq, RelaysAre DEF StreamInv, TypeOK, Ledger, Lined, Carried
<1>2. \A j \in Relays : j # i => link'[j] = link[j] /\ ids2[j] = ids[j]
  BY DEF StreamInv, TypeOK, Ledger, LinkShortened
<1>3. link'[i] = Tail(link[i]) /\ ids2[i] = Tail(ids[i])
  BY DEF StreamInv, TypeOK, Ledger, LinkShortened
<1>4. /\ \A p \in 1..Len(link'[i]) : link'[i][p] = link[i][p + 1] /\ p + 1 \in 1..Len(link[i])
      /\ Len(link'[i]) \in Nat /\ Len(link[i]) = Len(link'[i]) + 1
      /\ \A p \in 1..Len(link[i]) : p = 1 \/ p - 1 \in 1..Len(link'[i])
  <2>1. /\ \A p \in 1..Len(Tail(link[i])) :
             Tail(link[i])[p] = link[i][p + 1] /\ p + 1 \in 1..Len(link[i])
        /\ Len(Tail(link[i])) \in Nat /\ Len(link[i]) = Len(Tail(link[i])) + 1
        /\ \A p \in 1..Len(link[i]) : p = 1 \/ p - 1 \in 1..Len(Tail(link[i]))
    BY <1>1, TailIs
  <2> QED BY <1>3, <2>1
<1>5. /\ \A p \in 1..Len(link'[i]) : ids2[i][p] = ids[i][p + 1]
      /\ Len(ids2[i]) = Len(link'[i])
  <2>1. /\ \A p \in 1..Len(Tail(ids[i])) : Tail(ids[i])[p] = ids[i][p + 1]
        /\ Len(Tail(ids[i])) \in Nat /\ Len(ids[i]) = Len(Tail(ids[i])) + 1
    BY <1>1, TailIs
  <2>2. Len(Tail(ids[i])) = Len(link'[i])
    <3>1. Len(Tail(ids[i])) = Len(ids[i]) - 1
      BY <1>1, TailIs
    <3>2. Len(link'[i]) = Len(link[i]) - 1
      BY <1>1, <1>3, TailIs
    <3>3. Len(ids[i]) = Len(link[i])
      BY <1>1
    <3> QED BY <3>1, <3>2, <3>3
  <2> QED BY <1>3, <2>1, <2>2
<1>6. /\ \A e \in due[i] : h <= e
      /\ \A j \in Relays : h \in due[j] <=> i <= j
      /\ \A p \in 1..Len(link[i]) : ids[i][p] = h => p = 1
  BY HeadIsFirst
<1>61. \A j \in Relays : due2[j] = due[j] \ {h}
  OBVIOUS
<1> HIDE DEF h, ids2, due2
<1>7. ASSUME NEW j \in Relays, NEW p \in 1..Len(link'[j])
      PROVE  \E q \in 1..Len(link[j]) : ids2[j][p] = ids[j][q] /\ ids[j][q] # h
             /\ link'[j][p] = link[j][q]
  <2>1. CASE j = i
    <3>1. p + 1 \in 1..Len(link[i]) /\ p + 1 # 1 /\ ids2[i][p] = ids[i][p + 1]
            /\ link'[i][p] = link[i][p + 1]
      BY <1>4, <1>5, <2>1
    <3> QED BY <1>6, <2>1, <3>1
  <2>2. CASE j # i
    <3>0. Passed(ids, due) /\ Carried(ids, num, due)
      BY DEF Ledger, Lined
    <3>1. i < j => ids[j][p] \notin due[i]
      BY <1>2, <2>2, <3>0 DEF Passed
    <3>2. ids[j][p] \in due[j]
      BY <1>2, <2>2, <3>0 DEF Carried
    <3>3. i < j \/ j < i
      BY <1>1, <2>2
    <3>4. ids[j][p] # h
      BY <1>1, <1>6, <3>1, <3>2, <3>3
    <3> QED BY <1>2, <2>2, <3>4
  <2> QED BY <2>1, <2>2
<1>8. Carried(ids2, num, due2)'
  <2>1. \A j \in Relays : Len(ids2[j]) = Len(link'[j])
    BY <1>1, <1>2, <1>5
  <2>2. ASSUME NEW j \in Relays, NEW p \in 1..Len(link'[j])
        PROVE  num[ids2[j][p]] = link'[j][p] /\ ids2[j][p] \in due2[j]
    <3>1. PICK q \in 1..Len(link[j]) : ids2[j][p] = ids[j][q] /\ ids[j][q] # h
            /\ link'[j][p] = link[j][q]
      BY <1>7
    <3>2. num[ids[j][q]] = link[j][q] /\ ids[j][q] \in due[j]
      BY DEF Ledger, Lined, Carried
    <3> QED BY <3>1, <3>2, <1>61
  <2> QED BY <2>1, <2>2 DEF Carried
<1>9. Ordered(ids2)'
  <2> SUFFICES ASSUME NEW j \in Relays, NEW p \in 1..Len(link'[j]), NEW q \in 1..Len(link'[j]),
                      p < q
               PROVE  ids2[j][p] < ids2[j][q]
    BY DEF Ordered
  <2>1. CASE j = i
    <3>1. p + 1 \in 1..Len(link[i]) /\ q + 1 \in 1..Len(link[i]) /\ p + 1 < q + 1
      BY <2>1, <1>4
    <3>2. ids[i][p + 1] < ids[i][q + 1]
      BY <3>1 DEF Ledger, Lined, Ordered
    <3> QED BY <2>1, <3>2, <1>5
  <2>2. CASE j # i
    BY <2>2, <1>2 DEF Ledger, Lined, Ordered
  <2> QED BY <2>1, <2>2
<1>10. Passed(ids2, due2)'
  <2> SUFFICES ASSUME NEW k \in Relays, NEW j \in Relays, k < j, NEW p \in 1..Len(link'[j])
               PROVE  ids2[j][p] \notin due2[k]
    BY DEF Passed
  <2>1. PICK q \in 1..Len(link[j]) : ids2[j][p] = ids[j][q]
    BY <1>7
  <2>2. ids[j][q] \notin due[k]
    BY DEF Ledger, Lined, Passed
  <2> QED BY <2>1, <2>2, <1>61
<1>11. Placed(ids2, due2)'
  <2> SUFFICES ASSUME NEW j \in Relays, NEW e \in due[j], e # h
               PROVE  \E k \in Relays : k <= j /\ \E p \in 1..Len(link'[k]) : e = ids2[k][p]
    BY <1>61 DEF Placed
  <2>1. PICK k \in Relays : k <= j /\ \E p \in 1..Len(link[k]) : e = ids[k][p]
    BY DEF Ledger, Lined, Placed
  <2>2. PICK p \in 1..Len(link[k]) : e = ids[k][p]
    BY <2>1
  <2>3. CASE k # i
    BY <1>2, <2>1, <2>2, <2>3
  <2>4. CASE k = i
    <3>0. p # 1 /\ p \in 1..Len(link[i])
      BY <2>2, <2>4 DEF h
    <3>1. p - 1 \in 1..Len(link'[i])
      BY <1>4, <3>0
    <3>2. ids2[i][p - 1] = e
      BY <1>1, <1>5, <2>2, <2>4, <3>0, <3>1
    <3> QED BY <2>1, <2>4, <3>1, <3>2
  <2> QED BY <2>3, <2>4
<1>12. Nested(due2, next)
  <2>1. Nested(due, next)
    BY DEF Ledger, Lined
  <2> QED BY <2>1, <1>61 DEF Nested
<1> QED BY <1>8, <1>9, <1>10, <1>11, <1>12 DEF Lined, Nested, h, ids2, due2

\* The first two packets of link i change places.
LinkSwapped(i) == link' = [link EXCEPT ![i] = <<@[2], @[1]>> \o Tail(Tail(@))]

\* They have each other's numbers then: the ids stay in order.
LEMMA SwappedLined ==
  ASSUME StreamInv, NEW ids, NEW num, NEW due, NEW debts, NEW next,
         Ledger(ids, num, due, debts, next), NEW i \in Relays, Len(link[i]) > 1,
         LinkSwapped(i)
  PROVE  Lined(ids, [num EXCEPT ![ids[i][1]] = num[ids[i][2]], ![ids[i][2]] = num[ids[i][1]]],
               due, next)'
<1> DEFINE h == ids[i][1]
           s == ids[i][2]
           num2 == [num EXCEPT ![h] = num[s], ![s] = num[h]]
<1>1. /\ link[i] \in Seq(1..MaxPackets)
      /\ \A j \in Relays : Len(ids[j]) = Len(link[j])
      /\ \A j \in Relays : \A p \in 1..Len(link[j]) : num[ids[j][p]] = link[j][p]
           /\ ids[j][p] \in due[j]
      /\ num \in [Nat -> Nat] /\ due \in [Relays -> SUBSET Nat] /\ Lined(ids, num, due, next)
  BY DEF StreamInv, TypeOK, Ledger, Lined, Carried
<1>2. \A j \in Relays : j # i => link'[j] = link[j]
  BY DEF StreamInv, TypeOK, LinkSwapped
<1>3. /\ Len(link'[i]) = Len(link[i]) /\ 1 \in 1..Len(link[i]) /\ 2 \in 1..Len(link[i])
      /\ link'[i][1] = link[i][2] /\ link'[i][2] = link[i][1] /\ Len(link[i]) \in Nat
      /\ \A p \in 1..Len(link[i]) : p # 1 /\ p # 2 => link'[i][p] = link[i][p]
  <2>1. PICK t : t = link'[i]
    OBVIOUS
  <2>2. FrontSwapped(link[i], t)
    BY <2>1 DEF StreamInv, TypeOK, LinkSwapped, FrontSwapped
  <2>3. link[i] \in Seq(1..MaxPackets)
    BY <1>1
  <2> HIDE DEF h, s, num2
  <2>4. /\ Len(link[i]) \in Nat /\ Len(t) = Len(link[i]) /\ 1 \in 1..Len(link[i])
        /\ 2 \in 1..Len(link[i]) /\ t[1] = link[i][2] /\ t[2] = link[i][1]
        /\ \A p \in 1..Len(link[i]) : p > 2 => t[p] = link[i][p]
    BY <2>2, <2>3, SwapIs
  <2> QED BY <2>1, <2>4
<1>31. \A j \in Relays : \A p \in 1..Len(link[j]), q \in 1..Len(link[i]) :
         ids[j][p] = ids[i][q] => j = i /\ p = q
  <2> SUFFICES ASSUME NEW j \in Relays, NEW p \in 1..Len(link[j]), NEW q \in 1..Len(link[i]),
                      ids[j][p] = ids[i][q]
               PROVE  j = i /\ p = q
    OBVIOUS
  <2>1. due \in [Relays -> SUBSET Nat] /\ Lined(ids, num, due, next)
    BY DEF Ledger
  <2> HIDE DEF h, s, num2
  <2> QED BY <2>1, Distinct
<1>4. h \in Nat /\ s \in Nat /\ h # s
  <2> HIDE DEF num2
  <2>1. 1 \in 1..Len(link[i]) /\ 2 \in 1..Len(link[i])
    BY <1>3
  <2>2. ids[i][1] \in due[i] /\ ids[i][2] \in due[i] /\ due[i] \subseteq Nat
    BY <1>1, <2>1
  <2>3. ids[i][1] # ids[i][2]
    BY <1>31, <2>1
  <2> QED BY <2>2, <2>3
<1>5. /\ num2[h] = num[s] /\ num2[s] = num[h] /\ \A e \in Nat : e # h
           /\ e # s => num2[e] = num[e]
  BY <1>1, <1>4
<1> HIDE DEF h, s, num2
<1>6. ASSUME NEW j \in Relays, NEW p \in 1..Len(link'[j])
      PROVE  num2[ids[j][p]] = link'[j][p] /\ ids[j][p] \in due[j]
  <2>1. p \in 1..Len(link[j]) /\ ids[j][p] \in Nat /\ ids[j][p] \in due[j]
    BY <1>1, <1>2, <1>3
  <2>2. CASE j = i /\ p = 1
    BY <1>1, <1>3, <1>5, <2>2, <2>1 DEF h, s
  <2>3. CASE j = i /\ p = 2
    BY <1>1, <1>3, <1>5, <2>3, <2>1 DEF h, s
  <2>4. CASE ~ (j = i /\ p = 1) /\ ~ (j = i /\ p = 2)
    <3>1. ids[j][p] # h /\ ids[j][p] # s
      BY <1>3, <1>31, <2>1, <2>4 DEF h, s
    <3>2. link'[j][p] = link[j][p]
      BY <1>2, <1>3, <2>1, <2>4
    <3> QED BY <1>1, <1>5, <2>1, <3>1, <3>2
  <2> QED BY <2>2, <2>3, <2>4
<1>7. \A j \in Relays : Len(link'[j]) = Len(link[j])
  BY <1>2, <1>3
<1>8. Carried(ids, num2, due)'
  BY <1>1, <1>6, <1>7 DEF Carried
<1>9. Ordered(ids)' /\ Passed(ids, due)' /\ Placed(ids, due)' /\ Nested(due, next)'
  <2>1. Ordered(ids)'
    BY <1>1, <1>7 DEF Lined, Ordered
  <2>2. Passed(ids, due)'
    BY <1>1, <1>7 DEF Lined, Passed
  <2>3. Placed(ids, due)'
    <3>1. Placed(ids, due)
      BY <1>1 DEF Lined
    <3> QED BY <1>7, <3>1 DEF Placed
  <2>4. Nested(due, next)'
    BY <1>1 DEF Lined, Nested
  <2> QED BY <2>1, <2>2, <2>3, <2>4
<1> QED BY <1>8, <1>9 DEF Lined, num2, h, s

\* A packet with the number x is put on the first link.
LinkLonger(x) == link' = [link EXCEPT ![1] = Append(@, x)]

\* No packet up to the one to come gets another number.
SameUpTo(num, num2, next) == \A e \in 0..next : num2[e] = num[e]

\* The packet to come is one that every relay has yet to see.
LEMMA SentLined ==
  ASSUME StreamInv, NEW ids, NEW num, NEW due, NEW debts, NEW next,
         Ledger(ids, num, due, debts, next),
         LinkLonger(num[next]),
         NEW num2, SameUpTo(num, num2, next)
  PROVE  Lined([ids EXCEPT ![1] = Append(@, next)], num2,
               [j \in Relays |-> due[j] \cup {next}], next + 1)'
<1> DEFINE ids2 == [ids EXCEPT ![1] = Append(@, next)]
           due2 == [j \in Relays |-> due[j] \cup {next}]
<1>01. /\ link \in [Relays -> Seq(1..MaxPackets)] /\ ids \in [Relays -> Seq(Nat)]
       /\ num \in [Nat -> Nat] /\ next \in Nat
  BY DEF StreamInv, TypeOK, Ledger
<1>02. next \in Nat
  BY DEF Ledger
<1>1. Lined(ids, num, due, next)
  BY DEF Ledger
<1>11. \A j \in Relays : Len(ids[j]) = Len(link[j])
  BY <1>1 DEF Lined, Carried
<1>12. \A j \in Relays : \A p \in 1..Len(link[j]) : num[ids[j][p]] = link[j][p]
         /\ ids[j][p] \in due[j]
  BY <1>1 DEF Lined, Carried
<1>13. \A j \in Relays : \A e \in due[j] : e < next
  BY <1>1 DEF Lined, Nested
<1>14. \A j \in Relays : \A e \in due[j] : e \in Nat
  BY DEF Ledger
<1>15. num2[next] = num[next] /\ \A e \in Nat : e < next => num2[e] = num[e]
  BY <1>01 DEF SameUpTo
<1>2. 1 \in Relays /\ Relays \subseteq Nat /\ \A j \in Relays : j >= 1
  BY RelaysAre
<1>3. \A j \in Relays : j # 1 => link'[j] = link[j] /\ ids2[j] = ids[j]
  BY <1>2 DEF StreamInv, TypeOK, Ledger, LinkLonger
<1>31. \A j \in Relays : due2[j] = due[j] \cup {next}
  OBVIOUS
<1>32. link'[1] = Append(link[1], num[next]) /\ ids2[1] = Append(ids[1], next)
  BY <1>2 DEF StreamInv, TypeOK, Ledger, LinkLonger
<1> HIDE DEF ids2, due2
<1>33. PICK m : m = Len(link[1]) + 1
  OBVIOUS
<1>4. /\ Len(link[1]) \in Nat /\ m \in Nat /\ Len(link'[1]) = m /\ link'[1][m] = num[next]
      /\ \A p \in 1..Len(link[1]) : link'[1][p] = link[1][p]
  <2>1. PICK u : u = link[1]
    OBVIOUS
  <2>2. PICK x : x = num[next]
    OBVIOUS
  <2>3. PICK t : t = Append(u, x)
    OBVIOUS
  <2>4. u \in Seq(Nat) /\ x \in Nat
    <3>1. u \in Seq(1..MaxPackets) /\ 1..MaxPackets \subseteq Nat
      BY <1>01, <1>2, <2>1
    <3>2. u \in Seq(Nat)
      BY <3>1, SeqSubset
    <3> QED BY <1>01, <2>2, <3>2
  <2>5. /\ Len(u) \in Nat /\ Len(t) = Len(u) + 1 /\ t[Len(u) + 1] = x
        /\ \A p \in 1..Len(u) : t[p] = u[p]
    BY <2>3, <2>4, AppendIs
  <2>6. link'[1] = t
    BY <1>32, <2>1, <2>2, <2>3
  <2> QED BY <1>33, <2>1, <2>2, <2>5, <2>6
<1>5. /\ Len(ids2[1]) = m /\ ids2[1][m] = next
      /\ \A p \in 1..Len(link[1]) : ids2[1][p] = ids[1][p]
  <2>1. PICK u : u = ids[1]
    OBVIOUS
  <2>3. PICK t : t = Append(u, next)
    OBVIOUS
  <2>4. u \in Seq(Nat) /\ next \in Nat
    BY <1>01, <1>2, <2>1
  <2>5. /\ Len(u) \in Nat /\ Len(t) = Len(u) + 1 /\ t[Len(u) + 1] = next
        /\ \A p \in 1..Len(u) : t[p] = u[p]
    BY <2>3, <2>4, AppendIs
  <2>6. ids2[1] = t
    BY <1>32, <2>1, <2>3
  <2>7. Len(u) = Len(link[1])
    BY <1>11, <1>2, <2>1
  <2> QED BY <1>33, <2>1, <2>5, <2>6, <2>7
<1>51. Len(link[1]) \in Nat /\ m \in Nat /\ Len(link'[1]) = m /\ m = Len(link[1]) + 1
  BY <1>33, <1>4
<1>6. ASSUME NEW j \in Relays, NEW p \in 1..Len(link'[j])
      PROVE  \/ j = 1 /\ p = m /\ ids2[j][p] = next /\ link'[j][p] = num[next]
             \/ p \in 1..Len(link[j]) /\ (j = 1 => p < m) /\ ids2[j][p] = ids[j][p]
               /\ link'[j][p] = link[j][p]
  <2>1. CASE j = 1
    <3>0. p \in 1..m
      BY <1>51, <2>1
    <3>1. p = m \/ (p \in 1..Len(link[1]) /\ p < m)
      BY <1>51, <3>0
    <3> QED BY <1>4, <1>5, <2>1, <3>1
  <2>2. CASE j # 1
    BY <1>3, <2>2
  <2> QED BY <2>1, <2>2
<1>61. \A j \in Relays : Len(link'[j]) = IF j = 1 THEN m ELSE Len(link[j])
  BY <1>3, <1>51
<1>7. \A j \in Relays : \A p \in 1..Len(link[j]) : p \in 1..Len(link'[j])
        /\ ids2[j][p] = ids[j][p]
  <2> SUFFICES ASSUME NEW j \in Relays, NEW p \in 1..Len(link[j])
               PROVE  p \in 1..Len(link'[j]) /\ ids2[j][p] = ids[j][p]
    OBVIOUS
  <2>1. CASE j = 1
    <3>1. p \in 1..Len(link[1])
      BY <2>1
    <3>2. p \in 1..m
      BY <1>51, <3>1
    <3> QED BY <1>5, <1>51, <2>1, <3>1, <3>2
  <2>2. CASE j # 1
    BY <1>3, <2>2
  <2> QED BY <2>1, <2>2
<1>8. Carried(ids2, num2, due2)'
  <2>1. \A j \in Relays : Len(ids2[j]) = Len(link'[j])
    BY <1>11, <1>3, <1>5, <1>51
  <2>2. ASSUME NEW j \in Relays, NEW p \in 1..Len(link'[j])
        PROVE  num2[ids2[j][p]] = link'[j][p] /\ ids2[j][p] \in due2[j]
    <3>1. CASE ids2[j][p] = next /\ link'[j][p] = num[next]
      BY <1>15, <1>31, <3>1
    <3>2. CASE p \in 1..Len(link[j]) /\ ids2[j][p] = ids[j][p] /\ link'[j][p] = link[j][p]
      <4>1. num[ids[j][p]] = link[j][p] /\ ids[j][p] \in due[j]
        BY <1>12, <3>2
      <4>2. ids[j][p] \in Nat /\ ids[j][p] < next
        BY <1>13, <1>14, <4>1
      <4> QED BY <1>15, <1>31, <3>2, <4>1, <4>2
    <3> QED BY <1>6, <3>1, <3>2
  <2> QED BY <2>1, <2>2 DEF Carried
<1>9. Ordered(ids2)'
  <2> SUFFICES ASSUME NEW j \in Relays, NEW p \in 1..Len(link'[j]), NEW q \in 1..Len(link'[j]),
                      p < q
               PROVE  ids2[j][p] < ids2[j][q]
    BY DEF Ordered
  <2>0. j = 1 => p # m
    <3>1. j = 1 => q \in 1..m /\ p \in 1..m
      BY <1>51
    <3> QED BY <1>51, <3>1
  <2>1. p \in 1..Len(link[j]) /\ ids2[j][p] = ids[j][p]
    BY <1>6, <2>0
  <2>2. CASE ids2[j][q] = next
    <3>1. ids[j][p] < next
      BY <1>12, <1>13, <2>1
    <3> QED BY <2>1, <2>2, <3>1
  <2>3. CASE q \in 1..Len(link[j]) /\ ids2[j][q] = ids[j][q]
    BY <1>1, <2>1, <2>3 DEF Lined, Ordered
  <2> QED BY <1>6, <2>2, <2>3
<1>10. Passed(ids2, due2)'
  <2> SUFFICES ASSUME NEW k \in Relays, NEW j \in Relays, k < j, NEW p \in 1..Len(link'[j])
               PROVE  ids2[j][p] \notin due2[k]
    BY DEF Passed
  <2>0. j # 1
    BY <1>2
  <2>1. p \in 1..Len(link[j]) /\ ids2[j][p] = ids[j][p]
    BY <1>3, <2>0
  <2>2. ids[j][p] \notin due[k]
    BY <1>1, <2>1 DEF Lined, Passed
  <2>3. ids[j][p] \in Nat /\ ids[j][p] < next
    BY <1>12, <1>13, <1>14, <2>1
  <2>4. ids[j][p] # next
    BY <1>02, <2>3
  <2> QED BY <1>31, <2>1, <2>2, <2>4
<1>16. Placed(ids2, due2)'
  <2> SUFFICES ASSUME NEW j \in Relays, NEW e \in due2[j]
               PROVE  \E k \in Relays : k <= j /\ \E p \in 1..Len(link'[k]) : e = ids2[k][p]
    BY DEF Placed
  <2>1. CASE e = next
    <3>1. m \in 1..m
      BY <1>51
    <3>2. m \in 1..Len(link'[1]) /\ ids2[1][m] = e
      BY <1>5, <1>51, <2>1, <3>1
    <3> QED BY <1>2, <3>2
  <2>2. CASE e \in due[j]
    <3>1. PICK k \in Relays : k <= j /\ \E p \in 1..Len(link[k]) : e = ids[k][p]
      BY <1>1, <2>2 DEF Lined, Placed
    <3>2. PICK p \in 1..Len(link[k]) : e = ids[k][p]
      BY <3>1
    <3>3. p \in 1..Len(link'[k]) /\ e = ids2[k][p]
      BY <1>7, <3>2
    <3> QED BY <3>1, <3>3
  <2> QED BY <1>31, <2>1, <2>2
<1>17. Nested(due2, next + 1)
  <2>1. \A i, j \in Relays : i < j => due[i] \subseteq due[j]
    BY <1>1 DEF Lined, Nested
  <2>2. \A i, j \in Relays : i < j => \A e \in due[i], d \in due[j] \ due[i] : d < e
    BY <1>1 DEF Lined, Nested
  <2>3. ASSUME NEW i \in Relays, NEW j \in Relays, i < j, NEW e \in due2[i],
               NEW d \in due2[j] \ due2[i]
        PROVE  d < e
    <3>1. d \in due[j] \ due[i]
      BY <1>31, <2>3
    <3>2. CASE e = next
      BY <1>13, <3>1, <3>2
    <3>3. CASE e \in due[i]
      BY <2>2, <2>3, <3>1, <3>3
    <3> QED BY <1>31, <3>2, <3>3
  <2>4. ASSUME NEW i \in Relays, NEW e \in due2[i] PROVE e < next + 1
    <3>1. e = next \/ e \in due[i]
      BY <1>31
    <3>2. e \in due[i] => e \in Nat /\ e < next
      BY <1>13, <1>14
    <3> QED BY <1>02, <3>1, <3>2
  <2>5. \A i, j \in Relays : i < j => due2[i] \subseteq due2[j]
    BY <1>31, <2>1
  <2> QED BY <2>3, <2>4, <2>5 DEF Nested
<1> QED BY <1>8, <1>9, <1>10, <1>16, <1>17 DEF Lined, Nested, ids2, due2

\* Relay i passes the packet with the number x on.
LinkForwarded(i, x) ==
  link' = [j \in Relays |-> IF j = i THEN Tail(link[j])
                            ELSE IF j = i + 1 THEN Append(link[j], x)
                            ELSE link[j]]

\* A packet that is passed on only the relays behind have yet to see.
LEMMA ForwardLined ==
  ASSUME StreamInv, NEW ids, NEW num, NEW due, NEW debts, NEW next,
         Ledger(ids, num, due, debts, next), NEW i \in Relays, link[i] # <<>>,
         LinkForwarded(i, num[ids[i][1]])
  PROVE  Lined([j \in Relays |-> IF j = i THEN Tail(ids[j])
                                 ELSE IF j = i + 1 THEN Append(ids[j], ids[i][1])
                                 ELSE ids[j]],
               num, [due EXCEPT ![i] = @ \ {ids[i][1]}], next)'
<1> DEFINE h == ids[i][1]
           ids2 == [j \in Relays |-> IF j = i THEN Tail(ids[j])
                                     ELSE IF j = i + 1 THEN Append(ids[j], h)
                                     ELSE ids[j]]
           due2 == [due EXCEPT ![i] = @ \ {h}]
<1>01. /\ link \in [Relays -> Seq(1..MaxPackets)] /\ ids \in [Relays -> Seq(Nat)]
       /\ num \in [Nat -> Nat]
  BY DEF StreamInv, TypeOK, Ledger
<1>02. Relays \subseteq Nat /\ i \in Nat /\ i # i + 1
  BY RelaysAre
<1>1. Lined(ids, num, due, next)
  BY DEF Ledger
<1>11. \A j \in Relays : Len(ids[j]) = Len(link[j])
  BY <1>1 DEF Lined, Carried
<1>12. \A j \in Relays : \A p \in 1..Len(link[j]) : num[ids[j][p]] = link[j][p]
         /\ ids[j][p] \in due[j]
  BY <1>1 DEF Lined, Carried
<1>13. \A j \in Relays : \A e \in due[j] : e \in Nat
  BY DEF Ledger
<1>2. /\ h \in Nat /\ \A e \in due[i] : h <= e
      /\ \A j \in Relays : h \in due[j] <=> i <= j
      /\ \A p \in 1..Len(link[i]) : ids[i][p] = h => p = 1
  BY HeadIsFirst
<1>3. \A j \in Relays : j # i /\ j # i + 1 => link'[j] = link[j] /\ ids2[j] = ids[j]
  BY DEF LinkForwarded
<1>31. link'[i] = Tail(link[i]) /\ ids2[i] = Tail(ids[i])
  BY DEF LinkForwarded
<1>32. i + 1 \in Relays => link'[i + 1] = Append(link[i + 1], num[h])
         /\ ids2[i + 1] = Append(ids[i + 1], h)
  BY <1>02 DEF LinkForwarded
<1>33. due2[i] = due[i] \ {h} /\ \A j \in Relays : j # i => due2[j] = due[j]
  BY DEF Ledger
<1> HIDE DEF h, ids2, due2
<1>4. /\ \A p \in 1..Len(link'[i]) : /\ p + 1 \in 1..Len(link[i])
                                     /\ link'[i][p] = link[i][p + 1]
                                          /\ ids2[i][p] = ids[i][p + 1]
      /\ Len(link'[i]) \in Nat /\ Len(ids2[i]) = Len(link'[i])
           /\ Len(link[i]) = Len(link'[i]) + 1
      /\ \A p \in 1..Len(link[i]) : p = 1 \/ p - 1 \in 1..Len(link'[i])
  <2>1. PICK u : u = link[i]
    OBVIOUS
  <2>2. PICK v : v = ids[i]
    OBVIOUS
  <2>3. u \in Seq(1..MaxPackets) /\ v \in Seq(Nat) /\ u # <<>> /\ Len(u) = Len(v)
    BY <1>01, <1>11, <2>1, <2>2
  <2>4. v # <<>>
    BY <2>3, EmptySeq
  <2>5. PICK t : t = Tail(u)
    OBVIOUS
  <2>6. PICK r : r = Tail(v)
    OBVIOUS
  <2>7. /\ Len(t) \in Nat /\ Len(u) = Len(t) + 1
        /\ \A p \in 1..Len(t) : t[p] = u[p + 1] /\ p + 1 \in 1..Len(u)
        /\ \A p \in 1..Len(u) : p = 1 \/ p - 1 \in 1..Len(t)
    BY <2>3, <2>5, TailIs
  <2>8. /\ Len(r) \in Nat /\ Len(v) = Len(r) + 1
        /\ \A p \in 1..Len(r) : r[p] = v[p + 1]
    BY <2>3, <2>4, <2>6, TailIs
  <2>0. Len(u) = Len(v)
    BY <2>3
  <2>71. Len(t) = Len(u) - 1
    BY <2>3, <2>5, TailIs
  <2>81. Len(r) = Len(v) - 1
    BY <2>3, <2>4, <2>6, TailIs
  <2>9. Len(r) = Len(t)
    BY <2>0, <2>71, <2>81
  <2>10. link'[i] = t /\ ids2[i] = r
    BY <1>31, <2>1, <2>2, <2>5, <2>6
  <2> QED BY <2>1, <2>2, <2>7, <2>8, <2>9, <2>10
<1>5. ASSUME i + 1 \in Relays
      PROVE  /\ Len(link[i + 1]) \in Nat /\ Len(link'[i + 1]) = Len(link[i + 1]) + 1
             /\ Len(ids2[i + 1]) = Len(link'[i + 1])
             /\ link'[i + 1][Len(link[i + 1]) + 1] = num[h]
                  /\ ids2[i + 1][Len(link[i + 1]) + 1] = h
             /\ \A p \in 1..Len(link[i + 1]) : link'[i + 1][p] = link[i + 1][p]
                  /\ ids2[i + 1][p] = ids[i + 1][p]
  <2>1. PICK u : u = link[i + 1]
    OBVIOUS
  <2>2. PICK v : v = ids[i + 1]
    OBVIOUS
  <2>3. PICK x : x = num[h]
    OBVIOUS
  <2>4. u \in Seq(Nat) /\ v \in Seq(Nat) /\ Len(u) = Len(v) /\ x \in Nat /\ h \in Nat
    <3>1. u \in Seq(1..MaxPackets) /\ 1..MaxPackets \subseteq Nat
      BY <1>01, <1>5, <2>1
    <3>2. u \in Seq(Nat)
      BY <3>1, SeqSubset
    <3> QED BY <1>01, <1>11, <1>2, <1>5, <2>1, <2>2, <2>3, <3>2
  <2>5. PICK t : t = Append(u, x)
    OBVIOUS
  <2>6. PICK r : r = Append(v, h)
    OBVIOUS
  <2>7. /\ Len(u) \in Nat /\ Len(t) = Len(u) + 1 /\ t[Len(u) + 1] = x
        /\ \A p \in 1..Len(u) : t[p] = u[p]
    BY <2>4, <2>5, AppendIs
  <2>8. /\ Len(r) = Len(v) + 1 /\ r[Len(v) + 1] = h
        /\ \A p \in 1..Len(v) : r[p] = v[p]
    BY <2>4, <2>6, AppendIs
  <2>9. link'[i + 1] = t /\ ids2[i + 1] = r
    BY <1>32, <1>5, <2>1, <2>2, <2>3, <2>5, <2>6
  <2>10. Len(u) = Len(v)
    BY <2>4
  <2> QED BY <2>1, <2>2, <2>3, <2>7, <2>8, <2>9, <2>10
<1>51. PICK m : m = Len(link[i + 1]) + 1
  OBVIOUS
<1>52. \A j \in Relays : \A p \in 1..Len(link[j]) : ids[j][p] = h => j = i /\ p = 1
  <2> SUFFICES ASSUME NEW j \in Relays, NEW p \in 1..Len(link[j]), ids[j][p] = h
               PROVE  j = i /\ p = 1
    OBVIOUS
  <2>1. ~ (j < i)
    BY <1>02, <1>12, <1>2
  <2>2. ~ (i < j)
    BY <1>1, <1>02, <1>2 DEF Lined, Passed
  <2>3. j = i
    BY <1>02, <2>1, <2>2
  <2> QED BY <1>2, <2>3
<1>6. ASSUME NEW j \in Relays, NEW p \in 1..Len(link'[j])
      PROVE  \/ j = i + 1 /\ p = m /\ ids2[j][p] = h /\ link'[j][p] = num[h]
             \/ \E q \in 1..Len(link[j]) :
                  /\ ids2[j][p] = ids[j][q] /\ link'[j][p] = link[j][q] /\ ids[j][q] # h
                  /\ q = IF j = i THEN p + 1 ELSE p
  <2>1. CASE j = i
    <3>1. p + 1 \in 1..Len(link[j]) /\ ids2[j][p] = ids[j][p + 1]
            /\ link'[j][p] = link[j][p + 1] /\ p + 1 # 1
      BY <1>4, <2>1
    <3>2. ids[j][p + 1] # h
      BY <1>52, <3>1
    <3> QED BY <2>1, <3>1, <3>2
  <2>2. CASE j = i + 1
    <3>0. Len(link[j]) \in Nat /\ Len(link'[j]) = Len(link[j]) + 1 /\ m = Len(link[j]) + 1
      BY <1>5, <1>51, <2>2
    <3>1. p = m \/ p \in 1..Len(link[j])
      BY <3>0
    <3>2. CASE p = m
      BY <1>5, <1>51, <2>2, <3>2
    <3>3. CASE p \in 1..Len(link[j])
      <4>1. ids2[j][p] = ids[j][p] /\ link'[j][p] = link[j][p]
        BY <1>5, <2>2, <3>3
      <4>2. ids[j][p] # h
        BY <1>02, <1>52, <2>2, <3>3
      <4> QED BY <1>02, <2>2, <3>3, <4>1, <4>2
    <3> QED BY <3>1, <3>2, <3>3
  <2>3. CASE j # i /\ j # i + 1
    <3>1. p \in 1..Len(link[j]) /\ ids2[j][p] = ids[j][p] /\ link'[j][p] = link[j][p]
      BY <1>3, <2>3
    <3>2. ids[j][p] # h
      BY <1>52, <2>3, <3>1
    <3> QED BY <2>3, <3>1, <3>2
  <2> QED BY <2>1, <2>2, <2>3
<1>7. \A j \in Relays : Len(ids2[j]) = Len(link'[j])
  <2> SUFFICES ASSUME NEW j \in Relays PROVE Len(ids2[j]) = Len(link'[j])
    OBVIOUS
  <2>1. CASE j = i
    BY <1>4, <2>1
  <2>2. CASE j = i + 1
    BY <1>5, <2>2
  <2>3. CASE j # i /\ j # i + 1
    BY <1>11, <1>3, <2>3
  <2> QED BY <2>1, <2>2, <2>3
<1>8. Carried(ids2, num, due2)'
  <2>1. ASSUME NEW j \in Relays, NEW p \in 1..Len(link'[j])
        PROVE  num[ids2[j][p]] = link'[j][p] /\ ids2[j][p] \in due2[j]
    <3>1. CASE j = i + 1 /\ ids2[j][p] = h /\ link'[j][p] = num[h]
      <4>1. j # i /\ i <= j
        BY <1>02, <3>1
      <4>2. h \in due[j]
        BY <1>2, <4>1
      <4> QED BY <1>33, <3>1, <4>1, <4>2
    <3>2. CASE \E q \in 1..Len(link[j]) :
                 ids2[j][p] = ids[j][q] /\ link'[j][p] = link[j][q] /\ ids[j][q] # h
      <4>1. PICK q \in 1..Len(link[j]) :
              ids2[j][p] = ids[j][q] /\ link'[j][p] = link[j][q] /\ ids[j][q] # h
        BY <3>2
      <4>2. num[ids[j][q]] = link[j][q] /\ ids[j][q] \in due[j]
        BY <1>12
      <4> QED BY <1>33, <4>1, <4>2
    <3> QED BY <1>6, <3>1, <3>2
  <2> QED BY <1>7, <2>1 DEF Carried
<1>9. Ordered(ids2)'
  <2> SUFFICES ASSUME NEW j \in Relays, NEW p \in 1..Len(link'[j]), NEW q \in 1..Len(link'[j]),
                      p < q
               PROVE  ids2[j][p] < ids2[j][q]
    BY DEF Ordered
  <2>0. j = i + 1 => p # m
    <3>1. j = i + 1 => Len(link'[j]) = m /\ m \in Nat
      BY <1>5, <1>51
    <3> QED BY <3>1
  <2>1. PICK k \in 1..Len(link[j]) : ids2[j][p] = ids[j][k] /\ k = IF j = i THEN p + 1 ELSE p
    BY <1>6, <2>0
  <2>2. CASE j = i + 1 /\ ids2[j][q] = h
    <3>1. i \in Relays /\ j \in Relays /\ i < j
      BY <1>02, <2>2
    <3>2. ids[j][k] \notin due[i] /\ ids[j][k] \in due[j]
      BY <1>1, <1>12, <3>1 DEF Lined, Passed
    <3>3. h \in due[i]
      BY <1>02, <1>2
    <3>4. ids[j][k] < h
      BY <1>1, <3>1, <3>2, <3>3 DEF Lined, Nested
    <3> QED BY <2>1, <2>2, <3>4
  <2>3. CASE \E e \in 1..Len(link[j]) : ids2[j][q] = ids[j][e] /\ e = IF j = i THEN q + 1 ELSE q
    <3>1. PICK e \in 1..Len(link[j]) : ids2[j][q] = ids[j][e] /\ e = IF j = i THEN q + 1 ELSE q
      BY <2>3
    <3>2. k < e
      BY <2>1, <3>1
    <3>3. ids[j][k] < ids[j][e]
      BY <1>1, <3>2 DEF Lined, Ordered
    <3> QED BY <2>1, <3>1, <3>3
  <2> QED BY <1>6, <2>2, <2>3
<1>10. Passed(ids2, due2)'
  <2> SUFFICES ASSUME NEW k \in Relays, NEW j \in Relays, k < j, NEW p \in 1..Len(link'[j])
               PROVE  ids2[j][p] \notin due2[k]
    BY DEF Passed
  <2>0. due2[k] \subseteq due[k]
    BY <1>33
  <2>1. CASE j = i + 1 /\ ids2[j][p] = h
    <3>1. CASE k = i
      BY <1>33, <2>1, <3>1
    <3>2. CASE k # i
      <4>1. ~ (i <= k)
        BY <1>02, <2>1, <3>2
      <4> QED BY <1>2, <2>0, <2>1, <4>1
    <3> QED BY <3>1, <3>2
  <2>2. CASE \E q \in 1..Len(link[j]) : ids2[j][p] = ids[j][q]
    <3>1. PICK q \in 1..Len(link[j]) : ids2[j][p] = ids[j][q]
      BY <2>2
    <3>2. ids[j][q] \notin due[k]
      BY <1>1 DEF Lined, Passed
    <3> QED BY <2>0, <3>1, <3>2
  <2> QED BY <1>6, <2>1, <2>2
<1>16. Placed(ids2, due2)'
  <2> SUFFICES ASSUME NEW j \in Relays, NEW e \in due2[j]
               PROVE  \E k \in Relays : k <= j /\ \E p \in 1..Len(link'[k]) : e = ids2[k][p]
    BY DEF Placed
  <2>0. e \in due[j] /\ (j = i => e # h)
    BY <1>33
  <2>1. PICK k \in Relays : k <= j /\ \E p \in 1..Len(link[k]) : e = ids[k][p]
    BY <1>1, <2>0 DEF Lined, Placed
  <2>2. PICK p \in 1..Len(link[k]) : e = ids[k][p]
    BY <2>1
  <2>3. CASE e = h
    <3>1. i <= j /\ i # j
      BY <1>2, <2>0, <2>3
    <3>2. i + 1 <= j /\ i + 1 \in 1..j
      BY <1>02, <3>1
    <3>3. i + 1 \in Relays
      BY <3>2, RelaysAre
    <3>4. m \in 1..Len(link'[i + 1]) /\ ids2[i + 1][m] = h
      <4>1. Len(link[i + 1]) \in Nat /\ Len(link'[i + 1]) = m /\ m = Len(link[i + 1]) + 1
              /\ ids2[i + 1][m] = h
        BY <1>5, <1>51, <3>3
      <4>2. m \in 1..m
        BY <4>1
      <4> QED BY <4>1, <4>2
    <3> QED BY <2>3, <3>2, <3>3, <3>4
  <2>4. CASE e # h /\ k = i
    <3>1. p \in 1..Len(link[i]) /\ p # 1 /\ ids[i][p] = e
      <4>1. p = 1 => ids[i][p] = h
        BY DEF h
      <4> QED BY <2>2, <2>4, <4>1
    <3>2. p - 1 \in 1..Len(link'[i]) /\ (p - 1) + 1 = p
      BY <1>4, <3>1
    <3>3. ids2[i][p - 1] = e
      BY <1>4, <3>1, <3>2
    <3> QED BY <2>1, <2>4, <3>2, <3>3
  <2>5. CASE k = i + 1
    <3>1. Len(link[k]) \in Nat /\ Len(link'[k]) = Len(link[k]) + 1 /\ ids2[k][p] = ids[k][p]
      BY <1>5, <2>5
    <3>2. p \in 1..Len(link'[k])
      BY <3>1
    <3> QED BY <2>1, <2>2, <3>1, <3>2
  <2>6. CASE k # i /\ k # i + 1
    BY <1>3, <2>1, <2>2, <2>6
  <2> QED BY <2>3, <2>4, <2>5, <2>6
<1>17. Nested(due2, next)
  <2>0. Nested(due, next)
    BY <1>1 DEF Lined
  <2>1. ASSUME NEW k \in Relays, NEW j \in Relays, k < j PROVE due2[k] \subseteq due2[j]
    <3>1. due[k] \subseteq due[j] /\ due2[k] \subseteq due[k]
      BY <1>33, <2>0, <2>1 DEF Nested
    <3>2. CASE j = i
      <4>1. h \notin due[k] /\ due2[j] = due[j] \ {h}
        BY <1>02, <1>2, <1>33, <2>1, <3>2
      <4> QED BY <3>1, <4>1
    <3>3. CASE j # i
      BY <1>33, <3>1, <3>3
    <3> QED BY <3>2, <3>3
  <2>2. ASSUME NEW k \in Relays, NEW j \in Relays, k < j, NEW e \in due2[k],
               NEW d \in due2[j] \ due2[k]
        PROVE  d < e
    <3>1. e \in due[k] /\ d \in due[j]
      BY <1>33
    <3>2. CASE d \notin due[k]
      BY <2>0, <2>2, <3>1, <3>2 DEF Nested
    <3>3. CASE d \in due[k]
      <4>1. k = i /\ d = h /\ e # h
        BY <1>33, <3>3
      <4>2. h <= e /\ e \in Nat
        BY <1>13, <1>2, <3>1, <4>1
      <4> QED BY <1>2, <4>1, <4>2
    <3> QED BY <3>2, <3>3
  <2>3. \A k \in Relays : \A e \in due2[k] : e < next
    BY <1>33, <2>0 DEF Nested
  <2> QED BY <2>1, <2>2, <2>3 DEF Nested
<1> QED BY <1>8, <1>9, <1>10, <1>16, <1>17 DEF Lined, Nested, ids2, due2, h

\* The line itself does not change, and `num` only from the packet to come on.
LEMMA LinedKept ==
  ASSUME NEW ids, NEW num, NEW due, NEW next \in Nat, Lined(ids, num, due, next),
         due \in [Relays -> SUBSET Nat], link' = link,
         NEW num2, \A e \in Nat : e < next => num2[e] = num[e]
  PROVE  Lined(ids, num2, due, next)'
<1>1. Carried(ids, num2, due)'
  <2>1. \A i \in Relays : Len(ids[i]) = Len(link[i])
    BY DEF Lined, Carried
  <2>2. ASSUME NEW i \in Relays, NEW p \in 1..Len(link[i])
        PROVE  num2[ids[i][p]] = link[i][p] /\ ids[i][p] \in due[i]
    <3>1. num[ids[i][p]] = link[i][p] /\ ids[i][p] \in due[i]
      BY DEF Lined, Carried
    <3>2. ids[i][p] \in Nat /\ ids[i][p] < next
      BY <3>1 DEF Lined, Nested
    <3> QED BY <3>1, <3>2
  <2> QED BY <2>1, <2>2 DEF Carried
<1>2. Ordered(ids)'
  BY DEF Lined, Ordered
<1>3. Passed(ids, due)'
  BY DEF Lined, Passed
<1>4. Placed(ids, due)'
  <2>1. Placed(ids, due)
    BY DEF Lined
  <2> QED BY <2>1 DEF Placed
<1>5. Nested(due, next)
  BY DEF Lined
<1> QED BY <1>1, <1>2, <1>3, <1>4, <1>5 DEF Lined, Nested

====

---- MODULE StreamLossProofs ----
(* LossIsBounded of Stream, for every number of relays and packets, every     *)
(* number of faults, and whatever the server does: each step of Next keeps the*)
(* ledger of StreamLedger, with the debts that the step adds or takes away.   *)
EXTENDS StreamLedger

----
(* What each relay expects when packet h is taken from its link.              *)

\* Of the packets Y, w is the next one behind h that is no stray.
IsNextWhole(Y, debts, h, w) ==
  /\ h < w /\ <<w, 0>> \notin debts
  /\ \A z \in Y : w <= z \/ z <= h \/ <<z, 0>> \in debts

\* There is one, as the packet to come is no stray.
LEMMA NextWhole ==
  ASSUME NEW debts, NEW Y \in SUBSET Nat, NEW next \in Y, NEW h \in Nat, h < next,
         <<next, 0>> \notin debts
  PROVE  \E w \in Y : IsNextWhole(Y, debts, h, w)
<1> DEFINE S == {w \in Y : h < w /\ <<w, 0>> \notin debts}
<1>1. S \in SUBSET Nat /\ next \in S
  OBVIOUS
<1>2. PICK m \in S : \A k \in S : m <= k
  <2> HIDE DEF S
  <2> QED BY <1>1, Least
<1>3. m \in Y /\ h < m /\ <<m, 0>> \notin debts
  BY <1>2
<1>4. \A z \in Y : z \in S \/ z <= h \/ <<z, 0>> \in debts
  OBVIOUS
<1> QED BY <1>2, <1>3, <1>4 DEF IsNextWhole

\* The next one behind h that is no stray, as each relay from i on sees it.
IsWholeAfter(due, debts, next, i, h, w) ==
  /\ h < w /\ w <= next /\ <<w, 0>> \notin debts
  /\ \A j \in Relays : i <= j =>
       \A z \in Counted(due[j], next) :
         (w <= z \/ z <= h \/ <<z, 0>> \in debts) /\ (z <= w \/ w \in due[j])

\* The relays from i on agree on it: what they have yet to see beyond relay i is
\* before h.
LEMMA WholeAfter ==
  ASSUME NEW ids, NEW num, NEW due, NEW debts, NEW next,
         Ledger(ids, num, due, debts, next),
         NEW i \in Relays, NEW h \in due[i]
  PROVE  \E w \in Nat : IsWholeAfter(due, debts, next, i, h, w)
<1>1. next \in Nat /\ due \in [Relays -> SUBSET Nat] /\ <<next, 0>> \notin debts
  BY DEF Ledger, Owed
<1>2. Nested(due, next)
  BY DEF Ledger, Lined
<1>3. h \in Nat /\ h < next /\ due[i] \in SUBSET Nat
  BY <1>1, <1>2 DEF Nested
<1>4. PICK w \in Nat :
        /\ w \in due[i] \cup {next} /\ h < w /\ <<w, 0>> \notin debts
        /\ \A z \in due[i] \cup {next} : w <= z \/ z <= h \/ <<z, 0>> \in debts
  <2>1. next \in Nat /\ <<next, 0>> \notin debts
    BY <1>1
  <2>2. PICK Y : Y = due[i] \cup {next}
    OBVIOUS
  <2>3. Y \in SUBSET Nat /\ next \in Y /\ h \in Nat /\ h < next
    BY <1>3, <2>1, <2>2
  <2>4. \E w \in Y : IsNextWhole(Y, debts, h, w)
    BY <2>1, <2>3, NextWhole
  <2> QED BY <2>2, <2>3, <2>4 DEF IsNextWhole
<1>5. w <= next
  BY <1>1, <1>2, <1>4 DEF Nested
<1>6. ASSUME NEW j \in Relays, i <= j, NEW z \in Counted(due[j], next)
      PROVE  (w <= z \/ z <= h \/ <<z, 0>> \in debts) /\ (z <= w \/ w \in due[j])
  <2>0. i \in Nat /\ j \in Nat /\ (i = j \/ i < j)
    BY <1>6, RelaysAre
  <2>1. due[i] \subseteq due[j]
    BY <1>2, <2>0 DEF Nested
  <2>2. z \in due[j] \/ z = next
    BY DEF Counted
  <2>3. z \in Nat /\ z <= next
    BY <1>1, <1>2, <2>2 DEF Nested
  <2>4. w <= z \/ z <= h \/ <<z, 0>> \in debts
    <3>1. CASE z \in due[i] \cup {next}
      BY <1>4, <3>1
    <3>2. CASE z \in due[j] \ due[i]
      <4>1. z < h
        BY <1>2, <2>0, <3>2 DEF Nested
      <4> QED BY <1>3, <2>3, <4>1
    <3> QED BY <2>2, <3>1, <3>2
  <2>5. z <= w \/ w \in due[j]
    BY <1>4, <2>1, <2>3
  <2> QED BY <2>4, <2>5
<1> QED BY <1>4, <1>5, <1>6 DEF IsWholeAfter

\* What the relays behind the one that lost h expect, once w owes for h.
LEMMA CalmBehind ==
  ASSUME NEW ids, NEW num, NEW due, NEW debts, NEW next,
         Ledger(ids, num, due, debts, next),
         NEW i \in Relays, NEW h \in due[i], NEW j \in Relays, i <= j,
         NEW w \in Nat, h < w, <<w, 0>> \notin debts,
         \A z \in Counted(due[j], next) :
           (w <= z \/ z <= h \/ <<z, 0>> \in debts) /\ (z <= w \/ w \in due[j]),
         NEW debts2, <<w, j>> \in debts2,
         \A e : e # h => /\ <<e, 0>> \in debts2 => <<e, 0>> \in debts
                         /\ <<e, j>> \in debts => <<e, j>> \in debts2
                         /\ <<e, 0>> \in debts => <<e, 0>> \in debts2
  PROVE  Calm(j, due[j] \ {h}, num, debts2, last[j], Counted(due[j] \ {h}, next))
<1> DEFINE D == due[j]
           Y == Counted(due[j], next)
           Z == Counted(due[j] \ {h}, next)
<1>1. next \in Nat /\ D \in SUBSET Nat
  BY DEF Ledger
<1>2. Nested(due, next) /\ Calm(j, D, num, debts, last[j], Y)
  BY DEF Ledger, Lined, AllCalm
<1>3. h \in D /\ h < next
  <2>1. i = j \/ i < j
    BY RelaysAre
  <2> QED BY <1>2, <2>1 DEF Nested
<1>4. D \subseteq Y /\ Y \in SUBSET Nat /\ Z \in SUBSET Y
  BY <1>1 DEF Counted
<1>5. \A y \in Z : y # h
  BY <1>1, <1>3 DEF Counted
<1>6. /\ \A z \in Y : w <= z \/ z <= h \/ <<z, 0>> \in debts
      /\ \A y \in Y : y <= w \/ w \in D
  OBVIOUS
<1>7. /\ \A e \in D \ {h} : <<e, 0>> \in debts2 => <<e, 0>> \in debts
      /\ \A y \in Z : <<y, 0>> \notin debts2 /\ <<y, j>> \notin debts2 =>
           y # h /\ <<y, 0>> \notin debts /\ <<y, j>> \notin debts
  BY <1>5
<1> HIDE DEF D, Y, Z
<1>8. Calm(j, D \ {h}, num, debts2, last[j], Z)
  BY <1>1, <1>2, <1>3, <1>4, <1>6, <1>7, CalmWithout
<1> QED BY <1>8 DEF D, Z

\* What relay i expects once it has noted the number of h.
LEMMA CalmNoted ==
  ASSUME StreamInv, NEW ids, NEW num, NEW due, NEW debts, NEW next,
         Ledger(ids, num, due, debts, next),
         NEW i \in Relays, link[i] # <<>>, NEW h, h = ids[i][1],
         NEW debts2,
         \A e : e # h => /\ <<e, 0>> \in debts2 => <<e, 0>> \in debts
                         /\ <<e, i>> \in debts => <<e, i>> \in debts2
                         /\ <<e, 0>> \in debts => <<e, 0>> \in debts2
  PROVE  Calm(i, due[i] \ {h}, num, debts2, num[h], Counted(due[i] \ {h}, next))
<1> DEFINE D == due[i]
           Y == Counted(due[i], next)
           Z == Counted(due[i] \ {h}, next)
<1>1. next \in Nat /\ D \in SUBSET Nat
  BY DEF Ledger
<1>2. Calm(i, D, num, debts, last[i], Y)
  BY DEF Ledger, AllCalm
<1>3. h \in Nat /\ h < next /\ (\A e \in D : h <= e) /\ h \in D
  <2>1. i <= i
    BY RelaysAre
  <2> QED BY <2>1, HeadIsFirst
<1>4. Y \in SUBSET Nat /\ Z \in SUBSET Y
  BY <1>1 DEF Counted
<1>5. \A y \in Z : h < y
  <2>1. \A y \in D \ {h} : h < y
    BY <1>1, <1>3
  <2> QED BY <1>3, <2>1 DEF Counted
<1>6. /\ \A e \in D \ {h} : <<e, 0>> \in debts2 => <<e, 0>> \in debts
      /\ \A y \in Z : <<y, 0>> \notin debts2 /\ <<y, i>> \notin debts2 =>
           <<y, 0>> \notin debts /\ <<y, i>> \notin debts
  <2>0. Z \subseteq Nat /\ h \in Nat
    BY <1>3, <1>4
  <2>1. \A y \in Z : y # h
    <3> HIDE DEF D, Y, Z
    <3> QED BY <1>5, <2>0
  <2> QED BY <2>1
<1> HIDE DEF D, Y, Z
<1>7. Calm(i, D \ {h}, num, debts2, num[h], Z)
  BY <1>1, <1>2, <1>3, <1>4, <1>5, <1>6, CalmFront
<1> QED BY <1>7 DEF D, Z

\* What a relay expects that does not see h, or sees that it is a stray.
LEMMA CalmBefore ==
  ASSUME NEW ids, NEW num, NEW due, NEW debts, NEW next,
         Ledger(ids, num, due, debts, next),
         NEW j \in Relays, NEW h, h # next, h \notin due[j] \/ <<h, 0>> \in debts,
         NEW debts2,
         \A e : e # h => /\ <<e, 0>> \in debts2 => <<e, 0>> \in debts
                         /\ <<e, j>> \in debts => <<e, j>> \in debts2
                         /\ <<e, 0>> \in debts => <<e, 0>> \in debts2
  PROVE  Calm(j, due[j] \ {h}, num, debts2, last[j], Counted(due[j] \ {h}, next))
<1> DEFINE D == due[j]
           Y == Counted(due[j], next)
           E == due[j] \ {h}
           Z == Counted(due[j] \ {h}, next)
<1>1. D \in SUBSET Nat /\ Calm(j, D, num, debts, last[j], Y)
  BY DEF Ledger, AllCalm
<1>2. E \in SUBSET D /\ Z \in SUBSET Y /\ \A y \in Z : y # h
  BY DEF Counted
<1>3. /\ \A e \in E : num[e] = num[e] /\ (<<e, 0>> \in debts2 => <<e, 0>> \in debts)
      /\ \A e \in D \ E : <<e, 0>> \in debts
      /\ \A y \in Z : <<y, 0>> \notin debts2 /\ <<y, j>> \notin debts2 =>
           y \in Y /\ num[y] = num[y] /\ <<y, 0>> \notin debts /\ <<y, j>> \notin debts
  BY <1>2
<1> HIDE DEF D, Y, E, Z
<1>4. Calm(j, E, num, debts2, last[j], Z)
  BY <1>1, <1>2, <1>3, CalmKept
<1> QED BY <1>4 DEF E, Z

----
(* A relay sees a packet, or the network loses one.                           *)

\* A step that notes no number, and puts nothing on a link behind the first relay.
LEMMA QuietKept ==
  ASSUME Quiet, last' = last, \A j \in Relays : j > 1 /\ link[j] = <<>> => link'[j] = <<>>
  PROVE  Quiet'
BY DEF Quiet

\* handle_video_packet passes a packet on: the debts stay.
LEMMA PassKeepsLedger ==
  ASSUME StreamInv, NEW ids, NEW num, NEW due, NEW debts, NEW next,
         Ledger(ids, num, due, debts, next),
         NEW i \in Relays, Relay(i), ~ (Expected(i, Head(link[i])) < Head(link[i]))
  PROVE  SomeLedger'
<1> DEFINE h == ids[i][1]
           ids2 == [j \in Relays |-> IF j = i THEN Tail(ids[j])
                                     ELSE IF j = i + 1 THEN Append(ids[j], h)
                                     ELSE ids[j]]
           due2 == [due EXCEPT ![i] = @ \ {h}]
<1>1. link[i] # <<>>
  BY DEF Relay
<1>2. /\ h \in Nat /\ num[h] = Head(link[i])
      /\ \A j \in Relays : h \in due[j] <=> i <= j
  BY <1>1, HeadIsFirst
<1>3. /\ LinkForwarded(i, num[h]) /\ last' = [last EXCEPT ![i] = num[h]]
           /\ allowance' = allowance
      /\ number' = number /\ interested' = interested
  BY <1>2 DEF Relay, LinkForwarded, serverVars
<1>4. Lined(ids2, num, due2, next)'
  BY <1>1, <1>3, ForwardLined
<1>5. /\ ids \in [Relays -> Seq(Nat)] /\ num \in [Nat -> Nat] /\ due \in [Relays -> SUBSET Nat]
      /\ debts \subseteq Nat \X (0..Hops) /\ IsFiniteSet(debts) /\ next \in Nat
      /\ Owed(debts, next) /\ NextNumber(num, next) /\ AllCalm(num, due, debts, next)
      /\ Cardinality(debts) <= allowance
  BY DEF Ledger
<1>6. ids2 \in [Relays -> Seq(Nat)]
  <2>1. \A j \in Relays : ids[j] \in Seq(Nat)
    BY <1>5
  <2>2. ids[i] # <<>>
    <3>1. Len(ids[i]) = Len(link[i]) /\ link[i] \in Seq(1..MaxPackets)
      BY DEF StreamInv, TypeOK, Ledger, Lined, Carried
    <3> QED BY <1>1, <3>1, EmptySeq
  <2>3. Tail(ids[i]) \in Seq(Nat)
    BY <2>1, <2>2, TailIs
  <2>4. \A j \in Relays : Append(ids[j], h) \in Seq(Nat)
    BY <1>2, <2>1, AppendIs
  <2> HIDE DEF h
  <2> QED BY <2>1, <2>3, <2>4
<1>7. due2 \in [Relays -> SUBSET Nat]
  BY <1>5
<1>8. due2[i] = due[i] \ {h} /\ \A j \in Relays : j # i => due2[j] = due[j]
  BY <1>5
<1>9. last'[i] = num[h] /\ \A j \in Relays : j # i => last'[j] = last[j]
  BY <1>3 DEF StreamInv, TypeOK
<1>10. \A D : Counted(D, next)' = Counted(D, next)
  BY <1>3 DEF Counted, Subscribed
<1>11. AllCalm(num, due2, debts, next)'
  <2> SUFFICES ASSUME NEW j \in Relays
               PROVE  Calm(j, due2[j], num, debts, last'[j], Counted(due2[j], next))
    BY <1>10 DEF AllCalm
  <2>1. CASE j = i
    <3>1. Calm(i, due[i] \ {h}, num, debts, num[h], Counted(due[i] \ {h}, next))
      BY <1>1, CalmNoted
    <3> QED BY <1>8, <1>9, <2>1, <3>1
  <2>2. CASE j # i
    BY <1>5, <1>8, <1>9, <2>2 DEF AllCalm
  <2> QED BY <2>1, <2>2
<1>12. NextNumber(num, next)'
  BY <1>3, <1>5 DEF NextNumber, Subscribed
<1> HIDE DEF ids2, due2
<1>13. Ledger(ids2, num, due2, debts, next)'
  BY <1>3, <1>4, <1>5, <1>6, <1>7, <1>11, <1>12 DEF Ledger
<1> QED BY <1>13 DEF SomeLedger

\* handle_video_packet drops a packet, for the gap that it sees: the debt was
\* there. A stray is forgotten; what is whole leaves its other debts to the next.
LEMMA DropKeepsLedger ==
  ASSUME StreamInv, NEW ids, NEW num, NEW due, NEW debts, NEW next,
         Ledger(ids, num, due, debts, next),
         NEW i \in Relays, Relay(i), Expected(i, Head(link[i])) < Head(link[i])
  PROVE  SomeLedger'
<1> DEFINE h == ids[i][1]
           ids2 == [ids EXCEPT ![i] = Tail(@)]
           due2 == [j \in Relays |-> due[j] \ {h}]
<1>1. link[i] # <<>>
  BY DEF Relay
<1>2. /\ h \in Nat /\ h < next /\ num[h] = Head(link[i])
      /\ \A e \in due[i] : h <= e
      /\ \A j \in Relays : h \in due[j] <=> i <= j
  BY <1>1, HeadIsFirst
<1>3. /\ LinkShortened(i) /\ last' = [last EXCEPT ![i] = num[h]]
      /\ allowance' = allowance - 1
      /\ number' = number /\ interested' = interested
  BY <1>2 DEF Relay, serverVars, StreamInv, TypeOK, LinkShortened
<1>4. Lined(ids2, num, due2, next)'
  BY <1>1, <1>3, RemovedLined
<1>5. /\ ids \in [Relays -> Seq(Nat)] /\ num \in [Nat -> Nat] /\ due \in [Relays -> SUBSET Nat]
      /\ debts \subseteq Nat \X (0..Hops) /\ IsFiniteSet(debts) /\ next \in Nat
      /\ Owed(debts, next) /\ NextNumber(num, next) /\ AllCalm(num, due, debts, next)
      /\ Cardinality(debts) <= allowance
  BY DEF Ledger
<1>6. ids2 \in [Relays -> Seq(Nat)] /\ due2 \in [Relays -> SUBSET Nat]
  <2>1. \A j \in Relays : ids[j] \in Seq(Nat)
    BY <1>5
  <2>2. ids[i] # <<>>
    <3>1. Len(ids[i]) = Len(link[i]) /\ link[i] \in Seq(1..MaxPackets)
      BY DEF StreamInv, TypeOK, Ledger, Lined, Carried
    <3> QED BY <1>1, <3>1, EmptySeq
  <2>3. Tail(ids[i]) \in Seq(Nat)
    BY <2>1, <2>2, TailIs
  <2> HIDE DEF h
  <2> QED BY <1>5, <2>3
<1>7. \A j \in Relays : due2[j] = due[j] \ {h}
  OBVIOUS
<1>8. last'[i] = num[h] /\ \A j \in Relays : j # i => last'[j] = last[j]
  BY <1>3 DEF StreamInv, TypeOK
<1>9. \A D : Counted(D, next)' = Counted(D, next)
  BY <1>3 DEF Counted, Subscribed
<1>10. NextNumber(num, next)'
  BY <1>3, <1>5 DEF NextNumber, Subscribed
<1>11. i \in Nat /\ i >= 1 /\ Relays \subseteq Nat
  BY RelaysAre
<1>12. \A j \in Relays : j < i => h \notin due[j]
  <2>1. \A j \in Relays : h \in due[j] => i <= j
    BY <1>2
  <2> HIDE DEF h
  <2> QED BY <1>11, <2>1
<1>13. Cardinality(debts) \in Nat /\ allowance \in Int
  BY <1>5, FS_CardinalityType DEF StreamInv, TypeOK
<1> HIDE DEF ids2, due2, h
<1>14. ASSUME NEW debts2,
              debts2 \subseteq Nat \X (0..Hops), IsFiniteSet(debts2), Owed(debts2, next),
              Cardinality(debts2) <= Cardinality(debts) - 1,
              \A e : e # h => /\ <<e, 0>> \in debts2 => <<e, 0>> \in debts
                              /\ \A j \in Relays : <<e, j>> \in debts => <<e, j>> \in debts2
                              /\ <<e, 0>> \in debts => <<e, 0>> \in debts2,
              \A j \in Relays : i < j =>
                Calm(j, due[j] \ {h}, num, debts2, last[j], Counted(due[j] \ {h}, next))
       PROVE  SomeLedger'
  <2>1. ASSUME NEW j \in Relays
        PROVE  Calm(j, due2[j], num, debts2, last'[j], Counted(due2[j], next))
    <3>1. CASE j = i
      <4>1. Calm(i, due[i] \ {h}, num, debts2, num[h], Counted(due[i] \ {h}, next))
        BY <1>1, <1>14, CalmNoted DEF h
      <4> QED BY <1>7, <1>8, <3>1, <4>1
    <3>2. CASE j < i
      <4>1. h # next /\ h \notin due[j]
        BY <1>2, <1>5, <1>12, <3>2
      <4>2. Calm(j, due[j] \ {h}, num, debts2, last[j], Counted(due[j] \ {h}, next))
        BY <1>14, <4>1, CalmBefore
      <4>3. j # i
        BY <1>11, <3>2
      <4> QED BY <1>7, <1>8, <4>2, <4>3
    <3>3. CASE i < j
      BY <1>7, <1>8, <1>11, <1>14, <3>3
    <3> QED BY <1>11, <3>1, <3>2, <3>3
  <2>2. AllCalm(num, due2, debts2, next)'
    BY <1>9, <2>1 DEF AllCalm
  <2>3. Cardinality(debts2) <= allowance - 1
    <3>1. Cardinality(debts2) \in Nat
      BY <1>14, FS_CardinalityType
    <3> QED BY <1>5, <1>13, <1>14, <3>1
  <2>4. Ledger(ids2, num, due2, debts2, next)'
    BY <1>3, <1>4, <1>5, <1>6, <1>10, <1>14, <2>2, <2>3 DEF Ledger
  <2> QED BY <2>4 DEF SomeLedger
<1>15. CASE <<h, 0>> \in debts
  <2> DEFINE debts2 == debts \ {<<h, 0>>}
  <2>1. IsFiniteSet(debts2) /\ Cardinality(debts2) = Cardinality(debts) - 1
    BY <1>5, <1>15, FS_RemoveElement
  <2>2. debts2 \subseteq Nat \X (0..Hops)
    BY <1>5
  <2>3. Owed(debts2, next)
    <3>1. ASSUME NEW d \in debts2, NEW j \in Relays, 0 < d[2], d[2] < j
                 PROVE <<d[1], j>> \in debts2
      <4>1. <<d[1], j>> \in debts
        <5>1. Owed(debts, next) /\ d \in debts
          BY <1>5
        <5> QED BY <3>1, <5>1 DEF Owed
      <4>2. j # 0
        BY RelaysAre
      <4> QED BY <4>1, <4>2
    <3> QED BY <1>5, <3>1 DEF Owed
  <2>4. \A e : e # h => /\ <<e, 0>> \in debts2 => <<e, 0>> \in debts
                        /\ \A j \in Relays : <<e, j>> \in debts => <<e, j>> \in debts2
                        /\ <<e, 0>> \in debts => <<e, 0>> \in debts2
    OBVIOUS
  <2> HIDE DEF debts2
  <2>5. ASSUME NEW j \in Relays
        PROVE  Calm(j, due[j] \ {h}, num, debts2, last[j], Counted(due[j] \ {h}, next))
    <3>1. h # next
      BY <1>2, <1>5
    <3> QED BY <1>15, <2>4, <3>1, CalmBefore
  <2>6. Cardinality(debts2) <= Cardinality(debts) - 1
    BY <1>13, <2>1
  <2> QED BY <1>14, <2>1, <2>2, <2>3, <2>4, <2>5, <2>6
<1>16. CASE <<h, 0>> \notin debts
  <2>1. <<h, i>> \in debts
    <3> SUFFICES ASSUME <<h, i>> \notin debts PROVE FALSE
      OBVIOUS
    <3>0. h \in due[i]
      BY <1>2, <1>11
    <3>1. Fits(due[i], num, debts, last[i], h)
      <4>1. h \in Counted(due[i], next)
        BY <3>0 DEF Counted
      <4> QED BY <1>5, <1>16, <4>1 DEF AllCalm, Calm
    <3>2. \A z \in due[i] : ~ (z < h)
      BY <1>2, <1>5
    <3>3. last[i] = 0 \/ num[h] <= last[i] + 1
      BY <3>1, <3>2 DEF Fits
    <3>4. last[i] \in Nat /\ num[h] \in Nat
      <4>1. last[i] \in 0..MaxPackets
        BY DEF StreamInv, TypeOK
      <4>2. num[h] \in Nat
        BY <1>2, <1>5
      <4>3. last[i] \in Nat
        BY <4>1
      <4> QED BY <4>2, <4>3
    <3>5. Expected(i, num[h]) < num[h]
      BY <1>2
    <3> QED BY <3>3, <3>4, <3>5 DEF Expected
  <2>2. Levels(h, i) \subseteq debts
    <3>1. ASSUME NEW j \in i..Hops PROVE <<h, j>> \in debts
      <4>1. j \in Relays /\ (j = i \/ i < j)
        BY <1>11 DEF Relays
      <4>2. \A d \in debts : \A k \in Relays : 0 < d[2] /\ d[2] < k => <<d[1], k>> \in debts
        BY <1>5 DEF Owed
      <4>3. <<h, i>>[1] = h /\ <<h, i>>[2] = i
        OBVIOUS
      <4> QED BY <1>11, <2>1, <4>1, <4>2, <4>3
    <3> QED BY <3>1 DEF Levels
  <2>3. h \in due[i]
    BY <1>2, <1>11
  <2>0. PICK w \in Nat : IsWholeAfter(due, debts, next, i, h, w)
    BY <2>3, WholeAfter
  <2>4. /\ h < w /\ w <= next /\ <<w, 0>> \notin debts
        /\ \A j \in Relays : i <= j =>
             \A z \in Counted(due[j], next) :
               (w <= z \/ z <= h \/ <<z, 0>> \in debts) /\ (z <= w \/ w \in due[j])
    BY <2>0 DEF IsWholeAfter
  <2> DEFINE debts2 == Inherit(debts, h, w, i)
  <2>5. IsFiniteSet(debts2) /\ Cardinality(debts2) <= Cardinality(debts) - 1
    BY <1>5, <2>2, DebtsInherited
  <2>6. debts2 \subseteq Nat \X (0..Hops)
    <3>1. Levels(w, i + 1) \subseteq Nat \X (0..Hops)
      BY <1>11 DEF Levels
    <3> QED BY <1>5, <3>1 DEF Inherit
  <2>7. \A j \in Relays : i < j => <<w, j>> \in debts2
    <3>1. \A j \in Relays : i < j => j \in (i + 1)..Hops
      BY <1>11 DEF Relays
    <3> QED BY <3>1 DEF Inherit, Levels
  <2>8. \A d \in Levels(w, i + 1) : d[1] = w /\ d[2] \in Nat /\ i < d[2] /\ d[2] # 0
    BY <1>11 DEF Levels
  <2>9. Owed(debts2, next)
    <3>1. \A d \in debts2 : (d \in debts /\ d[1] # h) \/ d \in Levels(w, i + 1)
      BY DEF Inherit
    <3>2. ASSUME NEW d \in debts2, NEW j \in Relays, 0 < d[2], d[2] < j
                 PROVE <<d[1], j>> \in debts2
      <4>1. CASE d \in debts /\ d[1] # h
        <5>1. <<d[1], j>> \in debts
          BY <1>5, <3>2, <4>1 DEF Owed
        <5> QED BY <4>1, <5>1 DEF Inherit
      <4>2. CASE d \in Levels(w, i + 1)
        <5>1. d[1] = w /\ i < j
          BY <1>11, <2>8, <3>2, <4>2
        <5> QED BY <2>7, <5>1
      <4> QED BY <3>1, <4>1, <4>2
    <3>3. \A d \in debts2 : d[1] <= next
      BY <1>5, <2>4, <2>8, <3>1 DEF Owed
    <3>4. <<next, 0>> \notin debts2
      <4>1. <<next, 0>> \notin Levels(w, i + 1)
        BY <1>11 DEF Levels
      <4> QED BY <1>5, <3>1, <4>1 DEF Owed
    <3> QED BY <3>2, <3>3, <3>4 DEF Owed
  <2>10. \A e : e # h => /\ <<e, 0>> \in debts2 => <<e, 0>> \in debts
                         /\ \A j \in Relays : <<e, j>> \in debts => <<e, j>> \in debts2
                         /\ <<e, 0>> \in debts => <<e, 0>> \in debts2
    <3>1. \A e : <<e, 0>> \notin Levels(w, i + 1)
      BY <1>11 DEF Levels
    <3> QED BY <3>1 DEF Inherit
  <2> HIDE DEF debts2
  <2>11. ASSUME NEW j \in Relays, i < j
         PROVE  Calm(j, due[j] \ {h}, num, debts2, last[j], Counted(due[j] \ {h}, next))
    <3>1. i <= j /\ <<w, j>> \in debts2
      BY <1>11, <2>7, <2>11
    <3>2. \A z \in Counted(due[j], next) :
            (w <= z \/ z <= h \/ <<z, 0>> \in debts) /\ (z <= w \/ w \in due[j])
      BY <2>4, <3>1
    <3> QED BY <2>3, <2>4, <2>10, <3>1, <3>2, CalmBehind
  <2> QED BY <1>14, <2>5, <2>6, <2>9, <2>10, <2>11
<1> QED BY <1>15, <1>16

\* The network loses a packet: the whole one behind it may be dropped by each relay
\* that it has yet to pass.
LEMMA LoseKeepsLedger ==
  ASSUME StreamInv, NEW ids, NEW num, NEW due, NEW debts, NEW next,
         Ledger(ids, num, due, debts, next),
         NEW i \in Relays, Lose(i)
  PROVE  SomeLedger'
<1> DEFINE h == ids[i][1]
           ids2 == [ids EXCEPT ![i] = Tail(@)]
           due2 == [j \in Relays |-> due[j] \ {h}]
<1>1. link[i] # <<>>
  BY DEF Lose
<1>2. /\ h \in Nat /\ h < next
      /\ \A j \in Relays : h \in due[j] <=> i <= j
  BY <1>1, HeadIsFirst
<1>3. /\ LinkShortened(i) /\ last' = last
      /\ allowance' = allowance + Behind(i)
      /\ number' = number /\ interested' = interested
  BY DEF Lose, serverVars, LinkShortened
<1>4. Lined(ids2, num, due2, next)'
  BY <1>1, <1>3, RemovedLined
<1>5. /\ ids \in [Relays -> Seq(Nat)] /\ num \in [Nat -> Nat] /\ due \in [Relays -> SUBSET Nat]
      /\ debts \subseteq Nat \X (0..Hops) /\ IsFiniteSet(debts) /\ next \in Nat
      /\ Owed(debts, next) /\ NextNumber(num, next) /\ AllCalm(num, due, debts, next)
      /\ Cardinality(debts) <= allowance
  BY DEF Ledger
<1>6. ids2 \in [Relays -> Seq(Nat)] /\ due2 \in [Relays -> SUBSET Nat]
  <2>1. \A j \in Relays : ids[j] \in Seq(Nat)
    BY <1>5
  <2>2. ids[i] # <<>>
    <3>1. Len(ids[i]) = Len(link[i]) /\ link[i] \in Seq(1..MaxPackets)
      BY DEF StreamInv, TypeOK, Ledger, Lined, Carried
    <3> QED BY <1>1, <3>1, EmptySeq
  <2>3. Tail(ids[i]) \in Seq(Nat)
    BY <2>1, <2>2, TailIs
  <2> HIDE DEF h
  <2> QED BY <1>5, <2>3
<1>7. \A j \in Relays : due2[j] = due[j] \ {h}
  OBVIOUS
<1>9. \A D : Counted(D, next)' = Counted(D, next)
  BY <1>3 DEF Counted, Subscribed
<1>10. NextNumber(num, next)'
  BY <1>3, <1>5 DEF NextNumber, Subscribed
<1>11. i \in Nat /\ i >= 1 /\ Relays \subseteq Nat
  BY RelaysAre
<1>12. \A j \in Relays : j < i => h \notin due[j]
  <2>1. \A j \in Relays : h \in due[j] => i <= j
    BY <1>2
  <2> HIDE DEF h
  <2> QED BY <1>11, <2>1
<1>13. h \in due[i]
  BY <1>2, <1>11
<1> HIDE DEF ids2, due2, h
<1>14. PICK w \in Nat : IsWholeAfter(due, debts, next, i, h, w)
  BY <1>13, WholeAfter
<1>15. /\ h < w /\ w <= next /\ <<w, 0>> \notin debts
       /\ \A j \in Relays : i <= j =>
            \A z \in Counted(due[j], next) :
              (w <= z \/ z <= h \/ <<z, 0>> \in debts) /\ (z <= w \/ w \in due[j])
  BY <1>14 DEF IsWholeAfter
<1> DEFINE debts2 == debts \cup Levels(w, i)
<1>16. IsFiniteSet(debts2) /\ Cardinality(debts2) <= Cardinality(debts) + Behind(i)
  <2>1. i \in 1..(Hops + 1)
    BY StreamAssumption DEF Relays
  <2> QED BY <1>5, <2>1, DebtsAdded
<1>17. debts2 \subseteq Nat \X (0..Hops)
  <2>1. Levels(w, i) \subseteq Nat \X (0..Hops)
    BY <1>11 DEF Levels
  <2> QED BY <1>5, <2>1
<1>18. \A j \in Relays : i <= j => <<w, j>> \in debts2
  <2>1. \A j \in Relays : i <= j => j \in i..Hops
    BY <1>11 DEF Relays
  <2> QED BY <2>1 DEF Levels
<1>19. \A d \in Levels(w, i) : d[1] = w /\ d[2] \in Nat /\ i <= d[2] /\ d[2] # 0
  BY <1>11 DEF Levels
<1>20. \A e : <<e, 0>> \notin Levels(w, i)
  BY <1>11 DEF Levels
<1>21. Owed(debts2, next)
  <2>1. ASSUME NEW d \in debts2, NEW j \in Relays, 0 < d[2], d[2] < j
               PROVE <<d[1], j>> \in debts2
    <3>1. CASE d \in debts
      <4>1. <<d[1], j>> \in debts
        <5>1. Owed(debts, next)
          BY <1>5
        <5> QED BY <2>1, <3>1, <5>1 DEF Owed
      <4> QED BY <4>1
    <3>2. CASE d \in Levels(w, i)
      <4>1. d[1] = w /\ i <= j
        BY <1>11, <1>19, <2>1, <3>2
      <4> QED BY <1>18, <4>1
    <3> QED BY <3>1, <3>2
  <2>2. \A d \in debts2 : d[1] <= next
    BY <1>5, <1>15, <1>19 DEF Owed
  <2>3. <<next, 0>> \notin debts2
    BY <1>5, <1>20 DEF Owed
  <2> QED BY <2>1, <2>2, <2>3 DEF Owed
<1>22. \A e : e # h => /\ <<e, 0>> \in debts2 => <<e, 0>> \in debts
                       /\ \A j \in Relays : <<e, j>> \in debts => <<e, j>> \in debts2
                       /\ <<e, 0>> \in debts => <<e, 0>> \in debts2
  BY <1>20
<1> HIDE DEF debts2
<1>23. ASSUME NEW j \in Relays
       PROVE  Calm(j, due2[j], num, debts2, last'[j], Counted(due2[j], next))
  <2>1. CASE j < i
    <3>1. h # next /\ h \notin due[j]
      BY <1>2, <1>5, <1>12, <2>1
    <3>2. Calm(j, due[j] \ {h}, num, debts2, last[j], Counted(due[j] \ {h}, next))
      BY <1>22, <3>1, CalmBefore
    <3> QED BY <1>3, <1>7, <3>2
  <2>2. CASE i <= j
    <3>1. <<w, j>> \in debts2
      BY <1>18, <2>2
    <3>2. \A z \in Counted(due[j], next) :
            (w <= z \/ z <= h \/ <<z, 0>> \in debts) /\ (z <= w \/ w \in due[j])
      BY <1>15, <2>2
    <3>3. Calm(j, due[j] \ {h}, num, debts2, last[j], Counted(due[j] \ {h}, next))
      BY <1>13, <1>15, <1>22, <2>2, <3>1, <3>2, CalmBehind
    <3> QED BY <1>3, <1>7, <3>3
  <2> QED BY <1>11, <2>1, <2>2
<1>24. AllCalm(num, due2, debts2, next)'
  BY <1>9, <1>23 DEF AllCalm
<1>25. Cardinality(debts2) <= allowance'
  <2>1. Cardinality(debts2) \in Nat /\ Cardinality(debts) \in Nat /\ allowance \in Int
    BY <1>5, <1>16, FS_CardinalityType DEF StreamInv, TypeOK
  <2>2. Behind(i) \in Nat
    BY StreamAssumption DEF Behind, Relays
  <2>3. Cardinality(debts) <= allowance /\ allowance' = allowance + Behind(i)
    BY <1>3, <1>5
  <2> QED BY <1>16, <2>1, <2>2, <2>3
<1>26. Ledger(ids2, num, due2, debts2, next)'
  BY <1>4, <1>5, <1>6, <1>10, <1>16, <1>17, <1>21, <1>24, <1>25 DEF Ledger
<1> QED BY <1>26 DEF SomeLedger

----
(* A packet overtakes another.                                                *)

\* How the debts are reckoned when s overtakes h: either becomes a stray, unless
\* one was. If the number of h is far ahead h owes, else what is behind both.
Reckoned(num, due, debts, next, i, h, s, x, extra) ==
  \/ /\ <<h, 0>> \notin debts /\ <<s, 0>> \notin debts /\ num[h] <= num[s] + 1
     /\ IsWholeAfter(due, debts, next, i, s, x) /\ extra = {<<h, 0>>}
  \/ /\ <<h, 0>> \notin debts /\ <<s, 0>> \notin debts /\ num[h] > num[s] + 1
     /\ x = h /\ extra = {<<s, 0>>}
  \/ /\ <<h, 0>> \in debts /\ <<s, 0>> \notin debts
     /\ IsWholeAfter(due, debts, next, i, s, x) /\ extra = {}
  \/ <<s, 0>> \in debts /\ x = s /\ extra = {}

\* Reckoned so, each relay that has yet to see the two is calm.
LEMMA OvertakenCalm ==
  ASSUME NEW ids, NEW num, NEW due, NEW debts, NEW next,
         Ledger(ids, num, due, debts, next),
         NEW i \in Relays, NEW j \in Relays, i <= j,
         NEW h \in due[j], NEW s \in due[j], h < s,
         \A z \in Counted(due[j], next) : z <= h \/ s <= z,
         NEW x \in Nat, NEW extra, Reckoned(num, due, debts, next, i, h, s, x, extra)
  PROVE  Calm(j, due[j], [num EXCEPT ![h] = num[s], ![s] = num[h]],
              Overtaken(debts, h, s, x, i, extra), last[j], Counted(due[j], next))
<1> DEFINE D == due[j]
           Y == Counted(due[j], next)
           num2 == [num EXCEPT ![h] = num[s], ![s] = num[h]]
           debts2 == Overtaken(debts, h, s, x, i, extra)
           base == last[j]
<1>1. next \in Nat /\ D \in SUBSET Nat /\ num \in [Nat -> Nat]
  BY DEF Ledger
<1>2. Calm(j, D, num, debts, base, Y)
  BY DEF Ledger, AllCalm
<1>3. D \subseteq Y /\ Y \in SUBSET Nat
  BY <1>1 DEF Counted
<1>4. h \in Nat /\ s \in Nat /\ h # s
  BY <1>1
<1>5. num2[h] = num[s] /\ num2[s] = num[h] /\ \A e \in Y \ {h, s} : num2[e] = num[e]
  BY <1>1, <1>3, <1>4
<1>6. i \in Nat /\ j \in Nat /\ i >= 1 /\ j >= 1 /\ j \in i..Hops
  BY RelaysAre DEF Relays
<1>7. debts \subseteq Nat \X (0..Hops)
  BY DEF Ledger
<1>8. Other(h, s, h) = s /\ Other(h, s, s) = h /\ \A e : e # h /\ e # s => Other(h, s, e) = e
  BY DEF Other
<1>9. extra = {} \/ extra = {<<h, 0>>} \/ extra = {<<s, 0>>}
  BY DEF Reckoned
<1>10. \A e : <<e, 0>> \in debts2 <=> <<Other(h, s, e), 0>> \in debts \/ <<e, 0>> \in extra
  <2> SUFFICES ASSUME NEW e
               PROVE  <<e, 0>> \in debts2 <=> <<Other(h, s, e), 0>> \in debts \/ <<e, 0>> \in extra
    OBVIOUS
  <2>1. <<e, 0>> \notin Levels(x, i)
    BY <1>6 DEF Levels
  <2>2. <<e, 0>> \in Swap(debts, h, s) <=> <<Other(h, s, e), 0>> \in debts
    BY <1>7, SwapHas
  <2> QED BY <2>1, <2>2 DEF Overtaken
<1>11. \A e : <<e, j>> \in debts2 <=> <<Other(h, s, e), j>> \in debts \/ e = x
  <2> SUFFICES ASSUME NEW e
               PROVE  <<e, j>> \in debts2 <=> <<Other(h, s, e), j>> \in debts \/ e = x
    OBVIOUS
  <2>1. <<e, j>> \in Levels(x, i) <=> e = x
    BY <1>6 DEF Levels
  <2>2. <<e, j>> \in Swap(debts, h, s) <=> <<Other(h, s, e), j>> \in debts
    BY <1>7, SwapHas
  <2>3. <<e, j>> \notin extra
    BY <1>6, <1>9
  <2> QED BY <2>1, <2>2, <2>3 DEF Overtaken
<1> HIDE DEF D, Y, num2, debts2, base
<1>12. \A e \in Y \ {h, s} : <<e, 0>> \in debts2 => <<e, 0>> \in debts
  BY <1>8, <1>9, <1>10
<1>13. \A y \in Y \ {h, s} : <<y, 0>> \notin debts2 /\ <<y, j>> \notin debts2 =>
         <<y, 0>> \notin debts /\ <<y, j>> \notin debts
  BY <1>8, <1>10, <1>11
<1>14. ASSUME IsWholeAfter(due, debts, next, i, s, x), extra \in {{}, {<<h, 0>>}}
       PROVE  \E w \in Nat : /\ s < w /\ <<w, 0>> \notin debts2 /\ <<w, j>> \in debts2
                             /\ \A z \in Y : w <= z \/ z <= s \/ <<z, 0>> \in debts
                             /\ \A y \in Y : y <= w \/ w \in D
  <2>1. s < x /\ <<x, 0>> \notin debts
    BY <1>14 DEF IsWholeAfter
  <2>2. x # h /\ x # s
    BY <1>4, <1>14, <2>1
  <2>3. <<x, 0>> \notin debts2
    BY <1>8, <1>10, <1>14, <2>1, <2>2
  <2>4. <<x, j>> \in debts2
    BY <1>11
  <2>5. \A z \in Y : (x <= z \/ z <= s \/ <<z, 0>> \in debts) /\ (z <= x \/ x \in D)
    BY <1>14 DEF IsWholeAfter, Y, D
  <2> QED BY <1>14, <2>1, <2>3, <2>4, <2>5
<1>15. Explained(j, D, Y, num, debts, debts2, h, s)
  <2> DEFINE P == \E w \in Nat : /\ s < w /\ <<w, 0>> \notin debts2 /\ <<w, j>> \in debts2
                                 /\ \A z \in Y : w <= z \/ z <= s \/ <<z, 0>> \in debts
                                 /\ \A y \in Y : y <= w \/ w \in D
  <2>0. /\ <<h, 0>> \in debts2 <=> <<s, 0>> \in debts \/ <<h, 0>> \in extra
        /\ <<s, 0>> \in debts2 <=> <<h, 0>> \in debts \/ <<s, 0>> \in extra
        /\ <<h, j>> \in debts2 <=> <<s, j>> \in debts \/ h = x
        /\ <<s, j>> \in debts2 <=> <<h, j>> \in debts \/ s = x
    BY <1>8, <1>10, <1>11
  <2>1. CASE /\ <<h, 0>> \notin debts /\ <<s, 0>> \notin debts /\ num[h] <= num[s] + 1
             /\ IsWholeAfter(due, debts, next, i, s, x) /\ extra = {<<h, 0>>}
    <3>1. P
      <4>1. extra \in {{}, {<<h, 0>>}}
        BY <2>1
      <4> QED BY <1>14, <2>1, <4>1
    <3>2. <<h, 0>> \in debts2
      BY <2>0, <2>1
    <3> QED BY <2>0, <2>1, <3>1, <3>2 DEF Explained
  <2>2. CASE /\ <<h, 0>> \notin debts /\ <<s, 0>> \notin debts /\ num[h] > num[s] + 1
             /\ x = h /\ extra = {<<s, 0>>}
    <3>1. <<s, 0>> \in extra /\ <<h, 0>> \notin extra
      BY <1>4, <2>2
    <3> QED BY <2>0, <2>2, <3>1 DEF Explained
  <2>3. CASE /\ <<h, 0>> \in debts /\ <<s, 0>> \notin debts
             /\ IsWholeAfter(due, debts, next, i, s, x) /\ extra = {}
    <3>1. P
      <4>1. extra \in {{}, {<<h, 0>>}}
        BY <2>3
      <4> QED BY <1>14, <2>3, <4>1
    <3> QED BY <2>0, <2>3, <3>1 DEF Explained
  <2>4. CASE <<s, 0>> \in debts /\ x = s /\ extra = {}
    <3> QED BY <2>0, <2>4 DEF Explained
  <2> QED BY <2>1, <2>2, <2>3, <2>4 DEF Reckoned
<1>16. h \in D /\ s \in D
  BY DEF D
<1>17. \A z \in Y : z <= h \/ s <= z
  BY DEF Y
<1>18. Calm(j, D, num2, debts2, base, Y)
  BY <1>1, <1>2, <1>3, <1>5, <1>12, <1>13, <1>15, <1>16, <1>17, CalmSwapped
<1> QED BY <1>18 DEF D, Y, num2, debts2, base

\* There is a way to reckon the debts.
Reckonable(num, due, debts, next, i, h, s) ==
  \E x \in Nat, extra \in {{}, {<<h, 0>>}, {<<s, 0>>}} :
    x <= next /\ Reckoned(num, due, debts, next, i, h, s, x, extra)

\* Whichever of the two is a stray, and whatever their numbers, there is one.
LEMMA SomeReckoning ==
  ASSUME NEW ids, NEW num, NEW due, NEW debts, NEW next,
         Ledger(ids, num, due, debts, next),
         NEW i \in Relays, NEW h \in Nat, NEW s \in due[i], h < next, s \in Nat, s < next
  PROVE  Reckonable(num, due, debts, next, i, h, s)
<1>1. PICK w \in Nat : IsWholeAfter(due, debts, next, i, s, w)
  BY WholeAfter
<1>2. w <= next
  BY <1>1 DEF IsWholeAfter
<1>3. num[h] \in Nat /\ num[s] \in Nat /\ next \in Nat
  BY DEF Ledger
<1>4. num[h] <= num[s] + 1 \/ num[h] > num[s] + 1
  BY <1>3
<1>5. h <= next /\ s <= next
  BY <1>3
<1>6. ASSUME NEW x \in Nat, NEW extra \in {{}, {<<h, 0>>}, {<<s, 0>>}}, x <= next,
             Reckoned(num, due, debts, next, i, h, s, x, extra)
      PROVE  Reckonable(num, due, debts, next, i, h, s)
  BY <1>6 DEF Reckonable
<1>7. CASE <<s, 0>> \in debts
  <2>1. Reckoned(num, due, debts, next, i, h, s, s, {})
    BY <1>7 DEF Reckoned
  <2> QED BY <1>5, <1>6, <2>1
<1>8. CASE <<h, 0>> \in debts /\ <<s, 0>> \notin debts
  <2>1. Reckoned(num, due, debts, next, i, h, s, w, {})
    BY <1>1, <1>8 DEF Reckoned
  <2> QED BY <1>2, <1>6, <2>1
<1>9. CASE <<h, 0>> \notin debts /\ <<s, 0>> \notin debts /\ num[h] <= num[s] + 1
  <2>1. Reckoned(num, due, debts, next, i, h, s, w, {<<h, 0>>})
    BY <1>1, <1>9 DEF Reckoned
  <2> QED BY <1>2, <1>6, <2>1
<1>10. CASE <<h, 0>> \notin debts /\ <<s, 0>> \notin debts /\ num[h] > num[s] + 1
  <2>1. Reckoned(num, due, debts, next, i, h, s, h, {<<s, 0>>})
    BY <1>10 DEF Reckoned
  <2> QED BY <1>5, <1>6, <2>1
<1> QED BY <1>4, <1>7, <1>8, <1>9, <1>10

\* The network delivers the second packet of a link first.
LEMMA OvertakeKeepsLedger ==
  ASSUME StreamInv, NEW ids, NEW num, NEW due, NEW debts, NEW next,
         Ledger(ids, num, due, debts, next),
         NEW i \in Relays, Overtake(i)
  PROVE  SomeLedger'
<1> DEFINE h == ids[i][1]
           s == ids[i][2]
           num2 == [num EXCEPT ![h] = num[s], ![s] = num[h]]
<1>1. Len(link[i]) > 1
  BY DEF Overtake
<1>2. /\ h \in Nat /\ s \in Nat /\ h < s /\ s < next
      /\ \A j \in Relays : i <= j => h \in due[j] /\ s \in due[j]
      /\ \A j \in Relays : j < i => h \notin due[j] /\ s \notin due[j]
      /\ \A j \in Relays : i <= j => \A z \in Counted(due[j], next) : z <= h \/ s <= z
  <2>1. AreNeighbours(due, next, i, h, s)
    BY <1>1, SecondIsNext
  <2> QED BY <2>1 DEF AreNeighbours
<1>3. /\ LinkSwapped(i) /\ last' = last
      /\ allowance' = allowance + Behind(i) + 1
      /\ number' = number /\ interested' = interested
  BY DEF Overtake, serverVars, LinkSwapped
<1>4. Lined(ids, num2, due, next)'
  BY <1>1, <1>3, SwappedLined
<1>5. /\ ids \in [Relays -> Seq(Nat)] /\ num \in [Nat -> Nat] /\ due \in [Relays -> SUBSET Nat]
      /\ debts \subseteq Nat \X (0..Hops) /\ IsFiniteSet(debts) /\ next \in Nat
      /\ Owed(debts, next) /\ NextNumber(num, next) /\ AllCalm(num, due, debts, next)
      /\ Cardinality(debts) <= allowance
  BY DEF Ledger
<1>6. \A D : Counted(D, next)' = Counted(D, next)
  BY <1>3 DEF Counted, Subscribed
<1>7. i \in Nat /\ Relays \subseteq Nat
  BY RelaysAre
<1>8. num2 \in [Nat -> Nat] /\ \A e \in Nat : e # h /\ e # s => num2[e] = num[e]
  BY <1>2, <1>5
<1> HIDE DEF h, s, num2
<1>9. next # h /\ next # s /\ h < next
  <2>1. h \in Nat /\ s \in Nat /\ h < s /\ s < next
    BY <1>2
  <2>2. next \in Nat
    BY DEF Ledger
  <2> QED BY <2>1, <2>2
<1>10. NextNumber(num2, next)'
  BY <1>3, <1>5, <1>8, <1>9 DEF NextNumber, Subscribed
<1>11. s \in due[i]
  BY <1>2, <1>7
<1>12. PICK x \in Nat, extra \in {{}, {<<h, 0>>}, {<<s, 0>>}} :
         x <= next /\ Reckoned(num, due, debts, next, i, h, s, x, extra)
  <2>1. Reckonable(num, due, debts, next, i, h, s)
    BY <1>2, <1>9, <1>11, SomeReckoning
  <2> QED BY <2>1 DEF Reckonable
<1>13. PICK debts2 : debts2 = Overtaken(debts, h, s, x, i, extra)
  OBVIOUS
<1>14. /\ debts2 \subseteq Nat \X (0..Hops) /\ IsFiniteSet(debts2) /\ Owed(debts2, next)
       /\ Cardinality(debts2) <= Cardinality(debts) + Behind(i) + 1
  BY <1>2, <1>5, <1>9, <1>12, <1>13, DebtsOvertaken
<1>15. ASSUME NEW j \in Relays
       PROVE  Calm(j, due[j], num2, debts2, last[j], Counted(due[j], next))
  <2>1. CASE i <= j
    <3>1. h \in due[j] /\ s \in due[j] /\ \A z \in Counted(due[j], next) : z <= h \/ s <= z
      BY <1>2, <2>1
    <3>2. Calm(j, due[j], [num EXCEPT ![h] = num[s], ![s] = num[h]],
               Overtaken(debts, h, s, x, i, extra), last[j], Counted(due[j], next))
      BY <1>2, <1>12, <2>1, <3>1, OvertakenCalm
    <3> QED BY <1>13, <3>2 DEF num2
  <2>2. CASE j < i
    <3>1. h \notin due[j] /\ s \notin due[j]
      BY <1>2, <2>2
    <3> DEFINE D == due[j]
               Y == Counted(due[j], next)
    <3>2. D \in SUBSET Nat /\ Calm(j, D, num, debts, last[j], Y)
      BY <1>5 DEF AllCalm
    <3>3. \A e \in D \cup Y : e \in Nat /\ e # h /\ e # s
      BY <1>5, <1>9, <3>1 DEF Counted
    <3>4. \A e : e # h /\ e # s => /\ <<e, 0>> \in debts2 <=> <<e, 0>> \in debts
                                   /\ <<e, j>> \in debts => <<e, j>> \in debts2
      <4> SUFFICES ASSUME NEW e, e # h, e # s
                   PROVE  /\ <<e, 0>> \in debts2 <=> <<e, 0>> \in debts
                          /\ <<e, j>> \in debts => <<e, j>> \in debts2
        OBVIOUS
      <4>1. Other(h, s, e) = e
        BY DEF Other
      <4>2. \A k : <<e, k>> \in Swap(debts, h, s) <=> <<e, k>> \in debts
        <5>1. debts \subseteq Nat \X (0..Hops)
          BY <1>5
        <5> QED BY <4>1, <5>1, SwapHas
      <4>3. <<e, 0>> \notin Levels(x, i)
        <5>1. i >= 1
          BY RelaysAre
        <5> QED BY <1>7, <5>1 DEF Levels
      <4>4. <<e, 0>> \notin extra
        BY <1>12
      <4> QED BY <1>13, <4>2, <4>3, <4>4 DEF Overtaken
    <3>5. /\ \A e \in D : num2[e] = num[e] /\ (<<e, 0>> \in debts2 => <<e, 0>> \in debts)
          /\ \A e \in D \ D : <<e, 0>> \in debts
          /\ \A y \in Y : <<y, 0>> \notin debts2 /\ <<y, j>> \notin debts2 =>
               y \in Y /\ num2[y] = num[y] /\ <<y, 0>> \notin debts /\ <<y, j>> \notin debts
      BY <1>8, <3>3, <3>4
    <3> HIDE DEF D, Y
    <3>6. Calm(j, D, num2, debts2, last[j], Y)
      <4>1. D \in SUBSET D
        OBVIOUS
      <4> QED BY <3>2, <3>5, <4>1, CalmKept
    <3> QED BY <3>6 DEF D, Y
  <2> QED BY <1>7, <2>1, <2>2
<1>16. AllCalm(num2, due, debts2, next)'
  BY <1>3, <1>6, <1>15 DEF AllCalm
<1>17. Cardinality(debts2) <= allowance'
  <2>1. Cardinality(debts2) \in Nat /\ Cardinality(debts) \in Nat /\ allowance \in Int
    BY <1>5, <1>14, FS_CardinalityType DEF StreamInv, TypeOK
  <2>2. Behind(i) \in Nat
    BY StreamAssumption DEF Behind, Relays
  <2>3. Cardinality(debts) <= allowance /\ allowance' = allowance + Behind(i) + 1
    BY <1>3, <1>5
  <2> QED BY <1>14, <2>1, <2>2, <2>3
<1>18. Ledger(ids, num2, due, debts2, next)'
  BY <1>4, <1>5, <1>8, <1>10, <1>14, <1>16, <1>17 DEF Ledger
<1> QED BY <1>18 DEF SomeLedger

----
(* The server, and the packet to come.                                        *)

\* A step that leaves the line alone and subscribes nobody: an entry of the server
\* that is replaced or removed, a StopVideo, the sends to other nodes.
LEMMA AsideKeepsLedger ==
  ASSUME StreamInv, NEW ids, NEW num, NEW due, NEW debts, NEW next,
         Ledger(ids, num, due, debts, next),
         link' = link, last' = last, allowance' = allowance,
         First \in interested'[Video] => First \in interested[Video]
           /\ number'[Video] = number[Video]
  PROVE  SomeLedger'
<1>1. /\ ids \in [Relays -> Seq(Nat)] /\ num \in [Nat -> Nat] /\ due \in [Relays -> SUBSET Nat]
      /\ debts \subseteq Nat \X (0..Hops) /\ IsFiniteSet(debts) /\ next \in Nat
      /\ Owed(debts, next) /\ NextNumber(num, next) /\ AllCalm(num, due, debts, next)
      /\ Cardinality(debts) <= allowance /\ Lined(ids, num, due, next)
  BY DEF Ledger
<1>2. Lined(ids, num, due, next)'
  BY <1>1, LinedKept
<1>3. NextNumber(num, next)'
  BY <1>1 DEF NextNumber, Subscribed
<1>4. \A D : Counted(D, next)' \subseteq Counted(D, next)
  BY DEF Counted, Subscribed
<1>5. AllCalm(num, due, debts, next)'
  BY <1>1, <1>4 DEF AllCalm, Calm
<1>6. Ledger(ids, num, due, debts, next)'
  BY <1>1, <1>2, <1>3, <1>5 DEF Ledger
<1> QED BY <1>6 DEF SomeLedger

\* The next packet may come with any number, if each relay may drop it: a send that
\* failed, or a first relay that comes back to a stream it knows.
LEMMA JumpKeepsLedger ==
  ASSUME StreamInv, NEW ids, NEW num, NEW due, NEW debts, NEW next,
         Ledger(ids, num, due, debts, next),
         link' = link, last' = last, allowance' = allowance + Hops, number'[Video] \in Nat
  PROVE  SomeLedger'
<1>0. PICK k \in Nat : k = number'[Video]
  OBVIOUS
<1> DEFINE num2 == [num EXCEPT ![next] = k + 1]
           debts2 == debts \cup Levels(next, 1)
<1>1. /\ ids \in [Relays -> Seq(Nat)] /\ num \in [Nat -> Nat] /\ due \in [Relays -> SUBSET Nat]
      /\ debts \subseteq Nat \X (0..Hops) /\ IsFiniteSet(debts) /\ next \in Nat
      /\ Owed(debts, next) /\ AllCalm(num, due, debts, next)
      /\ Cardinality(debts) <= allowance /\ Lined(ids, num, due, next)
  BY DEF Ledger
<1>2. num2 \in [Nat -> Nat] /\ num2[next] = k + 1 /\ \A e \in Nat : e # next => num2[e] = num[e]
  <2>1. num \in [Nat -> Nat] /\ next \in Nat
    BY DEF Ledger
  <2>2. k + 1 \in Nat
    OBVIOUS
  <2> QED BY <2>1, <2>2, Renumbered
<1> HIDE DEF num2
<1>3. Lined(ids, num2, due, next)'
  <2>1. \A e \in Nat : e < next => num2[e] = num[e]
    BY <1>1, <1>2
  <2> QED BY <1>1, <2>1, LinedKept
<1>4. NextNumber(num2, next)'
  BY <1>0, <1>2 DEF NextNumber
<1>5. IsFiniteSet(debts2) /\ Cardinality(debts2) <= Cardinality(debts) + Hops
  <2>1. 1 \in 1..(Hops + 1) /\ Behind(1) = Hops
    BY StreamAssumption DEF Behind
  <2>2. IsFiniteSet(debts2) /\ Cardinality(debts2) <= Cardinality(debts) + Behind(1)
    BY <1>1, <2>1, DebtsAdded
  <2> QED BY <2>1, <2>2
<1>6. debts2 \subseteq Nat \X (0..Hops)
  <2>1. Levels(next, 1) \subseteq Nat \X (0..Hops)
    <3>1. next \in Nat
      BY <1>1
    <3> QED BY <3>1, StreamAssumption DEF Levels
  <2> QED BY <1>1, <2>1
<1>7. \A e : <<e, 0>> \notin Levels(next, 1)
  BY DEF Levels
<1>8. \A j \in Relays : <<next, j>> \in debts2
  BY DEF Levels, Relays
<1>9. \A d \in Levels(next, 1) : d[1] = next
  BY DEF Levels
<1>10. Owed(debts2, next)
  <2>1. ASSUME NEW d \in debts2, NEW j \in Relays, 0 < d[2], d[2] < j
               PROVE <<d[1], j>> \in debts2
    <3>1. CASE d \in debts
      <4>1. Owed(debts, next)
        BY <1>1
      <4> QED BY <2>1, <3>1, <4>1 DEF Owed
    <3>2. CASE d \in Levels(next, 1)
      BY <1>8, <1>9, <3>2
    <3> QED BY <3>1, <3>2
  <2>2. \A d \in debts2 : d[1] <= next
    <3>1. next \in Nat /\ Owed(debts, next)
      BY <1>1
    <3> QED BY <1>9, <3>1 DEF Owed
  <2>3. <<next, 0>> \notin debts2
    BY <1>1, <1>7 DEF Owed
  <2> QED BY <2>1, <2>2, <2>3 DEF Owed
<1>11. \A e : (<<e, 0>> \in debts2 <=> <<e, 0>> \in debts) /\ \A j : <<e, j>> \in debts
         => <<e, j>> \in debts2
  BY <1>7
<1> HIDE DEF debts2
<1>12. ASSUME NEW j \in Relays
       PROVE  Calm(j, due[j], num2, debts2, last[j], Counted(due[j], next)')
  <2> DEFINE D == due[j]
             Y == Counted(due[j], next)
             Z == Counted(due[j], next)'
  <2>1. D \in SUBSET Nat /\ Calm(j, D, num, debts, last[j], Y)
    BY <1>1 DEF AllCalm
  <2>2. \A y \in Z : y = next \/ y \in D
    BY DEF Counted
  <2>3. \A e \in D : e \in Nat /\ e # next
    BY <1>1 DEF Lined, Nested
  <2>4. D \subseteq Y
    BY DEF Counted
  <2> HIDE DEF D, Y, Z
  <2>5. /\ \A e \in D : num2[e] = num[e] /\ (<<e, 0>> \in debts2 => <<e, 0>> \in debts)
        /\ \A e \in D \ D : <<e, 0>> \in debts
        /\ \A y \in Z : <<y, 0>> \notin debts2 /\ <<y, j>> \notin debts2 =>
             y \in Y /\ num2[y] = num[y] /\ <<y, 0>> \notin debts /\ <<y, j>> \notin debts
    BY <1>2, <1>8, <1>11, <2>2, <2>3, <2>4
  <2>6. D \in SUBSET D
    OBVIOUS
  <2>7. Calm(j, D, num2, debts2, last[j], Z)
    BY <2>1, <2>5, <2>6, CalmKept
  <2> QED BY <2>7 DEF D, Z
<1>13. AllCalm(num2, due, debts2, next)'
  BY <1>12 DEF AllCalm
<1>14. Cardinality(debts2) <= allowance'
  <2>1. Cardinality(debts2) \in Nat /\ Cardinality(debts) \in Nat /\ allowance \in Int
          /\ Hops \in Nat
    BY <1>1, <1>5, StreamAssumption, FS_CardinalityType DEF StreamInv, TypeOK
  <2>2. Cardinality(debts) <= allowance /\ allowance' = allowance + Hops
    BY <1>1
  <2> QED BY <1>5, <2>1, <2>2
<1>15. Ledger(ids, num2, due, debts2, next)'
  BY <1>1, <1>2, <1>3, <1>4, <1>5, <1>6, <1>10, <1>13, <1>14 DEF Ledger
<1> QED BY <1>15 DEF SomeLedger

\* No packet was ever on the line.
NothingCame == \A j \in Relays : last[j] = 0 /\ link[j] = <<>>

\* The first packet of a line that no packet was ever on has any number.
LEMMA FirstKeepsLedger ==
  ASSUME StreamInv, NEW ids, NEW num, NEW due, NEW debts, NEW next,
         Ledger(ids, num, due, debts, next),
         link' = link, last' = last, allowance' = allowance, number'[Video] \in Nat, NothingCame
  PROVE  SomeLedger'
<1>0. PICK k \in Nat : k = number'[Video]
  OBVIOUS
<1> DEFINE num2 == [num EXCEPT ![next] = k + 1]
<1>1. /\ ids \in [Relays -> Seq(Nat)] /\ num \in [Nat -> Nat] /\ due \in [Relays -> SUBSET Nat]
      /\ debts \subseteq Nat \X (0..Hops) /\ IsFiniteSet(debts) /\ next \in Nat
      /\ Owed(debts, next)
      /\ Cardinality(debts) <= allowance /\ Lined(ids, num, due, next)
  BY DEF Ledger
<1>2. num2 \in [Nat -> Nat] /\ num2[next] = k + 1 /\ \A e \in Nat : e # next => num2[e] = num[e]
  <2>1. num \in [Nat -> Nat] /\ next \in Nat
    BY DEF Ledger
  <2>2. k + 1 \in Nat
    OBVIOUS
  <2> QED BY <2>1, <2>2, Renumbered
<1> HIDE DEF num2
<1>3. Lined(ids, num2, due, next)'
  <2>1. \A e \in Nat : e < next => num2[e] = num[e]
    BY <1>1, <1>2
  <2> QED BY <1>1, <2>1, LinedKept
<1>4. NextNumber(num2, next)'
  BY <1>0, <1>2 DEF NextNumber
<1>5. \A j \in Relays : due[j] = {}
  <2> SUFFICES ASSUME NEW j \in Relays, NEW e \in due[j] PROVE FALSE
    OBVIOUS
  <2>1. PICK i \in Relays : \E p \in 1..Len(link[i]) : e = ids[i][p]
    BY <1>1 DEF Lined, Placed
  <2>2. Len(link[i]) = 0
    BY LenProperties DEF NothingCame
  <2> QED BY <2>1, <2>2
<1>6. AllCalm(num2, due, debts, next)'
  BY <1>5 DEF AllCalm, Calm, Fits, Follows, NothingCame
<1>7. Ledger(ids, num2, due, debts, next)'
  BY <1>1, <1>2, <1>3, <1>4, <1>6 DEF Ledger
<1> QED BY <1>7 DEF SomeLedger

\* A packet of ffmpeg that is sent to the first relay.
LEMMA SentKeepsLedger ==
  ASSUME StreamInv, NEW ids, NEW num, NEW due, NEW debts, NEW next,
         Ledger(ids, num, due, debts, next),
         First \in interested[Video], interested' = interested,
         number'[Video] = number[Video] + 1, LinkLonger(number'[Video]),
         last' = last, allowance' = allowance
  PROVE  SomeLedger'
<1> DEFINE ids2 == [ids EXCEPT ![1] = Append(@, next)]
           num2 == [num EXCEPT ![next + 1] = num[next] + 1]
           due2 == [j \in Relays |-> due[j] \cup {next}]
<1>1. /\ ids \in [Relays -> Seq(Nat)] /\ num \in [Nat -> Nat] /\ due \in [Relays -> SUBSET Nat]
      /\ debts \subseteq Nat \X (0..Hops) /\ IsFiniteSet(debts) /\ next \in Nat
      /\ Owed(debts, next) /\ NextNumber(num, next) /\ AllCalm(num, due, debts, next)
      /\ Cardinality(debts) <= allowance /\ Lined(ids, num, due, next)
  BY DEF Ledger
<1>2. num[next] = number'[Video]
  BY <1>1 DEF NextNumber, Subscribed
<1>3. num2 \in [Nat -> Nat] /\ num2[next + 1] = num[next] + 1 /\ \A e \in Nat : e # next + 1
        => num2[e] = num[e]
  <2>1. num \in [Nat -> Nat] /\ next \in Nat
    BY DEF Ledger
  <2>2. num[next] \in Nat
    BY <2>1
  <2>3. next + 1 \in Nat /\ num[next] + 1 \in Nat
    BY <2>1, <2>2
  <2> QED BY <2>1, <2>3, Renumbered
<1>4. ids2 \in [Relays -> Seq(Nat)]
  <2>1. 1 \in Relays
    BY RelaysAre
  <2>2. ids[1] \in Seq(Nat) /\ next \in Nat
    BY <1>1, <2>1
  <2>3. Append(ids[1], next) \in Seq(Nat)
    BY <2>2, AppendIs
  <2> QED BY <1>1, <2>3
<1>5. due2 \in [Relays -> SUBSET Nat] /\ \A j \in Relays : due2[j] = due[j] \cup {next}
  BY <1>1
<1>6. Lined(ids2, num2, due2, next + 1)'
  <2>1. SameUpTo(num, num2, next)
    BY <1>1, <1>3 DEF SameUpTo
  <2>2. LinkLonger(num[next])
    BY <1>2
  <2> HIDE DEF num2
  <2> QED BY <2>1, <2>2, SentLined
<1> HIDE DEF ids2, num2, due2
<1>7. NextNumber(num2, next + 1)'
  BY <1>2, <1>3 DEF NextNumber
<1>8. Owed(debts, next + 1)
  <2>1. next \in Nat /\ debts \subseteq Nat \X (0..Hops) /\ Owed(debts, next)
    BY <1>1
  <2>2. \A d \in debts : d[1] <= next + 1 /\ d # <<next + 1, 0>>
    <3> SUFFICES ASSUME NEW d \in debts PROVE d[1] <= next + 1 /\ d # <<next + 1, 0>>
      OBVIOUS
    <3>1. d[1] \in Nat /\ d[1] <= next
      BY <2>1 DEF Owed
    <3> QED BY <2>1, <3>1
  <2> QED BY <2>1, <2>2 DEF Owed
<1>9. ASSUME NEW j \in Relays
      PROVE  Calm(j, due2[j], num2, debts, last[j], Counted(due2[j], next + 1)')
  <2> DEFINE D == due[j]
  <2>1. D \in SUBSET Nat
    BY <1>1
  <2>2. Calm(j, D, num, debts, last[j], D \cup {next})
    BY <1>1 DEF AllCalm, Counted, Subscribed
  <2>3. \A e \in D : e < next
    BY <1>1 DEF Lined, Nested
  <2>4. <<next, 0>> \notin debts
    BY <1>1 DEF Owed
  <2>5. (\A e \in D \cup {next} : num2[e] = num[e]) /\ num2[next + 1] <= num[next] + 1
    <3>1. next \in Nat /\ num[next] \in Nat
      BY <1>1
    <3>2. \A e \in D \cup {next} : e \in Nat /\ e # next + 1
      BY <2>1, <2>3, <3>1
    <3> QED BY <1>3, <3>1, <3>2
  <2>6. Counted(due2[j], next + 1)' = D \cup {next, next + 1}
    BY <1>5 DEF Counted, Subscribed
  <2>7. due2[j] = D \cup {next} /\ next \in Nat
    BY <1>1, <1>5
  <2> HIDE DEF D
  <2>8. Calm(j, D \cup {next}, num2, debts, last[j], D \cup {next, next + 1})
    BY <2>1, <2>2, <2>3, <2>4, <2>5, <2>7, CalmLonger
  <2> QED BY <2>6, <2>7, <2>8
<1>10. AllCalm(num2, due2, debts, next + 1)'
  BY <1>9 DEF AllCalm
<1>11. next + 1 \in Nat
  BY <1>1
<1>12. Ledger(ids2, num2, due2, debts, next + 1)'
  BY <1>1, <1>3, <1>4, <1>5, <1>6, <1>7, <1>8, <1>10, <1>11 DEF Ledger
<1> QED BY <1>12 DEF SomeLedger

----
(* Each step of Next.                                                         *)

\* At first there is nothing on the line, and nothing owed.
LEMMA InitLossInv == Init => LossInv
<1> SUFFICES ASSUME Init PROVE LossInv
  OBVIOUS
<1> DEFINE ids == [i \in Relays |-> <<>>]
           num == [e \in Nat |-> 0]
           due == [i \in Relays |-> {}]
<1>1. Quiet
  BY DEF Init, Quiet
<1>2. ids \in [Relays -> Seq(Nat)] /\ num \in [Nat -> Nat] /\ due \in [Relays -> SUBSET Nat]
  OBVIOUS
<1>3. IsFiniteSet({}) /\ Cardinality({}) <= allowance
  BY FS_EmptySet DEF Init
<1>4. Carried(ids, num, due) /\ Ordered(ids) /\ Passed(ids, due) /\ Placed(ids, due)
        /\ Nested(due, 0) /\ Owed({}, 0)
  BY StreamAssumption DEF Init, Carried, Ordered, Passed, Placed, Nested, Owed, Relays
<1>5. ~ Subscribed
  BY StreamAssumption DEF Init, ServerInit, Subscribed
<1>6. NextNumber(num, 0) /\ AllCalm(num, due, {}, 0)
  BY <1>5 DEF NextNumber, AllCalm, Calm, Counted
<1>7. Ledger(ids, num, due, {}, 0)
  BY <1>2, <1>3, <1>4, <1>6 DEF Ledger, Lined
<1> QED BY <1>1, <1>7 DEF LossInv, SomeLedger

\* A relay handles a packet.
LEMMA RelayKeepsLoss ==
  ASSUME StreamInv, LossInv, NEW i \in Relays, Relay(i)
  PROVE  LossInv'
<1>1. PICK ids, num, due, debts, next : Ledger(ids, num, due, debts, next)
  BY DEF LossInv, SomeLedger
<1>2. SomeLedger'
  BY <1>1, PassKeepsLedger, DropKeepsLedger
<1>3. Quiet'
  <2>1. link[i] # <<>> /\ Head(link[i]) \in 1..MaxPackets
    <3>1. link[i] # <<>> /\ link[i] \in Seq(1..MaxPackets)
      BY DEF Relay, StreamInv, TypeOK
    <3> QED BY <3>1, HeadTailProperties
  <2>2. last'[i] # 0 /\ \A j \in Relays : j # i => last'[j] = last[j]
    BY <2>1 DEF Relay, StreamInv, TypeOK
  <2>3. i = 1 \/ i > 1
    BY RelaysAre
  <2>4. CASE i = 1
    BY <2>2, <2>4 DEF Quiet
  <2>5. CASE i > 1
    <3>1. last[1] # 0
      BY <2>1, <2>5 DEF LossInv, SomeLedger, Quiet
    <3>2. last'[1] = last[1]
      BY <2>2, <2>5, RelaysAre
    <3> QED BY <3>1, <3>2 DEF Quiet
  <2> QED BY <2>3, <2>4, <2>5
<1> QED BY <1>2, <1>3 DEF LossInv, SomeLedger

\* The network loses a packet.
LEMMA LoseKeepsLoss ==
  ASSUME StreamInv, LossInv, NEW i \in Relays, Lose(i)
  PROVE  LossInv'
<1>1. PICK ids, num, due, debts, next : Ledger(ids, num, due, debts, next)
  BY DEF LossInv, SomeLedger
<1>2. SomeLedger'
  BY <1>1, LoseKeepsLedger
<1>3. Quiet'
  <2>1. \A j \in Relays : j > 1 /\ link[j] = <<>> => link'[j] = <<>>
    BY DEF Lose, StreamInv, TypeOK
  <2>2. last' = last
    BY DEF Lose
  <2> QED BY <2>1, <2>2, QuietKept DEF LossInv, SomeLedger
<1> QED BY <1>2, <1>3 DEF LossInv, SomeLedger

\* The network delivers a packet before the one in front of it.
LEMMA OvertakeKeepsLoss ==
  ASSUME StreamInv, LossInv, NEW i \in Relays, Overtake(i)
  PROVE  LossInv'
<1>1. PICK ids, num, due, debts, next : Ledger(ids, num, due, debts, next)
  BY DEF LossInv, SomeLedger
<1>2. SomeLedger'
  BY <1>1, OvertakeKeepsLedger
<1>3. Quiet'
  <2>1. \A j \in Relays : j > 1 /\ link[j] = <<>> => link'[j] = <<>>
    <3>1. link[i] # <<>>
      BY EmptySeq DEF Overtake
    <3>2. \A j \in Relays : j # i => link'[j] = link[j]
      BY DEF Overtake, StreamInv, TypeOK
    <3> QED BY <3>1, <3>2
  <2>2. last' = last
    BY DEF Overtake
  <2> QED BY <2>1, <2>2, QuietKept DEF LossInv, SomeLedger
<1> QED BY <1>2, <1>3 DEF LossInv, SomeLedger

\* A step that leaves the line alone and subscribes nobody.
LEMMA AsideKeepsLoss ==
  ASSUME StreamInv, LossInv, link' = link, last' = last, allowance' = allowance,
         First \in interested'[Video] => First \in interested[Video]
           /\ number'[Video] = number[Video]
  PROVE  LossInv'
<1>1. PICK ids, num, due, debts, next : Ledger(ids, num, due, debts, next)
  BY DEF LossInv, SomeLedger
<1>2. SomeLedger'
  BY <1>1, AsideKeepsLedger
<1>3. Quiet'
  BY QuietKept DEF LossInv, SomeLedger
<1> QED BY <1>2, <1>3 DEF LossInv, SomeLedger

\* The server's folder watch, its tasks, other nodes and its restart.
LEMMA ServerKeepsLoss ==
  ASSUME StreamInv, LossInv, ServerStep
  PROVE  LossInv'
<1>1. link' = link /\ last' = last /\ allowance' = allowance
  BY DEF ServerStep, lineVars
<1>2. /\ interested \in [Videos -> SUBSET Nodes] /\ number \in [Videos -> Nat]
      /\ Video \in Videos /\ \A t \in tasks : t.video \in Videos
  BY StreamAssumption DEF StreamInv, TypeOK, ServerTypeOK, Tasks
<1> DEFINE Aside == First \in interested'[Video] =>
                      First \in interested[Video] /\ number'[Video] = number[Video]
<1>3. ASSUME NEW f \in Files, WatchFile(f) PROVE Aside
  BY <1>3 DEF WatchFile
<1>4. ASSUME NEW t \in tasks, InsertVideo(t) PROVE Aside
  BY <1>2, <1>4 DEF InsertVideo
<1>5. ASSUME NEW t \in tasks, TaskEnds(t) PROVE Aside
  BY <1>5 DEF TaskEnds
<1>6. ASSUME NEW a \in Nodes \ {First}, NEW v \in Videos, HandleRequestVideo(a, v) PROVE Aside
  BY <1>2, <1>6 DEF HandleRequestVideo
<1>7. ASSUME NEW a \in Nodes \ {First}, NEW v \in Videos, HandleStopVideo(a, v) PROVE Aside
  BY <1>2, <1>7 DEF HandleStopVideo
<1>8. ASSUME NEW a \in Nodes, HandleNewNeighbour(a) PROVE Aside
  BY <1>8 DEF HandleNewNeighbour
<1>9. ASSUME ServerRestart PROVE Aside
  BY <1>2, <1>9 DEF ServerRestart
<1> HIDE DEF Aside
<1>10. Aside
  BY <1>3, <1>4, <1>5, <1>6, <1>7, <1>8, <1>9 DEF ServerStep
<1> QED BY <1>1, <1>10, AsideKeepsLoss DEF Aside

\* A packet of ffmpeg, sent to the first relay, failing or not, or to others.
LEMMA SendKeepsLoss ==
  ASSUME StreamInv, StreamInv', LossInv, NEW t \in tasks, NEW to \in SUBSET Nodes,
         SendVideo(t, to)
  PROVE  LossInv'
<1>0. PICK ids, num, due, debts, next : Ledger(ids, num, due, debts, next)
  BY DEF LossInv, SomeLedger
<1>1. /\ number \in [Videos -> Nat] /\ Video \in Videos /\ t.video \in Videos
      /\ number'[Video] \in Nat /\ link \in [Relays -> Seq(1..MaxPackets)]
  BY StreamAssumption DEF StreamInv, TypeOK, ServerTypeOK, Tasks
<1>2. interested' = interested /\ last' = last /\ number' = [number EXCEPT ![t.video] = @ + 1]
  BY DEF SendVideo, StreamPacket
<1>3. number'[Video] = IF t.video = Video THEN number[Video] + 1 ELSE number[Video]
  BY <1>1, <1>2
<1>4. CASE ~ (t.video = Video /\ First \in interested[Video])
  <2>1. link' = link /\ allowance' = allowance
    BY <1>4 DEF SendVideo
  <2>2. First \in interested'[Video] => First \in interested[Video]
          /\ number'[Video] = number[Video]
    BY <1>2, <1>3, <1>4
  <2> QED BY <1>2, <2>1, <2>2, AsideKeepsLoss
<1>5. CASE t.video = Video /\ First \in interested[Video] /\ First \notin to
  <2>1. link' = link /\ allowance' = allowance + Hops
    BY <1>5 DEF SendVideo
  <2>2. SomeLedger'
    BY <1>0, <1>1, <1>2, <2>1, JumpKeepsLedger
  <2>3. Quiet'
    BY <1>2, <2>1, QuietKept DEF LossInv, SomeLedger
  <2> QED BY <2>2, <2>3 DEF LossInv, SomeLedger
<1>6. CASE t.video = Video /\ First \in interested[Video] /\ First \in to
  <2>1. LinkLonger(number'[Video]) /\ allowance' = allowance
    BY <1>6 DEF SendVideo, LinkLonger
  <2>2. number'[Video] = number[Video] + 1
    BY <1>3, <1>6
  <2>3. SomeLedger'
    BY <1>0, <1>2, <1>6, <2>1, <2>2, SentKeepsLedger
  <2>4. Quiet'
    <3>1. \A j \in Relays : j > 1 => link'[j] = link[j]
      BY <1>1, <2>1 DEF LinkLonger
    <3> QED BY <1>2, <3>1, QuietKept DEF LossInv, SomeLedger
  <2> QED BY <2>3, <2>4 DEF LossInv, SomeLedger
<1> QED BY <1>4, <1>5, <1>6

\* The first relay is added to the subscribers, for the first time or again.
LEMMA RequestKeepsLoss ==
  ASSUME StreamInv, LossInv, ReceiveRequest
  PROVE  LossInv'
<1>0. PICK ids, num, due, debts, next : Ledger(ids, num, due, debts, next)
  BY DEF LossInv, SomeLedger
<1>1. link' = link /\ last' = last /\ number' = number
  BY DEF ReceiveRequest, HandleRequestVideo
<1>2. number'[Video] \in Nat
  BY <1>1, StreamAssumption DEF StreamInv, TypeOK, ServerTypeOK
<1>3. Quiet'
  BY <1>1, QuietKept DEF LossInv, SomeLedger
<1>4. CASE ~ Joins
  <2>1. allowance' = allowance
    BY <1>4 DEF ReceiveRequest
  <2>2. First \in interested'[Video] => First \in interested[Video]
    BY <1>4 DEF Joins
  <2> QED BY <1>1, <2>1, <2>2, AsideKeepsLoss
<1>5. CASE Joins /\ KnowsNumbers
  <2>1. allowance' = allowance + Hops
    BY <1>5 DEF ReceiveRequest
  <2>2. SomeLedger'
    BY <1>0, <1>1, <1>2, <2>1, JumpKeepsLedger
  <2> QED BY <1>3, <2>2 DEF LossInv, SomeLedger
<1>6. CASE Joins /\ ~ KnowsNumbers
  <2>1. allowance' = allowance
    BY <1>6 DEF ReceiveRequest
  <2>2. NothingCame
    <3>1. last[1] = 0 /\ link[1] = <<>>
      BY <1>6 DEF KnowsNumbers
    <3>2. \A j \in Relays : j = 1 \/ j > 1
      BY RelaysAre
    <3> QED BY <3>1, <3>2 DEF LossInv, SomeLedger, Quiet, NothingCame
  <2>3. SomeLedger'
    BY <1>0, <1>1, <1>2, <2>1, <2>2, FirstKeepsLedger
  <2> QED BY <1>3, <2>3 DEF LossInv, SomeLedger
<1> QED BY <1>4, <1>5, <1>6

\* Each step of Next, from what it does to the line and the subscription.
LEMMA NextKeepsLoss ==
  ASSUME StreamInv, StreamInv', LossInv, [Next]_vars
  PROVE  LossInv'
<1>1. CASE ServerStep
  BY <1>1, ServerKeepsLoss
<1>2. ASSUME NEW t \in tasks, NEW to \in SUBSET Nodes, SendVideo(t, to) PROVE LossInv'
  BY <1>2, SendKeepsLoss
<1>3. CASE ReceiveRequest
  BY <1>3, RequestKeepsLoss
<1>4. CASE ReceiveStop
  <2>1. link' = link /\ last' = last /\ allowance' = allowance /\ number' = number
    BY <1>4 DEF ReceiveStop, HandleStopVideo
  <2>2. First \in interested'[Video] => First \in interested[Video]
    BY <1>4, StreamAssumption DEF ReceiveStop, HandleStopVideo, StreamInv, TypeOK, ServerTypeOK
  <2> QED BY <2>1, <2>2, AsideKeepsLoss
<1>5. CASE Want \/ GiveUp \/ AskAgain \/ UNCHANGED vars
  <2>1. link' = link /\ last' = last /\ allowance' = allowance /\ number' = number
          /\ interested' = interested
    BY <1>5 DEF Want, GiveUp, AskAgain, vars, lineVars, serverVars
  <2> QED BY <2>1, AsideKeepsLoss
<1>6. ASSUME NEW i \in Relays, Relay(i) PROVE LossInv'
  BY <1>6, RelayKeepsLoss
<1>7. ASSUME NEW i \in Relays, Lose(i) PROVE LossInv'
  BY <1>7, LoseKeepsLoss
<1>8. ASSUME NEW i \in Relays, Overtake(i) PROVE LossInv'
  BY <1>8, OvertakeKeepsLoss
<1> QED BY <1>1, <1>2, <1>3, <1>4, <1>5, <1>6, <1>7, <1>8 DEF Next

\* As many debts as drops are allowed: the allowance is never below 0.
LEMMA LossInvImpliesBound ==
  ASSUME StreamInv, LossInv
  PROVE  LossIsBounded
<1>1. PICK ids, num, due, debts, next : Ledger(ids, num, due, debts, next)
  BY DEF LossInv, SomeLedger
<1>2. IsFiniteSet(debts) /\ Cardinality(debts) <= allowance
  BY <1>1 DEF Ledger
<1>3. Cardinality(debts) \in Nat /\ allowance \in Int
  BY <1>2, FS_CardinalityType DEF StreamInv, TypeOK
<1> QED BY <1>2, <1>3 DEF LossIsBounded

\* What the relays drop (handle_video_packet, node/src/handle.rs:192-237) is never
\* more than what the network lost, delivered late or handed to a relay that came
\* back explains, on a line of any length, however often the server
\* restarts, ffmpeg ends or the first relay gives up and asks again.
THEOREM LossBounded == Spec => []LossIsBounded
<1>1. StreamInv /\ StreamInv' /\ LossInv /\ [Next]_vars => LossInv'
  BY NextKeepsLoss
<1>2. StreamInv /\ LossInv => LossIsBounded
  BY LossInvImpliesBound
<1> QED BY <1>1, <1>2, InitLossInv, StreamInvariant, PTL DEF Spec

====

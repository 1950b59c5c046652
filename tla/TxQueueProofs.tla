----------------------------- MODULE TxQueueProofs -----------------------------
(***************************************************************************)
(* Proofs about the transmit queue at work, for every set of packet keys   *)
(* and priorities, every limit of the queue and any number of packets.     *)
(* The invariant adds two things to the type of the state, the order of    *)
(* the queue and its stability: no two positions hold the same packet, and *)
(* the history says of every packet where it is.  The first is what makes  *)
(* taking one out leave no copy behind; the second is what makes the       *)
(* packet of send() a new one, greater than all that wait.                 *)
(***************************************************************************)
EXTENDS TxQueue, MeshPacketQueueProofs, FiniteSetTheorems

\* Packets that rank the same and are not late stand in the order of their numbers.
Stable(q) ==
    \A i, j \in 1..Len(q) :
        /\ i < j /\ ~q[i].late /\ ~q[j].late
        /\ q[i].pri = q[j].pri /\ q[i].us = q[j].us
        => q[i].n < q[j].n

\* What history and queue say of each packet agrees.
Waiting == \A n \in 1..MaxPackets : out[n] = "queued" <=> n \in Numbers(txQueue)
Unsent == \A n \in 1..MaxPackets : out[n] = "none" <=> n > sent
FreedOnce ==
    \A n \in 1..MaxPackets : freed[n] = (IF out[n] \in {"none", "queued"} THEN 0 ELSE 1)

\* The inductive invariant.
QueueInv ==
    /\ TypeOK
    /\ QueueOrdered
    /\ Stable(txQueue)
    /\ Distinct(txQueue)
    /\ Waiting
    /\ Unsent
    /\ FreedOnce

(***************************************************************************)
(* The packets and the order.                                              *)
(***************************************************************************)

\* The order of the queue is one on these packets.
LEMMA PacketsAreOrdered == PacketSet(Packets)
<1>1. ASSUME NEW p \in Packets PROVE p.late \in BOOLEAN /\ p.us \in BOOLEAN /\ p.pri \in Int
  <2>1. p.late \in BOOLEAN /\ p.us \in BOOLEAN /\ p.pri \in Priorities
    BY DEF Packets
  <2>2. p.pri \in Int
    <3>1. Priorities \subseteq Nat
      BY PrioritiesAssumption DEF PrioritiesAssumption
    <3>2. p.pri \in Nat
      BY <2>1, <3>1, Zenon
    <3> QED
      BY <3>2
  <2> QED
    BY <2>1, <2>2, Zenon
<1> QED
  BY <1>1, Zenon DEF PacketSet

\* Of two packets that rank the same neither must precede the other.
LEMMA EqualsAreNotBefore ==
    ASSUME NEW p \in Packets, NEW q \in Packets,
           ~p.late, ~q.late, p.pri = q.pri, p.us = q.us
    PROVE  ~Before(p, q) /\ ~Before(q, p)
<1>1. /\ p.us \in BOOLEAN /\ q.us \in BOOLEAN
      /\ p.late \in BOOLEAN /\ q.late \in BOOLEAN
  BY DEF Packets
<1>2. ~(p.late # q.late) /\ ~(q.late # p.late)
  BY <1>1
<1>3. ~(~p.us /\ q.us) /\ ~(~q.us /\ p.us)
  BY <1>1
<1> QED
  BY <1>2, <1>3 DEF Before

\* A packet that is late, or newer than all that wait, does not disturb the order among
\* equals: it stands behind those it ranks with.
LEMMA InsertKeepsStable ==
    ASSUME NEW q \in Seq(Packets), NEW p \in Packets, Sorted(q), Stable(q),
           p.late \/ \A i \in 1..Len(q) : q[i].n < p.n
    PROVE  Stable(Insert(q, p))
<1> DEFINE u == UpperBound(q, p)
           r == Insert(q, p)
           From(i) == IF i < u THEN i ELSE i - 1
<1>0. Len(q) \in Nat /\ u \in 1..(Len(q) + 1)
  BY UpperBoundResult, PacketsAreOrdered
<1>1. /\ Len(r) = Len(q) + 1
      /\ \A i \in 1..(Len(q) + 1) :
             r[i] = IF i < u THEN q[i] ELSE IF i = u THEN p ELSE q[i - 1]
  BY InsertResult, PacketsAreOrdered
<1>2. \A j \in 1..Len(q) : j >= u => Before(p, q[j])
  <2> SUFFICES ASSUME NEW j \in 1..Len(q), j >= u PROVE Before(p, q[j])
    OBVIOUS
  <2>1. u \in 1..Len(q) /\ q[u] \in Packets /\ q[j] \in Packets
    BY <1>0
  <2>2. Before(p, q[u])
    BY <1>0, <2>1, UpperBoundResult, PacketsAreOrdered
  <2>3. CASE j = u
    BY <2>2, <2>3
  <2>4. CASE j > u
    <3>1. ~Before(q[j], q[u])
      BY <2>1, <2>4 DEF Sorted
    <3> HIDE DEF u
    <3> QED
      BY <2>1, <2>2, <3>1, BeforeIsOrder, PacketsAreOrdered
  <2> QED
    BY <1>0, <2>3, <2>4
<1>3. \A j \in 1..Len(q) :
          j >= u => ~(~q[j].late /\ ~p.late /\ q[j].pri = p.pri /\ q[j].us = p.us)
  BY <1>2, EqualsAreNotBefore
<1> HIDE DEF r, u
<1>4. \A i \in 1..(Len(q) + 1) :
          i # u => From(i) \in 1..Len(q) /\ r[i] = q[From(i)] /\ (i > u => From(i) >= u)
  BY <1>0, <1>1
<1>5. \A i, j \in 1..(Len(q) + 1) : i # u /\ j # u /\ i < j => From(i) < From(j)
  BY <1>0
<1>6. r[u] = p
  BY <1>0, <1>1
<1> HIDE DEF From
<1>7. ASSUME NEW i \in 1..(Len(q) + 1), NEW j \in 1..(Len(q) + 1), i < j,
             ~r[i].late, ~r[j].late, r[i].pri = r[j].pri, r[i].us = r[j].us
      PROVE  r[i].n < r[j].n
  <2>1. CASE i = u
    BY <1>3, <1>4, <1>6, <1>7, <2>1
  <2>2. CASE j = u
    BY <1>4, <1>6, <1>7, <2>2
  <2>3. CASE i # u /\ j # u
    BY <1>4, <1>5, <1>7, <2>3 DEF Stable
  <2> QED
    BY <2>1, <2>2, <2>3
<1> QED
  BY <1>1, <1>7 DEF Stable, r

\* Nor does taking one out.
LEMMA RemoveKeepsStable ==
    ASSUME NEW q \in Seq(Packets), NEW u \in 1..Len(q), Stable(q)
    PROVE  Stable(RemoveAt(q, u))
<1> DEFINE r == RemoveAt(q, u)
           From(i) == IF i < u THEN i ELSE i + 1
<1>1. /\ Len(q) \in Nat /\ Len(r) = Len(q) - 1
      /\ \A i \in 1..(Len(q) - 1) : r[i] = IF i < u THEN q[i] ELSE q[i + 1]
  BY RemoveAtResult
<1> HIDE DEF r
<1>2. \A i \in 1..(Len(q) - 1) : From(i) \in 1..Len(q) /\ r[i] = q[From(i)]
  BY <1>1
<1>3. \A i, j \in 1..(Len(q) - 1) : i < j => From(i) < From(j)
  BY <1>1
<1> HIDE DEF From
<1>4. ASSUME NEW i \in 1..(Len(q) - 1), NEW j \in 1..(Len(q) - 1),
             i < j, ~r[i].late, ~r[j].late, r[i].pri = r[j].pri, r[i].us = r[j].us
      PROVE  r[i].n < r[j].n
  <2>1. /\ From(i) \in 1..Len(q) /\ r[i] = q[From(i)]
        /\ From(j) \in 1..Len(q) /\ r[j] = q[From(j)]
    BY <1>2
  <2>2. From(i) < From(j)
    BY <1>3, <1>4
  <2> QED
    BY <1>4, <2>1, <2>2 DEF Stable
<1>5. Stable(r)
  BY <1>1, <1>4 DEF Stable
<1> QED
  BY <1>5 DEF r

(***************************************************************************)
(* The steps.                                                              *)
(***************************************************************************)

\* The parameters are numbers.
LEMMA Limits == MaxPackets \in Nat /\ MaxLen \in Nat /\ MaxLen > 0
  BY MaxPacketsAssumption, MaxLenAssumption DEF MaxPacketsAssumption, MaxLenAssumption

\* The numbers of a queue of packets are those of packets.
LEMMA NumbersOfPackets ==
    ASSUME NEW q \in Seq(Packets)
    PROVE  Numbers(q) \subseteq 1..MaxPackets
<1>1. \A i \in 1..Len(q) : q[i] \in Packets
  OBVIOUS
<1>2. \A p \in Packets : p.n \in 1..MaxPackets
  BY DEF Packets
<1> QED
  BY <1>1, <1>2, Zenon DEF Numbers

\* Whatever enqueue() does with a packet p that waits nowhere, the queue keeps its shape
\* and the history goes on saying where every packet is: q is the queue p is offered to,
\* and but for p it holds the packets that wait.
LEMMA SettleKeepsBooks ==
    ASSUME NEW q \in Seq(Packets), NEW p \in Packets,
           Sorted(q), Distinct(q), Len(q) <= MaxLen, p.n \notin Numbers(q),
           out \in [1..MaxPackets -> Fates], freed \in [1..MaxPackets -> Nat],
           \A n \in 1..MaxPackets : n # p.n => (out[n] = "queued" <=> n \in Numbers(q)),
           out[p.n] \in {"none", "queued"},
           FreedOnce,
           Settle(p, Enqueue(q, p))
    PROVE  /\ txQueue' \in Seq(Packets) /\ Sorted(txQueue') /\ Len(txQueue') <= MaxLen
           /\ Distinct(txQueue')
           /\ out' \in [1..MaxPackets -> Fates] /\ freed' \in [1..MaxPackets -> Nat]
           /\ Waiting' /\ FreedOnce'
           /\ \A n \in 1..MaxPackets : out'[n] = "none" <=> (out[n] = "none" /\ n # p.n)
<1> DEFINE r == Enqueue(q, p)
           gone == {r.freed[i].n : i \in DOMAIN r.freed} \cup (IF r.ok THEN {} ELSE {p.n})
<1>1. p.n \in 1..MaxPackets /\ Numbers(q) \subseteq 1..MaxPackets
  BY NumbersOfPackets DEF Packets
<1>2. r.queue \in Seq(Packets) /\ Sorted(r.queue) /\ Len(r.queue) <= MaxLen /\ Distinct(r.queue)
  BY EnqueueResult, EnqueueNumbers, PacketsAreOrdered
<1>3. PICK ok \in BOOLEAN : r.ok <=> ok
  OBVIOUS
<1>4. /\ txQueue' = r.queue
      /\ freed' = [n \in 1..MaxPackets |-> freed[n] + IF n \in gone THEN 1 ELSE 0]
      /\ out' = [n \in 1..MaxPackets |->
                    IF n = p.n THEN (IF r.ok THEN "queued" ELSE "refused")
                    ELSE IF n \in gone THEN "evicted" ELSE out[n]]
  BY DEF Settle
\* What went back to the pool, and what waits now.
<1>5. \/ /\ ok /\ gone = {} /\ Numbers(r.queue) = Numbers(q) \cup {p.n}
      \/ /\ ok
         /\ \E m \in Numbers(q) :
                gone = {m} /\ Numbers(r.queue) = (Numbers(q) \ {m}) \cup {p.n}
      \/ ~ok /\ gone = {p.n} /\ Numbers(r.queue) = Numbers(q)
  <2>1. CASE r.ok /\ r.freed = << >> /\ Numbers(r.queue) = Numbers(q) \cup {p.n}
    <3>1. DOMAIN r.freed = {}
      BY <2>1
    <3>2. gone = {}
      BY <2>1, <3>1
    <3> QED
      BY <1>3, <2>1, <3>2
  <2>2. ASSUME r.ok, NEW v \in 1..Len(q), r.freed = << q[v] >>,
               Numbers(r.queue) = (Numbers(q) \ {q[v].n}) \cup {p.n}
        PROVE  \E m \in Numbers(q) :
                gone = {m} /\ Numbers(r.queue) = (Numbers(q) \ {m}) \cup {p.n}
    <3>1. DOMAIN r.freed = {1} /\ r.freed[1] = q[v]
      BY <2>2
    <3>2. gone = {q[v].n} /\ q[v].n \in Numbers(q)
      BY <2>2, <3>1 DEF Numbers
    <3> QED
      BY <2>2, <3>2
  <2>3. CASE ~r.ok /\ r.freed = << >> /\ r.queue = q
    <3>1. DOMAIN r.freed = {}
      BY <2>3
    <3>2. gone = {p.n}
      BY <2>3, <3>1
    <3> QED
      BY <1>3, <2>3, <3>2
  <2>4. \/ r.ok /\ r.freed = << >> /\ Numbers(r.queue) = Numbers(q) \cup {p.n}
        \/ /\ r.ok
           /\ \E v \in 1..Len(q) :
                  /\ r.freed = << q[v] >>
                  /\ Numbers(r.queue) = (Numbers(q) \ {q[v].n}) \cup {p.n}
        \/ ~r.ok /\ r.freed = << >> /\ r.queue = q
    BY EnqueueNumbers, PacketsAreOrdered
  <2> QED
    BY <1>3, <2>1, <2>2, <2>3, <2>4
<1> HIDE DEF r, gone
<1>6. /\ out' = [n \in 1..MaxPackets |->
                    IF n = p.n THEN (IF ok THEN "queued" ELSE "refused")
                    ELSE IF n \in gone THEN "evicted" ELSE out[n]]
  BY <1>3, <1>4
<1>7. out' \in [1..MaxPackets -> Fates] /\ freed' \in [1..MaxPackets -> Nat]
  BY <1>4, <1>6 DEF Fates
<1>8. Waiting'
  BY <1>1, <1>4, <1>5, <1>6 DEF Waiting
<1>9. FreedOnce'
  <2> SUFFICES ASSUME NEW n \in 1..MaxPackets
               PROVE  freed'[n] = (IF out'[n] \in {"none", "queued"} THEN 0 ELSE 1)
    BY DEF FreedOnce
  <2>1. freed[n] = (IF out[n] \in {"none", "queued"} THEN 0 ELSE 1)
    BY DEF FreedOnce
  <2>2. n \in gone => freed[n] = 0 /\ freed'[n] = 1
    BY <1>4, <1>5, <2>1
  <2>3. n \notin gone => freed'[n] = freed[n]
    BY <1>4
  <2>4. n \in gone => out'[n] \notin {"none", "queued"}
    BY <1>1, <1>5, <1>6
  <2>5. n \notin gone => (out'[n] \in {"none", "queued"} <=> out[n] \in {"none", "queued"})
    BY <1>1, <1>5, <1>6
  <2> QED
    BY <2>1, <2>2, <2>3, <2>4, <2>5
<1>10. \A n \in 1..MaxPackets : out'[n] = "none" <=> (out[n] = "none" /\ n # p.n)
  BY <1>1, <1>5, <1>6
<1> QED
  BY <1>2, <1>4, <1>7, <1>8, <1>9, <1>10

\* A packet leaves the queue from position i, for the fate f.
LEMMA LeaveKeepsBooks ==
    ASSUME QueueInv, NEW i \in 1..Len(txQueue), NEW f \in {"radio", "cancelled"},
           txQueue' \in Seq(Packets), Distinct(txQueue'),
           Numbers(txQueue') = Numbers(txQueue) \ {txQueue[i].n},
           out' = [out EXCEPT ![txQueue[i].n] = f],
           freed' = [freed EXCEPT ![txQueue[i].n] = @ + 1],
           UNCHANGED sent
    PROVE  TypeOK' /\ Waiting' /\ Unsent' /\ FreedOnce'
<1>1. txQueue[i].n \in 1..MaxPackets /\ txQueue[i].n \in Numbers(txQueue)
  <2>1. txQueue[i].n \in Numbers(txQueue)
    BY DEF Numbers
  <2>2. txQueue \in Seq(Packets)
    BY DEF QueueInv, TypeOK
  <2> QED
    BY <2>1, <2>2, NumbersOfPackets
<1>2. out[txQueue[i].n] = "queued" /\ freed[txQueue[i].n] = 0
  BY <1>1 DEF QueueInv, Waiting, FreedOnce
<1>3. TypeOK'
  BY <1>1, <1>2 DEF QueueInv, TypeOK, Fates
<1>4. Waiting'
  BY <1>1, <1>2 DEF QueueInv, TypeOK, Waiting
<1>5. Unsent'
  BY <1>1, <1>2 DEF QueueInv, TypeOK, Unsent
<1>6. FreedOnce'
  BY <1>1, <1>2 DEF QueueInv, TypeOK, FreedOnce
<1> QED
  BY <1>3, <1>4, <1>5, <1>6

\* send() keeps the invariant: its packet is the newest.
LEMMA SendKeeps ==
    ASSUME QueueInv, NEW key \in Keys, NEW pri \in Priorities, NEW us \in BOOLEAN,
           Send(key, pri, us)
    PROVE  QueueInv'
<1> DEFINE p == [key |-> key, pri |-> pri, us |-> us, late |-> FALSE, n |-> sent + 1]
<1>1. /\ sent \in 0..MaxPackets /\ sent < MaxPackets /\ sent' = sent + 1
      /\ Settle(p, Enqueue(txQueue, p))
  BY DEF Send, QueueInv, TypeOK
<1>2. sent + 1 \in 1..MaxPackets /\ sent' \in 0..MaxPackets
  BY <1>1, Limits
<1>3. p \in Packets /\ p.n = sent + 1
  BY <1>2 DEF Packets
<1>4. /\ txQueue \in Seq(Packets) /\ Sorted(txQueue) /\ Distinct(txQueue)
      /\ Len(txQueue) <= MaxLen
      /\ out \in [1..MaxPackets -> Fates] /\ freed \in [1..MaxPackets -> Nat] /\ FreedOnce
      /\ Stable(txQueue)
  BY DEF QueueInv, TypeOK, QueueOrdered
<1>5. out[sent + 1] = "none" /\ sent + 1 \notin Numbers(txQueue)
  BY <1>1, <1>2 DEF QueueInv, Unsent, Waiting
<1>6. \A n \in 1..MaxPackets : out[n] = "queued" <=> n \in Numbers(txQueue)
  BY DEF QueueInv, Waiting
<1>7. \A i \in 1..Len(txQueue) : txQueue[i].n < p.n
  <2> SUFFICES ASSUME NEW i \in 1..Len(txQueue) PROVE txQueue[i].n < sent + 1
    BY <1>3
  <2>1. txQueue[i].n \in Numbers(txQueue)
    BY DEF Numbers
  <2>2. txQueue[i].n \in 1..MaxPackets /\ out[txQueue[i].n] = "queued"
    BY <1>4, <1>6, <2>1, NumbersOfPackets
  <2>3. ~(txQueue[i].n > sent)
    BY <2>2 DEF QueueInv, Unsent
  <2> QED
    BY <1>1, <2>2, <2>3
<1> HIDE DEF p
<1>8. /\ txQueue' \in Seq(Packets) /\ Sorted(txQueue') /\ Len(txQueue') <= MaxLen
      /\ Distinct(txQueue')
      /\ out' \in [1..MaxPackets -> Fates] /\ freed' \in [1..MaxPackets -> Nat]
      /\ Waiting' /\ FreedOnce'
      /\ \A n \in 1..MaxPackets : out'[n] = "none" <=> (out[n] = "none" /\ n # p.n)
  BY <1>1, <1>3, <1>4, <1>5, <1>6, SettleKeepsBooks
<1>9. Unsent'
  <2> SUFFICES ASSUME NEW n \in 1..MaxPackets PROVE out'[n] = "none" <=> n > sent'
    BY DEF Unsent
  <2>1. out[n] = "none" <=> n > sent
    BY DEF QueueInv, Unsent
  <2> QED
    BY <1>1, <1>3, <1>8, <2>1
<1>10. Stable(txQueue')
  <2>1. txQueue' = Enqueue(txQueue, p).queue
    BY <1>1 DEF Settle
  <2>2. CASE Len(txQueue) < MaxLen
    <3>1. txQueue' = Insert(txQueue, p)
      BY <1>3, <1>4, <2>1, <2>2, EnqueueResult, PacketsAreOrdered
    <3> QED
      BY <1>3, <1>4, <1>7, <3>1, InsertKeepsStable
  <2>3. CASE ~(Len(txQueue) < MaxLen) /\ Replaceable(txQueue, p)
    <3> DEFINE v == Victim(txQueue)
               q == RemoveAt(txQueue, v)
    <3>1. txQueue' = Insert(q, p)
      BY <1>3, <1>4, <2>1, <2>3, EnqueueResult, PacketsAreOrdered
    <3>2. v \in 1..Len(txQueue)
      BY <1>3, <1>4, <2>3, VictimResult, PacketsAreOrdered
    <3> HIDE DEF v
    <3>3. q \in Seq(Packets) /\ Sorted(q) /\ Stable(q)
      BY <1>4, <3>2, RemoveAtResult, RemoveKeepsOrder, RemoveKeepsStable
    <3>4. \A i \in 1..Len(q) : q[i].n < p.n
      <4>1. /\ Len(q) = Len(txQueue) - 1
            /\ \A i \in 1..(Len(txQueue) - 1) :
                   q[i] = IF i < v THEN txQueue[i] ELSE txQueue[i + 1]
        BY <1>4, <3>2, RemoveAtResult
      <4>2. \A i \in 1..(Len(txQueue) - 1) : i \in 1..Len(txQueue) /\ i + 1 \in 1..Len(txQueue)
        BY <1>4
      <4> HIDE DEF q
      <4> QED
        BY <1>7, <4>1, <4>2
    <3> HIDE DEF q
    <3> QED
      BY <1>3, <3>1, <3>3, <3>4, InsertKeepsStable
  <2>4. CASE ~(Len(txQueue) < MaxLen) /\ ~Replaceable(txQueue, p)
    <3>1. txQueue' = txQueue
      BY <1>3, <1>4, <2>1, <2>4, EnqueueResult, PacketsAreOrdered
    <3> QED
      BY <1>4, <3>1
  <2> QED
    BY <2>2, <2>3, <2>4
<1> QED
  BY <1>2, <1>8, <1>9, <1>10 DEF QueueInv, TypeOK, QueueOrdered

\* The transmit step keeps it.
LEMMA TransmitKeeps ==
    ASSUME QueueInv, Transmit
    PROVE  QueueInv'
<1>1. /\ txQueue \in Seq(Packets) /\ txQueue # << >> /\ Sorted(txQueue) /\ Distinct(txQueue)
      /\ Stable(txQueue) /\ Len(txQueue) <= MaxLen
  BY DEF Transmit, QueueInv, TypeOK, QueueOrdered
<1>2. txQueue' = Tail(txQueue) /\ Head(txQueue) = txQueue[1] /\ 1 \in 1..Len(txQueue)
  BY <1>1, EmptySeq DEF Transmit
<1>3. /\ Tail(txQueue) \in Seq(Packets) /\ Len(Tail(txQueue)) = Len(txQueue) - 1
      /\ \A i \in 1..(Len(txQueue) - 1) : Tail(txQueue)[i] = txQueue[i + 1]
  BY <1>1
<1>4. Sorted(Tail(txQueue)) /\ Distinct(Tail(txQueue))
  BY <1>1, TailKeepsOrder, TailNumbers
<1>5. Numbers(Tail(txQueue)) = Numbers(txQueue) \ {txQueue[1].n}
  BY <1>1, <1>2, TailNumbers
<1>6. TypeOK' /\ Waiting' /\ Unsent' /\ FreedOnce'
  <2>1. /\ out' = [out EXCEPT ![txQueue[1].n] = "radio"]
        /\ freed' = [freed EXCEPT ![txQueue[1].n] = @ + 1]
        /\ UNCHANGED sent
    BY <1>2 DEF Transmit
  <2> QED
    BY <1>2, <1>3, <1>4, <1>5, <2>1, LeaveKeepsBooks
<1>7. Stable(txQueue')
  BY <1>1, <1>2, <1>3 DEF Stable
<1>8. QueueOrdered'
  BY <1>1, <1>2, <1>3, <1>4, Limits DEF QueueOrdered
<1> QED
  BY <1>2, <1>4, <1>6, <1>7, <1>8 DEF QueueInv

\* cancelSending() keeps it.
LEMMA CancelKeeps ==
    ASSUME QueueInv, NEW key \in Keys, CancelSending(key)
    PROVE  QueueInv'
<1> DEFINE i == Find(txQueue, key, TRUE, TRUE)
<1>1. /\ txQueue \in Seq(Packets) /\ Sorted(txQueue) /\ Distinct(txQueue)
      /\ Stable(txQueue) /\ Len(txQueue) <= MaxLen
  BY DEF QueueInv, TypeOK, QueueOrdered
<1>2. i \in 1..Len(txQueue)
  BY <1>1, FindResult DEF CancelSending
<1>3. /\ txQueue' = RemoveAt(txQueue, i)
      /\ out' = [out EXCEPT ![txQueue[i].n] = "cancelled"]
      /\ freed' = [freed EXCEPT ![txQueue[i].n] = @ + 1]
      /\ UNCHANGED sent
  BY DEF CancelSending
<1> HIDE DEF i
<1>4. txQueue' \in Seq(Packets) /\ Len(txQueue') = Len(txQueue) - 1 /\ Sorted(txQueue')
  BY <1>1, <1>2, <1>3, RemoveAtResult, RemoveKeepsOrder
<1>5. /\ Distinct(txQueue') /\ Numbers(txQueue') = Numbers(txQueue) \ {txQueue[i].n}
      /\ Stable(txQueue')
  BY <1>1, <1>2, <1>3, RemoveNumbers, RemoveKeepsStable
<1>6. TypeOK' /\ Waiting' /\ Unsent' /\ FreedOnce'
  BY <1>2, <1>3, <1>4, <1>5, LeaveKeepsBooks
<1>7. Len(txQueue') <= MaxLen
  BY <1>1, <1>4, Limits
<1> QED
  BY <1>4, <1>5, <1>6, <1>7 DEF QueueInv, QueueOrdered

\* A packet that is taken out and put back late keeps it: there is room for it, so none
\* is dropped.
LEMMA ClampKeeps ==
    ASSUME QueueInv, NEW key \in Keys, ClampToLateRebroadcastWindow(key)
    PROVE  QueueInv' /\ \A n \in 1..MaxPackets : out[n] = "queued" => out'[n] = "queued"
<1> DEFINE i == Find(txQueue, key, TRUE, FALSE)
           p == [txQueue[i] EXCEPT !.late = TRUE]
           q == RemoveAt(txQueue, i)
<1>1. /\ txQueue \in Seq(Packets) /\ Sorted(txQueue) /\ Distinct(txQueue)
      /\ Stable(txQueue) /\ Len(txQueue) <= MaxLen /\ sent \in 0..MaxPackets
      /\ out \in [1..MaxPackets -> Fates] /\ freed \in [1..MaxPackets -> Nat] /\ FreedOnce
  BY DEF QueueInv, TypeOK, QueueOrdered
<1>2. i \in 1..Len(txQueue)
  BY <1>1, FindResult DEF ClampToLateRebroadcastWindow
<1>3. Settle(p, Enqueue(q, p)) /\ UNCHANGED sent
  BY DEF ClampToLateRebroadcastWindow
<1> HIDE DEF i
<1>4. p \in Packets /\ p.n = txQueue[i].n /\ p.late
  <2>1. txQueue[i] \in Packets
    BY <1>1, <1>2
  <2> QED
    BY <2>1 DEF Packets
<1>5. /\ q \in Seq(Packets) /\ Len(q) = Len(txQueue) - 1 /\ Sorted(q) /\ Distinct(q)
      /\ Stable(q) /\ Numbers(q) = Numbers(txQueue) \ {p.n}
  BY <1>1, <1>2, <1>4, RemoveAtResult, RemoveKeepsOrder, RemoveNumbers, RemoveKeepsStable
<1>6. p.n \in Numbers(txQueue) /\ p.n \in 1..MaxPackets
  BY <1>1, <1>2, <1>4, NumbersOfPackets DEF Numbers
<1>7. \A n \in 1..MaxPackets : out[n] = "queued" <=> n \in Numbers(txQueue)
  BY DEF QueueInv, Waiting
<1>8. \A n \in 1..MaxPackets : n # p.n => (out[n] = "queued" <=> n \in Numbers(q))
  BY <1>5, <1>7
<1>9. out[p.n] \in {"none", "queued"}
  BY <1>6, <1>7
<1>10. Len(q) < MaxLen /\ Len(q) <= MaxLen /\ p.n \notin Numbers(q)
  BY <1>1, <1>5, Limits
<1> HIDE DEF p, q
<1>11. /\ txQueue' \in Seq(Packets) /\ Sorted(txQueue') /\ Len(txQueue') <= MaxLen
       /\ Distinct(txQueue')
       /\ out' \in [1..MaxPackets -> Fates] /\ freed' \in [1..MaxPackets -> Nat]
       /\ Waiting' /\ FreedOnce'
       /\ \A n \in 1..MaxPackets : out'[n] = "none" <=> (out[n] = "none" /\ n # p.n)
  BY <1>1, <1>3, <1>4, <1>5, <1>8, <1>9, <1>10, SettleKeepsBooks
<1>12. Enqueue(q, p).ok /\ Enqueue(q, p).queue = Insert(q, p) /\ Enqueue(q, p).freed = << >>
  BY <1>4, <1>5, <1>10, EnqueueResult, PacketsAreOrdered
<1>13. txQueue' = Insert(q, p)
  BY <1>3, <1>12 DEF Settle
<1>14. Stable(txQueue')
  BY <1>4, <1>5, <1>13, InsertKeepsStable
<1>15. Numbers(txQueue') = Numbers(txQueue)
  <2>1. Numbers(Insert(q, p)) = Numbers(q) \cup {p.n}
    BY <1>4, <1>5, <1>10, InsertNumbers, PacketsAreOrdered
  <2> QED
    BY <1>5, <1>6, <1>13, <2>1
<1>16. \A n \in 1..MaxPackets : out[n] = "queued" => out'[n] = "queued"
  BY <1>7, <1>11, <1>15 DEF Waiting
<1>17. Unsent'
  <2>1. out[p.n] # "none"
    BY <1>6, <1>7
  <2> QED
    BY <1>3, <1>11, <2>1 DEF QueueInv, Unsent
<1> QED
  BY <1>1, <1>3, <1>11, <1>14, <1>16, <1>17 DEF QueueInv, TypeOK, QueueOrdered

(***************************************************************************)
(* The theorems.                                                           *)
(***************************************************************************)

\* QueueInv holds at boot and every step keeps it.
THEOREM QueueInvariance == Spec => []QueueInv
<1>1. Init => QueueInv
  <2> SUFFICES ASSUME Init PROVE QueueInv
    OBVIOUS
  <2>1. txQueue = << >> /\ Len(txQueue) = 0 /\ sent = 0
    BY DEF Init
  <2>2. /\ out = [n \in 1..MaxPackets |-> "none"]
        /\ freed = [n \in 1..MaxPackets |-> 0]
    BY DEF Init
  <2>3. TypeOK
    BY <2>1, <2>2, Limits DEF TypeOK, Fates
  <2>4. QueueOrdered /\ Stable(txQueue) /\ Distinct(txQueue) /\ Numbers(txQueue) = {}
    BY <2>1, Limits DEF QueueOrdered, Sorted, Stable, Distinct, Numbers
  <2>5. Waiting /\ Unsent /\ FreedOnce
    BY <2>1, <2>2, <2>4 DEF Waiting, Unsent, FreedOnce
  <2> QED
    BY <2>3, <2>4, <2>5 DEF QueueInv
<1>2. QueueInv /\ [Next]_vars => QueueInv'
  <2> SUFFICES ASSUME QueueInv, [Next]_vars PROVE QueueInv'
    OBVIOUS
  <2>1. CASE \E key \in Keys, pri \in Priorities, us \in BOOLEAN : Send(key, pri, us)
    BY <2>1, SendKeeps
  <2>2. CASE Transmit
    BY <2>2, TransmitKeeps
  <2>3. ASSUME NEW key \in Keys, CancelSending(key) PROVE QueueInv'
    BY <2>3, CancelKeeps
  <2>4. ASSUME NEW key \in Keys, ClampToLateRebroadcastWindow(key) PROVE QueueInv'
    BY <2>4, ClampKeeps
  <2>5. CASE UNCHANGED vars
    BY <2>5 DEF vars, QueueInv, TypeOK, QueueOrdered, Waiting, Unsent, FreedOnce
  <2> QED
    BY <2>1, <2>2, <2>3, <2>4, <2>5 DEF Next
<1> QED
  BY <1>1, <1>2, PTL DEF Spec

\* The state of the queue keeps its type: in particular no packet of it has a number
\* send() has not given.
THEOREM TypeCorrectness == Spec => []TypeOK
  BY QueueInvariance, PTL DEF QueueInv

\* The queue never outgrows MAX_TX_QUEUE and upper_bound always finds it sorted, as
\* enqueue() and dequeue() suppose.
THEOREM Ordered == Spec => []QueueOrdered
  BY QueueInvariance, PTL DEF QueueInv

\* Packets of equal rank leave in the order of send(), whatever else is sent, cancelled,
\* delayed or dropped.
THEOREM Stability == Spec => []StableOrder
<1>1. QueueInv => StableOrder
  <2> SUFFICES ASSUME QueueInv PROVE StableOrder
    OBVIOUS
  <2>1. txQueue \in Seq(Packets) /\ Stable(txQueue)
    BY DEF QueueInv, TypeOK
  <2>2. DOMAIN txQueue = 1..Len(txQueue)
    BY <2>1
  <2> QED
    BY <2>1, <2>2 DEF StableOrder, Stable
<1> QED
  BY <1>1, QueueInvariance, PTL

\* No packet leaks and none is released twice: it waits once and has not been released,
\* or it is gone and has been released once.
THEOREM Ownership == Spec => []OwnedOnce
<1>1. QueueInv => OwnedOnce
  <2> SUFFICES ASSUME QueueInv, NEW n \in 1..MaxPackets
               PROVE  /\ Cardinality({i \in DOMAIN txQueue : txQueue[i].n = n})
                             = (IF out[n] = "queued" THEN 1 ELSE 0)
                      /\ freed[n] = (IF out[n] \in {"none", "queued"} THEN 0 ELSE 1)
    BY DEF OwnedOnce
  <2> DEFINE waiting == {i \in DOMAIN txQueue : txQueue[i].n = n}
  <2>1. DOMAIN txQueue = 1..Len(txQueue)
    BY DEF QueueInv, TypeOK
  <2>2. out[n] = "queued" <=> n \in Numbers(txQueue)
    BY DEF QueueInv, Waiting
  <2>3. CASE out[n] = "queued"
    <3>1. PICK i \in 1..Len(txQueue) : txQueue[i].n = n
      BY <2>2, <2>3 DEF Numbers
    <3>2. waiting = {i}
      BY <2>1, <3>1 DEF QueueInv, Distinct
    <3> QED
      BY <2>3, <3>2, FS_Singleton DEF QueueInv, FreedOnce
  <2>4. CASE out[n] # "queued"
    <3>1. waiting = {}
      BY <2>1, <2>2, <2>4 DEF Numbers
    <3> QED
      BY <2>4, <3>1, FS_EmptySet DEF QueueInv, FreedOnce
  <2> QED
    BY <2>3, <2>4
<1> QED
  BY <1>1, QueueInvariance, PTL

\* What one step may drop: a packet that waits is only dropped by a send() that finds the
\* queue full, and the packet of that send() ranks above it.
LEMMA SendDropsJustly ==
    ASSUME QueueInv, NEW key \in Keys, NEW pri \in Priorities, NEW us \in BOOLEAN,
           Send(key, pri, us),
           NEW i \in 1..Len(txQueue), out'[txQueue[i].n] = "evicted"
    PROVE  /\ Len(txQueue) = MaxLen /\ Len(txQueue') = MaxLen
           /\ ~txQueue[i].late
           /\ \E j \in 1..Len(txQueue') :
                  txQueue'[j].n = sent' /\ txQueue'[j].pri > txQueue[i].pri
           /\ \A j \in 1..Len(txQueue) : txQueue[j].late \/ txQueue[j].pri >= txQueue[i].pri
<1> DEFINE p == [key |-> key, pri |-> pri, us |-> us, late |-> FALSE, n |-> sent + 1]
           r == Enqueue(txQueue, p)
           v == Victim(txQueue)
           q == RemoveAt(txQueue, v)
           gone == {r.freed[k].n : k \in DOMAIN r.freed} \cup (IF r.ok THEN {} ELSE {p.n})
<1>1. /\ sent \in 0..MaxPackets /\ sent < MaxPackets /\ sent' = sent + 1
      /\ Settle(p, r)
  BY DEF Send, QueueInv, TypeOK
<1>2. p \in Packets /\ p.n = sent' /\ p.pri = pri
  BY <1>1, Limits DEF Packets
<1>3. /\ txQueue \in Seq(Packets) /\ Sorted(txQueue) /\ Distinct(txQueue)
      /\ Len(txQueue) <= MaxLen
  BY DEF QueueInv, TypeOK, QueueOrdered
<1>4. txQueue[i].n \in 1..MaxPackets /\ out[txQueue[i].n] = "queued"
  <2>1. txQueue[i].n \in Numbers(txQueue)
    BY DEF Numbers
  <2> QED
    BY <1>3, <2>1, NumbersOfPackets DEF QueueInv, Waiting
<1>5. txQueue[i].n # p.n /\ txQueue[i].n \in gone
  <2>1. out' = [n \in 1..MaxPackets |->
                   IF n = p.n THEN (IF r.ok THEN "queued" ELSE "refused")
                   ELSE IF n \in gone THEN "evicted" ELSE out[n]]
    BY <1>1 DEF Settle
  <2> HIDE DEF gone, p, r
  <2> QED
    BY <1>4, <2>1
<1> HIDE DEF p
<1>6. ~(Len(txQueue) < MaxLen) /\ Replaceable(txQueue, p)
  <2>1. CASE Len(txQueue) < MaxLen
    <3>1. r.ok /\ r.freed = << >>
      BY <1>2, <1>3, <2>1, EnqueueResult, PacketsAreOrdered
    <3>2. gone = {}
      BY <3>1
    <3> QED
      BY <1>5, <3>2
  <2>2. CASE ~(Len(txQueue) < MaxLen) /\ ~Replaceable(txQueue, p)
    <3>1. ~r.ok /\ r.freed = << >>
      BY <1>2, <1>3, <2>2, EnqueueResult, PacketsAreOrdered
    <3>2. gone = {p.n}
      BY <3>1
    <3> QED
      BY <1>5, <3>2
  <2> QED
    BY <2>1, <2>2
<1>7. r.ok /\ r.queue = Insert(q, p) /\ r.freed = << txQueue[v] >>
  BY <1>2, <1>3, <1>6, EnqueueResult, PacketsAreOrdered
<1>8. /\ v \in 1..Len(txQueue) /\ ~txQueue[v].late /\ txQueue[v].pri < p.pri
      /\ \A j \in 1..Len(txQueue) : j > v => txQueue[j].late
  BY <1>2, <1>3, <1>6, VictimResult, PacketsAreOrdered
<1>9. i = v
  <2>1. DOMAIN r.freed = {1} /\ r.freed[1] = txQueue[v]
    BY <1>7
  <2>2. gone = {txQueue[v].n}
    BY <1>7, <2>1
  <2> HIDE DEF v, gone
  <2> QED
    BY <1>3, <1>5, <1>8, <2>2 DEF Distinct
<1>10. txQueue' = Insert(q, p)
  BY <1>1, <1>7 DEF Settle
<1> HIDE DEF v
<1>11. q \in Seq(Packets) /\ Len(q) = Len(txQueue) - 1
  BY <1>3, <1>8, RemoveAtResult
<1> HIDE DEF q
<1>12. /\ UpperBound(q, p) \in 1..(Len(q) + 1) /\ Len(txQueue') = Len(q) + 1
       /\ txQueue'[UpperBound(q, p)] = p
  <2>1. UpperBound(q, p) \in 1..(Len(q) + 1)
    BY <1>2, <1>11, UpperBoundResult, PacketsAreOrdered
  <2>2. /\ Len(Insert(q, p)) = Len(q) + 1
        /\ \A k \in 1..(Len(q) + 1) :
               Insert(q, p)[k] = IF k < UpperBound(q, p) THEN q[k]
                                 ELSE IF k = UpperBound(q, p) THEN p ELSE q[k - 1]
    BY <1>2, <1>11, InsertResult, PacketsAreOrdered
  <2> QED
    BY <1>10, <1>11, <2>1, <2>2
<1>13. Len(txQueue) = MaxLen /\ Len(txQueue') = MaxLen
  BY <1>3, <1>6, <1>11, <1>12, Limits
<1>14. \E j \in 1..Len(txQueue') :
           txQueue'[j].n = sent' /\ txQueue'[j].pri > txQueue[i].pri
  <2>1. txQueue[v] \in Packets
    BY <1>3, <1>8
  <2>2. p.pri \in Int /\ txQueue[v].pri \in Int
    BY <1>2, <2>1, PacketsAreOrdered DEF PacketSet
  <2>3. p.pri > txQueue[i].pri
    BY <1>8, <1>9, <2>2
  <2> QED
    BY <1>2, <1>12, <2>3
<1>15. \A j \in 1..Len(txQueue) : txQueue[j].late \/ txQueue[j].pri >= txQueue[i].pri
  <2> SUFFICES ASSUME NEW j \in 1..Len(txQueue), ~txQueue[j].late
               PROVE  txQueue[j].pri >= txQueue[v].pri
    BY <1>9
  <2>1. txQueue[v] \in Packets /\ txQueue[j] \in Packets
    BY <1>3, <1>8
  <2>2. txQueue[j].pri \in Int /\ txQueue[v].pri \in Int
    BY <2>1, PacketsAreOrdered DEF PacketSet
  <2>3. j <= v
    BY <1>3, <1>8
  <2>4. CASE j = v
    BY <2>2, <2>4
  <2>5. CASE j < v
    <3>1. ~Before(txQueue[v], txQueue[j])
      BY <1>3, <1>8, <2>5 DEF Sorted
    <3>2. txQueue[v].late \in BOOLEAN /\ txQueue[j].late \in BOOLEAN
      BY <2>1, PacketsAreOrdered DEF PacketSet
    <3>3. ~(txQueue[v].late # txQueue[j].late)
      BY <1>8, <3>2
    <3>4. ~(txQueue[v].pri # txQueue[j].pri /\ txQueue[v].pri > txQueue[j].pri)
      BY <3>1, <3>3 DEF Before
    <3> QED
      BY <2>2, <3>4
  <2> QED
    BY <1>3, <1>8, <2>3, <2>4, <2>5
<1> QED
  BY <1>8, <1>9, <1>13, <1>14, <1>15

\* The queue only drops a packet it holds when it is full, for a packet that is sent now
\* and has a higher priority, and then one of the lowest that are not late.
THEOREM JustEvictions == Spec => EvictionJust
<1> DEFINE Just ==
        \A i \in DOMAIN txQueue :
          out'[txQueue[i].n] = "evicted" =>
              LET v == txQueue[i]
              IN  /\ Len(txQueue) = MaxLen /\ Len(txQueue') = MaxLen
                  /\ ~v.late
                  /\ \E j \in DOMAIN txQueue' :
                         txQueue'[j].n = sent' /\ txQueue'[j].pri > v.pri
                  /\ \A j \in DOMAIN txQueue :
                         txQueue[j].late \/ txQueue[j].pri >= v.pri
<1>1. QueueInv /\ QueueInv' /\ [Next]_vars => [Just]_vars
  <2> SUFFICES ASSUME QueueInv, QueueInv', [Next]_vars,
                      NEW i \in 1..Len(txQueue), out'[txQueue[i].n] = "evicted"
               PROVE  /\ Len(txQueue) = MaxLen /\ Len(txQueue') = MaxLen
                      /\ ~txQueue[i].late
                      /\ \E j \in 1..Len(txQueue') :
                             txQueue'[j].n = sent' /\ txQueue'[j].pri > txQueue[i].pri
                      /\ \A j \in 1..Len(txQueue) :
                             txQueue[j].late \/ txQueue[j].pri >= txQueue[i].pri
    <3>1. QueueInv => DOMAIN txQueue = 1..Len(txQueue)
      BY DEF QueueInv, TypeOK
    <3>2. QueueInv' => DOMAIN txQueue' = 1..Len(txQueue')
      BY DEF QueueInv, TypeOK
    <3> QED
      BY <3>1, <3>2
  <2>0. /\ txQueue[i].n \in 1..MaxPackets /\ out[txQueue[i].n] = "queued"
        /\ out \in [1..MaxPackets -> Fates]
    <3>1. txQueue[i].n \in Numbers(txQueue) /\ txQueue \in Seq(Packets)
      BY DEF Numbers, QueueInv, TypeOK
    <3> QED
      BY <3>1, NumbersOfPackets DEF QueueInv, TypeOK, Waiting
  <2>1. CASE \E key \in Keys, pri \in Priorities, us \in BOOLEAN : Send(key, pri, us)
    BY <2>1, SendDropsJustly
  <2>2. CASE Transmit
    BY <2>0, <2>2 DEF Transmit
  <2>3. ASSUME NEW key \in Keys, CancelSending(key) PROVE FALSE
    BY <2>0, <2>3 DEF CancelSending
  <2>4. ASSUME NEW key \in Keys, ClampToLateRebroadcastWindow(key) PROVE FALSE
    BY <2>0, <2>4, ClampKeeps
  <2>5. CASE UNCHANGED vars
    BY <2>0, <2>5 DEF vars
  <2> QED
    BY <2>1, <2>2, <2>3, <2>4, <2>5 DEF Next
<1> QED
  BY <1>1, QueueInvariance, PTL DEF Spec, EvictionJust
================================================================================

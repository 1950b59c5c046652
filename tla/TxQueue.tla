-------------------------------- MODULE TxQueue --------------------------------
(***************************************************************************)
(* The transmit queue at work: the calls RadioLibInterface makes on it     *)
(* (send, the transmit step's dequeue, cancelSending and                   *)
(* clampToLateRebroadcastWindow), in every order, with copies of one       *)
(* packet, a queue at its limit and packets moving to the late window.     *)
(***************************************************************************)
EXTENDS MeshPacketQueue, FiniteSets

CONSTANTS Keys, Priorities, MaxPackets      \* bound: packets ever sent

ASSUME PrioritiesAssumption == Priorities \subseteq Nat
ASSUME MaxPacketsAssumption == MaxPackets \in Nat

VARIABLES
    txQueue,
    sent,           \* history: how many packets send() has been given
    out,            \* history: what happened to each, see Fates
    freed           \* history: how often each went back to packetPool
vars == << txQueue, sent, out, freed >>

\* n numbers the packets in the order of send(), at in the order they took
\* their place in the queue.
Packets == [key : Keys, pri : Priorities, us : BOOLEAN, late : BOOLEAN,
            n : 1..MaxPackets]
Fates == {"none", "queued", "refused", "evicted", "cancelled", "radio"}

TypeOK ==
    /\ txQueue \in Seq(Packets)
    /\ sent \in 0..MaxPackets
    /\ out \in [1..MaxPackets -> Fates]
    /\ freed \in [1..MaxPackets -> Nat]

Init ==
    /\ txQueue = << >> /\ sent = 0
    /\ out = [n \in 1..MaxPackets |-> "none"]
    /\ freed = [n \in 1..MaxPackets |-> 0]

\* What enqueue()'s result r for p does to the queue and the pool; a packet that
\* is refused is released by the caller.
Settle(p, r) ==
    LET gone == {r.freed[i].n : i \in DOMAIN r.freed}
                    \cup (IF r.ok THEN {} ELSE {p.n})
    IN /\ txQueue' = r.queue
       /\ freed' = [n \in 1..MaxPackets |-> freed[n] + IF n \in gone THEN 1 ELSE 0]
       /\ out' = [n \in 1..MaxPackets |->
                     IF n = p.n THEN (IF r.ok THEN "queued" ELSE "refused")
                     ELSE IF n \in gone THEN "evicted" ELSE out[n]]

\* RadioLibInterface::send() of a packet that may be sent.
MutantSendUnset(key, pri, us) ==
    /\ sent < MaxPackets
    /\ sent' = sent + 1
    /\ LET p == [key |-> key, pri |-> 0, us |-> us, late |-> FALSE, n |-> sent']
       IN  Settle(p, Enqueue(txQueue, p))
Send(key, pri, us) ==
    /\ sent < MaxPackets
    /\ sent' = sent + 1
    /\ LET p == [key |-> key, pri |-> pri, us |-> us, late |-> FALSE, n |-> sent']
       IN  Settle(p, Enqueue(txQueue, p))

\* The transmit step takes the front packet; completeSending() frees it.
Transmit ==
    /\ txQueue # << >>
    /\ LET p == Head(txQueue)
       IN  /\ out' = [out EXCEPT ![p.n] = "radio"]
           /\ freed' = [freed EXCEPT ![p.n] = @ + 1]
    /\ txQueue' = Tail(txQueue)
    /\ UNCHANGED sent

\* cancelSending(): one copy, the first, whatever its window.
CancelSending(key) ==
    /\ Find(txQueue, key, TRUE, TRUE) # 0
    /\ LET i == Find(txQueue, key, TRUE, TRUE)
           n == txQueue[i].n
       IN  /\ txQueue' = RemoveAt(txQueue, i)
           /\ freed' = [freed EXCEPT ![n] = @ + 1]
           /\ out' = [out EXCEPT ![n] = "cancelled"]
    /\ UNCHANGED sent

\* clampToLateRebroadcastWindow(): takes a packet that is not late yet out, sets
\* tx_after and puts it back.
MutantClampInPlace(key) ==
    /\ Find(txQueue, key, TRUE, FALSE) # 0
    /\ txQueue' = [txQueue EXCEPT ![Find(txQueue, key, TRUE, FALSE)].late = TRUE]
    /\ UNCHANGED << sent, out, freed >>
ClampToLateRebroadcastWindow(key) ==
    /\ Find(txQueue, key, TRUE, FALSE) # 0
    /\ LET i == Find(txQueue, key, TRUE, FALSE)
           p == [txQueue[i] EXCEPT !.late = TRUE]
       IN  Settle(p, Enqueue(RemoveAt(txQueue, i), p))
    /\ UNCHANGED sent

Next ==
    \/ \E key \in Keys, pri \in Priorities, us \in BOOLEAN : Send(key, pri, us)
    \/ Transmit
    \/ \E key \in Keys :
           CancelSending(key) \/ ClampToLateRebroadcastWindow(key)

Spec == Init /\ [][Next]_vars
-------------------------------------------------------------------------------
\* The queue never outgrows its limit and upper_bound always finds it sorted, so
\* the front is a packet none of the others must precede (enqueue, dequeue).
QueueOrdered == Len(txQueue) <= MaxLen /\ Sorted(txQueue)

\* Packets that rank the same leave in the order they were sent, however the
\* queue was filled, cancelled and overfilled in between, as long as none of
\* them was moved to the late window ("maintain a stable order", enqueue).
StableOrder ==
    \A i, j \in DOMAIN txQueue :
        /\ i < j /\ ~txQueue[i].late /\ ~txQueue[j].late
        /\ txQueue[i].pri = txQueue[j].pri /\ txQueue[i].us = txQueue[j].us
        => txQueue[i].n < txQueue[j].n

\* Every packet is in exactly one place: waiting in the queue and not freed, or
\* out of it and freed exactly once (nothing leaks, nothing is freed twice).
OwnedOnce ==
    \A n \in 1..MaxPackets :
        LET waiting == {i \in DOMAIN txQueue : txQueue[i].n = n}
        IN  /\ Cardinality(waiting) = (IF out[n] = "queued" THEN 1 ELSE 0)
            /\ freed[n] = (IF out[n] \in {"none", "queued"} THEN 0 ELSE 1)

\* A packet is only dropped for a newcomer of higher priority, when the queue is
\* full, and no other packet outside the late window ranks below it.
EvictionJust ==
    [][\A i \in DOMAIN txQueue :
          out'[txQueue[i].n] = "evicted" =>
              LET v == txQueue[i]
              IN  /\ Len(txQueue) = MaxLen /\ Len(txQueue') = MaxLen
                  /\ ~v.late
                  /\ \E j \in DOMAIN txQueue' :
                         txQueue'[j].n = sent' /\ txQueue'[j].pri > v.pri
                  /\ \A j \in DOMAIN txQueue :
                         txQueue[j].late \/ txQueue[j].pri >= v.pri]_vars
===============================================================================

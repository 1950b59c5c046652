---------------------------- MODULE MeshPacketQueue ----------------------------
(***************************************************************************)
(* The transmit queue of the mesh layer (mesh/MeshPacketQueue.cpp) as      *)
(* operators on sequences.  A packet is a record with at least the fields  *)
(*   key   its sender and packet id,                                       *)
(*   pri   its priority (fixPriority() has replaced UNSET),                *)
(*   us    whether this node is its sender,                                *)
(*   late  whether tx_after is set: it waits in the late window.           *)
(* An operator that may drop packets returns the queue and what it gave    *)
(* back to packetPool, as a sequence.                                      *)
(***************************************************************************)
EXTENDS Naturals, Sequences, SequencesExt

CONSTANT MaxLen         \* MAX_TX_QUEUE, 16 in the code

ASSUME MaxLenAssumption == MaxLen \in Nat \ {0}

\* CompareMeshPacketFunc: packets outside the late window first, then the higher
\* priority, then packets that are already on the mesh.
Before(p, q) ==
    IF p.late # q.late THEN ~p.late
    ELSE IF p.pri # q.pri THEN p.pri > q.pri
    ELSE ~p.us /\ q.us

\* std::upper_bound: the first position whose packet p must precede, so that p
\* comes behind its equals.
MutantLowerBound(q, p) ==
    CHOOSE i \in 1..(Len(q) + 1) :
        /\ \A j \in 1..(i - 1) : Before(q[j], p)
        /\ i <= Len(q) => ~Before(q[i], p)
UpperBound(q, p) ==
    CHOOSE i \in 1..(Len(q) + 1) :
        /\ \A j \in 1..(i - 1) : ~Before(p, q[j])
        /\ i <= Len(q) => Before(p, q[i])
Insert(q, p) == InsertAt(q, UpperBound(q, p), p)

\* replaceLowerPriorityPacket() looks at one packet only: the last one outside
\* the late window, or the first of the queue when all are late.
MutantVictimFirst(q) ==
    LET normal == {i \in DOMAIN q : ~q[i].late}
    IN  IF normal = {} THEN 1 ELSE Min(normal)
Victim(q) ==
    LET normal == {i \in DOMAIN q : ~q[i].late}
    IN  IF normal = {} THEN 1 ELSE Max(normal)
Replaceable(q, p) ==
    q # << >> /\ ~q[Victim(q)].late /\ q[Victim(q)].pri < p.pri

\* enqueue(): a full queue drops its victim for p, or refuses p.
MutantEnqueueNotFreed(q, p) ==
    IF Len(q) < MaxLen
    THEN [ok |-> TRUE, queue |-> Insert(q, p), freed |-> << >>]
    ELSE IF Replaceable(q, p)
    THEN [ok |-> TRUE, queue |-> Insert(RemoveAt(q, Victim(q)), p), freed |-> << >>]
    ELSE [ok |-> FALSE, queue |-> q, freed |-> << >>]
Enqueue(q, p) ==
    IF Len(q) < MaxLen
    THEN [ok |-> TRUE, queue |-> Insert(q, p), freed |-> << >>]
    ELSE IF Replaceable(q, p)
    THEN [ok |-> TRUE, queue |-> Insert(RemoveAt(q, Victim(q)), p),
          freed |-> << q[Victim(q)] >>]
    ELSE [ok |-> FALSE, queue |-> q, freed |-> << >>]

\* remove(): the first packet with this key in one of the wanted windows; 0 when
\* there is none.
Matches(q, key, normal, late) ==
    {i \in DOMAIN q : q[i].key = key /\ (IF q[i].late THEN late ELSE normal)}
Find(q, key, normal, late) ==
    LET m == Matches(q, key, normal, late) IN IF m = {} THEN 0 ELSE Min(m)

\* The order the queue keeps: no packet stands behind one it must precede.
Sorted(q) == \A i, j \in DOMAIN q : i < j => ~Before(q[j], q[i])
===============================================================================

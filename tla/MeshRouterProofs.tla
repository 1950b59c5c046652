--------------------------- MODULE MeshRouterProofs ---------------------------
(***************************************************************************)
(* What the routers promise on any network: whoever hears whom, whatever   *)
(* is lost, whichever nodes are routers, mute, without the key, silenced   *)
(* by their duty cycle or restarted.  A handler of MeshRouter is a         *)
(* composition of calls; each call is shown to lead from a sound state of  *)
(* its node to a sound one, given the packets that exist.                  *)
(***************************************************************************)
EXTENDS MeshRouter, SequenceTheorems, FiniteSetTheorems, WellFoundedInduction, TLAPS

\* Functions on part of a set.
Partial(D, R) == UNION {[E -> R] : E \in SUBSET D}

\* What never changes of a packet while it is copied from node to node.
Fact(p) == [from |-> p.from, id |-> p.id, to |-> p.to, request_id |-> p.request_id]
AllFacts == [from : Nodes, id : Nat \ {0}, to : Nodes \cup {Broadcast}, request_id : Nat]
KeyOfFact(x) == << x.from, x.id >>
Unique(M) == \A x, y \in M : KeyOfFact(x) = KeyOfFact(y) => x = y

\* The types of a history's record, of a retransmission and of a node.
Entries == {e \in [next_hop : Hop, relayed_by : Seq(Hop)] : Len(e.relayed_by) <= NumRelayers}
Retransmissions == [packet : Packets, numRetransmissions : 0..(NumReliableRetx - 1)]
NodeStates ==
    [recentPackets : Partial(Keys, Entries), pending : Partial(Keys, Retransmissions),
     txQueue : Seq(Packets), fromRadioQueue : Seq(Packets), next_hop : [Nodes -> Hop],
     ids : Nat, phone : SUBSET Packets, twice : BOOLEAN, dropped : SUBSET Packets,
     sent : Partial(Keys, Nat)]

\* The state of node n is sound, the facts of the packets that exist being M.
Holds(s, M) ==
    /\ \A i \in DOMAIN s.txQueue : Fact(s.txQueue[i]) \in M
    /\ \A i \in DOMAIN s.fromRadioQueue : Fact(s.fromRadioQueue[i]) \in M
    /\ \A p \in s.phone : Fact(p) \in M
    /\ \A k \in DOMAIN s.pending : Fact(s.pending[k].packet) \in M
Local(n, s) ==
    /\ Len(s.fromRadioQueue) <= MaxRx
    /\ \A i \in DOMAIN s.txQueue : s.txQueue[i].relay_node = n
    /\ \A k \in DOMAIN s.pending :
           Key(s.pending[k].packet) = k /\ s.pending[k].packet.to # n
Registry(n, s, M) ==
    /\ M \in SUBSET AllFacts /\ Unique(M)
    /\ \A x \in M : x.from = n => x.id <= s.ids
Sound(n, s, M) == s \in NodeStates /\ Local(n, s) /\ Holds(s, M) /\ Registry(n, s, M)

\* A packet waits in fromRadioQueue, or was thrown out of it.
Waits(s, q) == q \in s.dropped \/ \E i \in DOMAIN s.fromRadioQueue : s.fromRadioQueue[i] = q

\* From s node n comes to t, and the facts M grow to N: the packets it makes are
\* new and answer one that exists, in the name of n itself or the packet c that
\* is being handled; of what the phone, the history and the queue from the radio
\* hold nothing is lost, and of its own retransmissions those in L at most.
MadeBy(n, s, M, N, c) ==
    \A x \in N \ M :
        /\ x.from = n /\ x.id > s.ids
        /\ x.request_id # 0 => /\ \E y \in N : KeyOfFact(y) = << x.to, x.request_id >>
                               /\ x.to = n \/ << x.to, x.request_id >> = c
Keeps(s, t) ==
    /\ s.ids <= t.ids /\ t.phone = s.phone /\ (t.twice <=> s.twice)
    /\ \A q \in Packets : q.request_id # 0 /\ Waits(s, q) => Waits(t, q)
    /\ \A k \in DOMAIN s.recentPackets : k \in DOMAIN t.recentPackets
Records(n, s, t, N) ==
    \A k \in DOMAIN t.recentPackets :
        k \in DOMAIN s.recentPackets \/ \E x \in N : KeyOfFact(x) = k /\ x.to # n
Retries(n, s, t, L) ==
    \A k \in DOMAIN s.pending : k[1] = n => k \in DOMAIN t.pending \/ k \in L
Leads(n, s, t, M, N, c, L) ==
    /\ M \subseteq N /\ MadeBy(n, s, M, N, c)
    /\ Keeps(s, t) /\ Records(n, s, t, N) /\ Retries(n, s, t, L)
-------------------------------------------------------------------------------
\* Functions on part of a set. Put makes one of the same kind,
LEMMA PutType ==
    ASSUME NEW D, NEW R, NEW f \in Partial(D, R), NEW k \in D, NEW v \in R
    PROVE  Put(f, k, v) \in Partial(D, R)
<1>1. PICK E \in SUBSET D : f \in [E -> R]
  BY DEF Partial
<1>2. Put(f, k, v) \in [E \cup {k} -> R]
  BY <1>1 DEF Put
<1>3. E \cup {k} \in SUBSET D
  BY <1>1
<1> QED
  BY <1>2, <1>3 DEF Partial

\* Put has one argument more,
LEMMA PutDomain ==
    ASSUME NEW f, NEW k, NEW v
    PROVE  DOMAIN Put(f, k, v) = DOMAIN f \cup {k}
  BY DEF Put

\* the new value there, and the old ones elsewhere.
LEMMA PutValues ==
    ASSUME NEW f, NEW k, NEW v
    PROVE  /\ Put(f, k, v)[k] = v
           /\ \A j \in DOMAIN f : j # k => Put(f, k, v)[j] = f[j]
  BY DEF Put

\* Restrict has fewer arguments.
LEMMA RestrictResult ==
    ASSUME NEW D, NEW R, NEW f \in Partial(D, R), NEW S \in SUBSET DOMAIN f
    PROVE  /\ Restrict(f, S) \in Partial(D, R)
           /\ DOMAIN Restrict(f, S) = S
           /\ \A j \in S : Restrict(f, S)[j] = f[j]
<1>1. PICK E \in SUBSET D : f \in [E -> R]
  BY DEF Partial
<1>2. Restrict(f, S) \in [S -> R] /\ S \in SUBSET D
  BY <1>1 DEF Restrict
<1> QED
  BY <1>2 DEF Partial, Restrict

\* The arguments and values of a partial function, and one value replaced.
LEMMA PartialFacts ==
    ASSUME NEW D, NEW R, NEW f \in Partial(D, R)
    PROVE  /\ DOMAIN f \subseteq D
           /\ \A k \in DOMAIN f : f[k] \in R
           /\ \A k \in DOMAIN f, v \in R :
                  /\ [f EXCEPT ![k] = v] \in Partial(D, R)
                  /\ DOMAIN [f EXCEPT ![k] = v] = DOMAIN f
<1>1. PICK E \in SUBSET D : f \in [E -> R]
  BY DEF Partial
<1>2. \A k \in DOMAIN f, v \in R : [f EXCEPT ![k] = v] \in [E -> R]
  BY <1>1
<1> QED
  BY <1>1, <1>2 DEF Partial

\* A function on nothing.
LEMMA PartialEmpty ==
    ASSUME NEW D, NEW R
    PROVE  << >> \in Partial(D, R) /\ DOMAIN << >> = {}
<1>1. << >> \in [{} -> R] /\ {} \in SUBSET D
  OBVIOUS
<1> QED
  BY <1>1 DEF Partial
-------------------------------------------------------------------------------
\* Nothing happens.
LEMMA Stays ==
    ASSUME NEW n, NEW s, NEW M, NEW c, NEW L, s.ids \in Nat
    PROVE  Leads(n, s, s, M, M, c, L)
  BY DEF Leads, MadeBy, Keeps, Records, Retries

\* One call after another.
LEMMA Follows ==
    ASSUME NEW n, NEW s, NEW t, NEW u, NEW M, NEW N, NEW O, NEW c, NEW L,
           s.ids \in Nat, t.ids \in Nat, u.ids \in Nat,
           N \in SUBSET AllFacts, O \in SUBSET AllFacts,
           Leads(n, s, t, M, N, c, L), Leads(n, t, u, N, O, c, L)
    PROVE  Leads(n, s, u, M, O, c, L)
<1>1. M \subseteq O
  BY DEF Leads
<1>2. MadeBy(n, s, M, O, c)
  <2> SUFFICES ASSUME NEW x \in O \ M
               PROVE  /\ x.from = n /\ x.id > s.ids
                      /\ x.request_id # 0
                           => /\ \E y \in O : KeyOfFact(y) = << x.to, x.request_id >>
                              /\ x.to = n \/ << x.to, x.request_id >> = c
    BY DEF MadeBy
  <2>1. CASE x \in N
    BY <2>1 DEF Leads, MadeBy
  <2>2. CASE x \notin N
    <3>1. x.from = n /\ x.id > t.ids /\ s.ids <= t.ids /\ x.id \in Nat
      BY <2>2 DEF Leads, MadeBy, Keeps, AllFacts
    <3>2. x.id > s.ids
      BY <3>1
    <3> QED
      BY <2>2, <3>1, <3>2 DEF Leads, MadeBy
  <2> QED
    BY <2>1, <2>2
<1>3. Keeps(s, u)
  BY DEF Leads, Keeps
<1>4. Records(n, s, u, O)
  BY DEF Leads, Records
<1>5. Retries(n, s, u, L)
  BY DEF Leads, Retries
<1> QED
  BY <1>1, <1>2, <1>3, <1>4, <1>5 DEF Leads

\* A packet's key and facts.
LEMMA PacketFacts ==
    ASSUME NEW p \in Packets
    PROVE  /\ Key(p) \in Keys /\ Key(p)[1] = p.from /\ Key(p) = << p.from, p.id >>
           /\ Fact(p) \in AllFacts /\ KeyOfFact(Fact(p)) = Key(p)
           /\ Fact(p).to = p.to /\ Fact(p).from = p.from
           /\ Fact(p).id = p.id /\ Fact(p).request_id = p.request_id
           /\ p.from \in Nodes /\ p.to \in Nodes \cup {Broadcast} /\ p.id \in Nat \ {0}
           /\ p.request_id \in Nat /\ p.relay_node \in Hop /\ p.next_hop \in Hop
           /\ p.hop_limit \in 0..7 /\ p.hop_start \in 0..7
           /\ p.want_ack \in BOOLEAN
  BY DEF Packets, Key, Keys, Fact, AllFacts, KeyOfFact

\* What a sound state has, for the steps that only need its types.
LEMMA SoundTypes ==
    ASSUME NEW n, NEW s, NEW M, Sound(n, s, M)
    PROVE  /\ s \in NodeStates /\ s.ids \in Nat /\ M \in SUBSET AllFacts
           /\ s.recentPackets \in Partial(Keys, Entries)
           /\ s.pending \in Partial(Keys, Retransmissions)
           /\ s.txQueue \in Seq(Packets) /\ s.fromRadioQueue \in Seq(Packets)
           /\ s.next_hop \in [Nodes -> Hop] /\ s.phone \in SUBSET Packets
           /\ s.dropped \in SUBSET Packets
  BY DEF Sound, Registry, NodeStates
-------------------------------------------------------------------------------
\* Two sequences joined are no longer than together.
LEMMA Joined ==
    ASSUME NEW S, NEW u \in Seq(S), NEW v \in Seq(S), NEW a \in Nat, NEW b \in Nat,
           Len(u) <= a, Len(v) <= b
    PROVE  u \o v \in Seq(S) /\ Len(u \o v) <= a + b
<1>1. u \o v \in Seq(S) /\ Len(u \o v) = Len(u) + Len(v)
  BY ConcatProperties
<1>2. Len(u) \in Nat /\ Len(v) \in Nat
  OBVIOUS
<1> QED
  BY <1>1, <1>2

\* The relayers without one of them.
LEMMA WithoutResult ==
    ASSUME NEW n, NEW by \in Seq(Hop), Len(by) <= NumRelayers
    PROVE  Without(n, by) \in Seq(Hop) /\ Len(Without(n, by)) <= NumRelayers
<1> DEFINE kept(i) == IF i \in DOMAIN by /\ by[i] # n THEN << by[i] >> ELSE << >>
<1>1. \A i \in Nat : kept(i) \in Seq(Hop) /\ Len(kept(i)) <= 1
  OBVIOUS
<1>2. Without(n, by) = kept(1) \o kept(2) \o kept(3)
  BY DEF Without
<1> HIDE DEF kept
<1>3. /\ kept(1) \in Seq(Hop) /\ kept(2) \in Seq(Hop) /\ kept(3) \in Seq(Hop)
      /\ Len(kept(1)) <= 1 /\ Len(kept(2)) <= 1 /\ Len(kept(3)) <= 1
  BY <1>1
<1>4. kept(1) \o kept(2) \in Seq(Hop) /\ Len(kept(1) \o kept(2)) <= 1 + 1
  BY <1>3, Joined
<1>5. (kept(1) \o kept(2)) \o kept(3) \in Seq(Hop)
      /\ Len((kept(1) \o kept(2)) \o kept(3)) <= (1 + 1) + 1
  BY <1>3, <1>4, Joined
<1> QED
  BY <1>2, <1>5 DEF NumRelayers

\* removeRelayer() only changes the relayers of one record.
LEMMA RemoveRelayerSafe ==
    ASSUME NEW n, NEW s, NEW M, Sound(n, s, M), NEW c, NEW L, NEW k
    PROVE  LET t == RemoveRelayer(n, s, k)
           IN  Sound(n, t, M) /\ Leads(n, s, t, M, M, c, L) /\ t.pending = s.pending
<1> DEFINE t == RemoveRelayer(n, s, k)
<1>1. CASE k \notin DOMAIN s.recentPackets
  <2>1. t = s
    BY <1>1 DEF RemoveRelayer
  <2> QED
    BY <2>1, SoundTypes, Stays
<1>2. CASE k \in DOMAIN s.recentPackets
  <2> DEFINE e == [s.recentPackets[k] EXCEPT !.relayed_by = Without(n, @)]
             h == [s.recentPackets EXCEPT ![k] = e]
  <2>1. s.recentPackets[k] \in Entries
    BY <1>2, SoundTypes, PartialFacts
  <2>2. e \in Entries
    BY <2>1, WithoutResult DEF Entries
  <2>3. h \in Partial(Keys, Entries) /\ DOMAIN h = DOMAIN s.recentPackets
    BY <1>2, <2>2, SoundTypes, PartialFacts
  <2>4. t = [s EXCEPT !.recentPackets = h]
    BY <1>2 DEF RemoveRelayer
  <2> HIDE DEF h, t
  <2>5. /\ t \in NodeStates /\ t.recentPackets = h /\ t.pending = s.pending
        /\ t.txQueue = s.txQueue /\ t.fromRadioQueue = s.fromRadioQueue
        /\ t.ids = s.ids /\ t.phone = s.phone /\ (t.twice <=> s.twice) /\ t.dropped = s.dropped
    <3>1. s \in NodeStates
      BY SoundTypes
    <3> QED
      BY <2>3, <2>4, <3>1 DEF NodeStates
  <2>6. Sound(n, t, M)
    BY <2>5 DEF Sound, Local, Holds, Registry
  <2>7. Leads(n, s, t, M, M, c, L)
    BY <2>3, <2>5, SoundTypes DEF Leads, MadeBy, Keeps, Waits, Records, Retries
  <2> QED
    BY <2>5, <2>6, <2>7 DEF t
<1> QED
  BY <1>1, <1>2
-------------------------------------------------------------------------------
\* A set of numbers that is not empty has a least one.
LEMMA LeastNumber ==
    ASSUME NEW T \in SUBSET Nat, T # {}
    PROVE  \E x \in T : \A y \in T : x <= y
<1> DEFINE R == {ss \in Nat \X Nat : ss[1] < ss[2]}
<1>1. IsWellFoundedOn(R, Nat)
  BY NatLessThanWellFounded DEF OpToRel
<1>2. PICK x \in T : \A y \in T : << y, x >> \notin R
  <2> HIDE DEF R
  <2> QED
    BY <1>1, WFMin
<1>3. \A y \in T : y < x => << y, x >> \in R
  OBVIOUS
<1>4. \A y \in T : ~ (y < x)
  <2> HIDE DEF R
  <2> QED
    BY <1>2, <1>3, Zenon
<1>5. \A y \in T : x <= y
  BY <1>4
<1> QED
  BY <1>5

\* One place of a sequence left out: what remains was in it.
LEMMA RemoveAtResult ==
    ASSUME NEW S, NEW q \in Seq(S), NEW i \in 1..Len(q)
    PROVE  /\ RemoveAt(q, i) \in Seq(S)
           /\ \A j \in DOMAIN RemoveAt(q, i) : \E l \in DOMAIN q : RemoveAt(q, i)[j] = q[l]
<1> DEFINE u == SubSeq(q, 1, i - 1)
           v == SubSeq(q, i + 1, Len(q))
<1>1. i \in Nat /\ i >= 1 /\ Len(q) \in Nat /\ i <= Len(q)
  OBVIOUS
<1>2. u \in Seq(S) /\ Len(u) = i - 1 /\ \A j \in 1..(i - 1) : u[j] = q[j]
  BY <1>1
<1>3. v \in Seq(S) /\ Len(v) = Len(q) - i /\ \A j \in 1..(Len(q) - i) : v[j] = q[i + j]
  BY <1>1
<1>4. RemoveAt(q, i) = u \o v
  BY DEF RemoveAt
<1> HIDE DEF u, v
<1>5. /\ u \o v \in Seq(S) /\ Len(u \o v) = Len(u) + Len(v)
      /\ \A j \in 1..(Len(u) + Len(v)) :
             (u \o v)[j] = IF j <= Len(u) THEN u[j] ELSE v[j - Len(u)]
  BY <1>2, <1>3, ConcatProperties
<1>6. ASSUME NEW j \in DOMAIN (u \o v)
      PROVE  \E l \in DOMAIN q : (u \o v)[j] = q[l]
  <2>1. j \in 1..(Len(u) + Len(v)) /\ j \in Nat
    BY <1>5
  <2>2. CASE j <= Len(u)
    <3>1. (u \o v)[j] = u[j] /\ j \in 1..(i - 1) /\ j \in DOMAIN q
      BY <1>1, <1>2, <1>5, <2>1, <2>2
    <3> QED
      BY <1>2, <3>1
  <2>3. CASE ~(j <= Len(u))
    <3>1. j - Len(u) \in 1..(Len(q) - i) /\ i + (j - Len(u)) \in DOMAIN q
      BY <1>1, <1>2, <1>3, <2>1, <2>3
    <3>2. (u \o v)[j] = v[j - Len(u)]
      BY <1>5, <2>1, <2>3
    <3>3. v[j - Len(u)] = q[i + (j - Len(u))]
      BY <1>3, <3>1
    <3> QED
      BY <3>1, <3>2, <3>3
  <2> QED
    BY <2>2, <2>3
<1> QED
  BY <1>4, <1>5, <1>6

\* A packet that is found in the transmit queue is found first somewhere.
LEMMA FirstCopy ==
    ASSUME NEW s, s.txQueue \in Seq(Packets), NEW k, FindInTxQueue(s, k)
    PROVE  \E h \in DOMAIN s.txQueue : /\ Key(s.txQueue[h]) = k
                                      /\ \A j \in 1..(h - 1) : Key(s.txQueue[j]) # k
<1> DEFINE T == {h \in DOMAIN s.txQueue : Key(s.txQueue[h]) = k}
<1>1. T \in SUBSET Nat /\ T # {}
  BY DEF FindInTxQueue
<1>2. PICK h \in T : \A y \in T : h <= y
  <2> HIDE DEF T
  <2> QED
    BY <1>1, LeastNumber
<1>3. \A j \in 1..(h - 1) : j \notin T /\ j \in DOMAIN s.txQueue
  BY <1>2
<1> QED
  BY <1>2, <1>3

\* cancelSending() takes a packet out of the transmit queue, and this node from
\* among its relayers.
LEMMA CancelSendingSafe ==
    ASSUME NEW n, NEW s, NEW M, Sound(n, s, M), NEW c, NEW L, NEW k
    PROVE  LET t == CancelSending(n, s, k)
           IN  Sound(n, t, M) /\ Leads(n, s, t, M, M, c, L) /\ t.pending = s.pending
<1> DEFINE t == CancelSending(n, s, k)
<1>1. CASE ~FindInTxQueue(s, k)
  <2>1. t = s
    BY <1>1 DEF CancelSending
  <2> QED
    BY <2>1, SoundTypes, Stays
<1>2. CASE FindInTxQueue(s, k)
  <2>1. s.txQueue \in Seq(Packets) /\ s \in NodeStates /\ s.ids \in Nat
    BY SoundTypes
  <2> DEFINE First(i) == Key(s.txQueue[i]) = k /\ \A j \in 1..(i - 1) : Key(s.txQueue[j]) # k
             i == CHOOSE i \in DOMAIN s.txQueue : First(i)
             w == RemoveAt(s.txQueue, i)
             r == [s EXCEPT !.txQueue = w]
  <2>2. \E h \in DOMAIN s.txQueue : First(h)
    BY <1>2, <2>1, FirstCopy
  <2>3. i \in 1..Len(s.txQueue)
    BY <2>1, <2>2
  <2>4. t = RemoveRelayer(n, r, k)
    BY <1>2 DEF CancelSending
  <2> HIDE DEF i
  <2>5. /\ w \in Seq(Packets)
        /\ \A j \in DOMAIN w : \E l \in DOMAIN s.txQueue : w[j] = s.txQueue[l]
    BY <2>1, <2>3, RemoveAtResult
  <2> HIDE DEF w
  <2>6. /\ r \in NodeStates /\ r.recentPackets = s.recentPackets /\ r.pending = s.pending
        /\ r.txQueue = w /\ r.fromRadioQueue = s.fromRadioQueue
        /\ r.ids = s.ids /\ r.phone = s.phone /\ (r.twice <=> s.twice) /\ r.dropped = s.dropped
    BY <2>1, <2>5 DEF NodeStates
  <2> HIDE DEF r, t
  <2>7. Sound(n, r, M)
    <3>1. Local(n, r)
      BY <2>5, <2>6 DEF Sound, Local
    <3>2. Holds(r, M)
      BY <2>5, <2>6 DEF Sound, Holds
    <3> QED
      BY <2>6, <3>1, <3>2 DEF Sound, Registry
  <2>8. Leads(n, s, r, M, M, c, L)
    BY <2>1, <2>6 DEF Leads, MadeBy, Keeps, Waits, Records, Retries
  <2>9. Sound(n, t, M) /\ Leads(n, r, t, M, M, c, L) /\ t.pending = r.pending
    BY <2>4, <2>7, RemoveRelayerSafe
  <2>10. Leads(n, s, t, M, M, c, L)
    BY <2>7, <2>8, <2>9, SoundTypes, Follows
  <2> QED
    BY <2>6, <2>9, <2>10 DEF t
<1> QED
  BY <1>1, <1>2
-------------------------------------------------------------------------------
\* stopRetransmission() drops the record of one packet, which the caller answers
\* for when the packet is this node's own.
LEMMA StopRetransmissionSafe ==
    ASSUME NEW n, NEW s, NEW M, Sound(n, s, M), NEW c, NEW L, NEW k, k \in L \/ k[1] # n
    PROVE  LET t == StopRetransmission(n, s, k)
           IN  /\ Sound(n, t, M) /\ Leads(n, s, t, M, M, c, L)
               /\ \A j \in DOMAIN s.pending : j # k => j \in DOMAIN t.pending
               /\ \A j \in DOMAIN t.pending : j \in DOMAIN s.pending
               /\ k \notin DOMAIN t.pending
<1> DEFINE t == StopRetransmission(n, s, k)
<1>1. CASE k \notin DOMAIN s.pending
  <2>1. t = s
    BY <1>1 DEF StopRetransmission
  <2> QED
    BY <1>1, <2>1, SoundTypes, Stays
<1>2. CASE k \in DOMAIN s.pending
  <2>1. PICK r : /\ Sound(n, r, M) /\ Leads(n, s, r, M, M, c, L) /\ r.pending = s.pending
                 /\ t = [r EXCEPT !.pending = Restrict(@, DOMAIN @ \ {k})]
    <3> DEFINE rec == s.pending[k]
               cancels == /\ rec.numRetransmissions < NumReliableRetx - 1
                          /\ rec.packet.from = n \/ n \notin Routers
               r == IF cancels THEN CancelSending(n, s, k) ELSE s
    <3>1. t = [r EXCEPT !.pending = Restrict(@, DOMAIN @ \ {k})]
      BY <1>2 DEF StopRetransmission
    <3>2. Sound(n, r, M) /\ Leads(n, s, r, M, M, c, L) /\ r.pending = s.pending
      <4>1. CASE cancels
        BY <4>1, CancelSendingSafe
      <4>2. CASE ~cancels
        <5>1. r = s
          BY <4>2
        <5> QED
          BY <5>1, SoundTypes, Stays
      <4> QED
        BY <4>1, <4>2
    <3> QED
      BY <3>1, <3>2
  <2> DEFINE f == Restrict(r.pending, DOMAIN r.pending \ {k})
  <2>2. r \in NodeStates /\ r.pending \in Partial(Keys, Retransmissions) /\ r.ids \in Nat
    BY <2>1, SoundTypes
  <2>3. /\ f \in Partial(Keys, Retransmissions) /\ DOMAIN f = DOMAIN r.pending \ {k}
        /\ \A j \in DOMAIN f : f[j] = r.pending[j]
    BY <2>2, RestrictResult
  <2>4. t = [r EXCEPT !.pending = f]
    BY <2>1
  <2> HIDE DEF f, t
  <2>5. /\ t \in NodeStates /\ t.recentPackets = r.recentPackets /\ t.pending = f
        /\ t.txQueue = r.txQueue /\ t.fromRadioQueue = r.fromRadioQueue
        /\ t.ids = r.ids /\ t.phone = r.phone /\ (t.twice <=> r.twice) /\ t.dropped = r.dropped
    BY <2>2, <2>3, <2>4 DEF NodeStates
  <2>6. Sound(n, t, M)
    <3>1. Local(n, t)
      BY <2>1, <2>3, <2>5 DEF Sound, Local
    <3>2. Holds(t, M)
      BY <2>1, <2>3, <2>5 DEF Sound, Holds
    <3> QED
      BY <2>1, <2>5, <3>1, <3>2 DEF Sound, Registry
  <2>7. Leads(n, r, t, M, M, c, L)
    BY <2>2, <2>3, <2>5 DEF Leads, MadeBy, Keeps, Waits, Records, Retries
  <2>8. Leads(n, s, t, M, M, c, L)
    <3>1. s.ids \in Nat /\ r.ids \in Nat /\ t.ids \in Nat /\ M \in SUBSET AllFacts
      BY <2>1, <2>6, SoundTypes
    <3> QED
      BY <2>1, <2>7, <3>1, Follows
  <2>9. /\ \A j \in DOMAIN s.pending : j # k => j \in DOMAIN t.pending
        /\ \A j \in DOMAIN t.pending : j \in DOMAIN s.pending
        /\ k \notin DOMAIN t.pending
    BY <2>1, <2>3, <2>5
  <2> QED
    BY <2>6, <2>8, <2>9 DEF t
<1> QED
  BY <1>1, <1>2

\* The head and the tail of a sequence.
LEMMA TailResult ==
    ASSUME NEW S, NEW q \in Seq(S), q # << >>
    PROVE  /\ Head(q) \in S /\ Tail(q) \in Seq(S)
           /\ Len(q) \in Nat /\ Len(q) >= 1 /\ Len(Tail(q)) \in Nat
           /\ Len(Tail(q)) = Len(q) - 1
           /\ \A i \in 1..(Len(q) - 1) : Tail(q)[i] = q[i + 1]
           /\ 1 \in DOMAIN q /\ Head(q) = q[1]
           /\ \A l \in DOMAIN Tail(q) : l + 1 \in DOMAIN q /\ Tail(q)[l] = q[l + 1]
           /\ \A l \in DOMAIN q : l # 1 => l - 1 \in DOMAIN Tail(q) /\ Tail(q)[l - 1] = q[l]
<1>1. Len(q) \in Nat \ {0}
  BY EmptySeq
<1>2. /\ Head(q) \in S /\ Tail(q) \in Seq(S) /\ Len(Tail(q)) = Len(q) - 1
      /\ \A i \in 1..Len(Tail(q)) : Tail(q)[i] = q[i + 1]
  BY HeadTailProperties
<1>3. PICK r \in Seq(S) : r = Tail(q)
  BY <1>2
<1>4. DOMAIN q = 1..Len(q) /\ DOMAIN r = 1..Len(r) /\ Len(r) = Len(q) - 1
  BY <1>2, <1>3
<1>5. Head(q) = q[1] /\ 1 \in DOMAIN q
  BY <1>1, <1>4
<1>6. \A i \in 1..(Len(q) - 1) : r[i] = q[i + 1]
  BY <1>2, <1>3
<1>7. \A l \in DOMAIN r : l + 1 \in DOMAIN q /\ r[l] = q[l + 1]
  BY <1>1, <1>4, <1>6
<1>8. ASSUME NEW l \in DOMAIN q, l # 1
      PROVE  l - 1 \in DOMAIN r /\ r[l - 1] = q[l]
  <2>1. l \in Nat /\ l - 1 \in 1..(Len(q) - 1) /\ (l - 1) + 1 = l
    BY <1>1, <1>4, <1>8
  <2> QED
    BY <1>4, <1>6, <2>1
<1> QED
  BY <1>1, <1>2, <1>3, <1>4, <1>5, <1>6, <1>7, <1>8

\* enqueueReceivedMessage() appends a packet; at the limit the oldest goes.
LEMMA EnqueueSafe ==
    ASSUME NEW n, NEW s, NEW M, Sound(n, s, M), NEW c, NEW L,
           NEW p \in Packets, Fact(p) \in M
    PROVE  LET t == EnqueueReceivedMessage(s, p)
           IN  /\ Sound(n, t, M) /\ Leads(n, s, t, M, M, c, L)
               /\ Waits(t, p) /\ t.pending = s.pending
<1> DEFINE t == EnqueueReceivedMessage(s, p)
           q == s.fromRadioQueue
<1>1. q \in Seq(Packets) /\ s \in NodeStates /\ s.ids \in Nat /\ s.dropped \in SUBSET Packets
  BY SoundTypes
<1>2. MaxRx \in Nat /\ MaxRx >= 1
  BY RouterAssumption
<1>3. ASSUME NEW w \in Seq(Packets), NEW d \in SUBSET Packets,
             t.fromRadioQueue = w, t.dropped = d, t \in NodeStates,
             t.recentPackets = s.recentPackets, t.pending = s.pending,
             t.txQueue = s.txQueue, t.ids = s.ids, t.phone = s.phone, t.twice <=> s.twice,
             Len(w) <= MaxRx, s.dropped \subseteq d,
             \A i \in DOMAIN w : w[i] = p \/ \E l \in DOMAIN q : w[i] = q[l],
             \E i \in DOMAIN w : w[i] = p,
             \A l \in DOMAIN q : q[l].request_id # 0 => q[l] \in d \/ \E i \in DOMAIN w : w[i] = q[l]
      PROVE  /\ Sound(n, t, M) /\ Leads(n, s, t, M, M, c, L)
             /\ Waits(t, p) /\ t.pending = s.pending
  <2> HIDE DEF t
  <2>1. Local(n, t)
    BY <1>3 DEF Sound, Local
  <2>2. Holds(t, M)
    BY <1>3 DEF Sound, Holds
  <2>3. Sound(n, t, M)
    BY <1>3, <2>1, <2>2 DEF Sound, Registry
  <2>4. \A o \in Packets : o.request_id # 0 /\ Waits(s, o) => Waits(t, o)
    BY <1>3 DEF Waits
  <2>5. Leads(n, s, t, M, M, c, L)
    BY <1>1, <1>3, <2>4 DEF Leads, MadeBy, Keeps, Records, Retries
  <2> QED
    BY <1>3, <2>3, <2>5 DEF Waits
<1>4. CASE Len(q) < MaxRx
  <2> DEFINE w == Append(q, p)
  <2>1. t = [s EXCEPT !.fromRadioQueue = w]
    BY <1>4 DEF EnqueueReceivedMessage
  <2>2. /\ w \in Seq(Packets) /\ Len(w) = Len(q) + 1
        /\ \A i \in DOMAIN q : i \in DOMAIN w /\ w[i] = q[i]
        /\ \A i \in DOMAIN w : w[i] = p \/ \E l \in DOMAIN q : w[i] = q[l]
        /\ Len(q) + 1 \in DOMAIN w /\ w[Len(q) + 1] = p
    BY <1>1
  <2> HIDE DEF w, t
  <2>3. /\ t \in NodeStates /\ t.recentPackets = s.recentPackets /\ t.pending = s.pending
        /\ t.txQueue = s.txQueue /\ t.fromRadioQueue = w
        /\ t.ids = s.ids /\ t.phone = s.phone /\ (t.twice <=> s.twice) /\ t.dropped = s.dropped
    BY <1>1, <2>1, <2>2 DEF NodeStates
  <2>4. Len(w) <= MaxRx
    BY <1>1, <1>2, <1>4, <2>2
  <2> QED
    BY <1>1, <1>3, <2>2, <2>3, <2>4 DEF t
<1>5. CASE ~(Len(q) < MaxRx)
  <2> DEFINE w == Append(Tail(q), p)
             d == s.dropped \cup {o \in {Head(q)} : o.request_id # 0}
  <2>1. t = [s EXCEPT !.fromRadioQueue = w, !.dropped = d]
    BY <1>5 DEF EnqueueReceivedMessage
  <2>2. Len(q) \in Nat /\ Len(q) >= 1 /\ Len(q) <= MaxRx
    BY <1>1, <1>2, <1>5 DEF Sound, Local
  <2>0. q # << >>
    BY <1>1, <2>2, EmptySeq
  <2>3. PICK r \in Seq(Packets) :
           /\ r = Tail(q) /\ Len(r) = Len(q) - 1 /\ Len(r) \in Nat
           /\ \A l \in DOMAIN r : l + 1 \in DOMAIN q /\ r[l] = q[l + 1]
           /\ \A l \in DOMAIN q : l # 1 => l - 1 \in DOMAIN r /\ r[l - 1] = q[l]
    <3>1. q \in Seq(Packets)
      BY <1>1
    <3> HIDE DEF q
    <3>2. /\ Tail(q) \in Seq(Packets) /\ Len(Tail(q)) = Len(q) - 1 /\ Len(Tail(q)) \in Nat
          /\ \A l \in DOMAIN Tail(q) : l + 1 \in DOMAIN q /\ Tail(q)[l] = q[l + 1]
          /\ \A l \in DOMAIN q : l # 1 => l - 1 \in DOMAIN Tail(q) /\ Tail(q)[l - 1] = q[l]
      BY <2>0, <3>1, TailResult
    <3> QED
      BY <3>2
  <2>4. Head(q) = q[1] /\ 1 \in DOMAIN q /\ q[1] \in Packets
    BY <1>1, <2>2
  <2>5. d \in SUBSET Packets /\ s.dropped \subseteq d /\ (q[1].request_id # 0 => q[1] \in d)
    BY <1>1, <2>4
  <2>6. /\ w \in Seq(Packets) /\ Len(w) = Len(r) + 1
        /\ \A i \in DOMAIN r : i \in DOMAIN w /\ w[i] = r[i]
        /\ \A i \in DOMAIN w : w[i] = p \/ \E l \in DOMAIN r : w[i] = r[l]
        /\ Len(r) + 1 \in DOMAIN w /\ w[Len(r) + 1] = p
    BY <2>3
  <2> HIDE DEF w, d, t
  <2>9. /\ t \in NodeStates /\ t.recentPackets = s.recentPackets /\ t.pending = s.pending
        /\ t.txQueue = s.txQueue /\ t.fromRadioQueue = w
        /\ t.ids = s.ids /\ t.phone = s.phone /\ (t.twice <=> s.twice) /\ t.dropped = d
    BY <1>1, <2>1, <2>5, <2>6 DEF NodeStates
  <2>10. Len(w) <= MaxRx
    BY <2>2, <2>3, <2>6
  <2>11. \A i \in DOMAIN w : w[i] = p \/ \E l \in DOMAIN q : w[i] = q[l]
    BY <2>3, <2>6
  <2>12. ASSUME NEW l \in DOMAIN q, q[l].request_id # 0
         PROVE  q[l] \in d \/ \E i \in DOMAIN w : w[i] = q[l]
    <3>1. CASE l = 1
      BY <2>5, <2>12, <3>1
    <3>2. CASE l # 1
      <4>1. l - 1 \in DOMAIN r /\ r[l - 1] = q[l]
        BY <2>3, <3>2
      <4>2. l - 1 \in DOMAIN w /\ w[l - 1] = q[l]
        BY <2>6, <4>1
      <4> QED
        BY <4>2
    <3> QED
      BY <3>1, <3>2
  <2> QED
    BY <1>3, <2>5, <2>6, <2>9, <2>10, <2>11, <2>12 DEF t
<1> QED
  BY <1>4, <1>5
-------------------------------------------------------------------------------
\* A new packet gets the next id.
LEMMA NewPacketResult ==
    ASSUME NEW n \in Nodes, NEW s, s.ids \in Nat,
           NEW to \in Nodes \cup {Broadcast}, NEW request \in Nat,
           NEW error \in Reasons,
           NEW hops \in 0..7
    PROVE  NewPacket(n, s, to, request, error, hops) \in Packets
<1> DEFINE i == s.ids + 1
<1>1. i \in Nat \ {0} /\ None \in Hop
  BY DEF Hop
<1>2. NewPacket(n, s, to, request, error, hops) =
        [from |-> n, to |-> to, id |-> i, want_ack |-> FALSE, want_response |-> FALSE,
         request_id |-> request, error_reason |-> error, hop_limit |-> hops, hop_start |-> 0,
         next_hop |-> None, relay_node |-> None]
  BY DEF NewPacket
<1> HIDE DEF i
<1>3. FALSE \in BOOLEAN /\ 0 \in 0..7
  OBVIOUS
<1> QED
  BY <1>1, <1>2, <1>3 DEF Packets

\* A new packet's key is new: the facts stay unique.
LEMMA AllocateSafe ==
    ASSUME NEW n \in Nodes, NEW s, NEW M, Sound(n, s, M), NEW c, NEW L,
           NEW p \in Packets, p.from = n, p.id = s.ids + 1,
           p.request_id # 0 => /\ \E y \in M : KeyOfFact(y) = << p.to, p.request_id >>
                               /\ p.to = n \/ << p.to, p.request_id >> = c
    PROVE  LET t == [s EXCEPT !.ids = @ + 1]
               N == M \cup {Fact(p)}
           IN  /\ Sound(n, t, N) /\ Leads(n, s, t, M, N, c, L)
               /\ t.pending = s.pending /\ Fact(p) \in N /\ Fact(p) \notin M
<1> DEFINE i == s.ids + 1
           t == [s EXCEPT !.ids = @ + 1]
           N == M \cup {Fact(p)}
<1>1. s \in NodeStates /\ s.ids \in Nat /\ M \in SUBSET AllFacts
  BY SoundTypes
<1>0. t = [s EXCEPT !.ids = i] /\ i \in Nat /\ i = s.ids + 1
  BY <1>1
<1> HIDE DEF i, t
<1>2. /\ t \in NodeStates /\ t.recentPackets = s.recentPackets /\ t.pending = s.pending
      /\ t.txQueue = s.txQueue /\ t.fromRadioQueue = s.fromRadioQueue
      /\ t.ids = i /\ t.phone = s.phone /\ (t.twice <=> s.twice) /\ t.dropped = s.dropped
  BY <1>0, <1>1 DEF NodeStates
<1>3. /\ Fact(p) \in AllFacts /\ Fact(p).from = n /\ Fact(p).id = s.ids + 1
      /\ Fact(p).to = p.to /\ Fact(p).request_id = p.request_id
  BY PacketFacts
<1>4. \A x \in M : x.from = n => x.id <= s.ids /\ x.id \in Nat
  BY <1>1 DEF Sound, Registry, AllFacts
<1>5. Fact(p) \notin M
  BY <1>1, <1>3, <1>4
<1>6. Registry(n, t, N)
  <2>1. N \in SUBSET AllFacts
    BY <1>1, <1>3
  <2>2. \A x \in N : x.from = n => x.id <= t.ids
    BY <1>0, <1>1, <1>2, <1>3, <1>4
  <2>3. \A x \in M : KeyOfFact(x) # KeyOfFact(Fact(p))
    BY <1>1, <1>3, <1>4 DEF KeyOfFact
  <2>4. Unique(N)
    <3> HIDE DEF N
    <3>1. \A x \in N : x \in M \/ x = Fact(p)
      BY DEF N
    <3> QED
      BY <2>3, <3>1 DEF Unique, Sound, Registry
  <2> QED
    BY <2>1, <2>2, <2>4 DEF Registry
<1>7. Sound(n, t, N)
  BY <1>2, <1>6 DEF Sound, Local, Holds
<1>8. Leads(n, s, t, M, N, c, L)
  <2>1. MadeBy(n, s, M, N, c)
    BY <1>1, <1>3 DEF MadeBy
  <2>2. Keeps(s, t)
    BY <1>0, <1>1, <1>2 DEF Keeps, Waits
  <2> QED
    BY <1>2, <2>1, <2>2 DEF Leads, Records, Retries
<1> QED
  BY <1>2, <1>5, <1>7, <1>8 DEF t

\* An answer to our own packet, put where our phone's packets come from.
LEMMA AnswerLocallySafe ==
    ASSUME NEW n \in Nodes, NEW s, NEW M, Sound(n, s, M), NEW c, NEW L,
           NEW error \in {"NONE", "MAX_RETRANSMIT", "DUTY_CYCLE_LIMIT"}, NEW id \in Nat \ {0},
           \E y \in M : KeyOfFact(y) = << n, id >>
    PROVE  LET t == AnswerLocally(n, s, error, id)
           IN  /\ \E N : Sound(n, t, N) /\ Leads(n, s, t, M, N, c, L)
               /\ t.pending = s.pending
               /\ \E q \in Packets : q.to = n /\ q.request_id = id /\ Waits(t, q)
<1> DEFINE t == AnswerLocally(n, s, error, id)
           u == [s EXCEPT !.ids = @ + 1]
           p == NewPacket(n, s, n, id, error, 0)
           N == M \cup {Fact(p)}
<1>1. s.ids \in Nat /\ error \in Reasons
  BY SoundTypes DEF Reasons
<1>2. p \in Packets /\ p.from = n /\ p.id = s.ids + 1 /\ p.to = n /\ p.request_id = id
  <2>1. p \in Packets
    BY <1>1, NewPacketResult
  <2> QED
    BY <2>1 DEF NewPacket
<1>3. t = EnqueueReceivedMessage(u, p)
  BY DEF AnswerLocally
<1> HIDE DEF p, t
<1>4. /\ Sound(n, u, N) /\ Leads(n, s, u, M, N, c, L)
      /\ u.pending = s.pending /\ Fact(p) \in N
  BY <1>2, AllocateSafe
<1> HIDE DEF u, N
<1>5. /\ Sound(n, t, N) /\ Leads(n, u, t, N, N, c, L)
      /\ Waits(t, p) /\ t.pending = u.pending
  BY <1>2, <1>3, <1>4, EnqueueSafe
<1>6. Leads(n, s, t, M, N, c, L)
  <2>1. u.ids \in Nat /\ t.ids \in Nat /\ N \in SUBSET AllFacts
    BY <1>4, <1>5, SoundTypes
  <2> QED
    BY <1>1, <1>4, <1>5, <2>1, Follows
<1> QED
  BY <1>2, <1>4, <1>5, <1>6 DEF t

\* Router::send(): to the transmit queue, or refused beyond the duty cycle.
LEMMA RouterSendSafe ==
    ASSUME NEW n \in Nodes, NEW s, NEW M, Sound(n, s, M), NEW c, NEW L,
           NEW p \in Packets, Fact(p) \in M
    PROVE  LET t == RouterSend(n, s, p)
           IN  /\ \E N : Sound(n, t, N) /\ Leads(n, s, t, M, N, c, L)
               /\ t.pending = s.pending
<1> DEFINE t == RouterSend(n, s, p)
<1>1. CASE n \in silent /\ p.from = n
  <2>1. t = AnswerLocally(n, s, "DUTY_CYCLE_LIMIT", p.id)
    BY <1>1 DEF RouterSend
  <2>2. p.id \in Nat \ {0} /\ \E y \in M : KeyOfFact(y) = << n, p.id >>
    BY <1>1, PacketFacts
  <2> QED
    BY <2>1, <2>2, AnswerLocallySafe
<1>2. CASE n \in silent /\ p.from # n
  <2>1. t = s
    BY <1>2 DEF RouterSend
  <2> QED
    BY <2>1, SoundTypes, Stays
<1>3. CASE n \notin silent
  <2> DEFINE a == p.want_ack /\ p.to # Broadcast
             h == IF p.from = n THEN p.hop_limit ELSE p.hop_start
             q == [p EXCEPT !.relay_node = n, !.want_ack = a, !.hop_start = h]
             w == Append(s.txQueue, q)
  <2>1. t = [s EXCEPT !.txQueue = w]
    BY <1>3 DEF RouterSend
  <2>2. a \in BOOLEAN /\ h \in 0..7 /\ n \in Hop
    BY DEF Packets, Hop
  <2> HIDE DEF a, h
  <2>3. q \in Packets /\ Fact(q) = Fact(p) /\ q.relay_node = n
    BY <2>2 DEF Packets, Fact
  <2> HIDE DEF q
  <2>4. s \in NodeStates /\ s.txQueue \in Seq(Packets) /\ s.ids \in Nat
    BY SoundTypes
  <2>5. w \in Seq(Packets) /\ \A i \in DOMAIN w : w[i] = q \/ \E l \in DOMAIN s.txQueue : w[i] = s.txQueue[l]
    BY <2>3, <2>4
  <2> HIDE DEF w, t
  <2>6. /\ t \in NodeStates /\ t.recentPackets = s.recentPackets /\ t.pending = s.pending
        /\ t.txQueue = w /\ t.fromRadioQueue = s.fromRadioQueue
        /\ t.ids = s.ids /\ t.phone = s.phone /\ (t.twice <=> s.twice) /\ t.dropped = s.dropped
    BY <2>1, <2>4, <2>5 DEF NodeStates
  <2>7. Local(n, t)
    BY <2>3, <2>5, <2>6 DEF Sound, Local
  <2>8. Holds(t, M)
    BY <2>3, <2>5, <2>6 DEF Sound, Holds
  <2>9. Sound(n, t, M)
    BY <2>6, <2>7, <2>8 DEF Sound, Registry
  <2>10. Leads(n, s, t, M, M, c, L)
    BY <2>4, <2>6 DEF Leads, MadeBy, Keeps, Waits, Records, Retries
  <2> QED
    BY <2>6, <2>9, <2>10 DEF t
<1> QED
  BY <1>1, <1>2, <1>3
-------------------------------------------------------------------------------
\* wasSeenRecently() records a packet, and nothing else changes.
LEMMA WasSeenRecentlySafe ==
    ASSUME NEW n \in Nodes, NEW s, NEW M, Sound(n, s, M), NEW c, NEW L, NEW p \in Packets
    PROVE  LET t == WasSeenRecently(s, p)
           IN  /\ Sound(n, t, M) /\ t.pending = s.pending
               /\ DOMAIN t.recentPackets = DOMAIN s.recentPackets \cup {Key(p)}
               /\ Keeps(s, t) /\ t.ids = s.ids /\ t.phone = s.phone
               /\ Fact(p) \in M /\ p.to # n => Leads(n, s, t, M, M, c, L)
<1> DEFINE t == WasSeenRecently(s, p)
           old == IF Known(s, p) THEN s.recentPackets[Key(p)]
                  ELSE [next_hop |-> p.next_hop, relayed_by |-> << >>]
           before == IF p.relay_node = None THEN << >> ELSE << p.relay_node >>
           by == before \o old.relayed_by
           m == IF Len(by) < NumRelayers THEN Len(by) ELSE NumRelayers
           e == [next_hop |-> old.next_hop, relayed_by |-> SubSeq(by, 1, m)]
           h == Put(s.recentPackets, Key(p), e)
<1>1. /\ s \in NodeStates /\ s.recentPackets \in Partial(Keys, Entries) /\ s.ids \in Nat
      /\ Key(p) \in Keys
  BY SoundTypes, PacketFacts
<1>2. old.next_hop \in Hop /\ old.relayed_by \in Seq(Hop)
  <2>1. CASE Known(s, p)
    <3>1. s.recentPackets[Key(p)] \in Entries
      BY <1>1, <2>1, PartialFacts DEF Known
    <3> QED
      BY <2>1, <3>1 DEF Entries
  <2>2. CASE ~Known(s, p)
    <3>1. p.next_hop \in Hop /\ << >> \in Seq(Hop)
      BY PacketFacts
    <3> QED
      BY <2>2, <3>1
  <2> QED
    BY <2>1, <2>2
<1> HIDE DEF old
<1>3. before \in Seq(Hop)
  BY PacketFacts
<1> HIDE DEF before
<1>4. by \in Seq(Hop)
  BY <1>2, <1>3, ConcatProperties
<1> HIDE DEF by
<1>5. m \in 0..Len(by) /\ m <= NumRelayers
  <2>1. Len(by) \in Nat
    BY <1>4
  <2> QED
    BY <2>1 DEF NumRelayers
<1> HIDE DEF m
<1>6. SubSeq(by, 1, m) \in Seq(Hop) /\ Len(SubSeq(by, 1, m)) <= NumRelayers
  <2>1. m \in Nat /\ \A i \in 1..m : by[i] \in Hop
    BY <1>4, <1>5
  <2> QED
    BY <1>4, <1>5, <2>1 DEF NumRelayers
<1>7. e \in Entries
  BY <1>2, <1>6 DEF Entries
<1>8. t = [s EXCEPT !.recentPackets = h]
  BY DEF WasSeenRecently, old, before, by, m
<1> HIDE DEF e
<1>9. h \in Partial(Keys, Entries) /\ DOMAIN h = DOMAIN s.recentPackets \cup {Key(p)}
  <2>1. h \in Partial(Keys, Entries)
    BY <1>1, <1>7, PutType
  <2>2. DOMAIN h = DOMAIN s.recentPackets \cup {Key(p)}
    BY PutDomain
  <2> QED
    BY <2>1, <2>2
<1> HIDE DEF h, t
<1>10. /\ t \in NodeStates /\ t.recentPackets = h /\ t.pending = s.pending
       /\ t.txQueue = s.txQueue /\ t.fromRadioQueue = s.fromRadioQueue
       /\ t.ids = s.ids /\ t.phone = s.phone /\ (t.twice <=> s.twice) /\ t.dropped = s.dropped
  BY <1>1, <1>8, <1>9 DEF NodeStates
<1>11. Sound(n, t, M)
  BY <1>10 DEF Sound, Local, Holds, Registry
<1>12. Keeps(s, t)
  BY <1>1, <1>9, <1>10 DEF Keeps, Waits
<1>13. ASSUME Fact(p) \in M, p.to # n
       PROVE  Leads(n, s, t, M, M, c, L)
  <2>1. KeyOfFact(Fact(p)) = Key(p) /\ Fact(p).to # n
    BY <1>13, PacketFacts
  <2>2. Records(n, s, t, M)
    BY <1>9, <1>10, <1>13, <2>1 DEF Records
  <2> QED
    BY <1>10, <1>12, <2>2 DEF Leads, MadeBy, Retries
<1> QED
  BY <1>9, <1>10, <1>11, <1>12, <1>13 DEF t

\* startRetransmission() keeps a packet to send it again.
LEMMA StartRetransmissionSafe ==
    ASSUME NEW n \in Nodes, NEW s, NEW M, Sound(n, s, M), NEW c, NEW L,
           NEW p \in Packets, Fact(p) \in M, p.to # n, NEW tries \in 1..NumReliableRetx
    PROVE  LET t == StartRetransmission(n, s, p, tries)
           IN  /\ Sound(n, t, M) /\ Leads(n, s, t, M, M, c, L)
               /\ DOMAIN s.pending \subseteq DOMAIN t.pending
               /\ Key(p) \in DOMAIN t.pending
<1> DEFINE t == StartRetransmission(n, s, p, tries)
           r == StopRetransmission(n, s, Key(p))
           v == [packet |-> p, numRetransmissions |-> tries - 1]
           f == Put(r.pending, Key(p), v)
<1>1. /\ Sound(n, r, M) /\ Leads(n, s, r, M, M, c, L \cup {Key(p)})
      /\ \A j \in DOMAIN s.pending : j # Key(p) => j \in DOMAIN r.pending
      /\ \A j \in DOMAIN r.pending : j \in DOMAIN s.pending
  BY StopRetransmissionSafe
<1>2. t = [r EXCEPT !.pending = f]
  BY DEF StartRetransmission
<1> HIDE DEF r
<1>3. /\ r \in NodeStates /\ r.pending \in Partial(Keys, Retransmissions)
      /\ r.ids \in Nat /\ s.ids \in Nat /\ Key(p) \in Keys
  BY <1>1, SoundTypes, PacketFacts
<1>4. v \in Retransmissions
  BY DEF Retransmissions, NumReliableRetx
<1>5. /\ f \in Partial(Keys, Retransmissions) /\ DOMAIN f = DOMAIN r.pending \cup {Key(p)}
      /\ f[Key(p)] = v /\ \A j \in DOMAIN r.pending : j # Key(p) => f[j] = r.pending[j]
  <2> HIDE DEF v
  <2> QED
    <3>1. f \in Partial(Keys, Retransmissions)
      BY <1>3, <1>4, PutType
    <3>2. DOMAIN f = DOMAIN r.pending \cup {Key(p)}
      BY PutDomain
    <3>3. f[Key(p)] = v /\ \A j \in DOMAIN r.pending : j # Key(p) => f[j] = r.pending[j]
      BY PutValues
    <3> QED
      BY <3>1, <3>2, <3>3
<1>6. v.packet = p
  OBVIOUS
<1> HIDE DEF f, t, v
<1>7. /\ t \in NodeStates /\ t.recentPackets = r.recentPackets /\ t.pending = f
      /\ t.txQueue = r.txQueue /\ t.fromRadioQueue = r.fromRadioQueue
      /\ t.ids = r.ids /\ t.phone = r.phone /\ (t.twice <=> r.twice) /\ t.dropped = r.dropped
  BY <1>2, <1>3, <1>5 DEF NodeStates
<1>8. \A j \in DOMAIN f : \/ f[j].packet = p /\ j = Key(p)
                          \/ j \in DOMAIN r.pending /\ f[j] = r.pending[j]
  BY <1>5, <1>6
<1>9. Sound(n, t, M)
  <2>1. Local(n, t)
    BY <1>1, <1>7, <1>8 DEF Sound, Local
  <2>2. Holds(t, M)
    BY <1>1, <1>7, <1>8 DEF Sound, Holds
  <2> QED
    BY <1>1, <1>7, <2>1, <2>2 DEF Sound, Registry
<1>10. DOMAIN s.pending \subseteq DOMAIN t.pending /\ Key(p) \in DOMAIN t.pending
  BY <1>1, <1>5, <1>7
<1>11. Leads(n, s, t, M, M, c, L)
  <2>1. Keeps(s, t)
    BY <1>1, <1>7 DEF Leads, Keeps, Waits
  <2>2. Records(n, s, t, M)
    BY <1>1, <1>7 DEF Leads, Records
  <2> QED
    BY <1>10, <2>1, <2>2 DEF Leads, MadeBy, Retries
<1> QED
  BY <1>9, <1>10, <1>11 DEF t

\* FloodingRouter::send(), which gives up no retransmission.
LEMMA FloodingSendSafe ==
    ASSUME NEW n \in Nodes, NEW s, NEW M, Sound(n, s, M), NEW c, NEW L,
           NEW p \in Packets, Fact(p) \in M, p.to # n
    PROVE  LET t == FloodingSend(n, s, p)
           IN  /\ \E N : Sound(n, t, N) /\ Leads(n, s, t, M, N, c, L)
               /\ t.pending = s.pending
<1> DEFINE t == FloodingSend(n, s, p)
           q == [p EXCEPT !.relay_node = n]
           u == WasSeenRecently(s, q)
<1>1. q \in Packets /\ Fact(q) = Fact(p) /\ q.to # n
  BY DEF Packets, Fact, Hop
<1>2. t = RouterSend(n, u, q)
  BY DEF FloodingSend
<1> HIDE DEF q
<1>3. Sound(n, u, M) /\ Leads(n, s, u, M, M, c, L) /\ u.pending = s.pending
  BY <1>1, WasSeenRecentlySafe
<1> HIDE DEF u, t
<1>4. t.pending = u.pending /\ \E N : Sound(n, t, N) /\ Leads(n, u, t, M, N, c, L)
  BY <1>1, <1>2, <1>3, RouterSendSafe
<1>5. PICK N : Sound(n, t, N) /\ Leads(n, u, t, M, N, c, L)
  BY <1>4
<1>6. Leads(n, s, t, M, N, c, L)
  <2>1. /\ s.ids \in Nat /\ u.ids \in Nat /\ t.ids \in Nat
        /\ M \in SUBSET AllFacts /\ N \in SUBSET AllFacts
    BY <1>3, <1>5, SoundTypes
  <2> QED
    BY <1>3, <1>5, <2>1, Follows
<1> QED
  BY <1>3, <1>4, <1>5, <1>6 DEF t

\* NextHopRouter::send(), which gives up no retransmission either.
LEMMA NextHopSendSafe ==
    ASSUME NEW n \in Nodes, NEW s, NEW M, Sound(n, s, M), NEW c, NEW L,
           NEW p \in Packets, Fact(p) \in M, p.to # n
    PROVE  LET t == NextHopSend(n, s, p)
           IN  /\ \E N : Sound(n, t, N) /\ Leads(n, s, t, M, N, c, L)
               /\ DOMAIN s.pending \subseteq DOMAIN t.pending
<1> DEFINE t == NextHopSend(n, s, p)
           hop == GetNextHop(n, s, p.to)
           o == [p EXCEPT !.relay_node = n]
           q == [p EXCEPT !.relay_node = n, !.next_hop = hop]
           seen == WasSeenRecently(s, o)
           retries == /\ p.from # n \/ ~p.want_ack
                      /\ q.next_hop # None
                      /\ p.hop_limit > 0 \/ p.want_ack
           u == IF retries THEN StartRetransmission(n, seen, q, NumIntermediateRetx) ELSE seen
<1>1. t = RouterSend(n, u, q)
  BY DEF NextHopSend
<1>2. hop \in Hop
  BY SoundTypes, PacketFacts DEF GetNextHop, Hop
<1> HIDE DEF hop
<1>3. /\ q \in Packets /\ Fact(q) = Fact(p) /\ q.to # n
      /\ o \in Packets /\ Fact(o) = Fact(p) /\ o.to # n
  BY <1>2 DEF Packets, Fact, Hop
<1> HIDE DEF o, q
<1>4. Sound(n, seen, M) /\ Leads(n, s, seen, M, M, c, L) /\ seen.pending = s.pending
  BY <1>3, WasSeenRecentlySafe
<1> HIDE DEF seen, retries
<1>5. /\ Sound(n, u, M) /\ Leads(n, seen, u, M, M, c, L)
      /\ DOMAIN seen.pending \subseteq DOMAIN u.pending
  <2>1. CASE retries
    <3>1. u = StartRetransmission(n, seen, q, NumIntermediateRetx)
      BY <2>1
    <3>2. NumIntermediateRetx \in 1..NumReliableRetx
      BY DEF NumIntermediateRetx, NumReliableRetx
    <3> QED
      BY <1>3, <1>4, <3>1, <3>2, StartRetransmissionSafe
  <2>2. CASE ~retries
    <3>1. u = seen
      BY <2>2
    <3> QED
      BY <1>4, <3>1, SoundTypes, Stays
  <2> QED
    BY <2>1, <2>2
<1> HIDE DEF u, t
<1>6. t.pending = u.pending /\ \E N : Sound(n, t, N) /\ Leads(n, u, t, M, N, c, L)
  BY <1>1, <1>3, <1>5, RouterSendSafe
<1>7. PICK N : Sound(n, t, N) /\ Leads(n, u, t, M, N, c, L)
  BY <1>6
<1>8. Leads(n, s, t, M, N, c, L)
  <2>1. /\ s.ids \in Nat /\ seen.ids \in Nat /\ u.ids \in Nat /\ t.ids \in Nat
        /\ M \in SUBSET AllFacts /\ N \in SUBSET AllFacts
    BY <1>4, <1>5, <1>7, SoundTypes
  <2>2. Leads(n, s, u, M, M, c, L)
    BY <1>4, <1>5, <2>1, Follows
  <2> QED
    BY <1>7, <2>1, <2>2, Follows
<1> QED
  BY <1>4, <1>5, <1>6, <1>7, <1>8 DEF t
-------------------------------------------------------------------------------
\* One call after another, from sound state to sound state.
LEMMA Then ==
    ASSUME NEW n, NEW s, NEW t, NEW u, NEW M, NEW N, NEW O, NEW c, NEW L,
           Sound(n, s, M), Sound(n, t, N), Sound(n, u, O),
           Leads(n, s, t, M, N, c, L), Leads(n, t, u, N, O, c, L)
    PROVE  Leads(n, s, u, M, O, c, L)
<1>1. /\ s.ids \in Nat /\ t.ids \in Nat /\ u.ids \in Nat
      /\ N \in SUBSET AllFacts /\ O \in SUBSET AllFacts
  BY SoundTypes
<1> QED
  BY <1>1, Follows

\* ReliableRouter::send(): a packet that wants an acknowledgement stays.
LEMMA ReliableSendSafe ==
    ASSUME NEW n \in Nodes, NEW s, NEW M, Sound(n, s, M), NEW c, NEW L,
           NEW p \in Packets, Fact(p) \in M, p.to # n
    PROVE  LET t == ReliableSend(n, s, p)
           IN  /\ \E N : Sound(n, t, N) /\ Leads(n, s, t, M, N, c, L)
               /\ DOMAIN s.pending \subseteq DOMAIN t.pending
               /\ p.want_ack => Key(p) \in DOMAIN t.pending
<1> DEFINE u == ReliableSend(n, s, p)
           h == IF p.want_ack /\ p.hop_limit = 0 THEN HopLimit ELSE p.hop_limit
           q == [p EXCEPT !.hop_limit = h]
           t == IF p.want_ack THEN StartRetransmission(n, s, q, NumReliableRetx) ELSE s
<1>1. u = IF p.to = Broadcast THEN FloodingSend(n, t, q) ELSE NextHopSend(n, t, q)
  BY DEF ReliableSend
<1>2. h \in 0..7
  BY RouterAssumption, PacketFacts
<1> HIDE DEF h
<1>3. q \in Packets /\ Fact(q) = Fact(p) /\ q.to # n /\ Key(q) = Key(p)
  BY <1>2 DEF Packets, Fact, Key
<1> HIDE DEF q
<1>4. /\ Sound(n, t, M) /\ Leads(n, s, t, M, M, c, L)
      /\ DOMAIN s.pending \subseteq DOMAIN t.pending
      /\ p.want_ack => Key(p) \in DOMAIN t.pending
  <2>1. CASE p.want_ack
    <3>1. t = StartRetransmission(n, s, q, NumReliableRetx)
      BY <2>1
    <3>2. NumReliableRetx \in 1..NumReliableRetx
      BY DEF NumReliableRetx
    <3> QED
      BY <1>3, <3>1, <3>2, StartRetransmissionSafe
  <2>2. CASE ~p.want_ack
    <3>1. t = s
      BY <2>2
    <3> QED
      BY <2>2, <3>1, SoundTypes, Stays
  <2> QED
    BY <2>1, <2>2
<1> HIDE DEF t
<1>5. /\ \E N : Sound(n, u, N) /\ Leads(n, t, u, M, N, c, L)
      /\ DOMAIN t.pending \subseteq DOMAIN u.pending
  <2>1. CASE p.to = Broadcast
    <3>1. u = FloodingSend(n, t, q)
      BY <1>1, <2>1
    <3> QED
      BY <1>3, <1>4, <3>1, FloodingSendSafe
  <2>2. CASE p.to # Broadcast
    <3>1. u = NextHopSend(n, t, q)
      BY <1>1, <2>2
    <3> QED
      BY <1>3, <1>4, <3>1, NextHopSendSafe
  <2> QED
    BY <2>1, <2>2
<1> HIDE DEF u
<1>6. PICK N : Sound(n, u, N) /\ Leads(n, t, u, M, N, c, L)
  BY <1>5
<1>7. Leads(n, s, u, M, N, c, L)
  BY <1>4, <1>6, Then
<1> QED
  BY <1>4, <1>5, <1>6, <1>7 DEF u

\* sendLocal(): to ourselves, or over the radio.
LEMMA SendLocalSafe ==
    ASSUME NEW n \in Nodes, NEW s, NEW M, Sound(n, s, M), NEW c, NEW L,
           NEW p \in Packets, Fact(p) \in M
    PROVE  LET t == SendLocal(n, s, p)
           IN  /\ \E N : Sound(n, t, N) /\ Leads(n, s, t, M, N, c, L)
               /\ DOMAIN s.pending \subseteq DOMAIN t.pending
               /\ p.want_ack /\ p.to # n => Key(p) \in DOMAIN t.pending
<1> DEFINE t == SendLocal(n, s, p)
<1>1. CASE p.to = n
  <2>1. t = EnqueueReceivedMessage(s, p)
    BY <1>1 DEF SendLocal
  <2>2. Sound(n, t, M) /\ Leads(n, s, t, M, M, c, L) /\ t.pending = s.pending
    BY <2>1, EnqueueSafe
  <2> QED
    BY <1>1, <2>2
<1>2. CASE p.to # n
  <2>1. t = ReliableSend(n, s, p)
    BY <1>2 DEF SendLocal
  <2> QED
    BY <1>2, <2>1, ReliableSendSafe
<1> QED
  BY <1>1, <1>2

\* A packet made here and sent: the answer to one that exists.
LEMMA SendNewSafe ==
    ASSUME NEW n \in Nodes, NEW s, NEW M, Sound(n, s, M), NEW c, NEW L,
           NEW p \in Packets, p.from = n, p.id = s.ids + 1,
           p.request_id # 0 => /\ \E y \in M : KeyOfFact(y) = << p.to, p.request_id >>
                               /\ p.to = n \/ << p.to, p.request_id >> = c
    PROVE  LET t == SendLocal(n, [s EXCEPT !.ids = @ + 1], p)
           IN  /\ \E N : Sound(n, t, N) /\ Leads(n, s, t, M, N, c, L) /\ Fact(p) \in N
               /\ DOMAIN s.pending \subseteq DOMAIN t.pending
               /\ p.want_ack /\ p.to # n => Key(p) \in DOMAIN t.pending
<1> DEFINE u == [s EXCEPT !.ids = @ + 1]
           t == SendLocal(n, u, p)
           O == M \cup {Fact(p)}
<1>1. /\ Sound(n, u, O) /\ Leads(n, s, u, M, O, c, L)
      /\ u.pending = s.pending /\ Fact(p) \in O
  BY AllocateSafe
<1> HIDE DEF u, O
<1>2. /\ \E N : Sound(n, t, N) /\ Leads(n, u, t, O, N, c, L)
      /\ DOMAIN u.pending \subseteq DOMAIN t.pending
      /\ p.want_ack /\ p.to # n => Key(p) \in DOMAIN t.pending
  BY <1>1, SendLocalSafe
<1> HIDE DEF t
<1>3. PICK N : Sound(n, t, N) /\ Leads(n, u, t, O, N, c, L)
  BY <1>2
<1>4. Leads(n, s, t, M, N, c, L)
  BY <1>1, <1>3, Then
<1>5. Fact(p) \in N
  BY <1>1, <1>3 DEF Leads
<1> QED
  BY <1>1, <1>2, <1>3, <1>4, <1>5 DEF t, u

\* sendAckNak() for a packet that exists and is the one being handled.
LEMMA SendAckNakSafe ==
    ASSUME NEW n \in Nodes, NEW s, NEW M, Sound(n, s, M), NEW c, NEW L,
           NEW p \in Packets, Fact(p) \in M, Key(p) = c,
           NEW error \in {"NONE", "NO_CHANNEL"}, NEW hops \in 0..7
    PROVE  LET t == SendAckNak(n, s, error, p, hops)
           IN  \E N : Sound(n, t, N) /\ Leads(n, s, t, M, N, c, L)
<1> DEFINE q == NewPacket(n, s, p.from, p.id, error, hops)
           t == SendAckNak(n, s, error, p, hops)
<1>1. /\ s.ids \in Nat /\ p.from \in Nodes \cup {Broadcast} /\ p.id \in Nat /\ p.id # 0
      /\ error \in Reasons
  BY SoundTypes, PacketFacts DEF Reasons
<1>2. /\ q \in Packets /\ q.from = n /\ q.id = s.ids + 1
      /\ q.to = p.from /\ q.request_id = p.id
  <2>1. q \in Packets
    BY <1>1, NewPacketResult
  <2> QED
    BY <2>1 DEF NewPacket
<1>3. KeyOfFact(Fact(p)) = << p.from, p.id >> /\ Key(p) = << p.from, p.id >>
  BY PacketFacts
<1>4. t = SendLocal(n, [s EXCEPT !.ids = @ + 1], q)
  BY DEF SendAckNak
<1> HIDE DEF q, t
<1>5. \E N : Sound(n, t, N) /\ Leads(n, s, t, M, N, c, L)
  BY <1>2, <1>3, <1>4, SendNewSafe
<1> QED
  BY <1>5 DEF t

\* Within the hops a packet can carry.
LEMMA HopLimitForResponseResult ==
    ASSUME NEW p \in Packets
    PROVE  HopLimitForResponse(p) \in 0..7
  BY RouterAssumption, PacketFacts DEF HopLimitForResponse
-------------------------------------------------------------------------------
\* Passing a packet on, with one hop less.
LEMMA PerhapsRebroadcastSafe ==
    ASSUME NEW n \in Nodes, NEW s, NEW M, Sound(n, s, M), NEW c, NEW L,
           NEW p \in Packets, Fact(p) \in M
    PROVE  LET t == PerhapsRebroadcast(n, s, p)
           IN  \E N : Sound(n, t, N) /\ Leads(n, s, t, M, N, c, L)
<1> DEFINE t == PerhapsRebroadcast(n, s, p)
           rebroadcasts == p.to # n /\ p.from # n /\ p.hop_limit > 0 /\ n \notin Mutes
           q == [p EXCEPT !.hop_limit = @ - 1, !.next_hop = None]
<1>1. CASE rebroadcasts
  <2>1. t = RouterSend(n, s, q)
    BY <1>1 DEF PerhapsRebroadcast
  <2>2. q \in Packets /\ Fact(q) = Fact(p)
    <3>1. p.hop_limit - 1 \in 0..7
      BY <1>1, PacketFacts
    <3> QED
      BY <3>1 DEF Packets, Fact, Hop
  <2> HIDE DEF q
  <2> QED
    BY <2>1, <2>2, RouterSendSafe
<1>2. CASE ~rebroadcasts
  <2>1. t = s
    BY <1>2 DEF PerhapsRebroadcast
  <2> QED
    BY <2>1, SoundTypes, Stays
<1> QED
  BY <1>1, <1>2

\* perhapsRelay() sends a packet that exists with fewer hops.
LEMMA PerhapsRelaySafe ==
    ASSUME NEW n \in Nodes, NEW s, NEW M, Sound(n, s, M), NEW c, NEW L,
           NEW p \in Packets, Fact(p) \in M
    PROVE  LET t == PerhapsRelay(n, s, p)
           IN  \E N : Sound(n, t, N) /\ Leads(n, s, t, M, N, c, L)
<1> DEFINE t == PerhapsRelay(n, s, p)
           q == [p EXCEPT !.hop_limit = @ - 1]
<1>1. CASE Relays(n, p)
  <2>1. t = NextHopSend(n, s, q)
    BY <1>1 DEF PerhapsRelay
  <2>2. q \in Packets /\ Fact(q) = Fact(p) /\ q.to # n
    <3>1. p.hop_limit - 1 \in 0..7 /\ p.to # n
      BY <1>1, PacketFacts DEF Relays
    <3> QED
      BY <3>1 DEF Packets, Fact
  <2> HIDE DEF q
  <2> QED
    BY <2>1, <2>2, NextHopSendSafe
<1>2. CASE ~Relays(n, p)
  <2>1. t = s
    BY <1>2 DEF PerhapsRelay
  <2> QED
    BY <2>1, SoundTypes, Stays
<1> QED
  BY <1>1, <1>2

\* perhapsCancelDupe(): somebody else has passed it on.
LEMMA PerhapsCancelDupeSafe ==
    ASSUME NEW n \in Nodes, NEW s, NEW M, Sound(n, s, M), NEW c, NEW L, NEW p \in Packets
    PROVE  LET t == PerhapsCancelDupe(n, s, p)
           IN  \E N : Sound(n, t, N) /\ Leads(n, s, t, M, N, c, L)
<1> DEFINE t == PerhapsCancelDupe(n, s, p)
<1>1. CASE n \in Routers
  <2>1. t = s
    BY <1>1 DEF PerhapsCancelDupe
  <2> QED
    BY <2>1, SoundTypes, Stays
<1>2. CASE n \notin Routers
  <2>1. t = CancelSending(n, s, Key(p))
    BY <1>2 DEF PerhapsCancelDupe
  <2> QED
    BY <2>1, CancelSendingSafe
<1> QED
  BY <1>1, <1>2

\* A packet that was seen before, from the flood or from a next hop.
LEMMA FloodingDupeSafe ==
    ASSUME NEW n \in Nodes, NEW s, NEW M, Sound(n, s, M), NEW c, NEW L,
           NEW p \in Packets, Fact(p) \in M
    PROVE  LET t == FloodingDupe(n, s, p)
           IN  \E N : Sound(n, t, N) /\ Leads(n, s, t, M, N, c, L)
<1> DEFINE t == FloodingDupe(n, s, p)
<1>1. CASE ~Direct(p)
  <2>1. t = PerhapsCancelDupe(n, s, p)
    BY <1>1 DEF FloodingDupe
  <2> QED
    BY <2>1, PerhapsCancelDupeSafe
<1>2. CASE Direct(p) /\ FindInTxQueue(s, Key(p))
  <2>1. t = s
    BY <1>2 DEF FloodingDupe
  <2> QED
    BY <2>1, SoundTypes, Stays
<1>3. CASE Direct(p) /\ ~FindInTxQueue(s, Key(p))
  <2>1. t = PerhapsRebroadcast(n, s, p)
    BY <1>3 DEF FloodingDupe
  <2> QED
    BY <2>1, PerhapsRebroadcastSafe
<1> QED
  BY <1>1, <1>2, <1>3

\* NextHopRouter's handling of a packet seen before stops its retransmission, and
\* may relay or acknowledge it again.
LEMMA NextHopDupeSafe ==
    ASSUME NEW n \in Nodes, NEW s, NEW M, Sound(n, s, M), NEW c, NEW L,
           NEW p \in Packets, Fact(p) \in M, Key(p) \in L, p.to = n => Key(p) = c,
           NEW fallback, NEW weWereNextHop
    PROVE  LET t == NextHopDupe(n, s, p, fallback, weWereNextHop)
           IN  \E N : Sound(n, t, N) /\ Leads(n, s, t, M, N, c, L)
<1> DEFINE u == NextHopDupe(n, s, p, fallback, weWereNextHop)
           t == StopRetransmission(n, s, Key(p))
<1>1. Sound(n, t, M) /\ Leads(n, s, t, M, M, c, L)
  BY StopRetransmissionSafe
<1>2. \/ u = t
      \/ u = PerhapsRelay(n, t, p)
      \/ p.to = n /\ u = SendAckNak(n, t, "NONE", p, 0)
      \/ u = PerhapsCancelDupe(n, t, p)
  BY DEF NextHopDupe
<1> HIDE DEF t, u
<1>3. \E N : Sound(n, u, N) /\ Leads(n, t, u, M, N, c, L)
  <2>1. CASE u = t
    BY <1>1, <2>1, SoundTypes, Stays
  <2>2. CASE u = PerhapsRelay(n, t, p)
    BY <1>1, <2>2, PerhapsRelaySafe
  <2>3. CASE p.to = n /\ u = SendAckNak(n, t, "NONE", p, 0)
    BY <1>1, <2>3, SendAckNakSafe
  <2>4. CASE u = PerhapsCancelDupe(n, t, p)
    BY <1>1, <2>4, PerhapsCancelDupeSafe
  <2> QED
    BY <1>2, <2>1, <2>2, <2>3, <2>4
<1>4. PICK N : Sound(n, u, N) /\ Leads(n, t, u, M, N, c, L)
  BY <1>3
<1>5. Leads(n, s, u, M, N, c, L)
  BY <1>1, <1>4, Then
<1> QED
  BY <1>4, <1>5 DEF u
-------------------------------------------------------------------------------
\* The acknowledgement of a new packet for this node.
LEMMA AcknowledgeSafe ==
    ASSUME NEW n \in Nodes, NEW s, NEW M, Sound(n, s, M), NEW c, NEW L,
           NEW p \in Packets, Fact(p) \in M, p.to = n => Key(p) = c
    PROVE  LET t == Acknowledge(n, s, p)
           IN  \E N : Sound(n, t, N) /\ Leads(n, s, t, M, N, c, L)
<1> DEFINE t == Acknowledge(n, s, p)
           hops == HopLimitForResponse(p)
<1>1. \/ t = s
      \/ p.to = n /\ t = SendAckNak(n, s, "NO_CHANNEL", p, hops)
      \/ p.to = n /\ t = SendAckNak(n, s, "NONE", p, hops)
      \/ p.to = n /\ t = SendAckNak(n, s, "NONE", p, 0)
  BY DEF Acknowledge
<1>2. hops \in 0..7 /\ 0 \in 0..7
  BY HopLimitForResponseResult
<1> HIDE DEF t, hops
<1>3. t = s
        => \E N : Sound(n, t, N) /\ Leads(n, s, t, M, N, c, L)
  BY SoundTypes, Stays
<1>4. p.to = n /\ t = SendAckNak(n, s, "NO_CHANNEL", p, hops)
        => \E N : Sound(n, t, N) /\ Leads(n, s, t, M, N, c, L)
  BY <1>2, SendAckNakSafe
<1>5. p.to = n /\ t = SendAckNak(n, s, "NONE", p, hops)
        => \E N : Sound(n, t, N) /\ Leads(n, s, t, M, N, c, L)
  BY <1>2, SendAckNakSafe
<1>6. p.to = n /\ t = SendAckNak(n, s, "NONE", p, 0)
        => \E N : Sound(n, t, N) /\ Leads(n, s, t, M, N, c, L)
  BY <1>2, SendAckNakSafe
<1>7. \E N : Sound(n, t, N) /\ Leads(n, s, t, M, N, c, L)
  BY <1>1, <1>3, <1>4, <1>5, <1>6
<1> QED
  BY <1>7 DEF t

\* What an answer teaches only changes the next hops.
LEMMA LearnNextHopSafe ==
    ASSUME NEW n \in Nodes, NEW s, NEW M, Sound(n, s, M), NEW c, NEW L, NEW p \in Packets
    PROVE  LET t == LearnNextHop(n, s, p)
           IN  Sound(n, t, M) /\ Leads(n, s, t, M, M, c, L)
<1> DEFINE t == LearnNextHop(n, s, p)
           h == [s.next_hop EXCEPT ![p.from] = p.relay_node]
<1>1. t = s \/ t = [s EXCEPT !.next_hop = h]
  BY DEF LearnNextHop
<1>2. s \in NodeStates /\ s.ids \in Nat /\ h \in [Nodes -> Hop]
  BY SoundTypes, PacketFacts
<1> HIDE DEF t, h
<1>3. CASE t = s
  BY <1>3, SoundTypes, Stays DEF t
<1>4. CASE t = [s EXCEPT !.next_hop = h]
  <2>1. /\ t \in NodeStates /\ t.recentPackets = s.recentPackets /\ t.pending = s.pending
        /\ t.txQueue = s.txQueue /\ t.fromRadioQueue = s.fromRadioQueue
        /\ t.ids = s.ids /\ t.phone = s.phone /\ (t.twice <=> s.twice) /\ t.dropped = s.dropped
    BY <1>2, <1>4 DEF NodeStates
  <2>2. Sound(n, t, M)
    BY <2>1 DEF Sound, Local, Holds, Registry
  <2>3. Leads(n, s, t, M, M, c, L)
    BY <1>2, <2>1 DEF Leads, MadeBy, Keeps, Waits, Records, Retries
  <2> QED
    BY <2>2, <2>3 DEF t
<1> QED
  BY <1>1, <1>3, <1>4

\* NextHopRouter::sniffReceived(): an answer on its way ends the sending of what
\* it answers, which is not this node's.
LEMMA NextHopSniffSafe ==
    ASSUME NEW n \in Nodes, NEW s, NEW M, Sound(n, s, M), NEW c, NEW L,
           NEW p \in Packets, Fact(p) \in M
    PROVE  LET t == NextHopSniff(n, s, p)
           IN  \E N : Sound(n, t, N) /\ Leads(n, s, t, M, N, c, L)
<1> DEFINE u == NextHopSniff(n, s, p)
           request == << p.to, p.request_id >>
           l == LearnNextHop(n, s, p)
           x == CancelSending(n, l, request)
           t == StopRetransmission(n, x, request)
<1>1. Sound(n, l, M) /\ Leads(n, s, l, M, M, c, L)
  BY LearnNextHopSafe
<1>2. \/ u = PerhapsRelay(n, s, p)
      \/ u = PerhapsRelay(n, l, p)
      \/ p.to # n /\ u = PerhapsRelay(n, t, p)
  BY DEF NextHopSniff
<1> HIDE DEF l
<1>3. Sound(n, x, M) /\ Leads(n, l, x, M, M, c, L)
  BY <1>1, CancelSendingSafe
<1> HIDE DEF x
<1>4. p.to # n => Sound(n, t, M) /\ Leads(n, x, t, M, M, c, L)
  <2>1. p.to # n => request[1] # n
    OBVIOUS
  <2> HIDE DEF request
  <2> QED
    BY <1>3, <2>1, StopRetransmissionSafe
<1> HIDE DEF t, u
<1>5. \E v : Sound(n, v, M) /\ Leads(n, s, v, M, M, c, L) /\ u = PerhapsRelay(n, v, p)
  <2>1. Leads(n, s, s, M, M, c, L)
    BY SoundTypes, Stays
  <2>2. Leads(n, s, x, M, M, c, L)
    BY <1>1, <1>3, Then
  <2>3. p.to # n => Leads(n, s, t, M, M, c, L)
    BY <1>3, <1>4, <2>2, Then
  <2> QED
    BY <1>1, <1>2, <1>4, <2>1, <2>3
<1>6. PICK v : Sound(n, v, M) /\ Leads(n, s, v, M, M, c, L) /\ u = PerhapsRelay(n, v, p)
  BY <1>5
<1>7. PICK N : Sound(n, u, N) /\ Leads(n, v, u, M, N, c, L)
  BY <1>6, PerhapsRelaySafe
<1>8. Leads(n, s, u, M, N, c, L)
  BY <1>6, <1>7, Then
<1> QED
  BY <1>7, <1>8 DEF u
\* ReliableRouter::sniffReceived(): the record of what the packet answers goes.
LEMMA SniffReceivedSafe ==
    ASSUME NEW n \in Nodes, NEW s, NEW M, Sound(n, s, M), NEW c, NEW L,
           NEW p \in Packets, Fact(p) \in M, p.to = n => Key(p) = c,
           p.to = n => << n, p.request_id >> \in L
    PROVE  LET t == SniffReceived(n, s, p)
           IN  \E N : Sound(n, t, N) /\ Leads(n, s, t, M, N, c, L)
<1> DEFINE v == SniffReceived(n, s, p)
           t == Acknowledge(n, s, p)
           answers == p.to = n /\ Decodes(n, p) /\ p.request_id # 0
           u == IF answers THEN StopRetransmission(n, t, << n, p.request_id >>) ELSE t
<1>1. v = IF p.to = Broadcast THEN PerhapsRebroadcast(n, u, p) ELSE NextHopSniff(n, u, p)
  BY DEF SniffReceived
<1>2. PICK N : Sound(n, t, N) /\ Leads(n, s, t, M, N, c, L)
  BY AcknowledgeSafe
<1> HIDE DEF t
<1>3. Sound(n, u, N) /\ Leads(n, t, u, N, N, c, L)
  <2>1. CASE answers
    <3>1. u = StopRetransmission(n, t, << n, p.request_id >>)
      BY <2>1
    <3>2. << n, p.request_id >> \in L
      BY <2>1
    <3> QED
      BY <1>2, <3>1, <3>2, StopRetransmissionSafe
  <2>2. CASE ~answers
    <3>1. u = t
      BY <2>2
    <3> QED
      BY <1>2, <3>1, SoundTypes, Stays
  <2> QED
    BY <2>1, <2>2
<1> HIDE DEF u, v
<1>4. Leads(n, s, u, M, N, c, L)
  BY <1>2, <1>3, Then
<1>5. Fact(p) \in N
  BY <1>2 DEF Leads
<1>6. \E O : Sound(n, v, O) /\ Leads(n, u, v, N, O, c, L)
  <2>1. CASE p.to = Broadcast
    <3>1. v = PerhapsRebroadcast(n, u, p)
      BY <1>1, <2>1
    <3> QED
      BY <1>3, <1>5, <3>1, PerhapsRebroadcastSafe
  <2>2. CASE p.to # Broadcast
    <3>1. v = NextHopSniff(n, u, p)
      BY <1>1, <2>2
    <3> QED
      BY <1>3, <1>5, <3>1, NextHopSniffSafe
  <2> QED
    BY <2>1, <2>2
<1>7. PICK O : Sound(n, v, O) /\ Leads(n, u, v, N, O, c, L)
  BY <1>6
<1>8. Leads(n, s, v, M, O, c, L)
  BY <1>2, <1>3, <1>4, <1>7, Then
<1> QED
  BY <1>7, <1>8 DEF v

\* The reply a module makes to a request.
LEMMA ReplySafe ==
    ASSUME NEW n \in Nodes, NEW s, NEW M, Sound(n, s, M), NEW c, NEW L,
           NEW p \in Packets, Fact(p) \in M, p.to = n => Key(p) = c
    PROVE  LET t == Reply(n, s, p)
           IN  \E N : Sound(n, t, N) /\ Leads(n, s, t, M, N, c, L)
<1> DEFINE t == Reply(n, s, p)
           h == HopLimitForResponse(p)
           new == NewPacket(n, s, p.from, p.id, "data", h)
           q == [new EXCEPT !.want_ack = p.want_ack]
<1>1. CASE ~Replies(n, p)
  <2>1. t = s
    BY <1>1 DEF Reply
  <2> QED
    BY <2>1, SoundTypes, Stays
<1>2. CASE Replies(n, p)
  <2>1. t = SendLocal(n, [s EXCEPT !.ids = @ + 1], q)
    BY <1>2 DEF Reply
  <2>2. /\ s.ids \in Nat /\ p.from \in Nodes \cup {Broadcast} /\ p.id \in Nat
        /\ p.want_ack \in BOOLEAN /\ h \in 0..7
        /\ "data" \in Reasons
    BY SoundTypes, PacketFacts, HopLimitForResponseResult DEF Reasons
  <2> HIDE DEF h
  <2>6. /\ new \in Packets /\ new.from = n /\ new.id = s.ids + 1
        /\ new.to = p.from /\ new.request_id = p.id
    <3>1. new \in Packets
      BY <2>2, NewPacketResult
    <3> QED
      BY <3>1 DEF NewPacket
  <2> HIDE DEF new
  <2>3. /\ q \in Packets /\ q.from = n /\ q.id = s.ids + 1
        /\ q.to = p.from /\ q.request_id = p.id
    BY <2>2, <2>6 DEF Packets
  <2>4. KeyOfFact(Fact(p)) = << p.from, p.id >> /\ Key(p) = << p.from, p.id >> /\ Key(p) = c
    BY <1>2, PacketFacts DEF Replies
  <2> HIDE DEF q, t
  <2>5. \E N : Sound(n, t, N) /\ Leads(n, s, t, M, N, c, L)
    BY <2>1, <2>3, <2>4, SendNewSafe DEF new
  <2> QED
    BY <2>5 DEF t
<1> QED
  BY <1>1, <1>2

\* A packet for this node, or for all, reaches its phone.
LEMMA HandToPhoneSafe ==
    ASSUME NEW n \in Nodes, NEW s, NEW M, Sound(n, s, M),
           NEW p \in Packets, Fact(p) \in M
    PROVE  LET t == HandToPhone(n, s, p)
           IN  /\ Sound(n, t, M) /\ t.ids = s.ids /\ t.pending = s.pending
               /\ t.recentPackets = s.recentPackets
               /\ \A q : Waits(t, q) <=> Waits(s, q)
               /\ p.to \in {n, Broadcast}
                    => /\ t.phone = s.phone \cup {p}
                       /\ t.twice => s.twice \/ \E q \in s.phone : Key(q) = Key(p)
               /\ p.to \notin {n, Broadcast} => t = s
<1> DEFINE t == HandToPhone(n, s, p)
           d == s.twice \/ \E q \in s.phone : Key(q) = Key(p)
           h == s.phone \cup {p}
<1>1. CASE p.to \notin {n, Broadcast}
  <2>1. t = s
    BY <1>1 DEF HandToPhone
  <2> QED
    BY <1>1, <2>1
<1>2. CASE p.to \in {n, Broadcast}
  <2>1. t = [s EXCEPT !.phone = h, !.twice = d]
    BY <1>2 DEF HandToPhone
  <2>2. s \in NodeStates /\ h \in SUBSET Packets /\ d \in BOOLEAN
    BY SoundTypes DEF NodeStates
  <2>3. \A q \in h : q \in s.phone \/ q = p
    OBVIOUS
  <2> HIDE DEF d, h, t
  <2>4. /\ t \in NodeStates /\ t.recentPackets = s.recentPackets /\ t.pending = s.pending
        /\ t.txQueue = s.txQueue /\ t.fromRadioQueue = s.fromRadioQueue
        /\ t.ids = s.ids /\ t.phone = h /\ (t.twice <=> d) /\ t.dropped = s.dropped
    BY <2>1, <2>2 DEF NodeStates
  <2>5. Sound(n, t, M)
    BY <2>3, <2>4 DEF Sound, Local, Holds, Registry
  <2>6. \A q : Waits(t, q) <=> Waits(s, q)
    BY <2>4 DEF Waits
  <2> QED
    BY <1>2, <2>4, <2>5, <2>6 DEF t, d, h
<1> QED
  BY <1>1, <1>2
-------------------------------------------------------------------------------
\* What a node recorded it heard of a packet that exists, and what was for its
\* own phone has reached that phone.
Delivered(n, s, M) ==
    \A k \in DOMAIN s.recentPackets : \E x \in M :
        /\ KeyOfFact(x) = k
        /\ x.to = n => \E q \in s.phone : Key(q) = k
\* Only a node that restarted forgets what its phone got, and may hand it over twice.
HandsOnce(s) ==
    ~s.twice /\ \A q \in s.phone : Key(q) \in DOMAIN s.recentPackets
\* A packet that answers another exists after it, and a node answers for itself
\* only what its phone got.
Answers(x, M) ==
    x.request_id # 0 =>
        /\ \E y \in M : KeyOfFact(y) = << x.to, x.request_id >>
        /\ x.from # x.to => \E q \in node[x.from].phone : Key(q) = << x.to, x.request_id >>
Network(M) ==
    /\ M \in SUBSET AllFacts /\ Unique(M)
    /\ node \in [Nodes -> NodeStates]
    /\ \A n \in Nodes : /\ Local(n, node[n]) /\ Holds(node[n], M)
                        /\ Delivered(n, node[n], M)
                        /\ n \notin rebooted => HandsOnce(node[n])
    /\ \A x \in M : x.id <= node[x.from].ids /\ Answers(x, M)
\* What the phones sent are packets of their own, which answer nothing.
Asked(M) ==
    /\ requested \in Partial(Requests, Nat \ {0})
    /\ \A r \in DOMAIN requested : \E x \in M :
           KeyOfFact(x) = KeyOf(r) /\ x.to = r.to /\ x.request_id = 0
    /\ \A r, q \in DOMAIN requested : KeyOf(r) = KeyOf(q) => r = q
\* The router at n still cares for a packet its phone sent: it retries, or an
\* answer is with the phone or waits for it.
AnswerTo(r, q) == q \in Packets /\ q.to = r.from /\ q.request_id = requested[r]
Cared(r, s) ==
    \/ KeyOf(r) \in DOMAIN s.pending
    \/ \E q : AnswerTo(r, q) /\ (q \in s.phone \/ Waits(s, q))
AllCared ==
    \A r \in DOMAIN requested :
        r.want_ack /\ r.from \notin rebooted => Cared(r, node[r.from])
\* The invariant: M holds the facts of every packet that was ever made.
Kept(M) == Network(M) /\ Asked(M) /\ AllCared
MeshInv == rebooted \subseteq MayReboot /\ \E M : Kept(M)

\* What a step does to the phones: nothing, or one of them gets the packet p.
PhonesSame == \A m \in Nodes : node'[m].phone = node[m].phone
PhoneMayGet(n, p) ==
    \A m \in Nodes : \/ node'[m].phone = node[m].phone
                     \/ m = n /\ node'[m].phone = node[m].phone \cup {p}

\* A node of a sound network is sound.
LEMMA NodeIsSound ==
    ASSUME NEW M, Network(M), NEW n \in Nodes
    PROVE  Sound(n, node[n], M)
  BY DEF Network, Sound, Registry

\* A step of one node, all other nodes as they were.
LEMMA NodeStep ==
    ASSUME NEW M, Network(M), NEW n \in Nodes, NEW t, NEW N, NEW c,
           Sound(n, t, N), M \subseteq N, MadeBy(n, node[n], M, N, c),
           c = << Broadcast, 0 >> \/ \E q \in t.phone : Key(q) = c,
           Delivered(n, t, N), n \notin rebooted' => HandsOnce(t),
           node[n].phone \subseteq t.phone, node[n].ids <= t.ids,
           node' = [node EXCEPT ![n] = t], rebooted \subseteq rebooted'
    PROVE  Network(N)'
<1> USE DEF Network
<1>1. N \in SUBSET AllFacts /\ Unique(N) /\ t \in NodeStates
  BY DEF Sound, Registry
<1>2. node' \in [Nodes -> NodeStates] /\ node'[n] = t
      /\ \A m \in Nodes : m # n => node'[m] = node[m]
  BY <1>1
<1>3. ASSUME NEW m \in Nodes
      PROVE  /\ Local(m, node'[m]) /\ Holds(node'[m], N)
             /\ Delivered(m, node'[m], N)
             /\ m \notin rebooted' => HandsOnce(node'[m])
  <2>1. CASE m = n
    BY <1>2, <2>1 DEF Sound
  <2>2. CASE m # n
    <3>1. node'[m] = node[m]
      BY <1>2, <2>2
    <3>2. Holds(node[m], N) /\ Delivered(m, node[m], N)
      BY DEF Holds, Delivered
    <3> QED
      BY <3>1, <3>2
  <2> QED
    BY <2>1, <2>2
<1>4. ASSUME NEW x \in N
      PROVE  x.id <= node'[x.from].ids /\ Answers(x, N)'
  <2>0. x.from \in Nodes /\ x.id \in Nat
    BY <1>1 DEF AllFacts
  <2>1. \A m \in Nodes : node[m].phone \subseteq node'[m].phone
    BY <1>2
  <2>2. CASE x \in M
    <3>1. x.id <= node[x.from].ids /\ Answers(x, M)
      BY <2>2
    <3>2. Answers(x, N)'
      BY <2>0, <2>1, <3>1 DEF Answers
    <3>3. x.id <= node'[x.from].ids
      <4>1. CASE x.from = n
        <5>1. x.id <= t.ids
          BY <4>1 DEF Sound, Registry
        <5> QED
          BY <1>2, <4>1, <5>1
      <4>2. CASE x.from # n
        BY <1>2, <2>0, <3>1, <4>2
      <4> QED
        BY <4>1, <4>2
    <3> QED
      BY <3>2, <3>3
  <2>3. CASE x \notin M
    <3>1. /\ x.from = n
          /\ x.request_id # 0 => /\ \E y \in N : KeyOfFact(y) = << x.to, x.request_id >>
                                 /\ x.to = n \/ << x.to, x.request_id >> = c
      BY <2>3 DEF MadeBy
    <3>2. x.id <= node'[x.from].ids
      BY <1>2, <3>1 DEF Sound, Registry
    <3>3. Answers(x, N)'
      <4>1. x.request_id # 0 /\ x.from # x.to => c = << x.to, x.request_id >>
        BY <3>1
      <4>2. x.request_id # 0 /\ x.from # x.to => c # << Broadcast, 0 >>
        BY <4>1
      <4> QED
        BY <1>2, <3>1, <4>1, <4>2 DEF Answers
    <3> QED
      BY <3>2, <3>3
  <2> QED
    BY <2>2, <2>3
<1> QED
  BY <1>1, <1>2, <1>3, <1>4
-------------------------------------------------------------------------------
\* Accounted, said of sound nodes.
LEMMA AccountedAs ==
    ASSUME NEW M, Network(M), Asked(M)
    PROVE  Accounted <=> AllCared
<1> SUFFICES ASSUME NEW r \in DOMAIN requested
             PROVE  LET s == node[r.from]
                    IN  (\/ KeyOf(r) \in DOMAIN s.pending
                         \/ Answering(r, s.phone \cup s.dropped \cup ToSet(s.fromRadioQueue)) # {})
                        <=> Cared(r, s)
  BY DEF Accounted, AllCared
<1> DEFINE s == node[r.from]
<1>1. r.from \in Nodes
  BY RouterAssumption, PartialFacts DEF Asked
<1>2. Sound(r.from, s, M)
  BY <1>1, NodeIsSound
<1> HIDE DEF s
<1>3. /\ s.phone \in SUBSET Packets /\ s.dropped \in SUBSET Packets
      /\ s.fromRadioQueue \in Seq(Packets)
  BY <1>2, SoundTypes
<1>4. \A q : q \in s.phone \cup s.dropped \cup ToSet(s.fromRadioQueue)
               <=> q \in Packets /\ (q \in s.phone \/ Waits(s, q))
  BY <1>3 DEF ToSet, Waits
<1> QED
  BY <1>4 DEF Answering, Cared, AnswerTo, s

\* A call gives up the care for packets in L only.
LEMMA CareKept ==
    ASSUME NEW n, NEW s, NEW t, NEW M, NEW N, NEW c, NEW L, Leads(n, s, t, M, N, c, L),
           NEW r \in DOMAIN requested, r.from = n, requested[r] # 0,
           Cared(r, s), KeyOf(r) \notin L
    PROVE  Cared(r, t)
<1>1. KeyOf(r)[1] = n
  BY DEF KeyOf
<1>2. CASE KeyOf(r) \in DOMAIN s.pending
  BY <1>1, <1>2 DEF Leads, Retries, Cared
<1>3. CASE \E q : AnswerTo(r, q) /\ (q \in s.phone \/ Waits(s, q))
  BY <1>3 DEF Leads, Keeps, Cared, AnswerTo
<1> QED
  BY <1>2, <1>3 DEF Cared

\* What handling the packet p does to a node: it records p, and hands it to the
\* phone if it is for the phone and new.
Handles(n, s, t, M, N, c, p) ==
    /\ Sound(n, t, N) /\ M \subseteq N /\ MadeBy(n, s, M, N, c)
    /\ Delivered(n, t, N)
    /\ t.phone = s.phone \/ t.phone = s.phone \cup {p}
    /\ s.ids <= t.ids
    /\ HandsOnce(s) => HandsOnce(t)
    /\ p.to = n => \E q \in t.phone : Key(q) = c
    /\ \A r \in DOMAIN requested :
           /\ r.from = n /\ requested[r] # 0
           /\ Cared(r, s) \/ (p.to = n /\ p.request_id = requested[r])
           => Cared(r, t)

\* A packet that was recorded and is for this node is with its phone.
LEMMA KnownIsDelivered ==
    ASSUME NEW n \in Nodes, NEW t, NEW N, Sound(n, t, N), Delivered(n, t, N),
           NEW p \in Packets, Fact(p) \in N, Known(t, p), p.to = n
    PROVE  \E q \in t.phone : /\ q \in Packets /\ Key(q) = Key(p)
                              /\ q.to = n /\ q.request_id = p.request_id
<1>1. PICK x \in N : KeyOfFact(x) = Key(p) /\ (x.to = n => \E q \in t.phone : Key(q) = Key(p))
  BY DEF Known, Delivered
<1>2. KeyOfFact(Fact(p)) = Key(p) /\ Fact(p).to = n /\ Fact(p).request_id = p.request_id
  BY PacketFacts
<1>3. x = Fact(p)
  BY <1>1, <1>2 DEF Sound, Registry, Unique
<1>4. PICK q \in t.phone : Key(q) = Key(p)
  BY <1>1, <1>2, <1>3
<1>5. q \in Packets /\ Fact(q) \in N
  BY SoundTypes DEF Sound, Holds
<1>6. KeyOfFact(Fact(q)) = Key(q) /\ Fact(q).to = q.to /\ Fact(q).request_id = q.request_id
  BY <1>5, PacketFacts
<1>7. Fact(q) = Fact(p)
  BY <1>2, <1>4, <1>5, <1>6 DEF Sound, Registry, Unique
<1> QED
  BY <1>2, <1>4, <1>5, <1>6, <1>7

\* A packet seen before.
LEMMA KnownHandled ==
    ASSUME NEW n \in Nodes, NEW t, NEW M, Sound(n, t, M), Delivered(n, t, M), NEW c,
           NEW p \in Packets, Fact(p) \in M, p.to = n => Key(p) = c,
           p.from = n => Key(p) \notin DOMAIN t.pending, Known(t, p),
           NEW fallback, NEW weWereNextHop, NEW w,
           \/ w = FloodingDupe(n, WasSeenRecently(t, p), p)
           \/ w = NextHopDupe(n, WasSeenRecently(t, p), p, fallback, weWereNextHop)
    PROVE  \E N : Handles(n, t, w, M, N, c, p)
<1> DEFINE u == WasSeenRecently(t, p)
           L == {Key(p)}
<1>1. /\ Sound(n, u, M) /\ u.pending = t.pending
      /\ DOMAIN u.recentPackets = DOMAIN t.recentPackets
      /\ Keeps(t, u) /\ u.ids = t.ids /\ u.phone = t.phone
  <2>1. /\ Sound(n, u, M) /\ u.pending = t.pending
        /\ DOMAIN u.recentPackets = DOMAIN t.recentPackets \cup {Key(p)}
        /\ Keeps(t, u) /\ u.ids = t.ids /\ u.phone = t.phone
    BY WasSeenRecentlySafe
  <2>2. Key(p) \in DOMAIN t.recentPackets
    BY DEF Known
  <2> QED
    BY <2>1, <2>2
<1>2. \E N : Sound(n, w, N) /\ Leads(n, u, w, M, N, c, L)
  <2> HIDE DEF u
  <2>1. CASE w = FloodingDupe(n, u, p)
    BY <1>1, <2>1, FloodingDupeSafe
  <2>2. CASE w = NextHopDupe(n, u, p, fallback, weWereNextHop)
    BY <1>1, <2>2, NextHopDupeSafe
  <2> QED
    BY <2>1, <2>2 DEF u
<1> HIDE DEF u
<1>3. PICK N : Sound(n, w, N) /\ Leads(n, u, w, M, N, c, L)
  BY <1>2
<1>4. Leads(n, t, u, M, M, c, L)
  BY <1>1 DEF Leads, MadeBy, Records, Retries
<1>5. Leads(n, t, w, M, N, c, L)
  BY <1>1, <1>3, <1>4, Then
<1>6. Delivered(n, w, N)
  BY <1>5 DEF Leads, Records, Keeps, Delivered
<1>7. HandsOnce(t) => HandsOnce(w)
  BY <1>5 DEF Leads, Keeps, HandsOnce
<1>8. w.phone = t.phone
  BY <1>5 DEF Leads, Keeps
<1>9. p.to = n => \E q \in w.phone : /\ q \in Packets /\ Key(q) = Key(p)
                                     /\ q.to = n /\ q.request_id = p.request_id
  BY <1>8, KnownIsDelivered
<1>10. ASSUME NEW r \in DOMAIN requested, r.from = n, requested[r] # 0,
              Cared(r, t) \/ (p.to = n /\ p.request_id = requested[r])
       PROVE  Cared(r, w)
  <2>1. CASE p.to = n /\ p.request_id = requested[r]
    BY <1>9, <1>10, <2>1 DEF Cared, AnswerTo
  <2>2. CASE Cared(r, t) /\ KeyOf(r) \in L
    <3>1. KeyOf(r) = Key(p) /\ p.from = n
      BY <1>10, <2>2, PacketFacts DEF KeyOf
    <3>2. KeyOf(r) \notin DOMAIN t.pending
      BY <3>1
    <3> QED
      BY <1>5, <1>10, <2>2, <3>2 DEF Cared, Leads, Keeps, AnswerTo
  <2>3. CASE Cared(r, t) /\ KeyOf(r) \notin L
    BY <1>5, <1>10, <2>3, CareKept
  <2> QED
    BY <1>10, <2>1, <2>2, <2>3
<1>11. M \subseteq N /\ MadeBy(n, t, M, N, c) /\ t.ids <= w.ids
  BY <1>5 DEF Leads, Keeps
<1> QED
  BY <1>3, <1>6, <1>7, <1>8, <1>9, <1>10, <1>11 DEF Handles

\* A packet that is new.
LEMMA UnknownHandled ==
    ASSUME NEW n \in Nodes, NEW t, NEW M, Sound(n, t, M), Delivered(n, t, M), NEW c,
           NEW p \in Packets, Fact(p) \in M, p.to = n => Key(p) = c, ~Known(t, p)
    PROVE  LET w == HandleReceived(n, WasSeenRecently(t, p), p)
           IN  \E N : Handles(n, t, w, M, N, c, p)
<1> DEFINE u == WasSeenRecently(t, p)
           v == SniffReceived(n, u, p)
           x == HandToPhone(n, v, p)
           w == Reply(n, x, p)
           L == IF p.to = n THEN {<< n, p.request_id >>} ELSE {}
<1>1. /\ Sound(n, u, M) /\ u.pending = t.pending
      /\ DOMAIN u.recentPackets = DOMAIN t.recentPackets \cup {Key(p)}
      /\ Keeps(t, u) /\ u.ids = t.ids /\ u.phone = t.phone
  BY WasSeenRecentlySafe
<1>2. HandleReceived(n, u, p) = w
  BY DEF HandleReceived
<1> HIDE DEF u
<1>3. PICK N : Sound(n, v, N) /\ Leads(n, u, v, M, N, c, L)
  BY <1>1, SniffReceivedSafe
<1> HIDE DEF v
<1>4. M \subseteq N /\ Fact(p) \in N
  BY <1>3 DEF Leads
<1>5. /\ Sound(n, x, N) /\ x.ids = v.ids /\ x.pending = v.pending
      /\ x.recentPackets = v.recentPackets /\ \A q : Waits(x, q) <=> Waits(v, q)
      /\ p.to \in {n, Broadcast}
            => /\ x.phone = v.phone \cup {p}
               /\ x.twice => v.twice \/ \E q \in v.phone : Key(q) = Key(p)
      /\ p.to \notin {n, Broadcast} => x = v
  BY <1>3, <1>4, HandToPhoneSafe
<1> HIDE DEF x
<1>6. PICK O : Sound(n, w, O) /\ Leads(n, x, w, N, O, c, {})
  BY <1>4, <1>5, ReplySafe
<1> HIDE DEF w
<1>7. /\ t.ids \in Nat /\ v.ids \in Nat /\ w.ids \in Nat /\ t.ids <= v.ids /\ v.ids <= w.ids
      /\ M \subseteq O /\ O \in SUBSET AllFacts
  BY <1>1, <1>3, <1>5, <1>6, SoundTypes DEF Leads, Keeps
<1>8. MadeBy(n, t, M, O, c)
  <2> SUFFICES ASSUME NEW y \in O \ M
               PROVE  /\ y.from = n /\ y.id > t.ids
                      /\ y.request_id # 0
                           => /\ \E z \in O : KeyOfFact(z) = << y.to, y.request_id >>
                              /\ y.to = n \/ << y.to, y.request_id >> = c
    BY DEF MadeBy
  <2>1. CASE y \in N
    BY <1>1, <1>3, <1>6, <2>1 DEF Leads, MadeBy
  <2>2. CASE y \notin N
    <3>1. y.from = n /\ y.id > v.ids /\ y.id \in Nat
      BY <1>5, <1>6, <1>7, <2>2 DEF Leads, MadeBy, AllFacts
    <3>2. y.id > t.ids
      BY <1>7, <3>1
    <3> QED
      BY <1>6, <2>2, <3>1, <3>2 DEF Leads, MadeBy
  <2> QED
    BY <2>1, <2>2
<1>9. v.phone = t.phone /\ w.phone = x.phone /\ (v.twice <=> t.twice) /\ (w.twice <=> x.twice)
  BY <1>1, <1>3, <1>6 DEF Leads, Keeps
<1>10. t.phone \subseteq w.phone /\ (p.to \in {n, Broadcast} => p \in w.phone)
  BY <1>5, <1>9
<1>11. Delivered(n, w, O)
  <2> SUFFICES ASSUME NEW k \in DOMAIN w.recentPackets
               PROVE  \E y \in O : /\ KeyOfFact(y) = k
                                   /\ y.to = n => \E q \in w.phone : Key(q) = k
    BY DEF Delivered
  <2>1. CASE k \in DOMAIN t.recentPackets
    BY <1>7, <1>10, <2>1 DEF Delivered
  <2>2. CASE k = Key(p)
    <3>1. KeyOfFact(Fact(p)) = k /\ Fact(p).to = p.to /\ Fact(p) \in O
      BY <1>7, <2>2, PacketFacts
    <3> QED
      BY <1>10, <2>2, <3>1
  <2>3. CASE k \notin DOMAIN u.recentPackets
    BY <1>3, <1>5, <1>6, <2>3 DEF Leads, Records
  <2> QED
    BY <1>1, <2>1, <2>2, <2>3
<1>12. ASSUME HandsOnce(t)
       PROVE  HandsOnce(w)
  <2>1. \A q \in t.phone : Key(q) # Key(p)
    BY <1>12 DEF HandsOnce, Known
  <2>2. ~w.twice
    BY <1>5, <1>9, <1>12, <2>1 DEF HandsOnce
  <2>3. \A k : k \in DOMAIN t.recentPackets \/ k = Key(p) => k \in DOMAIN w.recentPackets
    BY <1>1, <1>3, <1>5, <1>6 DEF Leads, Keeps
  <2>4. \A q \in w.phone : q \in t.phone \/ q = p
    BY <1>5, <1>9
  <2> QED
    BY <1>12, <2>2, <2>3, <2>4 DEF HandsOnce
<1>13. /\ p.to = n => \E q \in w.phone : Key(q) = c
       /\ w.phone = t.phone \/ w.phone = t.phone \cup {p}
  BY <1>5, <1>9, <1>10
<1>14. ASSUME NEW r \in DOMAIN requested, r.from = n, requested[r] # 0,
              Cared(r, t) \/ (p.to = n /\ p.request_id = requested[r])
       PROVE  Cared(r, w)
  <2>1. Cared(r, x)
    <3>1. CASE p.to = n /\ p.request_id = requested[r]
      BY <1>5, <1>14, <3>1 DEF Cared, AnswerTo
    <3>2. CASE Cared(r, t) /\ ~(p.to = n /\ p.request_id = requested[r])
      <4>1. Cared(r, u)
        BY <1>1, <1>14, <3>2 DEF Cared, AnswerTo, Keeps
      <4>2. CASE KeyOf(r) \notin L
        <5>1. Cared(r, v)
          BY <1>3, <1>14, <4>1, <4>2, CareKept
        <5>2. v.phone \subseteq x.phone
          BY <1>5
        <5> QED
          BY <1>5, <5>1, <5>2 DEF Cared
      <4>3. CASE KeyOf(r) \in L
        BY <3>2, <4>3 DEF KeyOf
      <4> QED
        BY <4>2, <4>3
    <3> QED
      BY <1>14, <3>1, <3>2
  <2> QED
    BY <1>6, <1>14, <2>1, CareKept
<1>15. Handles(n, t, w, M, O, c, p)
  BY <1>6, <1>7, <1>8, <1>10, <1>11, <1>12, <1>13, <1>14 DEF Handles
<1> QED
  BY <1>2, <1>15 DEF u
-------------------------------------------------------------------------------
\* The phones' requests have ids, and come from nodes.
LEMMA AskedFacts ==
    ASSUME NEW M, Asked(M), NEW r \in DOMAIN requested
    PROVE  /\ r \in Requests /\ r.from \in Nodes /\ r.to \in Nodes \cup {Broadcast} /\ r.to # r.from
           /\ requested[r] \in Nat \ {0} /\ requested[r] # 0
<1>1. r \in Requests /\ requested[r] \in Nat \ {0}
  BY PartialFacts DEF Asked
<1> QED
  BY <1>1, RouterAssumption

\* More facts leave what the phones asked for in place.
LEMMA AskedKept ==
    ASSUME NEW M, NEW N, Asked(M), M \subseteq N, requested' = requested
    PROVE  Asked(N)'
  BY DEF Asked, KeyOf

\* A step of one node that cares for what it cared for.
LEMMA NodeKept ==
    ASSUME NEW M, Kept(M), NEW n \in Nodes, NEW t, NEW N, NEW c,
           Sound(n, t, N), M \subseteq N, MadeBy(n, node[n], M, N, c),
           c = << Broadcast, 0 >> \/ \E q \in t.phone : Key(q) = c,
           Delivered(n, t, N), n \notin rebooted' => HandsOnce(t),
           node[n].phone \subseteq t.phone, node[n].ids <= t.ids,
           node' = [node EXCEPT ![n] = t], rebooted \subseteq rebooted', requested' = requested,
           n \notin rebooted'
             => \A r \in DOMAIN requested : r.from = n /\ Cared(r, node[n]) => Cared(r, t)
    PROVE  Kept(N)'
<1>1. Network(N)'
  BY NodeStep DEF Kept
<1>2. Asked(N)'
  BY AskedKept DEF Kept
<1>3. ASSUME NEW r \in DOMAIN requested, r.want_ack, r.from \notin rebooted'
      PROVE  Cared(r, node[r.from])'
  <2>1. Cared(r, node[r.from]) /\ r.from \in Nodes
    BY <1>3, AskedFacts DEF Kept, AllCared
  <2>2. node \in [Nodes -> NodeStates]
    BY DEF Kept, Network
  <2>3. node'[r.from] = IF r.from = n THEN t ELSE node[r.from]
    BY <2>1, <2>2
  <2>4. Cared(r, node'[r.from])
    BY <1>3, <2>1, <2>3
  <2> QED
    BY <2>4 DEF Cared, AnswerTo, KeyOf
<1> QED
  BY <1>1, <1>2, <1>3 DEF Kept, AllCared

\* The same for a step made of calls.
LEMMA LeadsKept ==
    ASSUME NEW M, Kept(M), NEW n \in Nodes, NEW t, NEW N, NEW L,
           Sound(n, t, N), Leads(n, node[n], t, M, N, << Broadcast, 0 >>, L),
           node' = [node EXCEPT ![n] = t], rebooted' = rebooted, requested' = requested,
           \A r \in DOMAIN requested :
               r.from = n /\ KeyOf(r) \in L /\ Cared(r, node[n]) => Cared(r, t)
    PROVE  Kept(N)' /\ PhonesSame
<1>1. /\ M \subseteq N /\ MadeBy(n, node[n], M, N, << Broadcast, 0 >>)
      /\ node[n].phone \subseteq t.phone /\ node[n].ids <= t.ids
  BY DEF Leads, Keeps
<1>2. Delivered(n, node[n], M) /\ (n \notin rebooted => HandsOnce(node[n]))
  BY DEF Kept, Network
<1>3. Delivered(n, t, N)
  BY <1>2 DEF Leads, Records, Keeps, Delivered
<1>4. n \notin rebooted' => HandsOnce(t)
  BY <1>2 DEF Leads, Keeps, HandsOnce
<1>5. ASSUME NEW r \in DOMAIN requested, r.from = n, Cared(r, node[n])
      PROVE  Cared(r, t)
  <2>1. CASE KeyOf(r) \in L
    BY <1>5, <2>1
  <2>2. CASE KeyOf(r) \notin L
    <3>1. requested[r] # 0
      BY AskedFacts DEF Kept
    <3> QED
      BY <1>5, <2>2, <3>1, CareKept
  <2> QED
    BY <2>1, <2>2
<1>6. PhonesSame
  <2>1. node \in [Nodes -> NodeStates] /\ t.phone = node[n].phone
    BY DEF Kept, Network, Leads, Keeps
  <2> QED
    BY <2>1 DEF PhonesSame
<1>7. Kept(N)'
  BY <1>1, <1>3, <1>4, <1>5, NodeKept
<1> QED
  BY <1>6, <1>7
-------------------------------------------------------------------------------
\* A restart: only the node database and the phone's packets remain.
LEMMA RebootKept ==
    ASSUME NEW M, Kept(M), NEW n \in Nodes, Reboot(n)
    PROVE  Kept(M)'
<1> DEFINE s == node[n]
           t == [s EXCEPT !.recentPackets = << >>, !.pending = << >>,
                    !.txQueue = << >>, !.fromRadioQueue = << >>]
<1>1. node' = [node EXCEPT ![n] = t] /\ rebooted' = rebooted \cup {n} /\ requested' = requested
  BY DEF Reboot
<1>2. Sound(n, s, M) /\ s \in NodeStates /\ s.ids \in Nat
  BY NodeIsSound, SoundTypes DEF Kept
<1>3. /\ << >> \in Partial(Keys, Entries) /\ << >> \in Partial(Keys, Retransmissions)
      /\ << >> \in Seq(Packets) /\ DOMAIN << >> = {} /\ Len(<< >>) = 0
  BY PartialEmpty
<1> HIDE DEF s
<1>4. /\ t \in NodeStates /\ t.recentPackets = << >> /\ t.pending = << >>
      /\ t.txQueue = << >> /\ t.fromRadioQueue = << >>
      /\ t.ids = s.ids /\ t.phone = s.phone /\ (t.twice <=> s.twice) /\ t.dropped = s.dropped
  BY <1>2, <1>3 DEF NodeStates
<1> HIDE DEF t
<1>5. Sound(n, t, M)
  <2>1. Local(n, t)
    BY <1>3, <1>4, RouterAssumption DEF Local
  <2>2. Holds(t, M)
    BY <1>2, <1>3, <1>4 DEF Sound, Holds
  <2> QED
    BY <1>2, <1>4, <2>1, <2>2 DEF Sound, Registry
<1>6. Delivered(n, t, M) /\ MadeBy(n, s, M, M, << Broadcast, 0 >>)
  BY <1>3, <1>4 DEF Delivered, MadeBy
<1>7. s.phone \subseteq t.phone /\ s.ids <= t.ids /\ n \in rebooted' /\ rebooted \subseteq rebooted'
  BY <1>1, <1>2, <1>4
<1> QED
  BY <1>1, <1>5, <1>6, <1>7, NodeKept DEF s

\* The record of a packet to send again is brought up to date.
LEMMA RecordSafe ==
    ASSUME NEW n, NEW s, NEW M, Sound(n, s, M), NEW c, NEW t, t \in NodeStates,
           NEW k \in DOMAIN s.pending, NEW v \in Retransmissions,
           Key(v.packet) = k, v.packet.to # n, Fact(v.packet) \in M,
           t.pending = [s.pending EXCEPT ![k] = v],
           t.recentPackets = s.recentPackets, t.txQueue = s.txQueue,
           t.fromRadioQueue = s.fromRadioQueue, t.ids = s.ids, t.phone = s.phone,
           t.twice <=> s.twice, t.dropped = s.dropped
    PROVE  Sound(n, t, M) /\ Leads(n, s, t, M, M, c, {})
<1> DEFINE f == [s.pending EXCEPT ![k] = v]
<1>1. s.ids \in Nat /\ s.pending \in Partial(Keys, Retransmissions)
  BY SoundTypes
<1>2. DOMAIN f = DOMAIN s.pending
  BY <1>1, PartialFacts
<1>3. \A j \in DOMAIN f : (f[j] = v /\ j = k) \/ f[j] = s.pending[j]
  BY <1>1, PartialFacts
<1>4. t.pending = f
  OBVIOUS
<1> HIDE DEF f
<1>5. Sound(n, t, M)
  <2>1. Local(n, t)
    BY <1>2, <1>3, <1>4 DEF Sound, Local
  <2>2. Holds(t, M)
    BY <1>2, <1>3, <1>4 DEF Sound, Holds
  <2> QED
    BY <2>1, <2>2 DEF Sound, Registry
<1>6. Leads(n, s, t, M, M, c, {})
  BY <1>1, <1>2, <1>4 DEF Leads, MadeBy, Keeps, Waits, Records, Retries
<1> QED
  BY <1>5, <1>6

\* doRetransmissions(): the answer comes before the record goes.
LEMMA RetransmitKept ==
    ASSUME NEW M, Kept(M), NEW n \in Nodes, NEW k, Retransmit(n, k)
    PROVE  (\E N : Kept(N)') /\ PhonesSame
<1> DEFINE s == node[n]
           rec == s.pending[k]
           p == rec.packet
           v == [rec EXCEPT !.numRetransmissions = @ - 1]
           c == << Broadcast, 0 >>
           again == [s EXCEPT !.pending[k].numRetransmissions = @ - 1]
           reset == [again EXCEPT !.pending[k].packet.next_hop = None, !.next_hop[p.to] = None]
           answered == IF p.from = n THEN AnswerLocally(n, s, "MAX_RETRANSMIT", p.id) ELSE s
           t == IF rec.numRetransmissions = 0 THEN StopRetransmission(n, answered, k)
                ELSE IF p.to = Broadcast THEN FloodingSend(n, again, p)
                ELSE IF rec.numRetransmissions = 1
                THEN FloodingSend(n, reset, [p EXCEPT !.next_hop = None])
                ELSE NextHopSend(n, again, p)
<1>1. /\ k \in DOMAIN s.pending /\ node' = [node EXCEPT ![n] = t]
      /\ rebooted' = rebooted /\ requested' = requested
  BY DEF Retransmit
<1>2. Sound(n, s, M)
  BY NodeIsSound DEF Kept
<1> HIDE DEF s
<1>3. /\ s \in NodeStates /\ s.ids \in Nat /\ s.pending \in Partial(Keys, Retransmissions)
      /\ s.next_hop \in [Nodes -> Hop]
  BY <1>2, SoundTypes
<1>4. rec \in Retransmissions
  BY <1>1, <1>3, PartialFacts
<1>5. p \in Packets /\ rec.numRetransmissions \in 0..(NumReliableRetx - 1) /\ Key(p) = k
      /\ p.to # n /\ Fact(p) \in M
  BY <1>1, <1>2, <1>4 DEF Retransmissions, Sound, Local, Holds
<1>6. \E N : /\ Sound(n, t, N) /\ Leads(n, s, t, M, N, c, {k})
             /\ \A r \in DOMAIN requested :
                    r.from = n /\ KeyOf(r) \in {k} /\ Cared(r, s) => Cared(r, t)
  <2>1. CASE rec.numRetransmissions = 0
    <3>1. PICK N : /\ Sound(n, answered, N) /\ Leads(n, s, answered, M, N, c, {k})
                   /\ p.from = n => \E q \in Packets : q.to = n /\ q.request_id = p.id /\ Waits(answered, q)
      <4>1. CASE p.from = n
        <5>1. answered = AnswerLocally(n, s, "MAX_RETRANSMIT", p.id)
          BY <4>1
        <5>2. p.id \in Nat \ {0} /\ \E y \in M : KeyOfFact(y) = << n, p.id >>
          BY <1>5, <4>1, PacketFacts
        <5> HIDE DEF p, answered
        <5>3. \E N : Sound(n, answered, N) /\ Leads(n, s, answered, M, N, c, {k})
          BY <1>2, <5>1, <5>2, AnswerLocallySafe
        <5>4. \E q \in Packets : q.to = n /\ q.request_id = p.id /\ Waits(answered, q)
          BY <1>2, <5>1, <5>2, AnswerLocallySafe
        <5> QED
          BY <5>3, <5>4
      <4>2. CASE p.from # n
        <5>1. answered = s
          BY <4>2
        <5>2. Leads(n, s, s, M, M, c, {k})
          BY <1>3, Stays
        <5> QED
          BY <1>2, <4>2, <5>1, <5>2
      <4> QED
        BY <4>1, <4>2
    <3>2. t = StopRetransmission(n, answered, k)
      BY <2>1
    <3> HIDE DEF answered, t
    <3>3. Sound(n, t, N) /\ Leads(n, answered, t, N, N, c, {k})
      BY <3>1, <3>2, StopRetransmissionSafe
    <3>4. Leads(n, s, t, M, N, c, {k})
      BY <1>2, <3>1, <3>3, Then
    <3>5. ASSUME NEW r \in DOMAIN requested, r.from = n, KeyOf(r) \in {k}
          PROVE  Cared(r, t)
      <4>1. p.from = n /\ p.id = requested[r] /\ p.id # 0
        BY <1>5, <3>5, PacketFacts DEF KeyOf
      <4>2. PICK q \in Packets : q.to = n /\ q.request_id = p.id /\ Waits(answered, q)
        BY <3>1, <4>1
      <4>3. Waits(t, q)
        BY <3>3, <4>1, <4>2 DEF Leads, Keeps
      <4> QED
        BY <3>5, <4>1, <4>2, <4>3 DEF Cared, AnswerTo
    <3> QED
      BY <3>3, <3>4, <3>5
  <2>2. CASE rec.numRetransmissions # 0
    <3>1. v \in Retransmissions /\ v.packet = p
      <4>1. rec.numRetransmissions - 1 \in 0..(NumReliableRetx - 1)
        BY <1>5, <2>2 DEF NumReliableRetx
      <4> HIDE DEF rec
      <4> QED
        BY <1>4, <4>1 DEF Retransmissions
    <3>2. again = [s EXCEPT !.pending = [s.pending EXCEPT ![k] = v]]
      OBVIOUS
    <3> DEFINE f == [s.pending EXCEPT ![k] = v]
    <3>3. f \in Partial(Keys, Retransmissions)
      BY <1>1, <1>3, <3>1, PartialFacts
    <3>4. /\ again \in NodeStates /\ again.recentPackets = s.recentPackets /\ again.pending = f
          /\ again.txQueue = s.txQueue /\ again.fromRadioQueue = s.fromRadioQueue
          /\ again.ids = s.ids /\ again.phone = s.phone /\ (again.twice <=> s.twice)
          /\ again.dropped = s.dropped /\ again.next_hop = s.next_hop
      <4> HIDE DEF f, p, rec, v, again
      <4> QED
        BY <1>3, <3>2, <3>3 DEF NodeStates, f
    <3> HIDE DEF v, again
    <3>5. Sound(n, again, M) /\ Leads(n, s, again, M, M, c, {})
      BY <1>1, <1>2, <1>5, <3>1, <3>4, RecordSafe
    <3>6. \E N : Sound(n, t, N) /\ Leads(n, s, t, M, N, c, {})
      <4>1. CASE p.to = Broadcast
        <5>1. t = FloodingSend(n, again, p)
          BY <2>2, <4>1
        <5> HIDE DEF p, t
        <5>2. PICK N : Sound(n, t, N) /\ Leads(n, again, t, M, N, c, {})
          BY <1>5, <3>5, <5>1, FloodingSendSafe
        <5> QED
          BY <1>2, <3>5, <5>2, Then
      <4>2. CASE p.to # Broadcast /\ rec.numRetransmissions = 1
        <5> DEFINE q == [p EXCEPT !.next_hop = None]
                   x == [v EXCEPT !.packet = q]
                   h == [s.next_hop EXCEPT ![p.to] = None]
                   g == [again.pending EXCEPT ![k] = x]
        <5>1. t = FloodingSend(n, reset, q)
          BY <4>2
        <5>2. q \in Packets /\ Fact(q) = Fact(p) /\ Key(q) = Key(p) /\ q.to = p.to
          BY <1>5 DEF Packets, Fact, Key, Hop
        <5>3. k \in DOMAIN again.pending /\ again.pending[k] = v
          BY <1>1, <1>3, <3>1, <3>4, PartialFacts
        <5>4. reset = [again EXCEPT !.pending = g, !.next_hop = h]
          BY <3>1, <3>4, <5>3
        <5>5. x \in Retransmissions /\ x.packet = q
          <6> HIDE DEF q
          <6> QED
            BY <3>1, <5>2 DEF Retransmissions
        <5> HIDE DEF p, q, x, reset
        <5>6. g \in Partial(Keys, Retransmissions)
          BY <3>5, <5>3, <5>5, PartialFacts, SoundTypes
        <5>7. h \in [Nodes -> Hop]
          BY <1>3 DEF Hop
        <5>8. /\ reset \in NodeStates /\ reset.pending = g
              /\ reset.recentPackets = again.recentPackets /\ reset.txQueue = again.txQueue
              /\ reset.fromRadioQueue = again.fromRadioQueue /\ reset.ids = again.ids
              /\ reset.phone = again.phone /\ (reset.twice <=> again.twice)
              /\ reset.dropped = again.dropped
          <6> HIDE DEF g, h
          <6> QED
            BY <3>4, <5>4, <5>6, <5>7 DEF NodeStates
        <5>9. Sound(n, reset, M) /\ Leads(n, again, reset, M, M, c, {})
          BY <1>5, <3>5, <5>2, <5>3, <5>5, <5>8, RecordSafe
        <5> HIDE DEF t
        <5>10. PICK N : Sound(n, t, N) /\ Leads(n, reset, t, M, N, c, {})
          BY <1>5, <5>1, <5>2, <5>9, FloodingSendSafe
        <5>11. Leads(n, again, t, M, N, c, {})
          BY <3>5, <5>9, <5>10, Then
        <5> QED
          BY <1>2, <3>5, <5>10, <5>11, Then
      <4>3. CASE p.to # Broadcast /\ rec.numRetransmissions # 1
        <5>1. t = NextHopSend(n, again, p)
          BY <2>2, <4>3
        <5> HIDE DEF p, t
        <5>2. PICK N : Sound(n, t, N) /\ Leads(n, again, t, M, N, c, {})
          BY <1>5, <3>5, <5>1, NextHopSendSafe
        <5> QED
          BY <1>2, <3>5, <5>2, Then
      <4> QED
        BY <4>1, <4>2, <4>3
    <3>7. PICK N : Sound(n, t, N) /\ Leads(n, s, t, M, N, c, {})
      BY <3>6
    <3>8. Leads(n, s, t, M, N, c, {k})
      BY <3>7 DEF Leads, Retries
    <3>9. ASSUME NEW r \in DOMAIN requested, r.from = n, Cared(r, s)
          PROVE  Cared(r, t)
      <4>1. requested[r] # 0
        BY AskedFacts DEF Kept
      <4> HIDE DEF t
      <4> QED
        BY <3>7, <3>9, <4>1, CareKept
    <3> QED
      BY <3>7, <3>8, <3>9
  <2> QED
    BY <2>1, <2>2
<1>7. PICK N : /\ Sound(n, t, N) /\ Leads(n, s, t, M, N, c, {k})
               /\ \A r \in DOMAIN requested :
                      r.from = n /\ KeyOf(r) \in {k} /\ Cared(r, s) => Cared(r, t)
  BY <1>6
<1> HIDE DEF t
<1>8. Kept(N)' /\ PhonesSame
  BY <1>1, <1>7, LeadsKept DEF s
<1> QED
  BY <1>8

\* What a phone sends is a new packet; one that wants an acknowledgement is kept.
LEMMA PhoneSendsKept ==
    ASSUME NEW M, Kept(M), NEW r \in Requests, PhoneSends(r)
    PROVE  (\E N : Kept(N)') /\ PhonesSame
<1> DEFINE n == r.from
           s == node[n]
           new == NewPacket(n, s, r.to, 0, "data", HopLimit)
           p == [new EXCEPT !.want_ack = r.want_ack, !.want_response = r.want_response]
           t == SendLocal(n, [s EXCEPT !.ids = @ + 1], p)
           c == << Broadcast, 0 >>
<1>1. /\ r \notin DOMAIN requested /\ requested' = Put(requested, r, s.ids + 1)
      /\ node' = [node EXCEPT ![n] = t] /\ rebooted' = rebooted
  BY DEF PhoneSends
<1>2. /\ n \in Nodes /\ r.to \in Nodes \cup {Broadcast} /\ r.to # n
      /\ r.want_ack \in BOOLEAN /\ r.want_response \in BOOLEAN
      /\ HopLimit \in 0..7 /\ 0 \in Nat /\ "data" \in Reasons
  BY RouterAssumption DEF Reasons
<1>3. Sound(n, s, M)
  BY <1>2, NodeIsSound DEF Kept
<1>4. s.ids \in Nat
  BY <1>3, SoundTypes
<1>5. /\ p \in Packets /\ p.from = n /\ p.id = s.ids + 1 /\ p.to = r.to /\ p.request_id = 0
      /\ (p.want_ack <=> r.want_ack)
  <2>1. new \in Packets
    BY <1>2, <1>4, NewPacketResult
  <2>2. /\ new.from = n /\ new.id = s.ids + 1 /\ new.to = r.to /\ new.request_id = 0
    BY DEF NewPacket
  <2> HIDE DEF new, n, s
  <2> QED
    BY <1>2, <2>1, <2>2 DEF Packets
<1> HIDE DEF p
<1>6. /\ \E N : Sound(n, t, N) /\ Leads(n, s, t, M, N, c, {}) /\ Fact(p) \in N
      /\ DOMAIN s.pending \subseteq DOMAIN t.pending
      /\ p.want_ack /\ p.to # n => Key(p) \in DOMAIN t.pending
  <2> HIDE DEF n, s
  <2> QED
    BY <1>2, <1>3, <1>5, SendNewSafe
<1> HIDE DEF t
<1>7. PICK N : Sound(n, t, N) /\ Leads(n, s, t, M, N, c, {}) /\ Fact(p) \in N
  BY <1>6
<1>8. M \subseteq N /\ MadeBy(n, s, M, N, c) /\ s.phone \subseteq t.phone /\ s.ids <= t.ids
  BY <1>7 DEF Leads, Keeps
<1>9. Delivered(n, t, N) /\ (n \notin rebooted' => HandsOnce(t))
  <2>1. Delivered(n, s, M) /\ (n \notin rebooted => HandsOnce(s))
    BY <1>2 DEF Kept, Network
  <2>2. Delivered(n, t, N)
    BY <1>7, <2>1 DEF Leads, Records, Keeps, Delivered
  <2>3. n \notin rebooted' => HandsOnce(t)
    BY <1>1, <1>7, <2>1 DEF Leads, Keeps, HandsOnce
  <2> QED
    BY <2>2, <2>3
<1>10. Network(N)'
  <2>1. rebooted \subseteq rebooted'
    BY <1>1
  <2> HIDE DEF n
  <2> QED
    BY <1>1, <1>2, <1>7, <1>8, <1>9, <2>1, NodeStep DEF Kept, s
<1>11. /\ DOMAIN requested' = DOMAIN requested \cup {r} /\ requested'[r] = s.ids + 1
       /\ \A q \in DOMAIN requested : requested'[q] = requested[q]
  <2> DEFINE f == Put(requested, r, s.ids + 1)
  <2>1. DOMAIN f = DOMAIN requested \cup {r}
    BY PutDomain
  <2>2. f[r] = s.ids + 1 /\ \A q \in DOMAIN requested : q # r => f[q] = requested[q]
    BY PutValues
  <2>3. requested' = f
    BY <1>1
  <2> HIDE DEF f
  <2> QED
    BY <1>1, <2>1, <2>2, <2>3
<1>12. \A q \in DOMAIN requested : requested[q] <= s.ids \/ q.from # n
  <2> SUFFICES ASSUME NEW q \in DOMAIN requested, q.from = n
               PROVE  requested[q] <= s.ids
    OBVIOUS
  <2>1. PICK x \in M : KeyOfFact(x) = KeyOf(q)
    BY DEF Kept, Asked
  <2>2. x.from = n /\ x.id = requested[q]
    BY <2>1 DEF KeyOfFact, KeyOf
  <2>3. x.id <= node[x.from].ids
    BY DEF Kept, Network
  <2> QED
    BY <2>2, <2>3
<1>13. Asked(N)'
  <2>1. requested' \in Partial(Requests, Nat \ {0})
    <3>1. s.ids + 1 \in Nat \ {0} /\ requested \in Partial(Requests, Nat \ {0})
      BY <1>4 DEF Kept, Asked
    <3> QED
      BY <1>1, <3>1, PutType
  <2>2. ASSUME NEW q \in DOMAIN requested'
        PROVE  \E x \in N : KeyOfFact(x) = KeyOf(q)' /\ x.to = q.to /\ x.request_id = 0
    <3>1. CASE q = r
      <4>1. KeyOf(q)' = << n, s.ids + 1 >>
        BY <1>11, <3>1 DEF KeyOf
      <4>2. KeyOfFact(Fact(p)) = << n, s.ids + 1 >> /\ Fact(p).to = r.to /\ Fact(p).request_id = 0
        BY <1>5, PacketFacts
      <4> QED
        BY <1>7, <3>1, <4>1, <4>2
    <3>2. CASE q # r
      <4>1. q \in DOMAIN requested /\ KeyOf(q)' = KeyOf(q)
        BY <1>11, <3>2 DEF KeyOf
      <4> QED
        BY <1>8, <4>1 DEF Kept, Asked
    <3> QED
      BY <3>1, <3>2
  <2>3. ASSUME NEW q \in DOMAIN requested', NEW o \in DOMAIN requested', KeyOf(q)' = KeyOf(o)'
        PROVE  q = o
    <3>1. q.from = o.from /\ requested'[q] = requested'[o]
      BY <2>3 DEF KeyOf
    <3>2. CASE q \in DOMAIN requested /\ o \in DOMAIN requested
      BY <1>11, <3>1, <3>2 DEF Kept, Asked, KeyOf
    <3>3. \A y \in DOMAIN requested : y.from = n => requested'[y] # s.ids + 1
      <4> SUFFICES ASSUME NEW y \in DOMAIN requested, y.from = n
                   PROVE  requested'[y] # s.ids + 1
        OBVIOUS
      <4>1. requested[y] <= s.ids /\ requested[y] \in Nat /\ requested'[y] = requested[y]
        BY <1>11, <1>12, AskedFacts DEF Kept
      <4> QED
        BY <1>4, <4>1
    <3> QED
      BY <1>11, <3>1, <3>2, <3>3
  <2> QED
    BY <2>1, <2>2, <2>3 DEF Asked
<1>14. ASSUME NEW q \in DOMAIN requested', q.want_ack, q.from \notin rebooted'
       PROVE  Cared(q, node[q.from])'
  <2>1. node \in [Nodes -> NodeStates]
    BY DEF Kept, Network
  <2>2. CASE q = r
    <3>1. KeyOf(q)' = Key(p)
      BY <1>5, <1>11, <2>2 DEF KeyOf, Key
    <3>2. node'[n] = t
      BY <1>1, <1>2, <2>1
    <3>3. Key(p) \in DOMAIN t.pending
      BY <1>2, <1>5, <1>6, <1>14, <2>2
    <3> QED
      BY <2>2, <3>1, <3>2, <3>3 DEF Cared
  <2>3. CASE q # r
    <3>1. q \in DOMAIN requested /\ requested'[q] = requested[q]
      BY <1>11, <2>3
    <3>2. Cared(q, node[q.from]) /\ q.from \in Nodes
      BY <1>1, <1>14, <3>1, AskedFacts DEF Kept, AllCared
    <3>3. node'[q.from] = IF q.from = n THEN t ELSE node[q.from]
      BY <1>1, <2>1, <3>2
    <3>4. Cared(q, node'[q.from])
      <4>1. CASE q.from = n
        <5>1. requested[q] # 0 /\ KeyOf(q) \notin {}
          BY <3>1, AskedFacts DEF Kept
        <5>2. Cared(q, t)
          BY <1>7, <3>1, <3>2, <4>1, <5>1, CareKept
        <5> QED
          BY <3>3, <4>1, <5>2
      <4>2. CASE q.from # n
        BY <3>2, <3>3, <4>2
      <4> QED
        BY <4>1, <4>2
    <3> QED
      BY <3>1, <3>4 DEF Cared, AnswerTo, KeyOf
  <2> QED
    BY <2>2, <2>3
<1>15. Kept(N)'
  BY <1>10, <1>13, <1>14 DEF Kept, AllCared
<1>16. PhonesSame
  <2>1. node \in [Nodes -> NodeStates] /\ t.phone = s.phone
    BY <1>7 DEF Kept, Network, Leads, Keeps
  <2> QED
    BY <1>1, <1>2, <2>1 DEF PhonesSame
<1> QED
  BY <1>15, <1>16

\* The radio sends a packet: it is not new, so each node stays sound.
LEMMA TransmitKept ==
    ASSUME NEW M, Kept(M), NEW n \in Nodes, Transmit(n)
    PROVE  Kept(M)' /\ PhonesSame
<1> DEFINE c == << Broadcast, 0 >>
<1>1. PICK i \in DOMAIN node[n].txQueue, heard \in SUBSET Hears[n] :
          LET p == node[n].txQueue[i]
          IN  node' = [m \in Nodes |->
                  IF m = n THEN [node[n] EXCEPT !.txQueue = RemoveAt(@, i),
                          !.sent = Put(@, Key(p), IF Key(p) \in DOMAIN @ THEN @[Key(p)] + 1 ELSE 1)]
                  ELSE IF m \in heard THEN EnqueueReceivedMessage(node[m], p) ELSE node[m]]
  BY DEF Transmit
<1>2. requested' = requested /\ rebooted' = rebooted
  BY DEF Transmit
<1> DEFINE s == node[n]
           p == s.txQueue[i]
           w == RemoveAt(s.txQueue, i)
           g == Put(s.sent, Key(p), IF Key(p) \in DOMAIN s.sent THEN s.sent[Key(p)] + 1 ELSE 1)
           t == [s EXCEPT !.txQueue = w, !.sent = g]
<1>3. /\ node' = [m \in Nodes |-> IF m = n THEN t
                    ELSE IF m \in heard THEN EnqueueReceivedMessage(node[m], p) ELSE node[m]]
  BY <1>1
<1>4. \A m \in Nodes : Sound(m, node[m], M)
  BY NodeIsSound DEF Kept
<1>5. s \in NodeStates /\ s.ids \in Nat /\ s.txQueue \in Seq(Packets) /\ s.sent \in Partial(Keys, Nat)
  BY <1>4, SoundTypes DEF NodeStates
<1>6. p \in Packets /\ Fact(p) \in M /\ Key(p) \in Keys
  <2>1. p \in Packets /\ Fact(p) \in M
    BY <1>4, <1>5 DEF Sound, Holds
  <2> QED
    BY <2>1, PacketFacts
<1>7. /\ w \in Seq(Packets)
      /\ \A j \in DOMAIN w : \E l \in DOMAIN s.txQueue : w[j] = s.txQueue[l]
  <2>1. i \in 1..Len(s.txQueue)
    BY <1>5
  <2> QED
    BY <1>5, <2>1, RemoveAtResult
<1>8. g \in Partial(Keys, Nat)
  <2> DEFINE v == IF Key(p) \in DOMAIN s.sent THEN s.sent[Key(p)] + 1 ELSE 1
  <2>1. v \in Nat
    <3>1. \A k \in DOMAIN s.sent : s.sent[k] \in Nat
      BY <1>5, PartialFacts
    <3> QED
      BY <3>1
  <2>2. g = Put(s.sent, Key(p), v)
    OBVIOUS
  <2> HIDE DEF v, g, p, s
  <2>3. Put(s.sent, Key(p), v) \in Partial(Keys, Nat)
    BY <1>5, <1>6, <2>1, PutType
  <2> QED
    BY <2>2, <2>3
<1>9. Sound(n, t, M) /\ Leads(n, s, t, M, M, c, {})
  <2>0. Sound(n, s, M)
    BY <1>4
  <2> HIDE DEF w, g, p, s
  <2>1. /\ t \in NodeStates /\ t.recentPackets = s.recentPackets /\ t.pending = s.pending
        /\ t.txQueue = w /\ t.fromRadioQueue = s.fromRadioQueue
        /\ t.ids = s.ids /\ t.phone = s.phone /\ (t.twice <=> s.twice) /\ t.dropped = s.dropped
    BY <1>5, <1>7, <1>8 DEF NodeStates
  <2> HIDE DEF t
  <2>2. Local(n, t)
    BY <1>7, <2>0, <2>1 DEF Sound, Local
  <2>3. Holds(t, M)
    BY <1>7, <2>0, <2>1 DEF Sound, Holds
  <2>4. Sound(n, t, M)
    BY <2>0, <2>1, <2>2, <2>3 DEF Sound, Registry
  <2>5. Leads(n, s, t, M, M, c, {})
    BY <1>5, <2>1 DEF Leads, MadeBy, Keeps, Waits, Records, Retries
  <2> QED
    BY <2>4, <2>5
<1> HIDE DEF t, p
<1>10. ASSUME NEW m \in Nodes
       PROVE  Sound(m, node'[m], M) /\ Leads(m, node[m], node'[m], M, M, c, {})
  <2>1. CASE m = n
    BY <1>3, <1>9, <2>1
  <2>2. CASE m # n /\ m \in heard
    <3>1. node'[m] = EnqueueReceivedMessage(node[m], p)
      BY <1>3, <2>2
    <3> QED
      BY <1>4, <1>6, <3>1, EnqueueSafe
  <2>3. CASE m # n /\ m \notin heard
    <3>1. node'[m] = node[m]
      BY <1>3, <2>3
    <3>2. node[m].ids \in Nat
      BY <1>4, SoundTypes
    <3> QED
      BY <1>4, <3>1, <3>2, Stays
  <2> QED
    BY <2>1, <2>2, <2>3
<1>11. Network(M)'
  <2>1. node' \in [Nodes -> NodeStates]
    <3>1. \A m \in Nodes : node'[m] \in NodeStates
      BY <1>10 DEF Sound
    <3> QED
      BY <1>3, <3>1
  <2>2. ASSUME NEW m \in Nodes
        PROVE  /\ Local(m, node'[m]) /\ Holds(node'[m], M) /\ Delivered(m, node'[m], M)
               /\ m \notin rebooted' => HandsOnce(node'[m])
    <3>1. Delivered(m, node[m], M) /\ (m \notin rebooted => HandsOnce(node[m]))
      BY DEF Kept, Network
    <3>2. Leads(m, node[m], node'[m], M, M, c, {})
      BY <1>10
    <3>3. Delivered(m, node'[m], M)
      BY <3>1, <3>2 DEF Leads, Records, Keeps, Delivered
    <3>4. m \notin rebooted' => HandsOnce(node'[m])
      BY <1>2, <3>1, <3>2 DEF Leads, Keeps, HandsOnce
    <3> QED
      BY <1>10, <3>3, <3>4 DEF Sound
  <2>3. ASSUME NEW x \in M
        PROVE  x.id <= node'[x.from].ids /\ Answers(x, M)'
    <3>1. x.from \in Nodes /\ x.id <= node[x.from].ids /\ x.id \in Nat /\ Answers(x, M)
      BY DEF Kept, Network, AllFacts
    <3>2. node'[x.from].phone = node[x.from].phone /\ node[x.from].ids <= node'[x.from].ids
      BY <1>10, <3>1 DEF Leads, Keeps
    <3>3. node[x.from].ids \in Nat /\ node'[x.from].ids \in Nat
      BY <1>10, <3>1, <1>4, SoundTypes
    <3> QED
      BY <3>1, <3>2, <3>3 DEF Answers
  <2> QED
    BY <2>1, <2>2, <2>3 DEF Network, Kept
<1>12. Asked(M)'
  BY <1>2, AskedKept DEF Kept
<1>13. ASSUME NEW r \in DOMAIN requested, r.want_ack, r.from \notin rebooted'
       PROVE  Cared(r, node[r.from])'
  <2>1. Cared(r, node[r.from]) /\ r.from \in Nodes /\ requested[r] # 0
    BY <1>2, <1>13, AskedFacts DEF Kept, AllCared
  <2>2. Cared(r, node'[r.from])
    <3>1. Leads(r.from, node[r.from], node'[r.from], M, M, c, {}) /\ KeyOf(r) \notin {}
      BY <1>10, <2>1
    <3> QED
      BY <2>1, <3>1, CareKept
  <2> QED
    BY <1>2, <2>2 DEF Cared, AnswerTo, KeyOf
<1>14. PhonesSame
  BY <1>10 DEF PhonesSame, Leads, Keeps
<1>15. Kept(M)'
  BY <1>2, <1>11, <1>12, <1>13 DEF Kept, AllCared
<1> QED
  BY <1>14, <1>15

\* A packet of this node's own that another passed on was heard: that is its answer.
Heard(n, s, p) ==
    IF p.from = n /\ Key(p) \in DOMAIN s.pending
    THEN StopRetransmission(n, AnswerLocally(n, s, "NONE", p.id), Key(p)) ELSE s
\* The answer waits before the retransmission stops.
LEMMA HeardAgain ==
    ASSUME NEW n \in Nodes, NEW s, NEW M, Sound(n, s, M), NEW c,
           NEW p \in Packets, Fact(p) \in M, NEW t, t = Heard(n, s, p)
    PROVE  /\ \E N : Sound(n, t, N) /\ Leads(n, s, t, M, N, c, {Key(p)})
           /\ p.from = n => Key(p) \notin DOMAIN t.pending
           /\ \A r \in DOMAIN requested :
                  r.from = n /\ requested[r] # 0 /\ Cared(r, s) => Cared(r, t)
<1> DEFINE L == {Key(p)}
<1>1. CASE ~(p.from = n /\ Key(p) \in DOMAIN s.pending)
  <2>1. t = s
    BY <1>1 DEF Heard
  <2>2. Leads(n, s, s, M, M, c, L)
    BY SoundTypes, Stays
  <2> QED
    BY <1>1, <2>1, <2>2
<1>2. CASE p.from = n /\ Key(p) \in DOMAIN s.pending
  <2> DEFINE a == AnswerLocally(n, s, "NONE", p.id)
  <2>1. p.id \in Nat \ {0} /\ p.id # 0 /\ \E y \in M : KeyOfFact(y) = << n, p.id >>
    BY <1>2, PacketFacts
  <2>2. \E N : Sound(n, a, N) /\ Leads(n, s, a, M, N, c, L)
    BY <2>1, AnswerLocallySafe
  <2>3. \E q \in Packets : q.to = n /\ q.request_id = p.id /\ Waits(a, q)
    BY <2>1, AnswerLocallySafe
  <2>4. t = StopRetransmission(n, a, Key(p))
    BY <1>2 DEF Heard
  <2> HIDE DEF a
  <2>5. PICK N : Sound(n, a, N) /\ Leads(n, s, a, M, N, c, L)
    BY <2>2
  <2>6. PICK q \in Packets : q.to = n /\ q.request_id = p.id /\ Waits(a, q)
    BY <2>3
  <2>7. /\ Sound(n, t, N) /\ Leads(n, a, t, N, N, c, L)
        /\ Key(p) \notin DOMAIN t.pending
    <3> DEFINE b == StopRetransmission(n, a, Key(p))
    <3>1. /\ Sound(n, b, N) /\ Leads(n, a, b, N, N, c, L)
          /\ Key(p) \notin DOMAIN b.pending
      BY <2>5, StopRetransmissionSafe
    <3> QED
      BY <2>4, <3>1
  <2>8. Leads(n, s, t, M, N, c, L)
    BY <2>5, <2>7, Then
  <2>9. ASSUME NEW r \in DOMAIN requested, r.from = n, requested[r] # 0, Cared(r, s)
        PROVE  Cared(r, t)
    <3>1. CASE KeyOf(r) \in L
      <4>1. p.id = requested[r]
        BY <1>2, <2>9, <3>1, PacketFacts DEF KeyOf
      <4>2. Waits(t, q)
        BY <2>1, <2>6, <2>7 DEF Leads, Keeps
      <4> QED
        BY <2>6, <2>9, <4>1, <4>2 DEF Cared, AnswerTo
    <3>2. CASE KeyOf(r) \notin L
      BY <2>8, <2>9, <3>2, CareKept
    <3> QED
      BY <3>1, <3>2
  <2> QED
    BY <2>7, <2>8, <2>9
<1> QED
  BY <1>1, <1>2

\* perhapsHandleReceived(): the packet leaves the queue, and if it is an answer
\* our phone waits for, the phone has it then.
LEMMA ReceiveKept ==
    ASSUME NEW M, Kept(M), NEW n \in Nodes, Receive(n)
    PROVE  /\ \E N : Kept(N)'
           /\ \E p \in Packets : Fact(p) \in M /\ PhoneMayGet(n, p)
<1> DEFINE o == node[n]
           p == Head(o.fromRadioQueue)
           s == [o EXCEPT !.fromRadioQueue = Tail(@)]
           t == IF p.from = n /\ Key(p) \in DOMAIN s.pending
                THEN StopRetransmission(n, AnswerLocally(n, s, "NONE", p.id), Key(p)) ELSE s
           u == WasSeenRecently(t, p)
           w == IF ~Known(t, p) THEN HandleReceived(n, u, p)
                ELSE IF p.to = Broadcast THEN FloodingDupe(n, u, p)
                ELSE NextHopDupe(n, u, p, WasFallback(n, t, p), t.recentPackets[Key(p)].next_hop = n)
           c == IF p.to = n THEN Key(p) ELSE << Broadcast, 0 >>
<1>1. /\ o.fromRadioQueue # << >> /\ node' = [node EXCEPT ![n] = w]
      /\ requested' = requested /\ rebooted' = rebooted
  BY DEF Receive
<1>2. Sound(n, o, M) /\ Delivered(n, o, M) /\ (n \notin rebooted => HandsOnce(o))
  BY NodeIsSound DEF Kept, Network
<1> HIDE DEF o
<1>3. o \in NodeStates /\ o.ids \in Nat /\ o.fromRadioQueue \in Seq(Packets)
  BY <1>2, SoundTypes
<1> DEFINE q == o.fromRadioQueue
           v == Tail(q)
<1>4. /\ p \in Packets /\ v \in Seq(Packets) /\ 1 \in DOMAIN q /\ p = q[1]
      /\ \A l \in DOMAIN v : l + 1 \in DOMAIN q /\ v[l] = q[l + 1]
      /\ \A l \in DOMAIN q : l # 1 => l - 1 \in DOMAIN v /\ v[l - 1] = q[l]
      /\ Len(q) \in Nat /\ Len(v) \in Nat /\ Len(v) = Len(q) - 1
  <2>1. q \in Seq(Packets) /\ q # << >>
    BY <1>1, <1>3
  <2> HIDE DEF q
  <2>2. /\ Head(q) \in Packets /\ Tail(q) \in Seq(Packets) /\ 1 \in DOMAIN q /\ Head(q) = q[1]
        /\ Len(q) \in Nat /\ Len(Tail(q)) \in Nat /\ Len(Tail(q)) = Len(q) - 1
    BY <2>1, TailResult
  <2>3. \A l \in DOMAIN Tail(q) : l + 1 \in DOMAIN q /\ Tail(q)[l] = q[l + 1]
    BY <2>1, TailResult
  <2>4. \A l \in DOMAIN q : l # 1 => l - 1 \in DOMAIN Tail(q) /\ Tail(q)[l - 1] = q[l]
    BY <2>1, TailResult
  <2>5. p = Head(q)
    BY DEF q
  <2> HIDE DEF p
  <2> QED
    BY <2>2, <2>3, <2>4, <2>5
<1>5. s = [o EXCEPT !.fromRadioQueue = v]
  OBVIOUS
<1> HIDE DEF s, v, p
<1>6. /\ s \in NodeStates /\ s.recentPackets = o.recentPackets /\ s.pending = o.pending
      /\ s.txQueue = o.txQueue /\ s.fromRadioQueue = v
      /\ s.ids = o.ids /\ s.phone = o.phone /\ (s.twice <=> o.twice) /\ s.dropped = o.dropped
  BY <1>3, <1>4, <1>5 DEF NodeStates
<1>7. Fact(p) \in M
  BY <1>2, <1>4 DEF Sound, Holds
<1>8. Sound(n, s, M)
  <2>1. Local(n, s)
    <3>1. Len(v) <= MaxRx
      <4>1. Len(q) <= MaxRx
        BY <1>2 DEF Sound, Local
      <4> QED
        BY <1>4, <4>1, RouterAssumption
    <3> QED
      BY <1>2, <1>6, <3>1 DEF Sound, Local
  <2>2. Holds(s, M)
    BY <1>2, <1>4, <1>6 DEF Sound, Holds
  <2> QED
    BY <1>2, <1>6, <2>1, <2>2 DEF Sound, Registry
<1>9. \A r \in DOMAIN requested :
          r.from = n /\ Cared(r, o) => Cared(r, s) \/ (p.to = n /\ p.request_id = requested[r])
  <2>1. \A x : Waits(o, x) => Waits(s, x) \/ x = p
    <3> SUFFICES ASSUME NEW x, Waits(o, x), x # p
                 PROVE  Waits(s, x)
      OBVIOUS
    <3>1. CASE x \in o.dropped
      BY <1>6, <3>1 DEF Waits
    <3>2. CASE \E l \in DOMAIN q : q[l] = x
      <4>1. PICK l \in DOMAIN q : q[l] = x
        BY <3>2
      <4>2. l - 1 \in DOMAIN v /\ v[l - 1] = x
        BY <1>4, <4>1
      <4> QED
        BY <1>6, <4>2 DEF Waits
    <3> QED
      BY <3>1, <3>2 DEF Waits
  <2> QED
    BY <1>6, <2>1 DEF Cared, AnswerTo
<1>10. /\ \E N : Sound(n, t, N) /\ Leads(n, s, t, M, N, c, {Key(p)})
       /\ p.from = n => Key(p) \notin DOMAIN t.pending
       /\ \A r \in DOMAIN requested :
              r.from = n /\ requested[r] # 0 /\ Cared(r, s) => Cared(r, t)
  <2>1. t = Heard(n, s, p)
    BY DEF Heard
  <2>2. p \in Packets
    BY <1>4
  <2> HIDE DEF c, t
  <2>3. \E N : Sound(n, t, N) /\ Leads(n, s, t, M, N, c, {Key(p)})
    BY <1>7, <1>8, <2>1, <2>2, HeardAgain
  <2>4. p.from = n => Key(p) \notin DOMAIN t.pending
    BY <1>7, <1>8, <2>1, <2>2, HeardAgain
  <2>5. \A r \in DOMAIN requested :
              r.from = n /\ requested[r] # 0 /\ Cared(r, s) => Cared(r, t)
    BY <1>7, <1>8, <2>1, <2>2, HeardAgain
  <2> QED
    BY <2>3, <2>4, <2>5
<1> HIDE DEF t
<1>11. PICK N : Sound(n, t, N) /\ Leads(n, s, t, M, N, c, {Key(p)})
  BY <1>10
<1>12. Fact(p) \in N /\ M \subseteq N /\ Delivered(n, t, N) /\ (p.to = n => Key(p) = c)
  <2>1. Fact(p) \in N /\ M \subseteq N
    BY <1>7, <1>11 DEF Leads
  <2>2. Delivered(n, t, N)
    BY <1>2, <1>6, <1>11 DEF Leads, Records, Keeps, Delivered
  <2> QED
    BY <2>1, <2>2
<1>13. \E O : Handles(n, t, w, N, O, c, p)
  <2> HIDE DEF c
  <2>1. CASE ~Known(t, p)
    <3>1. w = HandleReceived(n, WasSeenRecently(t, p), p)
      BY <2>1
    <3> HIDE DEF w
    <3> QED
      BY <1>4, <1>11, <1>12, <2>1, <3>1, UnknownHandled
  <2>2. CASE Known(t, p)
    <3> DEFINE fallback == WasFallback(n, t, p)
               were == t.recentPackets[Key(p)].next_hop = n
    <3>1. \/ w = FloodingDupe(n, WasSeenRecently(t, p), p)
          \/ w = NextHopDupe(n, WasSeenRecently(t, p), p, fallback, were)
      BY <2>2
    <3>2. p.from = n => Key(p) \notin DOMAIN t.pending
      BY <1>10
    <3>3. Sound(n, t, N) /\ p \in Packets
      BY <1>4, <1>11
    <3>4. Fact(p) \in N /\ Delivered(n, t, N) /\ (p.to = n => Key(p) = c)
      BY <1>12
    <3> HIDE DEF w, u, fallback, were
    <3> QED
      BY <2>2, <3>1, <3>2, <3>3, <3>4, KnownHandled
  <2> QED
    BY <2>1, <2>2
<1> HIDE DEF w
<1>14. PICK O : Handles(n, t, w, N, O, c, p)
  BY <1>13
<1>15. /\ o.ids \in Nat /\ t.ids \in Nat /\ w.ids \in Nat /\ o.ids <= t.ids /\ t.ids <= w.ids
       /\ N \subseteq O /\ O \in SUBSET AllFacts
  BY <1>3, <1>6, <1>11, <1>14, SoundTypes DEF Leads, Keeps, Handles
<1>16. MadeBy(n, o, M, O, c)
  <2> SUFFICES ASSUME NEW y \in O \ M
               PROVE  /\ y.from = n /\ y.id > o.ids
                      /\ y.request_id # 0
                           => /\ \E z \in O : KeyOfFact(z) = << y.to, y.request_id >>
                              /\ y.to = n \/ << y.to, y.request_id >> = c
    BY DEF MadeBy
  <2> HIDE DEF c
  <2>1. CASE y \in N
    BY <1>6, <1>11, <1>15, <2>1 DEF Leads, MadeBy
  <2>2. CASE y \notin N
    <3>1. y.from = n /\ y.id > t.ids /\ y.id \in Nat
      BY <1>14, <1>15, <2>2 DEF Handles, MadeBy, AllFacts
    <3>2. y.id > o.ids
      BY <1>15, <3>1
    <3> QED
      BY <1>14, <2>2, <3>1, <3>2 DEF Handles, MadeBy
  <2> QED
    BY <2>1, <2>2
<1>17. o.phone \subseteq w.phone /\ o.ids <= w.ids
  BY <1>6, <1>11, <1>14, <1>15 DEF Leads, Keeps, Handles
<1>18. n \notin rebooted' => HandsOnce(w)
  <2>1. HandsOnce(o) => HandsOnce(t)
    BY <1>6, <1>11 DEF Leads, Keeps, HandsOnce
  <2> QED
    BY <1>1, <1>2, <1>14, <2>1 DEF Handles
<1>19. c = << Broadcast, 0 >> \/ \E x \in w.phone : Key(x) = c
  BY <1>14 DEF Handles
<1>20. ASSUME NEW r \in DOMAIN requested, r.from = n, Cared(r, o)
       PROVE  Cared(r, w)
  <2>1. requested[r] # 0
    BY AskedFacts DEF Kept
  <2>2. Cared(r, t) \/ (p.to = n /\ p.request_id = requested[r])
    BY <1>9, <1>10, <1>20, <2>1
  <2> QED
    BY <1>14, <1>20, <2>1, <2>2 DEF Handles
<1>21. Kept(O)'
  <2>1. Sound(n, w, O) /\ Delivered(n, w, O) /\ M \subseteq O /\ rebooted \subseteq rebooted'
    BY <1>1, <1>12, <1>14, <1>15 DEF Handles
  <2> HIDE DEF c
  <2> QED
    BY <1>1, <1>16, <1>17, <1>18, <1>19, <1>20, <2>1, NodeKept DEF o
<1>22. PhoneMayGet(n, p)
  <2>1. w.phone = o.phone \/ w.phone = o.phone \cup {p}
    BY <1>6, <1>11, <1>14 DEF Handles, Leads, Keeps
  <2>2. node \in [Nodes -> NodeStates]
    BY DEF Kept, Network
  <2>3. o = node[n]
    BY DEF o
  <2>4. \A m \in Nodes : node'[m] = IF m = n THEN w ELSE node[m]
    BY <1>1, <2>2
  <2> SUFFICES ASSUME NEW m \in Nodes
               PROVE  \/ node'[m].phone = node[m].phone
                      \/ m = n /\ node'[m].phone = node[m].phone \cup {p}
    BY DEF PhoneMayGet
  <2>5. CASE m = n
    <3>1. node'[m] = w /\ node[m] = o
      BY <2>3, <2>4, <2>5
    <3> QED
      BY <2>1, <2>5, <3>1
  <2>6. CASE m # n
    BY <2>4, <2>6
  <2> QED
    BY <2>5, <2>6
<1> QED
  BY <1>4, <1>7, <1>21, <1>22
-------------------------------------------------------------------------------
\* Nothing was made yet, and nothing is promised.
LEMMA InitKept ==
    ASSUME Init
    PROVE  MeshInv
<1> DEFINE start(routes, n) ==
        [recentPackets |-> << >>, pending |-> << >>, txQueue |-> << >>,
         fromRadioQueue |-> << >>, next_hop |-> routes[n], ids |-> 0,
         phone |-> {}, twice |-> FALSE, dropped |-> {}, sent |-> << >>]
<1>1. PICK routes \in Routes : node = [n \in Nodes |-> start(routes, n)]
  BY DEF Init
<1>2. requested = << >> /\ rebooted = {}
  BY DEF Init
<1>3. /\ << >> \in Partial(Keys, Entries) /\ << >> \in Partial(Keys, Retransmissions)
      /\ << >> \in Partial(Keys, Nat) /\ << >> \in Partial(Requests, Nat \ {0})
      /\ << >> \in Seq(Packets) /\ DOMAIN << >> = {} /\ Len(<< >>) = 0
  BY PartialEmpty
<1>4. ASSUME NEW n \in Nodes
      PROVE  /\ node[n] \in NodeStates /\ Local(n, node[n]) /\ Holds(node[n], {})
             /\ Delivered(n, node[n], {}) /\ HandsOnce(node[n])
  <2> DEFINE s == start(routes, n)
  <2>1. node[n] = s /\ routes[n] \in [Nodes -> Hop]
    BY <1>1, RouterAssumption
  <2>2. /\ s.recentPackets = << >> /\ s.pending = << >> /\ s.txQueue = << >>
        /\ s.fromRadioQueue = << >> /\ s.phone = {} /\ s.twice = FALSE
    OBVIOUS
  <2>3. s \in NodeStates
    BY <1>3, <2>1 DEF NodeStates
  <2> HIDE DEF s
  <2>4. Local(n, s) /\ Holds(s, {}) /\ Delivered(n, s, {}) /\ HandsOnce(s)
    BY <1>3, <2>2, RouterAssumption DEF Local, Holds, Delivered, HandsOnce
  <2> QED
    BY <2>1, <2>3, <2>4
<1>5. Network({})
  BY <1>1, <1>4 DEF Network, Unique
<1>6. Asked({})
  BY <1>2, <1>3 DEF Asked
<1>7. AllCared
  BY <1>2, <1>3 DEF AllCared
<1> QED
  BY <1>2, <1>5, <1>6, <1>7 DEF MeshInv, Kept

\* The duty cycle's limit, and nothing at all, change no node.
LEMMA SameKept ==
    ASSUME NEW M, Kept(M), node' = node, requested' = requested, rebooted' = rebooted
    PROVE  Kept(M)'
<1>1. Network(M)'
  BY DEF Kept, Network, Answers
<1>2. Asked(M)'
  BY DEF Kept, Asked, KeyOf
<1>3. AllCared'
  BY DEF Kept, AllCared, Cared, AnswerTo, KeyOf
<1> QED
  BY <1>1, <1>2, <1>3 DEF Kept

\* Every step keeps the invariant.
LEMMA StepKept ==
    ASSUME MeshInv, [Next]_vars
    PROVE  MeshInv'
<1>1. PICK M : Kept(M)
  BY DEF MeshInv
<1>2. rebooted \subseteq MayReboot
  BY DEF MeshInv
<1>3. ASSUME NEW r \in Requests, PhoneSends(r)
      PROVE  MeshInv'
  <2>1. \E N : Kept(N)'
    BY <1>1, <1>3, PhoneSendsKept
  <2>2. rebooted' = rebooted
    BY <1>3 DEF PhoneSends
  <2> QED
    BY <1>2, <2>1, <2>2 DEF MeshInv
<1>4. ASSUME NEW n \in Nodes, Transmit(n)
      PROVE  MeshInv'
  <2>1. Kept(M)'
    BY <1>1, <1>4, TransmitKept
  <2>2. rebooted' = rebooted
    BY <1>4 DEF Transmit
  <2> QED
    BY <1>2, <2>1, <2>2 DEF MeshInv
<1>5. ASSUME NEW n \in Nodes, Receive(n)
      PROVE  MeshInv'
  <2>1. \E N : Kept(N)'
    BY <1>1, <1>5, ReceiveKept
  <2>2. rebooted' = rebooted
    BY <1>5 DEF Receive
  <2> QED
    BY <1>2, <2>1, <2>2 DEF MeshInv
<1>6. ASSUME NEW n \in Nodes, NEW k \in DOMAIN node[n].pending, Retransmit(n, k)
      PROVE  MeshInv'
  <2>1. \E N : Kept(N)'
    BY <1>1, <1>6, RetransmitKept
  <2>2. rebooted' = rebooted
    BY <1>6 DEF Retransmit
  <2> QED
    BY <1>2, <2>1, <2>2 DEF MeshInv
<1>7. ASSUME NEW n \in Nodes, DutyCycle(n)
      PROVE  MeshInv'
  <2>1. node' = node /\ requested' = requested /\ rebooted' = rebooted
    BY <1>7 DEF DutyCycle
  <2>2. Kept(M)'
    BY <1>1, <2>1, SameKept
  <2> QED
    BY <1>2, <2>1, <2>2 DEF MeshInv
<1>8. ASSUME NEW n \in Nodes, Reboot(n)
      PROVE  MeshInv'
  <2>1. Kept(M)'
    BY <1>1, <1>8, RebootKept
  <2>2. rebooted' \subseteq MayReboot
    BY <1>2, <1>8 DEF Reboot
  <2> QED
    BY <2>1, <2>2 DEF MeshInv
<1>9. CASE UNCHANGED vars
  <2>1. node' = node /\ requested' = requested /\ rebooted' = rebooted
    BY <1>9 DEF vars
  <2>2. Kept(M)'
    BY <1>1, <2>1, SameKept
  <2> QED
    BY <1>2, <2>1, <2>2 DEF MeshInv
<1> QED
  BY <1>3, <1>4, <1>5, <1>6, <1>7, <1>8, <1>9 DEF Next, Work

\* A network that keeps its promises is made of nodes as TypeOK says.
LEMMA Typed ==
    ASSUME MeshInv
    PROVE  TypeOK
<1>1. PICK M : Kept(M)
  BY DEF MeshInv
<1> SUFFICES ASSUME NEW n \in Nodes
             PROVE  LET s == node[n] IN
        /\ DOMAIN s.recentPackets \subseteq Keys
        /\ \A k \in DOMAIN s.recentPackets :
               /\ s.recentPackets[k].next_hop \in Hop
               /\ Len(s.recentPackets[k].relayed_by) <= NumRelayers
        /\ \A k \in DOMAIN s.pending :
               /\ s.pending[k].packet \in Packets /\ Key(s.pending[k].packet) = k
               /\ s.pending[k].numRetransmissions < NumReliableRetx
        /\ \A i \in DOMAIN s.txQueue : s.txQueue[i] \in Packets /\ s.txQueue[i].relay_node = n
        /\ \A i \in DOMAIN s.fromRadioQueue : s.fromRadioQueue[i] \in Packets
        /\ Len(s.fromRadioQueue) <= MaxRx
        /\ s.next_hop \in [Nodes -> Hop]
  BY DEF TypeOK
<1> DEFINE s == node[n]
<1>2. Sound(n, s, M)
  BY <1>1, NodeIsSound DEF Kept
<1> HIDE DEF s
<1>3. /\ s.recentPackets \in Partial(Keys, Entries) /\ s.pending \in Partial(Keys, Retransmissions)
      /\ s.txQueue \in Seq(Packets) /\ s.fromRadioQueue \in Seq(Packets)
      /\ s.next_hop \in [Nodes -> Hop]
  BY <1>2, SoundTypes
<1>4. /\ DOMAIN s.recentPackets \subseteq Keys
      /\ \A k \in DOMAIN s.recentPackets : s.recentPackets[k] \in Entries
  BY <1>3, PartialFacts
<1>5. \A k \in DOMAIN s.pending : s.pending[k] \in Retransmissions
  BY <1>3, PartialFacts
<1>6. \A k \in DOMAIN s.recentPackets :
               /\ s.recentPackets[k].next_hop \in Hop
               /\ Len(s.recentPackets[k].relayed_by) <= NumRelayers
  BY <1>4 DEF Entries
<1>7. \A k \in DOMAIN s.pending :
               /\ s.pending[k].packet \in Packets /\ Key(s.pending[k].packet) = k
               /\ s.pending[k].numRetransmissions < NumReliableRetx
  BY <1>2, <1>5 DEF Retransmissions, Sound, Local, NumReliableRetx
<1>8. \A i \in DOMAIN s.txQueue : s.txQueue[i] \in Packets /\ s.txQueue[i].relay_node = n
  BY <1>2, <1>3 DEF Sound, Local
<1>9. \A i \in DOMAIN s.fromRadioQueue : s.fromRadioQueue[i] \in Packets
  BY <1>3
<1>10. Len(s.fromRadioQueue) <= MaxRx
  BY <1>2 DEF Sound, Local
<1> QED
  BY <1>3, <1>4, <1>6, <1>7, <1>8, <1>9, <1>10 DEF s

\* On every network the facts of the packets ever made account for what each
\* node holds: MeshInv, which the other theorems rest on.
THEOREM MeshInvariance == Spec => []MeshInv
<1>1. Init => MeshInv
  BY InitKept
<1>2. MeshInv /\ [Next]_vars => MeshInv'
  BY StepKept
<1> QED
  BY <1>1, <1>2, PTL DEF Spec

\* The queues, histories and records hold what TypeOK says.
THEOREM TypeCorrectness == Spec => []TypeOK
<1>1. MeshInv => TypeOK
  BY Typed
<1> QED
  BY <1>1, MeshInvariance, PTL

\* The router never forgets a reliable packet of its phone's: until an answer
\* reached the phone it retries, or the answer waits in fromRadioQueue, or that
\* queue overflowed and threw it out.
THEOREM Accounting == Spec => []Accounted
<1>1. MeshInv => Accounted
  BY AccountedAs DEF MeshInv, Kept
<1> QED
  BY <1>1, MeshInvariance, PTL
-------------------------------------------------------------------------------
(* MeshDelivery is implemented where no node restarts: a node that did     *)
(* forgets what its phone got, and may hand it over again.                 *)
Once == \A n \in Nodes : ~node[n].twice

\* Where no node restarted no phone got a packet twice.
LEMMA OnceKept ==
    ASSUME NEW M, Kept(M), rebooted = {}
    PROVE  Once
  BY DEF Kept, Network, HandsOnce, Once

\* A message has its nodes.
LEMMA MessageFacts ==
    ASSUME NEW r \in Messages
    PROVE  r \in Requests /\ r.from \in Nodes /\ r.to \in Nodes /\ r.to # r.from
  BY RouterAssumption DEF Messages

\* The abstract state of a network that hands packets over once.
LEMMA DeliveredOnce ==
    ASSUME Once
    PROVE  [r \in Messages |-> IF ~Arrived(r) THEN 0 ELSE IF node[r.to].twice THEN 2 ELSE 1]
           = [r \in Messages |-> IF Arrived(r) THEN 1 ELSE 0]
  BY MessageFacts DEF Once

\* The same of the next state.
LEMMA DeliveredOncePrimed ==
    ASSUME Once'
    PROVE  [r \in Messages |-> IF ~Arrived(r) THEN 0 ELSE IF node[r.to].twice THEN 2 ELSE 1]'
           = [r \in Messages |-> IF Arrived(r)' THEN 1 ELSE 0]
  BY MessageFacts DEF Once

\* Nothing changes of what was promised.
LEMMA StutterMaps ==
    ASSUME Once, Once', DOMAIN requested' \cap Messages = DOMAIN requested \cap Messages,
           \A r \in Messages : /\ Arrived(r)' <=> Arrived(r)
                               /\ Confirmed(r)' <=> Confirmed(r)
                               /\ Refused(r)' <=> Refused(r)
    PROVE  UNCHANGED Promise!vars
  BY DeliveredOnce, DeliveredOncePrimed DEF Promise!vars

\* A phone sends a message.
LEMMA SendMaps ==
    ASSUME Once, Once', NEW m \in Messages, m \notin DOMAIN requested,
           DOMAIN requested' = DOMAIN requested \cup {m},
           \A r \in Messages : /\ Arrived(r)' <=> Arrived(r)
                               /\ Confirmed(r)' <=> Confirmed(r)
                               /\ Refused(r)' <=> Refused(r)
    PROVE  Promise!Send(m)
  BY DeliveredOnce, DeliveredOncePrimed DEF Promise!Send

\* A phone gets a message.
LEMMA DeliverMaps ==
    ASSUME Once, Once', requested' = requested, NEW m \in Messages,
           Made(m), ~Arrived(m), Arrived(m)',
           \A r \in Messages : /\ r # m => (Arrived(r)' <=> Arrived(r))
                               /\ Confirmed(r)' <=> Confirmed(r)
                               /\ Refused(r)' <=> Refused(r)
    PROVE  Promise!Deliver(m)
  BY DeliveredOnce, DeliveredOncePrimed DEF Promise!Deliver, Made

\* A phone gets an answer of the destination.
LEMMA ConfirmMaps ==
    ASSUME Once, Once', requested' = requested, NEW m \in Messages,
           Arrived(m), ~Confirmed(m), Confirmed(m)',
           \A r \in Messages : /\ Arrived(r)' <=> Arrived(r)
                               /\ r # m => (Confirmed(r)' <=> Confirmed(r))
                               /\ Refused(r)' <=> Refused(r)
    PROVE  Promise!Confirm(m)
  BY DeliveredOnce, DeliveredOncePrimed DEF Promise!Confirm

\* A phone is told that its router gave up.
LEMMA RefuseMaps ==
    ASSUME Once, Once', requested' = requested, NEW m \in Messages,
           Made(m), ~Refused(m), Refused(m)',
           \A r \in Messages : /\ Arrived(r)' <=> Arrived(r)
                               /\ Confirmed(r)' <=> Confirmed(r)
                               /\ r # m => (Refused(r)' <=> Refused(r))
    PROVE  Promise!Refuse(m)
  BY DeliveredOnce, DeliveredOncePrimed DEF Promise!Refuse, Made

\* The phones as they were: nothing of the promise changes.
LEMMA PhonesSameMaps ==
    ASSUME Once, Once', PhonesSame, requested' = requested
    PROVE  UNCHANGED Promise!vars
<1>1. ASSUME NEW r \in Messages
      PROVE  /\ Arrived(r)' <=> Arrived(r)
             /\ Confirmed(r)' <=> Confirmed(r)
             /\ Refused(r)' <=> Refused(r)
  <2>1. /\ node'[r.from].phone = node[r.from].phone
        /\ node'[r.to].phone = node[r.to].phone
    BY MessageFacts DEF PhonesSame
  <2> QED
    BY <2>1 DEF Arrived, Confirmed, Refused, Made, Answering, KeyOf
<1> QED
  BY <1>1, StutterMaps

\* The phone of node n gets p: p is one message that arrives, or one answer.
LEMMA PhoneGetsMaps ==
    ASSUME NEW M, Kept(M), Once, Once', requested' = requested, NEW n \in Nodes,
           NEW p \in Packets, Fact(p) \in M, PhoneMayGet(n, p)
    PROVE  Promise!Next \/ UNCHANGED Promise!vars
<1>1. CASE node'[n].phone = node[n].phone
  <2>1. PhonesSame
    BY <1>1 DEF PhoneMayGet, PhonesSame
  <2> QED
    BY <2>1, PhonesSameMaps
<1>2. CASE node'[n].phone = node[n].phone \cup {p}
  <2> DEFINE Arrives(r) == Made(r) /\ r.to = n /\ Key(p) = KeyOf(r)
             Answered(r) == Made(r) /\ r.from = n /\ p.to = n /\ p.request_id = requested[r]
             Confirms(r) == Answered(r) /\ p.from = r.to
             Refuses(r) == Answered(r) /\ p.from = n /\ p.error_reason # "NONE"
  <2>1. ASSUME NEW r \in Messages
        PROVE  /\ Arrived(r)' <=> Arrived(r) \/ Arrives(r)
               /\ Confirmed(r)' <=> Confirmed(r) \/ Confirms(r)
               /\ Refused(r)' <=> Refused(r) \/ Refuses(r)
    <3>1. r.from \in Nodes /\ r.to \in Nodes
      BY MessageFacts
    <3>2. \A m \in Nodes : node'[m].phone =
              IF m = n THEN node[m].phone \cup {p} ELSE node[m].phone
      BY <1>2 DEF PhoneMayGet
    <3>3. Arrived(r)' <=> Arrived(r) \/ Arrives(r)
      BY <3>1, <3>2 DEF Arrived, Made, KeyOf
    <3>4. Confirmed(r)' <=> Confirmed(r) \/ Confirms(r)
      BY <3>1, <3>2 DEF Confirmed, Made, Answering
    <3>5. Refused(r)' <=> Refused(r) \/ Refuses(r)
      BY <3>1, <3>2 DEF Refused, Made, Answering
    <3> QED
      BY <3>3, <3>4, <3>5
  <2>2. \A r, q \in Messages : Arrives(r) /\ Arrives(q) => r = q
    BY DEF Kept, Asked, Made
  <2>3. \A r, q \in Messages : Answered(r) /\ Answered(q) => r = q
    BY DEF Kept, Asked, Made, KeyOf
  <2>4. ASSUME NEW r \in Messages, NEW q \in Messages, Arrives(r), Answered(q)
        PROVE  FALSE
    <3>1. PICK x \in M : KeyOfFact(x) = KeyOf(r) /\ x.request_id = 0
      BY <2>4 DEF Kept, Asked, Made
    <3>2. x = Fact(p)
      BY <2>4, <3>1, PacketFacts DEF Kept, Network, Unique
    <3>3. p.request_id = 0
      BY <3>1, <3>2, PacketFacts
    <3>4. requested[q] # 0
      BY <2>4, AskedFacts DEF Kept, Made
    <3> QED
      BY <2>4, <3>3, <3>4
  <2>5. \A r, q \in Messages : Confirms(r) /\ Refuses(q) => FALSE
    BY MessageFacts
  <2>6. ASSUME NEW r \in Messages, Confirms(r)
        PROVE  Arrived(r)
    <3>1. p.request_id # 0
      BY <2>6, AskedFacts DEF Kept, Made
    <3>2. p.from = r.to /\ p.from # p.to
      BY <2>6, MessageFacts
    <3>3. Answers(Fact(p), M)
      BY DEF Kept, Network
    <3>4. \E q \in node[r.to].phone : Key(q) = << p.to, p.request_id >>
      BY <3>1, <3>2, <3>3, PacketFacts DEF Answers
    <3>5. << p.to, p.request_id >> = KeyOf(r)
      BY <2>6 DEF KeyOf
    <3> QED
      BY <2>6, <3>4, <3>5 DEF Arrived
  <2> HIDE DEF Arrives, Answered, Confirms, Refuses
  <2>7. CASE \E m \in Messages : Arrives(m) /\ ~Arrived(m)
    <3>1. PICK m \in Messages : Arrives(m) /\ ~Arrived(m)
      BY <2>7
    <3>2. Promise!Deliver(m)
      BY <2>1, <2>2, <2>4, <3>1, DeliverMaps DEF Arrives, Confirms, Refuses
    <3> QED
      BY <3>2 DEF Promise!Next
  <2>8. CASE \E m \in Messages : Confirms(m) /\ ~Confirmed(m)
    <3>1. PICK m \in Messages : Confirms(m) /\ ~Confirmed(m)
      BY <2>8
    <3>2. Promise!Confirm(m)
      BY <2>1, <2>3, <2>4, <2>5, <2>6, <3>1, ConfirmMaps DEF Confirms
    <3> QED
      BY <3>2 DEF Promise!Next
  <2>9. CASE \E m \in Messages : Refuses(m) /\ ~Refused(m)
    <3>1. PICK m \in Messages : Refuses(m) /\ ~Refused(m)
      BY <2>9
    <3>2. Promise!Refuse(m)
      BY <2>1, <2>3, <2>4, <2>5, <3>1, RefuseMaps DEF Refuses, Answered
    <3> QED
      BY <3>2 DEF Promise!Next
  <2>10. CASE \A m \in Messages : /\ Arrives(m) => Arrived(m)
                                  /\ Confirms(m) => Confirmed(m)
                                  /\ Refuses(m) => Refused(m)
    BY <2>1, <2>10, StutterMaps
  <2> QED
    BY <2>7, <2>8, <2>9, <2>10
<1> QED
  BY <1>1, <1>2 DEF PhoneMayGet

\* A phone sends: the message is new, and nothing answers it yet.
LEMMA PhoneSendsMaps ==
    ASSUME NEW M, Kept(M), Once, Once', NEW m \in Requests, PhoneSends(m), PhonesSame
    PROVE  Promise!Next \/ UNCHANGED Promise!vars
<1> DEFINE id == node[m.from].ids + 1
<1>1. m \notin DOMAIN requested /\ requested' = Put(requested, m, id) /\ m.from \in Nodes
  BY RouterAssumption DEF PhoneSends
<1>2. /\ DOMAIN requested' = DOMAIN requested \cup {m}
      /\ requested'[m] = id
      /\ \A r \in DOMAIN requested : requested'[r] = requested[r]
  <2> HIDE DEF id
  <2>1. DOMAIN Put(requested, m, id) = DOMAIN requested \cup {m}
    BY PutDomain
  <2>2. /\ Put(requested, m, id)[m] = id
        /\ \A r \in DOMAIN requested : r # m => Put(requested, m, id)[r] = requested[r]
    BY PutValues
  <2> QED
    BY <1>1, <2>1, <2>2
<1>3. \A x \in M : KeyOfFact(x) # << m.from, id >>
  <2> SUFFICES ASSUME NEW x \in M, KeyOfFact(x) = << m.from, id >>
               PROVE  FALSE
    OBVIOUS
  <2>1. x.from = m.from /\ x.id = id
    BY DEF KeyOfFact
  <2>2. x.id <= node[x.from].ids /\ x.id \in Nat
    BY DEF Kept, Network, AllFacts
  <2>3. node[m.from].ids \in Nat
    BY <1>1, NodeIsSound, SoundTypes DEF Kept
  <2> QED
    BY <2>1, <2>2, <2>3
<1>4. \A k \in Nodes : \A q \in node[k].phone : q \in Packets /\ Fact(q) \in M
  BY NodeIsSound, SoundTypes DEF Kept, Sound, Holds
<1>5. ASSUME NEW k \in Nodes, NEW q \in node[k].phone
      PROVE  Key(q) # << m.from, id >> /\ << q.to, q.request_id >> # << m.from, id >>
  <2>1. Key(q) # << m.from, id >>
    BY <1>3, <1>4, PacketFacts
  <2>2. Answers(Fact(q), M)
    BY <1>4 DEF Kept, Network
  <2>3. q.request_id # 0 => << q.to, q.request_id >> # << m.from, id >>
    BY <1>3, <1>4, <2>2, PacketFacts DEF Answers
  <2>4. id # 0
    BY <1>1, NodeIsSound, SoundTypes DEF Kept
  <2> QED
    BY <2>1, <2>3, <2>4
<1> HIDE DEF id
<1>6. ASSUME NEW r \in Messages
      PROVE  /\ Arrived(r)' <=> Arrived(r)
             /\ Confirmed(r)' <=> Confirmed(r)
             /\ Refused(r)' <=> Refused(r)
  <2>1. /\ node'[r.from].phone = node[r.from].phone /\ r.from \in Nodes
        /\ node'[r.to].phone = node[r.to].phone /\ r.to \in Nodes
    BY MessageFacts DEF PhonesSame
  <2>2. CASE r # m
    BY <1>2, <2>1, <2>2 DEF Arrived, Confirmed, Refused, Made, Answering, KeyOf
  <2>3. CASE r = m
    <3>1. ~Arrived(r) /\ ~Confirmed(r) /\ ~Refused(r)
      BY <1>1, <2>3 DEF Arrived, Confirmed, Refused, Made
    <3>2. ~Arrived(r)'
      BY <1>2, <1>5, <2>1, <2>3 DEF Arrived, KeyOf
    <3>3. ~Confirmed(r)' /\ ~Refused(r)'
      BY <1>2, <1>5, <2>1, <2>3 DEF Confirmed, Refused, Answering
    <3> QED
      BY <3>1, <3>2, <3>3
  <2> QED
    BY <2>2, <2>3
<1>7. CASE m \in Messages
  <2>1. Promise!Send(m)
    BY <1>1, <1>2, <1>6, <1>7, SendMaps
  <2> QED
    BY <1>7, <2>1 DEF Promise!Next
<1>8. CASE m \notin Messages
  <2>1. DOMAIN requested' \cap Messages = DOMAIN requested \cap Messages
    BY <1>2, <1>8
  <2> QED
    BY <1>6, <2>1, StutterMaps
<1> QED
  BY <1>7, <1>8

\* At first nothing was sent.
LEMMA InitMaps ==
    ASSUME Init
    PROVE  Promise!Init
<1>1. requested = << >> /\ DOMAIN << >> = {}
  BY PartialEmpty DEF Init
<1>2. \A r \in Messages : ~Arrived(r) /\ ~Confirmed(r) /\ ~Refused(r)
  BY <1>1 DEF Arrived, Confirmed, Refused, Made
<1> QED
  BY <1>1, <1>2 DEF Promise!Init

\* Each step is a step of MeshDelivery or changes nothing of it.
LEMMA StepMaps ==
    ASSUME MayReboot = {}, MeshInv, MeshInv', [Next]_vars
    PROVE  Promise!Next \/ UNCHANGED Promise!vars
<1>1. PICK M : Kept(M)
  BY DEF MeshInv
<1>2. rebooted = {} /\ rebooted' = {}
  BY DEF MeshInv
<1>3. Once
  BY <1>1, <1>2, OnceKept
<1>4. Once'
  BY <1>2 DEF MeshInv, Kept, Network, HandsOnce, Once
<1>5. ASSUME NEW r \in Requests, PhoneSends(r)
      PROVE  Promise!Next \/ UNCHANGED Promise!vars
  <2>1. PhonesSame
    BY <1>1, <1>5, PhoneSendsKept
  <2> QED
    BY <1>1, <1>3, <1>4, <1>5, <2>1, PhoneSendsMaps
<1>6. ASSUME NEW n \in Nodes, Receive(n)
      PROVE  Promise!Next \/ UNCHANGED Promise!vars
  <2>1. PICK p \in Packets : Fact(p) \in M /\ PhoneMayGet(n, p)
    BY <1>1, <1>6, ReceiveKept
  <2>2. requested' = requested
    BY <1>6 DEF Receive
  <2> QED
    BY <1>1, <1>3, <1>4, <2>1, <2>2, PhoneGetsMaps
<1>7. ASSUME PhonesSame, requested' = requested
      PROVE  UNCHANGED Promise!vars
  BY <1>3, <1>4, <1>7, PhonesSameMaps
<1>8. ASSUME NEW n \in Nodes, Transmit(n)
      PROVE  PhonesSame /\ requested' = requested
  BY <1>1, <1>8, TransmitKept DEF Transmit
<1>9. ASSUME NEW n \in Nodes, NEW k \in DOMAIN node[n].pending, Retransmit(n, k)
      PROVE  PhonesSame /\ requested' = requested
  BY <1>1, <1>9, RetransmitKept DEF Retransmit
<1>10. ASSUME NEW n \in Nodes, DutyCycle(n)
       PROVE  PhonesSame /\ requested' = requested
  BY <1>10 DEF DutyCycle, PhonesSame
<1>11. ASSUME NEW n \in Nodes, Reboot(n)
       PROVE  FALSE
  BY <1>11 DEF Reboot
<1>12. CASE UNCHANGED vars
  <2>1. PhonesSame /\ requested' = requested
    BY <1>12 DEF vars, PhonesSame
  <2> QED
    BY <1>7, <2>1
<1> QED
  BY <1>5, <1>6, <1>7, <1>8, <1>9, <1>10, <1>11, <1>12 DEF Next, Work

\* Where no node restarts the routers implement MeshDelivery: a message reaches
\* the other phone once at most, and no phone is told so of one that did not.
THEOREM DeliveryRefinement == ASSUME MayReboot = {} PROVE Spec => DeliveryKept
<1>1. Init => Promise!Init
  BY InitMaps
<1>2. MeshInv /\ MeshInv' /\ [Next]_vars => [Promise!Next]_Promise!vars
  BY StepMaps
<1> QED
  BY <1>1, <1>2, MeshInvariance, PTL DEF Spec, DeliveryKept, Promise!Spec
-------------------------------------------------------------------------------
(* How often a node sends a packet of its own: the copies that wait in the *)
(* transmit queue, the tries that are left and the times it was sent add   *)
(* up to no more than the tries of a reliable packet.                      *)
OwnKeys(n) == {k \in Keys : k[1] = n}
Copies(s, k) == {i \in DOMAIN s.txQueue : Key(s.txQueue[i]) = k}
Left(s, k) == IF k \in DOMAIN s.pending THEN s.pending[k].numRetransmissions ELSE 0
Gone(s, k) == IF k \in DOMAIN s.sent THEN s.sent[k] ELSE 0
ToSend(s, k) == Cardinality(Copies(s, k)) + Left(s, k)
\* Only a reliable packet has two tries left: NextHopRouter::send(), which
\* starts the tries anew, does so for no reliable packet of this node's own.
Ends(s, k) ==
    k \in DOMAIN s.pending =>
        s.pending[k].numRetransmissions <= 1 \/ s.pending[k].packet.want_ack
Budget(n, s) ==
    \A k \in OwnKeys(n) :
        /\ ToSend(s, k) + Gone(s, k) <= NumReliableRetx
        /\ Ends(s, k)
        /\ k \in DOMAIN s.sent => k[2] <= s.ids
AllBudget == \A n \in Nodes : Budget(n, node[n])

\* From s node n comes to t, and sends nothing yet: what it is to send of the
\* packet c grows by a, of its other packets not, and of one it makes on the way
\* it will send no more than the tries of a reliable packet.
Grows(n, s, t, c, a) ==
    /\ s.ids <= t.ids /\ t.sent = s.sent
    /\ \A k \in OwnKeys(n) :
           /\ k[2] <= s.ids => ToSend(t, k) <= ToSend(s, k) + (IF k = c THEN a ELSE 0)
           /\ k[2] > s.ids => ToSend(t, k) <= NumReliableRetx
           /\ Ends(s, k) => Ends(t, k)
-------------------------------------------------------------------------------
\* A node's own key, a pair.
LEMMA OwnKeyFacts ==
    ASSUME NEW n, NEW k \in OwnKeys(n)
    PROVE  k \in Keys /\ k[1] = n /\ k[2] \in Nat \ {0} /\ k = << n, k[2] >>
  BY DEF OwnKeys, Keys

\* The copies in a transmit queue can be counted.
LEMMA CopiesCount ==
    ASSUME NEW s, s.txQueue \in Seq(Packets), NEW k
    PROVE  IsFiniteSet(Copies(s, k)) /\ Cardinality(Copies(s, k)) \in Nat
<1>1. Len(s.txQueue) \in Nat /\ DOMAIN s.txQueue = 1..Len(s.txQueue)
  OBVIOUS
<1>2. IsFiniteSet(1..Len(s.txQueue))
  BY <1>1, FS_Interval
<1>3. Copies(s, k) \in SUBSET (1..Len(s.txQueue))
  BY <1>1 DEF Copies
<1>4. IsFiniteSet(Copies(s, k))
  BY <1>2, <1>3, FS_Subset
<1> QED
  BY <1>4, FS_CardinalityType

\* One packet more at the end.
LEMMA CopiesAppend ==
    ASSUME NEW s, s.txQueue \in Seq(Packets), NEW p \in Packets, NEW t,
           t.txQueue = Append(s.txQueue, p), NEW k
    PROVE  Cardinality(Copies(t, k)) = Cardinality(Copies(s, k)) + (IF Key(p) = k THEN 1 ELSE 0)
<1> DEFINE q == s.txQueue
           m == Len(q) + 1
<1>1. /\ Len(q) \in Nat /\ DOMAIN q = 1..Len(q)
      /\ DOMAIN Append(q, p) = 1..m /\ Append(q, p)[m] = p
      /\ \A i \in 1..Len(q) : Append(q, p)[i] = q[i]
  OBVIOUS
<1>2. IsFiniteSet(Copies(s, k)) /\ Cardinality(Copies(s, k)) \in Nat
  BY CopiesCount
<1>3. m \notin Copies(s, k)
  BY <1>1 DEF Copies
<1>4. CASE Key(p) = k
  <2>1. Copies(t, k) = Copies(s, k) \cup {m}
    BY <1>1, <1>4 DEF Copies
  <2> HIDE DEF m
  <2>2. Cardinality(Copies(s, k) \cup {m}) = Cardinality(Copies(s, k)) + 1
    BY <1>2, <1>3, FS_AddElement
  <2> QED
    BY <1>4, <2>1, <2>2
<1>5. CASE Key(p) # k
  <2>1. Copies(t, k) = Copies(s, k)
    BY <1>1, <1>5 DEF Copies
  <2> QED
    BY <1>2, <1>5, <2>1
<1> QED
  BY <1>4, <1>5

\* One packet less: the places behind it move up by one.
LEMMA CopiesRemove ==
    ASSUME NEW s, s.txQueue \in Seq(Packets), NEW i \in DOMAIN s.txQueue, NEW t,
           t.txQueue = RemoveAt(s.txQueue, i), NEW k
    PROVE  Cardinality(Copies(t, k)) + (IF Key(s.txQueue[i]) = k THEN 1 ELSE 0)
             <= Cardinality(Copies(s, k))
<1> DEFINE q == s.txQueue
           r == t.txQueue
           u == SubSeq(q, 1, i - 1)
           v == SubSeq(q, i + 1, Len(q))
           T == Copies(s, k) \ {i}
           f == [j \in Copies(t, k) |-> IF j < i THEN j ELSE j + 1]
<1>1. Len(q) \in Nat /\ DOMAIN q = 1..Len(q) /\ i \in Nat /\ i >= 1 /\ i <= Len(q)
  OBVIOUS
<1>2. u \in Seq(Packets) /\ Len(u) = i - 1 /\ \A j \in 1..(i - 1) : u[j] = q[j]
  BY <1>1
<1>3. v \in Seq(Packets) /\ Len(v) = Len(q) - i /\ \A j \in 1..(Len(q) - i) : v[j] = q[i + j]
  BY <1>1
<1>4. r = u \o v
  BY DEF RemoveAt
<1>5. /\ r \in Seq(Packets) /\ DOMAIN r = 1..(Len(q) - 1)
      /\ \A j \in 1..(Len(q) - 1) : r[j] = IF j < i THEN q[j] ELSE q[j + 1]
  <2> HIDE DEF u, v, q, r
  <2>1. /\ r \in Seq(Packets) /\ Len(r) = Len(u) + Len(v)
        /\ \A j \in 1..(Len(u) + Len(v)) :
               r[j] = IF j <= Len(u) THEN u[j] ELSE v[j - Len(u)]
    BY <1>2, <1>3, <1>4, ConcatProperties
  <2>2. Len(u) + Len(v) = Len(q) - 1
    BY <1>1, <1>2, <1>3
  <2>3. DOMAIN r = 1..(Len(q) - 1)
    BY <2>1, <2>2
  <2>4. ASSUME NEW j \in 1..(Len(q) - 1)
        PROVE  r[j] = IF j < i THEN q[j] ELSE q[j + 1]
    <3>0. j \in Nat /\ r[j] = IF j <= Len(u) THEN u[j] ELSE v[j - Len(u)]
      BY <1>1, <2>1, <2>2
    <3>1. j \in Nat /\ r[j] = IF j <= i - 1 THEN u[j] ELSE v[j - (i - 1)]
      BY <1>2, <3>0
    <3>2. CASE j < i
      BY <1>1, <1>2, <3>1, <3>2
    <3>3. CASE ~(j < i)
      <4>1. j - (i - 1) \in 1..(Len(q) - i) /\ i + (j - (i - 1)) = j + 1
        BY <1>1, <3>1, <3>3
      <4>2. r[j] = v[j - (i - 1)]
        BY <1>1, <3>1, <3>3
      <4>3. v[j - (i - 1)] = q[i + (j - (i - 1))]
        BY <1>3, <4>1
      <4> QED
        BY <3>3, <4>1, <4>2, <4>3
    <3> QED
      BY <3>2, <3>3
  <2> QED
    BY <2>1, <2>3, <2>4
<1>6. IsFiniteSet(Copies(s, k)) /\ Cardinality(Copies(s, k)) \in Nat
  BY CopiesCount
<1>7. IsFiniteSet(T) /\ Cardinality(T) + (IF Key(q[i]) = k THEN 1 ELSE 0) = Cardinality(Copies(s, k))
  <2>1. i \in Copies(s, k) <=> Key(q[i]) = k
    BY DEF Copies
  <2>2. /\ IsFiniteSet(T)
        /\ Cardinality(T) = IF i \in Copies(s, k) THEN Cardinality(Copies(s, k)) - 1
                            ELSE Cardinality(Copies(s, k))
    BY <1>6, FS_RemoveElement
  <2> HIDE DEF T, q
  <2> QED
    BY <1>6, <2>1, <2>2
<1>8. f \in Injection(Copies(t, k), T)
  <2>1. \A j \in Copies(t, k) : j \in 1..(Len(q) - 1) /\ Key(r[j]) = k
    BY <1>5 DEF Copies
  <2>2. ASSUME NEW j \in Copies(t, k)
        PROVE  f[j] \in T
    <3>1. j \in Nat /\ f[j] \in DOMAIN q /\ f[j] # i
      BY <1>1, <2>1
    <3>2. q[f[j]] = r[j]
      BY <1>1, <1>5, <2>1
    <3> QED
      BY <2>1, <3>1, <3>2 DEF Copies
  <2>3. ASSUME NEW j \in Copies(t, k), NEW l \in Copies(t, k), f[j] = f[l]
        PROVE  j = l
    <3>1. j \in Nat /\ l \in Nat
      BY <1>1, <2>1
    <3> QED
      BY <1>1, <2>3, <3>1
  <2> HIDE DEF f, T
  <2>4. f \in [Copies(t, k) -> T]
    BY <2>2 DEF f
  <2> QED
    BY <2>3, <2>4 DEF Injection, IsInjective
<1>9. Cardinality(Copies(t, k)) <= Cardinality(T)
  <2> HIDE DEF f, T
  <2> QED
    BY <1>7, <1>8, FS_Injection
<1>10. Cardinality(Copies(t, k)) \in Nat /\ Cardinality(T) \in Nat
  BY <1>5, <1>7, CopiesCount, FS_CardinalityType
<1> QED
  BY <1>6, <1>7, <1>9, <1>10
-------------------------------------------------------------------------------
\* What a node is to send of a packet is a number.
LEMMA ToSendType ==
    ASSUME NEW n, NEW s, NEW M, Sound(n, s, M), NEW k
    PROVE  /\ Cardinality(Copies(s, k)) \in Nat /\ Left(s, k) \in 0..(NumReliableRetx - 1)
           /\ ToSend(s, k) \in Nat
           /\ ToSend(s, k) = Cardinality(Copies(s, k)) + Left(s, k)
<1>1. Cardinality(Copies(s, k)) \in Nat
  BY SoundTypes, CopiesCount
<1>2. Left(s, k) \in 0..(NumReliableRetx - 1)
  <2>1. CASE k \in DOMAIN s.pending
    <3>1. s.pending[k] \in Retransmissions
      BY <2>1, SoundTypes, PartialFacts
    <3> QED
      BY <2>1, <3>1 DEF Left, Retransmissions
  <2>2. CASE k \notin DOMAIN s.pending
    BY <2>2 DEF Left, NumReliableRetx
  <2> QED
    BY <2>1, <2>2
<1> QED
  BY <1>1, <1>2 DEF ToSend, NumReliableRetx

\* A packet of a node's own that exists is not newer than its last.
LEMMA OwnId ==
    ASSUME NEW n, NEW s, NEW M, Sound(n, s, M), NEW p \in Packets, Fact(p) \in M, p.from = n
    PROVE  Key(p) \in OwnKeys(n) /\ Key(p)[2] = p.id /\ p.id <= s.ids
<1>1. Fact(p).id = p.id /\ Fact(p).from = n /\ Key(p) = << n, p.id >> /\ Key(p) \in Keys
  BY PacketFacts
<1> QED
  BY <1>1 DEF Sound, Registry, OwnKeys

\* A packet that exists is another node's, or not newer than the last of its own.
LEMMA ExistingKey ==
    ASSUME NEW n, NEW s, NEW M, Sound(n, s, M), NEW p \in Packets, Fact(p) \in M
    PROVE  Key(p) \notin OwnKeys(n) \/ Key(p)[2] <= s.ids
<1>1. p.from = n => Key(p)[2] <= s.ids
  BY OwnId
<1>2. p.from # n => Key(p) \notin OwnKeys(n)
  BY PacketFacts, OwnKeyFacts
<1> QED
  BY <1>1, <1>2

\* Of a packet it did not make yet it has nothing to send.
LEMMA FreshKey ==
    ASSUME NEW n, NEW s, NEW M, Sound(n, s, M), NEW k \in OwnKeys(n), k[2] > s.ids
    PROVE  /\ k \notin DOMAIN s.pending /\ Copies(s, k) = {}
           /\ ToSend(s, k) = 0 /\ Ends(s, k)
<1>1. /\ s.ids \in Nat /\ k[2] \in Nat /\ k[1] = n /\ s.txQueue \in Seq(Packets)
      /\ s.pending \in Partial(Keys, Retransmissions)
  BY SoundTypes, OwnKeyFacts
<1>2. ASSUME NEW p \in Packets, Fact(p) \in M, Key(p) = k
      PROVE  FALSE
  <2>1. p.from = n
    BY <1>1, <1>2, PacketFacts
  <2>2. k[2] <= s.ids
    BY <1>2, <2>1, OwnId
  <2> QED
    BY <1>1, <2>2
<1>3. Copies(s, k) = {}
  <2> SUFFICES ASSUME NEW i \in DOMAIN s.txQueue, Key(s.txQueue[i]) = k
               PROVE  FALSE
    BY DEF Copies
  <2>1. s.txQueue[i] \in Packets /\ Fact(s.txQueue[i]) \in M
    BY <1>1 DEF Sound, Holds
  <2> QED
    BY <1>2, <2>1
<1>4. k \notin DOMAIN s.pending
  <2> SUFFICES ASSUME k \in DOMAIN s.pending
               PROVE  FALSE
    OBVIOUS
  <2>1. s.pending[k] \in Retransmissions
    BY <1>1, PartialFacts
  <2>2. Fact(s.pending[k].packet) \in M /\ Key(s.pending[k].packet) = k
    BY DEF Sound, Holds, Local
  <2>3. s.pending[k].packet \in Packets
    BY <2>1 DEF Retransmissions
  <2> QED
    BY <1>2, <2>2, <2>3
<1>5. ToSend(s, k) = 0
  BY <1>3, <1>4, FS_EmptySet DEF ToSend, Left
<1> QED
  BY <1>3, <1>4, <1>5 DEF Ends

\* A call grows what it grows of every packet, made or not.
LEMMA GrowsBy ==
    ASSUME NEW n, NEW s, NEW M, Sound(n, s, M), NEW t, NEW N, Sound(n, t, N),
           NEW c, NEW a \in 0..NumReliableRetx, s.ids <= t.ids, t.sent = s.sent,
           \A k \in OwnKeys(n) : /\ ToSend(t, k) <= ToSend(s, k) + (IF k = c THEN a ELSE 0)
                                 /\ Ends(s, k) => Ends(t, k)
    PROVE  Grows(n, s, t, c, a)
<1> SUFFICES ASSUME NEW k \in OwnKeys(n), k[2] > s.ids
             PROVE  ToSend(t, k) <= NumReliableRetx
  BY DEF Grows
<1>1. ToSend(s, k) = 0 /\ ToSend(t, k) \in Nat
  BY FreshKey, ToSendType
<1>2. ToSend(t, k) <= ToSend(s, k) + (IF k = c THEN a ELSE 0)
  OBVIOUS
<1> QED
  BY <1>1, <1>2 DEF NumReliableRetx

\* Nothing grows: said of the packet 0, which no node makes.
Calm(n, s, t) == Grows(n, s, t, << n, 0 >>, 0)

\* By nothing, whatever the packet is.
LEMMA CalmGrows ==
    ASSUME NEW n, NEW s, NEW t, NEW M, NEW N, Sound(n, s, M), Sound(n, t, N), NEW c
    PROVE  /\ Calm(n, s, t) => Grows(n, s, t, c, 0)
           /\ \A a : Grows(n, s, t, c, a) /\ (a = 0 \/ c \notin OwnKeys(n)) => Calm(n, s, t)
<1>1. \A k \in OwnKeys(n) : ToSend(s, k) \in Nat /\ ToSend(t, k) \in Nat /\ k # << n, 0 >>
  BY ToSendType, OwnKeyFacts
<1> QED
  BY <1>1 DEF Calm, Grows

\* One call after another.
LEMMA GrowsThen ==
    ASSUME NEW n, NEW s, NEW t, NEW u, NEW M, NEW N, NEW O,
           Sound(n, s, M), Sound(n, t, N), Sound(n, u, O),
           NEW c, NEW a \in Nat, NEW b \in Nat, Grows(n, s, t, c, a), Grows(n, t, u, c, b),
           b = 0 \/ c \notin OwnKeys(n) \/ c[2] <= s.ids
    PROVE  Grows(n, s, u, c, a + b)
<1>1. s.ids \in Nat /\ t.ids \in Nat /\ u.ids \in Nat /\ s.ids <= t.ids /\ t.ids <= u.ids
  BY SoundTypes DEF Grows
<1>2. ASSUME NEW k \in OwnKeys(n)
      PROVE  /\ k[2] <= s.ids => ToSend(u, k) <= ToSend(s, k) + (IF k = c THEN a + b ELSE 0)
             /\ k[2] > s.ids => ToSend(u, k) <= NumReliableRetx
             /\ Ends(s, k) => Ends(u, k)
  <2>1. k[2] \in Nat /\ ToSend(s, k) \in Nat /\ ToSend(t, k) \in Nat /\ ToSend(u, k) \in Nat
    BY ToSendType, OwnKeyFacts
  <2>2. /\ k[2] <= s.ids => ToSend(t, k) <= ToSend(s, k) + (IF k = c THEN a ELSE 0)
        /\ k[2] > s.ids => ToSend(t, k) <= NumReliableRetx
        /\ Ends(s, k) => Ends(t, k)
        /\ k[2] <= t.ids => ToSend(u, k) <= ToSend(t, k) + (IF k = c THEN b ELSE 0)
        /\ k[2] > t.ids => ToSend(u, k) <= NumReliableRetx
        /\ Ends(t, k) => Ends(u, k)
    BY DEF Grows
  <2>3. CASE k[2] <= s.ids
    BY <1>1, <2>1, <2>2, <2>3
  <2>4. CASE k[2] > s.ids
    <3>1. k = c => b = 0
      BY <1>1, <2>1, <2>4
    <3> QED
      BY <1>1, <2>1, <2>2, <2>4, <3>1 DEF NumReliableRetx
  <2> QED
    BY <1>1, <2>1, <2>3, <2>4
<1> QED
  BY <1>1, <1>2 DEF Grows

\* The same where nothing grows.
LEMMA CalmThen ==
    ASSUME NEW n, NEW s, NEW t, NEW u, NEW M, NEW N, NEW O,
           Sound(n, s, M), Sound(n, t, N), Sound(n, u, O), Calm(n, s, t), Calm(n, t, u)
    PROVE  Calm(n, s, u)
<1>1. Grows(n, s, u, << n, 0 >>, 0 + 0)
  BY GrowsThen DEF Calm
<1> QED
  BY <1>1 DEF Calm

\* The same of a packet that exists, before it grows and after.
LEMMA CalmThenGrows ==
    ASSUME NEW n, NEW s, NEW t, NEW u, NEW M, NEW N, NEW O,
           Sound(n, s, M), Sound(n, t, N), Sound(n, u, O),
           NEW p \in Packets, Fact(p) \in M, NEW a \in Nat,
           Calm(n, s, t), Grows(n, t, u, Key(p), a)
    PROVE  Grows(n, s, u, Key(p), a)
<1>1. Key(p) \notin OwnKeys(n) \/ Key(p)[2] <= s.ids
  BY ExistingKey
<1>2. Grows(n, s, t, Key(p), 0)
  BY CalmGrows
<1>3. Grows(n, s, u, Key(p), 0 + a)
  BY <1>1, <1>2, GrowsThen
<1> QED
  BY <1>3

\* A call that touches neither the transmit queue nor the retransmissions.
LEMMA Untouched ==
    ASSUME NEW n, NEW s, NEW t, NEW M, NEW N, Sound(n, s, M), Sound(n, t, N),
           t.txQueue = s.txQueue, t.pending = s.pending, t.sent = s.sent, s.ids <= t.ids
    PROVE  Calm(n, s, t)
<1>1. \A k : ToSend(t, k) = ToSend(s, k) /\ (Ends(s, k) => Ends(t, k))
  BY DEF ToSend, Copies, Left, Ends
<1>2. \A k : ToSend(s, k) \in Nat
  BY ToSendType
<1>3. \A k \in OwnKeys(n) :
          /\ ToSend(t, k) <= ToSend(s, k) + (IF k = << n, 0 >> THEN 0 ELSE 0)
          /\ Ends(s, k) => Ends(t, k)
  BY <1>1, <1>2
<1>4. 0 \in 0..NumReliableRetx
  BY DEF NumReliableRetx
<1> QED
  BY <1>3, <1>4, GrowsBy DEF Calm

\* Within its budget a node stays as long as nothing grows.
LEMMA CalmBudget ==
    ASSUME NEW n, NEW s, NEW t, NEW M, NEW N, Sound(n, s, M), Sound(n, t, N),
           Calm(n, s, t), Budget(n, s)
    PROVE  Budget(n, t)
<1>1. s.ids \in Nat /\ t.ids \in Nat /\ s.ids <= t.ids /\ t.sent = s.sent
  BY SoundTypes DEF Calm, Grows
<1> SUFFICES ASSUME NEW k \in OwnKeys(n)
             PROVE  /\ ToSend(t, k) + Gone(t, k) <= NumReliableRetx
                    /\ Ends(t, k)
                    /\ k \in DOMAIN t.sent => k[2] <= t.ids
  BY DEF Budget
<1>2. /\ ToSend(s, k) \in Nat /\ ToSend(t, k) \in Nat /\ k[2] \in Nat /\ k # << n, 0 >>
  BY ToSendType, OwnKeyFacts
<1>3. /\ ToSend(s, k) + Gone(s, k) <= NumReliableRetx /\ Ends(s, k)
      /\ k \in DOMAIN s.sent => k[2] <= s.ids
  BY DEF Budget
<1>4. /\ k[2] <= s.ids => ToSend(t, k) <= ToSend(s, k) + 0
      /\ k[2] > s.ids => ToSend(t, k) <= NumReliableRetx
      /\ Ends(s, k) => Ends(t, k)
  BY <1>2 DEF Calm, Grows
<1>5. Gone(t, k) = Gone(s, k) /\ Gone(s, k) \in Nat
  <2>1. s.sent \in Partial(Keys, Nat)
    BY SoundTypes DEF NodeStates
  <2> QED
    BY <1>1, <2>1, PartialFacts DEF Gone
<1>6. ToSend(t, k) + Gone(t, k) <= NumReliableRetx
  <2>1. CASE k[2] <= s.ids
    BY <1>2, <1>3, <1>4, <1>5, <2>1 DEF NumReliableRetx
  <2>2. CASE k[2] > s.ids
    <3>1. Gone(t, k) = 0
      BY <1>1, <1>2, <1>3, <2>2 DEF Gone
    <3> QED
      BY <1>2, <1>4, <2>2, <3>1 DEF NumReliableRetx
  <2> QED
    BY <1>1, <1>2, <2>1, <2>2
<1> QED
  BY <1>1, <1>2, <1>3, <1>4, <1>6
-------------------------------------------------------------------------------
\* removeRelayer() changes the history only.
LEMMA RemoveRelayerSame ==
    ASSUME NEW n, NEW s \in NodeStates, NEW k
    PROVE  LET t == RemoveRelayer(n, s, k)
           IN  /\ t.txQueue = s.txQueue /\ t.pending = s.pending
               /\ t.sent = s.sent /\ t.ids = s.ids
  BY DEF RemoveRelayer, NodeStates

\* cancelSending() leaves fewer copies, or as many.
LEMMA CancelSendingCalm ==
    ASSUME NEW n, NEW s, NEW M, Sound(n, s, M), NEW k
    PROVE  Calm(n, s, CancelSending(n, s, k))
<1> DEFINE t == CancelSending(n, s, k)
<1>1. Sound(n, t, M)
  BY CancelSendingSafe
<1>2. s \in NodeStates /\ s.txQueue \in Seq(Packets) /\ s.ids \in Nat
  BY SoundTypes
<1>3. CASE ~FindInTxQueue(s, k)
  <2>1. t = s
    BY <1>3 DEF CancelSending
  <2> QED
    BY <1>1, <1>2, <2>1, Untouched
<1>4. CASE FindInTxQueue(s, k)
  <2> DEFINE First(i) == Key(s.txQueue[i]) = k /\ \A j \in 1..(i - 1) : Key(s.txQueue[j]) # k
             i == CHOOSE i \in DOMAIN s.txQueue : First(i)
             w == RemoveAt(s.txQueue, i)
             r == [s EXCEPT !.txQueue = w]
  <2>1. i \in DOMAIN s.txQueue
    <3>1. \E h \in DOMAIN s.txQueue : First(h)
      BY <1>2, <1>4, FirstCopy
    <3> QED
      BY <3>1
  <2>2. t = RemoveRelayer(n, r, k)
    BY <1>4 DEF CancelSending
  <2> HIDE DEF i, t
  <2>3. w \in Seq(Packets)
    <3>1. i \in 1..Len(s.txQueue)
      BY <1>2, <2>1
    <3> QED
      BY <1>2, <3>1, RemoveAtResult
  <2> HIDE DEF w
  <2>4. /\ r \in NodeStates /\ r.txQueue = w /\ r.pending = s.pending
        /\ r.sent = s.sent /\ r.ids = s.ids
    BY <1>2, <2>3 DEF NodeStates
  <2> HIDE DEF r
  <2>5. t.txQueue = w /\ t.pending = s.pending /\ t.sent = s.sent /\ t.ids = s.ids
    BY <2>2, <2>4, RemoveRelayerSame
  <2>6. ASSUME NEW l
        PROVE  /\ ToSend(t, l) <= ToSend(s, l) + (IF l = << n, 0 >> THEN 0 ELSE 0)
               /\ Ends(s, l) => Ends(t, l)
    <3>1. Cardinality(Copies(t, l)) + (IF Key(s.txQueue[i]) = l THEN 1 ELSE 0)
            <= Cardinality(Copies(s, l))
      BY <1>2, <2>1, <2>5, CopiesRemove DEF w
    <3>2. Left(t, l) = Left(s, l) /\ (Ends(s, l) => Ends(t, l))
      BY <2>5 DEF Left, Ends
    <3>3. /\ Cardinality(Copies(s, l)) \in Nat /\ Cardinality(Copies(t, l)) \in Nat
          /\ Left(s, l) \in Nat
      BY <1>1, ToSendType DEF t, NumReliableRetx
    <3> QED
      BY <3>1, <3>2, <3>3 DEF ToSend
  <2>7. 0 \in 0..NumReliableRetx
    BY DEF NumReliableRetx
  <2>8. Grows(n, s, t, << n, 0 >>, 0)
    BY <1>1, <1>2, <2>5, <2>6, <2>7, GrowsBy
  <2> QED
    BY <2>8 DEF Calm, t
<1> QED
  BY <1>3, <1>4

\* stopRetransmission() leaves no try of that packet.
LEMMA StopRetransmissionCalm ==
    ASSUME NEW n, NEW s, NEW M, Sound(n, s, M), NEW k
    PROVE  Calm(n, s, StopRetransmission(n, s, k))
<1> DEFINE t == StopRetransmission(n, s, k)
<1>1. Sound(n, t, M)
  <2>1. Sound(n, t, M) /\ Leads(n, s, t, M, M, << Broadcast, 0 >>, {k})
    BY StopRetransmissionSafe
  <2> QED
    BY <2>1
<1>2. s.ids \in Nat
  BY SoundTypes
<1>3. CASE k \notin DOMAIN s.pending
  <2>1. t = s
    BY <1>3 DEF StopRetransmission
  <2> QED
    BY <1>1, <1>2, <2>1, Untouched
<1>4. CASE k \in DOMAIN s.pending
  <2>1. PICK r : /\ Sound(n, r, M) /\ Calm(n, s, r)
                 /\ t = [r EXCEPT !.pending = Restrict(@, DOMAIN @ \ {k})]
    <3> DEFINE rec == s.pending[k]
               cancels == /\ rec.numRetransmissions < NumReliableRetx - 1
                          /\ rec.packet.from = n \/ n \notin Routers
               r == IF cancels THEN CancelSending(n, s, k) ELSE s
    <3>1. t = [r EXCEPT !.pending = Restrict(@, DOMAIN @ \ {k})]
      BY <1>4 DEF StopRetransmission
    <3>2. Sound(n, r, M) /\ Calm(n, s, r)
      <4>1. CASE cancels
        <5>1. Sound(n, CancelSending(n, s, k), M)
          BY CancelSendingSafe
        <5> QED
          BY <4>1, <5>1, CancelSendingCalm
      <4>2. CASE ~cancels
        <5>1. r = s
          BY <4>2
        <5> QED
          BY <1>2, <5>1, Untouched
      <4> QED
        BY <4>1, <4>2
    <3> QED
      BY <3>1, <3>2
  <2> DEFINE f == Restrict(r.pending, DOMAIN r.pending \ {k})
  <2>2. r \in NodeStates /\ r.pending \in Partial(Keys, Retransmissions) /\ r.ids \in Nat
    BY <2>1, SoundTypes
  <2>3. /\ DOMAIN f = DOMAIN r.pending \ {k}
        /\ \A j \in DOMAIN f : f[j] = r.pending[j]
    BY <2>2, RestrictResult
  <2>4. /\ t.pending = f /\ t.txQueue = r.txQueue /\ t.sent = r.sent /\ t.ids = r.ids
    <3>1. t = [r EXCEPT !.pending = f]
      BY <2>1
    <3> HIDE DEF f, t
    <3> QED
      BY <2>2, <3>1 DEF NodeStates
  <2> HIDE DEF f, t
  <2>5. ASSUME NEW l
        PROVE  /\ ToSend(t, l) <= ToSend(r, l) + (IF l = << n, 0 >> THEN 0 ELSE 0)
               /\ Ends(r, l) => Ends(t, l)
    <3>1. Copies(t, l) = Copies(r, l)
      BY <2>4 DEF Copies
    <3>2. (Left(t, l) = 0 \/ Left(t, l) = Left(r, l)) /\ (Ends(r, l) => Ends(t, l))
      BY <2>3, <2>4 DEF Left, Ends
    <3>3. Cardinality(Copies(r, l)) \in Nat /\ Left(r, l) \in Nat
      BY <2>1, ToSendType DEF NumReliableRetx
    <3> QED
      BY <3>1, <3>2, <3>3 DEF ToSend
  <2>6. 0 \in 0..NumReliableRetx
    BY DEF NumReliableRetx
  <2>7. Sound(n, r, M) /\ r.ids <= t.ids /\ t.sent = r.sent
    BY <2>1, <2>2, <2>4
  <2>8. Grows(n, r, t, << n, 0 >>, 0)
    BY <1>1, <2>5, <2>6, <2>7, GrowsBy
  <2> QED
    BY <1>1, <2>1, <2>8, CalmThen DEF Calm, t
<1> QED
  BY <1>3, <1>4
-------------------------------------------------------------------------------
\* enqueueReceivedMessage() and AnswerLocally leave what is to be sent alone,
LEMMA EnqueueSame ==
    ASSUME NEW s \in NodeStates, NEW p
    PROVE  LET t == EnqueueReceivedMessage(s, p)
           IN  /\ t.txQueue = s.txQueue /\ t.pending = s.pending
               /\ t.sent = s.sent /\ t.ids = s.ids
  BY DEF EnqueueReceivedMessage, NodeStates

\* an answer to ourselves but for its id,
LEMMA AnswerLocallySame ==
    ASSUME NEW n, NEW s \in NodeStates, NEW error, NEW id
    PROVE  LET t == AnswerLocally(n, s, error, id)
           IN  /\ t.txQueue = s.txQueue /\ t.pending = s.pending
               /\ t.sent = s.sent /\ s.ids <= t.ids
<1> DEFINE u == [s EXCEPT !.ids = @ + 1]
           p == NewPacket(n, s, n, id, error, 0)
           t == AnswerLocally(n, s, error, id)
<1>1. t = EnqueueReceivedMessage(u, p)
  BY DEF AnswerLocally
<1>2. s.ids \in Nat
  BY DEF NodeStates
<1>3. /\ u \in NodeStates /\ u.txQueue = s.txQueue /\ u.pending = s.pending
      /\ u.sent = s.sent /\ u.ids = s.ids + 1
  <2> HIDE DEF p, t
  <2>1. s.ids + 1 \in Nat
    BY <1>2
  <2> QED
    BY <2>1 DEF NodeStates
<1> HIDE DEF u, p, t
<1>4. /\ t.txQueue = u.txQueue /\ t.pending = u.pending
      /\ t.sent = u.sent /\ t.ids = u.ids
  BY <1>1, <1>3, EnqueueSame
<1>5. s.ids <= t.ids
  BY <1>2, <1>3, <1>4
<1> QED
  BY <1>3, <1>4, <1>5 DEF t

\* and so do the history, the phone and the next hops.
LEMMA OthersSame ==
    ASSUME NEW n, NEW s \in NodeStates, NEW p
    PROVE  \A t \in {WasSeenRecently(s, p), HandToPhone(n, s, p), LearnNextHop(n, s, p)} :
               /\ t.txQueue = s.txQueue /\ t.pending = s.pending
               /\ t.sent = s.sent /\ t.ids = s.ids
<1> DEFINE Same(t) == /\ t.txQueue = s.txQueue /\ t.pending = s.pending
                      /\ t.sent = s.sent /\ t.ids = s.ids
<1>1. Same(WasSeenRecently(s, p))
  BY DEF WasSeenRecently, NodeStates
<1>2. Same(HandToPhone(n, s, p))
  BY DEF HandToPhone, NodeStates
<1>3. Same(LearnNextHop(n, s, p))
  BY DEF LearnNextHop, NodeStates
<1> QED
  BY <1>1, <1>2, <1>3

\* wasSeenRecently() sends nothing.
LEMMA WasSeenRecentlyCalm ==
    ASSUME NEW n \in Nodes, NEW s, NEW M, Sound(n, s, M), NEW p \in Packets
    PROVE  Calm(n, s, WasSeenRecently(s, p))
<1> DEFINE t == WasSeenRecently(s, p)
<1>1. Sound(n, t, M)
  BY WasSeenRecentlySafe
<1>2. s \in NodeStates /\ s.ids \in Nat
  BY SoundTypes
<1>3. t.txQueue = s.txQueue /\ t.pending = s.pending /\ t.sent = s.sent /\ t.ids = s.ids
  BY <1>2, OthersSame
<1> HIDE DEF t
<1>4. Calm(n, s, t)
  BY <1>1, <1>2, <1>3, Untouched
<1> QED
  BY <1>4 DEF t

\* Router::send() adds one copy.
LEMMA RouterSendGrows ==
    ASSUME NEW n \in Nodes, NEW s, NEW M, Sound(n, s, M), NEW p \in Packets, Fact(p) \in M
    PROVE  Grows(n, s, RouterSend(n, s, p), Key(p), 1)
<1> DEFINE t == RouterSend(n, s, p)
<1>1. PICK N : Sound(n, t, N)
  <2>1. \E N : Sound(n, t, N) /\ Leads(n, s, t, M, N, << Broadcast, 0 >>, {})
    BY RouterSendSafe
  <2> QED
    BY <2>1
<1>2. s \in NodeStates /\ s.ids \in Nat /\ s.txQueue \in Seq(Packets)
  BY SoundTypes
<1>3. PICK q \in Packets :
          /\ Key(q) = Key(p) /\ t.pending = s.pending /\ t.sent = s.sent /\ s.ids <= t.ids
          /\ t.txQueue \in {s.txQueue, Append(s.txQueue, q)}
  <2>1. CASE n \in silent /\ p.from = n
    <3>1. t = AnswerLocally(n, s, "DUTY_CYCLE_LIMIT", p.id)
      BY <2>1 DEF RouterSend
    <3> QED
      BY <1>2, <3>1, AnswerLocallySame
  <2>2. CASE n \in silent /\ p.from # n
    <3>1. t = s
      BY <2>2 DEF RouterSend
    <3> QED
      BY <1>2, <3>1
  <2>3. CASE n \notin silent
    <3> DEFINE a == p.want_ack /\ p.to # Broadcast
               h == IF p.from = n THEN p.hop_limit ELSE p.hop_start
               q == [p EXCEPT !.relay_node = n, !.want_ack = a, !.hop_start = h]
               w == Append(s.txQueue, q)
    <3>1. t = [s EXCEPT !.txQueue = w]
      BY <2>3 DEF RouterSend
    <3>2. a \in BOOLEAN /\ h \in 0..7 /\ n \in Hop
      BY DEF Packets, Hop
    <3> HIDE DEF a, h
    <3>3. q \in Packets /\ Key(q) = Key(p)
      BY <3>2 DEF Packets, Key
    <3> HIDE DEF w, t
    <3>4. t.txQueue = w /\ t.pending = s.pending /\ t.sent = s.sent /\ t.ids = s.ids
      BY <1>2, <3>1 DEF NodeStates
    <3> QED
      BY <1>2, <3>3, <3>4 DEF w
  <2> QED
    BY <2>1, <2>2, <2>3
<1> HIDE DEF t
<1>4. ASSUME NEW k
      PROVE  /\ ToSend(t, k) <= ToSend(s, k) + (IF k = Key(p) THEN 1 ELSE 0)
             /\ Ends(s, k) => Ends(t, k)
  <2>1. Cardinality(Copies(s, k)) \in Nat /\ Left(s, k) \in Nat
    BY ToSendType DEF NumReliableRetx
  <2>2. Left(t, k) = Left(s, k) /\ (Ends(s, k) => Ends(t, k))
    BY <1>3 DEF Left, Ends
  <2>3. CASE t.txQueue = s.txQueue
    <3>1. Copies(t, k) = Copies(s, k)
      BY <2>3 DEF Copies
    <3> QED
      BY <2>1, <2>2, <3>1 DEF ToSend
  <2>4. CASE t.txQueue = Append(s.txQueue, q)
    <3>1. Cardinality(Copies(t, k)) = Cardinality(Copies(s, k)) + (IF Key(q) = k THEN 1 ELSE 0)
      BY <1>2, <2>4, CopiesAppend
    <3> QED
      BY <1>3, <2>1, <2>2, <3>1 DEF ToSend
  <2> QED
    BY <1>3, <2>3, <2>4
<1>5. 1 \in 0..NumReliableRetx
  BY DEF NumReliableRetx
<1>6. Grows(n, s, t, Key(p), 1)
  BY <1>1, <1>3, <1>4, <1>5, GrowsBy
<1> QED
  BY <1>6 DEF t

\* startRetransmission() replaces the tries that were left.
LEMMA StartRetransmissionGrows ==
    ASSUME NEW n \in Nodes, NEW s, NEW M, Sound(n, s, M),
           NEW p \in Packets, Fact(p) \in M, p.to # n, NEW tries \in 1..NumReliableRetx,
           p.from = n /\ tries > 2 => p.want_ack
    PROVE  Grows(n, s, StartRetransmission(n, s, p, tries), Key(p), tries - 1)
<1> DEFINE t == StartRetransmission(n, s, p, tries)
           r == StopRetransmission(n, s, Key(p))
           v == [packet |-> p, numRetransmissions |-> tries - 1]
           f == Put(r.pending, Key(p), v)
<1>1. Sound(n, t, M)
  <2>1. Sound(n, t, M) /\ Leads(n, s, t, M, M, << Broadcast, 0 >>, {})
    BY StartRetransmissionSafe
  <2> QED
    BY <2>1
<1>2. /\ Sound(n, r, M) /\ Leads(n, s, r, M, M, << Broadcast, 0 >>, {Key(p)})
      /\ Key(p) \notin DOMAIN r.pending
  BY StopRetransmissionSafe
<1>3. Calm(n, s, r)
  BY StopRetransmissionCalm
<1>4. t = [r EXCEPT !.pending = f]
  BY DEF StartRetransmission
<1> HIDE DEF r
<1>5. r \in NodeStates /\ r.ids \in Nat
  BY <1>2, SoundTypes
<1>6. /\ v.packet = p /\ v.numRetransmissions = tries - 1
      /\ tries - 1 \in 0..NumReliableRetx /\ tries \in Nat
      /\ DOMAIN f = DOMAIN r.pending \cup {Key(p)} /\ f[Key(p)] = v
      /\ \A j \in DOMAIN r.pending : j # Key(p) => f[j] = r.pending[j]
  <2>1. v.packet = p /\ v.numRetransmissions = tries - 1
    OBVIOUS
  <2>2. tries - 1 \in 0..NumReliableRetx /\ tries \in Nat
    BY DEF NumReliableRetx
  <2> HIDE DEF v
  <2>3. DOMAIN f = DOMAIN r.pending \cup {Key(p)}
    BY PutDomain
  <2>4. f[Key(p)] = v /\ \A j \in DOMAIN r.pending : j # Key(p) => f[j] = r.pending[j]
    BY PutValues
  <2> QED
    BY <2>1, <2>2, <2>3, <2>4
<1> HIDE DEF v, f, t
<1>7. t.pending = f /\ t.txQueue = r.txQueue /\ t.sent = r.sent /\ t.ids = r.ids
  BY <1>4, <1>5 DEF NodeStates
<1>8. ASSUME NEW k \in OwnKeys(n)
      PROVE  /\ ToSend(t, k) <= ToSend(r, k) + (IF k = Key(p) THEN tries - 1 ELSE 0)
             /\ Ends(r, k) => Ends(t, k)
  <2>1. Copies(t, k) = Copies(r, k)
    BY <1>7 DEF Copies
  <2>2. Cardinality(Copies(r, k)) \in Nat /\ Left(r, k) \in Nat
    BY <1>2, ToSendType DEF NumReliableRetx
  <2>3. CASE k = Key(p)
    <3>1. Left(t, k) = tries - 1 /\ Left(r, k) = 0
      BY <1>2, <1>6, <1>7, <2>3 DEF Left
    <3>2. p.from = n
      BY <2>3, PacketFacts, OwnKeyFacts
    <3>3. Ends(t, k)
      BY <1>6, <1>7, <2>3, <3>2 DEF Ends
    <3> QED
      BY <1>6, <2>1, <2>2, <2>3, <3>1, <3>3 DEF ToSend
  <2>4. CASE k # Key(p)
    <3>1. Left(t, k) = Left(r, k) /\ (Ends(r, k) => Ends(t, k))
      BY <1>6, <1>7, <2>4 DEF Left, Ends
    <3> QED
      BY <2>1, <2>2, <2>4, <3>1 DEF ToSend
  <2> QED
    BY <2>3, <2>4
<1>9. r.ids <= t.ids /\ t.sent = r.sent
  BY <1>5, <1>7
<1>10. Grows(n, r, t, Key(p), tries - 1)
  BY <1>1, <1>2, <1>6, <1>8, <1>9, GrowsBy
<1>11. tries - 1 \in Nat
  BY <1>6
<1>12. Grows(n, s, t, Key(p), tries - 1)
  BY <1>1, <1>2, <1>3, <1>10, <1>11, CalmThenGrows
<1> QED
  BY <1>12 DEF t
-------------------------------------------------------------------------------
\* FloodingRouter::send() adds one copy.
LEMMA FloodingSendGrows ==
    ASSUME NEW n \in Nodes, NEW s, NEW M, Sound(n, s, M),
           NEW p \in Packets, Fact(p) \in M, p.to # n
    PROVE  Grows(n, s, FloodingSend(n, s, p), Key(p), 1)
<1> DEFINE t == FloodingSend(n, s, p)
           q == [p EXCEPT !.relay_node = n]
           u == WasSeenRecently(s, q)
<1>1. PICK N : Sound(n, t, N)
  <2>1. \E N : Sound(n, t, N) /\ Leads(n, s, t, M, N, << Broadcast, 0 >>, {})
    BY FloodingSendSafe
  <2> QED
    BY <2>1
<1>2. q \in Packets /\ Fact(q) = Fact(p) /\ Key(q) = Key(p)
  BY DEF Packets, Fact, Key, Hop
<1>3. t = RouterSend(n, u, q)
  BY DEF FloodingSend
<1> HIDE DEF q, t
<1>4. Sound(n, u, M) /\ Calm(n, s, u)
  BY <1>2, WasSeenRecentlySafe, WasSeenRecentlyCalm
<1> HIDE DEF u
<1>5. Grows(n, u, t, Key(p), 1)
  BY <1>2, <1>3, <1>4, RouterSendGrows
<1>6. Grows(n, s, t, Key(p), 1)
  BY <1>1, <1>4, <1>5, CalmThenGrows
<1> QED
  BY <1>6 DEF t

\* NextHopRouter::send() adds one copy, and a try if it is no reliable packet of
\* this node's own.
LEMMA NextHopSendGrows ==
    ASSUME NEW n \in Nodes, NEW s, NEW M, Sound(n, s, M),
           NEW p \in Packets, Fact(p) \in M, p.to # n
    PROVE  /\ Grows(n, s, NextHopSend(n, s, p), Key(p), 2)
           /\ p.from = n /\ p.want_ack => Grows(n, s, NextHopSend(n, s, p), Key(p), 1)
<1> DEFINE t == NextHopSend(n, s, p)
           hop == GetNextHop(n, s, p.to)
           o == [p EXCEPT !.relay_node = n]
           q == [p EXCEPT !.relay_node = n, !.next_hop = hop]
           seen == WasSeenRecently(s, o)
           retries == /\ p.from # n \/ ~p.want_ack
                      /\ q.next_hop # None
                      /\ p.hop_limit > 0 \/ p.want_ack
           u == IF retries THEN StartRetransmission(n, seen, q, NumIntermediateRetx) ELSE seen
<1>1. PICK N : Sound(n, t, N)
  <2>1. \E N : Sound(n, t, N) /\ Leads(n, s, t, M, N, << Broadcast, 0 >>, {})
    BY NextHopSendSafe
  <2> QED
    BY <2>1
<1>2. t = RouterSend(n, u, q)
  BY DEF NextHopSend
<1>3. hop \in Hop
  BY SoundTypes, PacketFacts DEF GetNextHop, Hop
<1> HIDE DEF hop
<1>4. /\ q \in Packets /\ Fact(q) = Fact(p) /\ Key(q) = Key(p) /\ q.to # n
      /\ o \in Packets /\ Fact(o) = Fact(p)
  BY <1>3 DEF Packets, Fact, Key, Hop
<1> HIDE DEF o, q
<1>5. Sound(n, seen, M) /\ Calm(n, s, seen)
  BY <1>4, WasSeenRecentlySafe, WasSeenRecentlyCalm
<1>6. p.from = n /\ p.want_ack => ~retries
  OBVIOUS
<1> HIDE DEF seen, retries, t
<1>7. CASE retries
  <2>1. u = StartRetransmission(n, seen, q, NumIntermediateRetx)
    BY <1>7
  <2>2. /\ NumIntermediateRetx \in 1..NumReliableRetx /\ ~(NumIntermediateRetx > 2)
        /\ NumIntermediateRetx - 1 = 1
    BY DEF NumIntermediateRetx, NumReliableRetx
  <2>3. Sound(n, u, M)
    <3>1. Sound(n, u, M) /\ Leads(n, seen, u, M, M, << Broadcast, 0 >>, {})
      BY <1>4, <1>5, <2>1, <2>2, StartRetransmissionSafe
    <3> QED
      BY <3>1
  <2>4. Grows(n, seen, u, Key(p), 1)
    BY <1>4, <1>5, <2>1, <2>2, StartRetransmissionGrows
  <2> HIDE DEF u
  <2>5. Grows(n, u, t, Key(p), 1)
    BY <1>2, <1>4, <2>3, RouterSendGrows
  <2>6. Key(p) \notin OwnKeys(n) \/ Key(p)[2] <= seen.ids
    BY <1>5, ExistingKey
  <2>7. Grows(n, seen, t, Key(p), 1 + 1)
    BY <1>1, <1>5, <2>3, <2>4, <2>5, <2>6, GrowsThen
  <2>8. Grows(n, s, t, Key(p), 2)
    BY <1>1, <1>5, <2>7, CalmThenGrows
  <2> QED
    BY <1>6, <1>7, <2>8 DEF t
<1>8. CASE ~retries
  <2>1. u = seen
    BY <1>8
  <2>2. Grows(n, seen, t, Key(p), 1)
    BY <1>2, <1>4, <1>5, <2>1, RouterSendGrows
  <2>3. Grows(n, s, t, Key(p), 1)
    BY <1>1, <1>5, <2>2, CalmThenGrows
  <2>4. Grows(n, s, t, Key(p), 2)
    <3>1. \A k \in OwnKeys(n) : ToSend(s, k) \in Nat /\ ToSend(t, k) \in Nat
      BY <1>1, ToSendType
    <3> QED
      BY <2>3, <3>1 DEF Grows
  <2> QED
    BY <2>3, <2>4 DEF t
<1> QED
  BY <1>7, <1>8

\* ReliableRouter::send() of a packet of this node's own adds three at most.
LEMMA ReliableSendGrows ==
    ASSUME NEW n \in Nodes, NEW s, NEW M, Sound(n, s, M),
           NEW p \in Packets, Fact(p) \in M, p.to # n, p.from = n
    PROVE  \E a \in 0..NumReliableRetx : Grows(n, s, ReliableSend(n, s, p), Key(p), a)
<1> DEFINE u == ReliableSend(n, s, p)
           h == IF p.want_ack /\ p.hop_limit = 0 THEN HopLimit ELSE p.hop_limit
           q == [p EXCEPT !.hop_limit = h]
           t == IF p.want_ack THEN StartRetransmission(n, s, q, NumReliableRetx) ELSE s
<1>1. PICK N : Sound(n, u, N)
  <2>1. \E N : Sound(n, u, N) /\ Leads(n, s, u, M, N, << Broadcast, 0 >>, {})
    BY ReliableSendSafe
  <2> QED
    BY <2>1
<1>2. u = IF p.to = Broadcast THEN FloodingSend(n, t, q) ELSE NextHopSend(n, t, q)
  BY DEF ReliableSend
<1>3. h \in 0..7
  BY RouterAssumption, PacketFacts
<1> HIDE DEF h
<1>4. /\ q \in Packets /\ Fact(q) = Fact(p) /\ q.to # n /\ Key(q) = Key(p)
      /\ q.from = n /\ q.to = p.to /\ (q.want_ack <=> p.want_ack)
  BY <1>3 DEF Packets, Fact, Key
<1> HIDE DEF q
<1>5. /\ NumReliableRetx \in 1..NumReliableRetx /\ NumReliableRetx - 1 = 2
      /\ \A a \in 0..3 : a \in 0..NumReliableRetx
  BY DEF NumReliableRetx
<1>6. PICK a \in 0..2 : /\ Sound(n, t, M) /\ Grows(n, s, t, Key(p), a)
                        /\ a = 0 \/ p.want_ack
  <2>1. CASE p.want_ack
    <3>1. t = StartRetransmission(n, s, q, NumReliableRetx)
      BY <2>1
    <3>2. Sound(n, t, M) /\ Leads(n, s, t, M, M, << Broadcast, 0 >>, {})
      BY <1>4, <1>5, <3>1, StartRetransmissionSafe
    <3>3. Grows(n, s, t, Key(p), 2)
      BY <1>4, <1>5, <2>1, <3>1, StartRetransmissionGrows
    <3> QED
      BY <2>1, <3>2, <3>3
  <2>2. CASE ~p.want_ack
    <3>1. t = s
      BY <2>2
    <3>2. s.ids \in Nat
      BY SoundTypes
    <3>3. Calm(n, s, t)
      BY <3>1, <3>2, Untouched
    <3>4. Grows(n, s, t, Key(p), 0)
      BY <3>1, <3>3, CalmGrows
    <3> QED
      BY <2>2, <3>1, <3>4
  <2> QED
    BY <2>1, <2>2
<1> HIDE DEF t, u
<1>7. PICK b \in 1..2 : Grows(n, t, u, Key(p), b) /\ (p.want_ack => b = 1)
  <2>1. CASE p.to = Broadcast
    <3>1. u = FloodingSend(n, t, q)
      BY <1>2, <2>1
    <3>2. Grows(n, t, u, Key(p), 1)
      BY <1>4, <1>6, <3>1, FloodingSendGrows
    <3> QED
      BY <3>2
  <2>2. CASE p.to # Broadcast
    <3>1. u = NextHopSend(n, t, q)
      BY <1>2, <2>2
    <3>2. /\ Grows(n, t, u, Key(p), 2)
          /\ p.want_ack => Grows(n, t, u, Key(p), 1)
      BY <1>4, <1>6, <3>1, NextHopSendGrows
    <3> QED
      BY <3>2
  <2> QED
    BY <2>1, <2>2
<1>8. Key(p) \notin OwnKeys(n) \/ Key(p)[2] <= s.ids
  BY ExistingKey
<1>9. Grows(n, s, u, Key(p), a + b)
  BY <1>1, <1>6, <1>7, <1>8, GrowsThen
<1>10. a + b \in 0..3
  BY <1>6, <1>7
<1> QED
  BY <1>5, <1>9, <1>10 DEF u
-------------------------------------------------------------------------------
\* A new packet of this node's own is sent no more often than a reliable one,
\* and of all other packets there is no more to send than before.
LEMMA SendNewCalm ==
    ASSUME NEW n \in Nodes, NEW s, NEW M, Sound(n, s, M),
           NEW p \in Packets, p.from = n, p.id = s.ids + 1,
           p.request_id # 0 => \E y \in M : KeyOfFact(y) = << p.to, p.request_id >>
    PROVE  Calm(n, s, SendLocal(n, [s EXCEPT !.ids = @ + 1], p))
<1> DEFINE u == [s EXCEPT !.ids = @ + 1]
           t == SendLocal(n, u, p)
           c == << p.to, p.request_id >>
           O == M \cup {Fact(p)}
<1>1. Sound(n, u, O) /\ Fact(p) \in O
  <2>1. p.request_id # 0 => /\ \E y \in M : KeyOfFact(y) = << p.to, p.request_id >>
                            /\ p.to = n \/ << p.to, p.request_id >> = c
    OBVIOUS
  <2> HIDE DEF c
  <2>2. Sound(n, u, O) /\ Leads(n, s, u, M, O, c, {}) /\ Fact(p) \in O
    BY <2>1, AllocateSafe
  <2> QED
    BY <2>2
<1>2. s \in NodeStates /\ s.ids \in Nat
  BY SoundTypes
<1>3. /\ u.txQueue = s.txQueue /\ u.pending = s.pending
      /\ u.sent = s.sent /\ u.ids = s.ids + 1
  BY <1>2 DEF NodeStates
<1> HIDE DEF u, O
<1>4. PICK N : Sound(n, t, N)
  <2>1. \E N : Sound(n, t, N) /\ Leads(n, u, t, O, N, c, {})
    BY <1>1, SendLocalSafe
  <2> QED
    BY <2>1
<1>5. PICK a \in 0..NumReliableRetx : Grows(n, u, t, Key(p), a)
  <2>1. CASE p.to = n
    <3>1. t = EnqueueReceivedMessage(u, p)
      BY <2>1 DEF SendLocal
    <3>2. u \in NodeStates /\ u.ids \in Nat
      BY <1>1, SoundTypes
    <3>3. t.txQueue = u.txQueue /\ t.pending = u.pending /\ t.sent = u.sent /\ t.ids = u.ids
      BY <3>1, <3>2, EnqueueSame
    <3> HIDE DEF t
    <3>4. Calm(n, u, t)
      BY <1>1, <1>4, <3>2, <3>3, Untouched
    <3>5. Grows(n, u, t, Key(p), 0)
      BY <1>1, <1>4, <3>4, CalmGrows
    <3> QED
      BY <3>5 DEF NumReliableRetx
  <2>2. CASE p.to # n
    <3>1. t = ReliableSend(n, u, p)
      BY <2>2 DEF SendLocal
    <3> QED
      BY <1>1, <2>2, <3>1, ReliableSendGrows
  <2> QED
    BY <2>1, <2>2
<1> HIDE DEF t
<1>6. s.ids <= t.ids /\ t.sent = s.sent /\ t.ids \in Nat
  BY <1>2, <1>3, <1>4, <1>5, SoundTypes DEF Grows
<1>7. ASSUME NEW k \in OwnKeys(n)
      PROVE  /\ k[2] <= s.ids => ToSend(t, k) <= ToSend(s, k) + 0
             /\ k[2] > s.ids => ToSend(t, k) <= NumReliableRetx
             /\ Ends(s, k) => Ends(t, k)
  <2>1. /\ k[2] \in Nat /\ ToSend(s, k) \in Nat /\ ToSend(u, k) \in Nat /\ ToSend(t, k) \in Nat
    BY <1>1, <1>4, ToSendType, OwnKeyFacts
  <2>2. ToSend(u, k) = ToSend(s, k) /\ (Ends(s, k) <=> Ends(u, k))
    BY <1>3 DEF ToSend, Copies, Left, Ends
  <2>3. /\ k[2] <= u.ids => ToSend(t, k) <= ToSend(u, k) + (IF k = Key(p) THEN a ELSE 0)
        /\ k[2] > u.ids => ToSend(t, k) <= NumReliableRetx
        /\ Ends(u, k) => Ends(t, k)
    BY <1>5 DEF Grows
  <2>4. Key(p)[2] = s.ids + 1
    BY PacketFacts
  <2>5. k[2] > s.ids => ToSend(s, k) = 0
    BY FreshKey
  <2>6. a \in Nat /\ a <= NumReliableRetx
    BY DEF NumReliableRetx
  <2>7. CASE k[2] <= s.ids
    <3>1. k # Key(p) /\ k[2] <= u.ids
      BY <1>2, <1>3, <2>1, <2>4, <2>7
    <3> QED
      BY <1>2, <2>1, <2>2, <2>3, <2>7, <3>1
  <2>8. CASE k[2] > s.ids
    <3>1. ToSend(t, k) <= NumReliableRetx
      <4>1. CASE k[2] > u.ids
        BY <2>3, <4>1
      <4>2. CASE ~(k[2] > u.ids)
        <5>1. k[2] <= u.ids
          BY <1>2, <1>3, <2>1, <4>2
        <5> QED
          BY <2>1, <2>2, <2>3, <2>5, <2>6, <2>8, <5>1 DEF NumReliableRetx
      <4> QED
        BY <4>1, <4>2
    <3> QED
      BY <1>2, <2>1, <2>2, <2>3, <2>8, <3>1
  <2> QED
    BY <1>2, <2>1, <2>7, <2>8
<1>8. Calm(n, s, t)
  BY <1>6, <1>7 DEF Calm, Grows
<1> QED
  BY <1>8 DEF t, u

\* sendAckNak() and the modules' replies make such packets.
LEMMA SendAckNakCalm ==
    ASSUME NEW n \in Nodes, NEW s, NEW M, Sound(n, s, M),
           NEW p \in Packets, Fact(p) \in M,
           NEW error \in {"NONE", "NO_CHANNEL"}, NEW hops \in 0..7
    PROVE  Calm(n, s, SendAckNak(n, s, error, p, hops))
<1> DEFINE q == NewPacket(n, s, p.from, p.id, error, hops)
           t == SendAckNak(n, s, error, p, hops)
<1>1. /\ s.ids \in Nat /\ p.from \in Nodes \cup {Broadcast} /\ p.id \in Nat
      /\ error \in Reasons
  BY SoundTypes, PacketFacts DEF Reasons
<1>2. /\ q \in Packets /\ q.from = n /\ q.id = s.ids + 1
      /\ q.to = p.from /\ q.request_id = p.id
  <2>1. q \in Packets
    BY <1>1, NewPacketResult
  <2> QED
    BY <2>1 DEF NewPacket
<1>3. KeyOfFact(Fact(p)) = << p.from, p.id >>
  BY PacketFacts
<1>4. t = SendLocal(n, [s EXCEPT !.ids = @ + 1], q)
  BY DEF SendAckNak
<1> HIDE DEF q, t
<1>5. Calm(n, s, t)
  BY <1>2, <1>3, <1>4, SendNewCalm
<1> QED
  BY <1>5 DEF t

\* A reply is a new packet, and grows nothing that was to be sent.
LEMMA ReplyCalm ==
    ASSUME NEW n \in Nodes, NEW s, NEW M, Sound(n, s, M), NEW p \in Packets, Fact(p) \in M
    PROVE  Calm(n, s, Reply(n, s, p))
<1> DEFINE t == Reply(n, s, p)
           h == HopLimitForResponse(p)
           new == NewPacket(n, s, p.from, p.id, "data", h)
           q == [new EXCEPT !.want_ack = p.want_ack]
<1>1. CASE ~Replies(n, p)
  <2>1. t = s /\ s.ids \in Nat
    BY <1>1, SoundTypes DEF Reply
  <2> QED
    BY <2>1, Untouched
<1>2. CASE Replies(n, p)
  <2>1. t = SendLocal(n, [s EXCEPT !.ids = @ + 1], q)
    BY <1>2 DEF Reply
  <2>2. /\ s.ids \in Nat /\ p.from \in Nodes \cup {Broadcast} /\ p.id \in Nat
        /\ p.want_ack \in BOOLEAN /\ h \in 0..7 /\ "data" \in Reasons
    BY SoundTypes, PacketFacts, HopLimitForResponseResult DEF Reasons
  <2> HIDE DEF h
  <2>3. /\ new \in Packets /\ new.from = n /\ new.id = s.ids + 1
        /\ new.to = p.from /\ new.request_id = p.id
    <3>1. new \in Packets
      BY <2>2, NewPacketResult
    <3> QED
      BY <3>1 DEF NewPacket
  <2> HIDE DEF new
  <2>4. /\ q \in Packets /\ q.from = n /\ q.id = s.ids + 1
        /\ q.to = p.from /\ q.request_id = p.id
    BY <2>2, <2>3 DEF Packets
  <2>5. KeyOfFact(Fact(p)) = << p.from, p.id >>
    BY PacketFacts
  <2> HIDE DEF q, t
  <2>6. Calm(n, s, t)
    BY <2>1, <2>4, <2>5, SendNewCalm
  <2> QED
    BY <2>6 DEF t
<1> QED
  BY <1>1, <1>2

\* The acknowledgement of a new packet.
LEMMA AcknowledgeCalm ==
    ASSUME NEW n \in Nodes, NEW s, NEW M, Sound(n, s, M), NEW p \in Packets, Fact(p) \in M
    PROVE  Calm(n, s, Acknowledge(n, s, p))
<1> DEFINE t == Acknowledge(n, s, p)
           hops == HopLimitForResponse(p)
<1>1. \/ t = s
      \/ t = SendAckNak(n, s, "NO_CHANNEL", p, hops)
      \/ t = SendAckNak(n, s, "NONE", p, hops)
      \/ t = SendAckNak(n, s, "NONE", p, 0)
  BY DEF Acknowledge
<1>2. hops \in 0..7 /\ 0 \in 0..7 /\ s.ids \in Nat
  BY HopLimitForResponseResult, SoundTypes
<1> HIDE DEF t, hops
<1>3. t = s => Calm(n, s, t)
  BY <1>2, Untouched
<1>4. t # s => Calm(n, s, t)
  BY <1>1, <1>2, SendAckNakCalm
<1> QED
  BY <1>3, <1>4 DEF t
-------------------------------------------------------------------------------
\* What is passed on is another node's packet.
LEMMA PerhapsRebroadcastCalm ==
    ASSUME NEW n \in Nodes, NEW s, NEW M, Sound(n, s, M), NEW p \in Packets, Fact(p) \in M
    PROVE  Calm(n, s, PerhapsRebroadcast(n, s, p))
<1> DEFINE t == PerhapsRebroadcast(n, s, p)
           rebroadcasts == p.to # n /\ p.from # n /\ p.hop_limit > 0 /\ n \notin Mutes
           q == [p EXCEPT !.hop_limit = @ - 1, !.next_hop = None]
<1>1. CASE rebroadcasts
  <2>1. t = RouterSend(n, s, q)
    BY <1>1 DEF PerhapsRebroadcast
  <2>2. q \in Packets /\ Fact(q) = Fact(p) /\ q.from # n
    <3>1. p.hop_limit - 1 \in 0..7
      BY <1>1, PacketFacts
    <3> QED
      BY <1>1, <3>1 DEF Packets, Fact, Hop
  <2> HIDE DEF q, t
  <2>3. Grows(n, s, t, Key(q), 1)
    BY <2>1, <2>2, RouterSendGrows
  <2>4. Key(q) \notin OwnKeys(n)
    BY <2>2, PacketFacts, OwnKeyFacts
  <2>5. PICK N : Sound(n, t, N)
    <3>1. \E N : Sound(n, t, N) /\ Leads(n, s, t, M, N, << Broadcast, 0 >>, {})
      BY <2>1, <2>2, RouterSendSafe
    <3> QED
      BY <3>1
  <2>6. Calm(n, s, t)
    BY <2>3, <2>4, <2>5, CalmGrows
  <2> QED
    BY <2>6 DEF t
<1>2. CASE ~rebroadcasts
  <2>1. t = s /\ s.ids \in Nat
    BY <1>2, SoundTypes DEF PerhapsRebroadcast
  <2> QED
    BY <2>1, Untouched
<1> QED
  BY <1>1, <1>2

\* perhapsRelay() and its NextHopRouter::send() only take up others' packets.
LEMMA PerhapsRelayCalm ==
    ASSUME NEW n \in Nodes, NEW s, NEW M, Sound(n, s, M), NEW p \in Packets, Fact(p) \in M
    PROVE  Calm(n, s, PerhapsRelay(n, s, p))
<1> DEFINE t == PerhapsRelay(n, s, p)
           q == [p EXCEPT !.hop_limit = @ - 1]
<1>1. CASE Relays(n, p)
  <2>1. t = NextHopSend(n, s, q)
    BY <1>1 DEF PerhapsRelay
  <2>2. q \in Packets /\ Fact(q) = Fact(p) /\ q.to # n /\ q.from # n
    <3>1. p.hop_limit - 1 \in 0..7 /\ p.to # n /\ p.from # n
      BY <1>1, PacketFacts DEF Relays
    <3> QED
      BY <3>1 DEF Packets, Fact
  <2> HIDE DEF q, t
  <2>3. Grows(n, s, t, Key(q), 2)
    BY <2>1, <2>2, NextHopSendGrows
  <2>4. Key(q) \notin OwnKeys(n)
    BY <2>2, PacketFacts, OwnKeyFacts
  <2>5. PICK N : Sound(n, t, N)
    <3>1. \E N : Sound(n, t, N) /\ Leads(n, s, t, M, N, << Broadcast, 0 >>, {})
      BY <2>1, <2>2, NextHopSendSafe
    <3> QED
      BY <3>1
  <2>6. Calm(n, s, t)
    BY <2>3, <2>4, <2>5, CalmGrows
  <2> QED
    BY <2>6 DEF t
<1>2. CASE ~Relays(n, p)
  <2>1. t = s /\ s.ids \in Nat
    BY <1>2, SoundTypes DEF PerhapsRelay
  <2> QED
    BY <2>1, Untouched
<1> QED
  BY <1>1, <1>2

\* perhapsCancelDupe() cancels at most.
LEMMA PerhapsCancelDupeCalm ==
    ASSUME NEW n \in Nodes, NEW s, NEW M, Sound(n, s, M), NEW p \in Packets
    PROVE  Calm(n, s, PerhapsCancelDupe(n, s, p))
<1>1. s.ids \in Nat
  BY SoundTypes
<1>2. CASE n \in Routers
  BY <1>1, <1>2, Untouched DEF PerhapsCancelDupe
<1>3. CASE n \notin Routers
  BY <1>3, CancelSendingCalm DEF PerhapsCancelDupe
<1> QED
  BY <1>2, <1>3


\* A packet that was seen before.
LEMMA FloodingDupeCalm ==
    ASSUME NEW n \in Nodes, NEW s, NEW M, Sound(n, s, M), NEW p \in Packets, Fact(p) \in M
    PROVE  Calm(n, s, FloodingDupe(n, s, p))
<1>1. \/ FloodingDupe(n, s, p) = PerhapsCancelDupe(n, s, p)
      \/ FloodingDupe(n, s, p) = s
      \/ FloodingDupe(n, s, p) = PerhapsRebroadcast(n, s, p)
  BY DEF FloodingDupe
<1>2. Calm(n, s, s)
  BY SoundTypes, Untouched
<1> QED
  BY <1>1, <1>2, PerhapsCancelDupeCalm, PerhapsRebroadcastCalm

\* A packet seen before, for one node: its tries stop, and the answer is new.
LEMMA NextHopDupeCalm ==
    ASSUME NEW n \in Nodes, NEW s, NEW M, Sound(n, s, M), NEW p \in Packets, Fact(p) \in M,
           NEW fallback, NEW weWereNextHop
    PROVE  Calm(n, s, NextHopDupe(n, s, p, fallback, weWereNextHop))
<1> DEFINE u == NextHopDupe(n, s, p, fallback, weWereNextHop)
           t == StopRetransmission(n, s, Key(p))
<1>1. Sound(n, t, M)
  <2>1. Sound(n, t, M) /\ Leads(n, s, t, M, M, Key(p), {Key(p)})
    BY StopRetransmissionSafe
  <2> QED
    BY <2>1
<1>2. Calm(n, s, t)
  BY StopRetransmissionCalm
<1>3. PICK N : Sound(n, u, N)
  <2>1. \E N : Sound(n, u, N) /\ Leads(n, s, u, M, N, Key(p), {Key(p)})
    BY NextHopDupeSafe
  <2> QED
    BY <2>1
<1>4. \/ u = t
      \/ u = PerhapsRelay(n, t, p)
      \/ u = SendAckNak(n, t, "NONE", p, 0)
      \/ u = PerhapsCancelDupe(n, t, p)
  BY DEF NextHopDupe
<1> HIDE DEF t, u
<1>5. t.ids \in Nat /\ 0 \in 0..7
  BY <1>1, SoundTypes
<1>6. Calm(n, t, u)
  <2>1. CASE u = t
    BY <1>1, <1>5, <2>1, Untouched
  <2>2. CASE u = PerhapsRelay(n, t, p)
    BY <1>1, <2>2, PerhapsRelayCalm
  <2>3. CASE u = SendAckNak(n, t, "NONE", p, 0)
    BY <1>1, <1>5, <2>3, SendAckNakCalm
  <2>4. CASE u = PerhapsCancelDupe(n, t, p)
    BY <1>1, <2>4, PerhapsCancelDupeCalm
  <2> QED
    BY <1>4, <2>1, <2>2, <2>3, <2>4
<1>7. Calm(n, s, u)
  BY <1>1, <1>2, <1>3, <1>6, CalmThen
<1> QED
  BY <1>7 DEF u

\* A packet that is new, on its way or at its destination.
LEMMA NextHopSniffCalm ==
    ASSUME NEW n \in Nodes, NEW s, NEW M, Sound(n, s, M), NEW p \in Packets, Fact(p) \in M
    PROVE  Calm(n, s, NextHopSniff(n, s, p))
<1> DEFINE u == NextHopSniff(n, s, p)
           request == << p.to, p.request_id >>
           l == LearnNextHop(n, s, p)
           x == CancelSending(n, l, request)
           t == StopRetransmission(n, x, request)
<1>1. s \in NodeStates /\ s.ids \in Nat
  BY SoundTypes
<1>2. Sound(n, l, M) /\ Calm(n, s, l)
  <2>1. Sound(n, l, M)
    BY LearnNextHopSafe
  <2>2. l.txQueue = s.txQueue /\ l.pending = s.pending /\ l.sent = s.sent /\ l.ids = s.ids
    BY <1>1, OthersSame
  <2> HIDE DEF l
  <2> QED
    BY <1>1, <2>1, <2>2, Untouched
<1>3. \/ u = PerhapsRelay(n, s, p)
      \/ u = PerhapsRelay(n, l, p)
      \/ p.to # n /\ u = PerhapsRelay(n, t, p)
  BY DEF NextHopSniff
<1>4. PICK N : Sound(n, u, N)
  <2>1. \E N : Sound(n, u, N) /\ Leads(n, s, u, M, N, << Broadcast, 0 >>, {})
    BY NextHopSniffSafe
  <2> QED
    BY <2>1
<1> HIDE DEF l, u
<1>5. Sound(n, x, M) /\ Calm(n, l, x)
  <2>1. Sound(n, x, M)
    BY <1>2, CancelSendingSafe
  <2> QED
    BY <1>2, <2>1, CancelSendingCalm
<1> HIDE DEF x
<1>6. Sound(n, t, M) /\ Calm(n, x, t)
  <2>1. Sound(n, t, M) /\ Leads(n, x, t, M, M, << Broadcast, 0 >>, {request})
    BY <1>5, StopRetransmissionSafe
  <2> QED
    BY <1>5, <2>1, StopRetransmissionCalm
<1> HIDE DEF t
<1>7. Calm(n, s, t)
  <2>1. Calm(n, s, x)
    BY <1>2, <1>5, CalmThen
  <2> QED
    BY <1>5, <1>6, <2>1, CalmThen
<1>8. PICK v : Sound(n, v, M) /\ Calm(n, s, v) /\ u = PerhapsRelay(n, v, p)
  <2>1. Calm(n, s, s)
    BY <1>1, Untouched
  <2> QED
    BY <1>2, <1>3, <1>6, <1>7, <2>1
<1>9. Calm(n, v, u)
  BY <1>8, PerhapsRelayCalm
<1>10. Calm(n, s, u)
  BY <1>4, <1>8, <1>9, CalmThen
<1> QED
  BY <1>10 DEF u

\* sniffReceived() of all routers, the acknowledgement among it.
LEMMA SniffReceivedCalm ==
    ASSUME NEW n \in Nodes, NEW s, NEW M, Sound(n, s, M), NEW p \in Packets, Fact(p) \in M
    PROVE  Calm(n, s, SniffReceived(n, s, p))
<1> DEFINE v == SniffReceived(n, s, p)
           t == Acknowledge(n, s, p)
           answers == p.to = n /\ Decodes(n, p) /\ p.request_id # 0
           u == IF answers THEN StopRetransmission(n, t, << n, p.request_id >>) ELSE t
           L == {<< n, p.request_id >>}
<1>1. v = IF p.to = Broadcast THEN PerhapsRebroadcast(n, u, p) ELSE NextHopSniff(n, u, p)
  BY DEF SniffReceived
<1>2. PICK O : Sound(n, v, O)
  <2>1. \E O : Sound(n, v, O) /\ Leads(n, s, v, M, O, Key(p), L)
    BY SniffReceivedSafe
  <2> QED
    BY <2>1
<1>3. PICK N : Sound(n, t, N) /\ Fact(p) \in N
  <2>1. \E N : Sound(n, t, N) /\ Leads(n, s, t, M, N, Key(p), L)
    BY AcknowledgeSafe
  <2> QED
    BY <2>1 DEF Leads
<1>4. Calm(n, s, t)
  BY AcknowledgeCalm
<1> HIDE DEF t, v
<1>5. Sound(n, u, N) /\ Calm(n, t, u)
  <2>1. CASE answers
    <3>1. u = StopRetransmission(n, t, << n, p.request_id >>)
      BY <2>1
    <3>2. Sound(n, u, N) /\ Leads(n, t, u, N, N, Key(p), L)
      BY <1>3, <3>1, StopRetransmissionSafe
    <3> QED
      BY <1>3, <3>1, <3>2, StopRetransmissionCalm
  <2>2. CASE ~answers
    <3>1. u = t /\ t.ids \in Nat
      BY <1>3, <2>2, SoundTypes
    <3> QED
      BY <1>3, <3>1, Untouched
  <2> QED
    BY <2>1, <2>2
<1> HIDE DEF u
<1>6. Calm(n, s, u)
  BY <1>3, <1>4, <1>5, CalmThen
<1>7. Calm(n, u, v)
  BY <1>1, <1>3, <1>5, PerhapsRebroadcastCalm, NextHopSniffCalm
<1>8. Calm(n, s, v)
  BY <1>2, <1>5, <1>6, <1>7, CalmThen
<1> QED
  BY <1>8 DEF v

\* A packet that is new, with the phone and the modules it goes to.
LEMMA HandleReceivedCalm ==
    ASSUME NEW n \in Nodes, NEW s, NEW M, Sound(n, s, M), NEW p \in Packets, Fact(p) \in M
    PROVE  /\ Calm(n, s, HandleReceived(n, s, p))
           /\ \E N : Sound(n, HandleReceived(n, s, p), N)
<1> DEFINE v == SniffReceived(n, s, p)
           x == HandToPhone(n, v, p)
           w == Reply(n, x, p)
           L == {<< n, p.request_id >>}
<1>1. HandleReceived(n, s, p) = w
  BY DEF HandleReceived
<1>2. PICK N : Sound(n, v, N) /\ Fact(p) \in N
  <2>1. \E N : Sound(n, v, N) /\ Leads(n, s, v, M, N, Key(p), L)
    BY SniffReceivedSafe
  <2> QED
    BY <2>1 DEF Leads
<1>3. Calm(n, s, v)
  BY SniffReceivedCalm
<1> HIDE DEF v
<1>4. v \in NodeStates /\ v.ids \in Nat
  BY <1>2, SoundTypes
<1>5. Sound(n, x, N) /\ Calm(n, v, x)
  <2>1. Sound(n, x, N)
    BY <1>2, HandToPhoneSafe
  <2>2. x.txQueue = v.txQueue /\ x.pending = v.pending /\ x.sent = v.sent /\ x.ids = v.ids
    BY <1>4, OthersSame
  <2> HIDE DEF x
  <2> QED
    BY <1>2, <1>4, <2>1, <2>2, Untouched
<1> HIDE DEF x
<1>6. PICK O : Sound(n, w, O)
  <2>1. \E O : Sound(n, w, O) /\ Leads(n, x, w, N, O, Key(p), L)
    BY <1>2, <1>5, ReplySafe
  <2> QED
    BY <2>1
<1>7. Calm(n, x, w)
  BY <1>2, <1>5, ReplyCalm
<1> HIDE DEF w
<1>8. Calm(n, s, x)
  BY <1>2, <1>3, <1>5, CalmThen
<1>9. Calm(n, s, w)
  BY <1>5, <1>6, <1>7, <1>8, CalmThen
<1> QED
  BY <1>1, <1>6, <1>9
-------------------------------------------------------------------------------
\* The record of a packet that is sent again has a try less, and nothing else of
\* what is to be sent changes.
TryLess(s, k, t) ==
    /\ t.txQueue = s.txQueue /\ t.sent = s.sent /\ t.ids = s.ids
    /\ DOMAIN t.pending = DOMAIN s.pending
    /\ \A j \in DOMAIN s.pending : j # k => t.pending[j] = s.pending[j]
    /\ t.pending[k].numRetransmissions = s.pending[k].numRetransmissions - 1
    /\ t.pending[k].packet.want_ack = s.pending[k].packet.want_ack

\* doRetransmissions() takes the try off, and forgets the next hop at the last one.
LEMMA TryTaken ==
    ASSUME NEW n, NEW s, NEW M, Sound(n, s, M), NEW k \in DOMAIN s.pending,
           s.pending[k].numRetransmissions # 0
    PROVE  LET p == s.pending[k].packet
               again == [s EXCEPT !.pending[k].numRetransmissions = @ - 1]
               reset == [again EXCEPT !.pending[k].packet.next_hop = None, !.next_hop[p.to] = None]
           IN  /\ Sound(n, again, M) /\ TryLess(s, k, again)
               /\ Sound(n, reset, M) /\ TryLess(s, k, reset)
<1> DEFINE rec == s.pending[k]
           p == rec.packet
           v == [rec EXCEPT !.numRetransmissions = @ - 1]
           q == [p EXCEPT !.next_hop = None]
           x == [v EXCEPT !.packet = q]
           f == [s.pending EXCEPT ![k] = v]
           g == [s.pending EXCEPT ![k] = x]
           h == [s.next_hop EXCEPT ![p.to] = None]
           again == [s EXCEPT !.pending[k].numRetransmissions = @ - 1]
           reset == [again EXCEPT !.pending[k].packet.next_hop = None, !.next_hop[p.to] = None]
           c == << Broadcast, 0 >>
<1>1. /\ s \in NodeStates /\ s.pending \in Partial(Keys, Retransmissions)
      /\ s.next_hop \in [Nodes -> Hop]
  BY SoundTypes
<1>2. rec \in Retransmissions
  BY <1>1, PartialFacts
<1>3. /\ p \in Packets /\ Key(p) = k /\ p.to # n /\ Fact(p) \in M
      /\ rec.numRetransmissions - 1 \in 0..(NumReliableRetx - 1)
  <2>1. Key(p) = k /\ p.to # n /\ Fact(p) \in M
    BY DEF Sound, Local, Holds
  <2>2. rec.numRetransmissions \in 0..(NumReliableRetx - 1) /\ rec.numRetransmissions # 0
    BY <1>2 DEF Retransmissions
  <2>3. p \in Packets
    BY <1>2 DEF Retransmissions
  <2> HIDE DEF rec
  <2> QED
    BY <2>1, <2>2, <2>3 DEF NumReliableRetx
<1>4. again = [s EXCEPT !.pending = f]
  OBVIOUS
<1>5. /\ v \in Retransmissions /\ v.packet = p
      /\ v.numRetransmissions = rec.numRetransmissions - 1
  <2> HIDE DEF rec
  <2> QED
    BY <1>2, <1>3 DEF Retransmissions, p
<1>6. k \in DOMAIN f /\ f[k] = v
  BY <1>1
<1>7. reset = [s EXCEPT !.pending = g, !.next_hop = h]
  <2>1. again.pending = f /\ again.next_hop = s.next_hop
    BY <1>1, <1>4 DEF NodeStates
  <2> HIDE DEF v, again
  <2>2. reset = [again EXCEPT !.pending = [f EXCEPT ![k] = x], !.next_hop = h]
    BY <1>5, <1>6, <2>1
  <2>3. [f EXCEPT ![k] = x] = g
    BY <1>1
  <2>4. reset = [again EXCEPT !.pending = g, !.next_hop = h]
    BY <2>2, <2>3
  <2> HIDE DEF x, f, g, h, reset
  <2> QED
    BY <1>1, <1>4, <2>4 DEF NodeStates
<1>8. q \in Packets /\ Fact(q) = Fact(p) /\ Key(q) = k /\ q.to # n /\ q.want_ack = p.want_ack
  BY <1>3 DEF Packets, Fact, Key, Hop
<1>9. /\ x \in Retransmissions /\ x.packet = q
      /\ x.numRetransmissions = rec.numRetransmissions - 1
  <2> HIDE DEF q, v, rec
  <2> QED
    BY <1>5, <1>8 DEF Retransmissions
<1>10. h \in [Nodes -> Hop]
  BY <1>1 DEF Hop
<1> HIDE DEF p, q, v, x, h, again, reset
<1>11. /\ f \in Partial(Keys, Retransmissions) /\ DOMAIN f = DOMAIN s.pending
       /\ g \in Partial(Keys, Retransmissions) /\ DOMAIN g = DOMAIN s.pending
       /\ g[k] = x /\ \A j \in DOMAIN s.pending : j # k => f[j] = s.pending[j] /\ g[j] = s.pending[j]
  BY <1>1, <1>5, <1>9, PartialFacts
<1> HIDE DEF f, g
<1>12. Sound(n, again, M) /\ TryLess(s, k, again)
  <2>1. /\ again \in NodeStates /\ again.recentPackets = s.recentPackets /\ again.pending = f
        /\ again.txQueue = s.txQueue /\ again.fromRadioQueue = s.fromRadioQueue
        /\ again.ids = s.ids /\ again.phone = s.phone /\ (again.twice <=> s.twice)
        /\ again.dropped = s.dropped /\ again.sent = s.sent
    BY <1>1, <1>4, <1>11 DEF NodeStates
  <2>2. Sound(n, again, M) /\ Leads(n, s, again, M, M, c, {})
    BY <1>3, <1>5, <2>1, RecordSafe DEF f
  <2>3. TryLess(s, k, again)
    BY <1>5, <1>6, <1>11, <2>1 DEF TryLess, p
  <2> QED
    BY <2>2, <2>3
<1>13. Sound(n, reset, M) /\ TryLess(s, k, reset)
  <2>1. /\ reset \in NodeStates /\ reset.recentPackets = s.recentPackets /\ reset.pending = g
        /\ reset.txQueue = s.txQueue /\ reset.fromRadioQueue = s.fromRadioQueue
        /\ reset.ids = s.ids /\ reset.phone = s.phone /\ (reset.twice <=> s.twice)
        /\ reset.dropped = s.dropped /\ reset.sent = s.sent
    BY <1>1, <1>7, <1>10, <1>11 DEF NodeStates
  <2>2. Sound(n, reset, M) /\ Leads(n, s, reset, M, M, c, {})
    BY <1>3, <1>8, <1>9, <2>1, RecordSafe DEF g
  <2>3. TryLess(s, k, reset)
    BY <1>8, <1>9, <1>11, <2>1 DEF TryLess, p
  <2> QED
    BY <2>2, <2>3
<1> QED
  BY <1>12, <1>13 DEF again, reset, p

\* The copy that is then sent takes the place of the try.
LEMMA TryLessCalm ==
    ASSUME NEW n, NEW s, NEW t, NEW u, NEW M, NEW N,
           Sound(n, s, M), Sound(n, t, M), Sound(n, u, N),
           NEW k \in DOMAIN s.pending, TryLess(s, k, t),
           NEW b \in {1, 2}, Grows(n, t, u, k, b), k \in OwnKeys(n) => b = 1
    PROVE  Calm(n, s, u)
<1>1. s.ids \in Nat /\ t.ids \in Nat /\ u.ids \in Nat /\ s.ids <= u.ids /\ u.sent = s.sent
  BY SoundTypes DEF Grows, TryLess
<1>2. ASSUME NEW j \in OwnKeys(n)
      PROVE  /\ j[2] <= s.ids => ToSend(u, j) <= ToSend(s, j) + 0
             /\ j[2] > s.ids => ToSend(u, j) <= NumReliableRetx
             /\ Ends(s, j) => Ends(u, j)
  <2>1. /\ Cardinality(Copies(s, j)) \in Nat /\ Left(s, j) \in Nat /\ Left(t, j) \in Nat
        /\ ToSend(s, j) = Cardinality(Copies(s, j)) + Left(s, j)
        /\ ToSend(t, j) = Cardinality(Copies(t, j)) + Left(t, j)
        /\ ToSend(u, j) \in Nat /\ ToSend(t, j) \in Nat /\ ToSend(s, j) \in Nat
    BY ToSendType DEF NumReliableRetx
  <2>2. Copies(t, j) = Copies(s, j)
    BY DEF Copies, TryLess
  <2>3. Left(t, j) = Left(s, j) - (IF j = k THEN 1 ELSE 0)
    <3>1. CASE j = k
      BY <3>1 DEF Left, TryLess
    <3>2. CASE j # k
      BY <2>1, <3>2 DEF Left, TryLess
    <3> QED
      BY <3>1, <3>2
  <2>4. Ends(s, j) => Ends(t, j)
    <3>1. s.pending \in Partial(Keys, Retransmissions)
      BY SoundTypes
    <3>2. CASE j = k
      <4>1. s.pending[k] \in Retransmissions
        BY <3>1, PartialFacts
      <4>2. s.pending[k].numRetransmissions \in Nat
        BY <4>1 DEF Retransmissions, NumReliableRetx
      <4> QED
        BY <3>2, <4>2 DEF Ends, TryLess
    <3>3. CASE j # k
      BY <3>3 DEF Ends, TryLess
    <3> QED
      BY <3>2, <3>3
  <2>5. /\ j[2] <= t.ids => ToSend(u, j) <= ToSend(t, j) + (IF j = k THEN b ELSE 0)
        /\ j[2] > t.ids => ToSend(u, j) <= NumReliableRetx
        /\ Ends(t, j) => Ends(u, j)
    BY DEF Grows
  <2>6. t.ids = s.ids
    BY DEF TryLess
  <2>7. ToSend(t, j) = ToSend(s, j) - (IF j = k THEN 1 ELSE 0)
    BY <2>1, <2>2, <2>3
  <2>8. j = k => b = 1
    OBVIOUS
  <2> QED
    BY <2>1, <2>4, <2>5, <2>6, <2>7, <2>8
<1> QED
  BY <1>1, <1>2 DEF Calm, Grows
-------------------------------------------------------------------------------
\* The nodes of a network that keeps its promises are sound, before a step
LEMMA NetworkTypes ==
    ASSUME NEW M, Kept(M)
    PROVE  node \in [Nodes -> NodeStates] /\ \A n \in Nodes : Sound(n, node[n], M)
  BY NodeIsSound DEF Kept, Network

\* and after it.
LEMMA SoundAfter ==
    ASSUME MeshInv', NEW n \in Nodes
    PROVE  \E N : Sound(n, node'[n], N)
<1>1. PICK N : Kept(N)'
  BY DEF MeshInv
<1>2. /\ N \in SUBSET AllFacts /\ Unique(N) /\ node' \in [Nodes -> NodeStates]
      /\ Local(n, node'[n]) /\ Holds(node'[n], N)
      /\ \A x \in N : x.id <= node'[x.from].ids
  BY <1>1 DEF Kept, Network
<1>3. Sound(n, node'[n], N)
  BY <1>2 DEF Sound, Registry
<1> QED
  BY <1>3

\* A step of one node that lets nothing grow.
LEMMA CalmStep ==
    ASSUME NEW M, Kept(M), MeshInv', AllBudget, NEW n \in Nodes, NEW t,
           node' = [node EXCEPT ![n] = t], Calm(n, node[n], t)
    PROVE  AllBudget'
<1>1. node \in [Nodes -> NodeStates] /\ Sound(n, node[n], M)
  BY NetworkTypes
<1>2. node'[n] = t /\ \A m \in Nodes : m # n => node'[m] = node[m]
  BY <1>1
<1>3. PICK N : Sound(n, t, N)
  BY <1>2, SoundAfter
<1>4. Budget(n, t)
  BY <1>1, <1>3, CalmBudget DEF AllBudget
<1>5. \A m \in Nodes : Budget(m, node'[m])
  BY <1>2, <1>4 DEF AllBudget
<1> QED
  BY <1>5 DEF AllBudget

\* A phone's packet is new.
LEMMA PhoneSendsBudget ==
    ASSUME NEW M, Kept(M), MeshInv', AllBudget, NEW r \in Requests, PhoneSends(r)
    PROVE  AllBudget'
<1> DEFINE n == r.from
           s == node[n]
           new == NewPacket(n, s, r.to, 0, "data", HopLimit)
           p == [new EXCEPT !.want_ack = r.want_ack, !.want_response = r.want_response]
           t == SendLocal(n, [s EXCEPT !.ids = @ + 1], p)
<1>1. node' = [node EXCEPT ![n] = t]
  BY DEF PhoneSends
<1>2. /\ n \in Nodes /\ r.to \in Nodes \cup {Broadcast}
      /\ r.want_ack \in BOOLEAN /\ r.want_response \in BOOLEAN
      /\ HopLimit \in 0..7 /\ 0 \in Nat /\ "data" \in Reasons
  BY RouterAssumption DEF Reasons
<1>3. Sound(n, s, M)
  BY <1>2, NodeIsSound DEF Kept
<1>4. s.ids \in Nat
  BY <1>3, SoundTypes
<1>5. p \in Packets /\ p.from = n /\ p.id = s.ids + 1 /\ p.request_id = 0
  <2>1. new \in Packets
    BY <1>2, <1>4, NewPacketResult
  <2>2. new.from = n /\ new.id = s.ids + 1 /\ new.request_id = 0
    BY DEF NewPacket
  <2> HIDE DEF new, n, s
  <2> QED
    BY <1>2, <2>1, <2>2 DEF Packets
<1> HIDE DEF p
<1>6. Calm(n, s, t)
  <2> HIDE DEF n, s
  <2> QED
    BY <1>2, <1>3, <1>5, SendNewCalm
<1> HIDE DEF t, n
<1> QED
  BY <1>1, <1>2, <1>6, CalmStep DEF s

\* The oldest packet leaves the queue from the radio.
LEMMA Taken ==
    ASSUME NEW n \in Nodes, NEW o, NEW M, Sound(n, o, M), o.fromRadioQueue # << >>
    PROVE  LET p == Head(o.fromRadioQueue)
               s == [o EXCEPT !.fromRadioQueue = Tail(@)]
           IN  p \in Packets /\ Fact(p) \in M /\ Sound(n, s, M) /\ Calm(n, o, s)
<1> DEFINE q == o.fromRadioQueue
           v == Tail(q)
           p == Head(q)
           s == [o EXCEPT !.fromRadioQueue = v]
<1>1. o \in NodeStates /\ o.ids \in Nat /\ q \in Seq(Packets) /\ q # << >>
  BY SoundTypes
<1>2. /\ p \in Packets /\ v \in Seq(Packets) /\ 1 \in DOMAIN q /\ p = q[1]
      /\ \A l \in DOMAIN v : l + 1 \in DOMAIN q /\ v[l] = q[l + 1]
      /\ Len(q) \in Nat /\ Len(v) \in Nat /\ Len(v) = Len(q) - 1
  <2> HIDE DEF q
  <2>1. /\ Head(q) \in Packets /\ Tail(q) \in Seq(Packets) /\ 1 \in DOMAIN q /\ Head(q) = q[1]
        /\ Len(q) \in Nat /\ Len(Tail(q)) \in Nat /\ Len(Tail(q)) = Len(q) - 1
    BY <1>1, TailResult
  <2>2. \A l \in DOMAIN Tail(q) : l + 1 \in DOMAIN q /\ Tail(q)[l] = q[l + 1]
    BY <1>1, TailResult
  <2> QED
    BY <2>1, <2>2
<1>3. Fact(p) \in M
  BY <1>2 DEF Sound, Holds
<1> HIDE DEF v, p
<1>4. /\ s \in NodeStates /\ s.recentPackets = o.recentPackets /\ s.pending = o.pending
      /\ s.txQueue = o.txQueue /\ s.fromRadioQueue = v /\ s.ids = o.ids
      /\ s.phone = o.phone /\ s.sent = o.sent
  BY <1>1, <1>2 DEF NodeStates
<1> HIDE DEF s
<1>5. Local(n, s)
  <2>1. Len(q) <= MaxRx
    BY DEF Sound, Local
  <2>2. Len(v) <= MaxRx
    BY <1>2, <2>1, RouterAssumption
  <2> QED
    BY <1>4, <2>2 DEF Sound, Local
<1>6. Holds(s, M)
  BY <1>2, <1>4 DEF Sound, Holds
<1>7. Sound(n, s, M)
  BY <1>4, <1>5, <1>6 DEF Sound, Registry
<1>8. s.ids = o.ids /\ o.ids <= s.ids
  BY <1>1, <1>4
<1>9. Calm(n, o, s)
  BY <1>4, <1>7, <1>8, Untouched
<1> QED
  BY <1>2, <1>3, <1>7, <1>9 DEF p, s, v

\* Hearing its own packet passed on a node stops sending it again.
LEMMA HeardCalm ==
    ASSUME NEW n \in Nodes, NEW s, NEW M, Sound(n, s, M), NEW p \in Packets, Fact(p) \in M
    PROVE  Calm(n, s, Heard(n, s, p))
<1>1. CASE ~(p.from = n /\ Key(p) \in DOMAIN s.pending)
  <2>1. Heard(n, s, p) = s /\ s.ids \in Nat
    BY <1>1, SoundTypes DEF Heard
  <2> QED
    BY <2>1, Untouched
<1>2. CASE p.from = n /\ Key(p) \in DOMAIN s.pending
  <2> DEFINE a == AnswerLocally(n, s, "NONE", p.id)
             t == StopRetransmission(n, a, Key(p))
  <2>1. p.id \in Nat \ {0} /\ \E y \in M : KeyOfFact(y) = << n, p.id >>
    BY <1>2, PacketFacts
  <2>2. \E N : Sound(n, a, N) /\ Leads(n, s, a, M, N, Key(p), {})
    BY <2>1, AnswerLocallySafe
  <2>3. a.txQueue = s.txQueue /\ a.pending = s.pending /\ a.sent = s.sent /\ s.ids <= a.ids
    BY SoundTypes, AnswerLocallySame
  <2>4. Heard(n, s, p) = t
    BY <1>2 DEF Heard
  <2> HIDE DEF a
  <2>5. PICK N : Sound(n, a, N)
    BY <2>2
  <2>6. Calm(n, s, a)
    BY <2>3, <2>5, Untouched
  <2>7. Sound(n, t, N) /\ Leads(n, a, t, N, N, Key(p), {Key(p)})
    BY <2>5, StopRetransmissionSafe
  <2>8. Calm(n, a, t)
    BY <2>5, StopRetransmissionCalm
  <2> HIDE DEF t
  <2> QED
    BY <2>4, <2>5, <2>6, <2>7, <2>8, CalmThen
<1> QED
  BY <1>1, <1>2


\* A packet that was received is handled: what is sent on of it is another
\* node's, and the answers are new.
LEMMA ReceiveBudget ==
    ASSUME NEW M, Kept(M), MeshInv', AllBudget, NEW n \in Nodes, Receive(n)
    PROVE  AllBudget'
<1> DEFINE o == node[n]
           p == Head(o.fromRadioQueue)
           s == [o EXCEPT !.fromRadioQueue = Tail(@)]
           t == Heard(n, s, p)
           u == WasSeenRecently(t, p)
           fallback == WasFallback(n, t, p)
           were == t.recentPackets[Key(p)].next_hop = n
           w == IF ~Known(t, p) THEN HandleReceived(n, u, p)
                ELSE IF p.to = Broadcast THEN FloodingDupe(n, u, p)
                ELSE NextHopDupe(n, u, p, fallback, were)
<1>1. o.fromRadioQueue # << >> /\ node' = [node EXCEPT ![n] = w]
  BY DEF Receive, Heard
<1>2. Sound(n, o, M)
  BY NetworkTypes
<1>3. PICK W : Sound(n, w, W)
  <2>1. node'[n] = w
    BY <1>1, NetworkTypes
  <2> QED
    BY <2>1, SoundAfter
<1> HIDE DEF o
<1>4. p \in Packets /\ Fact(p) \in M /\ Sound(n, s, M) /\ Calm(n, o, s)
  BY <1>1, <1>2, Taken
<1> HIDE DEF p, s
<1>5. Calm(n, s, t)
  BY <1>4, HeardCalm
<1>6. PICK N : Sound(n, t, N) /\ Fact(p) \in N
  <2>1. \E N : Sound(n, t, N) /\ Leads(n, s, t, M, N, Key(p), {Key(p)})
    BY <1>4, HeardAgain
  <2> QED
    BY <1>4, <2>1 DEF Leads
<1> HIDE DEF t
<1>7. Sound(n, u, N) /\ Calm(n, t, u)
  BY <1>4, <1>6, WasSeenRecentlySafe, WasSeenRecentlyCalm
<1> HIDE DEF u, fallback, were
<1>8. Calm(n, u, w)
  <2>1. \/ w = HandleReceived(n, u, p)
        \/ w = FloodingDupe(n, u, p)
        \/ w = NextHopDupe(n, u, p, fallback, were)
    OBVIOUS
  <2> HIDE DEF w
  <2> QED
    BY <1>4, <1>6, <1>7, <2>1, HandleReceivedCalm, FloodingDupeCalm, NextHopDupeCalm
<1> HIDE DEF w
<1>9. Calm(n, o, t)
  BY <1>2, <1>4, <1>5, <1>6, CalmThen
<1>10. Calm(n, o, u)
  BY <1>2, <1>6, <1>7, <1>9, CalmThen
<1>11. Calm(n, o, w)
  BY <1>2, <1>3, <1>7, <1>8, <1>10, CalmThen
<1> QED
  BY <1>1, <1>11, CalmStep DEF o

\* A retransmission takes the place of a try; of a packet of this node's own
\* that has two tries left NextHopRouter::send() starts no tries of its own.
LEMMA RetransmitBudget ==
    ASSUME NEW M, Kept(M), MeshInv', AllBudget, NEW n \in Nodes, NEW k, Retransmit(n, k)
    PROVE  AllBudget'
<1> DEFINE s == node[n]
           rec == s.pending[k]
           p == rec.packet
           q == [p EXCEPT !.next_hop = None]
           again == [s EXCEPT !.pending[k].numRetransmissions = @ - 1]
           reset == [again EXCEPT !.pending[k].packet.next_hop = None, !.next_hop[p.to] = None]
           answered == IF p.from = n THEN AnswerLocally(n, s, "MAX_RETRANSMIT", p.id) ELSE s
           t == IF rec.numRetransmissions = 0 THEN StopRetransmission(n, answered, k)
                ELSE IF p.to = Broadcast THEN FloodingSend(n, again, p)
                ELSE IF rec.numRetransmissions = 1 THEN FloodingSend(n, reset, q)
                ELSE NextHopSend(n, again, p)
<1>1. k \in DOMAIN s.pending /\ node' = [node EXCEPT ![n] = t]
  BY DEF Retransmit
<1>2. Sound(n, s, M) /\ Budget(n, s)
  BY NetworkTypes DEF AllBudget
<1>3. PICK N : Sound(n, t, N)
  <2>1. node'[n] = t
    BY <1>1, NetworkTypes
  <2> QED
    BY <2>1, SoundAfter
<1> HIDE DEF s
<1>4. s \in NodeStates /\ s.ids \in Nat /\ rec \in Retransmissions
  BY <1>1, <1>2, SoundTypes, PartialFacts
<1>5. p \in Packets /\ rec.numRetransmissions \in 0..(NumReliableRetx - 1) /\ Key(p) = k
      /\ p.to # n /\ Fact(p) \in M
  BY <1>1, <1>2, <1>4 DEF Retransmissions, Sound, Local, Holds
<1>6. rec.numRetransmissions <= 1 \/ p.want_ack \/ k \notin OwnKeys(n)
  BY <1>1, <1>2 DEF Budget, Ends
<1>7. CASE rec.numRetransmissions = 0
  <2>1. t = StopRetransmission(n, answered, k)
    BY <1>7
  <2>2. \E O : Sound(n, answered, O) /\ Calm(n, s, answered)
    <3>1. CASE p.from = n
      <4>1. answered = AnswerLocally(n, s, "MAX_RETRANSMIT", p.id)
        BY <3>1
      <4>2. p.id \in Nat \ {0} /\ \E y \in M : KeyOfFact(y) = << n, p.id >>
        BY <1>5, <3>1, PacketFacts
      <4> HIDE DEF p, answered
      <4>3. \E O : Sound(n, answered, O) /\ Leads(n, s, answered, M, O, k, {})
        BY <1>2, <4>1, <4>2, AnswerLocallySafe
      <4>4. /\ answered.txQueue = s.txQueue /\ answered.pending = s.pending
            /\ answered.sent = s.sent /\ s.ids <= answered.ids
        BY <1>4, <4>1, AnswerLocallySame
      <4>5. PICK O : Sound(n, answered, O)
        BY <4>3
      <4>6. Calm(n, s, answered)
        BY <1>2, <4>4, <4>5, Untouched
      <4> QED
        BY <4>5, <4>6
    <3>2. CASE p.from # n
      <4>1. answered = s
        BY <3>2
      <4>2. Calm(n, s, s)
        BY <1>2, <1>4, Untouched
      <4> QED
        BY <1>2, <4>1, <4>2
    <3> QED
      BY <3>1, <3>2
  <2> HIDE DEF answered
  <2>3. PICK O : Sound(n, answered, O) /\ Calm(n, s, answered)
    BY <2>2
  <2>4. Calm(n, answered, t)
    BY <2>1, <2>3, StopRetransmissionCalm
  <2> HIDE DEF t
  <2>5. Calm(n, s, t)
    BY <1>2, <1>3, <2>3, <2>4, CalmThen
  <2> QED
    BY <1>1, <2>5, CalmStep DEF s
<1>8. CASE rec.numRetransmissions # 0
  <2>1. /\ Sound(n, again, M) /\ TryLess(s, k, again)
        /\ Sound(n, reset, M) /\ TryLess(s, k, reset)
    BY <1>1, <1>2, <1>8, TryTaken
  <2>2. \/ p.to = Broadcast /\ t = FloodingSend(n, again, p)
        \/ t = FloodingSend(n, reset, q)
        \/ rec.numRetransmissions # 1 /\ t = NextHopSend(n, again, p)
    BY <1>8
  <2>3. q \in Packets /\ Fact(q) = Fact(p) /\ Key(q) = k /\ q.to = p.to
    BY <1>5 DEF Packets, Fact, Key, Hop
  <2>4. k \in OwnKeys(n) => p.from = n
    BY <1>5, PacketFacts, OwnKeyFacts
  <2> HIDE DEF again, reset, q, t
  <2>5. CASE t = FloodingSend(n, again, p)
    <3>1. Grows(n, again, t, k, 1)
      <4> HIDE DEF p
      <4> QED
        BY <1>5, <2>1, <2>5, FloodingSendGrows
    <3>2. Calm(n, s, t)
      BY <1>1, <1>2, <1>3, <2>1, <3>1, TryLessCalm
    <3> QED
      BY <1>1, <3>2, CalmStep DEF s
  <2>6. CASE t = FloodingSend(n, reset, q)
    <3>1. Grows(n, reset, t, k, 1)
      BY <1>5, <2>1, <2>3, <2>6, FloodingSendGrows
    <3>2. Calm(n, s, t)
      BY <1>1, <1>2, <1>3, <2>1, <3>1, TryLessCalm
    <3> QED
      BY <1>1, <3>2, CalmStep DEF s
  <2>7. CASE rec.numRetransmissions # 1 /\ t = NextHopSend(n, again, p)
    <3>1. \E b \in {1, 2} : Grows(n, again, t, k, b) /\ (k \in OwnKeys(n) => b = 1)
      <4>1. /\ Grows(n, again, t, k, 2)
            /\ p.from = n /\ p.want_ack => Grows(n, again, t, k, 1)
        <5> HIDE DEF p
        <5> QED
          BY <1>5, <2>1, <2>7, NextHopSendGrows
      <4>2. CASE k \in OwnKeys(n)
        <5>1. p.want_ack
          <6>1. rec.numRetransmissions \in 0..2 /\ rec.numRetransmissions # 0 /\ rec.numRetransmissions # 1
            BY <1>5, <1>8, <2>7 DEF NumReliableRetx
          <6>2. ~(rec.numRetransmissions <= 1)
            <7> HIDE DEF rec
            <7> QED
              BY <6>1
          <6> QED
            BY <1>6, <4>2, <6>2
        <5> QED
          BY <2>4, <4>1, <4>2, <5>1
      <4>3. CASE k \notin OwnKeys(n)
        BY <4>1, <4>3
      <4> QED
        BY <4>2, <4>3
    <3>2. PICK b \in {1, 2} : Grows(n, again, t, k, b) /\ (k \in OwnKeys(n) => b = 1)
      BY <3>1
    <3>3. Calm(n, s, t)
      BY <1>1, <1>2, <1>3, <2>1, <3>2, TryLessCalm
    <3> QED
      BY <1>1, <3>3, CalmStep DEF s
  <2> QED
    BY <2>2, <2>5, <2>6, <2>7
<1> QED
  BY <1>7, <1>8


\* Sent once more, one copy less.
LEMMA SentBudget ==
    ASSUME NEW n, NEW s, NEW M, Sound(n, s, M), Budget(n, s), NEW i \in DOMAIN s.txQueue,
           NEW t, NEW p, p = s.txQueue[i], t.ids = s.ids, t.pending = s.pending,
           t.txQueue = RemoveAt(s.txQueue, i), Sound(n, t, M),
           t.sent = Put(s.sent, Key(p), IF Key(p) \in DOMAIN s.sent THEN s.sent[Key(p)] + 1 ELSE 1)
    PROVE  Budget(n, t)
<1> SUFFICES ASSUME NEW k \in OwnKeys(n)
             PROVE  /\ ToSend(t, k) + Gone(t, k) <= NumReliableRetx
                    /\ Ends(t, k)
                    /\ k \in DOMAIN t.sent => k[2] <= t.ids
  BY DEF Budget
<1> DEFINE one == IF Key(p) = k THEN 1 ELSE 0
<1>1. s.txQueue \in Seq(Packets) /\ s.sent \in Partial(Keys, Nat)
  BY SoundTypes DEF NodeStates
<1>2. p \in Packets /\ Fact(p) \in M
  BY <1>1 DEF Sound, Holds
<1>3. /\ ToSend(s, k) + Gone(s, k) <= NumReliableRetx /\ Ends(s, k)
      /\ k \in DOMAIN s.sent => k[2] <= s.ids
  BY DEF Budget
<1>4. Cardinality(Copies(t, k)) + one <= Cardinality(Copies(s, k))
  BY <1>1, CopiesRemove
<1>5. Gone(s, k) \in Nat /\ Gone(t, k) = Gone(s, k) + one
  <2> DEFINE v == IF Key(p) \in DOMAIN s.sent THEN s.sent[Key(p)] + 1 ELSE 1
             f == Put(s.sent, Key(p), v)
  <2>1. \A j \in DOMAIN s.sent : s.sent[j] \in Nat
    BY <1>1, PartialFacts
  <2>2. /\ DOMAIN f = DOMAIN s.sent \cup {Key(p)} /\ f[Key(p)] = v
        /\ \A j \in DOMAIN s.sent : j # Key(p) => f[j] = s.sent[j]
    <3> HIDE DEF v
    <3>1. DOMAIN f = DOMAIN s.sent \cup {Key(p)}
      BY PutDomain
    <3>2. f[Key(p)] = v /\ \A j \in DOMAIN s.sent : j # Key(p) => f[j] = s.sent[j]
      BY PutValues
    <3> QED
      BY <3>1, <3>2
  <2>3. t.sent = f
    OBVIOUS
  <2> HIDE DEF f
  <2>4. Gone(s, k) \in Nat
    BY <2>1 DEF Gone
  <2>5. CASE Key(p) = k
    <3>1. Gone(t, k) = v
      BY <2>2, <2>3, <2>5 DEF Gone
    <3>2. v = Gone(s, k) + 1
      BY <2>1, <2>5 DEF Gone
    <3> QED
      BY <2>4, <2>5, <3>1, <3>2
  <2>6. CASE Key(p) # k
    <3>1. Gone(t, k) = Gone(s, k)
      BY <2>2, <2>3, <2>6 DEF Gone
    <3> QED
      BY <2>4, <2>6, <3>1
  <2> QED
    BY <2>4, <2>5, <2>6
<1>6. /\ Cardinality(Copies(s, k)) \in Nat /\ Cardinality(Copies(t, k)) \in Nat
      /\ Left(s, k) \in Nat /\ Left(t, k) = Left(s, k)
      /\ ToSend(s, k) = Cardinality(Copies(s, k)) + Left(s, k)
      /\ ToSend(t, k) = Cardinality(Copies(t, k)) + Left(t, k)
  BY ToSendType DEF Left, NumReliableRetx
<1>7. ToSend(t, k) + Gone(t, k) <= NumReliableRetx
  <2>1. one \in Nat
    OBVIOUS
  <2> HIDE DEF one
  <2> QED
    BY <1>3, <1>4, <1>5, <1>6, <2>1 DEF NumReliableRetx
<1>8. Ends(t, k)
  BY <1>3 DEF Ends
<1>9. k \in DOMAIN t.sent => k[2] <= t.ids
  <2>1. DOMAIN t.sent = DOMAIN s.sent \cup {Key(p)}
    BY DEF Put
  <2>2. CASE k = Key(p)
    <3>1. p.from = n
      BY <1>2, <2>2, PacketFacts, OwnKeyFacts
    <3> QED
      BY <1>2, <2>2, <3>1, OwnId
  <2>3. CASE k # Key(p)
    BY <1>3, <2>1, <2>3
  <2> QED
    BY <2>2, <2>3
<1> QED
  BY <1>7, <1>8, <1>9

\* The radio sends a packet; those who hear it only queue it.
LEMMA TransmitBudget ==
    ASSUME NEW M, Kept(M), AllBudget, NEW n \in Nodes, Transmit(n)
    PROVE  AllBudget'
<1>1. PICK i \in DOMAIN node[n].txQueue, heard \in SUBSET Hears[n] :
          LET p == node[n].txQueue[i]
          IN  node' = [m \in Nodes |->
                  IF m = n THEN [node[n] EXCEPT !.txQueue = RemoveAt(@, i),
                          !.sent = Put(@, Key(p), IF Key(p) \in DOMAIN @ THEN @[Key(p)] + 1 ELSE 1)]
                  ELSE IF m \in heard THEN EnqueueReceivedMessage(node[m], p) ELSE node[m]]
  BY DEF Transmit
<1> DEFINE s == node[n]
           p == s.txQueue[i]
           g == Put(s.sent, Key(p), IF Key(p) \in DOMAIN s.sent THEN s.sent[Key(p)] + 1 ELSE 1)
           t == [s EXCEPT !.txQueue = RemoveAt(s.txQueue, i), !.sent = g]
<1>2. node' = [m \in Nodes |-> IF m = n THEN t
                 ELSE IF m \in heard THEN EnqueueReceivedMessage(node[m], p) ELSE node[m]]
  BY <1>1
<1>3. \A m \in Nodes : Sound(m, node[m], M) /\ node[m] \in NodeStates
  BY NetworkTypes, SoundTypes
<1>4. \A m \in Nodes : Sound(m, node'[m], M)
  <2>1. Kept(M)'
    BY TransmitKept
  <2>2. /\ M \in SUBSET AllFacts /\ Unique(M) /\ node' \in [Nodes -> NodeStates]
        /\ \A m \in Nodes : Local(m, node'[m]) /\ Holds(node'[m], M)
        /\ \A x \in M : x.id <= node'[x.from].ids
    BY <2>1 DEF Kept, Network
  <2> QED
    BY <2>2 DEF Sound, Registry
<1>5. Budget(n, node'[n])
  <2>1. node'[n] = t
    BY <1>2
  <2>2. Sound(n, t, M) /\ Sound(n, s, M) /\ Budget(n, s)
    BY <1>3, <1>4, <2>1 DEF AllBudget
  <2>3. s \in NodeStates
    BY <1>3
  <2> HIDE DEF s, g
  <2>4. /\ t.ids = s.ids /\ t.pending = s.pending
        /\ t.txQueue = RemoveAt(s.txQueue, i) /\ t.sent = g
    BY <2>3 DEF NodeStates
  <2>5. i \in DOMAIN s.txQueue
    BY DEF s
  <2> HIDE DEF t, p
  <2>6. p = s.txQueue[i]
    BY DEF p
  <2> QED
    BY <2>1, <2>2, <2>4, <2>5, <2>6, SentBudget DEF g
<1> HIDE DEF t
<1>6. ASSUME NEW m \in Nodes, m # n
      PROVE  Budget(m, node'[m])
  <2>1. node'[m] = EnqueueReceivedMessage(node[m], p) \/ node'[m] = node[m]
    BY <1>2, <1>6
  <2>2. /\ node'[m].txQueue = node[m].txQueue /\ node'[m].pending = node[m].pending
        /\ node'[m].sent = node[m].sent /\ node'[m].ids = node[m].ids
    BY <1>3, <2>1, EnqueueSame
  <2>3. Budget(m, node[m])
    BY DEF AllBudget
  <2> QED
    BY <2>2, <2>3 DEF Budget, ToSend, Copies, Left, Gone, Ends
<1> QED
  BY <1>5, <1>6 DEF AllBudget

\* A node that restarts forgets what it was to send.
LEMMA RebootBudget ==
    ASSUME NEW M, Kept(M), MeshInv', AllBudget, NEW n \in Nodes, Reboot(n)
    PROVE  AllBudget'
<1> DEFINE s == node[n]
           t == [s EXCEPT !.recentPackets = << >>, !.pending = << >>,
                    !.txQueue = << >>, !.fromRadioQueue = << >>]
<1>1. node' = [node EXCEPT ![n] = t]
  BY DEF Reboot
<1>2. Sound(n, s, M) /\ s \in NodeStates /\ s.ids \in Nat
  BY NetworkTypes, SoundTypes
<1>3. PICK N : Sound(n, t, N)
  <2>1. node'[n] = t
    BY <1>1, NetworkTypes
  <2> QED
    BY <2>1, SoundAfter
<1> HIDE DEF s
<1>4. t.txQueue = << >> /\ t.pending = << >> /\ t.sent = s.sent /\ t.ids = s.ids
  BY <1>2 DEF NodeStates
<1>5. ASSUME NEW k
      PROVE  ToSend(t, k) = 0 /\ Ends(t, k)
  <2>1. Copies(t, k) = {} /\ k \notin DOMAIN t.pending
    BY <1>4 DEF Copies
  <2> HIDE DEF t
  <2>2. Cardinality(Copies(t, k)) = 0 /\ Left(t, k) = 0
    BY <2>1, FS_EmptySet DEF Left
  <2> QED
    BY <2>1, <2>2 DEF ToSend, Ends
<1> HIDE DEF t
<1>6. \A k : ToSend(s, k) \in Nat
  BY <1>2, ToSendType
<1>7. Calm(n, s, t)
  <2>1. s.ids <= t.ids /\ 0 \in 0..NumReliableRetx
    BY <1>2, <1>4 DEF NumReliableRetx
  <2>2. \A k \in OwnKeys(n) : /\ ToSend(t, k) <= ToSend(s, k) + (IF k = << n, 0 >> THEN 0 ELSE 0)
                              /\ Ends(s, k) => Ends(t, k)
    BY <1>5, <1>6
  <2> QED
    BY <1>2, <1>3, <1>4, <2>1, <2>2, GrowsBy DEF Calm
<1> QED
  BY <1>1, <1>7, CalmStep DEF s
-------------------------------------------------------------------------------
\* At first there is nothing to send.
LEMMA InitBudget ==
    ASSUME Init
    PROVE  AllBudget
<1> SUFFICES ASSUME NEW n \in Nodes, NEW k \in OwnKeys(n)
             PROVE  /\ ToSend(node[n], k) + Gone(node[n], k) <= NumReliableRetx
                    /\ Ends(node[n], k)
                    /\ k \in DOMAIN node[n].sent => k[2] <= node[n].ids
  BY DEF AllBudget, Budget
<1>1. node[n].txQueue = << >> /\ node[n].pending = << >> /\ node[n].sent = << >>
  BY DEF Init
<1>2. Copies(node[n], k) = {} /\ k \notin DOMAIN node[n].pending /\ k \notin DOMAIN node[n].sent
  BY <1>1 DEF Copies
<1>3. Cardinality(Copies(node[n], k)) = 0 /\ Left(node[n], k) = 0 /\ Gone(node[n], k) = 0
  BY <1>2, FS_EmptySet DEF Left, Gone
<1> QED
  BY <1>2, <1>3 DEF ToSend, Ends, NumReliableRetx

\* Every step keeps each node within its budget.
LEMMA StepBudget ==
    ASSUME MeshInv, MeshInv', AllBudget, [Next]_vars
    PROVE  AllBudget'
<1>1. PICK M : Kept(M)
  BY DEF MeshInv
<1>2. CASE node' = node
  BY <1>2 DEF AllBudget
<1>3. ASSUME NEW r \in Requests, PhoneSends(r)
      PROVE  AllBudget'
  BY <1>1, <1>3, PhoneSendsBudget
<1>4. ASSUME NEW n \in Nodes, Transmit(n)
      PROVE  AllBudget'
  BY <1>1, <1>4, TransmitBudget
<1>5. ASSUME NEW n \in Nodes, Receive(n)
      PROVE  AllBudget'
  BY <1>1, <1>5, ReceiveBudget
<1>6. ASSUME NEW n \in Nodes, NEW k \in DOMAIN node[n].pending, Retransmit(n, k)
      PROVE  AllBudget'
  BY <1>1, <1>6, RetransmitBudget
<1>7. ASSUME NEW n \in Nodes, DutyCycle(n)
      PROVE  AllBudget'
  BY <1>2, <1>7 DEF DutyCycle
<1>8. ASSUME NEW n \in Nodes, Reboot(n)
      PROVE  AllBudget'
  BY <1>1, <1>8, RebootBudget
<1>9. CASE UNCHANGED vars
  BY <1>2, <1>9 DEF vars
<1> QED
  BY <1>3, <1>4, <1>5, <1>6, <1>7, <1>8, <1>9 DEF Next, Work

\* Within its budget a node sent no packet too often.
LEMMA BudgetBounds ==
    ASSUME MeshInv, AllBudget
    PROVE  OwnSendsBounded
<1>1. PICK M : Kept(M)
  BY DEF MeshInv
<1> SUFFICES ASSUME NEW n \in Nodes, NEW k \in DOMAIN node[n].sent, k[1] = n
             PROVE  node[n].sent[k] <= NumReliableRetx
  BY DEF OwnSendsBounded
<1> DEFINE s == node[n]
<1>2. Sound(n, s, M) /\ Budget(n, s)
  BY <1>1, NetworkTypes DEF AllBudget
<1>3. k \in DOMAIN s.sent
  OBVIOUS
<1> HIDE DEF s
<1>4. s.sent \in Partial(Keys, Nat)
  BY <1>2, SoundTypes DEF NodeStates
<1>5. k \in OwnKeys(n) /\ s.sent[k] \in Nat
  BY <1>3, <1>4, PartialFacts DEF OwnKeys
<1>6. ToSend(s, k) \in Nat
  BY <1>2, ToSendType
<1>7. ToSend(s, k) + Gone(s, k) <= NumReliableRetx /\ Gone(s, k) = s.sent[k]
  BY <1>2, <1>3, <1>5 DEF Budget, Gone
<1>8. s.sent[k] <= NumReliableRetx
  BY <1>5, <1>6, <1>7 DEF NumReliableRetx
<1> QED
  BY <1>8 DEF s

\* A node sends a packet of its own three times at most, NUM_RELIABLE_RETX, on
\* every network and with every next hop it learned.
THEOREM OwnSending == Spec => []OwnSendsBounded
<1>1. Init => AllBudget
  BY InitBudget
<1>2. MeshInv /\ MeshInv' /\ AllBudget /\ [Next]_vars => AllBudget'
  BY StepBudget
<1>3. MeshInv /\ AllBudget => OwnSendsBounded
  BY BudgetBounds
<1> QED
  BY <1>1, <1>2, <1>3, MeshInvariance, PTL DEF Spec
================================================================================

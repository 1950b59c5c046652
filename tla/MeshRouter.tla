------------------------------ MODULE MeshRouter ------------------------------
(***************************************************************************)
(* The routers of a mesh: Router, FloodingRouter, NextHopRouter and        *)
(* ReliableRouter (mesh/*.cpp) with the routing module and the module loop *)
(* that call them, on several nodes that hear each other over a channel    *)
(* that loses packets.  Each node runs one handler at a time; a handler is *)
(* an operator from the node's state to its next state, built from the     *)
(* calls it makes in their order.                                          *)
(***************************************************************************)
EXTENDS Naturals, Sequences, FiniteSets, SequencesExt, Functions

CONSTANTS
    Nodes,          \* node numbers; their last bytes differ
    Broadcast,      \* NODENUM_BROADCAST
    Hears,          \* [Nodes -> SUBSET Nodes]: who can hear a node transmit
    Routers,        \* role ROUTER, ROUTER_LATE or REPEATER
    Mutes,          \* role CLIENT_MUTE: not a rebroadcaster
    Keyless,        \* nodes without the channel's key
    MayBeSilent,    \* nodes that may reach their duty cycle
    MayReboot,      \* nodes that may restart, at most once each
    Routes,         \* the next hops learned before: [Nodes -> [Nodes -> Hop]]
    Requests,       \* packets the phones send: [from, to, want_ack, want_response]
    MaxRequests,    \* bound: how many of them are sent
    HopLimit,       \* config.lora.hop_limit
    MaxRx           \* MAX_RX_FROMRADIO, 4

NumReliableRetx == 3        \* NUM_RELIABLE_RETX
NumIntermediateRetx == 2    \* NUM_INTERMEDIATE_RETX
NumRelayers == 3            \* NUM_RELAYERS
None == "none"              \* NO_NEXT_HOP_PREFERENCE, NO_RELAY_NODE
Hop == Nodes \cup {None}

ASSUME RouterAssumption ==
    /\ IsFiniteSet(Nodes) /\ Broadcast \notin Nodes /\ None \notin Nodes
    /\ Hears \in [Nodes -> SUBSET Nodes] /\ \A n \in Nodes : n \notin Hears[n]
    /\ Routes \subseteq [Nodes -> [Nodes -> Hop]] /\ Routes # {}
    /\ Requests \subseteq [from : Nodes, to : Nodes \cup {Broadcast},
                           want_ack : BOOLEAN, want_response : BOOLEAN]
    /\ \A r \in Requests : r.to # r.from
    /\ HopLimit \in 1..7 /\ MaxRx \in Nat \ {0} /\ MaxRequests \in Nat

VARIABLES
    node,           \* the state of each node, see TypeOK
    requested,      \* [Requests made so far -> the id of the packet]
    silent,         \* nodes beyond their duty cycle
    rebooted
vars == << node, requested, silent, rebooted >>

\* id 0 in request_id says that a packet answers nothing, "data" in error_reason
\* that it is no routing packet.
Key(p) == << p.from, p.id >>
Reasons == {"data", "NONE", "MAX_RETRANSMIT", "NO_CHANNEL", "DUTY_CYCLE_LIMIT"}
Packets ==
    [from : Nodes, to : Nodes \cup {Broadcast}, id : Nat \ {0}, want_ack : BOOLEAN,
     want_response : BOOLEAN, request_id : Nat,
     error_reason : Reasons,
     hop_limit : 0..7, hop_start : 0..7, next_hop : Hop, relay_node : Hop]
Keys == Nodes \X (Nat \ {0})
Put(f, k, v) == [x \in DOMAIN f \cup {k} |-> IF x = k THEN v ELSE f[x]]

TypeOK ==
    \A n \in Nodes : LET s == node[n] IN
        /\ DOMAIN s.recentPackets \subseteq Keys
        /\ \A k \in DOMAIN s.recentPackets :
               /\ s.recentPackets[k].next_hop \in Hop
               /\ Len(s.recentPackets[k].relayed_by) <= NumRelayers
        /\ \A k \in DOMAIN s.pending :
               /\ s.pending[k].packet \in Packets /\ Key(s.pending[k].packet) = k
               /\ s.pending[k].numRetransmissions < NumReliableRetx
        /\ \A i \in DOMAIN s.txQueue : s.txQueue[i] \in Packets /\ s.txQueue[i].relay_node = n
        /\ \A i \in DOMAIN s.fromRadioQueue : s.fromRadioQueue[i] \in Packets
        /\ Len(s.fromRadioQueue) <= MaxRx
        /\ s.next_hop \in [Nodes -> Hop]
-------------------------------------------------------------------------------
(* The packet history, as far as the routers see it (PacketHistory.tla).   *)
Known(s, p) == Key(p) \in DOMAIN s.recentPackets
WasRelayer(s, hop, k) ==
    /\ hop # None /\ k \in DOMAIN s.recentPackets
    /\ \E i \in DOMAIN s.recentPackets[k].relayed_by : s.recentPackets[k].relayed_by[i] = hop
WasFallback(n, s, p) ==
    LET first == s.recentPackets[Key(p)].next_hop
    IN  /\ p.from # n /\ first \notin {None, n} /\ p.next_hop = None
        /\ WasRelayer(s, p.relay_node, Key(p))
        /\ ~WasRelayer(s, n, Key(p)) /\ ~WasRelayer(s, first, Key(p))
\* Asked without withUpdate: nothing is recorded.
MutantWasSeenRecently(s, p) == s
WasSeenRecently(s, p) ==
    LET old == IF Known(s, p) THEN s.recentPackets[Key(p)]
               ELSE [next_hop |-> p.next_hop, relayed_by |-> << >>]
        by == (IF p.relay_node = None THEN << >> ELSE << p.relay_node >>) \o old.relayed_by
    IN  [s EXCEPT !.recentPackets = Put(@, Key(p),
            [next_hop |-> old.next_hop,
             relayed_by |-> SubSeq(by, 1, IF Len(by) < NumRelayers THEN Len(by) ELSE NumRelayers)])]
\* The relayers without this one, of NumRelayers at most.
Without(n, by) ==
    LET kept(i) == IF i \in DOMAIN by /\ by[i] # n THEN << by[i] >> ELSE << >>
    IN  kept(1) \o kept(2) \o kept(3)
RemoveRelayer(n, s, k) ==
    IF k \notin DOMAIN s.recentPackets THEN s
    ELSE [s EXCEPT !.recentPackets[k].relayed_by = Without(n, @)]
-------------------------------------------------------------------------------
(* Router: its two queues.                                                 *)
MutantEnqueueReceivedMessage(s, p) ==
    IF Len(s.fromRadioQueue) < MaxRx THEN [s EXCEPT !.fromRadioQueue = Append(@, p)] ELSE s
EnqueueReceivedMessage(s, p) ==
    IF Len(s.fromRadioQueue) < MaxRx
    THEN [s EXCEPT !.fromRadioQueue = Append(@, p)]
    ELSE [s EXCEPT !.fromRadioQueue = Append(Tail(@), p),
                   \* history: the answers among the packets thrown out
                   !.dropped = @ \cup {q \in {Head(s.fromRadioQueue)} : q.request_id # 0}]

FindInTxQueue(s, k) == \E i \in DOMAIN s.txQueue : Key(s.txQueue[i]) = k
CancelSending(n, s, k) ==
    IF FindInTxQueue(s, k)
    THEN LET i == CHOOSE i \in DOMAIN s.txQueue : /\ Key(s.txQueue[i]) = k
                                                  /\ \A j \in 1..(i - 1) : Key(s.txQueue[j]) # k
         IN  RemoveRelayer(n, [s EXCEPT !.txQueue = RemoveAt(@, i)], k)
    ELSE s

\* allocForSending(), a new id with every packet.
NewPacket(n, s, to, request, error, hops) ==
    [from |-> n, to |-> to, id |-> s.ids + 1, want_ack |-> FALSE, want_response |-> FALSE,
     request_id |-> request, error_reason |-> error, hop_limit |-> hops, hop_start |-> 0,
     next_hop |-> None, relay_node |-> None]
\* sendAckNak() to ourselves: the answer our own phone is waiting for.
AnswerLocally(n, s, error, id) ==
    EnqueueReceivedMessage([s EXCEPT !.ids = @ + 1], NewPacket(n, s, n, id, error, 0))

RouterSend(n, s, p) ==
    IF n \in silent
    THEN IF p.from = n THEN AnswerLocally(n, s, "DUTY_CYCLE_LIMIT", p.id) ELSE s
    ELSE [s EXCEPT !.txQueue = Append(@,
            [p EXCEPT !.relay_node = n, !.want_ack = @ /\ p.to # Broadcast,
                      !.hop_start = IF p.from = n THEN p.hop_limit ELSE @])]
-------------------------------------------------------------------------------
(* NextHopRouter: the packets to send again.  stopRetransmission() drops   *)
(* the record on every path (its copy it only releases where it cancels).  *)
StopRetransmission(n, s, k) ==
    IF k \notin DOMAIN s.pending THEN s
    ELSE LET rec == s.pending[k]
             cancels == /\ rec.numRetransmissions < NumReliableRetx - 1
                        /\ rec.packet.from = n \/ n \notin Routers
             t == IF cancels THEN CancelSending(n, s, k) ELSE s
         IN  [t EXCEPT !.pending = Restrict(@, DOMAIN @ \ {k})]
MutantStartRetransmission(n, s, p, tries) ==
    [StopRetransmission(n, s, Key(p)) EXCEPT
        !.pending = Put(@, Key(p), [packet |-> p, numRetransmissions |-> tries])]
StartRetransmission(n, s, p, tries) ==
    [StopRetransmission(n, s, Key(p)) EXCEPT
        !.pending = Put(@, Key(p), [packet |-> p, numRetransmissions |-> tries - 1])]

\* Never the relayer itself, which is this node.
GetNextHop(n, s, to) ==
    IF to = Broadcast \/ s.next_hop[to] = n THEN None ELSE s.next_hop[to]

FloodingSend(n, s, p) ==
    LET q == [p EXCEPT !.relay_node = n] IN RouterSend(n, WasSeenRecently(s, q), q)
NextHopSend(n, s, p) ==
    LET q == [p EXCEPT !.relay_node = n, !.next_hop = GetNextHop(n, s, p.to)]
        seen == WasSeenRecently(s, [p EXCEPT !.relay_node = n])
        retries == /\ p.from # n \/ ~p.want_ack
                   /\ q.next_hop # None
                   /\ p.hop_limit > 0 \/ p.want_ack
    IN  RouterSend(n, IF retries THEN StartRetransmission(n, seen, q, NumIntermediateRetx) ELSE seen, q)
ReliableSend(n, s, p) ==
    LET q == [p EXCEPT !.hop_limit = IF p.want_ack /\ @ = 0 THEN HopLimit ELSE @]
        t == IF p.want_ack THEN StartRetransmission(n, s, q, NumReliableRetx) ELSE s
    IN  IF p.to = Broadcast THEN FloodingSend(n, t, q) ELSE NextHopSend(n, t, q)
SendLocal(n, s, p) == IF p.to = n THEN EnqueueReceivedMessage(s, p) ELSE ReliableSend(n, s, p)
SendAckNak(n, s, error, p, hops) ==
    SendLocal(n, [s EXCEPT !.ids = @ + 1], NewPacket(n, s, p.from, p.id, error, hops))

\* getHopLimitForResponse()
HopLimitForResponse(p) ==
    LET used == IF p.hop_start < p.hop_limit THEN HopLimit ELSE p.hop_start - p.hop_limit
    IN  IF p.hop_start = 0 THEN HopLimit
        ELSE IF used > HopLimit THEN used
        ELSE IF used + 2 < HopLimit THEN used + 2 ELSE HopLimit

Direct(p) == p.hop_start > 0 /\ p.hop_start = p.hop_limit
PerhapsRebroadcast(n, s, p) ==
    IF p.to # n /\ p.from # n /\ p.hop_limit > 0 /\ n \notin Mutes
    THEN RouterSend(n, s, [p EXCEPT !.hop_limit = @ - 1, !.next_hop = None])
    ELSE s
Relays(n, p) ==
    p.to # n /\ p.from # n /\ p.hop_limit > 0 /\ p.next_hop \in {None, n} /\ n \notin Mutes
PerhapsRelay(n, s, p) ==
    IF Relays(n, p) THEN NextHopSend(n, s, [p EXCEPT !.hop_limit = @ - 1]) ELSE s
PerhapsCancelDupe(n, s, p) == IF n \in Routers THEN s ELSE CancelSending(n, s, Key(p))
-------------------------------------------------------------------------------
(* A packet that was seen before.                                          *)
MutantFloodingDupe(n, s, p) ==
    IF FindInTxQueue(s, Key(p)) THEN s ELSE PerhapsRebroadcast(n, s, p)
FloodingDupe(n, s, p) ==
    IF ~Direct(p) THEN PerhapsCancelDupe(n, s, p)
    ELSE IF FindInTxQueue(s, Key(p)) THEN s ELSE PerhapsRebroadcast(n, s, p)
NextHopDupe(n, s, p, fallback, weWereNextHop) ==
    LET t == StopRetransmission(n, s, Key(p))
    IN  IF fallback \/ Direct(p)
        THEN IF FindInTxQueue(t, Key(p)) THEN t
             ELSE IF Relays(n, p) \/ fallback THEN PerhapsRelay(n, t, p)
             ELSE IF p.to = n /\ p.want_ack THEN SendAckNak(n, t, "NONE", p, 0) ELSE t
        ELSE IF weWereNextHop THEN t ELSE PerhapsCancelDupe(n, t, p)

(* A packet that is new: what the routers do with it.  Only a node with    *)
(* the key can tell what a packet answers.                                 *)
Decodes(n, p) == n \notin Keyless \/ p.from = n
\* A module of the destination answers a request; acknowledging is its reply's task.
Replies(n, p) == Decodes(n, p) /\ p.to = n /\ p.want_response
Acknowledge(n, s, p) ==
    IF ~(p.to = n /\ p.want_ack) \/ Replies(n, p) THEN s
    ELSE IF ~Decodes(n, p) THEN SendAckNak(n, s, "NO_CHANNEL", p, HopLimitForResponse(p))
    ELSE IF p.request_id = 0 THEN SendAckNak(n, s, "NONE", p, HopLimitForResponse(p))
    ELSE IF Direct(p) THEN SendAckNak(n, s, "NONE", p, 0) ELSE s
\* The relayer of an answer becomes the next hop to its sender if the request
\* went the same way, or if we relayed that and the answer came directly.
LearnNextHop(n, s, p) ==
    LET request == << p.to, p.request_id >>
    IN  IF \/ WasRelayer(s, p.relay_node, request)
           \/ WasRelayer(s, n, request) /\ Direct(p)
        THEN [s EXCEPT !.next_hop[p.from] = p.relay_node] ELSE s
NextHopSniff(n, s, p) ==
    IF ~Decodes(n, p) \/ p.request_id = 0 THEN PerhapsRelay(n, s, p)
    ELSE LET request == << p.to, p.request_id >>
             t == LearnNextHop(n, s, p)
         IN  PerhapsRelay(n, IF p.to = n THEN t
                             ELSE StopRetransmission(n, CancelSending(n, t, request), request), p)
SniffReceived(n, s, p) ==
    LET t == Acknowledge(n, s, p)
        u == IF p.to = n /\ Decodes(n, p) /\ p.request_id # 0
             THEN StopRetransmission(n, t, << n, p.request_id >>) ELSE t
    IN  IF p.to = Broadcast THEN PerhapsRebroadcast(n, u, p) ELSE NextHopSniff(n, u, p)
HandToPhone(n, s, p) ==
    IF p.to \notin {n, Broadcast} THEN s
    ELSE [s EXCEPT !.phone = @ \cup {p}, !.twice = @ \/ \E q \in s.phone : Key(q) = Key(p)]
Reply(n, s, p) ==
    IF ~Replies(n, p) THEN s
    ELSE SendLocal(n, [s EXCEPT !.ids = @ + 1],
            [NewPacket(n, s, p.from, p.id, "data", HopLimitForResponse(p)) EXCEPT !.want_ack = p.want_ack])
HandleReceived(n, s, p) == Reply(n, HandToPhone(n, SniffReceived(n, s, p), p), p)
-------------------------------------------------------------------------------
Init ==
    /\ \E routes \in Routes :
           node = [n \in Nodes |-> [recentPackets |-> << >>, pending |-> << >>, txQueue |-> << >>,
                      fromRadioQueue |-> << >>, next_hop |-> routes[n], ids |-> 0,
                      phone |-> {}, twice |-> FALSE, dropped |-> {}, sent |-> << >>]]
    /\ requested = << >> /\ silent = {} /\ rebooted = {}

\* handleToRadio() and sendLocal(): the phone's packets have the default hop limit.
PhoneSends(r) ==
    /\ r \notin DOMAIN requested /\ Cardinality(DOMAIN requested) < MaxRequests
    /\ requested' = Put(requested, r, node[r.from].ids + 1)
    /\ LET s == node[r.from]
           p == [NewPacket(r.from, s, r.to, 0, "data", HopLimit) EXCEPT
                    !.want_ack = r.want_ack, !.want_response = r.want_response]
       IN  node' = [node EXCEPT ![r.from] = SendLocal(r.from, [s EXCEPT !.ids = @ + 1], p)]
    /\ UNCHANGED << silent, rebooted >>

\* The radio sends a packet of the transmit queue; some of those in range hear it.
Transmit(n) ==
    /\ \E i \in DOMAIN node[n].txQueue, heard \in SUBSET Hears[n] :
           LET p == node[n].txQueue[i]
           IN  node' = [m \in Nodes |->
                   IF m = n THEN [node[n] EXCEPT !.txQueue = RemoveAt(@, i),
                           !.sent = Put(@, Key(p), IF Key(p) \in DOMAIN @ THEN @[Key(p)] + 1 ELSE 1)]
                   ELSE IF m \in heard THEN EnqueueReceivedMessage(node[m], p) ELSE node[m]]
    /\ UNCHANGED << requested, silent, rebooted >>

\* perhapsHandleReceived() for the oldest packet that was received.
Receive(n) ==
    /\ node[n].fromRadioQueue # << >>
    /\ LET p == Head(node[n].fromRadioQueue)
           s == [node[n] EXCEPT !.fromRadioQueue = Tail(@)]
           t == IF p.from = n /\ Key(p) \in DOMAIN s.pending
                THEN StopRetransmission(n, AnswerLocally(n, s, "NONE", p.id), Key(p)) ELSE s
           u == WasSeenRecently(t, p)
       IN  node' = [node EXCEPT ![n] =
               IF ~Known(t, p) THEN HandleReceived(n, u, p)
               ELSE IF p.to = Broadcast THEN FloodingDupe(n, u, p)
               ELSE NextHopDupe(n, u, p, WasFallback(n, t, p), t.recentPackets[Key(p)].next_hop = n)]
    /\ UNCHANGED << requested, silent, rebooted >>

\* doRetransmissions() for a packet whose time has come, which may be any time.
Retransmit(n, k) ==
    /\ k \in DOMAIN node[n].pending
    /\ LET s == node[n]
           rec == s.pending[k]
           p == rec.packet
           again == [s EXCEPT !.pending[k].numRetransmissions = @ - 1]
           reset == [again EXCEPT !.pending[k].packet.next_hop = None, !.next_hop[p.to] = None]
       IN  node' = [node EXCEPT ![n] =
               IF rec.numRetransmissions = 0
               THEN StopRetransmission(n, IF p.from = n THEN AnswerLocally(n, s, "MAX_RETRANSMIT", p.id)
                                          ELSE s, k)
               ELSE IF p.to = Broadcast THEN FloodingSend(n, again, p)
               ELSE IF rec.numRetransmissions = 1
               THEN FloodingSend(n, reset, [p EXCEPT !.next_hop = None])
               ELSE NextHopSend(n, again, p)]
    /\ UNCHANGED << requested, silent, rebooted >>

\* Bound: a node beyond its duty cycle stays so, its limit being hourly.
DutyCycle(n) ==
    /\ n \in MayBeSilent \ silent
    /\ silent' = silent \cup {n}
    /\ UNCHANGED << node, requested, rebooted >>

\* Bound: once for each node in MayReboot.  Only the node database survives.
Reboot(n) ==
    /\ n \in MayReboot \ rebooted
    /\ rebooted' = rebooted \cup {n}
    /\ node' = [node EXCEPT ![n] = [@ EXCEPT !.recentPackets = << >>, !.pending = << >>,
                    !.txQueue = << >>, !.fromRadioQueue = << >>]]
    /\ UNCHANGED << requested, silent >>

MutantWork(n) ==
    \/ Transmit(n) \/ Receive(n)
    \/ \E k \in DOMAIN node[n].pending :
           node[n].pending[k].numRetransmissions > 0 /\ Retransmit(n, k)
Work(n) == Transmit(n) \/ Receive(n) \/ \E k \in DOMAIN node[n].pending : Retransmit(n, k)
Next ==
    \/ \E r \in Requests : PhoneSends(r)
    \/ \E n \in Nodes : Work(n) \/ DutyCycle(n) \/ Reboot(n)
Spec == Init /\ [][Next]_vars
FairSpec == Spec /\ \A n \in Nodes : WF_vars(Work(n))
-------------------------------------------------------------------------------
Made(r) == r \in DOMAIN requested
KeyOf(r) == << r.from, requested[r] >>
Answering(r, packets) == {p \in packets : p.to = r.from /\ p.request_id = requested[r]}
Arrived(r) == Made(r) /\ \E p \in node[r.to].phone : Key(p) = KeyOf(r)

\* A reliable packet is never forgotten: until the phone that sent it has an
\* acknowledgement or a refusal, the router still retries, or an answer waits
\* in fromRadioQueue, unless that queue overflowed and threw the answer away.
Accounted ==
    \A r \in DOMAIN requested : r.want_ack /\ r.from \notin rebooted =>
        LET s == node[r.from]
        IN  \/ KeyOf(r) \in DOMAIN s.pending
            \/ Answering(r, s.phone \cup s.dropped \cup ToSet(s.fromRadioQueue)) # {}

\* A node sends a packet of its own as often as a reliable packet is tried, at
\* most, whatever is lost, overheard or cancelled, whichever next hops were
\* learned and whenever the node restarts.
OwnSendsBounded ==
    \A n \in Nodes : \A k \in DOMAIN node[n].sent :
        k[1] = n => node[n].sent[k] <= NumReliableRetx

\* Where no next hop was learned before, a relayer sends a packet of another
\* node's a bounded number of times.  (A stale next hop makes a relayer retry
\* each time it relays.)
RelaysBounded ==
    \A n \in Nodes \ rebooted : \A k \in DOMAIN node[n].sent :
        k[1] # n => node[n].sent[k] <= NumReliableRetx + 1

\* What the routers promise the phones, MeshDelivery.tla.
Messages == {r \in Requests : r.to # Broadcast}
Confirmed(r) == Made(r) /\ \E p \in Answering(r, node[r.from].phone) : p.from = r.to
Refused(r) ==
    Made(r) /\ \E p \in Answering(r, node[r.from].phone) :
                   p.from = r.from /\ p.error_reason # "NONE"
Promise == INSTANCE MeshDelivery WITH
    sent <- DOMAIN requested \cap Messages,
    delivered <- [r \in Messages |->
                    IF ~Arrived(r) THEN 0 ELSE IF node[r.to].twice THEN 2 ELSE 1],
    confirmed <- {r \in Messages : Confirmed(r)},
    refused <- {r \in Messages : Refused(r)}
DeliveryKept == Promise!Spec

\* Once the phones are silent the mesh becomes silent: every queue empties
\* and no retransmission is left.
BecomesQuiet ==
    <>[](\A n \in Nodes : /\ node[n].fromRadioQueue = << >> /\ node[n].txQueue = << >>
                          /\ node[n].pending = << >>)
===============================================================================

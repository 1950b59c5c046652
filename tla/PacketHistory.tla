----------------------------- MODULE PacketHistory -----------------------------
(***************************************************************************)
(* The memory of packets a router has seen (mesh/PacketHistory.cpp): the   *)
(* duplicate test every packet passes, with the last relayers of each      *)
(* packet and the next hop it was first sent to.  Time is millis(), which  *)
(* wraps; records that expire are only dropped when they are met again or  *)
(* when the table is nearly full.                                          *)
(***************************************************************************)
EXTENDS Integers, Sequences, FiniteSets, SequencesExt

CONSTANTS
    Keys,           \* (sender, id) pairs; a packet with id 0 is never recorded
    OwnKeys,        \* those this node is the sender of
    Bytes,          \* last bytes of node numbers, 0 (none) not among them
    Us,             \* ourRelayID
    NumRelayers,    \* NUM_RELAYERS, 3
    Expire,         \* FLOOD_EXPIRE_TIME
    Wrap,           \* millis() counts modulo Wrap
    PurgeAbove,     \* MAX_NUM_NODES * 0.9
    StackBytes      \* what the slots of relayed_by that wasSeenRecently() never
                    \* writes may hold

Byte == Bytes \cup {0}
Slots == 0..(NumRelayers - 1)

ASSUME HistoryAssumption ==
    /\ OwnKeys \subseteq Keys /\ IsFiniteSet(Keys)
    /\ Us \in Bytes /\ 0 \notin Bytes /\ StackBytes \subseteq Byte /\ StackBytes # {}
    /\ NumRelayers \in Nat \ {0}
    /\ Expire \in Nat \ {0} /\ Wrap \in Nat /\ Expire < Wrap
    /\ PurgeAbove \in Nat

VARIABLES
    now,            \* millis()
    recentPackets,  \* [key -> record] of the keys in the table
    inHand,         \* the packet that has just come in and is ours to relay
    age,            \* history: true time since each key was last recorded
    last            \* history: the last NumRelayers relayers of each packet
                    \* that were not removed since, the latest first
vars == << now, recentPackets, inHand, age, last >>

Record == [rxTimeMsec : 0..(Wrap - 1), next_hop : Byte, relayed_by : [Slots -> Byte]]
MaxAge == Wrap - 1      \* bound: no record is left alone for a whole wrap

TypeOK ==
    /\ now \in 0..(Wrap - 1)
    /\ DOMAIN recentPackets \subseteq Keys
    /\ \A k \in DOMAIN recentPackets : recentPackets[k] \in Record
    /\ inHand \in SUBSET Keys
    /\ age \in [Keys -> 0..Wrap]
    /\ last \in [Keys -> Seq(Byte)]

\* Throttle::isWithinTimespanMs(rxTimeMsec, FLOOD_EXPIRE_TIME)
MutantRecent(r) == r.rxTimeMsec <= now /\ now - r.rxTimeMsec < Expire
Recent(r) == (now - r.rxTimeMsec) % Wrap < Expire
Seen(k) == k \in DOMAIN recentPackets /\ Recent(recentPackets[k])
WasRelayer(byte, r) == \E i \in Slots : r.relayed_by[i] = byte

\* A known packet comes back without a next hop from a relayer that had sent it
\* to another node before, and neither that node nor we have relayed it.
MutantWasFallback(k, relay, hop) ==
    /\ k \notin OwnKeys
    /\ LET found == recentPackets[k]
       IN  /\ found.next_hop \notin {0, Us} /\ hop = 0
           /\ WasRelayer(relay, found)
           /\ ~WasRelayer(Us, found)
WasFallback(k, relay, hop) ==
    /\ k \notin OwnKeys
    /\ LET found == recentPackets[k]
       IN  /\ found.next_hop \notin {0, Us} /\ hop = 0
           /\ WasRelayer(relay, found)
           /\ ~WasRelayer(Us, found) /\ ~WasRelayer(found.next_hop, found)

\* The record for a packet: the relayers move one slot on, the slots that are
\* not written keep what was on the stack, the first next hop stays.
MutantRelayersOverrun(k, relay, stack) ==
    [i \in 0..NumRelayers |->
        IF i = 0 THEN relay
        ELSE IF Seen(k) /\ recentPackets[k].relayed_by[i - 1] # 0
        THEN recentPackets[k].relayed_by[i - 1]
        ELSE IF i = NumRelayers THEN 0 ELSE stack[i]]
MutantRelayers(k, relay, stack) ==
    [i \in Slots |-> IF i = 0 THEN relay ELSE stack[i]]
Relayers(k, relay, stack) ==
    [i \in Slots |->
        IF i = 0 THEN relay
        ELSE IF Seen(k) /\ recentPackets[k].relayed_by[i - 1] # 0
        THEN recentPackets[k].relayed_by[i - 1]
        ELSE stack[i]]

\* A sequence of relayers without this one, the others in their order: the j-th
\* of it is the one that is the j-th of those that stay.
Without(s, byte) ==
    LET kept == {i \in DOMAIN s : s[i] # byte}
    IN  [j \in 1..Cardinality(kept) |->
            s[CHOOSE i \in kept : Cardinality(kept \cap 1..i) = j]]

\* Past PurgeAbove records, all that have expired go.
Purged(table) ==
    IF Cardinality(DOMAIN table) > PurgeAbove
    THEN [k \in {k \in DOMAIN table : Recent(table[k])} |-> table[k]]
    ELSE table
-------------------------------------------------------------------------------
Init ==
    /\ now \in 0..(Wrap - 1)
    /\ recentPackets = [k \in {} |-> 0]
    /\ inHand = {}
    /\ age = [k \in Keys |-> Wrap]
    /\ last = [k \in Keys |-> << >>]

\* wasSeenRecently() for a packet with this relay_node and next_hop; it answers
\* Seen(k), and a fallback if also WasFallback(k, relay, hop).
WasSeenRecently(k, relay, hop) ==
    /\ \E stack \in [Slots \ {0} -> StackBytes] :
           LET r == [rxTimeMsec |-> now, relayed_by |-> Relayers(k, relay, stack),
                     next_hop |-> IF Seen(k) THEN recentPackets[k].next_hop ELSE hop]
           IN  recentPackets' = Purged([j \in DOMAIN recentPackets \cup {k} |->
                                            IF j = k THEN r ELSE recentPackets[j]])
    /\ age' = [age EXCEPT ![k] = 0]
    /\ LET h == << relay >> \o (IF Seen(k) THEN last[k] ELSE << >>)
       IN  last' = [last EXCEPT ![k] = IF Len(h) > NumRelayers THEN Front(h) ELSE h]
    /\ UNCHANGED now

\* shouldFilterReceived(): a packet comes in.  One from an old sender names
\* neither its relayer nor a next hop.
Received(k, relay, hop) ==
    /\ relay # Us /\ (relay = 0 => hop = 0)
    /\ inHand' = IF hop \in {0, Us} THEN {k} ELSE {}
    /\ WasSeenRecently(k, relay, hop)

\* send(): our own packet, one that has just come in and is ours to relay, or a
\* retransmission of one we relayed.
Sent(k, hop) ==
    /\ \/ k \in OwnKeys \cup inHand
       \/ k \in DOMAIN recentPackets /\ WasRelayer(Us, recentPackets[k])
    /\ inHand' = {}
    /\ WasSeenRecently(k, Us, hop)

\* removeRelayer(), called with our own byte when a relay is cancelled in the
\* transmit queue: the other relayers move up, the slots behind them are zero.
MutantRemoveRelayer(byte, k) ==
    /\ k \in DOMAIN recentPackets
    /\ recentPackets' = [recentPackets EXCEPT ![k].relayed_by =
          LET others == Without([i \in 1..NumRelayers |-> @[i - 1]], byte)
          IN  [j \in Slots |-> IF j < Len(others) THEN others[j + 1] ELSE @[j]]]
    /\ last' = [last EXCEPT ![k] = Without(@, byte)]
    /\ inHand' = {}
    /\ UNCHANGED << now, age >>
RemoveRelayer(byte, k) ==
    /\ k \in DOMAIN recentPackets
    /\ recentPackets' = [recentPackets EXCEPT ![k].relayed_by =
          LET others == Without([i \in 1..NumRelayers |-> @[i - 1]], byte)
          IN  [j \in Slots |-> IF j < Len(others) THEN others[j + 1] ELSE 0]]
    /\ last' = [last EXCEPT ![k] = Without(@, byte)]
    /\ inHand' = {}
    /\ UNCHANGED << now, age >>

Tick ==
    /\ \A k \in DOMAIN recentPackets : age[k] < MaxAge
    /\ now' = (now + 1) % Wrap
    /\ age' = [k \in Keys |-> IF age[k] < Wrap THEN age[k] + 1 ELSE Wrap]
    /\ inHand' = {}
    /\ UNCHANGED << recentPackets, last >>

Next ==
    \/ \E k \in Keys, relay, hop \in Byte : Received(k, relay, hop)
    \/ \E k \in Keys, hop \in Byte : Sent(k, hop)
    \/ \E k \in Keys : RemoveRelayer(Us, k)
    \/ Tick
Spec == Init /\ [][Next]_vars
-------------------------------------------------------------------------------
\* A packet is called a duplicate exactly when it was recorded less than Expire
\* ago: a wrap of millis(), the purge of a full table and the removal of a
\* relayer neither lose a record nor keep it alive (wasSeenRecently).
SeenIffRecent == \A k \in Keys : Seen(k) <=> age[k] < Expire

\* The last NumRelayers relayers of a packet are found, whatever the unwritten
\* slots hold and whichever relays were cancelled in between (wasRelayer).
Relayed(k) == Range(last[k]) \ {0}
RelayersKept ==
    \A k \in Keys : Seen(k) =>
        \A byte \in Relayed(k) : WasRelayer(byte, recentPackets[k])

\* A fallback to flooding is never reported for a packet that this node, or the
\* next hop it was sent to, is among the last relayers of (lines 47-56).
FallbackJust ==
    \A k \in Keys, relay, hop \in Byte :
        Seen(k) /\ WasFallback(k, relay, hop)
            => {Us, recentPackets[k].next_hop} \cap Relayed(k) = {}

\* PacketHistory.h:59 says of wasRelayer() "@return true if node was indeed a
\* relayer". That is so but for the slots wasSeenRecently() never writes (line 26):
\* a node that is found has relayed the packet, and its relay was not cancelled
\* since, unless its byte is one that such a slot happens to hold.
RelayersTrue ==
    \A k \in Keys, byte \in Bytes \ StackBytes :
        Seen(k) /\ WasRelayer(byte, recentPackets[k]) => byte \in Relayed(k)
===============================================================================

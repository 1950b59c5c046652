------------------------------ MODULE BalticMesh ------------------------------
(***************************************************************************)
(* Several Baltic Shoreline nodes on one LoRa channel                      *)
(* (src/meshtastic_baltic.cpp): boot, the one announcement of setup(), the *)
(* periodic telemetry, the polled receiver and the node database.  A node  *)
(* is a single thread: while radio.transmit() blocks it hears nothing.     *)
(* The radio itself is external (RadioLib): it locks on one transmission   *)
(* from its start and keeps one received packet until it is read.          *)
(***************************************************************************)
EXTENDS Naturals, Sequences

CONSTANTS
    Nodes,          \* the devices
    None,           \* no transmission, no packet
    Mac,            \* [Nodes -> Nat]: the factory MAC addresses
    IdSpace,        \* node ids are MACs modulo IdSpace (0xFFFFFF + 1)
    Capacity,       \* 20: the size limit of nodeDatabase
    MaxBoots,       \* bound: power cycles of all devices
    Lossy           \* TRUE: radios fail to start, packets get lost or read twice

ASSUME NoneAssumption == None \notin Nodes
ASSUME MacAssumption ==
    /\ IdSpace \in Nat \ {0}
    /\ Mac \in [Nodes -> Nat]
    /\ \A m, n \in Nodes : Mac[m] = Mac[n] => m = n
ASSUME BoundsAssumption == Capacity \in Nat /\ MaxBoots \in Nat /\ Lossy \in BOOLEAN

\* myNode.nodeId = ESP.getEfuseMac() & 0xFFFFFF
MutantNodeIdUnmasked(n) == Mac[n]
NodeId(n) == Mac[n] % IdSpace
Ids == 0..(IdSpace - 1)

\* What a packet carries: its payload type and the sender's id; dev stands for
\* the rest of the record (name, position, and rssi and snr of the reception).
NodeInfo(n)  == [type |-> "nodeinfo",  id |-> NodeId(n), dev |-> n]
Telemetry(n) == [type |-> "telemetry", id |-> NodeId(n), dev |-> n]
Packets == [type : {"nodeinfo", "telemetry"}, id : Ids, dev : Nodes]
Entries == [id : Ids, dev : Nodes]

VARIABLES
    state,          \* "off", "setup", "running" (in loop()) or "halted"
    tx,             \* the packet radio.transmit() is sending, or None
    rxLock,         \* the sender a receiver is locked on, or None
    rxBuf,          \* the packet waiting in the radio for readData(), or None
    nodeDatabase,   \* sequence of entries
    boots           \* power cycles so far
MeshVars == << state, tx, rxLock, rxBuf, nodeDatabase, boots >>

MeshTypeOK ==
    /\ state \in [Nodes -> {"off", "setup", "running", "halted"}]
    /\ tx \in [Nodes -> Packets \cup {None}]
    /\ rxLock \in [Nodes -> Nodes \cup {None}]
    /\ rxBuf \in [Nodes -> Packets \cup {None}]
    /\ nodeDatabase \in [Nodes -> Seq(Entries)]
    /\ boots \in 0..MaxBoots

Up(n) == state[n] \in {"setup", "running"}
Listening(n) == Up(n) /\ tx[n] = None
-------------------------------------------------------------------------------
MeshInit ==
    /\ state = [n \in Nodes |-> "off"]
    /\ tx = [n \in Nodes |-> None]
    /\ rxLock = [n \in Nodes |-> None]
    /\ rxBuf = [n \in Nodes |-> None]
    /\ nodeDatabase = [n \in Nodes |-> << >>]
    /\ boots = 0

\* setup() up to initializeLoRa(): the radio listens, or radio.begin() fails
\* and the node blinks its LED for ever.
Boot(n) ==
    /\ state[n] = "off" /\ boots < MaxBoots
    /\ boots' = boots + 1
    /\ \E s \in {"setup"} \cup (IF Lossy THEN {"halted"} ELSE {}) :
           state' = [state EXCEPT ![n] = s]
    /\ UNCHANGED << tx, rxLock, rxBuf, nodeDatabase >>

\* The supply fails: everything is in RAM; a packet on the air is cut off.
PowerLoss(n) ==
    /\ state[n] # "off"
    /\ state' = [state EXCEPT ![n] = "off"]
    /\ tx' = [tx EXCEPT ![n] = None]
    /\ rxBuf' = [rxBuf EXCEPT ![n] = None]
    /\ rxLock' = [m \in Nodes |-> IF m = n \/ rxLock[m] = n THEN None
                                  ELSE rxLock[m]]
    /\ nodeDatabase' = [nodeDatabase EXCEPT ![n] = << >>]
    /\ UNCHANGED boots

\* sendMeshPacket() until radio.transmit() has put p on the air.  Receivers that
\* are not busy lock on it; one that is busy goes on with the earlier packet or
\* loses both.  The radio's one buffer is shared: an unread packet may be lost.
SendMeshPacket(n, p) ==
    /\ tx' = [tx EXCEPT ![n] = p]
    /\ \E lost \in SUBSET {m \in Nodes : Listening(m) /\ (Lossy \/ rxLock[m] # None)} :
           rxLock' = [m \in Nodes |->
                         IF m = n \/ m \in lost THEN None
                         ELSE IF Listening(m) /\ rxLock[m] = None THEN n
                         ELSE rxLock[m]]
    /\ \E b \in {None, rxBuf[n]} : rxBuf' = [rxBuf EXCEPT ![n] = b]
    /\ UNCHANGED << state, nodeDatabase, boots >>

\* The only call of broadcastNodeInfo(): the end of setup().
BroadcastNodeInfo(n) ==
    /\ state[n] = "setup" /\ tx[n] = None
    /\ SendMeshPacket(n, NodeInfo(n))

BroadcastTelemetry(n) ==
    /\ state[n] = "running" /\ tx[n] = None
    /\ SendMeshPacket(n, Telemetry(n))

\* radio.transmit() returns (an error is logged and forgotten) and
\* radio.startReceive() makes the node listen again; the receivers locked on
\* the packet have it.  Without losses a pass through loop() is shorter than a
\* packet, so the packet before has been read.
TransmitDone(n) ==
    /\ tx[n] # None
    /\ Lossy \/ \A m \in Nodes : rxLock[m] = n => rxBuf[m] = None
    /\ tx' = [tx EXCEPT ![n] = None]
    /\ state' = [state EXCEPT ![n] = "running"]
    /\ rxBuf' = [m \in Nodes |-> IF rxLock[m] = n THEN tx[n] ELSE rxBuf[m]]
    /\ rxLock' = [m \in Nodes |-> IF rxLock[m] = n THEN None ELSE rxLock[m]]
    /\ UNCHANGED << nodeDatabase, boots >>

\* addOrUpdateNode(): update in place, else append while there is room.
Known(db, id) == \E i \in DOMAIN db : db[i].id = id
MutantAlwaysAppend(db, e) ==
    IF Len(db) < Capacity THEN Append(db, e) ELSE db
MutantMoveToEnd(db, e) ==
    IF Known(db, e.id)
    THEN Append(SelectSeq(db, LAMBDA x : x.id # e.id), e)
    ELSE IF Len(db) < Capacity THEN Append(db, e) ELSE db
MutantEvictOldest(db, e) ==
    IF Known(db, e.id)
    THEN [i \in DOMAIN db |-> IF db[i].id = e.id THEN e ELSE db[i]]
    ELSE IF Len(db) < Capacity THEN Append(db, e) ELSE Append(Tail(db), e)
AddOrUpdate(db, e) ==
    IF Known(db, e.id)
    THEN [i \in DOMAIN db |-> IF db[i].id = e.id THEN e ELSE db[i]]
    ELSE IF Len(db) < Capacity THEN Append(db, e) ELSE db

\* receiveMeshPacket(), run on every pass: telemetry is only logged, a node info
\* is stored, and startReceive() ends it whether there was a packet or not.  With
\* losses the radio may hand the same packet out again, and startReceive() may
\* cut off the packet that is coming in.
ReceiveMeshPacket(n) ==
    /\ state[n] = "running" /\ tx[n] = None
    /\ nodeDatabase' =
           IF rxBuf[n] # None /\ rxBuf[n].type = "nodeinfo"
           THEN [nodeDatabase EXCEPT
                    ![n] = AddOrUpdate(@, [id |-> rxBuf[n].id, dev |-> rxBuf[n].dev])]
           ELSE nodeDatabase
    /\ \E b \in {None} \cup (IF Lossy THEN {rxBuf[n]} ELSE {}) :
           rxBuf' = [rxBuf EXCEPT ![n] = b]
    /\ \E l \in {rxLock[n]} \cup (IF Lossy THEN {None} ELSE {}) :
           rxLock' = [rxLock EXCEPT ![n] = l]
    /\ UNCHANGED << state, tx, boots >>

MeshNext ==
    \E n \in Nodes :
        \/ Boot(n) \/ PowerLoss(n)
        \/ BroadcastNodeInfo(n) \/ BroadcastTelemetry(n)
        \/ TransmitDone(n) \/ ReceiveMeshPacket(n)

MeshSpec == MeshInit /\ [][MeshNext]_MeshVars
-------------------------------------------------------------------------------
\* nodeDatabase never holds two entries of one id nor more than Capacity, in any
\* interleaving of restarts, repeated and colliding packets (addOrUpdateNode).
SaneList(db) ==
    /\ Len(db) <= Capacity
    /\ \A i, j \in DOMAIN db : db[i].id = db[j].id => i = j
DatabaseSane == \A n \in Nodes : SaneList(nodeDatabase[n])

\* While a node stays up its list only grows at the end and an id keeps its
\* place, so the three entries drawNodeList() shows are always the same.
Extends(new, old) ==
    \A i \in DOMAIN old : i \in DOMAIN new /\ new[i].id = old[i].id
DatabaseStable ==
    [][\A n \in Nodes : state'[n] # "off" =>
          Extends(nodeDatabase'[n], nodeDatabase[n])]_MeshVars
===============================================================================

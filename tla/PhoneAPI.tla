-------------------------------- MODULE PhoneAPI --------------------------------
(***************************************************************************)
(* Phones that connect to one node: PhoneAPI's hand-over of the            *)
(* configuration, the node list and the file manifest, item by item, while *)
(* the node database changes; MeshService's queue of packets for phones    *)
(* and how it tells those who observe it that there is something to read.  *)
(*                                                                         *)
(* All of it runs on the main thread (serial and network links). A step is *)
(* one message to or from a phone, or one call of another thread.          *)
(***************************************************************************)
EXTENDS Naturals, Sequences, FiniteSets, SequencesExt

CONSTANTS
    Phones,                         \* the PhoneAPI objects
    Leavers,                        \* bound: the phones that may go out of reach
    NoNonce,
    NumChannels, NumConfigs, NumModules,        \* MAX_NUM_CHANNELS, the enums' sizes
    MaxNodes,                       \* MAX_NUM_NODES
    MaxToPhone,                     \* MAX_RX_TOPHONE
    NumFiles,                       \* files in the manifest
    MaxStarts, NumOthers,                       \* bounds
    Asks,               \* bound: by phone, the nonces it asks with
    MaxArrivals         \* bound: packets for phones and changes of the node list

PhoneAssumption ==
    /\ Leavers \subseteq Phones
    /\ {NumChannels, NumConfigs, NumModules, MaxNodes, MaxToPhone} \subseteq Nat \ {0}
    /\ {NumFiles, MaxStarts, MaxArrivals, NumOthers} \subseteq Nat
    \* bound: config_state, a uint8_t, does not wrap
    /\ {NumChannels, NumConfigs, NumModules, NumFiles} \subseteq 0..255
ASSUME PhoneAssumption

\* want_config_id: any number, or one of the two that ask for a part.
Nonces == {"all", "only_config", "only_nodes"}
States == {"NOTHING", "MY_INFO", "UIDATA", "OWN_NODEINFO", "METADATA", "CHANNELS",
           "CONFIG", "MODULECONFIG", "OTHER_NODEINFOS", "FILEMANIFEST", "PACKETS"}

VARIABLES
    api,            \* by phone: state, config_state, nonce, readIndex
    observers,      \* who observes fromNumChanged, in the order of observe()
    changed,        \* oldFromNum differs from fromNum
    queue,          \* how many packets toPhoneQueue holds; which is data
    nodes,          \* the node database: the first numMeshNodes entries, in order
    present,        \* the phones in reach
    told,           \* the phones that read until they get nothing
    got,            \* history: what a phone was sent since its want_config_id, in order:
                    \* the nodes, and the rest
    fresh,          \* history: config_state was 0 when it asked
    stay,           \* history: nodes that were there all the time and never skipped
    starts, arrivals
vars == << api, observers, changed, queue, nodes, present, told, got, fresh, stay,
           starts, arrivals >>

Blank == 0          \* an entry of zeros
Us == 1             \* getNodeNum()
NodeIds == 0 .. NumOthers + 1
Item(kind, n) == << kind, n >>
One(kind, n) == << Item(kind, n) >>
Items == {"my_info", "uidata", "metadata", "channel", "config", "module", "file"}
            \X (0 .. NumChannels + NumConfigs + NumModules + NumFiles)
Nothing == [config |-> << >>, nodes |-> << >>]

IndexInRange(a) ==
    CASE a.state = "CONFIG" -> a.index \in 1..NumConfigs
      [] a.state = "MODULECONFIG" -> a.index \in 1..NumModules
      [] a.state = "FILEMANIFEST" -> a.index <= NumFiles \/ a.nonce = "only_nodes"
      [] a.state = "PACKETS" -> a.index = 0
      [] OTHER -> TRUE

\* Every variable has its type and config_state is an index of what its state reads;
\* in STATE_SEND_FILEMANIFEST a larger one would make filesManifest.at() throw.
TypeOK ==
    /\ \A ph \in Phones :
          /\ api[ph] \in [state : States, index : Nat, nonce : Nonces \cup {NoNonce},
                          read : 0..MaxNodes]
          /\ IndexInRange(api[ph])
    /\ observers \in Seq(Phones)
    /\ ToSet(observers) = {ph \in Phones : api[ph].state # "NOTHING"}
    /\ changed \in BOOLEAN
    /\ queue \in 0..MaxToPhone
    /\ nodes \in Seq(NodeIds) /\ Len(nodes) <= MaxNodes
    /\ present \subseteq Phones /\ told \in [Phones -> BOOLEAN]
    /\ \A ph \in Phones : /\ got[ph] \in [config : Seq(Items), nodes : Seq(NodeIds)]
                           /\ stay[ph] \subseteq NodeIds
    /\ fresh \in [Phones -> BOOLEAN]
    /\ starts \in 0..MaxStarts /\ arrivals \in 0..MaxArrivals

Closed == [state |-> "NOTHING", index |-> 0, nonce |-> NoNonce, read |-> 0]

\* What the constructor finds in the file: cleanupMeshDB() takes out entries without a
\* user, and this node is put at the end when it is missing.
BootLists == {s \in SeqOf(NodeIds \ {Blank}, MaxNodes) : IsInjective(s) /\ Us \in ToSet(s)}

Init ==
    /\ api = [ph \in Phones |-> Closed] /\ observers = << >>
    /\ changed = FALSE /\ queue = 0 /\ nodes \in BootLists
    /\ present = Phones /\ told = [ph \in Phones |-> FALSE]
    /\ got = [ph \in Phones |-> Nothing] /\ fresh = [ph \in Phones |-> TRUE]
    /\ stay = [ph \in Phones |-> {}]
    /\ starts = 0 /\ arrivals = 0

\* A failed assertion, an exception nobody catches, a scheduled reboot, a loss of power.
Reboot ==
    /\ api' = [ph \in Phones |-> Closed] /\ observers' = << >>
    /\ changed' = FALSE /\ queue' = 0 /\ nodes' \in BootLists
    /\ told' = [ph \in Phones |-> FALSE]
    /\ got' = [ph \in Phones |-> Nothing] /\ fresh' = [ph \in Phones |-> TRUE]
    /\ stay' = [ph \in Phones |-> {}]
    /\ UNCHANGED << present, starts, arrivals >>
--------------------------------------------------------------------------------
(***************************************************************************)
(* The configuration handshake.                                            *)
(***************************************************************************)
Connected(ph) == api[ph].state # "NOTHING"
Handing == << queue, changed, nodes, present, starts, arrivals >>

\* handleStartConfig(): config_state is left as it is.
MutantStarted(a, nonce) ==
    [state |-> IF nonce = "only_nodes" THEN "OWN_NODEINFO" ELSE "MY_INFO",
     index |-> a.index, nonce |-> nonce, read |-> a.read]
Started(a, nonce) ==
    [state |-> IF nonce = "only_nodes" THEN "OWN_NODEINFO" ELSE "MY_INFO",
     index |-> a.index, nonce |-> nonce, read |-> 0]

WantConfig(ph, nonce) ==
    /\ ph \in present /\ nonce \in Asks[ph]
    /\ starts < MaxStarts /\ starts' = starts + 1
    /\ observers' = IF Connected(ph) THEN observers ELSE Append(observers, ph)
    /\ api' = [api EXCEPT ![ph] = Started(@, nonce)]
    /\ told' = [told EXCEPT ![ph] = TRUE]
    /\ got' = [got EXCEPT ![ph] = Nothing] /\ fresh' = [fresh EXCEPT ![ph] = api[ph].index = 0]
    /\ stay' = [stay EXCEPT ![ph] = ToSet(nodes)]
    /\ UNCHANGED << changed, queue, nodes, present, arrivals >>

\* close(), whoever calls it; now is what the phones know otherwise. A phone is among
\* the observers once: it is added when it was not connected.
Close(ph, now) ==
    /\ api' = [api EXCEPT ![ph] = Closed]
    /\ observers' = RemoveFirst(observers, ph)
    /\ told' = [now EXCEPT ![ph] = FALSE]
    /\ got' = [got EXCEPT ![ph] = Nothing] /\ fresh' = [fresh EXCEPT ![ph] = TRUE]
    /\ stay' = [stay EXCEPT ![ph] = {}]

Disconnect(ph) == ph \in present /\ Connected(ph) /\ Close(ph, told) /\ UNCHANGED Handing

\* The phone is out of reach, or back; the node learns of it by a timeout.
Leave(ph) ==
    /\ ph \in present \cap Leavers /\ Connected(ph) /\ present' = present \ {ph}
    /\ UNCHANGED << api, observers, changed, queue, nodes, told, got, fresh, stay,
                    starts, arrivals >>
Return(ph) ==
    /\ ph \notin present /\ present' = present \cup {ph}
    /\ UNCHANGED << api, observers, changed, queue, nodes, told, got, fresh, stay,
                    starts, arrivals >>
\* checkConnectionTimeout(), from the link's own thread.
CheckTimeout(ph) == ph \notin present /\ Connected(ph) /\ Close(ph, told) /\ UNCHANGED Handing

\* One item goes to the phone, if there is one.
Send(ph, items, a) ==
    /\ api' = [api EXCEPT ![ph] = a] /\ got' = [got EXCEPT ![ph].config = @ \o items]
    /\ UNCHANGED << observers, queue, told, fresh, stay >>
SendNode(ph, us, a) ==
    /\ api' = [api EXCEPT ![ph] = a] /\ got' = [got EXCEPT ![ph].nodes = @ \o us]
    /\ UNCHANGED << observers, queue, told, fresh, stay >>
Goto(a, state) == [a EXCEPT !.state = state]
\* The index goes up and, past the last one, the next state starts with its own.
MutantCount(a, last, state, first) ==
    IF a.index + 1 >= last THEN [a EXCEPT !.state = state, !.index = first]
    ELSE [a EXCEPT !.index = @ + 1]
Count(a, last, state, first) ==
    IF a.index >= last THEN [a EXCEPT !.state = state, !.index = first]
    ELSE [a EXCEPT !.index = @ + 1]

\* sendConfigComplete(), from the end of the manifest.
Complete(ph, a) ==
    /\ api' = [api EXCEPT ![ph] = [a EXCEPT !.state = "PACKETS", !.index = 0, !.nonce = NoNonce]]
    /\ got' = [got EXCEPT ![ph] = Nothing]
    /\ stay' = [stay EXCEPT ![ph] = {}]
    /\ UNCHANGED << observers, queue, told, fresh >>

Manifest(ph, a) ==
    IF a.index = NumFiles \/ a.nonce = "only_nodes" THEN Complete(ph, a)
    ELSE Send(ph, One("file", a.index), [a EXCEPT !.index = @ + 1])

MutantModules(ph, a) ==
    Send(ph, One("module", a.index),
         IF a.index < NumModules THEN [a EXCEPT !.index = @ + 1]
         ELSE Goto(a, IF a.nonce = "only_config" THEN "FILEMANIFEST" ELSE "OTHER_NODEINFOS"))
Modules(ph, a) ==
    Send(ph, One("module", a.index),
         Count(a, NumModules, IF a.nonce = "only_config" THEN "FILEMANIFEST"
                              ELSE "OTHER_NODEINFOS", 0))

ReadNextMeshNode(a) == IF a.read < Len(nodes) THEN << nodes[a.read + 1] >> ELSE << >>

\* getFromRadio() in STATE_SEND_MY_INFO: refreshLocalMeshNode() asserts that the list
\* has an entry of ours.
MyInfo(ph) ==
    /\ ph \in present /\ api[ph].state = "MY_INFO"
    /\ IF Us \in ToSet(nodes)
       THEN Send(ph, One("my_info", 0), Goto(api[ph], "UIDATA")) /\ UNCHANGED Handing
       ELSE Reboot

\* getFromRadio() of a phone that is present: in the handshake, the next item. Among the
\* other nodes an entry of zeros is taken for the end of the list.
Handshake(ph) ==
    LET a == api[ph]
        us == ReadNextMeshNode(a)
        b == [a EXCEPT !.read = @ + Len(us)]
    IN  /\ ph \in present /\ UNCHANGED Handing
        /\ \/ a.state = "UIDATA" /\ Send(ph, One("uidata", 0), Goto(a, "OWN_NODEINFO"))
           \/ /\ a.state = "OWN_NODEINFO"
              /\ SendNode(ph, us, Goto(b, IF a.nonce = "only_nodes" THEN "OTHER_NODEINFOS"
                                          ELSE "METADATA"))
           \/ a.state = "METADATA" /\ Send(ph, One("metadata", 0), Goto(a, "CHANNELS"))
           \/ /\ a.state = "CHANNELS"
              /\ Send(ph, One("channel", a.index), Count(a, NumChannels - 1, "CONFIG", 1))
           \/ /\ a.state = "CONFIG"
              /\ Send(ph, One("config", a.index), Count(a, NumConfigs, "MODULECONFIG", 1))
           \/ a.state = "MODULECONFIG" /\ Modules(ph, a)
           \/ /\ a.state = "OTHER_NODEINFOS" /\ us \notin {<< >>, << Blank >>}
              /\ SendNode(ph, us, b)
           \/ /\ a.state = "OTHER_NODEINFOS" /\ us \in {<< >>, << Blank >>}
              /\ Manifest(ph, Goto(b, "FILEMANIFEST"))
           \/ a.state = "FILEMANIFEST" /\ Manifest(ph, a)
--------------------------------------------------------------------------------
(***************************************************************************)
(* Packets for the phones.                                                 *)
(***************************************************************************)

\* getFromRadio() in STATE_SEND_PACKETS: a phone reads until it gets nothing.
ReadPacket(ph) ==
    /\ ph \in present /\ told[ph] /\ api[ph].state = "PACKETS"
    /\ IF queue = 0 THEN told' = [told EXCEPT ![ph] = FALSE] /\ UNCHANGED queue
       ELSE queue' = queue - 1 /\ UNCHANGED told
    /\ UNCHANGED << api, observers, changed, nodes, present, got, fresh, stay,
                    starts, arrivals >>

\* sendToPhone(): a full queue stays full, whether a text pushes the oldest packet
\* out or another packet is dropped; the phones are told in either case.
SendToPhone ==
    /\ arrivals < MaxArrivals /\ arrivals' = arrivals + 1
    /\ queue' = IF queue < MaxToPhone THEN queue + 1 ELSE queue
    /\ changed' = TRUE
    /\ UNCHANGED << api, observers, nodes, present, told, got, fresh, stay, starts >>

\* MeshService::loop() notifies the observers in turn. One that finds its phone gone
\* closes and ends the round, and oldFromNum stays as it is: there is another round.
MutantRoundEnded == changed' = FALSE
RoundEnded == UNCHANGED changed

Loop ==
    LET gone == {i \in DOMAIN observers : observers[i] \notin present}
        upto == IF gone = {} THEN Len(observers) ELSE Min(gone) - 1
        reached == {observers[i] : i \in 1..upto}
        now == [ph \in Phones |-> told[ph] \/ (ph \in reached /\ api[ph].state = "PACKETS")]
    IN  /\ changed
        /\ IF gone = {}
           THEN /\ changed' = FALSE /\ told' = now
                /\ UNCHANGED << api, observers, got, fresh, stay >>
           ELSE RoundEnded /\ Close(observers[Min(gone)], now)
        /\ UNCHANGED << queue, nodes, present, starts, arrivals >>
--------------------------------------------------------------------------------
(***************************************************************************)
(* The node database, which a phone reads by index.                        *)
(***************************************************************************)

\* Entry i goes and those behind it move down: the one a phone was to get next slides
\* under its read index when i was before it.
Skipped(ph, i) == {nodes[j] : j \in {j \in DOMAIN nodes : j = api[ph].read + 1 /\ i < j}}
Forget(i) == stay' = [ph \in Phones |-> stay[ph] \ ({nodes[i]} \cup Skipped(ph, i))]
NodesMove ==
    /\ arrivals < MaxArrivals /\ arrivals' = arrivals + 1
    /\ UNCHANGED << api, observers, changed, queue, present, told, got, fresh, starts >>

\* getOrCreateMeshNode(): a new node goes to the end. A full list, or a low heap, first
\* costs an entry but the first, if one is neither favourite, ignored nor verified;
\* if none is, the entry behind a full list is asked for, and at() throws.
AddNode ==
    \E n \in NodeIds \ ({Blank} \cup ToSet(nodes)) :
       \/ /\ Len(nodes) < MaxNodes /\ nodes' = Append(nodes, n)
          /\ NodesMove /\ UNCHANGED stay
       \/ \E i \in 2..Len(nodes) :
             nodes' = Append(RemoveAt(nodes, i), n) /\ Forget(i) /\ NodesMove
       \/ Len(nodes) = MaxNodes /\ Reboot

\* removeNodeByNum(), of any number a phone gives
RemoveNode ==
    \E i \in 1..Len(nodes) :
       nodes' = RemoveAt(nodes, i) /\ Forget(i) /\ NodesMove

\* resetNodes() keeps the first entry, zeros if there is none. Without a fixed position
\* clearLocalPosition() writes to our own entry: to nowhere if there is none.
ResetNodes ==
    \/ /\ nodes' = << IF nodes = << >> THEN Blank ELSE nodes[1] >>
       /\ stay' = [ph \in Phones |-> stay[ph] \cap ToSet(nodes')]
       /\ NodesMove
    \/ Us \notin ToSet(nodes) /\ Reboot
--------------------------------------------------------------------------------
Next ==
    \/ \E ph \in Phones :
          \/ \E nonce \in Nonces : WantConfig(ph, nonce)
          \/ Disconnect(ph) \/ Leave(ph) \/ Return(ph) \/ CheckTimeout(ph)
          \/ MyInfo(ph) \/ Handshake(ph) \/ ReadPacket(ph)
    \/ SendToPhone \/ Loop \/ AddNode \/ RemoveNode \/ ResetNodes \/ Reboot

Spec == Init /\ [][Next]_vars

\* The main thread runs again and again, and a phone in reach that has asked or has
\* been told reads until it gets nothing.
FairSpec ==
    /\ Spec /\ WF_vars(Loop)
    /\ \A ph \in Phones :
          WF_vars(MyInfo(ph)) /\ WF_vars(Handshake(ph)) /\ WF_vars(ReadPacket(ph))
--------------------------------------------------------------------------------
(***************************************************************************)
(* Properties.                                                             *)
(***************************************************************************)
Ends(ph) == api[ph].state # "PACKETS" /\ api'[ph].state = "PACKETS"

\* What a phone is promised, the nodes apart: "the client apps ASSUME THIS SEQUENCE".
Range1(kind, first, last) == [i \in 1 .. (last - first + 1) |-> Item(kind, first + i - 1)]
Promised(nonce) ==
    IF nonce = "only_nodes" THEN << >>
    ELSE << Item("my_info", 0), Item("uidata", 0), Item("metadata", 0) >>
            \o Range1("channel", 0, NumChannels - 1) \o Range1("config", 1, NumConfigs)
            \o Range1("module", 1, NumModules) \o Range1("file", 0, NumFiles - 1)
Whole(ph) == got[ph].config = Promised(api[ph].nonce)

\* A phone that asked on a connection without a hand-over under way has been sent
\* every item it asked for, once and in the order the clients assume, when it gets
\* config_complete_id, whatever other phones and the node database do meanwhile.
ConfigWhole == [][\A ph \in Phones : Ends(ph) /\ fresh[ph] => Whole(ph)]_vars

\* handleStartConfig(): "even if we were already connected - restart our state
\* machine": the same of a phone that asked again in the middle of a hand-over. The
\* restart keeps config_state, and channels are skipped.
ConfigRestarted == [][\A ph \in Phones : Ends(ph) => Whole(ph)]_vars

\* A phone that asked for nodes has been sent every node that stayed in the database,
\* once, but those that slid under its read index when an entry before them went.
NodesWhole ==
    [][\A ph \in Phones : Ends(ph) /\ api[ph].nonce # "only_config" =>
          \A n \in stay[ph] :
             Cardinality({i \in DOMAIN got[ph].nodes : got[ph].nodes[i] = n}) = 1]_vars

\* Packets do not stay in the queue while a phone in reach could read them: it is
\* told of every packet, also when another phone's time-out ends a round.
Drains ==
    \A ph \in Phones : <>[](ph \in present /\ Connected(ph)) => []<>(queue = 0)
================================================================================

--------------------------- MODULE RadioLibInterface ---------------------------
(***************************************************************************)
(* The radio thread of the mesh layer: mesh/RadioLibInterface.cpp on an    *)
(* SX126x (mesh/SX126xInterface.cpp) over the one-slot notification of     *)
(* concurrency/NotifiedWorkerThread.cpp.                                   *)
(*                                                                         *)
(* The cooperative threads share one stack, so the code still to run is a  *)
(* sequence of steps, todo; a call prepends the steps of the callee.  The  *)
(* interrupt of the chip may fall between any two steps.  Delays are       *)
(* abstracted: a timer that is set fires at some later time.               *)
(***************************************************************************)
EXTENDS MeshPacketQueue, FiniteSets

CONSTANTS
    Messages,       \* the packets to send: records with a number n
    None,           \* no packet, no notification, no interrupt handler
    IsrInWindows,   \* TRUE: the interrupt may fall between the two halves of
                    \* checkNotification() and of notifyCommon()
    SpiFaults,      \* TRUE: startTransmit() may fail
    Reconfigures    \* TRUE: the user may change the radio's configuration

ASSUME MessagesAssumption ==
    /\ \A m \in Messages :
           /\ m = [n |-> m.n, key |-> m.key, pri |-> m.pri, us |-> m.us, late |-> FALSE]
           /\ m.pri \in Nat /\ m.us \in BOOLEAN
    /\ \A m1, m2 \in Messages : m1.n = m2.n => m1 = m2
ASSUME NoneAssumption ==
    /\ None \notin {"ISR_RX", "ISR_TX", "DELAY", "preamble", "header"}
    /\ None \notin {[m EXCEPT !.late = l] : m \in Messages, l \in BOOLEAN}

VARIABLES
    txQueue, sendingPacket,
    notification,   \* None, "ISR_RX", "ISR_TX" or "DELAY"
    enabled,        \* the thread will run
    todo,           \* steps the main thread still has to do
    chip,           \* "standby", "rx" or "tx"
    irqAction,      \* handler attached to DIO1: None, "ISR_RX" or "ISR_TX"
    isReceiving,
    irq,            \* sticky flags of the chip: None, "preamble" or "header"
    air,            \* the packet on its way in: None, "preamble" or "header"
    airMoved,       \* history: air changed during this run of the thread
    activeReceiveStart, \* "no"; "own" or "old": set during, before this packet
    unsent,         \* messages nobody has called send() for yet
    freed,          \* history: how often each message was released
    isrLost,        \* history: a notification was overwritten unseen
    untimed,        \* history: a startReceive() was the last thing done, with no
                    \* setTransmitDelay() since
    failure         \* rebootAtMsec is set: "Hardware Failure"
queue == << txQueue, unsent, freed >>
radio == << chip, irqAction, isReceiving, irq, air, airMoved, activeReceiveStart >>
seen  == << isrLost, untimed, failure >>
vars  == << queue, sendingPacket, notification, enabled, todo, radio, seen >>

\* Steps.  A step is [at |-> label, n |-> the local of checkNotification()].
Step(label) == [at |-> label, n |-> None]
CheckNotification == << Step("read") >>
SetStandby        == CheckNotification \o << Step("standby") >>
StartReceive      == SetStandby \o << Step("listen") >>
SetTransmitDelay  == << Step("delay") >>

\* onNotify()
MutantOnNotifyNoListen(n) ==
    CASE n = "ISR_TX" -> << Step("txDone") >> \o SetTransmitDelay
      [] n = "ISR_RX" -> << Step("rxDone") >> \o StartReceive \o SetTransmitDelay
      [] n = "DELAY"  -> << Step("trySend") >>
      [] n = None     -> << >>
MutantOnNotifyNoDelay(n) ==
    CASE n = "ISR_TX" -> << Step("txDone") >> \o StartReceive
      [] n = "ISR_RX" -> << Step("rxDone") >> \o StartReceive \o SetTransmitDelay
      [] n = "DELAY"  -> << Step("trySend") >>
      [] n = None     -> << >>
MutantOnNotifyRearmFirst(n) ==
    CASE n = "ISR_TX" -> << Step("txDone") >> \o StartReceive \o SetTransmitDelay
      [] n = "ISR_RX" -> << Step("rxDone") >> \o StartReceive \o SetTransmitDelay
      [] n = "DELAY"  -> SetTransmitDelay \o << Step("trySend") >>
      [] n = None     -> << >>
OnNotify(n) ==
    CASE n = "ISR_TX" -> << Step("txDone") >> \o StartReceive \o SetTransmitDelay
      [] n = "ISR_RX" -> << Step("rxDone") >> \o StartReceive \o SetTransmitDelay
      [] n = "DELAY"  -> << Step("trySend") >>
      [] n = None     -> << >>

At(label) == todo # << >> /\ Head(todo).at = label
Return == todo' = Tail(todo)
Goto(steps) == todo' = steps \o Tail(todo)

Release(packets) ==
    freed' = [m \in Messages |-> freed[m] +
                 Cardinality({i \in DOMAIN packets : packets[i].n = m.n})]

\* completeSending(): "done" or not, the packet is released.
CompleteSending ==
    /\ sendingPacket' = None
    /\ IF sendingPacket = None THEN UNCHANGED freed ELSE Release(<< sendingPacket >>)
    /\ UNCHANGED << txQueue, unsent >>
-------------------------------------------------------------------------------
\* init() ends in startReceive().
Init ==
    /\ txQueue = << >> /\ sendingPacket = None
    /\ notification = None /\ enabled = FALSE /\ todo = << >>
    /\ chip = "rx" /\ irqAction = "ISR_RX" /\ isReceiving = TRUE
    /\ irq = None /\ air = None /\ airMoved = FALSE /\ activeReceiveStart = "no"
    /\ unsent = Messages /\ freed = [m \in Messages |-> 0]
    /\ isrLost = FALSE /\ untimed = FALSE
    /\ failure = FALSE

\* runOnce(): "only run once per notification".
RunOnce ==
    /\ todo = << >> /\ enabled
    /\ enabled' = FALSE /\ airMoved' = FALSE
    /\ todo' = CheckNotification
    /\ UNCHANGED << queue, sendingPacket, notification, chip, irqAction, isReceiving,
                    irq, air, activeReceiveStart, seen >>

\* checkNotification(): n = notification; notification = 0; onNotify(n).
ReadNotification ==
    /\ At("read")
    /\ Goto(<< [at |-> "clear", n |-> notification] >>)
    /\ UNCHANGED << queue, sendingPacket, notification, enabled, radio, seen >>
ClearNotification ==
    /\ At("clear")
    /\ notification' = None
    /\ isrLost' = (isrLost \/ notification # Head(todo).n)
    /\ Goto(OnNotify(Head(todo).n))
    /\ UNCHANGED << queue, sendingPacket, enabled, radio, untimed,
                    failure >>

\* setStandby() after its checkNotification(): the chip stops, whatever it did.
Standby ==
    /\ At("standby") /\ Return
    /\ chip' = "standby" /\ air' = None
    /\ isReceiving' = FALSE /\ activeReceiveStart' = "no" /\ irqAction' = None
    /\ CompleteSending
    /\ UNCHANGED << notification, enabled, irq, airMoved, seen >>

\* startReceive() after its setStandby(); attaches the interrupt.
Listen ==
    /\ At("listen") /\ Return
    /\ chip' = "rx" /\ irq' = None /\ isReceiving' = TRUE /\ irqAction' = "ISR_RX"
    /\ isrLost' = FALSE /\ untimed' = (todo' = << >>)
    /\ UNCHANGED << queue, sendingPacket, notification, enabled, air, airMoved,
                    activeReceiveStart, failure >>

\* setTransmitDelay() and the notifyLater() it ends in: a pending notification
\* is never overwritten by the timer.
ScheduleTransmit ==
    /\ At("delay")
    /\ IF txQueue # << >> /\ notification = None THEN Goto(<< Step("notify") >>)
                                               ELSE Return
    /\ untimed' = FALSE
    /\ UNCHANGED << queue, sendingPacket, notification, enabled, radio,
                    isrLost, failure >>
MutantNotifyLaterSwapped ==
    /\ At("notify") /\ Return
    /\ notification' = "delayMsec" /\ enabled' = TRUE
    /\ UNCHANGED << queue, sendingPacket, radio, seen >>
NotifyLater ==
    /\ At("notify") /\ Return
    /\ notification' = "DELAY" /\ enabled' = TRUE
    /\ isrLost' = (isrLost \/ notification # None)
    /\ UNCHANGED << queue, sendingPacket, radio, untimed, failure >>

HandleTransmitInterrupt ==
    /\ At("txDone") /\ Return
    /\ CompleteSending
    /\ UNCHANGED << notification, enabled, radio, seen >>

\* handleReceiveInterrupt(): reads the packet, good or bad, and hands it to the
\* router's queue; the main thread has no part in that.
HandleReceiveInterrupt ==
    /\ At("rxDone") /\ Return
    /\ isReceiving' = FALSE
    /\ irq' = IF isReceiving THEN None ELSE irq
    /\ UNCHANGED << queue, sendingPacket, notification, enabled, chip, irqAction,
                    air, airMoved, activeReceiveStart, seen >>
-------------------------------------------------------------------------------
\* receiveDetected() answers d and leaves activeReceiveStart = s.  The flags are
\* believed until too much time has passed since they were first seen; a packet
\* whose own flags were seen first is over by then.
ReceiveDetected(d, s) ==
    \/ irq = None /\ d = FALSE /\ s = activeReceiveStart
    \/ /\ irq # None /\ d = TRUE
       /\ s = IF activeReceiveStart = "no" THEN "own" ELSE activeReceiveStart
    \/ /\ irq # None /\ d = FALSE /\ s = "no"
       /\ activeReceiveStart = "old" \/ (activeReceiveStart = "own" /\ air = None)

\* canSendImmediately() = can.  A transmission is over long before 60 s have
\* passed, so the watchdog only fires for one the chip has finished with.
CanSendImmediately(can) ==
    /\ \E d \in BOOLEAN, s \in {"no", "own", "old"} :
           /\ IF isReceiving THEN ReceiveDetected(d, s)
                             ELSE d = FALSE /\ s = activeReceiveStart
           /\ activeReceiveStart' = s
           /\ can = (sendingPacket = None /\ ~d)
    /\ \/ sendingPacket # None /\ chip # "tx" /\ failure' = TRUE
       \/ UNCHANGED failure

\* onNotify(TRANSMIT_DELAY_COMPLETED): busy, or tx_after not reached yet: later.
MutantTrySendLaterGivesUp ==
    /\ At("trySend") /\ Return
    /\ IF txQueue = << >> THEN UNCHANGED << activeReceiveStart, failure >>
       ELSE \E can \in BOOLEAN :
                CanSendImmediately(can) /\ (can => Head(txQueue).late)
    /\ UNCHANGED << queue, sendingPacket, notification, enabled, chip, irqAction,
                    isReceiving, irq, air, airMoved, isrLost,
                    untimed >>
TrySendLater ==
    /\ At("trySend")
    /\ IF txQueue = << >> THEN Return /\ UNCHANGED << activeReceiveStart, failure >>
       ELSE \E can \in BOOLEAN :
                /\ CanSendImmediately(can)
                /\ can => Head(txQueue).late
                /\ Goto(SetTransmitDelay)
    /\ UNCHANGED << queue, sendingPacket, notification, enabled, chip, irqAction,
                    isReceiving, irq, air, airMoved, isrLost,
                    untimed >>
TrySendNow ==
    /\ At("trySend") /\ txQueue # << >>
    /\ CanSendImmediately(TRUE)
    /\ Goto(SetStandby \o << Step("scan") >>)
    /\ UNCHANGED << queue, sendingPacket, notification, enabled, chip, irqAction,
                    isReceiving, irq, air, airMoved, isrLost,
                    untimed >>

\* isChannelActive() has the chip in standby and scans: somebody else is on air.
ChannelActive ==
    /\ At("scan")
    /\ Goto(StartReceive \o SetTransmitDelay)
    /\ UNCHANGED << queue, sendingPacket, notification, enabled, radio, seen >>

\* The channel is free: dequeue() and startSend().
StartSend ==
    /\ At("scan") /\ txQueue # << >> /\ Return
    /\ sendingPacket' = Head(txQueue) /\ txQueue' = Tail(txQueue)
    /\ chip' = "tx" /\ irqAction' = "ISR_TX" /\ irq' = None
    /\ UNCHANGED << unsent, freed, notification, enabled, isReceiving, air,
                    airMoved, activeReceiveStart, isrLost, untimed, failure >>

\* startTransmit() fails: the packet is "completed" and the radio listens again.
StartSendFails ==
    /\ SpiFaults
    /\ At("scan") /\ txQueue # << >>
    /\ txQueue' = Tail(txQueue) /\ Release(<< Head(txQueue) >>)
    /\ Goto(StartReceive)
    /\ UNCHANGED << unsent, sendingPacket, notification, enabled, radio, seen >>
-------------------------------------------------------------------------------
\* The other cooperative threads call the interface between two runs.

\* send(): queued with a transmit delay, or refused and released.
Send(m) ==
    /\ todo = << >> /\ m \in unsent
    /\ unsent' = unsent \ {m}
    /\ LET r == Enqueue(txQueue, m)
       IN  /\ txQueue' = r.queue
           /\ Release(IF r.ok THEN r.freed ELSE << m >>)
           /\ todo' = IF r.ok THEN SetTransmitDelay ELSE << >>
    /\ UNCHANGED << sendingPacket, notification, enabled, radio, seen >>

CancelSending(key) ==
    /\ todo = << >> /\ Find(txQueue, key, TRUE, TRUE) # 0
    /\ LET i == Find(txQueue, key, TRUE, TRUE)
       IN  txQueue' = RemoveAt(txQueue, i) /\ Release(<< txQueue[i] >>)
    /\ UNCHANGED << unsent, sendingPacket, notification, enabled, todo, radio, seen >>

ClampToLateRebroadcastWindow(key) ==
    /\ todo = << >> /\ Find(txQueue, key, TRUE, FALSE) # 0
    /\ LET i == Find(txQueue, key, TRUE, FALSE)
           p == [txQueue[i] EXCEPT !.late = TRUE]
       IN  txQueue' = Enqueue(RemoveAt(txQueue, i), p).queue
    /\ UNCHANGED << unsent, freed, sendingPacket, notification, enabled, todo,
                    radio, seen >>

\* reconfigure(): setStandby(), new settings, startReceive().
Reconfigure ==
    /\ Reconfigures /\ todo = << >>
    /\ todo' = SetStandby \o StartReceive
    /\ UNCHANGED << queue, sendingPacket, notification, enabled, radio, seen >>

\* rebootAtMsec: RAM is lost, the packets with it.
Reboot ==
    /\ failure /\ todo = << >>
    /\ txQueue' = << >> /\ sendingPacket' = None
    /\ notification' = None /\ enabled' = FALSE
    /\ chip' = "rx" /\ irqAction' = "ISR_RX" /\ isReceiving' = TRUE
    /\ irq' = None /\ air' = None /\ airMoved' = FALSE /\ activeReceiveStart' = "no"
    /\ isrLost' = FALSE /\ untimed' = FALSE
    /\ failure' = FALSE
    /\ freed' = [m \in Messages |-> IF m \in unsent THEN 0 ELSE 1]
    /\ UNCHANGED << todo, unsent >>
-------------------------------------------------------------------------------
\* The chip.  isrLevel0Common(): detach, notify with overwrite, run as soon as
\* possible.  Without a handler the event only sets flags.
MayInterrupt == IsrInWindows \/ ~(At("clear") \/ At("notify"))
Interrupt(cause) ==
    IF irqAction = cause
    THEN irqAction' = None /\ notification' = cause /\ enabled' = TRUE
    ELSE UNCHANGED << irqAction, notification, enabled >>

TransmitEnds ==
    /\ chip = "tx" /\ MayInterrupt
    /\ chip' = "standby"
    /\ Interrupt("ISR_TX")
    /\ UNCHANGED << queue, sendingPacket, todo, isReceiving, irq, air,
                    airMoved, activeReceiveStart, isrLost, untimed, failure >>

\* A packet comes in: preamble, header, end; or noise looks like a preamble.
\* Each phase takes longer than one run of the thread.
AirMoves ==
    /\ todo = << >> \/ ~airMoved
    /\ airMoved' = (todo # << >>)
PacketBegins ==
    /\ AirMoves /\ chip = "rx" /\ air = None
    /\ air' = "preamble"
    /\ irq' = IF irq = None THEN "preamble" ELSE irq
    /\ activeReceiveStart' = IF activeReceiveStart = "own" THEN "old"
                             ELSE activeReceiveStart
    /\ UNCHANGED << queue, sendingPacket, notification, enabled, todo, chip,
                    irqAction, isReceiving, seen >>
HeaderHeard ==
    /\ AirMoves /\ air = "preamble"
    /\ air' = "header" /\ irq' = "header"
    /\ UNCHANGED << queue, sendingPacket, notification, enabled, todo, chip,
                    irqAction, isReceiving, activeReceiveStart, seen >>
PacketEnds ==
    /\ AirMoves /\ air = "header" /\ MayInterrupt
    /\ air' = None /\ chip' = "standby"
    /\ Interrupt("ISR_RX")
    /\ UNCHANGED << queue, sendingPacket, todo, isReceiving, irq,
                    activeReceiveStart, seen >>
FalsePreamble ==
    /\ chip = "rx" /\ air = None /\ irq = None
    /\ irq' = "preamble"
    /\ UNCHANGED << queue, sendingPacket, notification, enabled, todo, chip,
                    irqAction, isReceiving, air, airMoved, activeReceiveStart,
                    seen >>

Thread ==
    \/ RunOnce \/ ReadNotification \/ ClearNotification \/ Standby \/ Listen
    \/ ScheduleTransmit \/ NotifyLater \/ HandleTransmitInterrupt
    \/ HandleReceiveInterrupt \/ TrySendLater \/ TrySendNow \/ ChannelActive
    \/ StartSend \/ StartSendFails
Callers ==
    \/ \E m \in Messages :
           \/ Send(m) \/ CancelSending(m.key) \/ ClampToLateRebroadcastWindow(m.key)
    \/ Reconfigure \/ Reboot
Chip == TransmitEnds \/ PacketBegins \/ HeaderHeard \/ PacketEnds \/ FalsePreamble

Next == Thread \/ Callers \/ Chip
Spec == Init /\ [][Next]_vars

\* The thread runs when it is enabled, the chip finishes what it began, time
\* passes (a wait for a flag or for tx_after ends), the channel is free now and
\* then, and a pending reboot happens.
Fairness ==
    /\ WF_vars(Thread) /\ SF_vars(TransmitEnds) /\ SF_vars(HeaderHeard)
    /\ SF_vars(PacketEnds) /\ SF_vars(TrySendNow) /\ SF_vars(StartSend)
    /\ SF_vars(Reboot)
FairSpec == Spec /\ Fairness
-------------------------------------------------------------------------------
Causes == {"ISR_RX", "ISR_TX"}
Labels == {"read", "clear", "standby", "listen", "delay", "notify", "txDone",
           "rxDone", "trySend", "scan"}
Queued == {[m EXCEPT !.late = l] : m \in Messages, l \in BOOLEAN}
TypeOK ==
    /\ txQueue \in Seq(Queued) /\ sendingPacket \in Queued \cup {None}
    /\ notification \in Causes \cup {"DELAY", None} /\ enabled \in BOOLEAN
    /\ todo \in Seq([at : Labels, n : Causes \cup {"DELAY", None}])
    /\ chip \in {"standby", "rx", "tx"} /\ irqAction \in Causes \cup {None}
    /\ {irq, air} \subseteq {None, "preamble", "header"}
    /\ activeReceiveStart \in {"no", "own", "old"}
    /\ unsent \in SUBSET Messages /\ freed \in [Messages -> Nat]
    /\ {isReceiving, airMoved, isrLost, untimed, failure} \subseteq BOOLEAN

\* Every message that was given to send() is in exactly one place: in the queue,
\* being transmitted, or released exactly once.
Places(m) ==
    Cardinality({i \in DOMAIN txQueue : txQueue[i].n = m.n})
        + (IF sendingPacket # None /\ sendingPacket.n = m.n THEN 1 ELSE 0)
        + freed[m]
OwnedOnce == \A m \in Messages : Places(m) = IF m \in unsent THEN 0 ELSE 1

\* The radio is never deaf: when nothing is left to do and no interrupt waits,
\* it listens or transmits with the right handler attached - unless an
\* interrupt was overwritten between two halves of the notification code.
NeverDeaf ==
    todo = << >> /\ notification \notin Causes /\ ~isrLost =>
        \/ chip = "rx" /\ irqAction = "ISR_RX" /\ isReceiving /\ sendingPacket = None
        \/ chip = "tx" /\ irqAction = "ISR_TX" /\ sendingPacket # None

\* setStandby() may run a whole other notification between the test that the
\* queue is not empty and dequeue(): the assertions after it, that a packet is
\* left (onNotify(), line 281) and that none is being sent (beginSending()),
\* hold all the same.
AssertionsHold == At("scan") => txQueue # << >> /\ sendingPacket = None

\* No wakeup is lost: a pending notification finds the thread enabled, and while
\* packets wait one is pending or a transmission is under way whose end will
\* schedule the next - unless an interrupt was overwritten, or startReceive()
\* came last, as it does after a transmission that failed to start (523) and in
\* reconfigure() (224).
WakeupPending ==
    todo = << >> =>
        /\ notification # None => enabled
        /\ txQueue # << >> /\ ~isrLost /\ ~untimed =>
               notification # None \/ (chip = "tx" /\ irqAction = "ISR_TX")

\* "This routine will later free() the packet to pool" (send()): once the
\* channel stays quiet, every packet in the queue is released.
SentIsFreed ==
    <>[](air = None) => \A m \in Messages : [](m \notin unsent => <>(freed[m] > 0))
===============================================================================

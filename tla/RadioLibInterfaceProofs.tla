------------------------ MODULE RadioLibInterfaceProofs ------------------------
(***************************************************************************)
(* Proofs about the radio thread, for every set of messages and every      *)
(* limit of the queue, with interrupts at any point.  The code still to    *)
(* run is a sequence of steps that callees grow at its front, so most of   *)
(* the invariant says what may stand in it and in which order: where a     *)
(* listen or a scan is still to come, which step may be the last one, and  *)
(* that above a scan no notification is read that would try another send.  *)
(***************************************************************************)
EXTENDS RadioLibInterface, MeshPacketQueueProofs, FiniteSetTheorems

\* What may be notified, and the steps that may be left to do.
Notifications == Causes \cup {"DELAY", None}
Steps == [at : Labels, n : Notifications]

(***************************************************************************)
(* The inductive invariant.                                                *)
(***************************************************************************)

\* The order of the steps to do: only some stand behind another, the radio listens or
\* scans right after setStandby(), what stops it is followed by what starts it again, and
\* the last of several steps is one that starts or schedules something.
Stack(t) ==
    /\ \A i \in 2..Len(t) : t[i].at \in {"read", "standby", "listen", "delay", "scan"}
    /\ \A i \in 2..Len(t) : t[i].at \in {"listen", "scan"} => t[i - 1].at = "standby"
    /\ \A i \in 1..Len(t) : t[i].at \in {"standby", "txDone", "rxDone"} =>
           \E j \in (i + 1)..Len(t) : t[j].at \in {"listen", "scan"}
    /\ Len(t) > 1 => t[Len(t)].at \in {"listen", "delay", "scan"}

\* Before a scan nothing tries to send: what is read there is not the end of a delay, and
\* no delay is set before the last notification is read.
Scan(t, k) ==
    \A i \in 1..Len(t) : t[i].at = "scan" =>
        \A j \in 1..(i - 1) :
            /\ t[j].at \notin {"scan", "trySend"}
            /\ t[j].at = "clear" => t[j].n # "DELAY"
            /\ t[j].at = "read" =>
                   /\ k # "DELAY"
                   /\ j = 1 \/ (j = 2 /\ t[1].at \in {"txDone", "rxDone"})

\* Some step with one of these labels is left to do.
Has(labels) == \E i \in 1..Len(todo) : todo[i].at \in labels

\* The packet that will be sent after the scan is there; none is being sent, nor has one
\* just been sent.
ScanReady ==
    /\ Scan(todo, notification)
    /\ Has({"scan"}) =>
           txQueue # << >> /\ sendingPacket = None /\ notification # "ISR_TX"

\* What holds where a step is the next one.
NextStep ==
    /\ At("listen") \/ At("scan") => chip = "standby" /\ sendingPacket = None
    /\ At("trySend") => notification # "DELAY"
    /\ At("trySend") /\ notification = "ISR_TX" => sendingPacket # None
    /\ At("txDone") => chip # "tx"
    /\ At("clear") /\ Head(todo).n = "ISR_TX" => chip # "tx"

\* The handler that is attached is that of what the chip does; a transmission has its
\* packet, and its end has not been signalled.
ChipInv ==
    /\ chip = "tx" <=> irqAction = "ISR_TX"
    /\ chip = "rx" <=> irqAction = "ISR_RX"
    /\ chip = "tx" => sendingPacket # None /\ notification # "ISR_TX"
    /\ air # None => chip = "rx"

\* A notification is about to be read, or finds the thread enabled.
Enabling == notification # None => enabled \/ At("read") \/ At("clear")

\* The radio works, an interrupt waits, or a step to come starts it.
Arming ==
    ~isrLost =>
        \/ chip = "rx" /\ isReceiving /\ sendingPacket = None
        \/ chip = "tx"
        \/ notification \in Causes
        \/ Has({"listen", "scan"})
        \/ At("clear") /\ Head(todo).n \in Causes

\* While packets wait, a step to come, or a notification or interrupt, ends in another
\* transmit delay.
Waking ==
    txQueue # << >> /\ ~isrLost /\ ~untimed =>
        \/ notification # None
        \/ chip = "tx"
        \/ todo # << >> /\ todo[Len(todo)].at \notin {"read", "clear"}
        \/ At("clear") /\ Head(todo).n # None

\* Who holds each message.
Held(m) == sendingPacket # None /\ sendingPacket.n = m.n
Owned ==
    /\ Distinct(txQueue)
    /\ \A m \in Messages :
           \/ m \in unsent /\ m.n \notin Numbers(txQueue) /\ ~Held(m) /\ freed[m] = 0
           \/ m \notin unsent /\ m.n \in Numbers(txQueue) /\ ~Held(m) /\ freed[m] = 0
           \/ m \notin unsent /\ m.n \notin Numbers(txQueue) /\ Held(m) /\ freed[m] = 0
           \/ m \notin unsent /\ m.n \notin Numbers(txQueue) /\ ~Held(m) /\ freed[m] = 1
QueueInv == Sorted(txQueue) /\ Len(txQueue) <= MaxLen /\ Owned

\* The inductive invariant.
RadioInv ==
    /\ TypeOK
    /\ Stack(todo) /\ ScanReady /\ NextStep
    /\ ChipInv /\ Enabling /\ Arming /\ Waking
    /\ QueueInv

(***************************************************************************)
(* The steps to do.                                                        *)
(***************************************************************************)

\* None is neither a notification nor a packet.
LEMMA NoneIsNothing ==
    /\ None # "ISR_RX" /\ None # "ISR_TX" /\ None # "DELAY"
    /\ None # "preamble" /\ None # "header"
    /\ None \notin Queued
  BY NoneAssumption DEF NoneAssumption, Queued

\* The steps by their labels.
LEMMA StepTypes ==
    /\ \A l \in Labels : Step(l) \in Steps /\ Step(l).at = l /\ Step(l).n = None
    /\ \A n \in Notifications : [at |-> "clear", n |-> n] \in Steps
  BY DEF Step, Steps, Notifications, Labels

\* Two sequences, the second behind the first.
LEMMA Joined ==
    ASSUME NEW S, NEW s \in Seq(S), NEW t \in Seq(S), NEW u, u = s \o t
    PROVE  /\ u \in Seq(S) /\ Len(u) = Len(s) + Len(t)
           /\ \A i \in 1..Len(s) : u[i] = s[i]
           /\ \A i \in 1..Len(t) : u[Len(s) + i] = t[i]
<1>1. Len(s) \in Nat /\ Len(t) \in Nat
  OBVIOUS
<1>2. /\ u \in Seq(S) /\ Len(u) = Len(s) + Len(t)
      /\ \A i \in 1..(Len(s) + Len(t)) : u[i] = IF i <= Len(s) THEN s[i] ELSE t[i - Len(s)]
  BY ConcatProperties
<1>3. /\ \A i \in 1..Len(s) : i \in 1..(Len(s) + Len(t)) /\ i <= Len(s)
      /\ \A i \in 1..Len(t) : /\ Len(s) + i \in 1..(Len(s) + Len(t)) /\ ~(Len(s) + i <= Len(s))
                              /\ (Len(s) + i) - Len(s) = i
  BY <1>1
<1> QED
  BY <1>2, <1>3

\* The frames the calls push, step by step.
LEMMA ReadFrame ==
    /\ CheckNotification \in Seq(Steps) /\ Len(CheckNotification) = 1
    /\ CheckNotification[1] = Step("read")
    /\ SetTransmitDelay \in Seq(Steps) /\ Len(SetTransmitDelay) = 1
    /\ SetTransmitDelay[1] = Step("delay")
  BY StepTypes DEF CheckNotification, SetTransmitDelay, Labels

\* The steps of setStandby(), of startReceive(), of startReceive() with a delay
\* behind it, of the channel scan, of reconfigure(), and of a transmission or a
\* reception that is done.
LEMMA StandbyFrame ==
    /\ SetStandby \in Seq(Steps) /\ Len(SetStandby) = 2
    /\ SetStandby[1] = Step("read") /\ SetStandby[2] = Step("standby")
<1>1. << Step("standby") >> \in Seq(Steps) /\ Len(<< Step("standby") >>) = 1
      /\ << Step("standby") >>[1] = Step("standby")
  BY StepTypes DEF Labels
<1> QED
  BY <1>1, ReadFrame, ConcatProperties DEF SetStandby

LEMMA ReceiveFrame ==
    /\ StartReceive \in Seq(Steps) /\ Len(StartReceive) = 3
    /\ StartReceive[1] = Step("read") /\ StartReceive[2] = Step("standby")
    /\ StartReceive[3] = Step("listen")
<1>1. << Step("listen") >> \in Seq(Steps) /\ Len(<< Step("listen") >>) = 1
      /\ << Step("listen") >>[1] = Step("listen")
  BY StepTypes DEF Labels
<1> QED
  BY <1>1, StandbyFrame, ConcatProperties DEF StartReceive

LEMMA ReceiveDelayFrame ==
    LET f == StartReceive \o SetTransmitDelay
    IN  /\ f \in Seq(Steps) /\ Len(f) = 4
        /\ f[1] = Step("read") /\ f[2] = Step("standby")
        /\ f[3] = Step("listen") /\ f[4] = Step("delay")
<1> DEFINE f == StartReceive \o SetTransmitDelay
<1>1. f = StartReceive \o SetTransmitDelay
  OBVIOUS
<1> HIDE DEF f
<1>2. StartReceive \in Seq(Steps) /\ SetTransmitDelay \in Seq(Steps)
  BY ReceiveFrame, ReadFrame
<1>3. /\ f \in Seq(Steps) /\ Len(f) = Len(StartReceive) + Len(SetTransmitDelay)
      /\ \A i \in 1..Len(StartReceive) : f[i] = StartReceive[i]
      /\ \A i \in 1..Len(SetTransmitDelay) :
             f[Len(StartReceive) + i] = SetTransmitDelay[i]
  BY <1>1, <1>2, Joined
<1>4. /\ f \in Seq(Steps) /\ Len(f) = 4
      /\ f[1] = Step("read") /\ f[2] = Step("standby")
      /\ f[3] = Step("listen") /\ f[4] = Step("delay")
  BY <1>3, ReceiveFrame, ReadFrame
<1> QED
  BY <1>4 DEF f

LEMMA ScanFrame ==
    LET f == SetStandby \o << Step("scan") >>
    IN  /\ f \in Seq(Steps) /\ Len(f) = 3
        /\ f[1] = Step("read") /\ f[2] = Step("standby") /\ f[3] = Step("scan")
<1>1. << Step("scan") >> \in Seq(Steps) /\ Len(<< Step("scan") >>) = 1
      /\ << Step("scan") >>[1] = Step("scan")
  BY StepTypes DEF Labels
<1> QED
  BY <1>1, StandbyFrame, ConcatProperties

LEMMA ReconfigureFrame ==
    LET f == SetStandby \o StartReceive
    IN  /\ f \in Seq(Steps) /\ Len(f) = 5
        /\ f[1] = Step("read") /\ f[2] = Step("standby")
        /\ f[3] = Step("read") /\ f[4] = Step("standby") /\ f[5] = Step("listen")
<1> DEFINE f == SetStandby \o StartReceive
<1>1. f = SetStandby \o StartReceive
  OBVIOUS
<1> HIDE DEF f
<1>2. SetStandby \in Seq(Steps) /\ StartReceive \in Seq(Steps)
  BY ReceiveFrame, StandbyFrame
<1>3. /\ f \in Seq(Steps) /\ Len(f) = Len(SetStandby) + Len(StartReceive)
      /\ \A i \in 1..Len(SetStandby) : f[i] = SetStandby[i]
      /\ \A i \in 1..Len(StartReceive) : f[Len(SetStandby) + i] = StartReceive[i]
  BY <1>1, <1>2, Joined
<1>4. /\ f \in Seq(Steps) /\ Len(f) = 5
      /\ f[1] = Step("read") /\ f[2] = Step("standby")
      /\ f[3] = Step("read") /\ f[4] = Step("standby") /\ f[5] = Step("listen")
  BY <1>3, ReceiveFrame, StandbyFrame
<1> QED
  BY <1>4 DEF f

LEMMA DoneFrame ==
    ASSUME NEW x \in {"txDone", "rxDone"}
    PROVE  LET f == << Step(x) >> \o StartReceive \o SetTransmitDelay
           IN  /\ f \in Seq(Steps) /\ Len(f) = 5
               /\ f[1] = Step(x) /\ f[2] = Step("read") /\ f[3] = Step("standby")
               /\ f[4] = Step("listen") /\ f[5] = Step("delay")
<1> DEFINE s == << Step(x) >>
           r == s \o StartReceive
           f == r \o SetTransmitDelay
<1>1. s \in Seq(Steps) /\ Len(s) = 1 /\ s[1] = Step(x)
  BY StepTypes DEF Labels
<1>2. f = << Step(x) >> \o StartReceive \o SetTransmitDelay
  OBVIOUS
<1>3. StartReceive \in Seq(Steps) /\ SetTransmitDelay \in Seq(Steps)
  BY ReceiveFrame, ReadFrame
<1>4. r = s \o StartReceive
  OBVIOUS
<1>5. f = r \o SetTransmitDelay
  OBVIOUS
<1> HIDE DEF s, r, f
<1>6. s \in Seq(Steps)
  BY <1>1
<1>7. /\ r \in Seq(Steps) /\ Len(r) = Len(s) + Len(StartReceive)
      /\ \A i \in 1..Len(s) : r[i] = s[i]
      /\ \A i \in 1..Len(StartReceive) : r[Len(s) + i] = StartReceive[i]
  BY <1>3, <1>4, <1>6, Joined
<1>8. r \in Seq(Steps)
  BY <1>7
<1>9. /\ f \in Seq(Steps) /\ Len(f) = Len(r) + Len(SetTransmitDelay)
      /\ \A i \in 1..Len(r) : f[i] = r[i]
      /\ \A i \in 1..Len(SetTransmitDelay) : f[Len(r) + i] = SetTransmitDelay[i]
  BY <1>3, <1>5, <1>8, Joined
<1>10. /\ Len(r) = 4 /\ r[1] = Step(x) /\ r[2] = Step("read") /\ r[3] = Step("standby")
       /\ r[4] = Step("listen")
  BY <1>1, <1>7, ReceiveFrame
<1>11. /\ f \in Seq(Steps) /\ Len(f) = 5
       /\ f[1] = Step(x) /\ f[2] = Step("read") /\ f[3] = Step("standby")
       /\ f[4] = Step("listen") /\ f[5] = Step("delay")
  BY <1>9, <1>10, ReadFrame
<1> QED
  BY <1>2, <1>11

\* onNotify() of each notification.
LEMMA OnNotifyFrames ==
    /\ OnNotify(None) = << >>
    /\ OnNotify("DELAY") = << Step("trySend") >>
    /\ OnNotify("ISR_TX") = << Step("txDone") >> \o StartReceive \o SetTransmitDelay
    /\ OnNotify("ISR_RX") = << Step("rxDone") >> \o StartReceive \o SetTransmitDelay
  BY NoneIsNothing, Zenon DEF OnNotify

\* The step that is next.
LEMMA AtFirst ==
    ASSUME todo \in Seq(Steps), NEW label, At(label)
    PROVE  /\ todo # << >> /\ Len(todo) \in Nat /\ Len(todo) >= 1
           /\ todo[1].at = label /\ todo[1] \in Steps /\ Head(todo) = todo[1]
  BY EmptySeq DEF At

\* A step returns: those behind it are left.
LEMMA ReturnResult ==
    ASSUME todo \in Seq(Steps), todo # << >>, Return
    PROVE  /\ todo' \in Seq(Steps) /\ Len(todo) \in Nat /\ Len(todo) >= 1
           /\ Len(todo') = Len(todo) - 1
           /\ \A i \in 1..Len(todo') : i + 1 \in 2..Len(todo) /\ todo'[i] = todo[i + 1]
           /\ \A i \in 2..Len(todo) : i - 1 \in 1..Len(todo') /\ todo'[i - 1] = todo[i]
<1>1. Len(todo) \in Nat /\ Len(todo) >= 1
  BY EmptySeq
<1> QED
  BY <1>1 DEF Return

\* A step calls: the steps of the callee come in its place.
LEMMA GotoResult ==
    ASSUME todo \in Seq(Steps), todo # << >>, NEW f \in Seq(Steps), Goto(f)
    PROVE  /\ todo' \in Seq(Steps) /\ Len(todo) \in Nat /\ Len(todo) >= 1 /\ Len(f) \in Nat
           /\ Len(todo') = Len(f) + Len(todo) - 1
           /\ \A i \in 1..Len(f) : i \in 1..Len(todo') /\ todo'[i] = f[i]
           /\ \A i \in (Len(f) + 1)..Len(todo') :
                  i - Len(f) + 1 \in 2..Len(todo) /\ todo'[i] = todo[i - Len(f) + 1]
           /\ \A i \in 2..Len(todo) :
                  i + Len(f) - 1 \in 1..Len(todo') /\ todo'[i + Len(f) - 1] = todo[i]
<1> DEFINE s == Tail(todo)
           t == f \o s
<1>1. Len(todo) \in Nat /\ Len(todo) >= 1 /\ Len(f) \in Nat
  BY EmptySeq
<1>2. s \in Seq(Steps) /\ Len(s) = Len(todo) - 1 /\ \A i \in 1..Len(s) : s[i] = todo[i + 1]
  BY <1>1
<1> HIDE DEF s
<1>3. /\ t \in Seq(Steps) /\ Len(t) = Len(f) + Len(s)
      /\ \A i \in 1..(Len(f) + Len(s)) : t[i] = IF i <= Len(f) THEN f[i] ELSE s[i - Len(f)]
  BY <1>2, ConcatProperties
<1>4. todo' = t
  BY DEF Goto, s
<1> HIDE DEF t
<1>5. \A i \in 1..Len(f) : i \in 1..Len(todo') /\ todo'[i] = f[i]
  <2>1. \A i \in 1..Len(f) : i \in 1..(Len(f) + Len(s)) /\ i <= Len(f)
    BY <1>1, <1>2
  <2>2. \A i \in 1..Len(f) : t[i] = f[i]
    BY <1>3, <2>1
  <2> QED
    BY <1>3, <1>4, <2>1, <2>2
<1>6. \A i \in (Len(f) + 1)..Len(todo') :
          i - Len(f) + 1 \in 2..Len(todo) /\ todo'[i] = todo[i - Len(f) + 1]
  <2> SUFFICES ASSUME NEW i \in (Len(f) + 1)..Len(todo')
               PROVE  i - Len(f) + 1 \in 2..Len(todo) /\ todo'[i] = todo[i - Len(f) + 1]
    OBVIOUS
  <2>1. i - Len(f) \in 1..Len(s) /\ i \in 1..(Len(f) + Len(s)) /\ ~(i <= Len(f))
    BY <1>1, <1>2, <1>3, <1>4
  <2>2. t[i] = s[i - Len(f)] /\ s[i - Len(f)] = todo[i - Len(f) + 1]
    BY <1>2, <1>3, <2>1
  <2> QED
    BY <1>1, <1>2, <1>4, <2>1, <2>2
<1>7. \A i \in 2..Len(todo) :
          i + Len(f) - 1 \in 1..Len(todo') /\ todo'[i + Len(f) - 1] = todo[i]
  <2> SUFFICES ASSUME NEW i \in 2..Len(todo)
               PROVE  i + Len(f) - 1 \in 1..Len(todo') /\ todo'[i + Len(f) - 1] = todo[i]
    OBVIOUS
  <2>1. i + Len(f) - 1 \in (Len(f) + 1)..Len(todo') /\ (i + Len(f) - 1) - Len(f) + 1 = i
    BY <1>1, <1>2, <1>3, <1>4
  <2> QED
    BY <1>1, <1>6, <2>1
<1> QED
  BY <1>1, <1>2, <1>3, <1>4, <1>5, <1>6, <1>7

(***************************************************************************)
(* What a return and a call do to the order of the steps.                  *)
(***************************************************************************)

\* A step that returns leaves the steps behind it in order.
LEMMA PopKeepsStack ==
    ASSUME todo \in Seq(Steps), todo # << >>, Return, Stack(todo)
    PROVE  Stack(todo')
<1>1. /\ todo' \in Seq(Steps) /\ Len(todo) \in Nat /\ Len(todo) >= 1
      /\ Len(todo') = Len(todo) - 1
      /\ \A i \in 1..Len(todo') : i + 1 \in 2..Len(todo) /\ todo'[i] = todo[i + 1]
      /\ \A i \in 2..Len(todo) : i - 1 \in 1..Len(todo') /\ todo'[i - 1] = todo[i]
  BY ReturnResult
<1>2. \A i \in 2..Len(todo') :
          /\ todo'[i].at \in {"read", "standby", "listen", "delay", "scan"}
          /\ todo'[i].at \in {"listen", "scan"} => todo'[i - 1].at = "standby"
  <2> SUFFICES ASSUME NEW i \in 2..Len(todo')
               PROVE  /\ todo'[i].at \in {"read", "standby", "listen", "delay", "scan"}
                      /\ todo'[i].at \in {"listen", "scan"} => todo'[i - 1].at = "standby"
    OBVIOUS
  <2>1. i + 1 \in 2..Len(todo) /\ i \in 2..Len(todo) /\ i - 1 \in 1..Len(todo')
        /\ (i - 1) + 1 = i /\ (i + 1) - 1 = i
    BY <1>1
  <2>2. todo'[i] = todo[i + 1] /\ todo'[i - 1] = todo[i]
    BY <1>1, <2>1
  <2> QED
    BY <2>1, <2>2 DEF Stack
<1>3. \A i \in 1..Len(todo') : todo'[i].at \in {"standby", "txDone", "rxDone"} =>
          \E j \in (i + 1)..Len(todo') : todo'[j].at \in {"listen", "scan"}
  <2> SUFFICES ASSUME NEW i \in 1..Len(todo'), todo'[i].at \in {"standby", "txDone", "rxDone"}
               PROVE  \E j \in (i + 1)..Len(todo') : todo'[j].at \in {"listen", "scan"}
    OBVIOUS
  <2>1. i + 1 \in 1..Len(todo) /\ todo'[i] = todo[i + 1]
    BY <1>1
  <2>2. PICK j \in ((i + 1) + 1)..Len(todo) : todo[j].at \in {"listen", "scan"}
    BY <2>1 DEF Stack
  <2>3. j \in 2..Len(todo) /\ j - 1 \in (i + 1)..Len(todo')
    BY <1>1
  <2> QED
    BY <1>1, <2>2, <2>3
<1>4. Len(todo') > 1 => todo'[Len(todo')].at \in {"listen", "delay", "scan"}
  <2>1. Len(todo') > 1 => Len(todo') \in 1..Len(todo') /\ Len(todo') + 1 = Len(todo)
    BY <1>1
  <2> QED
    BY <1>1, <2>1 DEF Stack
<1> QED
  BY <1>2, <1>3, <1>4 DEF Stack

\* A call puts the steps of the callee before those that are left.
LEMMA PushKeepsStack ==
    ASSUME todo \in Seq(Steps), todo # << >>, Stack(todo), todo[1].at # "standby",
           NEW f \in Seq(Steps), Len(f) >= 1, Stack(f), Goto(f)
    PROVE  Stack(todo')
<1>1. /\ todo' \in Seq(Steps) /\ Len(todo) \in Nat /\ Len(todo) >= 1 /\ Len(f) \in Nat
      /\ Len(todo') = Len(f) + Len(todo) - 1
      /\ \A i \in 1..Len(f) : i \in 1..Len(todo') /\ todo'[i] = f[i]
      /\ \A i \in (Len(f) + 1)..Len(todo') :
             i - Len(f) + 1 \in 2..Len(todo) /\ todo'[i] = todo[i - Len(f) + 1]
      /\ \A i \in 2..Len(todo) :
             i + Len(f) - 1 \in 1..Len(todo') /\ todo'[i + Len(f) - 1] = todo[i]
  BY GotoResult
<1>2. \A i \in 2..Len(todo') :
          /\ todo'[i].at \in {"read", "standby", "listen", "delay", "scan"}
          /\ todo'[i].at \in {"listen", "scan"} => todo'[i - 1].at = "standby"
  <2> SUFFICES ASSUME NEW i \in 2..Len(todo')
               PROVE  /\ todo'[i].at \in {"read", "standby", "listen", "delay", "scan"}
                      /\ todo'[i].at \in {"listen", "scan"} => todo'[i - 1].at = "standby"
    OBVIOUS
  <2>1. CASE i <= Len(f)
    <3>1. i \in 2..Len(f) /\ i \in 1..Len(f) /\ i - 1 \in 1..Len(f)
      BY <1>1, <2>1
    <3>2. todo'[i] = f[i] /\ todo'[i - 1] = f[i - 1]
      BY <1>1, <3>1
    <3> QED
      BY <3>1, <3>2 DEF Stack
  <2>2. CASE i = Len(f) + 1
    <3>1. i \in (Len(f) + 1)..Len(todo') /\ i - Len(f) + 1 = 2
      BY <1>1, <2>2
    <3>2. 2 \in 2..Len(todo) /\ todo'[i] = todo[2] /\ 2 - 1 = 1
      BY <1>1, <3>1
    <3> QED
      BY <3>2 DEF Stack
  <2>3. CASE i > Len(f) + 1
    <3>0. i \in Nat /\ Len(f) \in Nat /\ Len(todo') \in Nat
      BY <1>1
    <3>1. /\ i \in (Len(f) + 1)..Len(todo') /\ i - 1 \in (Len(f) + 1)..Len(todo')
          /\ (i - 1) - Len(f) + 1 = (i - Len(f) + 1) - 1
      BY <2>3, <3>0
    <3>2. /\ i - Len(f) + 1 \in 2..Len(todo) /\ todo'[i] = todo[i - Len(f) + 1]
          /\ todo'[i - 1] = todo[(i - Len(f) + 1) - 1]
      BY <1>1, <3>1
    <3> QED
      BY <3>2 DEF Stack
  <2> QED
    BY <1>1, <2>1, <2>2, <2>3
<1>3. \A i \in 1..Len(todo') : todo'[i].at \in {"standby", "txDone", "rxDone"} =>
          \E j \in (i + 1)..Len(todo') : todo'[j].at \in {"listen", "scan"}
  <2> SUFFICES ASSUME NEW i \in 1..Len(todo'), todo'[i].at \in {"standby", "txDone", "rxDone"}
               PROVE  \E j \in (i + 1)..Len(todo') : todo'[j].at \in {"listen", "scan"}
    OBVIOUS
  <2>1. CASE i <= Len(f)
    <3>1. i \in 1..Len(f) /\ todo'[i] = f[i]
      BY <1>1, <2>1
    <3>2. PICK j \in (i + 1)..Len(f) : f[j].at \in {"listen", "scan"}
      BY <3>1 DEF Stack
    <3>3. j \in 1..Len(f) /\ j \in (i + 1)..Len(todo')
      BY <1>1, <3>1
    <3> QED
      BY <1>1, <3>2, <3>3
  <2>2. CASE i > Len(f)
    <3> DEFINE k == i - Len(f) + 1
    <3>1. k \in 2..Len(todo) /\ k \in 1..Len(todo) /\ todo'[i] = todo[k]
      BY <1>1, <2>2
    <3>2. PICK j \in (k + 1)..Len(todo) : todo[j].at \in {"listen", "scan"}
      BY <3>1 DEF Stack
    <3>3. j \in 2..Len(todo) /\ j + Len(f) - 1 \in (i + 1)..Len(todo')
      BY <1>1, <3>1
    <3>4. todo'[j + Len(f) - 1] = todo[j]
      BY <1>1, <3>3
    <3> QED
      BY <3>2, <3>3, <3>4
  <2> QED
    BY <1>1, <2>1, <2>2
<1>4. Len(todo') > 1 => todo'[Len(todo')].at \in {"listen", "delay", "scan"}
  <2>1. CASE ~(Len(todo) > 1)
    <3>1. Len(todo') = Len(f) /\ Len(f) \in 1..Len(f)
      BY <1>1, <2>1
    <3>2. todo'[Len(f)] = f[Len(f)]
      BY <1>1, <3>1
    <3> QED
      BY <3>1, <3>2 DEF Stack
  <2>2. CASE Len(todo) > 1
    <3>1. Len(todo) \in 2..Len(todo) /\ Len(todo) + Len(f) - 1 = Len(todo')
      BY <1>1, <2>2
    <3>2. todo'[Len(todo')] = todo[Len(todo)]
      BY <1>1, <3>1
    <3> QED
      BY <2>2, <3>2 DEF Stack
  <2> QED
    BY <2>1, <2>2
<1> QED
  BY <1>2, <1>3, <1>4 DEF Stack

\* A frame of steps that would try to send, read a notification that may be the end of a
\* delay, or read one later than at once, must not be pushed above a scan.
Harmless(f, k) ==
    \A j \in 1..Len(f) :
        /\ f[j].at \notin {"scan", "trySend"}
        /\ f[j].at = "clear" => f[j].n # "DELAY"
        /\ f[j].at = "read" =>
               /\ k # "DELAY"
               /\ j = 1 \/ (j = 2 /\ f[1].at \in {"txDone", "rxDone"})

\* A step that returns takes nothing from a scan; only a timer may set a delay, and its
\* step leaves no notification to read above a scan.
LEMMA PopKeepsScan ==
    ASSUME todo \in Seq(Steps), todo # << >>, Return, Scan(todo, notification),
           notification' = notification \/ todo[1].at \notin {"read", "txDone", "rxDone"}
    PROVE  Scan(todo', notification')
<1>1. /\ todo' \in Seq(Steps) /\ Len(todo) \in Nat /\ Len(todo) >= 1
      /\ Len(todo') = Len(todo) - 1
      /\ \A i \in 1..Len(todo') : i + 1 \in 2..Len(todo) /\ todo'[i] = todo[i + 1]
  BY ReturnResult
<1> SUFFICES ASSUME NEW i \in 1..Len(todo'), todo'[i].at = "scan", NEW j \in 1..(i - 1)
             PROVE  /\ todo'[j].at \notin {"scan", "trySend"}
                    /\ todo'[j].at = "clear" => todo'[j].n # "DELAY"
                    /\ todo'[j].at = "read" =>
                           /\ notification' # "DELAY"
                           /\ j = 1 \/ (j = 2 /\ todo'[1].at \in {"txDone", "rxDone"})
  BY DEF Scan
<1>2. i + 1 \in 1..Len(todo) /\ j + 1 \in 1..((i + 1) - 1) /\ j \in 1..Len(todo') /\ j \in Nat
  BY <1>1
<1>3. todo[i + 1].at = "scan" /\ todo'[j] = todo[j + 1]
  BY <1>1, <1>2
<1>4. /\ todo[j + 1].at \notin {"scan", "trySend"}
      /\ todo[j + 1].at = "clear" => todo[j + 1].n # "DELAY"
      /\ todo[j + 1].at = "read" =>
             /\ notification # "DELAY"
             /\ j + 1 = 1 \/ (j + 1 = 2 /\ todo[1].at \in {"txDone", "rxDone"})
  BY <1>2, <1>3 DEF Scan
<1>5. todo[j + 1].at = "read" => j = 1 /\ notification' = notification
  BY <1>2, <1>4
<1> QED
  BY <1>3, <1>4, <1>5

\* A call keeps it when the frame has no scan below it, or is harmless.
LEMMA PushKeepsScan ==
    ASSUME todo \in Seq(Steps), todo # << >>, Scan(todo, notification),
           todo[1].at \notin {"txDone", "rxDone"},
           NEW f \in Seq(Steps), Goto(f), Scan(f, notification'),
           (\E i \in 2..Len(todo) : todo[i].at = "scan") => Harmless(f, notification')
    PROVE  Scan(todo', notification')
<1>1. /\ todo' \in Seq(Steps) /\ Len(todo) \in Nat /\ Len(todo) >= 1 /\ Len(f) \in Nat
      /\ Len(todo') = Len(f) + Len(todo) - 1
      /\ \A i \in 1..Len(f) : i \in 1..Len(todo') /\ todo'[i] = f[i]
      /\ \A i \in (Len(f) + 1)..Len(todo') :
             i - Len(f) + 1 \in 2..Len(todo) /\ todo'[i] = todo[i - Len(f) + 1]
  BY GotoResult
<1> SUFFICES ASSUME NEW i \in 1..Len(todo'), todo'[i].at = "scan", NEW j \in 1..(i - 1)
             PROVE  /\ todo'[j].at \notin {"scan", "trySend"}
                    /\ todo'[j].at = "clear" => todo'[j].n # "DELAY"
                    /\ todo'[j].at = "read" =>
                           /\ notification' # "DELAY"
                           /\ j = 1 \/ (j = 2 /\ todo'[1].at \in {"txDone", "rxDone"})
  BY DEF Scan
<1>2. CASE i <= Len(f)
  <2>1. i \in 1..Len(f) /\ j \in 1..Len(f) /\ 1 \in 1..Len(f)
    BY <1>1, <1>2
  <2>2. todo'[i] = f[i] /\ todo'[j] = f[j] /\ todo'[1] = f[1]
    BY <1>1, <2>1
  <2> QED
    BY <2>1, <2>2 DEF Scan
<1>3. CASE i > Len(f)
  <2> DEFINE k == i - Len(f) + 1
  <2>1. k \in 2..Len(todo) /\ todo[k].at = "scan" /\ k \in 1..Len(todo)
    BY <1>1, <1>3
  <2>2. CASE j <= Len(f)
    <3>1. j \in 1..Len(f) /\ 1 \in 1..Len(f)
      BY <1>1, <2>2
    <3>2. todo'[j] = f[j] /\ todo'[1] = f[1]
      BY <1>1, <3>1
    <3>3. Harmless(f, notification')
      BY <2>1
    <3> QED
      BY <3>1, <3>2, <3>3 DEF Harmless
  <2>3. CASE j > Len(f)
    <3> DEFINE l == j - Len(f) + 1
    <3>1. l \in 2..Len(todo) /\ todo'[j] = todo[l] /\ l \in 1..(k - 1) /\ l # 1
      BY <1>1, <1>3, <2>3
    <3> HIDE DEF k, l
    <3>2. /\ todo[l].at \notin {"scan", "trySend"}
          /\ todo[l].at = "clear" => todo[l].n # "DELAY"
          /\ todo[l].at = "read" => l = 1 \/ todo[1].at \in {"txDone", "rxDone"}
      BY <2>1, <3>1 DEF Scan
    <3> QED
      BY <3>1, <3>2
  <2> QED
    BY <1>1, <2>2, <2>3
<1> QED
  BY <1>1, <1>2, <1>3

(***************************************************************************)
(* The frames are in order.                                                *)
(***************************************************************************)

\* One step.
LEMMA SingleOrder ==
    ASSUME NEW s \in Steps, s.at \notin {"standby", "txDone", "rxDone"}, NEW k
    PROVE  /\ << s >> \in Seq(Steps) /\ Len(<< s >>) = 1 /\ << s >>[1] = s
           /\ Stack(<< s >>) /\ Scan(<< s >>, k)
<1> DEFINE f == << s >>
<1>1. f \in Seq(Steps) /\ Len(f) = 1 /\ f[1] = s
  OBVIOUS
<1> HIDE DEF f
<1>2. Stack(f) /\ Scan(f, k)
  BY <1>1 DEF Stack, Scan
<1> QED
  BY <1>1, <1>2 DEF f

\* startReceive().
LEMMA ReceiveOrder ==
    ASSUME NEW k
    PROVE  Stack(StartReceive) /\ Scan(StartReceive, k)
<1>1. /\ Len(StartReceive) = 3
      /\ StartReceive[1].at = "read" /\ StartReceive[2].at = "standby"
      /\ StartReceive[3].at = "listen"
  BY ReceiveFrame, StepTypes DEF Labels
<1> QED
  BY <1>1 DEF Stack, Scan

\* startReceive(), setTransmitDelay().
LEMMA ReceiveDelayOrder ==
    ASSUME NEW k
    PROVE  LET f == StartReceive \o SetTransmitDelay
           IN  Stack(f) /\ Scan(f, k)
<1> DEFINE f == StartReceive \o SetTransmitDelay
<1>1. /\ Len(f) = 4
      /\ f[1].at = "read" /\ f[2].at = "standby" /\ f[3].at = "listen" /\ f[4].at = "delay"
  BY ReceiveDelayFrame, StepTypes DEF Labels
<1> HIDE DEF f
<1>2. Stack(f) /\ Scan(f, k)
  BY <1>1 DEF Stack, Scan
<1> QED
  BY <1>2 DEF f

\* setStandby() before a scan.
LEMMA ScanOrder ==
    ASSUME NEW k, k # "DELAY"
    PROVE  LET f == SetStandby \o << Step("scan") >>
           IN  Stack(f) /\ Scan(f, k)
<1> DEFINE f == SetStandby \o << Step("scan") >>
<1>1. /\ Len(f) = 3
      /\ f[1].at = "read" /\ f[2].at = "standby" /\ f[3].at = "scan"
  BY ScanFrame, StepTypes DEF Labels
<1> HIDE DEF f
<1>2. Stack(f) /\ Scan(f, k)
  BY <1>1 DEF Stack, Scan
<1> QED
  BY <1>2 DEF f

\* reconfigure().
LEMMA ReconfigureOrder ==
    ASSUME NEW k
    PROVE  LET f == SetStandby \o StartReceive
           IN  Stack(f) /\ Scan(f, k)
<1> DEFINE f == SetStandby \o StartReceive
<1>1. /\ Len(f) = 5
      /\ f[1].at = "read" /\ f[2].at = "standby"
      /\ f[3].at = "read" /\ f[4].at = "standby" /\ f[5].at = "listen"
  BY ReconfigureFrame, StepTypes DEF Labels
<1> HIDE DEF f
<1>2. Stack(f) /\ Scan(f, k)
  BY <1>1 DEF Stack, Scan
<1> QED
  BY <1>2 DEF f

\* handleTransmitInterrupt() or handleReceiveInterrupt() and what follows: even above a
\* scan when no delay has ended.
LEMMA DoneOrder ==
    ASSUME NEW x \in {"txDone", "rxDone"}, NEW k
    PROVE  LET f == << Step(x) >> \o StartReceive \o SetTransmitDelay
           IN  Stack(f) /\ Scan(f, k) /\ (k # "DELAY" => Harmless(f, k))
<1> DEFINE f == << Step(x) >> \o StartReceive \o SetTransmitDelay
<1>1. /\ Len(f) = 5
      /\ f[1] = Step(x) /\ f[2] = Step("read") /\ f[3] = Step("standby")
      /\ f[4] = Step("listen") /\ f[5] = Step("delay")
  BY DoneFrame
<1> HIDE DEF f
<1>2. /\ f[1].at = x /\ f[2].at = "read" /\ f[3].at = "standby"
      /\ f[4].at = "listen" /\ f[5].at = "delay"
  BY <1>1, StepTypes DEF Labels
<1>3. Stack(f) /\ Scan(f, k)
  BY <1>1, <1>2 DEF Stack, Scan
<1>4. k # "DELAY" => Harmless(f, k)
  BY <1>1, <1>2 DEF Harmless
<1> QED
  BY <1>3, <1>4 DEF f

(***************************************************************************)
(* What is next, what is still to come and what is last after a step.      *)
(***************************************************************************)

\* After a return.
LEMMA Popped ==
    ASSUME todo \in Seq(Steps), todo # << >>, Return, Stack(todo)
    PROVE  /\ todo' \in Seq(Steps) /\ Stack(todo')
           /\ \A l : At(l)' => \/ l \in {"read", "standby", "delay"}
                               \/ l \in {"listen", "scan"} /\ todo[1].at = "standby"
           /\ Has({"scan"})' => Has({"scan"})
           /\ Has({"listen", "scan"}) /\ todo[1].at \notin {"listen", "scan"} =>
                  Has({"listen", "scan"})'
           /\ todo[1].at \in {"standby", "txDone", "rxDone"} =>
                  Has({"listen", "scan"})' /\ todo' # << >>
           /\ todo' # << >> => todo'[Len(todo')].at \in {"listen", "delay", "scan"}
<1>1. /\ todo' \in Seq(Steps) /\ Len(todo) \in Nat /\ Len(todo) >= 1
      /\ Len(todo') = Len(todo) - 1
      /\ \A i \in 1..Len(todo') : i + 1 \in 2..Len(todo) /\ todo'[i] = todo[i + 1]
      /\ \A i \in 2..Len(todo) : i - 1 \in 1..Len(todo') /\ todo'[i - 1] = todo[i]
  BY ReturnResult
<1>2. Stack(todo')
  BY PopKeepsStack
<1>3. todo' # << >> => /\ Len(todo') >= 1 /\ 1 \in 1..Len(todo') /\ Head(todo') = todo'[1]
                       /\ Len(todo') \in 1..Len(todo') /\ Len(todo') + 1 = Len(todo)
  BY <1>1, EmptySeq
<1>4. todo' # << >> => /\ 2 \in 2..Len(todo) /\ 2 - 1 = 1 /\ Head(todo') = todo[2]
                       /\ todo'[Len(todo')] = todo[Len(todo)] /\ Len(todo) > 1
  BY <1>1, <1>3
<1>5. \A l : At(l)' => \/ l \in {"read", "standby", "delay"}
                       \/ l \in {"listen", "scan"} /\ todo[1].at = "standby"
  BY <1>4 DEF At, Stack
<1>6. Has({"scan"})' => Has({"scan"})
  <2> SUFFICES ASSUME NEW i \in 1..Len(todo'), todo'[i].at = "scan" PROVE Has({"scan"})
    BY DEF Has
  <2>1. i + 1 \in 1..Len(todo) /\ todo[i + 1].at = "scan"
    BY <1>1
  <2> QED
    BY <2>1 DEF Has
<1>7. ASSUME NEW i \in 2..Len(todo), todo[i].at \in {"listen", "scan"}
      PROVE  Has({"listen", "scan"})' /\ todo' # << >>
  <2>1. i - 1 \in 1..Len(todo') /\ todo'[i - 1].at \in {"listen", "scan"}
    BY <1>1, <1>7
  <2>2. Len(todo') # 0
    BY <1>1, <1>7
  <2> QED
    BY <2>1, <2>2, EmptySeq DEF Has
<1>8. Has({"listen", "scan"}) /\ todo[1].at \notin {"listen", "scan"} => Has({"listen", "scan"})'
  <2> SUFFICES ASSUME NEW i \in 1..Len(todo), todo[i].at \in {"listen", "scan"},
                      todo[1].at \notin {"listen", "scan"}
               PROVE  Has({"listen", "scan"})'
    BY DEF Has
  <2>1. i \in 2..Len(todo)
    BY <1>1
  <2> QED
    BY <1>7, <2>1
<1>9. todo[1].at \in {"standby", "txDone", "rxDone"} => Has({"listen", "scan"})' /\ todo' # << >>
  <2> SUFFICES ASSUME todo[1].at \in {"standby", "txDone", "rxDone"}
               PROVE  Has({"listen", "scan"})' /\ todo' # << >>
    OBVIOUS
  <2>1. PICK j \in (1 + 1)..Len(todo) : todo[j].at \in {"listen", "scan"}
    <3>1. 1 \in 1..Len(todo)
      BY <1>1
    <3> QED
      BY <3>1 DEF Stack
  <2>2. j \in 2..Len(todo)
    OBVIOUS
  <2> QED
    BY <1>7, <2>1, <2>2
<1>10. todo' # << >> => todo'[Len(todo')].at \in {"listen", "delay", "scan"}
  BY <1>4 DEF Stack
<1> QED
  BY <1>1, <1>2, <1>5, <1>6, <1>8, <1>9, <1>10

\* After a call.
LEMMA Pushed ==
    ASSUME todo \in Seq(Steps), todo # << >>, Stack(todo), todo[1].at # "standby",
           NEW f \in Seq(Steps), Len(f) >= 1, Stack(f), Goto(f)
    PROVE  /\ todo' \in Seq(Steps) /\ todo' # << >> /\ Stack(todo')
           /\ Head(todo') = f[1] /\ \A l : At(l)' => l = f[1].at
           /\ Has({"scan"})' => \/ \E i \in 1..Len(f) : f[i].at = "scan"
                                \/ \E i \in 2..Len(todo) : todo[i].at = "scan"
           /\ Has({"listen", "scan"}) /\ todo[1].at \notin {"listen", "scan"} =>
                  Has({"listen", "scan"})'
           /\ \A i \in 1..Len(f) : f[i].at \in {"listen", "scan"} => Has({"listen", "scan"})'
           /\ todo'[Len(todo')].at \in {"listen", "delay", "scan", f[Len(f)].at}
<1>1. /\ todo' \in Seq(Steps) /\ Len(todo) \in Nat /\ Len(todo) >= 1 /\ Len(f) \in Nat
      /\ Len(todo') = Len(f) + Len(todo) - 1
      /\ \A i \in 1..Len(f) : i \in 1..Len(todo') /\ todo'[i] = f[i]
      /\ \A i \in (Len(f) + 1)..Len(todo') :
             i - Len(f) + 1 \in 2..Len(todo) /\ todo'[i] = todo[i - Len(f) + 1]
      /\ \A i \in 2..Len(todo) :
             i + Len(f) - 1 \in 1..Len(todo') /\ todo'[i + Len(f) - 1] = todo[i]
  BY GotoResult
<1>2. Stack(todo')
  BY PushKeepsStack
<1>3. todo' # << >> /\ Len(todo') >= 1 /\ Head(todo') = f[1]
  <2>1. Len(todo') >= 1 /\ 1 \in 1..Len(f)
    BY <1>1
  <2>2. todo'[1] = f[1]
    BY <1>1, <2>1
  <2> QED
    BY <1>1, <2>1, <2>2, EmptySeq
<1>4. \A l : At(l)' => l = f[1].at
  BY <1>3 DEF At
<1>5. Has({"scan"})' => \/ \E i \in 1..Len(f) : f[i].at = "scan"
                        \/ \E i \in 2..Len(todo) : todo[i].at = "scan"
  <2> SUFFICES ASSUME NEW i \in 1..Len(todo'), todo'[i].at = "scan"
               PROVE  \/ \E j \in 1..Len(f) : f[j].at = "scan"
                      \/ \E j \in 2..Len(todo) : todo[j].at = "scan"
    BY DEF Has
  <2>1. i \in 1..Len(f) \/ i \in (Len(f) + 1)..Len(todo')
    BY <1>1
  <2> QED
    BY <1>1, <2>1
<1>6. Has({"listen", "scan"}) /\ todo[1].at \notin {"listen", "scan"} => Has({"listen", "scan"})'
  <2> SUFFICES ASSUME NEW i \in 1..Len(todo), todo[i].at \in {"listen", "scan"},
                      todo[1].at \notin {"listen", "scan"}
               PROVE  Has({"listen", "scan"})'
    BY DEF Has
  <2>1. i \in 2..Len(todo)
    BY <1>1
  <2> QED
    BY <1>1, <2>1 DEF Has
<1>7. \A i \in 1..Len(f) : f[i].at \in {"listen", "scan"} => Has({"listen", "scan"})'
  BY <1>1 DEF Has
<1>8. todo'[Len(todo')].at \in {"listen", "delay", "scan", f[Len(f)].at}
  <2>1. CASE Len(todo) > 1
    <3>1. Len(todo) \in 2..Len(todo) /\ Len(todo) + Len(f) - 1 = Len(todo')
      BY <1>1, <2>1
    <3>2. todo'[Len(todo')] = todo[Len(todo)]
      BY <1>1, <3>1
    <3> QED
      BY <2>1, <3>2 DEF Stack
  <2>2. CASE ~(Len(todo) > 1)
    <3>1. Len(todo') = Len(f) /\ Len(f) \in 1..Len(f)
      BY <1>1, <2>2
    <3> QED
      BY <1>1, <3>1
  <2> QED
    BY <2>1, <2>2
<1> QED
  BY <1>1, <1>2, <1>3, <1>4, <1>5, <1>6, <1>7, <1>8

(***************************************************************************)
(* The queue and who holds each message.                                   *)
(***************************************************************************)

\* Messages are packets outside the late window; a packet bears the number of one message.
LEMMA PacketTypes ==
    /\ PacketSet(Queued) /\ Messages \subseteq Queued
    /\ \A p \in Queued : p # None /\ \E m \in Messages : p.n = m.n
    /\ \A p \in Queued : [p EXCEPT !.late = TRUE] \in Queued /\ [p EXCEPT !.late = TRUE].n = p.n
<1>1. ASSUME NEW m \in Messages
      PROVE  /\ m = [n |-> m.n, key |-> m.key, pri |-> m.pri, us |-> m.us, late |-> FALSE]
             /\ m.pri \in Nat /\ m.us \in BOOLEAN
  BY MessagesAssumption DEF MessagesAssumption
<1> DEFINE Set(m, l) == [m EXCEPT !.late = l]
           Of(m, l) == [n |-> m.n, key |-> m.key, pri |-> m.pri, us |-> m.us, late |-> l]
<1>2. ASSUME NEW m \in Messages, NEW l \in BOOLEAN
      PROVE  Set(m, l) = Of(m, l)
  BY <1>1
<1>3. ASSUME NEW m \in Messages, NEW l \in BOOLEAN
      PROVE  /\ Of(m, l).n = m.n /\ Of(m, l).late = l
             /\ Of(m, l).pri = m.pri /\ Of(m, l).us = m.us
  OBVIOUS
<1>4. \A m \in Messages : m = Of(m, FALSE)
  BY <1>1
<1>5. ASSUME NEW m \in Messages, NEW l \in BOOLEAN, NEW k \in BOOLEAN
      PROVE  [Of(m, l) EXCEPT !.late = k] = Of(m, k)
  OBVIOUS
<1>6. Queued = {Set(m, l) : m \in Messages, l \in BOOLEAN}
  BY DEF Queued
<1> HIDE DEF Set, Of
<1>7. \A p \in Queued : \E m \in Messages, l \in BOOLEAN : p = Of(m, l)
  <2> SUFFICES ASSUME NEW m \in Messages, NEW l \in BOOLEAN
               PROVE  \E mm \in Messages, ll \in BOOLEAN : Set(m, l) = Of(mm, ll)
    BY <1>6
  <2> QED
    BY <1>2, Zenon
<1>8. ASSUME NEW m \in Messages, NEW l \in BOOLEAN
      PROVE  Of(m, l) \in Queued
  <2>1. Set(m, l) \in Queued
    BY <1>6
  <2> QED
    BY <1>2, <2>1, Zenon
<1>9. ASSUME NEW p \in Queued
      PROVE  /\ \E m \in Messages : p.n = m.n
             /\ p.pri \in Int /\ p.us \in BOOLEAN /\ p.late \in BOOLEAN
             /\ [p EXCEPT !.late = TRUE] \in Queued /\ [p EXCEPT !.late = TRUE].n = p.n
  <2>1. PICK m \in Messages, l \in BOOLEAN : p = Of(m, l)
    BY <1>7, Zenon
  <2>2. /\ p.n = m.n /\ p.pri = m.pri /\ p.us = m.us /\ p.late = l
    BY <1>3, <2>1, Zenon
  <2>3. m.pri \in Int /\ m.us \in BOOLEAN
    BY <1>1
  <2>4. [p EXCEPT !.late = TRUE] = Of(m, TRUE)
    BY <1>5, <2>1, Zenon
  <2>5. Of(m, TRUE) \in Queued /\ Of(m, TRUE).n = m.n
    BY <1>3, <1>8, Zenon
  <2> QED
    BY <2>2, <2>3, <2>4, <2>5, Zenon
<1>10. PacketSet(Queued)
  BY <1>9, Zenon DEF PacketSet
<1>11. Messages \subseteq Queued
  BY <1>4, <1>8, Zenon
<1>12. \A p \in Queued : p # None
  BY NoneIsNothing
<1> QED
  BY <1>9, <1>10, <1>11, <1>12, Zenon

\* Two messages with one number are the same.
LEMMA OneMessage ==
    ASSUME NEW m1 \in Messages, NEW m2 \in Messages, m1.n = m2.n
    PROVE  m1 = m2
  BY MessagesAssumption DEF MessagesAssumption

\* Releasing one packet, or none.
LEMMA ReleaseOne ==
    ASSUME freed \in [Messages -> Nat], NEW p, Release(<< p >>)
    PROVE  /\ freed' \in [Messages -> Nat]
           /\ \A m \in Messages : freed'[m] = freed[m] + (IF p.n = m.n THEN 1 ELSE 0)
<1>1. ASSUME NEW m \in Messages
      PROVE  Cardinality({i \in DOMAIN << p >> : << p >>[i].n = m.n}) =
                 IF p.n = m.n THEN 1 ELSE 0
  <2>1. CASE p.n = m.n
    <3>1. {i \in DOMAIN << p >> : << p >>[i].n = m.n} = {1}
      BY <2>1
    <3> QED
      BY <2>1, <3>1, FS_Singleton
  <2>2. CASE p.n # m.n
    <3>1. {i \in DOMAIN << p >> : << p >>[i].n = m.n} = {}
      BY <2>2
    <3> QED
      BY <2>2, <3>1, FS_EmptySet
  <2> QED
    BY <2>1, <2>2
<1>2. freed' = [m \in Messages |-> freed[m] +
                   Cardinality({i \in DOMAIN << p >> : << p >>[i].n = m.n})]
  BY DEF Release
<1>3. \A m \in Messages : freed'[m] = freed[m] + (IF p.n = m.n THEN 1 ELSE 0)
  BY <1>1, <1>2
<1>4. \A m \in Messages : freed'[m] \in Nat
  BY <1>3
<1> QED
  BY <1>2, <1>3, <1>4

\* Releasing no packet changes nothing.
LEMMA ReleaseNone ==
    ASSUME freed \in [Messages -> Nat], Release(<< >>)
    PROVE  freed' = freed
<1>1. ASSUME NEW m \in Messages
      PROVE  Cardinality({i \in DOMAIN << >> : << >>[i].n = m.n}) = 0
  <2>1. {i \in DOMAIN << >> : << >>[i].n = m.n} = {}
    OBVIOUS
  <2> QED
    BY <2>1, FS_EmptySet
<1>2. freed' = [m \in Messages |-> freed[m] +
                   Cardinality({i \in DOMAIN << >> : << >>[i].n = m.n})]
  BY DEF Release
<1>3. freed' = [m \in Messages |-> freed[m]]
  BY <1>1, <1>2
<1> QED
  BY <1>3

\* What the queue and the packet in the air are to each other.
QueueTypes ==
    /\ txQueue \in Seq(Queued) /\ sendingPacket \in Queued \cup {None}
    /\ unsent \in SUBSET Messages /\ freed \in [Messages -> Nat]

\* Nothing happens to the packets.
LEMMA QueueKept ==
    ASSUME QueueTypes, QueueInv, UNCHANGED << txQueue, sendingPacket, unsent, freed >>
    PROVE  QueueTypes' /\ QueueInv'
  BY DEF QueueTypes, QueueInv, Owned, Held, Sorted, Distinct, Numbers

\* completeSending() releases what was in the air.
LEMMA CompleteKeeps ==
    ASSUME QueueTypes, QueueInv, CompleteSending
    PROVE  QueueTypes' /\ QueueInv'
<1>1. CASE sendingPacket = None
  <2>1. UNCHANGED << txQueue, sendingPacket, unsent, freed >>
    BY <1>1 DEF CompleteSending
  <2> QED
    BY <2>1, QueueKept
<1>2. CASE sendingPacket # None
  <2>1. /\ sendingPacket' = None /\ Release(<< sendingPacket >>)
        /\ txQueue' = txQueue /\ unsent' = unsent
    BY <1>2 DEF CompleteSending
  <2>2. /\ freed' \in [Messages -> Nat]
        /\ \A m \in Messages : freed'[m] = freed[m] + (IF sendingPacket.n = m.n THEN 1 ELSE 0)
    BY <2>1, ReleaseOne DEF QueueTypes
  <2>3. QueueTypes'
    BY <2>1, <2>2 DEF QueueTypes
  <2>4. \A m \in Messages : ~Held(m)' /\ (freed'[m] = IF Held(m) THEN freed[m] + 1 ELSE freed[m])
    BY <1>2, <2>1, <2>2 DEF Held, QueueTypes
  <2>5. Owned'
    <3> HIDE DEF Held
    <3> SUFFICES ASSUME NEW m \in Messages
                 PROVE  \/ m \in unsent /\ m.n \notin Numbers(txQueue) /\ freed'[m] = 0
                        \/ m \notin unsent /\ m.n \in Numbers(txQueue) /\ freed'[m] = 0
                        \/ m \notin unsent /\ m.n \notin Numbers(txQueue) /\ freed'[m] = 1
      BY <2>1, <2>4 DEF QueueInv, Owned
    <3> QED
      BY <2>4 DEF QueueInv, Owned
  <2> QED
    BY <2>1, <2>3, <2>5 DEF QueueInv
<1> QED
  BY <1>1, <1>2

\* dequeue() takes the first packet, which is sent.
LEMMA DequeueKeeps ==
    ASSUME QueueTypes, QueueInv, txQueue # << >>, sendingPacket = None,
           sendingPacket' = Head(txQueue), txQueue' = Tail(txQueue), UNCHANGED << unsent, freed >>
    PROVE  QueueTypes' /\ QueueInv' /\ sendingPacket' # None
<1>1. /\ Head(txQueue) \in Queued /\ Tail(txQueue) \in Seq(Queued) /\ Head(txQueue) # None
      /\ Len(txQueue) \in Nat /\ Len(txQueue) >= 1 /\ Head(txQueue) = txQueue[1]
      /\ Len(Tail(txQueue)) = Len(txQueue) - 1
  BY EmptySeq, NoneIsNothing DEF QueueTypes
<1>2. Sorted(Tail(txQueue)) /\ Distinct(Tail(txQueue))
      /\ Numbers(Tail(txQueue)) = Numbers(txQueue) \ {Head(txQueue).n}
  BY TailKeepsOrder, TailNumbers DEF QueueTypes, QueueInv, Owned
<1>3. Head(txQueue).n \in Numbers(txQueue)
  BY <1>1 DEF Numbers
<1>4. QueueTypes' /\ Sorted(txQueue') /\ Len(txQueue') <= MaxLen /\ Distinct(txQueue')
  BY <1>1, <1>2, MaxLenAssumption DEF QueueTypes, QueueInv, MaxLenAssumption
<1>5. \A m \in Messages : ~Held(m) /\ (Held(m)' <=> Head(txQueue).n = m.n)
  BY <1>1 DEF Held
<1>6. Owned'
  <2> SUFFICES ASSUME NEW m \in Messages
               PROVE  \/ m \in unsent /\ m.n \notin Numbers(txQueue') /\ ~Held(m)' /\ freed[m] = 0
                      \/ m \notin unsent /\ m.n \in Numbers(txQueue') /\ ~Held(m)' /\ freed[m] = 0
                      \/ m \notin unsent /\ m.n \notin Numbers(txQueue') /\ Held(m)' /\ freed[m] = 0
                      \/ m \notin unsent /\ m.n \notin Numbers(txQueue') /\ ~Held(m)' /\ freed[m] = 1
    BY <1>4 DEF Owned
  <2>1. \/ m \in unsent /\ m.n \notin Numbers(txQueue) /\ freed[m] = 0
        \/ m \notin unsent /\ m.n \in Numbers(txQueue) /\ freed[m] = 0
        \/ m \notin unsent /\ m.n \notin Numbers(txQueue) /\ freed[m] = 1
    BY <1>5 DEF QueueInv, Owned
  <2>2. m.n \in Numbers(txQueue') <=> m.n \in Numbers(txQueue) /\ m.n # Head(txQueue).n
    BY <1>2
  <2> QED
    BY <1>3, <1>5, <2>1, <2>2
<1> QED
  BY <1>1, <1>4, <1>6 DEF QueueInv

\* A packet that waits is taken out and released.
LEMMA DropKeeps ==
    ASSUME QueueTypes, QueueInv, NEW i \in 1..Len(txQueue), txQueue' \in Seq(Queued),
           Len(txQueue') <= MaxLen, Sorted(txQueue'), Distinct(txQueue'),
           Numbers(txQueue') = Numbers(txQueue) \ {txQueue[i].n},
           Release(<< txQueue[i] >>), UNCHANGED << sendingPacket, unsent >>
    PROVE  QueueTypes' /\ QueueInv'
<1>1. /\ freed' \in [Messages -> Nat]
      /\ \A m \in Messages : freed'[m] = freed[m] + (IF txQueue[i].n = m.n THEN 1 ELSE 0)
  BY ReleaseOne DEF QueueTypes
<1>2. txQueue[i].n \in Numbers(txQueue)
  BY DEF Numbers
<1>3. \A m \in Messages : Held(m)' <=> Held(m)
  BY DEF Held
<1>4. Owned'
  <2> SUFFICES ASSUME NEW m \in Messages
               PROVE  \/ m \in unsent /\ m.n \notin Numbers(txQueue') /\ ~Held(m) /\ freed'[m] = 0
                      \/ m \notin unsent /\ m.n \in Numbers(txQueue') /\ ~Held(m) /\ freed'[m] = 0
                      \/ m \notin unsent /\ m.n \notin Numbers(txQueue') /\ Held(m) /\ freed'[m] = 0
                      \/ m \notin unsent /\ m.n \notin Numbers(txQueue') /\ ~Held(m) /\ freed'[m] = 1
    BY <1>3 DEF Owned
  <2>1. freed[m] \in Nat
    BY DEF QueueTypes
  <2>2. m.n \in Numbers(txQueue') <=> m.n \in Numbers(txQueue) /\ m.n # txQueue[i].n
    OBVIOUS
  <2>3. txQueue[i].n = m.n => m.n \in Numbers(txQueue) /\ freed'[m] = freed[m] + 1
    BY <1>1, <1>2
  <2>4. txQueue[i].n # m.n => freed'[m] = freed[m]
    BY <1>1, <2>1
  <2> QED
    BY <2>2, <2>3, <2>4 DEF QueueInv, Owned
<1> QED
  BY <1>1, <1>4 DEF QueueInv, QueueTypes

\* send() queues the message, perhaps in the place of one it drops, or releases it.
LEMMA SendQueue ==
    ASSUME QueueTypes, QueueInv, NEW m \in Messages, Send(m)
    PROVE  QueueTypes' /\ QueueInv'
<1> DEFINE r == Enqueue(txQueue, m)
<1>1. m \in unsent /\ m \in Queued /\ PacketSet(Queued) /\ txQueue \in Seq(Queued)
      /\ Sorted(txQueue) /\ Len(txQueue) <= MaxLen /\ Distinct(txQueue)
  BY PacketTypes DEF Send, QueueTypes, QueueInv, Owned
<1>2. m.n \notin Numbers(txQueue) /\ ~Held(m) /\ freed[m] = 0
  BY <1>1 DEF QueueInv, Owned
<1>3. /\ r.queue \in Seq(Queued) /\ Sorted(r.queue) /\ Len(r.queue) <= MaxLen
      /\ Distinct(r.queue)
  BY <1>1, <1>2, EnqueueResult, EnqueueNumbers
<1>4. \/ r.ok /\ r.freed = << >> /\ Numbers(r.queue) = Numbers(txQueue) \cup {m.n}
      \/ /\ r.ok
         /\ \E v \in 1..Len(txQueue) :
                /\ r.freed = << txQueue[v] >>
                /\ Numbers(r.queue) = (Numbers(txQueue) \ {txQueue[v].n}) \cup {m.n}
      \/ ~r.ok /\ r.freed = << >> /\ r.queue = txQueue
  BY <1>1, <1>2, EnqueueNumbers
<1>5. /\ unsent' = unsent \ {m} /\ txQueue' = r.queue /\ sendingPacket' = sendingPacket
      /\ Release(IF r.ok THEN r.freed ELSE << m >>)
  BY DEF Send
<1> HIDE DEF r
<1>6. /\ sendingPacket' \in Queued \cup {None} /\ unsent' \in SUBSET Messages
      /\ txQueue' \in Seq(Queued) /\ Sorted(txQueue') /\ Len(txQueue') <= MaxLen
      /\ Distinct(txQueue')
  BY <1>3, <1>5 DEF QueueTypes
<1>7. \A m2 \in Messages : (m2.n = m.n <=> m2 = m) /\ (Held(m2)' <=> Held(m2))
                           /\ freed[m2] \in Nat
  BY <1>5, OneMessage DEF Held, QueueTypes
<1> SUFFICES /\ freed' \in [Messages -> Nat]
             /\ \A m2 \in Messages :
                    \/ m2 \in unsent' /\ m2.n \notin Numbers(txQueue') /\ ~Held(m2) /\ freed'[m2] = 0
                    \/ m2 \notin unsent' /\ m2.n \in Numbers(txQueue') /\ ~Held(m2) /\ freed'[m2] = 0
                    \/ m2 \notin unsent' /\ m2.n \notin Numbers(txQueue') /\ Held(m2) /\ freed'[m2] = 0
                    \/ m2 \notin unsent' /\ m2.n \notin Numbers(txQueue') /\ ~Held(m2) /\ freed'[m2] = 1
  BY <1>6, <1>7 DEF QueueTypes, QueueInv, Owned
<1>8. CASE r.ok /\ r.freed = << >> /\ Numbers(r.queue) = Numbers(txQueue) \cup {m.n}
  <2>1. freed' = freed
    BY <1>5, <1>8, ReleaseNone DEF QueueTypes
  <2> HIDE DEF Held
  <2> QED
    BY <1>1, <1>2, <1>5, <1>7, <1>8, <2>1 DEF QueueInv, Owned, QueueTypes
<1>9. ASSUME r.ok, NEW v \in 1..Len(txQueue), r.freed = << txQueue[v] >>,
             Numbers(r.queue) = (Numbers(txQueue) \ {txQueue[v].n}) \cup {m.n}
      PROVE  /\ freed' \in [Messages -> Nat]
             /\ \A m2 \in Messages :
                    \/ m2 \in unsent' /\ m2.n \notin Numbers(txQueue') /\ ~Held(m2) /\ freed'[m2] = 0
                    \/ m2 \notin unsent' /\ m2.n \in Numbers(txQueue') /\ ~Held(m2) /\ freed'[m2] = 0
                    \/ m2 \notin unsent' /\ m2.n \notin Numbers(txQueue') /\ Held(m2) /\ freed'[m2] = 0
                    \/ m2 \notin unsent' /\ m2.n \notin Numbers(txQueue') /\ ~Held(m2) /\ freed'[m2] = 1
  <2>1. Release(<< txQueue[v] >>)
    BY <1>5, <1>9
  <2>2. /\ freed' \in [Messages -> Nat]
        /\ \A m2 \in Messages : freed'[m2] = freed[m2] + (IF txQueue[v].n = m2.n THEN 1 ELSE 0)
    BY <2>1, ReleaseOne DEF QueueTypes
  <2>3. txQueue[v].n \in Numbers(txQueue)
    BY DEF Numbers
  <2>4. ASSUME NEW m2 \in Messages
        PROVE  \/ m2 \in unsent' /\ m2.n \notin Numbers(txQueue') /\ ~Held(m2) /\ freed'[m2] = 0
               \/ m2 \notin unsent' /\ m2.n \in Numbers(txQueue') /\ ~Held(m2) /\ freed'[m2] = 0
               \/ m2 \notin unsent' /\ m2.n \notin Numbers(txQueue') /\ Held(m2) /\ freed'[m2] = 0
               \/ m2 \notin unsent' /\ m2.n \notin Numbers(txQueue') /\ ~Held(m2) /\ freed'[m2] = 1
    <3> HIDE DEF Held
    <3>1. /\ m2.n \in Numbers(txQueue') <=>
                 (m2.n \in Numbers(txQueue) /\ m2.n # txQueue[v].n) \/ m2 = m
          /\ m2 \in unsent' <=> m2 \in unsent /\ m2 # m
      BY <1>5, <1>7, <1>9
    <3>2. txQueue[v].n = m2.n => m2.n \in Numbers(txQueue) /\ freed'[m2] = freed[m2] + 1
      BY <2>2, <2>3
    <3>3. txQueue[v].n # m2.n => freed'[m2] = freed[m2]
      BY <1>7, <2>2
    <3> QED
      BY <1>1, <1>2, <3>1, <3>2, <3>3 DEF QueueInv, Owned
  <2> QED
    BY <2>2, <2>4
<1>10. CASE ~r.ok /\ r.queue = txQueue
  <2>1. Release(<< m >>)
    BY <1>5, <1>10
  <2>2. /\ freed' \in [Messages -> Nat]
        /\ \A m2 \in Messages : freed'[m2] = freed[m2] + (IF m.n = m2.n THEN 1 ELSE 0)
    BY <2>1, ReleaseOne DEF QueueTypes
  <2>3. \A m2 \in Messages : freed'[m2] = IF m2 = m THEN 1 ELSE freed[m2]
    BY <1>2, <1>7, <2>2
  <2> HIDE DEF Held
  <2> QED
    BY <1>1, <1>2, <1>5, <1>10, <2>2, <2>3 DEF QueueInv, Owned
<1> QED
  BY <1>4, <1>8, <1>9, <1>10

\* cancelSending() takes a packet out and releases it.
LEMMA CancelQueue ==
    ASSUME QueueTypes, QueueInv, NEW key, CancelSending(key)
    PROVE  QueueTypes' /\ QueueInv' /\ txQueue # << >>
<1> DEFINE i == Find(txQueue, key, TRUE, TRUE)
<1>1. i # 0 /\ txQueue' = RemoveAt(txQueue, i) /\ Release(<< txQueue[i] >>)
      /\ UNCHANGED << sendingPacket, unsent >>
  BY DEF CancelSending
<1>2. txQueue \in Seq(Queued) /\ Sorted(txQueue) /\ Distinct(txQueue)
      /\ Len(txQueue) <= MaxLen /\ Len(txQueue) \in Nat
  BY DEF QueueTypes, QueueInv, Owned
<1>3. i \in 1..Len(txQueue)
  <2>1. PICK yes \in BOOLEAN : yes <=> TRUE
    OBVIOUS
  <2>2. i = Find(txQueue, key, yes, yes)
    BY <2>1
  <2> QED
    BY <1>1, <1>2, <2>2, FindResult
<1> HIDE DEF i
<1>4. /\ RemoveAt(txQueue, i) \in Seq(Queued) /\ Len(RemoveAt(txQueue, i)) = Len(txQueue) - 1
      /\ Sorted(RemoveAt(txQueue, i)) /\ Distinct(RemoveAt(txQueue, i))
      /\ Numbers(RemoveAt(txQueue, i)) = Numbers(txQueue) \ {txQueue[i].n}
  BY <1>2, <1>3, RemoveAtResult, RemoveKeepsOrder, RemoveNumbers
<1>5. Len(txQueue') <= MaxLen
  BY <1>1, <1>2, <1>4, MaxLenAssumption DEF MaxLenAssumption
<1>6. txQueue # << >>
  BY <1>2, <1>3
<1> QED
  BY <1>1, <1>3, <1>4, <1>5, <1>6, DropKeeps

\* A packet that is moved to the late window stays in the queue, which had room for it.
LEMMA ClampQueue ==
    ASSUME QueueTypes, QueueInv, NEW key, ClampToLateRebroadcastWindow(key)
    PROVE  QueueTypes' /\ QueueInv' /\ txQueue # << >>
<1> DEFINE i == Find(txQueue, key, TRUE, FALSE)
           p == [txQueue[i] EXCEPT !.late = TRUE]
           t == RemoveAt(txQueue, i)
<1>1. i # 0 /\ txQueue' = Enqueue(t, p).queue /\ UNCHANGED << sendingPacket, unsent, freed >>
  BY DEF ClampToLateRebroadcastWindow
<1>2. txQueue \in Seq(Queued) /\ Sorted(txQueue) /\ Distinct(txQueue)
      /\ Len(txQueue) <= MaxLen /\ Len(txQueue) \in Nat
  BY DEF QueueTypes, QueueInv, Owned
<1>3. i \in 1..Len(txQueue)
  <2>1. PICK yes \in BOOLEAN : yes <=> TRUE
    OBVIOUS
  <2>2. PICK no \in BOOLEAN : no <=> FALSE
    OBVIOUS
  <2>3. i = Find(txQueue, key, yes, no)
    BY <2>1, <2>2
  <2> QED
    BY <1>1, <1>2, <2>3, FindResult
<1> HIDE DEF i
<1>4. p \in Queued /\ p.n = txQueue[i].n /\ txQueue[i].n \in Numbers(txQueue)
  <2>1. txQueue[i] \in Queued
    BY <1>2, <1>3
  <2>2. p \in Queued /\ p.n = txQueue[i].n
    BY <2>1, PacketTypes
  <2> QED
    BY <1>3, <2>2 DEF Numbers
<1>5. /\ t \in Seq(Queued) /\ Len(t) = Len(txQueue) - 1 /\ Sorted(t) /\ Distinct(t)
      /\ Numbers(t) = Numbers(txQueue) \ {txQueue[i].n}
  BY <1>2, <1>3, RemoveAtResult, RemoveKeepsOrder, RemoveNumbers
<1> HIDE DEF p, t
<1>6. Len(t) <= MaxLen /\ Len(t) < MaxLen /\ p.n \notin Numbers(t) /\ PacketSet(Queued)
  BY <1>2, <1>4, <1>5, MaxLenAssumption, PacketTypes DEF MaxLenAssumption
<1>7. /\ Enqueue(t, p).queue \in Seq(Queued) /\ Sorted(Enqueue(t, p).queue)
      /\ Len(Enqueue(t, p).queue) <= MaxLen /\ Enqueue(t, p).queue = Insert(t, p)
  BY <1>4, <1>5, <1>6, EnqueueResult
<1>8. Distinct(Insert(t, p)) /\ Numbers(Insert(t, p)) = Numbers(t) \cup {p.n}
  BY <1>4, <1>5, <1>6, InsertNumbers
<1>9. Numbers(txQueue') = Numbers(txQueue)
  BY <1>1, <1>4, <1>5, <1>7, <1>8
<1>10. \A m \in Messages : Held(m)' <=> Held(m)
  BY <1>1 DEF Held
<1>11. QueueTypes' /\ QueueInv'
  <2> HIDE DEF Held
  <2>1. Distinct(txQueue')
    BY <1>1, <1>7, <1>8
  <2>2. Owned'
    BY <1>1, <1>9, <1>10, <2>1 DEF Owned, QueueInv
  <2> QED
    BY <1>1, <1>7, <2>2 DEF QueueTypes, QueueInv
<1> QED
  BY <1>2, <1>3, <1>11

\* After a reboot every message that was given to send() counts as released.
LEMMA RebootQueue ==
    ASSUME QueueTypes, Reboot
    PROVE  QueueTypes' /\ QueueInv'
<1>1. /\ txQueue' = << >> /\ sendingPacket' = None /\ unsent' = unsent
      /\ freed' = [m \in Messages |-> IF m \in unsent THEN 0 ELSE 1]
  BY DEF Reboot
<1>2. Len(txQueue') = 0 /\ DOMAIN txQueue' = {}
  BY <1>1
<1>3. Sorted(txQueue') /\ Distinct(txQueue') /\ Numbers(txQueue') = {}
  BY <1>2 DEF Sorted, Distinct, Numbers
<1>4. Owned'
  BY <1>1, <1>3 DEF Owned, Held
<1>5. QueueTypes'
  BY <1>1 DEF QueueTypes
<1> QED
  BY <1>2, <1>3, <1>4, <1>5, MaxLenAssumption DEF QueueInv, MaxLenAssumption

(***************************************************************************)
(* The steps of the thread.                                                *)
(***************************************************************************)

\* The rest of the type invariant.
RadioTypes ==
    /\ todo \in Seq(Steps) /\ notification \in Notifications /\ enabled \in BOOLEAN
    /\ chip \in {"standby", "rx", "tx"} /\ irqAction \in Causes \cup {None}
    /\ {irq, air} \subseteq {None, "preamble", "header"}
    /\ activeReceiveStart \in {"no", "own", "old"}
    /\ {isReceiving, airMoved, isrLost, untimed, failure} \subseteq BOOLEAN

\* TypeOK in two parts.
LEMMA Types == TypeOK <=> QueueTypes /\ RadioTypes
  BY DEF TypeOK, QueueTypes, RadioTypes, Steps, Notifications

\* The conjuncts the step lemmas start from, and those they establish.
LEMMA Parts ==
    ASSUME RadioInv
    PROVE  /\ QueueTypes /\ QueueInv /\ RadioTypes
           /\ todo \in Seq(Steps) /\ Stack(todo) /\ Scan(todo, notification)
           /\ NextStep /\ ChipInv /\ Enabling /\ Arming /\ Waking
  BY Types DEF RadioInv, RadioTypes, ScanReady

\* The parts make up the invariant.
LEMMA Together ==
    ASSUME QueueTypes', QueueInv', RadioTypes', Stack(todo'), Scan(todo', notification'),
           Has({"scan"})' =>
               txQueue' # << >> /\ sendingPacket' = None /\ notification' # "ISR_TX",
           NextStep', ChipInv', Enabling', Arming', Waking'
    PROVE  RadioInv'
<1>1. TypeOK'
  BY DEF TypeOK, QueueTypes, RadioTypes, Steps, Notifications
<1>2. ScanReady'
  BY DEF ScanReady
<1> QED
  BY <1>1, <1>2 DEF RadioInv

\* setStandby() stops the chip; a listen or a scan is still to come.
LEMMA StandbyStep ==
    ASSUME RadioInv, Standby
    PROVE  RadioInv'
<1>1. /\ QueueTypes /\ QueueInv /\ RadioTypes
      /\ todo \in Seq(Steps) /\ Stack(todo) /\ Scan(todo, notification)
      /\ NextStep /\ ChipInv /\ Enabling /\ Arming /\ Waking
  BY Parts
<1>2. todo # << >> /\ todo[1].at = "standby" /\ Head(todo) = todo[1]
  BY <1>1, AtFirst DEF Standby
<1>3. /\ Return /\ CompleteSending /\ chip' = "standby" /\ air' = None /\ irqAction' = None
      /\ UNCHANGED << notification, enabled, isrLost >>
      /\ txQueue' = txQueue /\ sendingPacket' = None
  BY DEF Standby, seen, CompleteSending
<1>4. QueueTypes' /\ QueueInv'
  BY <1>1, <1>3, CompleteKeeps
<1>5. /\ todo' \in Seq(Steps) /\ Stack(todo')
      /\ \A l : At(l)' => l \in {"read", "standby", "delay", "listen", "scan"}
      /\ Has({"scan"})' => Has({"scan"})
      /\ Has({"listen", "scan"})' /\ todo' # << >>
      /\ todo'[Len(todo')].at \in {"listen", "delay", "scan"}
  BY <1>1, <1>2, <1>3, Popped
<1>6. Scan(todo', notification')
  BY <1>1, <1>2, <1>3, PopKeepsScan
<1>7. RadioTypes'
  BY <1>1, <1>5 DEF RadioTypes, Standby, seen
<1>8. Has({"scan"})' =>
          txQueue' # << >> /\ sendingPacket' = None /\ notification' # "ISR_TX"
  BY <1>3, <1>5 DEF RadioInv, ScanReady
<1>9. NextStep'
  BY <1>3, <1>5 DEF NextStep
<1>10. ChipInv'
  BY <1>3, NoneIsNothing DEF ChipInv
<1>11. Enabling'
  BY <1>1, <1>2, <1>3 DEF Enabling, At
<1>12. Arming' /\ Waking'
  BY <1>5 DEF Arming, Waking
<1> QED
  BY <1>4, <1>5, <1>6, <1>7, <1>8, <1>9, <1>10, <1>11, <1>12, Together

\* startReceive(): the radio listens, with its handler attached.
LEMMA ListenStep ==
    ASSUME RadioInv, Listen
    PROVE  RadioInv'
<1>1. /\ QueueTypes /\ QueueInv /\ RadioTypes
      /\ todo \in Seq(Steps) /\ Stack(todo) /\ Scan(todo, notification)
      /\ NextStep /\ ChipInv /\ Enabling /\ Arming /\ Waking
  BY Parts
<1>2. todo # << >> /\ todo[1].at = "listen" /\ Head(todo) = todo[1]
  BY <1>1, AtFirst DEF Listen
<1>3. /\ Return /\ chip' = "rx" /\ irqAction' = "ISR_RX" /\ isReceiving' = TRUE
      /\ untimed' = (todo' = << >>) /\ isrLost' = FALSE
      /\ UNCHANGED << txQueue, sendingPacket, unsent, freed, notification, enabled, air >>
  BY DEF Listen, queue
<1>4. QueueTypes' /\ QueueInv'
  BY <1>1, <1>3, QueueKept
<1>5. /\ todo' \in Seq(Steps) /\ Stack(todo')
      /\ \A l : At(l)' => l \in {"read", "standby", "delay"}
      /\ Has({"scan"})' => Has({"scan"})
      /\ todo' # << >> => todo'[Len(todo')].at \in {"listen", "delay", "scan"}
  BY <1>1, <1>2, <1>3, Popped
<1>6. Scan(todo', notification')
  BY <1>1, <1>2, <1>3, PopKeepsScan
<1>7. RadioTypes'
  BY <1>1, <1>5, <1>3, NoneIsNothing DEF RadioTypes, Listen, Causes
<1>8. Has({"scan"})' =>
          txQueue' # << >> /\ sendingPacket' = None /\ notification' # "ISR_TX"
  BY <1>3, <1>5 DEF RadioInv, ScanReady
<1>9. NextStep'
  BY <1>3, <1>5 DEF NextStep
<1>10. ChipInv'
  BY <1>1, <1>3 DEF ChipInv
<1>11. Enabling'
  BY <1>1, <1>2, <1>3 DEF Enabling, At
<1>12. sendingPacket = None
  BY <1>1, <1>2 DEF NextStep, At
<1>13. Arming' /\ Waking'
  BY <1>3, <1>5, <1>12 DEF Arming, Waking
<1> QED
  BY <1>4, <1>5, <1>6, <1>7, <1>8, <1>9, <1>10, <1>11, <1>13, Together

\* notifyLater(): the end of the delay will be a notification.
LEMMA NotifyLaterStep ==
    ASSUME RadioInv, NotifyLater
    PROVE  RadioInv'
<1>1. /\ QueueTypes /\ QueueInv /\ RadioTypes
      /\ todo \in Seq(Steps) /\ Stack(todo) /\ Scan(todo, notification)
      /\ NextStep /\ ChipInv /\ Enabling /\ Arming /\ Waking
  BY Parts
<1>2. todo # << >> /\ todo[1].at = "notify" /\ Head(todo) = todo[1]
  BY <1>1, AtFirst DEF NotifyLater
<1>3. /\ Return /\ notification' = "DELAY" /\ enabled' = TRUE
      /\ isrLost' = (isrLost \/ notification # None)
      /\ UNCHANGED << txQueue, sendingPacket, unsent, freed, chip, irqAction, isReceiving,
                      irq, air, airMoved, activeReceiveStart, untimed, failure >>
  BY DEF NotifyLater, queue, radio
<1>4. QueueTypes' /\ QueueInv'
  BY <1>1, <1>3, QueueKept
<1>5. /\ todo' \in Seq(Steps) /\ Stack(todo')
      /\ \A l : At(l)' => l \in {"read", "standby", "delay"}
      /\ Has({"scan"})' => Has({"scan"})
      /\ Has({"listen", "scan"}) => Has({"listen", "scan"})'
  BY <1>1, <1>2, <1>3, Popped
<1>6. Scan(todo', notification')
  BY <1>1, <1>2, <1>3, PopKeepsScan
<1>7. RadioTypes'
  BY <1>1, <1>5, <1>3 DEF RadioTypes, Notifications
<1>8. Has({"scan"})' =>
          txQueue' # << >> /\ sendingPacket' = None /\ notification' # "ISR_TX"
  BY <1>3, <1>5 DEF RadioInv, ScanReady
<1>9. NextStep'
  BY <1>5 DEF NextStep
<1>10. ChipInv' /\ Enabling' /\ Waking'
  BY <1>1, <1>3, NoneIsNothing DEF ChipInv, Enabling, Waking
<1>11. Arming'
  <2> SUFFICES ASSUME ~isrLost'
               PROVE  \/ chip = "rx" /\ isReceiving /\ sendingPacket = None
                      \/ chip = "tx"
                      \/ Has({"listen", "scan"})'
    BY <1>3 DEF Arming
  <2>1. ~isrLost /\ notification = None
    BY <1>3
  <2> QED
    BY <1>1, <1>2, <1>5, <2>1, NoneIsNothing DEF Arming, Causes, At
<1> QED
  BY <1>4, <1>5, <1>6, <1>7, <1>8, <1>9, <1>10, <1>11, Together

\* handleTransmitInterrupt(): the packet is released; the chip is not transmitting.
LEMMA TransmitInterruptStep ==
    ASSUME RadioInv, HandleTransmitInterrupt
    PROVE  RadioInv'
<1>1. /\ QueueTypes /\ QueueInv /\ RadioTypes
      /\ todo \in Seq(Steps) /\ Stack(todo) /\ Scan(todo, notification)
      /\ NextStep /\ ChipInv /\ Enabling /\ Arming /\ Waking
  BY Parts
<1>2. todo # << >> /\ todo[1].at = "txDone" /\ Head(todo) = todo[1]
  BY <1>1, AtFirst DEF HandleTransmitInterrupt
<1>3. /\ Return /\ CompleteSending /\ txQueue' = txQueue /\ sendingPacket' = None
      /\ UNCHANGED << notification, enabled, chip, irqAction, isReceiving, irq, air, airMoved,
                      activeReceiveStart, isrLost, untimed, failure >>
  BY DEF HandleTransmitInterrupt, CompleteSending, radio, seen
<1>4. QueueTypes' /\ QueueInv'
  BY <1>1, <1>3, CompleteKeeps
<1>5. /\ todo' \in Seq(Steps) /\ Stack(todo')
      /\ \A l : At(l)' => l \in {"read", "standby", "delay"}
      /\ Has({"scan"})' => Has({"scan"})
      /\ Has({"listen", "scan"})' /\ todo' # << >>
      /\ todo'[Len(todo')].at \in {"listen", "delay", "scan"}
  BY <1>1, <1>2, <1>3, Popped
<1>6. Scan(todo', notification')
  BY <1>1, <1>2, <1>3, PopKeepsScan
<1>7. RadioTypes'
  BY <1>1, <1>5, <1>3 DEF RadioTypes
<1>8. Has({"scan"})' =>
          txQueue' # << >> /\ sendingPacket' = None /\ notification' # "ISR_TX"
  BY <1>3, <1>5 DEF RadioInv, ScanReady
<1>9. NextStep'
  BY <1>5 DEF NextStep
<1>10. chip # "tx"
  BY <1>1, <1>2 DEF NextStep, At
<1>11. ChipInv'
  BY <1>1, <1>3, <1>10 DEF ChipInv
<1>12. Enabling'
  BY <1>1, <1>2, <1>3 DEF Enabling, At
<1>13. Arming' /\ Waking'
  BY <1>5 DEF Arming, Waking
<1> QED
  BY <1>4, <1>5, <1>6, <1>7, <1>8, <1>9, <1>11, <1>12, <1>13, Together

\* handleReceiveInterrupt(): a listen is still to come.
LEMMA ReceiveInterruptStep ==
    ASSUME RadioInv, HandleReceiveInterrupt
    PROVE  RadioInv'
<1>1. /\ QueueTypes /\ QueueInv /\ RadioTypes
      /\ todo \in Seq(Steps) /\ Stack(todo) /\ Scan(todo, notification)
      /\ NextStep /\ ChipInv /\ Enabling /\ Arming /\ Waking
  BY Parts
<1>2. todo # << >> /\ todo[1].at = "rxDone" /\ Head(todo) = todo[1]
  BY <1>1, AtFirst DEF HandleReceiveInterrupt
<1>3. /\ Return /\ isReceiving' = FALSE /\ irq' = IF isReceiving THEN None ELSE irq
      /\ UNCHANGED << txQueue, sendingPacket, unsent, freed, notification, enabled, chip,
                      irqAction, air, airMoved, activeReceiveStart, isrLost, untimed,
                      failure >>
  BY DEF HandleReceiveInterrupt, queue, seen
<1>4. QueueTypes' /\ QueueInv'
  BY <1>1, <1>3, QueueKept
<1>5. /\ todo' \in Seq(Steps) /\ Stack(todo')
      /\ \A l : At(l)' => l \in {"read", "standby", "delay"}
      /\ Has({"scan"})' => Has({"scan"})
      /\ Has({"listen", "scan"})' /\ todo' # << >>
      /\ todo'[Len(todo')].at \in {"listen", "delay", "scan"}
  BY <1>1, <1>2, <1>3, Popped
<1>6. Scan(todo', notification')
  BY <1>1, <1>2, <1>3, PopKeepsScan
<1>7. RadioTypes'
  BY <1>1, <1>5, <1>3 DEF RadioTypes
<1>8. Has({"scan"})' =>
          txQueue' # << >> /\ sendingPacket' = None /\ notification' # "ISR_TX"
  BY <1>3, <1>5 DEF RadioInv, ScanReady
<1>9. NextStep'
  BY <1>5 DEF NextStep
<1>10. ChipInv'
  BY <1>1, <1>3 DEF ChipInv
<1>11. Enabling'
  BY <1>1, <1>2, <1>3 DEF Enabling, At
<1>12. Arming' /\ Waking'
  BY <1>5 DEF Arming, Waking
<1> QED
  BY <1>4, <1>5, <1>6, <1>7, <1>8, <1>9, <1>10, <1>11, <1>12, Together

\* startSend(): the first packet is in the air; no other scan waits below.
LEMMA StartSendStep ==
    ASSUME RadioInv, StartSend
    PROVE  RadioInv'
<1>1. /\ QueueTypes /\ QueueInv /\ RadioTypes
      /\ todo \in Seq(Steps) /\ Stack(todo) /\ Scan(todo, notification)
      /\ NextStep /\ ChipInv /\ Enabling /\ Arming /\ Waking
  BY Parts
<1>2. todo # << >> /\ todo[1].at = "scan" /\ Head(todo) = todo[1] /\ Len(todo) \in Nat
      /\ Len(todo) >= 1
  BY <1>1, AtFirst DEF StartSend
<1>3. /\ txQueue # << >> /\ Return /\ sendingPacket' = Head(txQueue) /\ txQueue' = Tail(txQueue)
      /\ chip' = "tx" /\ irqAction' = "ISR_TX" /\ irq' = None
      /\ UNCHANGED << unsent, freed, notification, enabled, isReceiving, air,
                      airMoved, activeReceiveStart, isrLost, untimed, failure >>
  BY DEF StartSend
<1>4. sendingPacket = None /\ chip = "standby"
  BY <1>1, <1>2 DEF NextStep, At
<1>5. notification # "ISR_TX"
  <2>1. 1 \in 1..Len(todo)
    BY <1>2
  <2> QED
    BY <1>2, <2>1 DEF RadioInv, ScanReady, Has
<1>6. QueueTypes' /\ QueueInv' /\ sendingPacket' # None
  BY <1>1, <1>3, <1>4, DequeueKeeps
<1>7. /\ todo' \in Seq(Steps) /\ Stack(todo')
      /\ \A l : At(l)' => l \in {"read", "standby", "delay"}
  BY <1>1, <1>2, <1>3, Popped
<1>8. ~Has({"scan"})'
  <2> SUFFICES ASSUME NEW i \in 1..Len(todo'), todo'[i].at = "scan"
               PROVE  FALSE
    BY DEF Has
  <2>1. i + 1 \in 2..Len(todo) /\ todo[i + 1].at = "scan"
    BY <1>1, <1>2, <1>3, ReturnResult
  <2>2. 1 \in 1..((i + 1) - 1) /\ i + 1 \in 1..Len(todo)
    BY <1>2, <2>1
  <2> QED
    BY <1>1, <1>2, <2>1, <2>2 DEF Scan
<1>9. Scan(todo', notification')
  BY <1>1, <1>2, <1>3, PopKeepsScan
<1>10. RadioTypes'
  BY <1>1, <1>7, <1>3 DEF RadioTypes, Causes
<1>11. NextStep'
  BY <1>7 DEF NextStep
<1>12. ChipInv'
  BY <1>1, <1>3, <1>4, <1>5, <1>6 DEF ChipInv
<1>13. Enabling'
  BY <1>1, <1>2, <1>3 DEF Enabling, At
<1>14. Arming' /\ Waking'
  BY <1>3 DEF Arming, Waking
<1> QED
  BY <1>6, <1>7, <1>8, <1>9, <1>10, <1>11, <1>12, <1>13, <1>14, Together

\* Above a scan no delay has ended, and nothing is about to be sent.
LEMMA AboveScan ==
    ASSUME todo \in Seq(Steps), Scan(todo, notification),
           NEW i \in 2..Len(todo), todo[i].at = "scan"
    PROVE  /\ todo[1].at \notin {"scan", "trySend"}
           /\ todo[1].at = "clear" => todo[1].n # "DELAY"
           /\ todo[1].at = "read" => notification # "DELAY"
<1>1. i \in 1..Len(todo) /\ 1 \in 1..(i - 1)
  OBVIOUS
<1> QED
  BY <1>1 DEF Scan

\* checkNotification() reads the notification.
LEMMA ReadStep ==
    ASSUME RadioInv, ReadNotification
    PROVE  RadioInv'
<1>1. /\ QueueTypes /\ QueueInv /\ RadioTypes
      /\ todo \in Seq(Steps) /\ Stack(todo) /\ Scan(todo, notification)
      /\ NextStep /\ ChipInv /\ Enabling /\ Arming /\ Waking
  BY Parts
<1>2. todo # << >> /\ todo[1].at = "read" /\ Head(todo) = todo[1]
  BY <1>1, AtFirst DEF ReadNotification
<1> DEFINE s == [at |-> "clear", n |-> notification]
           f == << s >>
<1>3. /\ Goto(f)
      /\ UNCHANGED << txQueue, sendingPacket, unsent, freed, notification, enabled, chip,
                      irqAction, isReceiving, irq, air, airMoved, activeReceiveStart, isrLost,
                      untimed, failure >>
  BY DEF ReadNotification, queue, radio, seen
<1>4. s \in Steps /\ s.at = "clear" /\ s.n = notification
  BY <1>1, StepTypes DEF RadioTypes
<1> HIDE DEF s
<1>5. f \in Seq(Steps) /\ Len(f) = 1 /\ f[1] = s /\ Stack(f) /\ Scan(f, notification')
  BY <1>4, SingleOrder
<1> HIDE DEF f
<1>6. QueueTypes' /\ QueueInv'
  BY <1>1, <1>3, QueueKept
<1>7. /\ todo' \in Seq(Steps) /\ todo' # << >> /\ Stack(todo')
      /\ Head(todo') = s /\ \A l : At(l)' => l = "clear"
      /\ Has({"scan"})' => \/ \E i \in 1..Len(f) : f[i].at = "scan"
                           \/ \E i \in 2..Len(todo) : todo[i].at = "scan"
      /\ Has({"listen", "scan"}) => Has({"listen", "scan"})'
      /\ todo'[Len(todo')].at \in {"listen", "delay", "scan", "clear"}
  <2>1. s.at = "clear" /\ Goto(f) /\ Len(f) >= 1
    BY <1>3, <1>4, <1>5
  <2> QED
    BY <1>1, <1>2, <1>5, <2>1, Pushed
<1>8. (\E i \in 2..Len(todo) : todo[i].at = "scan") => Harmless(f, notification')
  BY <1>1, <1>2, <1>3, <1>4, <1>5, AboveScan DEF Harmless
<1>9. Scan(todo', notification')
  BY <1>1, <1>2, <1>3, <1>5, <1>8, PushKeepsScan
<1>10. RadioTypes'
  BY <1>1, <1>3, <1>7 DEF RadioTypes
<1>11. Has({"scan"})' => Has({"scan"})
  BY <1>4, <1>5, <1>7 DEF Has
<1>12. Has({"scan"})' =>
           txQueue' # << >> /\ sendingPacket' = None /\ notification' # "ISR_TX"
  BY <1>3, <1>11 DEF RadioInv, ScanReady
<1>13. NextStep'
  BY <1>1, <1>3, <1>4, <1>7 DEF NextStep, ChipInv
<1>14. ChipInv'
  BY <1>1, <1>3 DEF ChipInv
<1>15. At("clear")'
  BY <1>4, <1>7 DEF At
<1>16. Enabling'
  BY <1>15 DEF Enabling
<1>17. Arming'
  BY <1>1, <1>2, <1>3, <1>7 DEF Arming, At
<1>18. Waking'
  <2> SUFFICES ASSUME notification = None, chip # "tx", txQueue # << >>, ~isrLost, ~untimed
               PROVE  todo'[Len(todo')].at \notin {"read", "clear"}
    BY <1>3, <1>7 DEF Waking
  <2>1. todo[Len(todo)].at # "read"
    BY <1>1, <1>2 DEF Waking, At
  <2>2. Len(todo) \in Nat /\ Len(todo) > 1
    BY <1>1, <1>2, <2>1, EmptySeq
  <2>3. /\ Len(todo') = Len(f) + Len(todo) - 1
        /\ \A i \in 2..Len(todo) : todo'[i + Len(f) - 1] = todo[i]
    BY <1>1, <1>2, <1>3, <1>5, GotoResult
  <2>4. Len(todo') = Len(todo) /\ Len(todo) \in 2..Len(todo) /\ Len(todo) + Len(f) - 1 = Len(todo)
    BY <1>5, <2>2, <2>3
  <2>5. todo'[Len(todo')] = todo[Len(todo)]
    BY <2>3, <2>4
  <2> QED
    BY <1>1, <2>2, <2>5 DEF Stack
<1> QED
  BY <1>6, <1>7, <1>9, <1>10, <1>12, <1>13, <1>14, <1>16, <1>17, <1>18, Together

\* setTransmitDelay() with a packet waiting and no notification pending.
LEMMA ScheduleStep ==
    ASSUME RadioInv, ScheduleTransmit
    PROVE  RadioInv'
<1>1. /\ QueueTypes /\ QueueInv /\ RadioTypes
      /\ todo \in Seq(Steps) /\ Stack(todo) /\ Scan(todo, notification)
      /\ NextStep /\ ChipInv /\ Enabling /\ Arming /\ Waking
  BY Parts
<1>2. todo # << >> /\ todo[1].at = "delay" /\ Head(todo) = todo[1]
  BY <1>1, AtFirst DEF ScheduleTransmit
<1>3. UNCHANGED << txQueue, sendingPacket, unsent, freed, notification, enabled, chip,
                   irqAction, isReceiving, irq, air, airMoved, activeReceiveStart, isrLost,
                   failure >> /\ untimed' = FALSE
  BY DEF ScheduleTransmit, queue, radio
<1>4. QueueTypes' /\ QueueInv'
  BY <1>1, <1>3, QueueKept
<1>5. ChipInv'
  BY <1>1, <1>3 DEF ChipInv
<1>6. Enabling'
  BY <1>1, <1>2, <1>3 DEF Enabling, At
<1>7. CASE txQueue # << >> /\ notification = None
  <2> DEFINE s == Step("notify")
             f == << s >>
  <2>1. Goto(f)
    BY <1>7 DEF ScheduleTransmit
  <2>2. s \in Steps /\ s.at = "notify"
    BY StepTypes DEF Labels
  <2> HIDE DEF s
  <2>3. f \in Seq(Steps) /\ Len(f) = 1 /\ f[1] = s /\ Stack(f) /\ Scan(f, notification')
    BY <2>2, SingleOrder
  <2> HIDE DEF f
  <2>4. /\ todo' \in Seq(Steps) /\ todo' # << >> /\ Stack(todo')
        /\ Head(todo') = s /\ \A l : At(l)' => l = "notify"
        /\ Has({"scan"})' => \/ \E i \in 1..Len(f) : f[i].at = "scan"
                             \/ \E i \in 2..Len(todo) : todo[i].at = "scan"
        /\ Has({"listen", "scan"}) => Has({"listen", "scan"})'
        /\ todo'[Len(todo')].at \in {"listen", "delay", "scan", "notify"}
    BY <1>1, <1>2, <2>1, <2>2, <2>3, Pushed
  <2>5. Harmless(f, notification')
    BY <2>2, <2>3 DEF Harmless
  <2>6. Scan(todo', notification')
    BY <1>1, <1>2, <2>1, <2>3, <2>5, PushKeepsScan
  <2>7. RadioTypes'
    BY <1>1, <1>3, <2>4 DEF RadioTypes
  <2>8. Has({"scan"})' => Has({"scan"})
    BY <2>2, <2>3, <2>4 DEF Has
  <2>9. Has({"scan"})' =>
            txQueue' # << >> /\ sendingPacket' = None /\ notification' # "ISR_TX"
    BY <1>3, <2>8 DEF RadioInv, ScanReady
  <2>10. NextStep'
    BY <2>4 DEF NextStep
  <2>11. Arming'
    BY <1>1, <1>2, <1>3, <2>4 DEF Arming, At
  <2>12. Waking'
    BY <2>4 DEF Waking
  <2> QED
    BY <1>4, <1>5, <1>6, <2>4, <2>6, <2>7, <2>9, <2>10, <2>11, <2>12, Together
<1>8. CASE ~(txQueue # << >> /\ notification = None)
  <2>1. Return
    BY <1>8 DEF ScheduleTransmit
  <2>2. /\ todo' \in Seq(Steps) /\ Stack(todo')
        /\ \A l : At(l)' => l \in {"read", "standby", "delay"}
        /\ Has({"scan"})' => Has({"scan"})
        /\ Has({"listen", "scan"}) => Has({"listen", "scan"})'
    BY <1>1, <1>2, <2>1, Popped
  <2>3. Scan(todo', notification')
    BY <1>1, <1>2, <1>3, <2>1, PopKeepsScan
  <2>4. RadioTypes'
    BY <1>1, <1>3, <2>2 DEF RadioTypes
  <2>5. Has({"scan"})' =>
            txQueue' # << >> /\ sendingPacket' = None /\ notification' # "ISR_TX"
    BY <1>3, <2>2 DEF RadioInv, ScanReady
  <2>6. NextStep'
    BY <2>2 DEF NextStep
  <2>7. Arming'
    BY <1>1, <1>2, <1>3, <2>2 DEF Arming, At
  <2>8. Waking'
    BY <1>3, <1>8 DEF Waking
  <2> QED
    BY <1>4, <1>5, <1>6, <2>2, <2>3, <2>4, <2>5, <2>6, <2>7, <2>8, Together
<1> QED
  BY <1>7, <1>8

\* checkNotification() clears the notification and calls onNotify() with what it read.
LEMMA ClearStep ==
    ASSUME RadioInv, ClearNotification
    PROVE  RadioInv'
<1>1. /\ QueueTypes /\ QueueInv /\ RadioTypes
      /\ todo \in Seq(Steps) /\ Stack(todo) /\ Scan(todo, notification)
      /\ NextStep /\ ChipInv /\ Enabling /\ Arming /\ Waking
  BY Parts
<1>2. todo # << >> /\ todo[1].at = "clear" /\ Head(todo) = todo[1] /\ todo[1] \in Steps
      /\ Len(todo) \in Nat /\ Len(todo) >= 1
  BY <1>1, AtFirst DEF ClearNotification
<1> DEFINE n == todo[1].n
<1>3. /\ notification' = None /\ isrLost' = (isrLost \/ notification # n)
      /\ Goto(OnNotify(n))
      /\ UNCHANGED << txQueue, sendingPacket, unsent, freed, enabled, chip, irqAction,
                      isReceiving, irq, air, airMoved, activeReceiveStart, untimed, failure >>
  BY <1>2 DEF ClearNotification, queue, radio
<1>4. n \in Notifications /\ notification' # "ISR_TX" /\ notification' # "DELAY"
  BY <1>2, <1>3, NoneIsNothing DEF Steps
<1>5. n = "ISR_TX" => chip # "tx"
  BY <1>1, <1>2 DEF NextStep, At
<1> HIDE DEF n
<1>6. QueueTypes' /\ QueueInv'
  BY <1>1, <1>3, QueueKept
<1>7. ChipInv' /\ Enabling'
  BY <1>1, <1>3, <1>4 DEF ChipInv, Enabling
<1>8. todo' \in Seq(Steps) => RadioTypes'
  BY <1>1, <1>3 DEF RadioTypes, Notifications
<1>9. n = "DELAY" => \A i \in 2..Len(todo) : todo[i].at # "scan"
  BY <1>1, <1>2, AboveScan DEF n
<1>10. Has({"scan"}) => txQueue # << >> /\ sendingPacket = None
  BY DEF RadioInv, ScanReady
<1>11. CASE n = None
  <2>1. Return
    <3>1. Tail(todo) \in Seq(Steps) /\ OnNotify(n) = << >>
      BY <1>1, <1>2, <1>11, OnNotifyFrames
    <3> QED
      BY <1>3, <3>1, ConcatEmptySeq DEF Goto, Return
  <2>2. /\ todo' \in Seq(Steps) /\ Stack(todo')
        /\ \A l : At(l)' => l \in {"read", "standby", "delay"}
        /\ Has({"scan"})' => Has({"scan"})
        /\ Has({"listen", "scan"}) => Has({"listen", "scan"})'
        /\ todo' # << >> => todo'[Len(todo')].at \in {"listen", "delay", "scan"}
    BY <1>1, <1>2, <2>1, Popped
  <2>3. Scan(todo', notification')
    BY <1>1, <1>2, <2>1, PopKeepsScan
  <2>4. Has({"scan"})' =>
            txQueue' # << >> /\ sendingPacket' = None /\ notification' # "ISR_TX"
    BY <1>3, <1>4, <1>10, <2>2
  <2>5. NextStep'
    BY <2>2 DEF NextStep
  <2>6. Arming'
    <3> SUFFICES ASSUME ~isrLost'
                 PROVE  \/ chip = "rx" /\ isReceiving /\ sendingPacket = None
                        \/ chip = "tx"
                        \/ Has({"listen", "scan"})'
      BY <1>3 DEF Arming
    <3>1. ~isrLost /\ notification = None /\ Head(todo).n = None
      BY <1>2, <1>3, <1>11 DEF n
    <3> QED
      BY <1>1, <2>2, <3>1, NoneIsNothing DEF Arming, Causes
  <2>7. Waking'
    <3> SUFFICES ASSUME ~isrLost', ~untimed, txQueue # << >>, chip # "tx"
                 PROVE  todo' # << >> /\ todo'[Len(todo')].at \notin {"read", "clear"}
      BY <1>3 DEF Waking
    <3>1. ~isrLost /\ notification = None /\ Head(todo).n = None
      BY <1>2, <1>3, <1>11 DEF n
    <3>2. todo[Len(todo)].at # "clear"
      BY <1>1, <3>1 DEF Waking
    <3>3. Len(todo) > 1
      BY <1>2, <3>2
    <3>4. Len(todo') = Len(todo) - 1
      BY <1>1, <1>2, <2>1, ReturnResult
    <3>5. todo' # << >>
      BY <1>2, <3>3, <3>4, EmptySeq
    <3> QED
      BY <2>2, <3>5
  <2> QED
    BY <1>6, <1>7, <1>8, <2>2, <2>3, <2>4, <2>5, <2>6, <2>7, Together
<1>12. CASE n = "DELAY"
  <2> DEFINE s == Step("trySend")
             f == << s >>
  <2>1. Goto(f)
    BY <1>3, <1>12, OnNotifyFrames
  <2>2. s \in Steps /\ s.at = "trySend"
    BY StepTypes DEF Labels
  <2> HIDE DEF s
  <2>3. f \in Seq(Steps) /\ Len(f) = 1 /\ f[1] = s /\ Stack(f) /\ Scan(f, notification')
    BY <2>2, SingleOrder
  <2> HIDE DEF f
  <2>4. /\ todo' \in Seq(Steps) /\ todo' # << >> /\ Stack(todo')
        /\ Head(todo') = s /\ \A l : At(l)' => l = "trySend"
        /\ Has({"scan"})' => \/ \E i \in 1..Len(f) : f[i].at = "scan"
                             \/ \E i \in 2..Len(todo) : todo[i].at = "scan"
        /\ Has({"listen", "scan"}) => Has({"listen", "scan"})'
        /\ todo'[Len(todo')].at \in {"listen", "delay", "scan", "trySend"}
    <3>1. todo[1].at # "standby" /\ Len(f) >= 1
      BY <1>2, <2>3
    <3>2. /\ todo' \in Seq(Steps) /\ todo' # << >> /\ Stack(todo')
          /\ Head(todo') = f[1] /\ \A l : At(l)' => l = f[1].at
          /\ Has({"scan"})' => \/ \E i \in 1..Len(f) : f[i].at = "scan"
                               \/ \E i \in 2..Len(todo) : todo[i].at = "scan"
          /\ Has({"listen", "scan"}) /\ todo[1].at \notin {"listen", "scan"} =>
                 Has({"listen", "scan"})'
          /\ todo'[Len(todo')].at \in {"listen", "delay", "scan", f[Len(f)].at}
      BY <1>1, <1>2, <2>1, <2>3, <3>1, Pushed
    <3> QED
      BY <1>2, <2>2, <2>3, <3>2
  <2>5. Scan(todo', notification')
    BY <1>1, <1>2, <1>9, <1>12, <2>1, <2>3, PushKeepsScan
  <2>6. ~Has({"scan"})'
    BY <1>9, <1>12, <2>2, <2>3, <2>4
  <2>7. NextStep'
    BY <1>4, <2>4 DEF NextStep
  <2>8. Arming'
    <3> SUFFICES ASSUME ~isrLost'
                 PROVE  \/ chip = "rx" /\ isReceiving /\ sendingPacket = None
                        \/ chip = "tx"
                        \/ Has({"listen", "scan"})'
      BY <1>3 DEF Arming
    <3>1. ~isrLost /\ notification = "DELAY" /\ Head(todo).n = "DELAY"
      BY <1>2, <1>3, <1>12 DEF n
    <3> QED
      BY <1>1, <2>4, <3>1 DEF Arming, Causes
  <2>9. Waking'
    BY <2>4 DEF Waking
  <2> QED
    BY <1>6, <1>7, <1>8, <2>4, <2>5, <2>6, <2>7, <2>8, <2>9, Together
<1>13. ASSUME NEW x \in {"txDone", "rxDone"}, x = "txDone" => chip # "tx",
              OnNotify(n) = << Step(x) >> \o StartReceive \o SetTransmitDelay, n # "DELAY"
       PROVE  RadioInv'
  <2> DEFINE f == << Step(x) >> \o StartReceive \o SetTransmitDelay
  <2>1. Goto(f)
    BY <1>3, <1>13
  <2>2. /\ f \in Seq(Steps) /\ Len(f) = 5
        /\ f[1] = Step(x) /\ f[2] = Step("read") /\ f[3] = Step("standby")
        /\ f[4] = Step("listen") /\ f[5] = Step("delay")
    BY DoneFrame
  <2>3. Stack(f) /\ Scan(f, notification') /\ Harmless(f, notification')
    BY <1>4, DoneOrder
  <2> HIDE DEF f
  <2>4. /\ f[1].at = x /\ f[2].at = "read" /\ f[3].at = "standby" /\ f[4].at = "listen"
        /\ f[5].at = "delay"
    BY <2>2, StepTypes DEF Labels
  <2>5. /\ todo' \in Seq(Steps) /\ todo' # << >> /\ Stack(todo')
        /\ \A l : At(l)' => l = x
        /\ Has({"scan"})' => \/ \E i \in 1..Len(f) : f[i].at = "scan"
                             \/ \E i \in 2..Len(todo) : todo[i].at = "scan"
        /\ \A i \in 1..Len(f) : f[i].at \in {"listen", "scan"} => Has({"listen", "scan"})'
        /\ todo'[Len(todo')].at \in {"listen", "delay", "scan"}
    <3>1. todo[1].at # "standby" /\ Len(f) >= 1
      BY <1>2, <2>2
    <3>2. /\ todo' \in Seq(Steps) /\ todo' # << >> /\ Stack(todo')
          /\ \A l : At(l)' => l = f[1].at
          /\ Has({"scan"})' => \/ \E i \in 1..Len(f) : f[i].at = "scan"
                               \/ \E i \in 2..Len(todo) : todo[i].at = "scan"
          /\ \A i \in 1..Len(f) : f[i].at \in {"listen", "scan"} => Has({"listen", "scan"})'
          /\ todo'[Len(todo')].at \in {"listen", "delay", "scan", f[Len(f)].at}
      BY <1>1, <1>2, <2>1, <2>2, <2>3, <3>1, Pushed
    <3> QED
      BY <2>2, <2>4, <3>2
  <2>6. Scan(todo', notification')
    BY <1>1, <1>2, <2>1, <2>2, <2>3, PushKeepsScan
  <2>7. Has({"scan"})' => Has({"scan"})
    BY <2>2, <2>4, <2>5 DEF Has
  <2>8. Has({"scan"})' =>
            txQueue' # << >> /\ sendingPacket' = None /\ notification' # "ISR_TX"
    BY <1>3, <1>4, <1>10, <2>7
  <2>9. NextStep'
    BY <1>3, <1>13, <2>5 DEF NextStep
  <2>10. Has({"listen", "scan"})'
    BY <2>2, <2>4, <2>5
  <2>11. Arming' /\ Waking'
    BY <2>5, <2>10 DEF Arming, Waking
  <2> QED
    BY <1>6, <1>7, <1>8, <2>5, <2>6, <2>8, <2>9, <2>11, Together
<1>14. CASE n = "ISR_TX"
  BY <1>5, <1>13, <1>14, OnNotifyFrames
<1>15. CASE n = "ISR_RX"
  BY <1>13, <1>15, OnNotifyFrames
<1> QED
  BY <1>4, <1>11, <1>12, <1>14, <1>15 DEF Notifications, Causes

\* canSendImmediately() only ever sets the start of a reception and the failure.
LEMMA CanSendTypes ==
    ASSUME RadioTypes, NEW can \in BOOLEAN, CanSendImmediately(can)
    PROVE  activeReceiveStart' \in {"no", "own", "old"} /\ failure' \in BOOLEAN
  BY DEF CanSendImmediately, RadioTypes

\* The delay is over but it is not the time to send: another delay.
LEMMA TrySendLaterStep ==
    ASSUME RadioInv, TrySendLater
    PROVE  RadioInv'
<1>1. /\ QueueTypes /\ QueueInv /\ RadioTypes
      /\ todo \in Seq(Steps) /\ Stack(todo) /\ Scan(todo, notification)
      /\ NextStep /\ ChipInv /\ Enabling /\ Arming /\ Waking
  BY Parts
<1>2. todo # << >> /\ todo[1].at = "trySend" /\ Head(todo) = todo[1]
  BY <1>1, AtFirst DEF TrySendLater
<1>3. UNCHANGED << txQueue, sendingPacket, unsent, freed, notification, enabled, chip,
                   irqAction, isReceiving, irq, air, airMoved, isrLost, untimed >>
  BY DEF TrySendLater, queue
<1>4. activeReceiveStart' \in {"no", "own", "old"} /\ failure' \in BOOLEAN
  <2>1. CASE txQueue = << >>
    BY <1>1, <2>1 DEF TrySendLater, RadioTypes
  <2>2. CASE txQueue # << >>
    <3>1. PICK can \in BOOLEAN : CanSendImmediately(can)
      BY <2>2 DEF TrySendLater
    <3> QED
      BY <1>1, <3>1, CanSendTypes
  <2> QED
    BY <2>1, <2>2
<1>5. QueueTypes' /\ QueueInv'
  BY <1>1, <1>3, QueueKept
<1>6. ChipInv'
  BY <1>1, <1>3 DEF ChipInv
<1>7. Enabling'
  BY <1>1, <1>2, <1>3 DEF Enabling, At
<1>8. CASE txQueue = << >>
  <2>1. Return
    BY <1>8 DEF TrySendLater
  <2>2. /\ todo' \in Seq(Steps) /\ Stack(todo')
        /\ \A l : At(l)' => l \in {"read", "standby", "delay"}
        /\ Has({"scan"})' => Has({"scan"})
        /\ Has({"listen", "scan"}) => Has({"listen", "scan"})'
    BY <1>1, <1>2, <2>1, Popped
  <2>3. Scan(todo', notification')
    BY <1>1, <1>2, <1>3, <2>1, PopKeepsScan
  <2>4. RadioTypes'
    BY <1>1, <1>3, <1>4, <2>2 DEF RadioTypes
  <2>5. Has({"scan"})' =>
            txQueue' # << >> /\ sendingPacket' = None /\ notification' # "ISR_TX"
    BY <1>3, <2>2 DEF RadioInv, ScanReady
  <2>6. NextStep'
    BY <2>2 DEF NextStep
  <2>7. Arming'
    BY <1>1, <1>2, <1>3, <2>2 DEF Arming, At
  <2>8. Waking'
    BY <1>3, <1>8 DEF Waking
  <2> QED
    BY <1>5, <1>6, <1>7, <2>2, <2>3, <2>4, <2>5, <2>6, <2>7, <2>8, Together
<1>9. CASE txQueue # << >>
  <2> DEFINE f == SetTransmitDelay
  <2>1. Goto(f)
    BY <1>9 DEF TrySendLater
  <2>2. f \in Seq(Steps) /\ Len(f) = 1 /\ f[1].at = "delay" /\ f[1] \in Steps
    BY ReadFrame, StepTypes DEF Labels
  <2>3. Stack(f) /\ Scan(f, notification')
    <3> HIDE DEF f
    <3> QED
      BY <2>2 DEF Stack, Scan
  <2> HIDE DEF f
  <2>4. /\ todo' \in Seq(Steps) /\ todo' # << >> /\ Stack(todo')
        /\ \A l : At(l)' => l = "delay"
        /\ Has({"scan"})' => \/ \E i \in 1..Len(f) : f[i].at = "scan"
                             \/ \E i \in 2..Len(todo) : todo[i].at = "scan"
        /\ Has({"listen", "scan"}) => Has({"listen", "scan"})'
        /\ todo'[Len(todo')].at \in {"listen", "delay", "scan"}
    <3>1. todo[1].at # "standby" /\ Len(f) >= 1
      BY <1>2, <2>2
    <3>2. /\ todo' \in Seq(Steps) /\ todo' # << >> /\ Stack(todo')
          /\ \A l : At(l)' => l = f[1].at
          /\ Has({"scan"})' => \/ \E i \in 1..Len(f) : f[i].at = "scan"
                               \/ \E i \in 2..Len(todo) : todo[i].at = "scan"
          /\ Has({"listen", "scan"}) /\ todo[1].at \notin {"listen", "scan"} =>
                 Has({"listen", "scan"})'
          /\ todo'[Len(todo')].at \in {"listen", "delay", "scan", f[Len(f)].at}
      BY <1>1, <1>2, <2>1, <2>2, <2>3, <3>1, Pushed
    <3> QED
      BY <1>2, <2>2, <3>2
  <2>5. Harmless(f, notification')
    BY <2>2 DEF Harmless
  <2>6. Scan(todo', notification')
    BY <1>1, <1>2, <2>1, <2>2, <2>3, <2>5, PushKeepsScan
  <2>7. RadioTypes'
    BY <1>1, <1>3, <1>4, <2>4 DEF RadioTypes
  <2>8. Has({"scan"})' => Has({"scan"})
    BY <2>2, <2>4 DEF Has
  <2>9. Has({"scan"})' =>
            txQueue' # << >> /\ sendingPacket' = None /\ notification' # "ISR_TX"
    BY <1>3, <2>8 DEF RadioInv, ScanReady
  <2>10. NextStep'
    BY <2>4 DEF NextStep
  <2>11. Arming'
    BY <1>1, <1>2, <1>3, <2>4 DEF Arming, At
  <2>12. Waking'
    BY <2>4 DEF Waking
  <2> QED
    BY <1>5, <1>6, <1>7, <2>4, <2>6, <2>7, <2>9, <2>10, <2>11, <2>12, Together
<1> QED
  BY <1>8, <1>9

\* The time to send: nothing is being sent, so that no end of a transmission is pending,
\* and the delay that ended was the only one.
LEMMA TrySendNowStep ==
    ASSUME RadioInv, TrySendNow
    PROVE  RadioInv'
<1>1. /\ QueueTypes /\ QueueInv /\ RadioTypes
      /\ todo \in Seq(Steps) /\ Stack(todo) /\ Scan(todo, notification)
      /\ NextStep /\ ChipInv /\ Enabling /\ Arming /\ Waking
  BY Parts
<1>2. todo # << >> /\ todo[1].at = "trySend" /\ Head(todo) = todo[1]
  BY <1>1, AtFirst DEF TrySendNow
<1> DEFINE f == SetStandby \o << Step("scan") >>
<1>3. /\ txQueue # << >> /\ CanSendImmediately(TRUE) /\ Goto(f)
      /\ UNCHANGED << txQueue, sendingPacket, unsent, freed, notification, enabled, chip,
                      irqAction, isReceiving, irq, air, airMoved, isrLost, untimed >>
  BY DEF TrySendNow, queue
<1>4. activeReceiveStart' \in {"no", "own", "old"} /\ failure' \in BOOLEAN
  BY <1>1, <1>3 DEF CanSendImmediately, RadioTypes
<1>5. sendingPacket = None
  BY <1>3 DEF CanSendImmediately
<1>6. notification # "DELAY" /\ notification # "ISR_TX"
  BY <1>1, <1>2, <1>5 DEF NextStep, At
<1>7. \A i \in 2..Len(todo) : todo[i].at # "scan"
  BY <1>1, <1>2, AboveScan
<1>8. /\ f \in Seq(Steps) /\ Len(f) = 3
      /\ f[1] = Step("read") /\ f[2] = Step("standby") /\ f[3] = Step("scan")
  BY ScanFrame
<1>9. Stack(f) /\ Scan(f, notification')
  <2>1. notification' # "DELAY"
    BY <1>3, <1>6
  <2> QED
    BY <2>1, ScanOrder
<1> HIDE DEF f
<1>10. f[1].at = "read" /\ f[2].at = "standby" /\ f[3].at = "scan"
  BY <1>8, StepTypes DEF Labels
<1>11. /\ todo' \in Seq(Steps) /\ todo' # << >> /\ Stack(todo')
       /\ \A l : At(l)' => l = "read"
       /\ Has({"listen", "scan"})'
       /\ todo'[Len(todo')].at \in {"listen", "delay", "scan"}
  <2>1. todo[1].at # "standby" /\ Len(f) >= 1 /\ 3 \in 1..Len(f)
    BY <1>2, <1>8
  <2>2. /\ todo' \in Seq(Steps) /\ todo' # << >> /\ Stack(todo')
        /\ \A l : At(l)' => l = f[1].at
        /\ \A i \in 1..Len(f) : f[i].at \in {"listen", "scan"} => Has({"listen", "scan"})'
        /\ todo'[Len(todo')].at \in {"listen", "delay", "scan", f[Len(f)].at}
    BY <1>1, <1>2, <1>3, <1>8, <1>9, <2>1, Pushed
  <2> QED
    BY <1>8, <1>10, <2>1, <2>2
<1>12. Scan(todo', notification')
  BY <1>1, <1>2, <1>3, <1>7, <1>8, <1>9, PushKeepsScan
<1>13. QueueTypes' /\ QueueInv'
  BY <1>1, <1>3, QueueKept
<1>14. RadioTypes'
  BY <1>1, <1>3, <1>4, <1>11 DEF RadioTypes
<1>15. txQueue' # << >> /\ sendingPacket' = None /\ notification' # "ISR_TX"
  BY <1>3, <1>5, <1>6
<1>16. NextStep'
  BY <1>11 DEF NextStep
<1>17. ChipInv'
  BY <1>1, <1>3 DEF ChipInv
<1>18. Enabling'
  BY <1>1, <1>2, <1>3 DEF Enabling, At
<1>19. Arming' /\ Waking'
  BY <1>11 DEF Arming, Waking
<1> QED
  BY <1>11, <1>12, <1>13, <1>14, <1>15, <1>16, <1>17, <1>18, <1>19, Together

\* The channel is busy: the radio listens and a new delay is set.
LEMMA ChannelActiveStep ==
    ASSUME RadioInv, ChannelActive
    PROVE  RadioInv'
<1>1. /\ QueueTypes /\ QueueInv /\ RadioTypes
      /\ todo \in Seq(Steps) /\ Stack(todo) /\ Scan(todo, notification)
      /\ NextStep /\ ChipInv /\ Enabling /\ Arming /\ Waking
  BY Parts
<1>2. todo # << >> /\ todo[1].at = "scan" /\ Head(todo) = todo[1]
  BY <1>1, AtFirst DEF ChannelActive
<1> DEFINE f == StartReceive \o SetTransmitDelay
<1>3. /\ Goto(f)
      /\ UNCHANGED << txQueue, sendingPacket, unsent, freed, notification, enabled, chip,
                      irqAction, isReceiving, irq, air, airMoved, activeReceiveStart, isrLost,
                      untimed, failure >>
  BY DEF ChannelActive, queue, radio, seen
<1>4. \A i \in 2..Len(todo) : todo[i].at # "scan"
  BY <1>1, <1>2, AboveScan
<1>5. /\ f \in Seq(Steps) /\ Len(f) = 4
      /\ f[1] = Step("read") /\ f[2] = Step("standby")
      /\ f[3] = Step("listen") /\ f[4] = Step("delay")
  BY ReceiveDelayFrame
<1>6. Stack(f) /\ Scan(f, notification')
  BY ReceiveDelayOrder
<1> HIDE DEF f
<1>7. f[1].at = "read" /\ f[2].at = "standby" /\ f[3].at = "listen" /\ f[4].at = "delay"
  BY <1>5, StepTypes DEF Labels
<1>8. /\ todo' \in Seq(Steps) /\ todo' # << >> /\ Stack(todo')
      /\ \A l : At(l)' => l = "read"
      /\ ~Has({"scan"})' /\ Has({"listen", "scan"})'
      /\ todo'[Len(todo')].at \in {"listen", "delay", "scan"}
  <2>1. todo[1].at # "standby" /\ Len(f) >= 1 /\ 3 \in 1..Len(f)
    BY <1>2, <1>5
  <2>2. /\ todo' \in Seq(Steps) /\ todo' # << >> /\ Stack(todo')
        /\ \A l : At(l)' => l = f[1].at
        /\ Has({"scan"})' => \/ \E i \in 1..Len(f) : f[i].at = "scan"
                             \/ \E i \in 2..Len(todo) : todo[i].at = "scan"
        /\ \A i \in 1..Len(f) : f[i].at \in {"listen", "scan"} => Has({"listen", "scan"})'
        /\ todo'[Len(todo')].at \in {"listen", "delay", "scan", f[Len(f)].at}
    BY <1>1, <1>2, <1>3, <1>5, <1>6, <2>1, Pushed
  <2>3. \A i \in 1..Len(f) : f[i].at # "scan"
    BY <1>5, <1>7
  <2> QED
    BY <1>4, <1>5, <1>7, <2>1, <2>2, <2>3
<1>9. Scan(todo', notification')
  BY <1>1, <1>2, <1>3, <1>4, <1>5, <1>6, PushKeepsScan
<1>10. QueueTypes' /\ QueueInv'
  BY <1>1, <1>3, QueueKept
<1>11. RadioTypes'
  BY <1>1, <1>3, <1>8 DEF RadioTypes
<1>12. NextStep'
  BY <1>8 DEF NextStep
<1>13. ChipInv'
  BY <1>1, <1>3 DEF ChipInv
<1>14. Enabling'
  BY <1>1, <1>2, <1>3 DEF Enabling, At
<1>15. Arming' /\ Waking'
  BY <1>8 DEF Arming, Waking
<1> QED
  BY <1>8, <1>9, <1>10, <1>11, <1>12, <1>13, <1>14, <1>15, Together

\* startTransmit() fails: the packet is released and the radio listens.
LEMMA StartSendFailsStep ==
    ASSUME RadioInv, StartSendFails
    PROVE  RadioInv'
<1>1. /\ QueueTypes /\ QueueInv /\ RadioTypes
      /\ todo \in Seq(Steps) /\ Stack(todo) /\ Scan(todo, notification)
      /\ NextStep /\ ChipInv /\ Enabling /\ Arming /\ Waking
  BY Parts
<1>2. todo # << >> /\ todo[1].at = "scan" /\ Head(todo) = todo[1]
  BY <1>1, AtFirst DEF StartSendFails
<1>3. /\ txQueue # << >> /\ txQueue' = Tail(txQueue) /\ Release(<< Head(txQueue) >>)
      /\ Goto(StartReceive)
      /\ UNCHANGED << unsent, sendingPacket, notification, enabled, chip, irqAction,
                      isReceiving, irq, air, airMoved, activeReceiveStart, isrLost,
                      untimed, failure >>
  BY DEF StartSendFails, radio, seen
<1>4. \A i \in 2..Len(todo) : todo[i].at # "scan"
  BY <1>1, <1>2, AboveScan
<1>5. /\ StartReceive[1].at = "read" /\ StartReceive[2].at = "standby"
      /\ StartReceive[3].at = "listen" /\ StartReceive \in Seq(Steps) /\ Len(StartReceive) = 3
  BY ReceiveFrame, StepTypes DEF Labels
<1>6. Stack(StartReceive) /\ Scan(StartReceive, notification')
  BY ReceiveOrder
<1>7. /\ todo' \in Seq(Steps) /\ todo' # << >> /\ Stack(todo')
      /\ \A l : At(l)' => l = "read"
      /\ ~Has({"scan"})' /\ Has({"listen", "scan"})'
      /\ todo'[Len(todo')].at \in {"listen", "delay", "scan"}
  <2>1. todo[1].at # "standby" /\ Len(StartReceive) >= 1 /\ 3 \in 1..Len(StartReceive)
    BY <1>2, <1>5
  <2>2. /\ todo' \in Seq(Steps) /\ todo' # << >> /\ Stack(todo')
        /\ \A l : At(l)' => l = StartReceive[1].at
        /\ Has({"scan"})' => \/ \E i \in 1..Len(StartReceive) : StartReceive[i].at = "scan"
                             \/ \E i \in 2..Len(todo) : todo[i].at = "scan"
        /\ \A i \in 1..Len(StartReceive) :
               StartReceive[i].at \in {"listen", "scan"} => Has({"listen", "scan"})'
        /\ todo'[Len(todo')].at \in
               {"listen", "delay", "scan", StartReceive[Len(StartReceive)].at}
    BY <1>1, <1>2, <1>3, <1>5, <1>6, <2>1, Pushed
  <2>3. \A i \in 1..Len(StartReceive) : StartReceive[i].at # "scan"
    BY <1>5
  <2> QED
    BY <1>4, <1>5, <2>1, <2>2, <2>3
<1>8. Scan(todo', notification')
  BY <1>1, <1>2, <1>3, <1>4, <1>5, <1>6, PushKeepsScan
<1>9. QueueTypes' /\ QueueInv'
  <2>1. /\ txQueue \in Seq(Queued) /\ Sorted(txQueue) /\ Distinct(txQueue)
        /\ Len(txQueue) <= MaxLen
    BY <1>1 DEF QueueTypes, QueueInv, Owned
  <2>2. /\ Len(txQueue) \in Nat /\ Len(txQueue) >= 1 /\ Head(txQueue) = txQueue[1]
        /\ Tail(txQueue) \in Seq(Queued) /\ Len(Tail(txQueue)) = Len(txQueue) - 1
    BY <1>3, <2>1, EmptySeq
  <2>3. /\ Sorted(Tail(txQueue)) /\ Distinct(Tail(txQueue))
        /\ Numbers(Tail(txQueue)) = Numbers(txQueue) \ {txQueue[1].n}
    BY <1>3, <2>1, <2>2, TailKeepsOrder, TailNumbers
  <2>4. 1 \in 1..Len(txQueue) /\ Len(txQueue') <= MaxLen
    BY <1>3, <2>1, <2>2, MaxLenAssumption DEF MaxLenAssumption
  <2>5. Release(<< txQueue[1] >>)
    BY <1>3, <2>2
  <2> QED
    BY <1>1, <1>3, <2>2, <2>3, <2>4, <2>5, DropKeeps
<1>10. RadioTypes'
  BY <1>1, <1>3, <1>7 DEF RadioTypes
<1>11. NextStep'
  BY <1>7 DEF NextStep
<1>12. ChipInv'
  BY <1>1, <1>3 DEF ChipInv
<1>13. Enabling'
  BY <1>1, <1>2, <1>3 DEF Enabling, At
<1>14. Arming' /\ Waking'
  BY <1>7 DEF Arming, Waking
<1> QED
  BY <1>7, <1>8, <1>9, <1>10, <1>11, <1>12, <1>13, <1>14, Together

(***************************************************************************)
(* The steps of the callers and of the chip.                               *)
(***************************************************************************)

\* A call from outside finds nothing to do and leaves the steps of one frame.
LEMMA Started ==
    ASSUME NEW f \in Seq(Steps), Len(f) >= 1, todo' = f
    PROVE  /\ todo' \in Seq(Steps) /\ todo' # << >> /\ Head(todo') = f[1]
           /\ \A l : At(l)' <=> l = f[1].at
           /\ \A i \in 1..Len(f) : f[i].at \in {"listen", "scan"} => Has({"listen", "scan"})'
           /\ Has({"scan"})' => \E i \in 1..Len(f) : f[i].at = "scan"
<1>1. todo' # << >> /\ Head(todo') = f[1]
  BY EmptySeq
<1> QED
  BY <1>1 DEF At, Has

\* With nothing left to do, nothing is next and nothing is still to come.
LEMMA Idle ==
    ASSUME todo = << >>
    PROVE  /\ Stack(todo) /\ \A k : Scan(todo, k)
           /\ \A l : ~At(l)
           /\ ~Has({"scan"}) /\ ~Has({"listen", "scan"})
<1>1. Len(todo) = 0
  OBVIOUS
<1> QED
  BY <1>1 DEF Stack, Scan, At, Has

\* runOnce() after a notification.
LEMMA RunOnceStep ==
    ASSUME RadioInv, RunOnce
    PROVE  RadioInv'
<1>1. /\ QueueTypes /\ QueueInv /\ RadioTypes
      /\ todo \in Seq(Steps) /\ Stack(todo) /\ Scan(todo, notification)
      /\ NextStep /\ ChipInv /\ Enabling /\ Arming /\ Waking
  BY Parts
<1>2. /\ todo = << >> /\ airMoved' = FALSE /\ enabled' = FALSE /\ todo' = CheckNotification
      /\ UNCHANGED << txQueue, sendingPacket, unsent, freed, notification, chip, irqAction,
                      isReceiving, irq, air, activeReceiveStart, isrLost, untimed, failure >>
  BY DEF RunOnce, queue, seen
<1> DEFINE f == CheckNotification
<1>3. f \in Seq(Steps) /\ Len(f) = 1 /\ f[1].at = "read" /\ todo' = f
  BY <1>2, ReadFrame, StepTypes DEF Labels
<1> HIDE DEF f
<1>4. Stack(f) /\ Scan(f, notification')
  BY <1>3 DEF Stack, Scan
<1>5. /\ todo' \in Seq(Steps) /\ todo' # << >>
      /\ \A l : At(l)' <=> l = "read"
      /\ ~Has({"scan"})'
  <2>1. Len(f) >= 1 /\ \A i \in 1..Len(f) : f[i].at = "read"
    BY <1>3
  <2>2. /\ todo' \in Seq(Steps) /\ todo' # << >>
        /\ \A l : At(l)' <=> l = f[1].at
        /\ Has({"scan"})' => \E i \in 1..Len(f) : f[i].at = "scan"
    BY <1>3, <2>1, Started, Zenon
  <2> QED
    BY <1>3, <2>1, <2>2
<1>6. QueueTypes' /\ QueueInv'
  BY <1>1, <1>2, QueueKept
<1>7. RadioTypes'
  BY <1>1, <1>2, <1>5 DEF RadioTypes
<1>8. NextStep' /\ ChipInv' /\ Enabling'
  BY <1>1, <1>2, <1>5 DEF NextStep, ChipInv, Enabling
<1>9. /\ ~isrLost => \/ chip = "rx" /\ isReceiving /\ sendingPacket = None
                     \/ chip = "tx"
                     \/ notification \in Causes
      /\ txQueue # << >> /\ ~isrLost /\ ~untimed => notification # None \/ chip = "tx"
  BY <1>1, <1>2, Idle DEF Arming, Waking
<1>10. Arming' /\ Waking'
  BY <1>2, <1>9 DEF Arming, Waking
<1> QED
  BY <1>3, <1>4, <1>5, <1>6, <1>7, <1>8, <1>10, Together

\* send(): a transmit delay is to be set, or the message was refused.
LEMMA SendStep ==
    ASSUME RadioInv, NEW m \in Messages, Send(m)
    PROVE  RadioInv'
<1>1. /\ QueueTypes /\ QueueInv /\ RadioTypes
      /\ todo \in Seq(Steps) /\ Stack(todo) /\ Scan(todo, notification)
      /\ NextStep /\ ChipInv /\ Enabling /\ Arming /\ Waking
  BY Parts
<1> DEFINE r == Enqueue(txQueue, m)
<1>2. /\ todo = << >> /\ txQueue' = r.queue
      /\ todo' = IF r.ok THEN SetTransmitDelay ELSE << >>
      /\ UNCHANGED << sendingPacket, notification, enabled, chip, irqAction,
                      isReceiving, irq, air, airMoved, activeReceiveStart, isrLost, untimed,
                      failure >>
  BY DEF Send, radio, seen
<1>3. QueueTypes' /\ QueueInv'
  BY <1>1, SendQueue
<1>4. ~r.ok => r.queue = txQueue
  <2>1. /\ PacketSet(Queued) /\ m \in Queued /\ txQueue \in Seq(Queued) /\ Sorted(txQueue)
        /\ Len(txQueue) <= MaxLen /\ Distinct(txQueue) /\ m \in unsent
    BY <1>1, PacketTypes DEF QueueTypes, QueueInv, Owned, Send
  <2>2. m.n \notin Numbers(txQueue)
    BY <1>1, <2>1 DEF QueueInv, Owned
  <2> QED
    BY <2>1, <2>2, EnqueueNumbers
<1> HIDE DEF r
<1>5. ChipInv'
  BY <1>1, <1>2 DEF ChipInv
<1>6. notification # None => enabled
  BY <1>1, <1>2, Idle DEF Enabling
<1>7. /\ ~isrLost => \/ chip = "rx" /\ isReceiving /\ sendingPacket = None
                     \/ chip = "tx"
                     \/ notification \in Causes
      /\ txQueue # << >> /\ ~isrLost /\ ~untimed => notification # None \/ chip = "tx"
  BY <1>1, <1>2, Idle DEF Arming, Waking
<1>8. Enabling' /\ Arming'
  BY <1>2, <1>6, <1>7 DEF Enabling, Arming
<1>9. CASE r.ok
  <2> DEFINE f == SetTransmitDelay
  <2>1. f \in Seq(Steps) /\ Len(f) = 1 /\ f[1].at = "delay" /\ todo' = f
    BY <1>2, <1>9, ReadFrame, StepTypes DEF Labels
  <2>2. f[1].at \notin {"standby", "txDone", "rxDone", "scan"}
    BY <2>1
  <2> HIDE DEF f
  <2>3. Stack(f) /\ Scan(f, notification')
    BY <2>1, <2>2 DEF Stack, Scan
  <2>4. /\ todo' \in Seq(Steps) /\ todo' # << >>
        /\ \A l : At(l)' <=> l = "delay"
        /\ ~Has({"scan"})'
    BY <2>1, Started
  <2>5. RadioTypes'
    BY <1>1, <1>2, <2>4 DEF RadioTypes
  <2>6. NextStep'
    BY <2>4 DEF NextStep
  <2>7. Waking'
    BY <2>1, <2>4 DEF Waking
  <2> QED
    BY <1>3, <1>5, <1>8, <2>1, <2>3, <2>4, <2>5, <2>6, <2>7, Together
<1>10. CASE ~r.ok
  <2>1. todo' = << >> /\ txQueue' = txQueue
    BY <1>2, <1>4, <1>10
  <2>2. /\ Stack(todo') /\ Scan(todo', notification')
        /\ \A l : ~At(l)'
        /\ ~Has({"scan"})'
    <3>1. Len(todo') = 0
      BY <2>1
    <3> QED
      BY <2>1, <3>1 DEF Stack, Scan, At, Has
  <2>3. RadioTypes'
    BY <1>1, <1>2, <2>1 DEF RadioTypes
  <2>4. NextStep'
    BY <2>2 DEF NextStep
  <2>5. Waking'
    BY <1>2, <1>7, <2>1 DEF Waking
  <2> QED
    BY <1>3, <1>5, <1>8, <2>2, <2>3, <2>4, <2>5, Together
<1> QED
  BY <1>9, <1>10

\* cancelSending() and clampToLateRebroadcastWindow() change a queue that was not empty.
LEMMA QueueStep ==
    ASSUME RadioInv, NEW key, CancelSending(key) \/ ClampToLateRebroadcastWindow(key)
    PROVE  RadioInv'
<1>1. /\ QueueTypes /\ QueueInv /\ RadioTypes
      /\ todo \in Seq(Steps) /\ Stack(todo) /\ Scan(todo, notification)
      /\ NextStep /\ ChipInv /\ Enabling /\ Arming /\ Waking
  BY Parts
<1>2. /\ todo = << >>
      /\ UNCHANGED << todo, sendingPacket, notification, enabled, chip, irqAction,
                      isReceiving, irq, air, airMoved, activeReceiveStart, isrLost, untimed,
                      failure >>
  BY DEF CancelSending, ClampToLateRebroadcastWindow, radio, seen
<1>3. QueueTypes' /\ QueueInv' /\ txQueue # << >>
  BY <1>1, CancelQueue, ClampQueue
<1>4. /\ Stack(todo') /\ Scan(todo', notification')
      /\ \A l : ~At(l)'
      /\ ~Has({"scan"})'
  <2>1. Len(todo') = 0
    BY <1>2
  <2> QED
    BY <1>2, <2>1 DEF Stack, Scan, At, Has
<1>5. RadioTypes'
  BY <1>1, <1>2 DEF RadioTypes
<1>6. NextStep' /\ ChipInv'
  BY <1>1, <1>2, <1>4 DEF NextStep, ChipInv
<1>7. notification # None => enabled
  BY <1>1, <1>2, Idle DEF Enabling
<1>8. /\ ~isrLost => \/ chip = "rx" /\ isReceiving /\ sendingPacket = None
                     \/ chip = "tx"
                     \/ notification \in Causes
      /\ ~isrLost /\ ~untimed => notification # None \/ chip = "tx"
  BY <1>1, <1>2, <1>3, Idle DEF Arming, Waking
<1>9. Enabling' /\ Arming' /\ Waking'
  BY <1>2, <1>7, <1>8 DEF Enabling, Arming, Waking
<1> QED
  BY <1>3, <1>4, <1>5, <1>6, <1>9, Together

\* reconfigure(): setStandby() and startReceive().
LEMMA ReconfigureStep ==
    ASSUME RadioInv, Reconfigure
    PROVE  RadioInv'
<1>1. /\ QueueTypes /\ QueueInv /\ RadioTypes
      /\ todo \in Seq(Steps) /\ Stack(todo) /\ Scan(todo, notification)
      /\ NextStep /\ ChipInv /\ Enabling /\ Arming /\ Waking
  BY Parts
<1> DEFINE f == SetStandby \o StartReceive
<1>2. /\ todo = << >> /\ todo' = f
      /\ UNCHANGED << txQueue, sendingPacket, unsent, freed, notification, enabled, chip,
                      irqAction, isReceiving, irq, air, airMoved, activeReceiveStart, isrLost,
                      untimed, failure >>
  BY DEF Reconfigure, queue, radio, seen
<1>3. /\ f \in Seq(Steps) /\ Len(f) = 5
      /\ f[1] = Step("read") /\ f[2] = Step("standby")
      /\ f[3] = Step("read") /\ f[4] = Step("standby") /\ f[5] = Step("listen")
  BY ReconfigureFrame
<1>4. Stack(f) /\ Scan(f, notification')
  BY ReconfigureOrder
<1> HIDE DEF f
<1>5. /\ f[1].at = "read" /\ f[2].at = "standby"
      /\ f[3].at = "read" /\ f[4].at = "standby" /\ f[5].at = "listen"
  BY <1>3, StepTypes DEF Labels
<1>6. /\ todo' \in Seq(Steps) /\ todo' # << >>
      /\ \A l : At(l)' <=> l = "read"
      /\ Has({"listen", "scan"})' /\ ~Has({"scan"})'
  <2>1. Len(f) >= 1 /\ 5 \in 1..Len(f)
    BY <1>3
  <2>2. /\ todo' \in Seq(Steps) /\ todo' # << >>
        /\ \A l : At(l)' <=> l = f[1].at
        /\ \A i \in 1..Len(f) : f[i].at \in {"listen", "scan"} => Has({"listen", "scan"})'
        /\ Has({"scan"})' => \E i \in 1..Len(f) : f[i].at = "scan"
    BY <1>2, <1>3, <2>1, Started
  <2>3. \A i \in 1..Len(f) : f[i].at # "scan"
    BY <1>3, <1>5
  <2> QED
    BY <1>5, <2>1, <2>2, <2>3
<1>7. QueueTypes' /\ QueueInv'
  BY <1>1, <1>2, QueueKept
<1>8. RadioTypes'
  BY <1>1, <1>2, <1>6 DEF RadioTypes
<1>9. NextStep' /\ ChipInv'
  BY <1>1, <1>2, <1>6 DEF NextStep, ChipInv
<1>10. Enabling'
  BY <1>6 DEF Enabling
<1>11. todo'[Len(todo')].at = "listen"
  BY <1>2, <1>3, <1>5
<1>12. Arming' /\ Waking'
  BY <1>6, <1>11 DEF Arming, Waking
<1> QED
  BY <1>2, <1>4, <1>6, <1>7, <1>8, <1>9, <1>10, <1>12, Together

\* The reboot after a failure.
LEMMA RebootStep ==
    ASSUME RadioInv, Reboot
    PROVE  RadioInv'
<1>1. /\ QueueTypes /\ QueueInv /\ RadioTypes
      /\ todo \in Seq(Steps) /\ Stack(todo) /\ Scan(todo, notification)
      /\ NextStep /\ ChipInv /\ Enabling /\ Arming /\ Waking
  BY Parts
<1>2. /\ todo = << >> /\ todo' = << >> /\ txQueue' = << >> /\ sendingPacket' = None
      /\ notification' = None /\ enabled' = FALSE
      /\ chip' = "rx" /\ irqAction' = "ISR_RX" /\ isReceiving' = TRUE
      /\ irq' = None /\ air' = None /\ airMoved' = FALSE /\ activeReceiveStart' = "no"
      /\ isrLost' = FALSE /\ untimed' = FALSE /\ failure' = FALSE
  BY DEF Reboot
<1>3. QueueTypes' /\ QueueInv'
  BY <1>1, RebootQueue
<1>4. /\ Stack(todo') /\ Scan(todo', notification')
      /\ \A l : ~At(l)'
      /\ ~Has({"scan"})'
  <2>1. Len(todo') = 0
    BY <1>2
  <2> QED
    BY <1>2, <2>1 DEF Stack, Scan, At, Has
<1>5. RadioTypes'
  <2>1. {isReceiving', airMoved', isrLost', untimed', failure'} \subseteq BOOLEAN
        /\ enabled' \in BOOLEAN
    BY <1>2, Zenon
  <2>2. todo' \in Seq(Steps)
    BY <1>2
  <2>3. /\ notification' \in Notifications /\ irqAction' \in Causes \cup {None}
        /\ chip' \in {"standby", "rx", "tx"} /\ activeReceiveStart' \in {"no", "own", "old"}
        /\ {irq', air'} \subseteq {None, "preamble", "header"}
    BY <1>2 DEF Notifications, Causes
  <2> QED
    BY <2>1, <2>2, <2>3 DEF RadioTypes
<1>6. NextStep' /\ Enabling' /\ Arming' /\ Waking'
  BY <1>2, <1>4 DEF NextStep, Enabling, Arming, Waking
<1>7. ChipInv'
  BY <1>2 DEF ChipInv
<1> QED
  BY <1>3, <1>4, <1>5, <1>6, <1>7, Together

\* The interrupt leaves the code to run alone; what it signals is not the end of a delay.
LEMMA ChipStep ==
    ASSUME RadioInv, Chip
    PROVE  RadioInv'
<1>1. /\ QueueTypes /\ QueueInv /\ RadioTypes
      /\ todo \in Seq(Steps) /\ Stack(todo) /\ Scan(todo, notification)
      /\ NextStep /\ ChipInv /\ Enabling /\ Arming /\ Waking
  BY Parts
<1>2. Has({"scan"}) => txQueue # << >> /\ sendingPacket = None /\ notification # "ISR_TX"
  BY DEF RadioInv, ScanReady
<1>3. ASSUME UNCHANGED << txQueue, sendingPacket, unsent, freed, todo, isReceiving, isrLost,
                          untimed, failure >>
      PROVE  /\ QueueTypes' /\ QueueInv' /\ Stack(todo')
             /\ \A l : At(l)' <=> At(l)
             /\ Has({"scan"})' <=> Has({"scan"})
             /\ Has({"listen", "scan"})' <=> Has({"listen", "scan"})
             /\ \A k : (k = "DELAY" => notification = "DELAY") => Scan(todo', k)
  <2>1. QueueTypes' /\ QueueInv' /\ Stack(todo')
    BY <1>1, <1>3, QueueKept
  <2> QED
    BY <1>1, <1>3, <2>1 DEF At, Has, Scan
<1>4. CASE TransmitEnds
  <2>1. /\ chip = "tx" /\ chip' = "standby" /\ irqAction = "ISR_TX"
        /\ irqAction' = None /\ notification' = "ISR_TX" /\ enabled' = TRUE
        /\ UNCHANGED << txQueue, sendingPacket, unsent, freed, todo, isReceiving, irq, air,
                        airMoved, activeReceiveStart, isrLost, untimed, failure >>
    BY <1>1, <1>4 DEF TransmitEnds, Interrupt, queue, ChipInv
  <2>2. sendingPacket # None
    BY <1>1, <2>1 DEF ChipInv
  <2>3. RadioTypes'
    BY <1>1, <2>1 DEF RadioTypes, Notifications, Causes
  <2>4. Scan(todo', notification') /\ ~Has({"scan"})'
    BY <1>2, <1>3, <2>1, <2>2
  <2>5. NextStep'
    BY <1>1, <1>3, <2>1, <2>2 DEF NextStep
  <2>6. ChipInv'
    BY <1>1, <2>1, NoneIsNothing DEF ChipInv
  <2>7. Enabling' /\ Arming' /\ Waking'
    BY <2>1, NoneIsNothing DEF Enabling, Arming, Waking, Causes
  <2> QED
    BY <1>3, <2>1, <2>3, <2>4, <2>5, <2>6, <2>7, Together
<1>5. CASE PacketEnds
  <2>1. /\ air # None /\ chip' = "standby" /\ air' = None
        /\ Interrupt("ISR_RX") /\ airMoved' \in BOOLEAN
        /\ UNCHANGED << txQueue, sendingPacket, unsent, freed, todo, isReceiving, irq,
                        activeReceiveStart, isrLost, untimed, failure >>
    BY <1>5, NoneIsNothing DEF PacketEnds, AirMoves, queue, seen
  <2>2. chip = "rx" /\ irqAction = "ISR_RX"
    BY <1>1, <2>1 DEF ChipInv
  <2>3. irqAction' = None /\ notification' = "ISR_RX" /\ enabled' = TRUE
    BY <2>1, <2>2 DEF Interrupt
  <2>4. RadioTypes'
    BY <1>1, <2>1, <2>3 DEF RadioTypes, Notifications, Causes
  <2>5. Scan(todo', notification')
    BY <1>3, <2>1, <2>3
  <2>6. Has({"scan"})' =>
            txQueue' # << >> /\ sendingPacket' = None /\ notification' # "ISR_TX"
    BY <1>2, <1>3, <2>1, <2>3
  <2>7. NextStep'
    BY <1>1, <1>3, <2>1, <2>2, <2>3 DEF NextStep
  <2>8. ChipInv'
    BY <1>1, <2>1, <2>3, NoneIsNothing DEF ChipInv
  <2>9. Enabling' /\ Arming' /\ Waking'
    BY <2>1, <2>3, NoneIsNothing DEF Enabling, Arming, Waking, Causes
  <2> QED
    BY <1>3, <2>1, <2>4, <2>5, <2>6, <2>7, <2>8, <2>9, Together
<1>6. CASE PacketBegins \/ HeaderHeard \/ FalsePreamble
  <2>1. /\ UNCHANGED << txQueue, sendingPacket, unsent, freed, todo, notification, enabled,
                        chip, irqAction, isReceiving, isrLost, untimed, failure >>
        /\ {irq', air'} \subseteq {None, "preamble", "header"} /\ airMoved' \in BOOLEAN
        /\ activeReceiveStart' \in {"no", "own", "old"}
    BY <1>1, <1>6
       DEF PacketBegins, HeaderHeard, FalsePreamble, AirMoves, queue, seen, RadioTypes
  <2>2. air' # None => chip = "rx"
    BY <1>1, <1>6, NoneIsNothing DEF PacketBegins, HeaderHeard, FalsePreamble, ChipInv
  <2>3. RadioTypes'
    BY <1>1, <2>1 DEF RadioTypes
  <2>4. Scan(todo', notification')
    BY <1>3, <2>1
  <2>5. Has({"scan"})' =>
            txQueue' # << >> /\ sendingPacket' = None /\ notification' # "ISR_TX"
    BY <1>2, <1>3, <2>1
  <2>6. NextStep'
    BY <1>1, <1>3, <2>1 DEF NextStep
  <2>7. ChipInv'
    BY <1>1, <2>1, <2>2 DEF ChipInv
  <2>8. Enabling' /\ Arming' /\ Waking'
    BY <1>1, <1>3, <2>1 DEF Enabling, Arming, Waking
  <2> QED
    BY <1>3, <2>1, <2>3, <2>4, <2>5, <2>6, <2>7, <2>8, Together
<1> QED
  BY <1>4, <1>5, <1>6 DEF Chip

(***************************************************************************)
(* The theorems.                                                           *)
(***************************************************************************)

\* The invariant is inductive.
THEOREM RadioInvariance == Spec => []RadioInv
<1>1. Init => RadioInv
  <2> SUFFICES ASSUME Init PROVE RadioInv
    OBVIOUS
  <2>1. /\ txQueue = << >> /\ sendingPacket = None /\ todo = << >> /\ notification = None
        /\ enabled = FALSE /\ chip = "rx" /\ irqAction = "ISR_RX" /\ isReceiving = TRUE
        /\ irq = None /\ air = None /\ airMoved = FALSE /\ activeReceiveStart = "no"
        /\ unsent = Messages /\ freed = [m \in Messages |-> 0]
        /\ isrLost = FALSE /\ untimed = FALSE /\ failure = FALSE
    BY DEF Init
  <2>2. Len(txQueue) = 0
    BY <2>1
  <2>3. QueueTypes /\ RadioTypes
    <3>1. {isReceiving, airMoved, isrLost, untimed, failure} \subseteq BOOLEAN
          /\ enabled \in BOOLEAN
      BY <2>1, Zenon
    <3>2. todo \in Seq(Steps)
      BY <2>1
    <3>3. /\ notification \in Notifications /\ irqAction \in Causes \cup {None}
          /\ chip \in {"standby", "rx", "tx"} /\ activeReceiveStart \in {"no", "own", "old"}
          /\ {irq, air} \subseteq {None, "preamble", "header"}
      BY <2>1 DEF Notifications, Causes
    <3>4. QueueTypes
      BY <2>1 DEF QueueTypes
    <3> QED
      BY <3>1, <3>2, <3>3, <3>4 DEF RadioTypes
  <2>4. Sorted(txQueue) /\ Distinct(txQueue) /\ Numbers(txQueue) = {}
    BY <2>1, <2>2 DEF Sorted, Distinct, Numbers
  <2>5. QueueInv
    <3>1. Owned
      BY <2>1, <2>4 DEF Owned, Held
    <3> QED
      BY <2>2, <2>4, <3>1, MaxLenAssumption DEF QueueInv, MaxLenAssumption
  <2>6. Stack(todo) /\ ScanReady
    BY <2>1, Idle DEF ScanReady
  <2>7. NextStep
    BY <2>1, Idle DEF NextStep
  <2>8. ChipInv
    BY <2>1 DEF ChipInv
  <2>9. Enabling /\ Arming /\ Waking
    BY <2>1 DEF Enabling, Arming, Waking
  <2> QED
    BY <2>3, <2>5, <2>6, <2>7, <2>8, <2>9, Types DEF RadioInv
<1>2. RadioInv /\ [Next]_vars => RadioInv'
  <2> SUFFICES ASSUME RadioInv, [Next]_vars PROVE RadioInv'
    OBVIOUS
  <2>1. ASSUME Thread PROVE RadioInv'
    BY <2>1, RunOnceStep, ReadStep, ClearStep, StandbyStep, ListenStep, ScheduleStep,
       NotifyLaterStep, TransmitInterruptStep, ReceiveInterruptStep, TrySendLaterStep,
       TrySendNowStep, ChannelActiveStep, StartSendStep, StartSendFailsStep DEF Thread
  <2>2. ASSUME Callers PROVE RadioInv'
    BY <2>2, SendStep, QueueStep, ReconfigureStep, RebootStep DEF Callers
  <2>3. ASSUME Chip PROVE RadioInv'
    BY <2>3, ChipStep
  <2>4. ASSUME UNCHANGED vars PROVE RadioInv'
    BY <2>4 DEF vars, queue, radio, seen, RadioInv, TypeOK, Stack, ScanReady, Scan, Has,
       NextStep, At, ChipInv, Enabling, Arming, Waking, QueueInv, Sorted, Owned, Held,
       Distinct, Numbers
  <2> QED
    BY <2>1, <2>2, <2>3, <2>4 DEF Next
<1> QED
  BY <1>1, <1>2, PTL DEF Spec

\* Every variable has its type.
THEOREM TypeCorrectness == Spec => []TypeOK
<1>1. RadioInv => TypeOK
  BY DEF RadioInv
<1> QED
  BY <1>1, RadioInvariance, PTL

\* Every message given to send() is in one place: in the queue, in the air, or released
\* once; none is leaked, released twice, or released while it is sent.
THEOREM Ownership == Spec => []OwnedOnce
<1>1. RadioInv => OwnedOnce
  <2> SUFFICES ASSUME RadioInv, NEW m \in Messages
               PROVE  Places(m) = IF m \in unsent THEN 0 ELSE 1
    BY DEF OwnedOnce
  <2> DEFINE T == {i \in DOMAIN txQueue : txQueue[i].n = m.n}
  <2>1. QueueTypes /\ QueueInv
    BY Parts
  <2>2. Len(txQueue) \in Nat /\ DOMAIN txQueue = 1..Len(txQueue)
    BY <2>1 DEF QueueTypes
  <2>3. Cardinality(T) = IF m.n \in Numbers(txQueue) THEN 1 ELSE 0
    <3>1. CASE m.n \in Numbers(txQueue)
      <4>1. PICK i \in 1..Len(txQueue) : txQueue[i].n = m.n
        BY <3>1 DEF Numbers
      <4>2. T = {i}
        BY <2>1, <2>2, <4>1 DEF QueueInv, Owned, Distinct
      <4> HIDE DEF T
      <4> QED
        BY <3>1, <4>2, FS_Singleton
    <3>2. CASE m.n \notin Numbers(txQueue)
      <4>1. T = {}
        BY <2>2, <3>2 DEF Numbers
      <4> HIDE DEF T
      <4> QED
        BY <3>2, <4>1, FS_EmptySet
    <3> QED
      BY <3>1, <3>2
  <2>4. Places(m) = Cardinality(T) + (IF Held(m) THEN 1 ELSE 0) + freed[m]
    BY DEF Places, Held
  <2> HIDE DEF T, Held
  <2> QED
    BY <2>1, <2>3, <2>4 DEF QueueInv, Owned
<1> QED
  BY <1>1, RadioInvariance, PTL

\* The radio is never deaf: when nothing is left to do and no interrupt waits it listens
\* or transmits with the right handler, unless an interrupt was overwritten.
THEOREM Hearing == Spec => []NeverDeaf
<1>1. RadioInv => NeverDeaf
  <2> SUFFICES ASSUME RadioInv, todo = << >>, notification \notin Causes, ~isrLost
               PROVE  \/ /\ chip = "rx" /\ irqAction = "ISR_RX" /\ isReceiving
                         /\ sendingPacket = None
                      \/ chip = "tx" /\ irqAction = "ISR_TX" /\ sendingPacket # None
    BY DEF NeverDeaf
  <2> QED
    BY Idle DEF RadioInv, Arming, ChipInv
<1> QED
  BY <1>1, RadioInvariance, PTL

\* A scan finds the packet it is for, and none in the air: the two assertions that follow
\* it hold, whatever notification setStandby() handled in between.
THEOREM Assertions == Spec => []AssertionsHold
<1>1. RadioInv => AssertionsHold
  <2> SUFFICES ASSUME RadioInv, At("scan")
               PROVE  txQueue # << >> /\ sendingPacket = None
    BY DEF AssertionsHold
  <2>1. todo \in Seq(Steps)
    BY Parts
  <2>2. todo[1].at = "scan" /\ Len(todo) \in Nat /\ Len(todo) >= 1
    BY <2>1, AtFirst
  <2>3. Has({"scan"})
    BY <2>2 DEF Has
  <2> QED
    BY <2>3 DEF RadioInv, ScanReady
<1> QED
  BY <1>1, RadioInvariance, PTL

\* No wakeup is lost: a pending notification finds the thread enabled, and while packets
\* wait one is pending or a transmission under way, with the two exceptions the property
\* names.
THEOREM Wakeups == Spec => []WakeupPending
<1>1. ASSUME RadioInv, todo = << >>, notification # None
      PROVE  enabled
  BY <1>1, Idle DEF RadioInv, Enabling
<1>2. ASSUME RadioInv, todo = << >>, txQueue # << >>, ~isrLost, ~untimed
      PROVE  notification # None \/ (chip = "tx" /\ irqAction = "ISR_TX")
  BY <1>2, Idle DEF RadioInv, Waking, ChipInv
<1>3. RadioInv => WakeupPending
  BY <1>1, <1>2 DEF WakeupPending
<1> QED
  BY <1>3, RadioInvariance, PTL
================================================================================

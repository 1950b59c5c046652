----------------------------- MODULE BalticProofs -----------------------------
(***************************************************************************)
(* Proofs about a Baltic node: its main loop and the mesh it is part of.   *)
(*                                                                         *)
(* The main loop, for every period, every blocking time and every width of *)
(* millis() that PeriodsAssumption allows.  The invariant bounds, at each  *)
(* section of loop(), what the unsigned difference millis() - last of each *)
(* timer can be, and relates it to the true time that has passed: as long  *)
(* as no timer is left alone for a whole wrap the difference is that time, *)
(* and what bounds it is that the sections run in a fixed order, each at   *)
(* most so long.                                                           *)
(*                                                                         *)
(* The mesh, for every set of devices, every MAC assignment and every      *)
(* capacity: types are kept and node databases hold one entry per id.      *)
(***************************************************************************)
EXTENDS BalticLoop, BalticMesh, TLAPS

\* The longest time from the start of a pass through loop() to section s.
Before(s) ==
    CASE s = "button"    -> 0
      [] s = "receive"   -> FlashTime
      [] s = "env"       -> FlashTime + RxTime
      [] s = "telemetry" -> FlashTime + RxTime
      [] s = "display"   -> FlashTime + RxTime + TxTime
      [] s = "blink"     -> FlashTime + RxTime + TxTime + DrawTime

\* The longest time since the section that ends where s begins was last left: the
\* sections of this pass from s on are rest.
Since(s, rest) == IF pc \in rest THEN Before(pc) - Before(s)
                  ELSE Before(pc) + LoopMax - Before(s)
SinceButton    == Since("receive", Sections \ {"button"})
SinceEnv       == Since("telemetry", {"telemetry", "display", "blink"})
SinceTelemetry == Since("display", {"display", "blink"})
SinceDisplay   == Since("blink", {"blink"})

\* The telemetry timer measures the true time since the last broadcast, or since boot.
TelemetryClock ==
    /\ age["telemetry"] = Elapsed(lastTelemetryBroadcast)
    /\ age["telemetry"] <= TelPeriod + SinceTelemetry

\* So does the timer of the sensors once they have been read; until then it runs with
\* the telemetry timer, and is due first.
EnvClock ==
    \/ /\ age["env"] # Never
       /\ age["env"] = Elapsed(lastEnvironmentalRead)
       /\ age["env"] <= EnvPeriod + SinceEnv
    \/ /\ age["env"] = Never
       /\ lastEnvironmentalRead = 0 /\ lastTelemetryBroadcast = 0
       /\ pc = "telemetry" => age["telemetry"] <= EnvPeriod

\* The panel is at most the time of one drawing older than its timer says.
DisplayClock ==
    /\ age["display"] <= Elapsed(lastDisplayUpdate) + DrawTime
    /\ Elapsed(lastDisplayUpdate) <= DisplayPeriod + SetupTime + SinceDisplay
    /\ age["display"] <= DisplayPeriod + DrawTime + SinceDisplay

\* After a mode change the button has to be sampled high, one period later, before it
\* can be sampled low again.
ButtonClock ==
    /\ Elapsed(lastButtonCheck) <= ButtonPeriod + SetupTime + FlashTime + SinceButton
    /\ age["mode"] >= Elapsed(lastButtonCheck)
    /\ lastButtonState = "HIGH" =>
           \/ age["mode"] >= AgeCap
           \/ age["mode"] >= Elapsed(lastButtonCheck) + ButtonPeriod + 1

\* The inductive invariant: what each clock shows, at each place of the loop.
LoopInv ==
    /\ TypeOK
    /\ TelemetryClock /\ EnvClock /\ DisplayClock /\ ButtonClock
    /\ shownMode = displayMode
    /\ ButtonFalls => pressed

(***************************************************************************)
(* Time.                                                                   *)
(***************************************************************************)

\* The parameters are numbers, and no period and pass together reach the wrap.
LEMMA Periods ==
    /\ Wrap \in Nat /\ Wrap > 0
    /\ ButtonPeriod \in Nat /\ DisplayPeriod \in Nat /\ BlinkPeriod \in Nat
    /\ EnvPeriod \in Nat /\ TelPeriod \in Nat
    /\ LoopDelay \in Nat /\ FlashTime \in Nat /\ RxTime \in Nat /\ TxTime \in Nat
    /\ DrawTime \in Nat /\ SetupTime \in Nat /\ NModes \in Nat
    /\ LoopDelay > 0 /\ TxTime > 0 /\ NModes > 1
    /\ EnvPeriod <= TelPeriod /\ SetupTime <= TelPeriod
    /\ LoopMax = FlashTime + RxTime + TxTime + DrawTime + LoopDelay
    /\ ButtonPeriod + LoopMax + SetupTime < Wrap
    /\ DisplayPeriod + LoopMax + SetupTime < Wrap
    /\ EnvPeriod + LoopMax + SetupTime < Wrap
    /\ TelPeriod + LoopMax + SetupTime < Wrap
    /\ 2 * (ButtonPeriod + 1) <= Wrap
<1>1. /\ {Wrap, ButtonPeriod, DisplayPeriod, BlinkPeriod, EnvPeriod, TelPeriod,
          LoopDelay, FlashTime, RxTime, TxTime, DrawTime, SetupTime, NModes} \subseteq Nat
      /\ LoopDelay > 0 /\ TxTime > 0 /\ NModes > 1
      /\ EnvPeriod <= TelPeriod /\ SetupTime <= TelPeriod
      /\ \A p \in {ButtonPeriod, DisplayPeriod, BlinkPeriod, EnvPeriod, TelPeriod} :
             p + LoopMax + SetupTime < Wrap
      /\ 2 * (ButtonPeriod + 1) <= Wrap
  BY PeriodsAssumption DEF PeriodsAssumption
<1> QED
  BY <1>1 DEF LoopMax

\* The unsigned difference, and what d milliseconds do to it.
LEMMA Difference ==
    ASSUME NEW n \in 0..(Wrap - 1), NEW l \in 0..(Wrap - 1)
    PROVE  /\ (n - l) % Wrap = (IF n >= l THEN n - l ELSE n - l + Wrap)
           /\ (n - l) % Wrap \in 0..(Wrap - 1)
<1>1. CASE n >= l
  <2>1. n - l \in 0..(Wrap - 1)
    BY <1>1, Periods
  <2> QED
    BY <1>1, <2>1, Periods
<1>2. CASE ~(n >= l)
  <2>1. n - l \in (-Wrap)..(0 - 1) /\ n - l + Wrap \in 0..(Wrap - 1)
    BY <1>2, Periods
  <2>2. (n - l) % Wrap = n - l + Wrap
    BY <2>1, Periods
  <2> QED
    BY <1>2, <2>1, <2>2
<1> QED
  BY <1>1, <1>2

\* Time that passes adds to the difference, as long as that stays below the wrap.
LEMMA Advance ==
    ASSUME NEW n \in 0..(Wrap - 1), NEW l \in 0..(Wrap - 1), NEW d \in Nat,
           ((n - l) % Wrap) + d < Wrap
    PROVE  /\ (n + d) % Wrap \in 0..(Wrap - 1)
           /\ (((n + d) % Wrap) - l) % Wrap = ((n - l) % Wrap) + d
<1>1. d < Wrap
  BY Difference, Periods
<1>2. (n + d) % Wrap = (IF n + d < Wrap THEN n + d ELSE n + d - Wrap)
  <2>1. CASE n + d < Wrap
    <3>1. n + d \in 0..(Wrap - 1)
      BY <2>1, Periods
    <3> QED
      BY <2>1, <3>1, Periods
  <2>2. CASE ~(n + d < Wrap)
    <3>1. n + d \in Wrap..(2 * Wrap - 1)
      BY <1>1, <2>2, Periods
    <3> QED
      BY <2>2, <3>1, Periods
  <2> QED
    BY <2>1, <2>2
<1> DEFINE m == (n + d) % Wrap
<1>3. m \in 0..(Wrap - 1) /\ m = (IF n + d < Wrap THEN n + d ELSE n + d - Wrap)
  BY <1>1, <1>2, Periods
<1> HIDE DEF m
<1>4. (m - l) % Wrap = (IF m >= l THEN m - l ELSE m - l + Wrap)
  BY <1>3, Difference
<1>5. (n - l) % Wrap = (IF n >= l THEN n - l ELSE n - l + Wrap)
  BY Difference
<1>6. (m - l) % Wrap = ((n - l) % Wrap) + d
  BY <1>1, <1>3, <1>4, <1>5, Periods
<1> QED
  BY <1>3, <1>6 DEF m

\* What Spend() does to the timers and to the true times.
LEMMA SpendTime ==
    ASSUME TypeOK, NEW d \in Nat, d < Wrap, NEW restarted \in SUBSET Clocks, NEW s \in 0..d,
           Spend(d, restarted, s)
    PROVE  /\ now' \in 0..(Wrap - 1)
           /\ age' \in [Clocks -> 0..Never]
           /\ \A c \in Clocks : age'[c] = IF c \in restarted THEN s ELSE Older(age[c], d)
           /\ \A l \in 0..(Wrap - 1) : Elapsed(l) + d < Wrap => (now' - l) % Wrap = Elapsed(l) + d
           /\ (now' - now') % Wrap = 0
           /\ (now' - now) % Wrap = d
<1>1. now \in 0..(Wrap - 1) /\ age \in [Clocks -> 0..Never]
  BY DEF TypeOK
<1>2. now' = (now + d) % Wrap /\ Elapsed(now) = 0
  BY <1>1, Difference DEF Spend, Elapsed
<1>3. now' \in 0..(Wrap - 1) /\ (now' - now) % Wrap = d
  BY <1>1, <1>2, Advance DEF Elapsed
<1>4. (now' - now') % Wrap = 0
  BY <1>3, Difference
<1>5. \A l \in 0..(Wrap - 1) : Elapsed(l) + d < Wrap => (now' - l) % Wrap = Elapsed(l) + d
  BY <1>1, <1>2, Advance DEF Elapsed
<1>6. \A c \in Clocks : age'[c] = IF c \in restarted THEN s ELSE Older(age[c], d)
  BY DEF Spend
<1>7. age' \in [Clocks -> 0..Never]
  <2>1. \A c \in Clocks : Older(age[c], d) \in 0..Never
    BY <1>1, Periods DEF Older, Never, AgeCap
  <2>2. s \in 0..Never
    BY Periods DEF Never, AgeCap
  <2> QED
    BY <2>1, <2>2 DEF Spend
<1> QED
  BY <1>3, <1>4, <1>5, <1>6, <1>7

\* The timers as the proofs of the sections use them.
LEMMA Timers ==
    ASSUME TypeOK
    PROVE  /\ pc \in Sections
           /\ now \in 0..(Wrap - 1) /\ lastButtonCheck \in 0..(Wrap - 1)
           /\ lastEnvironmentalRead \in 0..(Wrap - 1)
           /\ lastTelemetryBroadcast \in 0..(Wrap - 1)
           /\ lastDisplayUpdate \in 0..(Wrap - 1) /\ lastBlink \in 0..(Wrap - 1)
           /\ displayMode \in 0..(NModes - 1) /\ shownMode \in 0..(NModes - 1)
           /\ buttonPin \in Levels /\ lastButtonState \in Levels
           /\ ledState \in BOOLEAN /\ ledPin \in BOOLEAN /\ pressed \in BOOLEAN
           /\ age \in [Clocks -> 0..Never]
           /\ Elapsed(now) = 0
           /\ \A l \in 0..(Wrap - 1) : Elapsed(l) \in 0..(Wrap - 1)
<1>1. now \in 0..(Wrap - 1)
  BY DEF TypeOK
<1>2. \A l \in 0..(Wrap - 1) : Elapsed(l) \in 0..(Wrap - 1)
  BY <1>1, Difference DEF Elapsed
<1>3. Elapsed(now) = 0
  BY <1>1, Difference DEF Elapsed
<1> QED
  BY <1>1, <1>2, <1>3 DEF TypeOK

(***************************************************************************)
(* The sections of loop().                                                 *)
(***************************************************************************)

\* Nothing but time passes, in a section that takes at most the time it is given.
LEMMA WaitKeeps ==
    ASSUME LoopInv, NEW d \in Nat,
           \/ pc = "receive" /\ pc' = "env" /\ d <= RxTime
           \/ pc = "blink" /\ pc' = "button" /\ d <= LoopDelay,
           Spend(d, {}, 0),
           UNCHANGED << buttonPin, button, timers, screen >>,
           lastBlink' \in 0..(Wrap - 1), ledState' \in BOOLEAN, ledPin' \in BOOLEAN
    PROVE  LoopInv'
<1>0. TypeOK
  BY DEF LoopInv
<1>1. d < Wrap
  BY Periods
<1>2. /\ now' \in 0..(Wrap - 1)
      /\ age' \in [Clocks -> 0..Never]
      /\ \A c \in Clocks : age'[c] = Older(age[c], d)
      /\ \A l \in 0..(Wrap - 1) : Elapsed(l) + d < Wrap => (now' - l) % Wrap = Elapsed(l) + d
  <2>1. /\ now' \in 0..(Wrap - 1) /\ age' \in [Clocks -> 0..Never]
        /\ \A c \in Clocks : age'[c] = IF c \in {} THEN 0 ELSE Older(age[c], d)
        /\ \A l \in 0..(Wrap - 1) :
               Elapsed(l) + d < Wrap => (now' - l) % Wrap = Elapsed(l) + d
    <3>1. {} \in SUBSET Clocks /\ 0 \in 0..d
      OBVIOUS
    <3> QED
      BY <1>0, <1>1, <3>1, SpendTime
  <2> QED
    BY <2>1
<1>3. /\ lastButtonCheck' = lastButtonCheck /\ lastButtonState' = lastButtonState
      /\ pressed' = pressed /\ buttonPin' = buttonPin
      /\ lastEnvironmentalRead' = lastEnvironmentalRead
      /\ lastTelemetryBroadcast' = lastTelemetryBroadcast
      /\ lastDisplayUpdate' = lastDisplayUpdate
      /\ displayMode' = displayMode /\ shownMode' = shownMode
  BY DEF button, timers, screen
<1>4. TypeOK'
  BY <1>0, <1>2, <1>3, Timers DEF TypeOK, Sections
<1>5. TelemetryClock'
  BY <1>0, <1>2, <1>3, Timers, Periods
     DEF LoopInv, TelemetryClock, SinceTelemetry, Since, Before, Elapsed, Older, Never, AgeCap,
         Clocks
<1>6. EnvClock'
  BY <1>0, <1>2, <1>3, Timers, Periods
     DEF LoopInv, EnvClock, TelemetryClock, SinceTelemetry, SinceEnv, Since, Before, Elapsed, Older, Never, AgeCap, Clocks
<1>7. DisplayClock'
  BY <1>0, <1>2, <1>3, Timers, Periods
     DEF LoopInv, DisplayClock, SinceDisplay, Since, Before, Elapsed, Older, Never, AgeCap, Clocks
<1>8. ButtonClock'
  BY <1>0, <1>2, <1>3, Timers, Periods
     DEF LoopInv, ButtonClock, SinceButton, Since, Before, Elapsed, Older, Never, AgeCap, Clocks, Sections
<1> QED
  BY <1>3, <1>4, <1>5, <1>6, <1>7, <1>8 DEF LoopInv, ButtonFalls

\* receiveMeshPacket() keeps the invariant.
LEMMA ReceiveKeeps ==
    ASSUME LoopInv, ReceiveSection
    PROVE  LoopInv'
<1>1. PICK d \in 0..RxTime : Spend(d, {}, 0)
  BY DEF ReceiveSection
<1>2. d \in Nat /\ d <= RxTime
  BY Periods
<1>3. lastBlink' \in 0..(Wrap - 1) /\ ledState' \in BOOLEAN /\ ledPin' \in BOOLEAN
  BY Timers DEF LoopInv, ReceiveSection, led
<1> QED
  BY <1>1, <1>2, <1>3, WaitKeeps DEF ReceiveSection, Then

\* The heartbeat and delay() keep it.
LEMMA BlinkKeeps ==
    ASSUME LoopInv, BlinkSection
    PROVE  LoopInv'
<1>1. LoopDelay \in Nat /\ LoopDelay <= LoopDelay
  BY Periods
<1>2. lastBlink' \in 0..(Wrap - 1) /\ ledState' \in BOOLEAN /\ ledPin' \in BOOLEAN
  BY Timers DEF LoopInv, BlinkSection, led
<1> QED
  BY <1>1, <1>2, WaitKeeps DEF BlinkSection, Then

\* Reading the sensors takes no time, and starts both the timer and the true age.
LEMMA EnvKeeps ==
    ASSUME LoopInv, EnvSection
    PROVE  LoopInv'
<1>0. TypeOK /\ pc = "env" /\ pc' = "telemetry"
  BY DEF LoopInv, EnvSection, Then
<1>1. /\ lastButtonCheck' = lastButtonCheck /\ lastButtonState' = lastButtonState
      /\ pressed' = pressed /\ buttonPin' = buttonPin
      /\ lastTelemetryBroadcast' = lastTelemetryBroadcast
      /\ lastDisplayUpdate' = lastDisplayUpdate
      /\ displayMode' = displayMode /\ shownMode' = shownMode
      /\ lastBlink' = lastBlink /\ ledState' = ledState /\ ledPin' = ledPin
  BY DEF EnvSection, button, screen, led
<1>2. /\ now' = now
      /\ age' \in [Clocks -> 0..Never]
      /\ \A c \in Clocks \ {"env"} : age'[c] = age[c]
      /\ IF Due(lastEnvironmentalRead, EnvPeriod)
         THEN lastEnvironmentalRead' = now /\ age'["env"] = 0
         ELSE lastEnvironmentalRead' = lastEnvironmentalRead /\ age'["env"] = age["env"]
  <2>1. CASE Due(lastEnvironmentalRead, EnvPeriod)
    <3>1. Spend(0, {"env"}, 0) /\ lastEnvironmentalRead' = now'
      BY <2>1 DEF EnvSection
    <3>2. /\ now' \in 0..(Wrap - 1) /\ age' \in [Clocks -> 0..Never]
          /\ \A c \in Clocks : age'[c] = IF c \in {"env"} THEN 0 ELSE Older(age[c], 0)
      <4>1. {"env"} \in SUBSET Clocks /\ 0 \in 0..0 /\ 0 \in Nat /\ 0 < Wrap
        BY Periods DEF Clocks
      <4> QED
        BY <1>0, <3>1, <4>1, SpendTime
    <3>3. now' = now
      <4>1. now + 0 = now /\ now \in 0..(Wrap - 1)
        BY <1>0, Timers
      <4>2. now % Wrap = now
        BY <4>1, Periods
      <4> QED
        BY <3>1, <4>1, <4>2 DEF Spend
    <3>4. \A c \in Clocks \ {"env"} : age'[c] = age[c]
      BY <1>0, <3>2, Timers, Periods DEF Older, Never, AgeCap
    <3> QED
      BY <2>1, <3>1, <3>2, <3>3, <3>4 DEF Clocks
  <2>2. CASE ~Due(lastEnvironmentalRead, EnvPeriod)
    BY <1>0, <2>2, Timers DEF EnvSection
  <2> QED
    BY <2>1, <2>2
<1>3. TypeOK'
  BY <1>0, <1>1, <1>2, Timers DEF TypeOK, Sections
<1>4. TelemetryClock' /\ DisplayClock' /\ ButtonClock'
  BY <1>0, <1>1, <1>2, Timers, Periods
     DEF LoopInv, TelemetryClock, DisplayClock, ButtonClock, SinceTelemetry, SinceDisplay,
         SinceButton, Since, Before, Elapsed, Clocks, Sections
<1>5. EnvClock'
  <2>1. CASE Due(lastEnvironmentalRead, EnvPeriod)
    BY <1>0, <1>2, <2>1, Timers, Periods
       DEF EnvClock, SinceEnv, Since, Before, Elapsed, Never, AgeCap
  <2>2. CASE ~Due(lastEnvironmentalRead, EnvPeriod) /\ age["env"] # Never
    <3>1. age["env"] <= EnvPeriod /\ age["env"] = Elapsed(lastEnvironmentalRead)
      BY <1>0, <2>2, Timers, Periods DEF LoopInv, EnvClock, Due
    <3> QED
      BY <1>0, <1>2, <2>2, <3>1, Timers, Periods DEF EnvClock, SinceEnv, Since, Before, Elapsed
  <2>3. CASE ~Due(lastEnvironmentalRead, EnvPeriod) /\ age["env"] = Never
    <3>1. /\ lastEnvironmentalRead = 0 /\ lastTelemetryBroadcast = 0
          /\ age["telemetry"] = Elapsed(0)
      BY <2>3 DEF LoopInv, EnvClock, TelemetryClock
    <3>2. age["telemetry"] <= EnvPeriod
      BY <1>0, <2>3, <3>1, Timers, Periods DEF Due
    <3>3. age'["telemetry"] = age["telemetry"]
      BY <1>2 DEF Clocks
    <3> QED
      BY <1>1, <1>2, <2>3, <3>1, <3>2, <3>3 DEF EnvClock
  <2> QED
    BY <2>1, <2>2, <2>3
<1> QED
  BY <1>1, <1>3, <1>4, <1>5 DEF LoopInv, ButtonFalls

\* A broadcast restarts the telemetry timer when it is over.
LEMMA TelemetryKeeps ==
    ASSUME LoopInv, TelemetrySection
    PROVE  LoopInv'
<1>0. TypeOK /\ pc = "telemetry" /\ pc' = "display"
  BY DEF LoopInv, TelemetrySection, Then
<1>1. /\ lastButtonCheck' = lastButtonCheck /\ lastButtonState' = lastButtonState
      /\ pressed' = pressed /\ buttonPin' = buttonPin
      /\ lastEnvironmentalRead' = lastEnvironmentalRead
      /\ lastDisplayUpdate' = lastDisplayUpdate
      /\ displayMode' = displayMode /\ shownMode' = shownMode
      /\ lastBlink' = lastBlink /\ ledState' = ledState /\ ledPin' = ledPin
  BY DEF TelemetrySection, button, screen, led
<1>2. CASE Due(lastTelemetryBroadcast, TelPeriod)
  <2>1. PICK d \in 1..TxTime : Spend(d, {"telemetry"}, 0)
    BY <1>2 DEF TelemetrySection
  <2>2. d \in Nat /\ d <= TxTime /\ d < Wrap /\ lastTelemetryBroadcast' = now'
    BY <1>2, Periods DEF TelemetrySection
  <2>3. /\ now' \in 0..(Wrap - 1) /\ age' \in [Clocks -> 0..Never]
        /\ \A c \in Clocks : age'[c] = IF c \in {"telemetry"} THEN 0 ELSE Older(age[c], d)
        /\ \A l \in 0..(Wrap - 1) :
               Elapsed(l) + d < Wrap => (now' - l) % Wrap = Elapsed(l) + d
        /\ (now' - now') % Wrap = 0
    <3>1. {"telemetry"} \in SUBSET Clocks /\ 0 \in 0..d
      BY <2>2 DEF Clocks
    <3> QED
      BY <1>0, <2>1, <2>2, <3>1, SpendTime
  <2>4. /\ \A c \in Clocks \ {"telemetry"} : age'[c] = Older(age[c], d)
        /\ age'["telemetry"] = 0
    BY <2>3 DEF Clocks
  <2>5. TypeOK'
    BY <1>0, <1>1, <2>2, <2>3, Timers DEF TypeOK, Sections
  <2>6. TelemetryClock'
    BY <1>0, <2>2, <2>3, <2>4, Periods
       DEF TelemetryClock, SinceTelemetry, Since, Before, Elapsed
  <2>7. age["env"] # Never
    BY <1>0, <1>2, Timers, Periods DEF LoopInv, EnvClock, TelemetryClock, Due
  <2>8. EnvClock'
    BY <1>0, <1>1, <2>2, <2>3, <2>4, <2>7, Timers, Periods
       DEF LoopInv, EnvClock, SinceEnv, Since, Before, Elapsed, Older, Never, AgeCap, Clocks
  <2>9. DisplayClock'
    BY <1>0, <1>1, <2>2, <2>3, <2>4, Timers, Periods
       DEF LoopInv, DisplayClock, SinceDisplay, Since, Before, Elapsed, Older, Never, AgeCap,
           Clocks
  <2>10. ButtonClock'
    BY <1>0, <1>1, <2>2, <2>3, <2>4, Timers, Periods
       DEF LoopInv, ButtonClock, SinceButton, Since, Before, Elapsed, Older, Never, AgeCap,
           Clocks, Sections
  <2> QED
    BY <1>1, <2>5, <2>6, <2>8, <2>9, <2>10 DEF LoopInv, ButtonFalls
<1>3. CASE ~Due(lastTelemetryBroadcast, TelPeriod)
  <2>1. /\ lastTelemetryBroadcast' = lastTelemetryBroadcast /\ now' = now /\ age' = age
    BY <1>3 DEF TelemetrySection
  <2>2. TypeOK'
    BY <1>0, <1>1, <2>1 DEF TypeOK, Sections
  <2>3. TelemetryClock' /\ DisplayClock' /\ ButtonClock'
    BY <1>0, <1>1, <1>3, <2>1, Timers, Periods
       DEF LoopInv, TelemetryClock, DisplayClock, ButtonClock, SinceTelemetry, SinceDisplay,
           SinceButton, Since, Before, Elapsed, Due, Clocks, Sections
  <2>4. EnvClock'
    BY <1>0, <1>1, <2>1, Timers, Periods
       DEF LoopInv, EnvClock, SinceEnv, Since, Before, Elapsed, Clocks
  <2> QED
    BY <1>1, <2>2, <2>3, <2>4 DEF LoopInv, ButtonFalls
<1> QED
  BY <1>2, <1>3

\* Drawing the screen restarts the display timer when it is over, and the screen is as old
\* as the drawing took.
LEMMA DisplayKeeps ==
    ASSUME LoopInv, DisplaySection
    PROVE  LoopInv'
<1>0. TypeOK /\ pc = "display" /\ pc' = "blink"
  BY DEF LoopInv, DisplaySection, Then
<1>1. /\ lastButtonCheck' = lastButtonCheck /\ lastButtonState' = lastButtonState
      /\ pressed' = pressed /\ buttonPin' = buttonPin
      /\ lastEnvironmentalRead' = lastEnvironmentalRead
      /\ lastTelemetryBroadcast' = lastTelemetryBroadcast
      /\ displayMode' = displayMode /\ shownMode' = displayMode
      /\ lastBlink' = lastBlink /\ ledState' = ledState /\ ledPin' = ledPin
  BY DEF DisplaySection, button, led, LoopInv
<1>2. CASE Due(lastDisplayUpdate, DisplayPeriod)
  <2>1. PICK d \in 0..DrawTime : Spend(d, {"display"}, d)
    BY <1>2 DEF DisplaySection
  <2>2. d \in Nat /\ d <= DrawTime /\ d < Wrap /\ lastDisplayUpdate' = now'
    BY <1>2, Periods DEF DisplaySection
  <2>3. /\ now' \in 0..(Wrap - 1) /\ age' \in [Clocks -> 0..Never]
        /\ \A c \in Clocks : age'[c] = IF c \in {"display"} THEN d ELSE Older(age[c], d)
        /\ \A l \in 0..(Wrap - 1) :
               Elapsed(l) + d < Wrap => (now' - l) % Wrap = Elapsed(l) + d
        /\ (now' - now') % Wrap = 0
    <3>1. {"display"} \in SUBSET Clocks /\ d \in 0..d
      BY <2>2 DEF Clocks
    <3> QED
      BY <1>0, <2>1, <2>2, <3>1, SpendTime
  <2>4. /\ \A c \in Clocks \ {"display"} : age'[c] = Older(age[c], d)
        /\ age'["display"] = d
    BY <2>3 DEF Clocks
  <2>5. TypeOK'
    BY <1>0, <1>1, <2>2, <2>3, Timers DEF TypeOK, Sections
  <2>6. TelemetryClock'
    BY <1>0, <1>1, <2>2, <2>3, <2>4, Timers, Periods
       DEF LoopInv, TelemetryClock, SinceTelemetry, Since, Before, Elapsed, Older, Never,
           AgeCap, Clocks
  <2>7. EnvClock'
    BY <1>0, <1>1, <2>2, <2>3, <2>4, Timers, Periods
       DEF LoopInv, EnvClock, SinceEnv, Since, Before, Elapsed, Older, Never, AgeCap, Clocks
  <2>8. DisplayClock'
    BY <1>0, <2>2, <2>3, <2>4, Periods
       DEF DisplayClock, SinceDisplay, Since, Before, Elapsed
  <2>9. ButtonClock'
    BY <1>0, <1>1, <2>2, <2>3, <2>4, Timers, Periods
       DEF LoopInv, ButtonClock, SinceButton, Since, Before, Elapsed, Older, Never, AgeCap,
           Clocks, Sections
  <2> QED
    BY <1>1, <2>5, <2>6, <2>7, <2>8, <2>9 DEF LoopInv, ButtonFalls
<1>3. CASE ~Due(lastDisplayUpdate, DisplayPeriod)
  <2>1. /\ lastDisplayUpdate' = lastDisplayUpdate /\ now' = now /\ age' = age
    BY <1>3 DEF DisplaySection
  <2>2. TypeOK'
    BY <1>0, <1>1, <2>1, Timers DEF TypeOK, Sections
  <2>3. TelemetryClock' /\ ButtonClock'
    BY <1>0, <1>1, <2>1, Timers, Periods
       DEF LoopInv, TelemetryClock, ButtonClock, SinceTelemetry, SinceButton, Since, Before,
           Elapsed, Clocks, Sections
  <2>5. EnvClock'
    BY <1>0, <1>1, <2>1, Timers, Periods
       DEF LoopInv, EnvClock, SinceEnv, Since, Before, Elapsed, Clocks
  <2>4. DisplayClock'
    BY <1>0, <1>1, <1>3, <2>1, Timers, Periods
       DEF LoopInv, DisplayClock, SinceDisplay, Since, Before, Elapsed, Due, Clocks
  <2> QED
    BY <1>1, <2>2, <2>3, <2>4, <2>5 DEF LoopInv, ButtonFalls
<1> QED
  BY <1>2, <1>3

\* What a button press that is handled does: the button was pressed since the last mode
\* change, which is at least two periods of the button ago.
LEMMA PressIsSeen ==
    ASSUME LoopInv, ButtonFalls, Due(lastButtonCheck, ButtonPeriod)
    PROVE  pressed /\ age["mode"] >= 2 * (ButtonPeriod + 1)
<1>1. TypeOK /\ lastButtonState = "HIGH" /\ pressed
  BY DEF LoopInv, ButtonFalls
<1>2. age["mode"] \in 0..Never
  BY <1>1, Timers DEF Clocks
<1> QED
  BY <1>1, <1>2, Timers, Periods DEF LoopInv, ButtonClock, Due, AgeCap, Never

\* Sampling the button, and handling it, keeps the invariant.
LEMMA ButtonKeeps ==
    ASSUME LoopInv, ButtonSection
    PROVE  LoopInv'
<1>0. TypeOK /\ pc = "button" /\ pc' = "receive"
  BY DEF LoopInv, ButtonSection, Then
<1>1. /\ buttonPin' = buttonPin
      /\ lastEnvironmentalRead' = lastEnvironmentalRead
      /\ lastTelemetryBroadcast' = lastTelemetryBroadcast
      /\ lastDisplayUpdate' = lastDisplayUpdate
  BY DEF ButtonSection, timers
<1>2. CASE Due(lastButtonCheck, ButtonPeriod) /\ ButtonFalls
  <2>1. /\ lastButtonCheck' = now /\ lastButtonState' = "LOW"
        /\ displayMode' = (displayMode + 1) % NModes /\ shownMode' = displayMode'
        /\ ledPin' = FALSE /\ pressed' = FALSE
        /\ lastBlink' = lastBlink /\ ledState' = ledState
        /\ Spend(FlashTime, {"mode", "display"}, FlashTime)
    BY <1>2 DEF ButtonSection, HandleButtonPress, ButtonFalls
  <2>2. /\ now' \in 0..(Wrap - 1) /\ age' \in [Clocks -> 0..Never]
        /\ \A c \in Clocks : age'[c] = IF c \in {"mode", "display"} THEN FlashTime
                                       ELSE Older(age[c], FlashTime)
        /\ \A l \in 0..(Wrap - 1) :
               Elapsed(l) + FlashTime < Wrap => (now' - l) % Wrap = Elapsed(l) + FlashTime
        /\ (now' - now) % Wrap = FlashTime
    <3>1. /\ {"mode", "display"} \in SUBSET Clocks /\ FlashTime \in 0..FlashTime
          /\ FlashTime \in Nat /\ FlashTime < Wrap
      BY Periods DEF Clocks
    <3> QED
      BY <1>0, <2>1, <3>1, SpendTime
  <2>3. /\ age'["mode"] = FlashTime /\ age'["display"] = FlashTime
        /\ age'["telemetry"] = Older(age["telemetry"], FlashTime)
        /\ age'["env"] = Older(age["env"], FlashTime)
    BY <2>2 DEF Clocks
  <2>4. displayMode' \in 0..(NModes - 1)
    BY <1>0, <2>1, Timers, Periods
  <2>5. TypeOK'
    BY <1>0, <1>1, <2>1, <2>2, <2>4, Timers DEF TypeOK, Sections, Levels
  <2>6. TelemetryClock'
    BY <1>0, <1>1, <2>2, <2>3, Timers, Periods
       DEF LoopInv, TelemetryClock, SinceTelemetry, Since, Before, Elapsed, Older, Never,
           AgeCap, Clocks
  <2>7. EnvClock'
    BY <1>0, <1>1, <2>2, <2>3, Timers, Periods
       DEF LoopInv, EnvClock, SinceEnv, Since, Before, Elapsed, Older, Never, AgeCap, Clocks
  <2>8. DisplayClock'
    <3>1. /\ SinceDisplay = LoopMax - (FlashTime + RxTime + TxTime + DrawTime)
          /\ SinceDisplay' = SinceDisplay + FlashTime
      BY <1>0, Periods DEF SinceDisplay, Since, Before
    <3>2. /\ age["display"] <= Elapsed(lastDisplayUpdate) + DrawTime
          /\ Elapsed(lastDisplayUpdate) <= DisplayPeriod + SetupTime + SinceDisplay
      BY DEF LoopInv, DisplayClock
    <3>3. SinceDisplay = LoopDelay
      BY <1>0, <3>1, Periods
    <3>4. /\ Elapsed(lastDisplayUpdate) \in Nat
          /\ (now' - lastDisplayUpdate') % Wrap = Elapsed(lastDisplayUpdate) + FlashTime
      <4>1. Elapsed(lastDisplayUpdate) \in 0..(Wrap - 1) /\ lastDisplayUpdate \in 0..(Wrap - 1)
        BY <1>0, Timers
      <4>2. Elapsed(lastDisplayUpdate) + FlashTime < Wrap
        BY <3>2, <3>3, <4>1, Periods
      <4> QED
        BY <1>1, <2>2, <4>1, <4>2
    <3>5. /\ age'["display"] <= ((now' - lastDisplayUpdate') % Wrap) + DrawTime
          /\ (now' - lastDisplayUpdate') % Wrap <= DisplayPeriod + SetupTime + SinceDisplay'
          /\ age'["display"] <= DisplayPeriod + DrawTime + SinceDisplay'
      BY <2>3, <3>1, <3>2, <3>3, <3>4, Periods
    <3> QED
      BY <3>5 DEF DisplayClock, Elapsed
  <2>9. ButtonClock'
    BY <1>0, <2>1, <2>2, <2>3, Periods
       DEF ButtonClock, SinceButton, Since, Before, Elapsed, Sections
  <2> QED
    BY <2>1, <2>5, <2>6, <2>7, <2>8, <2>9 DEF LoopInv, ButtonFalls
<1>3. CASE Due(lastButtonCheck, ButtonPeriod) /\ ~ButtonFalls
  <2>1. /\ lastButtonCheck' = now /\ lastButtonState' = buttonPin
        /\ displayMode' = displayMode /\ shownMode' = shownMode
        /\ ledPin' = ledPin /\ pressed' = pressed
        /\ lastBlink' = lastBlink /\ ledState' = ledState /\ now' = now /\ age' = age
    BY <1>3 DEF ButtonSection, screen, led
  <2>2. TypeOK'
    BY <1>0, <1>1, <2>1, Timers DEF TypeOK, Sections
  <2>3. TelemetryClock' /\ DisplayClock'
    BY <1>0, <1>1, <2>1, Timers, Periods
       DEF LoopInv, TelemetryClock, DisplayClock, SinceTelemetry, SinceDisplay, Since, Before,
           Elapsed, Clocks
  <2>4. EnvClock'
    BY <1>0, <1>1, <2>1, Timers, Periods
       DEF LoopInv, EnvClock, SinceEnv, Since, Before, Elapsed, Clocks
  <2>5. ButtonClock'
    <3>1. Elapsed(lastButtonCheck) > ButtonPeriod /\ Elapsed(lastButtonCheck) \in Nat
      BY <1>0, <1>3, Timers DEF Due
    <3>2. age["mode"] \in Nat /\ age["mode"] >= ButtonPeriod + 1
      BY <1>0, <3>1, Timers, Periods DEF LoopInv, ButtonClock, Clocks, Never, AgeCap
    <3>3. Elapsed(now) = 0
      BY <1>0, Timers
    <3> QED
      BY <1>0, <2>1, <3>2, <3>3, Periods
         DEF ButtonClock, SinceButton, Since, Before, Elapsed, Sections
  <2> QED
    BY <1>1, <2>1, <2>2, <2>3, <2>4, <2>5 DEF LoopInv, ButtonFalls
<1>4. CASE ~Due(lastButtonCheck, ButtonPeriod)
  <2>1. /\ lastButtonCheck' = lastButtonCheck /\ lastButtonState' = lastButtonState
        /\ displayMode' = displayMode /\ shownMode' = shownMode
        /\ ledPin' = ledPin /\ pressed' = pressed
        /\ lastBlink' = lastBlink /\ ledState' = ledState /\ now' = now /\ age' = age
    BY <1>4 DEF ButtonSection, screen, led, button
  <2>2. TypeOK'
    BY <1>0, <1>1, <2>1, Timers DEF TypeOK, Sections
  <2>3. TelemetryClock' /\ DisplayClock'
    BY <1>0, <1>1, <2>1, Timers, Periods
       DEF LoopInv, TelemetryClock, DisplayClock, SinceTelemetry, SinceDisplay, Since, Before,
           Elapsed, Clocks
  <2>4. EnvClock'
    BY <1>0, <1>1, <2>1, Timers, Periods
       DEF LoopInv, EnvClock, SinceEnv, Since, Before, Elapsed, Clocks
  <2>5. ButtonClock'
    BY <1>0, <1>4, <2>1, Timers, Periods
       DEF LoopInv, ButtonClock, SinceButton, Since, Before, Elapsed, Due, Sections
  <2> QED
    BY <1>1, <2>1, <2>2, <2>3, <2>4, <2>5 DEF LoopInv, ButtonFalls
<1> QED
  BY <1>2, <1>3, <1>4

\* The user changes the pin, and history, only.
LEMMA UserKeeps ==
    ASSUME LoopInv, PressButton \/ ReleaseButton \/ UNCHANGED vars
    PROVE  LoopInv'
<1>1. /\ pc' = pc /\ now' = now /\ age' = age
      /\ lastButtonCheck' = lastButtonCheck /\ lastButtonState' = lastButtonState
      /\ lastEnvironmentalRead' = lastEnvironmentalRead
      /\ lastTelemetryBroadcast' = lastTelemetryBroadcast
      /\ lastDisplayUpdate' = lastDisplayUpdate
      /\ displayMode' = displayMode /\ shownMode' = shownMode
      /\ lastBlink' = lastBlink /\ ledState' = ledState /\ ledPin' = ledPin
  BY DEF PressButton, ReleaseButton, vars, timers, led, screen, button
<1>2. TypeOK'
  BY <1>1 DEF LoopInv, TypeOK, Levels, PressButton, ReleaseButton, vars, button
<1>3. TelemetryClock' /\ DisplayClock'
  BY <1>1 DEF LoopInv, TelemetryClock, DisplayClock, SinceTelemetry, SinceDisplay, Since,
              Before, Elapsed
<1>4. EnvClock' /\ ButtonClock'
  BY <1>1 DEF LoopInv, EnvClock, ButtonClock, SinceEnv, SinceButton, Since, Before, Elapsed
<1>5. ButtonFalls' => pressed'
  BY <1>1 DEF LoopInv, ButtonFalls, PressButton, ReleaseButton, vars, button
<1> QED
  BY <1>1, <1>2, <1>3, <1>4, <1>5 DEF LoopInv

(***************************************************************************)
(* The theorems.                                                           *)
(***************************************************************************)

\* LoopInv holds when setup() is over, and every section and the user keep it.
THEOREM LoopInvariance == Spec => []LoopInv
<1>1. Init => LoopInv
  <2> SUFFICES ASSUME Init PROVE LoopInv
    OBVIOUS
  <2>1. /\ pc = "button" /\ now \in 1..SetupTime /\ now \in 0..(Wrap - 1)
        /\ buttonPin \in {"HIGH", "LOW"} /\ lastButtonCheck = 0 /\ lastButtonState = "HIGH"
        /\ lastEnvironmentalRead = 0 /\ lastTelemetryBroadcast = 0 /\ lastDisplayUpdate = 0
        /\ lastBlink = 0 /\ ledState = FALSE /\ ledPin = FALSE
        /\ displayMode = 0 /\ shownMode = 0
        /\ 0 \in 0..(Wrap - 1) /\ 0 \in 0..(NModes - 1)
    BY Periods DEF Init
  <2>2. /\ age["env"] = Never /\ age["telemetry"] = now
        /\ age["display"] = 0 /\ age["mode"] = AgeCap
    BY DEF Init, Clocks
  <2>3. age \in [Clocks -> 0..Never]
    <3>1. {Never, now, 0, AgeCap} \subseteq 0..Never
      BY <2>1, Periods DEF Never, AgeCap
    <3>2. age = [c \in Clocks |-> age[c]]
      <4> DEFINE e(c) == CASE c = "env"       -> Never
                           [] c = "telemetry" -> now
                           [] c = "display"   -> 0
                           [] c = "mode"      -> AgeCap
      <4>1. age = [c \in Clocks |-> e(c)]
        BY Zenon DEF Init
      <4> HIDE DEF e
      <4> QED
        BY <4>1
    <3>3. \A c \in Clocks : age[c] \in 0..Never
      BY <2>2, <3>1 DEF Clocks
    <3> QED
      BY <3>2, <3>3
  <2>4. pressed \in BOOLEAN /\ (ButtonFalls => pressed)
    BY DEF Init, ButtonFalls
  <2>5. TypeOK
    BY <2>1, <2>3, <2>4, Periods DEF TypeOK, Sections, Levels
  <2>6. Elapsed(0) = now
    <3>1. (now - 0) % Wrap = IF now >= 0 THEN now - 0 ELSE now - 0 + Wrap
      BY <2>1, Difference
    <3> QED
      BY <2>1, <3>1, Periods DEF Elapsed
  <2>7. TelemetryClock /\ EnvClock /\ DisplayClock
    <3>1. SinceTelemetry = DrawTime + LoopDelay /\ SinceDisplay = LoopDelay
      BY <2>1, Periods DEF SinceTelemetry, SinceDisplay, Since, Before
    <3> QED
      BY <2>1, <2>2, <2>6, <3>1, Periods DEF TelemetryClock, EnvClock, DisplayClock
  <2>8. ButtonClock
    BY <2>1, <2>2, <2>6, Periods DEF ButtonClock, SinceButton, Since, Before, AgeCap, Sections
  <2> QED
    BY <2>1, <2>4, <2>5, <2>7, <2>8 DEF LoopInv
<1>2. LoopInv /\ [Next]_vars => LoopInv'
  BY ButtonKeeps, ReceiveKeeps, EnvKeeps, TelemetryKeeps, DisplayKeeps, BlinkKeeps, UserKeeps
     DEF Next, Loop
<1> QED
  BY <1>1, <1>2, PTL DEF Spec

\* The state of the loop keeps its type: no timer leaves the range of millis().
THEOREM TypeCorrectness == Spec => []TypeOK
  BY LoopInvariance, PTL DEF LoopInv

\* A node that runs is never silent for longer than TelPeriod and one pass of loop().
THEOREM NeverSilent == Spec => []TelemetryOnTime
<1>1. LoopInv => TelemetryOnTime
  <2> SUFFICES ASSUME LoopInv PROVE TelemetryOnTime
    OBVIOUS
  <2>1. TypeOK /\ age["telemetry"] <= TelPeriod + SinceTelemetry
    BY DEF LoopInv, TelemetryClock
  <2>2. SinceTelemetry <= LoopMax /\ SinceTelemetry \in Int
    BY <2>1, Timers, Periods DEF SinceTelemetry, Since, Before, Sections
  <2>3. age["telemetry"] \in Int
    BY <2>1, Timers, Periods DEF Clocks, Never, AgeCap
  <2> QED
    BY <2>1, <2>2, <2>3, Periods DEF TelemetryOnTime
<1> QED
  BY <1>1, LoopInvariance, PTL

\* The panel shows the selected screen, at most DisplayPeriod and one pass of loop() old.
THEOREM PanelFresh == Spec => []DisplayFresh
<1>1. LoopInv => DisplayFresh
  <2> SUFFICES ASSUME LoopInv PROVE DisplayFresh
    OBVIOUS
  <2>1. /\ TypeOK /\ shownMode = displayMode
        /\ age["display"] <= DisplayPeriod + DrawTime + SinceDisplay
    BY DEF LoopInv, DisplayClock
  <2>2. DrawTime + SinceDisplay <= LoopMax /\ SinceDisplay \in Int
    BY <2>1, Timers, Periods DEF SinceDisplay, Since, Before, Sections
  <2>3. age["display"] \in Int
    BY <2>1, Timers, Periods DEF Clocks, Never, AgeCap
  <2> QED
    BY <2>1, <2>2, <2>3, Periods DEF DisplayFresh
<1> QED
  BY <1>1, LoopInvariance, PTL

\* What a step that broadcasts has waited for.
LEMMA BroadcastIsDue ==
    ASSUME LoopInv, [Next]_vars, Broadcasts
    PROVE  age["telemetry"] > TelPeriod /\ age["env"] <= EnvPeriod + LoopMax
<1>1. TypeOK /\ pc = "telemetry" /\ Due(lastTelemetryBroadcast, TelPeriod)
  BY DEF LoopInv, Broadcasts, Next, Loop, vars, ButtonSection, ReceiveSection, EnvSection,
         TelemetrySection, DisplaySection, BlinkSection, PressButton, ReleaseButton, timers,
         Then
<1>2. age["telemetry"] > TelPeriod
  BY <1>1 DEF LoopInv, TelemetryClock, Due
<1>3. age["env"] # Never
  BY <1>1, <1>2, Timers, Periods DEF LoopInv, EnvClock, Clocks, Never, AgeCap
<1>4. age["env"] <= EnvPeriod
  BY <1>1, <1>3, Periods DEF LoopInv, EnvClock, SinceEnv, Since, Before
<1>5. age["env"] \in Int /\ LoopMax \in Nat
  BY <1>1, Timers, Periods DEF Clocks, Never, AgeCap
<1> QED
  BY <1>2, <1>4, <1>5, Periods

\* Two broadcasts are more than TelPeriod apart, a wrap of millis() between them or not.
THEOREM BroadcastsSpaced == Spec => TelemetrySpacing
<1>1. LoopInv /\ [Next]_vars => [Broadcasts => age["telemetry"] > TelPeriod]_vars
  BY BroadcastIsDue
<1> QED
  BY <1>1, LoopInvariance, PTL DEF Spec, TelemetrySpacing

\* A broadcast carries a reading that is at most EnvPeriod and one pass of loop() old,
\* and none before the first reading.
THEOREM BroadcastsFresh == Spec => TelemetryFresh
<1>1. LoopInv /\ [Next]_vars => [Broadcasts => age["env"] <= EnvPeriod + LoopMax]_vars
  BY BroadcastIsDue
<1> QED
  BY <1>1, LoopInvariance, PTL DEF Spec, TelemetryFresh

\* A mode change has a press of its own, and is two periods of the button after the last.
THEOREM Debouncing == Spec => Debounced
<1>1. LoopInv /\ [Next]_vars
        => [displayMode' # displayMode
               => pressed /\ age["mode"] >= 2 * (ButtonPeriod + 1)]_vars
  <2> SUFFICES ASSUME LoopInv, [Next]_vars, displayMode' # displayMode
               PROVE  pressed /\ age["mode"] >= 2 * (ButtonPeriod + 1)
    OBVIOUS
  <2>1. ButtonFalls /\ Due(lastButtonCheck, ButtonPeriod)
    BY DEF Next, Loop, vars, ButtonSection, ReceiveSection, EnvSection, TelemetrySection,
           DisplaySection, BlinkSection, PressButton, ReleaseButton, screen
  <2> QED
    BY <2>1, PressIsSeen
<1> QED
  BY <1>1, LoopInvariance, PTL DEF Spec, Debounced

(***************************************************************************)
(* The mesh: types and node databases.                                     *)
(***************************************************************************)

\* The masked MAC address of setup() is an id (meshtastic_baltic.cpp:63).
LEMMA NodeIdType == \A n \in Nodes : NodeId(n) \in Ids
  BY MacAssumption, SMT DEF NodeId, Ids

\* What broadcastNodeInfo() and broadcastTelemetry() build are packets.
LEMMA MeshPacketTypes ==
    \A n \in Nodes : NodeInfo(n) \in Packets /\ Telemetry(n) \in Packets
  BY NodeIdType DEF NodeInfo, Telemetry, Packets

\* addOrUpdateNode() returns a list of entries, with distinct ids and in the
\* size limit when the list it is given is so.
LEMMA AddOrUpdateSane ==
    ASSUME NEW db \in Seq(Entries), NEW e \in Entries
    PROVE  /\ AddOrUpdate(db, e) \in Seq(Entries)
           /\ SaneList(db) => SaneList(AddOrUpdate(db, e))
           /\ Extends(AddOrUpdate(db, e), db)
<1>0. Len(db) \in Nat /\ DOMAIN db = 1..Len(db) /\ Capacity \in Nat
  BY BoundsAssumption
<1>1. CASE Known(db, e.id)
  <2> DEFINE up == [i \in 1..Len(db) |-> IF db[i].id = e.id THEN e ELSE db[i]]
  <2>1. AddOrUpdate(db, e) = up
    BY <1>0, <1>1 DEF AddOrUpdate
  <2>2. up \in Seq(Entries) /\ Len(up) = Len(db) /\ DOMAIN up = DOMAIN db
    BY <1>0
  <2>3. \A i \in DOMAIN up : up[i].id = db[i].id
    BY <1>0
  <2> QED
    BY <2>1, <2>2, <2>3 DEF SaneList, Extends
<1>2. CASE ~Known(db, e.id) /\ Len(db) < Capacity
  <2>1. AddOrUpdate(db, e) = Append(db, e)
    BY <1>2 DEF AddOrUpdate
  <2>2. \A i \in DOMAIN db : db[i].id # e.id
    BY <1>2 DEF Known
  <2>3. /\ Append(db, e) \in Seq(Entries)
        /\ Len(Append(db, e)) = Len(db) + 1
        /\ DOMAIN Append(db, e) = 1..(Len(db) + 1)
        /\ \A i \in 1..Len(db) : Append(db, e)[i] = db[i]
        /\ Append(db, e)[Len(db) + 1] = e
    BY <1>0
  <2>4. ASSUME SaneList(db) PROVE SaneList(Append(db, e))
    BY <1>0, <1>2, <2>2, <2>3, <2>4 DEF SaneList
  <2>5. Extends(Append(db, e), db)
    BY <1>0, <2>3 DEF Extends
  <2> QED
    BY <2>1, <2>3, <2>4, <2>5
<1>3. CASE ~Known(db, e.id) /\ ~(Len(db) < Capacity)
  BY <1>3 DEF AddOrUpdate, Extends
<1> QED
  BY <1>1, <1>2, <1>3

\* The database a device boots with is in order.
LEMMA EmptySane == SaneList(<< >>)
  BY BoundsAssumption DEF SaneList

\* The types are inductive by themselves; the databases need the types of what
\* the radio holds.
MeshInv == MeshTypeOK /\ DatabaseSane

\* Before the first boot the inductive invariant holds.
LEMMA MeshInitInv == MeshInit => MeshInv
<1> SUFFICES ASSUME MeshInit PROVE MeshInv
  OBVIOUS
<1>1. MeshTypeOK
  BY BoundsAssumption DEF MeshInit, MeshTypeOK
<1>2. DatabaseSane
  BY EmptySane DEF MeshInit, DatabaseSane
<1> QED
  BY <1>1, <1>2 DEF MeshInv

\* sendMeshPacket() leaves every variable in its type.
LEMMA SendTypes ==
    ASSUME MeshTypeOK, NEW n \in Nodes, NEW p \in Packets, SendMeshPacket(n, p)
    PROVE  MeshTypeOK'
<1>1. tx' \in [Nodes -> Packets \cup {None}]
  BY DEF MeshTypeOK, SendMeshPacket
<1>2. rxLock' \in [Nodes -> Nodes \cup {None}]
  BY DEF MeshTypeOK, SendMeshPacket
<1>3. rxBuf' \in [Nodes -> Packets \cup {None}]
  BY DEF MeshTypeOK, SendMeshPacket
<1> QED
  BY <1>1, <1>2, <1>3 DEF MeshTypeOK, SendMeshPacket

\* receiveMeshPacket() changes only the list of the node that polls, and leaves a
\* list in order that extends the one before.
LEMMA ReceiveLists ==
    ASSUME MeshTypeOK, NEW n \in Nodes, ReceiveMeshPacket(n)
    PROVE  /\ nodeDatabase' \in [Nodes -> Seq(Entries)]
           /\ \A m \in Nodes :
                  /\ SaneList(nodeDatabase[m]) => SaneList(nodeDatabase'[m])
                  /\ Extends(nodeDatabase'[m], nodeDatabase[m])
<1>1. CASE nodeDatabase' = nodeDatabase
  BY <1>1 DEF MeshTypeOK, Extends
<1>2. CASE nodeDatabase' # nodeDatabase
  <2> DEFINE e == [id |-> rxBuf[n].id, dev |-> rxBuf[n].dev]
  <2>1. /\ rxBuf[n] # None
        /\ nodeDatabase' = [nodeDatabase EXCEPT ![n] = AddOrUpdate(@, e)]
    BY <1>2 DEF ReceiveMeshPacket
  <2>2. nodeDatabase[n] \in Seq(Entries) /\ e \in Entries
    BY <2>1 DEF MeshTypeOK, Packets, Entries
  <2>3. /\ AddOrUpdate(nodeDatabase[n], e) \in Seq(Entries)
        /\ SaneList(nodeDatabase[n]) => SaneList(AddOrUpdate(nodeDatabase[n], e))
        /\ Extends(AddOrUpdate(nodeDatabase[n], e), nodeDatabase[n])
    BY <2>2, AddOrUpdateSane
  <2>4. \A m \in Nodes : nodeDatabase'[m] = IF m = n THEN AddOrUpdate(nodeDatabase[n], e)
                                            ELSE nodeDatabase[m]
    BY <2>1 DEF MeshTypeOK
  <2> QED
    BY <2>1, <2>3, <2>4 DEF MeshTypeOK, Extends
<1> QED
  BY <1>1, <1>2

\* Every handler of a node, and a loss of power, preserve the invariant.
LEMMA MeshNextInv == MeshInv /\ [MeshNext]_MeshVars => MeshInv'
<1> SUFFICES ASSUME MeshInv, [MeshNext]_MeshVars PROVE MeshInv'
  OBVIOUS
<1>0. MeshTypeOK /\ DatabaseSane
  BY DEF MeshInv
<1>1. ASSUME NEW n \in Nodes, Boot(n) PROVE MeshInv'
  <2>1. MeshTypeOK'
    BY <1>0, <1>1, BoundsAssumption DEF MeshTypeOK, Boot
  <2> QED
    BY <1>0, <1>1, <2>1 DEF Boot, MeshInv, DatabaseSane
<1>2. ASSUME NEW n \in Nodes, PowerLoss(n) PROVE MeshInv'
  <2>1. MeshTypeOK'
    BY <1>0, <1>2 DEF MeshTypeOK, PowerLoss
  <2>2. \A m \in Nodes : nodeDatabase'[m] = IF m = n THEN << >> ELSE nodeDatabase[m]
    BY <1>0, <1>2 DEF MeshTypeOK, PowerLoss
  <2> QED
    BY <1>0, <2>1, <2>2, EmptySane DEF MeshInv, DatabaseSane
<1>3. ASSUME NEW n \in Nodes, NEW p \in Packets, SendMeshPacket(n, p) PROVE MeshInv'
  <2>1. MeshTypeOK'
    BY <1>0, <1>3, SendTypes
  <2> QED
    BY <1>0, <1>3, <2>1 DEF SendMeshPacket, MeshInv, DatabaseSane
<1>4. ASSUME NEW n \in Nodes, BroadcastNodeInfo(n) \/ BroadcastTelemetry(n) PROVE MeshInv'
  BY <1>3, <1>4, MeshPacketTypes DEF BroadcastNodeInfo, BroadcastTelemetry
<1>5. ASSUME NEW n \in Nodes, TransmitDone(n) PROVE MeshInv'
  <2>1. tx[n] \in Packets
    BY <1>0, <1>5 DEF MeshTypeOK, TransmitDone
  <2>2. MeshTypeOK'
    BY <1>0, <1>5, <2>1 DEF MeshTypeOK, TransmitDone
  <2> QED
    BY <1>0, <1>5, <2>2 DEF TransmitDone, MeshInv, DatabaseSane
<1>6. ASSUME NEW n \in Nodes, ReceiveMeshPacket(n) PROVE MeshInv'
  <2>1. nodeDatabase' \in [Nodes -> Seq(Entries)] /\ DatabaseSane'
    BY <1>0, <1>6, ReceiveLists DEF MeshTypeOK, DatabaseSane
  <2>2. MeshTypeOK'
    BY <1>0, <1>6, <2>1 DEF MeshTypeOK, ReceiveMeshPacket
  <2> QED
    BY <2>1, <2>2 DEF MeshInv
<1>7. CASE UNCHANGED MeshVars
  BY <1>0, <1>7 DEF MeshVars, MeshInv, MeshTypeOK, DatabaseSane
<1> QED
  BY <1>1, <1>2, <1>4, <1>5, <1>6, <1>7 DEF MeshNext

\* Every variable keeps its type: no packet of another shape, no database entry
\* without an id of the masked MAC range.
THEOREM MeshTypeCorrectness == MeshSpec => []MeshTypeOK
<1>1. MeshInv => MeshTypeOK
  BY DEF MeshInv
<1> QED
  BY MeshInitInv, MeshNextInv, <1>1, PTL DEF MeshSpec

\* addOrUpdateNode() keeps every node's list free of duplicate ids and within
\* its limit, through restarts, losses and repeated reads.
THEOREM DatabasesSane == MeshSpec => []DatabaseSane
<1>1. MeshInv => DatabaseSane
  BY DEF MeshInv
<1> QED
  BY MeshInitInv, MeshNextInv, <1>1, PTL DEF MeshSpec

\* While a node is up its list only grows at the end and every id keeps its
\* place, whatever is received.
THEOREM DatabasesStable == MeshSpec => DatabaseStable
<1> DEFINE Stable == \A n \in Nodes : state'[n] # "off" =>
                         Extends(nodeDatabase'[n], nodeDatabase[n])
<1>1. ASSUME nodeDatabase' = nodeDatabase PROVE Stable
  BY <1>1 DEF Extends
<1>2. ASSUME MeshInv, NEW n \in Nodes, PowerLoss(n) PROVE Stable
  BY <1>2 DEF MeshInv, MeshTypeOK, PowerLoss, Extends
<1>3. ASSUME MeshInv, NEW n \in Nodes, ReceiveMeshPacket(n) PROVE Stable
  BY <1>3, ReceiveLists DEF MeshInv
<1>4. ASSUME MeshInv, [MeshNext]_MeshVars PROVE [Stable]_MeshVars
  <2>1. CASE UNCHANGED MeshVars
    BY <2>1
  <2>2. CASE \E n \in Nodes : PowerLoss(n) \/ ReceiveMeshPacket(n)
    BY <1>2, <1>3, <1>4, <2>2
  <2>3. ASSUME NEW n \in Nodes,
               \/ Boot(n) \/ BroadcastNodeInfo(n)
               \/ BroadcastTelemetry(n) \/ TransmitDone(n)
        PROVE  nodeDatabase' = nodeDatabase
    BY <2>3 DEF Boot, BroadcastNodeInfo, BroadcastTelemetry, SendMeshPacket,
                TransmitDone
  <2> QED
    BY <1>1, <1>4, <2>1, <2>2, <2>3 DEF MeshNext
<1> QED
  BY MeshInitInv, MeshNextInv, <1>4, PTL DEF MeshSpec, DatabaseStable
===============================================================================

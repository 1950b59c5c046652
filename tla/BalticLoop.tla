------------------------------ MODULE BalticLoop ------------------------------
(***************************************************************************)
(* One Baltic Shoreline node: the Arduino loop() of                        *)
(* src/meshtastic_baltic.cpp, its six sections run in the order the code   *)
(* runs them, each with the blocking time it may take.  millis() is an     *)
(* unsigned counter that wraps at Wrap (2^32 ms on the device, so after 49 *)
(* days); the "age" history variable keeps the true elapsed times that the *)
(* properties compare the wrapped arithmetic with.                         *)
(***************************************************************************)
EXTENDS Integers

CONSTANTS
    Wrap,           \* millis() counts modulo Wrap
    ButtonPeriod,   \*     50 ms in the code
    DisplayPeriod,  \*   1000 ms
    BlinkPeriod,    \*   1000 ms
    EnvPeriod,      \*  10000 ms
    TelPeriod,      \* 300000 ms
    LoopDelay,      \* delay(10) at the end of loop()
    FlashTime,      \* delay(100) of handleButtonPress, redraw included
    RxTime,         \* longest receiveMeshPacket()
    TxTime,         \* longest blocking radio.transmit()
    DrawTime,       \* longest updateDisplay()
    SetupTime,      \* longest setup()
    NModes          \* MAX_DISPLAY_MODES

\* The longest time one pass through loop() can take.
LoopMax == FlashTime + RxTime + TxTime + DrawTime + LoopDelay

ASSUME PeriodsAssumption ==
    /\ {Wrap, ButtonPeriod, DisplayPeriod, BlinkPeriod, EnvPeriod, TelPeriod,
        LoopDelay, FlashTime, RxTime, TxTime, DrawTime, SetupTime, NModes}
           \subseteq Nat
    /\ LoopDelay > 0 /\ TxTime > 0 /\ NModes > 1
    /\ EnvPeriod <= TelPeriod /\ SetupTime <= TelPeriod
    /\ \A p \in {ButtonPeriod, DisplayPeriod, BlinkPeriod, EnvPeriod, TelPeriod} :
           p + LoopMax + SetupTime < Wrap
    /\ 2 * (ButtonPeriod + 1) <= Wrap

VARIABLES
    pc,                                   \* the section of loop() to run next
    now,                                  \* millis()
    buttonPin,                            \* level of BUTTON_PIN (input)
    lastButtonCheck, lastButtonState,     \* statics of loop()
    lastEnvironmentalRead, lastTelemetryBroadcast, lastDisplayUpdate,
    lastBlink, ledState, ledPin,
    displayMode,
    shownMode,                            \* the screen the panel shows
    age,                                  \* history: true elapsed times
    pressed                               \* history: a press since the last
                                          \* mode change
vars == << pc, now, buttonPin, lastButtonCheck, lastButtonState,
           lastEnvironmentalRead, lastTelemetryBroadcast, lastDisplayUpdate,
           lastBlink, ledState, ledPin, displayMode, shownMode, age, pressed >>

timers  == << lastEnvironmentalRead, lastTelemetryBroadcast, lastDisplayUpdate >>
button  == << lastButtonCheck, lastButtonState, pressed >>
led     == << lastBlink, ledState, ledPin >>
screen  == << displayMode, shownMode >>

Sections == {"button", "receive", "env", "telemetry", "display", "blink"}
Clocks   == {"env", "telemetry", "display", "mode"}

\* Ages are counted up to AgeCap; currentEnvData is zero-initialised, so before
\* the first reading its age is Never.
AgeCap == Wrap
Never  == AgeCap + 1
Older(a, d) == IF a = Never THEN Never
               ELSE IF a + d > AgeCap THEN AgeCap ELSE a + d

\* The unsigned difference millis() - last.
Elapsed(last) == (now - last) % Wrap
MutantDueBySum(last, period) == now > (last + period) % Wrap
MutantDueNoWrap(last, period) == now > last + period
Due(last, period) == Elapsed(last) > period

\* d milliseconds pass; the clocks in restarted start again at s <= d.
Spend(d, restarted, s) ==
    /\ now' = (now + d) % Wrap
    /\ age' = [c \in Clocks |-> IF c \in restarted THEN s ELSE Older(age[c], d)]

Then(section, next) == pc = section /\ pc' = next
-------------------------------------------------------------------------------
\* The state setup() leaves: the timers still hold their static 0, the
\* status screen is drawn and no reading has been taken.
Init ==
    /\ pc = "button"
    /\ now \in 1..SetupTime
    /\ buttonPin \in {"HIGH", "LOW"}
    /\ lastButtonCheck = 0 /\ lastButtonState = "HIGH"
    /\ lastEnvironmentalRead = 0 /\ lastTelemetryBroadcast = 0
    /\ lastDisplayUpdate = 0
    /\ lastBlink = 0 /\ ledState = FALSE /\ ledPin = FALSE
    /\ displayMode = 0 /\ shownMode = 0
    /\ age = [c \in Clocks |-> CASE c = "env"       -> Never
                                 [] c = "telemetry" -> now
                                 [] c = "display"   -> 0
                                 [] c = "mode"      -> AgeCap]
    /\ pressed = (buttonPin = "LOW")

\* handleButtonPress(): next screen, LED flash that leaves the pin low whatever
\* ledState says, redraw.
MutantPressNoWrap ==
    /\ displayMode' = displayMode + 1
    /\ shownMode' = displayMode'
    /\ ledPin' = FALSE
    /\ pressed' = FALSE
    /\ Spend(FlashTime, {"mode", "display"}, FlashTime)
    /\ UNCHANGED << lastBlink, ledState >>
MutantPressNoRedraw ==
    /\ displayMode' = (displayMode + 1) % NModes
    /\ ledPin' = FALSE
    /\ pressed' = FALSE
    /\ Spend(FlashTime, {"mode"}, FlashTime)
    /\ UNCHANGED << lastBlink, ledState, shownMode >>
HandleButtonPress ==
    /\ displayMode' = (displayMode + 1) % NModes
    /\ shownMode' = displayMode'
    /\ ledPin' = FALSE
    /\ pressed' = FALSE
    /\ Spend(FlashTime, {"mode", "display"}, FlashTime)
    /\ UNCHANGED << lastBlink, ledState >>

\* The debounced button: sampled when ButtonPeriod has passed, handled on a
\* HIGH to LOW change between two samples.
ButtonFalls == lastButtonState = "HIGH" /\ buttonPin = "LOW"
MutantButtonStateKept ==
    /\ Then("button", "receive")
    /\ IF Due(lastButtonCheck, ButtonPeriod)
       THEN /\ lastButtonCheck' = now
            /\ \/ ButtonFalls /\ HandleButtonPress /\ UNCHANGED lastButtonState
               \/ /\ ~ButtonFalls /\ lastButtonState' = buttonPin
                  /\ UNCHANGED << screen, led, pressed, now, age >>
       ELSE UNCHANGED << button, screen, led, now, age >>
    /\ UNCHANGED << buttonPin, timers >>
MutantButtonTimerEager ==
    /\ Then("button", "receive")
    /\ lastButtonCheck' = now
    /\ IF Due(lastButtonCheck, ButtonPeriod)
       THEN /\ lastButtonState' = buttonPin
            /\ \/ ButtonFalls /\ HandleButtonPress
               \/ ~ButtonFalls /\ UNCHANGED << screen, led, pressed, now, age >>
       ELSE UNCHANGED << lastButtonState, pressed, screen, led, now, age >>
    /\ UNCHANGED << buttonPin, timers >>
ButtonSection ==
    /\ Then("button", "receive")
    /\ IF Due(lastButtonCheck, ButtonPeriod)
       THEN /\ lastButtonCheck' = now
            /\ lastButtonState' = buttonPin
            /\ \/ ButtonFalls /\ HandleButtonPress
               \/ ~ButtonFalls /\ UNCHANGED << screen, led, pressed, now, age >>
       ELSE UNCHANGED << button, screen, led, now, age >>
    /\ UNCHANGED << buttonPin, timers >>

\* receiveMeshPacket(): only the time it takes matters here (BalticMesh models
\* what it does).
ReceiveSection ==
    /\ Then("receive", "env")
    /\ \E d \in 0..RxTime : Spend(d, {}, 0)
    /\ UNCHANGED << buttonPin, button, timers, led, screen >>

\* readEnvironmentalSensors(), every EnvPeriod.
EnvSection ==
    /\ Then("env", "telemetry")
    /\ IF Due(lastEnvironmentalRead, EnvPeriod)
       THEN Spend(0, {"env"}, 0) /\ lastEnvironmentalRead' = now'
       ELSE UNCHANGED << lastEnvironmentalRead, now, age >>
    /\ UNCHANGED << lastTelemetryBroadcast, lastDisplayUpdate, buttonPin, button,
                    led, screen >>

\* broadcastTelemetry(), every TelPeriod: packs currentEnvData, then blocks for
\* the transmission; the timer restarts when the transmission is over.
TelemetrySection ==
    /\ Then("telemetry", "display")
    /\ IF Due(lastTelemetryBroadcast, TelPeriod)
       THEN /\ \E d \in 1..TxTime : Spend(d, {"telemetry"}, 0)
            /\ lastTelemetryBroadcast' = now'
       ELSE UNCHANGED << lastTelemetryBroadcast, now, age >>
    /\ UNCHANGED << lastEnvironmentalRead, lastDisplayUpdate, buttonPin, button,
                    led, screen >>

\* updateDisplay(), every DisplayPeriod.
DisplaySection ==
    /\ Then("display", "blink")
    /\ IF Due(lastDisplayUpdate, DisplayPeriod)
       THEN /\ shownMode' = displayMode
            /\ \E d \in 0..DrawTime : Spend(d, {"display"}, d)
            /\ lastDisplayUpdate' = now'
       ELSE UNCHANGED << shownMode, lastDisplayUpdate, now, age >>
    /\ UNCHANGED << lastEnvironmentalRead, lastTelemetryBroadcast, displayMode,
                    buttonPin, button, led >>

\* LED heartbeat, then delay(10) and the next pass.
BlinkSection ==
    /\ Then("blink", "button")
    /\ IF Due(lastBlink, BlinkPeriod)
       THEN lastBlink' = now /\ ledState' = ~ledState /\ ledPin' = ledState'
       ELSE UNCHANGED led
    /\ Spend(LoopDelay, {}, 0)
    /\ UNCHANGED << buttonPin, button, timers, screen >>

\* The user presses or releases the button at any moment.
PressButton ==
    /\ buttonPin = "HIGH" /\ buttonPin' = "LOW"
    /\ pressed' = TRUE
    /\ UNCHANGED << pc, now, lastButtonCheck, lastButtonState, timers, led,
                    screen, age >>
ReleaseButton ==
    /\ buttonPin = "LOW" /\ buttonPin' = "HIGH"
    /\ UNCHANGED << pc, now, button, timers, led, screen, age >>

Loop == ButtonSection \/ ReceiveSection \/ EnvSection \/ TelemetrySection
            \/ DisplaySection \/ BlinkSection
Next == Loop \/ PressButton \/ ReleaseButton

\* The Arduino core calls loop() again and again; the user owes nothing.
Spec == Init /\ [][Next]_vars /\ WF_vars(Loop)
-------------------------------------------------------------------------------
Levels == {"HIGH", "LOW"}
TypeOK ==
    /\ pc \in Sections
    /\ {now, lastButtonCheck, lastEnvironmentalRead, lastTelemetryBroadcast,
        lastDisplayUpdate, lastBlink} \subseteq 0..(Wrap - 1)
    /\ {buttonPin, lastButtonState} \subseteq Levels
    /\ {ledState, ledPin, pressed} \subseteq BOOLEAN
    /\ {displayMode, shownMode} \subseteq 0..(NModes - 1)
    /\ age \in [Clocks -> 0..Never]

\* Every telemetry packet carries a real reading (never the zeros the global
\* starts with) that is at most one EnvPeriod and one pass of loop() old
\* (loop() 96-106, broadcastTelemetry).
Broadcasts == lastTelemetryBroadcast' # lastTelemetryBroadcast
TelemetryFresh == [][Broadcasts => age["env"] <= EnvPeriod + LoopMax]_vars

\* The telemetry period is honoured both ways, across a wrap of millis(): two
\* broadcasts are more than TelPeriod apart, and no node that runs is silent for
\* longer than TelPeriod and one pass of loop() (lines 102-106).
TelemetrySpacing ==
    [][Broadcasts => age["telemetry"] > TelPeriod]_vars
TelemetryOnTime == age["telemetry"] <= TelPeriod + LoopMax

\* What the panel shows is the selected screen, never older than DisplayPeriod
\* and one pass of loop(): redrawing is left to handleButtonPress and to the
\* display timer, and anything else in the pass may delay them (341-351, 108-112).
DisplayFresh ==
    /\ shownMode = displayMode
    /\ age["display"] <= DisplayPeriod + LoopMax

\* Debouncing (lines 83-91): a mode change needs a press of its own since the
\* previous change, and two changes are at least two sampling periods apart,
\* however the contact bounces in between.
Debounced ==
    [][displayMode' # displayMode
           => pressed /\ age["mode"] >= 2 * (ButtonPeriod + 1)]_vars

\* A button that is held down is noticed although it is only polled.
HeldButtonIsSeen == ButtonFalls ~> ~ButtonFalls
===============================================================================

------------------------------ MODULE PowerProofs ------------------------------
(***************************************************************************)
(* The battery's level and the life of the mouse, for whatever voltages a    *)
(* measurement may find.                                                     *)
(***************************************************************************)
EXTENDS Power, TLAPS

LEMMA Div400 == ASSUME NEW n \in Int, 0 <= n, n <= 9375 * 400 PROVE n \div 400 \in 0 .. 9375
  OBVIOUS
LEMMA Div450 == ASSUME NEW n \in Int, 0 <= n, n <= 625 * 450 PROVE n \div 450 \in 0 .. 625
  OBVIOUS
LEMMA Div100 == ASSUME NEW n \in Int, 0 <= n, n <= 10000 PROVE n \div 100 \in 0 .. 100
  OBVIOUS

\* battery_charge_level gives a percentage at every voltage (battery.c:62-75).
THEOREM ChargeLevel == \A mv \in Int : charge_level(mv) \in 0 .. 100
<1> SUFFICES ASSUME NEW mv \in Int PROVE charge_level(mv) \in 0 .. 100
  OBVIOUS
<1>1. /\ points(1) = 10000 /\ points(2) = 625 /\ points(3) = 0
      /\ voltage(1) = 3950 /\ voltage(2) = 3550 /\ voltage(3) = 3100
  BY DEF points, voltage
<1>2. ASSUME mv >= 3550, mv < 3950 PROVE interpolate(mv, 2) \in 0 .. 100
  <2> DEFINE n == 9375 * (mv - 3550)
             q == n \div 400
  <2>1. interpolate(mv, 2) = (625 + q) \div 100
    <3> DEFINE rise == points(2 - 1) - points(2)
               run  == voltage(2 - 1) - voltage(2)
    <3>1. rise = 9375 /\ run = 400 /\ points(2) = 625 /\ voltage(2) = 3550
      BY DEF points, voltage
    <3>2. interpolate(mv, 2) = (points(2) + (rise * (mv - voltage(2))) \div run) \div 100
      BY Zenon DEF interpolate
    <3> HIDE DEF rise, run
    <3>3. rise * (mv - voltage(2)) = n
      BY <3>1
    <3>4. n \div run = q
      BY <3>1
    <3> HIDE DEF n, q
    <3> QED BY <3>1, <3>2, <3>3, <3>4
  <2>2. n \in Int /\ 0 <= n /\ n <= 9375 * 400
    BY <1>2
  <2> HIDE DEF n
  <2>3. q \in 0 .. 9375
    BY <2>2, Div400
  <2> HIDE DEF q
  <2>4. 625 + q \in Int /\ 0 <= 625 + q /\ 625 + q <= 10000
    BY <2>3
  <2>5. (625 + q) \div 100 \in 0 .. 100
    BY <2>4, Div100
  <2> QED BY <2>1, <2>5
<1>3. ASSUME mv >= 3100, mv < 3550 PROVE interpolate(mv, 3) \in 0 .. 100
  <2> DEFINE n == 625 * (mv - 3100)
             q == n \div 450
  <2>1. interpolate(mv, 3) = (0 + q) \div 100
    <3> DEFINE rise == points(3 - 1) - points(3)
               run  == voltage(3 - 1) - voltage(3)
    <3>1. rise = 625 /\ run = 450 /\ points(3) = 0 /\ voltage(3) = 3100
      BY DEF points, voltage
    <3>2. interpolate(mv, 3) = (points(3) + (rise * (mv - voltage(3))) \div run) \div 100
      BY Zenon DEF interpolate
    <3> HIDE DEF rise, run
    <3>3. rise * (mv - voltage(3)) = n
      BY <3>1
    <3>4. n \div run = q
      BY <3>1
    <3> HIDE DEF n, q
    <3> QED BY <3>1, <3>2, <3>3, <3>4
  <2>2. n \in Int /\ 0 <= n /\ n <= 625 * 450
    BY <1>3
  <2> HIDE DEF n
  <2>3. q \in 0 .. 625
    BY <2>2, Div450
  <2> HIDE DEF q
  <2>4. 0 + q \in Int /\ 0 <= 0 + q /\ 0 + q <= 10000
    BY <2>3
  <2>5. (0 + q) \div 100 \in 0 .. 100
    BY <2>4, Div100
  <2> QED BY <2>1, <2>5
<1>4. 10000 \div 100 = 100 /\ 0 \div 100 = 0
  OBVIOUS
<1> QED BY <1>1, <1>2, <1>3, <1>4 DEF charge_level

\* How old the sample behind a give of the semaphore may be.
Sampling ==
    /\ meas = "none" => sem = 0
    /\ conv = "thread" => meas # "none"
    /\ power # "on" => meas = "none"
    /\ ~ foreign /\ ~ late =>
          /\ meas \in {"start", "sleep", "read"} => sem = 0 /\ conv # "thread"
          /\ meas = "wait" /\ sem = 1 => fresh /\ conv # "thread"
          /\ meas = "read" => fresh

Coloured == led = NoColour \/ \E mv \in Int : led = colour(charge_level(mv))

\* The callback acts on the state it has read, unless the timer has expired since.
CallbackState ==
    /\ cb # Idle => cb.branch \in {"freshly_booted", "normal_operation", "waiting_for_shutdown"}
    /\ cb # Idle /\ ~ raced => cb.branch = lifecycle_state
    /\ cb # Idle => power \in {"ready", "on"}
    /\ power = "ready" => cb # Idle
    /\ lifecycle_state = "freshly_booted" => ~ raced
    /\ power # "on" => lifecycle_state = "freshly_booted" /\ timer = "none"

\* A hold timer that runs is about a button that is down, or whose release is due.
HoldRuns == timer = "hold" /\ cb = Idle /\ ~ lost /\ ~ raced => held \/ level # from

\* A mouse that is ready to shut down waits for a release, and is told of it, unless
\* the button has been pressed again.
ReleaseTold == ~ lost /\ ~ raced =>
    /\ timer = "hold" /\ cb = Idle => from = 0
    /\ lifecycle_state = "waiting_for_shutdown" =>
          /\ timer = "off" /\ level = 0 => again
          /\ timer = "none" => from = 0
          /\ cb # Idle /\ cb.new_value = 0 /\ level = 0 => again

\* All but the last, which rests on the others.
Scheduled == /\ PowerTypeOK /\ Sampling /\ Coloured /\ CallbackState /\ HoldRuns
             /\ TimerMeansState /\ ReadyWasHeld /\ FadeScheduled

IInv == Scheduled /\ ReleaseTold
-------------------------------------------------------------------------------
LEMMA InitHolds == Init => IInv
<1> SUFFICES ASSUME Init PROVE IInv
  OBVIOUS
<1> USE BatteryAssumption DEF Init, BatteryInit, Idle
<1>1. BatteryTypeOK
  BY DEF BatteryTypeOK
<1>2. PowerTypeOK
  BY <1>1 DEF PowerTypeOK
<1>3. Sampling /\ Coloured
  BY DEF Sampling, Coloured
<1>4. CallbackState /\ HoldRuns
  BY DEF CallbackState, HoldRuns
<1>5. TimerMeansState /\ ReadyWasHeld /\ FadeScheduled /\ ReleaseTold
  BY DEF TimerMeansState, ReadyWasHeld, FadeScheduled, ReleaseTold
<1> QED BY <1>1, <1>2, <1>3, <1>4, <1>5 DEF IInv, Scheduled

LEMMA BatteryPreserves == Scheduled /\ BatteryStep => Scheduled'
<1> SUFFICES ASSUME Scheduled, BatteryStep PROVE Scheduled'
  OBVIOUS
<1> USE DEF Scheduled, BatteryStep, lifecycle, history
<1>1. BatteryTypeOK' /\ Sampling' /\ (power \in {"off", "check"} => meas' = "none")
  <2> USE DEF PowerTypeOK, BatteryTypeOK, Sampling
  <2>1. CASE adc_irq_handler
    BY <2>1 DEF adc_irq_handler
  <2>2. CASE MeasTrigger
    <3>1. conv' \in {"thread", conv}
      BY <2>2 DEF MeasTrigger, adc_trigger_measurement
    <3>2. BatteryTypeOK' /\ meas' = "wait" /\ power = "on"
      BY <2>2, <3>1 DEF MeasTrigger
    <3>3. Sampling'
      BY <2>2, <3>1, <3>2 DEF MeasTrigger
    <3> QED BY <3>2, <3>3
  <2>3. CASE MeasTake
    BY <2>3 DEF MeasTake
  <2>4. CASE MeasTimeout
    BY <2>4 DEF MeasTimeout
  <2>5. CASE MeasSend
    BY <2>5 DEF MeasSend
  <2>6. CASE ShellMeasures
    BY <2>6 DEF ShellMeasures, adc_trigger_measurement
  <2> QED BY <2>1, <2>2, <2>3, <2>4, <2>5, <2>6 DEF BatteryNext
<1>2. PowerTypeOK'
  BY <1>1 DEF PowerTypeOK
<1>3. Coloured' /\ CallbackState' /\ HoldRuns' /\ TimerMeansState' /\ ReadyWasHeld' /\ FadeScheduled'
  BY DEF Coloured, CallbackState, HoldRuns, TimerMeansState, ReadyWasHeld, FadeScheduled
<1> QED BY <1>1, <1>2, <1>3

LEMMA ScheduledHolds == Scheduled /\ [Next]_vars => Scheduled'
<1> SUFFICES ASSUME Scheduled, [Next]_vars PROVE Scheduled'
  OBVIOUS
<1> USE BatteryAssumption DEF Scheduled, batteryVars, lifecycle, history
<1>1. CASE Button
  <2>1. BatteryTypeOK'
    BY <1>1 DEF Button, PowerTypeOK, BatteryTypeOK
  <2>4. held' \in BOOLEAN /\ again' \in BOOLEAN /\ lost' \in BOOLEAN
    BY <1>1 DEF Button
  <2>10. masked' \in BOOLEAN /\ (masked' => power' = "on" /\ cb' = Idle /\ level' # from')
    <3>1. level' = 1 - level /\ UNCHANGED <<power, cb, from>> /\ level \in {0, 1}
      BY <1>1 DEF Button, PowerTypeOK
    <3>2. masked' \in BOOLEAN /\ (masked' => power = "on" /\ cb = Idle /\ level = from)
      BY <1>1 DEF Button
    <3> QED BY <3>1, <3>2
  <2>5. PowerTypeOK'
    BY <1>1, <2>1, <2>4, <2>10 DEF Button, PowerTypeOK
  <2>2. Sampling' /\ Coloured' /\ CallbackState' /\ TimerMeansState' /\ ReadyWasHeld'
    BY <1>1 DEF Button, Sampling, Coloured, CallbackState, TimerMeansState, ReadyWasHeld
  <2>3. level \in {0, 1} /\ level' = 1 - level /\ from' = from /\ from \in {0, 1}
    BY <1>1 DEF Button, PowerTypeOK
  <2>6. power = "on" /\ cb = Idle /\ level # from => lost'
    BY <1>1 DEF Button
  <2>7. lost => lost'
    BY <1>1 DEF Button
  <2>8. HoldRuns'
    BY <1>1, <2>3, <2>6, <2>7 DEF Button, HoldRuns, CallbackState
  <2>9. FadeScheduled'
    BY <1>1, <2>3, <2>6, <2>7 DEF Button, FadeScheduled
  <2> QED BY <2>2, <2>5, <2>8, <2>9
<1> USE DEF PowerTypeOK, BatteryTypeOK, Sampling
<1>2. CASE WakeUp \/ CheckFails
  BY <1>2 DEF WakeUp, CheckFails, Coloured, CallbackState, HoldRuns, TimerMeansState, ReadyWasHeld,
     FadeScheduled
<1>3. CASE CheckPasses
  BY <1>3 DEF CheckPasses, adc_trigger_measurement, Coloured, CallbackState, HoldRuns,
     TimerMeansState, ReadyWasHeld, FadeScheduled
<1>4. CASE InitReads
  <2>1. Coloured'
    BY <1>4 DEF InitReads, Coloured
  <2> QED BY <1>4, <2>1 DEF InitReads, CallbackState, HoldRuns, TimerMeansState, ReadyWasHeld,
             FadeScheduled, Idle
<1>5. CASE Edge
  <2>1. PowerTypeOK' /\ Sampling'
    <3>1. BatteryTypeOK' /\ Sampling'
      BY <1>5 DEF Edge
    <3>2. cb'.new_value = level /\ ~ masked' /\ masked' \in BOOLEAN /\ power' = "on"
      BY <1>5 DEF Edge
    <3>3. UNCHANGED <<level, lifecycle_state, timer, from, held, wasHeld, again, lost, raced>>
      BY <1>5 DEF Edge
    <3>4. \A b \in {held, wasHeld, again, lost, raced} : b \in BOOLEAN
      BY DEF PowerTypeOK
    <3>5. /\ power' \in {"off", "check", "init", "ready", "on"} /\ level' \in {0, 1} /\ from' \in {0, 1}
          /\ lifecycle_state' \in {"freshly_booted", "normal_operation", "waiting_for_shutdown"}
          /\ timer' \in {"none", "fade", "hold", "off"} /\ cb'.new_value \in {0, 1}
      BY <3>2, <3>3
    <3> QED BY <3>1, <3>2, <3>3, <3>4, <3>5, Zenon DEF PowerTypeOK
  <2>2. Coloured' /\ CallbackState' /\ HoldRuns'
    BY <1>5 DEF Edge, Coloured, CallbackState, HoldRuns, Idle
  <2>3. TimerMeansState' /\ ReadyWasHeld' /\ FadeScheduled'
    BY <1>5 DEF Edge, TimerMeansState, ReadyWasHeld, FadeScheduled, Idle
  <2> QED BY <2>1, <2>2, <2>3
<1>6. CASE Act
  <2>1. timer' \in {"none", "fade", "hold", "off"}
    BY <1>6 DEF Act, Started, CallbackState
  <2>7. held' \in BOOLEAN /\ again' \in BOOLEAN /\ lost' \in BOOLEAN
    BY <1>6 DEF Act
  <2>8. meas' \in {meas, "start"} /\ (meas' # meas => meas = "none" /\ conv # "thread" /\ sem = 0)
    BY <1>6 DEF Act
  <2>9. BatteryTypeOK' /\ Sampling'
    BY <1>6, <2>8 DEF Act
  <2>10. Coloured'
    BY <1>6 DEF Act, Coloured
  <2>11. PowerTypeOK'
    BY <1>6, <2>1, <2>7, <2>9 DEF Act, Idle
  <2>2. PowerTypeOK' /\ Sampling' /\ Coloured'
    BY <2>9, <2>10, <2>11
  <2>3. CallbackState' /\ ReadyWasHeld'
    BY <1>6 DEF Act, CallbackState, ReadyWasHeld
  <2>4. TimerMeansState'
    BY <1>6 DEF Act, Started, CallbackState, TimerMeansState
  <2>5. HoldRuns'
    BY <1>6 DEF Act, Started, CallbackState, TimerMeansState, HoldRuns
  <2>6. FadeScheduled'
    BY <1>6 DEF Act, Started, CallbackState, TimerMeansState, FadeScheduled
  <2> QED BY <2>2, <2>3, <2>4, <2>5, <2>6
<1>7. CASE Forget
  <2>1. lost' = TRUE /\ masked' = FALSE /\ from' = level /\ UNCHANGED <<level, held, timer, cb>>
    BY <1>7 DEF Forget
  <2>2. PowerTypeOK'
    <3>1. BatteryTypeOK' /\ UNCHANGED <<power, lifecycle_state, wasHeld, again, raced, meas>>
      BY <1>7 DEF Forget
    <3>2. \A b \in {held, wasHeld, again, raced} : b \in BOOLEAN
      BY DEF PowerTypeOK
    <3>3. lost' \in BOOLEAN /\ masked' \in BOOLEAN /\ ~ masked' /\ from' \in {0, 1}
      BY <2>1
    <3>4. /\ power' \in {"off", "check", "init", "ready", "on"} /\ level' \in {0, 1}
          /\ lifecycle_state' \in {"freshly_booted", "normal_operation", "waiting_for_shutdown"}
          /\ timer' \in {"none", "fade", "hold", "off"} /\ cb'.new_value \in {0, 1}
          /\ power' \in {"off", "check"} => timer' = "none" /\ cb' = Idle /\ meas' = "none"
      BY <2>1, <3>1
    <3> QED BY <2>1, <3>1, <3>2, <3>3, <3>4, Zenon DEF PowerTypeOK
  <2>3. Sampling' /\ Coloured' /\ CallbackState' /\ TimerMeansState'
    BY <1>7 DEF Forget, Coloured, CallbackState, TimerMeansState
  <2>4. HoldRuns' /\ ReadyWasHeld' /\ FadeScheduled'
    BY <2>1 DEF HoldRuns, ReadyWasHeld, FadeScheduled
  <2> QED BY <2>2, <2>3, <2>4
<1>8. ASSUME SwitchOff PROVE Scheduled'
  <2>1. Coloured' /\ PowerTypeOK'
    BY <1>8 DEF SwitchOff, Coloured, Idle
  <2> QED BY <1>8, <2>1 DEF SwitchOff, CallbackState, HoldRuns, TimerMeansState, ReadyWasHeld,
             FadeScheduled, Idle
<1>9. CASE lifecycle_timer_cb
  <2>1. CASE lifecycle_state = "waiting_for_shutdown"
    BY <1>8, <1>9, <2>1 DEF lifecycle_timer_cb
  <2>2. CASE lifecycle_state # "waiting_for_shutdown"
    <3>4. wasHeld' \in BOOLEAN /\ raced' \in BOOLEAN /\ lost' \in BOOLEAN
      BY <1>9, <2>2 DEF lifecycle_timer_cb
    <3>5. PowerTypeOK'
      BY <1>9, <2>2, <3>4 DEF lifecycle_timer_cb
    <3>1. PowerTypeOK' /\ Sampling' /\ Coloured'
      BY <1>9, <2>2, <3>5 DEF lifecycle_timer_cb, Coloured
    <3>2. CallbackState' /\ HoldRuns' /\ TimerMeansState' /\ FadeScheduled'
      BY <1>9, <2>2 DEF lifecycle_timer_cb, CallbackState, HoldRuns, TimerMeansState, FadeScheduled
    <3>6. held \/ level # from => wasHeld' \/ lost'
      BY <1>9, <2>2 DEF lifecycle_timer_cb
    <3>7. raced \/ cb # Idle => raced'
      BY <1>9, <2>2 DEF lifecycle_timer_cb
    <3>8. /\ lost => lost'
          /\ timer # "none"
          /\ lifecycle_state' = "waiting_for_shutdown" => lifecycle_state = "normal_operation"
      BY <1>9, <2>2 DEF lifecycle_timer_cb
    <3>3. ReadyWasHeld'
      BY <3>6, <3>7, <3>8 DEF HoldRuns, ReadyWasHeld, TimerMeansState
    <3> QED BY <3>1, <3>2, <3>3
  <2> QED BY <2>1, <2>2
<1>10. CASE cmd_shutdown
  BY <1>8, <1>10 DEF cmd_shutdown
<1>11. CASE BatteryStep
  BY <1>11, BatteryPreserves
<1>12. CASE UNCHANGED vars
  BY <1>12 DEF vars, Coloured, CallbackState, HoldRuns, TimerMeansState, ReadyWasHeld, FadeScheduled
<1> QED BY <1>1, <1>2, <1>3, <1>4, <1>5, <1>6, <1>7, <1>9, <1>10, <1>11, <1>12 DEF Next

\* Where the button is, as far as has been told, when the mouse waits for its release.
LEMMA ReleaseStep == IInv /\ [Next]_vars => ReleaseTold'
<1> SUFFICES ASSUME IInv, [Next]_vars, ~ lost', ~ raced' PROVE ReleaseTold'
  BY DEF ReleaseTold
<1> USE DEF IInv, Scheduled
<1>0. /\ ReleaseTold /\ level \in {0, 1} /\ from \in {0, 1} /\ TimerMeansState /\ CallbackState
      /\ timer \in {"none", "fade", "hold", "off"}
  BY DEF PowerTypeOK
<1>1. CASE Button
  BY <1>0, <1>1 DEF Button, lifecycle, ReleaseTold
<1>2. CASE WakeUp \/ CheckFails \/ CheckPasses
  BY <1>0, <1>2 DEF WakeUp, CheckFails, CheckPasses, history, ReleaseTold
<1>3. CASE InitReads
  BY <1>0, <1>3 DEF InitReads, history, ReleaseTold, CallbackState
<1>4. CASE Edge
  <2>1. cb'.new_value = level /\ level # from
    BY <1>4 DEF Edge
  <2> QED BY <1>0, <1>4, <2>1 DEF Edge, history, ReleaseTold, TimerMeansState
<1>5. CASE Act
  <2>1. /\ ~ lost /\ ~ raced /\ level = cb.new_value /\ cb' = Idle /\ from' = level
        /\ UNCHANGED <<level, lifecycle_state>> /\ cb.branch = lifecycle_state
        /\ timer' = Started(cb.branch, cb.new_value)
        /\ again' = (again /\ cb.new_value = 0 /\ cb.branch = "waiting_for_shutdown")
        /\ cb # Idle
    BY <1>0, <1>5 DEF Act, CallbackState
  <2>2. /\ timer' = "hold" => lifecycle_state # "waiting_for_shutdown" /\ (level = 0 \/ timer = "hold")
        /\ lifecycle_state = "waiting_for_shutdown" => timer' = "off"
    BY <1>0, <2>1 DEF Started, CallbackState
  <2>3. timer' = "hold" => level = 0
    BY <1>0, <2>1, <2>2 DEF Started, TimerMeansState
  <2> QED BY <1>0, <2>1, <2>2, <2>3 DEF ReleaseTold
<1>6. CASE Forget
  BY <1>6 DEF Forget
<1>7. CASE SwitchOff
  BY <1>7 DEF SwitchOff, ReleaseTold
<1>8. CASE lifecycle_timer_cb /\ ~ SwitchOff
  <2>1. /\ lifecycle_state # "waiting_for_shutdown" /\ timer # "none" /\ timer' = "none"
        /\ lifecycle_state' = IF lifecycle_state = "freshly_booted" THEN "normal_operation"
                              ELSE "waiting_for_shutdown"
        /\ lost' = (lost \/ masked) /\ raced' = (raced \/ cb # Idle)
        /\ UNCHANGED <<level, from, cb, again>>
    BY <1>8, Zenon DEF lifecycle_timer_cb
  <2>3. ~ raced /\ ~ lost /\ ~ lost' /\ cb = Idle
    BY <2>1, Zenon
  <2>2. lifecycle_state' = "waiting_for_shutdown" => timer = "hold"
    BY <1>0, <2>1, <2>3 DEF TimerMeansState
  <2> QED BY <1>0, <2>1, <2>2, <2>3 DEF ReleaseTold
<1>9. CASE BatteryStep \/ UNCHANGED vars
  BY <1>0, <1>9 DEF BatteryStep, vars, lifecycle, history, ReleaseTold
<1> QED BY <1>1, <1>2, <1>3, <1>4, <1>5, <1>6, <1>7, <1>8, <1>9 DEF Next, cmd_shutdown

LEMMA StepHolds == IInv /\ [Next]_vars => IInv'
<1> QED BY ScheduledHolds, ReleaseStep DEF IInv
-------------------------------------------------------------------------------
THEOREM Invariance == Spec => []IInv
<1> QED BY InitHolds, StepHolds, PTL DEF Spec

\* The one timer is what the state waits for, and only a button held through the
\* hold time brings the mouse to its shutdown (button_mode.c:25-75).
THEOREM LifecycleCorrect == Spec => []LifecycleInv
<1>1. IInv => LifecycleInv
  BY DEF IInv, Scheduled, LifecycleInv
<1> QED BY Invariance, <1>1, PTL

\* The mouse that lifecycle_timer_cb switches off has its button up, or pressed again
\* since the release was told (button_mode.c:59-70): no succession of presses
\* and expiries brings another end, unless an edge was forgotten or a callback raced.
THEOREM ReleaseWaited == Spec => OffWithButtonUp
<1>1. IInv /\ [Next]_vars
          => [lifecycle_timer_cb /\ power' = "off" /\ level = 0 => again \/ lost \/ raced]_vars
  <2> SUFFICES ASSUME IInv, lifecycle_timer_cb, power' = "off", level = 0, ~ lost, ~ raced
               PROVE  again
    OBVIOUS
  <2>1. lifecycle_state = "waiting_for_shutdown" /\ timer # "none"
    BY DEF lifecycle_timer_cb
  <2>2. timer = "off"
    BY <2>1 DEF IInv, Scheduled, PowerTypeOK, TimerMeansState
  <2> QED BY <2>1, <2>2 DEF IInv, ReleaseTold
<1> QED BY Invariance, <1>1, PTL DEF Spec, OffWithButtonUp

\* The level that is sent is fresh, and it and its colour are in range, whatever
\* the conversions find (battery.c:78-84, button_mode.c:85-93).
THEOREM LevelCorrect == Spec => []LevelIsRight
<1>1. IInv => LevelIsRight
  <2> SUFFICES ASSUME IInv PROVE LevelIsRight
    OBVIOUS
  <2>1. SentIsFresh
    BY DEF IInv, Scheduled, Sampling, SentIsFresh
  <2>2. result \in Int
    BY BatteryAssumption DEF IInv, Scheduled, PowerTypeOK, BatteryTypeOK
  <2>3. LevelInRange
    BY <2>2, ChargeLevel DEF LevelInRange
  <2>4. \A bat_level \in 0 .. 100 : colour(bat_level).r \in 0 .. 99 /\ colour(bat_level).g \in 0 .. 100
    BY DEF colour
  <2>5. ColourInRange
    <3>1. CASE led = NoColour
      BY <3>1 DEF ColourInRange, NoColour
    <3>2. CASE led # NoColour
      <4>1. PICK mv \in Int : led = colour(charge_level(mv))
        BY <3>2 DEF IInv, Scheduled, Coloured
      <4>2. charge_level(mv) \in 0 .. 100
        BY ChargeLevel
      <4> QED BY <2>4, <4>1, <4>2, Zenon DEF ColourInRange
    <3> QED BY <3>1, <3>2
  <2> QED BY <2>1, <2>3, <2>5 DEF LevelIsRight
<1> QED BY Invariance, <1>1, PTL
================================================================================

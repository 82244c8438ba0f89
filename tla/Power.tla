--------------------------------- MODULE Power ---------------------------------
(***************************************************************************)
(* The mouse from power-on to power-off: boot_cond.c, button_mode.c and       *)
(* shutdown.c, with the battery.  The callback of the mode button runs in the *)
(* GPIO interrupt, which the handler of the lifecycle timer may interrupt.    *)
(* What debounce.c and gpio.c do to an edge is what Debounce shows: it is     *)
(* told once the interrupt is enabled, forgotten when the interrupt is        *)
(* enabled anew with the level after it, or masked by another pin that holds  *)
(* DETECT, and then only told if an interrupt of another pin comes to read    *)
(* the port (gpio.h:13-15).  There is no clock: a timer that runs may expire. *)
(***************************************************************************)
EXTENDS Battery

VARIABLES power,     \* "off", "check" (boot condition), "init", "ready" (of init) or "on"
          level,     \* the pin of the mode button: 0 when pressed
          lifecycle_state,
          timer,     \* what lifecycle_timer was started for; "none": not running
          from,      \* the level the interrupt is enabled for edges from
          cb,        \* the callback under way: the branch it is in and new_value
          led,       \* the colour the battery level is shown in
          held,      \* history: pressed without a break since the hold timer started
          wasHeld,   \* history: and so, as far as was told, when it expired
          again,     \* history: pressed since the last release, or the press that was held, was told
          lost,      \* history: an edge has been forgotten, or the timer has expired with one masked
          raced,     \* history: the timer has expired during a callback
          masked     \* history: the edge that is due came while another pin held DETECT
lifecycle == <<power, lifecycle_state, timer, from, cb, led>>
history   == <<held, wasHeld, again, lost, raced, masked>>
vars      == <<batteryVars, level, lifecycle, history>>

Idle == [branch |-> "none", new_value |-> 0]
NoColour == [r |-> 0, g |-> 0]

PowerTypeOK ==
    /\ BatteryTypeOK
    /\ power \in {"off", "check", "init", "ready", "on"} /\ level \in {0, 1} /\ from \in {0, 1}
    /\ lifecycle_state \in {"freshly_booted", "normal_operation", "waiting_for_shutdown"}
    /\ timer \in {"none", "fade", "hold", "off"}
    /\ cb.new_value \in {0, 1}
    /\ power \in {"off", "check"} => timer = "none" /\ cb = Idle /\ meas = "none"
    /\ held \in BOOLEAN /\ wasHeld \in BOOLEAN /\ again \in BOOLEAN
    /\ lost \in BOOLEAN /\ raced \in BOOLEAN
    /\ masked \in BOOLEAN /\ (masked => power = "on" /\ cb = Idle /\ level # from)

Init == /\ BatteryInit
        /\ power = "off" /\ level = 1 /\ from = 1
        /\ lifecycle_state = "freshly_booted" /\ timer = "none" /\ cb = Idle /\ led = NoColour
        /\ held = FALSE /\ wasHeld = FALSE /\ again = FALSE /\ lost = FALSE /\ raced = FALSE
        /\ masked = FALSE
-------------------------------------------------------------------------------
\* The button moves whenever it likes; a pulse that ends before its first edge is
\* told is never seen, and another pin may hold DETECT when the sensed edge comes.
Button == /\ level' = 1 - level
          /\ held' = FALSE
          /\ again' = (again \/ level = 1)
          /\ lost' = (lost \/ (power = "on" /\ cb = Idle /\ level # from))
          /\ masked' \in BOOLEAN /\ (masked' => power = "on" /\ cb = Idle /\ level = from)
          /\ UNCHANGED <<batteryVars, lifecycle, wasHeld, raced>>

\* platform_init_check_boot_cond: the button that woke the chip must stay pressed.
WakeUp == /\ power = "off" /\ level = 0
          /\ power' = "check"
          /\ UNCHANGED <<batteryVars, level, lifecycle_state, timer, from, cb, led, history>>
CheckFails == /\ power = "check" /\ level = 1
              /\ power' = "off"
              /\ UNCHANGED <<batteryVars, level, lifecycle_state, timer, from, cb, led, history>>
CheckPasses == /\ power = "check" /\ level = 0
               /\ power' = "init"
               /\ adc_trigger_measurement("other")  \* of button_mode_init
               /\ UNCHANGED <<result, sem, meas, fresh, foreign, late, level, lifecycle_state, timer,
                              from, cb, led, history>>

colour(bat_level) ==
    IF bat_level > 50 THEN [r |-> (100 - bat_level) * 2, g |-> 99]
                      ELSE [r |-> 99, g |-> bat_level * 2]

\* The rest of button_mode_init: after 70 us the colour is chosen and the button
\* read; the callback is called with what was read, ...
InitReads == /\ power = "init"
             /\ power' = "ready"
             /\ led' = colour(charge_level(result))
             /\ cb' = [branch |-> lifecycle_state, new_value |-> level]
             /\ UNCHANGED <<batteryVars, level, lifecycle_state, timer, from, history>>

\* Mutant: the release does not stop the timer.
StartedKept(branch, new_value) ==
    CASE branch = "freshly_booted" -> IF new_value = 1 /\ timer = "none" THEN "fade" ELSE timer
      [] branch = "normal_operation" -> IF new_value = 0 THEN "hold" ELSE timer
      [] branch = "waiting_for_shutdown" -> "off"

\* Mutant: the shutdown waits for a press.
StartedOnPress(branch, new_value) ==
    CASE branch = "freshly_booted" -> IF new_value = 1 /\ timer = "none" THEN "fade" ELSE timer
      [] branch = "normal_operation" -> IF new_value = 0 THEN "hold" ELSE "none"
      [] branch = "waiting_for_shutdown" -> IF new_value = 0 THEN "off" ELSE timer

\* button_mode_gpio_callback: what the timer runs for afterwards.
Started(branch, new_value) ==
    CASE branch = "freshly_booted" -> IF new_value = 1 /\ timer = "none" THEN "fade" ELSE timer
      [] branch = "normal_operation" -> IF new_value = 0 THEN "hold" ELSE "none"
      [] branch = "waiting_for_shutdown" -> "off"

\* ... as the interrupt calls it with an edge, in the state it finds.
Edge == /\ power = "on" /\ cb = Idle
        /\ level # from
        /\ cb' = [branch |-> lifecycle_state, new_value |-> level]
        /\ masked' = FALSE
        /\ UNCHANGED <<batteryVars, level, power, lifecycle_state, timer, from, led, held, wasHeld,
                       again, lost, raced>>

\* The callback starts or stops the timer and enables the interrupt again, for
\* edges from the level the pin is at now; the end of the first lets threads run.
Act == /\ cb # Idle
       /\ timer' = Started(cb.branch, cb.new_value)
       /\ from' = level
       /\ cb' = Idle
       /\ power' = "on"
       /\ meas' = IF power = "ready" THEN "start" ELSE meas
       /\ held' = IF timer' = "hold" THEN level = 0 ELSE held
       /\ again' = (again /\ cb.new_value = 0 /\ cb.branch = "waiting_for_shutdown")
       /\ lost' = (lost \/ level # cb.new_value)
       /\ UNCHANGED <<conv, result, sem, fresh, foreign, late, level, lifecycle_state, led, wasHeld,
                      raced, masked>>

\* debounce_timer_cb enables the interrupt with the level after an edge.
Forget == /\ power = "on" /\ cb = Idle /\ level # from
          /\ from' = level
          /\ lost' = TRUE /\ masked' = FALSE
          /\ UNCHANGED <<batteryVars, level, power, lifecycle_state, timer, cb, led, held, wasHeld,
                         again, raced>>

SwitchOff ==
    /\ power' = "off" /\ level' = level /\ from' = 1
    /\ conv' = "none" /\ result' = 0 /\ sem' = 0 /\ meas' = "none"
    /\ fresh' = FALSE /\ foreign' = FALSE /\ late' = FALSE
    /\ lifecycle_state' = "freshly_booted" /\ timer' = "none" /\ cb' = Idle /\ led' = NoColour
    /\ held' = FALSE /\ wasHeld' = FALSE /\ again' = FALSE /\ lost' = FALSE /\ raced' = FALSE
    /\ masked' = FALSE

\* Mutant: the mouse is switched off as soon as the hold time is over.
TimerCbAtOnce ==
    /\ timer # "none" /\ power = "on"
    /\ \/ /\ lifecycle_state = "freshly_booted"
          /\ lifecycle_state' = "normal_operation"
          /\ timer' = "none"
          /\ raced' = (raced \/ cb # Idle)
          /\ UNCHANGED <<batteryVars, level, power, from, cb, led, held, wasHeld, again, lost, masked>>
       \/ lifecycle_state # "freshly_booted" /\ SwitchOff

\* lifecycle_timer_cb, which looks at the state and not at what it was started for.
lifecycle_timer_cb ==
    /\ timer # "none" /\ power = "on"
    /\ \/ /\ lifecycle_state # "waiting_for_shutdown"
          /\ lifecycle_state' = IF lifecycle_state = "freshly_booted" THEN "normal_operation"
                                ELSE "waiting_for_shutdown"
          /\ wasHeld' = (held \/ (level # from /\ ~ masked))
          /\ timer' = "none"
          /\ lost' = (lost \/ masked) /\ raced' = (raced \/ cb # Idle)
          /\ UNCHANGED <<batteryVars, level, power, from, cb, led, held, again, masked>>
       \/ lifecycle_state = "waiting_for_shutdown" /\ SwitchOff

cmd_shutdown == power = "on" /\ cb = Idle /\ SwitchOff

BatteryStep == power # "off" /\ BatteryNext /\ UNCHANGED <<level, lifecycle, history>>

Next == \/ Button \/ WakeUp \/ CheckFails \/ CheckPasses \/ InitReads \/ Edge \/ Act \/ Forget
        \/ lifecycle_timer_cb \/ cmd_shutdown \/ BatteryStep

Spec == Init /\ [][Next]_vars

\* Interrupts are served and a timer that runs expires.  An edge that another pin
\* masks raises no PORT event (gpio.c:66-74), so nothing obliges it to be told.
FairSpec == Spec /\ WF_vars(~ masked /\ Edge) /\ WF_vars(Act) /\ WF_vars(lifecycle_timer_cb)
-------------------------------------------------------------------------------
\* The one timer expires in the state it was started for, unless it has expired
\* while the callback was between reading the state and starting it.
TimerMeansState ==
    raced \/ /\ timer = "fade" => lifecycle_state = "freshly_booted"
             /\ timer = "hold" => lifecycle_state = "normal_operation"
             /\ timer = "off"  => lifecycle_state = "waiting_for_shutdown"

\* The mouse is ready to shut down only when the button was held through the
\* hold time (button_mode.c:33-35), or a release was forgotten or still masked at
\* its end, or a callback raced.
ReadyWasHeld == lifecycle_state = "waiting_for_shutdown" => wasHeld \/ lost \/ raced

\* A fresh start with the button up has its fade scheduled, so that it becomes
\* normal operation, unless an edge was forgotten.
FadeScheduled == power = "on" /\ cb = Idle /\ lifecycle_state = "freshly_booted" /\ level = 1
                 /\ from = 1 /\ ~ lost => timer = "fade"

\* State, timer and button agree: the timer is what the state waits for, and only
\* a button held long enough brings the mouse to its shutdown.
LifecycleInv == PowerTypeOK /\ TimerMeansState /\ ReadyWasHeld /\ FadeScheduled

\* The mouse does not switch itself off with the button pressed, to be woken at
\* once (button_mode.c:67), unless it was pressed again after its release.
OffWithButtonUp ==
    [][lifecycle_timer_cb /\ power' = "off" /\ level = 0 => again \/ lost \/ raced]_vars

\* The colour of the battery level is in the range the comments give
\* (button_mode.c:85, 89), up to 99 for red and 100 for green.
ColourInRange == led.r \in 0 .. 99 /\ led.g \in 0 .. 100

\* A level is never stale and never out of range on its way from the conversion to
\* the LED and the hosts.
LevelIsRight == SentIsFresh /\ LevelInRange /\ ColourInRange

\* A release of the button that has been held long enough switches the mouse off,
\* unless its edge was forgotten or is masked by another pin, or a callback raced.
ReleaseSwitchesOff ==
    power = "on" /\ lifecycle_state = "waiting_for_shutdown" /\ level = 1
        ~> power # "on" \/ level = 0 \/ lost \/ raced \/ masked
================================================================================

-------------------------------- MODULE Battery --------------------------------
(***************************************************************************)
(* platform/adc.c and services/battery.c: a thread measures the battery       *)
(* periodically; others (button_mode_init, the shell) trigger measurements    *)
(* too.  A conversion ends in an interrupt, which gives the thread's          *)
(* semaphore when the thread has set its callback.                            *)
(***************************************************************************)
EXTENDS Integers

CONSTANT Voltages  \* bound: what a measurement may find, in mV
ASSUME BatteryAssumption == Voltages \subseteq Int /\ 0 \in Voltages

VARIABLES conv,    \* the conversion under way: "none", or whose it is
          result,  \* result_buffer, in mV
          sem,     \* the count of adc_meas_sem
          meas,    \* where battery_meas_send_thread is; "none": not started
          fresh,   \* history: result is of the thread's last trigger
          foreign, \* history: a measurement of another has given the semaphore
          late     \* history: the thread has timed out
batteryVars == <<conv, result, sem, meas, fresh, foreign, late>>

BatteryInit == /\ conv = "none" /\ result = 0 /\ sem = 0 /\ meas = "none"
               /\ fresh = FALSE /\ foreign = FALSE /\ late = FALSE
-------------------------------------------------------------------------------
\* bat_capacity_curve: hundredths of a percent at a voltage.
points(i)  == <<10000, 625, 0>>[i]
voltage(i) == <<3950, 3550, 3100>>[i]

interpolate(mv, i) ==
    (points(i) + ((points(i - 1) - points(i)) * (mv - voltage(i))) \div (voltage(i - 1) - voltage(i)))
        \div 100

\* battery_charge_level: the loop over the curve of three points unrolled.
charge_level(mv) ==
    IF mv >= voltage(1) THEN points(1) \div 100
    ELSE IF mv >= voltage(2) THEN interpolate(mv, 2)
    ELSE IF mv >= voltage(3) THEN interpolate(mv, 3)
    ELSE points(3) \div 100

\* A trigger during a conversion aborts it, or comes to nothing itself when the
\* interrupt of the other stops the ADC between its START and its SAMPLE.
adc_trigger_measurement(who) ==
    conv' \in IF conv = "none" THEN {who} ELSE {who, conv}

adc_irq_handler ==
    /\ conv # "none"
    /\ conv' = "none"
    /\ result' \in Voltages
    /\ fresh' = (conv = "thread")
    /\ IF meas # "none" THEN sem' = 1 /\ foreign' = (foreign \/ conv = "other")
                        ELSE UNCHANGED <<sem, foreign>>
    /\ UNCHANGED <<meas, late>>

\* The thread sets the callback and starts with a measurement; ...
MeasTrigger == /\ meas \in {"start", "sleep"}
               /\ adc_trigger_measurement("thread")
               /\ fresh' = FALSE
               /\ meas' = "wait"
               /\ UNCHANGED <<result, sem, foreign, late>>

\* Mutant: the semaphore is looked at and not taken.
MeasLooks == /\ meas = "wait" /\ sem = 1
             /\ meas' = "read"
             /\ UNCHANGED <<conv, result, sem, fresh, foreign, late>>

\* ... it waits for the result, ...
MeasTake == /\ meas = "wait" /\ sem = 1
            /\ sem' = 0 /\ meas' = "read"
            /\ UNCHANGED <<conv, result, fresh, foreign, late>>

\* ... for 1 s at most, ...
MeasTimeout == /\ meas = "wait" /\ sem = 0
               /\ late' = TRUE /\ meas' = "sleep"
               /\ UNCHANGED <<conv, result, sem, fresh, foreign>>

\* ... and sends the level.
MeasSend == /\ meas = "read"
            /\ meas' = "sleep"
            /\ UNCHANGED <<conv, result, sem, fresh, foreign, late>>

\* "service battery measure" and "platform adc" of the shell.
ShellMeasures == /\ meas # "none"
                 /\ adc_trigger_measurement("other")
                 /\ UNCHANGED <<result, sem, meas, fresh, foreign, late>>

BatteryNext == \/ adc_irq_handler \/ MeasTrigger \/ MeasTake \/ MeasTimeout \/ MeasSend
               \/ ShellMeasures
-------------------------------------------------------------------------------
BatteryTypeOK ==
    /\ conv \in {"none", "thread", "other"} /\ result \in Voltages /\ sem \in {0, 1}
    /\ meas \in {"none", "start", "wait", "read", "sleep"}
    /\ fresh \in BOOLEAN /\ foreign \in BOOLEAN /\ late \in BOOLEAN

\* The level the thread sends is of the measurement it has just triggered, as
\* long as no measurement of another has ended after it was started and none of
\* its own has timed out: after that every level may be that of a period before.
SentIsFresh == meas = "read" => fresh \/ foreign \/ late

\* A level is a percentage (battery.h:15).
LevelInRange == charge_level(result) \in 0 .. 100
================================================================================

--------------------------------- MODULE Gpio ---------------------------------
(***************************************************************************)
(* platform/gpio.c: one-time edge interrupts on top of the SENSE mechanism   *)
(* of the chip.  All pins share one DETECT signal, and only a rising edge of *)
(* DETECT raises the PORT event that runs the interrupt handler (gpio.h:     *)
(* 13-17).  Pins change whenever they like.  A kernel timer's handler has a   *)
(* higher priority than the GPIO one and may run between any two steps of it *)
(* (platform: RTC at priority 1, GPIOTE at 5); threads run when none does.   *)
(***************************************************************************)
EXTENDS Integers

CONSTANT Pins   \* pins an edge callback may be set for

ASSUME GpioAssumption == Pins \subseteq Nat

Level == {0, 1}
NoPin == -1
NoLevels == [p \in Pins |-> 0]

VARIABLES level,       \* what the pins are at
          sense,       \* their SENSE configuration
          portEvent,   \* NRF_GPIOTE_EVENT_PORT
          intEnabled,  \* gpio_int_enabled
          fromLevel,   \* gpio_int_from_level
          isr,         \* where gpiote_irq_handler is
          levels,      \* its local variables: levels,
          from,        \* interrupts_from,
          word,        \* gpio_int_enabled as loaded in line 70,
          pin,         \* pin
          masked       \* history: pins that met their condition while DETECT was high
portVars == <<sense, portEvent, intEnabled, fromLevel, masked>>
isrVars  == <<isr, levels, from, word, pin>>
gpioVars == <<level, portVars, isrVars>>

GpioInit == /\ level \in [Pins -> Level]
            /\ sense = [p \in Pins |-> "nosense"]
            /\ portEvent = FALSE
            /\ intEnabled = {}
            /\ fromLevel = [p \in Pins |-> 0]
            /\ isr = "idle" /\ levels = NoLevels /\ from = {} /\ word = {} /\ pin = NoPin
            /\ masked = {}
-------------------------------------------------------------------------------
\* The chip: a pin meets its SENSE condition; DETECT is the OR over the pins; its
\* rising edge latches the PORT event.
Meets(p, lv, sn) == \/ sn[p] = "low"  /\ lv[p] = 0
                    \/ sn[p] = "high" /\ lv[p] = 1
Detect(lv, sn) == \E p \in Pins : Meets(p, lv, sn)
Rises == ~Detect(level, sense) /\ Detect(level', sense')

\* What a change of the levels or of SENSE does to the event, and to history.
Latch == /\ portEvent' = (portEvent \/ Rises)
         /\ masked' =
              {p \in Pins : /\ Meets(p, level', sense')
                            /\ \/ p \in masked
                               \/ ~Meets(p, level, sense) /\ Detect(level, sense)}

Flip(p) == /\ level' = [level EXCEPT ![p] = 1 - @]
           /\ UNCHANGED <<sense, intEnabled, fromLevel, isrVars>>
           /\ Latch

\* gpio_set_edge_cb_mask, under irq_lock.
gpio_set_edge_cb_mask(pins, fromLevels) ==
    /\ intEnabled' = intEnabled \cup pins
    /\ fromLevel' = [p \in Pins |-> IF p \in pins THEN fromLevels[p] ELSE fromLevel[p]]
    /\ sense' = [p \in Pins |-> IF p \notin pins THEN sense[p]
                                ELSE IF fromLevels[p] = 1 THEN "low" ELSE "high"]
    /\ UNCHANGED level
    /\ Latch

\* gpio_unset_edge_cb_mask, under irq_lock.
gpio_unset_edge_cb_mask(pins) ==
    /\ intEnabled' = intEnabled \ pins
    /\ sense' = [p \in Pins |-> IF p \in pins THEN "nosense" ELSE sense[p]]
    /\ UNCHANGED <<level, fromLevel>>
    /\ Latch
-------------------------------------------------------------------------------
\* The handler clears the event, ...
IsrEnter == /\ isr = "idle" /\ portEvent
            /\ portEvent' = FALSE
            /\ isr' = "read"
            /\ UNCHANGED <<level, sense, intEnabled, fromLevel, masked, levels, from, word, pin>>

\* ... reads the pins, ...
IsrRead == /\ isr = "read"
           /\ levels' = level
           /\ isr' = "load"
           /\ UNCHANGED <<level, portVars, from, word, pin>>

\* Mutant: the event is cleared after the pins are read.
IsrLoadClears == /\ isr = "load"
                 /\ from' = {p \in intEnabled : levels[p] # fromLevel[p]}
                 /\ word' = intEnabled
                 /\ portEvent' = FALSE
                 /\ isr' = "store"
                 /\ UNCHANGED <<level, sense, intEnabled, fromLevel, masked, levels, pin>>

\* ... loads the mask and finds the enabled pins that left their level, ...
IsrLoad == /\ isr = "load"
           /\ from' = {p \in intEnabled : levels[p] # fromLevel[p]}
           /\ word' = intEnabled
           /\ isr' = "store"
           /\ UNCHANGED <<level, portVars, levels, pin>>

\* ... and stores it without them.
IsrStore == /\ isr = "store"
            /\ intEnabled' = word \ from
            /\ word' = {}
            /\ isr' = "loop"
            /\ UNCHANGED <<level, sense, portEvent, fromLevel, masked, levels, from, pin>>

\* Mutant: the pin stays connected to DETECT.
IsrCallConnected(p) == /\ isr = "loop"
                       /\ p \in from /\ \A q \in from : p <= q
                       /\ from' = from \ {p}
                       /\ pin' = p
                       /\ isr' = "callback"
                       /\ UNCHANGED <<level, portVars, levels, word>>

\* Lowest pin first: disconnect it from DETECT and call its callback.
IsrCall(p) == /\ isr = "loop"
              /\ p \in from /\ \A q \in from : p <= q
              /\ from' = from \ {p}
              /\ sense' = [sense EXCEPT ![p] = "nosense"]
              /\ pin' = p
              /\ isr' = "callback"
              /\ UNCHANGED <<level, intEnabled, fromLevel, levels, word>>
              /\ Latch

\* The callback returns.
IsrReturn == /\ isr = "callback"
             /\ isr' = "loop" /\ pin' = NoPin
             /\ UNCHANGED <<levels, from, word>>

IsrExit == /\ isr = "loop" /\ from = {}
           /\ isr' = "idle" /\ levels' = NoLevels
           /\ UNCHANGED <<level, portVars, from, word, pin>>

Isr == IsrEnter \/ IsrRead \/ IsrLoad \/ IsrStore \/ IsrExit \/ \E p \in Pins : IsrCall(p)
-------------------------------------------------------------------------------
GpioTypeOK ==
    /\ level \in [Pins -> Level] /\ levels \in [Pins -> Level]
    /\ sense \in [Pins -> {"nosense", "low", "high"}]
    /\ portEvent \in BOOLEAN
    /\ intEnabled \subseteq Pins
    /\ fromLevel \in [Pins -> Level]
    /\ isr \in {"idle", "read", "load", "store", "loop", "callback"}
    /\ from \subseteq Pins /\ word \subseteq Pins
    /\ pin \in Pins \cup {NoPin} /\ masked \subseteq Pins
==============================================================================

------------------------------- MODULE Debounce -------------------------------
(***************************************************************************)
(* services/debounce.c on top of gpio.c: an edge disables the interrupt of   *)
(* its pin and files a request to enable it again in the last cell of a      *)
(* circular array, which a periodic timer shifts; a request that arrives in  *)
(* cell 0 is carried out.                                                    *)
(***************************************************************************)
EXTENDS Gpio

CONSTANTS N,         \* CONFIG_APP_DEBOUNCE_NUM_SHIFTS
          Rearming   \* pins whose callback calls debounce_set_edge_cb itself,
                     \* as that of the mode button does (button_mode.c:71)

\* With N >= 2 (7 by default) the timer's handler never meets the cell that
\* debounce_gpio_cb is writing, so that the write can be one step.
ASSUME DebounceAssumption == N \in Nat \ {0, 1} /\ Rearming \subseteq Pins

VARIABLES shiftarr,   \* N + 1 cells, each a set of pins
          cell0,      \* shiftarr_cell0_index
          movesLeft,  \* shiftarr_moves_left
          timer,      \* debounce_timer is running
          step,       \* where debounce_gpio_cb is
          ticked,     \* the timer has expired during this run of the GPIO handler
          age,        \* history: timer periods since the pin's last request, up to N
          overwritten, \* history: pins the timer enabled within line 70 of gpio.c
          wanted      \* history: pins for which a callback is set
debounceVars == <<shiftarr, cell0, movesLeft, timer, step, ticked>>
historyVars  == <<age, overwritten, wanted>>
vars         == <<gpioVars, debounceVars, historyVars>>

Cells == 0..N
circular_index_to_phys(i) ==
    IF i + cell0 >= N + 1 THEN i + cell0 - (N + 1) ELSE i + cell0

Init == /\ GpioInit
        /\ shiftarr = [c \in Cells |-> {}]
        /\ cell0 = 0 /\ movesLeft = 0 /\ timer = FALSE
        /\ step = "none" /\ ticked = FALSE
        /\ age = [p \in Pins |-> N]
        /\ overwritten = {}
        /\ wanted = {}
-------------------------------------------------------------------------------
\* debounce_set_edge_cb and _unset_edge_cb, called by a thread (an init function).
SetEdgeCb(p) ==
    /\ isr = "idle" /\ p \notin wanted
    /\ gpio_set_edge_cb_mask({p}, level)
    /\ wanted' = wanted \cup {p}
    /\ age' = [age EXCEPT ![p] = N]
    /\ overwritten' = overwritten \ {p}
    /\ UNCHANGED <<isrVars, debounceVars>>

UnsetEdgeCb(p) ==
    /\ isr = "idle" /\ p \in wanted
    /\ gpio_unset_edge_cb_mask({p})
    /\ LET ahead == {circular_index_to_phys(i) : i \in 1..movesLeft}
       IN  shiftarr' = [c \in Cells |-> IF c \in ahead THEN shiftarr[c] \ {p}
                                                       ELSE shiftarr[c]]
    /\ wanted' = wanted \ {p} /\ overwritten' = overwritten \ {p}
    /\ UNCHANGED <<isrVars, cell0, movesLeft, timer, step, ticked, age>>

\* Mutant: the request goes into the last cell but one.
FileShort ==
    /\ isr = "callback" /\ step = "none"
    /\ shiftarr' = [shiftarr EXCEPT ![circular_index_to_phys(N - 1)] = @ \cup {pin}]
    /\ step' = "filed"
    /\ age' = [age EXCEPT ![pin] = 0]
    /\ UNCHANGED <<gpioVars, cell0, movesLeft, timer, ticked, overwritten, wanted>>

\* debounce_gpio_cb: file the request in the last cell, ...
FileRequest ==
    /\ isr = "callback" /\ step = "none"
    /\ shiftarr' = [shiftarr EXCEPT ![circular_index_to_phys(N)] = @ \cup {pin}]
    /\ step' = "filed"
    /\ age' = [age EXCEPT ![pin] = 0]
    /\ UNCHANGED <<gpioVars, cell0, movesLeft, timer, ticked, overwritten, wanted>>

\* Mutant: one cell too few is shifted through.
UpdateShort ==
    /\ step = "filed"
    /\ movesLeft' = N - 1
    /\ step' = "start"
    /\ UNCHANGED <<gpioVars, shiftarr, cell0, timer, ticked, historyVars>>

\* ... let all cells be shifted through, ...
UpdateMoves ==
    /\ step = "filed"
    /\ movesLeft' = N
    /\ step' = "start"
    /\ UNCHANGED <<gpioVars, shiftarr, cell0, timer, ticked, historyVars>>

\* ... start the timer if it is not running, and ...
StartTimer ==
    /\ step = "start"
    /\ timer' = TRUE
    /\ step' = "user"
    /\ UNCHANGED <<gpioVars, shiftarr, cell0, movesLeft, ticked, historyVars>>

\* ... call the user's function with the level the handler has read.
UserCallback ==
    /\ step = "user"
    /\ step' = "none"
    /\ IF pin \in Rearming THEN gpio_set_edge_cb_mask({pin}, level)
                           ELSE UNCHANGED <<level, portVars>>
    /\ IsrReturn
    /\ UNCHANGED <<shiftarr, cell0, movesLeft, timer, ticked, age, overwritten, wanted>>

\* debounce_timer_cb: shift by one cell, carry out the requests that arrive in
\* cell 0, stop when every cell has been shifted through.  Timing assumption: a
\* run of the GPIO handler is shorter than the timer's period, so the timer
\* interrupts it at most once.
TimerCb ==
    /\ timer
    /\ isr # "idle" => ~ticked
    /\ ticked' = (isr # "idle")
    /\ LET head == circular_index_to_phys(1)
       IN  /\ cell0' = head
           /\ IF shiftarr[head] # {}
              THEN gpio_set_edge_cb_mask(shiftarr[head], level)
              ELSE UNCHANGED <<level, portVars>>
           /\ shiftarr' = [shiftarr EXCEPT ![head] = {}]
           /\ overwritten' = IF isr = "store" THEN overwritten \cup (shiftarr[head] \ word)
                                              ELSE overwritten \ shiftarr[head]
    /\ movesLeft' = movesLeft - 1
    /\ timer' = (movesLeft' # 0)
    /\ age' = [p \in Pins |-> IF age[p] < N THEN age[p] + 1 ELSE N]
    /\ UNCHANGED <<isrVars, step, wanted>>

HandlerRuns == Isr /\ UNCHANGED <<shiftarr, cell0, movesLeft, timer, step, historyVars>>
                   /\ ticked' = (ticked /\ isr' # "idle")

Handler == \/ HandlerRuns
           \/ FileRequest \/ UpdateMoves \/ StartTimer \/ UserCallback

PinFlips(p) == Flip(p) /\ UNCHANGED <<debounceVars, historyVars>>

Next == \/ \E p \in Pins : PinFlips(p) \/ SetEdgeCb(p) \/ UnsetEdgeCb(p)
        \/ Handler \/ TimerCb

\* Interrupts are served and the timer keeps its period; pins owe nothing.  The
\* timer's interrupt stays pending while it is held up, and comes afterwards.
Fairness == WF_vars(Handler) /\ SF_vars(TimerCb)

Spec == Init /\ [][Next]_vars
FairSpec == Spec /\ Fairness
-------------------------------------------------------------------------------
\* How many shifts it takes a cell to reach cell 0.
Distance(c) == IF c >= cell0 THEN c - cell0 ELSE c - cell0 + N + 1

DebounceTypeOK ==
    /\ GpioTypeOK
    /\ shiftarr \in [Cells -> SUBSET Pins]
    /\ cell0 \in Cells
    /\ movesLeft \in 0..N
    /\ timer \in BOOLEAN /\ ticked \in BOOLEAN
    /\ step \in {"none", "filed", "start", "user"}
    /\ age \in [Pins -> 0..N]
    /\ overwritten \subseteq Pins
    /\ wanted \subseteq Pins

\* The handler has the pin in hand and has not filed its request.
InHand(p) == p \in from \/ (isr = "callback" /\ pin = p)

\* A request is within the cells that are still to be shifted.
Requested(p) == \E c \in Cells : p \in shiftarr[c] /\ Distance(c) \in 1..movesLeft

\* No pin is forgotten: a pin with a callback has its interrupt enabled, or the
\* handler has it in hand, or a request for it lies ahead of a running timer.  The
\* exception: the timer's handler enabled it between the load and the store of
\* gpio_int_enabled (gpio.c:70), which takes it out of the mask for good.
NoPinForgotten ==
    \A p \in wanted \ overwritten : \/ p \in intEnabled
                                    \/ InHand(p)
                                    \/ timer /\ Requested(p)

\* The debounce time is the documented one (debounce.c:11-15): the callback of a
\* pin is called again only after the timer's N-th period, unless the callback
\* enables the interrupt itself.
LockedOut == [][\A p \in Pins \ Rearming : step = "none" /\ step' = "filed" /\ pin = p
                                               => age[p] = N]_vars

\* Once a callback is unset no trace is left that could call it.
UnsetStaysUnset ==
    \A p \in Pins \ wanted : p \notin intEnabled /\ ~InHand(p) /\ \A c \in Cells : p \notin shiftarr[c]

\* A pin the interrupt is enabled for is also connected to DETECT with the level
\* that was asked for, and a pin that is connected is enabled, or was overwritten
\* in the mask: it then holds DETECT for nobody.
SenseFollowsMask ==
    isr = "idle" => \A p \in Pins :
        sense[p] = IF p \notin intEnabled \cup overwritten THEN "nosense"
                   ELSE IF fromLevel[p] = 1 THEN "low" ELSE "high"

\* The edge of an enabled pin is attended to: while a pin is away from the level
\* it is sensed from, the PORT event is pending or its handler is running.  The
\* exception: DETECT was held by another pin when this one met its condition (by
\* gpio.h:13-15 that should not be), and no rising edge was left for it.
EdgeAttendedUnlessMasked ==
    \A p \in intEnabled \ masked : level[p] # fromLevel[p] => portEvent \/ isr # "idle"

\* Every pin with a callback comes to be enabled again, unless it is overwritten.
EnabledAgain ==
    \A p \in Pins : p \in wanted ~> (p \in intEnabled \cup overwritten \/ p \notin wanted)

\* The mask, the ring of requests and the pins' senses agree at every step of the
\* two handlers.
DebounceInv == DebounceTypeOK /\ UnsetStaysUnset /\ SenseFollowsMask

\* A pin is locked out for the debounce time and no longer: N periods, and then
\* its interrupt comes to be enabled.
LockedOutAndBack == LockedOut /\ EnabledAgain
==============================================================================

---------------------------- MODULE ButtonsSource ----------------------------
(***************************************************************************)
(* services/hid/source/buttons.c composed with the collector: button edges   *)
(* are queued by the GPIO interrupt, one toggle queue per button, and moved  *)
(* into the report by the filler, at most one toggle of each button per      *)
(* report.  The interrupt may come between any two steps of the filler.      *)
(***************************************************************************)
EXTENDS Collector, ToggleQueue, Sequences

CONSTANTS ButtonsId,   \* hid_source_id(hid_src_buttons)
          ButtonOrder  \* the buttons in the order of the filler's assignments

ASSUME ButtonsAssumption == /\ ButtonsId \in Existing
                            /\ ButtonOrder \in Seq(STRING) /\ Len(ButtonOrder) > 0
                            /\ \A i, j \in DOMAIN ButtonOrder :
                                   ButtonOrder[i] = ButtonOrder[j] => i = j

N       == Len(ButtonOrder)
Buttons == {ButtonOrder[i] : i \in 1..N}

VARIABLES queues,   \* a toggle queue per button
          at,       \* the filler's next step, 0 when it does not run
          bits,     \* report->buttons
          shown,    \* history: changes of each bit the sink has seen
          synced    \* history: the filler has written the bits since boot
buttonVars  == <<queues, at, bits>>
shownVars   == <<shown, synced>>
systemVars  == <<collectorVars, buttonVars, shownVars>>

\* hid_src_buttons_init: a button may be held down while the mouse boots.
ButtonsInit ==
    /\ Init
    /\ \E held \in [Buttons -> Event] :
           /\ queues = [b \in Buttons |-> toggle_queue_init(held[b])]
           /\ shown = held
    /\ at = 0
    /\ bits = [b \in Buttons |-> 0]
    /\ synced = FALSE
-------------------------------------------------------------------------------
\* hid_src_buttons_interrupt_cb: buttons are active low; a level that is already
\* the newest in the queue is refused with a warning and not announced.
InterruptCb(b, new_level) ==
    LET put == toggle_queue_put(queues[b], 1 - new_level)
    IN  /\ put.ret >= 0
        /\ Depth(queues[b]) < MaxDepth
        /\ queues' = [queues EXCEPT ![b] = put.queue]
        /\ Notify(ButtonsId)
        /\ UNCHANGED <<at, bits, shownVars>>

\* The filler takes one toggle of each button, or repeats the last, ...
FillerTakes ==
    /\ at \in 1..N
    /\ LET b   == ButtonOrder[at]
           got == toggle_queue_get_or_last(queues[b])
       IN  /\ queues' = [queues EXCEPT ![b] = got.queue]
           /\ bits' = [bits EXCEPT ![b] = got.ret]
    /\ at' = at + 1
    /\ UNCHANGED <<collectorVars, shownVars>>

\* Mutant: what is left in the queues is not announced.
FillerForgets == /\ at \in (N + 1)..(2 * N)
                 /\ at' = at + 1
                 /\ UNCHANGED <<collectorVars, queues, bits, shownVars>>

\* ... then looks for a queue with toggles left and announces the next report.
FillerChecks ==
    /\ at \in (N + 1)..(2 * N)
    /\ IF toggle_queue_len(queues[ButtonOrder[at - N]]) # 0
       THEN Notify(ButtonsId) /\ at' = 2 * N + 1
       ELSE UNCHANGED collectorVars /\ at' = at + 1
    /\ UNCHANGED <<queues, bits, shownVars>>

ButtonsCalled == CallFiller(ButtonsId) /\ at' = 1
                 /\ UNCHANGED <<queues, bits, shownVars>>

ButtonsReturn == FillerReturns /\ at = 2 * N + 1 /\ at' = 0 /\ synced' = TRUE
                 /\ UNCHANGED <<queues, bits, shown>>
-------------------------------------------------------------------------------
\* The first byte of the report holds the buttons; the mask has a bit per byte
\* that keeps its value from report to report.
ButtonsByte == 0
\* Mutant: the byte of the buttons is cleared like the deltas.
no_persistent_bytes == {}

hid_report_persistent_bytes == {ButtonsByte}

clear_non_persistent_data(v) ==
    IF ButtonsByte \in hid_report_persistent_bytes THEN v ELSE [b \in Buttons |-> 0]

\* The sink sees the bits of the report it is given.
Shows == shown' = [b \in Buttons |->
                      IF synced /\ bits[b] # shown[b] % 2 THEN Increment(shown[b])
                                                          ELSE shown[b]]

\* Mutant: a dropped report is not cleared.
ReportDroppedUncleared == /\ pc = "fill" /\ events = {} /\ pc' = "wait" /\ Shows
                          /\ UNCHANGED <<sharedVars, mask, events, source, report, caller,
                                         historyVars, queues, at, bits, synced>>

ReportDropped == SinkDrops /\ Shows /\ bits' = clear_non_persistent_data(bits)
                 /\ UNCHANGED <<queues, at, synced>>

ReportSent    == SinkSends /\ Shows /\ UNCHANGED <<buttonVars, synced>>

ReportCleared == SinkReturns /\ bits' = clear_non_persistent_data(bits)
                 /\ UNCHANGED <<queues, at, shownVars>>

\* Everything else leaves the buttons alone.
OtherSteps  == /\ \/ \E s \in Bits \ {ButtonsId} : CallFiller(s)
                  \/ FillerReturns /\ source # ButtonsId
                  \/ Start \/ Wait \/ Restart \/ TakeEvents
               /\ UNCHANGED <<buttonVars, shownVars>>
OtherNotify == /\ \E s \in Registered \ {ButtonsId} : Notify(s)
               /\ UNCHANGED <<buttonVars, shownVars>>
\* The filler of the buttons does not block: the shell does not run under it.
ShellSteps  == at = 0 /\ Shell /\ UNCHANGED <<buttonVars, shownVars>>
ShellEnds   == at = 0 /\ (StoreEnabled \/ PostChanged) /\ UNCHANGED <<buttonVars, shownVars>>

Filler == FillerTakes \/ FillerChecks \/ ButtonsCalled \/ ButtonsReturn
Sink   == ReportDropped \/ ReportSent \/ ReportCleared

ThreadSteps == Filler \/ Sink \/ OtherSteps

ButtonsNext == \/ \E b \in Buttons, level \in Event : InterruptCb(b, level)
               \/ ThreadSteps \/ OtherNotify \/ ShellSteps

ButtonsSpec == ButtonsInit /\ [][ButtonsNext]_systemVars
ButtonsFairSpec == /\ ButtonsSpec
                   /\ WF_systemVars(ThreadSteps)
                   /\ WF_systemVars(ShellEnds)
-------------------------------------------------------------------------------
ButtonsTypeOK ==
    /\ queues \in [Buttons -> Queue]
    /\ at \in 0..(2 * N + 1)
    /\ at # 0 <=> source = ButtonsId
    /\ bits \in [Buttons -> Event]
    /\ shown \in [Buttons -> Counter]
    /\ synced \in BOOLEAN

\* Every press and every release reaches the sink in a report of its own: what
\* the sink has seen of a button lags the toggles taken from its queue by at most
\* the one in the report being filled, so no two toggles merge and none is
\* undone by clearing the report.
EveryToggleShown ==
    \A b \in Buttons :
        LET tail == queues[b].tail
        IN  \/ shown[b] = tail
            \/ pc \in {"fill", "filler"} /\ Increment(shown[b]) = tail

\* A queued toggle is always going to be taken: its source is announced, or is
\* being served and has not yet looked at this queue for what is left.
QueuedIsAnnounced ==
    \A i \in 1..N :
        Depth(queues[ButtonOrder[i]]) > 0 =>
            \/ ButtonsId \in event
            \/ pc \in {"fill", "filler"} /\ ButtonsId \in events
            \/ at \in 1..(N + i)

\* The interrupts and the filler share the queues in range, and no toggle in them
\* waits without a call of the filler to come.
ButtonsInv == ButtonsTypeOK /\ QueuedIsAnnounced

\* While the source is enabled the sink catches up with each button: it comes to
\* see the newest state, again and again however often that changes.  (A button
\* held since boot counts as shown until it moves: the code reports it with the
\* first edge of any button.)
Lags(b) == shown[b] % 2 # queues[b].head % 2
NewestShown ==
    \A b \in Buttons : (Lags(b) /\ ButtonsId \in enabled)
                           ~> (~Lags(b) \/ ButtonsId \notin enabled)

\* The source and its sink are one way the sources of the collector behave.
ImplementsCollector == Spec
==============================================================================

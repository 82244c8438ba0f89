------------------------------ MODULE Collector ------------------------------
(***************************************************************************)
(* services/hid/collector.{c,h}: the thread that waits for HID sources to    *)
(* announce data, lets each of them fill the report and hands the report to  *)
(* the sink, while the shell enables and disables sources under it.          *)
(*                                                                           *)
(* A 32-bit k_event object carries one bit per source and one bit, Changed,  *)
(* for "the enabled mask has changed".  ISRs notify at any point.  The shell *)
(* thread has the lowest priority: it moves only while the collector is      *)
(* blocked, and the collector may preempt it between any two of its steps.   *)
(***************************************************************************)
EXTENDS Integers

CONSTANTS NumSources,   \* registered sources (length of the linker's list)
          MaxSources    \* MAX_NUM_OF_HID_SOURCES, 31

ASSUME SourcesAssumption == NumSources \in Nat \ {0} /\ MaxSources \in Nat \ {0}

Registered == 0..(NumSources - 1)
Ids        == 0..(MaxSources - 1)       \* the bits a source may own
Changed    == MaxSources                \* ENABLED_HID_SOURCES_CHANGED_EVENT_MASK
Bits       == Ids \cup {Changed}
NoSource   == -1

\* get_existing_sources_bitmask: sources beyond the last bit stay disabled.
Existing == Registered \cap Ids

VARIABLES event,     \* the bits posted in hid_collector_event
          enabled,   \* hid_collector_enabled_sources, one word
          pc,        \* where the collector thread is
          mask,      \* the mask of the k_event_wait it is pended in
          events,    \* its local variable of that name
          source,    \* the source whose filler runs
          report,    \* sources whose filler has written into the report
          caller,    \* the shell's call of hid_collector_set_source_id_enabled
          owed,      \* history: sources that notified and were not filled since
          late       \* history: disabled sources filled since they were disabled

sharedVars    == <<event, enabled>>
threadVars    == <<pc, mask, events, source, report>>
historyVars   == <<owed, late>>
collectorVars == <<event, enabled, pc, mask, events, source, report, caller, owed, late>>

NoCall == [at |-> "idle", id |-> 0, on |-> FALSE, word |-> {}]

Init == /\ event = {}
        /\ enabled = Ids
        /\ pc = "start"
        /\ mask = {} /\ events = {} /\ source = NoSource /\ report = {}
        /\ caller = NoCall
        /\ owed = {} /\ late = {}
-------------------------------------------------------------------------------
\* k_event_post: the bits are set; a thread pended on one of them becomes ready
\* and will see the bits of its mask that are set at this moment.
Post(bits) ==
    /\ event' = event \cup bits
    /\ IF pc = "pended" /\ bits \cap mask # {}
       THEN pc' = "waited" /\ events' = event' \cap mask /\ mask' = {}
       ELSE UNCHANGED <<pc, events, mask>>

\* hid_collector_notify_data_available.
Notify(s) ==
    /\ s \in Registered
    /\ IF s \in Ids
       THEN Post({s}) /\ owed' = owed \cup {s}
       ELSE UNCHANGED <<event, pc, events, mask, owed>>
    /\ UNCHANGED <<enabled, source, report, caller, late>>
-------------------------------------------------------------------------------
\* The thread starts: the word is masked in place (collector.c:53).
Start == /\ pc = "start"
         /\ enabled' = enabled \cap Existing
         /\ pc' = "wait"
         /\ UNCHANGED <<event, mask, events, source, report, caller, owed, late>>

\* Mutant: the wait does not look at what is posted already.
WaitForNew == /\ pc = "wait"
              /\ pc' = "pended" /\ mask' = enabled \cup {Changed} /\ events' = {}
              /\ UNCHANGED <<event, enabled, source, report, caller, owed, late>>

\* Mutant: the wait ignores which sources are enabled.
WaitForAll == /\ pc = "wait"
              /\ IF event # {}
                 THEN pc' = "waited" /\ events' = event /\ UNCHANGED mask
                 ELSE pc' = "pended" /\ mask' = Bits /\ events' = {}
              /\ UNCHANGED <<event, enabled, source, report, caller, owed, late>>

\* k_event_wait(*enabled_sources | Changed, no reset, K_FOREVER).
Wait == /\ pc = "wait"
        /\ LET m == enabled \cup {Changed}
           IN  IF event \cap m # {}
               THEN pc' = "waited" /\ events' = event \cap m /\ UNCHANGED mask
               ELSE pc' = "pended" /\ mask' = m /\ events' = {}
        /\ UNCHANGED <<event, enabled, source, report, caller, owed, late>>

\* Mutant: everything received is cleared, not Changed alone.
RestartClearsAll == /\ pc = "waited" /\ Changed \in events
                    /\ event' = event \ events
                    /\ events' = {}
                    /\ pc' = "wait"
                    /\ UNCHANGED <<enabled, mask, source, report, caller, owed, late>>

\* The mask has changed: drop what was received, clear Changed only, wait again.
Restart == /\ pc = "waited" /\ Changed \in events
           /\ event' = event \ {Changed}
           /\ events' = {}
           /\ pc' = "wait"
           /\ UNCHANGED <<enabled, mask, source, report, caller, owed, late>>

\* Mutant: Changed is served like a source.
TakeEventsAlways == /\ pc = "waited"
                    /\ event' = event \ events
                    /\ pc' = "fill"
                    /\ UNCHANGED <<enabled, mask, events, source, report, caller, owed, late>>

\* Clear the received events before any filler runs (collector.c:57).
TakeEvents == /\ pc = "waited" /\ Changed \notin events
              /\ event' = event \ events
              /\ pc' = "fill"
              /\ UNCHANGED <<enabled, mask, events, source, report, caller, owed, late>>

\* A call of hid_collector_set_source_id_enabled for s that has not returned.
InCall(s) == caller.at # "idle" /\ caller.id = s

\* Call the filler of source s, the first of the remaining ones (get_next_bit_pos).
CallFiller(s) ==
    /\ pc = "fill"
    /\ s \in events /\ \A t \in events : s <= t
    /\ source' = s
    /\ events' = events \ {s}
    /\ pc' = "filler"
    /\ owed' = owed \ {s}
    /\ late' = IF s \in enabled \/ InCall(s) THEN late ELSE late \cup {s}
    /\ UNCHANGED <<event, enabled, mask, report, caller>>

FillerReturns == /\ pc = "filler"
                 /\ report' = report \cup {source}
                 /\ source' = NoSource
                 /\ pc' = "fill"
                 /\ UNCHANGED <<event, enabled, mask, events, caller, owed, late>>

\* hid_sink_impl drops the report when the transport is not available, otherwise
\* sends it and sleeps; the report's deltas are cleared in either case.
SinkDrops == /\ pc = "fill" /\ events = {}
             /\ pc' = "wait"
             /\ report' = {}
             /\ UNCHANGED <<event, enabled, mask, events, source, caller, owed, late>>

SinkSends == /\ pc = "fill" /\ events = {}
             /\ pc' = "asleep"
             /\ UNCHANGED <<event, enabled, mask, events, source, report, caller, owed, late>>

SinkReturns == /\ pc = "asleep"
               /\ pc' = "wait"
               /\ report' = {}
               /\ UNCHANGED <<event, enabled, mask, events, source, caller, owed, late>>

Thread == \/ Start \/ Wait \/ Restart \/ TakeEvents
          \/ \E s \in Bits : CallFiller(s)
          \/ FillerReturns \/ SinkDrops \/ SinkSends \/ SinkReturns
-------------------------------------------------------------------------------
\* Before it starts, while it waits, sleeps or a filler blocks on the SPI bus the
\* collector lets threads of lower priority run.
Blocked == pc \in {"start", "pended", "filler", "asleep"}

\* cmd_enable_disable refuses unregistered ids; the setter ignores ids without a
\* bit.  WRITE_BIT loads the word, ...
SetEnabled(s, on) ==
    /\ Blocked /\ caller.at = "idle"
    /\ s \in Registered /\ s \in Ids
    /\ caller' = [at |-> "store", id |-> s, on |-> on, word |-> enabled]
    /\ UNCHANGED <<sharedVars, threadVars, historyVars>>

\* ... and stores it with the one bit changed, ...
StoreEnabled ==
    /\ Blocked /\ caller.at = "store"
    /\ enabled' = IF caller.on THEN caller.word \cup {caller.id}
                               ELSE caller.word \ {caller.id}
    /\ caller' = [caller EXCEPT !.at = "post", !.word = {}]
    /\ late' = late \ {caller.id}
    /\ UNCHANGED <<event, threadVars, owed>>

\* Mutant: the change is not posted.
PostNothing == /\ Blocked /\ caller.at = "post"
               /\ caller' = NoCall
               /\ UNCHANGED <<sharedVars, threadVars, historyVars>>

\* ... and the change is posted.
PostChanged ==
    /\ Blocked /\ caller.at = "post"
    /\ Post({Changed})
    /\ caller' = NoCall
    /\ UNCHANGED <<enabled, source, report, owed, late>>

Shell == \/ \E s \in Registered, on \in BOOLEAN : SetEnabled(s, on)
         \/ StoreEnabled \/ PostChanged
-------------------------------------------------------------------------------
Next == (\E s \in Registered : Notify(s)) \/ Thread \/ Shell

\* The collector runs whenever it is ready, fillers and the sink return; the
\* shell thread finishes a call it has begun.
Fairness == WF_collectorVars(Thread) /\ WF_collectorVars(StoreEnabled \/ PostChanged)

Spec == Init /\ [][Next]_collectorVars
FairSpec == Spec /\ Fairness
-------------------------------------------------------------------------------
TypeOK ==
    /\ event \subseteq Bits
    /\ enabled \subseteq Ids
    /\ pc \in {"start", "wait", "pended", "waited", "fill", "filler", "asleep"}
    /\ mask \subseteq Bits
    /\ events \subseteq Bits
    /\ source \in Ids \cup {NoSource}
    /\ report \subseteq Ids
    /\ caller \in [at : {"idle", "store", "post"}, id : Existing,
                   on : BOOLEAN, word : SUBSET Ids]
    /\ owed \subseteq Ids
    /\ late \subseteq Ids

\* A notification is never lost: from the moment a source announces data until
\* its filler is entered, its bit is posted or is among those the thread is
\* about to serve.  The code clears bits twice, after the wait and for Changed.
NoLostNotification ==
    \A s \in owed : s \in event \/ (pc \in {"fill", "filler"} /\ s \in events)

\* The thread never sleeps over work: it is not pended while the bit of an
\* enabled source is posted, unless the shell is about to post Changed.
NoSleepOverWork ==
    pc = "pended" /\ caller.at # "post" => event \cap enabled = {}

\* STRUCT_SECTION_GET is never given an index outside the list, although a late
\* store of the shell may set bits of sources that do not exist.
FillersExist == source # NoSource => source \in Existing

\* A report is filled by a source at most once: encoder and sensor assign their
\* deltas, a second call before the sink would lose the first one's.
FilledOnce ==
    [][\A s \in Ids : source # s /\ source' = s => s \notin report]_collectorVars

\* Once a call that disables a source has returned, its filler is entered at most
\* once more (it may have been received already) until it is enabled again.
DisableTakesEffect ==
    [][\A s \in Ids : source # s /\ source' = s => s \notin late]_collectorVars

\* An announcement of an enabled source is served, whatever the other sources do;
\* one made while the source was disabled is served once it is enabled.
Served ==
    \A s \in Existing :
        (s \in owed /\ s \in enabled) ~> (s \notin owed \/ s \notin enabled)
==============================================================================

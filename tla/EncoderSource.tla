---------------------------- MODULE EncoderSource ----------------------------
(***************************************************************************)
(* services/hid/source/encoder.c with platform/qdec.c, composed with the     *)
(* collector: the quadrature decoder's interrupt turns steps of the wheel     *)
(* into clicks, two steps each, which the filler moves into the report.      *)
(***************************************************************************)
EXTENDS Collector

CONSTANTS EncoderId,   \* hid_source_id(hid_src_encoder)
          Steps,       \* values the decoder may report in one interrupt
          MaxReports   \* bound: interrupts of the decoder

ASSUME EncoderAssumption == /\ EncoderId \in Existing
                            /\ Steps \subseteq Int \ {0}
                            /\ MaxReports \in Nat

VARIABLES acc, delta,      \* the static variables of the callback
          wheelDelta,      \* report->wheel_delta
          reports,         \* interrupts so far
          turned,          \* history: steps turned,
          clicksHanded,    \* clicks handed to the sink,
          overwritten      \* clicks replaced before a filler took them
encoderVars == <<collectorVars, acc, delta, wheelDelta, reports, turned, clicksHanded, overwritten>>

\* C division truncates towards zero.
CDiv2(n) == IF n >= 0 THEN n \div 2 ELSE -((-n) \div 2)
CMod2(n) == n - 2 * CDiv2(n)

EncoderInit == /\ Init
               /\ acc = 0 /\ delta = 0 /\ wheelDelta = 0
               /\ reports = 0 /\ turned = 0 /\ clicksHanded = 0 /\ overwritten = 0

\* Mutant: the steps turned into clicks stay in the accumulator.
QdecAccumulates(value) ==
    /\ reports < MaxReports /\ reports' = reports + 1
    /\ delta' = CDiv2(acc + value)
    /\ acc' = acc + value
    /\ turned' = turned + value
    /\ overwritten' = overwritten + delta
    /\ IF delta' # 0 THEN Notify(EncoderId) ELSE UNCHANGED collectorVars
    /\ UNCHANGED <<wheelDelta, clicksHanded>>

\* qdec_irq_handler calls hid_src_encoder_qdec_data_callback with the steps since
\* the last report of the decoder.
QdecInterrupt(value) ==
    /\ reports < MaxReports /\ reports' = reports + 1
    /\ delta' = CDiv2(acc + value)
    /\ acc' = CMod2(acc + value)
    /\ turned' = turned + value
    /\ overwritten' = overwritten + delta
    /\ IF delta' # 0 THEN Notify(EncoderId) ELSE UNCHANGED collectorVars
    /\ UNCHANGED <<wheelDelta, clicksHanded>>

\* The filler runs with interrupts locked.
EncoderFills == /\ source = EncoderId /\ FillerReturns
                /\ wheelDelta' = delta
                /\ delta' = 0
                /\ UNCHANGED <<acc, reports, turned, clicksHanded, overwritten>>

EncoderDropped == /\ SinkDrops /\ clicksHanded' = clicksHanded + wheelDelta /\ wheelDelta' = 0
                 /\ UNCHANGED <<acc, delta, reports, turned, overwritten>>
EncoderSent    == /\ SinkSends /\ clicksHanded' = clicksHanded + wheelDelta
                 /\ UNCHANGED <<acc, delta, wheelDelta, reports, turned, overwritten>>
EncoderCleared == /\ SinkReturns /\ wheelDelta' = 0
                 /\ UNCHANGED <<acc, delta, reports, turned, clicksHanded, overwritten>>

EncoderOtherSteps == /\ \/ \E s \in Bits : CallFiller(s)
                        \/ FillerReturns /\ source # EncoderId
                        \/ Start \/ Wait \/ Restart \/ TakeEvents
                        \/ \E s \in Registered \ {EncoderId} : Notify(s)
                        \/ source # EncoderId /\ Shell
                     /\ UNCHANGED <<acc, delta, wheelDelta, reports, turned, clicksHanded,
                                    overwritten>>

EncoderNext == \/ \E value \in Steps : QdecInterrupt(value)
               \/ EncoderFills \/ EncoderDropped \/ EncoderSent \/ EncoderCleared
               \/ EncoderOtherSteps

EncoderSpec == EncoderInit /\ [][EncoderNext]_encoderVars
-------------------------------------------------------------------------------
EncoderTypeOK == /\ acc \in -1..1
                 /\ {delta, wheelDelta, turned, clicksHanded, overwritten} \subseteq Int
                 /\ reports \in 0..MaxReports

\* Clicks that wait to be reported are announced: the interrupt may overwrite
\* them and the filler may take them in any order, a wait without a call to come
\* is not among the outcomes.
ClicksAnnounced ==
    delta # 0 => \/ EncoderId \in event
                 \/ pc \in {"fill", "filler"} /\ EncoderId \in events
                 \/ source = EncoderId

\* The steps turned are all accounted for, two to a click ("every second click
\* should increment the delta", encoder.c:20): handed to the sink, in the report,
\* waiting, half a click, or waiting when the next interrupt came, which assigns
\* delta (encoder.c:23).  Nothing else loses or repeats a click.
ClicksConserved ==
    turned = 2 * (clicksHanded + delta + overwritten
                  + (IF pc = "asleep" THEN 0 ELSE wheelDelta)) + acc

\* No click is lost or repeated but those an interrupt overwrites, and none waits
\* without a call of the filler to come.
ClicksKept == EncoderTypeOK /\ ClicksAnnounced /\ ClicksConserved
==============================================================================

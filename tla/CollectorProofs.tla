--------------------------- MODULE CollectorProofs ---------------------------
(***************************************************************************)
(* The collector's safety properties for any number of sources and bits.     *)
(***************************************************************************)
EXTENDS Collector, TLAPS

\* The received bits are served only after Changed was ruled out, they belong to
\* sources that exist, and a source being served is out of the remaining ones.
Serving ==
    /\ event \subseteq Existing \cup {Changed}
    /\ events \subseteq Existing \cup {Changed}
    /\ pc \in {"fill", "filler"} => Changed \notin events
    /\ pc = "filler" => source \in Existing /\ source \notin events
    /\ pc # "filler" => source = NoSource
    /\ pc = "waited" => events \subseteq event

\* The report holds what was filled in this round only.
Round ==
    /\ pc \in {"fill", "filler"} => report \cap events = {}
    /\ pc = "filler" => source \notin report
    /\ pc \in {"start", "wait", "pended", "waited"} => report = {}

\* A pended thread sleeps on the current mask, unless a change of it is about to
\* be posted, and none of the bits it sleeps on is posted.
Sleeping ==
    pc = "pended" => /\ event \cap mask = {}
                     /\ Changed \in mask
                     /\ caller.at # "post" => mask = enabled \cup {Changed}

\* A word the shell has loaded agrees with the mask on the sources that exist.
LoadedWord ==
    caller.at = "store" => caller.word \cap Existing = enabled \cap Existing

\* A source served after it was disabled is out of everything already received.
Settled ==
    \A s \in late : /\ s \in Existing /\ s \notin enabled
                    /\ pc = "pended" => s \notin mask
                    /\ pc = "waited" /\ Changed \notin events => s \notin events
                    /\ pc \in {"fill", "filler"} => s \notin events

IInv == /\ TypeOK /\ Serving /\ Round /\ Sleeping /\ LoadedWord /\ Settled
        /\ NoLostNotification

LEMMA BitFacts == /\ Changed \notin Ids /\ NoSource \notin Ids
                  /\ Existing \subseteq Ids /\ Changed # NoSource
  BY SourcesAssumption DEF Changed, Ids, Existing, NoSource

-------------------------------------------------------------------------------
LEMMA TypeStep == TypeOK /\ Serving /\ [Next]_collectorVars => TypeOK'
<1> SUFFICES ASSUME TypeOK, Serving, [Next]_collectorVars PROVE TypeOK'
  OBVIOUS
<1> USE BitFacts DEF TypeOK, Serving, Bits
<1>1. ASSUME NEW s \in Registered, Notify(s) PROVE TypeOK'
  BY <1>1 DEF Notify, Post
<1>2. CASE Start
  BY <1>2 DEF Start
<1>3. CASE Wait
  BY <1>3 DEF Wait
<1>4. CASE Restart
  BY <1>4 DEF Restart
<1>5. CASE TakeEvents
  BY <1>5 DEF TakeEvents
<1>6. ASSUME NEW s \in Bits, CallFiller(s) PROVE TypeOK'
  BY <1>6 DEF CallFiller
<1>7. CASE FillerReturns
  BY <1>7 DEF FillerReturns
<1>8. CASE SinkDrops \/ SinkSends \/ SinkReturns
  BY <1>8 DEF SinkDrops, SinkSends, SinkReturns
<1>9. ASSUME NEW s \in Registered, NEW on \in BOOLEAN, SetEnabled(s, on) PROVE TypeOK'
  BY <1>9 DEF SetEnabled, Existing, sharedVars, threadVars, historyVars
<1>10. CASE StoreEnabled
  BY <1>10 DEF StoreEnabled, threadVars
<1>11. CASE PostChanged
  <2>1. NoCall \in [at : {"idle", "store", "post"}, id : Existing,
                    on : BOOLEAN, word : SUBSET Ids]
    BY SourcesAssumption DEF NoCall, Registered, Existing, Ids
  <2> QED BY <1>11, <2>1 DEF PostChanged, Post
<1>12. CASE UNCHANGED collectorVars
  BY <1>12 DEF collectorVars
<1> QED BY <1>1, <1>2, <1>3, <1>4, <1>5, <1>6, <1>7, <1>8, <1>9, <1>10, <1>11, <1>12
        DEF Next, Thread, Shell

-------------------------------------------------------------------------------
LEMMA InvStep == IInv /\ [Next]_collectorVars => IInv'
<1> SUFFICES ASSUME IInv, [Next]_collectorVars PROVE IInv'
  OBVIOUS
<1>0. TypeOK'
  BY TypeStep DEF IInv
<1> USE BitFacts DEF IInv, Serving, Round, Sleeping, LoadedWord, Settled, NoLostNotification
<1>1. ASSUME NEW s \in Registered, Notify(s) PROVE IInv'
  BY <1>0, <1>1 DEF Notify, Post, Existing
<1>2. CASE Start
  BY <1>0, <1>2 DEF Start
<1>3. CASE Wait
  BY <1>0, <1>3 DEF Wait
<1>4. CASE Restart
  BY <1>0, <1>4 DEF Restart, TypeOK
<1>5. CASE TakeEvents
  BY <1>0, <1>5 DEF TakeEvents
<1>6. ASSUME NEW s \in Bits, CallFiller(s) PROVE IInv'
  BY <1>0, <1>6 DEF CallFiller
<1>7. CASE FillerReturns
  BY <1>0, <1>7 DEF FillerReturns
<1>8. CASE SinkDrops \/ SinkSends \/ SinkReturns
  BY <1>0, <1>8 DEF SinkDrops, SinkSends, SinkReturns
<1>9. ASSUME NEW s \in Registered, NEW on \in BOOLEAN, SetEnabled(s, on) PROVE IInv'
  BY <1>0, <1>9 DEF SetEnabled, sharedVars, threadVars, historyVars
<1>10. CASE StoreEnabled
  BY <1>0, <1>10 DEF StoreEnabled, threadVars
<1>11. CASE PostChanged
  BY <1>0, <1>11 DEF PostChanged, Post, NoCall
<1>12. CASE UNCHANGED collectorVars
  BY <1>0, <1>12 DEF collectorVars
<1> QED BY <1>1, <1>2, <1>3, <1>4, <1>5, <1>6, <1>7, <1>8, <1>9, <1>10, <1>11, <1>12
        DEF Next, Thread, Shell

LEMMA Invariance == Spec => []IInv
<1>1. Init => IInv
  BY BitFacts, SourcesAssumption
  DEF Init, IInv, TypeOK, Serving, Round, Sleeping, LoadedWord, Settled,
      NoLostNotification, NoCall, Existing, Registered, Ids, Bits, NoSource
<1> QED BY <1>1, InvStep, PTL DEF Spec

-------------------------------------------------------------------------------
\* Every variable keeps its type, whatever the shell stores over the mask.
THEOREM TypeCorrect == Spec => []TypeOK
<1>1. IInv => TypeOK
  BY DEF IInv
<1> QED BY <1>1, Invariance, PTL

\* No interleaving of ISRs, the thread's two clears and the shell's three-step
\* change of the mask loses a notification.
THEOREM NotificationsKept == Spec => []NoLostNotification
<1>1. IInv => NoLostNotification
  BY DEF IInv
<1> QED BY <1>1, Invariance, PTL

\* The thread does not sleep while an enabled source has announced data.
THEOREM NeverSleepsOverWork == Spec => []NoSleepOverWork
<1>1. IInv => NoSleepOverWork
  BY BitFacts DEF IInv, TypeOK, Sleeping, NoSleepOverWork
<1> QED BY <1>1, Invariance, PTL

\* The list of sources is never indexed outside its bounds.
THEOREM OnlyExistingFillers == Spec => []FillersExist
<1>1. IInv => FillersExist
  BY DEF IInv, Serving, FillersExist
<1> QED BY <1>1, Invariance, PTL

-------------------------------------------------------------------------------
\* A step that enters the filler of s is CallFiller(s).
LEMMA FillerEntered ==
    ASSUME IInv, [Next]_collectorVars, NEW s \in Ids, source # s, source' = s
    PROVE  CallFiller(s)
<1> USE BitFacts
<1>1. source' # source /\ source' # NoSource
  OBVIOUS
<1>2. ASSUME NEW t \in Registered, Notify(t) PROVE FALSE
  BY <1>1, <1>2 DEF Notify
<1>3. CASE Start \/ Wait \/ Restart \/ TakeEvents
  BY <1>1, <1>3 DEF Start, Wait, Restart, TakeEvents
<1>4. CASE FillerReturns \/ SinkDrops \/ SinkSends \/ SinkReturns
  BY <1>1, <1>4 DEF FillerReturns, SinkDrops, SinkSends, SinkReturns
<1>5. ASSUME NEW t \in Bits, CallFiller(t) PROVE CallFiller(s)
  BY <1>5 DEF CallFiller
<1>6. ASSUME Shell PROVE FALSE
  BY <1>1, <1>6 DEF Shell, SetEnabled, StoreEnabled, PostChanged, threadVars
<1>7. CASE UNCHANGED collectorVars
  BY <1>1, <1>7 DEF collectorVars
<1> QED BY <1>2, <1>3, <1>4, <1>5, <1>6, <1>7 DEF Next, Thread

\* No source writes twice into one report.
THEOREM OneFillPerReport == Spec => FilledOnce
<1>1. IInv /\ [Next]_collectorVars
        => [\A s \in Ids : source # s /\ source' = s => s \notin report]_collectorVars
  <2> SUFFICES ASSUME IInv, [Next]_collectorVars, NEW s \in Ids, source # s, source' = s
               PROVE  s \notin report
    OBVIOUS
  <2> QED BY FillerEntered DEF CallFiller, IInv, Round
<1> QED BY <1>1, Invariance, PTL DEF Spec, FilledOnce

\* Disabling a source lets through at most what was already received.
THEOREM DisableSettles == Spec => DisableTakesEffect
<1>1. IInv /\ [Next]_collectorVars
        => [\A s \in Ids : source # s /\ source' = s => s \notin late]_collectorVars
  <2> SUFFICES ASSUME IInv, [Next]_collectorVars, NEW s \in Ids, source # s, source' = s
               PROVE  s \notin late
    OBVIOUS
  <2> QED BY FillerEntered DEF CallFiller, IInv, Settled
<1> QED BY <1>1, Invariance, PTL DEF Spec, DisableTakesEffect
==============================================================================

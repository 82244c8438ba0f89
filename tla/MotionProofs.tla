------------------------------ MODULE MotionProofs ------------------------------
(***************************************************************************)
(* Neither the sensor, nor the shell, nor the wheel loses motion on its way   *)
(* to the sink, and none is reported twice but in the cases the code allows,  *)
(* for any amount of motion, whichever other sources are built.  The sensor   *)
(* assigns to the report what the shell adds to: the theorems about the two   *)
(* rest on the linker's putting the sensor first (SensorFirst).               *)
(***************************************************************************)
EXTENDS CursorSources, EncoderSource, CollectorProofs, FiniteSetTheorems

\* Fillers run in the order of their bits.
Ordered == /\ pc \in {"fill", "filler"} => \A r \in report, e \in events : r < e
           /\ pc = "filler" => /\ \A r \in report : r < source
                               /\ \A e \in events : source < e

\* A delta_x in the report is of a filler that has run in this round.
FilledBySource == /\ xDelta.sensor # 0 => SensorId \in report \/ at \in 3..4
                  /\ xDelta.shell # 0 => ShellId \in report

\* The word a move has loaded can only have been taken since.
LoadedMove == mover.at = "store" => /\ mover.word >= pending
                                    /\ preempted \/ mover.word = pending

Announced == CursorTypeOK /\ MotionAnnounced
Accounts  == /\ ShellMovesKept /\ SensorMotionKept
             /\ SensorMotionOnce /\ ShellMovesOnceUnlessPreempted
Local     == FilledBySource /\ LoadedMove

CInv == IInv /\ Ordered /\ Announced /\ Accounts /\ Local

\* The name of the sensor's priority option sorts before all others, so that the
\* sensor has index 0 and the shell a later one, within the list.
LEMMA SensorFirst == SensorId = 0 /\ ShellId \in 1..(NumSources - 1)
<1> DEFINE sources == {"BUTTONS", "ENCODER", "OPT_SENSOR", "SHELL"}
           earlier(s) == {r \in Built : Before(r, s)}
<1>1. IsFiniteSet(Built)
  <2>1. IsFiniteSet({"BUTTONS"})
    BY FS_Singleton
  <2>2. IsFiniteSet({"BUTTONS"} \cup {"ENCODER"})
    BY <2>1, FS_AddElement
  <2>3. IsFiniteSet(({"BUTTONS"} \cup {"ENCODER"}) \cup {"OPT_SENSOR"})
    BY <2>2, FS_AddElement
  <2>4. IsFiniteSet((({"BUTTONS"} \cup {"ENCODER"}) \cup {"OPT_SENSOR"}) \cup {"SHELL"})
    BY <2>3, FS_AddElement
  <2>5. sources = (({"BUTTONS"} \cup {"ENCODER"}) \cup {"OPT_SENSOR"}) \cup {"SHELL"}
    OBVIOUS
  <2>6. IsFiniteSet(sources)
    BY <2>4, <2>5
  <2> QED BY <2>6, FS_Subset, CursorAssumption
<1>2. earlier("OPT_SENSOR") = {}
  BY CursorAssumption DEF Before, Prefix, Word
<1>3. Cardinality(earlier("SHELL")) \in 1..(NumSources - 1)
  <2>1. "OPT_SENSOR" \in earlier("SHELL")
    BY CursorAssumption DEF Before, Prefix
  <2>2. earlier("SHELL") \subseteq Built \ {"SHELL"}
    BY CursorAssumption DEF Before, Prefix, Word
  <2>3. /\ IsFiniteSet(Built \ {"SHELL"})
        /\ Cardinality(Built \ {"SHELL"}) = NumSources - 1
    BY <1>1, CursorAssumption, FS_RemoveElement
  <2>4. /\ IsFiniteSet(earlier("SHELL"))
        /\ Cardinality(earlier("SHELL")) <= NumSources - 1
    BY <2>2, <2>3, FS_Subset
  <2>5. Cardinality(earlier("SHELL")) # 0
    BY <2>1, <2>4, FS_EmptySet
  <2>6. Cardinality(earlier("SHELL")) \in Nat
    BY <2>4, FS_CardinalityType
  <2> QED BY <2>4, <2>5, <2>6, SourcesAssumption
<1> QED BY <1>2, <1>3, FS_EmptySet DEF SensorId, ShellId, hid_source_id

LEMMA IdFacts == /\ SensorId \in Registered /\ SensorId \in Ids /\ SensorId \in Bits
                 /\ ShellId \in Registered /\ ShellId \in Ids /\ ShellId \in Bits
                 /\ {SensorId, ShellId} \subseteq Int /\ SensorId # ShellId
                 /\ NoSource \notin {SensorId, ShellId} /\ Changed \notin {SensorId, ShellId}
                 /\ SensorId < ShellId
  BY SensorFirst, SourcesAssumption, CursorAssumption, BitFacts DEF Bits, Ids, Registered, Changed,
     NoSource

LEMMA StepRefines == [CursorNext]_cursorVars => [Next]_collectorVars
<1> SUFFICES ASSUME [CursorNext]_cursorVars PROVE [Next]_collectorVars
  OBVIOUS
<1> USE IdFacts
<1>1. CASE Move \/ Pull \/ PinInterrupt
  BY <1>1 DEF Move, Pull, PinInterrupt, Next
<1>2. CASE CursorThread
  <2>1. CASE SensorCalled \/ ShellCalled
    BY <2>1 DEF SensorCalled, ShellCalled, Next, Thread
  <2>2. CASE Fetch \/ FillDelta \/ CheckPin
    BY <2>2 DEF Fetch, FetchMotion, FetchPoor, FetchFails, FillDelta, CheckPin, Next
  <2>3. CASE SensorReturns \/ ShellFills
    BY <2>3 DEF SensorReturns, ShellFills, Next, Thread
  <2>4. CASE CursorDropped \/ CursorSent \/ CursorCleared
    BY <2>4 DEF CursorDropped, CursorSent, CursorCleared, Next, Thread
  <2>5. CASE CursorOtherSteps
    BY <2>5 DEF CursorOtherSteps, Next, Thread
  <2> QED BY <1>2, <2>1, <2>2, <2>3, <2>4, <2>5 DEF CursorThread
<1>3. CASE EnableCommand \/ (ShellRuns /\ MoveCommand(1)) \/ MoveEnds
  BY <1>3 DEF EnableCommand, MoveCommand, MoveEnds, MoveStore, MoveNotify, Next
<1>4. CASE UNCHANGED cursorVars
  BY <1>4 DEF cursorVars
<1> QED BY <1>1, <1>2, <1>3, <1>4 DEF CursorNext

LEMMA OrderedStep == IInv /\ Ordered /\ [Next]_collectorVars => Ordered'
<1> SUFFICES ASSUME IInv, Ordered, [Next]_collectorVars PROVE Ordered'
  OBVIOUS
<1> USE DEF Ordered
<1>0. /\ event \subseteq Int /\ events \subseteq Int /\ report \subseteq Int
      /\ pc \in {"start", "wait", "pended", "waited"} => report = {}
  BY SourcesAssumption DEF IInv, TypeOK, Round, Bits, Ids, Changed
<1>1. ASSUME NEW s \in Registered, Notify(s) PROVE Ordered'
  BY <1>1 DEF Notify, Post
<1>2. CASE Start \/ Wait \/ Restart \/ SinkDrops \/ SinkSends \/ SinkReturns
  BY <1>2 DEF Start, Wait, Restart, SinkDrops, SinkSends, SinkReturns
<1>3. CASE TakeEvents
  BY <1>0, <1>3 DEF TakeEvents
<1>4. ASSUME NEW s \in Bits, CallFiller(s) PROVE Ordered'
  <2>1. /\ pc = "fill" /\ s \in events /\ s \in Int /\ \A t \in events : s <= t
        /\ source' = s /\ events' = events \ {s} /\ pc' = "filler" /\ report' = report
    BY <1>0, <1>4 DEF CallFiller
  <2>2. \A t \in events' : t \in Int /\ s < t
    BY <1>0, <2>1
  <2> QED BY <2>1, <2>2
<1>5. CASE FillerReturns
  BY <1>5 DEF FillerReturns
<1>6. CASE Shell
  BY <1>6 DEF Shell, SetEnabled, StoreEnabled, PostChanged, Post, threadVars
<1>7. CASE UNCHANGED collectorVars
  BY <1>7 DEF collectorVars
<1> QED BY <1>1, <1>2, <1>3, <1>4, <1>5, <1>6, <1>7 DEF Next, Thread
-------------------------------------------------------------------------------
\* Adding to one part of the report's delta_x, and handing both over.
LEMMA FillAdds ==
    ASSUME CursorTypeOK, xDelta' = [xDelta EXCEPT !.shell = @ + pending]
    PROVE  /\ xDelta' \in [sensor : Nat, shell : Nat]
           /\ xDelta'.sensor = xDelta.sensor /\ xDelta'.shell = xDelta.shell + pending
<1>1. /\ pending \in Nat /\ xDelta.sensor \in Nat /\ xDelta.shell \in Nat
      /\ xDelta = [sensor |-> xDelta.sensor, shell |-> xDelta.shell]
  BY DEF CursorTypeOK
<1>2. xDelta' = [sensor |-> xDelta.sensor, shell |-> xDelta.shell + pending]
  BY <1>1
<1> QED BY <1>1, <1>2

LEMMA HandOverAdds ==
    ASSUME CursorTypeOK, HandOver
    PROVE  /\ handed' \in [sensor : Nat, shell : Nat]
           /\ handed'.sensor = handed.sensor + xDelta.sensor
           /\ handed'.shell = handed.shell + xDelta.shell
<1>1. /\ handed.sensor \in Nat /\ handed.shell \in Nat /\ DOMAIN handed = {"sensor", "shell"}
      /\ xDelta.sensor \in Nat /\ xDelta.shell \in Nat
  BY DEF CursorTypeOK
<1>2. /\ handed'.sensor = handed.sensor + xDelta.sensor
      /\ handed'.shell = handed.shell + xDelta.shell
      /\ DOMAIN handed' = {"sensor", "shell"}
  BY <1>1 DEF HandOver
<1>3. handed' = [sensor |-> handed.sensor + xDelta.sensor, shell |-> handed.shell + xDelta.shell]
  BY <1>1, <1>2 DEF HandOver
<1> QED BY <1>1, <1>2, <1>3

\* While its filler runs the sensor's filler step and the collector's source agree.
LEMMA AtServes == CInv => /\ at # 0 <=> source = SensorId
                          /\ at # 0 => pc = "filler" /\ SensorId \notin report
                          /\ at \in 0..4
  BY IdFacts DEF CInv, IInv, Serving, Round, Announced, CursorTypeOK
-------------------------------------------------------------------------------
\* A low pin is followed up: by its own steps ...
LEMMA AnnouncedStep == CInv /\ [CursorNext]_cursorVars => MotionAnnounced'
<1> SUFFICES ASSUME CInv, [CursorNext]_cursorVars, mot' = 0
             PROVE  (\/ mot # armed \/ masked
                     \/ SensorId \in event
                     \/ pc \in {"fill", "filler"} /\ SensorId \in events
                     \/ at \in 1..3)'
  BY DEF MotionAnnounced
<1> USE IdFacts
<1>0. /\ mot = 0 => \/ mot # armed \/ masked
                    \/ SensorId \in event
                    \/ pc \in {"fill", "filler"} /\ SensorId \in events
                    \/ at \in 1..3
      /\ at # 0 => pc = "filler"
      /\ mot \in {0, 1} /\ armed \in {0, 1} /\ at \in 0..4 /\ masked \in BOOLEAN
  BY AtServes DEF CInv, Announced, MotionAnnounced, CursorTypeOK
<1>1. CASE Move \/ Pull
  BY <1>0, <1>1 DEF Move, Pull, SetPin, pinVars, collectorVars
<1>2. CASE PinInterrupt
  BY <1>2 DEF PinInterrupt, Notify, Post
<1>3. CASE Fetch
  BY <1>3 DEF Fetch, FetchMotion, FetchPoor, FetchFails
<1>4. CASE SensorCalled \/ FillDelta
  BY <1>4 DEF SensorCalled, FillDelta, pinVars
<1>5. CASE CheckPin
  BY <1>0, <1>5 DEF CheckPin, pinVars, Notify, Post
<1>6. CASE SensorReturns
  BY <1>0, <1>6 DEF SensorReturns, pinVars, FillerReturns
<1>7. CASE ShellCalled
  BY <1>0, <1>7 DEF ShellCalled, CallFiller, sensorVars, pinVars
<1>8. CASE ShellFills
  BY <1>0, <1>8 DEF ShellFills, FillerReturns, sensorVars, pinVars
<1>9. CASE CursorDropped \/ CursorSent \/ CursorCleared
  BY <1>0, <1>9 DEF CursorDropped, CursorSent, CursorCleared, SinkDrops, SinkSends, SinkReturns,
                    sensorVars, pinVars
<1>10. CASE CursorOtherSteps
  BY <1>0, <1>10 DEF CursorOtherSteps, CallFiller, FillerReturns, Start, Wait, Restart, TakeEvents,
                     sensorVars, pinVars
<1>11. CASE EnableCommand
  BY <1>0, <1>11 DEF EnableCommand, Shell, SetEnabled, StoreEnabled, PostChanged, Post, threadVars,
                     sharedVars, sensorVars, pinVars
<1>12. CASE MoveCommand(1) \/ MoveStore \/ MoveNotify
  BY <1>0, <1>12 DEF MoveCommand, MoveStore, MoveNotify, Notify, Post, collectorVars, sensorVars,
     pinVars
<1>13. CASE UNCHANGED cursorVars
  BY <1>0, <1>13 DEF cursorVars, collectorVars, sensorVars, pinVars
<1> QED BY <1>1, <1>2, <1>3, <1>4, <1>5, <1>6, <1>7, <1>8, <1>9, <1>10, <1>11, <1>12, <1>13
        DEF CursorNext, CursorThread, MoveEnds
-------------------------------------------------------------------------------
Kept == CursorTypeOK /\ Accounts /\ Local

\* The numbers the accounts are kept in.
LEMMA Numbers ==
    ASSUME CInv
    PROVE  /\ count \in Nat /\ delta_x \in Nat /\ pending \in Nat /\ travelled \in Nat
           /\ commanded \in Nat /\ faults \in Nat /\ spoilt \in Nat /\ repeated \in Nat
           /\ mover.x \in Nat /\ mover.word \in Nat
           /\ xDelta.sensor \in Nat /\ xDelta.shell \in Nat
           /\ handed.sensor \in Nat /\ handed.shell \in Nat
           /\ mover.at \in {"idle", "store", "notify"}
  BY DEF CInv, Announced, CursorTypeOK

\* ... the chip and its pin,
LEMMA ChipKeeps == ASSUME CInv, Move \/ Pull \/ PinInterrupt PROVE Kept'
<1> USE IdFacts, Numbers DEF CInv, Announced
<1>1. /\ delta_x' = delta_x /\ pending' = pending /\ mover' = mover /\ preempted' = preempted
      /\ xDelta' = xDelta /\ commanded' = commanded /\ handed' = handed /\ faults' = faults
      /\ spoilt' = spoilt /\ repeated' = repeated
      /\ at' = at /\ source' = source /\ report' = report /\ (pc' = "asleep" <=> pc = "asleep")
      /\ \/ count' = count + 1 /\ travelled' = travelled + 1
         \/ count' = count /\ travelled' = travelled
      /\ mot' \in {0, 1} /\ armed' \in {0, 1} /\ masked' \in BOOLEAN
  BY DEF Move, Pull, PinInterrupt, SetPin, CursorTypeOK, Notify, Post, collectorVars, sensorVars,
     pinVars, shellVars,
         totalVars, burstVars
<1>2. CursorTypeOK'
  BY <1>1 DEF CursorTypeOK
<1>3. Accounts'
  BY <1>1 DEF Accounts, ShellMovesKept, SensorMotionKept, SensorMotionOnce,
              ShellMovesOnceUnlessPreempted, InFlight
<1> QED BY <1>1, <1>2, <1>3 DEF Kept, Local, FilledBySource, LoadedMove

\* the sensor's filler, which finds nothing in the report to write over,
LEMMA SensorKeeps ==
    ASSUME CInv, SensorCalled \/ Fetch \/ FillDelta \/ CheckPin \/ SensorReturns
    PROVE  Kept'
<1> USE IdFacts, Numbers, AtServes DEF CInv, Announced
<1>1. /\ pending' = pending /\ mover' = mover /\ preempted' = preempted
      /\ commanded' = commanded /\ handed' = handed
      /\ pc # "asleep" /\ pc' # "asleep" /\ armed' = armed
  BY DEF SensorCalled, Fetch, FetchMotion, FetchPoor, FetchFails, BurstRead, SetPin, pinVars,
     FillDelta, CheckPin, SensorReturns,
         CallFiller, FillerReturns, Notify, Post, collectorVars, shellVars, totalVars, burstVars
<1>2. CASE SensorCalled
  <2>1. /\ pc = "fill" /\ report' = report /\ source' = SensorId /\ at' = 1 /\ at = 0
        /\ SensorId \notin report /\ count' = count /\ delta_x' = delta_x /\ xDelta' = xDelta
        /\ mot' = mot /\ masked' = masked /\ travelled' = travelled /\ faults' = faults
        /\ spoilt' = spoilt /\ repeated' = repeated
    BY <1>2 DEF SensorCalled, CallFiller, pinVars, totalVars, burstVars, IInv, Round
  <2> QED BY <1>1, <2>1 DEF Kept, Accounts, Local, CursorTypeOK, ShellMovesKept, SensorMotionKept,
             SensorMotionOnce, ShellMovesOnceUnlessPreempted, InFlight, FilledBySource, LoadedMove
<1>3. CASE Fetch
  <2>1. /\ at = 1 /\ at' = 2 /\ report' = report /\ xDelta' = xDelta /\ source' = source
        /\ mot' \in {0, 1} /\ armed' = armed /\ masked' \in BOOLEAN
    BY <1>3 DEF Fetch, FetchMotion, FetchPoor, FetchFails, BurstRead, SetPin, collectorVars,
       CursorTypeOK
  <2>2. /\ travelled' = travelled /\ count' \in {count, 0} /\ faults' \in {faults, faults + 1}
        /\ \/ delta_x' = count /\ count' = 0 /\ spoilt' = spoilt /\ repeated' = repeated
           \/ /\ delta_x' \in {delta_x, 0} /\ repeated' = repeated + delta_x'
              /\ spoilt' = spoilt + (count - count')
    BY <1>3 DEF Fetch, FetchMotion, FetchPoor, FetchFails, BurstRead, totalVars, burstVars
  <2>3. CursorTypeOK'
    <3>1. {count', delta_x', faults', spoilt', repeated'} \subseteq Nat
      BY <2>2
    <3> QED BY <1>1, <2>1, <2>2, <3>1 DEF CursorTypeOK
  <2>4. Accounts'
    BY <1>1, <2>1, <2>2 DEF Accounts, ShellMovesKept, SensorMotionKept, SensorMotionOnce,
                            ShellMovesOnceUnlessPreempted, InFlight
  <2> QED BY <1>1, <2>1, <2>3, <2>4 DEF Kept, Local, FilledBySource, LoadedMove
<1>4. CASE FillDelta
  <2>1. /\ at = 2 /\ at' = 3 /\ report' = report /\ source' = source /\ mot' = mot /\ masked' = masked
        /\ xDelta' = [sensor |-> delta_x, shell |-> 0]
        /\ count' = count /\ delta_x' = delta_x /\ travelled' = travelled /\ faults' = faults
        /\ spoilt' = spoilt /\ repeated' = repeated
    BY <1>4 DEF FillDelta, collectorVars, pinVars, totalVars, burstVars
  <2>2. SensorId \notin report /\ ShellId \notin report
    BY <2>1 DEF Ordered
  <2>3. xDelta.sensor = 0 /\ xDelta.shell = 0
    BY <2>1, <2>2 DEF Local, FilledBySource
  <2>4. xDelta' \in [sensor : Nat, shell : Nat] /\ xDelta'.sensor = delta_x /\ xDelta'.shell = 0
    BY <2>1
  <2>5. CursorTypeOK'
    BY <1>1, <2>1, <2>4 DEF CursorTypeOK
  <2>6. Accounts'
    BY <1>1, <2>1, <2>3, <2>4 DEF Accounts, ShellMovesKept, SensorMotionKept, SensorMotionOnce,
                            ShellMovesOnceUnlessPreempted, InFlight
  <2> QED BY <1>1, <2>1, <2>4, <2>5, <2>6 DEF Kept, Local, FilledBySource, LoadedMove
<1>5. CASE CheckPin
  <2>1. /\ at = 3 /\ at' = 4 /\ report' = report /\ source' = source /\ mot' = mot /\ masked' = masked
        /\ xDelta' = xDelta
        /\ count' = count /\ delta_x' = delta_x /\ travelled' = travelled /\ faults' = faults
        /\ spoilt' = spoilt /\ repeated' = repeated
    BY <1>5 DEF CheckPin, Notify, collectorVars, pinVars, totalVars, burstVars
  <2> QED BY <1>1, <2>1 DEF Kept, Accounts, Local, CursorTypeOK, ShellMovesKept, SensorMotionKept,
             SensorMotionOnce, ShellMovesOnceUnlessPreempted, InFlight, FilledBySource, LoadedMove
<1>6. CASE SensorReturns
  <2>1. /\ at = 4 /\ at' = 0 /\ report' = report \cup {SensorId} /\ source' = NoSource
        /\ mot' = mot /\ masked' = masked /\ xDelta' = xDelta
        /\ count' = count /\ delta_x' = delta_x /\ travelled' = travelled /\ faults' = faults
        /\ spoilt' = spoilt /\ repeated' = repeated
    BY <1>6 DEF SensorReturns, FillerReturns, pinVars, totalVars, burstVars
  <2> QED BY <1>1, <2>1 DEF Kept, Accounts, Local, CursorTypeOK, ShellMovesKept, SensorMotionKept,
             SensorMotionOnce, ShellMovesOnceUnlessPreempted, InFlight, FilledBySource, LoadedMove
<1> QED BY <1>2, <1>3, <1>4, <1>5, <1>6

\* the command, between whose load and store the filler may take what is pending,
LEMMA MoveKeeps == ASSUME CInv, MoveCommand(1) \/ MoveStore \/ MoveNotify PROVE Kept'
<1> USE IdFacts, Numbers DEF CInv, Announced
<1>1. /\ count' = count /\ delta_x' = delta_x /\ at' = at /\ mot' = mot /\ armed' = armed
      /\ masked' = masked
      /\ xDelta' = xDelta /\ travelled' = travelled /\ handed' = handed /\ faults' = faults
      /\ spoilt' = spoilt /\ repeated' = repeated
      /\ preempted' = preempted /\ source' = source /\ report' = report
      /\ pc' = "asleep" <=> pc = "asleep"
  BY DEF MoveCommand, MoveStore, MoveNotify, Notify, Post, collectorVars, sensorVars, pinVars,
     totalVars, burstVars
<1>2. CASE MoveCommand(1)
  <2>1. /\ mover' = [at |-> "store", x |-> 1, word |-> pending] /\ mover.at = "idle"
        /\ commanded' = commanded + 1 /\ pending' = pending
    BY <1>2 DEF MoveCommand
  <2> QED BY <1>1, <2>1 DEF Kept, Accounts, Local, CursorTypeOK, ShellMovesKept, SensorMotionKept,
             SensorMotionOnce, ShellMovesOnceUnlessPreempted, InFlight, FilledBySource, LoadedMove
<1>3. CASE MoveStore
  <2>1. /\ pending' = mover.word + mover.x /\ mover.at = "store" /\ commanded' = commanded
        /\ mover' = [at |-> "notify", x |-> mover.x, word |-> 0]
    BY <1>3 DEF MoveStore, totalVars, burstVars, CursorTypeOK
  <2>2. CursorTypeOK'
    BY <1>1, <2>1 DEF CursorTypeOK
  <2>3. Accounts'
    BY <1>1, <2>1 DEF Accounts, Local, LoadedMove, ShellMovesKept, SensorMotionKept,
             SensorMotionOnce, ShellMovesOnceUnlessPreempted, InFlight
  <2> QED BY <1>1, <2>1, <2>2, <2>3 DEF Kept, Local, FilledBySource, LoadedMove
<1>4. CASE MoveNotify
  <2>1. mover' = NoMove /\ mover.at = "notify" /\ commanded' = commanded /\ pending' = pending
    BY <1>4 DEF MoveNotify, totalVars, burstVars
  <2> QED BY <1>1, <2>1 DEF Kept, Accounts, Local, CursorTypeOK, ShellMovesKept, SensorMotionKept,
             SensorMotionOnce, ShellMovesOnceUnlessPreempted, InFlight, FilledBySource,
             LoadedMove, NoMove
<1> QED BY <1>2, <1>3, <1>4

\* the shell's filler, which adds,
LEMMA ShellKeepsAll == ASSUME CInv, ShellFills PROVE Kept'
<1> USE IdFacts, Numbers, AtServes DEF CInv, Announced
<1>1. /\ count' = count /\ delta_x' = delta_x /\ at' = at /\ mot' = mot /\ armed' = armed
      /\ masked' = masked
      /\ travelled' = travelled /\ handed' = handed /\ faults' = faults
      /\ spoilt' = spoilt /\ repeated' = repeated /\ commanded' = commanded
      /\ mover' = mover /\ pending' = 0 /\ at = 0
      /\ preempted' = (preempted \/ (mover.at = "store" /\ mover.word # 0))
      /\ source' = NoSource /\ report' = report \cup {ShellId} /\ pc = "filler" /\ pc' = "fill"
  BY DEF ShellFills, FillerReturns, sensorVars, pinVars, totalVars, burstVars
<1>2. /\ xDelta' \in [sensor : Nat, shell : Nat]
      /\ xDelta'.sensor = xDelta.sensor /\ xDelta'.shell = xDelta.shell + pending
  BY FillAdds DEF ShellFills
<1>3. CursorTypeOK'
  BY <1>1, <1>2 DEF CursorTypeOK
<1>4. ~preempted' => ~preempted /\ (mover.at = "store" => mover.word = 0 /\ pending = 0)
  <2>1. preempted \/ (mover.at = "store" /\ mover.word # 0) => preempted'
    BY <1>1, Zenon
  <2> QED BY <2>1 DEF Local, LoadedMove
<1>5. ShellMovesKept' /\ ShellMovesOnceUnlessPreempted'
  <2>1. ShellMovesKept'
    BY <1>1, <1>2 DEF Accounts, ShellMovesKept
  <2>2. SUFFICES ASSUME ~preempted' PROVE ShellMovesOnceUnlessPreempted'
    BY <2>1 DEF ShellMovesOnceUnlessPreempted
  <2> QED BY <1>1, <1>2, <1>4, <2>2 DEF Accounts, ShellMovesOnceUnlessPreempted
<1>6. SensorMotionKept' /\ SensorMotionOnce'
  BY <1>1, <1>2 DEF Accounts, SensorMotionKept, SensorMotionOnce, InFlight
<1>7. LoadedMove'
  <2>1. mover.at = "store" => mover.word >= 0 /\ (preempted' \/ mover.word = 0)
    BY <1>4
  <2> QED BY <1>1, <2>1 DEF LoadedMove
<1> QED BY <1>1, <1>2, <1>3, <1>5, <1>6, <1>7 DEF Kept, Accounts, Local, FilledBySource

\* the sink, which is handed the deltas once,
LEMMA SinkKeeps == ASSUME CInv, CursorDropped \/ CursorSent \/ CursorCleared PROVE Kept'
<1> USE IdFacts, Numbers, AtServes DEF CInv, Announced
<1>1. /\ count' = count /\ delta_x' = delta_x /\ at' = at /\ mot' = mot /\ armed' = armed
      /\ masked' = masked
      /\ travelled' = travelled /\ faults' = faults
      /\ spoilt' = spoilt /\ repeated' = repeated /\ commanded' = commanded
      /\ mover' = mover /\ pending' = pending /\ preempted' = preempted /\ source' = source
      /\ at = 0
  BY DEF CursorDropped, CursorSent, CursorCleared, SinkDrops, SinkSends, SinkReturns, sensorVars,
     pinVars,
         shellVars, totalVars, burstVars
<1>2. NoDelta \in [sensor : Nat, shell : Nat] /\ NoDelta.sensor = 0 /\ NoDelta.shell = 0
  BY DEF NoDelta
<1>3. CASE CursorDropped \/ CursorSent
  <2>1. /\ handed' \in [sensor : Nat, shell : Nat]
        /\ handed'.sensor = handed.sensor + xDelta.sensor
        /\ handed'.shell = handed.shell + xDelta.shell
    BY <1>3, HandOverAdds DEF CursorDropped, CursorSent
  <2>2. /\ pc = "fill"
        /\ \/ pc' = "wait" /\ xDelta' = NoDelta
           \/ pc' = "asleep" /\ xDelta' = xDelta /\ report' = report
    BY <1>3 DEF CursorDropped, CursorSent, SinkDrops, SinkSends
  <2>3. CursorTypeOK'
    BY <1>1, <1>2, <2>1, <2>2 DEF CursorTypeOK
  <2>4. Accounts'
    BY <1>1, <1>2, <2>1, <2>2 DEF Accounts, ShellMovesKept, SensorMotionKept,
             SensorMotionOnce, ShellMovesOnceUnlessPreempted, InFlight
  <2> QED BY <1>1, <1>2, <2>2, <2>3, <2>4 DEF Kept, Local, FilledBySource, LoadedMove
<1>4. CASE CursorCleared
  <2>1. pc = "asleep" /\ pc' = "wait" /\ xDelta' = NoDelta /\ handed' = handed
    BY <1>4 DEF CursorCleared, SinkReturns, totalVars, burstVars
  <2>2. Accounts'
    BY <1>1, <1>2, <2>1 DEF Accounts, ShellMovesKept, SensorMotionKept,
             SensorMotionOnce, ShellMovesOnceUnlessPreempted, InFlight
  <2> QED BY <1>1, <1>2, <2>1, <2>2 DEF Kept, Local, CursorTypeOK, FilledBySource, LoadedMove
<1> QED BY <1>3, <1>4

\* and all that goes on beside.
LEMMA OthersKeep ==
    ASSUME CInv, ShellCalled \/ CursorOtherSteps \/ EnableCommand \/ UNCHANGED cursorVars
    PROVE  Kept'
<1> USE IdFacts, Numbers, AtServes DEF CInv, Announced
<1>1. /\ count' = count /\ delta_x' = delta_x /\ at' = at /\ mot' = mot /\ armed' = armed
      /\ masked' = masked
      /\ travelled' = travelled /\ handed' = handed /\ faults' = faults
      /\ spoilt' = spoilt /\ repeated' = repeated /\ commanded' = commanded
      /\ mover' = mover /\ pending' = pending /\ preempted' = preempted /\ xDelta' = xDelta
  BY DEF ShellCalled, CursorOtherSteps, EnableCommand, cursorVars, sensorVars, pinVars,
     shellVars, totalVars, burstVars
<1>2. /\ pc' = "asleep" <=> pc = "asleep"
      /\ source' = SensorId <=> source = SensorId
      /\ SensorId \in report => SensorId \in report'
      /\ ShellId \in report => ShellId \in report'
  <2>1. CASE ShellCalled
    BY <2>1 DEF ShellCalled, CallFiller, IInv, Serving
  <2>2. CASE CursorOtherSteps
    BY <2>2 DEF CursorOtherSteps, CallFiller, FillerReturns, Start, Wait, Restart, TakeEvents,
       IInv, Serving
  <2>3. CASE EnableCommand
    BY <2>3 DEF EnableCommand, Shell, SetEnabled, StoreEnabled, PostChanged, Post, threadVars
  <2>4. CASE UNCHANGED cursorVars
    BY <2>4 DEF cursorVars, collectorVars
  <2> QED BY <2>1, <2>2, <2>3, <2>4
<1> QED BY <1>1, <1>2 DEF Kept, Accounts, Local, CursorTypeOK, ShellMovesKept, SensorMotionKept,
           SensorMotionOnce, ShellMovesOnceUnlessPreempted, InFlight, FilledBySource, LoadedMove
-------------------------------------------------------------------------------
LEMMA CursorInitially == CursorInit => CInv
<1> SUFFICES ASSUME CursorInit PROVE CInv
  OBVIOUS
<1> USE DEF CursorInit
<1>1. IInv /\ Ordered
  BY BitFacts, SourcesAssumption
  DEF Init, IInv, TypeOK, Serving, Round, Sleeping, LoadedWord, Settled, NoLostNotification, NoCall,
      Existing, Registered, Ids, Bits, NoSource, Ordered
<1>2. /\ count \in Nat /\ travelled = count /\ mot \in {0, 1} /\ armed = 1 /\ at = 0 /\ delta_x = 0
      /\ pending = 0 /\ mover = [at |-> "idle", x |-> 0, word |-> 0] /\ commanded = 0 /\ faults = 0
      /\ spoilt = 0 /\ repeated = 0
      /\ xDelta = [sensor |-> 0, shell |-> 0] /\ handed = [sensor |-> 0, shell |-> 0]
      /\ mot = 0 => mot # armed
      /\ pc = "start" /\ source = NoSource
  BY DEF NoDelta, NoMove, Init
<1>3. preempted = FALSE /\ masked = FALSE
  OBVIOUS
<1>4. CursorTypeOK
  <2>1. {count, delta_x, pending, travelled, commanded, faults, spoilt, repeated} \subseteq Nat
    BY <1>2
  <2>2. /\ mover \in [at : {"idle", "store", "notify"}, x : Nat, word : Nat]
        /\ xDelta \in [sensor : Nat, shell : Nat] /\ handed \in [sensor : Nat, shell : Nat]
    BY <1>2
  <2>3. /\ mot \in {0, 1} /\ armed \in {0, 1} /\ at \in 0..4
        /\ at # 0 <=> source = SensorId
    BY <1>2, IdFacts
  <2>4. preempted \in BOOLEAN /\ masked \in BOOLEAN
    BY <1>3
  <2> QED BY <2>1, <2>2, <2>3, <2>4 DEF CursorTypeOK
<1>5. Accounts /\ Local /\ MotionAnnounced
  BY <1>2 DEF Accounts, ShellMovesKept, SensorMotionKept, SensorMotionOnce, InFlight,
              ShellMovesOnceUnlessPreempted, Local, FilledBySource, LoadedMove, MotionAnnounced
<1> QED BY <1>1, <1>4, <1>5 DEF CInv, Announced

LEMMA CursorInvariance == CursorSpec => []CInv
<1>1. CInv /\ [CursorNext]_cursorVars => CInv'
  <2> SUFFICES ASSUME CInv, [CursorNext]_cursorVars PROVE CInv'
    OBVIOUS
  <2>1. IInv' /\ Ordered'
    BY StepRefines, InvStep, OrderedStep DEF CInv
  <2>2. Kept'
    BY ChipKeeps, SensorKeeps, MoveKeeps, ShellKeepsAll, SinkKeeps, OthersKeep
    DEF CursorNext, CursorThread, MoveEnds
  <2> QED BY <2>1, <2>2, AnnouncedStep DEF CInv, Kept, Announced
<1> QED BY <1>1, CursorInitially, PTL DEF CursorSpec

\* No motion is lost on its way from the chip or the command line to the sink, but in
\* a burst read in vain (adns7530.c:139-150), and what waits has a call of a filler to
\* come unless MOT's edge was masked (opt_sensor.c:20-44, shell/hid.c:36-85).
THEOREM NoMotionLost == CursorSpec => []MotionKept
<1>1. CInv => MotionKept
  BY DEF CInv, Announced, Accounts, MotionKept
<1> QED BY <1>1, CursorInvariance, PTL

\* None is handed over twice, but the driver's last delta once for each burst that
\* fails (opt_sensor.c:24), or when the filler came between the load and the store of
\* a move (shell/hid.c:82).
THEOREM MotionHandedOnce == CursorSpec => []MotionOnce
<1>1. CInv => MotionOnce
  BY DEF CInv, Accounts, MotionOnce
<1> QED BY <1>1, CursorInvariance, PTL
-------------------------------------------------------------------------------
\* The clicks in the report are those of a filler that has run in this round.
FilledByEncoder == wheelDelta # 0 => EncoderId \in report

EInv == IInv /\ EncoderTypeOK /\ ClicksAnnounced /\ ClicksConserved /\ FilledByEncoder

LEMMA EncoderIdFacts == /\ EncoderId \in Registered /\ EncoderId \in Ids /\ EncoderId \in Bits
                 /\ EncoderId # Changed /\ EncoderId # NoSource
  BY EncoderAssumption, BitFacts DEF Existing, Bits

\* Every step of the wheel, the filler and the sink is one of the collector's.
LEMMA EncoderStepRefines == [EncoderNext]_encoderVars => [Next]_collectorVars
<1> SUFFICES ASSUME [EncoderNext]_encoderVars PROVE [Next]_collectorVars
  OBVIOUS
<1>1. ASSUME NEW value \in Steps, QdecInterrupt(value) PROVE [Next]_collectorVars
  BY <1>1, EncoderIdFacts DEF QdecInterrupt, Next
<1>2. CASE EncoderFills \/ EncoderDropped \/ EncoderSent \/ EncoderCleared
  BY <1>2 DEF EncoderFills, EncoderDropped, EncoderSent, EncoderCleared, Next, Thread
<1>3. CASE EncoderOtherSteps
  BY <1>3 DEF EncoderOtherSteps, Next, Thread
<1>4. CASE UNCHANGED encoderVars
  BY <1>4 DEF encoderVars
<1> QED BY <1>1, <1>2, <1>3, <1>4 DEF EncoderNext
-------------------------------------------------------------------------------
\* C's division: two steps to a click, and half a click of the same sign left.
LEMMA Halves == \A n \in Int : /\ CDiv2(n) \in Int /\ CMod2(n) \in -1..1
                               /\ n = 2 * CDiv2(n) + CMod2(n)
<1> SUFFICES ASSUME NEW n \in Int
             PROVE  CDiv2(n) \in Int /\ CMod2(n) \in -1..1 /\ n = 2 * CDiv2(n) + CMod2(n)
  OBVIOUS
<1>1. CASE n >= 0
  <2>1. n \div 2 \in Int /\ n - 2 * (n \div 2) \in 0..1
    OBVIOUS
  <2> QED BY <1>1, <2>1 DEF CDiv2, CMod2
<1>2. CASE ~ n >= 0
  <2>1. (-n) \div 2 \in Int /\ (-n) - 2 * ((-n) \div 2) \in 0..1
    OBVIOUS
  <2> QED BY <1>2, <2>1 DEF CDiv2, CMod2
<1> QED BY <1>1, <1>2

\* The interrupt notifies, or moves no clicks into delta and leaves the thread alone.
LEMMA InterruptKeeps ==
    ASSUME EInv, NEW value \in Steps, QdecInterrupt(value)
    PROVE  EncoderTypeOK' /\ ClicksAnnounced' /\ ClicksConserved' /\ FilledByEncoder'
<1> USE EncoderIdFacts DEF EInv
<1>1. acc \in -1..1 /\ value \in Int /\ acc + value \in Int
  BY EncoderAssumption DEF EncoderTypeOK
<1>2. /\ CDiv2(acc + value) \in Int /\ CMod2(acc + value) \in -1..1
      /\ acc + value = 2 * CDiv2(acc + value) + CMod2(acc + value)
  BY <1>1, Halves
<1> DEFINE c == CDiv2(acc + value)
           h == CMod2(acc + value)
<1>3. /\ delta' = c /\ acc' = h /\ turned' = turned + value /\ overwritten' = overwritten + delta
      /\ reports < MaxReports /\ reports' = reports + 1
      /\ wheelDelta' = wheelDelta /\ clicksHanded' = clicksHanded
      /\ report' = report /\ (pc = "asleep" <=> pc' = "asleep")
      /\ delta' # 0 => EncoderId \in event'
  BY DEF QdecInterrupt, Notify, Post, collectorVars
<1> HIDE DEF c, h
<1>4. EncoderTypeOK'
  BY <1>1, <1>2, <1>3, EncoderAssumption DEF EncoderTypeOK, c, h
<1>5. ClicksConserved'
  <2>1. {delta, wheelDelta, turned, clicksHanded, overwritten} \subseteq Int
    BY DEF EncoderTypeOK
  <2>2. CASE pc = "asleep"
    BY <1>1, <1>2, <1>3, <2>1, <2>2 DEF ClicksConserved, c, h
  <2>3. CASE pc # "asleep"
    BY <1>1, <1>2, <1>3, <2>1, <2>3 DEF ClicksConserved, c, h
  <2> QED BY <2>2, <2>3
<1>6. FilledByEncoder' /\ ClicksAnnounced'
  BY <1>3 DEF FilledByEncoder, ClicksAnnounced
<1> QED BY <1>4, <1>5, <1>6

\* The other steps leave the wheel's variables alone.
LEMMA EncoderOthersKeep ==
    ASSUME EInv, EncoderOtherSteps
    PROVE  EncoderTypeOK' /\ ClicksAnnounced' /\ ClicksConserved' /\ FilledByEncoder'
<1> USE EncoderIdFacts DEF EInv
<1>1. /\ acc' = acc /\ delta' = delta /\ wheelDelta' = wheelDelta /\ reports' = reports
      /\ turned' = turned /\ clicksHanded' = clicksHanded /\ overwritten' = overwritten
  BY DEF EncoderOtherSteps
<1>2. /\ EncoderId \in report => EncoderId \in report'
      /\ pc = "asleep" <=> pc' = "asleep"
  BY DEF EncoderOtherSteps, CallFiller, FillerReturns, Start, Wait, Restart, TakeEvents, Notify,
     Post,
         Shell, SetEnabled, StoreEnabled, PostChanged, threadVars
<1>3. ClicksAnnounced'
  BY <1>1 DEF ClicksAnnounced, IInv, Serving, EncoderOtherSteps, CallFiller, FillerReturns,
     Start, Wait,
              Restart, TakeEvents, Notify, Post, Shell, SetEnabled, StoreEnabled, PostChanged,
              threadVars, sharedVars
<1> QED BY <1>1, <1>2, <1>3 DEF EncoderTypeOK, ClicksConserved, FilledByEncoder

LEMMA FillerKeeps ==
    ASSUME EInv, EncoderFills
    PROVE  EncoderTypeOK' /\ ClicksAnnounced' /\ ClicksConserved' /\ FilledByEncoder'
<1> USE EncoderIdFacts DEF EInv
<1>1. /\ wheelDelta' = delta /\ delta' = 0 /\ report' = report \cup {EncoderId}
      /\ pc = "filler" /\ pc' = "fill" /\ acc' = acc /\ reports' = reports
      /\ turned' = turned /\ clicksHanded' = clicksHanded /\ overwritten' = overwritten
  BY DEF EncoderFills, FillerReturns
<1>2. wheelDelta = 0
  BY <1>1 DEF EncoderFills, FilledByEncoder, IInv, Round
<1> QED BY <1>1, <1>2 DEF EncoderTypeOK, ClicksConserved, FilledByEncoder, ClicksAnnounced

LEMMA EncoderSinkKeeps ==
    ASSUME EInv, EncoderDropped \/ EncoderSent \/ EncoderCleared
    PROVE  EncoderTypeOK' /\ ClicksAnnounced' /\ ClicksConserved' /\ FilledByEncoder'
<1> USE EncoderIdFacts DEF EInv
<1>1. /\ acc' = acc /\ delta' = delta /\ reports' = reports /\ turned' = turned
      /\ overwritten' = overwritten /\ event' = event
  BY DEF EncoderDropped, EncoderSent, EncoderCleared, SinkDrops, SinkSends, SinkReturns
<1>2. CASE EncoderDropped
  <2>1. pc = "fill" /\ pc' = "wait" /\ clicksHanded' = clicksHanded + wheelDelta /\ wheelDelta' = 0
    BY <1>2 DEF EncoderDropped, SinkDrops
  <2> QED BY <1>1, <1>2, <2>1 DEF EncoderTypeOK, ClicksConserved, FilledByEncoder, ClicksAnnounced,
                               EncoderDropped, SinkDrops, IInv, Serving
<1>3. CASE EncoderSent
  <2>1. /\ pc = "fill" /\ pc' = "asleep" /\ clicksHanded' = clicksHanded + wheelDelta
        /\ wheelDelta' = wheelDelta /\ report' = report
    BY <1>3 DEF EncoderSent, SinkSends
  <2> QED BY <1>1, <1>3, <2>1 DEF EncoderTypeOK, ClicksConserved, FilledByEncoder, ClicksAnnounced,
                               EncoderSent, SinkSends, IInv, Serving
<1>4. CASE EncoderCleared
  <2>1. pc = "asleep" /\ pc' = "wait" /\ clicksHanded' = clicksHanded /\ wheelDelta' = 0
    BY <1>4 DEF EncoderCleared, SinkReturns
  <2> QED BY <1>1, <1>4, <2>1 DEF EncoderTypeOK, ClicksConserved, FilledByEncoder, ClicksAnnounced,
                               EncoderCleared, SinkReturns, IInv, Serving
<1> QED BY <1>2, <1>3, <1>4
-------------------------------------------------------------------------------
LEMMA EncoderInvariance == EncoderSpec => []EInv
<1>1. EncoderInit => EInv
  BY BitFacts, SourcesAssumption, EncoderAssumption
  DEF EncoderInit, Init, EInv, EncoderTypeOK, ClicksAnnounced, ClicksConserved, FilledByEncoder,
      IInv, TypeOK, Serving, Round, Sleeping, LoadedWord, Settled, NoLostNotification, NoCall,
      Existing, Registered, Ids, Bits, NoSource
<1>2. EInv /\ [EncoderNext]_encoderVars => EInv'
  <2> SUFFICES ASSUME EInv, [EncoderNext]_encoderVars PROVE EInv'
    OBVIOUS
  <2>1. IInv'
    BY EncoderStepRefines, InvStep DEF EInv
  <2>2. CASE UNCHANGED encoderVars
    BY <2>1, <2>2 DEF EInv, encoderVars, collectorVars, EncoderTypeOK, ClicksAnnounced,
                      ClicksConserved, FilledByEncoder
  <2> QED BY <2>1, <2>2, InterruptKeeps, EncoderOthersKeep, FillerKeeps,
             EncoderSinkKeeps DEF EInv, EncoderNext
<1> QED BY <1>1, <1>2, PTL DEF EncoderSpec

\* Every step of the wheel comes to the sink as half a click, once, unless an
\* interrupt has overwritten the click (encoder.c:20-27), and clicks that wait have a
\* call of the filler to come.
THEOREM ClicksAccountedFor == EncoderSpec => []ClicksKept
<1>1. EInv => ClicksKept
  BY DEF EInv, ClicksKept
<1> QED BY <1>1, EncoderInvariance, PTL
================================================================================

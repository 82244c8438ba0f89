---------------------------- MODULE CursorSources ----------------------------
(***************************************************************************)
(* The two sources that move the cursor, composed with the collector:        *)
(* services/hid/source/opt_sensor.c with the driver's sample_fetch, and the  *)
(* shell's "hid report move" (shell/hid.c).  The sensor is an external chip:  *)
(* it accumulates motion and holds its active-low MOT pin down until the     *)
(* motion is read.  One axis stands for both; a delta is a count of unit     *)
(* moves, kept apart by origin so that the sum can be accounted for.         *)
(***************************************************************************)
EXTENDS Collector, FiniteSets

CONSTANTS Built,       \* the sources that are compiled in
          MaxMotion,   \* bound: unit moves of the mouse and of the shell
          MaxFaults    \* bound: bursts that fail or come back invalid

\* HID_SOURCE_REGISTER pastes the name of a source's priority option into that of
\* its variable, unexpanded, and the linker sorts by these names.  The option of
\* the sensor lacks the prefix CONFIG_ that all others have, ...
Prefix(s) == IF s = "OPT_SENSOR" THEN 1 ELSE 2   \* APP_..., CONFIG_APP_...

\* ... and what follows is told apart by these words, in alphabetical order.
Word(s) == CASE s = "BUTTONS" -> 1 [] s = "ENCODER" -> 2
             [] s = "OPT_SENSOR" -> 3 [] s = "SHELL" -> 4

Before(r, s) == Prefix(r) < Prefix(s) \/ (Prefix(r) = Prefix(s) /\ Word(r) < Word(s))

\* The index in the list that the linker makes.
hid_source_id(s) == Cardinality({r \in Built : Before(r, s)})
SensorId == hid_source_id("OPT_SENSOR")
ShellId  == hid_source_id("SHELL")

ASSUME CursorAssumption ==
    /\ {"OPT_SENSOR", "SHELL"} \subseteq Built
    /\ Built \subseteq {"BUTTONS", "ENCODER", "OPT_SENSOR", "SHELL"}
    /\ NumSources = Cardinality(Built) /\ NumSources <= MaxSources
    /\ {MaxMotion, MaxFaults} \subseteq Nat

VARIABLES count,      \* motion in the chip, not yet read
          mot,        \* level of the MOT pin, 0 is active
          armed,      \* level from which gpio senses a change of the pin
          masked,     \* MOT has changed while another pin held DETECT, and was not served since
          at,         \* the sensor filler's next step, 0 when it does not run
          delta_x,    \* the driver's data->delta_x
          pending,    \* pending_report.x_delta of the shell
          mover,      \* the shell in cmd_report_move
          xDelta,     \* report->x_delta
          travelled, commanded, handed, faults, \* history: totals
          spoilt,     \* history: motion in bursts that were read in vain
          repeated,   \* history: deltas left by an earlier burst, reported for a failing one
          preempted   \* history: a filler took pending between its load and its store

pinVars    == <<mot, armed, masked>>
sensorVars == <<count, pinVars, at, delta_x>>
shellVars  == <<pending, mover, preempted>>
burstVars  == <<faults, spoilt, repeated>>
totalVars  == <<travelled, commanded, handed, burstVars>>
cursorVars == <<collectorVars, sensorVars, shellVars, xDelta, totalVars>>

NoMove == [at |-> "idle", x |-> 0, word |-> 0]
NoDelta == [sensor |-> 0, shell |-> 0]

\* hid_src_opt_sensor_init is about to call the pin's callback with the level it
\* reads: a pin that is already low is announced (PinInterrupt), and the next
\* change is sensed.
CursorInit ==
    /\ Init
    /\ mot \in {0, 1} /\ armed = 1 /\ masked = FALSE
    /\ count = (IF mot = 0 THEN 1 ELSE 0) /\ travelled = count
    /\ at = 0 /\ delta_x = 0
    /\ pending = 0 /\ mover = NoMove /\ preempted = FALSE
    /\ xDelta = NoDelta
    /\ commanded = 0 /\ handed = NoDelta /\ faults = 0 /\ spoilt = 0 /\ repeated = 0
-------------------------------------------------------------------------------
\* The level of MOT from now on.  The change that is sensed raises the interrupt
\* unless another pin holds DETECT at that moment (gpio.h:13-15); when the rise
\* is masked, the next fall is no change from the level that is sensed.
SetPin(v) == /\ mot' = v
             /\ masked' \in BOOLEAN
             /\ v = mot => masked' = masked
             /\ v # mot /\ v = armed => masked' = (v = 0)
             /\ UNCHANGED armed

\* The mouse moves: the chip counts, ...
Move == /\ travelled + commanded < MaxMotion
        /\ count' = count + 1 /\ travelled' = travelled + 1
        /\ UNCHANGED <<collectorVars, pinVars, at, delta_x, shellVars, xDelta, commanded, handed,
                       burstVars>>

\* ... and pulls its pin when it has motion.  Timing assumption: it leaves the pin
\* released for longer than the latency of the pin's interrupt (a frame of the
\* chip against microseconds), so the release, if not masked, was seen before.
Pull == /\ count > 0 /\ mot = 1 /\ (armed = 1 \/ masked)
        /\ SetPin(0)
        /\ UNCHANGED <<collectorVars, count, at, delta_x, shellVars, xDelta, totalVars>>

\* The pin differs from the sensed level: the GPIO interrupt calls
\* hid_src_opt_sensor_gpio_cb with the level it read, which arms the next change.
\* For a masked change this is the interrupt of some other pin.
PinInterrupt ==
    /\ mot # armed
    /\ IF mot = 0 THEN Notify(SensorId) ELSE UNCHANGED collectorVars
    /\ armed' = mot /\ masked' = FALSE
    /\ UNCHANGED <<count, mot, at, delta_x, shellVars, xDelta, totalVars>>

SensorCalled == CallFiller(SensorId) /\ at' = 1
                /\ UNCHANGED <<count, pinVars, delta_x, shellVars, xDelta, totalVars>>

\* Reading the chip releases the pin, which "sometimes however is still held low".
BurstRead == count' = 0 /\ \E v \in {mot, 1} : SetPin(v)

\* adns7530_sample_fetch over the SPI bus.  A valid burst yields the motion; ...
FetchMotion == /\ at = 1 /\ at' = 2
               /\ BurstRead
               /\ delta_x' = count
               /\ UNCHANGED <<collectorVars, shellVars, xDelta, totalVars>>

\* ... below the surface quality threshold it is discarded; ...
FetchPoor == /\ at = 1 /\ at' = 2
             /\ BurstRead
             /\ delta_x' = 0 /\ spoilt' = spoilt + count
             /\ UNCHANGED <<collectorVars, shellVars, xDelta, travelled, commanded, handed, faults,
                            repeated>>

\* ... and the results of the transfers are not looked at.  A laser fault, a timeout
\* or a transfer cut short, before or after the chip was read, leaves the driver's
\* data as they are (adns7530.c:141-144), or at 0 when only the quality, last in the
\* burst, is missing (a threshold of 0 is not modelled).
FetchFails == /\ at = 1 /\ at' = 2 /\ faults < MaxFaults
              /\ faults' = faults + 1
              /\ count' \in {count, 0} /\ \E v \in {mot, 1} : SetPin(v)
              /\ delta_x' \in {delta_x, 0}
              /\ spoilt' = spoilt + (count - count') /\ repeated' = repeated + delta_x'
              /\ UNCHANGED <<collectorVars, shellVars, xDelta, travelled, commanded, handed>>

\* The filler takes the driver's delta, whatever the fetch returned ...
FillDelta == /\ at = 2
             /\ xDelta' = [sensor |-> delta_x, shell |-> 0]
             /\ at' = 3
             /\ UNCHANGED <<collectorVars, count, pinVars, delta_x, shellVars, totalVars>>

\* Mutant: a pin that is still low is not looked at.
CheckNothing == /\ at = 3 /\ at' = 4
                /\ UNCHANGED <<collectorVars, count, pinVars, delta_x, shellVars, xDelta,
                               totalVars>>

\* ... and asks to be called again if the pin is still low.
CheckPin == /\ at = 3
            /\ IF mot = 0 THEN Notify(SensorId) ELSE UNCHANGED collectorVars
            /\ at' = 4
            /\ UNCHANGED <<count, pinVars, delta_x, shellVars, xDelta, totalVars>>

SensorReturns == /\ at = 4 /\ FillerReturns /\ at' = 0
                 /\ UNCHANGED <<count, pinVars, delta_x, shellVars, xDelta, totalVars>>
-------------------------------------------------------------------------------
\* cmd_report_move: load the pending delta, ...
MoveCommand(x) ==
    /\ Blocked /\ mover.at = "idle" /\ caller.at = "idle"
    /\ travelled + commanded + x <= MaxMotion
    /\ mover' = [at |-> "store", x |-> x, word |-> pending]
    /\ commanded' = commanded + x
    /\ UNCHANGED <<collectorVars, sensorVars, pending, preempted, xDelta, travelled, handed,
                   burstVars>>

\* ... store the sum, ...
MoveStore == /\ Blocked /\ mover.at = "store"
             /\ pending' = mover.word + mover.x
             /\ mover' = [mover EXCEPT !.at = "notify", !.word = 0]
             /\ UNCHANGED <<collectorVars, sensorVars, preempted, xDelta, totalVars>>

\* ... and announce it.
MoveNotify == /\ Blocked /\ mover.at = "notify"
              /\ Notify(ShellId)
              /\ mover' = NoMove
              /\ UNCHANGED <<sensorVars, pending, preempted, xDelta, totalVars>>

ShellCalled == CallFiller(ShellId)
               /\ UNCHANGED <<sensorVars, shellVars, xDelta, totalVars>>

\* Mutant: the pending move is not cleared.
ShellKeeps == /\ source = ShellId /\ FillerReturns
              /\ xDelta' = [xDelta EXCEPT !.shell = @ + pending]
              /\ preempted' = (preempted \/ (mover.at = "store" /\ mover.word # 0))
              /\ UNCHANGED <<sensorVars, pending, mover, totalVars>>

\* Mutant: the filler assigns, as that of the sensor does.
ShellAssigns == /\ source = ShellId /\ FillerReturns
                /\ xDelta' = [sensor |-> 0, shell |-> pending]
                /\ pending' = 0
                /\ UNCHANGED <<sensorVars, mover, preempted, totalVars>>

\* shell_report_filler adds to what is in the report.  It does not block, so no
\* other thread runs before it has returned.
ShellFills == /\ source = ShellId /\ FillerReturns
              /\ xDelta' = [xDelta EXCEPT !.shell = @ + pending]
              /\ pending' = 0
              /\ preempted' = (preempted \/ (mover.at = "store" /\ mover.word # 0))
              /\ UNCHANGED <<sensorVars, mover, totalVars>>
-------------------------------------------------------------------------------
\* The sink is given the deltas once; they are cleared when it returns.
HandOver == handed' = [o \in DOMAIN handed |-> handed[o] + xDelta[o]]

CursorDropped == /\ SinkDrops /\ HandOver /\ xDelta' = NoDelta
                 /\ UNCHANGED <<sensorVars, shellVars, travelled, commanded, burstVars>>

CursorSent    == /\ SinkSends /\ HandOver
                 /\ UNCHANGED <<sensorVars, shellVars, xDelta, travelled, commanded, burstVars>>

CursorCleared == /\ SinkReturns /\ xDelta' = NoDelta
                 /\ UNCHANGED <<sensorVars, shellVars, totalVars>>

CursorOtherSteps == /\ \/ \E s \in Bits \ {SensorId, ShellId} : CallFiller(s)
                       \/ FillerReturns /\ source \notin {SensorId, ShellId}
                       \/ Start \/ Wait \/ Restart \/ TakeEvents
                    /\ UNCHANGED <<sensorVars, shellVars, xDelta, totalVars>>

\* The shell runs one command at a time, and never while a filler runs, except
\* when the sensor's blocks on the SPI bus.
ShellIdle == mover.at = "idle"
ShellRuns == pc = "filler" => at = 1
EnableCommand == /\ ShellIdle /\ ShellRuns /\ Shell
                 /\ UNCHANGED <<sensorVars, shellVars, xDelta, totalVars>>
EnableEnds    == /\ ShellRuns /\ (StoreEnabled \/ PostChanged)
                 /\ UNCHANGED <<sensorVars, shellVars, xDelta, totalVars>>
MoveEnds      == ShellRuns /\ (MoveStore \/ MoveNotify)

Fetch       == FetchMotion \/ FetchPoor \/ FetchFails
CursorThread == \/ SensorCalled \/ Fetch \/ FillDelta \/ CheckPin \/ SensorReturns
               \/ ShellCalled \/ ShellFills
               \/ CursorDropped \/ CursorSent \/ CursorCleared
               \/ CursorOtherSteps

CursorNext == \/ Move \/ Pull \/ PinInterrupt
              \/ CursorThread
              \/ EnableCommand
              \/ ShellRuns /\ MoveCommand(1)
              \/ MoveEnds

CursorSpec == CursorInit /\ [][CursorNext]_cursorVars

\* Threads run and the chip announces its motion.  The interrupt comes for a change
\* of the pin that no other pin masks.
CursorFairSpec == /\ CursorSpec
                  /\ WF_cursorVars(CursorThread)
                  /\ WF_cursorVars(Pull) /\ WF_cursorVars(~ masked /\ PinInterrupt)
                  /\ WF_cursorVars(EnableEnds) /\ WF_cursorVars(MoveEnds)
-------------------------------------------------------------------------------
CursorTypeOK ==
    /\ {count, delta_x, pending, travelled, commanded, faults, spoilt, repeated} \subseteq Nat
    /\ mot \in {0, 1} /\ armed \in {0, 1} /\ masked \in BOOLEAN
    /\ at \in 0..4 /\ (at # 0 <=> source = SensorId)
    /\ mover \in [at : {"idle", "store", "notify"}, x : Nat, word : Nat]
    /\ xDelta \in [sensor : Nat, shell : Nat]
    /\ handed \in [sensor : Nat, shell : Nat] /\ preempted \in BOOLEAN

\* The chip holds its pin until it is read, and an edge of the pin is seen only
\* when it happens while armed: while the pin is low, a call of the filler is
\* announced, under way and yet to look at the pin, or the interrupt is due, unless
\* another pin has masked the edge (gpio.h:13-15).
MotionAnnounced ==
    mot = 0 => \/ mot # armed \/ masked
               \/ SensorId \in event
               \/ pc \in {"fill", "filler"} /\ SensorId \in events
               \/ at \in 1..3

\* No "hid report move" is lost: what was commanded is about to be stored,
\* pending, in the report or handed over.  The sensor assigns to the report what
\* the shell adds to, so this rests on the order of the sources (source.h:18-25).
ShellMovesKept ==
    commanded <= handed.shell + pending
                 + (IF mover.at = "store" THEN mover.x ELSE 0)
                 + (IF pc = "asleep" THEN 0 ELSE xDelta.shell)

\* The stages the sensor's motion passes through, one after the other.
InFlight == count + (IF at = 2 THEN delta_x ELSE 0)
                  + (IF pc = "asleep" THEN 0 ELSE xDelta.sensor)

\* Motion is not lost between the chip and the sink, but in a burst that was read in
\* vain: of poor quality, or in a call that failed (adns7530.c:139-150).
SensorMotionKept == travelled + repeated <= handed.sensor + InFlight + spoilt

\* Neither source loses motion on any way from the chip or the command line to
\* the sink: what is not there yet is under way, with a call of a filler to come.
MotionKept == CursorTypeOK /\ MotionAnnounced /\ ShellMovesKept /\ SensorMotionKept

\* No unit of motion is handed to the sink twice (hid_report_map.c:76-78: deltas
\* "cannot be read multiple times"), but that a failing burst reports the last
\* deltas of the driver once more (opt_sensor.c:24).
SensorMotionOnce == travelled + repeated >= handed.sensor + InFlight + spoilt

\* A "hid report move" moves the cursor by what it was given and no more
\* (shell/hid.c:89), unless a filler ran between the load and the store of a move
\* that was still pending (shell/hid.c:82), which brings it back.
ShellMovesOnceUnlessPreempted ==
    ~preempted => commanded = handed.shell + pending
                              + (IF mover.at = "store" THEN mover.x ELSE 0)
                              + (IF pc = "asleep" THEN 0 ELSE xDelta.shell)

\* Nothing is reported twice either, but for the two cases above, in which the
\* code does.
MotionOnce == SensorMotionOnce /\ ShellMovesOnceUnlessPreempted

\* Motion is eventually read while the source is enabled, unless another pin masks
\* a change of MOT: nothing then obliges the code ever to look at it again.
MotionRead == (count > 0 /\ SensorId \in enabled)
                  ~> (count = 0 \/ SensorId \notin enabled \/ masked)

==============================================================================

# mymouse in TLA+

A wireless mouse on an nRF52: buttons, wheel and optical sensor are *HID sources*
that announce data to a *collector* thread, which fills a report and hands it to
a *sink* (Bluetooth, or a stub). An AVR on the same SPI bus as the sensor makes it
a wired USB mouse. This directory keeps TLA+ modules of the firmware's core, the
TLC configurations that check them and the proofs TLAPS checks about them.
Paths are relative to the repository; `nrf/` stands for `src/app-nrf/src/`, `inc/`
for `src/app-nrf/include/`.

## Inventory

| Component | State | Operations | Hard part | Correct when |
|---|---|---|---|---|
| HID collector `nrf/services/hid/collector.c`, `inc/services/hid/collector.h` | a 32-bit `k_event`, the word of enabled sources, the report | notify (ISR or thread), enable/disable (shell), wait, clear, fill, sink | event bits cleared between two notifications, a mask read before sleeping | no notification lost, no sleep over work, a disable takes effect |
| Toggle queue `inc/util/toggle_queue.h` | two wrapping counters | init, len, put, get, get_or_last | wrap, sign of the length | a FIFO of alternating events |
| Buttons source `.../source/buttons.c` | a toggle queue per button | edge callback (ISR), filler | the ISR between any two steps of the filler | every press and release reaches a report |
| Optical sensor source `.../source/opt_sensor.c`, driver `nrf/drivers/adns7530.c` | the driver's last deltas, the sensed level of MOT | MOT edge (ISR), filler, sample_fetch | a pin low again during a transfer, failing transfers | motion is read, and reported once |
| Encoder source `.../source/encoder.c`, `nrf/platform/qdec.c` | accumulator, clicks | decoder interrupt, filler | two interrupts before one filler | clicks are conserved |
| Shell `nrf/shell/hid.c` | a pending report | enable, disable, report move, filler | preemption by the collector | a move is reported once |
| Sinks `.../sink/transport.c`, `stub.c` | - | send | unavailable transport | - |
| GPIO edges `nrf/platform/gpio.c` | enabled mask, sensed levels, SENSE registers | set, unset, interrupt handler | one DETECT signal for all pins; a timer handler of higher priority | an edge of an enabled pin raises its callback |
| Debounce `nrf/services/debounce.c` | circular array of requests, moves left, timer | set, unset, edge callback, timer callback | timer between the steps of the callback | a pin is locked out for N periods and then enabled again |
| SPI master `nrf/platform/spi.c` | mutex, semaphore, callback, last configuration, delayed work | lock, unlock, configure, transceive, managed transfer, interrupt, disable_sck | timeouts with late interrupts, the delayed work during a transfer | only the owner's transfer runs and its result is its own |
| AVR communication `nrf/services/avr_comm.c`; slave `src/app-avr/src/` | handshake buffer, remaining transfer; the slave's command state | presence detection, handshake, commands, CRC | the AVR disappears in any step | commands are answered or fail, a lost AVR is detected again |
| Bluetooth `nrf/transport/bt/` | current client, security level, queue of bonds | connected, disconnected, security changed, advertise | callbacks between available() and send() | advertising continues until somebody connects |
| Battery, ADC `nrf/services/battery.c`, `nrf/platform/adc.c` | result buffer, semaphore | trigger, interrupt, interpolate | late interrupt after a timeout | the level is that of the latest sample, 0..100 |
| Mode button, boot and shutdown `nrf/services/button_mode.c`, `nrf/platform/{boot_cond,shutdown}.c` | lifecycle state, one timer | edge callback, timer callback | timer and edge in any order | shutdown only after a hold and a release |
| AVR bootloader `src/app-avr/bootloader/`, host tool `src/hidcli/` | flash page, start flag; flash map | HID reports, page writes, mode switch | order of reports, reconnects | the bootloader stays, and what is flashed is what the file says |
| Log backend `src/modules/log_backend_my_fs/` | newest, oldest, file count | write, allocate, delete oldest, recovery | restart in any step, wrapping numbers | files are deleted oldest first, the limit holds |
| File system shell `src/modules/my_fs_shell/` | working directory, the handle of a write | cd, mkdir, rm, trunc, write | removes or writes what the log has open | the log takes records again after a restart |
| Other shell commands `nrf/shell/` | - | measure, shutdown, LED, clock, print | a measurement beside the periodic one | - |
| MouseConnect, device tree, build | | | | not modelled |

Interaction: GPIO and decoder interrupts call the sources' callbacks, these post
event bits; the collector calls the fillers, whose data they share with the
callbacks; the sensor's filler blocks on the SPI bus, which it shares with the AVR
thread; the sink calls the Bluetooth transport. The shell has the lowest thread
priority, the collector a high one, and interrupts come at any point.

## Modules

| Module | Models | Notes |
|---|---|---|
| `ToggleQueue` | toggle_queue.h as operators on the struct | `Modulus` is 2^32 |
| `ToggleFifo` | what the header promises: a FIFO of alternating events | abstract |
| `ToggleQueueSpec` | any sequence of calls | refines `ToggleFifo` |
| `Collector` | collector thread, notifications, shell | abstract fillers: the base of the source modules |
| `ButtonsSource` | buttons.c on `Collector` and `ToggleQueue` | refines `Collector` |
| `CursorSources` | opt_sensor.c, sample_fetch and `hid report move` on `Collector` | |
| `EncoderSource` | encoder.c, qdec.c on `Collector` | |
| `Gpio` | gpio.c and the chip's DETECT | extended by `Debounce` |
| `Debounce` | debounce.c on `Gpio` | |
| `Spi` | spi.c with the transactions of adns7530.c and avr_comm.c | |
| `AvrChip` | the AVR's application, bootloader and watchdog | extended by `AvrComm` |
| `AvrComm` | the nRF's thread that talks to the AVR | extended by `Hidcli` |
| `Hidcli` | hidcli and the host's device list, on the two processors | |
| `FsShell` | the fs shell's commands that change the volume, and littlefs | extended by `LogBackend` |
| `LogBackend` | log_backend_my_fs.c, restarts and power cuts | |
| `Bt` | the queue of bonds, advertising, connection callbacks, the sink's send | |
| `Battery` | adc.c, battery.c | extended by `Power` |
| `Power` | boot_cond.c, button_mode.c, shutdown.c on `Battery` | |
| `MCButtons`, `MCEncoder`, `MCHidcli` | constants of instances | |
| `CollectorProofs`, `ButtonsProofs` (with the toggle queue), `MotionProofs` (cursor and wheel), `DebounceProofs`, `SpiProofs`, `HostProofs` (Bluetooth, AVR and hidcli), `LogProofs`, `PowerProofs` | proofs | see below |

An operator preceded by "Mutant" is a plausible bug of the definition below it and
is used by no specification; replacing the definition by it must break a property.

### How state and actions correspond to the code

*Collector.* `event` is the `k_event`, `enabled` the word
`hid_collector_enabled_sources`, `events` the local variable of that name and
`mask` what the thread is pended on. `Wait`, `Restart`, `TakeEvents`, `CallFiller`,
`FillerReturns` and the three sink actions are the loop, split wherever an
interrupt or the shell can observe a difference. `Post` is `k_event_post` as
Zephyr implements it: it sets bits and readies a pended thread with the matching
ones (external). The shell's WRITE_BIT is split into load and store; the shell
moves only while the collector is blocked (`Blocked`). `owed` and `late` are
history: sources announced and not filled since, disabled sources already filled.

*Sources.* Each source module repeats the collector's actions with the effects of
its own filler and callback conjoined; for the buttons `ImplementsCollector` shows
that the composition still behaves as `Collector`. In `CursorSources` one axis
stands for two and a delta is a count of unit moves kept apart by origin, so that
losses and repetitions can be counted; the chip is external: it counts motion, and
holds MOT low until read. A burst may fail before or after the chip was read (a laser
fault, a timed-out transfer): `spoilt` counts the motion read in vain, `repeated` what
an earlier burst left in the driver's data and is reported again. `masked` says that
MOT has changed while another pin held DETECT; the change is then noticed only with
that pin's next interrupt, if one comes. The positions of the sources are those of the
linker's list: `HID_SOURCE_REGISTER` (source.h:18-25) pastes its priority argument before
it is expanded, so that the sources sort by the text of the option's name and the
values of the options are without effect (their defaults ask for the same order).
`Prefix` and `Word` give what these names are told apart by, and `hid_source_id` the
position of a source among those that are built. In `ButtonsSource` `shown` counts what the sink has seen
of each bit. In `EncoderSource` `turned` and `overwritten` are the history the
balance of steps and clicks is drawn from.

*Gpio and Debounce.* A pin in `intEnabled` is a bit of `gpio_int_enabled`, `sense`
the SENSE field of its configuration; DETECT is the OR over the pins and only its
rising edge latches `portEvent`. The handler is split at every access to shared
state. `shiftarr`, `cell0`, `movesLeft` are the array and its two counters.
`SetEdgeCb`, `TimerCb` read the pin and write its configuration in one step: a change
in between is indistinguishable from one right after.

*Spi.* A thread goes through the places of `pc`: it locks the mutex and cancels the
delayed work, configures the SPIM if `prev` is not its own (`Configure` writes the
registers, `Settle` stands for the way from there to the writing of `prev_config`, with
the settling delay or without), gives its callback (`cb`), starts a transfer and pends on `sem`; the
interrupt runs the callback, which starts the second transfer or gives; then exit,
unlock, and the work is scheduled after the mutex is free. `wire` is what the
SPIM's registers hold, which `prev` is meant to tell. `late`, `overtaken`, `hit` and
`clocked` are history: a timed-out wait, threads that were inside a transaction when
another scheduled the work, the work run between the writing of the registers and
that of `prev_config` (spi.c:80-90), and what has been transferred. Every timeout may elapse at any point; there is no clock.

*AVR.* `code` is what the chip runs; "hung" and "leaving" are the loops that only the
watchdog ends, without and with the key that selects the bootloader. `spe`, `usb`,
`desc`, `buf` and `room` are the application's registers and its two lengths of the
report map, which travels in two halves. `AvrComm` has the nRF's place in its thread
and whether a handshake was answered; each command may be answered, lost in the
handshake, or cut in its data. `Hidcli` is the tool's process: `Run`, the look for a
device, the mode change, the wait, and a page at a time; its flash map is computed by
`read_flash_data` as the code does, segment by segment and page by page, and
`ReadRight` and `FlashedIsElf` compare it with a definition by bytes.

*Log and shell.* The log thread does one file system call per step, at the place
`pc`; the shell's commands and power cuts come between any two. The disk is a function
from paths to `Dir` or a length; a handle has its own length, which replaces the
file's at sync or close (`Synced`; allocate_new_file closes the file before it makes the
next, which is part of `Tell`), as littlefs does; a power cut keeps what was synced.
`older`, `kept` and `meddled` are history: pairs of log files by age, units taken, and what
the shell did to the log's files, by which the properties name their exceptions.

*Bt.* `bonds_queue`, `public_adv_requested`, `current_client`, `security_level` are the
code's variables, `adv` and `link` the controller's state. `sink` is true from
available() to send(). An error of the stack (`failed`) may come at every call that
returns one.

*Battery and Power.* `conv` is the conversion under way and whose it is. `timer` says
which of its three starts the lifecycle timer is running for. The button's callback
is split at its accesses to the state; what `Gpio` and `Debounce` do to an edge is
taken over as "told once the interrupt is enabled, forgotten (`lost`), or masked by
another pin that holds DETECT (`masked`)"; a masked edge may be told later, and need not.

## Runs

| Run | Shows | Instance and bounds |
|---|---|---|
| `toggle_queue` | the counters are the FIFO, the length test is right | 4-bit counters, up to 15 events: every pair of counters, many wraps |
| `collector` | nothing lost, no sleep over work, existing fillers only, a disable takes effect, announced sources are served (liveness) | 3 sources and one bit without a source: one served, one pending, one changed at a time |
| `buttons` | no two toggles merge in a report, queued toggles are announced, the composition is a collector, the newest toggle is shown (liveness) | 2 buttons, 2 queued toggles each, 2-bit counters that wrap |
| `cursor` | motion and shell moves are neither lost nor repeated but for the named cases; motion is read unless the edge was masked (liveness) | the two sources built; 3 unit moves in all, 1 failing burst |
| `encoder` | steps and clicks balance | steps -2..3 per interrupt, 3 interrupts: halves left over in both directions, an overwritten click |
| `debounce` | no pin forgotten, unset leaves nothing, an edge is attended to unless DETECT was held, locked out for N periods and then enabled (liveness) | 2 pins, one re-arming itself, N = 2 |
| `spi` | one chip select at a time, every waiter is woken, what a late transfer, the delayed work and a preempted exit can do and what not; every call returns (liveness) | two clients, as in the firmware; nothing bounded |
| `avr` | the bootloader survives every flashing and unplugging, a flashed file is what the ELF says, USB is attached only with the whole report map, a hung AVR comes to the bootloader, tool and application do not wait for ever (liveness) | 3 pages of 2 bytes, the last the bootloader's; 3 files: two segments in one page, one that runs into the bootloader's page, one refused by the tool |
| `avr_gone` | a violation: CS stays high after the AVR lost its power | the same |
| `log` | never more files than the limit, oldest first, never an existing file, records taken are on disk, a record ends (liveness) | 6 numerals, limit 2, files of 2 units, records up to 2, a volume of 3 units, 1 shell command; the numerals wrap |
| `bt` | advertising reaches everybody it should before it falls silent, reports go to a secured connection, a round ends (liveness) | 3 hosts, 2 bonds: a third host evicts the oldest |
| `power` | timer, state and button agree; the level sent is fresh and in range; off only with the button up; a release that is not masked or lost switches off (liveness) | voltages 0, 3300, 3737, 3950 mV: below the curve, on either part of it, at its end |

Constants that bound inputs appear in guards: `MaxDepth` (queued toggles;
`toggle_queue.h` allows 2^32-1, and the counters wrap in the runs), `MaxMotion`,
`MaxFaults`, `MaxReports`, `ShellMax`, `WriteMax`, `TypedNumerals`, `Voltages`. They
bound inputs only; between them the fillers, the interrupts, crashes and the sink
interleave freely. `PageCount`, `Elfs` and `Images` keep the flash small: the tool's and
the bootloader's treatment of a page depends on where segments begin and end in it
and on which side of `BootPage` it lies, and the files cover these cases.

### What the code does otherwise than it says

`avr_gone` expects a violation: the loop of avr_comm.c:218 ends only when the AVR
answers with a wrong id. An AVR that has lost its power answers nothing, the
transfers fail with -EBUSY, which is no wrong id, and the loop goes on with CS high,
although avr_comm.c:69-70 says that CS is high only while the AVR is bus-powered
because it would ghost-power it otherwise.

Other deviations are exceptions that the properties name, so that the runs show that
nothing else goes wrong:

* opt_sensor.c:24 ignores the result of the fetch: after a failing burst the previous
  motion is reported again (hid_report_map.c:77; `MotionOnce`). If the chip was read
  before the failure, or the surface was poor, its motion is gone
  (adns7530.c:139-150; `MotionKept`).
* shell/hid.c:82 adds to the pending delta without a lock: the filler in between
  reports it and the store brings it back (`MotionOnce`).
* encoder.c:23 assigns the clicks: those of an earlier interrupt that are not yet
  taken are lost (encoder.c:20; `ClicksKept`).
* A pin that changes while another holds DETECT gets no interrupt
  (gpio.h:13-15; `EdgeAttendedUnlessMasked`). When MOT goes low that way, the
  run of the handler that the other pin has raised notices it, if it is still to come;
  otherwise MOT itself holds DETECT until it is read, and no pin raises the event
  before (`MotionAnnounced`, `MotionRead`). A release of the mode button that is masked need
  not switch the mouse off (`ReleaseSwitchesOff`).
* The timer's handler enables a pin within gpio.c:70 and the store takes it out of the
  mask again: the pin is dead until it is set anew (`NoPinForgotten`).
* debounce.c:67 reads the level anew: a pin that changes back during its lockout is
  reported with the same level again or not at all (toggle_queue.h:3-4).
* A callback that sets its own pin again, as the mode button's does
  (button_mode.c:71), enables the interrupt ahead of the request in the array and so
  shortens the time debounce.c:11-15 describes (`LockedOut` leaves out `Rearming`).
* spi.c: one late END leaves the semaphore given, and every later transaction of either
  client finds the give of the one before (`NothingLeftBehind`, `SuccessIsComplete`).
  `disable_sck` may run between lines 80 and 90, with the settling delay or without,
  after which `prev_config` names
  registers that are no longer there (`ClockKept`). The "period of inactivity" of
  spi.c:65 is not waited for when a waiter had cancelled the work before it was
  scheduled. adns7530_reg_write returns -EIO whatever happens (adns7530.c:57-61).
* avr_comm.c:211-213 ignores the results of three commands: after a lost one the
  application may be on USB without its report map (`AttachedWithMap`).
  `hidcli mode app` starts the application, but nobody enables its USB, as the nRF is
  still in the loop (`AppFoundByLuck`). A restart of the nRF leaves an AVR that
  listens to the sensor's traffic (`SensorAlone`) and is not detected again.
* An ELF file that reaches into the bootloader's page is flashed up to it and then
  fails (`FlashSafe` holds, the application is gone).
* log backend: with others filling the volume and `fs_write` returning an error
  log_output never gets its record taken; with a short count and only its own file
  left it deletes the open file and loops in `del_oldest_log`; files the shell
  removes behind its back have the same loop, or shrink the limit
  (`RecordEnds`, `LimitKept`).
* adv.c:74-75 says that undirected advertising starts when the queue of bonds is empty;
  adv.c:86-89 returns. Errors other than the timeout are passed over, after which the
  mouse is silent until it is started again (`InvitesRight`). A disconnection and a new
  connection between available() and send() let a report go to a connection that is
  not secured (`ConnectionRight`).
* battery.c: a measurement of the shell, or a timeout, leaves a give, and every
  level from then on is a period old (`LevelIsRight`).
* button_mode.c: re-arming forgets edges, and the timer, of a higher priority, may
  expire inside the callback; a press within the last 60 ms restarts the timer, so
  that the mouse may switch off with the button down (`LifecycleInv`, `OffWithButtonUp`).

## Fairness and timing assumptions

* `Collector`: weak fairness of the thread (highest application priority; fillers
  and the sink return) and of a begun shell call. Notifications owe nothing.
* `ButtonsSource`, `CursorSources`: the same for the composed thread; the chip eventually
  pulls MOT when it has motion, and the interrupt of a change that no other pin has
  masked is served; a begun shell command ends. A masked change may be served, with an
  interrupt of another pin, and owes nothing.
* `Debounce`: the handler and the running timer proceed (the timer's interrupt stays
  pending while it is held up: strong fairness); pins owe nothing.
* `Spi`: the interrupt and each thread proceed. No timeout is needed for
  `CallsReturn`: they are only allowed.
* `Hidcli`: the chip (watchdog, USB), the nRF's thread, the host's notice of devices
  and the tool's steps proceed. Cable, lost commands, stalls and restarts owe nothing.
* `LogBackend`: the log thread's call proceeds. `Bt`: the work queue, and the
  controller ends a directed advertising. `Power`: the interrupt
  of an edge that is not masked, the callback and the timer.
* The MOT pin stays released for longer than the latency of its interrupt
  (`Pull`): a frame of the chip against microseconds.
* A run of the GPIO handler is shorter than the timer's period (1 ms by default), so
  the timer interrupts it at most once (`ticked`).
* `CONFIG_APP_DEBOUNCE_NUM_SHIFTS` is at least 2 (7 by default): with one shift the
  timer's handler would meet the cell `debounce_gpio_cb` is writing.
* Priorities: the RTC's interrupt is above the GPIOTE's, both above all threads.
* An application that is not whole never resets the watchdog; 5 ms suffice for one that
  runs to enable its SPI (avr_comm.c's second reading of IRQ); without power the second
  reading is high.

## Proofs

TLAPS proves the following for every value of the constants that satisfies their named
assumptions. Each invariant is proved from a strengthening (`IInv` or the name given
below), which holds initially and is preserved by every action. Every invariant and
every action property that the passing runs check is stated by one of these theorems.

The assumptions are those of the code: the modulus of the counters is even and larger
than the queue (2^32); a page has at least one byte and an application fits the pages
(`ChipAssumption`); segments have addresses and bytes that are numbers
(`HidcliAssumption`); a record is no longer than a log file (a buffer of 256 bytes
against files of 2048) and there are at least three times as many numerals as files
(10000 against 10; `LogAssumption`); the shell gives finitely many commands
(`ShellAssumption`), as many as one likes.

The toggle queue (in `ButtonsProofs`), for every even `Modulus` and every `MaxDepth` below
it: type correctness, `LenTellsPending`, and that the counters implement the FIFO. The
argument: the modulus is even, so incrementing flips the last bit also when it
wraps (`IncrementFacts`); `Depth` and the parity of head and tail determine each
other (`DepthFacts`); the depth stays within `MaxDepth` (`WithinBound`), so a put
appends to, and a get takes the head of, the sequence of last bits after tail.

`CollectorProofs`, for any number of sources and bits: type correctness and the
safety properties of `collector`, and that no source fills a report twice. None is
inductive alone. `IInv` adds: a source owed is posted or among the bits still to
serve (`NoLostNotification`); while filling, the bits left are sources and greater than
those already filled (`Serving`, `Round`); pended, the mask holds every enabled source
unless Changed is about to be posted (`Sleeping`); bits without a source come back
only before the thread starts, and never into events (`LoadedWord`); a source counted
late is disabled and in no wait's mask (`Settled`).

`ButtonsProofs`, for any buttons, any even `Modulus` and `MaxDepth`: that the composition
implements the collector (step by step, with the facts of `CollectorProofs`), and on
top of it that queued toggles are announced and that the sink sees every toggle:
what is shown lags behind what is taken by at most the report under way
(`LagsByOne`), the report's bits are the parity of the queues' tails (`BitsOfTails`),
and they are synchronised by the filler only (`SyncedByFiller`, `ShownUntilTaken`).

`MotionProofs`, for any `MaxMotion` and `MaxFaults` and whichever other sources are built:
`MotionKept` and `MotionOnce`. `SensorFirst` derives from the names that the sensor has
index 0 and the shell a later one, with the library's facts on finite sets. The fillers
run in the order of the indices (`Ordered`), so the sensor assigns to a report to which the shell has not added yet;
only the filler of a source fills its part (`FilledBySource`), and a move that is
being stored holds the value it loaded unless it was preempted (`LoadedMove`).

Also in `MotionProofs`, for any steps of the wheel: `ClicksKept`. The accumulator stays within one half
click of either sign (`Halves`), and only the encoder's filler moves clicks into the
report (`FilledByEncoder`).

`DebounceProofs`, for any pins, any `N` of at least 2 and any `Rearming`: the three safety
properties of `debounce`, and that a pin's callback is not called again within N
periods (`LockedOut`). `Ring`: every request lies between cell 0 and the last cell still
to be shifted, but for the one just filed, and the timer runs while there is one; it
interrupts the handler once at most, so that N or N - 1 shifts are left when the
handler starts it. `OnePlace`: a pin is enabled, in the handler's list, overwritten, or
requested once, and its age and its request's distance add up to N. `Wired`: whoever is
in one of the first three places is connected to DETECT with the level asked for.
`Latched`: a connected pin that meets its condition unseen has an event to come, or is
in the list; `Locals` says what the handler's variables hold. It was checked by TLC to be
inductive for one and two pins before it was proved.

`SpiProofs`, for the two clients: the safety properties of `spi`. `Holding`
says who has the mutex and the chip select at each place; `Waiting` what is under way
when a thread waits; `Overtaking` that the work is scheduled only behind transactions
that began before it was, and that `prev` names the registers' contents (`RecordedIsWired`)
but where a client is between the two or the work ran there; `Progress` what an undisturbed transaction has
transferred at each place.

`HostProofs`, Bluetooth, for any hosts and any `MaxPaired` (`BtInv`): `ConnectionRight` and
`InvitesRight`. `LinkFollowed` ties the callbacks' variables to the controller's
connection, `OneAtATime` says that advertising, its work and a connection exclude each
other; without these two a report could meet a link nobody has seen. `PublicGoesOn` is
why a mouse asked for stays findable: public advertising is under way, or its work is
submitted with everyone in the queue, or a connection has come of it. `BondsGoOn`: a
bond has been advertised to or is still in the queue, which only empties by a step.

`HostProofs`, the AVR system, for any pages of any size, any bootloader page and any
files (`HidcliInv`): `AttachedWithMap`, `InTouch` and `FlashSafe`. `MapSent` follows the
report map through its two halves to the command that puts the application on USB;
`EnabledOnce` says that nothing else does; `HandleFresh` that a handle that is alive is of
the device the host lists, so that an application `hidcli` started is never found
(`StaysOffUsb`). `PageInHand` is the bootloader's guard: a page is erased only below
`BootPage`, by the tool that is about to write it. `PagesSent`: pages sent to a device
that has not gone since are in the flash. `FlashSafe` also needs what the flash map
contains: `FilesRead` proves `ReadRight` of every file. `ChunkFacts` is the arithmetic of
page boundaries, `FillFacts` one segment, and `SoFar` what has been read of the first n.
The provers cannot instantiate the library's induction theorems; the induction over
segments is made on a set of numbers instead (`UpTo`, from the well-foundedness of <),
which also shows that the recursion has a solution at all (`Recursion`).
TLC evaluates the same `ReadRight` on every file of up to three segments of up to four
bytes (`FilesAreReadRight` in `MCHidcli`).

`LogProofs`, for any limit, file size, numerals that wrap, crashes and commands of the shell
(`LogIInv`): `LogInv`, `TakenIsOnDisk` and the action property `OldestFirst`. The core is
`Window`: without additions and removals by the shell the log files are k ones numbered
in a row from some s on, wrapping, each older than those after it, and the log knows k
and both ends. It is stronger than anything the properties ask, but the limit alone
is not inductive: what is made and removed depends on the two ends, and these have to
be recognised after a restart from the numbers alone (`EndsFound`), which is where the
code's handling of wrapped numbers matters. `Counted` bounds what there is by what the
log has counted, with the shell's commands left over as the slack that keeps the limit
when it only removes. `KeptOnDisk` says that what was taken is on the disk at any time,
`Places` what the thread has written at each place, and `Tree` that the disk stays a tree
through the shell's commands. TLC checked `LogIInv` as an invariant of the `log` run
before it was proved.

`PowerProofs`, for any set of voltages: `LifecycleInv`, `LevelIsRight`, the action property
`OffWithButtonUp`, and that the curve's interpolation lies between 0 and 100 for every
voltage (`ChargeLevel`). `OffWithButtonUp` needs `ReleaseTold`: a mouse ready to shut down
has its interrupt armed for the release, and once that was told, a button that is down
again has been pressed since; a hold timer in turn runs only with the interrupt armed
from the pressed level.

Model-checked only, as liveness under fairness is out of the prover's reach: `Served`,
`NewestShown`, `MotionRead`, `LockedOutAndBack`, `CallsReturn`, `HungReachesBoot`, `WaitsEnd`,
`RecordEnds`, `RoundEnds` and `ReleaseSwitchesOff`; and the violation of `CsFollowsPower`,
which is a counterexample. (Of `LockedOutAndBack` the safety half, `LockedOut`, is proved.)

## Not modelled

* The register values of the sensor's initialisation and the 12-bit decoding of its
  deltas: straight-line arithmetic without state.
* The PWM sequences and fades of the LEDs, the supply and clock of the AVR
  (clock_suppl), the shell commands that only print or set a PWM.
* The AVR application's HID idle and protocol requests, and what its reports contain.
* The read-only fs shell commands (ls, cat, ...); mounting by the shell, which is not
  built.
* Parsing of hidcli's command line and of the ELF container.
* A surface quality threshold of 0: with it a burst cut short before its last byte
  would yield part of the deltas.
* MouseConnect: a desktop tool for a service of the peer that is not in the
  repository. The device tree and the build are data.

The log backend's module is disabled in the project's configuration (prj.conf:88-92);
it is modelled as its code stands, with overwriting on.

## Plan

1. Proofs: that the composed sources each implement the collector, as the buttons do
   (`CursorSources`, `EncoderSource`), and an abstract specification of the log.
2. Models: the sensor's decoding, the LED's sequences, a
   composition of `Bt` with the collector's sink, and of `Spi` with `CursorSources`.

Every module keeps parameters as CONSTANTS with named assumptions, one action per
operation or step and invariants as conjunctions of named parts, and declares no
RECURSIVE operator.

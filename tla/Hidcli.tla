--------------------------------- MODULE Hidcli --------------------------------
(***************************************************************************)
(* hidcli: the host's tool, which changes the AVR's mode and programs it,    *)
(* with the AVR, the nRF and the host's USB stack it works on.               *)
(***************************************************************************)
EXTENDS AvrComm, Sequences

CONSTANTS Elfs,        \* ELF files: sequences of LOAD segments [addr, data]
          FlashSize    \* FLASH_SIZE_BYTES
ASSUME HidcliAssumption == /\ FlashSize = PageCount * PageSize
                           /\ Elfs \subseteq Seq([addr : Nat, data : Seq(Nat)])

-------------------------------------------------------------------------------
\* iter_page_content: a segment cut at the page boundaries.
Chunks(seg) ==
    LET first == seg.addr \div PageSize
        head  == seg.addr % PageSize
        last  == first + (head + Len(seg.data) - 1) \div PageSize
    IN  [p \in first..last |->
            [offset |-> IF p = first THEN head ELSE 0,
             data   |-> SubSeq(seg.data,
                               IF p = first THEN 1 ELSE (p - first) * PageSize - head + 1,
                               IF p = last THEN Len(seg.data)
                                           ELSE (p - first + 1) * PageSize - head)]]

Zeros == [b \in 0..(PageSize - 1) |-> 0]

\* A part of a page is copied onto what the page holds.
FillPage(page, c) ==
    [b \in 0..(PageSize - 1) |->
        IF b \in c.offset..(c.offset + Len(c.data) - 1) THEN c.data[b - c.offset + 1] ELSE page[b]]

\* A page of which there is nothing yet is a page of zeros.
fill_flash_map(map, seg) ==
    LET chunks   == Chunks(seg)
        Entry(p) == IF p \in DOMAIN map THEN map[p] ELSE Zeros
    IN  [p \in DOMAIN map \cup DOMAIN chunks |->
            IF p \in DOMAIN chunks THEN FillPage(Entry(p), chunks[p]) ELSE Entry(p)]

\* What read_flash_data has after n segments; those without data are passed over, ...
ReadSegments(elf) ==
    LET map[n \in 0..Len(elf)] ==
            IF n = 0 THEN <<>>
            ELSE IF elf[n].data = <<>> THEN map[n - 1] ELSE fill_flash_map(map[n - 1], elf[n])
    IN  map
read_flash_data(elf) == ReadSegments(elf)[Len(elf)]

\* ... and only the address at which one starts is checked.
Readable(elf) == \A i \in DOMAIN elf : elf[i].data # <<>> => elf[i].addr < FlashSize
-------------------------------------------------------------------------------
VARIABLES elf,     \* the file of the flash command
          listed,  \* the device in the host's list: NoDevice, "app" or "boot"
          tool,    \* where hidcli is
          goal,    \* the mode it was asked for, "flash" being a third
          comm,    \* its communicator, or the mode it was of once it is dead
          alive,   \* the device its handle was opened on is still attached
          switched, \* history: it has changed the mode in this run
          next     \* the pages it has yet to send
toolVars == <<elf, listed, tool, goal, comm, alive, switched, next>>
vars     == <<chipVars, commVars, toolVars>>
NoDevice == "none"

Init == /\ ChipInit /\ CommInit
        /\ elf = <<>>
        /\ listed = NoDevice /\ tool = "idle" /\ goal = "app" /\ comm = NoDevice
        /\ alive = FALSE /\ switched = FALSE /\ next = {}

\* What the host would find: the application is a HID device once it has a
\* report descriptor.
Visible == IF usb # "configured" THEN NoDevice
           ELSE IF code = "boot" THEN "boot"
           ELSE IF desc > 0 THEN "app" ELSE NoDevice

\* Of any step of the chip: the handle dies with the device.
HandleFollows == alive' = (alive /\ usb' = usb /\ plugged')
Keep          == UNCHANGED <<elf, listed, tool, goal, comm, switched, next>>

\* The host's list follows the device, some time after it.
HostNotices == /\ listed # Visible
               /\ listed' = Visible
               /\ UNCHANGED <<chipVars, commVars, elf, tool, goal, comm, alive, switched, next>>

\* The tool ends, whether well or not.
Back == /\ tool' = "idle" /\ goal' = "app" /\ elf' = <<>>
        /\ comm' = NoDevice /\ alive' = FALSE /\ next' = {} /\ switched' = FALSE

\* `hidcli mode app`, `mode bootloader` or `flash`: find_device.
Run(g) ==
    /\ tool = "idle" /\ listed # NoDevice
    /\ IF g = "flash" THEN elf' \in {e \in Elfs : Readable(e)} ELSE UNCHANGED elf
    /\ goal' = g /\ tool' = "mode"
    /\ comm' = listed /\ alive' = (listed = Visible)
    /\ UNCHANGED <<listed, switched, next>>

Wanted == IF goal = "app" THEN "app" ELSE "boot"

\* The mode is the wanted one: done, or the pages may be sent.
InMode ==
    /\ tool = "mode" /\ comm = Wanted
    /\ IF goal = "flash"
       THEN /\ tool' = "send" /\ next' = DOMAIN read_flash_data(elf)
            /\ UNCHANGED <<elf, goal, comm, alive, switched>>
       ELSE Back
    /\ UNCHANGED listed

\* enter_bootloader or enter_app, whose write fails on a device that has gone.
ChangeMode ==
    /\ tool = "mode" /\ comm # Wanted
    /\ IF alive
       THEN /\ IF Wanted = "boot" THEN EnterBootloader ELSE StartApplication
            /\ tool' = "wait" /\ switched' = TRUE /\ alive' = FALSE
            /\ UNCHANGED <<elf, goal, comm, next>>
       ELSE Back /\ UNCHANGED chipVars
    /\ UNCHANGED listed

\* wait_for_comm: the first device in the list.  It may be the old one, which the
\* host has not yet seen go: "device is still in ...".
Found ==
    /\ tool = "wait" /\ listed # NoDevice
    /\ IF listed = Wanted
       THEN /\ comm' = listed /\ alive' = (listed = Visible) /\ tool' = "mode"
            /\ UNCHANGED <<elf, goal, switched, next>>
       ELSE Back
    /\ UNCHANGED listed

GiveUp == /\ tool = "wait" /\ listed = NoDevice
          /\ Back /\ UNCHANGED listed

First == CHOOSE p \in next : \A q \in next : p <= q

\* flash: a page is written to the device, which erases it, ...
SendPage ==
    /\ tool = "send" /\ next # {} /\ erased = NoPage
    /\ IF alive /\ First \in Pages /\ Accepts(First)
       THEN PageErase(First) /\ UNCHANGED <<elf, tool, goal, comm, alive, next, switched>>
       ELSE Back /\ UNCHANGED chipVars
    /\ UNCHANGED listed

\* ... and the write returns when the page has been programmed.
PageDone ==
    /\ tool = "send" /\ alive
    /\ PageWrite(read_flash_data(elf)[First])
    /\ next' = next \ {First}
    /\ UNCHANGED <<elf, listed, tool, goal, comm, alive, switched>>

PageFails == /\ tool = "send" /\ ~alive /\ next # {}
             /\ Back /\ UNCHANGED listed

AllSent == /\ tool = "send" /\ next = {}
           /\ Back /\ UNCHANGED listed
-------------------------------------------------------------------------------
ChipRuns == Watchdog(Searching) \/ Attach \/ Configured \/ EnableSpi(csHigh /\ ~data)
Chip     == Plug(Searching) \/ Unplug \/ HostStallsApp \/ ChipRuns

ToolAlone == \/ \E g \in {"app", "boot", "flash"} : Run(g)
             \/ InMode \/ Found \/ GiveUp \/ PageFails \/ AllSent
ToolOnChip == ChangeMode \/ SendPage \/ PageDone

Next == \/ Chip /\ HandleFollows /\ Keep /\ UNCHANGED commVars
        \/ Nrf /\ HandleFollows /\ Keep
        \/ NrfRestart /\ HandleFollows /\ Keep
        \/ HostNotices
        \/ ToolAlone /\ UNCHANGED <<chipVars, commVars>>
        \/ ToolOnChip /\ UNCHANGED commVars

Spec == Init /\ [][Next]_vars

\* The hardware, the nRF's thread and the tool run; the cable, the host's
\* stalls and restarts are nobody's duty.
FairSpec ==
    /\ Spec
    /\ WF_vars(ChipRuns /\ HandleFollows /\ Keep /\ UNCHANGED commVars)
    /\ WF_vars(Nrf /\ HandleFollows /\ Keep)
    /\ WF_vars(HostNotices)
    /\ WF_vars((InMode \/ Found \/ GiveUp \/ PageFails \/ AllSent) /\ UNCHANGED <<chipVars, commVars>>)
    /\ WF_vars(ToolOnChip /\ UNCHANGED commVars)
-------------------------------------------------------------------------------
HidcliTypeOK ==
    /\ plugged \in BOOLEAN /\ code \in {"off", "app", "boot", "hung", "leaving"}
    /\ key \in BOOLEAN /\ spe \in BOOLEAN /\ room \in BOOLEAN /\ lost \in BOOLEAN
    /\ usb \in {"off", "init", "attached", "configured"}
    /\ desc \in 0..2 /\ buf \in 0..2 /\ erased \in Pages \cup {NoPage}
    /\ DOMAIN flash = Pages /\ \A p \in Pages : flash[p] \in Contents
    /\ place \in {"poll", "react", "mismatch"} \cup DOMAIN Command
    /\ data \in BOOLEAN /\ csHigh \in BOOLEAN /\ left \in BOOLEAN
    /\ elf \in Elfs \cup {<<>>} /\ {listed, comm} \subseteq {NoDevice, "app", "boot"}
    /\ tool \in {"idle", "mode", "wait", "send"}
    /\ goal \in {"app", "boot", "flash"} /\ alive \in BOOLEAN /\ switched \in BOOLEAN
    /\ next \subseteq Nat

\* The application shows the host the whole report map, unless a command was
\* lost: the nRF does not look at their results (avr_comm.c:211-213).
AttachedWithMap == code = "app" /\ ~Unattached => desc = 2 \/ lost

\* Whatever is flashed, and whenever the cable is pulled, the bootloader's own
\* pages stay (BootloaderHID.c:155).
BootloaderKept == \E image \in Images : \A p \in Pages : p >= BootPage => flash[p] = image[p]

\* The byte an ELF file puts at an address: that of its last segment there.
Covers(seg, a) == a \in seg.addr..(seg.addr + Len(seg.data) - 1)
ByteAt(file, a) ==
    LET S == {i \in DOMAIN file : Covers(file[i], a)}
    IN  IF S = {} THEN 0
        ELSE LET i == CHOOSE i \in S : \A j \in S : j <= i
             IN  file[i].data[a - file[i].addr + 1]

Touches(file, p) == \E b \in DOMAIN Blank, i \in DOMAIN file : Covers(file[i], p * PageSize + b)
PageOf(file, p)  == [b \in DOMAIN Blank |-> ByteAt(file, p * PageSize + b)]

\* What read_flash_data has to make of a file: the pages it touches, byte by byte.
ReadRight(file) ==
    LET map == read_flash_data(file)
    IN  /\ \A p \in DOMAIN map : p \in Nat /\ map[p] \in Contents
        /\ \A p \in Pages : Touches(file, p) => p \in DOMAIN map /\ map[p] = PageOf(file, p)

\* `hidcli flash` ends well only when every page the file touches holds what the
\* file says, byte by byte, and zeros between.
FlashedIsElf == tool = "send" /\ next = {} =>
                    \A p \in Pages : Touches(elf, p) => flash[p] = PageOf(elf, p)

\* Flashing writes what the file says where it says it, and the bootloader never.
FlashSafe == HidcliTypeOK /\ BootloaderKept /\ FlashedIsElf

\* While the nRF looks for the AVR, CS low, the AVR does not listen to the
\* sensor's transfers, which begin with its handshake's byte, unless the nRF has
\* restarted or has lost the AVR by a wrong id (avr_comm.c:28, avr_comm.c:232).
SensorAlone == place = "poll" /\ spe => left

\* The application that hidcli has started is found by it only if the nRF has
\* restarted or lost the AVR by a wrong id: nobody else enables its USB again
\* (avr_comm.c:218).
AppFoundByLuck == tool = "mode" /\ switched /\ comm = "app" => left

\* What the two processors know of each other stays right until the nRF restarts
\* or loses the AVR by a wrong id, and no longer.
InTouch == SensorAlone /\ AppFoundByLuck

\* An application that stops, or that is not whole, is replaced by the bootloader
\* while the cable stays in (BootloaderHID.c:66-72).
HungReachesBoot == code = "hung" ~> code = "boot" \/ ~plugged

\* An application that starts while the nRF is looking for one is put on USB.
FoundIsEnabled ==
    place = "poll" /\ code = "app" /\ ~spe
    ~> (usb = "configured" /\ desc = 2) \/ lost \/ code # "app" \/ left

\* hidcli ends.
ToolReturns == tool = "mode" ~> tool = "idle"

\* Neither the application nor the tool waits for ever for the other side.
WaitsEnd == FoundIsEnabled /\ ToolReturns

\* CS is kept high only while the AVR is powered (avr_comm.c:69).
CsFollowsPower == ~plugged ~> plugged \/ ~csHigh
================================================================================

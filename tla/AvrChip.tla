-------------------------------- MODULE AvrChip --------------------------------
(***************************************************************************)
(* The AVR: the application's SPI slave and USB device (app-avr/src), the    *)
(* bootloader (app-avr/bootloader) and the watchdog resets by which the chip *)
(* goes from one to the other.  It is powered by the USB cable.              *)
(***************************************************************************)
EXTENDS Naturals

CONSTANTS PageCount,  \* flash pages of PageSize bytes, the bootloader's included
          PageSize,   \* SPM_PAGESIZE
          BootPage,   \* BOOT_START_ADDR, as a page
          Images      \* the flash contents that are an application

Pages    == 0..(PageCount - 1)
Blank    == [b \in 0..(PageSize - 1) |-> 255]
Contents == [0..(PageSize - 1) -> Nat]
ASSUME ChipAssumption == /\ PageSize \in Nat \ {0} /\ PageCount \in Nat /\ BootPage \in Pages
                         /\ Images \subseteq [Pages -> Contents]

VARIABLES plugged, \* the cable is in
          code,    \* what runs: application, bootloader, or a loop that the
                   \* watchdog ends ("hung", and "leaving" with magic_boot_key set)
          key,     \* magic_boot_key is MAGIC_BOOT_KEY
          spe,     \* the application has enabled SPI, and pulls IRQ low
          usb,     \* "off", "init" (VBUS not seen yet), "attached", "configured"
          desc,    \* bytes of the report map in HIDReportLength: none, part, whole
          buf,     \* bytes of the report map in hid_report_desc, likewise
          room,    \* num_rx # 0 in the command being received
          flash,   \* page -> content
          erased,  \* the page being programmed, or NoPage
          lost     \* history: part of the nRF's talk with it has not been received
chipVars == <<plugged, code, key, spe, usb, desc, buf, room, flash, erased, lost>>

NoPage == PageCount
\* USB_DeviceState is DEVICE_STATE_Unattached.
Unattached == usb \in {"off", "init"}

ChipInit == /\ plugged = FALSE /\ code = "off" /\ key = FALSE
            /\ spe = FALSE /\ usb = "off" /\ desc = 0 /\ buf = 0 /\ room = FALSE
            /\ flash \in Images
            /\ erased = NoPage /\ lost = FALSE

\* A reset: the registers, and the .data of the application.
ResetRegisters == /\ spe' = FALSE /\ desc' = 0 /\ buf' = 0 /\ room' = FALSE
                  /\ erased' = NoPage

\* The jump of application_jump_check, which starts the watchdog: an application
\* that is not whole is assumed never to reset it.  searching: the nRF is not in
\* the middle of a talk with an AVR.
StartApp(searching) ==
            /\ code' = IF flash \in Images THEN "app" ELSE "hung"
            /\ usb' = "off"
            /\ lost' = ~searching

\* Power on: WDRF is clear, so that the application is started.
Plug(searching) ==
    /\ ~plugged
    /\ plugged' = TRUE
    /\ key' = FALSE
    /\ StartApp(searching) /\ ResetRegisters
    /\ UNCHANGED flash

Unplug == /\ plugged
          /\ plugged' = FALSE
          /\ code' = "off" /\ usb' = "off"
          /\ ResetRegisters
          /\ lost' = FALSE
          /\ UNCHANGED <<key, flash>>

\* Mutant: the key is not cleared by the jump to the application.
WatchdogKeepsKey(searching) ==
    /\ code \in {"hung", "leaving"}
    /\ IF key THEN StartApp(searching) ELSE code' = "boot" /\ usb' = "init" /\ lost' = FALSE
    /\ ResetRegisters
    /\ UNCHANGED <<plugged, key, flash>>

\* The watchdog's reset, and application_jump_check with WDRF set.  The
\* bootloader's main enables USB.
Watchdog(searching) ==
    /\ code \in {"hung", "leaving"}
    /\ IF key THEN StartApp(searching) ELSE code' = "boot" /\ usb' = "init" /\ lost' = FALSE
    /\ key' = FALSE
    /\ ResetRegisters
    /\ UNCHANGED <<plugged, flash>>

\* The interrupt that tells LUFA of VBUS, and the host's SET_CONFIGURATION.
Attach == /\ usb = "init" /\ plugged
          /\ usb' = "attached"
          /\ UNCHANGED <<plugged, code, key, spe, desc, buf, room, flash, erased, lost>>

Configured == /\ usb = "attached" /\ code \in {"app", "boot"}
              /\ usb' = "configured"
              /\ UNCHANGED <<plugged, code, key, spe, desc, buf, room, flash, erased, lost>>

\* Mutant: CS is not waited for.
EnableSpiAtOnce(csHigh) ==
    /\ code = "app" /\ ~spe
    /\ spe' = TRUE
    /\ UNCHANGED <<plugged, code, key, usb, desc, buf, room, flash, erased, lost>>

\* spi_task while SPI is disabled.
EnableSpi(csHigh) ==
    /\ code = "app" /\ ~spe /\ csHigh
    /\ spe' = TRUE
    /\ UNCHANGED <<plugged, code, key, usb, desc, buf, room, flash, erased, lost>>

\* A control transfer whose data stage never comes holds up the application
\* (Mouse.c:132) until the watchdog bites.
HostStallsApp ==
    /\ code = "app" /\ usb = "configured" /\ desc > 0
    /\ code' = "hung"
    /\ UNCHANGED <<plugged, key, spe, usb, desc, buf, room, flash, erased, lost>>
-------------------------------------------------------------------------------
\* The handshake of spi_task, and prepare_response for the command after it.
Answers == code = "app" /\ spe

PrepareResponse(cmd) ==
    /\ Answers
    /\ room' = CASE cmd = "set_descriptor" -> Unattached
                 [] cmd = "read_id"        -> FALSE
                 [] OTHER                  -> TRUE
    /\ UNCHANGED <<plugged, code, key, spe, usb, desc, buf, flash, erased, lost>>

\* The application misses the handshake: nothing is received.
MissHandshake ==
    /\ lost' = (lost \/ code = "app")
    /\ UNCHANGED <<plugged, code, key, spe, usb, desc, buf, room, flash, erased>>

\* The bytes of the command arrive, n telling none, a part or all of them, and
\* process_transaction acts when there are some.  send_report leaves no trace
\* here.
ProcessTransaction(cmd, n) ==
    /\ Answers
    /\ lost' = (lost \/ n < 2)
    /\ LET got == IF room THEN n ELSE 0
       IN  /\ buf'  = IF cmd = "set_descriptor" /\ got > 0 THEN got ELSE buf
           /\ desc' = IF cmd = "set_descriptor" /\ got > 0 /\ Unattached THEN got ELSE desc
           /\ usb'  = IF cmd = "enable_usb" /\ got > 0 THEN "init" ELSE usb
    /\ room' = FALSE
    /\ UNCHANGED <<plugged, code, key, spe, flash, erased>>

\* CS stays low and no clock comes: the loops of the transfer (spi.c:85,
\* spi.c:138) go on until the watchdog bites.
SpiStalls ==
    /\ Answers
    /\ code' = "hung" /\ lost' = TRUE
    /\ UNCHANGED <<plugged, key, spe, usb, desc, buf, room, flash, erased>>
-------------------------------------------------------------------------------
\* EVENT_USB_Device_ControlRequest of the application, with ENTER_BOOTLOADER_KEY:
\* it detaches and waits for the watchdog.
EnterBootloader ==
    /\ code = "app" /\ usb = "configured"
    /\ code' = "hung" /\ usb' = "off"
    /\ UNCHANGED <<plugged, key, spe, desc, buf, room, flash, erased, lost>>

\* That of the bootloader, with COMMAND_STARTAPPLICATION, and the end of main.
StartApplication ==
    /\ code = "boot" /\ usb = "configured"
    /\ code' = "leaving" /\ usb' = "off"
    /\ key' = TRUE
    /\ UNCHANGED <<plugged, spe, desc, buf, room, flash, erased, lost>>

\* Mutant: the bootloader's first page is accepted too.
AcceptsOneMore(p) == p <= BootPage

\* A page's address must be below the bootloader.
Accepts(p) == p < BootPage

\* ... with a page: erased first, ...
PageErase(p) ==
    /\ code = "boot" /\ usb = "configured" /\ erased = NoPage /\ Accepts(p)
    /\ flash' = [flash EXCEPT ![p] = Blank]
    /\ erased' = p
    /\ UNCHANGED <<plugged, code, key, spe, usb, desc, buf, room, lost>>

\* ... then filled and written.
PageWrite(content) ==
    /\ code = "boot" /\ erased # NoPage
    /\ flash' = [flash EXCEPT ![erased] = content]
    /\ erased' = NoPage
    /\ UNCHANGED <<plugged, code, key, spe, usb, desc, buf, room, lost>>
================================================================================

-------------------------------- MODULE AvrComm --------------------------------
(***************************************************************************)
(* services/avr_comm.c: the thread of the nRF that finds the AVR by its IRQ  *)
(* line, hands it the report map, enables its USB and then talks to it until *)
(* it takes it to be gone.  A command is a handshake and, if the AVR answers *)
(* it, a transfer of data.                                                   *)
(***************************************************************************)
EXTENDS AvrChip

VARIABLES place,   \* where avr_communication_thread is
          data,    \* the handshake has been answered, the data is under way
          csHigh,  \* the level at which CS is kept between the transfers
          left     \* history: a wrong id has ended the loop, or the nRF has restarted
commVars == <<place, data, csHigh, left>>

CommInit == /\ place = "poll" /\ data = FALSE /\ csHigh = FALSE
            /\ left = FALSE

Searching == place \in {"poll", "react", "mismatch"}

\* IRQ with its pull-up: the AVR pulls it low while its SPI is enabled, and may
\* do so without power, which takes it from the line.
IrqHigh == IF plugged THEN {~spe} ELSE BOOLEAN

\* did_avr_appear, the first reading; CS goes high if it is 1.
Poll ==
    /\ place = "poll" /\ TRUE \in IrqHigh
    /\ csHigh' = TRUE
    /\ place' = "react"
    /\ UNCHANGED <<data, left>>

\* The second reading, 5 ms later: long enough for an application that runs to
\* have enabled SPI.  Without power the line is high, as the comment says.
React ==
    /\ place = "react" /\ ~(code = "app" /\ ~spe)
    /\ IF plugged /\ spe THEN place' = "verify" /\ UNCHANGED csHigh
                         ELSE place' = "poll" /\ csHigh' = FALSE
    /\ UNCHANGED <<data, left>>

Command == [verify |-> "read_id", descriptor |-> "set_descriptor", enable |-> "enable_usb",
            report |-> "send_report", check |-> "read_id"]

\* Mutant: USB is enabled before the report map is sent.
AfterSwapped(err) ==
    CASE place = "verify"     -> IF err = "0" THEN "enable" ELSE "mismatch"
      [] place = "enable"     -> "descriptor"
      [] place = "descriptor" -> "report"
      [] place = "report"     -> "check"
      [] place = "check"      -> IF err = "1" THEN "poll" ELSE "report"

\* avr_comm_loop and the branches of the thread.  The results of the descriptor,
\* of enable_usb and of the report are not looked at; the loop is left only on a
\* wrong id, 1.
After(err) ==
    CASE place = "verify"     -> IF err = "0" THEN "descriptor" ELSE "mismatch"
      [] place = "descriptor" -> "enable"
      [] place = "enable"     -> "report"
      [] place = "report"     -> "check"
      [] place = "check"      -> IF err = "1" THEN "poll" ELSE "report"

GoOn(err) ==
    /\ place' = After(err)
    /\ data' = FALSE
    /\ csHigh' = (place' # "poll")
    /\ left' = (left \/ (place = "check" /\ err = "1"))

\* The handshake of avr_transceive: answered, ...
Handshake ==
    /\ place \in DOMAIN Command /\ ~data
    /\ PrepareResponse(Command[place])
    /\ data' = TRUE
    /\ UNCHANGED <<place, csHigh, left>>

\* ... or not, -EBUSY.
HandshakeLost ==
    /\ place \in DOMAIN Command /\ ~data
    /\ MissHandshake
    /\ GoOn("EBUSY")

\* The data.  The AVR may lose bytes of it.  Once it no longer answers the line
\* reads as zeros, whose checksum is right though the id is wrong, or as noise.
Data ==
    /\ place \in DOMAIN Command /\ data
    /\ \/ \E n \in 0..2 :
             /\ ProcessTransaction(Command[place], n)
             /\ GoOn(IF Command[place] = "read_id" /\ n < 2 THEN "EIO" ELSE "0")
       \/ /\ ~Answers
          /\ \E err \in {"1", "EIO"} : GoOn(err)
          /\ MissHandshake

\* After a wrong id at first the thread waits until IRQ is released.
Released ==
    /\ place = "mismatch" /\ TRUE \in IrqHigh
    /\ place' = "poll" /\ csHigh' = FALSE
    /\ UNCHANGED <<data, left>>

\* The mouse is switched off and on again: avr_init_gpios.  Data under way is cut
\* short: either CS floats high, which ends it for the AVR, or it stays low.
NrfRestart ==
    /\ place' = "poll" /\ data' = FALSE /\ csHigh' = FALSE
    /\ left' = TRUE
    /\ IF data /\ Answers
       THEN SpiStalls \/ \E n \in 0..2 : ProcessTransaction(Command[place], n)
       ELSE UNCHANGED chipVars

Nrf == \/ (Poll \/ React \/ Released) /\ UNCHANGED chipVars
       \/ Handshake \/ HandshakeLost \/ Data
================================================================================

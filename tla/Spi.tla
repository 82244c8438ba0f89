---------------------------------- MODULE Spi ----------------------------------
(***************************************************************************)
(* platform/spi.c: the SPI master and its two clients, the driver of the     *)
(* optical sensor (drivers/adns7530.c) and the AVR link (services/           *)
(* avr_comm.c).  A transaction of either has up to two transfers, the second *)
(* one started from the interrupt of the first.  There is no clock: a        *)
(* timeout or the delay of disable_sck may elapse between any two steps of a *)
(* thread, which a thread of higher priority may hold up.                    *)
(***************************************************************************)
EXTENDS Naturals

CONSTANTS Sensor, Avr,  \* the clients, each the only thread of its kind
          None

Threads == {Sensor, Avr}
ASSUME SpiAssumption == Sensor # Avr /\ None \notin Threads

VARIABLES owner,   \* spi_mutex.owner
          prev,    \* prev_config; None is NULL
          wire,    \* the configuration in the SPIM's registers; None is mode 0
          work,    \* disable_sck_work is scheduled
          sem,     \* the count of spi_sync_sem
          cb,      \* whose callback spi_isr_ctx holds
          cs,      \* threads whose chip select is active
          xfer,    \* the transfer on the wire
          ctx,     \* adns7530_spi_cb_ctx and avr_spi_cb_ctx
          pc,      \* where a thread is in its transaction
          res,     \* err in its spi_transceive_managed
          clocked, \* history: transfers of the transaction done as configured
          late,    \* history: a wait has timed out on a transfer under way
          overtaken, \* history: threads inside a transaction when work was scheduled
          hit      \* history: disable_sck has run between the registers' writing and prev_config's
busVars  == <<owner, prev, wire, work, cs>>
wireVars == <<sem, cb, xfer>>
history  == <<clocked, late, overtaken, hit>>
vars     == <<busVars, wireVars, ctx, pc, res, history>>

Idle == [for |-> None, stage |-> 0, intact |-> TRUE]
Transfer(t, n) == [for |-> t, stage |-> n, intact |-> wire = t]

SpiTypeOK ==
    /\ owner \in Threads \cup {None} /\ prev \in Threads \cup {None}
    /\ wire \in Threads \cup {None} /\ cb \in Threads \cup {None}
    /\ work \in BOOLEAN /\ sem \in {0, 1} /\ cs \subseteq Threads
    /\ xfer \in [for : Threads \cup {None}, stage : 0..2, intact : BOOLEAN]
    /\ ctx \in [Threads -> [err : {"ok", "EIO", "EBUSY"}, more : BOOLEAN]]
    /\ pc \in [Threads -> {"idle", "lock", "configure", "settle", "start", "fire",
                           "wait", "exit", "unlock", "check", "schedule"}]
    /\ res \in [Threads -> {"ok", "EAGAIN"}]
    /\ clocked \in [Threads -> SUBSET {1, 2}]
    /\ late \in BOOLEAN /\ hit \in BOOLEAN /\ overtaken \subseteq Threads

Init == /\ owner = None /\ prev = None /\ wire = None /\ work = FALSE /\ cs = {}
        /\ sem = 0 /\ cb = None /\ xfer = Idle
        /\ ctx = [t \in Threads |-> [err |-> "EIO", more |-> FALSE]]
        /\ pc = [t \in Threads |-> "idle"]
        /\ res = [t \in Threads |-> "ok"]
        /\ clocked = [t \in Threads |-> {}]
        /\ late = FALSE /\ hit = FALSE /\ overtaken = {}

Goto(t, place) == pc' = [pc EXCEPT ![t] = place]
-------------------------------------------------------------------------------
\* Mutant: the work is left scheduled.
BeginOnly(t) ==
    /\ pc[t] = "idle"
    /\ \E two \in BOOLEAN :
          /\ t = Avr => two
          /\ ctx' = [ctx EXCEPT ![t] = [err |-> "EIO", more |-> two]]
    /\ overtaken' = overtaken \ {t}
    /\ Goto(t, "lock")
    /\ UNCHANGED <<owner, prev, wire, work, cs, wireVars, res, clocked, late, hit>>

\* adns7530_spi_transceive or avr_transceive fills its context, and spi_lock
\* cancels the work.  A write to the sensor has one transfer, all else two.
Begin(t) ==
    /\ pc[t] = "idle"
    /\ \E two \in BOOLEAN :
          /\ t = Avr => two
          /\ ctx' = [ctx EXCEPT ![t] = [err |-> "EIO", more |-> two]]
    /\ work' = FALSE
    /\ overtaken' = overtaken \ {t}
    /\ Goto(t, "lock")
    /\ UNCHANGED <<owner, prev, wire, cs, wireVars, res, clocked, late, hit>>

\* spi_lock then waits for the mutex, ...
Lock(t) ==
    /\ pc[t] = "lock" /\ owner = None
    /\ owner' = t
    /\ Goto(t, "configure")
    /\ UNCHANGED <<prev, wire, work, cs, wireVars, ctx, res, history>>

\* ... for 100 ms at most.
LockTimeout(t) ==
    /\ pc[t] = "lock" /\ owner # None
    /\ res' = [res EXCEPT ![t] = "EAGAIN"]
    /\ Goto(t, "exit")
    /\ UNCHANGED <<busVars, wireVars, ctx, history>>

\* Mutant: a configuration of the other client counts as the same.
ConfigureOnce(t) ==
    /\ pc[t] = "configure"
    /\ \/ prev # None /\ Goto(t, "start") /\ UNCHANGED wire
       \/ prev = None /\ Goto(t, "settle") /\ wire' = t
    /\ UNCHANGED <<owner, prev, work, cs, wireVars, ctx, res, history>>

\* spi_configure: nothing to do, or the registers are written, ...
Configure(t) ==
    /\ pc[t] = "configure"
    /\ \/ prev = t /\ Goto(t, "start") /\ UNCHANGED wire
       \/ prev # t /\ Goto(t, "settle") /\ wire' = t
    /\ UNCHANGED <<owner, prev, work, cs, wireVars, ctx, res, history>>

\* ... and recorded in prev_config, after a delay if they were in mode 0 (both
\* clients use mode 3).  The work preempts the thread in between, delay or not.
Settle(t) ==
    /\ pc[t] = "settle"
    /\ prev' = t
    /\ Goto(t, "start")
    /\ UNCHANGED <<owner, wire, work, cs, wireVars, ctx, res, history>>

\* Chip select, then spi_transceive: the callback is set, ...
Start(t) ==
    /\ pc[t] = "start"
    /\ cs' = cs \cup {t}
    /\ cb' = t
    /\ Goto(t, "fire")
    /\ UNCHANGED <<owner, prev, wire, work, sem, xfer, ctx, res, history>>

\* ... and the transfer started.  If one is still under way, the SPIM may drop
\* either.
Fire(t) ==
    /\ pc[t] = "fire"
    /\ xfer' \in {Transfer(t, 1)} \cup (IF xfer = Idle THEN {} ELSE {xfer})
    /\ Goto(t, "wait")
    /\ UNCHANGED <<busVars, sem, cb, ctx, res, history>>

\* k_sem_take, and the 10 us before the exit.
Take(t) ==
    /\ pc[t] = "wait" /\ sem = 1
    /\ sem' = 0
    /\ res' = [res EXCEPT ![t] = "ok"]
    /\ Goto(t, "exit")
    /\ UNCHANGED <<busVars, cb, xfer, ctx, history>>

TakeTimeout(t) ==
    /\ pc[t] = "wait" /\ sem = 0
    /\ res' = [res EXCEPT ![t] = "EAGAIN"]
    /\ late' = TRUE
    /\ Goto(t, "exit")
    /\ UNCHANGED <<busVars, wireVars, ctx, clocked, overtaken, hit>>

\* Mutant: the mutex is released before the chip select.
ExitUnlocked(t) ==
    /\ pc[t] = "exit"
    /\ owner' = IF owner = t THEN None ELSE owner
    /\ Goto(t, "unlock")
    /\ UNCHANGED <<prev, wire, work, cs, wireVars, ctx, res, history>>

Exit(t) ==
    /\ pc[t] = "exit"
    /\ cs' = cs \ {t}
    /\ Goto(t, "unlock")
    /\ UNCHANGED <<owner, prev, wire, work, wireVars, ctx, res, history>>

\* The call returns `err ? err : ctx.err`, and its locals are gone.
Return(t) ==
    /\ res' = [res EXCEPT ![t] = "ok"]
    /\ clocked' = [clocked EXCEPT ![t] = {}]
    /\ Goto(t, "idle")

\* spi_unlock: k_mutex_unlock fails when the lock was not obtained, ...
Unlock(t) ==
    /\ pc[t] = "unlock"
    /\ \/ owner = t /\ owner' = None /\ Goto(t, "check") /\ UNCHANGED <<res, clocked>>
       \/ owner # t /\ Return(t) /\ UNCHANGED owner
    /\ UNCHANGED <<prev, wire, work, cs, wireVars, ctx, late, overtaken, hit>>

\* ... then prev_config is looked at, and the work scheduled, without the mutex.
Check(t) ==
    /\ pc[t] = "check"
    /\ \/ prev # None /\ Goto(t, "schedule") /\ UNCHANGED <<res, clocked>>
       \/ prev = None /\ Return(t)
    /\ UNCHANGED <<busVars, wireVars, ctx, late, overtaken, hit>>

\* k_work_schedule leaves a work that is scheduled already as it is.
Schedule(t) ==
    /\ pc[t] = "schedule"
    /\ work' = TRUE
    /\ overtaken' = IF work THEN overtaken
                            ELSE {u \in Threads \ {t} : pc[u] # "idle"}
    /\ Return(t)
    /\ UNCHANGED <<owner, prev, wire, cs, wireVars, ctx, late, hit>>

\* The work, on the system's queue, whose thread the clients do not preempt.
\* A transfer under way goes on with the registers it finds.
disable_sck ==
    /\ work
    /\ work' = FALSE
    /\ wire' = None /\ prev' = None
    /\ xfer' = IF xfer = Idle THEN Idle ELSE [xfer EXCEPT !.intact = FALSE]
    /\ hit' = (hit \/ \E t \in Threads : pc[t] = "settle")
    /\ UNCHANGED <<owner, cs, sem, cb, ctx, pc, res, clocked, late, overtaken>>
-------------------------------------------------------------------------------
\* k_sem_give on a binary semaphore.
Give == sem' = 1 /\ xfer' = Idle

\* A second transfer, from the interrupt: CHECK_LOCK_OWNED lets it pass.
Chain(t) ==
    /\ xfer' = Transfer(t, 2)
    /\ ctx' = [ctx EXCEPT ![t] = [err |-> "ok", more |-> FALSE]]
    /\ UNCHANGED sem

\* Mutant: a failed handshake does not wake the thread.
HandshakeFailsMutely(t) ==
    /\ t = Avr
    /\ ctx' = [ctx EXCEPT ![t].err = "EBUSY"]
    /\ xfer' = Idle /\ UNCHANGED sem

\* avr_spi_done_callback when the AVR has not answered the handshake.
HandshakeFails(t) ==
    /\ t = Avr
    /\ ctx' = [ctx EXCEPT ![t].err = "EBUSY"]
    /\ Give

\* Mutant: the thread is woken after the first transfer too.
spi_irq_early ==
    /\ xfer # Idle
    /\ clocked' = IF xfer.intact /\ pc[xfer.for] = "wait"
                  THEN [clocked EXCEPT ![xfer.for] = @ \cup {xfer.stage}] ELSE clocked
    /\ IF ctx[cb].more
       THEN /\ xfer' = Transfer(cb, 2) /\ sem' = 1
            /\ ctx' = [ctx EXCEPT ![cb] = [err |-> "ok", more |-> FALSE]]
       ELSE Give /\ UNCHANGED ctx
    /\ UNCHANGED <<busVars, cb, pc, res, late, overtaken, hit>>

\* spi_irq_handler at the END of a transfer, with the callback it finds: that of
\* the last spi_transceive, whoever's transfer has ended.
spi_irq_handler ==
    /\ xfer # Idle
    /\ clocked' = IF xfer.intact /\ pc[xfer.for] = "wait"
                  THEN [clocked EXCEPT ![xfer.for] = @ \cup {xfer.stage}] ELSE clocked
    /\ IF ctx[cb].more
       THEN Chain(cb) \/ HandshakeFails(cb)
       ELSE Give /\ UNCHANGED ctx
    /\ UNCHANGED <<busVars, cb, pc, res, late, overtaken, hit>>
-------------------------------------------------------------------------------
Thread(t) == \/ Begin(t) \/ Lock(t) \/ Configure(t) \/ Settle(t) \/ Start(t) \/ Fire(t)
             \/ Take(t) \/ Exit(t) \/ Unlock(t) \/ Check(t) \/ Schedule(t)
Timeout(t) == LockTimeout(t) \/ TakeTimeout(t)

Next == \/ \E t \in Threads : Thread(t) \/ Timeout(t)
        \/ disable_sck
        \/ spi_irq_handler

Spec == Init /\ [][Next]_vars

\* Transfers end and threads run; no timeout is ever needed.
FairSpec == Spec /\ WF_vars(spi_irq_handler) /\ \A t \in Threads : WF_vars(Thread(t))
-------------------------------------------------------------------------------
\* A chip select is active only while its client holds the mutex, whatever has
\* timed out: two slaves never drive MISO together (spi.c:133-177).
OneSlaveSelected == cs \subseteq {owner}

\* A semaphore is left given behind a transaction only once a wait has timed
\* out; from then on a transaction may end before its transfer (spi.c:158).
GiveIsTaken == sem = 1 /\ (\A t \in Threads : pc[t] # "wait") => late

\* The DMA writes into the buffers of a call, on its stack, only while the call
\* waits, unless a wait has timed out (spi.c:158-165, adns7530.c:45).
DmaWhileWaiting == xfer # Idle => late \/ pc[xfer.for] = "wait"

\* Until a wait has timed out no call returns with its transfer or its give still
\* to come: neither can reach the next call's.
NothingLeftBehind == GiveIsTaken /\ DmaWhileWaiting

\* A waiting thread is always going to be woken, late transfers, failed
\* handshakes and lost starts included (adns7530.c:41, avr_comm.c:104).
WaiterIsServed == \A t \in Threads : pc[t] = "wait" => sem = 1 \/ xfer # Idle

\* The bus has one user at a time and keeps nobody waiting for a wake-up that is
\* not on its way.
SpiInv == SpiTypeOK /\ OneSlaveSelected /\ WaiterIsServed

\* While a client has the bus, the work that takes its clock away can only be
\* one scheduled after that client had cancelled it (spi.c:54, spi.c:67).
ClockTakenFromOvertaken == work /\ owner # None => owner \in overtaken

\* Whenever nobody is in the middle of spi_configure, prev_config tells the truth
\* about the registers, unless disable_sck has run between their writing and its
\* own, with a delay there or without (spi.c:80-90).
RecordedIsWired ==
    prev \notin {None, wire} => hit \/ \E t \in Threads : pc[t] = "settle" /\ wire = t

\* The work comes in the way of a transaction only when it was scheduled during
\* it, and leaves a wrong record behind only between lines 80 and 90.
ClockKept == ClockTakenFromOvertaken /\ RecordedIsWired

\* A call returns 0 only after both transfers have been clocked as its client
\* configured them, unless a wait has timed out, its clock was taken away, or
\* prev_config misreports the registers.
SuccessIsComplete ==
    \A t \in Threads :
        pc[t] = "unlock" /\ res[t] = "ok" /\ ctx[t].err = "ok"
        => late \/ t \in overtaken \/ wire # prev \/ clocked[t] = {1, 2}

\* Every call returns, with no help from the timeouts of the waits.
CallsReturn == \A t \in Threads : pc[t] = "wait" ~> pc[t] = "idle"
================================================================================

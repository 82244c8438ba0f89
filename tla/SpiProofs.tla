------------------------------- MODULE SpiProofs -------------------------------
(***************************************************************************)
(* The safety properties of the SPI master.  They rest on who holds the      *)
(* mutex where (Holding), on a wait that is over leaving nothing behind      *)
(* (Waiting), on the work being cancelled by whoever comes after it was      *)
(* scheduled (Overtaking), and on how far the transfers have come (Progress). *)
(***************************************************************************)
EXTENDS Spi, TLAPS

\* The bus is used with the mutex held, and given back before the mutex is.
Holding ==
    \A t \in Threads :
        /\ pc[t] \in {"configure", "settle", "start", "fire", "wait"} => owner = t
        /\ owner = t => pc[t] \in {"configure", "settle", "start", "fire", "wait", "exit", "unlock"}
        /\ t \in cs => pc[t] \in {"fire", "wait", "exit"} /\ owner = t
        /\ pc[t] \in {"exit", "unlock"} /\ res[t] = "ok" => owner = t

\* Until a wait times out, the transfer and the give belong to the one that waits.
Waiting ==
    /\ xfer # Idle => xfer.for \in Threads /\ cb \in Threads /\ xfer.stage \in {1, 2}
    /\ \A t \in Threads : /\ pc[t] = "fire" => cb = t
                          /\ pc[t] = "wait" => sem = 1 \/ xfer # Idle
    /\ ~ late => /\ xfer # Idle => pc[xfer.for] = "wait" /\ cb = xfer.for /\ sem = 0
                 /\ sem = 1 => \E t \in Threads : pc[t] = "wait"

\* The work is scheduled only behind transactions that had begun before.
Overtaking ==
    /\ work => \A t \in Threads : pc[t] # "idle" => t \in overtaken
    /\ \A t \in Threads :
          /\ pc[t] = "settle" => wire = t \/ hit
          /\ pc[t] \in {"start", "fire", "wait", "exit", "unlock"} /\ owner = t
             => prev = t \/ t \in overtaken
    /\ prev \in {None, wire} \/ hit \/ \E t \in Threads : pc[t] = "settle" /\ wire = t

\* A transaction that nothing has disturbed.
Sound(t) == ~ late /\ t \notin overtaken /\ wire = prev

\* What an undisturbed transaction has clocked is told by its context.
Progress ==
    \A t \in Threads :
        /\ ~ late /\ pc[t] \in {"lock", "configure", "settle", "start", "fire"}
              => ctx[t].err = "EIO"
        /\ Sound(t) /\ pc[t] = "wait" /\ xfer # Idle =>
              /\ xfer.intact
              /\ xfer.stage = 1 => ctx[t].err = "EIO"
              /\ xfer.stage = 2 => ~ ctx[t].more /\ 1 \in clocked[t]
        /\ \/ pc[t] = "wait" /\ xfer = Idle /\ sem = 1
           \/ pc[t] \in {"exit", "unlock"} /\ res[t] = "ok"
           => (Sound(t) /\ ctx[t].err = "ok" => clocked[t] = {1, 2})

IInv == SpiTypeOK /\ Holding /\ Waiting /\ Overtaking /\ Progress
-------------------------------------------------------------------------------
Contexts == [Threads -> [err : {"ok", "EIO", "EBUSY"}, more : BOOLEAN]]

LEMMA InitHolds == Init => IInv
<1> SUFFICES ASSUME Init PROVE IInv
  OBVIOUS
<1> USE SpiAssumption DEF Init
<1>1. SpiTypeOK
  <2>1. xfer \in [for : Threads \cup {None}, stage : 0..2, intact : BOOLEAN]
    BY DEF Idle
  <2>2. ctx \in Contexts
    BY DEF Contexts
  <2>3. pc \in [Threads -> {"idle"}] /\ res \in [Threads -> {"ok"}] /\ clocked \in [Threads -> {{}}]
    OBVIOUS
  <2> QED BY <2>1, <2>2, <2>3 DEF SpiTypeOK, Contexts
<1>2. Holding
  BY DEF Holding
<1>3. Waiting
  BY DEF Waiting
<1>4. Overtaking
  BY DEF Overtaking
<1>5. Progress
  BY DEF Progress
<1> QED BY <1>1, <1>2, <1>3, <1>4, <1>5 DEF IInv

LEMMA TypeStep == SpiTypeOK /\ Waiting /\ [Next]_vars => SpiTypeOK'
<1> SUFFICES ASSUME SpiTypeOK, Waiting, [Next]_vars PROVE SpiTypeOK'
  OBVIOUS
<1> USE DEF SpiTypeOK, Goto, busVars, wireVars, history
<1>1. ASSUME NEW t \in Threads, Thread(t) PROVE SpiTypeOK'
  <2>1. CASE Begin(t)
    <3>1. PICK two \in BOOLEAN : ctx' = [ctx EXCEPT ![t] = [err |-> "EIO", more |-> two]]
      BY <2>1 DEF Begin
    <3>2. ctx' \in Contexts
      BY <3>1 DEF Contexts
    <3> QED BY <2>1, <3>2 DEF Begin, Contexts
  <2>2. CASE Lock(t)
    BY <2>2 DEF Lock
  <2>3. CASE Configure(t)
    BY <2>3 DEF Configure
  <2>4. CASE Settle(t)
    BY <2>4 DEF Settle
  <2>5. CASE Start(t)
    BY <2>5 DEF Start
  <2>6. CASE Fire(t)
    <3>1. Transfer(t, 1) \in [for : Threads \cup {None}, stage : 0..2, intact : BOOLEAN]
      BY DEF Transfer
    <3> QED BY <2>6, <3>1 DEF Fire
  <2>7. CASE Take(t)
    BY <2>7 DEF Take
  <2>8. CASE Exit(t)
    BY <2>8 DEF Exit
  <2>9. CASE Unlock(t)
    <3>1. CASE owner = t /\ owner' = None /\ Goto(t, "check") /\ UNCHANGED <<res, clocked>>
      BY <2>9, <3>1 DEF Unlock
    <3>2. CASE owner # t /\ Return(t) /\ UNCHANGED owner
      BY <2>9, <3>2 DEF Unlock, Return
    <3> QED BY <2>9, <3>1, <3>2 DEF Unlock
  <2>10. CASE Check(t)
    <3>1. CASE prev # None /\ Goto(t, "schedule") /\ UNCHANGED <<res, clocked>>
      BY <2>10, <3>1 DEF Check
    <3>2. CASE prev = None /\ Return(t)
      BY <2>10, <3>2 DEF Check, Return
    <3> QED BY <2>10, <3>1, <3>2 DEF Check
  <2>11. CASE Schedule(t)
    BY <2>11 DEF Schedule, Return
  <2> QED BY <1>1, <2>1, <2>2, <2>3, <2>4, <2>5, <2>6, <2>7, <2>8, <2>9, <2>10, <2>11 DEF Thread
<1>2. ASSUME NEW t \in Threads, Timeout(t) PROVE SpiTypeOK'
  BY <1>2 DEF Timeout, LockTimeout, TakeTimeout
<1>3. CASE disable_sck
  BY <1>3 DEF disable_sck, Idle
<1>4. CASE spi_irq_handler
  <2>1. clocked' \in [Threads -> SUBSET {1, 2}]
    <3>1. CASE clocked' = clocked
      BY <3>1
    <3>2. CASE clocked' = [clocked EXCEPT ![xfer.for] = @ \cup {xfer.stage}] /\ xfer.stage \in {1, 2}
      BY <3>2
    <3> QED BY <1>4, <3>1, <3>2 DEF spi_irq_handler, Waiting
  <2>2. sem' \in {0, 1} /\ xfer' \in [for : Threads \cup {None}, stage : 0..2, intact : BOOLEAN]
    <3>1. \A t \in Threads \cup {None} : Transfer(t, 2) \in [for : Threads \cup {None}, stage : 0..2, intact : BOOLEAN]
      BY DEF Transfer
    <3>2. Idle \in [for : Threads \cup {None}, stage : 0..2, intact : BOOLEAN]
      BY DEF Idle
    <3>3. (sem' = 1 /\ xfer' = Idle) \/ (sem' = sem /\ xfer' = Transfer(cb, 2))
      <4>1. CASE Chain(cb)
        BY <4>1 DEF Chain
      <4>2. CASE HandshakeFails(cb)
        BY <4>2 DEF HandshakeFails, Give
      <4>3. CASE Give
        BY <4>3 DEF Give
      <4> QED BY <1>4, <4>1, <4>2, <4>3 DEF spi_irq_handler
    <3>4. CASE sem' = 1 /\ xfer' = Idle
      BY <3>2, <3>4
    <3>5. CASE sem' = sem /\ xfer' = Transfer(cb, 2)
      BY <3>1, <3>5
    <3> QED BY <3>3, <3>4, <3>5
  <2>3. ctx' \in Contexts
    <3>1. CASE UNCHANGED ctx
      BY <3>1 DEF Contexts
    <3>2. CASE Chain(cb)
      <4>1. [err |-> "ok", more |-> FALSE] \in [err : {"ok", "EIO", "EBUSY"}, more : BOOLEAN]
        OBVIOUS
      <4> QED BY <3>2, <4>1 DEF Chain, Contexts
    <3>3. CASE HandshakeFails(cb)
      BY <3>3 DEF HandshakeFails, Contexts
    <3> QED BY <1>4, <3>1, <3>2, <3>3 DEF spi_irq_handler
  <2> QED BY <1>4, <2>1, <2>2, <2>3 DEF spi_irq_handler, Contexts
<1>5. CASE UNCHANGED vars
  BY <1>5 DEF vars
<1> QED BY <1>1, <1>2, <1>3, <1>4, <1>5 DEF Next

LEMMA HoldingStep == SpiTypeOK /\ Holding /\ [Next]_vars => Holding'
<1> SUFFICES ASSUME SpiTypeOK, Holding, [Next]_vars PROVE Holding'
  OBVIOUS
<1> USE SpiAssumption DEF SpiTypeOK, Holding, Goto, busVars, wireVars, history
<1>1. ASSUME NEW t \in Threads, Thread(t) PROVE Holding'
  <2>1. CASE Begin(t)
    BY <2>1 DEF Begin
  <2>2. CASE Lock(t)
    BY <2>2 DEF Lock
  <2>3. CASE Configure(t)
    BY <2>3 DEF Configure
  <2>4. CASE Settle(t)
    BY <2>4 DEF Settle
  <2>5. CASE Start(t)
    BY <2>5 DEF Start
  <2>6. CASE Fire(t)
    BY <2>6 DEF Fire
  <2>7. CASE Take(t)
    BY <2>7 DEF Take
  <2>8. CASE Exit(t)
    BY <2>8 DEF Exit
  <2>9. CASE Unlock(t)
    BY <2>9 DEF Unlock, Return
  <2>10. CASE Check(t)
    BY <2>10 DEF Check, Return
  <2>11. CASE Schedule(t)
    BY <2>11 DEF Schedule, Return
  <2> QED BY <1>1, <2>1, <2>2, <2>3, <2>4, <2>5, <2>6, <2>7, <2>8, <2>9, <2>10, <2>11 DEF Thread
<1>2. ASSUME NEW t \in Threads, Timeout(t) PROVE Holding'
  BY <1>2 DEF Timeout, LockTimeout, TakeTimeout
<1>3. CASE disable_sck
  BY <1>3 DEF disable_sck
<1>4. CASE spi_irq_handler
  BY <1>4 DEF spi_irq_handler
<1>5. CASE UNCHANGED vars
  BY <1>5 DEF vars
<1> QED BY <1>1, <1>2, <1>3, <1>4, <1>5 DEF Next

LEMMA WaitingStep == SpiTypeOK /\ Holding /\ Waiting /\ [Next]_vars => Waiting'
<1> SUFFICES ASSUME SpiTypeOK, Holding, Waiting, [Next]_vars PROVE Waiting'
  OBVIOUS
<1> USE SpiAssumption DEF SpiTypeOK, Holding, Waiting, Goto, busVars, wireVars, history
<1>1. ASSUME NEW t \in Threads, Thread(t) PROVE Waiting'
  <2>1. CASE Begin(t)
    BY <2>1 DEF Begin
  <2>2. CASE Lock(t)
    BY <2>2 DEF Lock
  <2>3. CASE Configure(t)
    BY <2>3 DEF Configure
  <2>4. CASE Settle(t)
    BY <2>4 DEF Settle
  <2>5. CASE Start(t)
    BY <2>5 DEF Start
  <2>6. CASE Fire(t)
    <3>1. Transfer(t, 1) # Idle /\ Transfer(t, 1).for = t /\ Transfer(t, 1).stage = 1
      BY DEF Transfer, Idle
    <3>2. ~ late => xfer = Idle /\ sem = 0
      BY <2>6 DEF Fire
    <3>3. xfer' = Transfer(t, 1) \/ (xfer # Idle /\ xfer' = xfer)
      BY <2>6 DEF Fire
    <3>4. xfer' # Idle /\ xfer'.for \in Threads /\ xfer'.stage \in {1, 2} /\ cb \in Threads
      BY <2>6, <3>1, <3>3 DEF Fire
    <3> QED BY <2>6, <3>1, <3>2, <3>3, <3>4 DEF Fire
  <2>7. CASE Take(t)
    BY <2>7 DEF Take
  <2>8. CASE Exit(t)
    BY <2>8 DEF Exit
  <2>9. CASE Unlock(t)
    BY <2>9 DEF Unlock, Return
  <2>10. CASE Check(t)
    BY <2>10 DEF Check, Return
  <2>11. CASE Schedule(t)
    BY <2>11 DEF Schedule, Return
  <2> QED BY <1>1, <2>1, <2>2, <2>3, <2>4, <2>5, <2>6, <2>7, <2>8, <2>9, <2>10, <2>11 DEF Thread
<1>2. ASSUME NEW t \in Threads, Timeout(t) PROVE Waiting'
  BY <1>2 DEF Timeout, LockTimeout, TakeTimeout
<1>3. CASE disable_sck
  BY <1>3 DEF disable_sck, Idle
<1>4. CASE spi_irq_handler
  BY <1>4 DEF spi_irq_handler, Chain, HandshakeFails, Give, Transfer, Idle
<1>5. CASE UNCHANGED vars
  BY <1>5 DEF vars
<1> QED BY <1>1, <1>2, <1>3, <1>4, <1>5 DEF Next

LEMMA OvertakingStep == SpiTypeOK /\ Holding /\ Overtaking /\ [Next]_vars => Overtaking'
<1> SUFFICES ASSUME SpiTypeOK, Holding, Overtaking, [Next]_vars PROVE Overtaking'
  OBVIOUS
<1> USE SpiAssumption DEF SpiTypeOK, Holding, Overtaking, Goto, busVars, wireVars, history
<1>1. ASSUME NEW t \in Threads, Thread(t) PROVE Overtaking'
  <2>1. CASE Begin(t)
    BY <2>1 DEF Begin
  <2>2. CASE Lock(t)
    BY <2>2 DEF Lock
  <2>3. CASE Configure(t)
    BY <2>3 DEF Configure
  <2>4. CASE Settle(t)
    BY <2>4 DEF Settle
  <2>5. CASE Start(t)
    BY <2>5 DEF Start
  <2>6. CASE Fire(t)
    BY <2>6 DEF Fire, Transfer, Idle
  <2>7. CASE Take(t)
    BY <2>7 DEF Take
  <2>8. CASE Exit(t)
    BY <2>8 DEF Exit
  <2>9. CASE Unlock(t)
    BY <2>9 DEF Unlock, Return
  <2>10. CASE Check(t)
    BY <2>10 DEF Check, Return
  <2>11. CASE Schedule(t)
    BY <2>11 DEF Schedule, Return
  <2> QED BY <1>1, <2>1, <2>2, <2>3, <2>4, <2>5, <2>6, <2>7, <2>8, <2>9, <2>10, <2>11 DEF Thread
<1>2. ASSUME NEW t \in Threads, Timeout(t) PROVE Overtaking'
  BY <1>2 DEF Timeout, LockTimeout, TakeTimeout
<1>3. CASE disable_sck
  BY <1>3 DEF disable_sck, Idle
<1>4. CASE spi_irq_handler
  BY <1>4 DEF spi_irq_handler
<1>5. CASE UNCHANGED vars
  BY <1>5 DEF vars
<1> QED BY <1>1, <1>2, <1>3, <1>4, <1>5 DEF Next


LEMMA ProgressStep == SpiTypeOK /\ Holding /\ Waiting /\ Overtaking /\ Progress /\ [Next]_vars => Progress'
<1> SUFFICES ASSUME SpiTypeOK, Holding, Waiting, Overtaking, Progress, [Next]_vars PROVE Progress'
  OBVIOUS
<1> USE SpiAssumption DEF SpiTypeOK, Holding, Waiting, Overtaking, Progress, Sound, Goto, busVars, wireVars, history
<1>1. ASSUME NEW t \in Threads, Thread(t) PROVE Progress'
  <2>1. CASE Begin(t)
    BY <2>1 DEF Begin
  <2>2. CASE Lock(t)
    BY <2>2 DEF Lock
  <2>3. CASE Configure(t)
    BY <2>3 DEF Configure
  <2>4. CASE Settle(t)
    BY <2>4 DEF Settle
  <2>5. CASE Start(t)
    BY <2>5 DEF Start
  <2>6. CASE Fire(t)
    <3>1. Sound(t) => xfer' = Transfer(t, 1) /\ wire = t
      BY <2>6 DEF Fire
    <3>2. Transfer(t, 1) # Idle /\ Transfer(t, 1).stage = 1 /\ (wire = t => Transfer(t, 1).intact)
      BY DEF Transfer, Idle
    <3>3. xfer' # Idle
      BY <2>6, <3>2 DEF Fire
    <3> QED BY <2>6, <3>1, <3>2, <3>3 DEF Fire
  <2>7. CASE Take(t)
    BY <2>7 DEF Take
  <2>8. CASE Exit(t)
    BY <2>8 DEF Exit
  <2>9. CASE Unlock(t)
    BY <2>9 DEF Unlock, Return
  <2>10. CASE Check(t)
    BY <2>10 DEF Check, Return
  <2>11. CASE Schedule(t)
    BY <2>11 DEF Schedule, Return
  <2> QED BY <1>1, <2>1, <2>2, <2>3, <2>4, <2>5, <2>6, <2>7, <2>8, <2>9, <2>10, <2>11 DEF Thread
<1>2. ASSUME NEW t \in Threads, Timeout(t) PROVE Progress'
  BY <1>2 DEF Timeout, LockTimeout, TakeTimeout
<1>3. CASE disable_sck
  BY <1>3 DEF disable_sck, Idle
<1>4. CASE spi_irq_handler
  BY <1>4 DEF spi_irq_handler, Chain, HandshakeFails, Give, Transfer, Idle
<1>5. CASE UNCHANGED vars
  BY <1>5 DEF vars
<1> QED BY <1>1, <1>2, <1>3, <1>4, <1>5 DEF Next

-------------------------------------------------------------------------------
THEOREM Invariance == Spec => []IInv
<1>1. IInv /\ [Next]_vars => IInv'
  BY TypeStep, HoldingStep, WaitingStep, OvertakingStep, ProgressStep DEF IInv
<1> QED BY InitHolds, <1>1, PTL DEF Spec

\* The two chip selects are never active together and nobody waits for a wake-up
\* that is not on its way (spi.c:133-177).
THEOREM BusShared == Spec => []SpiInv
<1>1. IInv => SpiInv
  <2> SUFFICES ASSUME IInv PROVE SpiInv
    OBVIOUS
  <2>1. cs \subseteq {owner}
    BY DEF IInv, SpiTypeOK, Holding
  <2> QED BY <2>1 DEF IInv, SpiInv, OneSlaveSelected, WaiterIsServed, Waiting
<1> QED BY Invariance, <1>1, PTL

\* A transaction leaves neither a transfer nor a give behind before some wait has
\* timed out (spi.c:158).
THEOREM LeavesNothing == Spec => []NothingLeftBehind
<1>1. IInv => NothingLeftBehind
  BY DEF IInv, NothingLeftBehind, GiveIsTaken, DmaWhileWaiting, Waiting
<1> QED BY Invariance, <1>1, PTL

\* disable_sck takes the clock only from a client it was scheduled behind, and
\* prev_config is wrong only after it ran inside spi_configure, between the
\* writing of the registers and that of prev_config (spi.c:67, 80-90).
THEOREM ClockOnlyLostSo == Spec => []ClockKept
<1>1. IInv => ClockKept
  BY DEF IInv, ClockKept, ClockTakenFromOvertaken, RecordedIsWired, SpiTypeOK, Holding, Overtaking
<1> QED BY Invariance, <1>1, PTL

\* A call returns 0 only for two transfers clocked as configured, but for the
\* three causes the property names (adns7530.c:41, avr_comm.c:104).
THEOREM SuccessMeansDone == Spec => []SuccessIsComplete
<1>1. IInv => SuccessIsComplete
  BY DEF IInv, SuccessIsComplete, Progress, Sound
<1> QED BY Invariance, <1>1, PTL
================================================================================

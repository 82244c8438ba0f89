---------------------------- MODULE DebounceProofs ----------------------------
(***************************************************************************)
(* The safety properties of the GPIO edges and of the debounce service on    *)
(* top of them, for any set of pins, any number of shifts and any set of     *)
(* pins that enable themselves.                                              *)
(***************************************************************************)
EXTENDS Debounce, TLAPS

Connected(p) == sense[p] = IF fromLevel[p] = 1 THEN "low" ELSE "high"
NoRequest(p) == \A c \in Cells : p \notin shiftarr[c]

\* Where the handler's local variables are in use, and what they hold.
Locals ==
    /\ isr = "idle" => ~ ticked
    /\ isr \in {"idle", "read", "load"} => from = {}
    /\ isr = "store" => /\ from \subseteq word /\ word \subseteq intEnabled
                        /\ word \cap overwritten = {}
                        /\ intEnabled \ word \subseteq overwritten
    /\ isr # "store" => word = {} /\ overwritten \cap intEnabled = {}
    /\ isr = "callback" <=> pin # NoPin
    /\ step # "none" => isr = "callback"
    /\ from \cap overwritten = {} /\ pin \notin from \cup overwritten

\* The requests lie ahead of the timer, the one just filed in the last cell.
Ring ==
    /\ \A c \in Cells : \A p \in shiftarr[c] :
          \/ Distance(c) \in 1..movesLeft
          \/ step = "filed" /\ p = pin /\ Distance(c) >= N - 1 /\ (ticked \/ Distance(c) = N)
    /\ step # "none" => \E c \in Cells :
          /\ pin \in shiftarr[c]
          /\ Distance(c) >= N - 1 /\ (ticked \/ Distance(c) = N)
          /\ step # "filed" => Distance(c) <= movesLeft
    /\ step \in {"start", "user"} => movesLeft >= N - 1 /\ (ticked \/ movesLeft = N)
    /\ step # "start" => (timer <=> movesLeft # 0)
    /\ timer => movesLeft # 0

\* A pin that is enabled, overwritten or in the handler's list is connected.
Wired ==
    \A p \in Pins :
        /\ p \in intEnabled \cup overwritten \cup from
              => Connected(p) \/ (p = pin /\ p \in Rearming /\ sense[p] = "nosense")
        /\ p \notin intEnabled \cup overwritten \cup from => sense[p] = "nosense"

\* A pin whose callback does not enable it itself is in one place at a time, and
\* its age tells how far its request has come.
OnePlace ==
    \A p \in Pins \ Rearming :
        /\ p \in intEnabled \cup from \cup overwritten => age[p] = N /\ NoRequest(p)
        /\ p = pin => p \notin intEnabled
        /\ p = pin /\ step = "none" => age[p] = N /\ NoRequest(p)
        /\ isr \in {"loop", "callback"} => p \notin from \cap intEnabled
        /\ \A c \in Cells : p \in shiftarr[c] => age[p] = N - Distance(c)

OverwrittenWanted == overwritten \cup word \cup from \subseteq wanted

\* A pin that meets its condition unseen has the event to come, or is in the list.
Latched ==
    \A p \in intEnabled \ masked :
        isr # "read" /\ Meets(p, level, sense) =>
            portEvent \/ (isr = "load" /\ levels[p] # fromLevel[p]) \/ p \in from

IInv == /\ DebounceTypeOK /\ Locals /\ Ring /\ Wired /\ OnePlace /\ OverwrittenWanted
        /\ UnsetStaysUnset /\ NoPinForgotten /\ Latched
-------------------------------------------------------------------------------
LEMMA InitHolds == Init => IInv
<1> SUFFICES ASSUME Init PROVE IInv
  OBVIOUS
<1> USE GpioAssumption, DebounceAssumption DEF Init, GpioInit
<1>1. DebounceTypeOK
  <2>1. GpioTypeOK
    BY DEF GpioTypeOK, Level, NoLevels
  <2>2. shiftarr \in [Cells -> SUBSET Pins] /\ cell0 \in Cells
    BY DEF Cells
  <2>3. age \in [Pins -> 0..N] /\ movesLeft \in 0..N
    OBVIOUS
  <2> QED BY <2>1, <2>2, <2>3 DEF DebounceTypeOK
<1>2. Locals /\ Ring
  BY DEF Locals, Ring, NoPin, Cells
<1>3. Wired /\ OnePlace
  BY DEF Wired, OnePlace, NoRequest, Cells
<1>4. OverwrittenWanted /\ UnsetStaysUnset /\ NoPinForgotten /\ Latched
  BY DEF OverwrittenWanted, UnsetStaysUnset, NoPinForgotten, Latched, InHand, Cells
<1> QED BY <1>1, <1>2, <1>3, <1>4 DEF IInv

\* Distances along the ring: phys(i) is i cells from cell 0, and no other cell is.
LEMMA RingFacts ==
    ASSUME cell0 \in Cells
    PROVE  /\ \A i \in 1..N : circular_index_to_phys(i) \in Cells
                              /\ Distance(circular_index_to_phys(i)) = i
           /\ \A c \in Cells : Distance(c) \in 0..N
           /\ \A c \in Cells, d \in Cells : Distance(c) = Distance(d) => c = d
BY DebounceAssumption DEF Cells, circular_index_to_phys, Distance

\* A shift brings every cell one nearer; cell 0 becomes the last one.
LEMMA ShiftFacts ==
    ASSUME cell0 \in Cells, cell0' = circular_index_to_phys(1)
    PROVE  /\ cell0' \in Cells
           /\ \A c \in Cells : Distance(c)' = IF Distance(c) = 0 THEN N ELSE Distance(c) - 1
           /\ \A c \in Cells : Distance(c) = 1 <=> c = cell0'
BY DebounceAssumption DEF Cells, circular_index_to_phys, Distance

\* A pin that meets its condition with no event latched met it before.
LEMMA LatchFacts ==
    ASSUME Latch
    PROVE  /\ portEvent' \in BOOLEAN /\ masked' \subseteq Pins
           /\ portEvent => portEvent'
           /\ \A p \in Pins : Meets(p, level', sense') /\ p \notin masked' /\ ~ portEvent'
                              => Meets(p, level, sense) /\ p \notin masked
<1>1. portEvent' \in BOOLEAN /\ (portEvent => portEvent')
  BY DEF Latch
<1>2. masked' \subseteq Pins
  BY DEF Latch
<1>3. ASSUME NEW p \in Pins, Meets(p, level', sense'), p \notin masked', ~ portEvent'
      PROVE  Meets(p, level, sense) /\ p \notin masked
  <2>1. Detect(level', sense')
    BY <1>3 DEF Detect
  <2>2. Detect(level, sense)
    BY <1>3, <2>1 DEF Latch, Rises
  <2> QED BY <1>3, <2>2 DEF Latch
<1> QED BY <1>1, <1>2, <1>3

\* What enabling a set of pins with their present levels does, to them and to the
\* others.
Enables(S) ==
    /\ intEnabled' = intEnabled \cup S /\ level' = level
    /\ fromLevel' \in [Pins -> Level] /\ sense' \in [Pins -> {"nosense", "low", "high"}]
    /\ portEvent' \in BOOLEAN /\ masked' \subseteq Pins
    /\ \A p \in Pins \ S : fromLevel'[p] = fromLevel[p] /\ sense'[p] = sense[p]
    /\ \A p \in S : sense'[p] = IF fromLevel'[p] = 1 THEN "low" ELSE "high"
    /\ portEvent => portEvent'
    /\ \A p \in Pins : Meets(p, level', sense') /\ p \notin masked' /\ ~ portEvent'
                       => p \notin S /\ Meets(p, level, sense) /\ p \notin masked

LEMMA SetFacts ==
    ASSUME DebounceTypeOK, NEW S \in SUBSET Pins, gpio_set_edge_cb_mask(S, level)
    PROVE  Enables(S)
<1>1. /\ intEnabled' = intEnabled \cup S /\ level' = level
      /\ fromLevel' = [p \in Pins |-> IF p \in S THEN level[p] ELSE fromLevel[p]]
      /\ sense' = [p \in Pins |-> IF p \notin S THEN sense[p]
                                  ELSE IF level[p] = 1 THEN "low" ELSE "high"]
      /\ Latch
  BY DEF gpio_set_edge_cb_mask
<1>2. fromLevel' \in [Pins -> Level] /\ sense' \in [Pins -> {"nosense", "low", "high"}]
  BY <1>1 DEF DebounceTypeOK, GpioTypeOK
<1>3. \A p \in Pins \ S : fromLevel'[p] = fromLevel[p] /\ sense'[p] = sense[p]
  BY <1>1
<1>4. \A p \in S : sense'[p] = IF fromLevel'[p] = 1 THEN "low" ELSE "high"
  BY <1>1
<1>5. \A p \in S : ~ Meets(p, level', sense')
  BY <1>1 DEF Meets, DebounceTypeOK, GpioTypeOK, Level
<1>6. /\ portEvent' \in BOOLEAN /\ masked' \subseteq Pins /\ (portEvent => portEvent')
      /\ \A p \in Pins : Meets(p, level', sense') /\ p \notin masked' /\ ~ portEvent'
                         => p \notin S /\ Meets(p, level, sense) /\ p \notin masked
  BY <1>1, <1>5, LatchFacts
<1> QED BY <1>1, <1>2, <1>3, <1>4, <1>6 DEF Enables

LEMMA SetNone ==
    ASSUME DebounceTypeOK, UNCHANGED <<level, portVars>>
    PROVE  Enables({})
<1>1. UNCHANGED <<level, sense, portEvent, intEnabled, fromLevel, masked>>
  BY DEF portVars
<1>2. \A p \in Pins : Meets(p, level', sense') => Meets(p, level, sense)
  BY <1>1 DEF Meets
<1>3. portEvent' \in BOOLEAN /\ (portEvent => portEvent')
  BY <1>1 DEF DebounceTypeOK, GpioTypeOK
<1> QED BY <1>1, <1>2, <1>3 DEF Enables, DebounceTypeOK, GpioTypeOK

\* What a run of the timer's handler does: cell0' is the cell it takes out.
TimerEffect ==
    /\ cell0' \in Cells /\ movesLeft \in 1..N /\ movesLeft' = movesLeft - 1
    /\ timer' \in BOOLEAN /\ (timer' <=> movesLeft' # 0)
    /\ shiftarr' = [shiftarr EXCEPT ![cell0'] = {}] /\ shiftarr[cell0'] \subseteq Pins
    /\ \A c \in Cells : Distance(c)' = IF Distance(c) = 0 THEN N ELSE Distance(c) - 1
    /\ \A c \in Cells : Distance(c) \in 0..N /\ (Distance(c) = 1 <=> c = cell0')
    /\ Enables(shiftarr[cell0'])
    /\ overwritten' = IF isr = "store" THEN overwritten \cup (shiftarr[cell0'] \ word)
                                       ELSE overwritten \ shiftarr[cell0']
    /\ age' = [p \in Pins |-> IF age[p] < N THEN age[p] + 1 ELSE N]
    /\ UNCHANGED <<isr, levels, from, word, pin, step, wanted>>
    /\ (isr # "idle" => ~ ticked) /\ ticked' \in BOOLEAN /\ (ticked' <=> isr # "idle")

LEMMA TimerFacts ==
    ASSUME DebounceTypeOK, Ring, TimerCb
    PROVE  TimerEffect
<1>1. /\ timer /\ movesLeft' = movesLeft - 1
      /\ cell0' = circular_index_to_phys(1)
      /\ shiftarr' = [shiftarr EXCEPT ![cell0'] = {}]
      /\ IF shiftarr[cell0'] # {} THEN gpio_set_edge_cb_mask(shiftarr[cell0'], level)
                                  ELSE UNCHANGED <<level, portVars>>
      /\ overwritten' = IF isr = "store" THEN overwritten \cup (shiftarr[cell0'] \ word)
                                         ELSE overwritten \ shiftarr[cell0']
      /\ age' = [p \in Pins |-> IF age[p] < N THEN age[p] + 1 ELSE N]
      /\ UNCHANGED <<isr, levels, from, word, pin, step, wanted>>
  BY DEF TimerCb, isrVars
<1>2. /\ timer' \in BOOLEAN /\ (timer' <=> movesLeft' # 0)
      /\ (isr # "idle" => ~ ticked) /\ ticked' \in BOOLEAN /\ (ticked' <=> isr # "idle")
  BY DEF TimerCb
<1>3. movesLeft \in 1..N /\ cell0 \in Cells
  BY <1>1, DebounceAssumption DEF Ring, DebounceTypeOK
<1>4. /\ cell0' \in Cells
      /\ \A c \in Cells : Distance(c)' = IF Distance(c) = 0 THEN N ELSE Distance(c) - 1
      /\ \A c \in Cells : Distance(c) \in 0..N /\ (Distance(c) = 1 <=> c = cell0')
  BY <1>1, <1>3, ShiftFacts, RingFacts
<1>5. shiftarr[cell0'] \subseteq Pins
  BY <1>4 DEF DebounceTypeOK
<1>6. Enables(shiftarr[cell0'])
  <2>1. CASE shiftarr[cell0'] # {}
    BY <1>1, <1>5, <2>1, SetFacts
  <2>2. CASE shiftarr[cell0'] = {}
    BY <1>1, <2>2, SetNone
  <2> QED BY <2>1, <2>2
<1> QED BY <1>1, <1>2, <1>3, <1>4, <1>5, <1>6 DEF TimerEffect

SetEdgeEffect(p) ==
    /\ isr = "idle" /\ p \notin wanted /\ wanted' = wanted \cup {p}
    /\ age' = [age EXCEPT ![p] = N] /\ overwritten' = overwritten \ {p}
    /\ UNCHANGED <<isr, levels, from, word, pin>>
    /\ UNCHANGED <<shiftarr, cell0, movesLeft, timer, step, ticked>>
    /\ Enables({p})

LEMMA SetEdgeFacts ==
    ASSUME DebounceTypeOK, NEW p \in Pins, SetEdgeCb(p)
    PROVE  SetEdgeEffect(p)
<1> DEFINE S == {p}
<1>1. S \in SUBSET Pins /\ gpio_set_edge_cb_mask(S, level)
  BY DEF SetEdgeCb
<1>2. Enables(S)
  <2> HIDE DEF S
  <2> QED BY <1>1, SetFacts
<1>3. /\ isr = "idle" /\ p \notin wanted /\ wanted' = wanted \cup {p}
      /\ age' = [age EXCEPT ![p] = N] /\ overwritten' = overwritten \ {p}
      /\ UNCHANGED <<isr, levels, from, word, pin>>
      /\ UNCHANGED <<shiftarr, cell0, movesLeft, timer, step, ticked>>
  BY DEF SetEdgeCb, isrVars, debounceVars
<1> QED BY <1>2, <1>3 DEF SetEdgeEffect

\* The user's callback may enable its pin; it leaves every other alone.
UserEffect ==
    /\ isr = "callback" /\ pin \in Pins /\ step = "user"
    /\ isr' = "loop" /\ pin' = NoPin /\ step' = "none"
    /\ UNCHANGED <<levels, from, word>>
    /\ UNCHANGED <<shiftarr, cell0, movesLeft, timer, ticked, age, overwritten, wanted>>
    /\ \E S \in SUBSET Rearming : S \subseteq {pin} /\ Enables(S)
       /\ (pin \in Rearming => pin \in S)

LEMMA UserFacts ==
    ASSUME DebounceTypeOK, Locals, UserCallback
    PROVE  UserEffect
<1>1. /\ isr = "callback" /\ step = "user" /\ isr' = "loop" /\ pin' = NoPin /\ step' = "none"
      /\ UNCHANGED <<levels, from, word>>
      /\ UNCHANGED <<shiftarr, cell0, movesLeft, timer, ticked, age, overwritten, wanted>>
      /\ IF pin \in Rearming THEN gpio_set_edge_cb_mask({pin}, level) ELSE UNCHANGED <<level, portVars>>
  BY DEF UserCallback, IsrReturn
<1>2. pin \in Pins
  BY <1>1 DEF Locals, DebounceTypeOK, GpioTypeOK
<1>3. \E S \in SUBSET Rearming : S \subseteq {pin} /\ Enables(S) /\ (pin \in Rearming => pin \in S)
  <2>1. CASE pin \in Rearming
    <3> DEFINE S == {pin}
    <3>1. S \in SUBSET Pins /\ S \in SUBSET Rearming /\ gpio_set_edge_cb_mask(S, level)
      BY <1>1, <1>2, <2>1
    <3>2. Enables(S)
      <4> HIDE DEF S
      <4> QED BY <3>1, SetFacts
    <3> QED BY <3>1, <3>2
  <2>2. CASE pin \notin Rearming
    <3>1. Enables({})
      BY <1>1, <2>2, SetNone
    <3> QED BY <2>2, <3>1
  <2> QED BY <2>1, <2>2
<1> QED BY <1>1, <1>2, <1>3 DEF UserEffect

LEMMA SameDistance ==
    ASSUME cell0' = cell0
    PROVE  \A c \in Cells : Distance(c)' = Distance(c)
BY DEF Distance

LEMMA TypeStep ==
    DebounceTypeOK /\ Ring /\ Locals /\ [Next]_vars
    => DebounceTypeOK'
<1> SUFFICES ASSUME DebounceTypeOK, Ring, Locals, [Next]_vars
             PROVE  DebounceTypeOK'
  OBVIOUS
<1> USE GpioAssumption, DebounceAssumption DEF gpioVars, portVars, isrVars, debounceVars, historyVars
<1>1. ASSUME NEW p \in Pins, PinFlips(p) PROVE DebounceTypeOK'
  BY <1>1, LatchFacts DEF PinFlips, Flip, DebounceTypeOK, GpioTypeOK, Level, Cells
<1>2. ASSUME NEW p \in Pins, SetEdgeCb(p) PROVE DebounceTypeOK'
  <2>1. SetEdgeEffect(p)
    BY <1>2, SetEdgeFacts
  <2> QED BY <2>1 DEF SetEdgeEffect, Enables, DebounceTypeOK, GpioTypeOK, Level, Cells
<1>3. ASSUME NEW p \in Pins, UnsetEdgeCb(p) PROVE DebounceTypeOK'
  BY <1>3, LatchFacts DEF UnsetEdgeCb, gpio_unset_edge_cb_mask, DebounceTypeOK, GpioTypeOK,
       Level, Cells
<1>4. ASSUME HandlerRuns, IsrEnter PROVE DebounceTypeOK'
  BY <1>4 DEF HandlerRuns, IsrEnter, DebounceTypeOK, GpioTypeOK, Level, Cells
<1>5. ASSUME HandlerRuns, IsrRead PROVE DebounceTypeOK'
  BY <1>5 DEF HandlerRuns, IsrRead, DebounceTypeOK, GpioTypeOK, Level, Cells
<1>6. ASSUME HandlerRuns, IsrLoad PROVE DebounceTypeOK'
  BY <1>6 DEF HandlerRuns, IsrLoad, DebounceTypeOK, GpioTypeOK, Level, Cells
<1>7. ASSUME HandlerRuns, IsrStore PROVE DebounceTypeOK'
  BY <1>7 DEF HandlerRuns, IsrStore, DebounceTypeOK, GpioTypeOK, Level, Cells
<1>8. ASSUME HandlerRuns, IsrExit PROVE DebounceTypeOK'
  <2>1. levels' \in [Pins -> Level]
    BY <1>8 DEF IsrExit, NoLevels, Level
  <2> QED BY <1>8, <2>1 DEF HandlerRuns, IsrExit, DebounceTypeOK, GpioTypeOK, Level, Cells
<1>9. ASSUME HandlerRuns, NEW p \in Pins, IsrCall(p) PROVE DebounceTypeOK'
  BY <1>9, LatchFacts DEF HandlerRuns, IsrCall, DebounceTypeOK, GpioTypeOK, Level, Cells
<1>10. ASSUME FileRequest PROVE DebounceTypeOK'
  <2>1. circular_index_to_phys(N) \in Cells /\ pin \in Pins
    BY <1>10, RingFacts DEF FileRequest, Locals, DebounceTypeOK, GpioTypeOK, Level, Cells
  <2> QED BY <1>10, <2>1 DEF FileRequest, DebounceTypeOK, GpioTypeOK, Level, Cells
<1>11. ASSUME UpdateMoves PROVE DebounceTypeOK'
  BY <1>11 DEF UpdateMoves, DebounceTypeOK, GpioTypeOK, Level, Cells
<1>12. ASSUME StartTimer PROVE DebounceTypeOK'
  BY <1>12 DEF StartTimer, DebounceTypeOK, GpioTypeOK, Level, Cells
<1>13. ASSUME UserCallback PROVE DebounceTypeOK'
  <2>1. UserEffect
    BY <1>13, UserFacts
  <2> QED BY <2>1 DEF UserEffect, Enables, DebounceTypeOK, GpioTypeOK, Level, Cells
<1>14. ASSUME TimerCb PROVE DebounceTypeOK'
  <2>1. TimerEffect
    BY <1>14, TimerFacts
  <2>2. age' \in [Pins -> 0..N]
    <3>1. age' = [p \in Pins |-> IF age[p] < N THEN age[p] + 1 ELSE N]
      BY <2>1 DEF TimerEffect
    <3> QED BY <3>1 DEF DebounceTypeOK
  <2>3. shiftarr' \in [Cells -> SUBSET Pins]
    BY <2>1 DEF TimerEffect, DebounceTypeOK, GpioTypeOK, Level, Cells
  <2>4. cell0' \in Cells /\ movesLeft' \in 0..N /\ overwritten' \subseteq Pins
    <3>1. /\ cell0' \in Cells /\ movesLeft \in 1..N /\ movesLeft' = movesLeft - 1
          /\ overwritten' \subseteq overwritten \cup shiftarr[cell0'] /\ shiftarr[cell0'] \subseteq Pins
      BY <2>1 DEF TimerEffect
    <3> QED BY <3>1 DEF DebounceTypeOK
  <2>5. GpioTypeOK'
    BY <2>1 DEF TimerEffect, Enables, DebounceTypeOK, GpioTypeOK, Level, Cells
  <2> QED BY <2>1, <2>2, <2>3, <2>4, <2>5 DEF TimerEffect, DebounceTypeOK
<1>15. ASSUME UNCHANGED vars PROVE DebounceTypeOK'
  BY <1>15 DEF vars, DebounceTypeOK, GpioTypeOK, Level, Cells
<1> QED BY <1>1, <1>2, <1>3, <1>4, <1>5, <1>6, <1>7, <1>8, <1>9, <1>10, <1>11, <1>12, <1>13,
     <1>14, <1>15 DEF Next, Handler, HandlerRuns, Isr

LEMMA LocalsStep ==
    DebounceTypeOK /\ Ring /\ Locals /\ [Next]_vars
    => Locals'
<1> SUFFICES ASSUME DebounceTypeOK, Ring, Locals, [Next]_vars
             PROVE  Locals'
  OBVIOUS
<1> USE GpioAssumption, DebounceAssumption DEF gpioVars, portVars, isrVars, debounceVars, historyVars
<1>1. ASSUME NEW p \in Pins, PinFlips(p) PROVE Locals'
  BY <1>1 DEF PinFlips, Flip, DebounceTypeOK, GpioTypeOK, Locals, NoPin
<1>2. ASSUME NEW p \in Pins, SetEdgeCb(p) PROVE Locals'
  <2>1. SetEdgeEffect(p)
    BY <1>2, SetEdgeFacts
  <2> QED BY <2>1 DEF SetEdgeEffect, Enables, DebounceTypeOK, GpioTypeOK, Locals, NoPin
<1>3. ASSUME NEW p \in Pins, UnsetEdgeCb(p) PROVE Locals'
  BY <1>3 DEF UnsetEdgeCb, gpio_unset_edge_cb_mask, DebounceTypeOK, GpioTypeOK, Locals, NoPin
<1>4. ASSUME HandlerRuns, IsrEnter PROVE Locals'
  BY <1>4 DEF HandlerRuns, IsrEnter, DebounceTypeOK, GpioTypeOK, Locals, NoPin
<1>5. ASSUME HandlerRuns, IsrRead PROVE Locals'
  BY <1>5 DEF HandlerRuns, IsrRead, DebounceTypeOK, GpioTypeOK, Locals, NoPin
<1>6. ASSUME HandlerRuns, IsrLoad PROVE Locals'
  <2>1. /\ isr = "load" /\ isr' = "store" /\ word' = intEnabled
        /\ UNCHANGED <<intEnabled, pin, step, overwritten>>
        /\ from' \subseteq intEnabled
    BY <1>6 DEF HandlerRuns, IsrLoad
  <2> QED BY <2>1 DEF DebounceTypeOK, GpioTypeOK, Locals, NoPin
<1>7. ASSUME HandlerRuns, IsrStore PROVE Locals'
  BY <1>7 DEF HandlerRuns, IsrStore, DebounceTypeOK, GpioTypeOK, Locals, NoPin
<1>8. ASSUME HandlerRuns, IsrExit PROVE Locals'
  BY <1>8 DEF HandlerRuns, IsrExit, DebounceTypeOK, GpioTypeOK, Locals, NoPin
<1>9. ASSUME HandlerRuns, NEW p \in Pins, IsrCall(p) PROVE Locals'
  BY <1>9 DEF HandlerRuns, IsrCall, DebounceTypeOK, GpioTypeOK, Locals, NoPin
<1>10. ASSUME FileRequest PROVE Locals'
  BY <1>10 DEF FileRequest, DebounceTypeOK, GpioTypeOK, Locals, NoPin
<1>11. ASSUME UpdateMoves PROVE Locals'
  BY <1>11 DEF UpdateMoves, DebounceTypeOK, GpioTypeOK, Locals, NoPin
<1>12. ASSUME StartTimer PROVE Locals'
  BY <1>12 DEF StartTimer, DebounceTypeOK, GpioTypeOK, Locals, NoPin
<1>13. ASSUME UserCallback PROVE Locals'
  <2>1. UserEffect
    BY <1>13, UserFacts
  <2> QED BY <2>1 DEF UserEffect, Enables, DebounceTypeOK, GpioTypeOK, Locals, NoPin
<1>14. ASSUME TimerCb PROVE Locals'
  <2>1. TimerEffect
    BY <1>14, TimerFacts
  <2>2. /\ UNCHANGED <<isr, from, word, pin, step>> /\ (ticked' <=> isr # "idle")
        /\ intEnabled' = intEnabled \cup shiftarr[cell0']
        /\ overwritten' = IF isr = "store" THEN overwritten \cup (shiftarr[cell0'] \ word)
                                            ELSE overwritten \ shiftarr[cell0']
    BY <2>1 DEF TimerEffect, Enables
  <2>3. from' \cap overwritten' = {} /\ pin' \notin from' \cup overwritten'
    <3>1. CASE isr = "store"
      <4>1. pin \notin Pins /\ from \subseteq word /\ shiftarr[cell0'] \subseteq Pins
        BY <2>1, <3>1 DEF TimerEffect, DebounceTypeOK, GpioTypeOK, Locals, NoPin
      <4> QED BY <2>2, <3>1, <4>1 DEF DebounceTypeOK, GpioTypeOK, Locals, NoPin
    <3>2. CASE isr # "store"
      BY <2>2, <3>2 DEF DebounceTypeOK, GpioTypeOK, Locals, NoPin
    <3> QED BY <3>1, <3>2
  <2>4. isr' # "store" => word' = {} /\ overwritten' \cap intEnabled' = {}
    BY <2>2 DEF DebounceTypeOK, GpioTypeOK, Locals, NoPin
  <2>5. isr' = "store" => /\ from' \subseteq word' /\ word' \subseteq intEnabled'
                          /\ word' \cap overwritten' = {} /\ intEnabled' \ word' \subseteq overwritten'
    BY <2>2 DEF DebounceTypeOK, GpioTypeOK, Locals, NoPin
  <2> QED BY <2>2, <2>3, <2>4, <2>5 DEF DebounceTypeOK, GpioTypeOK, Locals, NoPin
<1>15. ASSUME UNCHANGED vars PROVE Locals'
  BY <1>15 DEF vars, DebounceTypeOK, GpioTypeOK, Locals, NoPin
<1> QED BY <1>1, <1>2, <1>3, <1>4, <1>5, <1>6, <1>7, <1>8, <1>9, <1>10, <1>11, <1>12, <1>13,
     <1>14, <1>15 DEF Next, Handler, HandlerRuns, Isr

LEMMA RingStep ==
    DebounceTypeOK /\ Locals /\ Ring /\ [Next]_vars
    => Ring'
<1> SUFFICES ASSUME DebounceTypeOK, Locals, Ring, [Next]_vars
             PROVE  Ring'
  OBVIOUS
<1> USE GpioAssumption, DebounceAssumption DEF gpioVars, portVars, isrVars, debounceVars, historyVars
<1>1. ASSUME NEW p \in Pins, PinFlips(p) PROVE Ring'
  BY <1>1, SameDistance, RingFacts DEF PinFlips, Flip, DebounceTypeOK, Locals, Ring
<1>2. ASSUME NEW p \in Pins, SetEdgeCb(p) PROVE Ring'
  <2>1. SetEdgeEffect(p)
    BY <1>2, SetEdgeFacts
  <2> QED BY <2>1, SameDistance, RingFacts DEF SetEdgeEffect, Enables, DebounceTypeOK,
       Locals, Ring
<1>3. ASSUME NEW p \in Pins, UnsetEdgeCb(p) PROVE Ring'
  BY <1>3, SameDistance, RingFacts DEF UnsetEdgeCb, gpio_unset_edge_cb_mask, DebounceTypeOK,
       Locals, Ring
<1>4. ASSUME HandlerRuns, IsrEnter PROVE Ring'
  BY <1>4, SameDistance, RingFacts DEF HandlerRuns, IsrEnter, DebounceTypeOK, Locals, Ring
<1>5. ASSUME HandlerRuns, IsrRead PROVE Ring'
  BY <1>5, SameDistance, RingFacts DEF HandlerRuns, IsrRead, DebounceTypeOK, Locals, Ring
<1>6. ASSUME HandlerRuns, IsrLoad PROVE Ring'
  BY <1>6, SameDistance, RingFacts DEF HandlerRuns, IsrLoad, DebounceTypeOK, Locals, Ring
<1>7. ASSUME HandlerRuns, IsrStore PROVE Ring'
  BY <1>7, SameDistance, RingFacts DEF HandlerRuns, IsrStore, DebounceTypeOK, Locals, Ring
<1>8. ASSUME HandlerRuns, IsrExit PROVE Ring'
  BY <1>8, SameDistance, RingFacts DEF HandlerRuns, IsrExit, DebounceTypeOK, Locals, Ring
<1>9. ASSUME HandlerRuns, NEW p \in Pins, IsrCall(p) PROVE Ring'
  BY <1>9, SameDistance, RingFacts DEF HandlerRuns, IsrCall, DebounceTypeOK, Locals, Ring
<1>10. ASSUME FileRequest PROVE Ring'
  BY <1>10, SameDistance, RingFacts DEF FileRequest, DebounceTypeOK, Locals, Ring
<1>11. ASSUME UpdateMoves PROVE Ring'
  BY <1>11, SameDistance, RingFacts DEF UpdateMoves, DebounceTypeOK, Locals, Ring
<1>12. ASSUME StartTimer PROVE Ring'
  BY <1>12, SameDistance, RingFacts DEF StartTimer, DebounceTypeOK, Locals, Ring
<1>13. ASSUME UserCallback PROVE Ring'
  <2>1. UserEffect
    BY <1>13, UserFacts
  <2> QED BY <2>1, SameDistance, RingFacts DEF UserEffect, Enables, DebounceTypeOK, Locals, Ring
<1>14. ASSUME TimerCb PROVE Ring'
  <2>1. TimerEffect
    BY <1>14, TimerFacts
  <2> QED BY <2>1 DEF TimerEffect, Enables, DebounceTypeOK, Locals, Ring
<1>15. ASSUME UNCHANGED vars PROVE Ring'
  BY <1>15, SameDistance, RingFacts DEF vars, DebounceTypeOK, Locals, Ring
<1> QED BY <1>1, <1>2, <1>3, <1>4, <1>5, <1>6, <1>7, <1>8, <1>9, <1>10, <1>11, <1>12, <1>13,
     <1>14, <1>15 DEF Next, Handler, HandlerRuns, Isr

LEMMA WiredStep ==
    DebounceTypeOK /\ Ring /\ Locals /\ OnePlace /\ Wired /\ [Next]_vars
    => Wired'
<1> SUFFICES ASSUME DebounceTypeOK, Ring, Locals, OnePlace, Wired, [Next]_vars
             PROVE  Wired'
  OBVIOUS
<1> USE GpioAssumption, DebounceAssumption DEF gpioVars, portVars, isrVars, debounceVars, historyVars
<1>1. ASSUME NEW p \in Pins, PinFlips(p) PROVE Wired'
  BY <1>1 DEF PinFlips, Flip, DebounceTypeOK, GpioTypeOK, Locals, OnePlace, Wired, Connected,
       NoPin
<1>2. ASSUME NEW p \in Pins, SetEdgeCb(p) PROVE Wired'
  <2>1. SetEdgeEffect(p)
    BY <1>2, SetEdgeFacts
  <2> QED BY <2>1 DEF SetEdgeEffect, Enables, DebounceTypeOK, GpioTypeOK, Locals, OnePlace,
       Wired, Connected, NoPin
<1>3. ASSUME NEW p \in Pins, UnsetEdgeCb(p) PROVE Wired'
  BY <1>3 DEF UnsetEdgeCb, gpio_unset_edge_cb_mask, DebounceTypeOK, GpioTypeOK, Locals,
       OnePlace, Wired, Connected, NoPin
<1>4. ASSUME HandlerRuns, IsrEnter PROVE Wired'
  BY <1>4 DEF HandlerRuns, IsrEnter, DebounceTypeOK, GpioTypeOK, Locals, OnePlace, Wired,
       Connected, NoPin
<1>5. ASSUME HandlerRuns, IsrRead PROVE Wired'
  BY <1>5 DEF HandlerRuns, IsrRead, DebounceTypeOK, GpioTypeOK, Locals, OnePlace, Wired,
       Connected, NoPin
<1>6. ASSUME HandlerRuns, IsrLoad PROVE Wired'
  BY <1>6 DEF HandlerRuns, IsrLoad, DebounceTypeOK, GpioTypeOK, Locals, OnePlace, Wired,
       Connected, NoPin
<1>7. ASSUME HandlerRuns, IsrStore PROVE Wired'
  BY <1>7 DEF HandlerRuns, IsrStore, DebounceTypeOK, GpioTypeOK, Locals, OnePlace, Wired,
       Connected, NoPin
<1>8. ASSUME HandlerRuns, IsrExit PROVE Wired'
  BY <1>8 DEF HandlerRuns, IsrExit, DebounceTypeOK, GpioTypeOK, Locals, OnePlace, Wired,
       Connected, NoPin
<1>9. ASSUME HandlerRuns, NEW p \in Pins, IsrCall(p) PROVE Wired'
  BY <1>9 DEF HandlerRuns, IsrCall, DebounceTypeOK, GpioTypeOK, Locals, OnePlace, Wired,
       Connected, NoPin
<1>10. ASSUME FileRequest PROVE Wired'
  BY <1>10 DEF FileRequest, DebounceTypeOK, GpioTypeOK, Locals, OnePlace, Wired, Connected,
       NoPin
<1>11. ASSUME UpdateMoves PROVE Wired'
  BY <1>11 DEF UpdateMoves, DebounceTypeOK, GpioTypeOK, Locals, OnePlace, Wired, Connected,
       NoPin
<1>12. ASSUME StartTimer PROVE Wired'
  BY <1>12 DEF StartTimer, DebounceTypeOK, GpioTypeOK, Locals, OnePlace, Wired, Connected, NoPin
<1>13. ASSUME UserCallback PROVE Wired'
  <2>1. UserEffect
    BY <1>13, UserFacts
  <2> QED BY <2>1 DEF UserEffect, Enables, DebounceTypeOK, GpioTypeOK, Locals, OnePlace,
       Wired, Connected, NoPin
<1>14. ASSUME TimerCb PROVE Wired'
  <2>1. TimerEffect
    BY <1>14, TimerFacts
  <2> QED BY <2>1 DEF TimerEffect, Enables, DebounceTypeOK, GpioTypeOK, Locals, OnePlace,
       Wired, Connected, NoPin
<1>15. ASSUME UNCHANGED vars PROVE Wired'
  BY <1>15 DEF vars, DebounceTypeOK, GpioTypeOK, Locals, OnePlace, Wired, Connected, NoPin
<1> QED BY <1>1, <1>2, <1>3, <1>4, <1>5, <1>6, <1>7, <1>8, <1>9, <1>10, <1>11, <1>12, <1>13,
     <1>14, <1>15 DEF Next, Handler, HandlerRuns, Isr

LEMMA OnePlaceStep ==
    DebounceTypeOK /\ Locals /\ Ring /\ UnsetStaysUnset /\ OnePlace /\ [Next]_vars
    => OnePlace'
<1> SUFFICES ASSUME DebounceTypeOK, Locals, Ring, UnsetStaysUnset, OnePlace, [Next]_vars
             PROVE  OnePlace'
  OBVIOUS
<1> USE GpioAssumption, DebounceAssumption DEF gpioVars, portVars, isrVars, debounceVars, historyVars
<1>1. ASSUME NEW p \in Pins, PinFlips(p) PROVE OnePlace'
  BY <1>1, SameDistance, RingFacts DEF PinFlips, Flip, DebounceTypeOK, GpioTypeOK, Locals,
       Ring, OnePlace, NoRequest, NoPin
<1>2. ASSUME NEW p \in Pins, SetEdgeCb(p) PROVE OnePlace'
  <2>1. SetEdgeEffect(p)
    BY <1>2, SetEdgeFacts
  <2>2. /\ isr = "idle" /\ p \notin wanted /\ age' = [age EXCEPT ![p] = N]
        /\ overwritten' = overwritten \ {p} /\ intEnabled' = intEnabled \cup {p}
        /\ UNCHANGED <<isr, from, pin, step, shiftarr, cell0>>
    BY <2>1 DEF SetEdgeEffect, Enables
  <2>3. NoRequest(p) /\ pin = NoPin
    BY <2>2 DEF UnsetStaysUnset, NoRequest, Locals
  <2> QED BY <2>2, <2>3, SameDistance DEF DebounceTypeOK, GpioTypeOK, Locals, Ring, OnePlace,
       NoRequest, NoPin
<1>3. ASSUME NEW p \in Pins, UnsetEdgeCb(p) PROVE OnePlace'
  BY <1>3, SameDistance, RingFacts DEF UnsetEdgeCb, gpio_unset_edge_cb_mask, DebounceTypeOK,
       GpioTypeOK, Locals, Ring, OnePlace, NoRequest, NoPin
<1>4. ASSUME HandlerRuns, IsrEnter PROVE OnePlace'
  BY <1>4, SameDistance, RingFacts DEF HandlerRuns, IsrEnter, DebounceTypeOK, GpioTypeOK,
       Locals, Ring, OnePlace, NoRequest, NoPin
<1>5. ASSUME HandlerRuns, IsrRead PROVE OnePlace'
  BY <1>5, SameDistance, RingFacts DEF HandlerRuns, IsrRead, DebounceTypeOK, GpioTypeOK,
       Locals, Ring, OnePlace, NoRequest, NoPin
<1>6. ASSUME HandlerRuns, IsrLoad PROVE OnePlace'
  BY <1>6, SameDistance, RingFacts DEF HandlerRuns, IsrLoad, DebounceTypeOK, GpioTypeOK,
       Locals, Ring, OnePlace, NoRequest, NoPin
<1>7. ASSUME HandlerRuns, IsrStore PROVE OnePlace'
  BY <1>7, SameDistance, RingFacts DEF HandlerRuns, IsrStore, DebounceTypeOK, GpioTypeOK,
       Locals, Ring, OnePlace, NoRequest, NoPin
<1>8. ASSUME HandlerRuns, IsrExit PROVE OnePlace'
  BY <1>8, SameDistance, RingFacts DEF HandlerRuns, IsrExit, DebounceTypeOK, GpioTypeOK,
       Locals, Ring, OnePlace, NoRequest, NoPin
<1>9. ASSUME HandlerRuns, NEW p \in Pins, IsrCall(p) PROVE OnePlace'
  BY <1>9, SameDistance, RingFacts DEF HandlerRuns, IsrCall, DebounceTypeOK, GpioTypeOK,
       Locals, Ring, OnePlace, NoRequest, NoPin
<1>10. ASSUME FileRequest PROVE OnePlace'
  BY <1>10, SameDistance, RingFacts DEF FileRequest, DebounceTypeOK, GpioTypeOK, Locals,
       Ring, OnePlace, NoRequest, NoPin
<1>11. ASSUME UpdateMoves PROVE OnePlace'
  BY <1>11, SameDistance, RingFacts DEF UpdateMoves, DebounceTypeOK, GpioTypeOK, Locals,
       Ring, OnePlace, NoRequest, NoPin
<1>12. ASSUME StartTimer PROVE OnePlace'
  BY <1>12, SameDistance, RingFacts DEF StartTimer, DebounceTypeOK, GpioTypeOK, Locals, Ring,
       OnePlace, NoRequest, NoPin
<1>13. ASSUME UserCallback PROVE OnePlace'
  <2>1. UserEffect
    BY <1>13, UserFacts
  <2> QED BY <2>1, SameDistance, RingFacts DEF UserEffect, Enables, DebounceTypeOK,
       GpioTypeOK, Locals, Ring, OnePlace, NoRequest, NoPin
<1>14. ASSUME TimerCb PROVE OnePlace'
  <2>1. TimerEffect
    BY <1>14, TimerFacts
  <2> QED BY <2>1 DEF TimerEffect, Enables, DebounceTypeOK, GpioTypeOK, Locals, Ring,
       OnePlace, NoRequest, NoPin
<1>15. ASSUME UNCHANGED vars PROVE OnePlace'
  BY <1>15, SameDistance, RingFacts DEF vars, DebounceTypeOK, GpioTypeOK, Locals, Ring,
       OnePlace, NoRequest, NoPin
<1> QED BY <1>1, <1>2, <1>3, <1>4, <1>5, <1>6, <1>7, <1>8, <1>9, <1>10, <1>11, <1>12, <1>13,
     <1>14, <1>15 DEF Next, Handler, HandlerRuns, Isr

LEMMA WantedStep ==
    DebounceTypeOK /\ Ring /\ Locals /\ UnsetStaysUnset /\ OverwrittenWanted /\ [Next]_vars
    => OverwrittenWanted'
<1> SUFFICES ASSUME DebounceTypeOK, Ring, Locals, UnsetStaysUnset, OverwrittenWanted, [Next]_vars
             PROVE  OverwrittenWanted'
  OBVIOUS
<1> USE GpioAssumption, DebounceAssumption DEF gpioVars, portVars, isrVars, debounceVars, historyVars
<1>1. ASSUME NEW p \in Pins, PinFlips(p) PROVE OverwrittenWanted'
  BY <1>1 DEF PinFlips, Flip, DebounceTypeOK, GpioTypeOK, Locals, UnsetStaysUnset, InHand,
       OverwrittenWanted
<1>2. ASSUME NEW p \in Pins, SetEdgeCb(p) PROVE OverwrittenWanted'
  <2>1. SetEdgeEffect(p)
    BY <1>2, SetEdgeFacts
  <2> QED BY <2>1 DEF SetEdgeEffect, Enables, DebounceTypeOK, GpioTypeOK, Locals,
       UnsetStaysUnset, InHand, OverwrittenWanted
<1>3. ASSUME NEW p \in Pins, UnsetEdgeCb(p) PROVE OverwrittenWanted'
  BY <1>3 DEF UnsetEdgeCb, gpio_unset_edge_cb_mask, DebounceTypeOK, GpioTypeOK, Locals,
       UnsetStaysUnset, InHand, OverwrittenWanted
<1>4. ASSUME HandlerRuns, IsrEnter PROVE OverwrittenWanted'
  BY <1>4 DEF HandlerRuns, IsrEnter, DebounceTypeOK, GpioTypeOK, Locals, UnsetStaysUnset,
       InHand, OverwrittenWanted
<1>5. ASSUME HandlerRuns, IsrRead PROVE OverwrittenWanted'
  BY <1>5 DEF HandlerRuns, IsrRead, DebounceTypeOK, GpioTypeOK, Locals, UnsetStaysUnset,
       InHand, OverwrittenWanted
<1>6. ASSUME HandlerRuns, IsrLoad PROVE OverwrittenWanted'
  BY <1>6 DEF HandlerRuns, IsrLoad, DebounceTypeOK, GpioTypeOK, Locals, UnsetStaysUnset,
       InHand, OverwrittenWanted
<1>7. ASSUME HandlerRuns, IsrStore PROVE OverwrittenWanted'
  BY <1>7 DEF HandlerRuns, IsrStore, DebounceTypeOK, GpioTypeOK, Locals, UnsetStaysUnset,
       InHand, OverwrittenWanted
<1>8. ASSUME HandlerRuns, IsrExit PROVE OverwrittenWanted'
  BY <1>8 DEF HandlerRuns, IsrExit, DebounceTypeOK, GpioTypeOK, Locals, UnsetStaysUnset,
       InHand, OverwrittenWanted
<1>9. ASSUME HandlerRuns, NEW p \in Pins, IsrCall(p) PROVE OverwrittenWanted'
  BY <1>9 DEF HandlerRuns, IsrCall, DebounceTypeOK, GpioTypeOK, Locals, UnsetStaysUnset,
       InHand, OverwrittenWanted
<1>10. ASSUME FileRequest PROVE OverwrittenWanted'
  BY <1>10 DEF FileRequest, DebounceTypeOK, GpioTypeOK, Locals, UnsetStaysUnset, InHand,
       OverwrittenWanted
<1>11. ASSUME UpdateMoves PROVE OverwrittenWanted'
  BY <1>11 DEF UpdateMoves, DebounceTypeOK, GpioTypeOK, Locals, UnsetStaysUnset, InHand,
       OverwrittenWanted
<1>12. ASSUME StartTimer PROVE OverwrittenWanted'
  BY <1>12 DEF StartTimer, DebounceTypeOK, GpioTypeOK, Locals, UnsetStaysUnset, InHand,
       OverwrittenWanted
<1>13. ASSUME UserCallback PROVE OverwrittenWanted'
  <2>1. UserEffect
    BY <1>13, UserFacts
  <2> QED BY <2>1 DEF UserEffect, Enables, DebounceTypeOK, GpioTypeOK, Locals,
       UnsetStaysUnset, InHand, OverwrittenWanted
<1>14. ASSUME TimerCb PROVE OverwrittenWanted'
  <2>1. TimerEffect
    BY <1>14, TimerFacts
  <2> QED BY <2>1 DEF TimerEffect, Enables, DebounceTypeOK, GpioTypeOK, Locals,
       UnsetStaysUnset, InHand, OverwrittenWanted
<1>15. ASSUME UNCHANGED vars PROVE OverwrittenWanted'
  BY <1>15 DEF vars, DebounceTypeOK, GpioTypeOK, Locals, UnsetStaysUnset, InHand,
       OverwrittenWanted
<1> QED BY <1>1, <1>2, <1>3, <1>4, <1>5, <1>6, <1>7, <1>8, <1>9, <1>10, <1>11, <1>12, <1>13,
     <1>14, <1>15 DEF Next, Handler, HandlerRuns, Isr

LEMMA UnsetStep ==
    DebounceTypeOK /\ Ring /\ Locals /\ UnsetStaysUnset /\ OverwrittenWanted /\ [Next]_vars
    => UnsetStaysUnset'
<1> SUFFICES ASSUME DebounceTypeOK, Ring, Locals, UnsetStaysUnset, OverwrittenWanted, [Next]_vars
             PROVE  UnsetStaysUnset'
  OBVIOUS
<1> USE GpioAssumption, DebounceAssumption DEF gpioVars, portVars, isrVars, debounceVars, historyVars
<1>1. ASSUME NEW p \in Pins, PinFlips(p) PROVE UnsetStaysUnset'
  BY <1>1 DEF PinFlips, Flip, DebounceTypeOK, GpioTypeOK, Locals, UnsetStaysUnset, InHand,
       OverwrittenWanted, NoPin
<1>2. ASSUME NEW p \in Pins, SetEdgeCb(p) PROVE UnsetStaysUnset'
  <2>1. SetEdgeEffect(p)
    BY <1>2, SetEdgeFacts
  <2> QED BY <2>1 DEF SetEdgeEffect, Enables, DebounceTypeOK, GpioTypeOK, Locals,
       UnsetStaysUnset, InHand, OverwrittenWanted, NoPin
<1>3. ASSUME NEW p \in Pins, UnsetEdgeCb(p) PROVE UnsetStaysUnset'
  <2> DEFINE ahead == {circular_index_to_phys(i) : i \in 1..movesLeft}
  <2>2. /\ isr = "idle" /\ wanted' = wanted \ {p} /\ intEnabled' = intEnabled \ {p}
        /\ shiftarr' = [c \in Cells |-> IF c \in ahead THEN shiftarr[c] \ {p} ELSE shiftarr[c]]
        /\ UNCHANGED <<isr, from, pin>>
    BY <1>3 DEF UnsetEdgeCb, gpio_unset_edge_cb_mask
  <2>3. from = {} /\ step = "none" /\ movesLeft \in 0..N /\ cell0 \in Cells
    BY <2>2 DEF Locals, DebounceTypeOK
  <2>4. ASSUME NEW c \in Cells, p \in shiftarr[c] PROVE c \in ahead
    <3>1. Distance(c) \in 1..movesLeft
      BY <2>3, <2>4 DEF Ring
    <3>2. circular_index_to_phys(Distance(c)) = c
      BY <2>3, <3>1, RingFacts
    <3> QED BY <3>1, <3>2
  <2>5. \A c \in Cells : p \notin shiftarr'[c] /\ shiftarr'[c] \subseteq shiftarr[c]
    BY <2>2, <2>4
  <2> HIDE DEF ahead
  <2> QED BY <2>2, <2>3, <2>5 DEF DebounceTypeOK, GpioTypeOK, Locals, UnsetStaysUnset,
       InHand, OverwrittenWanted, NoPin
<1>4. ASSUME HandlerRuns, IsrEnter PROVE UnsetStaysUnset'
  BY <1>4 DEF HandlerRuns, IsrEnter, DebounceTypeOK, GpioTypeOK, Locals, UnsetStaysUnset,
       InHand, OverwrittenWanted, NoPin
<1>5. ASSUME HandlerRuns, IsrRead PROVE UnsetStaysUnset'
  BY <1>5 DEF HandlerRuns, IsrRead, DebounceTypeOK, GpioTypeOK, Locals, UnsetStaysUnset,
       InHand, OverwrittenWanted, NoPin
<1>6. ASSUME HandlerRuns, IsrLoad PROVE UnsetStaysUnset'
  BY <1>6 DEF HandlerRuns, IsrLoad, DebounceTypeOK, GpioTypeOK, Locals, UnsetStaysUnset,
       InHand, OverwrittenWanted, NoPin
<1>7. ASSUME HandlerRuns, IsrStore PROVE UnsetStaysUnset'
  BY <1>7 DEF HandlerRuns, IsrStore, DebounceTypeOK, GpioTypeOK, Locals, UnsetStaysUnset,
       InHand, OverwrittenWanted, NoPin
<1>8. ASSUME HandlerRuns, IsrExit PROVE UnsetStaysUnset'
  BY <1>8 DEF HandlerRuns, IsrExit, DebounceTypeOK, GpioTypeOK, Locals, UnsetStaysUnset,
       InHand, OverwrittenWanted, NoPin
<1>9. ASSUME HandlerRuns, NEW p \in Pins, IsrCall(p) PROVE UnsetStaysUnset'
  BY <1>9 DEF HandlerRuns, IsrCall, DebounceTypeOK, GpioTypeOK, Locals, UnsetStaysUnset,
       InHand, OverwrittenWanted, NoPin
<1>10. ASSUME FileRequest PROVE UnsetStaysUnset'
  BY <1>10 DEF FileRequest, DebounceTypeOK, GpioTypeOK, Locals, UnsetStaysUnset, InHand,
       OverwrittenWanted, NoPin
<1>11. ASSUME UpdateMoves PROVE UnsetStaysUnset'
  BY <1>11 DEF UpdateMoves, DebounceTypeOK, GpioTypeOK, Locals, UnsetStaysUnset, InHand,
       OverwrittenWanted, NoPin
<1>12. ASSUME StartTimer PROVE UnsetStaysUnset'
  BY <1>12 DEF StartTimer, DebounceTypeOK, GpioTypeOK, Locals, UnsetStaysUnset, InHand,
       OverwrittenWanted, NoPin
<1>13. ASSUME UserCallback PROVE UnsetStaysUnset'
  <2>1. UserEffect
    BY <1>13, UserFacts
  <2> QED BY <2>1 DEF UserEffect, Enables, DebounceTypeOK, GpioTypeOK, Locals,
       UnsetStaysUnset, InHand, OverwrittenWanted, NoPin
<1>14. ASSUME TimerCb PROVE UnsetStaysUnset'
  <2>1. TimerEffect
    BY <1>14, TimerFacts
  <2> QED BY <2>1 DEF TimerEffect, Enables, DebounceTypeOK, GpioTypeOK, Locals,
       UnsetStaysUnset, InHand, OverwrittenWanted, NoPin
<1>15. ASSUME UNCHANGED vars PROVE UnsetStaysUnset'
  BY <1>15 DEF vars, DebounceTypeOK, GpioTypeOK, Locals, UnsetStaysUnset, InHand,
       OverwrittenWanted, NoPin
<1> QED BY <1>1, <1>2, <1>3, <1>4, <1>5, <1>6, <1>7, <1>8, <1>9, <1>10, <1>11, <1>12, <1>13,
     <1>14, <1>15 DEF Next, Handler, HandlerRuns, Isr

LEMMA ForgottenStep ==
    DebounceTypeOK /\ Locals /\ Ring /\ NoPinForgotten /\ [Next]_vars
    => NoPinForgotten'
<1> SUFFICES ASSUME DebounceTypeOK, Locals, Ring, NoPinForgotten, [Next]_vars
             PROVE  NoPinForgotten'
  OBVIOUS
<1> USE GpioAssumption, DebounceAssumption DEF gpioVars, portVars, isrVars, debounceVars, historyVars
<1>1. ASSUME NEW p \in Pins, PinFlips(p) PROVE NoPinForgotten'
  BY <1>1, SameDistance, RingFacts DEF PinFlips, Flip, DebounceTypeOK, GpioTypeOK, Locals,
       Ring, NoPinForgotten, InHand, Requested, NoPin
<1>2. ASSUME NEW p \in Pins, SetEdgeCb(p) PROVE NoPinForgotten'
  <2>1. SetEdgeEffect(p)
    BY <1>2, SetEdgeFacts
  <2> QED BY <2>1, SameDistance, RingFacts DEF SetEdgeEffect, Enables, DebounceTypeOK,
       GpioTypeOK, Locals, Ring, NoPinForgotten, InHand, Requested, NoPin
<1>3. ASSUME NEW p \in Pins, UnsetEdgeCb(p) PROVE NoPinForgotten'
  BY <1>3, SameDistance, RingFacts DEF UnsetEdgeCb, gpio_unset_edge_cb_mask, DebounceTypeOK,
       GpioTypeOK, Locals, Ring, NoPinForgotten, InHand, Requested, NoPin
<1>4. ASSUME HandlerRuns, IsrEnter PROVE NoPinForgotten'
  BY <1>4, SameDistance, RingFacts DEF HandlerRuns, IsrEnter, DebounceTypeOK, GpioTypeOK,
       Locals, Ring, NoPinForgotten, InHand, Requested, NoPin
<1>5. ASSUME HandlerRuns, IsrRead PROVE NoPinForgotten'
  BY <1>5, SameDistance, RingFacts DEF HandlerRuns, IsrRead, DebounceTypeOK, GpioTypeOK,
       Locals, Ring, NoPinForgotten, InHand, Requested, NoPin
<1>6. ASSUME HandlerRuns, IsrLoad PROVE NoPinForgotten'
  BY <1>6, SameDistance, RingFacts DEF HandlerRuns, IsrLoad, DebounceTypeOK, GpioTypeOK,
       Locals, Ring, NoPinForgotten, InHand, Requested, NoPin
<1>7. ASSUME HandlerRuns, IsrStore PROVE NoPinForgotten'
  BY <1>7, SameDistance, RingFacts DEF HandlerRuns, IsrStore, DebounceTypeOK, GpioTypeOK,
       Locals, Ring, NoPinForgotten, InHand, Requested, NoPin
<1>8. ASSUME HandlerRuns, IsrExit PROVE NoPinForgotten'
  BY <1>8, SameDistance, RingFacts DEF HandlerRuns, IsrExit, DebounceTypeOK, GpioTypeOK,
       Locals, Ring, NoPinForgotten, InHand, Requested, NoPin
<1>9. ASSUME HandlerRuns, NEW p \in Pins, IsrCall(p) PROVE NoPinForgotten'
  BY <1>9, SameDistance, RingFacts DEF HandlerRuns, IsrCall, DebounceTypeOK, GpioTypeOK,
       Locals, Ring, NoPinForgotten, InHand, Requested, NoPin
<1>10. ASSUME FileRequest PROVE NoPinForgotten'
  BY <1>10, SameDistance, RingFacts DEF FileRequest, DebounceTypeOK, GpioTypeOK, Locals,
       Ring, NoPinForgotten, InHand, Requested, NoPin
<1>11. ASSUME UpdateMoves PROVE NoPinForgotten'
  BY <1>11, SameDistance, RingFacts DEF UpdateMoves, DebounceTypeOK, GpioTypeOK, Locals,
       Ring, NoPinForgotten, InHand, Requested, NoPin
<1>12. ASSUME StartTimer PROVE NoPinForgotten'
  BY <1>12, SameDistance, RingFacts DEF StartTimer, DebounceTypeOK, GpioTypeOK, Locals, Ring,
       NoPinForgotten, InHand, Requested, NoPin
<1>13. ASSUME UserCallback PROVE NoPinForgotten'
  <2>1. UserEffect
    BY <1>13, UserFacts
  <2> QED BY <2>1, SameDistance, RingFacts DEF UserEffect, Enables, DebounceTypeOK,
       GpioTypeOK, Locals, Ring, NoPinForgotten, InHand, Requested, NoPin
<1>14. ASSUME TimerCb PROVE NoPinForgotten'
  <2>1. TimerEffect
    BY <1>14, TimerFacts
  <2> QED BY <2>1 DEF TimerEffect, Enables, DebounceTypeOK, GpioTypeOK, Locals, Ring,
       NoPinForgotten, InHand, Requested, NoPin
<1>15. ASSUME UNCHANGED vars PROVE NoPinForgotten'
  BY <1>15, SameDistance, RingFacts DEF vars, DebounceTypeOK, GpioTypeOK, Locals, Ring,
       NoPinForgotten, InHand, Requested, NoPin
<1> QED BY <1>1, <1>2, <1>3, <1>4, <1>5, <1>6, <1>7, <1>8, <1>9, <1>10, <1>11, <1>12, <1>13,
     <1>14, <1>15 DEF Next, Handler, HandlerRuns, Isr

LEMMA LatchedStep ==
    DebounceTypeOK /\ Locals /\ Ring /\ Wired /\ Latched /\ [Next]_vars
    => Latched'
<1> SUFFICES ASSUME DebounceTypeOK, Locals, Ring, Wired, Latched, [Next]_vars
             PROVE  Latched'
  OBVIOUS
<1> USE GpioAssumption, DebounceAssumption DEF gpioVars, portVars, isrVars, debounceVars, historyVars
<1>1. ASSUME NEW p \in Pins, PinFlips(p) PROVE Latched'
  BY <1>1, LatchFacts DEF PinFlips, Flip, DebounceTypeOK, GpioTypeOK, Locals, Latched, NoPin
<1>2. ASSUME NEW p \in Pins, SetEdgeCb(p) PROVE Latched'
  <2>1. SetEdgeEffect(p)
    BY <1>2, SetEdgeFacts
  <2> QED BY <2>1 DEF SetEdgeEffect, Enables, DebounceTypeOK, GpioTypeOK, Locals, Latched, NoPin
<1>3. ASSUME NEW p \in Pins, UnsetEdgeCb(p) PROVE Latched'
  BY <1>3, LatchFacts DEF UnsetEdgeCb, gpio_unset_edge_cb_mask, DebounceTypeOK, GpioTypeOK,
       Locals, Latched, NoPin
<1>4. ASSUME HandlerRuns, IsrEnter PROVE Latched'
  BY <1>4 DEF HandlerRuns, IsrEnter, DebounceTypeOK, GpioTypeOK, Locals, Latched, NoPin
<1>5. ASSUME HandlerRuns, IsrRead PROVE Latched'
  <2>1. /\ isr = "read" /\ isr' = "load" /\ levels' = level
        /\ UNCHANGED <<level, sense, portEvent, intEnabled, fromLevel, masked, from>>
    BY <1>5 DEF HandlerRuns, IsrRead
  <2>2. pin = NoPin
    BY <2>1 DEF Locals
  <2>3. ASSUME NEW p \in intEnabled, Meets(p, level, sense) PROVE level[p] # fromLevel[p]
    <3>1. p \in Pins /\ p # pin
      BY <2>2 DEF NoPin, DebounceTypeOK, GpioTypeOK
    <3>2. Connected(p)
      BY <3>1 DEF Wired
    <3> QED BY <2>3, <3>1, <3>2 DEF Connected, Meets
  <2> QED BY <2>1, <2>3 DEF Latched, Meets
<1>6. ASSUME HandlerRuns, IsrLoad PROVE Latched'
  BY <1>6 DEF HandlerRuns, IsrLoad, DebounceTypeOK, GpioTypeOK, Locals, Latched, NoPin
<1>7. ASSUME HandlerRuns, IsrStore PROVE Latched'
  BY <1>7 DEF HandlerRuns, IsrStore, DebounceTypeOK, GpioTypeOK, Locals, Latched, NoPin
<1>8. ASSUME HandlerRuns, IsrExit PROVE Latched'
  BY <1>8 DEF HandlerRuns, IsrExit, DebounceTypeOK, GpioTypeOK, Locals, Latched, NoPin
<1>9. ASSUME HandlerRuns, NEW p \in Pins, IsrCall(p) PROVE Latched'
  <2>1. /\ isr = "loop" /\ isr' = "callback" /\ from' = from \ {p}
        /\ sense' = [sense EXCEPT ![p] = "nosense"] /\ Latch
        /\ UNCHANGED <<level, intEnabled, fromLevel, levels>>
    BY <1>9 DEF HandlerRuns, IsrCall
  <2>2. ~ Meets(p, level', sense')
    BY <2>1 DEF Meets, DebounceTypeOK, GpioTypeOK
  <2>3. ASSUME NEW q \in intEnabled' \ masked', Meets(q, level', sense')
        PROVE  portEvent' \/ q \in from'
    <3>1. q \in intEnabled /\ q \in Pins /\ q # p
      BY <2>1, <2>2, <2>3 DEF DebounceTypeOK, GpioTypeOK
    <3>2. portEvent' \/ (Meets(q, level, sense) /\ q \notin masked)
      BY <2>1, <2>3, <3>1, LatchFacts
    <3>3. portEvent' \/ q \in from
      BY <2>1, <3>1, <3>2, LatchFacts DEF Latched
    <3> QED BY <2>1, <3>1, <3>3
  <2> QED BY <2>1, <2>3 DEF Latched
<1>10. ASSUME FileRequest PROVE Latched'
  BY <1>10 DEF FileRequest, DebounceTypeOK, GpioTypeOK, Locals, Latched, NoPin
<1>11. ASSUME UpdateMoves PROVE Latched'
  BY <1>11 DEF UpdateMoves, DebounceTypeOK, GpioTypeOK, Locals, Latched, NoPin
<1>12. ASSUME StartTimer PROVE Latched'
  BY <1>12 DEF StartTimer, DebounceTypeOK, GpioTypeOK, Locals, Latched, NoPin
<1>13. ASSUME UserCallback PROVE Latched'
  <2>1. UserEffect
    BY <1>13, UserFacts
  <2> QED BY <2>1 DEF UserEffect, Enables, DebounceTypeOK, GpioTypeOK, Locals, Latched, NoPin
<1>14. ASSUME TimerCb PROVE Latched'
  <2>1. TimerEffect
    BY <1>14, TimerFacts
  <2> QED BY <2>1 DEF TimerEffect, Enables, DebounceTypeOK, GpioTypeOK, Locals, Latched, NoPin
<1>15. ASSUME UNCHANGED vars PROVE Latched'
  BY <1>15 DEF vars, DebounceTypeOK, GpioTypeOK, Locals, Latched, NoPin
<1> QED BY <1>1, <1>2, <1>3, <1>4, <1>5, <1>6, <1>7, <1>8, <1>9, <1>10, <1>11, <1>12, <1>13,
     <1>14, <1>15 DEF Next, Handler, HandlerRuns, Isr

-------------------------------------------------------------------------------
THEOREM Invariance == Spec => []IInv
<1>1. IInv /\ [Next]_vars => IInv'
  <2> SUFFICES ASSUME IInv, [Next]_vars PROVE IInv'
    OBVIOUS
  <2>1. DebounceTypeOK' /\ Locals' /\ Ring'
    BY TypeStep, LocalsStep, RingStep DEF IInv
  <2>2. Wired' /\ OnePlace' /\ OverwrittenWanted'
    BY WiredStep, OnePlaceStep, WantedStep DEF IInv
  <2>3. UnsetStaysUnset' /\ NoPinForgotten' /\ Latched'
    BY UnsetStep, ForgottenStep, LatchedStep DEF IInv
  <2> QED BY <2>1, <2>2, <2>3 DEF IInv
<1> QED BY InitHolds, <1>1, PTL DEF Spec

\* No pin with a callback is forgotten, but for those the timer's handler enables
\* within gpio.c:70 (debounce.c:82-87, gpio.c:66-92).
THEOREM NothingForgotten == Spec => []NoPinForgotten
<1>1. IInv => NoPinForgotten
  BY DEF IInv
<1> QED BY Invariance, <1>1, PTL

\* A callback that was unset leaves nothing behind, and the pins' senses agree
\* with the mask whenever the handler is not running (gpio.c:31-57).
THEOREM MaskAndSense == Spec => []DebounceInv
<1>1. IInv => DebounceInv
  <2> SUFFICES ASSUME IInv PROVE DebounceInv
    OBVIOUS
  <2>1. ASSUME isr = "idle", NEW p \in Pins
        PROVE  sense[p] = IF p \notin intEnabled \cup overwritten THEN "nosense"
                          ELSE IF fromLevel[p] = 1 THEN "low" ELSE "high"
    <3>1. from = {} /\ p # pin
      BY <2>1, GpioAssumption DEF IInv, Locals, NoPin
    <3> QED BY <3>1 DEF IInv, Wired, Connected
  <2> QED BY <2>1 DEF IInv, DebounceInv, SenseFollowsMask
<1> QED BY Invariance, <1>1, PTL

\* The edge of an enabled pin raises the handler, unless another pin held DETECT
\* when it came (gpio.h:13-17).
THEOREM EdgesAttended == Spec => []EdgeAttendedUnlessMasked
<1>1. IInv => EdgeAttendedUnlessMasked
  <2> SUFFICES ASSUME IInv, NEW p \in intEnabled \ masked, level[p] # fromLevel[p], isr = "idle"
               PROVE  portEvent
    BY DEF EdgeAttendedUnlessMasked
  <2>1. from = {} /\ pin = NoPin
    BY DEF IInv, Locals
  <2>2. p \in Pins /\ p # pin
    BY <2>1, GpioAssumption DEF IInv, DebounceTypeOK, GpioTypeOK, NoPin
  <2>3. Connected(p)
    BY <2>2 DEF IInv, Wired
  <2>4. Meets(p, level, sense)
    BY <2>2, <2>3 DEF Connected, Meets, IInv, DebounceTypeOK, GpioTypeOK, Level
  <2> QED BY <2>1, <2>4 DEF IInv, Latched
<1> QED BY Invariance, <1>1, PTL

\* The callback of a pin that does not enable it itself is called again only after
\* N periods of the timer (debounce.c:11-15).
THEOREM LockoutHolds == Spec => LockedOut
<1>1. IInv /\ [Next]_vars =>
        [\A p \in Pins \ Rearming : step = "none" /\ step' = "filed" /\ pin = p => age[p] = N]_vars
  <2> SUFFICES ASSUME IInv, NEW p \in Pins \ Rearming, step = "none", pin = p PROVE age[p] = N
    OBVIOUS
  <2> QED BY DEF IInv, OnePlace
<1> QED BY Invariance, <1>1, PTL DEF Spec, LockedOut
================================================================================

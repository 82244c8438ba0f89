----------------------------- MODULE ButtonsProofs -----------------------------
(***************************************************************************)
(* The toggle queue is the FIFO its header describes, for every even counter  *)
(* modulus and every depth below it.  The buttons and their queues are        *)
(* sources of the collector as Collector describes them, and lose no toggle,  *)
(* for any number of buttons, depth of the queues and width of their counters. *)
(***************************************************************************)
EXTENDS ButtonsSource, ToggleQueueSpec, CollectorProofs

\* What a call does to the counters, their parity and the depth they encode:
\* the modulus is even, so a wrap keeps the alternation of the last bit.
LEMMA IncrementFacts ==
    ASSUME NEW c \in Counter
    PROVE  /\ Increment(c) \in Counter
           /\ Increment(c) % 2 = 1 - (c % 2)
  BY ModulusAssumption DEF Counter, Increment

LEMMA DepthFacts ==
    ASSUME NEW q \in Queue
    PROVE  /\ Depth(q) \in 0..(Modulus - 1)
           /\ Depth(q) = 0 <=> q.head = q.tail
           /\ (q.tail + Depth(q)) % 2 = q.head % 2
  BY ModulusAssumption DEF Queue, Counter, Depth

\* A stored put makes the queue deeper by one, a get shallower by one.
LEMMA DepthOfPut ==
    ASSUME NEW q \in Queue, Depth(q) < Modulus - 1
    PROVE  Depth([q EXCEPT !.head = Increment(q.head)]) = Depth(q) + 1
  BY ModulusAssumption DEF Queue, Counter, Depth, Increment

LEMMA DepthOfGet ==
    ASSUME NEW q \in Queue, q.head # q.tail
    PROVE  Depth([q EXCEPT !.tail = Increment(q.tail)]) = Depth(q) - 1
  BY ModulusAssumption DEF Queue, Counter, Depth, Increment

-------------------------------------------------------------------------------
\* The counters stay counters and the result an event or an error code.
THEOREM QueueTypeCorrect == QueueSpec => []QueueTypeOK
<1>1. QueueInit => QueueTypeOK
  BY ModulusAssumption DEF QueueInit, QueueTypeOK, toggle_queue_init, Queue, Counter, Event
<1>2. QueueTypeOK /\ [QueueNext]_queueVars => QueueTypeOK'
  <2> SUFFICES ASSUME QueueTypeOK, [QueueNext]_queueVars PROVE QueueTypeOK'
    OBVIOUS
  <2> USE DEF QueueTypeOK, Queue, Event
  <2>1. CASE \E e \in Event : Put(e)
    BY <2>1, IncrementFacts DEF Put, Calls, toggle_queue_put
  <2>2. CASE Get
    BY <2>2, IncrementFacts, ModulusAssumption DEF Get, Calls, toggle_queue_get, Counter
  <2>3. CASE GetOrLast
    BY <2>3, IncrementFacts, ModulusAssumption DEF GetOrLast, Calls, toggle_queue_get_or_last, Counter
  <2>4. CASE UNCHANGED queueVars
    BY <2>4 DEF queueVars
  <2> QED BY <2>1, <2>2, <2>3, <2>4 DEF QueueNext
<1> QED BY <1>1, <1>2, PTL DEF QueueSpec
-------------------------------------------------------------------------------
\* The filler's emptiness test (buttons.c:64) is right at every depth below the
\* modulus, the wrapped and the negative values included.
THEOREM LenCorrect == QueueSpec => []LenTellsPending
<1>1. QueueTypeOK => LenTellsPending
  <2> SUFFICES ASSUME QueueTypeOK PROVE LenTellsPending
    OBVIOUS
  <2>1. queue.head \in Counter /\ queue.tail \in Counter
    BY DEF QueueTypeOK, Queue
  <2>2. (queue.tail - queue.head) % Modulus = 0 <=> queue.tail = queue.head
    BY <2>1, ModulusAssumption, SMTT(30) DEF Counter
  <2>3. (queue.tail - queue.head) % Modulus \in 0..(Modulus - 1)
    BY <2>1, ModulusAssumption DEF Counter
  <2>4. Depth(queue) > 0 <=> queue.tail # queue.head
    BY DepthFacts DEF QueueTypeOK
  <2> QED
    BY <2>2, <2>3, <2>4, ModulusAssumption DEF LenTellsPending, toggle_queue_len
<1> QED BY <1>1, QueueTypeCorrect, PTL

-------------------------------------------------------------------------------
\* The depth never exceeds what the callers' bound allows, so it stays below the
\* modulus: the counters never lap each other.
WithinBound == Depth(queue) <= MaxDepth

LEMMA BoundKept == QueueSpec => []WithinBound
<1>1. QueueInit => WithinBound
  BY MaxDepthAssumption DEF QueueInit, WithinBound, Depth, toggle_queue_init, Event
<1>2. QueueTypeOK /\ WithinBound /\ [QueueNext]_queueVars => WithinBound'
  <2> SUFFICES ASSUME QueueTypeOK, WithinBound, [QueueNext]_queueVars PROVE WithinBound'
    OBVIOUS
  <2> USE MaxDepthAssumption, ModulusAssumption DEF QueueTypeOK, WithinBound
  <2>1. ASSUME NEW e \in Event, Put(e) PROVE WithinBound'
    <3>1. CASE queue.head % 2 = e
      BY <2>1, <3>1 DEF Put, Calls, toggle_queue_put
    <3>2. CASE queue.head % 2 # e
      <4>1. queue' = [queue EXCEPT !.head = Increment(queue.head)] /\ Depth(queue) < MaxDepth
        BY <2>1, <3>2 DEF Put, Calls, toggle_queue_put
      <4>2. Depth(queue) < Modulus - 1
        BY <4>1, DepthFacts
      <4>3. Depth(queue') = Depth(queue) + 1
        BY <4>1, <4>2, DepthOfPut
      <4> QED BY <4>1, <4>3, DepthFacts
    <3> QED BY <3>1, <3>2
  <2>2. CASE Get
    BY <2>2, DepthOfGet, DepthFacts DEF Get, Calls, toggle_queue_get
  <2>3. CASE GetOrLast
    <3>1. CASE queue.head = queue.tail
      <4>1. queue' = queue
        BY <2>3, <3>1 DEF GetOrLast, Calls, toggle_queue_get_or_last, Queue
      <4> QED BY <4>1
    <3>2. CASE queue.head # queue.tail
      BY <2>3, <3>2, DepthOfGet, DepthFacts DEF GetOrLast, Calls, toggle_queue_get_or_last
    <3> QED BY <3>1, <3>2
  <2>4. CASE UNCHANGED queueVars
    BY <2>4 DEF queueVars
  <2> QED BY <2>1, <2>2, <2>3, <2>4 DEF QueueNext
<1> QED BY <1>1, <1>2, QueueTypeCorrect, PTL DEF QueueSpec

-------------------------------------------------------------------------------
\* The sequence the counters stand for, under the three changes of a queue.
LEMMA PendingFacts ==
    ASSUME NEW q \in Queue
    PROVE  /\ Pending(q) \in Seq(Event)
           /\ Len(Pending(q)) = Depth(q)
           /\ Pending(q) = <<>> <=> q.head = q.tail
           /\ q.head # q.tail => Pending(q)[Len(Pending(q))] = q.head % 2
<1>1. Depth(q) \in Nat /\ q.tail \in Nat
  BY DepthFacts, ModulusAssumption DEF Queue, Counter
<1>2. \A i \in 1..Depth(q) : (q.tail + i) % 2 \in Event
  BY <1>1 DEF Event
<1>3. Pending(q) \in Seq(Event) /\ Len(Pending(q)) = Depth(q)
  BY <1>1, <1>2 DEF Pending
<1> QED BY <1>1, <1>3, DepthFacts DEF Pending

LEMMA PendingOfPut ==
    ASSUME NEW q \in Queue, NEW e \in Event, Depth(q) < Modulus - 1, q.head % 2 # e
    PROVE  Pending([q EXCEPT !.head = Increment(q.head)]) = Append(Pending(q), e)
<1> DEFINE r == [q EXCEPT !.head = Increment(q.head)]
           d == Depth(q)
<1>1. d \in Nat /\ Depth(r) = d + 1 /\ r.tail = q.tail /\ q.tail \in Nat
  BY DepthFacts, DepthOfPut, ModulusAssumption DEF Queue, Counter
<1>2. (q.tail + (d + 1)) % 2 = e
  <2>1. (q.tail + d) % 2 = q.head % 2 /\ q.head \in Nat
    BY DepthFacts, ModulusAssumption DEF Queue, Counter
  <2> QED BY <1>1, <2>1 DEF Event
<1>3. Pending(r) = [i \in 1..(d + 1) |-> (q.tail + i) % 2]
  BY <1>1 DEF Pending
<1>4. Pending(q) = [i \in 1..d |-> (q.tail + i) % 2]
  BY DEF Pending
<1> HIDE DEF r, d
<1>5. [i \in 1..(d + 1) |-> (q.tail + i) % 2] = Append([i \in 1..d |-> (q.tail + i) % 2], e)
  BY <1>1, <1>2
<1> QED BY <1>3, <1>4, <1>5 DEF r

LEMMA PendingOfGet ==
    ASSUME NEW q \in Queue, q.head # q.tail
    PROVE  /\ Pending([q EXCEPT !.tail = Increment(q.tail)]) = Tail(Pending(q))
           /\ Head(Pending(q)) = Increment(q.tail) % 2
<1> DEFINE r == [q EXCEPT !.tail = Increment(q.tail)]
           d == Depth(q)
<1>1. d \in Nat /\ d > 0 /\ Depth(r) = d - 1 /\ q.tail \in Nat
  BY DepthFacts, DepthOfGet, ModulusAssumption DEF Queue, Counter
<1>2. \A i \in Nat : (Increment(q.tail) + i) % 2 = (q.tail + (i + 1)) % 2
  BY <1>1, ModulusAssumption DEF Increment, Queue, Counter
<1>3. r.tail = Increment(q.tail)
  BY DEF Queue
<1>4. Pending(r) = [i \in 1..(d - 1) |-> (q.tail + (i + 1)) % 2]
  BY <1>1, <1>2, <1>3 DEF Pending
<1>5. Pending(q) = [i \in 1..d |-> (q.tail + i) % 2]
  BY DEF Pending
<1> HIDE DEF r, d
<1>6. Tail([i \in 1..d |-> (q.tail + i) % 2]) = [i \in 1..(d - 1) |-> (q.tail + (i + 1)) % 2]
  BY <1>1
<1>7. Head([i \in 1..d |-> (q.tail + i) % 2]) = Increment(q.tail) % 2
  <2>1. Head([i \in 1..d |-> (q.tail + i) % 2]) = (q.tail + 1) % 2
    BY <1>1
  <2>2. Increment(q.tail) % 2 = (q.tail + 1) % 2
    BY ModulusAssumption DEF Increment, Queue, Counter
  <2> QED BY <2>1, <2>2
<1> QED BY <1>4, <1>5, <1>6, <1>7 DEF r

-------------------------------------------------------------------------------
\* Any two counters of even modulus behave as the FIFO the header describes, the
\* value every call returns included, however often the counters wrap.
THEOREM RefinesFifo == QueueSpec => ImplementsFifo
<1>1. QueueInit => Fifo!FifoInit
  <2> SUFFICES ASSUME QueueInit PROVE Fifo!FifoInit
    OBVIOUS
  <2>1. queue \in Queue /\ queue.head = queue.tail /\ queue.tail % 2 \in Event /\ ret = 0
    BY ModulusAssumption DEF QueueInit, toggle_queue_init, Queue, Counter, Event
  <2> QED BY <2>1, PendingFacts DEF Fifo!FifoInit, Fifo!ToggleEvent, Event
<1>2. QueueTypeOK /\ WithinBound /\ [QueueNext]_queueVars => [Fifo!FifoNext]_Fifo!fifoVars
  <2> SUFFICES ASSUME QueueTypeOK, WithinBound, [QueueNext]_queueVars
               PROVE  [Fifo!FifoNext]_Fifo!fifoVars
    OBVIOUS
  <2> USE MaxDepthAssumption, ModulusAssumption
  <2>1. queue \in Queue /\ Depth(queue) \in Nat /\ Depth(queue) <= MaxDepth
    BY DepthFacts DEF QueueTypeOK, WithinBound
  <2>2. Fifo!Newest = queue.head % 2
    BY <2>1, PendingFacts DEF Fifo!Newest
  <2>3. ASSUME NEW e \in Event, Put(e) PROVE Fifo!Accept(e) \/ Fifo!Refuse(e)
    <3>1. CASE queue.head % 2 = e
      BY <2>2, <2>3, <3>1 DEF Put, Calls, toggle_queue_put, Fifo!Refuse, Fifo!Refused, EINVAL
    <3>2. CASE queue.head % 2 # e
      <4>1. /\ queue' = [queue EXCEPT !.head = Increment(queue.head)]
            /\ ret' = e
            /\ Depth(queue) < MaxDepth
        BY <2>3, <3>2 DEF Put, Calls, toggle_queue_put
      <4>2. Pending(queue') = Append(Pending(queue), e)
        BY <2>1, <3>2, <4>1, PendingOfPut
      <4>3. queue'.tail = queue.tail
        BY <2>1, <4>1 DEF Queue
      <4>4. Len(Pending(queue)) < MaxDepth
        BY <2>1, <4>1, PendingFacts
      <4> QED BY <2>2, <3>2, <4>1, <4>2, <4>3, <4>4 DEF Fifo!Accept
    <3> QED BY <3>1, <3>2
  <2>4. ASSUME queue.head # queue.tail,
               queue' = [queue EXCEPT !.tail = Increment(queue.tail)],
               ret' = Increment(queue.tail) % 2
        PROVE  Fifo!Take
    <3>1. Pending(queue) # <<>>
      BY <2>1, <2>4, PendingFacts
    <3>2. queue'.tail = Increment(queue.tail)
      BY <2>1, <2>4 DEF Queue
    <3> QED BY <2>1, <2>4, <3>1, <3>2, PendingOfGet DEF Fifo!Take
  <2>5. CASE Get
    <3>1. CASE queue.tail = queue.head
      BY <2>1, <2>5, <3>1, PendingFacts
      DEF Get, Calls, toggle_queue_get, Fifo!FifoNext, Fifo!TakeNothing, Fifo!Nothing, ENODATA
    <3>2. CASE queue.tail # queue.head
      BY <2>4, <2>5, <3>2 DEF Get, Calls, toggle_queue_get, Fifo!FifoNext
    <3> QED BY <3>1, <3>2
  <2>6. CASE GetOrLast
    <3>1. CASE queue.tail = queue.head
      <4>1. queue' = queue /\ ret' = queue.tail % 2
        BY <2>1, <2>6, <3>1 DEF GetOrLast, Calls, toggle_queue_get_or_last, Queue
      <4> QED BY <2>1, <3>1, <4>1, PendingFacts DEF Fifo!FifoNext, Fifo!RepeatLast
    <3>2. CASE queue.tail # queue.head
      BY <2>4, <2>6, <3>2 DEF GetOrLast, Calls, toggle_queue_get_or_last, Fifo!FifoNext
    <3> QED BY <3>1, <3>2
  <2>7. CASE UNCHANGED queueVars
    BY <2>7 DEF queueVars, Fifo!fifoVars
  <2> QED BY <2>3, <2>5, <2>6, <2>7 DEF QueueNext, Fifo!FifoNext, Fifo!ToggleEvent, Event
<1> QED BY <1>1, <1>2, QueueTypeCorrect, BoundKept, PTL DEF QueueSpec, ImplementsFifo, Fifo!FifoSpec
-------------------------------------------------------------------------------
\* Every step of the buttons is one of the collector's, or leaves it alone.
LEMMA StepRefines == [ButtonsNext]_systemVars => [Next]_collectorVars
<1> SUFFICES ASSUME [ButtonsNext]_systemVars PROVE [Next]_collectorVars
  OBVIOUS
<1>1. ButtonsId \in Registered /\ ButtonsId \in Bits
  BY ButtonsAssumption DEF Existing, Bits
<1>2. ASSUME NEW b \in Buttons, NEW level \in Event, InterruptCb(b, level) PROVE Next
  BY <1>1, <1>2 DEF InterruptCb, Next
<1>3. CASE Filler
  BY <1>1, <1>3 DEF Filler, FillerTakes, FillerChecks, ButtonsCalled, ButtonsReturn, Next, Thread
<1>4. CASE Sink
  BY <1>4 DEF Sink, ReportDropped, ReportSent, ReportCleared, Next, Thread
<1>5. CASE OtherSteps
  BY <1>5 DEF OtherSteps, Next, Thread
<1>6. CASE OtherNotify
  BY <1>6 DEF OtherNotify, Next
<1>7. CASE ShellSteps
  BY <1>7 DEF ShellSteps, Next
<1>8. CASE UNCHANGED systemVars
  BY <1>8 DEF systemVars
<1> QED BY <1>2, <1>3, <1>4, <1>5, <1>6, <1>7, <1>8 DEF ButtonsNext, ThreadSteps

\* The source and its sink implement the collector (collector.c:34-68).
THEOREM RefinesCollector == ButtonsSpec => ImplementsCollector
<1>1. ButtonsInit => Init
  BY DEF ButtonsInit
<1> QED BY <1>1, StepRefines, PTL DEF ButtonsSpec, Spec, ImplementsCollector

LEMMA CollectorInv == ButtonsSpec => []IInv
  BY RefinesCollector, Invariance, PTL DEF ImplementsCollector
-------------------------------------------------------------------------------
LEMMA CounterFacts ==
    /\ \A c \in Counter : /\ Increment(c) \in Counter /\ Increment(c) # c
                          /\ Increment(c) % 2 \in Event /\ c % 2 \in Event
                          /\ Increment(c) % 2 = 1 - (c % 2)
                          /\ Increment(c) % 2 # c % 2
    /\ 0 \in Counter /\ 1 \in Counter
<1>1. PICK k \in Nat : Modulus = 2 * k
  BY ModulusAssumption
<1>2. \A c \in Counter : c \in Nat /\ c % 2 \in {0, 1} /\ (c + 1) % 2 = 1 - (c % 2)
  BY DEF Counter
<1>3. (Modulus - 1) % 2 = 1 /\ 0 % 2 = 0
  BY <1>1
<1> QED BY <1>2, <1>3, ModulusAssumption DEF Counter, Increment, Event

\* What a put and a get do to the struct, in terms of head and tail.
LEMMA QueueFacts ==
    ASSUME NEW q \in Queue
    PROVE  /\ Depth(q) = 0 <=> q.head = q.tail
           /\ toggle_queue_len(q) = 0 <=> q.head = q.tail
           /\ \A e \in Event : /\ toggle_queue_put(q, e).queue \in Queue
                               /\ toggle_queue_put(q, e).queue.tail = q.tail
           /\ LET got == toggle_queue_get_or_last(q)
              IN  /\ got.queue \in Queue /\ got.queue.head = q.head
                  /\ got.queue.tail \in {q.tail, Increment(q.tail)}
                  /\ got.ret = got.queue.tail % 2 /\ got.ret \in Event
<1>1. q.head \in Counter /\ q.tail \in Counter /\ q = [head |-> q.head, tail |-> q.tail]
  BY DEF Queue
<1>2. Depth(q) = 0 <=> q.head = q.tail
  BY <1>1, ModulusAssumption DEF Counter, Depth
<1>3. toggle_queue_len(q) = 0 <=> q.head = q.tail
  <2>1. (q.tail - q.head) % Modulus = IF q.tail >= q.head THEN q.tail - q.head
                                      ELSE q.tail - q.head + Modulus
    BY <1>1, ModulusAssumption DEF Counter
  <2> QED BY <2>1, <1>1, ModulusAssumption DEF Counter, toggle_queue_len
<1>4. \A e \in Event : /\ toggle_queue_put(q, e).queue \in Queue
                       /\ toggle_queue_put(q, e).queue.tail = q.tail
  BY <1>1, CounterFacts DEF toggle_queue_put, Queue
<1>5. LET got == toggle_queue_get_or_last(q)
      IN  /\ got.queue \in Queue /\ got.queue.head = q.head
          /\ got.queue.tail \in {q.tail, Increment(q.tail)}
          /\ got.ret = got.queue.tail % 2 /\ got.ret \in Event
  BY <1>1, CounterFacts DEF toggle_queue_get_or_last, Queue
<1> QED BY <1>2, <1>3, <1>4, <1>5

\* A button whose toggle the filler has not taken in this round has been shown; the
\* bits of the report are those of the tails once the filler has written them.
TailOf(i)  == queues[ButtonOrder[i]].tail
Shown(i)  == shown[ButtonOrder[i]]
Bit(i)    == bits[ButtonOrder[i]]

ShownUntilTaken == \A i \in 1..N : ButtonsId \in report \/ at > i \/ Shown(i) = TailOf(i)
LagsByOne       == \A i \in 1..N : \/ Shown(i) = TailOf(i)
                                   \/ pc \in {"fill", "filler"} /\ Increment(Shown(i)) = TailOf(i)
BitsOfTails     == \A i \in 1..N : (synced \/ at > i) => Bit(i) = TailOf(i) % 2
SyncedByFiller  == ButtonsId \in report => synced

ShowInv == /\ ShownUntilTaken /\ LagsByOne /\ BitsOfTails /\ SyncedByFiller
BInv    == /\ IInv /\ ButtonsTypeOK /\ QueuedIsAnnounced /\ ShowInv

LEMMA OrderFacts ==
    /\ N \in Nat \ {0} /\ ButtonsId \in Registered /\ ButtonsId \in Ids
    /\ ButtonsId # Changed /\ ButtonsId # NoSource
    /\ \A i \in 1..N : ButtonOrder[i] \in Buttons
    /\ \A i, j \in 1..N : ButtonOrder[i] = ButtonOrder[j] => i = j
    /\ \A b \in Buttons : \E i \in 1..N : b = ButtonOrder[i]
  BY ButtonsAssumption, BitFacts DEF N, Buttons, Existing

LEMMA AtServes == BInv /\ at # 0 => pc = "filler" /\ source = ButtonsId /\ ButtonsId \notin report
  BY OrderFacts DEF BInv, IInv, Serving, Round, ButtonsTypeOK
-------------------------------------------------------------------------------
LEMMA ButtonsTypeStep == BInv /\ [ButtonsNext]_systemVars => ButtonsTypeOK'
<1> SUFFICES ASSUME BInv, [ButtonsNext]_systemVars PROVE ButtonsTypeOK'
  OBVIOUS
<1> USE OrderFacts DEF BInv, ButtonsTypeOK
<1>1. ASSUME NEW b \in Buttons, NEW level \in Event, InterruptCb(b, level) PROVE ButtonsTypeOK'
  <2>1. 1 - level \in Event
    BY <1>1 DEF Event
  <2>2. toggle_queue_put(queues[b], 1 - level).queue \in Queue
    BY <2>1, QueueFacts
  <2> QED BY <1>1, <2>2 DEF InterruptCb, Notify, shownVars
<1>2. CASE FillerTakes
  <2>1. ButtonOrder[at] \in Buttons
    BY <1>2 DEF FillerTakes
  <2>2. /\ toggle_queue_get_or_last(queues[ButtonOrder[at]]).queue \in Queue
        /\ toggle_queue_get_or_last(queues[ButtonOrder[at]]).ret \in Event
    BY <2>1, QueueFacts
  <2>3. at \in 1..N /\ at + 1 \in 1..(2 * N + 1)
    BY <1>2 DEF FillerTakes
  <2> QED BY <1>2, <2>2, <2>3 DEF FillerTakes, collectorVars, shownVars
<1>3. CASE FillerChecks
  <2>1. at' \in 1..(2 * N + 1) /\ at # 0 /\ source' = source
    BY <1>3 DEF FillerChecks, Notify, collectorVars
  <2> QED BY <1>3, <2>1 DEF FillerChecks, shownVars
<1>4. CASE ButtonsCalled
  BY <1>4 DEF ButtonsCalled, CallFiller, shownVars
<1>5. CASE ButtonsReturn
  BY <1>5 DEF ButtonsReturn, FillerReturns
<1>6. CASE Sink
  <2>1. ASSUME Shows PROVE shown' \in [Buttons -> Counter]
    BY <2>1, CounterFacts DEF Shows
  <2> QED BY <1>6, <2>1 DEF Sink, ReportDropped, ReportSent, ReportCleared, SinkDrops, SinkSends,
                            SinkReturns, clear_non_persistent_data, hid_report_persistent_bytes,
                            buttonVars, shownVars
<1>7. CASE OtherSteps
  <2>1. source' = source \/ (source # ButtonsId /\ source' # ButtonsId)
    BY <1>7, AtServes, BitFacts DEF OtherSteps, CallFiller, FillerReturns, Start, Wait, Restart,
                          TakeEvents, IInv, Serving
  <2> QED BY <1>7, <2>1 DEF OtherSteps, buttonVars, shownVars
<1>8. CASE OtherNotify \/ ShellSteps
  <2>1. source' = source
    BY <1>8 DEF OtherNotify, ShellSteps, Shell, SetEnabled, StoreEnabled, PostChanged, Notify, threadVars
  <2> QED BY <1>8, <2>1 DEF OtherNotify, ShellSteps, buttonVars, shownVars
<1>9. CASE UNCHANGED systemVars
  BY <1>9 DEF systemVars, collectorVars, buttonVars, shownVars
<1> QED BY <1>1, <1>2, <1>3, <1>4, <1>5, <1>6, <1>7, <1>8, <1>9 DEF ButtonsNext, ThreadSteps, Filler

\* A notification leaves what it announces posted or, if a waiter woke, received.
LEMMA QueuedStep == BInv /\ [ButtonsNext]_systemVars => QueuedIsAnnounced'
<1> SUFFICES ASSUME BInv, [ButtonsNext]_systemVars, NEW i \in 1..N, (Depth(queues[ButtonOrder[i]]) > 0)'
             PROVE  (\/ ButtonsId \in event
                     \/ pc \in {"fill", "filler"} /\ ButtonsId \in events
                     \/ at \in 1..(N + i))'
  BY DEF QueuedIsAnnounced
<1> USE OrderFacts
<1> DEFINE Before == \/ ButtonsId \in event
                     \/ pc \in {"fill", "filler"} /\ ButtonsId \in events
                     \/ at \in 1..(N + i)
<1>0. /\ queues' = queues => Before
      /\ at # 0 => pc = "filler"
      /\ queues \in [Buttons -> Queue] /\ at \in 0..(2 * N + 1)
  BY AtServes DEF BInv, ButtonsTypeOK, QueuedIsAnnounced
<1>1. ASSUME NEW b \in Buttons, NEW level \in Event, InterruptCb(b, level) PROVE ButtonsId \in event'
  BY <1>1 DEF InterruptCb, Notify, Post
<1>2. CASE FillerTakes
  BY <1>2, <1>0 DEF FillerTakes
<1>3. CASE FillerChecks
  <2>1. CASE toggle_queue_len(queues[ButtonOrder[at - N]]) # 0
    BY <1>3, <2>1 DEF FillerChecks, Notify, Post
  <2>2. CASE toggle_queue_len(queues[ButtonOrder[at - N]]) = 0
    <3>1. at - N \in 1..N /\ Depth(queues[ButtonOrder[at - N]]) = 0
      BY <1>0, <1>3, <2>2, QueueFacts DEF FillerChecks
    <3>2. at - N # i
      BY <3>1, <1>3 DEF FillerChecks
    <3> QED BY <1>0, <1>3, <2>2, <3>1, <3>2 DEF FillerChecks, collectorVars
  <2> QED BY <2>1, <2>2
<1>4. CASE ButtonsCalled
  BY <1>4 DEF ButtonsCalled
<1>5. CASE ButtonsReturn
  BY <1>5, <1>0 DEF ButtonsReturn, FillerReturns
<1>6. CASE Sink
  BY <1>6, <1>0 DEF Sink, ReportDropped, ReportSent, ReportCleared, SinkDrops, SinkSends,
                    SinkReturns, buttonVars
<1>7. CASE OtherSteps
  BY <1>7, <1>0 DEF OtherSteps, CallFiller, FillerReturns, Start, Wait, Restart, TakeEvents, buttonVars
<1>8. CASE OtherNotify \/ ShellSteps
  BY <1>8, <1>0 DEF OtherNotify, ShellSteps, Shell, SetEnabled, StoreEnabled, PostChanged, Notify,
                    Post, threadVars, sharedVars, buttonVars
<1>9. CASE UNCHANGED systemVars
  BY <1>9, <1>0 DEF systemVars, collectorVars, buttonVars
<1> QED BY <1>1, <1>2, <1>3, <1>4, <1>5, <1>6, <1>7, <1>8, <1>9 DEF ButtonsNext, ThreadSteps, Filler
-------------------------------------------------------------------------------
\* The effect of the steps that leave the buttons alone, and the report with them.
LEMMA AsideStep ==
    ASSUME BInv, OtherSteps \/ OtherNotify \/ ShellSteps
    PROVE  /\ queues' = queues /\ at' = at /\ bits' = bits /\ shown' = shown /\ synced' = synced
           /\ ButtonsId \in report' <=> ButtonsId \in report
           /\ pc \in {"fill", "filler"} => pc' \in {"fill", "filler"}
<1> USE OrderFacts
<1>1. CASE OtherSteps
  BY <1>1, AtServes DEF OtherSteps, CallFiller, FillerReturns, Start, Wait, Restart, TakeEvents,
                        buttonVars, shownVars
<1>2. CASE OtherNotify
  BY <1>2 DEF OtherNotify, Notify, Post, buttonVars, shownVars
<1>3. CASE ShellSteps
  BY <1>3 DEF ShellSteps, Shell, SetEnabled, StoreEnabled, PostChanged, Post, threadVars,
              buttonVars, shownVars
<1> QED BY <1>1, <1>2, <1>3

\* A report handed to the sink shows every toggle that had been taken.
LEMMA SinkShows ==
    ASSUME BInv, Shows, pc = "fill"
    PROVE  /\ \A i \in 1..N : shown'[ButtonOrder[i]] = TailOf(i)
           /\ at = 0
<1> USE OrderFacts DEF BInv
<1>1. at = 0
  BY AtServes
<1> SUFFICES ASSUME NEW i \in 1..N PROVE shown'[ButtonOrder[i]] = TailOf(i)
  BY <1>1
<1> DEFINE b == ButtonOrder[i]
<1>2. b \in Buttons /\ Shown(i) \in Counter /\ TailOf(i) \in Counter
  BY DEF ButtonsTypeOK, Queue, Shown, TailOf
<1>3. shown'[b] = IF synced /\ Bit(i) # Shown(i) % 2 THEN Increment(Shown(i)) ELSE Shown(i)
  BY <1>2 DEF Shows, Bit, Shown
<1>4. CASE synced
  <2>1. Bit(i) = TailOf(i) % 2
    BY <1>4 DEF ShowInv, BitsOfTails
  <2>2. Shown(i) = TailOf(i) \/ Increment(Shown(i)) = TailOf(i)
    BY DEF ShowInv, LagsByOne
  <2>3. Increment(Shown(i)) % 2 # Shown(i) % 2
    BY <1>2, CounterFacts
  <2> QED BY <1>3, <1>4, <2>1, <2>2, <2>3
<1>5. CASE ~synced
  <2>1. Shown(i) = TailOf(i)
    BY <1>1, <1>5 DEF ShowInv, ShownUntilTaken, SyncedByFiller
  <2> QED BY <1>3, <1>5, <2>1
<1> QED BY <1>4, <1>5

LEMMA ShowStep == BInv /\ [ButtonsNext]_systemVars => ShowInv'
<1> SUFFICES ASSUME BInv, [ButtonsNext]_systemVars PROVE ShowInv'
  OBVIOUS
<1> USE OrderFacts DEF BInv, ShowInv
<1>0. queues \in [Buttons -> Queue] /\ bits \in [Buttons -> Event] /\ shown \in [Buttons -> Counter]
  BY DEF ButtonsTypeOK
<1>1. ASSUME NEW b \in Buttons, NEW level \in Event, InterruptCb(b, level) PROVE ShowInv'
  <2>1. 1 - level \in Event /\ queues[b] \in Queue
    BY <1>0 DEF Event
  <2>2. \A i \in 1..N : TailOf(i)' = TailOf(i)
    BY <1>0, <1>1, <2>1, QueueFacts DEF InterruptCb, TailOf
  <2>3. /\ report' = report /\ at' = at /\ bits' = bits /\ shown' = shown /\ synced' = synced
        /\ pc \in {"fill", "filler"} => pc' = pc
    BY <1>1 DEF InterruptCb, Notify, Post, shownVars
  <2> QED BY <2>2, <2>3 DEF ShownUntilTaken, LagsByOne, BitsOfTails, SyncedByFiller, Shown, Bit
<1>2. CASE FillerTakes
  <2> PICK k \in 1..N : k = at
    BY <1>2 DEF FillerTakes
  <2> DEFINE got == toggle_queue_get_or_last(queues[ButtonOrder[k]])
  <2>1. /\ at = k /\ at' = k + 1 /\ report' = report /\ pc' = pc
        /\ shown' = shown /\ synced' = synced
        /\ queues' = [queues EXCEPT ![ButtonOrder[k]] = got.queue]
        /\ bits' = [bits EXCEPT ![ButtonOrder[k]] = got.ret]
    BY <1>2 DEF FillerTakes, collectorVars, shownVars
  <2>2. pc = "filler" /\ ButtonsId \notin report
    BY <2>1, AtServes
  <2>3. queues[ButtonOrder[k]] \in Queue
    BY <1>0
  <2>4. got.queue.tail \in {TailOf(k), Increment(TailOf(k))} /\ got.ret = got.queue.tail % 2
    BY <2>3, QueueFacts DEF TailOf
  <2> HIDE DEF got
  <2>5. TailOf(k)' = got.queue.tail /\ Bit(k)' = got.ret
    BY <1>0, <2>1 DEF TailOf, Bit
  <2>6. Shown(k) = TailOf(k)
    BY <2>1, <2>2 DEF ShownUntilTaken
  <2>7. \A i \in 1..N : i # k => TailOf(i)' = TailOf(i) /\ Bit(i)' = Bit(i)
    BY <1>0, <2>1 DEF TailOf, Bit
  <2>8. \A i \in 1..N : Shown(i)' = Shown(i)
    BY <2>1 DEF Shown
  <2>9. ShownUntilTaken'
    BY <2>1, <2>7, <2>8 DEF ShownUntilTaken
  <2>10. LagsByOne'
    BY <2>1, <2>2, <2>4, <2>5, <2>6, <2>7, <2>8 DEF LagsByOne
  <2>11. BitsOfTails'
    <3> SUFFICES ASSUME NEW i \in 1..N, synced \/ k + 1 > i PROVE Bit(i)' = TailOf(i)' % 2
      BY <2>1 DEF BitsOfTails
    <3>1. CASE i = k
      BY <2>4, <2>5, <3>1
    <3>2. CASE i # k
      BY <2>1, <2>7, <3>2 DEF BitsOfTails
    <3> QED BY <3>1, <3>2
  <2> QED BY <2>1, <2>9, <2>10, <2>11 DEF SyncedByFiller
<1>3. CASE FillerChecks
  <2>1. /\ at \in (N + 1)..(2 * N) /\ at' \in (N + 2)..(2 * N + 1)
        /\ pc' = pc /\ report' = report
        /\ queues' = queues /\ bits' = bits /\ shown' = shown /\ synced' = synced
    BY <1>3, AtServes DEF FillerChecks, Notify, Post, collectorVars, shownVars
  <2>2. \A i \in 1..N : at > i /\ at' > i
    BY <2>1
  <2>3. \A i \in 1..N : Shown(i)' = Shown(i) /\ TailOf(i)' = TailOf(i) /\ Bit(i)' = Bit(i)
    BY <2>1 DEF Shown, Bit, TailOf
  <2>4. ShownUntilTaken' /\ BitsOfTails'
    BY <2>2, <2>3 DEF ShownUntilTaken, BitsOfTails
  <2>5. LagsByOne' /\ SyncedByFiller'
    BY <2>1, <2>3 DEF LagsByOne, SyncedByFiller
  <2> QED BY <2>4, <2>5
<1>4. CASE ButtonsCalled
  <2>1. /\ pc = "fill" /\ pc' = "filler" /\ ButtonsId \in events /\ at' = 1 /\ report' = report
        /\ queues' = queues /\ bits' = bits /\ shown' = shown /\ synced' = synced
    BY <1>4 DEF ButtonsCalled, CallFiller, shownVars
  <2>2. ButtonsId \notin report /\ at = 0
    BY <2>1, AtServes DEF IInv, Round
  <2> QED BY <2>1, <2>2 DEF ShownUntilTaken, LagsByOne, BitsOfTails, SyncedByFiller, Shown, Bit, TailOf
<1>5. CASE ButtonsReturn
  <2>1. /\ pc = "filler" /\ pc' = "fill" /\ at = 2 * N + 1 /\ ButtonsId \in report' /\ synced'
        /\ queues' = queues /\ bits' = bits /\ shown' = shown
    BY <1>5, AtServes DEF ButtonsReturn, FillerReturns
  <2> QED BY <2>1 DEF ShownUntilTaken, LagsByOne, BitsOfTails, SyncedByFiller, Shown, Bit, TailOf
<1>6. CASE ReportDropped \/ ReportSent
  <2>1. /\ pc = "fill" /\ Shows /\ (report' = {} \/ report' = report)
        /\ queues' = queues /\ bits' = bits /\ at' = at /\ synced' = synced
    BY <1>6 DEF ReportDropped, ReportSent, SinkDrops, SinkSends, buttonVars,
                clear_non_persistent_data, hid_report_persistent_bytes
  <2>2. \A i \in 1..N : Shown(i)' = TailOf(i) /\ TailOf(i)' = TailOf(i) /\ Bit(i)' = Bit(i)
    BY <2>1, SinkShows DEF Shown, TailOf, Bit
  <2> QED BY <2>1, <2>2 DEF ShownUntilTaken, LagsByOne, BitsOfTails, SyncedByFiller
<1>7. CASE ReportCleared
  <2>1. /\ pc = "asleep" /\ report' = {} /\ queues' = queues /\ bits' = bits /\ shown' = shown
        /\ at' = at /\ synced' = synced
    BY <1>7 DEF ReportCleared, SinkReturns, shownVars, clear_non_persistent_data,
                hid_report_persistent_bytes
  <2>2. \A i \in 1..N : Shown(i) = TailOf(i)
    BY <2>1 DEF LagsByOne
  <2> QED BY <2>1, <2>2 DEF ShownUntilTaken, LagsByOne, BitsOfTails, SyncedByFiller, Shown, Bit, TailOf
<1>8. CASE OtherSteps \/ OtherNotify \/ ShellSteps
  BY <1>8, AsideStep DEF ShownUntilTaken, LagsByOne, BitsOfTails, SyncedByFiller, Shown, Bit, TailOf
<1>9. CASE UNCHANGED systemVars
  BY <1>9 DEF systemVars, collectorVars, buttonVars, shownVars,
              ShownUntilTaken, LagsByOne, BitsOfTails, SyncedByFiller, Shown, Bit, TailOf
<1> QED BY <1>1, <1>2, <1>3, <1>4, <1>5, <1>6, <1>7, <1>8, <1>9
        DEF ButtonsNext, ThreadSteps, Filler, Sink

LEMMA ButtonsInitially == ButtonsInit => BInv
<1> SUFFICES ASSUME ButtonsInit PROVE BInv
  OBVIOUS
<1> USE OrderFacts
<1>0. Init /\ at = 0 /\ bits = [b \in Buttons |-> 0] /\ synced = FALSE
  BY DEF ButtonsInit
<1>1. PICK held \in [Buttons -> Event] : /\ queues = [b \in Buttons |-> toggle_queue_init(held[b])]
                                         /\ shown = held
  BY DEF ButtonsInit
<1>2. /\ Event \subseteq Counter
      /\ \A b \in Buttons : /\ queues[b] \in Queue /\ queues[b].tail = shown[b]
                            /\ queues[b].head = queues[b].tail
  BY <1>1, CounterFacts DEF toggle_queue_init, Queue, Event
<1>3. IInv
  BY <1>0, BitFacts, SourcesAssumption
  DEF Init, IInv, TypeOK, Serving, Round, Sleeping, LoadedWord, Settled,
      NoLostNotification, NoCall, Existing, Registered, Ids, Bits, NoSource
<1>4. ButtonsTypeOK
  <2>1. source # ButtonsId
    BY <1>0 DEF Init
  <2>2. queues \in [Buttons -> Queue] /\ shown \in [Buttons -> Counter]
    BY <1>1, <1>2
  <2>3. bits \in [Buttons -> Event]
    BY <1>0 DEF Event
  <2>4. at \in 0..(2 * N + 1)
    BY <1>0
  <2>5. synced \in BOOLEAN
    BY <1>0
  <2>6. at # 0 <=> source = ButtonsId
    BY <1>0, <2>1
  <2> QED BY <2>2, <2>3, <2>4, <2>5, <2>6 DEF ButtonsTypeOK
<1>5. QueuedIsAnnounced
  BY <1>2, QueueFacts DEF QueuedIsAnnounced
<1>6. ShowInv
  BY <1>0, <1>2 DEF ShowInv, ShownUntilTaken, LagsByOne, BitsOfTails, SyncedByFiller, Shown, Bit, TailOf, Init
<1> QED BY <1>3, <1>4, <1>5, <1>6 DEF BInv

LEMMA ButtonsInvariance == ButtonsSpec => []BInv
<1>1. BInv /\ [ButtonsNext]_systemVars => BInv'
  BY ButtonsTypeStep, QueuedStep, ShowStep, StepRefines, InvStep DEF BInv
<1> QED BY <1>1, ButtonsInitially, PTL DEF ButtonsSpec

\* No toggle waits in a queue without a call of the filler to come
\* (buttons.c:34-73), and the queues stay in range.
THEOREM QueuedStaysAnnounced == ButtonsSpec => []ButtonsInv
<1>1. BInv => ButtonsInv
  BY DEF BInv, ButtonsInv
<1> QED BY <1>1, ButtonsInvariance, PTL

\* No toggle is merged with another or undone on its way to the sink
\* (buttons.c:54-73, hid_report_map.c:77): the sink lags by at most one of each.
THEOREM TogglesShown == ButtonsSpec => []EveryToggleShown
<1>1. BInv => EveryToggleShown
  BY OrderFacts DEF BInv, ShowInv, LagsByOne, EveryToggleShown, Shown, TailOf
<1> QED BY <1>1, ButtonsInvariance, PTL
================================================================================

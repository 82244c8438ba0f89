--------------------------- MODULE ToggleQueueSpec ---------------------------
(***************************************************************************)
(* One toggle queue under any sequence of calls.  Its callers are an ISR     *)
(* that puts and a thread that takes: each counter has a single writer and   *)
(* is one word, so a call is one step.                                       *)
(***************************************************************************)
EXTENDS ToggleQueue, Sequences

VARIABLES queue, ret
queueVars == <<queue, ret>>

QueueInit == /\ \E s \in Event : queue = toggle_queue_init(s)
             /\ ret = 0

Calls(result) == queue' = result.queue /\ ret' = result.ret

\* MaxDepth bounds the puts that store an event; a refused put needs no room.
Put(e)    == /\ Depth(queue) < MaxDepth \/ e = queue.head % 2
             /\ Calls(toggle_queue_put(queue, e))
Get       == Calls(toggle_queue_get(queue))
GetOrLast == Calls(toggle_queue_get_or_last(queue))

QueueNext == (\E e \in Event : Put(e)) \/ Get \/ GetOrLast

QueueSpec == QueueInit /\ [][QueueNext]_queueVars
-------------------------------------------------------------------------------
\* The queue is two counters, and a result is an event or an error code.
QueueTypeOK == /\ queue \in Queue
               /\ ret \in Event \cup {EINVAL, ENODATA}

\* The emptiness test of the buttons' filler (buttons.c:64), which treats
\* toggle_queue_len as a truth value: nonzero exactly when an event is
\* pending, also once the counters have wrapped and the int is negative.
LenTellsPending == toggle_queue_len(queue) # 0 <=> Depth(queue) > 0

-------------------------------------------------------------------------------
\* The events in the queue: the last bits of the counter values after tail.
Pending(q) == [i \in 1..Depth(q) |-> (q.tail + i) % 2]

Fifo == INSTANCE ToggleFifo WITH
            Capacity <- MaxDepth, pending <- Pending(queue), last <- queue.tail % 2

\* The two counters behave as the bounded FIFO of alternating events that the
\* header describes (toggle_queue.h:1-5), results included.
ImplementsFifo == Fifo!FifoSpec
==============================================================================

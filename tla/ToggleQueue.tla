----------------------------- MODULE ToggleQueue -----------------------------
(***************************************************************************)
(* util/toggle_queue.h: a queue of ON/OFF events kept in two wrapping       *)
(* counters.  An event is the last bit of the counter value it moved, so    *)
(* the queue stores nothing else.  Each function is an operator on the      *)
(* struct; a function that changes it returns the pair [queue, ret].        *)
(***************************************************************************)
EXTENDS Integers

CONSTANTS Modulus,   \* UINT32_MAX + 1: the counters are uint32_t
          MaxDepth   \* events the callers let pile up (the header: UINT32_MAX)

ASSUME ModulusAssumption == Modulus \in Nat /\ Modulus > 2 /\ Modulus % 2 = 0
ASSUME MaxDepthAssumption == MaxDepth \in 1..(Modulus - 1)

Event   == {0, 1}               \* bool: OFF, ON
Counter == 0..(Modulus - 1)
Queue   == [head : Counter, tail : Counter]

EINVAL  == -22
ENODATA == -61

\* ++ on a uint32_t
Increment(c) == IF c = Modulus - 1 THEN 0 ELSE c + 1

\* The number of events put and not yet taken, as the counters encode it.
Depth(q) == IF q.head >= q.tail THEN q.head - q.tail ELSE q.head - q.tail + Modulus

toggle_queue_init(initial_state) == [head |-> initial_state, tail |-> initial_state]

\* Mutant: the length is cut to half the width.
toggle_queue_len_narrow(q) == (q.tail - q.head) % (Modulus \div 2)

\* tail - head as the code computes it, converted from uint32_t to int.
toggle_queue_len(q) ==
    LET d == (q.tail - q.head) % Modulus
    IN  IF d < Modulus \div 2 THEN d ELSE d - Modulus

\* Mutant: an event that follows itself is not refused.
toggle_queue_put_any(q, event) ==
    [queue |-> [q EXCEPT !.head = Increment(@)], ret |-> event]

toggle_queue_put(q, event) ==
    IF q.head % 2 = event
    THEN [queue |-> q, ret |-> EINVAL]
    ELSE [queue |-> [q EXCEPT !.head = Increment(@)], ret |-> event]

toggle_queue_get(q) ==
    LET next == Increment(q.tail)
    IN  IF q.tail = q.head
        THEN [queue |-> q, ret |-> ENODATA]
        ELSE [queue |-> [q EXCEPT !.tail = next], ret |-> next % 2]

toggle_queue_get_or_last(q) ==
    LET next == IF q.tail # q.head THEN Increment(q.tail) ELSE q.tail
    IN  [queue |-> [q EXCEPT !.tail = next], ret |-> next % 2]
==============================================================================

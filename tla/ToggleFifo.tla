------------------------------ MODULE ToggleFifo ------------------------------
(***************************************************************************)
(* What toggle_queue.h promises: a bounded first-in first-out queue of       *)
(* ON/OFF events in which no event follows itself.  A put of the event that  *)
(* is already newest is refused; a get returns events in the order they      *)
(* were put; get_or_last repeats the last event taken when nothing is left.  *)
(***************************************************************************)
EXTENDS Integers, Sequences

CONSTANT Capacity        \* how many events the queue must be able to store

VARIABLES pending,       \* events put and not yet taken, oldest first
          last,          \* the event taken last (initially the initial state)
          ret            \* what the last call returned
fifoVars == <<pending, last, ret>>

ToggleEvent == {0, 1}
Refused == -22           \* -EINVAL
Nothing == -61           \* -ENODATA

Newest == IF pending = <<>> THEN last ELSE pending[Len(pending)]

FifoInit == pending = <<>> /\ last \in ToggleEvent /\ ret = 0

Accept(e) == /\ Len(pending) < Capacity
             /\ e # Newest
             /\ pending' = Append(pending, e)
             /\ ret' = e
             /\ UNCHANGED last

Refuse(e) == /\ e = Newest
             /\ ret' = Refused
             /\ UNCHANGED <<pending, last>>

Take == /\ pending # <<>>
        /\ pending' = Tail(pending)
        /\ last' = Head(pending)
        /\ ret' = Head(pending)

TakeNothing == /\ pending = <<>>
               /\ ret' = Nothing
               /\ UNCHANGED <<pending, last>>

RepeatLast == /\ pending = <<>>
              /\ ret' = last
              /\ UNCHANGED <<pending, last>>

FifoNext == \/ \E e \in ToggleEvent : Accept(e) \/ Refuse(e)
            \/ Take \/ TakeNothing \/ RepeatLast

FifoSpec == FifoInit /\ [][FifoNext]_fifoVars
==============================================================================

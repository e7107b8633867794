-------------------------------- MODULE Fifo --------------------------------
(***************************************************************************)
(* What the kernel's two fixed-capacity queues promise: first in, first    *)
(* out, and a value that does not fit is dropped rather than overwrite an  *)
(* unread one.                                                             *)
(***************************************************************************)
EXTENDS Integers, Sequences

CONSTANTS Capacity, Values, None

VARIABLES
  items,   \* what is queued, oldest first
  popped   \* what the last pop returned

fifoVars == <<items, popped>>

FifoInit == items = <<>> /\ popped = None

Enqueue(v) ==
  /\ Len(items) < Capacity
  /\ items' = Append(items, v)
  /\ UNCHANGED popped

Dequeue ==
  /\ items # <<>>
  /\ popped' = Head(items)
  /\ items' = Tail(items)

DequeueNothing ==
  /\ items = <<>>
  /\ popped' = None
  /\ UNCHANGED items

FifoNext == (\E v \in Values : Enqueue(v)) \/ Dequeue \/ DequeueNothing

FifoSpec == FifoInit /\ [][FifoNext]_fifoVars
=============================================================================

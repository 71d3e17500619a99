---------------------------- MODULE AbstractFifo ----------------------------
(***************************************************************************)
(* What the global job queues (mt::MpmcQueue) promise to the thread pool:  *)
(* a bounded first-in first-out queue whose operations are atomic and may  *)
(* be called by any thread.  Full and empty answers change nothing.        *)
(***************************************************************************)
EXTENDS Naturals, Sequences

CONSTANTS
  Capacity,   \* how many items fit
  Items       \* what can be pushed; every item is pushed at most once

VARIABLES
  fifo,       \* the queued items, oldest first
  popped      \* the items that were handed out, in that order

avars == <<fifo, popped>>

AInit == fifo = <<>> /\ popped = <<>>

Push(x) ==
  /\ Len(fifo) < Capacity
  /\ fifo' = Append(fifo, x)
  /\ UNCHANGED popped

Pop ==
  /\ fifo # <<>>
  /\ popped' = Append(popped, Head(fifo))
  /\ fifo' = Tail(fifo)

ANext == Pop \/ \E x \in Items : Push(x)

ASpec == AInit /\ [][ANext]_avars
=============================================================================

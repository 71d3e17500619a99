--------------------------- MODULE AbstractDeque ----------------------------
(***************************************************************************)
(* What the work-stealing queue of a worker (mt::JobQueue) promises to the *)
(* thread pool: a bounded double-ended queue whose operations are atomic.  *)
(* The owning worker adds batches at the back and takes from the back;     *)
(* every other worker takes from the front.  A job leaves the deque once.  *)
(* Refusing a push and finding nothing to take change nothing.             *)
(***************************************************************************)
EXTENDS Naturals, Sequences

CONSTANTS
  Capacity,   \* how many jobs fit
  MaxPush     \* jobs are named 1..MaxPush in the order they are pushed

VARIABLES
  deque,      \* the queued jobs, oldest first
  next,       \* the name of the next job to be pushed
  taken       \* how many times each job was handed to a worker

avars == <<deque, next, taken>>

AInit ==
  /\ deque = <<>>
  /\ next = 1
  /\ taken = [j \in 1..MaxPush |-> 0]

Push ==
  \E n \in 1..(Capacity - Len(deque)) :
    /\ next + n - 1 <= MaxPush
    /\ deque' = deque \o [i \in 1..n |-> next + i - 1]
    /\ next' = next + n
    /\ UNCHANGED taken

TakeBack ==
  /\ deque # <<>>
  /\ taken' = [taken EXCEPT ![deque[Len(deque)]] = @ + 1]
  /\ deque' = SubSeq(deque, 1, Len(deque) - 1)
  /\ UNCHANGED next

TakeFront ==
  /\ deque # <<>>
  /\ taken' = [taken EXCEPT ![Head(deque)] = @ + 1]
  /\ deque' = Tail(deque)
  /\ UNCHANGED next

ANext == Push \/ TakeBack \/ TakeFront

ASpec == AInit /\ [][ANext]_avars
=============================================================================

----------------------------- MODULE MpmcQueue ------------------------------
(***************************************************************************)
(* mt::MpmcQueue, the bounded queue behind the global high, low and        *)
(* background job queues.  Every cell carries a sequence number that says  *)
(* whose turn it is: pos when the producer of ticket pos may fill it,      *)
(* pos + 1 when the consumer of ticket pos may empty it.                   *)
(*                                                                         *)
(* One action per atomic access; the item of a claimed cell is a plain     *)
(* object, so that two threads on one cell would be a data race.           *)
(* compare_exchange_weak may fail without reason.  Positions and sequence  *)
(* numbers are 32-bit in the code and wrap; here they wrap at Modulus.     *)
(***************************************************************************)
EXTENDS Integers, Sequences, FiniteSets

CONSTANTS
  N,          \* cells, a power of two in the code (1024)
  Modulus,    \* 2^32 in the code
  Start,      \* items the queue carried before Init; init() starts at 0
  Producers,
  Consumers,
  Items,      \* bound: each item is pushed once, and there are fewer than
              \* Modulus \div 2, so no thread sleeps through half a turn
  NoItem

ASSUME MpmcAssumption ==
  /\ N \in Nat \ {0, 1}
  /\ Modulus \in Nat /\ Modulus % N = 0 /\ Modulus > 2 * N
  /\ Start \in 0..(Modulus - 1) /\ Start % N = 0
  /\ IsFiniteSet(Items) /\ NoItem \notin Items
  /\ 2 * Cardinality(Items) < Modulus
  /\ Producers \cap Consumers = {}

VARIABLES
  sequence,   \* Node::sequence of each cell
  item,       \* Node::item of each cell
  pushPos,    \* m_pushPos
  popPos,     \* m_popPos
  th,         \* where each thread is in try_push or try_pop
  popped,     \* items handed out, in the order their tickets were drawn
  pushing     \* items whose push has begun or is over

vars == <<sequence, item, pushPos, popPos, th, popped, pushing>>

Threads == Producers \cup Consumers

Wrap(n) == n % Modulus

(* int32_t(a) - int32_t(b) of the code, for values less than half a turn apart. *)
Signed(a, b) ==
  LET d == Wrap(a - b) IN IF d < Modulus \div 2 THEN d ELSE d - Modulus

Cell(n) == n % N

Idle == [pc |-> "idle", pos |-> 0, item |-> NoItem]

Init ==
  /\ sequence = [i \in 0..(N - 1) |-> Wrap(Start + i)]
  /\ item = [i \in 0..(N - 1) |-> NoItem]
  /\ pushPos = Start
  /\ popPos = Start
  /\ th = [t \in Threads |-> Idle]
  /\ popped = <<>>
  /\ pushing = {}

Goto(t, where) == th' = [th EXCEPT ![t].pc = where]

-----------------------------------------------------------------------------
(* try_push *)

PushReadPos(p, x) ==
  /\ th[p].pc = "idle"
  /\ x \notin pushing
  /\ pushing' = pushing \cup {x}
  /\ th' = [th EXCEPT ![p] = [pc |-> "seq", pos |-> pushPos, item |-> x]]
  /\ UNCHANGED <<sequence, item, pushPos, popPos, popped>>

(* Load the cell's sequence: our turn, full, or somebody took this ticket. *)
(* A refused item may be pushed again.  The mutant takes a full queue for  *)
(* its turn.                                                               *)
PushReadSeqIgnoresFull(p) ==
  /\ th[p].pc = "seq"
  /\ th' = [th EXCEPT ![p].pc =
              IF Signed(sequence[Cell(th[p].pos)], th[p].pos) <= 0 THEN "cas" ELSE "pos"]
  /\ UNCHANGED <<sequence, item, pushPos, popPos, popped, pushing>>

PushReadSeq(p) ==
  /\ th[p].pc = "seq"
  /\ LET diff == Signed(sequence[Cell(th[p].pos)], th[p].pos)
     IN  \/ /\ diff = 0
            /\ Goto(p, "cas")
            /\ UNCHANGED pushing
         \/ /\ diff < 0
            /\ th' = [th EXCEPT ![p] = Idle]
            /\ pushing' = pushing \ {th[p].item}
         \/ /\ diff > 0
            /\ Goto(p, "pos")
            /\ UNCHANGED pushing
  /\ UNCHANGED <<sequence, item, pushPos, popPos, popped>>

PushRereadPos(p) ==
  /\ th[p].pc = "pos"
  /\ th' = [th EXCEPT ![p].pc = "seq", ![p].pos = pushPos]
  /\ UNCHANGED <<sequence, item, pushPos, popPos, popped, pushing>>

(* compare_exchange_weak on m_pushPos draws the ticket; a failure leaves    *)
(* the current position behind.  The mutant stores without comparing.      *)
PushClaimNoCompare(p) ==
  /\ th[p].pc = "cas"
  /\ pushPos' = Wrap(th[p].pos + 1)
  /\ Goto(p, "fill")
  /\ UNCHANGED <<sequence, item, popPos, popped, pushing>>

PushClaim(p) ==
  /\ th[p].pc = "cas"
  /\ \/ /\ pushPos = th[p].pos
        /\ pushPos' = Wrap(pushPos + 1)
        /\ Goto(p, "fill")
     \/ /\ th' = [th EXCEPT ![p].pc = "seq", ![p].pos = pushPos]
        /\ UNCHANGED pushPos
  /\ UNCHANGED <<sequence, item, popPos, popped, pushing>>

(* Construct the item in the claimed cell. *)
PushFill(p) ==
  /\ th[p].pc = "fill"
  /\ item' = [item EXCEPT ![Cell(th[p].pos)] = th[p].item]
  /\ Goto(p, "publish")
  /\ UNCHANGED <<sequence, pushPos, popPos, popped, pushing>>

(* Mark the cell as filled.  The mutant leaves the producer's mark.        *)
PushPublishUnmarked(p) ==
  /\ th[p].pc = "publish"
  /\ sequence' = [sequence EXCEPT ![Cell(th[p].pos)] = th[p].pos]
  /\ th' = [th EXCEPT ![p] = Idle]
  /\ UNCHANGED <<item, pushPos, popPos, popped, pushing>>

PushPublish(p) ==
  /\ th[p].pc = "publish"
  /\ sequence' = [sequence EXCEPT ![Cell(th[p].pos)] = Wrap(th[p].pos + 1)]
  /\ th' = [th EXCEPT ![p] = Idle]
  /\ UNCHANGED <<item, pushPos, popPos, popped, pushing>>

-----------------------------------------------------------------------------
(* try_pop *)

PopReadPos(c) ==
  /\ th[c].pc = "idle"
  /\ th' = [th EXCEPT ![c] = [pc |-> "seq", pos |-> popPos, item |-> NoItem]]
  /\ UNCHANGED <<sequence, item, pushPos, popPos, popped, pushing>>

PopReadSeq(c) ==
  /\ th[c].pc = "seq"
  /\ LET diff == Signed(sequence[Cell(th[c].pos)], Wrap(th[c].pos + 1))
     IN  \/ diff = 0 /\ Goto(c, "cas")
         \/ diff < 0 /\ th' = [th EXCEPT ![c] = Idle]
         \/ diff > 0 /\ Goto(c, "pos")
  /\ UNCHANGED <<sequence, item, pushPos, popPos, popped, pushing>>

PopRereadPos(c) ==
  /\ th[c].pc = "pos"
  /\ th' = [th EXCEPT ![c].pc = "seq", ![c].pos = popPos]
  /\ UNCHANGED <<sequence, item, pushPos, popPos, popped, pushing>>

PopClaim(c) ==
  /\ th[c].pc = "cas"
  /\ \/ /\ popPos = th[c].pos
        /\ popPos' = Wrap(popPos + 1)
        /\ popped' = Append(popped, item[Cell(popPos)])
        /\ Goto(c, "take")
     \/ /\ th' = [th EXCEPT ![c].pc = "seq", ![c].pos = popPos]
        /\ UNCHANGED <<popPos, popped>>
  /\ UNCHANGED <<sequence, item, pushPos, pushing>>

(* Move the item out and destroy it. *)
PopTake(c) ==
  /\ th[c].pc = "take"
  /\ th' = [th EXCEPT ![c].pc = "release", ![c].item = item[Cell(th[c].pos)]]
  /\ item' = [item EXCEPT ![Cell(th[c].pos)] = NoItem]
  /\ UNCHANGED <<sequence, pushPos, popPos, popped, pushing>>

(* Hand the cell to the producer of the next turn.  The mutant loses the   *)
(* 32-bit wrap.                                                            *)
PopReleaseUnwrapped(c) ==
  /\ th[c].pc = "release"
  /\ sequence' = [sequence EXCEPT ![Cell(th[c].pos)] = th[c].pos + N]
  /\ th' = [th EXCEPT ![c] = Idle]
  /\ UNCHANGED <<item, pushPos, popPos, popped, pushing>>

PopRelease(c) ==
  /\ th[c].pc = "release"
  /\ sequence' = [sequence EXCEPT ![Cell(th[c].pos)] = Wrap(th[c].pos + N)]
  /\ th' = [th EXCEPT ![c] = Idle]
  /\ UNCHANGED <<item, pushPos, popPos, popped, pushing>>

-----------------------------------------------------------------------------
Producer(p) ==
  \/ \E x \in Items : PushReadPos(p, x)
  \/ PushReadSeq(p) \/ PushRereadPos(p) \/ PushClaim(p)
  \/ PushFill(p) \/ PushPublish(p)

Consumer(c) ==
  \/ PopReadPos(c) \/ PopReadSeq(c) \/ PopRereadPos(c)
  \/ PopClaim(c) \/ PopTake(c) \/ PopRelease(c)

Next == (\E p \in Producers : Producer(p)) \/ (\E c \in Consumers : Consumer(c))

(* Threads run; a compare_exchange_weak does not fail for ever when the    *)
(* position is the expected one.  Consumers keep asking.                   *)
Fairness ==
  /\ \A p \in Producers : WF_vars(Producer(p))
  /\ \A c \in Consumers : WF_vars(Consumer(c))
  /\ \A p \in Producers : SF_vars(PushClaim(p) /\ pushPos' # pushPos)
  /\ \A c \in Consumers : SF_vars(PopClaim(c) /\ popPos' # popPos)

Spec == Init /\ [][Next]_vars /\ Fairness

-----------------------------------------------------------------------------
(* Type invariant: positions and sequences stay 32-bit values. *)
TypeOK ==
  /\ sequence \in [0..(N - 1) -> 0..(Modulus - 1)]
  /\ item \in [0..(N - 1) -> Items \cup {NoItem}]
  /\ pushPos \in 0..(Modulus - 1)
  /\ popPos \in 0..(Modulus - 1)
  /\ th \in [Threads -> [pc : {"idle", "seq", "pos", "cas", "fill", "publish",
                               "take", "release"},
                         pos : 0..(Modulus - 1), item : Items \cup {NoItem}]]
  /\ pushing \subseteq Items
  /\ popped \in Seq(Items)

(* A claimed cell belongs to one thread until it is published or released: *)
(* the plain accesses to Node::item never race, also when a producer laps  *)
(* a slow consumer or a consumer reaches a cell still being filled.        *)
ExclusiveCell ==
  \A t, u \in Threads :
    /\ t # u
    /\ th[t].pc \in {"fill", "publish", "take", "release"}
    /\ th[u].pc \in {"fill", "publish", "take", "release"}
    => Cell(th[t].pos) # Cell(th[u].pos)

(* The queued items by ticket: an item counts from the moment its producer *)
(* drew the ticket, wherever it still is.                                  *)
AtTicket(n) ==
  LET filling == {p \in Producers : th[p].pc = "fill" /\ th[p].pos = n}
  IN  IF filling # {} THEN th[CHOOSE p \in filling : TRUE].item ELSE item[Cell(n)]

Queued == [i \in 1..Wrap(pushPos - popPos) |-> AtTicket(Wrap(popPos + i - 1))]

(* The queue implements the atomic bounded FIFO: in particular nothing is  *)
(* handed out twice, overwritten before it was taken, or taken before an   *)
(* older item.                                                             *)
Abstract == INSTANCE AbstractFifo WITH
  Capacity <- N, fifo <- Queued

ImplementsFifo == Abstract!ASpec

(* Every accepted item is eventually handed out, although a queue that is  *)
(* not empty may answer "empty" while the oldest item is still being       *)
(* written by a slow producer.                                             *)
EveryItemServed ==
  \A x \in Items :
    (\E p \in Producers : th[p].pc = "publish" /\ th[p].item = x)
      ~> (\E i \in DOMAIN popped : popped[i] = x)
=============================================================================

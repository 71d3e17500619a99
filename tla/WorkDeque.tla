----------------------------- MODULE WorkDeque ------------------------------
(***************************************************************************)
(* mt::JobQueue, the lock-free work-stealing queue each frame worker owns. *)
(*                                                                         *)
(* One action per access to a shared variable (m_bottom, m_top, a slot of  *)
(* m_buffer); accesses to a thread's own variables ride along.  The owner  *)
(* is the only thread that stores to m_bottom and to the buffer, so its    *)
(* own loads of both belong to the step they feed.  Accesses are           *)
(* interleaved, i.e. sequentially consistent: the code separates the       *)
(* owner's store of m_bottom from its load of m_top, and a thief's load of *)
(* m_top from its load of m_bottom, by seq_cst fences, and publishes a     *)
(* slot with a release fence before it stores m_bottom.                    *)
(*                                                                         *)
(* Counters are 32-bit in the code and wrap; here they wrap at Modulus.    *)
(***************************************************************************)
EXTENDS Integers, Sequences, FiniteSets

CONSTANTS
  N,          \* slots of the buffer, a power of two in the code (512)
  Modulus,    \* 2^32 in the code
  Start,      \* jobs the queue carried before Init: clear() starts at 0
  Thieves,    \* workers that steal
  MaxBatch,   \* longest span handed to try_push
  MaxPush,    \* bound: jobs pushed; below Modulus no thief can sleep
              \* through a full turn of m_top
  JobNull

ASSUME DequeAssumption ==
  /\ N \in Nat \ {0, 1}
  /\ Modulus \in Nat /\ Modulus % N = 0 /\ Modulus > 2 * N
  /\ Start \in 0..(Modulus - 1)
  /\ MaxBatch \in Nat \ {0}
  /\ MaxPush \in Nat /\ MaxPush < Modulus
  /\ JobNull \notin 1..MaxPush

VARIABLES
  buffer,     \* m_buffer
  bottom,     \* m_bottom
  top,        \* m_top
  owner,      \* where the owning worker is in try_push or try_pop
  thief,      \* where each thief is in try_steal
  next,       \* the next job the owner will push
  taken       \* how often each job was returned by try_pop or try_steal

vars == <<buffer, bottom, top, owner, thief, next, taken>>

Jobs == 1..MaxPush

Wrap(n) == n % Modulus

(* int(a - b) of the code: the 32-bit difference read as a signed number. *)
Signed(a, b) ==
  LET d == Wrap(a - b) IN IF d < Modulus \div 2 THEN d ELSE d - Modulus

Slot(n) == n % N

Idle == [pc |-> "idle", b |-> 0, t |-> 0, todo |-> 0, job |-> JobNull]

Init ==
  /\ buffer = [i \in 0..(N - 1) |-> JobNull]
  /\ bottom = Start
  /\ top = Start
  /\ owner = Idle
  /\ thief = [w \in Thieves |-> Idle]
  /\ next = 1
  /\ taken = [j \in Jobs |-> 0]

Take(j) == taken' = [taken EXCEPT ![j] = @ + 1]

-----------------------------------------------------------------------------
(* try_push: the single-job form is a span of one job.                     *)

(* Load m_top, keep as many of the n jobs as fit. *)
PushReadTop(n) ==
  /\ owner.pc = "idle"
  /\ next + n - 1 <= MaxPush
  /\ LET free == N - Wrap(bottom - top)
         fit  == IF n < free THEN n ELSE free
     IN  IF fit = 0
         THEN UNCHANGED owner
         ELSE owner' = [Idle EXCEPT !.pc = "write", !.b = bottom, !.todo = fit]
  /\ UNCHANGED <<buffer, bottom, top, thief, next, taken>>

(* Store one handle. *)
PushWrite ==
  /\ owner.pc = "write"
  /\ owner.todo > 0
  /\ buffer' = [buffer EXCEPT ![Slot(owner.b)] = next + Wrap(owner.b - bottom)]
  /\ owner' = [owner EXCEPT !.b = Wrap(@ + 1), !.todo = @ - 1]
  /\ UNCHANGED <<bottom, top, thief, next, taken>>

(* Store m_bottom: the batch becomes visible. *)
PushPublish ==
  /\ owner.pc = "write"
  /\ owner.todo = 0
  /\ bottom' = owner.b
  /\ next' = next + Wrap(owner.b - bottom)
  /\ owner' = Idle
  /\ UNCHANGED <<buffer, top, thief, taken>>

-----------------------------------------------------------------------------
(* try_pop                                                                 *)

(* Store the decremented m_bottom: reserves the newest job, if any. *)
PopReserve ==
  /\ owner.pc = "idle"
  /\ bottom' = Wrap(bottom - 1)
  /\ owner' = [Idle EXCEPT !.pc = "popTop", !.b = Wrap(bottom - 1)]
  /\ UNCHANGED <<buffer, top, thief, next, taken>>

(* Load m_top: empty, the last job (thieves may race for it), or a job no  *)
(* thief can reach any more.  The mutant forgets the race.                 *)
PopReadTopNoRace ==
  /\ owner.pc = "popTop"
  /\ IF Signed(top, owner.b) > 0
     THEN owner' = [owner EXCEPT !.pc = "restore"] /\ UNCHANGED taken
     ELSE Take(buffer[Slot(owner.b)]) /\ owner' = Idle
  /\ UNCHANGED <<buffer, bottom, top, thief, next>>

PopReadTop ==
  /\ owner.pc = "popTop"
  /\ \/ /\ Signed(top, owner.b) > 0
        /\ owner' = [owner EXCEPT !.pc = "restore"]
        /\ UNCHANGED taken
     \/ /\ top = owner.b
        /\ owner' = [owner EXCEPT !.pc = "popCas", !.t = top,
                                  !.job = buffer[Slot(owner.b)]]
        /\ UNCHANGED taken
     \/ /\ Signed(top, owner.b) < 0
        /\ Take(buffer[Slot(owner.b)])
        /\ owner' = Idle
  /\ UNCHANGED <<buffer, bottom, top, thief, next>>

(* compare_exchange on m_top decides who gets the last job. *)
PopCas ==
  /\ owner.pc = "popCas"
  /\ IF top = owner.t
     THEN top' = Wrap(top + 1) /\ Take(owner.job)
     ELSE UNCHANGED <<top, taken>>
  /\ owner' = [owner EXCEPT !.pc = "restore"]
  /\ UNCHANGED <<buffer, bottom, thief, next>>

(* Store m_bottom back.  The mutants forget it, or lose the 32-bit wrap.   *)
PopKeepReserved ==
  /\ owner.pc = "restore"
  /\ owner' = Idle
  /\ UNCHANGED <<buffer, bottom, top, thief, next, taken>>

PopRestoreUnwrapped ==
  /\ owner.pc = "restore"
  /\ bottom' = owner.b + 1
  /\ owner' = Idle
  /\ UNCHANGED <<buffer, top, thief, next, taken>>

PopRestore ==
  /\ owner.pc = "restore"
  /\ bottom' = Wrap(owner.b + 1)
  /\ owner' = Idle
  /\ UNCHANGED <<buffer, top, thief, next, taken>>

-----------------------------------------------------------------------------
(* try_steal                                                               *)

StealReadTop(w) ==
  /\ thief[w].pc = "idle"
  /\ thief' = [thief EXCEPT ![w] = [Idle EXCEPT !.pc = "bottom", !.t = top]]
  /\ UNCHANGED <<buffer, bottom, top, owner, next, taken>>

(* Load m_bottom: nothing to steal, or go on.                              *)
StealReadBottom(w) ==
  /\ thief[w].pc = "bottom"
  /\ thief' = [thief EXCEPT ![w] =
                 IF Signed(bottom, thief[w].t) <= 0 THEN Idle
                 ELSE [@ EXCEPT !.pc = "read"]]
  /\ UNCHANGED <<buffer, bottom, top, owner, next, taken>>

(* Load the slot; the owner may be reusing it if the thief is late. *)
StealRead(w) ==
  /\ thief[w].pc = "read"
  /\ thief' = [thief EXCEPT ![w].pc = "cas", ![w].job = buffer[Slot(thief[w].t)]]
  /\ UNCHANGED <<buffer, bottom, top, owner, next, taken>>

(* compare_exchange on m_top; a thief that lost the race returns false and *)
(* its caller tries again.  The mutant stores m_top without comparing.     *)
StealCasNoCompare(w) ==
  /\ thief[w].pc = "cas"
  /\ top' = Wrap(thief[w].t + 1)
  /\ IF thief[w].job = JobNull THEN UNCHANGED taken ELSE Take(thief[w].job)
  /\ thief' = [thief EXCEPT ![w] = Idle]
  /\ UNCHANGED <<buffer, bottom, owner, next>>

StealCas(w) ==
  /\ thief[w].pc = "cas"
  /\ IF top = thief[w].t
     THEN top' = Wrap(top + 1) /\ Take(thief[w].job)
     ELSE UNCHANGED <<top, taken>>
  /\ thief' = [thief EXCEPT ![w] = Idle]
  /\ UNCHANGED <<buffer, bottom, owner, next>>

-----------------------------------------------------------------------------
OwnerFinish == PushWrite \/ PushPublish \/ PopReadTop \/ PopCas \/ PopRestore

Steal(w) == StealReadTop(w) \/ StealReadBottom(w) \/ StealRead(w) \/ StealCas(w)

Next ==
  \/ \E n \in 1..MaxBatch : PushReadTop(n)
  \/ PopReserve
  \/ OwnerFinish
  \/ \E w \in Thieves : Steal(w)

(* A worker finishes the operation it is in, and idle workers keep         *)
(* stealing (ThreadPool::try_steal_job retries a lost race at once).  The  *)
(* owner is under no obligation to start another operation.                *)
Fairness ==
  /\ WF_vars(OwnerFinish)
  /\ \A w \in Thieves : WF_vars(Steal(w))

Spec == Init /\ [][Next]_vars /\ Fairness

-----------------------------------------------------------------------------
(* Type invariant: counters stay 32-bit values, whatever side they wrap.   *)
Registers ==
  [pc : {"idle", "write", "popTop", "popCas", "restore", "bottom", "read", "cas"},
   b : 0..(Modulus - 1), t : 0..(Modulus - 1), todo : 0..MaxBatch,
   job : Jobs \cup {JobNull}]

CountersTyped ==
  /\ buffer \in [0..(N - 1) -> Jobs \cup {JobNull}]
  /\ bottom \in 0..(Modulus - 1)
  /\ top \in 0..(Modulus - 1)
  /\ owner \in Registers
  /\ thief \in [Thieves -> Registers]
  /\ next \in 1..(MaxPush + 1)
  /\ taken \in [Jobs -> Nat]

(* No slot is read before a job was written to it.                         *)
NoNullRead ==
  /\ \A w \in Thieves : thief[w].pc = "cas" => thief[w].job # JobNull
  /\ owner.pc = "popCas" => owner.job # JobNull
  /\ owner.pc = "popTop" /\ Signed(top, owner.b) <= 0 => buffer[Slot(owner.b)] # JobNull

TypeOK == CountersTyped /\ NoNullRead

(* The jobs that are in the queue: while the owner has reserved the newest *)
(* one and not yet decided, it still counts as queued.                     *)
EffectiveBottom ==
  IF owner.pc \in {"popTop", "popCas", "restore"} THEN Wrap(owner.b + 1) ELSE bottom

Queued ==
  [i \in 1..Wrap(EffectiveBottom - top) |-> buffer[Slot(top + i - 1)]]

(* Work is neither lost nor run twice: every job pushed so far is either   *)
(* queued exactly once and was never handed out, or was handed to exactly  *)
(* one worker, in every interleaving of a pop with the steals of the       *)
(* last job.                                                               *)
ExactlyOnce ==
  \A j \in 1..(next - 1) :
    taken[j] + Cardinality({i \in DOMAIN Queued : Queued[i] = j}) = 1

(* The queue implements the atomic deque. *)
Abstract == INSTANCE AbstractDeque WITH
  Capacity <- N, MaxPush <- MaxPush, deque <- Queued, next <- next, taken <- taken

ImplementsDeque == Abstract!ASpec

(* No job is stranded: with workers stealing, a pushed job is eventually   *)
(* handed to somebody even if the owner never pops again.                  *)
EveryJobServed == \A j \in Jobs : (next > j) ~> (taken[j] = 1)
=============================================================================

----------------------------- MODULE ThreadPool -----------------------------
(***************************************************************************)
(* mt::ThreadPool: how jobs travel from submit() to a worker, how workers  *)
(* go to sleep and are woken, how the main thread helps while it waits,    *)
(* and how reset() stops the workers.                                      *)
(*                                                                         *)
(* A context is the main thread or a spawned worker.  Each has a stack of  *)
(* frames, because ThreadPool::run and ThreadPool::process call each       *)
(* other: a job without a functor runs inside process(), and so does one   *)
(* that finds its queue full.  The queues are sequences: module WorkDeque  *)
(* shows that a local queue is one, MpmcQueue that a global one is.  The   *)
(* dependencies are counted as in JobGraph, one step for all the edges of  *)
(* a job.                                                                  *)
(***************************************************************************)
EXTENDS Integers, Sequences, FiniteSets

CONSTANTS
  Jobs,
  None,          \* no job
  HighWorkers,   \* spawned workers of the high priority class
  LowWorkers,    \* and of the low one
  Main,          \* the main thread, context 0
  Before,        \* pairs <<i, j>>: dep(i, j) was called
  Programs,      \* programs that use the pool, see Program
  GlobalCap,     \* capacity of a priority queue
  LocalCap,      \* capacity of a worker's queue
  MaxPermits     \* bound on the permits a semaphore keeps

Workers == HighWorkers \cup LowWorkers
Contexts == Workers \cup {Main}
Classes == {"high", "low"}

ASSUME PoolAssumption ==
  /\ IsFiniteSet(Jobs) /\ None \notin Jobs
  /\ IsFiniteSet(Workers) /\ Main \notin Workers
  /\ HighWorkers \cap LowWorkers = {}
  /\ Before \subseteq Jobs \X Jobs
  /\ \A p \in Programs :
       /\ p.high \subseteq Jobs /\ p.sync \subseteq Jobs
       /\ p.batches \subseteq SUBSET Jobs /\ p.targets \subseteq Jobs
  /\ GlobalCap \in Nat \ {0} /\ LocalCap \in Nat \ {0}
  /\ MaxPermits \in Nat \ {0}

VARIABLES
  state,     \* state bits of a job
  deps,      \* its unfinished dependencies
  runner,    \* the context that executes it (dependency bits while Executing)
  global,    \* m_jobQueue
  local,     \* ThreadCtx::jobQueue of the workers
  sem,       \* m_sem
  blocked,   \* main's bit in m_blockedInWorkUntil
  linked,    \* main's node is in the futex list of m_blockedInWorkUntil
  signalled, \* the event of that node
  event,     \* ThreadCtx::event
  stop,      \* m_stop
  stack,     \* the calls of run() and process() a context is in
  at,        \* where a context is outside of them
  looking,   \* the class whose queues a context looks through
  mode,      \* why main looks for jobs: wait, tick (update) or drain (reset)
  target,    \* the job main waits for
  seen,      \* the word of the target that wait() last read
  prog       \* the program that uses the pool; it does not change

vars == <<state, deps, runner, global, local, sem, blocked, linked, signalled,
          event, stop, stack, at, looking, mode, target, seen, prog>>

jobs == <<state, deps, runner>>
queues == <<global, local>>
futex == <<linked, signalled>>
sleeping == <<sem, blocked, futex, event>>
base == <<stop, at, looking>>
waiting == <<mode, target, seen, prog>>

-----------------------------------------------------------------------------
HighJobs == prog.high     \* jobs asked to run with high priority
SyncJobs == prog.sync     \* jobs without a functor
Batches == prog.batches   \* sets of jobs submitted in one call
Targets == prog.targets   \* jobs main may wait for

WorkersOf(class) == IF class = "high" THEN HighWorkers ELSE LowWorkers
ClassOf(w) == IF w \in LowWorkers THEN "low" ELSE "high"

(* final_prio: a low job moves to the high class when no context is low.   *)
(* The main thread counts as a high one, spawned or not.                   *)
JobClass(j) == IF j \in HighJobs \/ LowWorkers = {} THEN "high" ELSE "low"

(* The word of a job, as wait() reads and compares it. *)
Word(j) == <<state[j], deps[j], runner[j]>>

Dependents(j) == {k \in Jobs : <<j, k>> \in Before}

(* A frame of run(job), or of the process() call of submit (job None).     *)
Frame(j, pc, todo) ==
  [job |-> j, pc |-> pc, todo |-> todo, ready |-> {}, full |-> None,
   freed |-> [class \in Classes |-> 0]]
RunFrame(j) == Frame(j, "execute", {})

Top(c) == stack[c][1]
In(c, pc) == stack[c] # <<>> /\ Top(c).pc = pc
Goto(c, pc) == stack' = [stack EXCEPT ![c][1].pc = pc]
Enter(c, f) == stack' = [stack EXCEPT ![c] = <<f>> \o @]
Idle(c, pos) == stack[c] = <<>> /\ at[c] = pos

Init ==
  /\ state = [j \in Jobs |-> "clear"]
  /\ deps = [j \in Jobs |-> Cardinality({i \in Jobs : <<i, j>> \in Before})]
  /\ runner = [j \in Jobs |-> None]
  /\ global = [class \in Classes |-> <<>>]
  /\ local = [w \in Workers |-> <<>>]
  /\ sem = [class \in Classes |-> 0]
  /\ blocked = FALSE
  /\ linked = FALSE
  /\ signalled = FALSE
  /\ event = [w \in Workers |-> FALSE]
  /\ stop = FALSE
  /\ stack = [c \in Contexts |-> <<>>]
  /\ at = [c \in Contexts |-> IF c = Main THEN "program" ELSE "sem"]
  /\ looking = [c \in Contexts |-> IF c = Main THEN "high" ELSE ClassOf(c)]
  /\ mode = "tick"
  /\ target = None
  /\ seen = <<>>
  /\ prog \in Programs

-----------------------------------------------------------------------------
(* run() *)

Execute(c) ==
  /\ In(c, "execute")
  /\ state' = [state EXCEPT ![Top(c).job] = "executing"]
  /\ deps' = [deps EXCEPT ![Top(c).job] = 0]
  /\ runner' = [runner EXCEPT ![Top(c).job] = c]
  /\ Goto(c, "wake")
  /\ UNCHANGED <<queues, sleeping, base, waiting>>

(* m_blockedInWorkUntil.exchange(0), when it is not zero.  The mutant does *)
(* not tell the waiting thread that a job started.                         *)
WakeBlockedNever(c) ==
  /\ In(c, "wake")
  /\ Goto(c, "body")
  /\ UNCHANGED <<jobs, queues, sleeping, base, waiting>>

WakeBlocked(c) ==
  /\ In(c, "wake")
  /\ blocked' = FALSE
  /\ Goto(c, IF blocked THEN "futex" ELSE "body")
  /\ UNCHANGED <<jobs, queues, sem, futex, event, base, waiting>>

FutexWake(c) ==
  /\ In(c, "futex")
  /\ linked' = FALSE
  /\ signalled' = (signalled \/ linked)
  /\ Goto(c, "body")
  /\ UNCHANGED <<jobs, queues, sem, blocked, event, base, waiting>>

(* The functor returned: Done. *)
Finalize(c) ==
  /\ In(c, "body")
  /\ state' = [state EXCEPT ![Top(c).job] = "done"]
  /\ runner' = [runner EXCEPT ![Top(c).job] = None]
  /\ Goto(c, "signal")
  /\ UNCHANGED <<deps, queues, sleeping, base, waiting>>

(* signal_edges: one dependency less for every dependent; the submitted    *)
(* ones that reach zero are processed.                                     *)
SignalEdges(c) ==
  LET D == Dependents(Top(c).job) IN
  /\ In(c, "signal")
  /\ deps' = [j \in Jobs |-> IF j \in D THEN deps[j] - 1 ELSE deps[j]]
  /\ stack' = [stack EXCEPT ![c][1].pc = "process",
                 ![c][1].todo = {j \in D : state[j] = "submitted" /\ deps'[j] = 0}]
  /\ UNCHANGED <<state, runner, queues, sleeping, base, waiting>>

(* The end of run().  Nobody waits for the event of the main thread.     *)
SetEvent(c) ==
  /\ In(c, "event")
  /\ event' = [w \in Workers |-> w = c \/ event[w]]
  /\ stack' = [stack EXCEPT ![c] = Tail(@)]
  /\ UNCHANGED <<jobs, queues, sem, blocked, futex, base, waiting>>

-----------------------------------------------------------------------------
(* process() *)

(* First all handles become Processing; one without a functor runs here.   *)
Mark(c) ==
  LET S == Top(c).todo \ SyncJobs IN
  /\ In(c, "process") /\ S # {}
  /\ state' = [j \in Jobs |-> IF j \in S THEN "processing" ELSE state[j]]
  /\ stack' = [stack EXCEPT ![c][1].todo = @ \ S, ![c][1].ready = S]
  /\ UNCHANGED <<deps, runner, queues, sleeping, base, waiting>>

RunSync(c) ==
  /\ In(c, "process") /\ Top(c).todo \subseteq SyncJobs
  /\ \E j \in Top(c).todo :
       /\ state' = [state EXCEPT ![j] = "processing"]
       /\ stack' = [stack EXCEPT ![c] =
            <<RunFrame(j), [Top(c) EXCEPT !.todo = @ \ {j}]>> \o Tail(@)]
  /\ UNCHANGED <<deps, runner, queues, sleeping, base, waiting>>

(* A job of the worker's own class stays in its queue. *)
UsesLocal(c, j) == c \in Workers /\ ClassOf(c) = JobClass(j)

HasRoom(c, j) ==
  IF UsesLocal(c, j) THEN Len(local[c]) < LocalCap ELSE Len(global[JobClass(j)]) < GlobalCap

Enqueue(c, j, uselocal) ==
  /\ IF uselocal
       THEN local' = [local EXCEPT ![c] = Append(@, j)] /\ UNCHANGED global
       ELSE global' = [global EXCEPT ![JobClass(j)] = Append(@, j)] /\ UNCHANGED local
  /\ stack' = [stack EXCEPT ![c][1].ready = @ \ {j},
                            ![c][1].freed[JobClass(j)] = @ + 1]

(* The mutant does not see that a queue is full.                           *)
PushUnchecked(c) ==
  /\ In(c, "process") /\ Top(c).todo = {}
  /\ \E j \in Top(c).ready : Enqueue(c, j, UsesLocal(c, j))
  /\ UNCHANGED <<jobs, sleeping, base, waiting>>

Push(c) ==
  /\ In(c, "process") /\ Top(c).todo = {}
  /\ \E j \in Top(c).ready :
       /\ HasRoom(c, j)
       /\ Enqueue(c, j, UsesLocal(c, j))
  /\ UNCHANGED <<jobs, sleeping, base, waiting>>

(* Nothing left to push, or the queue of the next job is full. *)
StopPushing(c) ==
  /\ In(c, "process") /\ Top(c).todo = {}
  /\ \E j \in Top(c).ready \cup {None} :
       /\ IF j = None THEN Top(c).ready = {} ELSE ~HasRoom(c, j)
       /\ stack' = [stack EXCEPT ![c][1].pc = "release", ![c][1].full = j]
  /\ UNCHANGED <<jobs, queues, sleeping, base, waiting>>

(* May context c run job j although j's queue is full? *)
CanRunInline(c, j) ==
  c = Main \/ ClassOf(c) = JobClass(j) \/ WorkersOf(JobClass(j)) = {}

(* The sleeping workers are told about the jobs just pushed.  The mutant   *)
(* leaves that to the main thread.                                         *)
Least(m, n) == IF m < n THEN m ELSE n

PermitsOfMain(c, class) ==
  IF c = Main THEN Least(Top(c).freed[class], Cardinality(WorkersOf(class))) ELSE 0

Permits(c, class) == Least(Top(c).freed[class], Cardinality(WorkersOf(class)))

(* Then the call ends, runs the job that did not fit, or goes to help.     *)
(* The mutant forgets to take the job it runs off its list.                *)
Pushed(c) == [Top(c) EXCEPT !.freed = [class \in Classes |-> 0], !.full = None]

EndOrReturn(c) ==
  IF Top(c).job = None THEN Tail(stack[c])
  ELSE <<[Pushed(c) EXCEPT !.pc = "event"]>> \o Tail(stack[c])

HelpFirst(c) == <<[Pushed(c) EXCEPT !.pc = "help", !.full = Top(c).full]>> \o Tail(stack[c])

AfterReleaseTwice(c) ==
  LET j == Top(c).full IN
  stack' = [stack EXCEPT ![c] =
    IF j = None THEN EndOrReturn(c)
    ELSE IF CanRunInline(c, j)
      THEN <<RunFrame(j), [Pushed(c) EXCEPT !.pc = "process"]>> \o Tail(@)
    ELSE HelpFirst(c)]

AfterRelease(c) ==
  LET j == Top(c).full IN
  stack' = [stack EXCEPT ![c] =
    IF j = None THEN EndOrReturn(c)
    ELSE IF CanRunInline(c, j)
      THEN <<RunFrame(j), [Pushed(c) EXCEPT !.pc = "process", !.ready = @ \ {j}]>> \o Tail(@)
    ELSE HelpFirst(c)]

(* The mutant tells nobody when a queue was full. *)
ReleaseUnlessFull(c) ==
  /\ In(c, "release")
  /\ sem' = [class \in Classes |->
               sem[class] + IF Top(c).full = None THEN Permits(c, class) ELSE 0]
  /\ AfterRelease(c)
  /\ UNCHANGED <<jobs, queues, blocked, futex, event, base, waiting>>

Release(c) ==
  /\ In(c, "release")
  /\ sem' = [class \in Classes |-> sem[class] + Permits(c, class)]
  /\ AfterRelease(c)
  /\ UNCHANGED <<jobs, queues, blocked, futex, event, base, waiting>>

(* wait_for_queue_space: wake one worker of the full queue's class, which  *)
(* has workers, then look for a job of one's own class.  A permit more     *)
(* than MaxPermits is not counted: it only lets a worker look once more.   *)
HelpWake(c) ==
  LET class == JobClass(Top(c).full) IN
  /\ In(c, "help")
  /\ sem' = [sem EXCEPT ![class] = IF @ < MaxPermits THEN @ + 1 ELSE @]
  /\ Goto(c, "global")
  /\ UNCHANGED <<jobs, queues, blocked, futex, event, base, waiting>>

-----------------------------------------------------------------------------
(* worker_loop and try_fetch_job *)

(* The semaphore lets one worker through per permit. *)
SemWait(w) ==
  /\ Idle(w, "sem")
  /\ sem[ClassOf(w)] > 0
  /\ sem' = [sem EXCEPT ![ClassOf(w)] = @ - 1]
  /\ at' = [at EXCEPT ![w] = "local"]
  /\ UNCHANGED <<jobs, queues, blocked, futex, event, stop, stack, looking, waiting>>

(* The newest job of one's own queue first. *)
FetchLocal(w) ==
  /\ Idle(w, "local")
  /\ IF local[w] = <<>>
       THEN at' = [at EXCEPT ![w] = "global"] /\ UNCHANGED <<local, stack>>
       ELSE /\ Enter(w, RunFrame(local[w][Len(local[w])]))
            /\ local' = [local EXCEPT ![w] = SubSeq(@, 1, Len(@) - 1)]
            /\ UNCHANGED at
  /\ UNCHANGED <<jobs, global, sleeping, stop, looking, waiting>>

(* try_fetch_prio: from the priority queue of a class, or from the front   *)
(* of the queue of a peer.  A context looks for a job between two jobs, or *)
(* on behalf of a job that is stuck in process().                          *)
TakeGlobal(class, j) ==
  /\ global[class] # <<>>
  /\ j = Head(global[class])
  /\ global' = [global EXCEPT ![class] = Tail(@)]
  /\ UNCHANGED local

TakePeer(c, class, j) ==
  \E v \in WorkersOf(class) \ {c} :
    /\ local[v] # <<>>
    /\ j = Head(local[v])
    /\ local' = [local EXCEPT ![v] = Tail(@)]
    /\ UNCHANGED global

NoPeer(c, class) == \A v \in WorkersOf(class) \ {c} : local[v] = <<>>

Searching(c, step) == Idle(c, step) \/ In(c, step)

Search(c, step) ==
  IF stack[c] = <<>>
    THEN at' = [at EXCEPT ![c] = step] /\ UNCHANGED stack
    ELSE Goto(c, step) /\ UNCHANGED at

(* Where a context continues after the job it took has run. *)
Again(c) ==
  IF c \in Workers THEN "local" ELSE IF mode = "wait" THEN "look" ELSE "global"

Helped(c) == <<[Top(c) EXCEPT !.pc = "process", !.full = None]>> \o Tail(stack[c])

Found(c, j) ==
  /\ stack' = [stack EXCEPT ![c] = <<RunFrame(j)>> \o IF @ = <<>> THEN @ ELSE Helped(c)]
  /\ at' = IF stack[c] = <<>> THEN [at EXCEPT ![c] = Again(c)] ELSE at
  /\ looking' = [looking EXCEPT ![c] = IF c = Main THEN "high" ELSE @]
  /\ UNCHANGED <<jobs, sleeping, stop, waiting>>

FetchGlobal(c) ==
  /\ Searching(c, "global")
  /\ \/ \E j \in Jobs : TakeGlobal(looking[c], j) /\ Found(c, j)
     \/ /\ global[looking[c]] = <<>>
        /\ Search(c, "steal")
        /\ UNCHANGED <<jobs, queues, sleeping, stop, looking, waiting>>

FetchPeer(c) ==
  /\ Searching(c, "steal")
  /\ \E j \in Jobs : TakePeer(c, looking[c], j) /\ Found(c, j)

(* No job for this context: process() tries again to push, a worker looks  *)
(* at m_stop, main goes on with the low queues and then does what it       *)
(* looked for jobs for.                                                    *)
NotFound(c) ==
  /\ Searching(c, "steal")
  /\ NoPeer(c, looking[c])
  /\ IF stack[c] = <<>>
       THEN /\ looking' = [looking EXCEPT ![c] =
                 IF c = Main THEN IF @ = "high" THEN "low" ELSE "high" ELSE @]
            /\ at' = [at EXCEPT ![c] =
                 IF c \in Workers THEN "check"
                 ELSE IF looking[c] = "high" THEN "global"
                 ELSE IF mode = "drain" THEN "join"
                 ELSE IF mode = "tick" THEN "program"
                 ELSE IF seen[1] = "executing" THEN "event" ELSE "block"]
            /\ UNCHANGED stack
       ELSE /\ stack' = [stack EXCEPT ![c] = Helped(c)]
            /\ UNCHANGED <<looking, at>>
  /\ UNCHANGED <<jobs, queues, sleeping, stop, waiting>>

CheckStop(w) ==
  /\ Idle(w, "check")
  /\ at' = [at EXCEPT ![w] = IF stop THEN "exited" ELSE "sem"]
  /\ UNCHANGED <<jobs, queues, sleeping, stop, stack, looking, waiting>>

-----------------------------------------------------------------------------
(* The main thread                                                         *)

(* submit: process the jobs that have nothing left to wait for. *)
Submit(S) ==
  /\ Idle(Main, "program")
  /\ \A j \in S : state[j] = "clear"
  /\ state' = [j \in Jobs |-> IF j \in S THEN "submitted" ELSE state[j]]
  /\ Enter(Main, Frame(None, "process", {j \in S : deps[j] = 0}))
  /\ UNCHANGED <<deps, runner, queues, sleeping, base, waiting>>

(* update: run jobs until there are none. *)
Update ==
  /\ Idle(Main, "program")
  /\ mode' = "tick"
  /\ at' = [at EXCEPT ![Main] = "global"]
  /\ UNCHANGED <<jobs, queues, sleeping, stop, stack, looking, target, seen, prog>>

(* wait for a submitted job.  The program has submitted the jobs it        *)
(* depends on.                                                             *)
Wait(j) ==
  /\ Idle(Main, "program")
  /\ state[j] # "clear"
  /\ \A e \in Before : state[e[1]] # "clear"
  /\ mode' = "wait"
  /\ target' = j
  /\ at' = [at EXCEPT ![Main] = "look"]
  /\ UNCHANGED <<jobs, queues, sleeping, stop, stack, looking, seen, prog>>

(* Is the job done?  If not, run some other job in the meantime. *)
Look ==
  /\ Idle(Main, "look")
  /\ IF state[target] = "done"
       THEN /\ at' = [at EXCEPT ![Main] = "program"]
            /\ target' = None /\ seen' = <<>>
       ELSE /\ at' = [at EXCEPT ![Main] = "global"]
            /\ seen' = Word(target) /\ UNCHANGED target
  /\ UNCHANGED <<jobs, queues, sleeping, stop, stack, looking, mode, prog>>

(* The job is running: wait for the event of its worker.  An event that is *)
(* already set stays set; one that was waited for is reset.                *)
EventCheck ==
  /\ Idle(Main, "event")
  /\ at' = [at EXCEPT ![Main] = IF event[seen[3]] THEN "look" ELSE "eventwait"]
  /\ UNCHANGED <<jobs, queues, sleeping, stop, stack, looking, waiting>>

EventWait ==
  /\ Idle(Main, "eventwait")
  /\ event[seen[3]]
  /\ event' = [event EXCEPT ![seen[3]] = FALSE]
  /\ at' = [at EXCEPT ![Main] = "look"]
  /\ UNCHANGED <<jobs, queues, sem, blocked, futex, stop, stack, looking, waiting>>

(* Nothing to do: wait for any job to start.  First the bit is set, then   *)
(* the word is read again, then the futex compares the bit.                *)
Block ==
  /\ Idle(Main, "block")
  /\ blocked' = TRUE
  /\ at' = [at EXCEPT ![Main] = "recheck"]
  /\ UNCHANGED <<jobs, queues, sem, futex, event, stop, stack, looking, waiting>>

Recheck ==
  /\ Idle(Main, "recheck")
  /\ at' = [at EXCEPT ![Main] = IF Word(target) = seen THEN "futex" ELSE "unblock"]
  /\ UNCHANGED <<jobs, queues, sleeping, stop, stack, looking, waiting>>

FutexWait ==
  /\ Idle(Main, "futex")
  /\ linked' = (linked \/ blocked)
  /\ at' = [at EXCEPT ![Main] = IF blocked THEN "node" ELSE "unblock"]
  /\ UNCHANGED <<jobs, queues, sem, blocked, signalled, event, stop, stack, looking, waiting>>

(* The event of the futex node is like that of a worker: set by a wake-up  *)
(* before main waits for it, it stays set, and the next wait returns at    *)
(* once and leaves the node in the list.                                   *)
NodeCheck ==
  /\ Idle(Main, "node")
  /\ at' = [at EXCEPT ![Main] = IF signalled THEN "unblock" ELSE "asleep"]
  /\ UNCHANGED <<jobs, queues, sleeping, stop, stack, looking, waiting>>

Awake ==
  /\ Idle(Main, "asleep")
  /\ signalled
  /\ signalled' = FALSE
  /\ at' = [at EXCEPT ![Main] = "unblock"]
  /\ UNCHANGED <<jobs, queues, sem, blocked, linked, event, stop, stack, looking, waiting>>

Unblock ==
  /\ Idle(Main, "unblock")
  /\ blocked' = FALSE
  /\ at' = [at EXCEPT ![Main] = "look"]
  /\ UNCHANGED <<jobs, queues, sem, futex, event, stop, stack, looking, waiting>>

(* reset: tell the workers to stop, run what is left, join the threads.    *)
RequestStop ==
  /\ Idle(Main, "program")
  /\ ~stop
  /\ stop' = TRUE
  /\ mode' = "drain"
  /\ at' = [at EXCEPT ![Main] = "stopping"]
  /\ UNCHANGED <<jobs, queues, sleeping, stack, looking, target, seen, prog>>

WakeAll ==
  /\ Idle(Main, "stopping")
  /\ sem' = [class \in Classes |-> sem[class] + Cardinality(WorkersOf(class))]
  /\ at' = [at EXCEPT ![Main] = "global"]
  /\ UNCHANGED <<jobs, queues, blocked, futex, event, stop, stack, looking, waiting>>

Join ==
  /\ Idle(Main, "join")
  /\ \A w \in Workers : at[w] = "exited"
  /\ at' = [at EXCEPT ![Main] = "over"]
  /\ UNCHANGED <<jobs, queues, sleeping, stop, stack, looking, waiting>>

-----------------------------------------------------------------------------
CallStep(c) ==
  \/ Execute(c) \/ WakeBlocked(c) \/ FutexWake(c) \/ Finalize(c) \/ SignalEdges(c)
  \/ SetEvent(c) \/ Mark(c) \/ RunSync(c) \/ Push(c) \/ StopPushing(c) \/ Release(c)
  \/ HelpWake(c)

FetchStep(c) == FetchGlobal(c) \/ FetchPeer(c) \/ NotFound(c)

WorkerStep(w) == CallStep(w) \/ FetchStep(w) \/ SemWait(w) \/ FetchLocal(w) \/ CheckStop(w)

(* Steps of a call main is in; which call it makes next is up to the       *)
(* program.                                                                *)
MainStep ==
  \/ CallStep(Main) \/ FetchStep(Main)
  \/ Look \/ EventCheck \/ EventWait \/ Block \/ Recheck \/ FutexWait
  \/ NodeCheck \/ Awake \/ Unblock
  \/ WakeAll \/ Join

Program ==
  \/ Update \/ RequestStop
  \/ \E S \in Batches : Submit(S)
  \/ \E j \in Targets : Wait(j)

Next == Program \/ MainStep \/ \E w \in Workers : WorkerStep(w)

(* Threads are scheduled, and functors return. *)
Fairness == WF_vars(MainStep) /\ \A w \in Workers : WF_vars(WorkerStep(w))

Spec == Init /\ [][Next]_vars /\ Fairness

-----------------------------------------------------------------------------
Frames(c) == {stack[c][n] : n \in 1..Len(stack[c])}
QueueOf(j) == {x \in Classes \X (1..GlobalCap) :
                 x[2] <= Len(global[x[1]]) /\ global[x[1]][x[2]] = j}
LocalOf(j) == {x \in Workers \X (1..LocalCap) :
                 x[2] <= Len(local[x[1]]) /\ local[x[1]][x[2]] = j}
Holds(f, j) == j \in f.ready \/ (f.job = j /\ f.pc = "execute")
Pending(j) == {x \in Contexts \X (1..(2 * Cardinality(Jobs) + 1)) :
                 x[2] <= Len(stack[x[1]]) /\ Holds(stack[x[1]][x[2]], j)}

(* Type invariant. *)
TypeOK ==
  /\ state \in [Jobs -> {"clear", "submitted", "processing", "executing", "done"}]
  /\ deps \in [Jobs -> 0..Cardinality(Jobs)]
  /\ runner \in [Jobs -> Contexts \cup {None}]
  /\ \A class \in Classes : global[class] \in Seq(Jobs) /\ Len(global[class]) <= GlobalCap
  /\ \A w \in Workers : local[w] \in Seq(Jobs) /\ Len(local[w]) <= LocalCap
  /\ sem \in [Classes -> Nat]
  /\ {blocked, linked, signalled, stop} \subseteq BOOLEAN
  /\ event \in [Workers -> BOOLEAN]
  /\ \A c \in Contexts : Len(stack[c]) <= 2 * Cardinality(Jobs) + 1
  /\ looking \in [Contexts -> Classes]
  /\ mode \in {"wait", "tick", "drain"}
  /\ target \in Jobs \cup {None}

(* process(), try_fetch_job() and run(): a job that is Processing is in    *)
(* exactly one queue, or in the hands of exactly one context, whoever      *)
(* pushes, pops, steals or runs it inline; any other job is in none.  It   *)
(* is run by a worker of its class while that class has workers ("reserved *)
(* for work that matches the worker's own priority class").                *)
InOnePlace ==
  /\ \A j \in Jobs :
       Cardinality(QueueOf(j)) + Cardinality(LocalOf(j)) + Cardinality(Pending(j))
         = IF state[j] = "processing" THEN 1 ELSE 0
  /\ \A w \in Workers, j \in Jobs \ SyncJobs :
       state[j] = "executing" /\ runner[j] = w =>
         JobClass(j) = ClassOf(w) \/ WorkersOf(JobClass(j)) = {}

(* No lost wake-up: while a job waits in a queue of a class, the workers   *)
(* of the class are not all asleep without a permit, unless some context   *)
(* is still to release one.                                                *)
NoLostWakeup ==
  \A class \in Classes :
    /\ WorkersOf(class) # {}
    /\ global[class] # <<>> \/ \E w \in WorkersOf(class) : local[w] # <<>>
    => \/ sem[class] > 0
       \/ \E w \in WorkersOf(class) : at[w] # "sem"
       \/ \E c \in Contexts : \E f \in Frames(c) : f.freed[class] > 0

(* wait() returns: the job it waits for is run by someone.                 *)
WaitReturns == (at[Main] = "look") ~> (at[Main] = "program")

(* worker_loop: until the pool stops, the workers run every job that is   *)
(* ready, even if the main thread never helps: again and again nothing is  *)
(* left to run.                                                            *)
QueuedJobsRun == []<>(stop \/ \A j \in Jobs : state[j] # "processing")
=============================================================================

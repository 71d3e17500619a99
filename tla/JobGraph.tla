------------------------------ MODULE JobGraph ------------------------------
(***************************************************************************)
(* The life of a job in mt::JobManager and mt::ThreadPool: slots of the    *)
(* job pool, the packed atomic word of a slot (state bits above a counter  *)
(* of unfinished dependencies), the outgoing edges of a job, and who runs  *)
(* a job when its counter reaches zero.                                    *)
(*                                                                         *)
(* Main is the main thread using the public API; the code asserts that     *)
(* jobs are added, linked and waited for there.  A worker is any context   *)
(* that executes ThreadPool::run.  One action per access to shared memory: *)
(* each fetch_add, fetch_sub and store of a slot's word is a step, and so  *)
(* are the plain reads of the edges, because run() makes them after the    *)
(* word says Done and the main thread may then act on the slot.  Which     *)
(* queue a ready job waits in is left to module ThreadPool; here it is     *)
(* the bag `queued`.  data() ignores the generation of a handle, so that a *)
(* handle is its slot.                                                     *)
(***************************************************************************)
EXTENDS Integers, Sequences, FiniteSets

CONSTANTS
  Slots,         \* slots of the job pool
  Workers,       \* contexts that execute jobs
  Main,          \* the main thread
  None,          \* no job
  MaxDeps,       \* DEP_BITS_MASK, the largest dependency count
  ManualFanout,  \* how many dependents the program gives a job it reuses
  EagerDelete,   \* TRUE: the program calls del() as soon as wait() returned
  MaxAdds,       \* bound: jobs created
  MaxSubmits     \* bound: submissions of one job

ASSUME GraphAssumption ==
  /\ IsFiniteSet(Slots)
  /\ Main \notin Workers
  /\ None \notin Slots
  /\ MaxDeps \in Nat \ {0}
  /\ ManualFanout \in Nat
  /\ EagerDelete \in BOOLEAN
  /\ MaxAdds \in Nat /\ MaxSubmits \in Nat

VARIABLES
  st,        \* state bits of a slot; "free" is Released or never used
  deps,      \* dependency bits of a slot
  manual,    \* JobCreationFlags::ManualDelete
  edges,     \* JobEdges: the dependents, in the order they were added
  edgeMem,   \* where they are stored: inline, on the heap, or freed
  submits,   \* how often the current job of a slot was submitted
  adds,      \* how many jobs were created
  queued,    \* how often a slot is in some job queue
  pc,        \* where each context is
  slot,      \* the job a worker runs
  auto,      \* run()'s copy of the delete flag
  max, pos,  \* signal_edges' copy of the edge count, and its loop index
  claimed,   \* handles a context has collected and not yet processed
  owed       \* history: positions of a slot's edges that some dependency
             \* counter still counts

vars == <<st, deps, manual, edges, edgeMem, submits, adds, queued, pc, slot,
          auto, max, pos, claimed, owed>>

word == <<st, deps>>
graph == <<manual, edges, edgeMem>>
counters == <<submits, adds>>
frame == <<slot, auto, max, pos>>

Contexts == Workers \cup {Main}

States == {"free", "clear", "submitted", "processing", "executing", "done", "corrupt"}

Targets(i) == {edges[i][k] : k \in DOMAIN edges[i]}

Init ==
  /\ st = [s \in Slots |-> "free"]
  /\ deps = [s \in Slots |-> 0]
  /\ manual = [s \in Slots |-> FALSE]
  /\ edges = [s \in Slots |-> <<>>]
  /\ edgeMem = [s \in Slots |-> "inline"]
  /\ submits = [s \in Slots |-> 0]
  /\ adds = 0
  /\ queued = [s \in Slots |-> 0]
  /\ pc = [c \in Contexts |-> "idle"]
  /\ slot = [w \in Workers |-> None]
  /\ auto = [w \in Workers |-> FALSE]
  /\ max = [w \in Workers |-> 0]
  /\ pos = [w \in Workers |-> 0]
  /\ claimed = [c \in Contexts |-> {}]
  /\ owed = [s \in Slots |-> {}]

-----------------------------------------------------------------------------
(* The main thread                                                         *)

(* add: alloc_job takes a slot from the free list and clears it. *)
Add(s, m) ==
  /\ pc[Main] = "idle"
  /\ st[s] = "free"
  /\ adds < MaxAdds
  /\ st' = [st EXCEPT ![s] = "clear"]
  /\ deps' = [deps EXCEPT ![s] = 0]
  /\ manual' = [manual EXCEPT ![s] = m]
  /\ edges' = [edges EXCEPT ![s] = <<>>]
  /\ edgeMem' = [edgeMem EXCEPT ![s] = "inline"]
  /\ submits' = [submits EXCEPT ![s] = 0]
  /\ adds' = adds + 1
  /\ owed' = [owed EXCEPT ![s] = {}]
  /\ UNCHANGED <<queued, pc, frame, claimed>>

(* dep: j will not run until i finishes.  It must be called before either  *)
(* job is scheduled.  The first edge lives inline, more need an array.     *)
(* The mutant lets the counter grow into the state bits.                   *)
DepNoLimit(i, j) ==
  /\ pc[Main] = "idle"
  /\ i # j
  /\ st[i] = "clear" /\ submits[i] = 0
  /\ st[j] = "clear" /\ submits[j] = 0
  /\ manual[i] => Len(edges[i]) < ManualFanout
  /\ edges' = [edges EXCEPT ![i] = Append(@, j)]
  /\ edgeMem' = [edgeMem EXCEPT ![i] = IF edges[i] = <<>> THEN "inline" ELSE "live"]
  /\ deps' = [deps EXCEPT ![j] = @ + 1]
  /\ owed' = [owed EXCEPT ![i] = @ \cup {Len(edges[i]) + 1}]
  /\ UNCHANGED <<st, manual, counters, queued, pc, frame, claimed>>

Dep(i, j) ==
  /\ pc[Main] = "idle"
  /\ i # j
  /\ st[i] = "clear" /\ submits[i] = 0
  /\ st[j] = "clear" /\ submits[j] = 0
  /\ deps[j] < MaxDeps
  /\ manual[i] => Len(edges[i]) < ManualFanout
  /\ edges' = [edges EXCEPT ![i] = Append(@, j)]
  /\ edgeMem' = [edgeMem EXCEPT ![i] = IF edges[i] = <<>> THEN "inline" ELSE "live"]
  /\ deps' = [deps EXCEPT ![j] = @ + 1]
  /\ owed' = [owed EXCEPT ![i] = @ \cup {Len(edges[i]) + 1}]
  /\ UNCHANGED <<st, manual, counters, queued, pc, frame, claimed>>

(* dep_refresh: count an existing edge again before a job is reused. *)
DepRefresh(i, k) ==
  /\ pc[Main] = "idle"
  /\ k \in DOMAIN edges[i]
  /\ k \notin owed[i]
  /\ st[i] = "clear"
  /\ st[edges[i][k]] = "clear"
  /\ deps[edges[i][k]] < MaxDeps
  /\ deps' = [deps EXCEPT ![edges[i][k]] = @ + 1]
  /\ owed' = [owed EXCEPT ![i] = @ \cup {k}]
  /\ UNCHANGED <<st, graph, counters, queued, pc, frame, claimed>>

(* submit, one handle of the span: fetch_add of Submitted; the job is ours *)
(* to process if nothing is left to wait for.  A program that reuses jobs  *)
(* has called dep_refresh for the edges into and out of the job.  The      *)
(* mutant collects the job whatever is left of its dependencies.           *)
SubmitKeepsClaim(s) ==
  /\ pc[Main] \in {"idle", "submitting"}
  /\ st[s] = "clear"
  /\ submits[s] < MaxSubmits
  /\ owed[s] = DOMAIN edges[s]
  /\ \A i \in Slots : \A k \in DOMAIN edges[i] :
       edges[i][k] = s /\ st[i] = "clear" => k \in owed[i]
  /\ st' = [st EXCEPT ![s] = "submitted"]
  /\ submits' = [submits EXCEPT ![s] = @ + 1]
  /\ claimed' = [claimed EXCEPT ![Main] = @ \cup {s}]
  /\ pc' = [pc EXCEPT ![Main] = "submitting"]
  /\ UNCHANGED <<deps, graph, adds, queued, frame, owed>>

Submit(s) ==
  /\ pc[Main] \in {"idle", "submitting"}
  /\ st[s] = "clear"
  /\ submits[s] < MaxSubmits
  /\ owed[s] = DOMAIN edges[s]
  /\ \A i \in Slots : \A k \in DOMAIN edges[i] :
       edges[i][k] = s /\ st[i] = "clear" => k \in owed[i]
  /\ st' = [st EXCEPT ![s] = "submitted"]
  /\ submits' = [submits EXCEPT ![s] = @ + 1]
  /\ claimed' = [claimed EXCEPT ![Main] = IF deps[s] = 0 THEN @ \cup {s} ELSE @]
  /\ pc' = [pc EXCEPT ![Main] = "submitting"]
  /\ UNCHANGED <<deps, graph, adds, queued, frame, owed>>

(* submit: the span is over, process what was collected. *)
EndSubmit ==
  /\ pc[Main] = "submitting"
  /\ pc' = [pc EXCEPT ![Main] = "process"]
  /\ UNCHANGED <<word, graph, counters, queued, frame, claimed, owed>>

(* reset: wait for the jobs and clear them for reuse.  A program that      *)
(* reuses a job also waits for its dependents and resets them.             *)
Reset(S) ==
  /\ pc[Main] = "idle"
  /\ S # {}
  /\ \A s \in S : manual[s] /\ st[s] = "done" /\ Targets(s) \subseteq S
  /\ st' = [s \in Slots |-> IF s \in S THEN "clear" ELSE st[s]]
  /\ deps' = [s \in Slots |-> IF s \in S THEN 0 ELSE deps[s]]
  /\ UNCHANGED <<graph, counters, queued, pc, frame, claimed, owed>>

(* del: wait() saw Done and the program gives the slot back.  The warning  *)
(* of del() asks that no worker use the handle any more; the README calls  *)
(* it right after wait(), which is EagerDelete.                            *)
Del(s) ==
  /\ pc[Main] = "idle"
  /\ manual[s]
  /\ st[s] = "done"
  /\ EagerDelete \/ \A w \in Workers : pc[w] = "idle" \/ slot[w] # s
  /\ st' = [st EXCEPT ![s] = "free"]
  /\ deps' = [deps EXCEPT ![s] = 0]
  /\ UNCHANGED <<graph, counters, queued, pc, frame, claimed, owed>>

-----------------------------------------------------------------------------
(* process: store Processing and queue the job, one collected handle at a  *)
(* time.                                                                   *)
Process(c, s) ==
  /\ pc[c] = "process"
  /\ s \in claimed[c]
  /\ st' = [st EXCEPT ![s] = "processing"]
  /\ deps' = [deps EXCEPT ![s] = 0]
  /\ queued' = [queued EXCEPT ![s] = @ + 1]
  /\ claimed' = [claimed EXCEPT ![c] = @ \ {s}]
  /\ UNCHANGED <<graph, counters, pc, frame, owed>>

EndProcess(c) ==
  /\ pc[c] = "process"
  /\ claimed[c] = {}
  /\ pc' = [pc EXCEPT ![c] = IF c = Main THEN "idle" ELSE "free"]
  /\ UNCHANGED <<word, graph, counters, queued, frame, claimed, owed>>

-----------------------------------------------------------------------------
(* run: a worker that took a job from a queue                              *)

Take(w, s) ==
  /\ pc[w] = "idle"
  /\ queued[s] > 0
  /\ queued' = [queued EXCEPT ![s] = @ - 1]
  /\ st' = [st EXCEPT ![s] = "executing"]
  /\ deps' = [deps EXCEPT ![s] = 0]
  /\ slot' = [slot EXCEPT ![w] = s]
  /\ auto' = [auto EXCEPT ![w] = ~manual[s]]
  /\ pc' = [pc EXCEPT ![w] = "run"]
  /\ UNCHANGED <<graph, counters, max, pos, claimed, owed>>

(* The functor ran; finalize stores Done. *)
Finalize(w) ==
  /\ pc[w] = "run"
  /\ st' = [st EXCEPT ![slot[w]] = "done"]
  /\ deps' = [deps EXCEPT ![slot[w]] = 0]
  /\ pc' = [pc EXCEPT ![w] = "edges"]
  /\ UNCHANGED <<graph, counters, queued, frame, claimed, owed>>

(* signal_edges reads how many dependents there are.  The mutants free the *)
(* array before it has been walked, or walk one position too far.          *)
ReadEdgesFreeFirst(w) ==
  /\ pc[w] = "edges"
  /\ max' = [max EXCEPT ![w] = Len(edges[slot[w]])]
  /\ pos' = [pos EXCEPT ![w] = 1]
  /\ pc' = [pc EXCEPT ![w] = IF edges[slot[w]] = <<>> THEN "free" ELSE "signal"]
  /\ edgeMem' = [edgeMem EXCEPT ![slot[w]] = IF Len(edges[slot[w]]) > 1 THEN "freed" ELSE @]
  /\ UNCHANGED <<word, manual, edges, counters, queued, slot, auto, claimed, owed>>

ReadEdgesOneTooMany(w) ==
  /\ pc[w] = "edges"
  /\ max' = [max EXCEPT ![w] = Len(edges[slot[w]]) + 1]
  /\ pos' = [pos EXCEPT ![w] = 1]
  /\ pc' = [pc EXCEPT ![w] = IF edges[slot[w]] = <<>> THEN "free" ELSE "signal"]
  /\ UNCHANGED <<word, graph, counters, queued, slot, auto, claimed, owed>>

ReadEdges(w) ==
  /\ pc[w] = "edges"
  /\ max' = [max EXCEPT ![w] = Len(edges[slot[w]])]
  /\ pos' = [pos EXCEPT ![w] = 1]
  /\ pc' = [pc EXCEPT ![w] = IF edges[slot[w]] = <<>> THEN "free" ELSE "signal"]
  /\ UNCHANGED <<word, graph, counters, queued, slot, auto, claimed, owed>>

(* What a worker finds at position k of the edges of slot i: any handle,   *)
(* when the array is gone or the slot now holds a job with fewer edges.    *)
EdgesAt(i, k) ==
  IF edgeMem[i] = "freed" \/ k > Len(edges[i]) THEN Slots ELSE {edges[i][k]}

(* fetch_sub at a count of zero borrows from the state bits; below zero    *)
(* the word wraps to a state that has no name.  (An executing job has the  *)
(* index of its worker in the dependency bits, here the main thread's 0.)  *)
Below == [clear |-> "corrupt", submitted |-> "clear", processing |-> "submitted",
          executing |-> "processing", done |-> "executing", free |-> "done",
          corrupt |-> "corrupt"]

(* signal_edge: fetch_sub of one dependency.  Whoever brings a submitted   *)
(* job to zero collects it.  The mutant collects it without asking whether *)
(* it was submitted.                                                       *)
SignalIgnoresState(w) ==
  /\ pc[w] = "signal"
  /\ \E d \in EdgesAt(slot[w], pos[w]) :
       /\ deps' = [deps EXCEPT ![d] = IF @ > 0 THEN @ - 1 ELSE MaxDeps]
       /\ st' = [st EXCEPT ![d] = IF deps[d] > 0 THEN @ ELSE Below[@]]
       /\ claimed' = [claimed EXCEPT ![w] = IF deps'[d] = 0 THEN @ \cup {d} ELSE @]
  /\ owed' = [owed EXCEPT ![slot[w]] = @ \ {pos[w]}]
  /\ pos' = [pos EXCEPT ![w] = @ + 1]
  /\ pc' = [pc EXCEPT ![w] = IF pos[w] = max[w] THEN "process" ELSE "signal"]
  /\ UNCHANGED <<graph, counters, queued, slot, auto, max>>

Signal(w) ==
  /\ pc[w] = "signal"
  /\ \E d \in EdgesAt(slot[w], pos[w]) :
       /\ deps' = [deps EXCEPT ![d] = IF @ > 0 THEN @ - 1 ELSE MaxDeps]
       /\ st' = [st EXCEPT ![d] = IF deps[d] > 0 THEN @ ELSE Below[@]]
       /\ claimed' = [claimed EXCEPT ![w] =
                        IF st'[d] = "submitted" /\ deps'[d] = 0 THEN @ \cup {d} ELSE @]
  /\ owed' = [owed EXCEPT ![slot[w]] = @ \ {pos[w]}]
  /\ pos' = [pos EXCEPT ![w] = @ + 1]
  /\ pc' = [pc EXCEPT ![w] = IF pos[w] = max[w] THEN "process" ELSE "signal"]
  /\ UNCHANGED <<graph, counters, queued, slot, auto, max>>

(* free_edges: give an array back; the count and the pointer stay. *)
FreeEdges(w) ==
  /\ pc[w] = "free"
  /\ edgeMem' = [edgeMem EXCEPT ![slot[w]] = IF Len(edges[slot[w]]) > 1 THEN "freed" ELSE @]
  /\ pc' = [pc EXCEPT ![w] = "finish"]
  /\ UNCHANGED <<word, manual, edges, counters, queued, frame, claimed, owed>>

(* The end of run(): a job without ManualDelete releases its slot. *)
Finish(w) ==
  /\ pc[w] = "finish"
  /\ st' = [st EXCEPT ![slot[w]] = IF auto[w] THEN "free" ELSE @]
  /\ deps' = [deps EXCEPT ![slot[w]] = IF auto[w] THEN 0 ELSE @]
  /\ pc' = [pc EXCEPT ![w] = "idle"]
  /\ slot' = [slot EXCEPT ![w] = None]
  /\ auto' = [auto EXCEPT ![w] = FALSE]
  /\ max' = [max EXCEPT ![w] = 0]
  /\ pos' = [pos EXCEPT ![w] = 0]
  /\ UNCHANGED <<graph, counters, queued, claimed, owed>>

-----------------------------------------------------------------------------
MainStep ==
  \/ \E s \in Slots, m \in BOOLEAN : Add(s, m)
  \/ \E i, j \in Slots : Dep(i, j)
  \/ \E i \in Slots : \E k \in DOMAIN edges[i] : DepRefresh(i, k)
  \/ \E s \in Slots : Submit(s)
  \/ EndSubmit
  \/ \E S \in SUBSET Slots : Reset(S)
  \/ \E s \in Slots : Del(s)

WorkerStep(w) ==
  \/ \E s \in Slots : Take(w, s)
  \/ Finalize(w) \/ ReadEdges(w) \/ Signal(w) \/ FreeEdges(w) \/ Finish(w)

ProcessStep(c) == EndProcess(c) \/ \E s \in Slots : Process(c, s)

Next ==
  \/ MainStep
  \/ \E w \in Workers : WorkerStep(w)
  \/ \E c \in Contexts : ProcessStep(c)

Spec == Init /\ [][Next]_vars

-----------------------------------------------------------------------------
(* Type invariant. *)
TypeOK ==
  /\ st \in [Slots -> States]
  /\ deps \in [Slots -> 0..MaxDeps]
  /\ manual \in [Slots -> BOOLEAN]
  /\ edges \in [Slots -> Seq(Slots)]
  /\ edgeMem \in [Slots -> {"inline", "live", "freed"}]
  /\ submits \in [Slots -> Nat]
  /\ adds \in Nat
  /\ queued \in [Slots -> Nat]
  /\ pc \in [Contexts -> {"idle", "submitting", "process", "run", "edges",
                          "signal", "free", "finish"}]
  /\ slot \in [Workers -> Slots \cup {None}]
  /\ \A w \in Workers : /\ pc[w] # "idle" => slot[w] \in Slots
                        /\ pc[w] = "signal" => pos[w] > 0
  /\ auto \in [Workers -> BOOLEAN]
  /\ max \in [Workers -> Nat]
  /\ pos \in [Workers -> Nat]
  /\ claimed \in [Contexts -> SUBSET Slots]
  /\ owed \in [Slots -> SUBSET Nat]

(* dep(): "jobSecond will not run until jobFirst finishes".  A job that is *)
(* queued or running has no unfinished predecessor, whatever the order of  *)
(* submissions and signals, and also when jobs are reused.                 *)
DependencyOrder ==
  \A i, j \in Slots :
    j \in Targets(i) /\ st[j] \in {"processing", "executing"}
      => st[i] \in {"done", "free"}

(* A submitted job whose last dependency is gone is in the hands of        *)
(* exactly one context, the one whose fetch_add or fetch_sub came last: it *)
(* is neither forgotten nor queued twice.                                  *)
ReadyIsClaimed ==
  \A s \in Slots :
    /\ (st[s] = "submitted" /\ deps[s] = 0) <=> (\E c \in Contexts : s \in claimed[c])
    /\ \A c, d \in Contexts : s \in claimed[c] /\ s \in claimed[d] => c = d
    /\ queued[s] = IF st[s] = "processing" THEN 1 ELSE 0

(* A worker about to signal an edge finds a dependent that still counts    *)
(* it: the subtraction never borrows from the state bits of the word, nor  *)
(* reaches a slot that was released or given to another job.               *)
SignalHitsDependent ==
  \A w \in Workers :
    pc[w] = "signal" =>
      \A d \in EdgesAt(slot[w], pos[w]) : st[d] \in {"clear", "submitted"} /\ deps[d] > 0

(* The edge array of a job is there while it is walked, and is freed once: *)
(* signal_edges asserts a pointer, free_edges leaves a dangling one.       *)
EdgesLive ==
  \A w \in Workers :
    pc[w] \in {"edges", "signal", "process", "free"} /\ Len(edges[slot[w]]) > 1
      => edgeMem[slot[w]] = "live"
-----------------------------------------------------------------------------
(* The inductive invariant.  It holds when the program deletes a job only  *)
(* after its worker has left it and gives a reused job one dependent.      *)

CarefulProgram == ~EagerDelete /\ ManualFanout <= 1

(* The edges whose completion dependent j still waits for. *)
Owing(j) == {e \in UNION {{i} \X owed[i] : i \in Slots} : edges[e[1]][e[2]] = j}

Waiting == {"clear", "submitted"}
Started == {"submitted", "processing", "executing"}

(* The dependency counter of a job counts exactly the edges owed to it.    *)
Counted(j) ==
  /\ IsFiniteSet(Owing(j))
  /\ deps[j] = Cardinality(Owing(j))
  /\ st[j] \notin Waiting => Owing(j) = {}

CountsOwed == \A j \in Slots : Counted(j)

(* The edges of a job are owed from its submission until they are          *)
(* signalled, in order; those of a clear job only to clear dependents.     *)
OwesEdges(i) ==
  /\ owed[i] \subseteq DOMAIN edges[i]
  /\ st[i] \in Started => owed[i] = DOMAIN edges[i] /\ submits[i] > 0
  /\ st[i] \in {"done", "free"} /\ owed[i] # {} =>
       \E w \in Workers : pc[w] \in {"edges", "signal"} /\ slot[w] = i
  /\ st[i] = "clear" =>
       \A k \in DOMAIN edges[i] \ owed[i] : st[edges[i][k]] = "clear"

OwedEdges == \A i \in Slots : OwesEdges(i)

(* What a worker may rely on about the job it runs.                        *)
Owns(w) ==
  /\ pc[w] # "idle" => /\ auto[w] = ~manual[slot[w]]
                       /\ st[slot[w]] # "free" /\ submits[slot[w]] > 0
  /\ pc[w] = "run" => st[slot[w]] = "executing"
  /\ pc[w] \notin {"idle", "run"} /\ auto[w] => st[slot[w]] = "done"
  /\ pc[w] \in {"edges", "signal"} /\ edges[slot[w]] # <<>> => st[slot[w]] = "done"
  /\ pc[w] = "edges" => owed[slot[w]] = DOMAIN edges[slot[w]]
  /\ pc[w] = "signal" => /\ max[w] = Len(edges[slot[w]])
                         /\ pos[w] \in 1..max[w]
                         /\ owed[slot[w]] = pos[w]..max[w]

WorkerOwns == \A w \in Workers : Owns(w)

(* No two workers run, signal or release the same job.                     *)
Exclusive(w) ==
  \/ auto[w]
  \/ pc[w] = "run"
  \/ pc[w] \in {"edges", "signal"} /\ edges[slot[w]] # <<>>

OneWorker ==
  \A w, v \in Workers :
    /\ pc[w] # "idle" /\ pc[v] # "idle" /\ slot[w] = slot[v]
    /\ Exclusive(w) /\ Exclusive(v)
    => w = v

(* Where the edges of a job are stored.                                    *)
Stored(i) ==
  /\ Len(edges[i]) <= 1 => edgeMem[i] = "inline"
  /\ Len(edges[i]) > 1 => ~manual[i]
  /\ Len(edges[i]) > 1 /\ st[i] \in Started \cup {"clear"} => edgeMem[i] = "live"

EdgeStorage == EdgesLive /\ \A i \in Slots : Stored(i)

NeverCorrupt == \A s \in Slots : st[s] # "corrupt"

IInv == /\ TypeOK /\ CountsOwed /\ OwedEdges /\ WorkerOwns /\ OneWorker
        /\ EdgeStorage /\ ReadyIsClaimed /\ DependencyOrder /\ NeverCorrupt
=============================================================================

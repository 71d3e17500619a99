----------------------------- MODULE SystemRun -----------------------------
(***************************************************************************)
(* World::systems_run: the main thread goes through the systems in the     *)
(* order of SystemOrder, runs serial ones itself and prepares a job for    *)
(* each parallel one; a flush submits the jobs of a batch, waits for each, *)
(* and cleans up behind it.  Worker threads run the parts of the jobs, one *)
(* per chunk of data.                                                      *)
(*                                                                         *)
(* Every chunk has every component; a system visits the chunks that pass   *)
(* its change filter, writes the components it declares and records        *)
(* commands.  The only command that matters here is to delete a system.    *)
(* What JobGraph and ThreadPool promise of jobs is taken for granted: a    *)
(* part starts once the jobs it depends on are complete, and wait returns  *)
(* when the job is.                                                        *)
(***************************************************************************)
EXTENDS SystemOrder

CONSTANTS
  Comps, Chunks,
  Programs,     \* [phase, dep: see SystemOrder; reads, writes, filter, kills:
                \*  sets by system; parallel: the systems that become jobs;
                \*  switch: what is enabled and disabled between updates]
  MaxUpdates,   \* bound: updates
  MaxCalls      \* bound: calls of the program between updates

ASSUME ProgramAssumption ==
  /\ Programs \subseteq
       [phase : [Systems -> Phases \cup {NoPhase}], dep : SUBSET (Nodes \X Nodes),
        reads : [Systems -> SUBSET Comps], writes : [Systems -> SUBSET Comps],
        filter : [Systems -> SUBSET Comps], kills : [Systems -> SUBSET Systems],
        parallel : SUBSET Systems, switch : SUBSET Nodes]
  /\ \A p \in Programs :
       /\ \A n \in Nodes : <<n, n>> \notin p.dep
       /\ \A s \in Systems : p.filter[s] \subseteq p.reads[s] \cup p.writes[s]
  /\ MaxUpdates \in Nat /\ MaxCalls \in Nat

VARIABLES
  prog, alive, enabled,
  schedule, index,   \* the items and the one at hand
  current,           \* ctx.current, the key of the batch, <<>> before the first
  pc,                \* where systems_run is
  pending,           \* the jobs prepared: [sys, after, parts, left, busy]
  submitted, waited, \* how many of them are
  locks,             \* m_structuralChangesLocked
  commands,          \* systems with commands in the buffers
  ver,               \* m_worldVersion
  stamp,             \* version of each component in each chunk
  changed,           \* m_changedWorldVersion of each system's query
  unseen,            \* history: changed chunks a filtering system has not visited
  promised,          \* history: what is promised of this update, see Relations
  updates, calls     \* counted for the bounds

program == <<prog, alive, enabled>>
walk == <<schedule, index, current>>
jobs == <<pending, submitted, waited>>
data == <<ver, stamp, changed, unseen>>
ghosts == <<promised, updates, calls>>
vars == <<program, walk, pc, jobs, locks, commands, data, ghosts>>

-----------------------------------------------------------------------------
(* What an update that visits the systems of `order` promises. *)

Closure(N, edge) ==
  LET reach[S \in SUBSET N] ==
        LET more == {t \in N \ S : \E s \in S : <<s, t>> \in edge}
        IN IF more = {} THEN S ELSE reach[S \cup more]
  IN UNION {{m} \X reach[{t \in N : <<m, t>> \in edge}] : m \in N}

\* can_run_parallel of two systems that are not bound to the main thread.
Clash(p, s, t) ==
  \/ p.writes[s] \cap (p.reads[t] \cup p.writes[t]) # {}
  \/ p.writes[t] \cap p.reads[s] # {}

Serial(p, s) == s \notin p.parallel

\* Systems and phases run in the order of DependsOn along chains of collected
\* ones, unless there are cycles; systems that access the same data in the
\* order of their visit, and not side by side; phases and serial systems are
\* barriers, and so is a dependency.
Relations(p, order) ==
  LET members == ToSet(order)
      pairs == members \X members
      acyclic == \A e \in Closure(Nodes, p.dep) : e[1] # e[2]
      phases == {p.phase[s] : s \in members} \ {NoPhase}
      phased == Closure(phases, p.dep)
      depends == IF acyclic THEN Closure(members, Edges(p, members)) ELSE {}
      separate == {e \in pairs : Serial(p, e[1]) \/ Serial(p, e[2])
                                 \/ p.phase[e[1]] # p.phase[e[2]]}
  IN [before |->
        depends \cup {e \in pairs :
          \/ acyclic /\ <<p.phase[e[1]], p.phase[e[2]]>> \in phased
          \/ Clash(p, e[1], e[2])
             /\ \E i, j \in DOMAIN order : i < j /\ e = <<order[i], order[j]>>},
      barrier |-> separate \cup depends,
      apart |-> separate \cup {e \in pairs : Clash(p, e[1], e[2])}]

\* What is left of a program when only the systems A are: the DependsOn pairs of
\* a deleted one went with it (World::del).
Left(p, A) == [p EXCEPT !.dep = {e \in @ : {e[1], e[2]} \subseteq A \cup Phases}]

Remains == {Left(p, A) : p \in Programs, A \in SUBSET Systems}

-----------------------------------------------------------------------------
Init ==
  /\ prog \in Programs /\ alive = Systems /\ enabled = Nodes
  /\ schedule = <<>> /\ index = 1 /\ current = <<>>
  /\ pc = "idle"
  /\ pending = <<>> /\ submitted = 0 /\ waited = 0
  /\ locks = 0 /\ commands = {}
  /\ ver = 1
  /\ stamp = [k \in Chunks |-> [c \in Comps |-> 1]]
  /\ changed = [s \in Systems |-> 0]
  /\ unseen = [s \in Systems |-> IF prog.filter[s] = {} THEN {} ELSE Chunks]
  /\ promised = Relations(prog, schedule)
  /\ updates = 0 /\ calls = 0

-----------------------------------------------------------------------------
(* Queries of systems. *)

\* match_filters of every chunk, as of now.
Batches(s) ==
  {k \in Chunks : prog.filter[s] = {}
                  \/ \E c \in prog.filter[s] : stamp[k][c] > changed[s]}

\* The callback of s on the chunks K: stamps what it writes.
Touch(s, K) ==
  /\ stamp' = [k \in Chunks |-> [c \in Comps |->
       IF k \in K /\ c \in prog.writes[s] THEN ver ELSE stamp[k][c]]]
  /\ unseen' = [t \in Systems |->
       IF t = s THEN unseen[t] \ K
       ELSE IF prog.writes[s] \cap prog.filter[t] # {} THEN unseen[t] \cup K
       ELSE unseen[t]]

\* Variant: the lock is not given back while there is something to commit.
UnlockUnlessCommands ==
  /\ locks' = IF commands = {} THEN locks - 1 ELSE locks
  /\ alive' = alive \ UNION {prog.kills[s] : s \in commands} /\ commands' = {}
  /\ UNCHANGED <<prog, enabled>>

\* unlock and commit_cmd_buffer_*: nothing is committed under a lock.
UnlockAndCommit ==
  /\ locks' = locks - 1
  /\ IF locks = 1
     THEN /\ alive' = alive \ UNION {prog.kills[s] : s \in commands}
          /\ commands' = {}
     ELSE UNCHANGED <<alive, commands>>
  /\ UNCHANGED <<prog, enabled>>

-----------------------------------------------------------------------------
(* systems_run. *)

\* Disabled systems are not collected; a disabled phase is found out later.  The
\* order and the keys of the batches are taken from the pairs there are now.
Begin ==
  /\ pc = "idle" /\ updates < MaxUpdates
  /\ updates' = updates + 1
  /\ ver' = ver + 1
  /\ prog' = Left(prog, alive)
  /\ schedule' = Schedule(prog', alive \cap enabled)
  /\ index' = 1 /\ current' = <<>>
  /\ promised' = Relations(prog', schedule')
  /\ pc' = "check"
  /\ UNCHANGED <<alive, enabled, jobs, locks, commands, stamp, changed, unseen, calls>>

Here == schedule[index]
AtItem == index <= Len(schedule)
Runnable(s) == s \in alive \cap enabled /\ prog.phase[s] \in enabled \cup {NoPhase}

Skip ==
  /\ pc = "check" /\ AtItem /\ ~Runnable(Here)
  /\ index' = index + 1
  /\ UNCHANGED <<program, schedule, current, pc, jobs, locks, commands, data, ghosts>>

\* A system with another key than the one before it: flush first.
Admit ==
  /\ pc = "check" /\ AtItem /\ Runnable(Here)
  /\ current' = BatchKey(prog, Here)
  /\ pc' = IF current \notin {<<>>, current'} THEN "submit" ELSE "take"
  /\ UNCHANGED <<program, schedule, index, jobs, locks, commands, data, ghosts>>

\* The last flush.
End ==
  /\ pc = "check" /\ ~AtItem
  /\ pc' = "submit"
  /\ UNCHANGED <<program, walk, jobs, locks, commands, data, ghosts>>

\* flush_pending_system_jobs: submit them all, wait for each in turn.
Submit ==
  /\ pc = "submit" /\ submitted < Len(pending)
  /\ submitted' = submitted + 1
  /\ UNCHANGED <<program, walk, pc, pending, waited, locks, commands, data, ghosts>>

Complete(job) == job.left = {} /\ job.busy = {}

\* SchedJob::wait and cleanup_query_job.
Wait ==
  /\ pc = "submit" /\ submitted = Len(pending) /\ waited < Len(pending)
  /\ Complete(pending[waited + 1])
  /\ waited' = waited + 1
  /\ UnlockAndCommit
  /\ changed' = [changed EXCEPT ![pending[waited + 1].sys] = ver]
  /\ UNCHANGED <<walk, pc, pending, submitted, ver, stamp, unseen, ghosts>>

Flushed ==
  /\ pc = "submit" /\ waited = Len(pending)
  /\ pending' = <<>> /\ submitted' = 0 /\ waited' = 0
  /\ pc' = IF AtItem THEN "take" ELSE "idle"
  /\ UNCHANGED <<program, walk, locks, commands, data, ghosts>>

\* A serial system waits for the jobs before it.
FlushForSerial ==
  /\ pc = "take" /\ Serial(prog, Here) /\ pending # <<>>
  /\ pc' = "submit"
  /\ UNCHANGED <<program, walk, jobs, locks, commands, data, ghosts>>

\* System_::exec: the query locks the world, visits its chunks, unlocks it.
Exec ==
  /\ pc = "take" /\ Serial(prog, Here) /\ pending = <<>>
  /\ ver' = ver + 1
  /\ locks' = locks + 1
  /\ pc' = IF Batches(Here) = {} THEN "commit" ELSE "exec"
  /\ UNCHANGED <<program, walk, jobs, commands, stamp, changed, unseen, ghosts>>

Callback ==
  /\ pc = "exec"
  /\ Touch(Here, Batches(Here))
  /\ commands' = commands \cup {Here}
  /\ pc' = "commit"
  /\ UNCHANGED <<program, walk, jobs, locks, ver, changed, ghosts>>

ExecEnd ==
  /\ pc = "commit"
  /\ UnlockAndCommit
  /\ changed' = [changed EXCEPT ![Here] = ver]
  /\ index' = index + 1
  /\ pc' = "check"
  /\ UNCHANGED <<schedule, current, jobs, ver, stamp, unseen, ghosts>>

\* Variant: the version is not moved on for a job.
PrepareSameVersion ==
  /\ pc = "take" /\ ~Serial(prog, Here)
  /\ ver' = ver
  /\ LET job == [sys |-> Here, parts |-> Batches(Here), left |-> Batches(Here),
                 busy |-> {},
                 after |-> {j \in DOMAIN pending :
                              /\ pending[j].sys \in alive
                              /\ Clash(prog, pending[j].sys, Here)}]
     IN IF Batches(Here) = {}
        THEN /\ changed' = [changed EXCEPT ![Here] = ver']
             /\ UNCHANGED <<pending, locks>>
        ELSE /\ pending' = Append(pending, job)
             /\ locks' = locks + 1
             /\ UNCHANGED changed
  /\ index' = index + 1
  /\ pc' = "check"
  /\ UNCHANGED <<program, schedule, current, submitted, waited, commands, stamp,
                 unseen, ghosts>>

\* Variant: the handle of the job is among those it is to wait for.
PrepareAfterItself ==
  /\ pc = "take" /\ ~Serial(prog, Here)
  /\ ver' = ver + 1
  /\ LET job == [sys |-> Here, parts |-> Batches(Here), left |-> Batches(Here),
                 busy |-> {},
                 after |-> 1..(Len(pending) + 1)]
     IN IF Batches(Here) = {}
        THEN /\ changed' = [changed EXCEPT ![Here] = ver']
             /\ UNCHANGED <<pending, locks>>
        ELSE /\ pending' = Append(pending, job)
             /\ locks' = locks + 1
             /\ UNCHANGED changed
  /\ index' = index + 1
  /\ pc' = "check"
  /\ UNCHANGED <<program, schedule, current, submitted, waited, commands, stamp,
                 unseen, ghosts>>

\* System_::job: the chunks are chosen now, the job is to run at the flush.
\* It depends on the pending jobs it conflicts with.
Prepare ==
  /\ pc = "take" /\ ~Serial(prog, Here)
  /\ ver' = ver + 1
  /\ LET job == [sys |-> Here, parts |-> Batches(Here), left |-> Batches(Here),
                 busy |-> {},
                 after |-> {j \in DOMAIN pending :
                              /\ pending[j].sys \in alive
                              /\ Clash(prog, pending[j].sys, Here)}]
     IN IF Batches(Here) = {}
        THEN /\ changed' = [changed EXCEPT ![Here] = ver']
             /\ UNCHANGED <<pending, locks>>
        ELSE /\ pending' = Append(pending, job)
             /\ locks' = locks + 1
             /\ UNCHANGED changed
  /\ index' = index + 1
  /\ pc' = "check"
  /\ UNCHANGED <<program, schedule, current, submitted, waited, commands, stamp,
                 unseen, ghosts>>

-----------------------------------------------------------------------------
(* Worker threads. *)

StartPart(j, k) ==
  /\ j <= submitted /\ k \in pending[j].left
  /\ \A d \in pending[j].after : Complete(pending[d])
  /\ pending' = [pending EXCEPT ![j].left = @ \ {k}, ![j].busy = @ \cup {k}]
  /\ UNCHANGED <<program, walk, pc, submitted, waited, locks, commands, data, ghosts>>

FinishPart(j, k) ==
  /\ k \in pending[j].busy
  /\ pending' = [pending EXCEPT ![j].busy = @ \ {k}]
  /\ Touch(pending[j].sys, {k})
  /\ commands' = commands \cup {pending[j].sys}
  /\ UNCHANGED <<program, walk, pc, submitted, waited, locks, ver, changed, ghosts>>

-----------------------------------------------------------------------------
(* The program between updates. *)

Call == pc = "idle" /\ calls < MaxCalls /\ calls' = calls + 1 /\ ver' = ver + 1

\* World::enable of a system or a phase.
Switch(n) ==
  /\ Call /\ updates < MaxUpdates /\ n \in prog.switch
  /\ enabled' = IF n \in enabled THEN enabled \ {n} ELSE enabled \cup {n}
  /\ UNCHANGED <<prog, alive, walk, pc, jobs, locks, commands, stamp, changed, unseen,
                 promised, updates>>

\* World::set of component c of an entity in chunk k.
Write(k, c) ==
  /\ Call /\ \E s \in Systems : c \in prog.filter[s]
  /\ stamp' = [stamp EXCEPT ![k][c] = ver']
  /\ unseen' = [s \in Systems |->
       IF c \in prog.filter[s] THEN unseen[s] \cup {k} ELSE unseen[s]]
  /\ UNCHANGED <<program, walk, pc, jobs, locks, commands, changed, promised, updates>>

Main ==
  \/ Skip \/ Admit \/ End \/ Submit \/ Wait \/ Flushed \/ FlushForSerial
  \/ Exec \/ Callback \/ ExecEnd \/ Prepare

Worker == \E j \in DOMAIN pending, k \in Chunks : StartPart(j, k) \/ FinishPart(j, k)

Next ==
  \/ Begin \/ Main \/ Worker
  \/ \E n \in Nodes : Switch(n)
  \/ \E k \in Chunks, c \in Comps : Write(k, c)

\* Main is one running thread and the pool has one: both go on.
Fairness == WF_vars(Main) /\ WF_vars(Worker)

Spec == Init /\ [][Next]_vars /\ Fairness

-----------------------------------------------------------------------------
(* Programs of which the properties hold. *)

\* No parallel system filters by changes of what another one writes that may
\* be in its batch.
FiltersApart ==
  \A p \in Remains : \A s, t \in p.parallel :
    s # t /\ BatchKey(p, s) = BatchKey(p, t) => p.writes[t] \cap p.filter[s] = {}

\* Parallel systems delete no systems.
SerialDelete == \A p \in Remains : \A s \in p.parallel : p.kills[s] = {}

-----------------------------------------------------------------------------
(* Properties. *)

Versions == 0..(1 + MaxCalls + MaxUpdates * (1 + Cardinality(Systems)))

TypeOK ==
  /\ prog \in Remains /\ alive \subseteq Systems /\ enabled \subseteq Nodes
  /\ schedule \in Seq(Systems) /\ IsInjective(schedule)
  /\ index \in 1..(Len(schedule) + 1)
  /\ pc \in {"idle", "check", "submit", "take", "exec", "commit"}
  /\ current \in {<<>>} \cup ((Phases \cup {NoPhase}) \X (0..Cardinality(Nodes)))
  /\ \A j \in DOMAIN pending :
       /\ pending[j].sys \in Systems /\ pending[j].after \subseteq 1..(j - 1)
       /\ pending[j].parts \subseteq Chunks
       /\ pending[j].left \cup pending[j].busy \subseteq pending[j].parts
       /\ pending[j].left \cap pending[j].busy = {}
  /\ 0 <= waited /\ waited <= submitted /\ submitted <= Len(pending)
  /\ locks = Len(pending) - waited + (IF pc \in {"exec", "commit"} THEN 1 ELSE 0)
  /\ commands \subseteq Systems
  /\ ver \in Versions
  /\ stamp \in [Chunks -> [Comps -> Versions]] /\ changed \in [Systems -> Versions]
  /\ unseen \in [Systems -> SUBSET Chunks]

\* A chunk somebody else changed since a filtering system visited it passes
\* the filter of that system in the next update: no change is lost, whatever
\* ran between the visit and the change.
NoChangeLost ==
  pc = "idle" => \A s \in Systems : unseen[s] \subseteq Batches(s)

JobsRunning ==
  {pending[j].sys : j \in {i \in DOMAIN pending :
     ~Complete(pending[i]) /\ pending[i].left # pending[i].parts}}

Running == JobsRunning \cup (IF pc = "exec" THEN {Here} ELSE {})

Unfinished == {pending[j].sys : j \in {i \in DOMAIN pending : ~Complete(pending[i])}}

Over ==
  ({schedule[i] : i \in 1..(index - 1)} \ Unfinished)
  \cup (IF pc = "commit" THEN {Here} ELSE {})

\* The update does what SystemUpdate promises: dependency and phase order
\* along whole chains of collected systems, no two systems side by side that
\* access the same data or are separated by a barrier, commands applied at
\* every barrier and never while a system runs, no deleted system started.
Promise == INSTANCE SystemUpdate WITH
  members <- ToSet(schedule), over <- Over, running <- Running, told <- commands,
  before <- promised.before, barrier <- promised.barrier, apart <- promised.apart

ImplementsUpdate == Promise!VSpec

\* Every update returns, with cycles of dependencies, too.
UpdateReturns == pc # "idle" ~> pc = "idle"
=============================================================================

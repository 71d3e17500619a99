-------------------------- MODULE SystemRunProofs ---------------------------
(***************************************************************************)
(* Proofs about module SystemRun, for any systems, phases, components,     *)
(* chunks and programs, and whatever order the systems are visited in.     *)
(***************************************************************************)
EXTENDS SystemRun, SequenceTheorems, TLAPS

-----------------------------------------------------------------------------
(* The inductive invariants.                                               *)

JobSet == [sys : Systems, after : SUBSET Nat, parts : SUBSET Chunks,
           left : SUBSET Chunks, busy : SUBSET Chunks]

(* Types, of what the properties depend on.                                *)
TypesInv ==
  /\ prog \in Remains /\ alive \subseteq Systems
  /\ index \in Nat \ {0}
  /\ pending \in Seq(JobSet)
  /\ submitted \in 0..Len(pending) /\ waited \in 0..Len(pending)
  /\ pc \in {"idle", "check", "submit", "take", "exec", "commit"}
  /\ ver \in Nat
  /\ stamp \in [Chunks -> [Comps -> Nat]]
  /\ changed \in [Systems -> Nat]
  /\ unseen \in [Systems -> SUBSET Chunks]

(* The world is locked once for each job that was not waited for, and once *)
(* by a serial system, which runs when there are none.                     *)
LockInv ==
  /\ locks = Len(pending) - waited + (IF pc \in {"exec", "commit"} THEN 1 ELSE 0)
  /\ pc \in {"idle", "exec", "commit"} => pending = <<>>
  /\ pc # "submit" => waited = 0
  /\ \A j \in 1..waited : Complete(pending[j])

(* The item at hand gave the key of the batch; the jobs that are pending   *)
(* belong to one batch.                                                    *)
AtHand == Here \in Systems /\ current = BatchKey(prog, Here)

BatchInv ==
  /\ pc \in {"take", "exec", "commit"} \/ (pc = "submit" /\ AtItem) => AtHand
  /\ \A j \in DOMAIN pending : pending[j].sys \in prog.parallel
  /\ \A i, j \in DOMAIN pending :
       BatchKey(prog, pending[i].sys) = BatchKey(prog, pending[j].sys)
  /\ pc \in {"check", "take"} =>
       \A j \in DOMAIN pending : BatchKey(prog, pending[j].sys) = current

(* What a system has not seen passes its filter.  No version is ahead of   *)
(* the world's.                                                            *)
ChangesInv ==
  /\ \A s \in Systems : unseen[s] \subseteq Batches(s)
  /\ \A s \in Systems : changed[s] <= ver
  /\ \A k \in Chunks : \A c \in Comps : stamp[k][c] <= ver

(* What s writes next is newer than what others filter by.                 *)
Fresh(s) ==
  \A t \in Systems : t # s /\ prog.writes[s] \cap prog.filter[t] # {} => changed[t] < ver

(* A job visits all that its system has not seen, a serial system has when *)
(* it is done.                                                             *)
JobsVisit ==
  \A j \in (waited + 1)..Len(pending) :
    /\ unseen[pending[j].sys] \subseteq pending[j].left \cup pending[j].busy
    /\ Fresh(pending[j].sys)

VisitInv ==
  /\ JobsVisit
  /\ pc = "exec" => Fresh(Here)
  /\ pc = "commit" => unseen[Here] = {}

(* What holds of every program, and what holds when filters are apart.     *)
BaseInv == TypesInv /\ LockInv /\ BatchInv
IInv == BaseInv /\ ChangesInv /\ VisitInv

(* A job waits for those it is told to wait for, and these are all that    *)
(* were prepared before it and access the same data.                       *)
Started(j) == pending[j].left # pending[j].parts

AfterInv ==
  \A j \in DOMAIN pending :
    /\ pending[j].after \subseteq 1..(j - 1)
    /\ Started(j) => \A d \in pending[j].after : Complete(pending[d])

ClashInv ==
  \A i, j \in DOMAIN pending :
    i < j /\ Clash(prog, pending[i].sys, pending[j].sys) => i \in pending[j].after

(* The dependencies of a job are looked for among living systems: those of *)
(* the pending jobs are alive while others are prepared, and so is the one *)
(* at hand, as only serial systems have commands that delete systems.      *)
AliveInv ==
  /\ pc \in {"check", "take"} => \A j \in DOMAIN pending : pending[j].sys \in alive
  /\ pc = "take" \/ (pc = "submit" /\ AtItem) => Here \in alive
  /\ \A s \in commands : s \in prog.parallel \/ pc = "commit"

OrderInv == AfterInv /\ ClashInv /\ AliveInv

(* Jobs that access the same data run one after the other, in the order in *)
(* which their systems were visited, and serial systems run alone.         *)
ConflictsInOrder ==
  /\ \A i, j \in DOMAIN pending :
       i < j /\ Clash(prog, pending[i].sys, pending[j].sys) /\ Started(j) => Complete(pending[i])
  /\ pc = "exec" => pending = <<>>

(* Commands are applied when no part of a job is running or left to run,   *)
(* and no serial system is visiting chunks.                                *)
AppliedApart ==
  [][alive' # alive => pc # "exec" /\ \A j \in DOMAIN pending : Complete(pending[j])]_vars

-----------------------------------------------------------------------------
(* Types.                                                                  *)

(* A program is what is left of it while all its systems are.              *)
LEMMA AllRemains ==
  ASSUME NEW p \in Programs
  PROVE  p \in Remains
<1>1. /\ p \in [phase : [Systems -> Phases \cup {NoPhase}], dep : SUBSET (Nodes \X Nodes),
                reads : [Systems -> SUBSET Comps], writes : [Systems -> SUBSET Comps],
                filter : [Systems -> SUBSET Comps], kills : [Systems -> SUBSET Systems],
                parallel : SUBSET Systems, switch : SUBSET Nodes]
      /\ p.dep \subseteq Nodes \X Nodes
  BY ProgramAssumption
<1>2. \A e \in p.dep : {e[1], e[2]} \subseteq Systems \cup Phases
  BY <1>1 DEF Nodes
<1>3. {e \in p.dep : {e[1], e[2]} \subseteq Systems \cup Phases} = p.dep
  BY <1>2
<1>4. Left(p, Systems) = p
  BY <1>1, <1>3 DEF Left
<1>. QED  BY <1>4 DEF Remains

(* The parts of what is left of a program; when more systems go, only pairs*)
(* of DependsOn do.                                                        *)
LEMMA LeftRemains ==
  ASSUME NEW q \in Remains, NEW A \in SUBSET Systems
  PROVE  /\ q.filter \in [Systems -> SUBSET Comps] /\ q.writes \in [Systems -> SUBSET Comps]
         /\ q.parallel \subseteq Systems
         /\ Left(q, A) \in Remains
         /\ Left(q, A).filter = q.filter /\ Left(q, A).writes = q.writes
         /\ Left(q, A).parallel = q.parallel
<1>1. PICK p \in Programs, B \in SUBSET Systems : q = Left(p, B)
  BY DEF Remains
<1>2. p \in [phase : [Systems -> Phases \cup {NoPhase}], dep : SUBSET (Nodes \X Nodes),
             reads : [Systems -> SUBSET Comps], writes : [Systems -> SUBSET Comps],
             filter : [Systems -> SUBSET Comps], kills : [Systems -> SUBSET Systems],
             parallel : SUBSET Systems, switch : SUBSET Nodes]
  BY ProgramAssumption
<1>3. /\ q.filter \in [Systems -> SUBSET Comps] /\ q.writes \in [Systems -> SUBSET Comps]
      /\ q.parallel \subseteq Systems
      /\ q.dep = {e \in p.dep : {e[1], e[2]} \subseteq B \cup Phases}
  BY <1>1, <1>2 DEF Left
<1>4. {e \in q.dep : {e[1], e[2]} \subseteq A \cup Phases}
        = {e \in p.dep : {e[1], e[2]} \subseteq (A \cap B) \cup Phases}
  BY <1>3
<1>5. Left(q, A) = Left(p, A \cap B)
  BY <1>1, <1>2, <1>3, <1>4 DEF Left
<1>6. /\ Left(q, A).filter = q.filter /\ Left(q, A).writes = q.writes
      /\ Left(q, A).parallel = q.parallel
  BY <1>1, <1>2 DEF Left
<1>. QED  BY <1>3, <1>5, <1>6 DEF Remains

(* The parts of a program.                                                 *)
LEMMA ProgramFields ==
  ASSUME TypesInv
  PROVE  /\ prog.filter \in [Systems -> SUBSET Comps] /\ prog.writes \in [Systems -> SUBSET Comps]
         /\ prog.parallel \subseteq Systems
BY LeftRemains DEF TypesInv

(* The parts of a job.                                                     *)
LEMMA JobFields ==
  ASSUME TypesInv
  PROVE  /\ Len(pending) \in Nat /\ DOMAIN pending = 1..Len(pending)
         /\ submitted \in Nat /\ waited \in Nat
         /\ \A j \in 1..Len(pending) :
              /\ pending[j] \in JobSet /\ pending[j].sys \in Systems
              /\ pending[j].left \subseteq Chunks /\ pending[j].busy \subseteq Chunks
<1>1. /\ pending \in Seq(JobSet) /\ Len(pending) \in Nat
      /\ submitted \in 0..Len(pending) /\ waited \in 0..Len(pending)
  BY DEF TypesInv
<1>2. DOMAIN pending = 1..Len(pending) /\ \A j \in 1..Len(pending) : pending[j] \in JobSet
  BY <1>1
<1>. QED  BY <1>1, <1>2 DEF JobSet

(* A query gives chunks.                                                   *)
LEMMA BatchesAreChunks == \A s : Batches(s) \subseteq Chunks
BY DEF Batches

(* A batch has a key.                                                      *)
LEMMA KeyOfBatch == \A p, s : BatchKey(p, s) # <<>>
BY DEF BatchKey

(* What a step that changes no data keeps.                                 *)
LEMMA DataStays ==
  ASSUME ChangesInv, UNCHANGED <<prog, data>>
  PROVE  ChangesInv' /\ (\A s : Batches(s)' = Batches(s)) /\ (\A s : Fresh(s)' = Fresh(s))
BY DEF ChangesInv, Batches, Fresh, data

(* The callback of a system leaves versions and sets of chunks.            *)
LEMMA TouchTypes ==
  ASSUME TypesInv, NEW s \in Systems, NEW K \in SUBSET Chunks, Touch(s, K)
  PROVE  stamp' \in [Chunks -> [Comps -> Nat]] /\ unseen' \in [Systems -> SUBSET Chunks]
<1>1. /\ ver \in Nat /\ stamp \in [Chunks -> [Comps -> Nat]]
      /\ unseen \in [Systems -> SUBSET Chunks]
  BY DEF TypesInv
<1>2. stamp' \in [Chunks -> [Comps -> Nat]]
  BY <1>1 DEF Touch
<1>3. unseen' \in [Systems -> SUBSET Chunks]
  BY <1>1 DEF Touch
<1>. QED  BY <1>2, <1>3

(* The callback of a system: others may still find what they have not      *)
(* seen, and it has seen the chunks.                                       *)
LEMMA TouchKeeps ==
  ASSUME TypesInv, ChangesInv, NEW s \in Systems, NEW K \in SUBSET Chunks, Touch(s, K),
         Fresh(s), UNCHANGED <<prog, ver, changed>>
  PROVE  /\ stamp' \in [Chunks -> [Comps -> Nat]]
         /\ unseen' \in [Systems -> SUBSET Chunks]
         /\ ChangesInv' /\ unseen'[s] = unseen[s] \ K
         /\ \A t \in Systems : t # s /\ prog.writes[s] \cap prog.filter[t] = {}
                               => unseen'[t] = unseen[t]
<1>1. /\ ver \in Nat /\ stamp \in [Chunks -> [Comps -> Nat]]
      /\ unseen \in [Systems -> SUBSET Chunks] /\ changed \in [Systems -> Nat]
  BY DEF TypesInv
<1>2. /\ prog.filter \in [Systems -> SUBSET Comps] /\ prog.writes \in [Systems -> SUBSET Comps]
  BY ProgramFields
<1>3. /\ stamp' \in [Chunks -> [Comps -> Nat]]
      /\ \A k \in Chunks : \A c \in Comps :
           stamp'[k][c] = IF k \in K /\ c \in prog.writes[s] THEN ver ELSE stamp[k][c]
  BY <1>1 DEF Touch
<1>4. /\ unseen' \in [Systems -> SUBSET Chunks]
      /\ \A t \in Systems : unseen'[t] =
           IF t = s THEN unseen[t] \ K
           ELSE IF prog.writes[s] \cap prog.filter[t] # {} THEN unseen[t] \cup K ELSE unseen[t]
  BY <1>1 DEF Touch
<1>5. \A k \in Chunks : \A c \in Comps : stamp[k][c] <= ver /\ stamp[k][c] \in Nat
  BY <1>1 DEF ChangesInv
<1>6. ASSUME NEW t \in Systems, NEW k \in unseen'[t]
      PROVE  k \in Batches(t)'
  <2>1. k \in Chunks
    BY <1>4
  <2>2. CASE prog.filter[t] = {}
    BY <2>1, <2>2 DEF Batches
  <2>3. CASE prog.filter[t] # {} /\ k \in unseen[t]
    <3>1. PICK c \in prog.filter[t] : stamp[k][c] > changed[t]
      BY <2>3 DEF ChangesInv, Batches
    <3>2. stamp'[k][c] > changed[t]
      BY <1>1, <1>2, <1>3, <1>5, <2>1, <3>1
    <3>. QED  BY <2>1, <3>2 DEF Batches
  <2>4. CASE k \notin unseen[t]
    <3>1. t # s /\ k \in K /\ prog.writes[s] \cap prog.filter[t] # {}
      BY <1>4, <2>4
    <3>2. PICK c \in Comps : c \in prog.writes[s] /\ c \in prog.filter[t]
      BY <1>2, <3>1
    <3>3. changed[t] < ver
      BY <3>1 DEF Fresh
    <3>4. stamp'[k][c] > changed[t]
      BY <1>1, <1>3, <2>1, <3>1, <3>2, <3>3
    <3>. QED  BY <2>1, <3>2, <3>4 DEF Batches
  <2>. QED  BY <2>2, <2>3, <2>4
<1>7. \A k \in Chunks : \A c \in Comps : stamp'[k][c] <= ver
  BY <1>1, <1>3, <1>5
<1>8. ChangesInv'
  BY <1>6, <1>7 DEF ChangesInv
<1>. QED  BY <1>3, <1>4, <1>8

(* A query is brought up to date when its system has seen everything.      *)
LEMMA SeenKeeps ==
  ASSUME TypesInv, ChangesInv, NEW s \in Systems, unseen[s] = {},
         changed' = [changed EXCEPT ![s] = ver'], ver' \in Nat, ver' >= ver,
         UNCHANGED <<prog, stamp, unseen>>
  PROVE  /\ changed' \in [Systems -> Nat] /\ ChangesInv'
         /\ \A t \in Systems : t # s => changed'[t] = changed[t]
<1>1. /\ ver \in Nat /\ changed \in [Systems -> Nat] /\ stamp \in [Chunks -> [Comps -> Nat]]
  BY DEF TypesInv
<1>2. /\ changed' \in [Systems -> Nat] /\ changed'[s] = ver'
      /\ \A t \in Systems : t # s => changed'[t] = changed[t]
  BY <1>1
<1>3. \A t \in Systems : unseen'[t] \subseteq Batches(t)'
  <2>1. unseen'[s] = {}
    OBVIOUS
  <2>2. \A t \in Systems : t # s => Batches(t)' = Batches(t)
    BY <1>2 DEF Batches
  <2>. QED  BY <2>1, <2>2 DEF ChangesInv
<1>4. \A t \in Systems : changed[t] <= ver /\ changed[t] \in Nat
  BY <1>1 DEF ChangesInv
<1>5. \A t \in Systems : changed'[t] <= ver'
  BY <1>1, <1>2, <1>4
<1>6. \A k \in Chunks : \A c \in Comps : stamp[k][c] <= ver /\ stamp[k][c] \in Nat
  BY <1>1 DEF ChangesInv
<1>7. \A k \in Chunks : \A c \in Comps : stamp'[k][c] <= ver'
  BY <1>1, <1>6
<1>. QED  BY <1>2, <1>3, <1>5, <1>7 DEF ChangesInv

(* The world's version may go on.                                          *)
LEMMA VersionUp ==
  ASSUME TypesInv, ChangesInv, ver' = ver + 1, UNCHANGED <<stamp, changed, unseen>>,
         UNCHANGED <<prog.filter, prog.writes>>
  PROVE  /\ ver' \in Nat /\ ChangesInv' /\ \A s : Fresh(s)'
<1>1. /\ ver \in Nat /\ changed \in [Systems -> Nat] /\ stamp \in [Chunks -> [Comps -> Nat]]
  BY DEF TypesInv
<1>2. \A s \in Systems : changed[s] <= ver /\ changed[s] \in Nat
  BY <1>1 DEF ChangesInv
<1>3. \A k \in Chunks : \A c \in Comps : stamp[k][c] <= ver /\ stamp[k][c] \in Nat
  BY <1>1 DEF ChangesInv
<1>4. \A s \in Systems : changed'[s] <= ver' /\ changed'[s] < ver'
  BY <1>1, <1>2
<1>5. \A k \in Chunks : \A c \in Comps : stamp'[k][c] <= ver'
  BY <1>1, <1>3
<1>6. \A s \in Systems : unseen'[s] \subseteq Batches(s)'
  BY DEF ChangesInv, Batches
<1>. QED  BY <1>1, <1>4, <1>5, <1>6 DEF ChangesInv, Fresh

(* No jobs, no claims about them.                                          *)
LEMMA NoJobs ==
  ASSUME pending = <<>>
  PROVE  Len(pending) = 0 /\ DOMAIN pending = {}
BY EmptySeq

-----------------------------------------------------------------------------
(* Jobs, locks and batches, of any program.                                *)

(* At first there is no job.                                               *)
LEMMA InitBase ==
  ASSUME Init
  PROVE  BaseInv
<1>1. prog \in Remains
  BY AllRemains DEF Init
<1>2. pending \in Seq(JobSet) /\ Len(pending) = 0 /\ DOMAIN pending = {}
  BY NoJobs DEF Init
<1>3. TypesInv
  BY <1>1, <1>2 DEF Init, TypesInv
<1>4. LockInv /\ BatchInv
  BY <1>2 DEF Init, LockInv, BatchInv
<1>. QED  BY <1>3, <1>4 DEF BaseInv

(* World::systems_run begins: nothing is pending.                          *)
LEMMA BeginBase ==
  ASSUME BaseInv, Begin
  PROVE  BaseInv' /\ pending' = <<>> /\ alive' = alive
<1>1. /\ TypesInv /\ LockInv /\ BatchInv
      /\ UNCHANGED <<alive, pending, submitted, waited, locks, stamp, changed, unseen>>
      /\ prog' = Left(prog, alive)
      /\ ver' = ver + 1 /\ pc = "idle" /\ pc' = "check" /\ index' = 1
  BY DEF BaseInv, Begin, jobs
<1>2. pending = <<>> /\ Len(pending) = 0 /\ DOMAIN pending = {}
  BY <1>1, NoJobs DEF LockInv
<1>3. TypesInv'
  BY <1>1, LeftRemains DEF TypesInv
<1>4. LockInv'
  BY <1>1, <1>2 DEF LockInv, Complete
<1>5. BatchInv'
  BY <1>1, <1>2 DEF BatchInv
<1>. QED  BY <1>1, <1>2, <1>3, <1>4, <1>5 DEF BaseInv

(* Steps of the main thread between the batches that leave the jobs alone. *)
LEMMA WalkBase ==
  ASSUME BaseInv, UNCHANGED <<prog, alive, pending, waited, locks, data>>,
         submitted' \in 0..Len(pending), index' \in Nat \ {0}, pc' # "submit" => waited = 0,
         {pc, pc'} \subseteq {"check", "submit", "take"}, BatchInv'
  PROVE  BaseInv'
<1>1. TypesInv'
  BY DEF BaseInv, TypesInv, data
<1>2. LockInv'
  BY DEF BaseInv, LockInv, Complete
<1>. QED  BY <1>1, <1>2 DEF BaseInv

(* What the steps between the batches have in common.                      *)
Walks ==
  /\ UNCHANGED <<prog, alive, pending, waited, locks, data>>
  /\ {pc, pc'} \subseteq {"check", "submit", "take"}

(* A system that is disabled or deleted is passed over.                    *)
LEMMA SkipBase ==
  ASSUME BaseInv, Skip
  PROVE  BaseInv' /\ Walks
<1>1. /\ UNCHANGED <<prog, alive, pending, submitted, waited, locks, data, current>>
      /\ pc = "check" /\ pc' = "check" /\ index' = index + 1
  BY DEF Skip, program, jobs, data
<1>2. BatchInv'
  BY <1>1 DEF BaseInv, BatchInv
<1>3. BaseInv'
  BY <1>1, <1>2, WalkBase DEF BaseInv, TypesInv, LockInv
<1>. QED  BY <1>1, <1>3 DEF Walks

(* The key of a system is noted; the batch before it is flushed.           *)
LEMMA AdmitBase ==
  ASSUME BaseInv, Admit
  PROVE  BaseInv' /\ Walks
<1>1. /\ UNCHANGED <<prog, alive, pending, submitted, waited, locks, data, index, schedule>>
      /\ pc = "check" /\ current' = BatchKey(prog, Here) /\ Here \in Systems
      /\ pc' = IF current \notin {<<>>, current'} THEN "submit" ELSE "take"
  BY DEF BaseInv, TypesInv, Admit, Runnable, program, jobs, data
<1>2. Here' = Here
  BY <1>1 DEF Here
<1>3. AtHand'
  BY <1>1, <1>2 DEF AtHand
<1>4. \A j \in DOMAIN pending : BatchKey(prog, pending[j].sys) = current /\ current # <<>>
  BY <1>1, KeyOfBatch DEF BaseInv, BatchInv
<1>5. pc' = "take" => \A j \in DOMAIN pending : BatchKey(prog, pending[j].sys) = current'
  BY <1>1, <1>4
<1>6. pc' \in {"submit", "take"}
  BY <1>1
<1>7. BatchInv'
  BY <1>1, <1>3, <1>5, <1>6 DEF BaseInv, BatchInv
<1>8. BaseInv'
  BY <1>1, <1>6, <1>7, WalkBase DEF BaseInv, TypesInv, LockInv
<1>. QED  BY <1>1, <1>6, <1>8 DEF Walks

(* The last flush.                                                         *)
LEMMA EndBase ==
  ASSUME BaseInv, End
  PROVE  BaseInv' /\ Walks
<1>1. /\ UNCHANGED <<prog, alive, pending, submitted, waited, locks, data, index, schedule>>
      /\ pc = "check" /\ pc' = "submit" /\ ~AtItem
  BY DEF End, program, jobs, data, walk
<1>2. BatchInv'
  BY <1>1 DEF BaseInv, BatchInv, AtItem
<1>3. BaseInv'
  BY <1>1, <1>2, WalkBase DEF BaseInv, TypesInv
<1>. QED  BY <1>1, <1>3 DEF Walks

(* A job of the batch is submitted.                                        *)
LEMMA SubmitBase ==
  ASSUME BaseInv, Submit
  PROVE  BaseInv' /\ Walks
<1>1. /\ UNCHANGED <<prog, alive, pending, waited, locks, data, index, schedule, current, pc>>
      /\ pc = "submit" /\ submitted' = submitted + 1 /\ submitted < Len(pending)
  BY DEF Submit, program, data, walk
<1>2. BatchInv'
  BY <1>1 DEF BaseInv, BatchInv, AtItem, AtHand, Here
<1>3. submitted' \in 0..Len(pending)
  BY <1>1, JobFields DEF BaseInv, TypesInv
<1>4. BaseInv'
  BY <1>1, <1>2, <1>3, WalkBase DEF BaseInv, TypesInv
<1>. QED  BY <1>1, <1>4 DEF Walks

(* The serial system at hand waits for the jobs before it.                 *)
LEMMA FlushForSerialBase ==
  ASSUME BaseInv, FlushForSerial
  PROVE  BaseInv' /\ Walks
<1>1. /\ UNCHANGED <<prog, alive, pending, submitted, waited, locks, data, index, schedule, current>>
      /\ pc = "take" /\ pc' = "submit"
  BY DEF FlushForSerial, program, jobs, data, walk
<1>2. BatchInv'
  BY <1>1 DEF BaseInv, BatchInv, AtItem, AtHand, Here
<1>3. BaseInv'
  BY <1>1, <1>2, WalkBase DEF BaseInv, TypesInv
<1>. QED  BY <1>1, <1>3 DEF Walks

(* The flush is over when all jobs were waited for.                        *)
LEMMA FlushedBase ==
  ASSUME BaseInv, Flushed
  PROVE  BaseInv' /\ alive' = alive
<1>1. /\ UNCHANGED <<prog, alive, locks, data, index, schedule, current>>
      /\ pc = "submit" /\ pc' = IF AtItem THEN "take" ELSE "idle"
      /\ pending' = <<>> /\ submitted' = 0 /\ waited' = 0 /\ waited = Len(pending)
  BY DEF Flushed, program, data, walk
<1>2. pending' \in Seq(JobSet) /\ Len(pending') = 0 /\ DOMAIN pending' = {}
  BY <1>1, EmptySeq
<1>3. TypesInv'
  BY <1>1, <1>2 DEF BaseInv, TypesInv, data
<1>4. LockInv'
  BY <1>1, <1>2, JobFields DEF BaseInv, LockInv
<1>5. BatchInv'
  BY <1>1, <1>2 DEF BaseInv, BatchInv, AtItem, AtHand, Here
<1>. QED  BY <1>1, <1>3, <1>4, <1>5 DEF BaseInv

(* System_::exec runs when no job is pending.                              *)
LEMMA ExecBase ==
  ASSUME BaseInv, Exec
  PROVE  BaseInv' /\ alive' = alive
<1>1. /\ UNCHANGED <<prog, alive, pending, submitted, waited, index, schedule, current>>
      /\ UNCHANGED <<stamp, changed, unseen>>
      /\ pc = "take" /\ pending = <<>> /\ ver' = ver + 1 /\ locks' = locks + 1
      /\ pc' = IF Batches(Here) = {} THEN "commit" ELSE "exec"
  BY DEF Exec, program, walk, jobs
<1>2. Len(pending) = 0 /\ DOMAIN pending = {}
  BY <1>1, NoJobs
<1>3. TypesInv'
  BY <1>1 DEF BaseInv, TypesInv
<1>4. LockInv'
  BY <1>1, <1>2 DEF BaseInv, TypesInv, LockInv, Complete
<1>5. AtHand /\ Here' = Here
  BY <1>1 DEF BaseInv, BatchInv, Here
<1>6. BatchInv'
  BY <1>1, <1>2, <1>5 DEF BatchInv, AtHand
<1>. QED  BY <1>1, <1>3, <1>4, <1>6 DEF BaseInv

(* Its callback.                                                           *)
LEMMA CallbackBase ==
  ASSUME BaseInv, Callback
  PROVE  BaseInv' /\ alive' = alive
<1>1. /\ UNCHANGED <<prog, alive, pending, submitted, waited, index, schedule, current>>
      /\ UNCHANGED <<locks, ver, changed>>
      /\ pc = "exec" /\ pc' = "commit" /\ Touch(Here, Batches(Here))
  BY DEF Callback, program, walk, jobs
<1>2. pending = <<>> /\ Len(pending) = 0 /\ DOMAIN pending = {}
  BY <1>1, NoJobs DEF BaseInv, LockInv
<1>3. AtHand /\ Here' = Here /\ Here \in Systems
  BY <1>1 DEF BaseInv, BatchInv, Here, AtHand
<1>4. stamp' \in [Chunks -> [Comps -> Nat]] /\ unseen' \in [Systems -> SUBSET Chunks]
  BY <1>1, <1>3, BatchesAreChunks, TouchTypes DEF BaseInv
<1>5. TypesInv'
  BY <1>1, <1>4 DEF BaseInv, TypesInv
<1>6. LockInv'
  BY <1>1, <1>2 DEF BaseInv, LockInv, Complete
<1>7. BatchInv'
  BY <1>1, <1>2, <1>3 DEF BatchInv, AtHand
<1>. QED  BY <1>1, <1>5, <1>6, <1>7 DEF BaseInv

(* Its end: commands are applied while no job is pending.                  *)
LEMMA ExecEndBase ==
  ASSUME BaseInv, ExecEnd
  PROVE  BaseInv' /\ pc = "commit" /\ DOMAIN pending = {}
<1>1. /\ UNCHANGED <<prog, pending, submitted, waited, schedule, current>>
      /\ UNCHANGED <<ver, stamp, unseen>>
      /\ pc = "commit" /\ pc' = "check" /\ index' = index + 1 /\ locks' = locks - 1
      /\ changed' = [changed EXCEPT ![Here] = ver'] /\ alive' \subseteq alive
  BY DEF ExecEnd, UnlockAndCommit, jobs
<1>2. pending = <<>> /\ Len(pending) = 0 /\ DOMAIN pending = {}
  BY <1>1, NoJobs DEF BaseInv, LockInv
<1>3. TypesInv'
  <2>1. changed' \in [Systems -> Nat]
    BY <1>1 DEF BaseInv, TypesInv
  <2>2. index' \in Nat \ {0} /\ alive' \subseteq Systems
    BY <1>1 DEF BaseInv, TypesInv
  <2>. QED  BY <1>1, <2>1, <2>2 DEF BaseInv, TypesInv
<1>4. LockInv'
  BY <1>1, <1>2 DEF BaseInv, TypesInv, LockInv, Complete
<1>5. BatchInv'
  BY <1>1, <1>2 DEF BatchInv
<1>. QED  BY <1>1, <1>2, <1>3, <1>4, <1>5 DEF BaseInv

(* SchedJob::wait: the last job of the batch gives the world back, the     *)
(* others were waited for before.                                          *)
LEMMA WaitBase ==
  ASSUME BaseInv, Wait
  PROVE  /\ BaseInv' /\ pc = "submit"
         /\ alive' # alive => \A j \in DOMAIN pending : Complete(pending[j])
<1> DEFINE m == waited + 1
           s == pending[m].sys
<1>1. /\ UNCHANGED <<prog, pending, submitted, index, schedule, current, pc>>
      /\ UNCHANGED <<ver, stamp, unseen>>
      /\ pc = "submit" /\ waited < Len(pending) /\ Complete(pending[m]) /\ waited' = m
      /\ locks' = locks - 1 /\ changed' = [changed EXCEPT ![s] = ver'] /\ alive' \subseteq alive
      /\ alive' # alive => locks = 1
  BY DEF Wait, UnlockAndCommit, walk
<1>2. /\ Len(pending) \in Nat /\ DOMAIN pending = 1..Len(pending) /\ waited \in Nat
      /\ m \in 1..Len(pending) /\ m \in Nat /\ s \in Systems
  BY <1>1, JobFields DEF BaseInv
<1>3. \A j \in 1..m : Complete(pending[j])
  BY <1>1, <1>2 DEF BaseInv, LockInv
<1>4. TypesInv'
  BY <1>1, <1>2 DEF BaseInv, TypesInv
<1>5. LockInv'
  BY <1>1, <1>2, <1>3 DEF BaseInv, TypesInv, LockInv, Complete
<1>6. BatchInv'
  BY <1>1 DEF BaseInv, BatchInv, AtItem, AtHand, Here
<1>7. alive' # alive => m = Len(pending)
  BY <1>1, <1>2 DEF BaseInv, LockInv
<1>. QED  BY <1>1, <1>2, <1>3, <1>4, <1>5, <1>6, <1>7 DEF BaseInv

(* System_::job.                                                           *)
LEMMA PrepareBase ==
  ASSUME BaseInv, Prepare
  PROVE  BaseInv' /\ alive' = alive
<1> DEFINE A == {j \in DOMAIN pending :
                   pending[j].sys \in alive /\ Clash(prog, pending[j].sys, Here)}
           job == [sys |-> Here, parts |-> Batches(Here), left |-> Batches(Here),
                   busy |-> {}, after |-> A]
<1>1. /\ UNCHANGED <<prog, alive, submitted, waited, schedule, current, stamp, unseen>>
      /\ pc = "take" /\ pc' = "check" /\ index' = index + 1 /\ ver' = ver + 1
      /\ Here \in prog.parallel
      /\ IF Batches(Here) = {}
         THEN changed' = [changed EXCEPT ![Here] = ver'] /\ UNCHANGED <<pending, locks>>
         ELSE pending' = Append(pending, job) /\ locks' = locks + 1 /\ UNCHANGED changed
  BY Zenon DEF Prepare, Serial, program
<1>2. /\ Len(pending) \in Nat /\ DOMAIN pending = 1..Len(pending) /\ waited \in Nat
      /\ waited = 0 /\ Here \in Systems /\ current = BatchKey(prog, Here)
      /\ \A j \in DOMAIN pending : BatchKey(prog, pending[j].sys) = current
  BY <1>1, JobFields DEF BaseInv, LockInv, BatchInv, AtHand
<1>3. ver' \in Nat
  BY <1>1 DEF BaseInv, TypesInv
<1>4. CASE Batches(Here) = {}
  <2>1. UNCHANGED <<pending, locks>> /\ changed' = [changed EXCEPT ![Here] = ver']
    BY <1>1, <1>4
  <2> HIDE DEF job
  <2>2. TypesInv'
    <3>1. changed' \in [Systems -> Nat]
      BY <1>3, <2>1 DEF BaseInv, TypesInv
    <3>2. index' \in Nat \ {0}
      BY <1>1 DEF BaseInv, TypesInv
    <3>. QED  BY <1>1, <1>3, <2>1, <3>1, <3>2 DEF BaseInv, TypesInv
  <2>3. LockInv'
    BY <1>1, <1>2, <2>1 DEF BaseInv, LockInv, Complete
  <2>4. BatchInv'
    BY <1>1, <1>2, <2>1 DEF BaseInv, BatchInv
  <2>. QED  BY <1>1, <2>2, <2>3, <2>4 DEF BaseInv
<1>5. CASE Batches(Here) # {}
  <2>1. pending' = Append(pending, job) /\ locks' = locks + 1 /\ UNCHANGED changed
    BY <1>1, <1>5
  <2>2. job \in JobSet
    <3>1. A \in SUBSET Nat
      BY <1>2
    <3>2. Batches(Here) \in SUBSET Chunks
      BY BatchesAreChunks
    <3> HIDE DEF A
    <3>. QED  BY <1>2, <3>1, <3>2 DEF JobSet
  <2>3. job.sys = Here
    OBVIOUS
  <2> HIDE DEF job
  <2>4. /\ pending' \in Seq(JobSet) /\ Len(pending') = Len(pending) + 1
        /\ DOMAIN pending' = 1..(Len(pending) + 1)
        /\ \A j \in 1..Len(pending) : pending'[j] = pending[j]
        /\ pending'[Len(pending) + 1] = job
    BY <1>2, <2>1, <2>2 DEF BaseInv, TypesInv
  <2>5. TypesInv'
    <3>1. submitted \in 0..(Len(pending) + 1) /\ waited \in 0..(Len(pending) + 1)
      BY <1>2 DEF BaseInv, TypesInv
    <3>. QED  BY <1>1, <1>3, <2>1, <2>4, <3>1 DEF BaseInv, TypesInv
  <2>6. LockInv'
    BY <1>1, <1>2, <2>1, <2>4 DEF BaseInv, TypesInv, LockInv
  <2>7. BatchInv'
    <3>1. \A j \in 1..(Len(pending) + 1) :
            /\ pending'[j].sys \in prog.parallel
            /\ BatchKey(prog, pending'[j].sys) = current
      <4> TAKE j \in 1..(Len(pending) + 1)
      <4>1. CASE j = Len(pending) + 1
        BY <1>1, <1>2, <2>3, <2>4, <4>1
      <4>2. CASE j # Len(pending) + 1
        <5>1. j \in 1..Len(pending) /\ pending'[j] = pending[j]
          BY <1>2, <2>4, <4>2
        <5>. QED  BY <1>2, <5>1 DEF BaseInv, BatchInv
      <4>. QED  BY <4>1, <4>2
    <3>. QED  BY <1>1, <2>4, <3>1 DEF BatchInv
  <2>. QED  BY <1>1, <2>5, <2>6, <2>7 DEF BaseInv
<1>. QED  BY <1>4, <1>5

(* A part of job i is started or finished: nothing but what it has left.   *)
PartOf(i, left, busy) == [pending EXCEPT ![i].left = left, ![i].busy = busy]

LEMMA PartFields ==
  ASSUME TypesInv, NEW i \in DOMAIN pending, NEW left \in SUBSET Chunks, NEW busy \in SUBSET Chunks
  PROVE  LET q == PartOf(i, left, busy)
         IN /\ q \in Seq(JobSet) /\ Len(q) = Len(pending) /\ DOMAIN q = DOMAIN pending
            /\ q[i].left = left /\ q[i].busy = busy
            /\ \A j \in DOMAIN pending : q[j].sys = pending[j].sys /\ (j # i => q[j] = pending[j])
<1>1. pending \in Seq(JobSet) /\ pending[i] \in JobSet /\ DOMAIN pending = 1..Len(pending)
  BY JobFields DEF TypesInv
<1> DEFINE b == [pending[i] EXCEPT !.left = left, !.busy = busy]
           q == [pending EXCEPT ![i] = b]
<1>2. b \in JobSet /\ b.left = left /\ b.busy = busy /\ b.sys = pending[i].sys
  BY <1>1 DEF JobSet
<1>3. PartOf(i, left, busy) = q
  BY <1>1 DEF PartOf
<1> HIDE DEF b
<1>4. /\ q \in Seq(JobSet) /\ Len(q) = Len(pending) /\ DOMAIN q = DOMAIN pending /\ q[i] = b
      /\ \A j \in DOMAIN pending : j # i => q[j] = pending[j]
  BY <1>1, <1>2
<1> HIDE DEF q
<1>5. \A j \in DOMAIN pending : q[j].sys = pending[j].sys
  BY <1>2, <1>4
<1>. QED  BY Zenon, <1>2, <1>3, <1>4, <1>5

(* What a part's step keeps: its job is one that was not waited for, and   *)
(* only its own parts change.                                              *)
LEMMA PartKeeps ==
  ASSUME BaseInv, NEW i \in DOMAIN pending, NEW left \in SUBSET Chunks, NEW busy \in SUBSET Chunks,
         pending' = PartOf(i, left, busy), ~Complete(pending[i]),
         UNCHANGED <<prog, alive, index, schedule, current, pc, submitted, waited, locks>>
  PROVE  /\ i \in (waited + 1)..Len(pending) /\ pc \in {"check", "submit", "take"}
         /\ LockInv' /\ BatchInv'
         /\ pending' \in Seq(JobSet) /\ Len(pending') = Len(pending)
<1>1. /\ pending' \in Seq(JobSet) /\ Len(pending') = Len(pending)
      /\ DOMAIN pending' = DOMAIN pending
      /\ \A j \in DOMAIN pending : /\ pending'[j].sys = pending[j].sys
                                   /\ j # i => pending'[j] = pending[j]
  BY PartFields DEF BaseInv
<1>2. /\ Len(pending) \in Nat /\ DOMAIN pending = 1..Len(pending) /\ waited \in Nat
      /\ waited <= Len(pending)
  BY JobFields DEF BaseInv, TypesInv
<1>3. i \in (waited + 1)..Len(pending)
  <2>1. i \notin 1..waited
    BY DEF BaseInv, LockInv
  <2>. QED  BY <1>2, <2>1
<1>4. pc \notin {"idle", "exec", "commit"}
  <2>1. Len(pending) # 0
    BY <1>2
  <2>2. pending # <<>>
    BY <2>1, NoJobs
  <2>. QED  BY <2>2 DEF BaseInv, LockInv
<1>5. LockInv'
  <2>1. \A j \in 1..waited : Complete(pending[j])'
    BY <1>1, <1>2, <1>3 DEF BaseInv, LockInv, Complete
  <2>. QED  BY <1>1, <1>4, <2>1 DEF BaseInv, LockInv
<1>6. BatchInv'
  BY <1>1 DEF BaseInv, BatchInv, AtItem, AtHand, Here
<1>7. pc \in {"check", "submit", "take"}
  <2>1. pc \in {"idle", "check", "submit", "take", "exec", "commit"}
    BY DEF BaseInv, TypesInv
  <2>. QED  BY <1>4, <2>1
<1>. QED  BY <1>1, <1>3, <1>5, <1>6, <1>7

(* A worker starts a part of a job.                                        *)
LEMMA StartPartBase ==
  ASSUME BaseInv, NEW i \in DOMAIN pending, NEW k \in Chunks, StartPart(i, k)
  PROVE  BaseInv' /\ alive' = alive
<1> DEFINE l == pending[i].left \ {k}
           b == pending[i].busy \cup {k}
<1>1. /\ UNCHANGED <<prog, alive, index, schedule, current, pc, submitted, waited, locks, data>>
      /\ k \in pending[i].left /\ pending' = PartOf(i, l, b)
  BY DEF StartPart, PartOf, program, walk
<1>2. l \in SUBSET Chunks /\ b \in SUBSET Chunks /\ ~Complete(pending[i])
  BY <1>1, JobFields DEF BaseInv, Complete
<1> HIDE DEF l, b
<1>3. LockInv' /\ BatchInv' /\ pending' \in Seq(JobSet) /\ Len(pending') = Len(pending)
  BY <1>1, <1>2, PartKeeps
<1>4. TypesInv'
  BY <1>1, <1>3 DEF BaseInv, TypesInv, data
<1>. QED  BY <1>1, <1>3, <1>4 DEF BaseInv

(* A worker has run a part of a job.                                       *)
LEMMA FinishPartBase ==
  ASSUME BaseInv, NEW i \in DOMAIN pending, NEW k \in Chunks, FinishPart(i, k)
  PROVE  BaseInv' /\ alive' = alive
<1> DEFINE l == pending[i].left
           b == pending[i].busy \ {k}
           s == pending[i].sys
<1>1. /\ UNCHANGED <<prog, alive, index, schedule, current, pc, submitted, waited, locks>>
      /\ UNCHANGED <<ver, changed>>
      /\ k \in pending[i].busy /\ Touch(s, {k})
      /\ pending' = [pending EXCEPT ![i].busy = @ \ {k}]
  BY DEF FinishPart, program, walk
<1>2. /\ l \in SUBSET Chunks /\ b \in SUBSET Chunks /\ ~Complete(pending[i])
      /\ s \in Systems /\ pending[i] \in JobSet
  BY <1>1, JobFields DEF BaseInv, Complete
<1>3. pending' = PartOf(i, l, b)
  <2>1. [pending[i] EXCEPT !.busy = b] = [pending[i] EXCEPT !.left = l, !.busy = b]
    BY <1>2 DEF JobSet
  <2>. QED  BY <1>1, <2>1 DEF PartOf
<1> HIDE DEF l, b, s
<1>4. LockInv' /\ BatchInv' /\ pending' \in Seq(JobSet) /\ Len(pending') = Len(pending)
  BY <1>1, <1>2, <1>3, PartKeeps
<1>5. stamp' \in [Chunks -> [Comps -> Nat]] /\ unseen' \in [Systems -> SUBSET Chunks]
  <2>1. {k} \in SUBSET Chunks
    OBVIOUS
  <2>. QED  BY <1>1, <1>2, <2>1, TouchTypes DEF BaseInv
<1>6. TypesInv'
  BY <1>1, <1>4, <1>5 DEF BaseInv, TypesInv
<1>. QED  BY <1>1, <1>4, <1>6 DEF BaseInv

(* Calls of the program between updates: World::enable and World::set.     *)
LEMMA CallBase ==
  ASSUME BaseInv, pc = "idle",
         UNCHANGED <<prog, alive, index, schedule, current, pc, pending, submitted, waited, locks>>,
         ver' \in Nat, stamp' \in [Chunks -> [Comps -> Nat]], changed' = changed,
         unseen' \in [Systems -> SUBSET Chunks]
  PROVE  BaseInv' /\ pending' = <<>> /\ Len(pending) = 0
<1>1. pending = <<>> /\ Len(pending) = 0 /\ DOMAIN pending = {}
  BY NoJobs DEF BaseInv, LockInv
<1>2. TypesInv'
  BY DEF BaseInv, TypesInv
<1>3. LockInv' /\ BatchInv'
  BY <1>1 DEF BaseInv, LockInv, BatchInv, Complete
<1>. QED  BY <1>1, <1>2, <1>3 DEF BaseInv

(* World::enable.                                                          *)
LEMMA SwitchBase ==
  ASSUME BaseInv, NEW n \in Nodes, Switch(n)
  PROVE  BaseInv' /\ pending' = <<>> /\ Len(pending) = 0 /\ alive' = alive
<1>1. /\ UNCHANGED <<prog, alive, index, schedule, current, pc, pending, submitted, waited>>
      /\ UNCHANGED <<locks, stamp, changed, unseen>>
      /\ pc = "idle" /\ ver' = ver + 1
  BY DEF Switch, Call, walk, jobs
<1>. QED  BY <1>1, CallBase DEF BaseInv, TypesInv

(* World::set.                                                             *)
LEMMA WriteBase ==
  ASSUME BaseInv, NEW k \in Chunks, NEW c \in Comps, Write(k, c)
  PROVE  BaseInv' /\ pending' = <<>> /\ Len(pending) = 0 /\ alive' = alive
<1>1. /\ UNCHANGED <<prog, alive, index, schedule, current, pc, pending, submitted, waited>>
      /\ UNCHANGED <<locks, changed>>
      /\ pc = "idle" /\ ver' = ver + 1 /\ stamp' = [stamp EXCEPT ![k][c] = ver']
      /\ unseen' = [s \in Systems |-> IF c \in prog.filter[s] THEN unseen[s] \cup {k} ELSE unseen[s]]
  BY DEF Write, Call, program, walk, jobs
<1>2. /\ ver' \in Nat /\ stamp \in [Chunks -> [Comps -> Nat]] /\ unseen \in [Systems -> SUBSET Chunks]
  BY <1>1 DEF BaseInv, TypesInv
<1>3. stamp' \in [Chunks -> [Comps -> Nat]] /\ unseen' \in [Systems -> SUBSET Chunks]
  BY <1>1, <1>2
<1>. QED  BY <1>1, <1>2, <1>3, CallBase

-----------------------------------------------------------------------------
(* What systems have seen: the main thread goes through the systems.       *)

(* At first nobody has seen anything, and everything is new.               *)
LEMMA InitInvariant ==
  ASSUME Init
  PROVE  IInv
<1>1. prog \in Programs /\ prog.filter \in [Systems -> SUBSET Comps]
  BY ProgramAssumption DEF Init
<1>2. Len(pending) = 0
  BY NoJobs DEF Init
<1>3. ASSUME NEW s \in Systems, NEW k \in unseen[s]
      PROVE  k \in Batches(s)
  <2>1. prog.filter[s] # {} /\ k \in Chunks
    BY <1>3 DEF Init
  <2>2. PICK c \in prog.filter[s] : c \in Comps
    BY <1>1, <2>1
  <2>3. stamp[k][c] > changed[s]
    BY <2>1, <2>2 DEF Init
  <2>. QED  BY <2>1, <2>3 DEF Batches
<1>4. ChangesInv
  BY <1>3 DEF Init, ChangesInv
<1>5. VisitInv
  BY <1>2 DEF Init, VisitInv, JobsVisit
<1>. QED  BY <1>4, <1>5, InitBase DEF IInv

(* World::systems_run begins: a new version, nothing is pending.           *)
LEMMA BeginStep ==
  ASSUME IInv, Begin
  PROVE  IInv'
<1>1. /\ UNCHANGED <<waited, stamp, changed, unseen>> /\ prog' = Left(prog, alive)
      /\ ver' = ver + 1 /\ pc' = "check"
  BY DEF Begin, jobs
<1>2. BaseInv' /\ Len(pending)' = 0 /\ waited \in Nat
  BY BeginBase, EmptySeq, JobFields DEF IInv, BaseInv
<1>3. UNCHANGED <<prog.filter, prog.writes>>
  BY <1>1, LeftRemains DEF IInv, BaseInv, TypesInv
<1>4. ChangesInv'
  BY <1>1, <1>3, VersionUp DEF IInv, BaseInv
<1>5. VisitInv'
  BY <1>1, <1>2 DEF VisitInv, JobsVisit
<1>. QED  BY <1>2, <1>4, <1>5 DEF IInv

(* Steps of the main thread between the batches that leave the jobs alone. *)
LEMMA WalkStep ==
  ASSUME IInv, BaseInv', Walks
  PROVE  IInv'
<1>1. ChangesInv' /\ \A s : Fresh(s)' = Fresh(s)
  BY DataStays DEF IInv, Walks
<1>2. VisitInv'
  BY <1>1 DEF IInv, VisitInv, JobsVisit, data, Walks
<1>. QED  BY <1>1, <1>2 DEF IInv

(* The flush is over when all jobs were waited for.                        *)
LEMMA FlushedStep ==
  ASSUME IInv, Flushed
  PROVE  IInv'
<1>1. /\ UNCHANGED <<prog, data>> /\ pc' \in {"take", "idle"}
      /\ pending' = <<>> /\ waited' = 0
  BY DEF Flushed, program
<1>2. ChangesInv'
  BY <1>1, DataStays DEF IInv
<1>3. VisitInv'
  BY <1>1, EmptySeq DEF VisitInv, JobsVisit
<1>. QED  BY <1>2, <1>3, FlushedBase DEF IInv

-----------------------------------------------------------------------------
(* Serial systems.                                                         *)

(* System_::exec takes a version that is newer than what anybody has seen. *)
LEMMA ExecStep ==
  ASSUME IInv, Exec
  PROVE  IInv'
<1>1. /\ UNCHANGED <<prog, pending, waited, index, schedule, stamp, changed, unseen>>
      /\ pc = "take" /\ pending = <<>> /\ ver' = ver + 1
      /\ pc' = IF Batches(Here) = {} THEN "commit" ELSE "exec"
  BY DEF Exec, program, walk, jobs
<1>2. Len(pending) = 0 /\ waited \in Nat
  BY <1>1, NoJobs, JobFields DEF IInv, BaseInv
<1>3. ChangesInv' /\ \A s : Fresh(s)'
  BY <1>1, VersionUp DEF IInv, BaseInv
<1>4. AtHand /\ Here' = Here
  BY <1>1 DEF IInv, BaseInv, BatchInv, Here
<1>5. pc' = "commit" => unseen'[Here] = {}
  BY <1>1, <1>4 DEF IInv, ChangesInv, AtHand
<1>6. Fresh(Here)'
  BY <1>3
<1>7. VisitInv'
  BY <1>1, <1>2, <1>4, <1>5, <1>6 DEF VisitInv, JobsVisit
<1>. QED  BY <1>3, <1>7, ExecBase DEF IInv

(* Its callback visits all chunks that pass its filter.                    *)
LEMMA CallbackStep ==
  ASSUME IInv, Callback
  PROVE  IInv'
<1>1. /\ UNCHANGED <<prog, pending, waited, index, schedule, ver, changed>>
      /\ pc = "exec" /\ pc' = "commit" /\ Touch(Here, Batches(Here))
  BY DEF Callback, program, walk, jobs
<1>2. Len(pending) = 0 /\ waited \in Nat
  BY <1>1, NoJobs, JobFields DEF IInv, BaseInv, LockInv
<1>3. Here' = Here /\ Here \in Systems /\ Fresh(Here)
  BY <1>1 DEF IInv, BaseInv, BatchInv, VisitInv, Here, AtHand
<1>4. Batches(Here) \in SUBSET Chunks
  BY BatchesAreChunks
<1>5. ChangesInv' /\ unseen'[Here] = unseen[Here] \ Batches(Here)
  BY <1>1, <1>3, <1>4, TouchKeeps DEF IInv, BaseInv
<1>6. unseen'[Here'] = {}
  BY <1>3, <1>5 DEF IInv, ChangesInv
<1>7. VisitInv'
  BY <1>1, <1>2, <1>6 DEF VisitInv, JobsVisit
<1>. QED  BY <1>5, <1>7, CallbackBase DEF IInv

(* Its query is up to date.                                                *)
LEMMA ExecEndStep ==
  ASSUME IInv, ExecEnd
  PROVE  IInv'
<1>1. /\ UNCHANGED <<prog, pending, waited, ver, stamp, unseen>>
      /\ pc = "commit" /\ pc' = "check" /\ changed' = [changed EXCEPT ![Here] = ver']
  BY DEF ExecEnd, UnlockAndCommit, jobs
<1>2. Len(pending) = 0 /\ waited \in Nat
  BY <1>1, NoJobs, JobFields DEF IInv, BaseInv, LockInv
<1>3. Here \in Systems /\ unseen[Here] = {} /\ ver' \in Nat /\ ver' >= ver
  BY <1>1 DEF IInv, BaseInv, TypesInv, BatchInv, VisitInv, AtHand
<1>4. ChangesInv'
  BY <1>1, <1>3, SeenKeeps DEF IInv, BaseInv
<1>5. VisitInv'
  BY <1>1, <1>2 DEF VisitInv, JobsVisit
<1>. QED  BY <1>4, <1>5, ExecEndBase DEF IInv

-----------------------------------------------------------------------------
(* Jobs.                                                                   *)

(* Systems with jobs in the same batch as s do not write what s filters by.*)
LEMMA BatchesApart ==
  ASSUME FiltersApart, TypesInv, NEW s \in prog.parallel, NEW t \in prog.parallel, s # t,
         BatchKey(prog, s) = BatchKey(prog, t)
  PROVE  prog.writes[t] \cap prog.filter[s] = {}
BY DEF FiltersApart, TypesInv

(* SchedJob::wait and cleanup_query_job: the job has visited all that its  *)
(* system had not seen, and no job that is left writes what it filters by. *)
LEMMA WaitStep ==
  ASSUME FiltersApart, IInv, Wait
  PROVE  IInv'
<1> DEFINE m == waited + 1
           s == pending[m].sys
<1>1. /\ UNCHANGED <<prog, pending, pc, ver, stamp, unseen>>
      /\ pc = "submit" /\ waited < Len(pending) /\ Complete(pending[m]) /\ waited' = m
      /\ changed' = [changed EXCEPT ![s] = ver']
  BY DEF Wait, UnlockAndCommit, walk
<1>2. /\ Len(pending) \in Nat /\ DOMAIN pending = 1..Len(pending) /\ waited \in Nat
      /\ m \in 1..Len(pending) /\ m \in Nat /\ s \in Systems
      /\ \A j \in 1..Len(pending) : pending[j].sys \in Systems
  BY <1>1, JobFields DEF IInv, BaseInv
<1>3. unseen[s] = {}
  <2>1. unseen[s] \subseteq pending[m].left \cup pending[m].busy
    BY <1>2 DEF IInv, BaseInv, VisitInv, JobsVisit
  <2>. QED  BY <1>1, <2>1 DEF Complete
<1>4. ver' \in Nat /\ ver' >= ver
  BY <1>1 DEF IInv, BaseInv, TypesInv
<1>5. ChangesInv' /\ \A t \in Systems : t # s => changed'[t] = changed[t]
  BY <1>1, <1>2, <1>3, <1>4, SeenKeeps DEF IInv, BaseInv
<1>6. JobsVisit'
  <2> SUFFICES ASSUME NEW j \in (m + 1)..Len(pending)
               PROVE  /\ unseen[pending[j].sys] \subseteq pending[j].left \cup pending[j].busy
                      /\ Fresh(pending[j].sys)'
    BY <1>1 DEF JobsVisit
  <2>1. j \in (waited + 1)..Len(pending) /\ j \in 1..Len(pending)
    BY <1>2
  <2>2. /\ unseen[pending[j].sys] \subseteq pending[j].left \cup pending[j].busy
        /\ Fresh(pending[j].sys)
    BY <2>1 DEF IInv, BaseInv, VisitInv, JobsVisit
  <2>3. s # pending[j].sys => prog.writes[pending[j].sys] \cap prog.filter[s] = {}
    BY <1>2, <2>1, BatchesApart DEF IInv, BaseInv, BatchInv
  <2>4. Fresh(pending[j].sys)'
    BY <1>1, <1>5, <2>2, <2>3 DEF Fresh
  <2>. QED  BY <2>2, <2>4
<1>7. VisitInv'
  BY <1>1, <1>6 DEF VisitInv
<1>. QED  BY <1>5, <1>7, WaitBase DEF IInv

(* System_::job: the job is to visit all that its system has not seen, or  *)
(* there is nothing and its query is up to date.                           *)
LEMMA PrepareStep ==
  ASSUME FiltersApart, IInv, Prepare
  PROVE  IInv'
<1> DEFINE A == {j \in DOMAIN pending :
                   pending[j].sys \in alive /\ Clash(prog, pending[j].sys, Here)}
           job == [sys |-> Here, parts |-> Batches(Here), left |-> Batches(Here),
                   busy |-> {}, after |-> A]
<1>1. /\ UNCHANGED <<prog, alive, submitted, waited, schedule, current, stamp, unseen>>
      /\ pc = "take" /\ pc' = "check" /\ index' = index + 1 /\ ver' = ver + 1
      /\ Here \in prog.parallel
      /\ IF Batches(Here) = {}
         THEN changed' = [changed EXCEPT ![Here] = ver'] /\ UNCHANGED <<pending, locks>>
         ELSE pending' = Append(pending, job) /\ locks' = locks + 1 /\ UNCHANGED changed
  BY Zenon DEF Prepare, Serial, program
<1>2. /\ Len(pending) \in Nat /\ DOMAIN pending = 1..Len(pending) /\ waited \in Nat
      /\ \A j \in 1..Len(pending) : pending[j].sys \in Systems
      /\ waited = 0 /\ Here \in Systems /\ current = BatchKey(prog, Here)
      /\ \A j \in DOMAIN pending : BatchKey(prog, pending[j].sys) = current
  BY <1>1, JobFields DEF IInv, BaseInv, LockInv, BatchInv, AtHand
<1>3. /\ \A j \in 1..Len(pending) : pending[j].sys # Here
           => /\ prog.writes[pending[j].sys] \cap prog.filter[Here] = {}
              /\ prog.writes[Here] \cap prog.filter[pending[j].sys] = {}
  BY <1>1, <1>2, BatchesApart DEF IInv, BaseInv, BatchInv
<1>4. ver \in Nat /\ ver' \in Nat /\ ver' >= ver
  BY <1>1 DEF IInv, BaseInv, TypesInv
<1>5. CASE Batches(Here) = {}
  <2>1. UNCHANGED <<pending, locks>> /\ changed' = [changed EXCEPT ![Here] = ver']
    BY <1>1, <1>5
  <2>2. unseen[Here] = {}
    BY <1>2, <1>5 DEF IInv, BaseInv, ChangesInv
  <2>3. /\ changed' \in [Systems -> Nat] /\ ChangesInv'
        /\ \A t \in Systems : t # Here => changed'[t] = changed[t]
    BY <1>1, <1>2, <1>4, <2>1, <2>2, SeenKeeps DEF IInv, BaseInv
  <2> HIDE DEF job
  <2>4. JobsVisit'
    <3> SUFFICES ASSUME NEW j \in 1..Len(pending)
                 PROVE  /\ unseen[pending[j].sys] \subseteq pending[j].left \cup pending[j].busy
                        /\ Fresh(pending[j].sys)'
      <4>1. (waited + 1)..Len(pending) = 1..Len(pending)
        BY <1>2
      <4>. QED  BY <1>1, <2>1, <4>1 DEF JobsVisit
    <3>1. /\ unseen[pending[j].sys] \subseteq pending[j].left \cup pending[j].busy
          /\ Fresh(pending[j].sys)
      BY <1>2 DEF IInv, BaseInv, VisitInv, JobsVisit
    <3>2. ASSUME NEW t \in Systems, t # pending[j].sys,
                 prog.writes[pending[j].sys] \cap prog.filter[t] # {}
          PROVE  changed'[t] < ver'
      <4>1. t # Here
        BY <1>3, <3>2
      <4>2. changed[t] < ver /\ changed'[t] = changed[t] /\ changed'[t] \in Nat
        BY <2>3, <3>1, <3>2, <4>1 DEF Fresh
      <4>. QED  BY <1>1, <1>4, <4>2
    <3>. QED  BY <1>1, <3>1, <3>2 DEF Fresh
  <2>5. VisitInv'
    BY <1>1, <2>4 DEF VisitInv
  <2>. QED  BY <2>3, <2>5, PrepareBase DEF IInv
<1>6. CASE Batches(Here) # {}
  <2>1. pending' = Append(pending, job) /\ locks' = locks + 1 /\ UNCHANGED changed
    BY <1>1, <1>6
  <2>2. job \in JobSet
    <3>1. A \in SUBSET Nat
      BY <1>2
    <3>2. Batches(Here) \in SUBSET Chunks
      BY BatchesAreChunks
    <3> HIDE DEF A
    <3>. QED  BY <1>2, <3>1, <3>2 DEF JobSet
  <2> HIDE DEF job
  <2>3. /\ pending' \in Seq(JobSet) /\ Len(pending') = Len(pending) + 1
        /\ DOMAIN pending' = 1..(Len(pending) + 1)
        /\ \A j \in 1..Len(pending) : pending'[j] = pending[j]
        /\ pending'[Len(pending) + 1] = job
    BY <1>2, <2>1, <2>2 DEF IInv, BaseInv, TypesInv
  <2>4. job.sys = Here /\ job.left = Batches(Here) /\ job.busy = {}
    BY DEF job
  <2>5. ChangesInv' /\ \A t : Fresh(t)'
    BY <1>1, <2>1, VersionUp DEF IInv, BaseInv
  <2>6. JobsVisit'
    <3> SUFFICES ASSUME NEW j \in 1..(Len(pending) + 1)
                 PROVE  unseen[pending'[j].sys] \subseteq pending'[j].left \cup pending'[j].busy
      BY <1>1, <1>2, <2>3, <2>5 DEF JobsVisit
    <3>1. CASE j = Len(pending) + 1
      BY <1>2, <2>3, <2>4, <3>1 DEF IInv, BaseInv, ChangesInv
    <3>2. CASE j # Len(pending) + 1
      <4>1. j \in 1..Len(pending) /\ pending'[j] = pending[j]
        BY <1>2, <2>3, <3>2
      <4>. QED  BY <1>2, <4>1 DEF IInv, BaseInv, VisitInv, JobsVisit
    <3>. QED  BY <3>1, <3>2
  <2>7. VisitInv'
    BY <1>1, <2>6 DEF VisitInv
  <2>. QED  BY <2>5, <2>7, PrepareBase DEF IInv
<1>. QED  BY <1>5, <1>6

(* A worker starts a part of a job.                                        *)
LEMMA StartPartStep ==
  ASSUME IInv, NEW i \in DOMAIN pending, NEW k \in Chunks, StartPart(i, k)
  PROVE  IInv'
<1> DEFINE l == pending[i].left \ {k}
           b == pending[i].busy \cup {k}
<1>1. /\ UNCHANGED <<prog, alive, index, schedule, current, pc, submitted, waited, locks, data>>
      /\ k \in pending[i].left /\ pending' = PartOf(i, l, b)
  BY DEF StartPart, PartOf, program, walk
<1>2. /\ DOMAIN pending = 1..Len(pending) /\ pending[i].left \subseteq Chunks
      /\ pending[i].busy \subseteq Chunks
  BY JobFields DEF IInv, BaseInv
<1>3. l \in SUBSET Chunks /\ b \in SUBSET Chunks /\ ~Complete(pending[i])
  BY <1>1, <1>2 DEF Complete
<1>4. l \cup b = pending[i].left \cup pending[i].busy
  BY <1>1
<1> HIDE DEF l, b
<1>5. /\ i \in (waited + 1)..Len(pending) /\ pc \in {"check", "submit", "take"}
      /\ LockInv' /\ BatchInv' /\ pending' \in Seq(JobSet) /\ Len(pending') = Len(pending)
  BY <1>1, <1>3, PartKeeps DEF IInv
<1>6. /\ pending'[i].left = l /\ pending'[i].busy = b
      /\ \A j \in DOMAIN pending : /\ pending'[j].sys = pending[j].sys
                                   /\ j # i => pending'[j] = pending[j]
  BY <1>1, <1>3, PartFields DEF IInv, BaseInv
<1>8. ChangesInv' /\ \A s : Fresh(s)' = Fresh(s)
  BY <1>1, DataStays DEF IInv, BaseInv
<1>9. \A j \in DOMAIN pending : pending'[j].left \cup pending'[j].busy
                                  = pending[j].left \cup pending[j].busy
  BY <1>4, <1>6
<1>10. JobsVisit'
  <2> SUFFICES ASSUME NEW j \in (waited + 1)..Len(pending)
               PROVE  /\ unseen[pending[j].sys] \subseteq pending'[j].left \cup pending'[j].busy
                      /\ Fresh(pending[j].sys)
    <3>1. \A j \in (waited + 1)..Len(pending) : j \in DOMAIN pending
      BY <1>2, JobFields DEF IInv, BaseInv
    <3>. QED  BY <1>1, <1>5, <1>6, <1>8, <3>1 DEF JobsVisit, data
  <2>1. j \in DOMAIN pending
    BY <1>2, JobFields DEF IInv, BaseInv
  <2>. QED  BY <1>9, <2>1 DEF IInv, BaseInv, VisitInv, JobsVisit
<1>11. VisitInv'
  BY <1>1, <1>5, <1>10 DEF VisitInv
<1>. QED  BY <1>8, <1>11, StartPartBase DEF IInv

(* A worker has run a part of a job: what it wrote is nothing that the     *)
(* others in the batch filter by.                                          *)
LEMMA FinishPartStep ==
  ASSUME FiltersApart, IInv, NEW i \in DOMAIN pending, NEW k \in Chunks, FinishPart(i, k)
  PROVE  IInv'
<1> DEFINE l == pending[i].left
           b == pending[i].busy \ {k}
           s == pending[i].sys
<1>1. /\ UNCHANGED <<prog, alive, index, schedule, current, pc, submitted, waited, locks>>
      /\ UNCHANGED <<ver, changed>>
      /\ k \in pending[i].busy /\ Touch(s, {k})
      /\ pending' = [pending EXCEPT ![i].busy = @ \ {k}]
  BY DEF FinishPart, program, walk
<1>2. /\ DOMAIN pending = 1..Len(pending) /\ l \subseteq Chunks /\ pending[i].busy \subseteq Chunks
      /\ \A j \in DOMAIN pending : pending[j].sys \in Systems
      /\ s \in Systems /\ pending[i] \in JobSet /\ waited \in Nat /\ Len(pending) \in Nat
  BY JobFields DEF IInv, BaseInv
<1>3. l \in SUBSET Chunks /\ b \in SUBSET Chunks /\ ~Complete(pending[i])
  BY <1>1, <1>2 DEF Complete
<1>4. pending' = PartOf(i, l, b)
  <2>1. [pending[i] EXCEPT !.busy = b] = [pending[i] EXCEPT !.left = l, !.busy = b]
    BY <1>2 DEF JobSet
  <2>. QED  BY <1>1, <2>1 DEF PartOf
<1>5. l \cup b = (l \cup pending[i].busy) \ {k} \/ l \cup b = l \cup pending[i].busy
  OBVIOUS
<1>6. (l \cup pending[i].busy) \ {k} \subseteq l \cup b
  OBVIOUS
<1> HIDE DEF b
<1>7. /\ i \in (waited + 1)..Len(pending) /\ pc \in {"check", "submit", "take"}
      /\ LockInv' /\ BatchInv' /\ pending' \in Seq(JobSet) /\ Len(pending') = Len(pending)
  BY <1>1, <1>3, <1>4, PartKeeps DEF IInv
<1>8. /\ pending'[i].left = l /\ pending'[i].busy = b
      /\ \A j \in DOMAIN pending : /\ pending'[j].sys = pending[j].sys
                                   /\ j # i => pending'[j] = pending[j]
  BY <1>3, <1>4, PartFields DEF IInv, BaseInv
<1>9. Fresh(s) /\ \A j \in (waited + 1)..Len(pending) : Fresh(pending[j].sys)
  BY <1>7 DEF IInv, BaseInv, VisitInv, JobsVisit
<1>10. /\ stamp' \in [Chunks -> [Comps -> Nat]] /\ unseen' \in [Systems -> SUBSET Chunks]
       /\ ChangesInv' /\ unseen'[s] = unseen[s] \ {k}
       /\ \A t \in Systems : t # s /\ prog.writes[s] \cap prog.filter[t] = {}
                             => unseen'[t] = unseen[t]
  <2>1. {k} \in SUBSET Chunks
    OBVIOUS
  <2> HIDE DEF s
  <2>. QED  BY <1>1, <1>2, <1>9, <2>1, TouchKeeps DEF IInv, BaseInv
<1>12. \A t : Fresh(t)' = Fresh(t)
  BY <1>1 DEF Fresh
<1>13. JobsVisit'
  <2> SUFFICES ASSUME NEW j \in (waited + 1)..Len(pending)
               PROVE  unseen'[pending[j].sys] \subseteq pending'[j].left \cup pending'[j].busy
    <3>1. \A j \in (waited + 1)..Len(pending) : j \in DOMAIN pending
      BY <1>2
    <3>. QED  BY <1>1, <1>7, <1>8, <1>9, <1>12, <3>1 DEF JobsVisit
  <2>1. j \in DOMAIN pending
    BY <1>2
  <2>2. unseen[pending[j].sys] \subseteq pending[j].left \cup pending[j].busy
    BY DEF IInv, BaseInv, VisitInv, JobsVisit
  <2>3. CASE j = i
    BY <1>6, <1>8, <1>10, <2>2, <2>3
  <2>4. CASE j # i
    <3>1. pending'[j] = pending[j]
      BY <1>8, <2>1, <2>4
    <3>2. CASE pending[j].sys = s
      BY <1>10, <2>2, <3>1, <3>2
    <3>3. CASE pending[j].sys # s
      <4>1. prog.writes[s] \cap prog.filter[pending[j].sys] = {}
        BY <2>1, <3>3, BatchesApart DEF IInv, BaseInv, BatchInv
      <4>2. unseen'[pending[j].sys] = unseen[pending[j].sys]
        BY <1>2, <1>10, <2>1, <3>3, <4>1
      <4>. QED  BY <2>2, <3>1, <4>2
    <3>. QED  BY <3>2, <3>3
  <2>. QED  BY <2>3, <2>4
<1>14. VisitInv'
  BY <1>1, <1>7, <1>13 DEF VisitInv
<1>. QED  BY <1>10, <1>14, FinishPartBase DEF IInv

-----------------------------------------------------------------------------
(* The program between updates.                                            *)

(* World::enable.                                                          *)
LEMMA SwitchStep ==
  ASSUME IInv, NEW n \in Nodes, Switch(n)
  PROVE  IInv'
<1>1. UNCHANGED <<prog, pc, waited, stamp, changed, unseen>> /\ pc = "idle" /\ ver' = ver + 1
  BY DEF Switch, Call, jobs
<1>2. ChangesInv'
  BY <1>1, VersionUp DEF IInv, BaseInv
<1>3. BaseInv' /\ Len(pending)' = 0 /\ waited \in Nat
  BY SwitchBase, EmptySeq, JobFields DEF IInv, BaseInv
<1>4. VisitInv'
  BY <1>1, <1>3 DEF VisitInv, JobsVisit
<1>. QED  BY <1>2, <1>3, <1>4 DEF IInv

(* World::set: what it writes is newer than what anybody has seen.         *)
LEMMA WriteStep ==
  ASSUME IInv, NEW k \in Chunks, NEW c \in Comps, Write(k, c)
  PROVE  IInv'
<1>1. /\ UNCHANGED <<prog, pc, waited, changed>>
      /\ pc = "idle" /\ ver' = ver + 1 /\ stamp' = [stamp EXCEPT ![k][c] = ver']
      /\ unseen' = [s \in Systems |-> IF c \in prog.filter[s] THEN unseen[s] \cup {k} ELSE unseen[s]]
  BY DEF Write, Call, program, walk, jobs
<1>2. BaseInv' /\ Len(pending)' = 0 /\ waited \in Nat
  BY WriteBase, EmptySeq, JobFields DEF IInv, BaseInv
<1>3. /\ ver \in Nat /\ ver' \in Nat /\ changed \in [Systems -> Nat]
      /\ stamp \in [Chunks -> [Comps -> Nat]] /\ unseen \in [Systems -> SUBSET Chunks]
  BY <1>1 DEF IInv, BaseInv, TypesInv
<1>4. /\ stamp' \in [Chunks -> [Comps -> Nat]] /\ stamp'[k][c] = ver'
      /\ \A h \in Chunks : \A d \in Comps : <<h, d>> # <<k, c>> => stamp'[h][d] = stamp[h][d]
  BY <1>1, <1>3
<1>5. /\ \A h \in Chunks : \A d \in Comps : stamp[h][d] <= ver /\ stamp[h][d] \in Nat
      /\ \A s \in Systems : changed[s] <= ver /\ changed[s] \in Nat
  BY <1>3 DEF IInv, BaseInv, ChangesInv
<1>6. \A h \in Chunks : \A d \in Comps : stamp'[h][d] <= ver' /\ stamp'[h][d] >= stamp[h][d]
  <2> TAKE h \in Chunks
  <2> TAKE d \in Comps
  <2>1. CASE <<h, d>> = <<k, c>>
    BY <1>1, <1>3, <1>4, <1>5, <2>1
  <2>2. CASE <<h, d>> # <<k, c>>
    BY <1>1, <1>3, <1>4, <1>5, <2>2
  <2>. QED  BY <2>1, <2>2
<1>7. ASSUME NEW s \in Systems, NEW h \in unseen'[s]
      PROVE  h \in Batches(s)'
  <2>1. h \in Chunks
    BY <1>1, <1>3, <1>7
  <2>2. CASE prog.filter[s] = {}
    BY <1>1, <2>1, <2>2 DEF Batches
  <2>3. CASE h \in unseen[s] /\ prog.filter[s] # {}
    <3>1. PICK d \in prog.filter[s] : stamp[h][d] > changed[s]
      BY <2>3 DEF IInv, BaseInv, ChangesInv, Batches
    <3>2. d \in Comps
      BY ProgramFields DEF IInv, BaseInv
    <3>3. stamp'[h][d] > changed[s]
      BY <1>4, <1>5, <1>6, <2>1, <3>1, <3>2
    <3>. QED  BY <1>1, <2>1, <3>3 DEF Batches
  <2>4. CASE h \notin unseen[s]
    <3>1. h = k /\ c \in prog.filter[s]
      BY <1>1, <1>7, <2>4
    <3>2. stamp'[h][c] > changed[s]
      BY <1>1, <1>3, <1>4, <1>5, <3>1
    <3>. QED  BY <1>1, <2>1, <3>1, <3>2 DEF Batches
  <2>. QED  BY <2>2, <2>3, <2>4
<1>8. \A s \in Systems : changed'[s] <= ver'
  BY <1>1, <1>3, <1>5
<1>9. ChangesInv'
  BY <1>6, <1>7, <1>8 DEF ChangesInv
<1>10. VisitInv'
  BY <1>1, <1>2 DEF VisitInv, JobsVisit
<1>. QED  BY <1>2, <1>9, <1>10 DEF IInv

-----------------------------------------------------------------------------
(* Systems that access the same data.                                      *)

(* At first nothing is pending.                                            *)
LEMMA InitOrder ==
  ASSUME Init
  PROVE  OrderInv
BY NoJobs DEF Init, OrderInv, AfterInv, ClashInv, AliveInv

(* Steps that leave no job.                                                *)
LEMMA EmptyOrder ==
  ASSUME pending' = <<>>,
         pc' = "take" \/ (pc' = "submit" /\ AtItem') => Here' \in alive',
         \A s \in commands' : s \in prog'.parallel \/ pc' = "commit"
  PROVE  OrderInv'
<1>1. DOMAIN pending' = {}
  BY EmptySeq
<1>. QED  BY <1>1 DEF OrderInv, AfterInv, ClashInv, AliveInv

(* Steps that leave the jobs alone, and who is alive and has commands.     *)
LEMMA OrderStays ==
  ASSUME OrderInv, UNCHANGED <<prog, alive, pending, commands>>,
         pc' \in {"check", "take"} => pc \in {"check", "take"}, pc # "commit",
         pc' = "take" \/ (pc' = "submit" /\ AtItem') => Here' \in alive
  PROVE  OrderInv'
<1>1. AfterInv' /\ ClashInv'
  BY DEF OrderInv, AfterInv, ClashInv, Started, Complete
<1>. QED  BY <1>1 DEF OrderInv, AliveInv

(* Steps of the main thread between the batches: the system at hand was    *)
(* alive when its key was noted, and nobody has been deleted since.        *)
LEMMA WalkOrder ==
  ASSUME OrderInv, Skip \/ Admit \/ End \/ Submit \/ FlushForSerial
  PROVE  OrderInv'
<1>1. CASE Skip
  BY <1>1, OrderStays DEF Skip, program, jobs
<1>2. CASE Admit
  <2>1. UNCHANGED <<prog, alive, pending, commands, index, schedule>> /\ pc = "check"
        /\ Here \in alive
    BY <1>2 DEF Admit, Runnable, program, jobs
  <2>. QED  BY <2>1, OrderStays DEF Here
<1>3. CASE End
  BY <1>3, OrderStays DEF End, program, jobs, walk, AtItem
<1>4. CASE Submit
  <2>1. UNCHANGED <<prog, alive, pending, commands, index, schedule, pc>> /\ pc = "submit"
    BY <1>4 DEF Submit, program, walk
  <2>. QED  BY <2>1, OrderStays DEF OrderInv, AliveInv, AtItem, Here
<1>5. CASE FlushForSerial
  <2>1. UNCHANGED <<prog, alive, pending, commands, index, schedule>> /\ pc = "take"
        /\ pc' = "submit"
    BY <1>5 DEF FlushForSerial, program, jobs, walk
  <2>. QED  BY <2>1, OrderStays DEF OrderInv, AliveInv, AtItem, Here
<1>. QED  BY <1>1, <1>2, <1>3, <1>4, <1>5

(* Steps while nothing is pending: between updates, at the end of a flush  *)
(* and of serial systems, whose commands are applied when they are done.   *)
LEMMA AloneOrder ==
  ASSUME BaseInv, OrderInv,
         \/ Begin \/ Flushed \/ Exec \/ Callback \/ ExecEnd
         \/ (\E n \in Nodes : Switch(n)) \/ (\E k \in Chunks, c \in Comps : Write(k, c))
  PROVE  OrderInv'
<1>1. CASE Begin
  <2>1. /\ UNCHANGED <<pending, commands>> /\ pc = "idle" /\ pc' = "check"
        /\ prog' = Left(prog, alive)
    BY <1>1 DEF Begin, jobs
  <2>2. prog'.parallel = prog.parallel
    BY <2>1, LeftRemains DEF BaseInv, TypesInv
  <2>. QED  BY <2>1, <2>2, EmptyOrder DEF BaseInv, LockInv, OrderInv, AliveInv
<1>2. CASE Flushed
  <2>1. /\ UNCHANGED <<prog, alive, commands, index, schedule>> /\ pending' = <<>>
        /\ pc = "submit" /\ pc' = IF AtItem THEN "take" ELSE "idle"
    BY <1>2 DEF Flushed, program, walk
  <2>. QED  BY <2>1, EmptyOrder DEF OrderInv, AliveInv, Here
<1>3. CASE Exec
  <2>1. /\ UNCHANGED <<prog, commands>> /\ pending' = <<>> /\ pc = "take"
        /\ pc' \in {"exec", "commit"}
    BY <1>3 DEF Exec, program, jobs
  <2>. QED  BY <2>1, EmptyOrder DEF OrderInv, AliveInv
<1>4. CASE Callback
  <2>1. UNCHANGED <<prog, pending>> /\ pc = "exec" /\ pc' = "commit"
    BY <1>4 DEF Callback, program, jobs
  <2>. QED  BY <2>1, EmptyOrder DEF BaseInv, LockInv
<1>5. CASE ExecEnd
  <2>1. /\ UNCHANGED <<prog, pending>> /\ pc = "commit" /\ pc' = "check"
        /\ locks = 1 => commands' = {}
    BY <1>5 DEF ExecEnd, UnlockAndCommit, jobs
  <2>2. pending = <<>> /\ locks = 1
    BY <2>1, NoJobs, JobFields DEF BaseInv, LockInv
  <2>. QED  BY <2>1, <2>2, EmptyOrder
<1>6. CASE \E n \in Nodes : Switch(n)
  <2>1. UNCHANGED <<prog, pending, commands, pc>> /\ pc = "idle"
    BY <1>6 DEF Switch, Call, jobs
  <2>. QED  BY <2>1, EmptyOrder DEF BaseInv, LockInv, OrderInv, AliveInv
<1>7. CASE \E k \in Chunks, c \in Comps : Write(k, c)
  <2>1. UNCHANGED <<prog, pending, commands, pc>> /\ pc = "idle"
    BY <1>7 DEF Write, Call, program, jobs
  <2>. QED  BY <2>1, EmptyOrder DEF BaseInv, LockInv, OrderInv, AliveInv
<1>. QED  BY <1>1, <1>2, <1>3, <1>4, <1>5, <1>6, <1>7

(* A job was waited for: parallel systems delete nobody, so that the       *)
(* system at hand is still alive.                                          *)
LEMMA WaitOrder ==
  ASSUME SerialDelete, BaseInv, OrderInv, Wait
  PROVE  OrderInv'
<1>1. /\ UNCHANGED <<prog, pending, index, schedule, pc>> /\ pc = "submit"
      /\ alive' \in {alive, alive \ UNION {prog.kills[s] : s \in commands}}
      /\ commands' \in {commands, {}}
  BY DEF Wait, UnlockAndCommit, walk
<1>2. \A s \in commands : prog.kills[s] = {}
  BY <1>1 DEF OrderInv, AliveInv, SerialDelete, BaseInv, TypesInv
<1>3. alive' = alive
  BY <1>1, <1>2
<1>4. AfterInv' /\ ClashInv'
  BY <1>1 DEF OrderInv, AfterInv, ClashInv, Started, Complete
<1>5. AliveInv'
  BY <1>1, <1>3 DEF OrderInv, AliveInv, AtItem, Here
<1>. QED  BY <1>4, <1>5 DEF OrderInv

(* System_::job: the new job waits for those it conflicts with.            *)
LEMMA PrepareOrder ==
  ASSUME BaseInv, OrderInv, Prepare
  PROVE  OrderInv'
<1> DEFINE A == {j \in DOMAIN pending :
                   pending[j].sys \in alive /\ Clash(prog, pending[j].sys, Here)}
           job == [sys |-> Here, parts |-> Batches(Here), left |-> Batches(Here),
                   busy |-> {}, after |-> A]
<1>1. /\ UNCHANGED <<prog, alive, commands>> /\ pc = "take" /\ pc' = "check"
      /\ IF Batches(Here) = {} THEN pending' = pending ELSE pending' = Append(pending, job)
  BY Zenon DEF Prepare, program
<1>2. /\ Len(pending) \in Nat /\ DOMAIN pending = 1..Len(pending) /\ pending \in Seq(JobSet)
      /\ Here \in alive /\ \A j \in DOMAIN pending : pending[j].sys \in alive
  BY <1>1, JobFields DEF BaseInv, TypesInv, OrderInv, AliveInv
<1>3. CASE pending' = pending
  <2>1. AfterInv' /\ ClashInv'
    BY <1>1, <1>3 DEF OrderInv, AfterInv, ClashInv, Started, Complete
  <2>2. AliveInv'
    BY <1>1, <1>2, <1>3 DEF OrderInv, AliveInv
  <2>. QED  BY <2>1, <2>2 DEF OrderInv
<1>4. CASE pending' = Append(pending, job)
  <2> DEFINE m == Len(pending) + 1
  <2>1. /\ job.sys = Here /\ job.left = job.parts /\ job.after \subseteq 1..Len(pending)
        /\ \A j \in DOMAIN pending : Clash(prog, pending[j].sys, Here) => j \in job.after
    BY <1>2
  <2> HIDE DEF job
  <2>2. /\ DOMAIN pending' = 1..m /\ pending'[m] = job
        /\ \A j \in 1..Len(pending) : pending'[j] = pending[j]
    BY <1>2, <1>4
  <2>3. ASSUME NEW j \in 1..m
        PROVE  /\ pending'[j].after \subseteq 1..(j - 1)
               /\ Started(j)' => \A d \in pending'[j].after : Complete(pending'[d])
    <3>1. CASE j = m
      BY <1>2, <2>1, <2>2, <3>1 DEF Started
    <3>2. CASE j # m
      <4>1. j \in 1..Len(pending) /\ pending'[j] = pending[j]
        BY <1>2, <2>2, <3>2
      <4>2. pending[j].after \subseteq 1..(j - 1)
        BY <1>2, <4>1 DEF OrderInv, AfterInv
      <4>3. \A d \in pending[j].after : pending'[d] = pending[d]
        BY <1>2, <2>2, <4>1, <4>2
      <4>. QED  BY <1>2, <4>1, <4>2, <4>3 DEF OrderInv, AfterInv, Started
    <3>. QED  BY <3>1, <3>2
  <2>4. ASSUME NEW i \in 1..m, NEW j \in 1..m, i < j,
               Clash(prog, pending'[i].sys, pending'[j].sys)
        PROVE  i \in pending'[j].after
    <3>1. i \in 1..Len(pending) /\ pending'[i] = pending[i]
      BY <1>2, <2>2, <2>4
    <3>2. CASE j = m
      BY <1>2, <2>1, <2>2, <2>4, <3>1, <3>2
    <3>3. CASE j # m
      <4>1. j \in 1..Len(pending) /\ pending'[j] = pending[j]
        BY <1>2, <2>2, <3>3
      <4>. QED  BY <1>2, <2>4, <3>1, <4>1 DEF OrderInv, ClashInv
    <3>. QED  BY <3>2, <3>3
  <2>5. AfterInv' /\ ClashInv'
    BY <1>1, <2>2, <2>3, <2>4 DEF AfterInv, ClashInv
  <2>6. ASSUME NEW j \in 1..m
        PROVE  pending'[j].sys \in alive
    <3>1. CASE j = m
      BY <1>2, <2>1, <2>2, <3>1
    <3>2. CASE j # m
      BY <1>2, <2>2, <3>2
    <3>. QED  BY <3>1, <3>2
  <2>7. AliveInv'
    BY <1>1, <2>2, <2>6 DEF OrderInv, AliveInv
  <2>. QED  BY <2>5, <2>7 DEF OrderInv
<1>. QED  BY <1>1, <1>3, <1>4

(* A part of a job is started when the jobs before it are complete, and    *)
(* complete jobs stay so.                                                  *)
LEMMA PartOrder ==
  ASSUME BaseInv, OrderInv, NEW i \in DOMAIN pending, NEW k \in Chunks,
         StartPart(i, k) \/ FinishPart(i, k)
  PROVE  OrderInv'
<1> DEFINE l == pending'[i].left
           b == pending'[i].busy
<1>1. /\ UNCHANGED <<prog, alive, index, schedule, pc>>
      /\ commands' \in {commands, commands \cup {pending[i].sys}}
      /\ \/ /\ \A d \in pending[i].after : Complete(pending[d])
            /\ k \in pending[i].left
            /\ pending' = [pending EXCEPT ![i].left = @ \ {k}, ![i].busy = @ \cup {k}]
         \/ /\ k \in pending[i].busy
            /\ pending' = [pending EXCEPT ![i].busy = @ \ {k}]
  BY DEF StartPart, FinishPart, program, walk
<1>2. /\ DOMAIN pending = 1..Len(pending) /\ Len(pending) \in Nat /\ pending[i] \in JobSet
      /\ pending[i].sys \in prog.parallel
  BY JobFields DEF BaseInv, BatchInv
<1>3. /\ DOMAIN pending' = DOMAIN pending
      /\ \A j \in DOMAIN pending : j # i => pending'[j] = pending[j]
      /\ pending'[i].sys = pending[i].sys /\ pending'[i].after = pending[i].after
      /\ pending'[i].parts = pending[i].parts
      /\ Started(i)' => Started(i) \/ \A d \in pending[i].after : Complete(pending[d])
  BY <1>1, <1>2 DEF Started, JobSet
<1>4. ~Complete(pending[i])
  BY <1>1 DEF Complete
<1>5. \A j \in DOMAIN pending : Complete(pending[j]) => Complete(pending'[j])
  BY <1>3, <1>4 DEF Complete
<1>6. \A j \in DOMAIN pending : /\ pending'[j].sys = pending[j].sys
                                /\ pending'[j].after = pending[j].after
                                /\ Started(j)' => Started(j) \/ \A d \in pending[j].after : Complete(pending[d])
  BY <1>3 DEF Started
<1>7. AfterInv'
  <2> SUFFICES ASSUME NEW j \in DOMAIN pending
               PROVE  /\ pending'[j].after \subseteq 1..(j - 1)
                      /\ Started(j)' => \A d \in pending'[j].after : Complete(pending'[d])
    BY <1>3 DEF AfterInv
  <2>1. pending[j].after \subseteq 1..(j - 1)
    BY DEF OrderInv, AfterInv
  <2>2. \A d \in pending[j].after : d \in DOMAIN pending
    BY <1>2, <2>1
  <2>3. Started(j)' => \A d \in pending[j].after : Complete(pending[d])
    BY <1>6 DEF OrderInv, AfterInv
  <2>. QED  BY <1>5, <1>6, <2>1, <2>2, <2>3
<1>8. ClashInv'
  BY <1>1, <1>3, <1>6 DEF OrderInv, ClashInv
<1>9. AliveInv'
  BY <1>1, <1>2, <1>3, <1>6 DEF OrderInv, AliveInv, AtItem, Here
<1>. QED  BY <1>7, <1>8, <1>9 DEF OrderInv

(* Every step keeps the order.                                             *)
LEMMA NextOrder ==
  ASSUME SerialDelete, BaseInv, OrderInv, [Next]_vars
  PROVE  OrderInv'
<1>1. CASE Begin \/ (\E n \in Nodes : Switch(n)) \/ (\E k \in Chunks, c \in Comps : Write(k, c))
  BY <1>1, AloneOrder
<1>2. CASE Main
  BY <1>2, WalkOrder, AloneOrder, WaitOrder, PrepareOrder DEF Main
<1>3. CASE Worker
  BY <1>3, PartOrder DEF Worker
<1>4. CASE UNCHANGED vars
  <2>1. UNCHANGED <<prog, alive, pending, commands, pc, index, schedule>>
    BY <1>4 DEF vars, program, walk, jobs
  <2>2. AfterInv' /\ ClashInv'
    BY <2>1 DEF OrderInv, AfterInv, ClashInv, Started, Complete
  <2>3. AliveInv'
    BY <2>1 DEF OrderInv, AliveInv, AtItem, Here
  <2>. QED  BY <2>2, <2>3 DEF OrderInv
<1>. QED  BY <1>1, <1>2, <1>3, <1>4 DEF Next

-----------------------------------------------------------------------------
(* The theorems.                                                           *)

(* Every step keeps jobs, locks and batches; commands are applied when no  *)
(* part of a job is left.                                                  *)
LEMMA NextBase ==
  ASSUME BaseInv, [Next]_vars
  PROVE  BaseInv' /\ (alive' # alive => pc # "exec" /\ \A j \in DOMAIN pending : Complete(pending[j]))
<1>1. CASE Begin
  BY <1>1, BeginBase
<1>2. CASE Main
  <2>1. CASE Skip \/ Admit \/ End \/ Submit \/ FlushForSerial
    BY <2>1, SkipBase, AdmitBase, EndBase, SubmitBase, FlushForSerialBase DEF Walks
  <2>2. CASE Flushed \/ Exec \/ Callback \/ Prepare
    BY <2>2, FlushedBase, ExecBase, CallbackBase, PrepareBase
  <2>3. CASE Wait
    BY <2>3, WaitBase
  <2>4. CASE ExecEnd
    BY <2>4, ExecEndBase
  <2>. QED  BY <1>2, <2>1, <2>2, <2>3, <2>4 DEF Main
<1>3. CASE Worker
  BY <1>3, StartPartBase, FinishPartBase DEF Worker
<1>4. CASE \E n \in Nodes : Switch(n)
  BY <1>4, SwitchBase
<1>5. CASE \E k \in Chunks, c \in Comps : Write(k, c)
  BY <1>5, WriteBase
<1>6. CASE UNCHANGED vars
  <2>1. UNCHANGED <<prog, alive, index, schedule, current, pc, pending, submitted, waited>>
        /\ UNCHANGED <<locks, data>>
    BY <1>6 DEF vars, program, walk, jobs
  <2>2. TypesInv'
    BY <2>1 DEF BaseInv, TypesInv, data
  <2>3. LockInv' /\ BatchInv'
    BY <2>1 DEF BaseInv, LockInv, BatchInv, Complete, AtItem, AtHand, Here
  <2>. QED  BY <2>1, <2>2, <2>3 DEF BaseInv
<1>. QED  BY <1>1, <1>2, <1>3, <1>4, <1>5, <1>6 DEF Next

(* Every step keeps the invariant.                                         *)
LEMMA NextInvariant ==
  ASSUME FiltersApart, IInv, [Next]_vars
  PROVE  IInv'
<1>1. CASE Begin
  BY <1>1, BeginStep
<1>2. CASE Main
  <2>1. CASE Skip \/ Admit \/ End \/ Submit \/ FlushForSerial
    <3>1. BaseInv' /\ Walks
      BY <2>1, SkipBase, AdmitBase, EndBase, SubmitBase, FlushForSerialBase DEF IInv
    <3>. QED  BY <3>1, WalkStep
  <2>2. CASE Flushed \/ Exec \/ Callback \/ ExecEnd
    BY <2>2, FlushedStep, ExecStep, CallbackStep, ExecEndStep
  <2>3. CASE Prepare \/ Wait
    BY <2>3, PrepareStep, WaitStep
  <2>. QED  BY <1>2, <2>1, <2>2, <2>3 DEF Main
<1>3. CASE Worker
  BY <1>3, StartPartStep, FinishPartStep DEF Worker
<1>4. CASE \E n \in Nodes : Switch(n)
  BY <1>4, SwitchStep
<1>5. CASE \E k \in Chunks, c \in Comps : Write(k, c)
  BY <1>5, WriteStep
<1>6. CASE UNCHANGED vars
  <2>1. UNCHANGED <<prog, pending, waited, pc, index, schedule, data>>
    BY <1>6 DEF vars, program, walk, jobs
  <2>2. ChangesInv' /\ \A s : Fresh(s)' = Fresh(s)
    BY <2>1, DataStays DEF IInv
  <2>3. VisitInv'
    BY <2>1, <2>2 DEF IInv, VisitInv, JobsVisit, data, Here
  <2>4. BaseInv'
    BY <1>6, NextBase DEF IInv
  <2>. QED  BY <2>2, <2>3, <2>4 DEF IInv
<1>. QED  BY <1>1, <1>2, <1>3, <1>4, <1>5, <1>6 DEF Next

(* The commands that systems record are applied when no part of a job is   *)
(* running or left to run and no serial system is visiting chunks, of any  *)
(* program: cleanup_query_job unlocks the world for each job, and the one  *)
(* that is waited for last gives it back.                                  *)
THEOREM CommandsApart == Spec => AppliedApart
<1>1. Init => BaseInv
  BY InitBase
<1>2. BaseInv /\ [Next]_vars => BaseInv'
  BY NextBase
<1>3. BaseInv /\ [Next]_vars
        => [alive' # alive => pc # "exec" /\ \A j \in DOMAIN pending : Complete(pending[j])]_vars
  BY NextBase
<1>. QED  BY <1>1, <1>2, <1>3, PTL DEF Spec, AppliedApart

(* No two systems that access the same data run side by side, whatever     *)
(* chunks they visit and however many threads there are: systems_run makes *)
(* a job depend on the pending ones it can not run in parallel with, by    *)
(* can_run_parallel, and flushes before a serial system.                   *)
THEOREM ConflictsApart ==
  ASSUME SerialDelete
  PROVE  Spec => []ConflictsInOrder
<1>1. Init => BaseInv /\ OrderInv
  BY InitBase, InitOrder
<1>2. BaseInv /\ OrderInv /\ [Next]_vars => (BaseInv /\ OrderInv)'
  BY NextBase, NextOrder
<1>3. BaseInv /\ OrderInv => ConflictsInOrder
  BY DEF BaseInv, LockInv, OrderInv, AfterInv, ClashInv, ConflictsInOrder
<1>. QED  BY <1>1, <1>2, <1>3, PTL DEF Spec

(* The invariant holds in every reachable state.                           *)
LEMMA Inductive ==
  ASSUME FiltersApart
  PROVE  Spec => []IInv
<1>1. Init => IInv
  BY InitInvariant
<1>2. IInv /\ [Next]_vars => IInv'
  BY NextInvariant
<1>. QED  BY <1>1, <1>2, PTL DEF Spec

(* A chunk that was changed after a system with a change filter visited it *)
(* passes the filter in the next update, in whatever order systems, parts  *)
(* of jobs and writes of the program follow one another: changed(), the    *)
(* versions of chunks and m_changedWorldVersion of the queries.  Parallel  *)
(* systems of one batch have to be apart: a query takes the version when   *)
(* its job is prepared, before the jobs in front of it have written.       *)
THEOREM ChangesAreSeen ==
  ASSUME FiltersApart
  PROVE  Spec => []NoChangeLost
<1>1. IInv => NoChangeLost
  BY DEF IInv, BaseInv, ChangesInv, NoChangeLost
<1>. QED  BY <1>1, Inductive, PTL

=============================================================================

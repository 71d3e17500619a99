---------------------------- MODULE MCSystemRun ----------------------------
(***************************************************************************)
(* Four systems and two phases (5 and 6), data P and Q in two chunks, and  *)
(* the programs the run starts from.                                       *)
(***************************************************************************)
EXTENDS SystemRun

None == [s \in Systems |-> {}]
P == "P"
Q == "Q"

\* Unordered serial systems without data.
Plain == [phase |-> [s \in Systems |-> NoPhase], dep |-> {}, parallel |-> {},
          reads |-> None, writes |-> None, filter |-> None, kills |-> None,
          switch |-> {}]

\* All ways to give each of the systems at most one target.
Forests ==
  {[Plain EXCEPT !.dep = {<<s, f[s]>> : s \in {t \in Systems : f[t] # 0}}, !.switch = {1}] :
     f \in {g \in [Systems -> Systems \cup {0}] : \A s \in Systems : g[s] # s}}

\* Two targets each, in both groups of a phase; 6 before 5.
Diamond == [Plain EXCEPT
  !.dep = {<<2, 1>>, <<3, 1>>, <<4, 2>>, <<4, 3>>}, !.parallel = Systems,
  !.switch = {2}]
Phased == [Plain EXCEPT
  !.phase = <<5, 6, 5, 6>>, !.dep = {<<6, 5>>, <<1, 3>>, <<4, 3>>},
  !.parallel = {1, 2, 4}, !.writes = [None EXCEPT ![2] = {P}, ![4] = {P}],
  !.switch = {3, 6}]
Loop == [Plain EXCEPT
  !.phase = <<5, 6, 5, 0>>, !.dep = {<<6, 5>>, <<5, 6>>, <<1, 3>>, <<3, 1>>, <<4, 1>>},
  !.parallel = {1, 2, 3}]

\* One batch with a chain of conflicts.
Conflicts == [Plain EXCEPT
  !.parallel = {1, 2, 3}, !.reads = [None EXCEPT ![3] = {Q}],
  !.writes = <<{P}, {P, Q}, {}, {Q}>>]

\* A serial system with a change filter between parallel writers.
Filter == [Plain EXCEPT
  !.parallel = {1, 3}, !.writes = <<{P}, {Q}, {P}, {}>>,
  !.reads = [None EXCEPT ![2] = {P}], !.filter = [None EXCEPT ![2] = {P}]]

\* A parallel one in a phase of its own, with nothing to do once 1 is disabled.
Quiet == [Plain EXCEPT
  !.phase = <<5, 6, 6, 0>>, !.dep = {<<5, 6>>}, !.parallel = {1, 2, 3},
  !.writes = <<{P}, {}, {Q}, {}>>, !.reads = [None EXCEPT ![2] = {P}],
  !.filter = [None EXCEPT ![2] = {P}], !.switch = {1}]

\* A serial system deletes one of the next batch and one behind it.
Deletes == [Plain EXCEPT
  !.parallel = {2, 3}, !.kills = [None EXCEPT ![1] = {3, 4}]]

\* 1 deletes 3, which 2 waits for and which waits for 4.  In the next update their
\* pairs are gone: 2 and 4 share a batch, 2 first, where 4 was first before.
Orphans == [Plain EXCEPT
  !.dep = {<<2, 3>>, <<3, 4>>}, !.parallel = {2, 4},
  !.writes = <<{}, {P}, {}, {P}>>, !.kills = [None EXCEPT ![1] = {3}]]

\* Every acyclic graph with 1 above 4 above 3 above 2, and every way to spread
\* the systems over the phases.
Dags ==
  {[Plain EXCEPT !.dep = d] :
     d \in SUBSET {<<1, 2>>, <<1, 3>>, <<1, 4>>, <<3, 2>>, <<4, 2>>, <<4, 3>>}}
Spread ==
  {[Plain EXCEPT !.phase = f, !.dep = {<<6, 5>>, <<3, 1>>}, !.parallel = {1, 3}] :
     f \in [Systems -> Phases \cup {NoPhase}]}

MCPrograms ==
  Forests \cup Dags \cup Spread \cup
  {Diamond, Phased, Loop, Conflicts, Filter, Quiet, Deletes, Orphans}

\* Left out: a filter in a parallel system misses what is written in the batch
\* it is prepared in (NoChangeLost); a parallel system deletes the one at the
\* head of the next batch, which is run all the same (ImplementsUpdate).
LateFilter == [Filter EXCEPT !.parallel = {1, 2, 3}]
LateDelete == [Deletes EXCEPT !.parallel = {1, 2, 3}, !.kills = [None EXCEPT ![3] = {4}]]

\* The programs of the run are as the proofs want them.
ASSUME CarefulPrograms == FiltersApart /\ SerialDelete
=============================================================================

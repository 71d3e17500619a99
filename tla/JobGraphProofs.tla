--------------------------- MODULE JobGraphProofs ---------------------------
(***************************************************************************)
(* Proofs about module JobGraph, for any number of slots, workers, jobs,   *)
(* edges and submissions.                                                  *)
(***************************************************************************)
EXTENDS JobGraph, FiniteSetTheorems, SequenceTheorems, TLAPS

-----------------------------------------------------------------------------
(* The edges of a slot are numbered from one.                              *)
LEMMA EdgesOf ==
  ASSUME TypeOK, NEW i \in Slots
  PROVE  /\ edges[i] \in Seq(Slots)
         /\ Len(edges[i]) \in Nat
         /\ DOMAIN edges[i] = 1..Len(edges[i])
         /\ \A k \in 1..Len(edges[i]) : k \in Nat /\ edges[i][k] \in Slots
<1>1. edges[i] \in Seq(Slots)
  BY DEF TypeOK
<1>2. \A k \in 1..Len(edges[i]) : k \in Nat
  BY <1>1
<1> QED
  BY <1>1, <1>2, LenProperties

(* A worker reads a slot of the pool, whatever its edges look like by now. *)
LEMMA EdgesAtType ==
  ASSUME TypeOK, NEW i \in Slots, NEW k \in Nat \ {0}
  PROVE  EdgesAt(i, k) \subseteq Slots
<1>1. Len(edges[i]) \in Nat /\ \A m \in 1..Len(edges[i]) : edges[i][m] \in Slots
  BY EdgesOf
<1>2. k <= Len(edges[i]) => k \in 1..Len(edges[i])
  BY <1>1
<1>3. k <= Len(edges[i]) => edges[i][k] \in Slots
  BY <1>1, <1>2
<1>4. k > Len(edges[i]) \/ k <= Len(edges[i])
  BY <1>1
<1> QED
  BY <1>3, <1>4 DEF EdgesAt

(* Every step of a context keeps the types: the counters stay within the   *)
(* dependency bits and a busy worker has a job.                            *)
LEMMA TypeStep ==
  ASSUME TypeOK, [Next]_vars
  PROVE  TypeOK'
<1> USE GraphAssumption DEF TypeOK, Contexts, States
<1>1. ASSUME NEW s \in Slots, NEW m \in BOOLEAN, Add(s, m) PROVE TypeOK'
  BY <1>1 DEF Add, frame
<1>2. ASSUME NEW i \in Slots, NEW j \in Slots, Dep(i, j) PROVE TypeOK'
  <2>1. edges' \in [Slots -> Seq(Slots)] /\ Len(edges[i]) + 1 \in Nat
    BY <1>2 DEF Dep
  <2>2. deps' \in [Slots -> 0..MaxDeps] /\ owed' \in [Slots -> SUBSET Nat]
    BY <1>2, <2>1 DEF Dep
  <2> QED
    BY <1>2, <2>1, <2>2 DEF Dep, frame, counters
<1>3. ASSUME NEW i \in Slots, NEW k, DepRefresh(i, k) PROVE TypeOK'
  <2>1. PICK d \in Slots : d = edges[i][k]
    BY <1>3 DEF DepRefresh
  <2>2. deps' = [deps EXCEPT ![d] = @ + 1] /\ deps[d] < MaxDeps
    BY <1>3, <2>1 DEF DepRefresh
  <2>3. deps[d] + 1 \in 0..MaxDeps
    BY <2>2
  <2>4. deps' \in [Slots -> 0..MaxDeps]
    BY <2>2, <2>3
  <2>5. k \in Nat
    <3>1. k \in DOMAIN edges[i]
      BY <1>3 DEF DepRefresh
    <3> HIDE DEF TypeOK
    <3> QED
      BY <3>1, EdgesOf
  <2>6. owed' \in [Slots -> SUBSET Nat]
    BY <1>3, <2>5 DEF DepRefresh
  <2> QED
    BY <1>3, <2>4, <2>6 DEF DepRefresh, frame, counters, graph
<1>4. ASSUME NEW s \in Slots, Submit(s) PROVE TypeOK'
  BY <1>4 DEF Submit, frame, graph
<1>5. CASE EndSubmit
  BY <1>5 DEF EndSubmit, frame, graph, counters, word
<1>6. ASSUME NEW S \in SUBSET Slots, Reset(S) PROVE TypeOK'
  BY <1>6 DEF Reset, frame, graph, counters
<1>7. ASSUME NEW s \in Slots, Del(s) PROVE TypeOK'
  BY <1>7 DEF Del, frame, graph, counters
<1>8. ASSUME NEW w \in Workers, NEW s \in Slots, Take(w, s) PROVE TypeOK'
  BY <1>8, SMTT(60) DEF Take, graph, counters
<1>9. ASSUME NEW w \in Workers, Finalize(w) PROVE TypeOK'
  <2>1. slot[w] \in Slots
    BY <1>9 DEF Finalize
  <2>2. st' \in [Slots -> States] /\ deps' \in [Slots -> 0..MaxDeps]
    BY <1>9, <2>1 DEF Finalize
  <2> QED
    BY <1>9, <2>2 DEF Finalize, frame, graph, counters
<1>10. ASSUME NEW w \in Workers, ReadEdges(w) PROVE TypeOK'
  <2>1. Len(edges[slot[w]]) \in Nat
    BY <1>10 DEF ReadEdges
  <2>2. max' \in [Workers -> Nat] /\ pos' \in [Workers -> Nat]
    BY <1>10, <2>1 DEF ReadEdges
  <2>3. /\ pc' \in [Contexts -> {"idle", "submitting", "process", "run", "edges",
                                 "signal", "free", "finish"}]
        /\ \A v \in Workers : pc'[v] # "idle" => pc[v] # "idle"
        /\ \A v \in Workers : pc'[v] = "signal" => pos'[v] > 0
    BY <1>10 DEF ReadEdges
  <2>4. UNCHANGED <<word, graph, counters, queued, slot, auto, claimed, owed>>
    BY <1>10 DEF ReadEdges
  <2> QED
    BY <2>2, <2>3, <2>4 DEF word, graph, counters
<1>11. ASSUME NEW w \in Workers, Signal(w) PROVE TypeOK'
  <2>1. /\ slot[w] \in Slots /\ pos[w] \in Nat \ {0}
        /\ Below \in [States -> States]
    BY <1>11 DEF Signal, Below
  <2>2. PICK d \in EdgesAt(slot[w], pos[w]) :
          /\ deps' = [deps EXCEPT ![d] = IF @ > 0 THEN @ - 1 ELSE MaxDeps]
          /\ st' = [st EXCEPT ![d] = IF deps[d] > 0 THEN @ ELSE Below[@]]
          /\ claimed' = [claimed EXCEPT ![w] =
               IF st'[d] = "submitted" /\ deps'[d] = 0 THEN @ \cup {d} ELSE @]
    BY <1>11 DEF Signal
  <2>3. d \in Slots
    BY <2>1, <2>2, EdgesAtType
  <2>4. st' \in [Slots -> States] /\ deps' \in [Slots -> 0..MaxDeps]
    <3>1. st' \in [Slots -> States]
      <4>1. st \in [Slots -> States] /\ Below[st[d]] \in States
        BY <2>1, <2>3
      <4> HIDE DEF TypeOK, States
      <4> QED
        BY <2>2, <4>1
    <3>2. deps' \in [Slots -> 0..MaxDeps]
      <4>1. deps \in [Slots -> 0..MaxDeps] /\ deps[d] \in 0..MaxDeps /\ MaxDeps \in Nat
        BY <2>3, GraphAssumption
      <4>2. (IF deps[d] > 0 THEN deps[d] - 1 ELSE MaxDeps) \in 0..MaxDeps
        BY <4>1
      <4> HIDE DEF TypeOK, States
      <4> QED
        BY <2>2, <4>1, <4>2
    <3> QED
      BY <3>1, <3>2
  <2>5. claimed' \in [Contexts -> SUBSET Slots]
    BY <2>2, <2>3
  <2>6. /\ owed' \in [Slots -> SUBSET Nat] /\ pos' \in [Workers -> Nat]
        /\ \A v \in Workers : pc'[v] = "signal" => pos'[v] > 0
    BY <1>11, <2>1 DEF Signal
  <2> QED
    BY <1>11, <2>4, <2>5, <2>6 DEF Signal, graph, counters
<1>12. ASSUME NEW w \in Workers, FreeEdges(w) PROVE TypeOK'
  BY <1>12 DEF FreeEdges, word, frame, counters
<1>13. ASSUME NEW w \in Workers, Finish(w) PROVE TypeOK'
  <2>1. slot[w] \in Slots
    BY <1>13 DEF Finish
  <2>2. st' \in [Slots -> States] /\ deps' \in [Slots -> 0..MaxDeps]
    <3>1. st' \in [Slots -> States]
      BY <1>13, <2>1 DEF Finish
    <3>2. deps' \in [Slots -> 0..MaxDeps]
      BY <1>13, <2>1 DEF Finish
    <3> QED
      BY <3>1, <3>2
  <2> QED
    BY <1>13, <2>2 DEF Finish, graph, counters
<1>14. ASSUME NEW c \in Contexts, NEW s \in Slots, Process(c, s) PROVE TypeOK'
  BY <1>14 DEF Process, graph, counters, frame
<1>15. ASSUME NEW c \in Contexts, EndProcess(c) PROVE TypeOK'
  BY <1>15 DEF EndProcess, word, graph, counters, frame
<1>16. CASE UNCHANGED vars
  BY <1>16 DEF vars
<1> HIDE DEF TypeOK, Contexts, States
<1> QED
  BY <1>1, <1>2, <1>3, <1>4, <1>5, <1>6, <1>7, <1>8, <1>9, <1>10, <1>11, <1>12, <1>13,
     <1>14, <1>15, <1>16
  DEF Next, MainStep, WorkerStep, ProcessStep

(* TypeOK for every pool: dep() and dep_refresh() never let a counter grow *)
(* out of the dependency bits, and no signal moves it out of them either.  *)
THEOREM TypeCorrect == Spec => []TypeOK
<1>1. Init => TypeOK
  BY GraphAssumption DEF Init, TypeOK, Contexts, States
<1> QED
  BY <1>1, TypeStep, PTL DEF Spec
-----------------------------------------------------------------------------
(* Facts about the dependency counters                                     *)

(* An edge is in Owing of the dependent it leads to, as long as it is owed. *)
LEMMA OwingIs ==
  ASSUME NEW i \in Slots, NEW k \in owed[i], NEW j
  PROVE  <<i, k>> \in Owing(j) <=> edges[i][k] = j
  BY DEF Owing

(* A dependent that some edge still owes to is clear or submitted and      *)
(* counts that edge.                                                       *)
LEMMA OwedTarget ==
  ASSUME TypeOK, CountsOwed, OwedEdges, NEW i \in Slots, NEW k \in owed[i]
  PROVE  /\ k \in DOMAIN edges[i]
         /\ edges[i][k] \in Slots
         /\ st[edges[i][k]] \in Waiting
         /\ deps[edges[i][k]] > 0
<1> DEFINE d == edges[i][k]
<1>1. k \in DOMAIN edges[i]
  BY DEF OwedEdges, OwesEdges
<1>2. d \in Slots
  BY <1>1, EdgesOf
<1>3. <<i, k>> \in Owing(d)
  BY OwingIs
<1>4. st[d] \in Waiting
  BY <1>2, <1>3 DEF CountsOwed, Counted
<1>5. IsFiniteSet(Owing(d)) /\ deps[d] = Cardinality(Owing(d))
  BY <1>2 DEF CountsOwed, Counted
<1>6. deps[d] # 0
  BY <1>3, <1>5, FS_EmptySet
<1>7. deps[d] \in Nat
  BY <1>2 DEF TypeOK
<1> QED
  BY <1>1, <1>2, <1>4, <1>6, <1>7

(* A worker about to signal reads one dependent from live storage.         *)
LEMMA SignalReads ==
  ASSUME IInv, NEW w \in Workers, pc[w] = "signal",
         NEW i, i = slot[w], NEW d, d = edges[i][pos[w]]
  PROVE  /\ i \in Slots /\ d \in Slots
         /\ st[i] = "done" /\ pos[w] \in owed[i]
         /\ st[d] \in Waiting /\ deps[d] > 0
         /\ EdgesAt(i, pos[w]) = {d}
<1>1. i \in Slots
  BY DEF IInv, TypeOK
<1>2. /\ max[w] = Len(edges[i]) /\ pos[w] \in 1..max[w] /\ owed[i] = pos[w]..max[w]
  BY <1>1 DEF IInv, WorkerOwns, Owns
<1>3. Len(edges[i]) \in Nat
  BY <1>1, EdgesOf DEF IInv
<1>4. pos[w] \in owed[i] /\ edges[i] # <<>> /\ pos[w] <= Len(edges[i])
  BY <1>2, <1>3
<1>5. d \in Slots /\ st[d] \in Waiting /\ deps[d] > 0
  BY <1>1, <1>4, OwedTarget DEF IInv
<1>6. st[i] = "done"
  BY <1>1, <1>4 DEF IInv, WorkerOwns, Owns
<1>7. edgeMem[i] # "freed"
  <2>1. CASE Len(edges[i]) <= 1
    BY <1>1, <2>1 DEF IInv, EdgeStorage, Stored
  <2>2. CASE Len(edges[i]) > 1
    BY <1>1, <2>2 DEF IInv, EdgeStorage, EdgesLive
  <2> QED
    BY <1>3, <2>1, <2>2
<1>8. EdgesAt(i, pos[w]) = {d}
  BY <1>4, <1>7, <1>2, <1>3 DEF EdgesAt
<1> QED
  BY <1>1, <1>4, <1>5, <1>6, <1>8

(* Signalling takes one from the counter of that dependent and leaves the  *)
(* state bits alone; the last one collects the dependent if it was         *)
(* submitted.                                                              *)
LEMMA SignalStep ==
  ASSUME IInv, NEW w \in Workers, Signal(w),
         NEW i, i = slot[w], NEW d, d = edges[i][pos[w]]
  PROVE  /\ i \in Slots /\ d \in Slots
         /\ st[i] = "done" /\ pos[w] \in owed[i]
         /\ st[d] \in Waiting /\ deps[d] > 0
         /\ st' = st
         /\ deps' = [deps EXCEPT ![d] = @ - 1]
         /\ owed' = [owed EXCEPT ![i] = @ \ {pos[w]}]
         /\ claimed' = [claimed EXCEPT ![w] =
              IF st[d] = "submitted" /\ deps[d] = 1 THEN @ \cup {d} ELSE @]
<1>1. pc[w] = "signal"
  BY DEF Signal
<1>2. /\ i \in Slots /\ d \in Slots /\ st[i] = "done" /\ pos[w] \in owed[i]
      /\ st[d] \in Waiting /\ deps[d] > 0 /\ EdgesAt(i, pos[w]) = {d}
  BY <1>1, SignalReads
<1>3. /\ deps' = [deps EXCEPT ![d] = IF @ > 0 THEN @ - 1 ELSE MaxDeps]
      /\ st' = [st EXCEPT ![d] = IF deps[d] > 0 THEN @ ELSE Below[@]]
      /\ claimed' = [claimed EXCEPT ![w] =
           IF st'[d] = "submitted" /\ deps'[d] = 0 THEN @ \cup {d} ELSE @]
      /\ owed' = [owed EXCEPT ![i] = @ \ {pos[w]}]
  BY <1>2 DEF Signal
<1>4. st \in [Slots -> States] /\ deps \in [Slots -> 0..MaxDeps] /\ MaxDeps \in Nat
  BY GraphAssumption DEF IInv, TypeOK
<1>5. st' = st /\ deps' = [deps EXCEPT ![d] = @ - 1]
  BY <1>2, <1>3, <1>4
<1>6. deps'[d] = 0 <=> deps[d] = 1
  BY <1>2, <1>4, <1>5
<1> QED
  BY <1>2, <1>3, <1>5, <1>6

-----------------------------------------------------------------------------
(* Every step keeps the counters equal to what is owed.                    *)

(* Adding an element to a set that is counted. *)
LEMMA CountMore ==
  ASSUME NEW S, IsFiniteSet(S), NEW e, e \notin S
  PROVE  IsFiniteSet(S \cup {e}) /\ Cardinality(S \cup {e}) = Cardinality(S) + 1
  BY FS_AddElement

(* Taking an element from a set that is counted. *)
LEMMA CountLess ==
  ASSUME NEW S, IsFiniteSet(S), NEW e \in S
  PROVE  IsFiniteSet(S \ {e}) /\ Cardinality(S \ {e}) = Cardinality(S) - 1
  BY FS_RemoveElement

(* No step lets a dependency counter differ from what is owed to the job. *)
LEMMA CountsStep ==
  ASSUME IInv, [Next]_vars
  PROVE  CountsOwed'
<1> SUFFICES ASSUME NEW j \in Slots PROVE Counted(j)'
  BY DEF CountsOwed
<1>0. /\ TypeOK /\ Counted(j) /\ OwedEdges
      /\ st \in [Slots -> States] /\ deps \in [Slots -> 0..MaxDeps]
      /\ edges \in [Slots -> Seq(Slots)] /\ owed \in [Slots -> SUBSET Nat]
      /\ deps[j] \in Nat
  BY GraphAssumption DEF IInv, TypeOK, CountsOwed
<1>a. ASSUME UNCHANGED <<edges, owed>> PROVE Owing(j)' = Owing(j)
  BY <1>a DEF Owing
<1>b. ASSUME NEW s \in Slots, st[s] \notin Waiting, deps' = [deps EXCEPT ![s] = 0],
             UNCHANGED <<edges, owed>>, st' = [st EXCEPT ![s] = st'[s]], st'[s] \notin Waiting
      PROVE  Counted(j)'
  BY <1>0, <1>a, <1>b, FS_EmptySet DEF Counted
<1>c. ASSUME UNCHANGED <<edges, owed, deps>>, st'[j] = st[j] \/ st'[j] \in Waiting
      PROVE  Counted(j)'
  BY <1>0, <1>a, <1>c DEF Counted
<1>1. ASSUME NEW s \in Slots, NEW m \in BOOLEAN, Add(s, m) PROVE Counted(j)'
  <2>1. owed[s] = {}
    <3>1. st[s] = "free"
      BY <1>1 DEF Add
    <3>2. \A w \in Workers : pc[w] \in {"edges", "signal"} => slot[w] # s
      BY <3>1 DEF IInv, WorkerOwns, Owns
    <3> QED
      BY <1>0, <3>1, <3>2 DEF OwedEdges, OwesEdges
  <2>2. Owing(j)' = Owing(j)
    BY <1>0, <1>1, <2>1 DEF Add, Owing
  <2>3. CASE j = s
    BY <1>0, <1>1, <2>2, <2>3, FS_EmptySet DEF Add, Counted, Waiting
  <2>4. CASE j # s
    BY <1>0, <1>1, <2>2, <2>4 DEF Add, Counted
  <2> QED
    BY <2>3, <2>4
<1>2. ASSUME NEW h \in Slots, NEW t \in Slots, Dep(h, t) PROVE Counted(j)'
  <2> DEFINE k == Len(edges[h]) + 1
  <2>1. k \notin owed[h]
    <3>1. owed[h] \subseteq DOMAIN edges[h]
      BY <1>0 DEF OwedEdges, OwesEdges
    <3>2. Len(edges[h]) \in Nat /\ DOMAIN edges[h] = 1..Len(edges[h])
      BY <1>0, EdgesOf
    <3> QED
      BY <3>1, <3>2
  <2>2. /\ \A g \in Slots : \A n \in owed[g] : edges'[g][n] = edges[g][n]
        /\ edges'[h][k] = t
    <3>1. edges' = [edges EXCEPT ![h] = Append(@, t)]
      BY <1>2 DEF Dep
    <3>2. edges[h] \in Seq(Slots) /\ Len(edges[h]) \in Nat
      BY <1>0, EdgesOf
    <3>3. \A n \in owed[h] : n \in 1..Len(edges[h])
      BY <1>0, EdgesOf DEF OwedEdges, OwesEdges
    <3>4. /\ Append(edges[h], t)[Len(edges[h]) + 1] = t
          /\ \A n \in 1..Len(edges[h]) : Append(edges[h], t)[n] = edges[h][n]
      BY <3>2
    <3>5. edges \in [Slots -> Seq(Slots)]
      BY <1>0, EdgesOf
    <3>6. edges'[h] = Append(edges[h], t)
      BY <3>1, <3>5
    <3>7. \A g \in Slots : g # h => edges'[g] = edges[g]
      BY <3>1, <3>5
    <3>8. \A n \in owed[h] : edges'[h][n] = edges[h][n]
      BY <3>3, <3>4, <3>6
    <3>9. edges'[h][k] = t
      BY <3>4, <3>6
    <3> HIDE DEF k
    <3> QED
      BY <3>7, <3>8, <3>9
  <2>3. Owing(j)' = IF j = t THEN Owing(j) \cup {<<h, k>>} ELSE Owing(j)
    <3>1. owed' = [owed EXCEPT ![h] = @ \cup {k}]
      BY <1>2 DEF Dep
    <3> HIDE DEF k
    <3>2. \A g \in Slots : \A n : n \in owed'[g] <=> n \in owed[g] \/ (g = h /\ n = k)
      BY <1>0, <3>1
    <3>3. \A g \in Slots : \A n \in owed'[g] :
            edges'[g][n] = IF g = h /\ n = k THEN t ELSE edges[g][n]
      BY <2>1, <2>2, <3>2
    <3> QED
      BY <2>1, <3>2, <3>3 DEF Owing
  <2>4. <<h, k>> \notin Owing(j)
    BY <2>1 DEF Owing
  <2>5. /\ IsFiniteSet(Owing(j) \cup {<<h, k>>})
        /\ Cardinality(Owing(j) \cup {<<h, k>>}) = Cardinality(Owing(j)) + 1
    BY <1>0, <2>4, CountMore DEF Counted
  <2>6. st' = st /\ st[t] = "clear" /\ deps' = [deps EXCEPT ![t] = @ + 1]
    BY <1>2 DEF Dep
  <2> QED
    BY <1>0, <2>3, <2>5, <2>6 DEF Counted, Waiting
<1>3. ASSUME NEW h \in Slots, NEW k, DepRefresh(h, k) PROVE Counted(j)'
  <2>1. PICK t \in Slots : t = edges[h][k]
    BY <1>0, <1>3, EdgesOf DEF DepRefresh
  <2>2. Owing(j)' = IF j = t THEN Owing(j) \cup {<<h, k>>} ELSE Owing(j)
    <3>1. k \notin owed[h] /\ owed' = [owed EXCEPT ![h] = @ \cup {k}] /\ edges' = edges
      BY <1>3 DEF DepRefresh, graph
    <3> QED
      BY <1>0, <2>1, <3>1 DEF Owing
  <2>3. <<h, k>> \notin Owing(j)
    BY <1>3 DEF Owing, DepRefresh
  <2>4. /\ IsFiniteSet(Owing(j) \cup {<<h, k>>})
        /\ Cardinality(Owing(j) \cup {<<h, k>>}) = Cardinality(Owing(j)) + 1
    BY <1>0, <2>3, CountMore DEF Counted
  <2>5. st' = st /\ st[t] = "clear" /\ deps' = [deps EXCEPT ![t] = @ + 1]
    BY <1>3, <2>1 DEF DepRefresh
  <2> QED
    BY <1>0, <2>2, <2>4, <2>5 DEF Counted, Waiting
<1>4. ASSUME NEW s \in Slots, Submit(s) PROVE Counted(j)'
  BY <1>0, <1>4, <1>c DEF Submit, graph, Waiting
<1>5. CASE EndSubmit
  BY <1>0, <1>5, <1>c DEF EndSubmit, graph, word
<1>6. ASSUME NEW S \in SUBSET Slots, Reset(S) PROVE Counted(j)'
  <2>1. CASE j \in S
    BY <1>0, <1>6, <1>a, <2>1, FS_EmptySet DEF Reset, graph, Waiting, Counted
  <2>2. CASE j \notin S
    BY <1>0, <1>6, <1>a, <2>2 DEF Reset, graph, Counted
  <2> QED
    BY <2>1, <2>2
<1>7. ASSUME NEW s \in Slots, Del(s) PROVE Counted(j)'
  BY <1>0, <1>7, <1>b DEF Del, graph, Waiting
<1>8. ASSUME NEW w \in Workers, NEW s \in Slots, Take(w, s) PROVE Counted(j)'
  <2>1. st[s] = "processing"
    BY <1>8 DEF IInv, ReadyIsClaimed, Take
  <2> QED
    BY <1>0, <1>8, <1>b, <2>1 DEF Take, graph, Waiting
<1>9. ASSUME NEW w \in Workers, Finalize(w) PROVE Counted(j)'
  <2>1. slot[w] \in Slots /\ st[slot[w]] = "executing"
    BY <1>9 DEF IInv, TypeOK, WorkerOwns, Owns, Finalize
  <2> QED
    BY <1>0, <1>9, <1>b, <2>1 DEF Finalize, graph, Waiting
<1>10. ASSUME NEW w \in Workers, ReadEdges(w) PROVE Counted(j)'
  BY <1>0, <1>10, <1>c DEF ReadEdges, graph, word
<1>11. ASSUME NEW w \in Workers, Signal(w) PROVE Counted(j)'
  <2>1. PICK i \in Slots, d \in Slots :
          /\ i = slot[w] /\ d = edges[i][pos[w]] /\ pos[w] \in owed[i]
          /\ st' = st /\ deps' = [deps EXCEPT ![d] = @ - 1]
          /\ owed' = [owed EXCEPT ![i] = @ \ {pos[w]}]
    BY <1>11, SignalStep
  <2>2. Owing(j)' = IF j = d THEN Owing(j) \ {<<i, pos[w]>>} ELSE Owing(j)
    <3>1. edges' = edges
      BY <1>11 DEF Signal, graph
    <3> QED
      BY <1>0, <2>1, <3>1 DEF Owing
  <2>3. j = d => <<i, pos[w]>> \in Owing(j)
    BY <2>1, OwingIs
  <2>4. j = d => /\ IsFiniteSet(Owing(j) \ {<<i, pos[w]>>})
                 /\ Cardinality(Owing(j) \ {<<i, pos[w]>>}) = Cardinality(Owing(j)) - 1
    BY <1>0, <2>3, CountLess DEF Counted
  <2> QED
    BY <1>0, <2>1, <2>2, <2>4 DEF Counted
<1>12. ASSUME NEW w \in Workers, FreeEdges(w) PROVE Counted(j)'
  BY <1>0, <1>12, <1>c DEF FreeEdges, word
<1>13. ASSUME NEW w \in Workers, Finish(w) PROVE Counted(j)'
  <2>1. slot[w] \in Slots /\ (auto[w] => st[slot[w]] = "done")
    BY <1>13 DEF IInv, TypeOK, WorkerOwns, Owns, Finish
  <2>2. CASE auto[w]
    BY <1>0, <1>13, <1>b, <2>1, <2>2 DEF Finish, graph, Waiting
  <2>3. CASE ~auto[w]
    BY <1>0, <1>13, <1>c, <2>1, <2>3 DEF Finish, graph
  <2> QED
    BY <2>2, <2>3
<1>14. ASSUME NEW c \in Contexts, NEW s \in Slots, Process(c, s) PROVE Counted(j)'
  <2>1. st[s] = "submitted" /\ deps[s] = 0
    BY <1>14 DEF IInv, ReadyIsClaimed, Process
  <2>2. s = j => Owing(j) = {}
    BY <1>0, <2>1, FS_EmptySet DEF Counted
  <2> QED
    BY <1>0, <1>14, <1>a, <2>1, <2>2, FS_EmptySet DEF Process, graph, Waiting, Counted
<1>15. ASSUME NEW c \in Contexts, EndProcess(c) PROVE Counted(j)'
  BY <1>0, <1>15, <1>c DEF EndProcess, graph, word
<1>16. CASE UNCHANGED vars
  BY <1>0, <1>16, <1>c DEF vars
<1> QED
  BY <1>1, <1>2, <1>3, <1>4, <1>5, <1>6, <1>7, <1>8, <1>9, <1>10, <1>11, <1>12, <1>13,
     <1>14, <1>15, <1>16
  DEF Next, MainStep, WorkerStep, ProcessStep
-----------------------------------------------------------------------------
(* Every step keeps the edges of a job owed until they are signalled.      *)
LEMMA OwedStep ==
  ASSUME IInv, [Next]_vars
  PROVE  OwedEdges'
<1> SUFFICES ASSUME NEW i \in Slots PROVE OwesEdges(i)'
  BY DEF OwedEdges
<1>0. /\ TypeOK /\ OwesEdges(i) /\ Main \notin Workers
      /\ st \in [Slots -> States] /\ submits \in [Slots -> Nat]
      /\ edges \in [Slots -> Seq(Slots)] /\ owed \in [Slots -> SUBSET Nat]
      /\ pc \in [Contexts -> {"idle", "submitting", "process", "run", "edges",
                              "signal", "free", "finish"}]
      /\ slot \in [Workers -> Slots \cup {None}]
      /\ Contexts = Workers \cup {Main}
  BY GraphAssumption DEF IInv, TypeOK, OwedEdges, Contexts
<1>e. /\ Len(edges[i]) \in Nat /\ DOMAIN edges[i] = 1..Len(edges[i])
      /\ \A k \in DOMAIN edges[i] : edges[i][k] \in Slots
  BY <1>0, EdgesOf
<1> USE DEF OwesEdges, Started
<1>1. ASSUME NEW s \in Slots, NEW m \in BOOLEAN, Add(s, m) PROVE OwesEdges(i)'
  <2>1. CASE i = s
    BY <1>0, <1>1, <2>1 DEF Add
  <2>2. CASE i # s
    BY <1>0, <1>e, <1>1, <2>2 DEF Add, frame
  <2> QED
    BY <2>1, <2>2
<1>2. ASSUME NEW h \in Slots, NEW t \in Slots, Dep(h, t) PROVE OwesEdges(i)'
  <2>1. CASE i = h
    <3>1. /\ DOMAIN edges'[i] = DOMAIN edges[i] \cup {Len(edges[i]) + 1}
          /\ \A k \in DOMAIN edges[i] : edges'[i][k] = edges[i][k]
      BY <1>0, <1>e, <1>2, <2>1 DEF Dep
    <3> QED
      BY <1>0, <1>2, <2>1, <3>1 DEF Dep
  <2>2. CASE i # h
    BY <1>0, <1>e, <1>2, <2>2 DEF Dep, frame, counters
  <2> QED
    BY <2>1, <2>2
<1>3. ASSUME NEW h \in Slots, NEW k, DepRefresh(h, k) PROVE OwesEdges(i)'
  BY <1>0, <1>3 DEF DepRefresh, graph, counters, frame
<1>4. ASSUME NEW s \in Slots, Submit(s) PROVE OwesEdges(i)'
  <2>1. /\ \A v \in Workers : pc'[v] = pc[v] /\ slot'[v] = slot[v]
        /\ edges' = edges /\ owed' = owed
    BY <1>0, <1>4 DEF Submit, graph, frame
  <2>2. CASE i = s
    BY <1>0, <1>4, <2>1, <2>2 DEF Submit
  <2>3. CASE i # s
    BY <1>0, <1>e, <1>4, <2>1, <2>3 DEF Submit
  <2> QED
    BY <2>2, <2>3
<1>5. CASE EndSubmit
  BY <1>0, <1>5 DEF EndSubmit, graph, word, counters, frame
<1>6. ASSUME NEW S \in SUBSET Slots, Reset(S) PROVE OwesEdges(i)'
  BY <1>0, <1>e, <1>6 DEF Reset, graph, counters, frame, Targets
<1>7. ASSUME NEW s \in Slots, Del(s) PROVE OwesEdges(i)'
  BY <1>0, <1>e, <1>7 DEF Del, graph, counters, frame
<1>8. ASSUME NEW w \in Workers, NEW s \in Slots, Take(w, s) PROVE OwesEdges(i)'
  <2>1. st[s] = "processing"
    BY <1>8 DEF IInv, ReadyIsClaimed, Take
  <2>2. \A v \in Workers : pc[v] \in {"edges", "signal"} =>
          pc'[v] = pc[v] /\ slot'[v] = slot[v]
    BY <1>0, <1>8 DEF Take
  <2> QED
    BY <1>0, <1>e, <1>8, <2>1, <2>2 DEF Take, graph, counters
<1>9. ASSUME NEW w \in Workers, Finalize(w) PROVE OwesEdges(i)'
  <2>1. slot[w] \in Slots /\ st[slot[w]] = "executing"
    BY <1>9 DEF IInv, TypeOK, WorkerOwns, Owns, Finalize
  <2>2. /\ \A v \in Workers : pc[v] \in {"edges", "signal"} => pc'[v] = pc[v]
        /\ pc'[w] = "edges" /\ slot' = slot
    BY <1>0, <1>9 DEF Finalize, frame
  <2> QED
    BY <1>0, <1>e, <1>9, <2>1, <2>2 DEF Finalize, graph, counters
<1>10. ASSUME NEW w \in Workers, ReadEdges(w) PROVE OwesEdges(i)'
  <2>1. slot[w] \in Slots
    BY <1>10 DEF IInv, TypeOK, ReadEdges
  <2>2. i = slot[w] /\ owed[i] # {} => pc'[w] = "signal"
    BY <1>0, <1>e, <1>10, <2>1 DEF ReadEdges
  <2>3. /\ \A v \in Workers \ {w} : pc'[v] = pc[v]
        /\ slot' = slot
    BY <1>0, <1>10 DEF ReadEdges
  <2> QED
    BY <1>0, <1>10, <2>2, <2>3 DEF ReadEdges, graph, counters, word
<1>11. ASSUME NEW w \in Workers, Signal(w) PROVE OwesEdges(i)'
  <2>1. /\ slot[w] \in Slots /\ st[slot[w]] = "done" /\ st' = st
        /\ owed' = [owed EXCEPT ![slot[w]] = @ \ {pos[w]}]
    BY <1>11, SignalStep
  <2>2. i = slot[w] /\ owed'[i] # {} => pc'[w] = "signal"
    <3>1. /\ max[w] \in Nat /\ pos[w] \in 1..max[w] /\ owed[slot[w]] = pos[w]..max[w]
      BY <1>11 DEF IInv, TypeOK, WorkerOwns, Owns, Signal
    <3> QED
      BY <1>0, <1>11, <2>1, <3>1 DEF Signal
  <2>3. /\ \A v \in Workers \ {w} : pc'[v] = pc[v]
        /\ slot' = slot /\ edges' = edges /\ submits' = submits
    BY <1>0, <1>11 DEF Signal, graph, counters
  <2> QED
    BY <1>0, <2>1, <2>2, <2>3
<1>12. ASSUME NEW w \in Workers, FreeEdges(w) PROVE OwesEdges(i)'
  BY <1>0, <1>12 DEF FreeEdges, word, counters, frame
<1>13. ASSUME NEW w \in Workers, Finish(w) PROVE OwesEdges(i)'
  <2>1. slot[w] \in Slots /\ (auto[w] => st[slot[w]] = "done")
    BY <1>13 DEF IInv, TypeOK, WorkerOwns, Owns, Finish
  <2>2. \A v \in Workers : pc[v] \in {"edges", "signal"} =>
          pc'[v] = pc[v] /\ slot'[v] = slot[v]
    BY <1>0, <1>13 DEF Finish
  <2>3. /\ st' = [st EXCEPT ![slot[w]] = IF auto[w] THEN "free" ELSE @]
        /\ edges' = edges /\ owed' = owed /\ submits' = submits
    BY <1>13 DEF Finish, graph, counters
  <2>4. \A k \in Slots : st[k] = "clear" => st'[k] = "clear"
    BY <1>0, <2>1, <2>3
  <2>5. st'[i] = st[i] \/ (st[i] = "done" /\ st'[i] = "free")
    BY <1>0, <2>1, <2>3
  <2>6. /\ owed'[i] \subseteq DOMAIN edges'[i]
        /\ st'[i] \in Started => owed'[i] = DOMAIN edges'[i] /\ submits'[i] > 0
    BY <1>0, <2>3, <2>5
  <2>7. st'[i] \in {"done", "free"} /\ owed'[i] # {} =>
          \E v \in Workers : pc'[v] \in {"edges", "signal"} /\ slot'[v] = i
    <3>1. SUFFICES ASSUME st'[i] \in {"done", "free"}, owed[i] # {}
                   PROVE  \E v \in Workers : pc'[v] \in {"edges", "signal"} /\ slot'[v] = i
      BY <2>3
    <3>2. st[i] \in {"done", "free"}
      BY <2>5, <3>1
    <3>3. PICK v \in Workers : pc[v] \in {"edges", "signal"} /\ slot[v] = i
      BY <1>0, <3>1, <3>2
    <3> QED
      BY <2>2, <3>3
  <2>8. st'[i] = "clear" => \A k \in DOMAIN edges'[i] \ owed'[i] : st'[edges'[i][k]] = "clear"
    BY <1>0, <1>e, <2>3, <2>4, <2>5
  <2> QED
    BY <2>6, <2>7, <2>8
<1>14. ASSUME NEW c \in Contexts, NEW s \in Slots, Process(c, s) PROVE OwesEdges(i)'
  <2>1. st[s] = "submitted"
    BY <1>14 DEF IInv, ReadyIsClaimed, Process
  <2> QED
    BY <1>0, <1>e, <1>14, <2>1 DEF Process, graph, counters, frame
<1>15. ASSUME NEW c \in Contexts, EndProcess(c) PROVE OwesEdges(i)'
  BY <1>0, <1>15 DEF EndProcess, word, graph, counters, frame
<1>16. CASE UNCHANGED vars
  BY <1>0, <1>16 DEF vars
<1> HIDE DEF OwesEdges, Started
<1> QED
  BY <1>1, <1>2, <1>3, <1>4, <1>5, <1>6, <1>7, <1>8, <1>9, <1>10, <1>11, <1>12, <1>13,
     <1>14, <1>15, <1>16
  DEF Next, MainStep, WorkerStep, ProcessStep
-----------------------------------------------------------------------------
(* Every step keeps what a worker relies on.  This is where the program    *)
(* must be careful: del() of a job a worker has not left would break it.   *)

(* A job with an edge that is still owed is not reset: its dependent has   *)
(* not run.                                                                *)
LEMMA ResetUnowed ==
  ASSUME IInv, NEW S \in SUBSET Slots, Reset(S), NEW i \in S
  PROVE  owed[i] = {} /\ manual[i] /\ st[i] = "done"
<1>1. i \in Slots /\ st[i] = "done" /\ manual[i] /\ Targets(i) \subseteq S
  BY DEF Reset
<1>2. SUFFICES ASSUME NEW k \in owed[i] PROVE FALSE
  BY <1>1
<1>3. k \in DOMAIN edges[i] /\ st[edges[i][k]] \in Waiting
  BY <1>1, <1>2, OwedTarget DEF IInv
<1>4. st[edges[i][k]] = "done"
  BY <1>1, <1>3 DEF Reset, Targets
<1> QED
  BY <1>3, <1>4 DEF Waiting

(* A worker keeps what it owns while it runs, signals and frees a job. *)
LEMMA OwnsStep ==
  ASSUME IInv, CarefulProgram, [Next]_vars
  PROVE  WorkerOwns'
<1> SUFFICES ASSUME NEW u \in Workers PROVE Owns(u)'
  BY DEF WorkerOwns
<1>0. /\ TypeOK /\ Owns(u) /\ Main \notin Workers /\ ~EagerDelete
      /\ st \in [Slots -> States] /\ submits \in [Slots -> Nat]
      /\ manual \in [Slots -> BOOLEAN] /\ auto \in [Workers -> BOOLEAN]
      /\ edges \in [Slots -> Seq(Slots)] /\ owed \in [Slots -> SUBSET Nat]
      /\ pc \in [Contexts -> {"idle", "submitting", "process", "run", "edges",
                              "signal", "free", "finish"}]
      /\ slot \in [Workers -> Slots \cup {None}]
      /\ max \in [Workers -> Nat] /\ pos \in [Workers -> Nat]
      /\ Contexts = Workers \cup {Main}
      /\ pc[u] # "idle" => slot[u] \in Slots
  BY GraphAssumption DEF IInv, TypeOK, WorkerOwns, Contexts, CarefulProgram
<1>e. \A i \in Slots : Len(edges[i]) \in Nat /\ DOMAIN edges[i] = 1..Len(edges[i])
  BY <1>0, EdgesOf
<1> USE DEF Owns
<1>a. ASSUME NEW s \in Slots, UNCHANGED <<manual, edges, submits, owed, frame>>,
             pc'[u] = pc[u], st' = [st EXCEPT ![s] = st'[s]], st'[s] # "free",
             st[s] \notin {"executing", "done"}
      PROVE  Owns(u)'
  BY <1>0, <1>a DEF frame
<1>b. ASSUME UNCHANGED <<manual, edges, submits, owed, st, slot, auto>>,
             pc'[u] = pc[u], max'[u] = max[u], pos'[u] = pos[u]
      PROVE  Owns(u)'
  BY <1>0, <1>b
<1>1. ASSUME NEW s \in Slots, NEW m \in BOOLEAN, Add(s, m) PROVE Owns(u)'
  <2>1. /\ st[s] = "free" /\ st' = [st EXCEPT ![s] = "clear"]
        /\ manual' = [manual EXCEPT ![s] = m] /\ edges' = [edges EXCEPT ![s] = <<>>]
        /\ submits' = [submits EXCEPT ![s] = 0] /\ owed' = [owed EXCEPT ![s] = {}]
        /\ pc' = pc /\ slot' = slot /\ auto' = auto /\ max' = max /\ pos' = pos
    BY <1>1 DEF Add, frame
  <2>2. pc[u] # "idle" => slot[u] # s
    BY <1>0, <2>1
  <2>3. pc[u] # "idle" =>
          /\ st'[slot[u]] = st[slot[u]] /\ manual'[slot[u]] = manual[slot[u]]
          /\ edges'[slot[u]] = edges[slot[u]] /\ submits'[slot[u]] = submits[slot[u]]
          /\ owed'[slot[u]] = owed[slot[u]]
    BY <1>0, <2>1, <2>2
  <2> QED
    BY <1>0, <2>1, <2>3
<1>2. ASSUME NEW h \in Slots, NEW t \in Slots, Dep(h, t) PROVE Owns(u)'
  BY <1>0, <1>2 DEF Dep, frame, counters
<1>3. ASSUME NEW h \in Slots, NEW k, DepRefresh(h, k) PROVE Owns(u)'
  <2>1. /\ k \in DOMAIN edges[h] /\ k \notin owed[h] /\ st[h] = "clear"
        /\ owed' = [owed EXCEPT ![h] = @ \cup {k}]
        /\ st' = st /\ manual' = manual /\ edges' = edges /\ submits' = submits
        /\ pc' = pc /\ slot' = slot /\ auto' = auto /\ max' = max /\ pos' = pos
    BY <1>3 DEF DepRefresh, graph, counters, frame
  <2>2. pc[u] = "edges" => slot[u] # h
    BY <1>0, <2>1
  <2>3. pc[u] = "signal" => slot[u] # h
    <3>1. edges[h] # <<>>
      BY <1>0, <2>1
    <3> QED
      BY <1>0, <2>1, <3>1
  <2>4. pc[u] \in {"edges", "signal"} => owed'[slot[u]] = owed[slot[u]]
    BY <1>0, <2>1, <2>2, <2>3
  <2> QED
    BY <1>0, <2>1, <2>4
<1>4. ASSUME NEW s \in Slots, Submit(s) PROVE Owns(u)'
  BY <1>0, <1>4 DEF Submit, graph, frame
<1>5. CASE EndSubmit
  BY <1>0, <1>5, <1>b DEF EndSubmit, graph, word, counters, frame
<1>6. ASSUME NEW S \in SUBSET Slots, Reset(S) PROVE Owns(u)'
  <2>1. \A i \in S : owed[i] = {} /\ manual[i] /\ st[i] = "done"
    BY <1>6, ResetUnowed
  <2>2. /\ st' = [i \in Slots |-> IF i \in S THEN "clear" ELSE st[i]]
        /\ UNCHANGED <<manual, edges, submits, owed, pc, slot, auto, max, pos>>
    BY <1>6 DEF Reset, graph, counters, frame
  <2>3. CASE pc[u] # "idle" /\ slot[u] \in S
    <3> DEFINE i == slot[u]
    <3>0. i \in Slots /\ owed[i] = {} /\ manual[i] /\ st[i] = "done"
      BY <2>1, <2>3
    <3>1. /\ pc[u] # "run" /\ ~auto[u]
          /\ pc[u] # "signal"
      <4>1. pc[u] = "signal" => pos[u] \in 1..max[u] /\ pos[u]..max[u] = {}
        BY <1>0, <3>0
      <4> QED
        BY <1>0, <2>3, <3>0, <4>1
    <3>2. pc[u] = "edges" => edges[i] = <<>>
      <4>1. pc[u] = "edges" => 1..Len(edges[i]) = {}
        BY <1>0, <1>e, <3>0
      <4>2. Len(edges[i]) > 0 => 1 \in 1..Len(edges[i])
        BY <1>e, <3>0
      <4>3. Len(edges[i]) \in Nat /\ edges[i] \in Seq(Slots)
        BY <1>0, <1>e, <3>0
      <4>4. pc[u] = "edges" => Len(edges[i]) = 0
        BY <4>1, <4>2, <4>3
      <4> HIDE DEF i
      <4> QED
        BY <4>3, <4>4, EmptySeq
    <3> QED
      BY <1>0, <2>2, <2>3, <3>0, <3>1, <3>2
  <2>4. CASE pc[u] = "idle" \/ slot[u] \notin S
    BY <1>0, <2>2, <2>4
  <2> QED
    BY <2>3, <2>4
<1>7. ASSUME NEW s \in Slots, Del(s) PROVE Owns(u)'
  BY <1>0, <1>7 DEF Del, graph, counters, frame
<1>8. ASSUME NEW w \in Workers, NEW s \in Slots, Take(w, s) PROVE Owns(u)'
  <2>1. st[s] = "processing"
    BY <1>8 DEF IInv, ReadyIsClaimed, Take
  <2>2. submits[s] > 0
    BY <2>1 DEF IInv, OwedEdges, OwesEdges, Started
  <2>3. CASE u = w
    BY <1>0, <1>8, <2>1, <2>2, <2>3 DEF Take, graph, counters
  <2>4. CASE u # w
    BY <1>0, <1>8, <2>1, <2>4 DEF Take, graph, counters
  <2> QED
    BY <2>3, <2>4
<1>9. ASSUME NEW w \in Workers, Finalize(w) PROVE Owns(u)'
  <2>1. slot[w] \in Slots /\ st[slot[w]] = "executing"
    BY <1>9 DEF IInv, TypeOK, WorkerOwns, Owns, Finalize
  <2>2. owed[slot[w]] = DOMAIN edges[slot[w]]
    BY <2>1 DEF IInv, OwedEdges, OwesEdges, Started
  <2>3. CASE u = w
    BY <1>0, <1>9, <2>1, <2>2, <2>3 DEF Finalize, graph, counters, frame
  <2>4. CASE u # w
    <3>1. pc[u] = "run" => slot[u] # slot[w]
      BY <1>9, <2>4 DEF IInv, OneWorker, Exclusive, Finalize
    <3> QED
      BY <1>0, <1>9, <2>1, <2>4, <3>1 DEF Finalize, graph, counters, frame
  <2> QED
    BY <2>3, <2>4
<1>10. ASSUME NEW w \in Workers, ReadEdges(w) PROVE Owns(u)'
  <2>1. CASE u = w
    <3>1. edges[slot[w]] # <<>> => Len(edges[slot[w]]) > 0
      BY <1>0, <1>10, <2>1, EmptySeq DEF ReadEdges
    <3> QED
      BY <1>0, <1>e, <1>10, <2>1, <3>1 DEF ReadEdges, graph, counters, word
  <2>2. CASE u # w
    BY <1>0, <1>10, <1>b, <2>2 DEF ReadEdges, graph, counters, word
  <2> QED
    BY <2>1, <2>2
<1>11. ASSUME NEW w \in Workers, Signal(w) PROVE Owns(u)'
  <2>1. /\ slot[w] \in Slots /\ st[slot[w]] = "done" /\ st' = st
        /\ owed' = [owed EXCEPT ![slot[w]] = @ \ {pos[w]}]
        /\ pos[w] \in owed[slot[w]]
    BY <1>11, SignalStep
  <2>2. CASE u = w
    <3>1. /\ pc[w] = "signal" /\ pos' = [pos EXCEPT ![w] = @ + 1]
          /\ pc' = [pc EXCEPT ![w] = IF pos[w] = max[w] THEN "process" ELSE "signal"]
          /\ slot' = slot /\ auto' = auto /\ max' = max
          /\ manual' = manual /\ edges' = edges /\ submits' = submits
      BY <1>11 DEF Signal, graph, counters
    <3>2. /\ max[w] = Len(edges[slot[w]]) /\ pos[w] \in 1..max[w]
          /\ owed[slot[w]] = pos[w]..max[w] /\ max[w] \in Nat
      BY <1>0, <2>2, <3>1
    <3>3. pos[w] # max[w] => pos[w] + 1 \in 1..max[w]
      BY <3>2
    <3>4. (pos[w]..max[w]) \ {pos[w]} = pos[w] + 1 .. max[w]
      BY <3>2
    <3>5. owed'[slot[w]] = pos[w] + 1 .. max[w]
      BY <1>0, <2>1, <3>2, <3>4
    <3>6. pos'[w] = pos[w] + 1 /\ pc'[w] = IF pos[w] = max[w] THEN "process" ELSE "signal"
      BY <1>0, <3>1
    <3> QED
      BY <1>0, <2>1, <2>2, <3>1, <3>2, <3>3, <3>5, <3>6
  <2>3. CASE u # w
    <3>1. edges[slot[w]] # <<>>
      BY <1>e, <2>1 DEF IInv, OwedEdges, OwesEdges
    <3>2. pc[u] \in {"edges", "signal"} => slot[u] # slot[w]
      BY <1>11, <2>3, <3>1 DEF IInv, OneWorker, Exclusive, Signal
    <3> QED
      BY <1>0, <1>11, <2>1, <2>3, <3>2 DEF Signal, graph, counters
  <2> QED
    BY <2>2, <2>3
<1>12. ASSUME NEW w \in Workers, FreeEdges(w) PROVE Owns(u)'
  BY <1>0, <1>12 DEF FreeEdges, word, counters, frame
<1>13. ASSUME NEW w \in Workers, Finish(w) PROVE Owns(u)'
  <2>1. slot[w] \in Slots
    BY <1>13 DEF IInv, TypeOK, Finish
  <2>2. CASE u = w
    BY <1>0, <1>13, <2>2 DEF Finish
  <2>3. CASE u # w
    <3>1. pc[u] # "idle" /\ auto[w] => slot[u] # slot[w]
      BY <1>13, <2>3 DEF IInv, WorkerOwns, OneWorker, Exclusive, Finish
    <3> QED
      BY <1>0, <1>13, <2>1, <2>3, <3>1 DEF Finish, graph, counters
  <2> QED
    BY <2>2, <2>3
<1>14. ASSUME NEW c \in Contexts, NEW s \in Slots, Process(c, s) PROVE Owns(u)'
  <2>1. st[s] = "submitted"
    BY <1>14 DEF IInv, ReadyIsClaimed, Process
  <2> QED
    BY <1>0, <1>14, <1>a, <2>1 DEF Process, graph, counters
<1>15. ASSUME NEW c \in Contexts, EndProcess(c) PROVE Owns(u)'
  BY <1>0, <1>15 DEF EndProcess, word, graph, counters, frame
<1>16. CASE UNCHANGED vars
  BY <1>0, <1>16 DEF vars
<1> HIDE DEF Owns
<1> QED
  BY <1>1, <1>2, <1>3, <1>4, <1>5, <1>6, <1>7, <1>8, <1>9, <1>10, <1>11, <1>12, <1>13,
     <1>14, <1>15, <1>16
  DEF Next, MainStep, WorkerStep, ProcessStep
-----------------------------------------------------------------------------
(* Every step keeps a job in the hands of one worker.                      *)
LEMMA OneWorkerStep ==
  ASSUME IInv, [Next]_vars
  PROVE  OneWorker'
<1> SUFFICES ASSUME NEW u \in Workers, NEW v \in Workers,
                    pc'[u] # "idle", pc'[v] # "idle", slot'[u] = slot'[v],
                    Exclusive(u)', Exclusive(v)'
             PROVE  u = v
  BY DEF OneWorker
<1>0. /\ OneWorker /\ WorkerOwns /\ Main \notin Workers
      /\ st \in [Slots -> States]
      /\ manual \in [Slots -> BOOLEAN] /\ auto \in [Workers -> BOOLEAN]
      /\ edges \in [Slots -> Seq(Slots)]
      /\ pc \in [Contexts -> {"idle", "submitting", "process", "run", "edges",
                              "signal", "free", "finish"}]
      /\ slot \in [Workers -> Slots \cup {None}]
      /\ Contexts = Workers \cup {Main}
      /\ \A w \in Workers : pc[w] # "idle" => slot[w] \in Slots
  BY GraphAssumption DEF IInv, TypeOK, Contexts
<1> USE DEF OneWorker, Exclusive
<1>a. ASSUME UNCHANGED <<edges, slot, auto>>,
             \A w \in Workers : pc'[w] = pc[w]
      PROVE  u = v
  BY <1>0, <1>a
<1>1. ASSUME NEW s \in Slots, NEW m \in BOOLEAN, Add(s, m) PROVE u = v
  <2>1. \A w \in Workers : pc[w] # "idle" => slot[w] # s
    BY <1>0, <1>1 DEF WorkerOwns, Owns, Add
  <2> QED
    BY <1>0, <1>1, <2>1 DEF Add, frame
<1>2. ASSUME NEW h \in Slots, NEW t \in Slots, Dep(h, t) PROVE u = v
  <2>1. \A w \in Workers : pc[w] # "idle" => slot[w] # h
    BY <1>0, <1>2 DEF WorkerOwns, Owns, Dep
  <2> QED
    BY <1>0, <1>2, <2>1 DEF Dep, frame
<1>3. ASSUME NEW h \in Slots, NEW k, DepRefresh(h, k) PROVE u = v
  BY <1>3, <1>a DEF DepRefresh, graph, frame
<1>4. ASSUME NEW s \in Slots, Submit(s) PROVE u = v
  BY <1>0, <1>4, <1>a DEF Submit, graph, frame
<1>5. CASE EndSubmit
  BY <1>0, <1>5, <1>a DEF EndSubmit, graph, frame
<1>6. ASSUME NEW S \in SUBSET Slots, Reset(S) PROVE u = v
  BY <1>6, <1>a DEF Reset, graph, frame
<1>7. ASSUME NEW s \in Slots, Del(s) PROVE u = v
  BY <1>7, <1>a DEF Del, graph, frame
<1>8. ASSUME NEW w \in Workers, NEW s \in Slots, Take(w, s) PROVE u = v
  <2>1. st[s] = "processing"
    BY <1>8 DEF IInv, ReadyIsClaimed, Take
  <2>2. \A x \in Workers : pc[x] # "idle" /\ slot[x] = s => ~Exclusive(x)
    BY <1>0, <2>1 DEF WorkerOwns, Owns
  <2>3. \A x \in Workers \ {w} :
          pc'[x] = pc[x] /\ slot'[x] = slot[x] /\ auto'[x] = auto[x] /\ edges' = edges
    BY <1>0, <1>8 DEF Take, graph
  <2>4. slot'[w] = s
    BY <1>0, <1>8 DEF Take
  <2> QED
    BY <1>0, <2>2, <2>3, <2>4
<1>9. ASSUME NEW w \in Workers, Finalize(w) PROVE u = v
  <2>1. \A x \in Workers : x # w /\ pc[x] # "idle" /\ slot[x] = slot[w] => ~Exclusive(x)
    BY <1>0, <1>9 DEF Finalize
  <2> QED
    BY <1>0, <1>9, <2>1 DEF Finalize, graph, frame
<1>10. ASSUME NEW w \in Workers, ReadEdges(w) PROVE u = v
  BY <1>0, <1>10 DEF ReadEdges, graph
<1>11. ASSUME NEW w \in Workers, Signal(w) PROVE u = v
  BY <1>0, <1>11 DEF Signal, graph
<1>12. ASSUME NEW w \in Workers, FreeEdges(w) PROVE u = v
  BY <1>0, <1>12 DEF FreeEdges, frame
<1>13. ASSUME NEW w \in Workers, Finish(w) PROVE u = v
  BY <1>0, <1>13 DEF Finish, graph
<1>14. ASSUME NEW c \in Contexts, NEW s \in Slots, Process(c, s) PROVE u = v
  BY <1>14, <1>a DEF Process, graph, frame
<1>15. ASSUME NEW c \in Contexts, EndProcess(c) PROVE u = v
  BY <1>0, <1>15 DEF EndProcess, graph, frame
<1>16. CASE UNCHANGED vars
  BY <1>16, <1>a DEF vars
<1> HIDE DEF OneWorker, Exclusive
<1> QED
  BY <1>1, <1>2, <1>3, <1>4, <1>5, <1>6, <1>7, <1>8, <1>9, <1>10, <1>11, <1>12, <1>13,
     <1>14, <1>15, <1>16
  DEF Next, MainStep, WorkerStep, ProcessStep
-----------------------------------------------------------------------------
(* Every step keeps the edges of a job stored until they were walked.      *)
LEMMA StoredStep ==
  ASSUME IInv, CarefulProgram, [Next]_vars, NEW i \in Slots
  PROVE  Stored(i)'
<1>0. /\ Stored(i) /\ ManualFanout <= 1 /\ ManualFanout \in Nat
      /\ st \in [Slots -> States]
      /\ manual \in [Slots -> BOOLEAN]
      /\ edges \in [Slots -> Seq(Slots)]
      /\ edgeMem \in [Slots -> {"inline", "live", "freed"}]
      /\ Len(edges[i]) \in Nat
  BY GraphAssumption, EdgesOf DEF IInv, TypeOK, EdgeStorage, CarefulProgram
<1> USE DEF Stored, Started
<1>a. ASSUME UNCHANGED <<manual, edges, edgeMem>>,
             st'[i] \in Started \cup {"clear"} => st[i] \in Started \cup {"clear"}
      PROVE  Stored(i)'
  BY <1>0, <1>a
<1>1. ASSUME NEW s \in Slots, NEW m \in BOOLEAN, Add(s, m) PROVE Stored(i)'
  <2>1. CASE i = s
    BY <1>0, <1>1, <2>1 DEF Add
  <2>2. CASE i # s
    BY <1>0, <1>1, <2>2 DEF Add
  <2> QED
    BY <2>1, <2>2
<1>2. ASSUME NEW h \in Slots, NEW t \in Slots, Dep(h, t) PROVE Stored(i)'
  <2>1. CASE i = h
    <3>1. Len(edges'[i]) = Len(edges[i]) + 1 /\ (edges[i] = <<>> <=> Len(edges[i]) = 0)
      BY <1>0, <1>2, <2>1, EmptySeq DEF Dep
    <3>2. manual[i] => Len(edges[i]) = 0
      BY <1>0, <1>2, <2>1 DEF Dep
    <3> QED
      BY <1>0, <1>2, <2>1, <3>1, <3>2 DEF Dep
  <2>2. CASE i # h
    BY <1>0, <1>2, <2>2 DEF Dep
  <2> QED
    BY <2>1, <2>2
<1>3. ASSUME NEW h \in Slots, NEW k, DepRefresh(h, k) PROVE Stored(i)'
  BY <1>3, <1>a DEF DepRefresh, graph
<1>4. ASSUME NEW s \in Slots, Submit(s) PROVE Stored(i)'
  BY <1>0, <1>4, <1>a DEF Submit, graph
<1>5. CASE EndSubmit
  BY <1>5, <1>a DEF EndSubmit, graph, word
<1>6. ASSUME NEW S \in SUBSET Slots, Reset(S) PROVE Stored(i)'
  BY <1>0, <1>6 DEF Reset, graph
<1>7. ASSUME NEW s \in Slots, Del(s) PROVE Stored(i)'
  BY <1>0, <1>7, <1>a DEF Del, graph
<1>8. ASSUME NEW w \in Workers, NEW s \in Slots, Take(w, s) PROVE Stored(i)'
  <2>1. st[s] = "processing"
    BY <1>8 DEF IInv, ReadyIsClaimed, Take
  <2> QED
    BY <1>0, <1>8, <1>a, <2>1 DEF Take, graph
<1>9. ASSUME NEW w \in Workers, Finalize(w) PROVE Stored(i)'
  BY <1>0, <1>9, <1>a DEF Finalize, graph
<1>10. ASSUME NEW w \in Workers, ReadEdges(w) PROVE Stored(i)'
  BY <1>10, <1>a DEF ReadEdges, graph, word
<1>11. ASSUME NEW w \in Workers, Signal(w) PROVE Stored(i)'
  <2>1. st' = st
    BY <1>11, SignalStep
  <2> QED
    BY <1>11, <1>a, <2>1 DEF Signal, graph
<1>12. ASSUME NEW w \in Workers, FreeEdges(w) PROVE Stored(i)'
  <2>1. /\ slot[w] \in Slots /\ auto[w] = ~manual[slot[w]]
        /\ auto[w] => st[slot[w]] = "done"
    BY <1>12 DEF IInv, TypeOK, WorkerOwns, Owns, FreeEdges
  <2>2. CASE i = slot[w] /\ Len(edges[i]) > 1
    <3>1. auto[w]
      BY <1>0, <2>1, <2>2
    <3>2. st[i] = "done"
      BY <2>1, <2>2, <3>1
    <3> QED
      BY <1>0, <1>12, <2>2, <3>2 DEF FreeEdges, word
  <2>3. CASE i # slot[w] \/ Len(edges[i]) <= 1
    BY <1>0, <1>12, <2>1, <2>3 DEF FreeEdges, word
  <2> QED
    BY <1>0, <2>2, <2>3
<1>13. ASSUME NEW w \in Workers, Finish(w) PROVE Stored(i)'
  BY <1>0, <1>13, <1>a DEF Finish, graph
<1>14. ASSUME NEW c \in Contexts, NEW s \in Slots, Process(c, s) PROVE Stored(i)'
  <2>1. st[s] = "submitted"
    BY <1>14 DEF IInv, ReadyIsClaimed, Process
  <2> QED
    BY <1>0, <1>14, <1>a, <2>1 DEF Process, graph
<1>15. ASSUME NEW c \in Contexts, EndProcess(c) PROVE Stored(i)'
  BY <1>15, <1>a DEF EndProcess, word, graph
<1>16. CASE UNCHANGED vars
  BY <1>16, <1>a DEF vars
<1> HIDE DEF Stored, Started
<1> QED
  BY <1>1, <1>2, <1>3, <1>4, <1>5, <1>6, <1>7, <1>8, <1>9, <1>10, <1>11, <1>12, <1>13,
     <1>14, <1>15, <1>16
  DEF Next, MainStep, WorkerStep, ProcessStep

(* The edges a worker walks are not freed under it. *)
LEMMA LiveStep ==
  ASSUME IInv, CarefulProgram, [Next]_vars
  PROVE  EdgesLive'
<1> DEFINE Walks(u) == pc[u] \in {"edges", "signal", "process", "free"}
<1> SUFFICES ASSUME NEW u \in Workers, Walks(u)', (Len(edges[slot[u]]) > 1)'
             PROVE  edgeMem'[slot'[u]] = "live"
  BY DEF EdgesLive
<1>0. /\ \A w \in Workers : Walks(w) /\ Len(edges[slot[w]]) > 1 => edgeMem[slot[w]] = "live"
      /\ WorkerOwns /\ Main \notin Workers /\ \A i \in Slots : Stored(i)
      /\ edges \in [Slots -> Seq(Slots)]
      /\ edgeMem \in [Slots -> {"inline", "live", "freed"}]
      /\ pc \in [Contexts -> {"idle", "submitting", "process", "run", "edges",
                              "signal", "free", "finish"}]
      /\ slot \in [Workers -> Slots \cup {None}]
      /\ Contexts = Workers \cup {Main}
      /\ \A w \in Workers : pc[w] # "idle" => slot[w] \in Slots
  BY GraphAssumption DEF IInv, TypeOK, EdgeStorage, EdgesLive, Contexts
<1>a. ASSUME UNCHANGED <<edges, edgeMem, slot>>, Walks(u)
      PROVE  edgeMem'[slot'[u]] = "live"
  BY <1>0, <1>a
<1>1. ASSUME NEW s \in Slots, NEW m \in BOOLEAN, Add(s, m)
      PROVE edgeMem'[slot'[u]] = "live"
  <2>1. slot[u] # s
    BY <1>0, <1>1 DEF WorkerOwns, Owns, Add
  <2> QED
    BY <1>0, <1>1, <2>1 DEF Add, frame
<1>2. ASSUME NEW h \in Slots, NEW t \in Slots, Dep(h, t)
      PROVE edgeMem'[slot'[u]] = "live"
  <2>1. pc[u] # "idle" /\ submits[h] = 0
    BY <1>0, <1>2 DEF Dep, frame
  <2>2. slot[u] # h
    BY <1>0, <2>1 DEF WorkerOwns, Owns
  <2> QED
    BY <1>0, <1>2, <2>2 DEF Dep, frame
<1>3. ASSUME NEW h \in Slots, NEW k, DepRefresh(h, k)
      PROVE edgeMem'[slot'[u]] = "live"
  BY <1>3, <1>a DEF DepRefresh, graph, frame
<1>4. ASSUME NEW s \in Slots, Submit(s) PROVE edgeMem'[slot'[u]] = "live"
  BY <1>0, <1>4, <1>a DEF Submit, graph, frame
<1>5. CASE EndSubmit
  BY <1>0, <1>5, <1>a DEF EndSubmit, graph, frame
<1>6. ASSUME NEW S \in SUBSET Slots, Reset(S) PROVE edgeMem'[slot'[u]] = "live"
  BY <1>6, <1>a DEF Reset, graph, frame
<1>7. ASSUME NEW s \in Slots, Del(s) PROVE edgeMem'[slot'[u]] = "live"
  BY <1>7, <1>a DEF Del, graph, frame
<1>8. ASSUME NEW w \in Workers, NEW s \in Slots, Take(w, s)
      PROVE edgeMem'[slot'[u]] = "live"
  BY <1>0, <1>8 DEF Take, graph
<1>9. ASSUME NEW w \in Workers, Finalize(w) PROVE edgeMem'[slot'[u]] = "live"
  <2>1. st[slot[w]] = "executing"
    BY <1>0, <1>9 DEF WorkerOwns, Owns, Finalize
  <2>2. CASE u = w
    BY <1>0, <1>9, <2>1, <2>2 DEF Finalize, graph, frame, Stored, Started
  <2>3. CASE u # w
    BY <1>0, <1>9, <1>a, <2>3 DEF Finalize, graph, frame
  <2> QED
    BY <2>2, <2>3
<1>10. ASSUME NEW w \in Workers, ReadEdges(w) PROVE edgeMem'[slot'[u]] = "live"
  BY <1>0, <1>10, <1>a DEF ReadEdges, graph
<1>11. ASSUME NEW w \in Workers, Signal(w) PROVE edgeMem'[slot'[u]] = "live"
  BY <1>0, <1>11, <1>a DEF Signal, graph
<1>12. ASSUME NEW w \in Workers, FreeEdges(w) PROVE edgeMem'[slot'[u]] = "live"
  <2>1. u # w /\ Walks(u) /\ slot'[u] = slot[u] /\ Len(edges[slot[u]]) > 1
    BY <1>0, <1>12 DEF FreeEdges, frame
  <2>2. auto[u] /\ (slot[w] = slot[u] => auto[w])
    BY <1>0, <1>12, <2>1 DEF WorkerOwns, Owns, Stored, FreeEdges
  <2>3. slot[w] # slot[u]
    BY <1>12, <2>1, <2>2 DEF IInv, OneWorker, Exclusive, FreeEdges
  <2> QED
    BY <1>0, <1>12, <2>1, <2>3 DEF FreeEdges
<1>13. ASSUME NEW w \in Workers, Finish(w) PROVE edgeMem'[slot'[u]] = "live"
  BY <1>0, <1>13 DEF Finish, graph
<1>14. ASSUME NEW c \in Contexts, NEW s \in Slots, Process(c, s)
       PROVE edgeMem'[slot'[u]] = "live"
  BY <1>14, <1>a DEF Process, graph, frame
<1>15. ASSUME NEW c \in Contexts, EndProcess(c) PROVE edgeMem'[slot'[u]] = "live"
  BY <1>0, <1>15, <1>a DEF EndProcess, graph, frame
<1>16. CASE UNCHANGED vars
  BY <1>16, <1>a DEF vars
<1> HIDE DEF Walks
<1> QED
  BY <1>1, <1>2, <1>3, <1>4, <1>5, <1>6, <1>7, <1>8, <1>9, <1>10, <1>11, <1>12, <1>13,
     <1>14, <1>15, <1>16
  DEF Next, MainStep, WorkerStep, ProcessStep
-----------------------------------------------------------------------------
(* Every step keeps a ready job with exactly one context.                  *)
LEMMA ReadyStep ==
  ASSUME IInv, [Next]_vars
  PROVE  ReadyIsClaimed'
<1> DEFINE Ready(s) == st[s] = "submitted" /\ deps[s] = 0
           Held(s) == \E c \in Contexts : s \in claimed[c]
           Good(s) == /\ Ready(s) <=> Held(s)
                      /\ \A c, d \in Contexts :
                           s \in claimed[c] /\ s \in claimed[d] => c = d
                      /\ queued[s] = IF st[s] = "processing" THEN 1 ELSE 0
<1> SUFFICES ASSUME NEW j \in Slots PROVE Good(j)'
  BY DEF ReadyIsClaimed
<1>0. /\ Good(j) /\ Main \in Contexts /\ Workers \subseteq Contexts
      /\ st \in [Slots -> States] /\ deps \in [Slots -> 0..MaxDeps]
      /\ queued \in [Slots -> Nat] /\ claimed \in [Contexts -> SUBSET Slots]
      /\ MaxDeps \in Nat
  BY GraphAssumption DEF IInv, TypeOK, ReadyIsClaimed, Contexts
<1>a. ASSUME UNCHANGED <<claimed, queued>>, UNCHANGED <<st[j], deps[j]>> PROVE Good(j)'
  BY <1>0, <1>a
<1>b. ASSUME UNCHANGED <<claimed, queued>>, st[j] \notin {"submitted", "processing"},
             st'[j] \notin {"submitted", "processing"}
      PROVE  Good(j)'
  BY <1>0, <1>b
<1>1. ASSUME NEW s \in Slots, NEW m \in BOOLEAN, Add(s, m) PROVE Good(j)'
  BY <1>0, <1>1, <1>a, <1>b DEF Add
<1>2. ASSUME NEW h \in Slots, NEW t \in Slots, Dep(h, t) PROVE Good(j)'
  BY <1>0, <1>2, <1>a, <1>b DEF Dep
<1>3. ASSUME NEW h \in Slots, NEW k, DepRefresh(h, k) PROVE Good(j)'
  <2>1. CASE j = edges[h][k]
    BY <1>0, <1>3, <1>b, <2>1 DEF DepRefresh
  <2>2. CASE j # edges[h][k]
    BY <1>0, <1>3, <1>a, <2>2 DEF DepRefresh
  <2> QED
    BY <2>1, <2>2
<1>4. ASSUME NEW s \in Slots, Submit(s) PROVE Good(j)'
  BY <1>0, <1>4 DEF Submit
<1>5. CASE EndSubmit
  BY <1>5, <1>a DEF EndSubmit, word
<1>6. ASSUME NEW S \in SUBSET Slots, Reset(S) PROVE Good(j)'
  BY <1>0, <1>6, <1>a, <1>b DEF Reset
<1>7. ASSUME NEW s \in Slots, Del(s) PROVE Good(j)'
  BY <1>0, <1>7, <1>a, <1>b DEF Del
<1>8. ASSUME NEW w \in Workers, NEW s \in Slots, Take(w, s) PROVE Good(j)'
  <2>1. st[s] = "processing" /\ queued[s] = 1
    BY <1>8 DEF IInv, ReadyIsClaimed, Take
  <2> QED
    BY <1>0, <1>8, <2>1 DEF Take
<1>9. ASSUME NEW w \in Workers, Finalize(w) PROVE Good(j)'
  <2>1. slot[w] \in Slots /\ st[slot[w]] = "executing"
    BY <1>9 DEF IInv, TypeOK, WorkerOwns, Owns, Finalize
  <2> QED
    BY <1>0, <1>9, <1>a, <1>b, <2>1 DEF Finalize
<1>10. ASSUME NEW w \in Workers, ReadEdges(w) PROVE Good(j)'
  BY <1>10, <1>a DEF ReadEdges, word
<1>11. ASSUME NEW w \in Workers, Signal(w) PROVE Good(j)'
  <2>1. PICK d \in Slots :
          /\ st[d] \in Waiting /\ deps[d] > 0
          /\ st' = st /\ deps' = [deps EXCEPT ![d] = @ - 1]
          /\ claimed' = [claimed EXCEPT ![w] =
               IF st[d] = "submitted" /\ deps[d] = 1 THEN @ \cup {d} ELSE @]
    BY <1>11, SignalStep
  <2>2. queued' = queued
    BY <1>11 DEF Signal
  <2>3. CASE j = d
    <3>1. \A c \in Contexts : j \notin claimed[c]
      BY <1>0, <2>1, <2>3
    <3>2. deps'[j] = 0 <=> deps[j] = 1
      BY <1>0, <2>1, <2>3
    <3>3. CASE st[j] = "submitted" /\ deps[j] = 1
      BY <1>0, <2>1, <2>2, <2>3, <3>1, <3>2, <3>3
    <3>4. CASE ~(st[j] = "submitted" /\ deps[j] = 1)
      BY <1>0, <2>1, <2>2, <2>3, <3>1, <3>2, <3>4
    <3> QED
      BY <3>3, <3>4
  <2>4. CASE j # d
    <3>1. \A c \in Contexts : j \in claimed'[c] <=> j \in claimed[c]
      BY <1>0, <2>1, <2>4
    <3> QED
      BY <1>0, <2>1, <2>2, <2>4, <3>1
  <2> QED
    BY <2>3, <2>4
<1>12. ASSUME NEW w \in Workers, FreeEdges(w) PROVE Good(j)'
  BY <1>12, <1>a DEF FreeEdges, word
<1>13. ASSUME NEW w \in Workers, Finish(w) PROVE Good(j)'
  <2>1. slot[w] \in Slots /\ (auto[w] => st[slot[w]] = "done")
    BY <1>13 DEF IInv, TypeOK, WorkerOwns, Owns, Finish
  <2> QED
    BY <1>0, <1>13, <1>a, <1>b, <2>1 DEF Finish
<1>14. ASSUME NEW c \in Contexts, NEW s \in Slots, Process(c, s) PROVE Good(j)'
  <2>1. st[s] = "submitted"
    BY <1>14 DEF IInv, ReadyIsClaimed, Process
  <2>2. CASE j = s
    BY <1>0, <1>14, <2>1, <2>2 DEF Process
  <2>3. CASE j # s
    <3>1. \A d \in Contexts : j \in claimed'[d] <=> j \in claimed[d]
      BY <1>0, <1>14, <2>3 DEF Process
    <3> QED
      BY <1>0, <1>14, <2>3, <3>1 DEF Process
  <2> QED
    BY <2>2, <2>3
<1>15. ASSUME NEW c \in Contexts, EndProcess(c) PROVE Good(j)'
  BY <1>15, <1>a DEF EndProcess, word
<1>16. CASE UNCHANGED vars
  BY <1>16, <1>a DEF vars
<1> HIDE DEF Ready, Held, Good
<1>17. CASE MainStep
  BY <1>1, <1>2, <1>3, <1>4, <1>5, <1>6, <1>7, <1>17 DEF MainStep
<1>18. ASSUME NEW w \in Workers, WorkerStep(w) PROVE Good(j)'
  BY <1>8, <1>9, <1>10, <1>11, <1>12, <1>13, <1>18 DEF WorkerStep
<1>19. ASSUME NEW c \in Contexts, ProcessStep(c) PROVE Good(j)'
  BY <1>14, <1>15, <1>19 DEF ProcessStep
<1> QED
  BY <1>16, <1>17, <1>18, <1>19 DEF Next
-----------------------------------------------------------------------------
(* Every step keeps a dependent from starting before its predecessors.     *)
LEMMA OrderStep ==
  ASSUME IInv, [Next]_vars
  PROVE  DependencyOrder'
<1> DEFINE Running(j) == st[j] \in {"processing", "executing"}
           Over(i) == st[i] \in {"done", "free"}
<1> SUFFICES ASSUME NEW i \in Slots, NEW k \in DOMAIN edges'[i], NEW j \in Slots,
                    j = edges'[i][k], Running(j)'
             PROVE  Over(i)'
  BY DEF DependencyOrder, Targets
<1>t. /\ st \in [Slots -> States] /\ edges \in [Slots -> Seq(Slots)]
      /\ OwesEdges(i)
  BY DEF IInv, TypeOK, OwedEdges
<1>d. k \in DOMAIN edges[i] /\ j = edges[i][k] /\ Running(j) => Over(i)
  BY DEF IInv, DependencyOrder, Targets
<1>0. /\ (k \in DOMAIN edges[i] /\ j = edges[i][k] /\ Running(j) => Over(i))
      /\ OwesEdges(i)
      /\ st \in [Slots -> States] /\ edges \in [Slots -> Seq(Slots)]
  BY <1>t, <1>d
<1>a. ASSUME edges' = edges, Running(j), Over(i) => Over(i)' PROVE Over(i)'
  BY <1>0, <1>a
<1>1. ASSUME NEW s \in Slots, NEW m \in BOOLEAN, Add(s, m) PROVE Over(i)'
  <2>1. i # s
    BY <1>0, <1>1, EmptySeq DEF Add
  <2> QED
    BY <1>0, <1>1, <2>1 DEF Add
<1>2. ASSUME NEW h \in Slots, NEW t \in Slots, Dep(h, t) PROVE Over(i)'
  <2>1. CASE i = h
    <3>1. j # t
      BY <1>0, <1>2 DEF Dep
    <3>2. k \in DOMAIN edges[i] /\ j = edges[i][k]
      BY <1>0, <1>2, <2>1, <3>1, EdgesOf DEF Dep, IInv
    <3> QED
      BY <1>0, <1>2, <2>1, <3>2 DEF Dep
  <2>2. CASE i # h
    BY <1>0, <1>2, <2>2 DEF Dep
  <2> QED
    BY <2>1, <2>2
<1>3. ASSUME NEW h \in Slots, NEW n, DepRefresh(h, n) PROVE Over(i)'
  BY <1>3, <1>a DEF DepRefresh, graph
<1>4. ASSUME NEW s \in Slots, Submit(s) PROVE Over(i)'
  BY <1>0, <1>4, <1>a DEF Submit, graph
<1>5. CASE EndSubmit
  BY <1>5, <1>a DEF EndSubmit, graph, word
<1>6. ASSUME NEW S \in SUBSET Slots, Reset(S) PROVE Over(i)'
  <2>1. edges' = edges /\ st' = [s \in Slots |-> IF s \in S THEN "clear" ELSE st[s]]
    BY <1>6 DEF Reset, graph
  <2>2. j \notin S /\ Running(j)
    BY <1>0, <2>1
  <2>3. i \notin S
    BY <1>6, <2>1, <2>2 DEF Reset, Targets
  <2> QED
    BY <1>a, <2>1, <2>2, <2>3
<1>7. ASSUME NEW s \in Slots, Del(s) PROVE Over(i)'
  BY <1>0, <1>7, <1>a DEF Del, graph
<1>8. ASSUME NEW w \in Workers, NEW s \in Slots, Take(w, s) PROVE Over(i)'
  <2>1. st[s] = "processing"
    BY <1>8 DEF IInv, ReadyIsClaimed, Take
  <2> QED
    BY <1>0, <1>8, <1>a, <2>1 DEF Take, graph
<1>9. ASSUME NEW w \in Workers, Finalize(w) PROVE Over(i)'
  BY <1>0, <1>9, <1>a DEF Finalize, graph
<1>10. ASSUME NEW w \in Workers, ReadEdges(w) PROVE Over(i)'
  BY <1>10, <1>a DEF ReadEdges, graph, word
<1>11. ASSUME NEW w \in Workers, Signal(w) PROVE Over(i)'
  <2>1. st' = st
    BY <1>11, SignalStep
  <2> QED
    BY <1>11, <1>a, <2>1 DEF Signal, graph
<1>12. ASSUME NEW w \in Workers, FreeEdges(w) PROVE Over(i)'
  BY <1>12, <1>a DEF FreeEdges, word
<1>13. ASSUME NEW w \in Workers, Finish(w) PROVE Over(i)'
  BY <1>0, <1>13, <1>a DEF Finish, graph
<1>14. ASSUME NEW c \in Contexts, NEW s \in Slots, Process(c, s) PROVE Over(i)'
  <2>1. st[s] = "submitted" /\ deps[s] = 0
    BY <1>14 DEF IInv, ReadyIsClaimed, Process
  <2>2. edges' = edges /\ st' = [st EXCEPT ![s] = "processing"]
    BY <1>14 DEF Process, graph
  <2>3. CASE j = s
    <3>1. k \notin owed[i]
      <4>1. k \in owed[i] => deps[edges[i][k]] > 0
        BY OwedTarget DEF IInv
      <4> QED
        BY <2>1, <2>2, <2>3, <4>1
    <3>2. st[i] \notin Started
      BY <1>0, <2>2, <3>1 DEF OwesEdges
    <3>3. st[i] # "clear"
      BY <1>0, <2>1, <2>2, <2>3, <3>1 DEF OwesEdges
    <3>4. st[i] # "corrupt"
      BY DEF IInv, NeverCorrupt
    <3> QED
      BY <1>0, <2>1, <2>2, <3>2, <3>3, <3>4 DEF States, Started
  <2>4. CASE j # s
    BY <1>0, <1>a, <2>1, <2>2, <2>4
  <2> QED
    BY <2>3, <2>4
<1>15. ASSUME NEW c \in Contexts, EndProcess(c) PROVE Over(i)'
  BY <1>15, <1>a DEF EndProcess, graph, word
<1>16. CASE UNCHANGED vars
  BY <1>16, <1>a DEF vars
<1> HIDE DEF Running, Over
<1> QED
  BY <1>1, <1>2, <1>3, <1>4, <1>5, <1>6, <1>7, <1>8, <1>9, <1>10, <1>11, <1>12, <1>13,
     <1>14, <1>15, <1>16
  DEF Next, MainStep, WorkerStep, ProcessStep

(* No word ever wraps below zero. *)
LEMMA CorruptStep ==
  ASSUME IInv, [Next]_vars
  PROVE  NeverCorrupt'
<1>0. /\ NeverCorrupt /\ st \in [Slots -> States]
      /\ \A w \in Workers : pc[w] # "idle" => slot[w] \in Slots
  BY DEF IInv, TypeOK
<1>1. ASSUME NEW w \in Workers, Signal(w) PROVE st' = st
  BY <1>1, SignalStep
<1> QED
  BY <1>0, <1>1
  DEF NeverCorrupt, Next, MainStep, WorkerStep, ProcessStep, Add, Dep, DepRefresh, Submit,
      EndSubmit, Reset, Del, Take, Finalize, ReadEdges, FreeEdges, Finish, Process,
      EndProcess, word, vars

-----------------------------------------------------------------------------
(* The invariant holds of every careful program.                           *)
LEMMA Inductive ==
  ASSUME IInv, CarefulProgram, [Next]_vars
  PROVE  IInv'
<1>1. \A i \in Slots : Stored(i)'
  BY StoredStep
<1>2. EdgeStorage'
  BY <1>1, LiveStep DEF EdgeStorage
<1>3. TypeOK'
  BY TypeStep DEF IInv
<1> QED
  BY <1>2, <1>3, CountsStep, OwedStep, OwnsStep, OneWorkerStep, ReadyStep, OrderStep,
     CorruptStep
  DEF IInv

(* The manager starts without jobs. *)
LEMMA Initially ==
  ASSUME Init
  PROVE  IInv
<1>1. TypeOK
  BY GraphAssumption DEF Init, TypeOK, Contexts, States
<1>2. CountsOwed
  <2>1. \A j \in Slots : Owing(j) = {} /\ deps[j] = 0
    BY DEF Init, Owing
  <2> QED
    BY <2>1, FS_EmptySet DEF CountsOwed, Counted
<1>3. \A i \in Slots : Len(edges[i]) = 0 /\ DOMAIN edges[i] = {}
  BY DEF Init
<1>4. OwedEdges /\ WorkerOwns /\ OneWorker
  BY <1>3, GraphAssumption
  DEF Init, OwedEdges, OwesEdges, WorkerOwns, Owns, OneWorker, Started, Contexts
<1>5. EdgeStorage
  BY <1>3 DEF Init, EdgeStorage, Stored, EdgesLive, Contexts
<1>6. ReadyIsClaimed /\ DependencyOrder /\ NeverCorrupt
  BY <1>3 DEF Init, ReadyIsClaimed, DependencyOrder, NeverCorrupt, Targets
<1> QED
  BY <1>1, <1>2, <1>4, <1>5, <1>6 DEF IInv

(* The invariant holds in every reachable state. *)
LEMMA Invariant ==
  ASSUME CarefulProgram
  PROVE  Spec => []IInv
<1>1. Init => IInv
  BY Initially
<1>2. IInv /\ [Next]_vars => IInv'
  BY Inductive
<1> QED
  BY <1>1, <1>2, PTL DEF Spec

(* dep() for any number of jobs, workers, edges and reuses: a job is not   *)
(* queued and does not run before its predecessors are over.               *)
THEOREM DependenciesRespected ==
  ASSUME CarefulProgram
  PROVE  Spec => []DependencyOrder
<1>1. IInv => DependencyOrder
  BY DEF IInv
<1> QED
  BY <1>1, Invariant, PTL

(* submit() against signal_edges(): of all the contexts whose atomic       *)
(* operations race on the word of a job, exactly one processes it, and it  *)
(* is in a queue exactly once.                                             *)
THEOREM ReadyJobsProcessedOnce ==
  ASSUME CarefulProgram
  PROVE  Spec => []ReadyIsClaimed
<1>1. IInv => ReadyIsClaimed
  BY DEF IInv
<1> QED
  BY <1>1, Invariant, PTL

(* signal_edge(): the fetch_sub of a worker that still walks the edges of  *)
(* a finished job never reaches a released, recycled or running job, and   *)
(* never borrows from the state bits.                                      *)
THEOREM SignalsHitDependents ==
  ASSUME CarefulProgram
  PROVE  Spec => []SignalHitsDependent
<1>1. IInv => SignalHitsDependent
  BY SignalReads DEF SignalHitsDependent, Waiting
<1> QED
  BY <1>1, Invariant, PTL
=============================================================================

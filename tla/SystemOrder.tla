---------------------------- MODULE SystemOrder ----------------------------
(***************************************************************************)
(* The order in which World::systems_run visits the systems it collected,  *)
(* and the batches that order falls into.                                  *)
(*                                                                         *)
(* Systems and phases are their entity ids.  A program p gives the phase   *)
(* of each system (NoPhase for none) and the DependsOn pairs of systems    *)
(* and phases; a system with a phase depends on it, as                     *)
(* SystemBuilder::phase makes it.  The first of a pair runs first.  Cycles *)
(* are treated as the code treats them.                                    *)
(***************************************************************************)
EXTENDS Naturals, SequencesExt, FiniteSetsExt

CONSTANTS Systems, Phases

NoPhase == 0
Nodes == Systems \cup Phases

ASSUME OrderAssumption ==
  /\ Nodes \subseteq Nat \ {NoPhase}
  /\ IsFiniteSet(Nodes)
  /\ Systems \cap Phases = {}

Targets(p, n) ==
  {t \in Nodes : <<n, t>> \in p.dep} \cup
  (IF n \in Systems THEN {p.phase[n]} \ {NoPhase} ELSE {})

\* Length of the longest chain of targets; a node on the way to itself counts
\* as the end of its chain.
Depth(p, node, skip) ==
  LET depth[seen \in SUBSET Nodes, n \in Nodes] ==
        IF n \in seen THEN 0
        ELSE Max({0} \cup {depth[seen \cup {n}, t] + 1 : t \in Targets(p, n)})
  IN Max({0} \cup {depth[{node}, t] + 1 : t \in Targets(p, node) \ {skip}})

SystemDepth(p, s) == Depth(p, s, p.phase[s])
PhaseDepth(p, ph) == Depth(p, ph, NoPhase)

Sorted(N) ==
  [i \in 1..Cardinality(N) |->
     CHOOSE n \in N : Cardinality({m \in N : m < n}) = i - 1]

\* Of several targets in the group the deepest, then the oldest, is the parent.
Primary(p, N, n, depth) ==
  LET here == Targets(p, n) \cap N
      deepest == {t \in here : \A u \in here : depth[u] <= depth[t]}
  IN IF here = {} THEN 0 ELSE Min(deepest)

\* Children before parents, siblings by id; what hangs on a cycle comes last.
Postorder(p, N, depth) ==
  LET parents == {<<n, Primary(p, N, n, depth)>> : n \in N}
      Children(n) == Sorted({c \in N : <<c, n>> \in parents})
      tree[n \in N] ==
        Append(FlattenSeq([i \in DOMAIN Children(n) |-> tree[Children(n)[i]]]), n)
      forest == FlattenSeq([i \in DOMAIN Children(0) |-> tree[Children(0)[i]]])
  IN forest \o Sorted(N \ ToSet(forest))

\* The nodes of `waiting` that no other of them must precede.
Ready(p, waiting, edge) ==
  {n \in waiting : \A c \in waiting \ {n} : <<c, n>> \notin edge}

First(N, order) == SelectSeq(order, LAMBDA n : n \in N)[1]

\* Kahn's algorithm among phases; the phases of a cycle, and all those still
\* waiting with them, follow by id.
PhaseOrder(p, N) ==
  LET base == Postorder(p, N, [n \in N |-> PhaseDepth(p, n)])
      rest[waiting \in SUBSET N] ==
        LET ready == Ready(p, waiting, p.dep)
            n == First(ready, base)
        IN IF ready = {} THEN Sorted(waiting) ELSE <<n>> \o rest[waiting \ {n}]
  IN rest[N]

Group(p, C, ph) == {s \in C : p.phase[s] = ph}

\* Explicit order counts within a group only.
Edges(p, C) ==
  {e \in C \X C : e \in p.dep /\ e[1] # e[2] /\ p.phase[e[1]] = p.phase[e[2]]}

\* Kahn's algorithm among systems; when a cycle blocks them all the first in
\* the order of the keys goes.
Schedule(p, C) ==
  LET groups == Append(PhaseOrder(p, {p.phase[s] : s \in C} \ {NoPhase}), NoPhase)
      depth == [s \in C |-> SystemDepth(p, s)]
      base == FlattenSeq([i \in DOMAIN groups |->
                            Postorder(p, Group(p, C, groups[i]), depth)])
      edges == Edges(p, C)
      rest[waiting \in SUBSET C] ==
        LET ready == Ready(p, waiting, edges)
            n == First(IF ready = {} THEN waiting ELSE ready, base)
        IN IF waiting = {} THEN <<>> ELSE <<n>> \o rest[waiting \ {n}]
  IN rest[C]

\* Variant: the depth is not part of the key.
BatchKeyByPhase(p, s) == <<p.phase[s], 0>>

\* Jobs of consecutive systems with the same key are submitted together.
BatchKey(p, s) == <<p.phase[s], SystemDepth(p, s)>>
=============================================================================

---------------------------- MODULE EntityStore ----------------------------
(***************************************************************************)
(* What the chunk storage of ecs::World promises to everything above it:   *)
(* a map from entities to the archetype they are in.  Storing, moving and  *)
(* removing an entity change its own place and no other; archetypes can be *)
(* dropped whole.  Garbage collection and defragmentation are invisible.   *)
(***************************************************************************)
CONSTANTS Entities, Archetypes, None

VARIABLE place   \* the archetype of an entity, None for no entity

SInit == place = [e \in Entities |-> None]

Store(e, a) == place[e] = None /\ place' = [place EXCEPT ![e] = a]

Change(e, a) == place[e] \notin {None, a} /\ place' = [place EXCEPT ![e] = a]

Remove(e) == place[e] # None /\ place' = [place EXCEPT ![e] = None]

Drop(A) ==
  place' = [e \in Entities |-> IF place[e] \in A THEN None ELSE place[e]]

SNext ==
  \/ \E A \in SUBSET Archetypes : Drop(A)
  \/ \E e \in Entities : Remove(e) \/ \E a \in Archetypes : Store(e, a) \/ Change(e, a)

SSpec == SInit /\ [][SNext]_place
=============================================================================

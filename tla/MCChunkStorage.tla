--------------------------- MODULE MCChunkStorage ---------------------------
(***************************************************************************)
(* Three entities in two archetypes: one has two chunks of two entities,   *)
(* so that a full and a half empty chunk come and go, two half empty ones  *)
(* can be merged, and a dropped archetype has several chunks; the other    *)
(* has one chunk, and its only entity leaves it empty.                     *)
(***************************************************************************)
EXTENDS ChunkStorage, TLC

CONSTANTS wide, narrow, e1, e2, e3

MCCapacity == [a \in Archetypes |-> IF a = wide THEN 2 ELSE 1]
MCChunks == ({wide} \X (1..2)) \cup ({narrow} \X {1})
MCLifespans == [a \in Archetypes |-> IF a = wide THEN {0, 2} ELSE {}]
MCSymmetry == Permutations(Entities)
=============================================================================

---------------------------- MODULE ChunkStorage ----------------------------
(***************************************************************************)
(* Where ecs::World keeps its entities: the rows of the chunks of an       *)
(* archetype, the record of every entity that says which row is its own,   *)
(* the two queues of chunks and archetypes that wait for their deletion,   *)
(* and the frame clean-up, which deletes dropped archetypes, ages empty    *)
(* chunks, defragments and ages empty archetypes.                          *)
(*                                                                         *)
(* The disabled rows of a chunk come first.  A row is an entity and the    *)
(* entity whose component data lies there.  An operation of the program is *)
(* one step; every iteration of the clean-up's loops is a step.  Rows,     *)
(* chunk indices and queue indices count from 1.                           *)
(***************************************************************************)
EXTENDS Integers, Sequences, FiniteSets, FiniteSetsExt

CONSTANTS
  Entities, Archetypes, None,
  Capacity,      \* entities of one chunk, for every archetype
  ChunkLife,     \* MAX_CHUNK_LIFESPAN
  Lifespans,     \* what the program passes to set_max_lifespan, for every archetype
  Dropped,       \* archetypes it may drop: an id of theirs says (OnDelete, Delete)
  Moves,         \* m_defragEntitiesPerTick
  CountMax,      \* values of the counter countEnabled
  DropImmortal,  \* TRUE: archetypes with lifespan 0 are dropped, too
  SortDrifted,   \* TRUE: archetypes are sorted whose counters have gone wrong, too
  Chunks         \* bound: the chunks there can be, as <<archetype, number>>

ASSUME StorageAssumption ==
  /\ None \notin Entities \cup Archetypes
  /\ Capacity \in [Archetypes -> Nat \ {0}]
  /\ ChunkLife \in Nat \ {0}
  /\ Lifespans \in [Archetypes -> SUBSET Nat]
  /\ Dropped \subseteq Archetypes
  /\ Moves \in Nat
  /\ CountMax \in Nat \ {0}
  /\ DropImmortal \in BOOLEAN
  /\ SortDrifted \in BOOLEAN
  /\ Chunks \subseteq Archetypes \X (Nat \ {0}) /\ IsFiniteSet(Chunks)

VARIABLES
  arch,    \* archetypes: list (of chunks), free (firstFreeChunkIdx), life, max
           \* (lifespanCountdown and its maximum), req (deleteReq)
  chunk,   \* chunks: rows, first (rowFirstEnabledEntity: how many rows are
           \* disabled), enabled (countEnabled), idx, life, slot (its index in
           \* m_chunksToDel, 0 for none)
  rec,     \* records of entities: arch, chunk, row, dis
  queue,   \* m_chunksToDel
  doomed,  \* m_archetypesToDel
  phase,   \* which loop of frame_cleanup runs
  at,      \* its index
  raw,     \* memory of the chunk array del_entities iterates
  cur, front, back, moves, todo   \* locals of defrag_chunks: see below

vars == <<arch, chunk, rec, queue, doomed, phase, at, raw, cur, front, back, moves, todo>>
storage == <<arch, chunk, rec, queue>>
defrag == <<cur, front, back, moves, todo>>
loops == <<phase, at, raw, defrag>>

NoArch == [live |-> FALSE, list |-> <<>>, free |-> 1, life |-> 0, max |-> 0, req |-> FALSE]
NewArch == [NoArch EXCEPT !.live = TRUE, !.max = 1]
NoChunk == [live |-> FALSE, rows |-> <<>>, first |-> 0, enabled |-> 0, idx |-> 0,
            life |-> 0, slot |-> 0]
NewChunk(i) == [NoChunk EXCEPT !.live = TRUE, !.idx = i]
NoRecord == [arch |-> None, chunk |-> None, row |-> 0, dis |-> FALSE]

Init ==
  /\ arch = [a \in Archetypes |-> NoArch]
  /\ chunk = [c \in Chunks |-> NoChunk]
  /\ rec = [e \in Entities |-> NoRecord]
  /\ queue = <<>> /\ doomed = <<>>
  /\ phase = "idle" /\ at = 1 /\ raw = <<>>
  /\ cur = None /\ front = 1 /\ back = 1 /\ moves = 0 /\ todo = {}

(* World::valid: the record names a row and the archetype is not dropped. *)
Valid(e) == rec[e].arch # None /\ ~arch[rec[e].arch].req

(* core::swap_erase on a sequence. *)
SwapErase(s, i) == SubSeq([s EXCEPT ![i] = s[Len(s)]], 1, Len(s) - 1)

-----------------------------------------------------------------------------
(* Rows.  The operators map a world w, a record of the variables they may  *)
(* change, to the world after a call.                                      *)

World == [arch |-> arch, chunk |-> chunk, rec |-> rec, queue |-> queue]

Becomes(w) ==
  arch' = w.arch /\ chunk' = w.chunk /\ rec' = w.rec /\ queue' = w.queue

(* Variant: only the first entity learns its new row. *)
SwapRowsHalf(w, c, i, j) ==
  LET r == w.chunk[c].rows
  IN [w EXCEPT !.chunk[c].rows = [r EXCEPT ![i] = r[j], ![j] = r[i]],
               !.rec[r[i].ent].row = j]

(* Chunk::swap_chunk_entities for two rows of one chunk. *)
SwapRows(w, c, i, j) ==
  LET r == w.chunk[c].rows
  IN IF i = j THEN w
     ELSE [w EXCEPT !.chunk[c].rows = [r EXCEPT ![i] = r[j], ![j] = r[i]],
                    !.rec[r[i].ent].row = j,
                    !.rec[r[j].ent].row = i]

(* What enable_entity notes of a row that has changed sides.               *)
Mark(w, c, e, off) ==
  LET k == w.chunk[c]
  IN [w EXCEPT
        !.rec[e].dis = off,
        !.chunk[c] = [k EXCEPT
          !.first = IF off THEN k.first + 1 ELSE k.first - 1,
          !.enabled = (IF off THEN k.enabled - 1 ELSE k.enabled + 1) % CountMax]]

(* Chunk::enable_entity. *)
EnableRow(w, c, i) ==
  LET k == w.chunk[c]
  IN IF i > k.first THEN w
     ELSE Mark(SwapRows(w, c, k.first, i), c, k.rows[i].ent, FALSE)

DisableRow(w, c, i) ==
  LET k == w.chunk[c]
  IN IF k.enabled = 0 \/ i <= k.first THEN w
     ELSE Mark(SwapRows(w, c, k.first + 1, i), c, k.rows[i].ent, TRUE)

(* Chunk::add_entity; the row has no data yet. *)
AddRow(w, c, e) ==
  [w EXCEPT !.chunk[c].rows = Append(@, [ent |-> e, val |-> None]),
            !.chunk[c].enabled = (@ + 1) % CountMax]

(* Variant: the entity of the last row does not learn its new row. *)
FillRowSilently(w, c, i) == [w EXCEPT !.chunk[c].rows = SwapErase(@, i)]

(* Chunk::remove_entity_inter and remove_last_entity: the last row fills   *)
(* the gap.                                                                *)
FillRow(w, c, i) ==
  LET r == w.chunk[c].rows
      n == Len(r)
      v == [w EXCEPT !.chunk[c].rows = SwapErase(r, i)]
  IN IF i < n THEN [v EXCEPT !.rec[r[n].ent].row = i] ELSE v

(* Variant: a disabled row is removed like an enabled one. *)
RemoveRowPlain(w, c, i) == [FillRow(w, c, i) EXCEPT !.chunk[c].enabled = (@ - 1) % CountMax]

(* Chunk::remove_entity. *)
RemoveRow(w, c, i) ==
  LET first == w.chunk[c].first
  IN IF i > first
     THEN [FillRow(w, c, i) EXCEPT
             !.chunk[c].first = IF i = first + 1 /\ first > 0 THEN first - 1 ELSE first,
             !.chunk[c].enabled = (@ - 1) % CountMax]
     ELSE [FillRow(SwapRows(w, c, i, first), c, first) EXCEPT !.chunk[c].first = first - 1]

-----------------------------------------------------------------------------
(* Chunks and queues                                                       *)

Full(w, a, c) == Len(w.chunk[c].rows) >= Capacity[a]

(* Chunk::create takes any memory; its address does not matter.            *)
Unused(w, a) == {c \in Chunks : c[1] = a /\ ~w.chunk[c].live}

(* Archetype::foc_free_chunk: a chunk with room from the free index on, or *)
(* a new one.  The world after the call has the chunk at the free index.   *)
WithRoom(w, a) ==
  LET k == w.arch[a]
      rooms == {i \in k.free..Len(k.list) : ~Full(w, a, k.list[i])}
      fresh == <<a, Min({c[2] : c \in Unused(w, a)})>>
  IN IF rooms # {} THEN [w EXCEPT !.arch[a].free = Min(rooms)]
     ELSE [w EXCEPT !.arch[a] = [k EXCEPT !.list = Append(k.list, fresh),
                                          !.free = Len(k.list) + 1],
                    !.chunk[fresh] = NewChunk(Len(k.list) + 1)]

(* Bound: the program adds to an archetype while there is a chunk for it.  *)
HasRoom(a) ==
  \/ Unused(World, a) # {}
  \/ \E i \in arch[a].free..Len(arch[a].list) : ~Full(World, a, arch[a].list[i])

FreeChunk(w, a) == w.arch[a].list[w.arch[a].free]

(* Archetype::try_update_free_chunk_idx. *)
SkipFull(w, a) ==
  IF Full(w, a, FreeChunk(w, a)) THEN [w EXCEPT !.arch[a].free = @ + 1] ELSE w

(* Variant: room before the free index is forgotten. *)
RoomForgotten(w, a, c) == w

(* The other one, after a row of chunk c was removed. *)
RoomIn(w, a, c) ==
  LET i == w.chunk[c].idx
      f == w.arch[a].free
  IN CASE i = f -> w
       [] i < f -> [w EXCEPT !.arch[a].free = i]
       [] i > f -> SkipFull(w, a)

(* World::try_enqueue_chunk_for_deletion. *)
EnqueueChunk(w, a, c) ==
  IF w.chunk[c].life > 0 \/ w.chunk[c].rows # <<>> THEN w
  ELSE [w EXCEPT !.queue = Append(@, [arch |-> a, chunk |-> c]),
                 !.chunk[c].life = ChunkLife,
                 !.chunk[c].slot = Len(w.queue) + 1]

(* World::remove_entity; defrag_archetype makes the same three calls. *)
TakeRow(w, a, c, i) == EnqueueChunk(RoomIn(RemoveRow(w, c, i), a, c), a, c)

(* Variant: the entry that fills the gap keeps its old index. *)
UnqueueSlotKept(w, i) ==
  [w EXCEPT !.chunk[w.queue[i].chunk].slot = 0, !.queue = SwapErase(@, i)]

(* World::remove_chunk_from_delete_queue. *)
Unqueue(w, i) ==
  [w EXCEPT !.chunk = [@ EXCEPT ![w.queue[Len(w.queue)].chunk].slot = i,
                                ![w.queue[i].chunk].slot = 0],
            !.queue = SwapErase(@, i)]

(* Archetype::del. *)
DeleteChunk(w, a, c) ==
  LET list == w.arch[a].list
      i == w.chunk[c].idx
  IN [w EXCEPT !.chunk = [@ EXCEPT ![list[Len(list)]].idx = i, ![c] = NoChunk],
               !.arch[a].list = SwapErase(list, i)]

(* Archetype::ready_to_die. *)
ReadyToDie(k) == k.max > 0 /\ k.life = 0 /\ k.list = <<>>

(* World::try_enqueue_archetype_for_deletion. *)
EnqueueArch(w, a) ==
  IF ReadyToDie(w.arch[a])
  THEN Becomes([w EXCEPT !.arch[a].life = w.arch[a].max]) /\ doomed' = Append(doomed, a)
  ELSE Becomes(w) /\ UNCHANGED doomed

(* World::revive_archetype. *)
Revived(w, a) == [w EXCEPT !.arch[a].life = 0, !.arch[a].req = FALSE]

(* An archetype that does not exist is created before it is used. *)
WithArch(w, a) == IF w.arch[a].live THEN w ELSE [w EXCEPT !.arch[a] = NewArch]

-----------------------------------------------------------------------------
(* What the program does                                                   *)

(* World::assign_entity and store_entity. *)
Add(e, a) ==
  /\ phase = "idle" /\ HasRoom(a)
  /\ rec[e].arch = None /\ ~arch[a].req
  /\ LET w == WithRoom(WithArch(World, a), a)
         c == FreeChunk(w, a)
         n == Len(w.chunk[c].rows) + 1
         u == [AddRow(w, c, e) EXCEPT !.chunk[c].rows[n].val = e]
         v == [u EXCEPT !.rec[e] = [arch |-> a, chunk |-> c, row |-> n, dis |-> FALSE]]
     IN Becomes(SkipFull(v, a))
  /\ UNCHANGED <<doomed, loops>>

(* The data of row i of chunk c goes to row n of chunk d. *)
CopyData(w, c, i, d, n) == [w EXCEPT !.chunk[d].rows[n].val = w.chunk[c].rows[i].val]

(* The record of an entity names another row. *)
NameRow(w, e, a, d, n) ==
  [w EXCEPT !.rec[e] = [@ EXCEPT !.arch = a, !.chunk = d, !.row = n]]

(* World::move_entity up to the free index of the destination: the row is  *)
(* enabled, copied, removed from its chunk, and the record follows.        *)
MoveRow(w, e, a, d) ==
  LET old == w.rec[e]
      n == Len(w.chunk[d].rows) + 1
      on == EnableRow(AddRow(w, d, e), old.chunk, old.row)
      i == on.rec[e].row
      copied == CopyData(on, old.chunk, i, d, n)
      moved == NameRow(TakeRow(copied, old.arch, old.chunk, i), e, a, d, n)
  IN IF old.dis THEN DisableRow(moved, d, n) ELSE EnableRow(moved, d, n)

(* World::move_entity_raw: an id was added or removed. *)
Move(e, a) ==
  /\ phase = "idle" /\ HasRoom(a)
  /\ Valid(e) /\ rec[e].arch # a /\ ~arch[a].req
  /\ LET w == WithRoom(WithArch(World, a), a)
     IN Becomes(SkipFull(MoveRow(w, e, a, FreeChunk(w, a)), a))
  /\ UNCHANGED <<doomed, loops>>

(* World::del_entity_inter; the record is invalid from then on. *)
Del(e) ==
  /\ phase = "idle"
  /\ Valid(e)
  /\ LET r == rec[e]
     IN Becomes([TakeRow(World, r.arch, r.chunk, r.row) EXCEPT !.rec[e] = NoRecord])
  /\ UNCHANGED <<doomed, loops>>

(* World::enable. *)
Enable(e, on) ==
  /\ phase = "idle"
  /\ Valid(e)
  /\ Becomes(IF on THEN EnableRow(World, rec[e].chunk, rec[e].row)
                   ELSE DisableRow(World, rec[e].chunk, rec[e].row))
  /\ UNCHANGED <<doomed, loops>>

IsDisabled(e) == rec[e].row <= chunk[rec[e].chunk].first

(* sort_entities numbers the rows of an archetype's chunks, enabled ones   *)
(* by countEnabled and disabled ones by rowFirstEnabledEntity, and         *)
(* get_flat_entity looks for an entity by its number.  It stays among the  *)
(* rows there are if no counter is too great, empty chunks included.       *)
CountsRows(a) ==
  \A i \in DOMAIN arch[a].list :
    LET k == chunk[arch[a].list[i]] IN k.first + k.enabled <= Len(k.rows)

Numbered(e, on) ==
  LET k == chunk[rec[e].chunk]
  IN IF on THEN rec[e].row \in (k.first + 1)..(k.first + k.enabled)
           ELSE rec[e].row \in 1..k.first

(* Archetype::sort_entities, as the swap of two numbered rows of one side, *)
(* also of different chunks: every order that a sort makes is a sequence   *)
(* of these, each of which is a sort itself.  If it leaves the rows, what  *)
(* it finds in the memory of the chunk may be the id of any entity.        *)
Sort(e, f) ==
  /\ phase = "idle"
  /\ e # f /\ Valid(e) /\ rec[f].arch # None
  /\ IF CountsRows(rec[e].arch)
     THEN /\ rec[f].arch = rec[e].arch
          /\ \E on \in BOOLEAN : Numbered(e, on) /\ Numbered(f, on)
     ELSE SortDrifted
  /\ LET p == rec[e]
         q == rec[f]
     IN /\ chunk' = [chunk EXCEPT
                       ![p.chunk].rows[p.row] = chunk[q.chunk].rows[q.row],
                       ![q.chunk].rows[q.row] = chunk[p.chunk].rows[p.row]]
        /\ rec' = [rec EXCEPT ![e] = [p EXCEPT !.chunk = q.chunk, !.row = q.row],
                              ![f] = [q EXCEPT !.chunk = p.chunk, !.row = p.row]]
  /\ UNCHANGED <<arch, queue, doomed, loops>>

(* World::set_max_lifespan. *)
SetLifespan(e, n) ==
  /\ phase = "idle"
  /\ Valid(e)
  /\ LET a == rec[e].arch
         w == [World EXCEPT !.arch[a].max = n]
     IN /\ n \in Lifespans[a]
        /\ IF arch[a].max = 0 THEN EnqueueArch(w, a) ELSE Becomes(w) /\ UNCHANGED doomed
  /\ UNCHANGED loops

-----------------------------------------------------------------------------
(* World::frame_cleanup.  The archetypes in R were requested for deletion  *)
(* since the last one: req_del takes their entities along, and the program *)
(* cannot use them any more.                                               *)
FrameCleanup(R) ==
  /\ phase = "idle"
  /\ \A a \in R : /\ arch[a].live /\ ~arch[a].req
                  /\ DropImmortal \/ arch[a].max > 0
  /\ arch' = [a \in Archetypes |-> IF a \in R THEN [arch[a] EXCEPT !.req = TRUE] ELSE arch[a]]
  /\ phase' = IF R = {} THEN "chunks" ELSE "finalize"
  /\ todo' = R
  /\ UNCHANGED <<chunk, rec, queue, doomed, at, raw, cur, front, back, moves>>

(* del_finalize_archetypes turns to another archetype, or ends. *)
FinalizeNext ==
  /\ phase = "finalize" /\ at > Len(raw)
  /\ at' = 1
  /\ \/ \E a \in todo : cur' = a /\ raw' = arch[a].list /\ todo' = todo \ {a} /\ UNCHANGED phase
     \/ /\ todo = {}
        /\ phase' = "chunks" /\ raw' = <<>> /\ cur' = None
        /\ UNCHANGED todo
  /\ UNCHANGED <<storage, doomed, front, back, moves>>

(* del_entities: no entity of the archetype is valid, the chunk goes with  *)
(* them.  The loop iterates the array it erases from: it reads the memory  *)
(* raw up to the end the array had at first.                               *)
FinalizeChunk ==
  /\ phase = "finalize" /\ at <= Len(raw)
  /\ LET c == raw[at]
         list == arch[cur].list
         w == IF chunk[c].slot # 0 THEN Unqueue(World, chunk[c].slot) ELSE World
     IN /\ EnqueueArch(DeleteChunk(w, cur, c), cur)
        /\ raw' = [raw EXCEPT ![chunk[c].idx] = list[Len(list)]]
  /\ at' = at + 1
  /\ UNCHANGED <<phase, defrag>>

(* World::del_empty_chunks: one iteration each. *)
ReviveChunk ==
  /\ phase = "chunks" /\ at <= Len(queue)
  /\ chunk[queue[at].chunk].rows # <<>>
  /\ Becomes(Revived(Unqueue([World EXCEPT !.chunk[queue[at].chunk].life = 0], at),
                     queue[at].arch))
  /\ UNCHANGED <<doomed, loops>>

AgeChunk ==
  /\ phase = "chunks" /\ at <= Len(queue)
  /\ LET c == queue[at].chunk
     IN /\ chunk[c].rows = <<>> /\ chunk[c].life > 1
        /\ chunk' = [chunk EXCEPT ![c].life = @ - 1]
  /\ at' = at + 1
  /\ UNCHANGED <<arch, rec, queue, doomed, phase, raw, defrag>>

DropChunk ==
  /\ phase = "chunks" /\ at <= Len(queue)
  /\ LET c == queue[at].chunk
     IN /\ chunk[c].rows = <<>> /\ chunk[c].life <= 1
        /\ EnqueueArch(DeleteChunk(Unqueue(World, at), queue[at].arch, c), queue[at].arch)
  /\ UNCHANGED loops

(* World::defrag_chunks visits the archetypes in turn, from the one after  *)
(* the last it finished; the order is left open here.  Those with fewer    *)
(* than two chunks are left alone.                                         *)
EndChunks ==
  LET some == {a \in Archetypes : Len(arch[a].list) > 1}
  IN /\ phase = "chunks" /\ at > Len(queue)
     /\ at' = 1
     /\ IF Moves = 0 \/ some = {} THEN phase' = "archetypes" /\ UNCHANGED <<moves, todo>>
        ELSE phase' = "defrag" /\ moves' = Moves /\ todo' = some
     /\ UNCHANGED <<storage, doomed, raw, cur, front, back>>

(* Chunk::is_semi: less than 3/4 full. *)
Semi(w, a, i) == 4 * Len(w.chunk[w.arch[a].list[i]].rows) < 3 * Capacity[a]

Empty(w, a, i) == w.chunk[w.arch[a].list[i]].rows = <<>>

(* defrag_archetype: the first semi-full chunk and the last one. *)
DefragArch(a) ==
  LET n == Len(arch[a].list)
      f == Min({i \in 1..n : Semi(World, a, i)} \cup {n})
  IN /\ phase = "defrag" /\ moves > 0 /\ front >= back
     /\ a \in todo
     /\ todo' = todo \ {a}
     /\ cur' = a /\ front' = f
     /\ back' = Max({i \in f..n : Semi(World, a, i) /\ ~Empty(World, a, i)} \cup {f})
     /\ UNCHANGED <<storage, doomed, phase, at, raw, moves>>

(* One entity moves from the last row of the back chunk to the front one;  *)
(* an empty source or a full destination makes them approach.              *)
DefragStep ==
  LET src == arch[cur].list[back]
      r == chunk[src].rows
      some == r # <<>>
      w == IF some THEN MoveRow(World, r[Len(r)].ent, cur, arch[cur].list[front]) ELSE World
      b == IF Empty(w, cur, back)
           THEN Max({i \in front..(back - 1) : Semi(w, cur, i)} \cup {front}) ELSE back
  IN /\ phase = "defrag" /\ moves > 0 /\ front < back
     /\ Becomes(w)
     /\ moves' = IF some THEN moves - 1 ELSE moves
     /\ back' = b
     /\ front' = Min({i \in front..b : ~Full(w, cur, arch[cur].list[i])} \cup {b})
     /\ UNCHANGED <<doomed, phase, at, raw, cur, todo>>

EndDefrag ==
  /\ phase = "defrag"
  /\ moves = 0 \/ (front >= back /\ todo = {})
  /\ phase' = "archetypes"
  /\ cur' = None /\ front' = 1 /\ back' = 1 /\ moves' = 0 /\ todo' = {}
  /\ UNCHANGED <<storage, doomed, at, raw>>

(* World::del_empty_archetypes: one iteration each.  It deletes what it    *)
(* collected after the loop, which reads nothing of it in between.         *)
KeepArch ==
  /\ phase = "archetypes" /\ at <= Len(doomed)
  /\ LET a == doomed[at]
     IN /\ arch[a].list # <<>> \/ arch[a].max = 0
        /\ Becomes(Revived(World, a))
  /\ doomed' = SwapErase(doomed, at)
  /\ UNCHANGED loops

Dying(k) == k.list = <<>> /\ k.max > 0

AgeArch ==
  /\ phase = "archetypes" /\ at <= Len(doomed)
  /\ LET a == doomed[at]
     IN /\ Dying(arch[a]) /\ ~arch[a].req /\ arch[a].life > 1
        /\ arch' = [arch EXCEPT ![a].life = @ - 1]
  /\ at' = at + 1
  /\ UNCHANGED <<chunk, rec, queue, doomed, phase, raw, defrag>>

(* del_empty_archetype: the records of its entities are reset. *)
DropArch ==
  /\ phase = "archetypes" /\ at <= Len(doomed)
  /\ LET a == doomed[at]
     IN /\ Dying(arch[a]) /\ (arch[a].req \/ arch[a].life <= 1)
        /\ arch' = [arch EXCEPT ![a] = NoArch]
        /\ rec' = [e \in Entities |-> IF rec[e].arch = a THEN NoRecord ELSE rec[e]]
  /\ doomed' = SwapErase(doomed, at)
  /\ UNCHANGED <<chunk, queue, loops>>

EndCleanup ==
  /\ phase = "archetypes" /\ at > Len(doomed)
  /\ phase' = "idle" /\ at' = 1
  /\ UNCHANGED <<storage, doomed, raw, defrag>>

Cleanup ==
  \/ FinalizeNext \/ FinalizeChunk
  \/ ReviveChunk \/ AgeChunk \/ DropChunk \/ EndChunks
  \/ (\E a \in Archetypes : DefragArch(a)) \/ DefragStep \/ EndDefrag
  \/ KeepArch \/ AgeArch \/ DropArch \/ EndCleanup

Next ==
  \/ \E e \in Entities :
       \/ \E a \in Archetypes : Add(e, a) \/ Move(e, a)
       \/ Del(e)
       \/ \E on \in BOOLEAN : Enable(e, on)
       \/ \E f \in Entities : Sort(e, f)
       \/ \E n \in UNION {Lifespans[a] : a \in Archetypes} : SetLifespan(e, n)
  \/ \E R \in SUBSET Dropped : FrameCleanup(R)
  \/ Cleanup

Spec == Init /\ [][Next]_vars

(* Programs of which the properties hold.                                  *)
CarefulStorage == DropImmortal = FALSE /\ SortDrifted = FALSE

-----------------------------------------------------------------------------
(* Properties                                                              *)

Rows == [ent : Entities, val : Entities]

(* Every variable has values of its type; counters stay in their range and *)
(* no index is greater than the number of chunks there are.                *)
TypeOK ==
  /\ arch \in [Archetypes -> [live : BOOLEAN, list : Seq(Chunks), free : Nat \ {0},
                               life : Nat, max : Nat, req : BOOLEAN]]
  /\ \A a \in Archetypes : arch[a].max \in Lifespans[a] \cup {0, 1}
  /\ chunk \in [Chunks -> [live : BOOLEAN, rows : Seq(Rows), first : Nat,
                            enabled : 0..(CountMax - 1), idx : 0..Cardinality(Chunks),
                            life : 0..ChunkLife, slot : 0..Cardinality(Chunks)]]
  /\ \A c \in Chunks :
       chunk[c].first <= Len(chunk[c].rows) /\ Len(chunk[c].rows) <= Capacity[c[1]]
  /\ rec \in [Entities -> [arch : Archetypes \cup {None}, chunk : Chunks \cup {None},
                           row : Nat, dis : BOOLEAN]]
  /\ queue \in Seq([arch : Archetypes, chunk : Chunks])
  /\ doomed \in Seq(Archetypes)
  /\ phase \in {"idle", "finalize", "chunks", "defrag", "archetypes"}
  /\ at \in Nat /\ raw \in Seq(Chunks)
  /\ cur \in Archetypes \cup {None} /\ front \in Nat /\ back \in Nat
  /\ moves \in 0..Moves /\ todo \subseteq Archetypes

Listed(a, c) == \E i \in DOMAIN arch[a].list : arch[a].list[i] = c

(* The record of a valid entity names a row of a chunk of its archetype,   *)
(* which holds that entity and its data, and every row of an archetype     *)
(* that is not dropped belongs to a valid entity whose record names it:    *)
(* through swaps, removals, moves, defragmentation, and sorting of what is *)
(* counted right (the updates of EntityContainer::row and pChunk in        *)
(* chunk.h and world.h).                                                   *)
RecordsAgree ==
  /\ \A e \in Entities : Valid(e) =>
       LET r == rec[e]
       IN /\ Listed(r.arch, r.chunk)
          /\ r.row \in DOMAIN chunk[r.chunk].rows
          /\ chunk[r.chunk].rows[r.row] = [ent |-> e, val |-> e]
  /\ \A a \in Archetypes, c \in Chunks : Listed(a, c) /\ ~arch[a].req =>
       \A i \in DOMAIN chunk[c].rows :
         LET r == rec[chunk[c].rows[i].ent] IN r.arch = a /\ r.chunk = c /\ r.row = i

(* A chunk knows its index in its archetype and in the deletion queue,     *)
(* every empty chunk and no deleted one is queued, and its countdown runs  *)
(* exactly while it is: whichever entries of the queues are swapped when   *)
(* one is removed, and also while del_entities erases from the array it    *)
(* iterates, which must not read a deleted chunk.                          *)
ChunksQueued ==
  /\ \A a \in Archetypes : \A i \in DOMAIN arch[a].list :
       LET c == arch[a].list[i] IN chunk[c].live /\ chunk[c].idx = i
  /\ \A i \in DOMAIN queue :
       Listed(queue[i].arch, queue[i].chunk) /\ chunk[queue[i].chunk].slot = i
  /\ \A c \in Chunks : chunk[c].live =>
       /\ \E a \in Archetypes : Listed(a, c)
       /\ chunk[c].rows = <<>> => chunk[c].slot # 0
       /\ chunk[c].slot \in 0..Len(queue)
       /\ chunk[c].slot = 0 <=> chunk[c].life = 0
       /\ chunk[c].slot # 0 => queue[chunk[c].slot].chunk = c
  /\ phase = "finalize" /\ at <= Len(raw) => Listed(cur, raw[at])

(* An archetype waits for its deletion at most once; while it waits and    *)
(* has no chunk its countdown has not ended, which progress_death asserts; *)
(* and one that lost its last chunk and may die does wait.                 *)
ArchetypesQueued ==
  /\ \A i, j \in DOMAIN doomed : doomed[i] = doomed[j] => i = j
  /\ \A i \in DOMAIN doomed :
       LET k == arch[doomed[i]] IN k.live /\ (k.list = <<>> => k.life > 0)
  /\ \A a \in Archetypes :
       /\ arch[a].life > 0 => \E i \in DOMAIN doomed : doomed[i] = a
       /\ arch[a].live /\ arch[a].list = <<>> /\ arch[a].max > 0
            => \E i \in DOMAIN doomed : doomed[i] = a

QueuesAgree == ChunksQueued /\ ArchetypesQueued

(* Every chunk before the free index is full, so that an archetype gets a  *)
(* new chunk only if it has no room left (Archetype::foc_free_chunk); a     *)
(* dropped archetype gets none.                                            *)
RoomIsFound ==
  \A a \in Archetypes : ~arch[a].req =>
    /\ arch[a].free <= Len(arch[a].list) + 1
    /\ \A i \in 1..(arch[a].free - 1) : Full(World, a, arch[a].list[i])

(* What World::enabled asserts: the record of an entity says disabled just *)
(* if its row is one of the disabled rows of its chunk.                    *)
FlagsAgree == \A e \in Entities : Valid(e) => rec[e].dis = IsDisabled(e)

(* What World::valid and the record of an entity say of its archetype.     *)
Place == [e \in Entities |->
  LET r == rec[e]
  IN IF Valid(e) /\ r.row <= Len(chunk[r.chunk].rows) /\ chunk[r.chunk].rows[r.row].ent = e
     THEN r.arch ELSE None]

Abstract == INSTANCE EntityStore WITH place <- Place

(* The storage is a map from entities to archetypes: an operation changes  *)
(* the place of its own entity, and garbage collection and                 *)
(* defragmentation change none.                                            *)
ImplementsStore == Abstract!SSpec

=============================================================================

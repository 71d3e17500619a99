------------------------- MODULE ChunkStorageProofs -------------------------
(***************************************************************************)
(* Proofs about module ChunkStorage, for any entities, archetypes,         *)
(* capacities, lifespans and chunks.                                       *)
(***************************************************************************)
EXTENDS ChunkStorage, FiniteSetTheorems, SequenceTheorems, WellFoundedInduction, TLAPS

(* Types.  While an entity is being added its row has no data yet.         *)
RawRows == [ent : Entities, val : Entities \cup {None}]
ArchSet == [live : BOOLEAN, list : Seq(Chunks), free : Nat \ {0}, life : Nat, max : Nat,
            req : BOOLEAN]
ChunkSet == [live : BOOLEAN, rows : Seq(RawRows), first : Nat, enabled : Nat, idx : Nat,
             life : Nat, slot : Nat]
RecordSet == [arch : Archetypes \cup {None}, chunk : Chunks \cup {None}, row : Nat,
              dis : BOOLEAN]
EntrySet == [arch : Archetypes, chunk : Chunks]
Worlds == [arch : [Archetypes -> ArchSet], chunk : [Chunks -> ChunkSet],
           rec : [Entities -> RecordSet], queue : Seq(EntrySet)]

-----------------------------------------------------------------------------
(* The inductive invariant.  Its parts about the storage are stated of a   *)
(* world, as the operations are.                                           *)

(* A chunk knows its place in the list of its archetype, a list has chunks *)
(* of its archetype, and what does not exist is blank.                     *)
PlacesOK(w) ==
  \A c \in Chunks : IF w.chunk[c].live
    THEN /\ w.chunk[c].idx \in 1..Len(w.arch[c[1]].list)
         /\ w.arch[c[1]].list[w.chunk[c].idx] = c
    ELSE w.chunk[c] = NoChunk

ListsOK(w) ==
  \A a \in Archetypes : \A i \in 1..Len(w.arch[a].list) :
    LET c == w.arch[a].list[i] IN c[1] = a /\ w.chunk[c].live /\ w.chunk[c].idx = i

ListOK(w) ==
  PlacesOK(w) /\ ListsOK(w) /\ \A a \in Archetypes : w.arch[a].live \/ w.arch[a] = NoArch

(* The counters of a chunk are in their ranges.                            *)
RowsOK(w) ==
  \A c \in Chunks :
    /\ w.chunk[c].first <= Len(w.chunk[c].rows)
    /\ Len(w.chunk[c].rows) <= Capacity[c[1]]
    /\ w.chunk[c].enabled < CountMax
    /\ w.chunk[c].life <= ChunkLife

(* The deletion queue has the chunks that count down, and each of them     *)
(* knows its place in the queue.                                           *)
QueueOK(w) ==
  /\ \A i \in 1..Len(w.queue) :
       LET c == w.queue[i].chunk
       IN w.queue[i].arch = c[1] /\ w.chunk[c].live /\ w.chunk[c].slot = i
  /\ \A c \in Chunks :
       /\ w.chunk[c].slot = 0 <=> w.chunk[c].life = 0
       /\ w.chunk[c].slot # 0 =>
            w.chunk[c].slot <= Len(w.queue) /\ w.queue[w.chunk[c].slot].chunk = c

(* The empty chunks are in it, but for those in D.                         *)
EmptyOK(w, D) ==
  \A c \in Chunks \ D : w.chunk[c].live /\ w.chunk[c].rows = <<>> => w.chunk[c].slot # 0

(* Before the free index of an archetype there is no room.                 *)
RoomOK(w) ==
  \A a \in Archetypes : ~w.arch[a].req =>
    /\ w.arch[a].free <= Len(w.arch[a].list) + 1
    /\ \A i \in 1..(w.arch[a].free - 1) : Full(w, a, w.arch[a].list[i])

(* Every row but x has its entity, whose record names it, and its data;    *)
(* the entities in E have no row, the other valid ones have that which     *)
(* their record names.                                                     *)
NamedBy(r, c, i) == r.arch = c[1] /\ r.chunk = c /\ r.row = i

RowsNamed(w, x, E) ==
  \A c \in Chunks : \A i \in 1..Len(w.chunk[c].rows) : <<c, i>> # x =>
    LET r == w.chunk[c].rows[i]
    IN r.val = r.ent /\ r.ent \notin E /\ NamedBy(w.rec[r.ent], c, i)

HasRow(w, e) ==
  LET r == w.rec[e]
  IN /\ r.chunk \in Chunks /\ r.chunk[1] = r.arch
     /\ r.row \in 1..Len(w.chunk[r.chunk].rows)
     /\ w.chunk[r.chunk].rows[r.row].ent = e

IsValid(w, e) == w.rec[e].arch # None /\ ~w.arch[w.rec[e].arch].req

Agree(w, x, E) ==
  RowsNamed(w, x, E) /\ \A e \in Entities \ E : IsValid(w, e) => HasRow(w, e)

NoRow == <<>>

BaseOK(w) == w \in Worlds /\ ListOK(w) /\ RowsOK(w) /\ QueueOK(w) /\ RoomOK(w)

StorageOK(w) == BaseOK(w) /\ EmptyOK(w, {}) /\ Agree(w, NoRow, {})

(* The locals of the clean-up's loops.                                     *)
LoopsOK ==
  /\ doomed \in Seq(Archetypes)
  /\ phase \in {"idle", "finalize", "chunks", "defrag", "archetypes"}
  /\ at \in Nat \ {0} /\ raw \in Seq(Chunks)
  /\ cur \in Archetypes \cup {None} /\ front \in Nat /\ back \in Nat
  /\ moves \in 0..Moves /\ todo \subseteq Archetypes
  /\ \A a \in Archetypes : arch[a].max \in Lifespans[a] \cup {0, 1}
  /\ phase # "finalize" => raw = <<>>
  /\ phase \in {"idle", "defrag"} => at = 1
  /\ phase \notin {"finalize", "defrag"} => cur = None
  /\ phase # "defrag" => front >= back

(* A dropped archetype is not immortal; its chunks go first.               *)
DroppedOK ==
  \A a \in Archetypes : arch[a].req =>
    /\ arch[a].max > 0
    /\ arch[a].list # <<>> => phase = "finalize" /\ (a \in todo \/ a = cur)

(* del_entities iterates the array it erases from.  Up to the end of the   *)
(* list the memory is the list; behind it, it mirrors what was moved into  *)
(* the gaps in front, which the loop has passed.                           *)
FinalizeOK ==
  phase = "finalize" =>
    /\ \A a \in todo : arch[a].req
    /\ IF cur = None THEN raw = <<>> /\ at = 1
       ELSE LET list == arch[cur].list
                n == Len(raw)
            IN /\ arch[cur].req
               /\ Len(list) = n - at + 1
               /\ \A j \in 1..Len(list) : raw[j] = list[j]
               /\ \A j \in at..n : j > Len(list) => raw[j] = list[n - j + 1]

(* Entities are moved to a chunk with room.                                *)
DefragOK ==
  phase = "defrag" /\ front < back =>
    /\ cur \in Archetypes /\ front > 0 /\ back <= Len(arch[cur].list)
    /\ ~Full(World, cur, arch[cur].list[front])

(* m_archetypesToDel has those that count down and those that may die.     *)
(* One whose countdown was reset by a chunk that is in use again is there  *)
(* until the loop over archetypes comes by, and keeps a chunk.             *)
Kept(i) ==
  LET a == doomed[i]
  IN \/ phase = "chunks" /\ \E c \in Chunks : c[1] = a /\ chunk[c].rows # <<>>
     \/ phase = "defrag" /\ arch[a].list # <<>>
     \/ phase = "archetypes" /\ i >= at /\ arch[a].list # <<>>

DoomedOK ==
  /\ \A i, j \in 1..Len(doomed) : doomed[i] = doomed[j] => i = j
  /\ \A i \in 1..Len(doomed) : arch[doomed[i]].live /\ (arch[doomed[i]].life = 0 => Kept(i))
  /\ \A a \in Archetypes :
       arch[a].life > 0 \/ (arch[a].live /\ arch[a].list = <<>> /\ arch[a].max > 0)
         => \E i \in 1..Len(doomed) : doomed[i] = a

(* The inductive invariant of the storage and of the clean-up that works on*)
(* it.                                                                     *)
IInv ==
  StorageOK(World) /\ LoopsOK /\ DroppedOK /\ FinalizeOK /\ DefragOK /\ DoomedOK

-----------------------------------------------------------------------------
(* Sequences and worlds                                                    *)

(* The last element fills the gap.                                         *)
LEMMA SwapErased ==
  ASSUME NEW S, NEW s \in Seq(S), NEW i \in 1..Len(s)
  PROVE  /\ SwapErase(s, i) \in Seq(S)
         /\ Len(SwapErase(s, i)) = Len(s) - 1
         /\ \A j \in 1..(Len(s) - 1) : SwapErase(s, i)[j] = IF j = i THEN s[Len(s)] ELSE s[j]
<1> DEFINE n == Len(s)
           t == [s EXCEPT ![i] = s[n]]
<1>1. n \in Nat /\ s[n] \in S /\ n \in 1..n
  BY ElementOfSeq, LenProperties
<1>2. t \in Seq(S) /\ Len(t) = n /\ \A j \in 1..n : t[j] = IF j = i THEN s[n] ELSE s[j]
  BY <1>1, ExceptSeq
<1>3. SwapErase(s, i) = SubSeq(t, 1, n - 1)
  BY DEF SwapErase
<1> HIDE DEF t, n
<1>4. \A j \in 1..(n - 1) : j \in 1..n /\ t[j] \in S
  BY <1>1, <1>2, ElementOfSeq
<1>5. /\ SubSeq(t, 1, n - 1) \in Seq(S)
      /\ Len(SubSeq(t, 1, n - 1)) = IF 1 <= n - 1 THEN n - 1 - 1 + 1 ELSE 0
      /\ \A j \in 1..(n - 1) - 1 + 1 : SubSeq(t, 1, n - 1)[j] = t[1 + j - 1]
  BY <1>1, <1>4, SubSeqProperties
<1>6. Len(SubSeq(t, 1, n - 1)) = n - 1 /\ \A j \in 1..(n - 1) : SubSeq(t, 1, n - 1)[j] = t[j]
  BY <1>1, <1>5
<1>. QED  BY <1>1, <1>2, <1>3, <1>4, <1>5, <1>6 DEF n

(* The parts of a world.                                                   *)
LEMMA Parts ==
  ASSUME NEW w \in Worlds
  PROVE  /\ w = [arch |-> w.arch, chunk |-> w.chunk, rec |-> w.rec, queue |-> w.queue]
         /\ w.arch \in [Archetypes -> ArchSet] /\ w.chunk \in [Chunks -> ChunkSet]
         /\ w.rec \in [Entities -> RecordSet] /\ w.queue \in Seq(EntrySet)
BY DEF Worlds

(* The rows of a chunk are a sequence of rows that name entities.          *)
LEMMA RowsOfChunk ==
  ASSUME NEW w \in Worlds, NEW c \in Chunks
  PROVE  /\ w.chunk[c].rows \in Seq(RawRows) /\ Len(w.chunk[c].rows) \in Nat
         /\ \A i \in 1..Len(w.chunk[c].rows) :
              w.chunk[c].rows[i] \in RawRows /\ w.chunk[c].rows[i].ent \in Entities
<1>1. w.chunk[c].rows \in Seq(RawRows)
  BY Parts DEF ChunkSet
<1>2. \A i \in 1..Len(w.chunk[c].rows) : w.chunk[c].rows[i] \in RawRows
  BY <1>1, ElementOfSeq
<1>. QED  BY <1>1, <1>2, LenProperties DEF RawRows

(* Updates of one part of a world.                                         *)
PutChunk(w, c, k) == [w EXCEPT !.chunk[c] = k]
(* Worlds that differ in one record, archetype or in the queue.            *)
PutRecord(w, e, r) == [w EXCEPT !.rec[e] = r]
PutArch(w, a, k) == [w EXCEPT !.arch[a] = k]
PutQueue(w, q) == [w EXCEPT !.queue = q]

(* Putting a chunk in place changes nothing but it.                        *)
LEMMA ChunkPut ==
  ASSUME NEW w \in Worlds, NEW c \in Chunks, NEW k \in ChunkSet
  PROVE  LET v == PutChunk(w, c, k)
         IN /\ v \in Worlds /\ v.arch = w.arch /\ v.rec = w.rec /\ v.queue = w.queue
            /\ v.chunk = [w.chunk EXCEPT ![c] = k]
BY DEF Worlds, PutChunk

(* Putting a record in place changes nothing but it.                       *)
LEMMA RecordPut ==
  ASSUME NEW w \in Worlds, NEW e \in Entities, NEW r \in RecordSet
  PROVE  LET v == PutRecord(w, e, r)
         IN /\ v \in Worlds /\ v.arch = w.arch /\ v.chunk = w.chunk /\ v.queue = w.queue
            /\ v.rec = [w.rec EXCEPT ![e] = r]
BY DEF Worlds, PutRecord

(* Putting an archetype in place changes nothing but it.                   *)
LEMMA ArchPut ==
  ASSUME NEW w \in Worlds, NEW a \in Archetypes, NEW k \in ArchSet
  PROVE  LET v == PutArch(w, a, k)
         IN /\ v \in Worlds /\ v.chunk = w.chunk /\ v.rec = w.rec /\ v.queue = w.queue
            /\ v.arch = [w.arch EXCEPT ![a] = k]
BY DEF Worlds, PutArch

(* Putting the deletion queue in place changes nothing but it.             *)
LEMMA QueuePut ==
  ASSUME NEW w \in Worlds, NEW q \in Seq(EntrySet)
  PROVE  LET v == PutQueue(w, q)
         IN /\ v \in Worlds /\ v.arch = w.arch /\ v.chunk = w.chunk /\ v.rec = w.rec
            /\ v.queue = q
BY DEF Worlds, PutQueue

(* What RowsNamed says of one row: the record of its entity names it, and  *)
(* its data is the entity's.                                               *)
LEMMA RowNamed ==
  ASSUME NEW w, NEW x, NEW E, RowsNamed(w, x, E), NEW c \in Chunks,
         NEW i \in 1..Len(w.chunk[c].rows), <<c, i>> # x
  PROVE  LET r == w.chunk[c].rows[i]
         IN /\ r.val = r.ent /\ r.ent \notin E
            /\ w.rec[r.ent].arch = c[1] /\ w.rec[r.ent].chunk = c /\ w.rec[r.ent].row = i
BY DEF RowsNamed, NamedBy

-----------------------------------------------------------------------------
(* Rows                                                                    *)

(* Only the rows of chunk c, their counters, and the rows that records     *)
(* name differ.                                                            *)
RowsOnly(w, v, c) ==
  /\ v \in Worlds /\ v.arch = w.arch /\ v.queue = w.queue
  /\ \A d \in Chunks : d # c => v.chunk[d] = w.chunk[d]
  /\ v.chunk[c].live = w.chunk[c].live /\ v.chunk[c].idx = w.chunk[c].idx
  /\ v.chunk[c].life = w.chunk[c].life /\ v.chunk[c].slot = w.chunk[c].slot
  /\ \A e \in Entities : v.rec[e].arch = w.rec[e].arch /\ v.rec[e].chunk = w.rec[e].chunk

(* Two changes of the rows of one chunk are one change of its rows.        *)
LEMMA RowsOnlyTwice ==
  ASSUME NEW u, NEW v, NEW w, NEW c \in Chunks, RowsOnly(w, v, c), RowsOnly(v, u, c)
  PROVE  RowsOnly(w, u, c)
BY DEF RowsOnly

(* ec.row = m leaves the rest of a record.                                 *)
LEMMA RowOfRecord ==
  ASSUME NEW s \in RecordSet, NEW m \in Nat
  PROVE  LET t == [s EXCEPT !.row = m]
         IN t \in RecordSet /\ t.row = m /\ t.arch = s.arch /\ t.chunk = s.chunk /\ t.dis = s.dis
BY DEF RecordSet

(* New rows leave the rest of a chunk.                                     *)
LEMMA RowsOfChunkPut ==
  ASSUME NEW k \in ChunkSet, NEW q \in Seq(RawRows)
  PROVE  LET l == [k EXCEPT !.rows = q]
         IN /\ l \in ChunkSet /\ l.rows = q /\ l.first = k.first /\ l.enabled = k.enabled
            /\ l.live = k.live /\ l.idx = k.idx /\ l.life = k.life /\ l.slot = k.slot
BY DEF ChunkSet

(* A swap of two rows.                                                     *)
LEMMA RowsSwapped ==
  ASSUME NEW w \in Worlds, NEW c \in Chunks, NEW i \in 1..Len(w.chunk[c].rows),
         NEW j \in 1..Len(w.chunk[c].rows), NEW x, NEW E, Agree(w, x, E),
         \A m \in Nat : <<c, m>> # x
  PROVE  LET v == SwapRows(w, c, i, j)
             r == w.chunk[c].rows
         IN /\ RowsOnly(w, v, c) /\ Agree(v, x, E)
            /\ v.chunk[c].first = w.chunk[c].first /\ v.chunk[c].enabled = w.chunk[c].enabled
            /\ Len(v.chunk[c].rows) = Len(r)
            /\ v.chunk[c].rows[i] = r[j] /\ v.chunk[c].rows[j] = r[i]
<1> DEFINE r == w.chunk[c].rows
           n == Len(r)
           f == r[i].ent
           g == r[j].ent
           v == SwapRows(w, c, i, j)
<1>r. r \in Seq(RawRows) /\ n \in Nat /\ \A m \in 1..n : r[m] \in RawRows /\ r[m].ent \in Entities
  BY RowsOfChunk
<1>1. CASE i = j
  <2>1. v = w
    BY <1>1 DEF SwapRows
  <2>2. RowsOnly(w, w, c)
    BY DEF RowsOnly
  <2>. QED  BY <1>1, <2>1, <2>2
<1>2. CASE i # j
  <2> DEFINE R == [r EXCEPT ![i] = r[j], ![j] = r[i]]
             K == [w.chunk[c] EXCEPT !.rows = R]
             F == [w.rec[f] EXCEPT !.row = j]
             G == [w.rec[g] EXCEPT !.row = i]
  <2>n. \A m \in 1..n : m \in Nat /\ <<c, m>> # x
    BY <1>r
  <2>f. \A m \in 1..n : NamedBy(w.rec[r[m].ent], c, m) /\ r[m].ent \notin E /\ r[m].val = r[m].ent
    BY <2>n DEF Agree, RowsNamed
  <2>g. f \in Entities /\ g \in Entities /\ f # g
    BY Zenon, <1>r, <1>2, <2>f DEF NamedBy
  <2>1. /\ R \in Seq(RawRows) /\ Len(R) = n
        /\ \A m \in 1..n : R[m] = IF m = i THEN r[j] ELSE IF m = j THEN r[i] ELSE r[m]
    <3> DEFINE Q == [r EXCEPT ![i] = r[j]]
    <3>1. Q \in Seq(RawRows) /\ Len(Q) = n /\ \A m \in 1..n : Q[m] = IF m = i THEN r[j] ELSE r[m]
      BY <1>r, ExceptSeq
    <3>2. /\ [Q EXCEPT ![j] = r[i]] \in Seq(RawRows) /\ Len([Q EXCEPT ![j] = r[i]]) = n
          /\ \A m \in 1..n : [Q EXCEPT ![j] = r[i]][m] = IF m = j THEN r[i] ELSE Q[m]
      <4> HIDE DEF Q
      <4>. QED  BY <1>r, <3>1, ExceptSeq
    <3>3. R = [Q EXCEPT ![j] = r[i]]
      OBVIOUS
    <3> HIDE DEF Q, R
    <3>. QED  BY <1>2, <3>1, <3>2, <3>3
  <2>2. K \in ChunkSet /\ K.rows = R /\ K.first = w.chunk[c].first /\ K.enabled = w.chunk[c].enabled
        /\ K.live = w.chunk[c].live /\ K.idx = w.chunk[c].idx /\ K.life = w.chunk[c].life
        /\ K.slot = w.chunk[c].slot
    <3>1. w.chunk[c] \in ChunkSet
      BY Parts
    <3> HIDE DEF R
    <3>. QED  BY <3>1, <2>1, RowsOfChunkPut
  <2>3. /\ F \in RecordSet /\ F.row = j /\ F.arch = w.rec[f].arch /\ F.chunk = w.rec[f].chunk
        /\ G \in RecordSet /\ G.row = i /\ G.arch = w.rec[g].arch /\ G.chunk = w.rec[g].chunk
    <3>1. w.rec[f] \in RecordSet /\ w.rec[g] \in RecordSet
      BY <2>g, Parts
    <3>2. i \in Nat /\ j \in Nat
      BY <1>r
    <3> HIDE DEF f, g
    <3>. QED  BY <3>1, <3>2, RowOfRecord
  <2>4. v = PutRecord(PutRecord(PutChunk(w, c, K), f, F), g, G)
    <3>1. v = [w EXCEPT !.chunk[c].rows = R, !.rec[f].row = j, !.rec[g].row = i]
      BY <1>2 DEF SwapRows
    <3> HIDE DEF R, f, g
    <3>. QED  BY <3>1, <2>g, Parts DEF PutRecord, PutChunk
  <2> HIDE DEF R, K, F, G, v, f, g
  <2>5. v \in Worlds /\ v.arch = w.arch /\ v.queue = w.queue
        /\ v.chunk = [w.chunk EXCEPT ![c] = K] /\ v.rec = [w.rec EXCEPT ![f] = F, ![g] = G]
    <3> DEFINE p == PutChunk(w, c, K)
               q == PutRecord(p, f, F)
    <3>1. p \in Worlds /\ p.arch = w.arch /\ p.rec = w.rec /\ p.queue = w.queue
          /\ p.chunk = [w.chunk EXCEPT ![c] = K]
      BY <2>2, ChunkPut
    <3> HIDE DEF p
    <3>2. q \in Worlds /\ q.arch = p.arch /\ q.chunk = p.chunk /\ q.queue = p.queue
          /\ q.rec = [p.rec EXCEPT ![f] = F]
      BY <2>g, <2>3, <3>1, RecordPut
    <3> HIDE DEF q
    <3>3. LET u == PutRecord(q, g, G)
          IN /\ u \in Worlds /\ u.arch = q.arch /\ u.chunk = q.chunk /\ u.queue = q.queue
             /\ u.rec = [q.rec EXCEPT ![g] = G]
      BY <2>g, <2>3, <3>2, RecordPut
    <3>. QED  BY <2>4, <3>1, <3>2, <3>3 DEF q, p
  <2>6. /\ v.chunk[c] = K /\ \A d \in Chunks : d # c => v.chunk[d] = w.chunk[d]
        /\ v.rec[f] = F /\ v.rec[g] = G
        /\ \A e \in Entities : e # f /\ e # g => v.rec[e] = w.rec[e]
    <3>1. w.chunk \in [Chunks -> ChunkSet] /\ w.rec \in [Entities -> RecordSet]
      BY Parts
    <3>. QED  BY <3>1, <2>5, <2>g
  <2>7. RowsOnly(w, v, c)
    BY <2>2, <2>3, <2>5, <2>6 DEF RowsOnly
  <2>8. RowsNamed(v, x, E)
    <3> SUFFICES ASSUME NEW d \in Chunks, NEW m \in 1..Len(v.chunk[d].rows), <<d, m>> # x
                 PROVE  LET s == v.chunk[d].rows[m]
                        IN s.val = s.ent /\ s.ent \notin E /\ NamedBy(v.rec[s.ent], d, m)
      BY DEF RowsNamed
    <3>1. CASE d = c
      <4>1. m \in 1..n /\ v.chunk[d].rows[m] = IF m = i THEN r[j] ELSE IF m = j THEN r[i] ELSE r[m]
        BY <3>1, <2>1, <2>2, <2>6
      <4>2. CASE m = i
        <5>1. v.chunk[d].rows[m] = r[j] /\ v.rec[r[j].ent] = G
          BY <4>1, <4>2, <2>6 DEF g
        <5>2. r[j].val = r[j].ent /\ r[j].ent \notin E
          BY Zenon, <2>f DEF g
        <5>3. NamedBy(v.rec[r[j].ent], d, m)
          BY Zenon, <5>1, <4>2, <3>1, <2>3, <2>f DEF NamedBy, g
        <5>. QED  BY Zenon, <5>1, <5>2, <5>3
      <4>3. CASE m = j /\ m # i
        <5>1. v.chunk[d].rows[m] = r[i] /\ v.rec[r[i].ent] = F
          BY <4>1, <4>3, <2>6 DEF f
        <5>2. r[i].val = r[i].ent /\ r[i].ent \notin E
          BY Zenon, <2>f DEF f
        <5>3. NamedBy(v.rec[r[i].ent], d, m)
          BY Zenon, <5>1, <4>3, <3>1, <2>3, <2>f DEF NamedBy, f
        <5>. QED  BY Zenon, <5>1, <5>2, <5>3
      <4>4. CASE m # i /\ m # j
        <5>1. v.chunk[d].rows[m] = r[m]
          BY <4>1, <4>4
        <5>2. r[m].ent # f /\ r[m].ent # g
          BY Zenon, <4>1, <4>4, <2>f DEF NamedBy, f, g
        <5>3. v.rec[r[m].ent] = w.rec[r[m].ent]
          BY Zenon, <5>2, <4>1, <1>r, <2>6
        <5>. QED  BY Zenon, <5>1, <5>3, <4>1, <3>1, <2>f
      <4>. QED  BY Zenon, <4>2, <4>3, <4>4
    <3>2. CASE d # c
      <4> DEFINE s == w.chunk[d].rows[m]
      <4>1. v.chunk[d] = w.chunk[d] /\ s.ent \in Entities
        BY <3>2, <2>6, RowsOfChunk
      <4>2. s.val = s.ent /\ s.ent \notin E /\ NamedBy(w.rec[s.ent], d, m)
        BY <4>1 DEF Agree, RowsNamed
      <4>3. s.ent # f /\ s.ent # g
        <5>1. w.rec[s.ent].chunk = d
          BY <4>2 DEF NamedBy
        <5>2. w.rec[f].chunk = c /\ w.rec[g].chunk = c
          BY Zenon, <2>f DEF NamedBy, f, g
        <5> HIDE DEF s
        <5>. QED  BY Zenon, <3>2, <5>1, <5>2
      <4>4. v.rec[s.ent] = w.rec[s.ent]
        BY <4>1, <4>3, <2>6
      <4>. QED  BY Zenon, <4>1, <4>2, <4>4
    <3>. QED  BY Zenon, <3>1, <3>2
  <2>9. ASSUME NEW e \in Entities \ E, IsValid(v, e)
        PROVE  HasRow(v, e)
    <3>1. IsValid(w, e)
      BY <2>9, <2>5, <2>7 DEF IsValid, RowsOnly
    <3>2. HasRow(w, e)
      BY <3>1 DEF Agree
    <3>3. CASE e = f
      <4>1. v.rec[e].arch = c[1] /\ v.rec[e].chunk = c /\ v.rec[e].row = j
        BY Zenon, <3>3, <2>f, <2>3, <2>6 DEF NamedBy, f
      <4>2. v.chunk[c].rows = R /\ R[j].ent = e
        BY <3>3, <2>1, <2>2, <2>6 DEF f
      <4>. QED  BY <4>1, <4>2, <2>1 DEF HasRow
    <3>4. CASE e = g
      <4>1. v.rec[e].arch = c[1] /\ v.rec[e].chunk = c /\ v.rec[e].row = i
        BY Zenon, <3>4, <2>f, <2>3, <2>6 DEF NamedBy, g
      <4>2. v.chunk[c].rows = R /\ R[i].ent = e
        BY <3>4, <2>1, <2>2, <2>6 DEF g
      <4>. QED  BY <4>1, <4>2, <2>1 DEF HasRow
    <3>5. CASE e # f /\ e # g
      <4>1. v.rec[e] = w.rec[e]
        BY <3>5, <2>6
      <4>2. CASE w.rec[e].chunk = c
        <5>1. w.rec[e].row \in 1..n /\ r[w.rec[e].row].ent = e
          BY Zenon, <3>2, <4>2 DEF HasRow
        <5>2. w.rec[e].row # i /\ w.rec[e].row # j
          BY Zenon, <5>1, <3>5 DEF f, g
        <5>3. v.chunk[c].rows[w.rec[e].row] = r[w.rec[e].row] /\ Len(v.chunk[c].rows) = n
          BY Zenon, <5>1, <5>2, <2>1, <2>2, <2>6
        <5>. QED  BY Zenon, <3>2, <4>1, <4>2, <5>1, <5>3 DEF HasRow
      <4>3. CASE w.rec[e].chunk # c
        <5>1. v.chunk[w.rec[e].chunk] = w.chunk[w.rec[e].chunk]
          BY Zenon, <3>2, <4>3, <2>6 DEF HasRow
        <5>. QED  BY Zenon, <5>1, <3>2, <4>1 DEF HasRow
      <4>. QED  BY <4>2, <4>3
    <3>. QED  BY <3>3, <3>4, <3>5
  <2>. QED  BY <2>1, <2>2, <2>6, <2>7, <2>8, <2>9 DEF Agree, v
<1>. QED  BY <1>1, <1>2

(* What Agree looks at.                                                    *)
LEMMA AgreeKept ==
  ASSUME NEW w \in Worlds, NEW v, NEW x, NEW E, Agree(w, x, E),
         \A c \in Chunks : v.chunk[c].rows = w.chunk[c].rows,
         \A a \in Archetypes : v.arch[a].req = w.arch[a].req,
         \A e \in Entities : /\ v.rec[e].arch = w.rec[e].arch /\ v.rec[e].chunk = w.rec[e].chunk
                             /\ v.rec[e].row = w.rec[e].row
  PROVE  Agree(v, x, E)
<1>1. RowsNamed(v, x, E)
  <2> SUFFICES ASSUME NEW c \in Chunks, NEW i \in 1..Len(v.chunk[c].rows), <<c, i>> # x
               PROVE  LET r == v.chunk[c].rows[i]
                      IN r.val = r.ent /\ r.ent \notin E /\ NamedBy(v.rec[r.ent], c, i)
    BY DEF RowsNamed
  <2>1. v.chunk[c].rows = w.chunk[c].rows /\ w.chunk[c].rows[i].ent \in Entities
    BY RowsOfChunk
  <2>2. LET r == w.chunk[c].rows[i]
        IN r.val = r.ent /\ r.ent \notin E /\ NamedBy(w.rec[r.ent], c, i)
    BY <2>1 DEF Agree, RowsNamed
  <2>. QED  BY Zenon, <2>1, <2>2 DEF NamedBy
<1>2. ASSUME NEW e \in Entities \ E, IsValid(v, e)
      PROVE  HasRow(v, e)
  <2>1. w.rec[e] \in RecordSet
    BY Parts
  <2>2. IsValid(w, e)
    BY <1>2, <2>1 DEF IsValid, RecordSet
  <2>3. HasRow(w, e)
    BY <2>2 DEF Agree
  <2>. QED  BY Zenon, <2>3 DEF HasRow
<1>. QED  BY <1>1, <1>2 DEF Agree

(* Rows of one chunk may change while its counters stay in their ranges.   *)
LEMMA RowsStayOK ==
  ASSUME NEW w \in Worlds, NEW v, NEW c \in Chunks, RowsOK(w), RowsOnly(w, v, c),
         v.chunk[c].first <= Len(v.chunk[c].rows), Len(v.chunk[c].rows) <= Capacity[c[1]],
         v.chunk[c].enabled < CountMax
  PROVE  RowsOK(v)
BY DEF RowsOK, RowsOnly

(* A remainder is below the modulus.                                       *)
LEMMA Remainder ==
  ASSUME NEW k \in Int, NEW m \in Nat \ {0}
  PROVE  k % m \in 0..(m - 1)
OBVIOUS

(* The 16-bit count of enabled entities stays in its width when it is      *)
(* stepped.                                                                *)
LEMMA Counted ==
  ASSUME NEW n \in Nat
  PROVE  /\ (n + 1) % CountMax \in Nat /\ (n + 1) % CountMax < CountMax
         /\ (n - 1) % CountMax \in Nat /\ (n - 1) % CountMax < CountMax
<1>1. CountMax \in Nat \ {0}
  BY StorageAssumption
<1>2. \A k \in Int : k % CountMax \in 0..(CountMax - 1)
  BY <1>1, Remainder
<1>3. n + 1 \in Int /\ n - 1 \in Int
  OBVIOUS
<1>4. (n + 1) % CountMax \in 0..(CountMax - 1) /\ (n - 1) % CountMax \in 0..(CountMax - 1)
  BY <1>2, <1>3
<1>. QED  BY <1>1, <1>4

(* A chunk with other counters of disabled and enabled rows.               *)
Recount(k, f, m) == [k EXCEPT !.first = f, !.enabled = m]

(* Writing the counters leaves the rest of a chunk.                        *)
LEMMA CountersPut ==
  ASSUME NEW k \in ChunkSet, NEW f \in Nat, NEW m \in Nat
  PROVE  LET l == Recount(k, f, m)
         IN /\ l \in ChunkSet /\ l.rows = k.rows /\ l.first = f /\ l.enabled = m
            /\ l.live = k.live /\ l.idx = k.idx /\ l.life = k.life /\ l.slot = k.slot
BY DEF ChunkSet, Recount

(* ec.flags.dis = b.                                                       *)
Flag(r, b) == [r EXCEPT !.dis = b]

(* Writing the flag leaves the rest of a record.                           *)
LEMMA FlagOfRecord ==
  ASSUME NEW s \in RecordSet, NEW b \in BOOLEAN
  PROVE  LET t == Flag(s, b)
         IN t \in RecordSet /\ t.row = s.row /\ t.arch = s.arch /\ t.chunk = s.chunk /\ t.dis = b
BY DEF RecordSet, Flag

(* New counters of a chunk.                                                *)
LEMMA Recounted ==
  ASSUME NEW w \in Worlds, NEW c \in Chunks, NEW f \in Nat, NEW m \in Nat,
         NEW x, NEW E, Agree(w, x, E)
  PROVE  LET v == PutChunk(w, c, Recount(w.chunk[c], f, m))
         IN /\ RowsOnly(w, v, c) /\ Agree(v, x, E) /\ v.rec = w.rec
            /\ v.chunk[c].first = f /\ v.chunk[c].enabled = m
            /\ v.chunk[c].rows = w.chunk[c].rows
<1> DEFINE K == Recount(w.chunk[c], f, m)
           v == PutChunk(w, c, K)
<1>1. w.chunk[c] \in ChunkSet /\ w.chunk \in [Chunks -> ChunkSet]
  BY Parts
<1>2. /\ K \in ChunkSet /\ K.rows = w.chunk[c].rows /\ K.first = f /\ K.enabled = m
      /\ K.live = w.chunk[c].live /\ K.idx = w.chunk[c].idx /\ K.life = w.chunk[c].life
      /\ K.slot = w.chunk[c].slot
  BY <1>1, CountersPut
<1> HIDE DEF K
<1>3. /\ v \in Worlds /\ v.arch = w.arch /\ v.rec = w.rec /\ v.queue = w.queue
      /\ v.chunk = [w.chunk EXCEPT ![c] = K]
  BY <1>2, ChunkPut
<1> HIDE DEF v
<1>4. v.chunk[c] = K /\ \A d \in Chunks : d # c => v.chunk[d] = w.chunk[d]
  BY <1>1, <1>3
<1>5. RowsOnly(w, v, c)
  BY <1>2, <1>3, <1>4 DEF RowsOnly
<1>6. \A d \in Chunks : v.chunk[d].rows = w.chunk[d].rows
  BY <1>2, <1>4
<1>7. Agree(v, x, E)
  BY <1>3, <1>6, AgreeKept
<1>. QED  BY <1>2, <1>3, <1>4, <1>5, <1>7 DEF v, K

(* A new flag in a record.                                                 *)
LEMMA Flagged ==
  ASSUME NEW w \in Worlds, NEW c \in Chunks, NEW e \in Entities, NEW b \in BOOLEAN,
         NEW x, NEW E, Agree(w, x, E)
  PROVE  LET v == PutRecord(w, e, Flag(w.rec[e], b))
         IN RowsOnly(w, v, c) /\ Agree(v, x, E) /\ v.chunk = w.chunk
<1> DEFINE R == Flag(w.rec[e], b)
           v == PutRecord(w, e, R)
<1>1. w.rec[e] \in RecordSet /\ w.rec \in [Entities -> RecordSet]
  BY Parts
<1>2. /\ R \in RecordSet /\ R.row = w.rec[e].row /\ R.arch = w.rec[e].arch
      /\ R.chunk = w.rec[e].chunk
  BY <1>1, FlagOfRecord
<1> HIDE DEF R
<1>3. /\ v \in Worlds /\ v.arch = w.arch /\ v.chunk = w.chunk /\ v.queue = w.queue
      /\ v.rec = [w.rec EXCEPT ![e] = R]
  BY <1>2, RecordPut
<1> HIDE DEF v
<1>4. \A g \in Entities : /\ v.rec[g].arch = w.rec[g].arch /\ v.rec[g].chunk = w.rec[g].chunk
                          /\ v.rec[g].row = w.rec[g].row
  BY <1>1, <1>2, <1>3
<1>5. RowsOnly(w, v, c)
  BY <1>3, <1>4 DEF RowsOnly
<1>6. Agree(v, x, E)
  BY <1>3, <1>4, AgreeKept
<1>. QED  BY <1>3, <1>5, <1>6 DEF v, R

(* A swap and a new counter of the disabled rows.                          *)
RowsKept(w, v, c, x, E) ==
  /\ RowsOnly(w, v, c) /\ Agree(v, x, E) /\ RowsOK(v)
  /\ Len(v.chunk[c].rows) = Len(w.chunk[c].rows)

(* Chunk::enable_entity: after the swap of rows i and j and the move of the*)
(* border, every row still has the entity whose record names it.           *)
LEMMA RowMarked ==
  ASSUME NEW w \in Worlds, NEW c \in Chunks, NEW i \in 1..Len(w.chunk[c].rows),
         NEW j \in 1..Len(w.chunk[c].rows), NEW x, NEW E, Agree(w, x, E), RowsOK(w),
         \A m \in Nat : <<c, m>> # x,
         NEW e \in Entities, NEW off \in BOOLEAN,
         IF off THEN w.chunk[c].first < Len(w.chunk[c].rows) ELSE w.chunk[c].first > 0
  PROVE  RowsKept(w, Mark(SwapRows(w, c, i, j), c, e, off), c, x, E)
<1> DEFINE n == Len(w.chunk[c].rows)
           u == SwapRows(w, c, i, j)
           k == u.chunk[c]
           f == IF off THEN k.first + 1 ELSE k.first - 1
           m == (IF off THEN k.enabled - 1 ELSE k.enabled + 1) % CountMax
           p == PutChunk(u, c, Recount(k, f, m))
           q == PutRecord(p, e, Flag(p.rec[e], off))
           v == Mark(u, c, e, off)
<1>1. /\ RowsOnly(w, u, c) /\ Agree(u, x, E) /\ Len(u.chunk[c].rows) = n
      /\ k.first = w.chunk[c].first /\ k.enabled = w.chunk[c].enabled
  BY RowsSwapped
<1>2. v = PutRecord(PutChunk(u, c, Recount(k, f, m)), e, Flag(u.rec[e], off))
  <2> HIDE DEF u
  <2>1. u \in Worlds
    BY <1>1 DEF RowsOnly
  <2>. QED  BY <2>1, Parts DEF Mark, PutRecord, PutChunk, Recount, Flag
<1>3. f \in 0..n /\ m \in Nat /\ m < CountMax
  <2>1. w.chunk[c] \in ChunkSet
    BY Parts
  <2>2. k.first \in Nat /\ k.enabled \in Nat
    BY <1>1, <2>1 DEF ChunkSet
  <2>3. n \in Nat /\ k.first <= n
    BY <1>1, RowsOfChunk DEF RowsOK
  <2>4. /\ (k.enabled + 1) % CountMax \in Nat /\ (k.enabled + 1) % CountMax < CountMax
        /\ (k.enabled - 1) % CountMax \in Nat /\ (k.enabled - 1) % CountMax < CountMax
    BY <2>2, Counted
  <2>5. f \in 0..n
    BY <1>1, <2>2, <2>3
  <2>6. m = IF off THEN (k.enabled - 1) % CountMax ELSE (k.enabled + 1) % CountMax
    BY Zenon
  <2> HIDE DEF m, k
  <2>. QED  BY <2>4, <2>5, <2>6
<1> HIDE DEF u, f, m, v
<1>4. u \in Worlds /\ f \in Nat
  BY <1>1, <1>3, RowsOfChunk DEF RowsOnly
<1>5. /\ RowsOnly(u, p, c) /\ Agree(p, x, E) /\ p.rec = u.rec
      /\ p.chunk[c].first = f /\ p.chunk[c].enabled = m /\ p.chunk[c].rows = u.chunk[c].rows
  BY <1>1, <1>3, <1>4, Recounted
<1>6. v = q
  BY <1>2, <1>5
<1> HIDE DEF p
<1>7. p \in Worlds
  BY <1>5 DEF RowsOnly
<1>8. RowsOnly(p, q, c) /\ Agree(q, x, E) /\ q.chunk = p.chunk
  BY <1>5, <1>7, Flagged
<1> HIDE DEF q
<1>9. RowsOnly(w, v, c)
  BY <1>1, <1>5, <1>6, <1>8, RowsOnlyTwice
<1>10. Len(v.chunk[c].rows) = n /\ v.chunk[c].first = f /\ v.chunk[c].enabled = m
  BY <1>1, <1>5, <1>6, <1>8
<1>11. n <= Capacity[c[1]] /\ f <= n
  BY <1>3, RowsOfChunk DEF RowsOK
<1>12. RowsOK(v)
  BY <1>3, <1>9, <1>10, <1>11, RowsStayOK
<1>. QED  BY <1>6, <1>8, <1>9, <1>10, <1>12 DEF v, u, RowsKept

(* Chunk::enable_entity.                                                   *)
LEMMA RowEnabled ==
  ASSUME NEW w \in Worlds, NEW c \in Chunks, NEW i \in 1..Len(w.chunk[c].rows),
         NEW x, NEW E, Agree(w, x, E), RowsOK(w), \A m \in Nat : <<c, m>> # x
  PROVE  RowsKept(w, EnableRow(w, c, i), c, x, E) /\ RowsKept(w, DisableRow(w, c, i), c, x, E)
<1> DEFINE f == w.chunk[c].first
           n == Len(w.chunk[c].rows)
           e == w.chunk[c].rows[i].ent
<1>1. n \in Nat /\ e \in Entities /\ i \in 1..n
  BY RowsOfChunk
<1>2. f \in Nat /\ f <= n
  <2>1. w.chunk[c] \in ChunkSet
    BY Parts
  <2>. QED  BY <2>1 DEF ChunkSet, RowsOK
<1>3. RowsKept(w, w, c, x, E)
  BY DEF RowsOnly, RowsKept
<1>4. CASE i <= f
  <2>1. f \in 1..n /\ f > 0 /\ ~(i > f)
    BY <1>1, <1>2, <1>4
  <2>2. EnableRow(w, c, i) = Mark(SwapRows(w, c, f, i), c, e, FALSE)
    BY <2>1 DEF EnableRow
  <2>3. DisableRow(w, c, i) = w
    BY <1>4 DEF DisableRow
  <2> HIDE DEF e
  <2>4. RowsKept(w, Mark(SwapRows(w, c, f, i), c, e, FALSE), c, x, E)
    BY <1>1, <2>1, RowMarked
  <2> HIDE DEF f
  <2>. QED  BY <1>3, <2>2, <2>3, <2>4
<1>5. CASE i > f
  <2>1. EnableRow(w, c, i) = w
    BY <1>5 DEF EnableRow
  <2>2. f + 1 \in 1..n /\ f < n /\ ~(i <= f)
    BY <1>1, <1>2, <1>5
  <2>3. DisableRow(w, c, i) = w \/ DisableRow(w, c, i) = Mark(SwapRows(w, c, f + 1, i), c, e, TRUE)
    BY <2>2 DEF DisableRow
  <2> HIDE DEF e
  <2>4. RowsKept(w, Mark(SwapRows(w, c, f + 1, i), c, e, TRUE), c, x, E)
    BY <1>1, <2>2, RowMarked
  <2> HIDE DEF f
  <2>. QED  BY <1>3, <2>1, <2>3, <2>4
<1>6. i > f \/ i <= f
  BY <1>1, <1>2
<1>. QED  BY <1>4, <1>5, <1>6

(* A row that has no entity, and an entity that has no row.                *)
LEMMA NoneNamed ==
  ASSUME NEW w \in Worlds, NEW e \in Entities, w.rec[e].arch = None, Agree(w, NoRow, {})
  PROVE  Agree(w, NoRow, {e})
<1>1. ASSUME NEW c \in Chunks, NEW i \in 1..Len(w.chunk[c].rows)
      PROVE  w.chunk[c].rows[i].ent # e
  <2>1. <<c, i>> # NoRow
    BY DEF NoRow
  <2>2. w.rec[w.chunk[c].rows[i].ent].arch = c[1]
    BY Zenon, <2>1 DEF Agree, RowsNamed, NamedBy
  <2>3. c[1] \in Archetypes /\ None \notin Archetypes
    BY StorageAssumption
  <2>. QED  BY <2>2, <2>3
<1>2. RowsNamed(w, NoRow, {e})
  BY <1>1 DEF Agree, RowsNamed
<1>3. \A g \in Entities \ {e} : IsValid(w, g) => HasRow(w, g)
  BY DEF Agree
<1>. QED  BY <1>2, <1>3 DEF Agree

(* Chunk::add_entity.                                                      *)
LEMMA RowAdded ==
  ASSUME NEW w \in Worlds, NEW c \in Chunks, NEW e \in Entities, NEW E,
         Agree(w, NoRow, E), RowsOK(w), Len(w.chunk[c].rows) < Capacity[c[1]]
  PROVE  LET v == AddRow(w, c, e)
             n == Len(w.chunk[c].rows) + 1
         IN /\ RowsOnly(w, v, c) /\ Agree(v, <<c, n>>, E) /\ RowsOK(v) /\ v.rec = w.rec
            /\ Len(v.chunk[c].rows) = n /\ v.chunk[c].rows[n].ent = e
<1> DEFINE r == w.chunk[c].rows
           n == Len(r) + 1
           s == Append(r, [ent |-> e, val |-> None])
           m == (w.chunk[c].enabled + 1) % CountMax
           K == [[w.chunk[c] EXCEPT !.rows = s] EXCEPT !.enabled = m]
           v == AddRow(w, c, e)
<1>1. r \in Seq(RawRows) /\ Len(r) \in Nat
  BY RowsOfChunk
<1>2. [ent |-> e, val |-> None] \in RawRows
  BY DEF RawRows
<1>3. /\ s \in Seq(RawRows) /\ Len(s) = n /\ s[n] = [ent |-> e, val |-> None]
      /\ \A j \in 1..Len(r) : s[j] = r[j]
  BY <1>1, <1>2, AppendProperties
<1>4. w.chunk[c] \in ChunkSet /\ w.chunk \in [Chunks -> ChunkSet]
  BY Parts
<1>5. m \in Nat /\ m < CountMax
  <2>1. w.chunk[c].enabled \in Nat
    BY <1>4 DEF ChunkSet
  <2>. QED  BY <2>1, Counted
<1>6. v = PutChunk(w, c, K)
  BY <1>4 DEF AddRow, PutChunk, ChunkSet
<1> HIDE DEF s, m
<1>7. /\ K \in ChunkSet /\ K.rows = s /\ K.first = w.chunk[c].first /\ K.enabled = m
      /\ K.live = w.chunk[c].live /\ K.idx = w.chunk[c].idx /\ K.life = w.chunk[c].life
      /\ K.slot = w.chunk[c].slot
  BY <1>3, <1>4, <1>5 DEF ChunkSet
<1> HIDE DEF K, v
<1>8. /\ v \in Worlds /\ v.arch = w.arch /\ v.rec = w.rec /\ v.queue = w.queue
      /\ v.chunk = [w.chunk EXCEPT ![c] = K]
  BY <1>6, <1>7, ChunkPut
<1>9. v.chunk[c] = K /\ \A d \in Chunks : d # c => v.chunk[d] = w.chunk[d]
  BY <1>4, <1>8
<1>10. RowsOnly(w, v, c)
  BY <1>7, <1>8, <1>9 DEF RowsOnly
<1>11. RowsOK(v)
  <2>1. Len(s) <= Capacity[c[1]]
    <3>1. Capacity[c[1]] \in Nat
      BY StorageAssumption
    <3>. QED  BY <1>1, <1>3, <3>1
  <2>2. w.chunk[c].first \in Nat /\ w.chunk[c].first <= Len(s)
    BY <1>1, <1>3, <1>4 DEF RowsOK, ChunkSet
  <2>. QED  BY <1>5, <1>7, <1>9, <1>10, <2>1, <2>2, RowsStayOK
<1>0. Len(v.chunk[c].rows) = Len(r) + 1 /\ \A j \in 1..Len(r) : v.chunk[c].rows[j] = r[j]
  BY <1>3, <1>7, <1>9
<1>12. RowsNamed(v, <<c, n>>, E)
  <2> SUFFICES ASSUME NEW d \in Chunks, NEW j \in 1..Len(v.chunk[d].rows), <<d, j>> # <<c, n>>
               PROVE  LET t == v.chunk[d].rows[j]
                      IN t.val = t.ent /\ t.ent \notin E /\ NamedBy(v.rec[t.ent], d, j)
    BY DEF RowsNamed
  <2>1. j \in 1..Len(w.chunk[d].rows) /\ v.chunk[d].rows[j] = w.chunk[d].rows[j]
    <3>1. CASE d = c
      <4>1. j \in 1..(Len(r) + 1) /\ j # Len(r) + 1
        BY <1>0, <3>1
      <4>2. j \in 1..Len(r)
        BY <1>1, <4>1
      <4>. QED  BY <1>0, <3>1, <4>2
    <3>2. CASE d # c
      BY <1>9, <3>2
    <3>. QED  BY <3>1, <3>2
  <2>2. <<d, j>> # NoRow
    BY DEF NoRow
  <2>. QED  BY <1>8, <2>1, <2>2 DEF Agree, RowsNamed
<1>13. ASSUME NEW g \in Entities \ E, IsValid(v, g)
       PROVE  HasRow(v, g)
  <2>1. HasRow(w, g)
    BY <1>8, <1>13 DEF Agree, IsValid
  <2>2. CASE w.rec[g].chunk = c
    <3>1. w.rec[g].row \in 1..Len(r) /\ r[w.rec[g].row].ent = g
      BY <2>1, <2>2 DEF HasRow
    <3>2. w.rec[g].row \in 1..(Len(r) + 1)
      BY <1>1, <3>1
    <3>. QED  BY Zenon, <2>1, <2>2, <1>0, <1>8, <3>1, <3>2 DEF HasRow
  <2>3. CASE w.rec[g].chunk # c
    BY Zenon, <2>1, <2>3, <1>8, <1>9 DEF HasRow
  <2>. QED  BY <2>2, <2>3
<1>14. Len(v.chunk[c].rows) = n /\ v.chunk[c].rows[n].ent = e
  BY <1>3, <1>7, <1>9
<1>. QED  BY <1>8, <1>10, <1>11, <1>12, <1>13, <1>14 DEF Agree, v

(* The data of the new row.                                                *)
CopyVal(w, c, n, z) == [w EXCEPT !.chunk[c].rows[n].val = z]

(* Copying the data of an entity fills row n and leaves every other row.   *)
LEMMA ValCopied ==
  ASSUME NEW w \in Worlds, NEW c \in Chunks, NEW n \in 1..Len(w.chunk[c].rows),
         NEW z \in Entities, NEW E, Agree(w, <<c, n>>, E), RowsOK(w)
  PROVE  LET v == CopyVal(w, c, n, z)
         IN /\ RowsKept(w, v, c, <<c, n>>, E) /\ v.rec = w.rec
            /\ v.chunk[c].rows[n].ent = w.chunk[c].rows[n].ent
            /\ v.chunk[c].rows[n].val = z
            /\ v.chunk[c].first = w.chunk[c].first
<1> DEFINE r == w.chunk[c].rows
           t == [r[n] EXCEPT !.val = z]
           s == [r EXCEPT ![n] = t]
           K == [w.chunk[c] EXCEPT !.rows = s]
           v == CopyVal(w, c, n, z)
<1>1. r \in Seq(RawRows) /\ Len(r) \in Nat /\ r[n] \in RawRows
  BY RowsOfChunk
<1>2. t \in RawRows /\ t.ent = r[n].ent /\ t.val = z
  BY <1>1 DEF RawRows
<1> HIDE DEF t
<1>3. s \in Seq(RawRows) /\ Len(s) = Len(r) /\ \A j \in 1..Len(r) : s[j] = IF j = n THEN t ELSE r[j]
  BY <1>1, <1>2, ExceptSeq
<1>4. w.chunk[c] \in ChunkSet /\ w.chunk \in [Chunks -> ChunkSet]
  BY Parts
<1>5. v = PutChunk(w, c, K)
  BY Zenon DEF CopyVal, PutChunk, t
<1> HIDE DEF s
<1>6. /\ K \in ChunkSet /\ K.rows = s /\ K.first = w.chunk[c].first
      /\ K.enabled = w.chunk[c].enabled
      /\ K.live = w.chunk[c].live /\ K.idx = w.chunk[c].idx /\ K.life = w.chunk[c].life
      /\ K.slot = w.chunk[c].slot
  BY <1>3, <1>4, RowsOfChunkPut
<1> HIDE DEF K, v
<1>7. /\ v \in Worlds /\ v.arch = w.arch /\ v.rec = w.rec /\ v.queue = w.queue
      /\ v.chunk = [w.chunk EXCEPT ![c] = K]
  BY <1>5, <1>6, ChunkPut
<1>8. v.chunk[c] = K /\ \A d \in Chunks : d # c => v.chunk[d] = w.chunk[d]
  BY <1>4, <1>7
<1>9. RowsOnly(w, v, c)
  BY <1>6, <1>7, <1>8 DEF RowsOnly
<1>10. RowsOK(v)
  BY <1>3, <1>6, <1>8, <1>9, RowsStayOK DEF RowsOK
<1>11. \A d \in Chunks : /\ Len(v.chunk[d].rows) = Len(w.chunk[d].rows)
                         /\ \A j \in 1..Len(w.chunk[d].rows) :
                              /\ v.chunk[d].rows[j].ent = w.chunk[d].rows[j].ent
                              /\ <<d, j>> # <<c, n>> => v.chunk[d].rows[j] = w.chunk[d].rows[j]
  BY <1>2, <1>3, <1>6, <1>8
<1>12. RowsNamed(v, <<c, n>>, E)
  BY <1>7, <1>11 DEF Agree, RowsNamed
<1>13. ASSUME NEW g \in Entities \ E, IsValid(v, g)
       PROVE  HasRow(v, g)
  <2>1. HasRow(w, g)
    BY <1>7, <1>13 DEF Agree, IsValid
  <2>2. w.rec[g].chunk \in Chunks /\ w.rec[g].row \in 1..Len(w.chunk[w.rec[g].chunk].rows)
    BY Zenon, <2>1 DEF HasRow
  <2>3. LET d == w.rec[g].chunk
            j == w.rec[g].row
        IN /\ Len(v.chunk[d].rows) = Len(w.chunk[d].rows)
           /\ v.chunk[d].rows[j].ent = w.chunk[d].rows[j].ent
    BY <1>11, <2>2
  <2>. QED  BY Zenon, <1>7, <2>1, <2>3 DEF HasRow
<1>. QED  BY <1>2, <1>3, <1>6, <1>7, <1>8, <1>9, <1>10, <1>12, <1>13 DEF Agree, RowsKept, v

(* The record that names the new row.                                      *)
LEMMA RecordNames ==
  ASSUME NEW w \in Worlds, NEW c \in Chunks, NEW n \in 1..Len(w.chunk[c].rows),
         NEW e \in Entities, NEW R \in RecordSet, NamedBy(R, c, n),
         w.chunk[c].rows[n].ent = e, w.chunk[c].rows[n].val = e, Agree(w, <<c, n>>, {e})
  PROVE  LET v == PutRecord(w, e, R)
         IN /\ v \in Worlds /\ v.arch = w.arch /\ v.chunk = w.chunk /\ v.queue = w.queue
            /\ v.rec = [w.rec EXCEPT ![e] = R] /\ Agree(v, NoRow, {})
<1> DEFINE v == PutRecord(w, e, R)
<1>1. /\ v \in Worlds /\ v.arch = w.arch /\ v.chunk = w.chunk /\ v.queue = w.queue
      /\ v.rec = [w.rec EXCEPT ![e] = R]
  BY RecordPut
<1> HIDE DEF v
<1>2. w.rec \in [Entities -> RecordSet]
  BY Parts
<1>3. v.rec[e] = R /\ \A g \in Entities : g # e => v.rec[g] = w.rec[g]
  BY <1>1, <1>2
<1>4. RowsNamed(v, NoRow, {})
  <2> SUFFICES ASSUME NEW d \in Chunks, NEW j \in 1..Len(v.chunk[d].rows)
               PROVE  LET t == v.chunk[d].rows[j]
                      IN t.val = t.ent /\ NamedBy(v.rec[t.ent], d, j)
    BY DEF RowsNamed
  <2>1. CASE <<d, j>> = <<c, n>>
    BY <1>1, <1>3, <2>1
  <2>2. CASE <<d, j>> # <<c, n>>
    <3>1. LET t == w.chunk[d].rows[j]
          IN t.val = t.ent /\ t.ent # e /\ NamedBy(w.rec[t.ent], d, j)
      BY <1>1, <2>2 DEF Agree, RowsNamed
    <3>2. w.chunk[d].rows[j].ent \in Entities
      BY <1>1, RowsOfChunk
    <3>. QED  BY Zenon, <1>1, <1>3, <3>1, <3>2
  <2>. QED  BY <2>1, <2>2
<1>5. ASSUME NEW g \in Entities, IsValid(v, g)
      PROVE  HasRow(v, g)
  <2>1. CASE g = e
    BY Zenon, <1>1, <1>3, <2>1 DEF HasRow, NamedBy
  <2>2. CASE g # e
    BY <1>1, <1>3, <1>5, <2>2 DEF Agree, IsValid, HasRow
  <2>. QED  BY <2>1, <2>2
<1>. QED  BY <1>1, <1>4, <1>5 DEF Agree, v

(* Chunk::remove_entity_inter.                                             *)
LEMMA GapFilled ==
  ASSUME NEW w \in Worlds, NEW c \in Chunks, NEW i \in 1..Len(w.chunk[c].rows),
         NEW x, Agree(w, x, {}), \A m \in Nat : <<c, m>> # x
  PROVE  LET v == FillRow(w, c, i)
         IN /\ RowsOnly(w, v, c) /\ Agree(v, x, {w.chunk[c].rows[i].ent})
            /\ v.chunk[c].first = w.chunk[c].first /\ v.chunk[c].enabled = w.chunk[c].enabled
            /\ Len(v.chunk[c].rows) = Len(w.chunk[c].rows) - 1
<1> DEFINE r == w.chunk[c].rows
           n == Len(r)
           e == r[i].ent
           g == r[n].ent
           s == SwapErase(r, i)
           K == [w.chunk[c] EXCEPT !.rows = s]
           p == PutChunk(w, c, K)
           G == [p.rec[g] EXCEPT !.row = i]
           v == FillRow(w, c, i)
<1>1. /\ r \in Seq(RawRows) /\ n \in Nat /\ i \in 1..n /\ n \in 1..n
      /\ \A m \in 1..n : r[m] \in RawRows /\ r[m].ent \in Entities
  BY RowsOfChunk
<1>2. \A m \in 1..n : NamedBy(w.rec[r[m].ent], c, m) /\ r[m].val = r[m].ent
  <2>1. \A m \in 1..n : m \in Nat /\ <<c, m>> # x
    BY <1>1
  <2>. QED  BY <2>1 DEF Agree, RowsNamed
<1>3. e \in Entities /\ g \in Entities
  BY <1>1
<1>4. \A m \in 1..n : (r[m].ent = e <=> m = i) /\ (r[m].ent = g <=> m = n)
  BY <1>1, <1>2 DEF NamedBy
<1>5. /\ s \in Seq(RawRows) /\ Len(s) = n - 1
      /\ \A j \in 1..(n - 1) : s[j] = IF j = i THEN r[n] ELSE r[j]
  BY <1>1, SwapErased
<1>6. v = IF i < n THEN PutRecord(p, g, G) ELSE p
  BY Zenon DEF FillRow, PutRecord, PutChunk
<1> HIDE DEF s, v
<1>7. w.chunk[c] \in ChunkSet /\ w.chunk \in [Chunks -> ChunkSet] /\ w.rec \in [Entities -> RecordSet]
  BY Parts
<1>8. /\ K \in ChunkSet /\ K.rows = s /\ K.first = w.chunk[c].first
      /\ K.enabled = w.chunk[c].enabled
      /\ K.live = w.chunk[c].live /\ K.idx = w.chunk[c].idx /\ K.life = w.chunk[c].life
      /\ K.slot = w.chunk[c].slot
  BY <1>5, <1>7, RowsOfChunkPut
<1> HIDE DEF K
<1>9. /\ p \in Worlds /\ p.arch = w.arch /\ p.rec = w.rec /\ p.queue = w.queue
      /\ p.chunk = [w.chunk EXCEPT ![c] = K]
  BY <1>8, ChunkPut
<1> HIDE DEF p, g
<1>10. /\ G \in RecordSet /\ G.row = i /\ G.arch = w.rec[g].arch /\ G.chunk = w.rec[g].chunk
  <2>1. p.rec[g] \in RecordSet /\ i \in Nat
    BY <1>1, <1>3, <1>7, <1>9
  <2>. QED  BY <2>1, <1>9, RowOfRecord
<1> HIDE DEF G
<1>11. /\ v \in Worlds /\ v.arch = w.arch /\ v.queue = w.queue
       /\ v.chunk = [w.chunk EXCEPT ![c] = K]
       /\ v.rec = IF i < n THEN [w.rec EXCEPT ![g] = G] ELSE w.rec
  <2>1. LET u == PutRecord(p, g, G)
        IN /\ u \in Worlds /\ u.arch = p.arch /\ u.chunk = p.chunk /\ u.queue = p.queue
           /\ u.rec = [p.rec EXCEPT ![g] = G]
    BY <1>3, <1>9, <1>10, RecordPut
  <2>. QED  BY <2>1, <1>6, <1>9
<1>12. v.chunk[c] = K /\ \A d \in Chunks : d # c => v.chunk[d] = w.chunk[d]
  BY <1>7, <1>11
<1>13. /\ \A h \in Entities : h # g => v.rec[h] = w.rec[h]
       /\ v.rec[g].arch = w.rec[g].arch /\ v.rec[g].chunk = w.rec[g].chunk
       /\ v.rec[g].row = IF i < n THEN i ELSE w.rec[g].row
  BY <1>3, <1>7, <1>10, <1>11
<1>14. RowsOnly(w, v, c)
  BY <1>8, <1>11, <1>12, <1>13 DEF RowsOnly
<1>15. /\ Len(v.chunk[c].rows) = n - 1
       /\ \A j \in 1..(n - 1) : v.chunk[c].rows[j] = IF j = i THEN r[n] ELSE r[j]
  BY <1>5, <1>8, <1>12
<1>16. RowsNamed(v, x, {e})
  <2> SUFFICES ASSUME NEW d \in Chunks, NEW j \in 1..Len(v.chunk[d].rows), <<d, j>> # x
               PROVE  LET t == v.chunk[d].rows[j]
                      IN t.val = t.ent /\ t.ent # e /\ NamedBy(v.rec[t.ent], d, j)
    BY Zenon DEF RowsNamed
  <2>1. CASE d = c
    <3>1. j \in 1..(n - 1) /\ j \in 1..n /\ j # n
      <4>1. j \in 1..Len(v.chunk[c].rows)
        BY Zenon, <2>1
      <4>2. Len(v.chunk[c].rows) = n - 1 /\ n \in Nat
        BY Zenon, <1>1, <1>15
      <4> HIDE DEF n
      <4>. QED  BY <4>1, <4>2
    <3>2. CASE j = i
      <4>1. v.chunk[c].rows[j] = r[n] /\ i < n
        BY <1>1, <1>15, <3>1, <3>2
      <4>2. NamedBy(v.rec[g], c, j)
        BY Zenon, <1>1, <1>2, <1>13, <3>2, <4>1 DEF NamedBy, g
      <4>3. g # e /\ r[n].val = g
        BY <1>1, <1>2, <1>4, <4>1 DEF g
      <4>. QED  BY Zenon, <2>1, <4>1, <4>2, <4>3 DEF g
    <3>3. CASE j # i
      <4>1. v.chunk[c].rows[j] = r[j] /\ r[j].ent # g /\ r[j].ent # e
        BY <1>4, <1>15, <3>1, <3>3
      <4>2. v.rec[r[j].ent] = w.rec[r[j].ent]
        BY <1>1, <1>13, <3>1, <4>1
      <4>. QED  BY Zenon, <1>2, <2>1, <3>1, <4>1, <4>2
    <3>. QED  BY Zenon, <3>2, <3>3
  <2>2. CASE d # c
    <3> DEFINE t == w.chunk[d].rows[j]
    <3>1. v.chunk[d] = w.chunk[d] /\ t.ent \in Entities
      BY <1>12, <2>2, RowsOfChunk
    <3>2. t.val = t.ent /\ NamedBy(w.rec[t.ent], d, j)
      BY <3>1 DEF Agree, RowsNamed
    <3>3. t.ent # g /\ t.ent # e
      <4>1. w.rec[t.ent].chunk = d
        BY <3>2 DEF NamedBy
      <4>2. w.rec[g].chunk = c /\ w.rec[e].chunk = c
        BY Zenon, <1>1, <1>2 DEF NamedBy, g, e
      <4> HIDE DEF t, e, g
      <4>. QED  BY Zenon, <2>2, <4>1, <4>2
    <3>4. v.rec[t.ent] = w.rec[t.ent]
      BY Zenon, <1>13, <3>1, <3>3
    <3>. QED  BY Zenon, <3>1, <3>2, <3>3, <3>4
  <2>. QED  BY Zenon, <2>1, <2>2
<1>17. ASSUME NEW h \in Entities \ {e}, IsValid(v, h)
       PROVE  HasRow(v, h)
  <2>1. HasRow(w, h)
    BY <1>11, <1>14, <1>17 DEF Agree, IsValid, RowsOnly
  <2>2. v.rec[h].chunk = w.rec[h].chunk /\ v.rec[h].arch = w.rec[h].arch
    BY <1>14 DEF RowsOnly
  <2>3. CASE w.rec[h].chunk = c
    <3> DEFINE j == w.rec[h].row
    <3>1. j \in 1..n /\ r[j].ent = h /\ j # i
      BY Zenon, <2>1, <2>3, <1>4, <1>17 DEF HasRow
    <3>2. CASE h = g
      <4>1. j = n /\ i < n
        BY <1>1, <1>4, <3>1, <3>2
      <4>2. v.rec[h].row = i /\ i \in 1..(n - 1)
        BY <1>1, <1>13, <3>2, <4>1
      <4>3. v.chunk[c].rows[i].ent = h
        BY Zenon, <1>15, <4>2, <3>2 DEF g
      <4>. QED  BY <2>1, <2>2, <2>3, <1>15, <4>2, <4>3 DEF HasRow
    <3>3. CASE h # g
      <4>1. j # n /\ j \in 1..(n - 1)
        <5>1. j # n
          BY Zenon, <3>1, <3>3 DEF g
        <5> HIDE DEF n, j
        <5>. QED  BY <1>1, <3>1, <5>1
      <4>2. v.rec[h] = w.rec[h] /\ v.chunk[c].rows[j].ent = h
        BY Zenon, <1>13, <1>15, <3>1, <3>3, <4>1
      <4>. QED  BY Zenon, <2>1, <2>3, <1>15, <4>1, <4>2 DEF HasRow
    <3>. QED  BY <3>2, <3>3
  <2>4. CASE w.rec[h].chunk # c
    <3>1. w.rec[g].chunk = c
      BY Zenon, <1>1, <1>2 DEF NamedBy, g
    <3>2. v.rec[h] = w.rec[h]
      BY <1>13, <2>4, <3>1
    <3>3. v.chunk[w.rec[h].chunk] = w.chunk[w.rec[h].chunk]
      BY Zenon, <2>1, <2>4, <1>12 DEF HasRow
    <3>. QED  BY Zenon, <2>1, <3>2, <3>3 DEF HasRow
  <2>. QED  BY <2>3, <2>4
<1>. QED  BY <1>8, <1>12, <1>14, <1>15, <1>16, <1>17 DEF Agree, v

(* Chunk::remove_entity.                                                   *)
LEMMA RowRemoved ==
  ASSUME NEW w \in Worlds, NEW c \in Chunks, NEW i \in 1..Len(w.chunk[c].rows),
         NEW x, Agree(w, x, {}), RowsOK(w), \A m \in Nat : <<c, m>> # x
  PROVE  LET v == RemoveRow(w, c, i)
         IN /\ RowsOnly(w, v, c) /\ Agree(v, x, {w.chunk[c].rows[i].ent}) /\ RowsOK(v)
            /\ Len(v.chunk[c].rows) = Len(w.chunk[c].rows) - 1
<1> DEFINE f == w.chunk[c].first
           n == Len(w.chunk[c].rows)
           e == w.chunk[c].rows[i].ent
           v == RemoveRow(w, c, i)
           u == IF i > f THEN FillRow(w, c, i) ELSE FillRow(SwapRows(w, c, i, f), c, f)
           m == IF i > f THEN (u.chunk[c].enabled - 1) % CountMax ELSE u.chunk[c].enabled
           h == IF i > f /\ ~(i = f + 1 /\ f > 0) THEN f ELSE f - 1
<1>1. n \in Nat /\ i \in 1..n
  BY RowsOfChunk
<1>2. f \in Nat /\ f <= n /\ w.chunk[c].enabled \in Nat /\ w.chunk[c].enabled < CountMax
  <2>1. w.chunk[c] \in ChunkSet
    BY Parts
  <2>. QED  BY <2>1 DEF ChunkSet, RowsOK
<1>3. /\ RowsOnly(w, u, c) /\ Agree(u, x, {e})
      /\ u.chunk[c].first = f /\ u.chunk[c].enabled = w.chunk[c].enabled
      /\ Len(u.chunk[c].rows) = n - 1
  <2>1. CASE i > f
    BY <2>1, <1>1, GapFilled
  <2>2. CASE ~(i > f)
    <3> DEFINE y == SwapRows(w, c, i, f)
    <3>1. f \in 1..n
      BY <1>1, <1>2, <2>2
    <3>2. /\ RowsOnly(w, y, c) /\ Agree(y, x, {}) /\ y.chunk[c].first = f
          /\ y.chunk[c].enabled = w.chunk[c].enabled /\ Len(y.chunk[c].rows) = n
          /\ y.chunk[c].rows[f].ent = e
      <4>1. /\ RowsOnly(w, y, c) /\ Agree(y, x, {}) /\ y.chunk[c].first = f
            /\ y.chunk[c].enabled = w.chunk[c].enabled /\ Len(y.chunk[c].rows) = n
        BY <1>1, <3>1, RowsSwapped
      <4>2. y.chunk[c].rows[f] = w.chunk[c].rows[i]
        BY <1>1, <3>1, RowsSwapped
      <4>. QED  BY <4>1, <4>2
    <3> HIDE DEF y
    <3>3. y \in Worlds
      BY <3>2 DEF RowsOnly
    <3>4. LET z == FillRow(y, c, f)
          IN /\ RowsOnly(y, z, c) /\ Agree(z, x, {e})
             /\ z.chunk[c].first = f /\ z.chunk[c].enabled = w.chunk[c].enabled
             /\ Len(z.chunk[c].rows) = n - 1
      <4>1. f \in 1..Len(y.chunk[c].rows)
        BY <3>1, <3>2
      <4>2. LET z == FillRow(y, c, f)
            IN /\ RowsOnly(y, z, c) /\ Agree(z, x, {y.chunk[c].rows[f].ent})
               /\ z.chunk[c].first = y.chunk[c].first /\ z.chunk[c].enabled = y.chunk[c].enabled
               /\ Len(z.chunk[c].rows) = Len(y.chunk[c].rows) - 1
        BY Zenon, <3>2, <3>3, <4>1, GapFilled
      <4>. QED  BY Zenon, <3>2, <4>2
    <3>5. u = FillRow(y, c, f)
      BY <2>2 DEF y
    <3>. QED  BY Zenon, <3>2, <3>4, <3>5, RowsOnlyTwice
  <2>. QED  BY Zenon, <2>1, <2>2
<1>4. u \in Worlds
  BY Zenon, <1>3 DEF RowsOnly
<1>5. v = PutChunk(u, c, Recount(u.chunk[c], h, m))
  <2>1. u.chunk[c] \in ChunkSet /\ u.chunk \in [Chunks -> ChunkSet]
    BY <1>4, Parts
  <2>2. CASE i > f
    <3> DEFINE y == FillRow(w, c, i)
    <3>1. u = y
      BY <2>2
    <3>2. v = [y EXCEPT !.chunk[c].first = h, !.chunk[c].enabled = (@ - 1) % CountMax]
      BY Zenon, <2>2, <1>2 DEF RemoveRow
    <3>3. m = (y.chunk[c].enabled - 1) % CountMax
      BY Zenon, <2>2, <3>1
    <3> HIDE DEF y, u, v, h
    <3>. QED  BY <2>1, <1>4, <3>1, <3>2, <3>3, Parts DEF PutChunk, Recount, ChunkSet
  <2>3. CASE ~(i > f)
    <3> DEFINE y == FillRow(SwapRows(w, c, i, f), c, f)
    <3>1. u = y
      BY <2>3
    <3>2. v = [y EXCEPT !.chunk[c].first = h]
      BY Zenon, <2>3 DEF RemoveRow
    <3>3. m = y.chunk[c].enabled
      BY Zenon, <2>3, <3>1
    <3> HIDE DEF y, u, v, h
    <3>. QED  BY <2>1, <1>4, <3>1, <3>2, <3>3, Parts DEF PutChunk, Recount, ChunkSet
  <2>. QED  BY Zenon, <2>2, <2>3
<1>6. h \in Nat /\ h <= n - 1
  BY <1>1, <1>2
<1>7. m \in Nat /\ m < CountMax
  BY Zenon, <1>2, <1>3, Counted
<1> HIDE DEF u, v, h, m
<1>8. /\ RowsOnly(u, v, c) /\ Agree(v, x, {e}) /\ v.chunk[c].first = h /\ v.chunk[c].enabled = m
      /\ v.chunk[c].rows = u.chunk[c].rows
  <2> HIDE DEF e
  <2>. QED  BY <1>3, <1>4, <1>5, <1>6, <1>7, Recounted
<1>9. RowsOnly(w, v, c)
  BY <1>3, <1>8, RowsOnlyTwice
<1>10. n - 1 <= Capacity[c[1]] /\ Len(v.chunk[c].rows) = n - 1
  <2>1. n <= Capacity[c[1]] /\ Capacity[c[1]] \in Nat
    BY StorageAssumption DEF RowsOK
  <2>. QED  BY <1>1, <1>3, <1>8, <2>1
<1>11. RowsOK(v)
  BY <1>6, <1>7, <1>8, <1>9, <1>10, RowsStayOK
<1>. QED  BY <1>8, <1>9, <1>10, <1>11 DEF v

-----------------------------------------------------------------------------
(* Chunks and queues                                                       *)

(* The types of the fields of a chunk.                                     *)
LEMMA ChunkFields ==
  ASSUME NEW w \in Worlds, NEW c \in Chunks
  PROVE  /\ w.chunk[c] \in ChunkSet /\ w.chunk[c].live \in BOOLEAN
         /\ w.chunk[c].first \in Nat /\ w.chunk[c].enabled \in Nat /\ w.chunk[c].idx \in Nat
         /\ w.chunk[c].life \in Nat /\ w.chunk[c].slot \in Nat
<1>1. w.chunk[c] \in ChunkSet
  BY Parts
<1>. QED  BY <1>1 DEF ChunkSet

(* The types of the fields of an archetype.                                *)
LEMMA ArchFields ==
  ASSUME NEW w \in Worlds, NEW a \in Archetypes
  PROVE  /\ w.arch[a] \in ArchSet /\ w.arch[a].live \in BOOLEAN /\ w.arch[a].req \in BOOLEAN
         /\ w.arch[a].list \in Seq(Chunks) /\ w.arch[a].free \in Nat \ {0}
         /\ w.arch[a].life \in Nat /\ w.arch[a].max \in Nat
         /\ Len(w.arch[a].list) \in Nat
         /\ \A i \in 1..Len(w.arch[a].list) : w.arch[a].list[i] \in Chunks
<1>1. w.arch[a] \in ArchSet
  BY Parts
<1>2. w.arch[a].list \in Seq(Chunks)
  BY <1>1 DEF ArchSet
<1>3. /\ Len(w.arch[a].list) \in Nat
      /\ \A i \in 1..Len(w.arch[a].list) : w.arch[a].list[i] \in Chunks
  BY <1>2, ElementOfSeq, LenProperties
<1>. QED  BY <1>1, <1>2, <1>3 DEF ArchSet

(* The entries of a list: chunks of the archetype that know their places.  *)
LEMMA ListEntries ==
  ASSUME NEW w \in Worlds, ListsOK(w), NEW a \in Archetypes
  PROVE  \A j \in 1..Len(w.arch[a].list) :
           LET d == w.arch[a].list[j]
           IN d \in Chunks /\ d[1] = a /\ w.chunk[d].live /\ w.chunk[d].idx = j
<1>1. \A j \in 1..Len(w.arch[a].list) : w.arch[a].list[j] \in Chunks
  BY Zenon, ArchFields
<1>2. \A j \in 1..Len(w.arch[a].list) :
        LET d == w.arch[a].list[j] IN d[1] = a /\ w.chunk[d].live /\ w.chunk[d].idx = j
  BY Zenon DEF ListsOK
<1>. QED  BY Zenon, <1>1, <1>2

(* The types of the deletion queue and its entries.                        *)
LEMMA QueueFields ==
  ASSUME NEW w \in Worlds
  PROVE  /\ w.queue \in Seq(EntrySet) /\ Len(w.queue) \in Nat
         /\ \A i \in 1..Len(w.queue) : /\ w.queue[i] \in EntrySet /\ w.queue[i].chunk \in Chunks
                                       /\ w.queue[i].arch \in Archetypes
<1>1. w.queue \in Seq(EntrySet)
  BY Parts
<1>2. \A i \in 1..Len(w.queue) : w.queue[i] \in EntrySet
  BY <1>1, ElementOfSeq
<1>. QED  BY <1>1, <1>2, LenProperties DEF EntrySet

(* A chunk belongs to an archetype, whose chunks have a capacity.          *)
LEMMA ChunkOfArch ==
  ASSUME NEW c \in Chunks
  PROVE  c[1] \in Archetypes /\ Capacity[c[1]] \in Nat /\ Capacity[c[1]] > 0
BY StorageAssumption

(* A chunk with rows exists.                                               *)
LEMMA RowsLive ==
  ASSUME NEW w \in Worlds, NEW c \in Chunks, ListOK(w), Len(w.chunk[c].rows) # 0
  PROVE  w.chunk[c].live
<1>1. w.chunk[c] # NoChunk
  BY DEF NoChunk
<1>. QED  BY <1>1 DEF ListOK, PlacesOK

(* A chunk that exists has its place in the list of its archetype.         *)
LEMMA ChunkListed ==
  ASSUME NEW w \in Worlds, NEW c \in Chunks, ListOK(w), w.chunk[c].live
  PROVE  LET k == w.arch[c[1]]
             i == w.chunk[c].idx
         IN /\ i \in Nat \ {0} /\ i \in 1..Len(k.list) /\ k.list[i] = c /\ k.live
            /\ \A j \in 1..Len(k.list) : k.list[j] = c => j = i
<1>1. c[1] \in Archetypes
  BY ChunkOfArch
<1>2. w.chunk[c].idx \in 1..Len(w.arch[c[1]].list) /\ w.arch[c[1]].list[w.chunk[c].idx] = c
  BY DEF ListOK, PlacesOK
<1>3. Len(w.arch[c[1]].list) \in Nat
  BY <1>1, ArchFields
<1>4. w.arch[c[1]] # NoArch
  BY <1>2, <1>3 DEF NoArch
<1>5. w.arch[c[1]].live
  BY <1>1, <1>4 DEF ListOK
<1>6. \A j \in 1..Len(w.arch[c[1]].list) :
        w.arch[c[1]].list[j] = c => j = w.chunk[c].idx
  BY <1>1 DEF ListOK, ListsOK
<1>. QED  BY <1>2, <1>3, <1>5, <1>6

(* Operations on rows keep lists and queues.                               *)
LEMMA RowsOnlyKeeps ==
  ASSUME NEW w \in Worlds, NEW v, NEW c \in Chunks, w.chunk[c].live, RowsOnly(w, v, c),
         ListOK(w), QueueOK(w)
  PROVE  v.chunk[c].live /\ ListOK(v) /\ QueueOK(v)
<1>1. v.arch = w.arch /\ v.queue = w.queue /\ v.chunk[c].live
  BY DEF RowsOnly
<1>2. \A d \in Chunks :
        /\ v.chunk[d].live = w.chunk[d].live /\ v.chunk[d].idx = w.chunk[d].idx
        /\ v.chunk[d].life = w.chunk[d].life /\ v.chunk[d].slot = w.chunk[d].slot
        /\ ~w.chunk[d].live => v.chunk[d] = w.chunk[d]
  BY DEF RowsOnly
<1>3. \A a \in Archetypes : \A i \in 1..Len(w.arch[a].list) : w.arch[a].list[i] \in Chunks
  BY ArchFields
<1>4. \A i \in 1..Len(w.queue) : w.queue[i].chunk \in Chunks
  BY QueueFields
<1>5. PlacesOK(v)
  BY <1>1, <1>2 DEF ListOK, PlacesOK
<1>6. ListsOK(v)
  <2> SUFFICES ASSUME NEW a \in Archetypes, NEW i \in 1..Len(v.arch[a].list)
               PROVE  LET d == v.arch[a].list[i]
                      IN d[1] = a /\ v.chunk[d].live /\ v.chunk[d].idx = i
    BY Zenon DEF ListsOK
  <2>0. i \in 1..Len(w.arch[a].list)
    BY <1>1
  <2>1. LET d == w.arch[a].list[i]
        IN d \in Chunks /\ d[1] = a /\ w.chunk[d].live /\ w.chunk[d].idx = i
    BY <2>0, <1>3 DEF ListOK, ListsOK
  <2>. QED  BY <1>1, <1>2, <2>1
<1>7. ListOK(v)
  BY <1>1, <1>5, <1>6 DEF ListOK
<1>8. QueueOK(v)
  BY <1>1, <1>2, <1>4 DEF QueueOK
<1>. QED  BY <1>1, <1>7, <1>8

(* While no list, no free index and no request changes and no chunk loses a*)
(* row, there is still no room before the free index.                      *)
LEMMA RoomStays ==
  ASSUME NEW w \in Worlds, NEW v \in Worlds, RoomOK(w),
         \A c \in Chunks : Len(v.chunk[c].rows) >= Len(w.chunk[c].rows),
         \A a \in Archetypes : /\ v.arch[a].req = w.arch[a].req
                               /\ v.arch[a].list = w.arch[a].list
                               /\ v.arch[a].free = w.arch[a].free
  PROVE  RoomOK(v)
<1> SUFFICES ASSUME NEW a \in Archetypes, ~v.arch[a].req
             PROVE  /\ v.arch[a].free <= Len(v.arch[a].list) + 1
                    /\ \A i \in 1..(v.arch[a].free - 1) : Full(v, a, v.arch[a].list[i])
  BY DEF RoomOK
<1>1. /\ w.arch[a].free <= Len(w.arch[a].list) + 1
      /\ \A i \in 1..(w.arch[a].free - 1) : Full(w, a, w.arch[a].list[i])
  BY DEF RoomOK
<1>2. w.arch[a].free \in Nat /\ Len(w.arch[a].list) \in Nat
  BY ArchFields
<1>3. ASSUME NEW i \in 1..(w.arch[a].free - 1)
      PROVE  Full(v, a, v.arch[a].list[i])
  <2> DEFINE c == w.arch[a].list[i]
  <2>1. c \in Chunks
    BY <1>1, <1>2, ArchFields
  <2>2. Len(w.chunk[c].rows) \in Nat /\ Len(v.chunk[c].rows) \in Nat /\ Capacity[a] \in Nat
    BY Zenon, <2>1, RowsOfChunk, StorageAssumption
  <2>3. Len(w.chunk[c].rows) >= Capacity[a]
    BY <1>1, <1>3 DEF Full
  <2>4. Len(v.chunk[c].rows) >= Len(w.chunk[c].rows)
    BY <2>1
  <2> HIDE DEF c
  <2>5. Len(v.chunk[c].rows) >= Capacity[a]
    BY <2>2, <2>3, <2>4
  <2>. QED  BY <2>5 DEF Full, c
<1>. QED  BY <1>1, <1>3

(* Only the free index and the countdown of an archetype differ.           *)
ArchOnly(w, v, a) ==
  /\ v \in Worlds /\ v.chunk = w.chunk /\ v.rec = w.rec /\ v.queue = w.queue
  /\ \A b \in Archetypes : b # a => v.arch[b] = w.arch[b]
  /\ v.arch[a].live = w.arch[a].live /\ v.arch[a].list = w.arch[a].list
  /\ v.arch[a].req = w.arch[a].req

(* Without a change of the chunks and lists, the places, counters and the  *)
(* queue stay right.                                                       *)
LEMMA ListsKept ==
  ASSUME NEW w, NEW v, v.chunk = w.chunk, v.queue = w.queue,
         \A a \in Archetypes : v.arch[a].list = w.arch[a].list,
         \A a \in Archetypes : v.arch[a].live \/ v.arch[a] = NoArch,
         ListOK(w), RowsOK(w), QueueOK(w)
  PROVE  ListOK(v) /\ RowsOK(v) /\ QueueOK(v)
<1>1. RowsOK(v) /\ QueueOK(v)
  BY DEF RowsOK, QueueOK
<1>2. PlacesOK(v)
  BY ChunkOfArch DEF ListOK, PlacesOK
<1>3. ListsOK(v)
  <2> SUFFICES ASSUME NEW b \in Archetypes, NEW i \in 1..Len(v.arch[b].list)
               PROVE  LET d == v.arch[b].list[i]
                      IN d[1] = b /\ v.chunk[d].live /\ v.chunk[d].idx = i
    BY Zenon DEF ListsOK
  <2>1. v.arch[b].list = w.arch[b].list
    OBVIOUS
  <2>. QED  BY <2>1 DEF ListOK, ListsOK
<1>. QED  BY <1>1, <1>2, <1>3 DEF ListOK

(* The same for a change of one archetype's own counters.                  *)
LEMMA ArchOnlyKeeps ==
  ASSUME NEW w \in Worlds, NEW v, NEW a \in Archetypes, ArchOnly(w, v, a), w.arch[a].live,
         ListOK(w), RowsOK(w), QueueOK(w)
  PROVE  ListOK(v) /\ RowsOK(v) /\ QueueOK(v)
<1>1. /\ v.chunk = w.chunk /\ v.queue = w.queue
      /\ \A b \in Archetypes : v.arch[b].list = w.arch[b].list
      /\ \A b \in Archetypes : v.arch[b].live \/ v.arch[b] = NoArch
  BY DEF ArchOnly, ListOK
<1>. QED  BY <1>1, ListsKept

(* A change of one archetype's own counters keeps rows and records in      *)
(* agreement.                                                              *)
LEMMA ArchOnlyAgrees ==
  ASSUME NEW w \in Worlds, NEW v, NEW a \in Archetypes, ArchOnly(w, v, a),
         NEW x, NEW E, Agree(w, x, E)
  PROVE  Agree(v, x, E)
<1>1. /\ v.chunk = w.chunk /\ v.rec = w.rec
      /\ \A b \in Archetypes : v.arch[b].req = w.arch[b].req
  BY DEF ArchOnly
<1>. QED  BY <1>1, AgreeKept

(* Archetype::m_firstFreeChunkIdx = f - 1.                                 *)
WithFree(w, a, f) == [w EXCEPT !.arch[a].free = f]

(* Writing the free index is a change of that archetype only.              *)
LEMMA FreeSet ==
  ASSUME NEW w \in Worlds, NEW a \in Archetypes, NEW f \in Nat \ {0}
  PROVE  LET v == WithFree(w, a, f)
         IN /\ ArchOnly(w, v, a) /\ v.arch[a].free = f
            /\ v.arch[a].life = w.arch[a].life /\ v.arch[a].max = w.arch[a].max
<1> DEFINE k == [w.arch[a] EXCEPT !.free = f]
           v == WithFree(w, a, f)
<1>1. w.arch[a] \in ArchSet /\ w.arch \in [Archetypes -> ArchSet]
  BY Parts
<1>2. /\ k \in ArchSet /\ k.free = f /\ k.live = w.arch[a].live /\ k.list = w.arch[a].list
      /\ k.req = w.arch[a].req /\ k.life = w.arch[a].life /\ k.max = w.arch[a].max
  BY <1>1 DEF ArchSet
<1>3. v = PutArch(w, a, k)
  BY DEF WithFree, PutArch
<1> HIDE DEF k, v
<1>4. /\ v \in Worlds /\ v.chunk = w.chunk /\ v.rec = w.rec /\ v.queue = w.queue
      /\ v.arch = [w.arch EXCEPT ![a] = k]
  BY <1>2, <1>3, ArchPut
<1>5. v.arch[a] = k /\ \A b \in Archetypes : b # a => v.arch[b] = w.arch[b]
  BY <1>1, <1>4
<1>. QED  BY <1>2, <1>4, <1>5 DEF ArchOnly, v

(* Archetype::try_update_free_chunk_idx, after a row of chunk c was removed. *)
RoomBut(w, C) ==
  \A a \in Archetypes : ~w.arch[a].req =>
    /\ w.arch[a].free <= Len(w.arch[a].list) + 1
    /\ \A i \in 1..(w.arch[a].free - 1) :
         w.arch[a].list[i] \notin C => Full(w, a, w.arch[a].list[i])

(* Archetype::try_update_free_chunk_idx: when only chunk c may have room   *)
(* before the free index, the index is moved down to c, and the invariant  *)
(* about room holds again.                                                 *)
LEMMA RoomNoted ==
  ASSUME NEW w \in Worlds, NEW c \in Chunks, w.chunk[c].live, ListOK(w), RoomBut(w, {c})
  PROVE  LET v == RoomIn(w, c[1], c)
         IN /\ ArchOnly(w, v, c[1]) /\ RoomOK(v)
            /\ v.arch[c[1]].life = w.arch[c[1]].life /\ v.arch[c[1]].max = w.arch[c[1]].max
<1> DEFINE a == c[1]
           k == w.arch[a]
           i == w.chunk[c].idx
           f == k.free
           v == RoomIn(w, a, c)
<1>0. a \in Archetypes
  BY ChunkOfArch
<1>1. /\ i \in Nat \ {0} /\ i \in 1..Len(k.list) /\ k.list[i] = c
      /\ \A j \in 1..Len(k.list) : k.list[j] = c => j = i
  BY ChunkListed
<1>2. f \in Nat \ {0} /\ Len(k.list) \in Nat /\ \A j \in 1..Len(k.list) : k.list[j] \in Chunks
  BY <1>0, ArchFields
<1>3. ArchOnly(w, w, a)
  BY DEF ArchOnly
<1>4. ASSUME NEW u, NEW h \in Nat \ {0}, ArchOnly(w, u, a), u.arch[a].free = h, h <= Len(k.list) + 1,
             ~k.req => \A j \in 1..(h - 1) : Full(w, a, k.list[j])
      PROVE  RoomOK(u)
  <2>1. \A b \in Archetypes : \A d : Full(u, b, d) <=> Full(w, b, d)
    BY Zenon, <1>4 DEF Full, ArchOnly
  <2>2. \A b \in Archetypes : u.arch[b].req = w.arch[b].req /\ u.arch[b].list = w.arch[b].list
    BY <1>4 DEF ArchOnly
  <2> SUFFICES ASSUME NEW b \in Archetypes, ~u.arch[b].req
               PROVE  /\ u.arch[b].free <= Len(u.arch[b].list) + 1
                      /\ \A j \in 1..(u.arch[b].free - 1) : Full(u, b, u.arch[b].list[j])
    BY DEF RoomOK
  <2>3. CASE b = a
    BY <1>4, <2>1, <2>2, <2>3
  <2>4. CASE b # a
    <3>1. u.arch[b] = w.arch[b]
      BY <1>4, <2>4 DEF ArchOnly
    <3>2. /\ w.arch[b].free <= Len(w.arch[b].list) + 1
          /\ \A j \in 1..(w.arch[b].free - 1) :
               w.arch[b].list[j] # c => Full(w, b, w.arch[b].list[j])
      BY <3>1 DEF RoomBut
    <3>3. ASSUME NEW j \in 1..(w.arch[b].free - 1)
          PROVE  w.arch[b].list[j] # c
      <4>1. j \in 1..Len(w.arch[b].list)
        BY <3>2, ArchFields
      <4>2. w.arch[b].list[j][1] = b
        BY <4>1 DEF ListOK, ListsOK
      <4>. QED  BY <2>4, <4>2
    <3>. QED  BY <2>1, <3>1, <3>2, <3>3
  <2>. QED  BY <2>3, <2>4
<1>5. ASSUME ~k.req
      PROVE  /\ f <= Len(k.list) + 1
             /\ \A j \in 1..(f - 1) : j # i => Full(w, a, k.list[j])
  <2>1. f <= Len(k.list) + 1
    BY <1>0, <1>5 DEF RoomBut
  <2>2. \A j \in 1..(f - 1) : j \in 1..Len(k.list)
    BY <1>2, <2>1
  <2>3. \A j \in 1..(f - 1) : j # i => k.list[j] # c
    BY <1>1, <2>2
  <2>. QED  BY <2>1, <2>3, <1>0, <1>5 DEF RoomBut
<1>6. CASE i = f
  <2>1. v = w
    BY <1>1, <1>2, <1>6 DEF RoomIn
  <2>2. f <= Len(k.list) + 1 /\ (~k.req => \A j \in 1..(f - 1) : Full(w, a, k.list[j]))
    BY <1>1, <1>2, <1>5, <1>6
  <2>3. RoomOK(w)
    BY <1>2, <1>3, <1>4, <2>2
  <2>. QED  BY <1>3, <2>1, <2>3
<1>7. CASE i < f
  <2>1. v = WithFree(w, a, i)
    BY <1>1, <1>2, <1>7 DEF RoomIn, WithFree
  <2>2. /\ ArchOnly(w, v, a) /\ v.arch[a].free = i
        /\ v.arch[a].life = k.life /\ v.arch[a].max = k.max
    BY <1>0, <1>1, <2>1, FreeSet
  <2>3. i <= Len(k.list) + 1 /\ (~k.req => \A j \in 1..(i - 1) : Full(w, a, k.list[j]))
    <3>1. i <= Len(k.list) + 1 /\ \A j \in 1..(i - 1) : j \in 1..(f - 1) /\ j # i
      BY <1>1, <1>2, <1>7
    <3> HIDE DEF i, f, k
    <3>. QED  BY <1>5, <3>1
  <2> HIDE DEF v, i
  <2>4. RoomOK(v)
    BY <1>1, <1>4, <2>2, <2>3
  <2>. QED  BY <2>2, <2>4 DEF v
<1>8. CASE i > f
  <2>1. v = SkipFull(w, a)
    BY <1>1, <1>2, <1>8 DEF RoomIn
  <2>2. f <= Len(k.list) /\ (~k.req => \A j \in 1..(f - 1) : Full(w, a, k.list[j]))
    BY <1>1, <1>2, <1>5, <1>8
  <2>3. CASE Full(w, a, k.list[f])
    <3>1. v = WithFree(w, a, f + 1)
      BY <2>1, <2>3 DEF SkipFull, FreeChunk, WithFree
    <3>2. f + 1 \in Nat \ {0} /\ f + 1 <= Len(k.list) + 1
      BY <1>2, <2>2
    <3>3. /\ ArchOnly(w, v, a) /\ v.arch[a].free = f + 1
          /\ v.arch[a].life = k.life /\ v.arch[a].max = k.max
      BY <1>0, <3>1, <3>2, FreeSet
    <3>4. ~k.req => \A j \in 1..((f + 1) - 1) : Full(w, a, k.list[j])
      <4>1. \A j \in 1..((f + 1) - 1) : j = f \/ j \in 1..(f - 1)
        BY <1>2
      <4> HIDE DEF f
      <4>. QED  BY <2>2, <2>3, <4>1
    <3>5. PICK h \in Nat \ {0} : h = f + 1
      BY <3>2
    <3> HIDE DEF v, f
    <3>6. RoomOK(v)
      BY <1>4, <3>2, <3>3, <3>4, <3>5
    <3>. QED  BY <3>3, <3>6 DEF v
  <2>4. CASE ~Full(w, a, k.list[f])
    <3>1. v = w
      BY <2>1, <2>4 DEF SkipFull, FreeChunk
    <3>2. RoomOK(w)
      BY <1>2, <1>3, <1>4, <2>2
    <3>. QED  BY <1>3, <3>1, <3>2
  <2>. QED  BY <2>3, <2>4
<1>9. i = f \/ i < f \/ i > f
  BY <1>1, <1>2
<1>. QED  BY <1>6, <1>7, <1>8, <1>9

(* World::try_enqueue_chunk_for_deletion.                                  *)
LEMMA ChunkEnqueued ==
  ASSUME NEW w, BaseOK(w), NEW c \in Chunks, w.chunk[c].live, EmptyOK(w, {c}),
         NEW x, NEW E, Agree(w, x, E)
  PROVE  LET v == EnqueueChunk(w, c[1], c)
         IN /\ BaseOK(v) /\ EmptyOK(v, {}) /\ Agree(v, x, E)
            /\ v.arch = w.arch /\ v.rec = w.rec
            /\ \A d \in Chunks : d # c => v.chunk[d] = w.chunk[d]
            /\ v.chunk[c].rows = w.chunk[c].rows
<1> DEFINE n == Len(w.queue) + 1
           y == [arch |-> c[1], chunk |-> c]
           q == Append(w.queue, y)
           K == [w.chunk[c] EXCEPT !.life = ChunkLife, !.slot = n]
           v == EnqueueChunk(w, c[1], c)
           p == PutQueue(w, q)
<1>0. w \in Worlds /\ ListOK(w) /\ RowsOK(w) /\ QueueOK(w) /\ RoomOK(w)
  BY DEF BaseOK
<1>1. /\ w.chunk[c] \in ChunkSet /\ w.chunk[c].life \in Nat /\ w.chunk[c].slot \in Nat
      /\ w.chunk \in [Chunks -> ChunkSet]
  BY <1>0, ChunkFields, Parts
<1>2. w.chunk[c].slot = 0 <=> w.chunk[c].life = 0
  BY <1>0 DEF QueueOK
<1>3. CASE w.chunk[c].life > 0 \/ w.chunk[c].rows # <<>>
  <2>1. v = w
    BY <1>3 DEF EnqueueChunk
  <2>2. w.chunk[c].rows = <<>> => w.chunk[c].slot # 0
    BY <1>1, <1>2, <1>3
  <2>3. EmptyOK(w, {})
    BY <2>2 DEF EmptyOK
  <2>. QED  BY <2>1, <2>3
<1>4. CASE ~(w.chunk[c].life > 0 \/ w.chunk[c].rows # <<>>)
  <2>1. w.chunk[c].life = 0 /\ w.chunk[c].slot = 0
    BY <1>1, <1>2, <1>4
  <2>2. v = PutChunk(p, c, K)
    BY <1>0, <1>4, Parts DEF EnqueueChunk, PutChunk, PutQueue
  <2>3. w.queue \in Seq(EntrySet) /\ Len(w.queue) \in Nat /\ y \in EntrySet
    BY <1>0, QueueFields, ChunkOfArch DEF EntrySet
  <2>4. /\ q \in Seq(EntrySet) /\ Len(q) = n /\ q[n] = y
        /\ \A i \in 1..Len(w.queue) : q[i] = w.queue[i]
    BY <2>3, AppendProperties
  <2> HIDE DEF q
  <2>5. /\ p \in Worlds /\ p.arch = w.arch /\ p.chunk = w.chunk /\ p.rec = w.rec
        /\ p.queue = q
    BY <1>0, <2>4, QueuePut
  <2>6. /\ K \in ChunkSet /\ K.rows = w.chunk[c].rows /\ K.first = w.chunk[c].first
        /\ K.enabled = w.chunk[c].enabled /\ K.live = w.chunk[c].live /\ K.idx = w.chunk[c].idx
        /\ K.life = ChunkLife /\ K.slot = n
    <3>1. n \in Nat /\ ChunkLife \in Nat
      BY <2>3, StorageAssumption
    <3> HIDE DEF n
    <3>. QED  BY <1>1, <3>1 DEF ChunkSet
  <2> HIDE DEF p, K, v, n
  <2>7. /\ v \in Worlds /\ v.arch = w.arch /\ v.rec = w.rec /\ v.queue = q
        /\ v.chunk = [w.chunk EXCEPT ![c] = K]
    BY <2>2, <2>5, <2>6, ChunkPut
  <2>8. v.chunk[c] = K /\ \A d \in Chunks : d # c => v.chunk[d] = w.chunk[d]
    BY <1>1, <2>7
  <2>9. ChunkLife \in Nat /\ ChunkLife > 0 /\ n \in Nat /\ n > 0 /\ n = Len(w.queue) + 1
    BY <2>3, StorageAssumption DEF n
  <2>10. \A d \in Chunks : /\ v.chunk[d].rows = w.chunk[d].rows /\ v.chunk[d].live = w.chunk[d].live
                           /\ v.chunk[d].idx = w.chunk[d].idx
                           /\ ~w.chunk[d].live => v.chunk[d] = w.chunk[d]
    BY <2>6, <2>8
  <2>11. PlacesOK(v)
    BY <1>0, <2>7, <2>10 DEF ListOK, PlacesOK
  <2>12. ListsOK(v)
    <3> SUFFICES ASSUME NEW b \in Archetypes, NEW i \in 1..Len(v.arch[b].list)
                 PROVE  LET d == v.arch[b].list[i]
                        IN d[1] = b /\ v.chunk[d].live /\ v.chunk[d].idx = i
      BY Zenon DEF ListsOK
    <3>1. LET d == v.arch[b].list[i]
          IN d \in Chunks /\ d[1] = b /\ w.chunk[d].live /\ w.chunk[d].idx = i
      BY <1>0, <2>7, ArchFields DEF ListOK, ListsOK
    <3>. QED  BY Zenon, <2>10, <3>1
  <2>13. RowsOK(v)
    BY <1>0, <2>6, <2>8, <2>9 DEF RowsOK
  <2>14. QueueOK(v)
    <3>1. ASSUME NEW i \in 1..Len(v.queue)
          PROVE  LET d == v.queue[i].chunk
                 IN v.queue[i].arch = d[1] /\ v.chunk[d].live /\ v.chunk[d].slot = i
      <4>1. CASE i = n
        <5>1. v.queue[i] = y /\ y.arch = c[1] /\ y.chunk = c
          BY <2>4, <2>7, <4>1
        <5>2. v.chunk[c].live /\ v.chunk[c].slot = n
          BY <2>6, <2>8
        <5> HIDE DEF y
        <5>. QED  BY <4>1, <5>1, <5>2
      <4>2. CASE i # n
        <5>1. i \in 1..Len(w.queue) /\ v.queue[i] = w.queue[i]
          BY <2>3, <2>4, <2>7, <2>9, <4>2
        <5>2. LET d == w.queue[i].chunk
              IN d \in Chunks /\ w.queue[i].arch = d[1] /\ w.chunk[d].live /\ w.chunk[d].slot = i
          BY <1>0, <5>1, QueueFields DEF QueueOK
        <5>3. w.queue[i].chunk # c
          BY <2>1, <5>1, <5>2
        <5>. QED  BY <2>8, <5>1, <5>2, <5>3
      <4>. QED  BY <4>1, <4>2
    <3>2. ASSUME NEW d \in Chunks
          PROVE  /\ v.chunk[d].slot = 0 <=> v.chunk[d].life = 0
                 /\ v.chunk[d].slot # 0 =>
                      v.chunk[d].slot <= Len(v.queue) /\ v.queue[v.chunk[d].slot].chunk = d
      <4>1. CASE d = c
        <5>1. v.chunk[d].slot = n /\ v.chunk[d].life = ChunkLife
          BY <4>1, <2>6, <2>8
        <5>2. Len(v.queue) = n /\ v.queue[n].chunk = c
          BY <2>4, <2>7
        <5>. QED  BY <4>1, <5>1, <5>2, <2>9
      <4>2. CASE d # c
        <5>1. v.chunk[d] = w.chunk[d] /\ w.chunk[d].slot \in Nat
          BY <1>0, <2>8, <4>2, ChunkFields
        <5>2. /\ w.chunk[d].slot = 0 <=> w.chunk[d].life = 0
              /\ w.chunk[d].slot # 0 =>
                   w.chunk[d].slot <= Len(w.queue) /\ w.queue[w.chunk[d].slot].chunk = d
          BY <1>0 DEF QueueOK
        <5>3. ASSUME w.chunk[d].slot # 0
              PROVE  w.chunk[d].slot \in 1..Len(w.queue) /\ w.chunk[d].slot <= n
          BY <2>3, <2>9, <5>1, <5>2, <5>3
        <5>. QED  BY <2>4, <2>7, <5>1, <5>2, <5>3
      <4>. QED  BY <4>1, <4>2
    <3>. QED  BY <3>1, <3>2 DEF QueueOK
  <2>15. RoomOK(v)
    <3>1. \A d \in Chunks : Len(v.chunk[d].rows) >= Len(w.chunk[d].rows)
      BY <1>0, <2>10, RowsOfChunk
    <3>. QED  BY <1>0, <2>7, <3>1, RoomStays
  <2>16. EmptyOK(v, {})
    <3> SUFFICES ASSUME NEW d \in Chunks, v.chunk[d].live, v.chunk[d].rows = <<>>
                 PROVE  v.chunk[d].slot # 0
      BY DEF EmptyOK
    <3>1. CASE d = c
      BY <3>1, <2>6, <2>8, <2>9
    <3>2. CASE d # c
      BY <3>2, <2>8 DEF EmptyOK
    <3>. QED  BY <3>1, <3>2
  <2>17. Agree(v, x, E)
    BY <1>0, <2>7, <2>10, AgreeKept
  <2>18. ListOK(v)
    BY <1>0, <2>7, <2>11, <2>12 DEF ListOK
  <2>. QED  BY <2>7, <2>8, <2>10, <2>13, <2>14, <2>15, <2>16, <2>17, <2>18 DEF BaseOK, v
<1>. QED  BY <1>3, <1>4

(* World::remove_entity: entity e of row i has no row any more.            *)
SameLists(w, v) ==
  \A a \in Archetypes : /\ v.arch[a].live = w.arch[a].live /\ v.arch[a].list = w.arch[a].list
                        /\ v.arch[a].req = w.arch[a].req
                        /\ v.arch[a].life = w.arch[a].life /\ v.arch[a].max = w.arch[a].max

(* What removing a row of chunk c leaves: the lists, the other archetypes  *)
(* and chunks, and the place of every entity.                              *)
Taken(w, v, c) ==
  /\ SameLists(w, v) /\ \A a \in Archetypes : a # c[1] => v.arch[a] = w.arch[a]
  /\ \A d \in Chunks : d # c => v.chunk[d] = w.chunk[d]
  /\ Len(v.chunk[c].rows) = Len(w.chunk[c].rows) - 1
  /\ \A h \in Entities : v.rec[h].arch = w.rec[h].arch /\ v.rec[h].chunk = w.rec[h].chunk

(* World::remove_entity: taking a row out of a chunk keeps the storage     *)
(* right; only the entity it held is left without a row.                   *)
LEMMA RowTaken ==
  ASSUME NEW w, BaseOK(w), EmptyOK(w, {}), NEW c \in Chunks,
         NEW i \in 1..Len(w.chunk[c].rows),
         NEW x, Agree(w, x, {}), \A m \in Nat : <<c, m>> # x
  PROVE  LET v == TakeRow(w, c[1], c, i)
         IN /\ BaseOK(v) /\ EmptyOK(v, {}) /\ Agree(v, x, {w.chunk[c].rows[i].ent})
            /\ Taken(w, v, c)
<1> DEFINE a == c[1]
           e == w.chunk[c].rows[i].ent
           n == Len(w.chunk[c].rows)
           u == RemoveRow(w, c, i)
           y == RoomIn(u, a, c)
           v == EnqueueChunk(y, a, c)
<1>0. w \in Worlds /\ ListOK(w) /\ RowsOK(w) /\ QueueOK(w) /\ RoomOK(w) /\ a \in Archetypes
  BY ChunkOfArch DEF BaseOK
<1>1. n \in Nat /\ n # 0 /\ w.chunk[c].live
  <2>1. n \in Nat /\ n # 0
    BY <1>0, RowsOfChunk
  <2>. QED  BY <2>1, <1>0, RowsLive
<1>2. RowsOnly(w, u, c) /\ Agree(u, x, {e}) /\ RowsOK(u) /\ Len(u.chunk[c].rows) = n - 1
  BY <1>0, RowRemoved
<1> HIDE DEF u
<1>3. u \in Worlds /\ u.chunk[c].live /\ ListOK(u) /\ QueueOK(u) /\ u.arch = w.arch
      /\ \A d \in Chunks : d # c => u.chunk[d] = w.chunk[d]
  BY <1>0, <1>1, <1>2, RowsOnlyKeeps DEF RowsOnly
<1>4. RoomBut(u, {c})
  <2> SUFFICES ASSUME NEW b \in Archetypes, ~u.arch[b].req
               PROVE  /\ u.arch[b].free <= Len(u.arch[b].list) + 1
                      /\ \A j \in 1..(u.arch[b].free - 1) :
                           u.arch[b].list[j] # c => Full(u, b, u.arch[b].list[j])
    BY DEF RoomBut
  <2>1. /\ w.arch[b].free <= Len(w.arch[b].list) + 1
        /\ \A j \in 1..(w.arch[b].free - 1) : Full(w, b, w.arch[b].list[j])
    BY <1>0, <1>3 DEF RoomOK
  <2>2. \A j \in 1..(w.arch[b].free - 1) : w.arch[b].list[j] \in Chunks
    BY <1>0, <2>1, ArchFields
  <2>. QED  BY <1>3, <2>1, <2>2 DEF Full
<1>5. /\ ArchOnly(u, y, a) /\ RoomOK(y)
      /\ y.arch[a].life = u.arch[a].life /\ y.arch[a].max = u.arch[a].max
  BY <1>3, <1>4, RoomNoted
<1> HIDE DEF y, e
<1>6. u.arch[a].live
  BY <1>3, ChunkListed
<1>7. ListOK(y) /\ RowsOK(y) /\ QueueOK(y) /\ Agree(y, x, {e})
  BY <1>0, <1>2, <1>3, <1>5, <1>6, ArchOnlyKeeps, ArchOnlyAgrees
<1>8. y.chunk = u.chunk /\ y.rec = u.rec /\ BaseOK(y) /\ y.chunk[c].live
  BY <1>3, <1>5, <1>7 DEF ArchOnly, BaseOK
<1>9. EmptyOK(y, {c})
  BY <1>3, <1>8 DEF EmptyOK
<1>10. /\ BaseOK(v) /\ EmptyOK(v, {}) /\ Agree(v, x, {e})
       /\ v.arch = y.arch /\ v.rec = y.rec
       /\ \A d \in Chunks : d # c => v.chunk[d] = y.chunk[d]
       /\ v.chunk[c].rows = y.chunk[c].rows
  BY <1>7, <1>8, <1>9, ChunkEnqueued
<1>11. TakeRow(w, a, c, i) = v
  BY DEF TakeRow, y, u
<1> HIDE DEF v
<1>12. SameLists(w, v) /\ \A b \in Archetypes : b # a => v.arch[b] = w.arch[b]
  BY <1>3, <1>5, <1>10 DEF ArchOnly, SameLists
<1>13. \A h \in Entities : v.rec[h].arch = w.rec[h].arch /\ v.rec[h].chunk = w.rec[h].chunk
  BY <1>2, <1>8, <1>10 DEF RowsOnly
<1>14. Len(v.chunk[c].rows) = n - 1
  BY <1>2, <1>8, <1>10
<1>15. \A d \in Chunks : d # c => v.chunk[d] = w.chunk[d]
  BY <1>3, <1>8, <1>10
<1>16. Agree(v, x, {w.chunk[c].rows[i].ent})
  BY <1>10 DEF e
<1> HIDE DEF n
<1>. QED  BY Zenon, <1>10, <1>11, <1>12, <1>13, <1>14, <1>15, <1>16 DEF n, Taken

(* World::move_entity.                                                     *)
LEMMA NoRowInChunk ==
  ASSUME NEW c, NEW m
  PROVE  <<c, m>> # NoRow
BY DEF NoRow

(* A change of the rows of one chunk that loses none keeps everything else *)
(* about the storage.                                                      *)
LEMMA RowsOnlyStays ==
  ASSUME NEW w, BaseOK(w), NEW v, NEW c \in Chunks, w.chunk[c].live, NEW D, EmptyOK(w, D),
         RowsOnly(w, v, c), RowsOK(v), Len(v.chunk[c].rows) >= Len(w.chunk[c].rows)
  PROVE  BaseOK(v) /\ EmptyOK(v, D) /\ v.chunk[c].live
<1>1. w \in Worlds /\ ListOK(w) /\ RowsOK(w) /\ QueueOK(w) /\ RoomOK(w)
  BY DEF BaseOK
<1>2. /\ v \in Worlds /\ v.arch = w.arch
      /\ \A b \in Chunks : b # c => v.chunk[b] = w.chunk[b]
      /\ v.chunk[c].live = w.chunk[c].live /\ v.chunk[c].slot = w.chunk[c].slot
  BY DEF RowsOnly
<1>3. v.chunk[c].live /\ ListOK(v) /\ QueueOK(v)
  BY <1>1, RowsOnlyKeeps
<1>4. ASSUME NEW b \in Chunks
      PROVE  Len(v.chunk[b].rows) >= Len(w.chunk[b].rows)
  <2>1. CASE b = c
    BY <2>1
  <2>2. CASE b # c
    <3>1. v.chunk[b].rows = w.chunk[b].rows /\ Len(w.chunk[b].rows) \in Nat
      BY <1>1, <1>2, <2>2, RowsOfChunk
    <3>. QED  BY <3>1
  <2>. QED  BY <2>1, <2>2
<1>5. RoomOK(v)
  BY <1>1, <1>2, <1>4, RoomStays
<1>6. ASSUME NEW d \in Chunks \ D, v.chunk[d].live, v.chunk[d].rows = <<>>
      PROVE  v.chunk[d].slot # 0
  <2>1. CASE d = c
    <3>1. Len(v.chunk[c].rows) = 0 /\ Len(w.chunk[c].rows) \in Nat
      BY <1>1, <1>6, <2>1, RowsOfChunk
    <3>2. c \notin D /\ Len(w.chunk[c].rows) = 0
      BY <1>6, <2>1, <3>1
    <3>3. w.chunk[c].rows = <<>>
      BY <1>1, <3>2, RowsOfChunk, EmptySeq
    <3>. QED  BY <1>2, <2>1, <3>2, <3>3 DEF EmptyOK
  <2>2. CASE d # c
    BY <1>2, <1>6, <2>2 DEF EmptyOK
  <2>. QED  BY <2>1, <2>2
<1>7. EmptyOK(v, D)
  BY <1>6 DEF EmptyOK
<1>. QED  BY <1>2, <1>3, <1>5, <1>7 DEF BaseOK

(* A chunk with rows need not be queued.                                   *)
LEMMA NotEmpty ==
  ASSUME NEW v, NEW c \in Chunks, EmptyOK(v, {c}), Len(v.chunk[c].rows) # 0
  PROVE  EmptyOK(v, {})
BY DEF EmptyOK

(* A change of the records alone keeps everything but the agreement of rows*)
(* and records.                                                            *)
LEMMA OnlyRecords ==
  ASSUME NEW w, BaseOK(w), NEW D, EmptyOK(w, D), NEW v \in Worlds,
         v.arch = w.arch, v.chunk = w.chunk, v.queue = w.queue
  PROVE  BaseOK(v) /\ EmptyOK(v, D)
<1>1. ListOK(v)
  BY DEF BaseOK, ListOK, PlacesOK, ListsOK
<1>2. RowsOK(v) /\ QueueOK(v) /\ EmptyOK(v, D)
  BY DEF BaseOK, RowsOK, QueueOK, EmptyOK
<1>3. RoomOK(v)
  BY DEF BaseOK, RoomOK, Full
<1>. QED  BY <1>1, <1>2, <1>3 DEF BaseOK

(* The end of World::move_entity: the record names the new archetype, chunk*)
(* and row.                                                                *)
LEMMA NameGiven ==
  ASSUME NEW w \in Worlds, NEW e \in Entities, NEW c \in Chunks, NEW n \in Nat
  PROVE  LET R == [w.rec[e] EXCEPT !.arch = c[1], !.chunk = c, !.row = n]
         IN /\ R \in RecordSet /\ NamedBy(R, c, n)
            /\ NameRow(w, e, c[1], c, n) = PutRecord(w, e, R)
<1> DEFINE R == [w.rec[e] EXCEPT !.arch = c[1], !.chunk = c, !.row = n]
<1>1. w.rec[e] \in RecordSet /\ c[1] \in Archetypes
  BY Parts, ChunkOfArch
<1>2. R \in RecordSet /\ R.arch = c[1] /\ R.chunk = c /\ R.row = n
  BY <1>1 DEF RecordSet
<1>3. NameRow(w, e, c[1], c, n) = PutRecord(w, e, R)
  BY Zenon DEF NameRow, PutRecord
<1>. QED  BY <1>2, <1>3 DEF NamedBy

(* World::move_entity: the entity leaves its chunk for a row at the end of *)
(* chunk d; the storage stays right and no other entity changes archetypes.*)
LEMMA RowMoved ==
  ASSUME NEW w, BaseOK(w), NEW d \in Chunks, EmptyOK(w, {d}), Agree(w, NoRow, {}),
         w.chunk[d].live, Len(w.chunk[d].rows) < Capacity[d[1]],
         NEW e \in Entities, IsValid(w, e), w.rec[e].chunk # d
  PROVE  LET v == MoveRow(w, e, d[1], d)
             c == w.rec[e].chunk
         IN /\ BaseOK(v) /\ EmptyOK(v, {}) /\ Agree(v, NoRow, {})
            /\ SameLists(w, v) /\ \A a \in Archetypes : a # c[1] => v.arch[a] = w.arch[a]
            /\ v.rec[e].arch = d[1]
            /\ \A h \in Entities : h # e => v.rec[h].arch = w.rec[h].arch
            /\ \A b \in Chunks : b # c /\ b # d => v.chunk[b] = w.chunk[b]
            /\ v.chunk[d].live /\ Len(v.chunk[d].rows) = Len(w.chunk[d].rows) + 1
<1> DEFINE old == w.rec[e]
           c == old.chunk
           n == Len(w.chunk[d].rows) + 1
           x == <<d, n>>
           m == AddRow(w, d, e)
           on == EnableRow(m, c, old.row)
           i == on.rec[e].row
           z == on.chunk[c].rows[i].val
           copied == CopyVal(on, d, n, z)
           taken == TakeRow(copied, c[1], c, i)
           R == [taken.rec[e] EXCEPT !.arch = d[1], !.chunk = d, !.row = n]
           moved == PutRecord(taken, e, R)
           v == IF old.dis THEN DisableRow(moved, d, n) ELSE EnableRow(moved, d, n)
<1>0. /\ w \in Worlds /\ ListOK(w) /\ RowsOK(w) /\ QueueOK(w) /\ RoomOK(w)
  BY DEF BaseOK
<1>1. /\ c \in Chunks /\ c[1] = old.arch /\ c # d
      /\ old.row \in 1..Len(w.chunk[c].rows) /\ w.chunk[c].rows[old.row].ent = e
  <2>1. HasRow(w, e)
    BY DEF Agree
  <2>. QED  BY Zenon, <2>1 DEF HasRow
<1>2. w.chunk[c].live
  BY <1>0, <1>1, RowsOfChunk, RowsLive
<1>3. n \in Nat /\ n \in 1..n /\ n # 0 /\ (\A j \in Nat : <<c, j>> # x)
  <2>1. Len(w.chunk[d].rows) \in Nat
    BY <1>0, RowsOfChunk
  <2>. QED  BY <1>1, <2>1
<1>4. /\ RowsOnly(w, m, d) /\ Agree(m, x, {}) /\ RowsOK(m) /\ m.rec = w.rec
      /\ Len(m.chunk[d].rows) = n /\ m.chunk[d].rows[n].ent = e
  BY <1>0, RowAdded
<1> HIDE DEF m
<1>5. /\ BaseOK(m) /\ EmptyOK(m, {}) /\ m \in Worlds
      /\ m.chunk[c] = w.chunk[c] /\ m.chunk[d].live /\ m.arch = w.arch
  <2>1. m \in Worlds /\ m.arch = w.arch /\ m.chunk[c] = w.chunk[c]
        /\ \A b \in Chunks : b # d => m.chunk[b] = w.chunk[b]
    BY Zenon, <1>1, <1>4 DEF RowsOnly
  <2>2. Len(w.chunk[d].rows) \in Nat
    BY <1>0, RowsOfChunk
  <2>3. Len(m.chunk[d].rows) >= Len(w.chunk[d].rows) /\ Len(m.chunk[d].rows) # 0
    <3>1. Len(m.chunk[d].rows) = n
      BY <1>4
    <3>2. n >= Len(w.chunk[d].rows) /\ n # 0
      <4>1. \A j \in Nat : j + 1 >= j /\ j + 1 # 0
        OBVIOUS
      <4>. QED  BY Zenon, <2>2, <4>1
    <3> HIDE DEF n
    <3>. QED  BY <3>1, <3>2
  <2> HIDE DEF n, x
  <2>4. BaseOK(m) /\ EmptyOK(m, {d}) /\ m.chunk[d].live
    BY <1>4, <2>3, RowsOnlyStays
  <2>5. EmptyOK(m, {})
    BY <2>3, <2>4, NotEmpty
  <2>. QED  BY <2>1, <2>4, <2>5
<1>6. RowsKept(m, on, c, x, {})
  BY <1>1, <1>3, <1>4, <1>5, RowEnabled
<1> HIDE DEF on
<1>7. /\ BaseOK(on) /\ EmptyOK(on, {}) /\ on \in Worlds /\ on.arch = w.arch /\ Agree(on, x, {})
      /\ on.chunk[d] = m.chunk[d] /\ on.chunk[c].live
      /\ \A b \in Chunks : b # c => on.chunk[b] = m.chunk[b]
      /\ \A h \in Entities : on.rec[h].arch = w.rec[h].arch /\ on.rec[h].chunk = w.rec[h].chunk
  <2>1. RowsOnly(m, on, c) /\ Agree(on, x, {}) /\ RowsOK(on)
        /\ Len(on.chunk[c].rows) = Len(m.chunk[c].rows)
    BY <1>6 DEF RowsKept
  <2>2. on \in Worlds /\ on.arch = w.arch /\ on.chunk[d] = m.chunk[d]
        /\ \A b \in Chunks : b # c => on.chunk[b] = m.chunk[b]
    BY Zenon, <1>1, <1>5, <2>1 DEF RowsOnly
  <2>3. Len(m.chunk[c].rows) \in Nat /\ m.chunk[c].live
    BY Zenon, <1>1, <1>2, <1>5, RowsOfChunk
  <2>4. Len(on.chunk[c].rows) >= Len(m.chunk[c].rows)
    BY <2>1, <2>3
  <2>5. BaseOK(on) /\ EmptyOK(on, {}) /\ on.chunk[c].live
    <3> HIDE DEF c, x
    <3>. QED  BY <1>1, <1>5, <2>1, <2>3, <2>4, RowsOnlyStays
  <2>6. \A h \in Entities : on.rec[h].arch = w.rec[h].arch /\ on.rec[h].chunk = w.rec[h].chunk
    <3>1. \A h \in Entities : on.rec[h].arch = m.rec[h].arch /\ on.rec[h].chunk = m.rec[h].chunk
      BY Zenon, <2>1 DEF RowsOnly
    <3>. QED  BY Zenon, <1>4, <3>1
  <2>. QED  BY Zenon, <2>1, <2>2, <2>4, <2>5, <2>6
<1>8. i \in 1..Len(on.chunk[c].rows) /\ on.chunk[c].rows[i].ent = e /\ z = e
  <2>1. IsValid(on, e)
    BY <1>7 DEF IsValid
  <2>2. HasRow(on, e)
    BY <1>7, <2>1 DEF Agree
  <2>3. i \in 1..Len(on.chunk[c].rows) /\ on.chunk[c].rows[i].ent = e
    BY Zenon, <1>7, <2>2 DEF HasRow
  <2>4. <<c, i>> # x
    BY Zenon, <1>1
  <2>5. on.chunk[c].rows[i].val = on.chunk[c].rows[i].ent
    BY <1>1, <1>7, <2>3, <2>4 DEF Agree, RowsNamed
  <2>. QED  BY Zenon, <2>3, <2>5
<1> HIDE DEF i, z
<1>9. /\ RowsKept(on, copied, d, x, {}) /\ copied.rec = on.rec
      /\ copied.chunk[d].rows[n].ent = e /\ copied.chunk[d].rows[n].val = e
  <2>1. n \in 1..Len(on.chunk[d].rows)
    BY Zenon, <1>3, <1>4, <1>7
  <2>2. z \in Entities /\ RowsOK(on)
    BY Zenon, <1>7, <1>8 DEF BaseOK
  <2> HIDE DEF n
  <2>3. /\ RowsKept(on, copied, d, x, {}) /\ copied.rec = on.rec
        /\ copied.chunk[d].rows[n].ent = on.chunk[d].rows[n].ent
        /\ copied.chunk[d].rows[n].val = z
    BY <1>7, <2>1, <2>2, ValCopied
  <2>. QED  BY <1>4, <1>7, <1>8, <2>3
<1> HIDE DEF copied
<1>10. /\ BaseOK(copied) /\ EmptyOK(copied, {}) /\ Agree(copied, x, {})
       /\ copied.arch = w.arch /\ copied.chunk[c] = on.chunk[c]
       /\ copied.chunk[d].live /\ Len(copied.chunk[d].rows) = n
       /\ \A b \in Chunks : b # d => copied.chunk[b] = on.chunk[b]
  <2>1. RowsOnly(on, copied, d) /\ Agree(copied, x, {}) /\ RowsOK(copied)
        /\ Len(copied.chunk[d].rows) = Len(on.chunk[d].rows)
    BY Zenon, <1>9 DEF RowsKept
  <2>2. copied \in Worlds /\ copied.arch = w.arch /\ copied.chunk[c] = on.chunk[c]
        /\ \A b \in Chunks : b # d => copied.chunk[b] = on.chunk[b]
    BY Zenon, <1>1, <1>7, <2>1 DEF RowsOnly
  <2>3. Len(on.chunk[d].rows) = n /\ on.chunk[d].live
    BY Zenon, <1>4, <1>5, <1>7
  <2>4. Len(copied.chunk[d].rows) >= Len(on.chunk[d].rows)
    BY <1>3, <2>1, <2>3
  <2>5. BaseOK(copied) /\ EmptyOK(copied, {}) /\ copied.chunk[d].live
    BY <1>7, <2>1, <2>3, <2>4, RowsOnlyStays
  <2>. QED  BY <2>1, <2>2, <2>3, <2>4, <2>5
<1>11. /\ BaseOK(taken) /\ EmptyOK(taken, {}) /\ Agree(taken, x, {e})
       /\ SameLists(copied, taken)
       /\ \A a \in Archetypes : a # c[1] => taken.arch[a] = w.arch[a]
       /\ \A b \in Chunks : b # c => taken.chunk[b] = copied.chunk[b]
       /\ \A h \in Entities : taken.rec[h].arch = copied.rec[h].arch
  <2>1. i \in 1..Len(copied.chunk[c].rows) /\ copied.chunk[c].rows[i].ent = e
    BY Zenon, <1>8, <1>10
  <2> HIDE DEF x, c, n
  <2>2. /\ BaseOK(taken) /\ EmptyOK(taken, {}) /\ Agree(taken, x, {copied.chunk[c].rows[i].ent})
        /\ Taken(copied, taken, c)
    BY Zenon, <1>1, <1>3, <1>10, <2>1, RowTaken
  <2> HIDE DEF taken
  <2>3. /\ SameLists(copied, taken)
        /\ \A a \in Archetypes : a # c[1] => taken.arch[a] = w.arch[a]
        /\ \A b \in Chunks : b # c => taken.chunk[b] = copied.chunk[b]
        /\ \A h \in Entities : taken.rec[h].arch = copied.rec[h].arch
    BY <1>10, <2>2 DEF Taken
  <2>. QED  BY <2>1, <2>2, <2>3
<1> HIDE DEF taken
<1>12. /\ R \in RecordSet /\ NamedBy(R, d, n)
       /\ NameRow(taken, e, d[1], d, n) = moved
  BY <1>3, <1>11, NameGiven DEF BaseOK
<1> HIDE DEF R
<1>13. /\ moved \in Worlds /\ moved.arch = taken.arch /\ moved.chunk = taken.chunk
       /\ moved.queue = taken.queue /\ moved.rec = [taken.rec EXCEPT ![e] = R]
       /\ Agree(moved, NoRow, {})
  <2>1. n \in 1..Len(taken.chunk[d].rows) /\ taken.chunk[d].rows[n].ent = e
        /\ taken.chunk[d].rows[n].val = e /\ taken \in Worlds
    BY Zenon, <1>1, <1>3, <1>9, <1>10, <1>11 DEF BaseOK
  <2> HIDE DEF n
  <2>. QED  BY <1>11, <1>12, <2>1, RecordNames
<1> HIDE DEF moved
<1>14. BaseOK(moved) /\ EmptyOK(moved, {}) /\ moved.chunk[d].live /\ Len(moved.chunk[d].rows) = n
  <2>1. BaseOK(moved) /\ EmptyOK(moved, {})
    BY <1>11, <1>13, OnlyRecords
  <2>2. taken.chunk[d] = copied.chunk[d]
    BY Zenon, <1>1, <1>11
  <2>. QED  BY Zenon, <1>10, <1>13, <2>1, <2>2
<1>15. RowsKept(moved, v, d, NoRow, {})
  <2>1. n \in 1..Len(moved.chunk[d].rows)
    BY <1>3, <1>14
  <2> HIDE DEF n
  <2>. QED  BY <1>13, <1>14, <2>1, NoRowInChunk, RowEnabled DEF BaseOK
<1>16. MoveRow(w, e, d[1], d) = v
  <2>1. MoveRow(w, e, d[1], d)
          = LET mv == NameRow(TakeRow(CopyData(on, c, i, d, n), old.arch, c, i), e, d[1], d, n)
            IN IF old.dis THEN DisableRow(mv, d, n) ELSE EnableRow(mv, d, n)
    BY Zenon DEF MoveRow, on, m, i
  <2>2. CopyData(on, c, i, d, n) = copied
    BY Zenon DEF CopyData, CopyVal, copied, z
  <2>3. TakeRow(copied, old.arch, c, i) = taken
    BY Zenon, <1>1 DEF taken
  <2>. QED  BY <1>12, <2>1, <2>2, <2>3
<1> HIDE DEF v
<1>17. /\ BaseOK(v) /\ EmptyOK(v, {}) /\ Agree(v, NoRow, {}) /\ v.arch = moved.arch
       /\ v.chunk[d].live /\ Len(v.chunk[d].rows) = n
       /\ \A b \in Chunks : b # d => v.chunk[b] = moved.chunk[b]
       /\ \A h \in Entities : v.rec[h].arch = moved.rec[h].arch
  <2>1. RowsOnly(moved, v, d) /\ Agree(v, NoRow, {}) /\ RowsOK(v)
        /\ Len(v.chunk[d].rows) = Len(moved.chunk[d].rows)
    BY <1>15 DEF RowsKept
  <2>2. v \in Worlds /\ v.arch = moved.arch
        /\ \A b \in Chunks : b # d => v.chunk[b] = moved.chunk[b]
    BY <2>1 DEF RowsOnly
  <2>3. Len(v.chunk[d].rows) = n /\ Len(v.chunk[d].rows) >= Len(moved.chunk[d].rows)
    BY <1>3, <1>14, <2>1
  <2>4. BaseOK(v) /\ EmptyOK(v, {}) /\ v.chunk[d].live
    BY <1>14, <2>1, <2>3, RowsOnlyStays
  <2>5. \A h \in Entities : v.rec[h].arch = moved.rec[h].arch
    BY <2>1 DEF RowsOnly
  <2>. QED  BY <2>1, <2>2, <2>3, <2>4, <2>5
<1>18. SameLists(w, v) /\ \A a \in Archetypes : a # c[1] => v.arch[a] = w.arch[a]
  BY <1>10, <1>11, <1>13, <1>17 DEF SameLists
<1>19. v.rec[e].arch = d[1] /\ \A h \in Entities : h # e => v.rec[h].arch = w.rec[h].arch
  <2>1. taken.rec \in [Entities -> RecordSet]
    BY <1>11, Parts DEF BaseOK
  <2>2. moved.rec[e] = R /\ \A h \in Entities : h # e => moved.rec[h] = taken.rec[h]
    BY <1>13, <2>1
  <2>0. R.arch = d[1]
    BY <1>12 DEF NamedBy
  <2>3. \A h \in Entities : v.rec[h].arch = moved.rec[h].arch
    BY <1>17
  <2>4. \A h \in Entities : taken.rec[h].arch = w.rec[h].arch
    BY <1>7, <1>9, <1>11
  <2>. QED  BY <2>0, <2>2, <2>3, <2>4
<1>20. \A b \in Chunks : b # c /\ b # d => v.chunk[b] = w.chunk[b]
  <2>1. \A b \in Chunks : b # d => m.chunk[b] = w.chunk[b]
    BY <1>4 DEF RowsOnly
  <2> HIDE DEF c
  <2>. QED  BY <1>7, <1>10, <1>11, <1>13, <1>17, <2>1
<1>21. Len(v.chunk[d].rows) = Len(w.chunk[d].rows) + 1
  BY <1>17
<1>. QED  BY <1>16, <1>17, <1>18, <1>19, <1>20, <1>21

-----------------------------------------------------------------------------
(* Room for another row                                                    *)

(* Min of a non-empty set of numbers is its least element.                 *)
LEMMA LeastOf ==
  ASSUME NEW T \in SUBSET Nat, T # {}
  PROVE  Min(T) \in T /\ \A y \in T : Min(T) <= y
<1>1. PICK x \in T : \A y \in T : ~(<<y, x>> \in OpToRel(<, Nat))
  BY NatLessThanWellFounded, WFMin
<1>2. ASSUME NEW y \in T
      PROVE  x <= y
  <2>1. ~(y < x)
    BY <1>1 DEF OpToRel
  <2>. QED  BY <2>1
<1>. QED  BY <1>2, Zenon DEF Min

(* Max of a non-empty set of numbers up to n is its greatest element.      *)
LEMMA GreatestOf ==
  ASSUME NEW n \in Nat, NEW T \in SUBSET (0..n), T # {}
  PROVE  Max(T) \in T /\ \A y \in T : Max(T) >= y
<1> DEFINE U == {n - y : y \in T}
<1>1. U \in SUBSET Nat /\ U # {}
  <2>1. \A y \in T : n - y \in Nat
    OBVIOUS
  <2>2. PICK y \in T : TRUE
    OBVIOUS
  <2>3. n - y \in U
    OBVIOUS
  <2>. QED  BY <2>1, <2>3
<1>2. PICK u \in U : \A y \in U : u <= y
  BY <1>1, LeastOf
<1>3. PICK x \in T : u = n - x
  BY <1>2
<1>4. ASSUME NEW y \in T
      PROVE  x >= y
  <2>1. u <= n - y
    BY <1>2
  <2>. QED  BY <1>3, <2>1
<1>. QED  BY <1>4, Zenon DEF Max

(* The fields of a chunk that was just created.                            *)
LEMMA BlankChunk ==
  ASSUME NEW i \in Nat
  PROVE  LET k == NewChunk(i)
         IN /\ k \in ChunkSet /\ k.live /\ k.idx = i /\ k.rows = <<>> /\ k.first = 0
            /\ k.enabled = 0 /\ k.life = 0 /\ k.slot = 0
<1>1. <<>> \in Seq(RawRows)
  BY EmptySeq
<1>. QED  BY <1>1 DEF NewChunk, NoChunk, ChunkSet

(* The fields of an archetype that does not exist and of one just created. *)
LEMMA BlankArch ==
  /\ NoArch \in ArchSet /\ ~NoArch.live /\ NoArch.list = <<>> /\ NoArch.free = 1
  /\ NoArch.life = 0 /\ NoArch.max = 0 /\ NoArch.req = FALSE
  /\ NewArch \in ArchSet /\ NewArch.live /\ NewArch.list = <<>> /\ NewArch.free = 1
  /\ NewArch.life = 0 /\ NewArch.max = 1 /\ NewArch.req = FALSE
<1>1. <<>> \in Seq(Chunks)
  BY EmptySeq
<1>2. NoArch \in ArchSet
  BY <1>1 DEF NoArch, ArchSet
<1>3. /\ ~NoArch.live /\ NoArch.list = <<>> /\ NoArch.free = 1
      /\ NoArch.life = 0 /\ NoArch.max = 0 /\ NoArch.req = FALSE
  BY DEF NoArch
<1>4. NewArch \in ArchSet
  BY <1>2 DEF NewArch, ArchSet
<1>5. /\ NewArch.live /\ NewArch.list = <<>> /\ NewArch.free = 1
      /\ NewArch.life = 0 /\ NewArch.max = 1 /\ NewArch.req = FALSE
  <2> DEFINE m == [NoArch EXCEPT !.live = TRUE]
  <2>1. m \in ArchSet /\ m.live /\ m.list = <<>> /\ m.free = 1 /\ m.life = 0 /\ m.req = FALSE
    BY <1>2, <1>3 DEF ArchSet
  <2>2. NewArch = [m EXCEPT !.max = 1]
    BY DEF NewArch
  <2> HIDE DEF m
  <2>. QED  BY <2>1, <2>2 DEF ArchSet
<1>. QED  BY <1>2, <1>3, <1>4, <1>5

(* An archetype that is created has no chunk yet.                          *)
LEMMA ArchCreated ==
  ASSUME NEW w, BaseOK(w), EmptyOK(w, {}), NEW x, NEW E, Agree(w, x, E), NEW a \in Archetypes
  PROVE  LET v == WithArch(w, a)
         IN /\ BaseOK(v) /\ EmptyOK(v, {}) /\ Agree(v, x, E)
            /\ v.chunk = w.chunk /\ v.rec = w.rec /\ v.queue = w.queue /\ v.arch[a].live
            /\ \A b \in Archetypes : b # a => v.arch[b] = w.arch[b]
            /\ v.arch[a].list = w.arch[a].list /\ v.arch[a].free = w.arch[a].free
            /\ v.arch[a].req = w.arch[a].req /\ v.arch[a].life = w.arch[a].life
            /\ v.arch[a].max = IF w.arch[a].live THEN w.arch[a].max ELSE 1
<1> DEFINE v == WithArch(w, a)
<1>0. w \in Worlds /\ ListOK(w) /\ RowsOK(w) /\ QueueOK(w) /\ RoomOK(w)
  BY DEF BaseOK
<1>1. CASE w.arch[a].live
  <2>1. v = w
    BY <1>1 DEF WithArch
  <2>. QED  BY <1>1, <2>1
<1>2. CASE ~w.arch[a].live
  <2>1. w.arch[a] = NoArch /\ w.arch \in [Archetypes -> ArchSet]
    BY <1>0, <1>2, Parts DEF ListOK
  <2>2. v = PutArch(w, a, NewArch)
    BY <1>2 DEF WithArch, PutArch
  <2> HIDE DEF v
  <2>3. /\ v \in Worlds /\ v.chunk = w.chunk /\ v.rec = w.rec /\ v.queue = w.queue
        /\ v.arch = [w.arch EXCEPT ![a] = NewArch]
    BY <1>0, <2>2, BlankArch, ArchPut
  <2>4. v.arch[a] = NewArch /\ \A b \in Archetypes : b # a => v.arch[b] = w.arch[b]
    BY <2>1, <2>3
  <2>5. \A b \in Archetypes : /\ v.arch[b].list = w.arch[b].list /\ v.arch[b].req = w.arch[b].req
                              /\ v.arch[b].free = w.arch[b].free
                              /\ v.arch[b].live \/ v.arch[b] = NoArch
    <3> SUFFICES ASSUME NEW b \in Archetypes
                 PROVE  /\ v.arch[b].list = w.arch[b].list /\ v.arch[b].req = w.arch[b].req
                        /\ v.arch[b].free = w.arch[b].free
                        /\ v.arch[b].live \/ v.arch[b] = NoArch
      OBVIOUS
    <3>1. CASE b = a
      <4>1. v.arch[b] = NewArch /\ w.arch[b] = NoArch
        BY <3>1, <2>1, <2>4
      <4>. QED  BY <4>1, BlankArch
    <3>2. CASE b # a
      BY <3>2, <1>0, <2>4 DEF ListOK
    <3>. QED  BY <3>1, <3>2
  <2>6. ListOK(v) /\ RowsOK(v) /\ QueueOK(v)
    BY <1>0, <2>3, <2>5, ListsKept
  <2>7. \A c \in Chunks : Len(v.chunk[c].rows) >= Len(w.chunk[c].rows)
    BY <1>0, <2>3, RowsOfChunk
  <2>8. RoomOK(v)
    BY <1>0, <2>3, <2>5, <2>7, RoomStays
  <2>9. Agree(v, x, E)
    BY <1>0, <2>3, <2>5, AgreeKept
  <2>10. EmptyOK(v, {})
    BY <2>3 DEF EmptyOK
  <2>11. BaseOK(v)
    BY <2>3, <2>6, <2>8 DEF BaseOK
  <2>12. /\ v.arch[a].live /\ v.arch[a].life = w.arch[a].life
         /\ v.arch[a].max = IF w.arch[a].live THEN w.arch[a].max ELSE 1
    BY <1>2, <2>1, <2>4, BlankArch
  <2>. QED  BY <2>3, <2>4, <2>5, <2>9, <2>10, <2>11, <2>12 DEF v
<1>. QED  BY <1>1, <1>2

(* Another free index.                                                     *)
LEMMA RoomAt ==
  ASSUME NEW w, BaseOK(w), NEW D, EmptyOK(w, D), NEW x, NEW E, Agree(w, x, E),
         NEW a \in Archetypes, w.arch[a].live,
         NEW h \in Nat \ {0}, h <= Len(w.arch[a].list) + 1,
         \A j \in 1..(h - 1) : Full(w, a, w.arch[a].list[j])
  PROVE  LET v == WithFree(w, a, h)
         IN /\ BaseOK(v) /\ EmptyOK(v, D) /\ Agree(v, x, E) /\ ArchOnly(w, v, a)
            /\ v.arch[a].free = h
            /\ v.arch[a].life = w.arch[a].life /\ v.arch[a].max = w.arch[a].max
<1> DEFINE v == WithFree(w, a, h)
<1>0. w \in Worlds /\ ListOK(w) /\ RowsOK(w) /\ QueueOK(w) /\ RoomOK(w)
  BY DEF BaseOK
<1>1. /\ ArchOnly(w, v, a) /\ v.arch[a].free = h
      /\ v.arch[a].life = w.arch[a].life /\ v.arch[a].max = w.arch[a].max
  BY <1>0, FreeSet
<1> HIDE DEF v
<1>2. ListOK(v) /\ RowsOK(v) /\ QueueOK(v)
  BY <1>0, <1>1, ArchOnlyKeeps
<1>3. RoomOK(v)
  <2>1. \A b \in Archetypes : \A d : Full(v, b, d) <=> Full(w, b, d)
    BY <1>1 DEF Full, ArchOnly
  <2>2. \A b \in Archetypes : v.arch[b].req = w.arch[b].req /\ v.arch[b].list = w.arch[b].list
    BY <1>1 DEF ArchOnly
  <2> SUFFICES ASSUME NEW b \in Archetypes, ~v.arch[b].req
               PROVE  /\ v.arch[b].free <= Len(v.arch[b].list) + 1
                      /\ \A j \in 1..(v.arch[b].free - 1) : Full(v, b, v.arch[b].list[j])
    BY DEF RoomOK
  <2>3. CASE b = a
    BY <1>1, <2>1, <2>2, <2>3
  <2>4. CASE b # a
    <3>1. v.arch[b] = w.arch[b]
      BY <1>1, <2>4 DEF ArchOnly
    <3>. QED  BY <1>0, <2>1, <3>1 DEF RoomOK
  <2>. QED  BY <2>3, <2>4
<1>4. Agree(v, x, E)
  BY <1>0, <1>1, ArchOnlyAgrees
<1>5. EmptyOK(v, D)
  BY <1>1 DEF EmptyOK, ArchOnly
<1>. QED  BY <1>1, <1>2, <1>3, <1>4, <1>5 DEF BaseOK, ArchOnly, v

(* Archetype::try_update_free_chunk_idx.                                   *)
LEMMA FullSkipped ==
  ASSUME NEW w, BaseOK(w), NEW D, EmptyOK(w, D), NEW x, NEW E, Agree(w, x, E),
         NEW a \in Archetypes, w.arch[a].live, ~w.arch[a].req,
         w.arch[a].free <= Len(w.arch[a].list)
  PROVE  LET v == SkipFull(w, a)
         IN /\ BaseOK(v) /\ EmptyOK(v, D) /\ Agree(v, x, E) /\ SameLists(w, v)
            /\ v.chunk = w.chunk /\ v.rec = w.rec /\ v.queue = w.queue
            /\ \A b \in Archetypes : b # a => v.arch[b] = w.arch[b]
<1> DEFINE v == SkipFull(w, a)
           f == w.arch[a].free
           list == w.arch[a].list
<1>1. CASE Full(w, a, FreeChunk(w, a))
  <2>1. v = WithFree(w, a, f + 1)
    BY <1>1 DEF SkipFull, WithFree
  <2>2. f \in Nat \ {0} /\ Len(list) \in Nat /\ w \in Worlds
    BY ArchFields DEF BaseOK
  <2>3. \A j \in 1..(f - 1) : Full(w, a, list[j])
    BY DEF BaseOK, RoomOK
  <2>4. Full(w, a, list[f])
    BY <1>1 DEF FreeChunk
  <2>5. \A j \in 1..((f + 1) - 1) : Full(w, a, list[j])
    BY <2>2, <2>3, <2>4
  <2>6. f + 1 \in Nat \ {0} /\ f + 1 <= Len(list) + 1
    BY <2>2
  <2> HIDE DEF v, f
  <2>7. /\ BaseOK(v) /\ EmptyOK(v, D) /\ Agree(v, x, E) /\ ArchOnly(w, v, a)
        /\ v.arch[a].life = w.arch[a].life /\ v.arch[a].max = w.arch[a].max
    BY <2>1, <2>5, <2>6, RoomAt
  <2>8. SameLists(w, v)
    BY <2>7 DEF SameLists, ArchOnly
  <2>. QED  BY <2>7, <2>8 DEF ArchOnly, v
<1>2. CASE ~Full(w, a, FreeChunk(w, a))
  <2>1. v = w
    BY <1>2 DEF SkipFull
  <2>. QED  BY <2>1 DEF SameLists
<1>. QED  BY <1>1, <1>2

(* What Archetype::foc_free_chunk gives back.                              *)
Found(w, v, a) ==
  LET c == FreeChunk(v, a)
  IN /\ v.arch[a].free \in 1..Len(v.arch[a].list)
     /\ c \in Chunks /\ c[1] = a /\ v.chunk[c].live /\ Len(v.chunk[c].rows) < Capacity[a]
     /\ v.chunk[c].rows = w.chunk[c].rows
     /\ \A b \in Chunks : b # c => v.chunk[b] = w.chunk[b]
     /\ \A b \in Archetypes : b # a => v.arch[b] = w.arch[b]
     /\ v.arch[a].live = w.arch[a].live /\ v.arch[a].req = w.arch[a].req
     /\ v.arch[a].life = w.arch[a].life /\ v.arch[a].max = w.arch[a].max
     /\ v.rec = w.rec /\ v.queue = w.queue

(* Archetype::foc_free_chunk, the search: the first chunk with room from   *)
(* the free index on becomes the free index.                               *)
LEMMA RoomFound ==
  ASSUME NEW w, BaseOK(w), EmptyOK(w, {}), Agree(w, NoRow, {}),
         NEW a \in Archetypes, w.arch[a].live, ~w.arch[a].req,
         NEW f \in w.arch[a].free..Len(w.arch[a].list),
         ~Full(w, a, w.arch[a].list[f]),
         \A j \in w.arch[a].free..Len(w.arch[a].list) : ~Full(w, a, w.arch[a].list[j]) => f <= j
  PROVE  LET v == WithFree(w, a, f)
         IN /\ BaseOK(v) /\ EmptyOK(v, {FreeChunk(v, a)}) /\ Agree(v, NoRow, {})
            /\ Found(w, v, a)
<1> DEFINE v == WithFree(w, a, f)
           k == w.arch[a]
           c == k.list[f]
<1>1. k.free \in Nat \ {0} /\ Len(k.list) \in Nat /\ w \in Worlds /\ ListOK(w)
  BY ArchFields DEF BaseOK
<1>2. f \in Nat \ {0} /\ f \in 1..Len(k.list) /\ f <= Len(k.list) + 1
  BY <1>1
<1>3. \A j \in 1..(f - 1) : Full(w, a, k.list[j])
  <2>1. \A j \in 1..(k.free - 1) : Full(w, a, k.list[j])
    BY DEF BaseOK, RoomOK
  <2>. QED  BY <2>1, <1>1, <1>2
<1>4. c \in Chunks /\ c[1] = a /\ w.chunk[c].live
  BY <1>1, <1>2, ArchFields DEF ListOK, ListsOK
<1>5. Len(w.chunk[c].rows) < Capacity[a]
  <2>1. ~(Len(w.chunk[c].rows) >= Capacity[a])
    BY Zenon DEF Full
  <2> HIDE DEF c
  <2>2. Len(w.chunk[c].rows) \in Nat
    BY <1>1, <1>4, RowsOfChunk
  <2>3. Capacity[a] \in Nat
    BY StorageAssumption
  <2>. QED  BY <2>1, <2>2, <2>3
<1> HIDE DEF v
<1>6. /\ BaseOK(v) /\ EmptyOK(v, {}) /\ Agree(v, NoRow, {}) /\ ArchOnly(w, v, a)
      /\ v.arch[a].free = f
      /\ v.arch[a].life = w.arch[a].life /\ v.arch[a].max = w.arch[a].max
  BY <1>2, <1>3, RoomAt DEF v
<1>7. FreeChunk(v, a) = c /\ v.arch[a].list = k.list /\ v.arch[a].live = k.live
      /\ v.arch[a].req = k.req /\ v.chunk = w.chunk
  BY <1>6 DEF FreeChunk, ArchOnly
<1>8. EmptyOK(v, {c})
  BY <1>6 DEF EmptyOK
<1> HIDE DEF c
<1>9. Found(w, v, a)
  BY <1>2, <1>4, <1>5, <1>6, <1>7 DEF Found, ArchOnly
<1>. QED  BY <1>6, <1>7, <1>8, <1>9 DEF v

(* An archetype gets another chunk.                                        *)
Longer(k, c) == [k EXCEPT !.list = Append(k.list, c), !.free = Len(k.list) + 1]

(* An archetype whose list has one more chunk.                             *)
LEMMA ListLonger ==
  ASSUME NEW k \in ArchSet, NEW c \in Chunks
  PROVE  LET l == Longer(k, c)
         IN /\ l \in ArchSet /\ l.live = k.live /\ l.req = k.req /\ l.life = k.life
            /\ l.max = k.max /\ l.list = Append(k.list, c) /\ l.free = Len(k.list) + 1
<1> DEFINE q == Append(k.list, c)
           n == Len(k.list) + 1
<1>1. k.list \in Seq(Chunks)
  BY DEF ArchSet
<1>2. q \in Seq(Chunks) /\ n \in Nat \ {0}
  BY <1>1, AppendProperties, LenProperties
<1>3. Longer(k, c) = [k EXCEPT !.list = q, !.free = n]
  BY DEF Longer
<1> HIDE DEF q, n
<1>4. LET l == [k EXCEPT !.list = q, !.free = n]
      IN /\ l \in ArchSet /\ l.live = k.live /\ l.req = k.req /\ l.life = k.life
         /\ l.max = k.max /\ l.list = q /\ l.free = n
  BY <1>2 DEF ArchSet
<1>. QED  BY <1>3, <1>4 DEF q, n

(* Archetype::foc_free_chunk without room in the list: a new chunk is      *)
(* appended and becomes the free one.                                      *)
LEMMA ChunkCreated ==
  ASSUME NEW w, BaseOK(w), EmptyOK(w, {}), Agree(w, NoRow, {}),
         NEW a \in Archetypes, w.arch[a].live, ~w.arch[a].req,
         \A j \in w.arch[a].free..Len(w.arch[a].list) : Full(w, a, w.arch[a].list[j]),
         NEW c \in Chunks, c[1] = a, ~w.chunk[c].live
  PROVE  LET v == PutChunk(PutArch(w, a, Longer(w.arch[a], c)), c,
                           NewChunk(Len(w.arch[a].list) + 1))
         IN /\ BaseOK(v) /\ EmptyOK(v, {FreeChunk(v, a)}) /\ Agree(v, NoRow, {})
            /\ Found(w, v, a)
<1> DEFINE k == w.arch[a]
           n == Len(k.list)
           K == Longer(k, c)
           C == NewChunk(n + 1)
           u == PutArch(w, a, K)
           v == PutChunk(u, c, C)
<1>0. w \in Worlds /\ ListOK(w) /\ RowsOK(w) /\ QueueOK(w) /\ RoomOK(w)
  BY DEF BaseOK
<1>1. k \in ArchSet /\ n \in Nat /\ k.free \in Nat \ {0} /\ k.list \in Seq(Chunks)
  BY <1>0, ArchFields
<1>2. /\ K \in ArchSet /\ K.live = k.live /\ K.req = k.req /\ K.life = k.life
      /\ K.max = k.max /\ K.list = Append(k.list, c) /\ K.free = n + 1
  BY <1>1, ListLonger
<1>3. /\ Len(K.list) = n + 1 /\ K.list[n + 1] = c /\ \A j \in 1..n : K.list[j] = k.list[j]
  BY <1>1, <1>2, AppendProperties
<1>4. /\ C \in ChunkSet /\ C.live /\ C.idx = n + 1 /\ C.rows = <<>> /\ C.first = 0
      /\ C.enabled = 0 /\ C.life = 0 /\ C.slot = 0
  BY <1>1, BlankChunk
<1>c. w.chunk[c] = NoChunk
  BY <1>0 DEF ListOK, PlacesOK
<1>d. NoChunk.rows = <<>> /\ NoChunk.slot = 0 /\ NoChunk.life = 0 /\ Len(<<>>) = 0
  BY DEF NoChunk
<1> HIDE DEF K, C, n, u, v
<1>5. /\ u \in Worlds /\ u.chunk = w.chunk /\ u.rec = w.rec /\ u.queue = w.queue
      /\ u.arch = [w.arch EXCEPT ![a] = K]
  BY <1>0, <1>2, ArchPut DEF u
<1>6. /\ v \in Worlds /\ v.arch = u.arch /\ v.rec = u.rec /\ v.queue = u.queue
      /\ v.chunk = [u.chunk EXCEPT ![c] = C]
  BY <1>4, <1>5, ChunkPut DEF v
<1>7. /\ v.arch[a] = K /\ \A b \in Archetypes : b # a => v.arch[b] = w.arch[b]
      /\ v.chunk[c] = C /\ \A b \in Chunks : b # c => v.chunk[b] = w.chunk[b]
  BY <1>0, <1>5, <1>6, Parts
<1>r. \A b \in Chunks : v.chunk[b].rows = w.chunk[b].rows
  BY <1>4, <1>7, <1>c, <1>d
<1>8. PlacesOK(v)
  <2> SUFFICES ASSUME NEW b \in Chunks
               PROVE  IF v.chunk[b].live
                      THEN /\ v.chunk[b].idx \in 1..Len(v.arch[b[1]].list)
                           /\ v.arch[b[1]].list[v.chunk[b].idx] = b
                      ELSE v.chunk[b] = NoChunk
    BY DEF PlacesOK
  <2>1. CASE b = c
    <3>1. n + 1 \in 1..(n + 1)
      BY <1>1
    <3>. QED  BY <2>1, <3>1, <1>3, <1>4, <1>7
  <2>2. CASE b # c /\ ~w.chunk[b].live
    BY <2>2, <1>0, <1>7 DEF ListOK, PlacesOK
  <2>3. CASE b # c /\ w.chunk[b].live
    <3>1. w.chunk[b].idx \in 1..Len(w.arch[b[1]].list) /\ w.arch[b[1]].list[w.chunk[b].idx] = b
      BY <2>3, <1>0 DEF ListOK, PlacesOK
    <3>2. v.chunk[b] = w.chunk[b] /\ b[1] \in Archetypes
      BY <2>3, <1>7, ChunkOfArch
    <3>3. CASE b[1] = a
      <4>1. w.chunk[b].idx \in 1..n /\ k.list[w.chunk[b].idx] = b
        BY <3>1, <3>3 DEF n
      <4>2. w.chunk[b].idx \in 1..(n + 1)
        BY <4>1, <1>1
      <4>. QED  BY <2>3, <3>2, <3>3, <4>1, <4>2, <1>3, <1>7
    <3>4. CASE b[1] # a
      BY Zenon, <2>3, <3>1, <3>2, <3>4, <1>7
    <3>. QED  BY <3>3, <3>4
  <2>. QED  BY <2>1, <2>2, <2>3
<1>9. ListsOK(v)
  <2> SUFFICES ASSUME NEW b \in Archetypes, NEW i \in 1..Len(v.arch[b].list)
               PROVE  LET d == v.arch[b].list[i]
                      IN d[1] = b /\ v.chunk[d].live /\ v.chunk[d].idx = i
    BY Zenon DEF ListsOK
  <2>1. CASE b = a /\ i = n + 1
    BY <2>1, <1>3, <1>4, <1>7
  <2>2. CASE ~(b = a /\ i = n + 1)
    <3>1. i \in 1..Len(w.arch[b].list) /\ v.arch[b].list[i] = w.arch[b].list[i]
      <4>1. CASE b = a
        <5>1. i \in 1..(n + 1) /\ i # n + 1
          BY <2>2, <4>1, <1>3, <1>7
        <5>2. i \in 1..n
          BY <5>1, <1>1
        <5>. QED  BY <4>1, <5>2, <1>3, <1>7 DEF n
      <4>2. CASE b # a
        BY <4>2, <1>7
      <4>. QED  BY <4>1, <4>2
    <3> DEFINE d == w.arch[b].list[i]
    <3>2. d[1] = b /\ w.chunk[d].live /\ w.chunk[d].idx = i /\ d \in Chunks
      <4>1. ListsOK(w)
        BY <1>0 DEF ListOK
      <4>2. \A m \in 1..Len(w.arch[b].list) :
              LET h == w.arch[b].list[m]
              IN h \in Chunks /\ h[1] = b /\ w.chunk[h].live /\ w.chunk[h].idx = m
        BY <1>0, <4>1, ListEntries
      <4>. QED  BY <3>1, <4>2
    <3> HIDE DEF d
    <3>3. v.chunk[d] = w.chunk[d]
      BY <3>2, <1>7
    <3>. QED  BY Zenon, <3>1, <3>2, <3>3 DEF d
  <2>. QED  BY Zenon, <2>1, <2>2
<1>10. ListOK(v)
  <2>1. ASSUME NEW b \in Archetypes
        PROVE  v.arch[b].live \/ v.arch[b] = NoArch
    <3>1. CASE b = a
      BY <3>1, <1>2, <1>7
    <3>2. CASE b # a
      BY <3>2, <1>0, <1>7 DEF ListOK
    <3>. QED  BY <3>1, <3>2
  <2>. QED  BY <2>1, <1>8, <1>9 DEF ListOK
<1>11. RowsOK(v)
  <2> SUFFICES ASSUME NEW b \in Chunks
               PROVE  /\ v.chunk[b].first <= Len(v.chunk[b].rows)
                      /\ Len(v.chunk[b].rows) <= Capacity[b[1]]
                      /\ v.chunk[b].enabled < CountMax
                      /\ v.chunk[b].life <= ChunkLife
    BY DEF RowsOK
  <2>1. CASE b = c
    <3>1. v.chunk[b].rows = <<>> /\ v.chunk[b].first = 0 /\ v.chunk[b].enabled = 0 /\ v.chunk[b].life = 0
      BY <2>1, <1>4, <1>7
    <3>. QED  BY <3>1, <1>d, ChunkOfArch, StorageAssumption
  <2>2. CASE b # c
    BY <2>2, <1>0, <1>7 DEF RowsOK
  <2>. QED  BY <2>1, <2>2
<1>12. QueueOK(v)
  <2>1. ASSUME NEW i \in 1..Len(v.queue)
        PROVE  LET d == v.queue[i].chunk
               IN v.queue[i].arch = d[1] /\ v.chunk[d].live /\ v.chunk[d].slot = i
    <3> DEFINE d == w.queue[i].chunk
    <3>1. v.queue = w.queue /\ i \in 1..Len(w.queue)
      BY <2>1, <1>5, <1>6
    <3>2. w.queue[i].arch = d[1] /\ w.chunk[d].live /\ w.chunk[d].slot = i /\ d \in Chunks
      BY <3>1, <1>0, QueueFields DEF QueueOK
    <3> HIDE DEF d
    <3>3. v.chunk[d] = w.chunk[d]
      BY <3>2, <1>7
    <3>. QED  BY <3>1, <3>2, <3>3 DEF d
  <2>2. ASSUME NEW d \in Chunks
        PROVE  /\ v.chunk[d].slot = 0 <=> v.chunk[d].life = 0
               /\ v.chunk[d].slot # 0 =>
                    v.chunk[d].slot <= Len(v.queue) /\ v.queue[v.chunk[d].slot].chunk = d
    <3>1. CASE d = c
      BY <3>1, <1>4, <1>7
    <3>2. CASE d # c
      BY <3>2, <1>0, <1>5, <1>6, <1>7 DEF QueueOK
    <3>. QED  BY <3>1, <3>2
  <2>. QED  BY <2>1, <2>2 DEF QueueOK
<1>13. RoomOK(v)
  <2>1. \A b \in Archetypes, d \in Chunks : Full(v, b, d) <=> Full(w, b, d)
    BY <1>r DEF Full
  <2> SUFFICES ASSUME NEW b \in Archetypes, ~v.arch[b].req
               PROVE  /\ v.arch[b].free <= Len(v.arch[b].list) + 1
                      /\ \A j \in 1..(v.arch[b].free - 1) : Full(v, b, v.arch[b].list[j])
    BY DEF RoomOK
  <2>2. CASE b = a
    <3>1. v.arch[b].free = n + 1 /\ Len(v.arch[b].list) = n + 1
      BY <2>2, <1>2, <1>3, <1>7
    <3>2. ASSUME NEW j \in 1..n
          PROVE  Full(w, a, k.list[j]) /\ k.list[j] \in Chunks
      <4>1. \A m \in 1..(k.free - 1) : Full(w, a, k.list[m])
        BY <1>0 DEF RoomOK
      <4>2. \A m \in k.free..n : Full(w, a, k.list[m])
        BY DEF n
      <4>3. j \in 1..(k.free - 1) \/ j \in k.free..n
        BY <1>1
      <4>4. k.list[j] \in Chunks
        BY <1>0, ArchFields DEF n
      <4>. QED  BY <4>1, <4>2, <4>3, <4>4
    <3>3. \A j \in 1..n : v.arch[b].list[j] = k.list[j]
      BY <2>2, <1>3, <1>7
    <3>4. n + 1 <= (n + 1) + 1 /\ (n + 1) - 1 = n
      BY <1>1
    <3>. QED  BY <2>1, <2>2, <3>1, <3>2, <3>3, <3>4
  <2>3. CASE b # a
    <3>1. v.arch[b] = w.arch[b] /\ ~w.arch[b].req
      BY <2>3, <1>7
    <3>2. /\ w.arch[b].free <= Len(w.arch[b].list) + 1
          /\ \A j \in 1..(w.arch[b].free - 1) : Full(w, b, w.arch[b].list[j])
      BY <1>0, <3>1 DEF RoomOK
    <3>3. \A j \in 1..(w.arch[b].free - 1) : w.arch[b].list[j] \in Chunks
      BY <1>0, <3>2, ArchFields
    <3>. QED  BY <2>1, <3>1, <3>2, <3>3
  <2>. QED  BY <2>2, <2>3
<1>14. Agree(v, NoRow, {})
  <2>1. \A b \in Archetypes : v.arch[b].req = w.arch[b].req
    BY <1>2, <1>7
  <2>. QED  BY <2>1, <1>0, <1>5, <1>6, <1>r, AgreeKept
<1>15. FreeChunk(v, a) = c
  BY <1>2, <1>3, <1>7 DEF FreeChunk
<1>16. EmptyOK(v, {c})
  BY <1>7 DEF EmptyOK
<1>17. Found(w, v, a)
  <2>1. v.arch[a].free \in 1..Len(v.arch[a].list)
    BY <1>1, <1>2, <1>3, <1>7
  <2>2. v.chunk[c].live /\ Len(v.chunk[c].rows) < Capacity[a] /\ v.chunk[c].rows = w.chunk[c].rows
    BY <1>4, <1>7, <1>r, <1>d, StorageAssumption
  <2>. QED  BY <2>1, <2>2, <1>2, <1>5, <1>6, <1>7, <1>15 DEF Found
<1>18. BaseOK(v)
  BY <1>6, <1>10, <1>11, <1>12, <1>13 DEF BaseOK
<1>. QED  BY <1>14, <1>15, <1>16, <1>17, <1>18 DEF v, u, K, C, n

(* Archetype::foc_free_chunk.                                              *)
LEMMA RoomMade ==
  ASSUME NEW w, BaseOK(w), EmptyOK(w, {}), Agree(w, NoRow, {}),
         NEW a \in Archetypes, w.arch[a].live, ~w.arch[a].req,
         \/ Unused(w, a) # {}
         \/ \E j \in w.arch[a].free..Len(w.arch[a].list) : ~Full(w, a, w.arch[a].list[j])
  PROVE  LET v == WithRoom(w, a)
         IN /\ BaseOK(v) /\ EmptyOK(v, {FreeChunk(v, a)}) /\ Agree(v, NoRow, {})
            /\ Found(w, v, a)
<1> DEFINE k == w.arch[a]
           rooms == {i \in k.free..Len(k.list) : ~Full(w, a, k.list[i])}
           T == {c[2] : c \in Unused(w, a)}
           fresh == <<a, Min(T)>>
           v == WithRoom(w, a)
<1>0. w \in Worlds
  BY DEF BaseOK
<1>1. k.free \in Nat \ {0} /\ Len(k.list) \in Nat
  BY <1>0, ArchFields
<1>2. CASE rooms # {}
  <2> DEFINE f == Min(rooms)
  <2>1. rooms \in SUBSET Nat
    BY <1>1
  <2>2. f \in rooms /\ \A y \in rooms : f <= y
    <3> HIDE DEF rooms
    <3>. QED  BY <1>2, <2>1, LeastOf
  <2>3. v = WithFree(w, a, f)
    BY <1>2 DEF WithRoom, WithFree
  <2>4. /\ f \in k.free..Len(k.list) /\ ~Full(w, a, k.list[f])
        /\ \A j \in k.free..Len(k.list) : ~Full(w, a, k.list[j]) => f <= j
    <3> HIDE DEF f
    <3>. QED  BY <2>2
  <2> HIDE DEF f, v, rooms
  <2>. QED  BY <2>3, <2>4, RoomFound DEF v
<1>3. CASE rooms = {}
  <2>1. Unused(w, a) # {}
    BY <1>3
  <2>2. T \in SUBSET Nat /\ T # {}
    <3>1. \A c \in Unused(w, a) : c[2] \in Nat
      BY StorageAssumption DEF Unused
    <3>2. PICK c \in Unused(w, a) : TRUE
      BY <2>1
    <3>3. c[2] \in T
      BY <3>2
    <3>. QED  BY <3>1, <3>3
  <2>3. Min(T) \in T
    <3> HIDE DEF T
    <3>. QED  BY <2>2, LeastOf
  <2>4. PICK c \in Unused(w, a) : c[2] = Min(T)
    BY <2>3
  <2>5. c \in Chunks /\ c[1] = a /\ ~w.chunk[c].live /\ c = fresh
    <3>1. c \in Chunks /\ c[1] = a /\ ~w.chunk[c].live
      BY DEF Unused
    <3>2. c = <<c[1], c[2]>>
      BY <3>1, StorageAssumption
    <3>. QED  BY <3>1, <3>2, <2>4
  <2>6. v = [w EXCEPT !.arch[a] = Longer(k, fresh), !.chunk[fresh] = NewChunk(Len(k.list) + 1)]
    BY <1>3 DEF WithRoom, Longer
  <2>7. \A j \in k.free..Len(k.list) : Full(w, a, k.list[j])
    BY <1>3
  <2> HIDE DEF v, fresh, rooms, T
  <2>8. v = PutChunk(PutArch(w, a, Longer(k, c)), c, NewChunk(Len(k.list) + 1))
    BY <1>0, <2>5, <2>6, Parts DEF PutChunk, PutArch
  <2>9. LET u == PutChunk(PutArch(w, a, Longer(k, c)), c, NewChunk(Len(k.list) + 1))
        IN /\ BaseOK(u) /\ EmptyOK(u, {FreeChunk(u, a)}) /\ Agree(u, NoRow, {})
           /\ Found(w, u, a)
    BY <2>5, <2>7, ChunkCreated
  <2>. QED  BY <2>8, <2>9 DEF v
<1>. QED  BY <1>2, <1>3

-----------------------------------------------------------------------------
(* The deletion queue                                                      *)

(* Only countdowns and slots of chunks that exist differ.                  *)
TimersOnly(w, v) ==
  /\ v \in Worlds /\ v.arch = w.arch /\ v.rec = w.rec
  /\ \A c \in Chunks :
       /\ v.chunk[c].live = w.chunk[c].live /\ v.chunk[c].rows = w.chunk[c].rows
       /\ v.chunk[c].first = w.chunk[c].first /\ v.chunk[c].enabled = w.chunk[c].enabled
       /\ v.chunk[c].idx = w.chunk[c].idx /\ v.chunk[c].life <= w.chunk[c].life
       /\ w.chunk[c].live \/ v.chunk[c] = w.chunk[c]

(* A change of countdowns and queue slots keeps lists, counters, room and  *)
(* the agreement of rows and records.                                      *)
LEMMA TimersOnlyKeeps ==
  ASSUME NEW w \in Worlds, NEW v, TimersOnly(w, v), ListOK(w), RowsOK(w), RoomOK(w),
         NEW x, NEW E, Agree(w, x, E)
  PROVE  ListOK(v) /\ RowsOK(v) /\ RoomOK(v) /\ Agree(v, x, E)
<1>1. ListOK(v)
  <2>1. PlacesOK(v)
    BY Zenon DEF ListOK, PlacesOK, TimersOnly
  <2>2. ListsOK(v)
    <3> SUFFICES ASSUME NEW b \in Archetypes, NEW i \in 1..Len(v.arch[b].list)
                 PROVE  LET d == v.arch[b].list[i]
                        IN d[1] = b /\ v.chunk[d].live /\ v.chunk[d].idx = i
      BY Zenon DEF ListsOK
    <3>1. v.arch = w.arch
      BY DEF TimersOnly
    <3>2. LET d == w.arch[b].list[i]
          IN d[1] = b /\ w.chunk[d].live /\ w.chunk[d].idx = i /\ d \in Chunks
      BY <3>1, ArchFields DEF ListOK, ListsOK
    <3>. QED  BY <3>1, <3>2 DEF TimersOnly
  <2>. QED  BY <2>1, <2>2 DEF ListOK, TimersOnly
<1>2. RowsOK(v)
  <2> SUFFICES ASSUME NEW c \in Chunks
               PROVE  /\ v.chunk[c].first <= Len(v.chunk[c].rows)
                      /\ Len(v.chunk[c].rows) <= Capacity[c[1]]
                      /\ v.chunk[c].enabled < CountMax
                      /\ v.chunk[c].life <= ChunkLife
    BY DEF RowsOK
  <2>1. v.chunk[c].life \in Nat /\ w.chunk[c].life \in Nat /\ ChunkLife \in Nat
    BY ChunkFields, StorageAssumption DEF TimersOnly
  <2>2. v.chunk[c].life <= w.chunk[c].life /\ w.chunk[c].life <= ChunkLife
    BY DEF TimersOnly, RowsOK
  <2>. QED  BY <2>1, <2>2 DEF TimersOnly, RowsOK
<1>3. RoomOK(v)
  <2>1. \A c \in Chunks : Len(v.chunk[c].rows) >= Len(w.chunk[c].rows)
    <3> SUFFICES ASSUME NEW c \in Chunks
                 PROVE  Len(v.chunk[c].rows) >= Len(w.chunk[c].rows)
      BY Zenon
    <3>1. v.chunk[c].rows = w.chunk[c].rows
      BY Zenon DEF TimersOnly
    <3>2. Len(w.chunk[c].rows) \in Nat
      BY Zenon, RowsOfChunk
    <3>. QED  BY <3>1, <3>2
  <2>. QED  BY <2>1, RoomStays DEF TimersOnly
<1>4. Agree(v, x, E)
  <2>1. v.arch = w.arch /\ v.rec = w.rec /\ \A c \in Chunks : v.chunk[c].rows = w.chunk[c].rows
    BY DEF TimersOnly
  <2>. QED  BY <2>1, AgreeKept
<1>. QED  BY <1>1, <1>2, <1>3, <1>4

(* The deletion queue while the countdown of the chunks in C disagrees.    *)
QueueBut(w, C) ==
  /\ \A i \in 1..Len(w.queue) :
       LET c == w.queue[i].chunk
       IN w.queue[i].arch = c[1] /\ w.chunk[c].live /\ w.chunk[c].slot = i
  /\ \A c \in Chunks \ C : w.chunk[c].slot = 0 <=> w.chunk[c].life = 0
  /\ \A c \in Chunks : w.chunk[c].slot # 0 =>
       w.chunk[c].slot <= Len(w.queue) /\ w.queue[w.chunk[c].slot].chunk = c

(* The queue invariant is that without chunk c, and that c's slot agrees   *)
(* with its countdown.                                                     *)
LEMMA QueueParts ==
  ASSUME NEW w
  PROVE  /\ QueueOK(w) => \A C : QueueBut(w, C)
         /\ \A c \in Chunks : QueueBut(w, {c}) /\ (w.chunk[c].slot = 0 <=> w.chunk[c].life = 0)
                              => QueueOK(w)
BY Zenon DEF QueueOK, QueueBut

(* Another slot of a chunk.                                                *)
SlotOnly(k, l) ==
  /\ l.live = k.live /\ l.rows = k.rows /\ l.first = k.first
  /\ l.enabled = k.enabled /\ l.idx = k.idx /\ l.life = k.life

(* A chunk with another place in the deletion queue.                       *)
Slot(k, s) == [k EXCEPT !.slot = s]

(* Writing the place in the queue leaves the rest of a chunk.              *)
LEMMA SlotOfChunk ==
  ASSUME NEW k \in ChunkSet, NEW s \in Nat
  PROVE  LET l == Slot(k, s)
         IN l \in ChunkSet /\ l.slot = s /\ SlotOnly(k, l)
BY DEF Slot, ChunkSet, SlotOnly

(* World::remove_chunk_from_delete_queue.                                  *)
Unqueuing(w, v, c) ==
  /\ TimersOnly(w, v) /\ QueueBut(v, {c}) /\ v.chunk[c].slot = 0
  /\ Len(v.queue) = Len(w.queue) - 1
  /\ \A d \in Chunks : v.chunk[d].life = w.chunk[d].life
  /\ \A d \in Chunks : d # c => (v.chunk[d].slot = 0 <=> w.chunk[d].slot = 0)

(* World::remove_chunk_from_delete_list: the last entry takes the place of *)
(* the removed one, and its chunk knows.                                   *)
LEMMA Unqueued ==
  ASSUME NEW w \in Worlds, NEW i \in 1..Len(w.queue), QueueBut(w, {w.queue[i].chunk})
  PROVE  Unqueuing(w, Unqueue(w, i), w.queue[i].chunk)
<1> DEFINE n == Len(w.queue)
           c == w.queue[i].chunk
           l == w.queue[n].chunk
           Q == SwapErase(w.queue, i)
           F == [w.chunk EXCEPT ![l].slot = i, ![c].slot = 0]
           v == Unqueue(w, i)
<1>1. n \in Nat /\ i \in 1..n /\ i \in Nat /\ i # 0 /\ i <= n /\ n \in 1..n
  BY QueueFields
<1>2. c \in Chunks /\ l \in Chunks
  BY <1>1, QueueFields
<1>3. w.chunk[c].slot = i /\ w.chunk[l].slot = n
  BY Zenon, <1>1 DEF QueueBut
<1>4. Q \in Seq(EntrySet) /\ Len(Q) = n - 1
      /\ \A j \in 1..(n - 1) : Q[j] = IF j = i THEN w.queue[n] ELSE w.queue[j]
  BY QueueFields, SwapErased
<1>5. v = [w EXCEPT !.chunk = F, !.queue = Q]
  BY DEF Unqueue
<1>a. i = n => c = l
  OBVIOUS
<1> HIDE DEF c, l
<1>6. /\ F \in [Chunks -> ChunkSet]
      /\ F[c] = Slot(w.chunk[c], 0) \/ (F[c] = Slot(Slot(w.chunk[l], i), 0) /\ c = l)
      /\ c # l => F[l] = Slot(w.chunk[l], i)
      /\ \A d \in Chunks : d # c /\ d # l => F[d] = w.chunk[d]
  <2>1. w.chunk \in [Chunks -> ChunkSet]
    BY Parts
  <2> DEFINE G == [w.chunk EXCEPT ![l] = Slot(w.chunk[l], i)]
  <2>2. Slot(w.chunk[l], i) \in ChunkSet
    BY <1>1, <1>2, <2>1, SlotOfChunk
  <2>3. G \in [Chunks -> ChunkSet] /\ G[l] = Slot(w.chunk[l], i)
        /\ \A d \in Chunks : d # l => G[d] = w.chunk[d]
    BY <1>2, <2>1, <2>2
  <2>4. F = [G EXCEPT ![c] = Slot(G[c], 0)]
    BY <1>2, <2>1, <2>2 DEF Slot
  <2> HIDE DEF F, G
  <2>5. Slot(G[c], 0) \in ChunkSet
    BY <1>2, <2>3, SlotOfChunk
  <2>6. /\ F \in [Chunks -> ChunkSet] /\ F[c] = Slot(G[c], 0)
        /\ \A d \in Chunks : d # c => F[d] = G[d]
    BY <1>2, <2>3, <2>4, <2>5
  <2>. QED  BY <1>2, <2>3, <2>6
<1>s. /\ w.chunk[c] \in ChunkSet /\ w.chunk[l] \in ChunkSet
      /\ Slot(w.chunk[l], i) \in ChunkSet /\ Slot(w.chunk[l], i).slot = i
      /\ Slot(w.chunk[c], 0).slot = 0 /\ Slot(Slot(w.chunk[l], i), 0).slot = 0
      /\ SlotOnly(w.chunk[l], Slot(w.chunk[l], i)) /\ SlotOnly(w.chunk[c], Slot(w.chunk[c], 0))
      /\ SlotOnly(Slot(w.chunk[l], i), Slot(Slot(w.chunk[l], i), 0))
  <2>1. w.chunk[c] \in ChunkSet /\ w.chunk[l] \in ChunkSet
    BY <1>2, ChunkFields
  <2>2. /\ Slot(w.chunk[l], i) \in ChunkSet /\ Slot(w.chunk[l], i).slot = i
        /\ SlotOnly(w.chunk[l], Slot(w.chunk[l], i))
    BY <1>1, <2>1, SlotOfChunk
  <2>3. Slot(w.chunk[c], 0).slot = 0 /\ SlotOnly(w.chunk[c], Slot(w.chunk[c], 0))
    BY <2>1, SlotOfChunk
  <2>4. /\ Slot(Slot(w.chunk[l], i), 0).slot = 0
        /\ SlotOnly(Slot(w.chunk[l], i), Slot(Slot(w.chunk[l], i), 0))
    BY <2>2, SlotOfChunk
  <2>. QED  BY <2>1, <2>2, <2>3, <2>4
<1>7. /\ F[c].slot = 0 /\ (c # l => F[l].slot = i)
      /\ \A d \in Chunks : d # c /\ d # l => F[d].slot = w.chunk[d].slot
  <2> HIDE DEF F
  <2>. QED  BY <1>6, <1>s
<1>8. \A d \in Chunks : SlotOnly(w.chunk[d], F[d])
  <2> SUFFICES ASSUME NEW d \in Chunks
               PROVE  SlotOnly(w.chunk[d], F[d])
    OBVIOUS
  <2> HIDE DEF F
  <2>1. CASE d = c /\ F[c] = Slot(w.chunk[c], 0)
    BY <1>s, <2>1
  <2>2. CASE d = c /\ c = l /\ F[c] = Slot(Slot(w.chunk[l], i), 0)
    BY <1>s, <2>2 DEF SlotOnly
  <2>3. CASE d = l /\ d # c
    BY <1>6, <1>s, <2>3
  <2>4. CASE d # c /\ d # l
    BY <1>6, <2>4 DEF SlotOnly
  <2>. QED  BY <1>6, <2>1, <2>2, <2>3, <2>4
<1> HIDE DEF F, Q, v, n
<1>9. v \in Worlds /\ v.arch = w.arch /\ v.rec = w.rec /\ v.chunk = F /\ v.queue = Q
  BY <1>4, <1>5, <1>6 DEF Worlds
<1>e. \A d \in Chunks : /\ v.chunk[d].live = w.chunk[d].live /\ v.chunk[d].rows = w.chunk[d].rows
                        /\ v.chunk[d].first = w.chunk[d].first
                        /\ v.chunk[d].enabled = w.chunk[d].enabled
                        /\ v.chunk[d].idx = w.chunk[d].idx /\ v.chunk[d].life = w.chunk[d].life
  BY <1>8, <1>9 DEF SlotOnly
<1>10. TimersOnly(w, v)
  <2>1. w.chunk[c].live /\ w.chunk[l].live
    BY <1>1 DEF QueueBut, c, l, n
  <2>2. \A d \in Chunks : v.chunk[d].life <= w.chunk[d].life
    BY <1>e, <1>9, ChunkFields
  <2>3. \A d \in Chunks : w.chunk[d].live \/ v.chunk[d] = w.chunk[d]
    BY <1>6, <1>9, <2>1
  <2>. QED  BY <1>e, <1>9, <2>2, <2>3 DEF TimersOnly
<1>11. ASSUME NEW j \in 1..Len(v.queue)
       PROVE  LET d == v.queue[j].chunk
              IN v.queue[j].arch = d[1] /\ v.chunk[d].live /\ v.chunk[d].slot = j
  <2>1. j \in 1..(n - 1) /\ j \in 1..n /\ j # n
    BY <1>1, <1>4, <1>9
  <2>2. CASE j = i
    <3>1. v.queue[j] = w.queue[n] /\ c # l
      BY <1>1, <1>3, <1>4, <1>9, <2>1, <2>2
    <3>2. w.queue[n].arch = l[1] /\ w.chunk[l].live
      BY <1>1 DEF QueueBut, l, n
    <3>3. v.chunk[l].live /\ v.chunk[l].slot = j
      BY <1>2, <1>7, <1>e, <1>9, <2>2, <3>1, <3>2
    <3>. QED  BY <3>1, <3>2, <3>3 DEF l
  <2>3. CASE j # i
    <3> DEFINE d == w.queue[j].chunk
    <3>1. v.queue[j] = w.queue[j]
      BY <1>4, <1>9, <2>1, <2>3
    <3>2. w.queue[j].arch = d[1] /\ w.chunk[d].live /\ w.chunk[d].slot = j /\ d \in Chunks
      BY Zenon, <2>1, QueueFields DEF QueueBut, n
    <3> HIDE DEF d
    <3>3. d # c /\ d # l
      BY <1>3, <2>1, <2>3, <3>2
    <3>4. v.chunk[d].live /\ v.chunk[d].slot = j
      BY <1>e, <1>7, <1>9, <3>2, <3>3
    <3>. QED  BY <3>1, <3>2, <3>4 DEF d
  <2>. QED  BY <2>2, <2>3
<1>12. \A d \in Chunks : d # c => (v.chunk[d].slot = 0 <=> w.chunk[d].slot = 0)
  <2>1. n # 0
    BY <1>1
  <2>. QED  BY <1>1, <1>3, <1>7, <1>9, <2>1
<1>13. ASSUME NEW d \in Chunks, v.chunk[d].slot # 0
       PROVE  v.chunk[d].slot <= Len(v.queue) /\ v.queue[v.chunk[d].slot].chunk = d
  <2>0. d # c
    BY <1>7, <1>9, <1>13
  <2>1. CASE d = l
    <3>1. v.chunk[d].slot = i /\ i # n
      BY <1>a, <1>7, <1>9, <2>0, <2>1
    <3>2. i \in 1..(n - 1) /\ i <= n - 1
      BY <1>1, <3>1
    <3>3. v.queue[i] = w.queue[n]
      BY <1>4, <1>9, <3>2
    <3>. QED  BY <1>4, <1>9, <2>1, <3>1, <3>2, <3>3 DEF l
  <2>2. CASE d # l
    <3> DEFINE s == w.chunk[d].slot
    <3>1. v.chunk[d].slot = s /\ s # 0 /\ s \in Nat
      BY <1>7, <1>9, <1>13, <2>0, <2>2, ChunkFields
    <3>2. s <= n /\ w.queue[s].chunk = d
      BY <3>1 DEF QueueBut, n
    <3> HIDE DEF s
    <3>3. s # n /\ s # i
      BY <2>0, <2>2, <3>2 DEF c, l
    <3>4. s \in 1..(n - 1) /\ s <= n - 1
      BY <1>1, <3>1, <3>2, <3>3
    <3>5. v.queue[s] = w.queue[s]
      BY <1>4, <1>9, <3>3, <3>4
    <3>. QED  BY <1>4, <1>9, <3>1, <3>2, <3>4, <3>5
  <2>. QED  BY <2>1, <2>2
<1>14. QueueBut(v, {c})
  <2>1. ASSUME NEW d \in Chunks, d # c
        PROVE  v.chunk[d].slot = 0 <=> v.chunk[d].life = 0
    <3>1. w.chunk[d].slot = 0 <=> w.chunk[d].life = 0
      BY <2>1 DEF QueueBut, c
    <3>. QED  BY <1>e, <1>9, <1>12, <2>1, <3>1
  <2>. QED  BY <1>11, <1>13, <2>1 DEF QueueBut
<1>. QED  BY <1>4, <1>7, <1>e, <1>9, <1>10, <1>12, <1>14 DEF Unqueuing, v, c, n

(* Another index of a chunk.                                               *)
Place1(k, i) == [k EXCEPT !.idx = i]

(* Two chunks that differ at most in their index in the list.              *)
IdxOnly(k, l) ==
  /\ l.live = k.live /\ l.rows = k.rows /\ l.first = k.first
  /\ l.enabled = k.enabled /\ l.slot = k.slot /\ l.life = k.life

(* Writing the index leaves the rest of a chunk.                           *)
LEMMA IdxOfChunk ==
  ASSUME NEW k \in ChunkSet, NEW i \in Nat
  PROVE  LET l == Place1(k, i) IN l \in ChunkSet /\ l.idx = i /\ IdxOnly(k, l)
BY DEF Place1, ChunkSet, IdxOnly

(* Another list of an archetype.                                           *)
List(k, q) == [k EXCEPT !.list = q]

(* Writing the list leaves the rest of an archetype.                       *)
LEMMA ListOfArch ==
  ASSUME NEW k \in ArchSet, NEW q \in Seq(Chunks)
  PROVE  LET l == List(k, q)
         IN /\ l \in ArchSet /\ l.list = q /\ l.live = k.live /\ l.req = k.req
            /\ l.free = k.free /\ l.life = k.life /\ l.max = k.max
BY DEF List, ArchSet

(* The fields of a chunk that does not exist.                              *)
LEMMA BlankNoChunk ==
  /\ NoChunk \in ChunkSet /\ NoChunk.live = FALSE /\ NoChunk.rows = <<>> /\ NoChunk.first = 0
  /\ NoChunk.enabled = 0 /\ NoChunk.life = 0 /\ NoChunk.slot = 0
<1>1. <<>> \in Seq(RawRows)
  BY EmptySeq
<1>. QED  BY <1>1 DEF NoChunk, ChunkSet

(* Archetype::del.  The chunk has no row, or rows of no valid entity.      *)
Deleted(w, v, c) ==
  /\ v.rec = w.rec /\ v.queue = w.queue
  /\ \A b \in Archetypes : b # c[1] => v.arch[b] = w.arch[b]
  /\ v.arch[c[1]].live = w.arch[c[1]].live /\ v.arch[c[1]].req = w.arch[c[1]].req
  /\ v.arch[c[1]].life = w.arch[c[1]].life /\ v.arch[c[1]].max = w.arch[c[1]].max
  /\ v.arch[c[1]].list = SwapErase(w.arch[c[1]].list, w.chunk[c].idx)
  /\ v.chunk[c] = NoChunk
  /\ \A d \in Chunks : d # c => v.chunk[d].rows = w.chunk[d].rows /\ v.chunk[d].live = w.chunk[d].live

(* Archetype::del: an unqueued chunk that is empty, or whose archetype is  *)
(* dropped, leaves the list by a swap with the last; the indices, the free *)
(* index and the records stay right.                                       *)
LEMMA ChunkDeleted ==
  ASSUME NEW w \in Worlds, ListOK(w), RowsOK(w), RoomOK(w), NEW c \in Chunks, w.chunk[c].live,
         w.chunk[c].slot = 0, QueueBut(w, {c}), EmptyOK(w, {c}), Agree(w, NoRow, {}),
         w.chunk[c].rows = <<>> \/ w.arch[c[1]].req
  PROVE  LET v == DeleteChunk(w, c[1], c) IN StorageOK(v) /\ Deleted(w, v, c)
<1> DEFINE a == c[1]
           k == w.arch[a]
           list == k.list
           n == Len(list)
           i == w.chunk[c].idx
           l == list[n]
           Q == SwapErase(list, i)
           F == [w.chunk EXCEPT ![l].idx = i, ![c] = NoChunk]
           A == [w.arch EXCEPT ![a] = List(k, Q)]
           v == DeleteChunk(w, a, c)
<1>1. /\ i \in Nat \ {0} /\ i \in 1..n /\ list[i] = c /\ k.live
      /\ \A j \in 1..n : list[j] = c => j = i
  BY ChunkListed
<1>2. a \in Archetypes /\ Capacity[a] \in Nat /\ Capacity[a] > 0
  BY ChunkOfArch
<1>3. k \in ArchSet /\ list \in Seq(Chunks) /\ n \in Nat /\ k.free \in Nat \ {0}
  BY <1>2, ArchFields
<1>4. n \in 1..n /\ i <= n
  BY <1>1, <1>3
<1>5. l \in Chunks /\ l[1] = a /\ w.chunk[l].live /\ w.chunk[l].idx = n
  <2> HIDE DEF a, n
  <2>1. \A j \in 1..Len(w.arch[a].list) :
          LET d == w.arch[a].list[j]
          IN d \in Chunks /\ d[1] = a /\ w.chunk[d].live /\ w.chunk[d].idx = j
    <3>1. ListsOK(w)
      BY DEF ListOK
    <3>. QED  BY <1>2, <3>1, ListEntries
  <2>. QED  BY Zenon, <2>1, <1>4 DEF n
<1>6. /\ Q \in Seq(Chunks) /\ Len(Q) = n - 1
      /\ \A j \in 1..(n - 1) : Q[j] = IF j = i THEN l ELSE list[j]
  <2>1. list \in Seq(Chunks) /\ i \in 1..Len(list)
    BY <1>1, <1>3
  <2> HIDE DEF i, list
  <2>2. /\ SwapErase(list, i) \in Seq(Chunks) /\ Len(SwapErase(list, i)) = Len(list) - 1
        /\ \A j \in 1..(Len(list) - 1) :
             SwapErase(list, i)[j] = IF j = i THEN list[Len(list)] ELSE list[j]
    BY <2>1, SwapErased
  <2>. QED  BY Zenon, <2>2
<1>7. v = [w EXCEPT !.chunk = F, !.arch = A]
  <2>1. v = [w EXCEPT !.chunk = F, !.arch[a].list = Q]
    BY DEF DeleteChunk
  <2> HIDE DEF F, Q
  <2>. QED  BY <2>1, Parts DEF List
<1>l. (l = c <=> i = n) /\ a = c[1]
  BY Zenon, <1>1, <1>4, <1>5
<1>q. Q = SwapErase(w.arch[c[1]].list, w.chunk[c].idx)
  OBVIOUS
<1> HIDE DEF Q, v, n, l
<1>8. /\ F \in [Chunks -> ChunkSet] /\ F[c] = NoChunk
      /\ l # c => F[l] = Place1(w.chunk[l], i)
      /\ \A d \in Chunks : d # c /\ d # l => F[d] = w.chunk[d]
  <2>1. w.chunk \in [Chunks -> ChunkSet]
    BY Parts
  <2> DEFINE G == [w.chunk EXCEPT ![l] = Place1(w.chunk[l], i)]
  <2>2. Place1(w.chunk[l], i) \in ChunkSet
    BY <1>1, <1>5, <2>1, IdxOfChunk
  <2>3. G \in [Chunks -> ChunkSet] /\ G[l] = Place1(w.chunk[l], i)
        /\ \A d \in Chunks : d # l => G[d] = w.chunk[d]
    BY <1>5, <2>1, <2>2
  <2>4. F = [G EXCEPT ![c] = NoChunk]
    BY <1>5, <2>1, <2>2 DEF Place1
  <2> HIDE DEF F, G
  <2>. QED  BY <1>5, <2>3, <2>4, BlankNoChunk
<1>9. /\ A \in [Archetypes -> ArchSet] /\ A[a] = List(k, Q)
      /\ \A b \in Archetypes : b # a => A[b] = w.arch[b]
  <2>1. w.arch \in [Archetypes -> ArchSet] /\ List(k, Q) \in ArchSet
    BY <1>3, <1>6, Parts, ListOfArch
  <2>. QED  BY <1>2, <2>1
<1>10. /\ List(k, Q).list = Q /\ List(k, Q).live = k.live /\ List(k, Q).req = k.req
       /\ List(k, Q).free = k.free /\ List(k, Q).life = k.life /\ List(k, Q).max = k.max
  BY <1>3, <1>6, ListOfArch
<1>11. l # c => F[l].idx = i /\ IdxOnly(w.chunk[l], F[l])
  <2>1. w.chunk[l] \in ChunkSet
    BY <1>5, ChunkFields
  <2>2. Place1(w.chunk[l], i).idx = i /\ IdxOnly(w.chunk[l], Place1(w.chunk[l], i))
    BY Zenon, <1>1, <2>1, IdxOfChunk
  <2> HIDE DEF F
  <2>. QED  BY <1>8, <2>2
<1> HIDE DEF F, A
<1>12. v \in Worlds /\ v.arch = A /\ v.rec = w.rec /\ v.chunk = F /\ v.queue = w.queue
  BY <1>7, <1>8, <1>9 DEF Worlds
<1>13. \A d \in Chunks : d # c =>
         /\ v.chunk[d].live = w.chunk[d].live /\ v.chunk[d].rows = w.chunk[d].rows
         /\ v.chunk[d].first = w.chunk[d].first /\ v.chunk[d].enabled = w.chunk[d].enabled
         /\ v.chunk[d].slot = w.chunk[d].slot /\ v.chunk[d].life = w.chunk[d].life
         /\ v.chunk[d].idx = IF d = l THEN i ELSE w.chunk[d].idx
  BY <1>8, <1>11, <1>12 DEF IdxOnly
<1>14. v.chunk[c] = NoChunk
  BY <1>8, <1>12
<1>15. \A b \in Archetypes :
         /\ v.arch[b].live = w.arch[b].live /\ v.arch[b].req = w.arch[b].req
         /\ v.arch[b].free = w.arch[b].free /\ v.arch[b].life = w.arch[b].life
         /\ v.arch[b].max = w.arch[b].max
         /\ v.arch[b].list = IF b = a THEN Q ELSE w.arch[b].list
  <2> SUFFICES ASSUME NEW b \in Archetypes
               PROVE  /\ v.arch[b].live = w.arch[b].live /\ v.arch[b].req = w.arch[b].req
                      /\ v.arch[b].free = w.arch[b].free /\ v.arch[b].life = w.arch[b].life
                      /\ v.arch[b].max = w.arch[b].max
                      /\ v.arch[b].list = IF b = a THEN Q ELSE w.arch[b].list
    OBVIOUS
  <2>1. CASE b = a
    BY <1>9, <1>10, <1>12, <2>1
  <2>2. CASE b # a
    BY <1>9, <1>12, <2>2
  <2>. QED  BY <2>1, <2>2
<1>16. Deleted(w, v, c)
  <2>1. \A b \in Archetypes : b # a => v.arch[b] = w.arch[b]
    BY <1>9, <1>12
  <2>. QED  BY <2>1, <1>2, <1>12, <1>13, <1>14, <1>15, <1>q DEF Deleted
<1> HIDE DEF i
<1>17. PlacesOK(v)
  <2> SUFFICES ASSUME NEW d \in Chunks
               PROVE  IF v.chunk[d].live
                      THEN /\ v.chunk[d].idx \in 1..Len(v.arch[d[1]].list)
                           /\ v.arch[d[1]].list[v.chunk[d].idx] = d
                      ELSE v.chunk[d] = NoChunk
    BY Zenon DEF PlacesOK
  <2>1. CASE d = c
    BY <2>1, <1>14, BlankNoChunk
  <2>2. CASE d # c /\ ~w.chunk[d].live
    <3>1. d # l
      BY <2>2, <1>5
    <3>. QED  BY <2>2, <3>1, <1>8, <1>12 DEF ListOK, PlacesOK
  <2>3. CASE d # c /\ w.chunk[d].live
    <3>1. w.chunk[d].idx \in 1..Len(w.arch[d[1]].list) /\ w.arch[d[1]].list[w.chunk[d].idx] = d
          /\ d[1] \in Archetypes
      BY Zenon, <2>3, ChunkOfArch DEF ListOK, PlacesOK
    <3>2. CASE d = l
      <4>1. i \in 1..(n - 1)
        BY <2>3, <3>2, <1>l, <1>1, <1>3
      <4>2. v.chunk[d].idx = i /\ v.arch[d[1]].list = Q /\ v.chunk[d].live
        BY <2>3, <3>2, <1>2, <1>5, <1>13, <1>15
      <4>. QED  BY <4>1, <4>2, <3>2, <1>6
    <3>3. CASE d # l /\ d[1] = a
      <4> DEFINE m == w.chunk[d].idx
      <4>1. m \in 1..n /\ list[m] = d
        BY <3>1, <3>3 DEF n
      <4> HIDE DEF m
      <4>2. m # n /\ m # i
        BY <4>1, <2>3, <3>3, <1>1 DEF l
      <4>3. m \in 1..(n - 1)
        BY <4>1, <4>2, <1>3
      <4>4. v.chunk[d].idx = m /\ v.arch[d[1]].list = Q /\ v.chunk[d].live
        BY <2>3, <3>3, <1>2, <1>13, <1>15 DEF m
      <4>. QED  BY <4>1, <4>2, <4>3, <4>4, <1>6
    <3>4. CASE d[1] # a
      <4>1. v.chunk[d].idx = w.chunk[d].idx /\ v.chunk[d].live
        BY <2>3, <3>4, <1>5, <1>13
      <4>2. v.arch[d[1]].list = w.arch[d[1]].list
        BY <3>1, <3>4, <1>15
      <4>. QED  BY <3>1, <4>1, <4>2
    <3>. QED  BY Zenon, <3>2, <3>3, <3>4
  <2>. QED  BY Zenon, <2>1, <2>2, <2>3
<1>18. ListsOK(v)
  <2> SUFFICES ASSUME NEW b \in Archetypes, NEW j \in 1..Len(v.arch[b].list)
               PROVE  LET d == v.arch[b].list[j]
                      IN d[1] = b /\ v.chunk[d].live /\ v.chunk[d].idx = j
    BY Zenon DEF ListsOK
  <2>1. CASE b = a /\ j = i
    <3>1. j \in 1..(n - 1) /\ v.arch[b].list = Q
      BY <2>1, <1>6, <1>15
    <3>2. l # c /\ Q[j] = l
      BY <2>1, <3>1, <1>l, <1>3, <1>6
    <3>. QED  BY <2>1, <3>1, <3>2, <1>5, <1>13
  <2>2. CASE b = a /\ j # i
    <3> DEFINE d == list[j]
    <3>1. j \in 1..(n - 1) /\ v.arch[b].list = Q
      BY <2>2, <1>6, <1>15
    <3>2. j \in 1..n /\ j # n /\ Q[j] = d
      BY <2>2, <3>1, <1>3, <1>6
    <3>3. d \in Chunks /\ d[1] = a /\ w.chunk[d].live /\ w.chunk[d].idx = j
      <4>1. ListsOK(w)
        BY DEF ListOK
      <4> HIDE DEF a
      <4>2. \A m \in 1..Len(w.arch[a].list) :
              LET h == w.arch[a].list[m]
              IN h \in Chunks /\ h[1] = a /\ w.chunk[h].live /\ w.chunk[h].idx = m
        BY <1>2, <4>1, ListEntries
      <4>. QED  BY <3>2, <4>2 DEF n
    <3>4. d # c /\ d # l
      BY Zenon, <3>2, <3>3, <2>2, <1>1, <1>5
    <3> HIDE DEF d
    <3>. QED  BY <2>2, <3>1, <3>2, <3>3, <3>4, <1>13
  <2>3. CASE b # a
    <3> DEFINE d == w.arch[b].list[j]
    <3>1. v.arch[b].list = w.arch[b].list /\ j \in 1..Len(w.arch[b].list)
      BY <2>3, <1>15
    <3>2. d \in Chunks /\ d[1] = b /\ w.chunk[d].live /\ w.chunk[d].idx = j
      BY <3>1, ArchFields DEF ListOK, ListsOK
    <3> HIDE DEF d
    <3>3. d # c /\ d # l
      BY <3>2, <2>3, <1>5
    <3>. QED  BY <3>1, <3>2, <3>3, <1>13 DEF d
  <2>. QED  BY Zenon, <2>1, <2>2, <2>3
<1>19. ListOK(v)
  <2>1. ASSUME NEW b \in Archetypes
        PROVE  v.arch[b].live \/ v.arch[b] = NoArch
    <3>1. CASE b = a
      BY <3>1, <1>1, <1>15
    <3>2. CASE b # a
      BY <3>2, <1>9, <1>12 DEF ListOK
    <3>. QED  BY <3>1, <3>2
  <2>. QED  BY <2>1, <1>17, <1>18 DEF ListOK
<1>20. RowsOK(v)
  <2> SUFFICES ASSUME NEW d \in Chunks
               PROVE  /\ v.chunk[d].first <= Len(v.chunk[d].rows)
                      /\ Len(v.chunk[d].rows) <= Capacity[d[1]]
                      /\ v.chunk[d].enabled < CountMax
                      /\ v.chunk[d].life <= ChunkLife
    BY DEF RowsOK
  <2>1. CASE d = c
    <3>1. Len(v.chunk[d].rows) = 0 /\ v.chunk[d].first = 0 /\ v.chunk[d].enabled = 0 /\ v.chunk[d].life = 0
      BY <2>1, <1>14, BlankNoChunk
    <3>. QED  BY <3>1, ChunkOfArch, StorageAssumption
  <2>2. CASE d # c
    BY <2>2, <1>13 DEF RowsOK
  <2>. QED  BY <2>1, <2>2
<1>21. QueueOK(v)
  <2>1. ASSUME NEW j \in 1..Len(v.queue)
        PROVE  LET d == v.queue[j].chunk
               IN v.queue[j].arch = d[1] /\ v.chunk[d].live /\ v.chunk[d].slot = j
    <3> DEFINE d == w.queue[j].chunk
    <3>1. v.queue = w.queue /\ j \in 1..Len(w.queue) /\ j # 0
      BY <2>1, <1>12, QueueFields
    <3>2. w.queue[j].arch = d[1] /\ w.chunk[d].live /\ w.chunk[d].slot = j /\ d \in Chunks
      BY <3>1, QueueFields DEF QueueBut
    <3> HIDE DEF d
    <3>3. v.chunk[d].live = w.chunk[d].live /\ v.chunk[d].slot = w.chunk[d].slot
      BY <3>1, <3>2, <1>13
    <3>. QED  BY <3>1, <3>2, <3>3 DEF d
  <2>2. ASSUME NEW d \in Chunks
        PROVE  /\ v.chunk[d].slot = 0 <=> v.chunk[d].life = 0
               /\ v.chunk[d].slot # 0 =>
                    v.chunk[d].slot <= Len(v.queue) /\ v.queue[v.chunk[d].slot].chunk = d
    <3>1. CASE d = c
      BY <3>1, <1>14, BlankNoChunk
    <3>2. CASE d # c
      BY <3>2, <1>12, <1>13 DEF QueueBut
    <3>. QED  BY <3>1, <3>2
  <2>. QED  BY Zenon, <2>1, <2>2 DEF QueueOK
<1>22. RoomOK(v)
  <2> SUFFICES ASSUME NEW b \in Archetypes, ~v.arch[b].req
               PROVE  /\ v.arch[b].free <= Len(v.arch[b].list) + 1
                      /\ \A j \in 1..(v.arch[b].free - 1) : Full(v, b, v.arch[b].list[j])
    BY DEF RoomOK
  <2>1. /\ w.arch[b].free \in Nat \ {0} /\ w.arch[b].free <= Len(w.arch[b].list) + 1
        /\ \A j \in 1..(w.arch[b].free - 1) : Full(w, b, w.arch[b].list[j])
    BY <1>15, ArchFields DEF RoomOK
  <2>2. v.arch[b].free = w.arch[b].free
    BY <1>15
  <2>3. CASE b = a
    <3> DEFINE f == k.free
    <3>1. w.chunk[c].rows = <<>>
      BY <2>3, <1>15
    <3>2. ~Full(w, a, c)
      BY <3>1, <1>2 DEF Full
    <3>3. f \in Nat \ {0} /\ f <= n + 1 /\ \A j \in 1..(f - 1) : Full(w, a, list[j])
      BY <2>1, <2>3 DEF n
    <3> HIDE DEF f
    <3>4. f <= i
      <4>1. i \notin 1..(f - 1)
        BY <3>2, <3>3, <1>1
      <4>. QED  BY <4>1, <3>3, <1>1
    <3>5. f <= (n - 1) + 1 /\ \A j \in 1..(f - 1) : j \in 1..(n - 1) /\ j \in 1..n /\ j # i
      BY <3>3, <3>4, <1>1, <1>3
    <3>6. \A j \in 1..(f - 1) : Q[j] = list[j] /\ list[j] \in Chunks /\ list[j] # c
      <4>1. \A j \in 1..n : list[j] \in Chunks
        BY <1>2, ArchFields DEF n
      <4>. QED  BY <4>1, <3>5, <1>1, <1>6
    <3>7. \A j \in 1..(f - 1) : Full(v, a, Q[j])
      <4> SUFFICES ASSUME NEW j \in 1..(f - 1)
                   PROVE  Full(v, a, Q[j])
        OBVIOUS
      <4>1. Full(w, a, Q[j]) /\ v.chunk[Q[j]].rows = w.chunk[Q[j]].rows
        BY <3>3, <3>6, <1>13
      <4>. QED  BY <4>1 DEF Full
    <3>8. v.arch[b].list = Q /\ v.arch[b].free = f
      BY <2>2, <2>3, <1>15 DEF f
    <3>. QED  BY <2>3, <3>5, <3>7, <3>8, <1>6
  <2>4. CASE b # a
    <3>1. v.arch[b].list = w.arch[b].list
      BY <2>4, <1>15
    <3>2. \A j \in 1..(w.arch[b].free - 1) : j \in 1..Len(w.arch[b].list)
      BY <2>1, ArchFields
    <3>3. \A j \in 1..(w.arch[b].free - 1) : w.arch[b].list[j] \in Chunks /\ w.arch[b].list[j] # c
      BY <3>2, <2>4, ArchFields DEF ListOK, ListsOK
    <3>4. ASSUME NEW j \in 1..(w.arch[b].free - 1)
          PROVE  Full(v, b, w.arch[b].list[j])
      <4>1. /\ Full(w, b, w.arch[b].list[j])
            /\ v.chunk[w.arch[b].list[j]].rows = w.chunk[w.arch[b].list[j]].rows
        BY Zenon, <2>1, <3>3, <1>13
      <4>. QED  BY <4>1 DEF Full
    <3>. QED  BY <2>1, <2>2, <3>1, <3>4
  <2>. QED  BY <2>3, <2>4
<1>23. Agree(v, NoRow, {})
  <2>1. RowsNamed(v, NoRow, {})
    <3> SUFFICES ASSUME NEW d \in Chunks, NEW m \in 1..Len(v.chunk[d].rows), <<d, m>> # NoRow
                 PROVE  LET s == v.chunk[d].rows[m]
                        IN s.val = s.ent /\ s.ent \notin {} /\ NamedBy(v.rec[s.ent], d, m)
      BY Zenon DEF RowsNamed
    <3>1. d # c
      BY <1>14, BlankNoChunk
    <3>2. v.chunk[d].rows = w.chunk[d].rows /\ v.rec = w.rec
      BY <3>1, <1>12, <1>13
    <3>. QED  BY <3>2 DEF Agree, RowsNamed
  <2>2. ASSUME NEW e \in Entities \ {}, IsValid(v, e)
        PROVE  HasRow(v, e)
    <3>1. v.rec = w.rec /\ w.rec[e].arch \in Archetypes
      BY <2>2, <1>12, Parts DEF IsValid, RecordSet
    <3>2. IsValid(w, e) /\ ~w.arch[w.rec[e].arch].req
      BY <2>2, <3>1, <1>15 DEF IsValid
    <3>3. HasRow(w, e)
      BY <3>2 DEF Agree
    <3>4. w.rec[e].chunk # c
      <4>1. CASE w.rec[e].chunk = c
        <5>1. w.chunk[c].rows # <<>>
          BY <3>3, <4>1, BlankNoChunk DEF HasRow
        <5>2. w.rec[e].arch = a
          BY <3>3, <4>1 DEF HasRow
        <5>. QED  BY <5>1, <5>2, <3>2
      <4>. QED  BY <4>1
    <3>5. w.rec[e].chunk \in Chunks
      BY <3>3 DEF HasRow
    <3>6. v.chunk[w.rec[e].chunk].rows = w.chunk[w.rec[e].chunk].rows
      BY Zenon, <3>4, <3>5, <1>13
    <3>. QED  BY Zenon, <3>1, <3>3, <3>6 DEF HasRow
  <2>. QED  BY <2>1, <2>2 DEF Agree
<1>24. EmptyOK(v, {})
  <2> SUFFICES ASSUME NEW d \in Chunks, v.chunk[d].live, v.chunk[d].rows = <<>>
               PROVE  v.chunk[d].slot # 0
    BY DEF EmptyOK
  <2>1. d # c
    BY <1>14, BlankNoChunk
  <2>. QED  BY <2>1, <1>13 DEF EmptyOK
<1>. QED  BY <1>12, <1>16, <1>19, <1>20, <1>21, <1>22, <1>23, <1>24 DEF StorageOK, BaseOK, v

-----------------------------------------------------------------------------
(* Steps                                                                   *)

(* The storage after a step that assigns it from w.                        *)
LEMMA Become ==
  ASSUME NEW w \in Worlds, Becomes(w)
  PROVE  World' = w
BY Parts DEF Becomes, World

(* The parts of the world.                                                 *)
LEMMA WorldParts ==
  World.arch = arch /\ World.chunk = chunk /\ World.rec = rec /\ World.queue = queue
BY DEF World

(* The storage after a step that leaves it.                                *)
LEMMA WorldKept ==
  ASSUME UNCHANGED storage
  PROVE  World' = World
BY DEF World, storage

(* The place of an entity in a world, and the steps that change no place.  *)
PlaceIn(w, e) == IF IsValid(w, e) THEN w.rec[e].arch ELSE None

(* No entity changes archetypes in this step, as the abstract store sees   *)
(* it.                                                                     *)
Still == \A e \in Entities : PlaceIn(World', e) = PlaceIn(World, e)

(* The steps that change the place of one entity.                          *)
Placed(e, a) ==
  \A h \in Entities : PlaceIn(World', h) = IF h = e THEN a ELSE PlaceIn(World, h)

(* A step that writes the archetype of one record puts that entity in it   *)
(* and moves no other.                                                     *)
LEMMA PlacedOne ==
  ASSUME World \in Worlds, NEW e \in Entities, NEW a \in Archetypes \cup {None},
         a # None => ~arch[a].req, rec'[e].arch = a,
         \A h \in Entities : h # e => rec'[h].arch = rec[h].arch,
         \A b \in Archetypes : arch'[b].req = arch[b].req
  PROVE  Placed(e, a)
<1> SUFFICES ASSUME NEW h \in Entities
             PROVE  PlaceIn(World', h) = IF h = e THEN a ELSE PlaceIn(World, h)
  BY DEF Placed
<1>1. /\ World'.rec = rec' /\ World'.arch = arch' /\ World.rec = rec /\ World.arch = arch
      /\ rec[h].arch \in Archetypes \cup {None}
  <2>1. rec \in [Entities -> RecordSet]
    BY Parts, WorldParts
  <2>. QED  BY <2>1 DEF World, RecordSet
<1>2. CASE h = e
  BY <1>1, <1>2, StorageAssumption DEF PlaceIn, IsValid
<1>3. CASE h # e
  BY <1>1, <1>3, StorageAssumption DEF PlaceIn, IsValid
<1>. QED  BY <1>2, <1>3

(* A step that writes no record's archetype and drops no archetype moves no*)
(* entity.                                                                 *)
LEMMA NoneMoved ==
  ASSUME World \in Worlds, \A e \in Entities : rec'[e].arch = rec[e].arch,
         \A a \in Archetypes : arch'[a].req = arch[a].req
  PROVE  Still
<1> SUFFICES ASSUME NEW e \in Entities
             PROVE  PlaceIn(World', e) = PlaceIn(World, e)
  BY DEF Still
<1>1. /\ World'.rec = rec' /\ World'.arch = arch' /\ World.rec = rec /\ World.arch = arch
      /\ rec[e].arch \in Archetypes \cup {None}
  <2>1. rec \in [Entities -> RecordSet]
    BY Parts, WorldParts
  <2>. QED  BY <2>1 DEF World, RecordSet
<1>. QED  BY <1>1, StorageAssumption DEF PlaceIn, IsValid

(* What is not idle is not touched by the operations of the program: they  *)
(* keep countdowns and dropped archetypes, and empty no list.              *)
LEMMA IdleStep ==
  ASSUME IInv, phase = "idle", UNCHANGED <<doomed, loops>>, StorageOK(World)',
         \A a \in Archetypes :
           /\ arch'[a].req = arch[a].req /\ arch'[a].life = arch[a].life
           /\ arch[a].live => arch'[a].live
           /\ arch'[a].max \in Lifespans[a] \cup {0, 1}
           /\ arch[a].req => arch'[a].max = arch[a].max /\ arch'[a].list = arch[a].list
           /\ arch'[a].live /\ arch'[a].list = <<>> /\ arch'[a].max > 0 =>
                arch[a].live /\ arch[a].list = <<>> /\ arch[a].max > 0
  PROVE  IInv'
<1>1. LoopsOK'
  BY DEF IInv, LoopsOK, loops, defrag
<1>2. DroppedOK'
  BY DEF IInv, DroppedOK, loops, defrag
<1>3. FinalizeOK' /\ DefragOK'
  BY DEF FinalizeOK, DefragOK, loops
<1>4. DoomedOK'
  <2>1. \A i \in 1..Len(doomed) : doomed[i] \in Archetypes
    BY ElementOfSeq DEF IInv, LoopsOK
  <2>2. \A i \in 1..Len(doomed) : ~Kept(i)
    BY DEF Kept
  <2>3. \A i \in 1..Len(doomed') : arch'[doomed'[i]].live /\ arch'[doomed'[i]].life # 0
    BY <2>1, <2>2 DEF IInv, DoomedOK
  <2>. QED  BY <2>3 DEF IInv, DoomedOK
<1>. QED  BY <1>1, <1>2, <1>3, <1>4 DEF IInv

(* A valid entity has its row in a chunk of its archetype, which exists.   *)
LEMMA ValidRow ==
  ASSUME NEW w, StorageOK(w), NEW e \in Entities, IsValid(w, e)
  PROVE  LET r == w.rec[e]
         IN /\ r.arch \in Archetypes /\ r.chunk \in Chunks /\ r.chunk[1] = r.arch
            /\ r.row \in 1..Len(w.chunk[r.chunk].rows) /\ r.row \in Nat
            /\ w.chunk[r.chunk].rows[r.row].ent = e /\ w.chunk[r.chunk].live
            /\ w.arch[r.arch].live /\ ~w.arch[r.arch].req /\ w.arch[r.arch].list # <<>>
<1> DEFINE r == w.rec[e]
<1>1. w \in Worlds /\ ListOK(w) /\ Agree(w, NoRow, {})
  BY DEF StorageOK, BaseOK
<1>2. HasRow(w, e)
  BY <1>1 DEF Agree
<1>3. r.chunk \in Chunks /\ r.chunk[1] = r.arch /\ r.row \in 1..Len(w.chunk[r.chunk].rows)
      /\ w.chunk[r.chunk].rows[r.row].ent = e
  BY Zenon, <1>2 DEF HasRow
<1> HIDE DEF r
<1>4. r.arch \in Archetypes /\ r.row \in Nat /\ Len(w.chunk[r.chunk].rows) # 0
  BY <1>1, <1>3, ChunkOfArch, RowsOfChunk
<1>5. w.chunk[r.chunk].live
  BY <1>1, <1>3, <1>4, RowsLive
<1>6. w.arch[r.arch].live /\ w.arch[r.arch].list # <<>>
  <2>1. w.chunk[r.chunk].idx \in 1..Len(w.arch[r.chunk[1]].list) /\ w.arch[r.chunk[1]].live
    BY Zenon, <1>1, <1>3, <1>5, ChunkListed
  <2>2. Len(<<>>) = 0
    OBVIOUS
  <2>. QED  BY <1>3, <2>1, <2>2
<1>7. ~w.arch[r.arch].req
  BY DEF IsValid, r
<1>. QED  BY Zenon, <1>3, <1>4, <1>5, <1>6, <1>7 DEF r

(* The same of the storage itself.                                         *)
LEMMA RowHere ==
  ASSUME StorageOK(World), NEW e \in Entities, IsValid(World, e)
  PROVE  /\ rec[e].arch \in Archetypes /\ rec[e].chunk \in Chunks
         /\ rec[e].chunk[1] = rec[e].arch
         /\ rec[e].row \in 1..Len(chunk[rec[e].chunk].rows) /\ rec[e].row \in Nat
         /\ chunk[rec[e].chunk].rows[rec[e].row].ent = e /\ chunk[rec[e].chunk].live
         /\ arch[rec[e].arch].live /\ ~arch[rec[e].arch].req /\ arch[rec[e].arch].list # <<>>
<1>1. /\ World.rec[e].arch \in Archetypes /\ World.rec[e].chunk \in Chunks
      /\ World.rec[e].chunk[1] = World.rec[e].arch
      /\ World.rec[e].row \in 1..Len(World.chunk[World.rec[e].chunk].rows)
      /\ World.rec[e].row \in Nat
      /\ World.chunk[World.rec[e].chunk].rows[World.rec[e].row].ent = e
      /\ World.chunk[World.rec[e].chunk].live /\ World.arch[World.rec[e].arch].live
      /\ ~World.arch[World.rec[e].arch].req /\ World.arch[World.rec[e].arch].list # <<>>
  BY ValidRow
<1>. QED  BY Zenon, <1>1, WorldParts

(* World::valid as the invariant states it.                                *)
LEMMA ValidHere ==
  ASSUME NEW e \in Entities
  PROVE  Valid(e) <=> IsValid(World, e)
BY WorldParts DEF Valid, IsValid

(* World::enable.                                                          *)
LEMMA EnableStep ==
  ASSUME IInv, NEW e \in Entities, NEW on \in BOOLEAN, Enable(e, on)
  PROVE  IInv' /\ Still
<1> DEFINE c == rec[e].chunk
           w == IF on THEN EnableRow(World, c, rec[e].row) ELSE DisableRow(World, c, rec[e].row)
<1>1. StorageOK(World) /\ BaseOK(World) /\ World \in Worlds /\ RowsOK(World)
      /\ EmptyOK(World, {}) /\ Agree(World, NoRow, {})
  BY DEF IInv, StorageOK, BaseOK
<1>2. IsValid(World, e)
  BY ValidHere DEF Enable
<1>3. c \in Chunks /\ rec[e].row \in 1..Len(World.chunk[c].rows) /\ World.chunk[c].live
  BY Zenon, <1>1, <1>2, RowHere, WorldParts
<1>4. \A m \in Nat : <<c, m>> # NoRow
  BY NoRowInChunk
<1>w. Becomes(w)
  BY DEF Enable
<1> HIDE DEF c
<1>5. RowsKept(World, w, c, NoRow, {})
  BY <1>1, <1>3, <1>4, RowEnabled
<1> HIDE DEF w
<1>6. RowsOnly(World, w, c) /\ RowsOK(w) /\ Agree(w, NoRow, {})
      /\ Len(w.chunk[c].rows) = Len(World.chunk[c].rows)
  BY <1>5 DEF RowsKept
<1>7. Len(w.chunk[c].rows) >= Len(World.chunk[c].rows)
  <2>1. Len(World.chunk[c].rows) \in Nat
    BY <1>1, <1>3, RowsOfChunk
  <2>. QED  BY <1>6, <2>1
<1>8. BaseOK(w) /\ EmptyOK(w, {})
  BY <1>1, <1>3, <1>6, <1>7, RowsOnlyStays
<1>9. World' = w
  BY <1>8, <1>w, Become DEF BaseOK
<1>10. StorageOK(World)' /\ arch' = arch
  BY <1>6, <1>8, <1>9, <1>w, WorldParts DEF StorageOK, RowsOnly, Becomes
<1>11. Still
  <2>1. \A h \in Entities : rec'[h].arch = rec[h].arch
    BY <1>6, <1>w, WorldParts DEF RowsOnly, Becomes
  <2>. QED  BY <1>1, <1>10, <2>1, NoneMoved
<1>. QED  BY <1>10, <1>11, IdleStep DEF Enable, IInv, LoopsOK

(* World::del_entity_inter.                                                *)
LEMMA RowGone ==
  ASSUME NEW w, BaseOK(w), EmptyOK(w, {}), NEW e \in Entities, Agree(w, NoRow, {e})
  PROVE  LET v == PutRecord(w, e, NoRecord)
         IN /\ StorageOK(v) /\ v.arch = w.arch /\ v.chunk = w.chunk /\ v.queue = w.queue
            /\ v.rec[e].arch = None
            /\ \A f \in Entities : f # e => v.rec[f] = w.rec[f]
<1> DEFINE v == PutRecord(w, e, NoRecord)
<1>1. w \in Worlds
  BY DEF BaseOK
<1>2. NoRecord \in RecordSet /\ NoRecord.arch = None
  BY DEF NoRecord, RecordSet
<1>3. /\ v \in Worlds /\ v.arch = w.arch /\ v.chunk = w.chunk /\ v.queue = w.queue
      /\ v.rec = [w.rec EXCEPT ![e] = NoRecord]
  BY <1>1, <1>2, RecordPut
<1> HIDE DEF v
<1>4. v.rec[e] = NoRecord /\ \A f \in Entities : f # e => v.rec[f] = w.rec[f]
  BY <1>1, <1>3, Parts
<1>5. BaseOK(v) /\ EmptyOK(v, {})
  BY <1>3, OnlyRecords
<1>6. RowsNamed(v, NoRow, {})
  <2> SUFFICES ASSUME NEW d \in Chunks, NEW m \in 1..Len(v.chunk[d].rows), <<d, m>> # NoRow
               PROVE  LET s == v.chunk[d].rows[m]
                      IN s.val = s.ent /\ s.ent \notin {} /\ NamedBy(v.rec[s.ent], d, m)
    BY Zenon DEF RowsNamed
  <2>1. LET s == w.chunk[d].rows[m]
        IN /\ s.val = s.ent /\ s.ent \notin {e} /\ NamedBy(w.rec[s.ent], d, m)
           /\ s.ent \in Entities
    BY Zenon, <1>1, <1>3, RowsOfChunk DEF Agree, RowsNamed
  <2>. QED  BY Zenon, <1>3, <1>4, <2>1
<1>7. ASSUME NEW f \in Entities \ {}, IsValid(v, f)
      PROVE  HasRow(v, f)
  <2>1. f # e
    BY <1>2, <1>4, <1>7 DEF IsValid
  <2>2. v.rec[f] = w.rec[f]
    BY <1>4, <2>1
  <2>3. HasRow(w, f)
    BY <1>3, <1>7, <2>1, <2>2 DEF Agree, IsValid
  <2>. QED  BY Zenon, <1>3, <2>2, <2>3 DEF HasRow
<1>. QED  BY <1>2, <1>3, <1>4, <1>5, <1>6, <1>7 DEF StorageOK, Agree, v

(* World::del of an entity.                                                *)
LEMMA DelStep ==
  ASSUME IInv, NEW e \in Entities, Del(e)
  PROVE  IInv' /\ Placed(e, None)
<1> DEFINE r == rec[e]
           u == TakeRow(World, r.arch, r.chunk, r.row)
           v == PutRecord(u, e, NoRecord)
<1>1. StorageOK(World) /\ BaseOK(World) /\ EmptyOK(World, {}) /\ Agree(World, NoRow, {})
  BY DEF IInv, StorageOK
<1>2. IsValid(World, e)
  BY ValidHere DEF Del
<1>3. /\ r.chunk \in Chunks /\ r.chunk[1] = r.arch /\ r.row \in 1..Len(World.chunk[r.chunk].rows)
      /\ World.chunk[r.chunk].rows[r.row].ent = e /\ ~arch[r.arch].req
  BY Zenon, <1>1, <1>2, RowHere, WorldParts
<1>4. \A m \in Nat : <<r.chunk, m>> # NoRow
  BY NoRowInChunk
<1>5. Becomes(v)
  BY DEF Del, PutRecord
<1> HIDE DEF r
<1>6. BaseOK(u) /\ EmptyOK(u, {}) /\ Agree(u, NoRow, {e}) /\ SameLists(World, u)
      /\ \A h \in Entities : u.rec[h].arch = rec[h].arch
  <2>1. LET t == TakeRow(World, r.chunk[1], r.chunk, r.row)
        IN /\ BaseOK(t) /\ EmptyOK(t, {})
           /\ Agree(t, NoRow, {World.chunk[r.chunk].rows[r.row].ent})
           /\ Taken(World, t, r.chunk)
    BY <1>1, <1>3, <1>4, RowTaken
  <2>. QED  BY <1>3, <2>1, WorldParts DEF Taken
<1> HIDE DEF u
<1>7. /\ StorageOK(v) /\ v.arch = u.arch /\ v.rec[e].arch = None
      /\ \A h \in Entities : h # e => v.rec[h] = u.rec[h]
  BY <1>6, RowGone
<1> HIDE DEF v
<1>8. World' = v
  BY <1>5, <1>7, Become DEF StorageOK, BaseOK
<1>9. StorageOK(World)' /\ arch' = u.arch
  BY <1>5, <1>7, <1>8 DEF Becomes
<1>10. \A a \in Archetypes :
         /\ arch'[a].live = arch[a].live /\ arch'[a].list = arch[a].list
         /\ arch'[a].req = arch[a].req
         /\ arch'[a].life = arch[a].life /\ arch'[a].max = arch[a].max
  BY <1>6, <1>9, WorldParts DEF SameLists
<1>11. Placed(e, None)
  <2>1. rec' = v.rec
    BY <1>5 DEF Becomes
  <2>2. World \in Worlds
    BY <1>1 DEF BaseOK
  <2>. QED  BY <1>6, <1>7, <1>10, <2>1, <2>2, PlacedOne
<1>. QED  BY Zenon, <1>9, <1>10, <1>11, IdleStep DEF Del, IInv, LoopsOK

(* An archetype that is used gets room for a row.                          *)
Grown(w, a) ==
  /\ \A b \in Archetypes : b # a => w.arch[b] = arch[b]
  /\ w.arch[a].live /\ ~w.arch[a].req /\ w.arch[a].life = arch[a].life
  /\ w.arch[a].list # <<>> /\ w.arch[a].max = IF arch[a].live THEN arch[a].max ELSE 1

(* Archetype::foc_free_chunk before a row is added: when a chunk can be    *)
(* had, it is of the archetype and not full, and only it may be empty and  *)
(* unqueued.                                                               *)
LEMMA RoomForRow ==
  ASSUME StorageOK(World), NEW a \in Archetypes, ~arch[a].req, HasRoom(a)
  PROVE  LET w == WithRoom(WithArch(World, a), a)
             c == FreeChunk(w, a)
         IN /\ BaseOK(w) /\ EmptyOK(w, {c}) /\ Agree(w, NoRow, {}) /\ w.rec = rec
            /\ c \in Chunks /\ c[1] = a /\ w.chunk[c].live /\ Len(w.chunk[c].rows) < Capacity[a]
            /\ w.arch[a].free <= Len(w.arch[a].list) /\ Grown(w, a)
<1> DEFINE u == WithArch(World, a)
           w == WithRoom(u, a)
           c == FreeChunk(w, a)
<1>1. BaseOK(World) /\ EmptyOK(World, {}) /\ Agree(World, NoRow, {})
  BY DEF StorageOK
<1>2. /\ BaseOK(u) /\ EmptyOK(u, {}) /\ Agree(u, NoRow, {})
      /\ u.chunk = chunk /\ u.rec = rec /\ u.arch[a].live
      /\ \A b \in Archetypes : b # a => u.arch[b] = arch[b]
      /\ u.arch[a].list = arch[a].list /\ u.arch[a].free = arch[a].free
      /\ u.arch[a].req = arch[a].req /\ u.arch[a].life = arch[a].life
      /\ u.arch[a].max = IF arch[a].live THEN arch[a].max ELSE 1
  BY <1>1, ArchCreated, WorldParts
<1> HIDE DEF u
<1>3. \/ Unused(u, a) # {}
      \/ \E j \in u.arch[a].free..Len(u.arch[a].list) : ~Full(u, a, u.arch[a].list[j])
  <2>1. Unused(u, a) = Unused(World, a)
    BY <1>2, WorldParts DEF Unused
  <2>2. \A d : Full(u, a, d) <=> Full(World, a, d)
    BY <1>2, WorldParts DEF Full
  <2>. QED  BY <2>1, <2>2, <1>2 DEF HasRoom
<1>4. BaseOK(w) /\ EmptyOK(w, {c}) /\ Agree(w, NoRow, {}) /\ Found(u, w, a)
  BY <1>2, <1>3, RoomMade
<1> HIDE DEF w, c
<1>5. /\ w.arch[a].free \in 1..Len(w.arch[a].list)
      /\ c \in Chunks /\ c[1] = a /\ w.chunk[c].live /\ Len(w.chunk[c].rows) < Capacity[a]
      /\ \A b \in Archetypes : b # a => w.arch[b] = u.arch[b]
      /\ w.arch[a].live = u.arch[a].live /\ w.arch[a].req = u.arch[a].req
      /\ w.arch[a].life = u.arch[a].life /\ w.arch[a].max = u.arch[a].max
      /\ w.rec = u.rec
  BY <1>4 DEF Found, c
<1>6. Len(w.arch[a].list) \in Nat
  BY <1>4, ArchFields DEF BaseOK
<1>7. w.arch[a].free <= Len(w.arch[a].list) /\ Len(w.arch[a].list) # 0
  <2> DEFINE f == w.arch[a].free
             m == Len(w.arch[a].list)
  <2>1. f \in 1..m /\ m \in Nat
    BY <1>5, <1>6
  <2> HIDE DEF f, m
  <2>2. f <= m /\ m # 0
    BY <2>1
  <2>. QED  BY <2>2 DEF f, m
<1>8. w.arch[a].list # <<>>
  BY <1>7
<1>9. Grown(w, a)
  BY <1>2, <1>5, <1>8 DEF Grown
<1>. QED  BY <1>2, <1>4, <1>5, <1>7, <1>9 DEF w, c, u

(* An operation between two clean-ups that adds to archetype a keeps the   *)
(* loops' invariant.                                                       *)
LEMMA GrownIdle ==
  ASSUME IInv, phase = "idle", UNCHANGED <<doomed, loops>>, NEW a \in Archetypes, ~arch[a].req,
         NEW w, Grown(w, a), NEW z, StorageOK(z), Becomes(z), SameLists(w, z)
  PROVE  IInv' /\ rec' = z.rec /\ \A b \in Archetypes : arch'[b].req = arch[b].req
<1>1. World' = z
  BY Become DEF StorageOK, BaseOK
<1>2. arch' = z.arch
  BY DEF Becomes
<1>3. ASSUME NEW b \in Archetypes
      PROVE  /\ arch'[b].req = arch[b].req /\ arch'[b].life = arch[b].life
             /\ arch[b].live => arch'[b].live
             /\ arch'[b].max \in Lifespans[b] \cup {0, 1}
             /\ arch[b].req => arch'[b].max = arch[b].max /\ arch'[b].list = arch[b].list
             /\ arch'[b].live /\ arch'[b].list = <<>> /\ arch'[b].max > 0 =>
                  arch[b].live /\ arch[b].list = <<>> /\ arch[b].max > 0
  <2>1. /\ arch'[b].live = w.arch[b].live /\ arch'[b].list = w.arch[b].list
        /\ arch'[b].req = w.arch[b].req
        /\ arch'[b].life = w.arch[b].life /\ arch'[b].max = w.arch[b].max
    BY <1>2 DEF SameLists
  <2>2. arch[b].max \in Lifespans[b] \cup {0, 1}
    BY DEF IInv, LoopsOK
  <2>3. arch[b].req \in BOOLEAN /\ arch'[b].req \in BOOLEAN
    BY <1>1, ArchFields, WorldParts, <1>2 DEF IInv, StorageOK, BaseOK
  <2>4. CASE b # a
    BY <2>1, <2>2, <2>4 DEF Grown
  <2>5. CASE b = a
    BY <2>1, <2>2, <2>3, <2>5 DEF Grown
  <2>. QED  BY <2>4, <2>5
<1>4. rec' = z.rec
  BY DEF Becomes
<1>. QED  BY <1>1, <1>3, <1>4, IdleStep

(* World::assign_entity and store_entity.                                  *)
LEMMA RowStored ==
  ASSUME NEW w, BaseOK(w), NEW c \in Chunks, EmptyOK(w, {c}), Agree(w, NoRow, {}),
         w.chunk[c].live, Len(w.chunk[c].rows) < Capacity[c[1]],
         NEW e \in Entities, w.rec[e].arch = None, NEW R \in RecordSet,
         NamedBy(R, c, Len(w.chunk[c].rows) + 1)
  PROVE  LET v == PutRecord(CopyVal(AddRow(w, c, e), c, Len(w.chunk[c].rows) + 1, e), e, R)
         IN /\ BaseOK(v) /\ EmptyOK(v, {}) /\ Agree(v, NoRow, {}) /\ v.arch = w.arch
            /\ v.rec = [w.rec EXCEPT ![e] = R]
<1> DEFINE n == Len(w.chunk[c].rows) + 1
           u == AddRow(w, c, e)
           t == CopyVal(u, c, n, e)
           v == PutRecord(t, e, R)
<1>1. w \in Worlds /\ RowsOK(w)
  BY DEF BaseOK
<1>2. n \in Nat /\ n \in 1..n /\ n # 0 /\ Len(w.chunk[c].rows) \in Nat
  BY <1>1, RowsOfChunk
<1>3. Agree(w, NoRow, {e})
  BY <1>1, NoneNamed
<1>4. /\ RowsOnly(w, u, c) /\ Agree(u, <<c, n>>, {e}) /\ RowsOK(u) /\ u.rec = w.rec
      /\ Len(u.chunk[c].rows) = n /\ u.chunk[c].rows[n].ent = e
  BY <1>1, <1>3, RowAdded
<1>n. n >= Len(w.chunk[c].rows)
  BY <1>2
<1>i. NamedBy(R, c, n)
  OBVIOUS
<1> HIDE DEF u, n
<1>5. BaseOK(u) /\ EmptyOK(u, {c}) /\ u.chunk[c].live /\ u \in Worlds
  BY Zenon, <1>4, <1>n, RowsOnlyStays DEF RowsOnly
<1>6. EmptyOK(u, {})
  BY <1>2, <1>4, <1>5, NotEmpty
<1>7. /\ RowsKept(u, t, c, <<c, n>>, {e}) /\ t.rec = u.rec
      /\ t.chunk[c].rows[n].ent = u.chunk[c].rows[n].ent /\ t.chunk[c].rows[n].val = e
  BY <1>2, <1>4, <1>5, ValCopied
<1> HIDE DEF t
<1>8. /\ RowsOnly(u, t, c) /\ Agree(t, <<c, n>>, {e}) /\ RowsOK(t)
      /\ Len(t.chunk[c].rows) = n /\ Len(t.chunk[c].rows) >= Len(u.chunk[c].rows)
  BY <1>2, <1>4, <1>7 DEF RowsKept
<1>9. BaseOK(t) /\ EmptyOK(t, {}) /\ t \in Worlds
  BY Zenon, <1>5, <1>6, <1>8, RowsOnlyStays DEF RowsOnly
<1>10. /\ v \in Worlds /\ v.arch = t.arch /\ v.chunk = t.chunk /\ v.queue = t.queue
       /\ v.rec = [t.rec EXCEPT ![e] = R] /\ Agree(v, NoRow, {})
  <2>1. /\ n \in 1..Len(t.chunk[c].rows) /\ t.chunk[c].rows[n].ent = e
        /\ t.chunk[c].rows[n].val = e /\ t \in Worlds
    BY <1>2, <1>4, <1>7, <1>8, <1>9
  <2>2. Agree(t, <<c, n>>, {e})
    BY <1>8
  <2>. QED  BY <1>i, <2>1, <2>2, RecordNames
<1>11. BaseOK(v) /\ EmptyOK(v, {})
  BY <1>9, <1>10, OnlyRecords
<1>12. v.rec = [w.rec EXCEPT ![e] = R]
  BY <1>4, <1>7, <1>10
<1>13. v.arch = w.arch
  BY <1>4, <1>8, <1>10 DEF RowsOnly
<1> HIDE DEF v
<1>14. /\ BaseOK(v) /\ EmptyOK(v, {}) /\ Agree(v, NoRow, {}) /\ v.arch = w.arch
       /\ v.rec = [w.rec EXCEPT ![e] = R]
  BY <1>10, <1>11, <1>12, <1>13
<1>. QED  BY <1>14 DEF v, t, u, n

(* World::add of an entity to an archetype.                                *)
LEMMA AddStep ==
  ASSUME IInv, NEW e \in Entities, NEW a \in Archetypes, Add(e, a)
  PROVE  IInv' /\ Placed(e, a)
<1> DEFINE w == WithRoom(WithArch(World, a), a)
           c == FreeChunk(w, a)
           n == Len(w.chunk[c].rows) + 1
           R == [arch |-> a, chunk |-> c, row |-> n, dis |-> FALSE]
           v == PutRecord(CopyVal(AddRow(w, c, e), c, n, e), e, R)
           z == SkipFull(v, a)
<1>1. StorageOK(World) /\ ~arch[a].req /\ HasRoom(a) /\ rec[e].arch = None
  BY DEF Add, IInv
<1>2. /\ BaseOK(w) /\ EmptyOK(w, {c}) /\ Agree(w, NoRow, {}) /\ w.rec = rec
      /\ c \in Chunks /\ c[1] = a /\ w.chunk[c].live /\ Len(w.chunk[c].rows) < Capacity[a]
      /\ w.arch[a].free <= Len(w.arch[a].list) /\ Grown(w, a)
  BY <1>1, RoomForRow
<1>3. Becomes(SkipFull([[AddRow(w, c, e) EXCEPT !.chunk[c].rows[n].val = e] EXCEPT !.rec[e] = R], a))
  BY Zenon DEF Add
<1>4. Becomes(z)
  <2> HIDE DEF c, n, R, w
  <2>. QED  BY <1>3 DEF PutRecord, CopyVal
<1> HIDE DEF c, w
<1>5. Len(w.chunk[c].rows) \in Nat
  BY <1>2, RowsOfChunk DEF BaseOK
<1>6. R \in RecordSet /\ NamedBy(R, c, n) /\ R.arch = a
  BY <1>2, <1>5 DEF RecordSet, NamedBy
<1> HIDE DEF R
<1>7. BaseOK(v) /\ EmptyOK(v, {}) /\ Agree(v, NoRow, {}) /\ v.arch = w.arch
      /\ v.rec = [w.rec EXCEPT ![e] = R]
  BY <1>1, <1>2, <1>6, RowStored
<1> HIDE DEF v
<1>8. v.arch[a].live /\ ~v.arch[a].req /\ v.arch[a].free <= Len(v.arch[a].list)
  BY <1>2, <1>7 DEF Grown
<1>9. BaseOK(z) /\ EmptyOK(z, {}) /\ Agree(z, NoRow, {}) /\ SameLists(v, z) /\ z.rec = v.rec
  BY <1>7, <1>8, FullSkipped
<1>10. StorageOK(z) /\ SameLists(w, z)
  BY <1>7, <1>9 DEF StorageOK, SameLists
<1> HIDE DEF z
<1>11. IInv' /\ rec' = z.rec /\ \A b \in Archetypes : arch'[b].req = arch[b].req
  BY <1>1, <1>2, <1>4, <1>10, GrownIdle DEF Add
<1>12. Placed(e, a)
  <2>1. World \in Worlds
    BY <1>1 DEF StorageOK, BaseOK
  <2>2. rec \in [Entities -> RecordSet]
    BY <2>1, Parts, WorldParts
  <2>3. rec' = [rec EXCEPT ![e] = R]
    BY <1>2, <1>7, <1>9, <1>11
  <2>. QED  BY <1>1, <1>6, <1>11, <2>1, <2>2, <2>3, PlacedOne
<1>. QED  BY <1>11, <1>12

(* World::move_entity_raw.                                                 *)
LEMMA MoveStep ==
  ASSUME IInv, NEW e \in Entities, NEW a \in Archetypes, Move(e, a)
  PROVE  IInv' /\ Placed(e, a)
<1> DEFINE w == WithRoom(WithArch(World, a), a)
           d == FreeChunk(w, a)
           v == MoveRow(w, e, a, d)
           z == SkipFull(v, a)
<1>1. /\ StorageOK(World) /\ ~arch[a].req /\ HasRoom(a) /\ IsValid(World, e)
      /\ rec[e].arch # a
  BY ValidHere DEF Move, IInv
<1>2. /\ BaseOK(w) /\ EmptyOK(w, {d}) /\ Agree(w, NoRow, {}) /\ w.rec = rec
      /\ d \in Chunks /\ d[1] = a /\ w.chunk[d].live /\ Len(w.chunk[d].rows) < Capacity[a]
      /\ w.arch[a].free <= Len(w.arch[a].list) /\ Grown(w, a)
  BY <1>1, RoomForRow
<1>3. Becomes(z)
  BY DEF Move
<1> HIDE DEF w, d
<1>4. rec[e].arch \in Archetypes /\ rec[e].chunk[1] = rec[e].arch
  BY Zenon, <1>1, RowHere
<1>5. w.rec[e].chunk # d /\ w.rec[e].chunk[1] # a
  BY <1>1, <1>2, <1>4
<1>6. IsValid(w, e)
  BY <1>1, <1>2, <1>4, WorldParts DEF IsValid, Grown
<1>7. /\ BaseOK(v) /\ EmptyOK(v, {}) /\ Agree(v, NoRow, {})
      /\ SameLists(w, v) /\ \A b \in Archetypes : b # w.rec[e].chunk[1] => v.arch[b] = w.arch[b]
      /\ v.rec[e].arch = a /\ \A h \in Entities : h # e => v.rec[h].arch = w.rec[h].arch
  <2>1. LET t == MoveRow(w, e, d[1], d)
        IN /\ BaseOK(t) /\ EmptyOK(t, {}) /\ Agree(t, NoRow, {})
           /\ SameLists(w, t) /\ \A b \in Archetypes : b # w.rec[e].chunk[1] => t.arch[b] = w.arch[b]
           /\ t.rec[e].arch = d[1]
           /\ \A h \in Entities : h # e => t.rec[h].arch = w.rec[h].arch
    BY <1>2, <1>5, <1>6, RowMoved
  <2>. QED  BY <1>2, <2>1
<1> HIDE DEF v
<1>8. v.arch[a].live /\ ~v.arch[a].req /\ v.arch[a].free <= Len(v.arch[a].list)
  BY <1>2, <1>5, <1>7 DEF Grown
<1>9. BaseOK(z) /\ EmptyOK(z, {}) /\ Agree(z, NoRow, {}) /\ SameLists(v, z) /\ z.rec = v.rec
  BY <1>7, <1>8, FullSkipped
<1>10. StorageOK(z) /\ SameLists(w, z)
  BY <1>7, <1>9 DEF StorageOK, SameLists
<1> HIDE DEF z
<1>11. IInv' /\ rec' = z.rec /\ \A b \in Archetypes : arch'[b].req = arch[b].req
  BY <1>1, <1>2, <1>3, <1>10, GrownIdle DEF Move
<1>12. Placed(e, a)
  <2>1. World \in Worlds
    BY <1>1 DEF StorageOK, BaseOK
  <2>2. rec'[e].arch = a /\ \A h \in Entities : h # e => rec'[h].arch = rec[h].arch
    BY <1>2, <1>7, <1>9, <1>11
  <2>. QED  BY <1>1, <1>11, <2>1, <2>2, PlacedOne
<1>. QED  BY <1>11, <1>12

(* Another record of an archetype with the same list and free index.       *)
LEMMA ArchReset ==
  ASSUME NEW w, StorageOK(w), NEW a \in Archetypes, w.arch[a].live, NEW k \in ArchSet,
         k.live, k.list = w.arch[a].list, k.free = w.arch[a].free, k.req = w.arch[a].req
  PROVE  LET v == PutArch(w, a, k)
         IN /\ StorageOK(v) /\ v.chunk = w.chunk /\ v.rec = w.rec /\ v.queue = w.queue
            /\ v.arch[a] = k /\ \A b \in Archetypes : b # a => v.arch[b] = w.arch[b]
<1> DEFINE v == PutArch(w, a, k)
<1>1. w \in Worlds /\ ListOK(w) /\ RowsOK(w) /\ QueueOK(w) /\ RoomOK(w) /\ EmptyOK(w, {})
      /\ Agree(w, NoRow, {})
  BY DEF StorageOK, BaseOK
<1>2. /\ v \in Worlds /\ v.chunk = w.chunk /\ v.rec = w.rec /\ v.queue = w.queue
      /\ v.arch = [w.arch EXCEPT ![a] = k]
  BY <1>1, ArchPut
<1> HIDE DEF v
<1>3. v.arch[a] = k /\ \A b \in Archetypes : b # a => v.arch[b] = w.arch[b]
  BY <1>1, <1>2, Parts
<1>4. ASSUME NEW b \in Archetypes
      PROVE  /\ v.arch[b].req = w.arch[b].req /\ v.arch[b].list = w.arch[b].list
             /\ v.arch[b].free = w.arch[b].free /\ v.arch[b].live = w.arch[b].live
  <2>1. w.arch[b].live \in BOOLEAN /\ k.live \in BOOLEAN
    BY <1>1, ArchFields DEF ArchSet
  <2>. QED  BY <1>3, <2>1
<1>5. ArchOnly(w, v, a)
  BY <1>2, <1>3, <1>4 DEF ArchOnly
<1>6. ListOK(v) /\ RowsOK(v) /\ QueueOK(v) /\ Agree(v, NoRow, {})
  BY <1>1, <1>5, ArchOnlyKeeps, ArchOnlyAgrees
<1>7. RoomOK(v)
  <2>1. \A c \in Chunks : Len(v.chunk[c].rows) >= Len(w.chunk[c].rows)
    BY <1>1, <1>2, RowsOfChunk
  <2>. QED  BY <1>1, <1>2, <1>4, <2>1, RoomStays
<1>8. EmptyOK(v, {})
  BY <1>1, <1>2 DEF EmptyOK
<1>. QED  BY <1>2, <1>3, <1>6, <1>7, <1>8 DEF StorageOK, BaseOK, v

(* World::set_max_lifespan: the archetype has an entity and need not die.  *)
LEMMA SetLifespanStep ==
  ASSUME IInv, NEW e \in Entities, NEW n, SetLifespan(e, n)
  PROVE  IInv' /\ Still
<1> DEFINE a == rec[e].arch
           k == [arch[a] EXCEPT !.max = n]
           w == [World EXCEPT !.arch[a].max = n]
<1>1. StorageOK(World) /\ World \in Worlds /\ IsValid(World, e)
  BY ValidHere DEF SetLifespan, IInv, StorageOK, BaseOK
<1>2. a \in Archetypes /\ arch[a].live /\ ~arch[a].req /\ arch[a].list # <<>>
  BY Zenon, <1>1, RowHere
<1>3. n \in Nat /\ n \in Lifespans[a]
  BY <1>2, StorageAssumption DEF SetLifespan
<1>4. w = PutArch(World, a, k)
  BY WorldParts DEF PutArch
<1>5. /\ k \in ArchSet /\ k.live = arch[a].live /\ k.list = arch[a].list /\ k.free = arch[a].free
      /\ k.req = arch[a].req /\ k.life = arch[a].life /\ k.max = n
  <2>1. arch[a] \in ArchSet
    BY <1>1, <1>2, ArchFields, WorldParts
  <2>. QED  BY <1>3, <2>1 DEF ArchSet
<1>s. IF arch[a].max = 0 THEN EnqueueArch(w, a) ELSE Becomes(w) /\ UNCHANGED doomed
  BY DEF SetLifespan
<1> HIDE DEF a, k, w
<1>6. /\ StorageOK(w) /\ w.rec = rec /\ w.arch[a] = k /\ \A b \in Archetypes : b # a => w.arch[b] = arch[b]
  <2>1. /\ World.arch[a].live /\ k.live /\ k.list = World.arch[a].list
        /\ k.free = World.arch[a].free /\ k.req = World.arch[a].req
    BY <1>2, <1>5, WorldParts
  <2>2. LET v == PutArch(World, a, k)
        IN /\ StorageOK(v) /\ v.chunk = World.chunk /\ v.rec = World.rec /\ v.queue = World.queue
           /\ v.arch[a] = k /\ \A b \in Archetypes : b # a => v.arch[b] = World.arch[b]
    BY <1>1, <1>2, <1>5, <2>1, ArchReset
  <2>. QED  BY <1>4, <2>2, WorldParts
<1>7. ~ReadyToDie(w.arch[a])
  BY <1>2, <1>5, <1>6 DEF ReadyToDie
<1>8. Becomes(w) /\ UNCHANGED doomed
  BY <1>s, <1>7 DEF EnqueueArch
<1>9. World' = w /\ arch' = w.arch
  BY <1>6, <1>8, Become DEF StorageOK, BaseOK, Becomes
<1>10. ASSUME NEW b \in Archetypes
       PROVE  /\ arch'[b].req = arch[b].req /\ arch'[b].life = arch[b].life
              /\ arch[b].live => arch'[b].live
              /\ arch'[b].max \in Lifespans[b] \cup {0, 1}
              /\ arch[b].req => arch'[b].max = arch[b].max /\ arch'[b].list = arch[b].list
              /\ arch'[b].live /\ arch'[b].list = <<>> /\ arch'[b].max > 0 =>
                   arch[b].live /\ arch[b].list = <<>> /\ arch[b].max > 0
  <2>1. arch[b].max \in Lifespans[b] \cup {0, 1}
    BY DEF IInv, LoopsOK
  <2>2. CASE b = a
    BY <1>2, <1>3, <1>5, <1>6, <1>9, <2>2
  <2>3. CASE b # a
    BY <1>6, <1>9, <2>1, <2>3
  <2>. QED  BY <2>2, <2>3
<1>11. Still
  <2>1. rec' = rec
    BY <1>6, <1>8 DEF Becomes
  <2>. QED  BY <1>1, <1>10, <2>1, NoneMoved
<1>. QED  BY <1>6, <1>8, <1>9, <1>10, <1>11, IdleStep DEF SetLifespan

(* Another row in a chunk.                                                 *)
SetRow(w, c, i, y) == [w EXCEPT !.chunk[c].rows[i] = y]

(* Worlds that differ in row i of chunk c.                                 *)
RowOnly(w, v, c, i, y) ==
  /\ v.arch = w.arch /\ v.rec = w.rec /\ v.queue = w.queue
  /\ \A d \in Chunks : v.chunk[d].live = w.chunk[d].live
  /\ \A d \in Chunks : Len(v.chunk[d].rows) = Len(w.chunk[d].rows)
  /\ \A d \in Chunks : \A j \in 1..Len(w.chunk[d].rows) :
       v.chunk[d].rows[j] = IF d = c /\ j = i THEN y ELSE w.chunk[d].rows[j]
  /\ v.chunk = [w.chunk EXCEPT ![c].rows[i] = y]

(* Writing one row of a chunk leaves everything but the agreement of rows  *)
(* and records.                                                            *)
LEMMA RowSet ==
  ASSUME NEW w, BaseOK(w), EmptyOK(w, {}), NEW c \in Chunks, w.chunk[c].live,
         NEW i \in 1..Len(w.chunk[c].rows), NEW y \in RawRows
  PROVE  LET v == SetRow(w, c, i, y)
         IN BaseOK(v) /\ EmptyOK(v, {}) /\ RowOnly(w, v, c, i, y)
<1> DEFINE r == w.chunk[c].rows
           n == Len(r)
           R == [r EXCEPT ![i] = y]
           K == [w.chunk[c] EXCEPT !.rows = R]
           v == SetRow(w, c, i, y)
<1>0. w \in Worlds /\ RowsOK(w)
  BY DEF BaseOK
<1>1. r \in Seq(RawRows) /\ n \in Nat
  BY <1>0, RowsOfChunk
<1>2. R \in Seq(RawRows) /\ Len(R) = n /\ \A j \in 1..n : R[j] = IF j = i THEN y ELSE r[j]
  BY <1>1, ExceptSeq
<1>3. v = PutChunk(w, c, K) /\ v.chunk = [w.chunk EXCEPT ![c].rows[i] = y]
  <2>1. v = PutChunk(w, c, K)
    BY DEF SetRow, PutChunk
  <2>2. v.chunk = [w.chunk EXCEPT ![c] = K]
    <3> HIDE DEF K
    <3>. QED  BY <1>0, <2>1, Parts DEF PutChunk
  <2>. QED  BY <2>1, <2>2
<1>4. /\ K \in ChunkSet /\ K.rows = R /\ K.first = w.chunk[c].first /\ K.enabled = w.chunk[c].enabled
      /\ K.live = w.chunk[c].live /\ K.idx = w.chunk[c].idx /\ K.life = w.chunk[c].life
      /\ K.slot = w.chunk[c].slot
  <2>1. w.chunk[c] \in ChunkSet
    BY <1>0, Parts
  <2> HIDE DEF R
  <2>. QED  BY <1>2, <2>1, RowsOfChunkPut
<1> HIDE DEF R, K, v
<1>5. /\ v \in Worlds /\ v.arch = w.arch /\ v.rec = w.rec /\ v.queue = w.queue
      /\ v.chunk = [w.chunk EXCEPT ![c] = K]
  BY <1>0, <1>3, <1>4, ChunkPut
<1>6. v.chunk[c] = K /\ \A d \in Chunks : d # c => v.chunk[d] = w.chunk[d]
  BY <1>0, <1>5, Parts
<1>7. RowsOnly(w, v, c)
  BY <1>4, <1>5, <1>6 DEF RowsOnly
<1>8. RowsOK(v)
  <2>1. /\ v.chunk[c].first <= Len(v.chunk[c].rows) /\ Len(v.chunk[c].rows) <= Capacity[c[1]]
        /\ v.chunk[c].enabled < CountMax
    BY <1>0, <1>2, <1>4, <1>6 DEF RowsOK
  <2>. QED  BY <1>0, <1>7, <2>1, RowsStayOK
<1>9. Len(v.chunk[c].rows) >= Len(w.chunk[c].rows)
  BY <1>1, <1>2, <1>4, <1>6
<1>10. BaseOK(v) /\ EmptyOK(v, {})
  BY <1>7, <1>8, <1>9, RowsOnlyStays
<1>11. ASSUME NEW d \in Chunks
       PROVE  /\ v.chunk[d].live = w.chunk[d].live /\ Len(v.chunk[d].rows) = Len(w.chunk[d].rows)
              /\ \A j \in 1..Len(w.chunk[d].rows) :
                   v.chunk[d].rows[j] = IF d = c /\ j = i THEN y ELSE w.chunk[d].rows[j]
  <2>1. CASE d = c
    BY <1>2, <1>4, <1>6, <2>1
  <2>2. CASE d # c
    BY <1>6, <2>2
  <2>. QED  BY <2>1, <2>2
<1>. QED  BY <1>3, <1>5, <1>10, <1>11 DEF v, RowOnly

(* The record of an entity whose row another one takes.                    *)
GiveRow(p, c, i) == [p EXCEPT !.chunk = c, !.row = i]

(* Giving a record a chunk and a row leaves its archetype.                 *)
LEMMA RowGiven ==
  ASSUME NEW p \in RecordSet, NEW c \in Chunks, NEW i \in Nat
  PROVE  LET t == GiveRow(p, c, i)
         IN t \in RecordSet /\ t.arch = p.arch /\ t.chunk = c /\ t.row = i
BY DEF RecordSet, GiveRow

(* Archetype::sort_entities.                                               *)
LEMMA SortStep ==
  ASSUME IInv, SortDrifted = FALSE, NEW e \in Entities, NEW f \in Entities, Sort(e, f)
  PROVE  IInv' /\ Still
<1> DEFINE p == rec[e]
           q == rec[f]
           x == chunk[p.chunk].rows[p.row]
           y == chunk[q.chunk].rows[q.row]
           P == GiveRow(p, q.chunk, q.row)
           Q == GiveRow(q, p.chunk, p.row)
           u == SetRow(World, p.chunk, p.row, y)
           v == SetRow(u, q.chunk, q.row, x)
           s == PutRecord(v, e, P)
           t == PutRecord(s, f, Q)
<1>1. StorageOK(World) /\ BaseOK(World) /\ World \in Worlds /\ EmptyOK(World, {})
      /\ Agree(World, NoRow, {})
  BY DEF IInv, StorageOK, BaseOK
<1>2. e # f /\ p.arch = q.arch /\ IsValid(World, e) /\ IsValid(World, f)
  <2>1. e # f /\ q.arch = p.arch /\ Valid(e)
    BY Zenon DEF Sort
  <2>2. Valid(f)
    BY Zenon, <2>1 DEF Valid
  <2>. QED  BY Zenon, <2>1, <2>2, ValidHere
<1>3. /\ p.chunk \in Chunks /\ p.row \in 1..Len(chunk[p.chunk].rows) /\ p.row \in Nat
      /\ p.chunk[1] = p.arch /\ chunk[p.chunk].live /\ x.ent = e
  BY Zenon, <1>1, <1>2, RowHere
<1>4. /\ q.chunk \in Chunks /\ q.row \in 1..Len(chunk[q.chunk].rows) /\ q.row \in Nat
      /\ q.chunk[1] = q.arch /\ chunk[q.chunk].live /\ y.ent = f
  BY Zenon, <1>1, <1>2, RowHere
<1>5. p \in RecordSet /\ q \in RecordSet
  BY <1>1, Parts, WorldParts
<1>a. /\ arch' = arch /\ queue' = queue
      /\ chunk' = [chunk EXCEPT ![p.chunk].rows[p.row] = y, ![q.chunk].rows[q.row] = x]
      /\ rec' = [rec EXCEPT ![e] = P, ![f] = Q]
  BY Zenon DEF Sort, GiveRow
<1>6. x \in RawRows /\ y \in RawRows /\ x.val = e /\ y.val = f
  <2>1. \A c \in Chunks : \A j \in 1..Len(chunk[c].rows) : chunk[c].rows[j] \in RawRows
    BY <1>1, RowsOfChunk, WorldParts
  <2>2. \A c \in Chunks : \A j \in 1..Len(chunk[c].rows) : chunk[c].rows[j].val = chunk[c].rows[j].ent
    BY <1>1, NoRowInChunk, WorldParts DEF Agree, RowsNamed
  <2>. QED  BY Zenon, <1>3, <1>4, <2>1, <2>2
<1>7. /\ P \in RecordSet /\ P.arch = p.arch /\ P.chunk = q.chunk /\ P.row = q.row
      /\ Q \in RecordSet /\ Q.arch = q.arch /\ Q.chunk = p.chunk /\ Q.row = p.row
  <2> HIDE DEF p, q
  <2>1. LET z == GiveRow(p, q.chunk, q.row)
        IN z \in RecordSet /\ z.arch = p.arch /\ z.chunk = q.chunk /\ z.row = q.row
    BY <1>4, <1>5, RowGiven
  <2>2. LET z == GiveRow(q, p.chunk, p.row)
        IN z \in RecordSet /\ z.arch = q.arch /\ z.chunk = p.chunk /\ z.row = p.row
    BY <1>3, <1>5, RowGiven
  <2>. QED  BY <2>1, <2>2
<1> HIDE DEF x, y, P, Q
<1>8. /\ BaseOK(u) /\ EmptyOK(u, {}) /\ u.arch = arch /\ u.rec = rec /\ u.queue = queue
      /\ \A d \in Chunks : u.chunk[d].live = chunk[d].live
      /\ \A d \in Chunks : Len(u.chunk[d].rows) = Len(chunk[d].rows)
      /\ \A d \in Chunks : \A j \in 1..Len(chunk[d].rows) :
           u.chunk[d].rows[j] = IF d = p.chunk /\ j = p.row THEN y ELSE chunk[d].rows[j]
      /\ u.chunk = [chunk EXCEPT ![p.chunk].rows[p.row] = y]
  <2>1. World.chunk[p.chunk].live /\ p.row \in 1..Len(World.chunk[p.chunk].rows)
    BY <1>3, WorldParts
  <2> HIDE DEF p
  <2>2. BaseOK(u) /\ EmptyOK(u, {}) /\ RowOnly(World, u, p.chunk, p.row, y)
    BY <1>1, <1>3, <1>6, <2>1, RowSet
  <2> HIDE DEF u
  <2>. QED  BY <2>2, WorldParts DEF RowOnly
<1> HIDE DEF u
<1>9. /\ BaseOK(v) /\ EmptyOK(v, {}) /\ v.arch = u.arch /\ v.rec = u.rec /\ v.queue = u.queue
      /\ \A d \in Chunks : Len(v.chunk[d].rows) = Len(u.chunk[d].rows)
      /\ \A d \in Chunks : \A j \in 1..Len(u.chunk[d].rows) :
           v.chunk[d].rows[j] = IF d = q.chunk /\ j = q.row THEN x ELSE u.chunk[d].rows[j]
      /\ v.chunk = [u.chunk EXCEPT ![q.chunk].rows[q.row] = x]
  <2> HIDE DEF q
  <2>1. u.chunk[q.chunk].live /\ q.row \in 1..Len(u.chunk[q.chunk].rows)
    BY <1>4, <1>8
  <2>2. BaseOK(v) /\ EmptyOK(v, {}) /\ RowOnly(u, v, q.chunk, q.row, x)
    BY Zenon, <1>4, <1>6, <1>8, <2>1, RowSet
  <2> HIDE DEF v
  <2>. QED  BY <2>2 DEF RowOnly
<1> HIDE DEF v
<1>10. /\ s \in Worlds /\ s.arch = v.arch /\ s.chunk = v.chunk /\ s.queue = v.queue
       /\ s.rec = [v.rec EXCEPT ![e] = P]
  BY <1>7, <1>9, RecordPut DEF BaseOK
<1> HIDE DEF s
<1>11. /\ t \in Worlds /\ t.arch = s.arch /\ t.chunk = s.chunk /\ t.queue = s.queue
       /\ t.rec = [s.rec EXCEPT ![f] = Q]
  BY <1>7, <1>10, RecordPut
<1> HIDE DEF t
<1>12. BaseOK(t) /\ EmptyOK(t, {})
  <2>1. BaseOK(s) /\ EmptyOK(s, {})
    BY <1>9, <1>10, OnlyRecords
  <2>. QED  BY <2>1, <1>10, <1>11, OnlyRecords
<1>13. t.rec[e] = P /\ t.rec[f] = Q /\ \A g \in Entities : g # e /\ g # f => t.rec[g] = rec[g]
  <2>1. rec \in [Entities -> RecordSet]
    BY <1>1, Parts, WorldParts
  <2>2. v.rec = rec
    BY Zenon, <1>8, <1>9
  <2>3. s.rec = [rec EXCEPT ![e] = P]
    BY <2>2, <1>10
  <2>4. s.rec[e] = P /\ \A g \in Entities : g # e => s.rec[g] = rec[g]
    BY <2>1, <2>3
  <2>5. DOMAIN s.rec = Entities
    BY <2>1, <2>3
  <2>. QED  BY <1>2, <1>11, <2>4, <2>5
<1> HIDE DEF p, q
<1>14. /\ \A d \in Chunks : Len(t.chunk[d].rows) = Len(chunk[d].rows)
       /\ \A d \in Chunks : \A j \in 1..Len(chunk[d].rows) :
            t.chunk[d].rows[j] = IF d = q.chunk /\ j = q.row THEN x
                                 ELSE IF d = p.chunk /\ j = p.row THEN y ELSE chunk[d].rows[j]
  <2>1. t.chunk = v.chunk
    BY <1>10, <1>11
  <2> SUFFICES ASSUME NEW d \in Chunks
               PROVE  /\ Len(v.chunk[d].rows) = Len(chunk[d].rows)
                      /\ \A j \in 1..Len(chunk[d].rows) :
                           v.chunk[d].rows[j] = IF d = q.chunk /\ j = q.row THEN x
                                                ELSE IF d = p.chunk /\ j = p.row THEN y ELSE chunk[d].rows[j]
    BY <2>1
  <2>2. Len(v.chunk[d].rows) = Len(u.chunk[d].rows) /\ Len(u.chunk[d].rows) = Len(chunk[d].rows)
    BY Zenon, <1>8, <1>9
  <2>3. \A j \in 1..Len(chunk[d].rows) :
          /\ u.chunk[d].rows[j] = IF d = p.chunk /\ j = p.row THEN y ELSE chunk[d].rows[j]
          /\ v.chunk[d].rows[j] = IF d = q.chunk /\ j = q.row THEN x ELSE u.chunk[d].rows[j]
    <3> SUFFICES ASSUME NEW j \in 1..Len(chunk[d].rows)
                 PROVE  /\ u.chunk[d].rows[j] = IF d = p.chunk /\ j = p.row THEN y ELSE chunk[d].rows[j]
                        /\ v.chunk[d].rows[j] = IF d = q.chunk /\ j = q.row THEN x ELSE u.chunk[d].rows[j]
      OBVIOUS
    <3>1. u.chunk[d].rows[j] = IF d = p.chunk /\ j = p.row THEN y ELSE chunk[d].rows[j]
      BY <1>8
    <3>2. j \in 1..Len(u.chunk[d].rows)
      BY <2>2
    <3>3. v.chunk[d].rows[j] = IF d = q.chunk /\ j = q.row THEN x ELSE u.chunk[d].rows[j]
      BY <1>9, <3>2
    <3>. QED  BY <3>1, <3>3
  <2>. QED  BY <2>2, <2>3
<1>15. RowsNamed(t, NoRow, {})
  <2> SUFFICES ASSUME NEW d \in Chunks, NEW m \in 1..Len(t.chunk[d].rows), <<d, m>> # NoRow
               PROVE  LET r == t.chunk[d].rows[m]
                      IN r.val = r.ent /\ r.ent \notin {} /\ NamedBy(t.rec[r.ent], d, m)
    BY DEF RowsNamed
  <2>1. m \in 1..Len(chunk[d].rows)
    BY <1>14
  <2>2. CASE d = q.chunk /\ m = q.row
    <3>1. t.chunk[d].rows[m] = x
      BY <1>14, <2>1, <2>2
    <3>2. NamedBy(P, d, m)
      BY <2>2, <1>2, <1>4, <1>7 DEF NamedBy
    <3>. QED  BY <3>1, <3>2, <1>3, <1>6, <1>13
  <2>3. CASE d = p.chunk /\ m = p.row /\ ~(d = q.chunk /\ m = q.row)
    <3>1. t.chunk[d].rows[m] = y
      BY <1>14, <2>1, <2>3
    <3>2. NamedBy(Q, d, m)
      BY <2>3, <1>2, <1>3, <1>7 DEF NamedBy
    <3>. QED  BY <3>1, <3>2, <1>4, <1>6, <1>13
  <2>4. CASE ~(d = p.chunk /\ m = p.row) /\ ~(d = q.chunk /\ m = q.row)
    <3> DEFINE r == chunk[d].rows[m]
    <3>1. r.val = r.ent /\ NamedBy(rec[r.ent], d, m) /\ r.ent \in Entities
      BY <1>1, <2>1, RowsOfChunk, WorldParts DEF Agree, RowsNamed
    <3>2. t.chunk[d].rows[m] = r
      BY <1>14, <2>1, <2>4
    <3> HIDE DEF r
    <3>3. r.ent # e /\ r.ent # f
      BY <2>4, <3>1 DEF NamedBy, p, q
    <3>. QED  BY <3>1, <3>2, <3>3, <1>13
  <2>. QED  BY Zenon, <2>2, <2>3, <2>4
<1>16. ASSUME NEW g \in Entities \ {}, IsValid(t, g)
       PROVE  HasRow(t, g)
  <2>1. CASE g = e
    <3>1. t.chunk[q.chunk].rows[q.row] = x
      BY <1>4, <1>14
    <3>2. /\ t.rec[g].chunk = q.chunk /\ t.rec[g].row = q.row
          /\ t.rec[g].arch = q.chunk[1]
      BY Zenon, <2>1, <1>2, <1>4, <1>7, <1>13
    <3>3. q.row \in 1..Len(t.chunk[q.chunk].rows)
      BY Zenon, <1>4, <1>14
    <3>. QED  BY Zenon, <2>1, <3>1, <3>2, <3>3, <1>3, <1>4 DEF HasRow
  <2>2. CASE g = f
    <3>1. ~(p.chunk = q.chunk /\ p.row = q.row)
      BY <1>2, <1>3, <1>4 DEF x, y
    <3>2. t.chunk[p.chunk].rows[p.row] = y
      BY <1>3, <1>14, <3>1
    <3>. QED  BY <2>2, <3>2, <1>2, <1>3, <1>4, <1>7, <1>13, <1>14 DEF HasRow
  <2>3. CASE g # e /\ g # f
    <3>1. t.rec[g] = rec[g] /\ t.arch = arch
      BY Zenon, <2>3, <1>8, <1>9, <1>10, <1>11, <1>13
    <3>2. HasRow(World, g)
      BY <1>1, <1>16, <3>1, WorldParts DEF Agree, IsValid
    <3> DEFINE c == rec[g].chunk
               m == rec[g].row
    <3>3. c \in Chunks /\ c[1] = rec[g].arch /\ m \in 1..Len(chunk[c].rows) /\ chunk[c].rows[m].ent = g
      BY <3>2, WorldParts DEF HasRow
    <3>4. ~(c = p.chunk /\ m = p.row) /\ ~(c = q.chunk /\ m = q.row)
      BY <2>3, <3>3, <1>3, <1>4 DEF x, y
    <3>5. t.chunk[c].rows[m].ent = g /\ m \in 1..Len(t.chunk[c].rows)
      <4> HIDE DEF c, m
      <4>. QED  BY <3>3, <3>4, <1>14
    <3>. QED  BY <3>1, <3>3, <3>5 DEF HasRow
  <2>. QED  BY <2>1, <2>2, <2>3
<1>17. StorageOK(t)
  BY <1>12, <1>15, <1>16 DEF StorageOK, Agree
<1>18. Becomes(t)
  <2>1. t.chunk = [[chunk EXCEPT ![p.chunk].rows[p.row] = y] EXCEPT ![q.chunk].rows[q.row] = x]
    BY Zenon, <1>8, <1>9, <1>10, <1>11
  <2>2. t.rec = [[rec EXCEPT ![e] = P] EXCEPT ![f] = Q]
    BY Zenon, <1>8, <1>9, <1>10, <1>11
  <2>3. t.chunk = chunk'
    BY Zenon, <1>a, <2>1
  <2>. QED  BY Zenon, <1>a, <2>2, <2>3, <1>8, <1>9, <1>10, <1>11 DEF Becomes
<1>19. World' = t
  BY <1>17, <1>18, Become DEF StorageOK, BaseOK
<1>20. Still
  <2>1. rec' = t.rec
    BY <1>18 DEF Becomes
  <2>2. P.arch = rec[e].arch /\ Q.arch = rec[f].arch
    BY <1>7 DEF p, q
  <2>3. \A g \in Entities : rec'[g].arch = rec[g].arch
    BY <1>13, <2>1, <2>2
  <2>. QED  BY <1>1, <1>a, <2>3, NoneMoved
<1>. QED  BY Zenon, <1>17, <1>19, <1>20, <1>a, IdleStep DEF Sort, IInv, LoopsOK

(* World::frame_cleanup, and what was requested for deletion before it.    *)
LEMMA FrameCleanupStep ==
  ASSUME IInv, DropImmortal = FALSE, NEW R \in SUBSET Dropped, FrameCleanup(R)
  PROVE  /\ IInv'
         /\ \A e \in Entities :
              PlaceIn(World', e) = IF PlaceIn(World, e) \in R THEN None ELSE PlaceIn(World, e)
<1>1. /\ World \in Worlds /\ ListOK(World) /\ RowsOK(World) /\ QueueOK(World) /\ RoomOK(World)
      /\ EmptyOK(World, {}) /\ Agree(World, NoRow, {})
  BY DEF IInv, StorageOK, BaseOK
<1>2. /\ arch \in [Archetypes -> ArchSet] /\ chunk \in [Chunks -> ChunkSet]
      /\ rec \in [Entities -> RecordSet] /\ queue \in Seq(EntrySet)
  BY <1>1, Parts, WorldParts
<1>3. /\ chunk' = chunk /\ rec' = rec /\ queue' = queue
      /\ arch' = [a \in Archetypes |-> IF a \in R THEN [arch[a] EXCEPT !.req = TRUE] ELSE arch[a]]
  BY DEF FrameCleanup
<1>4. arch' \in [Archetypes -> ArchSet]
  BY <1>2, <1>3 DEF ArchSet
<1>5. ASSUME NEW a \in Archetypes
      PROVE  /\ arch'[a].live = arch[a].live /\ arch'[a].list = arch[a].list
             /\ arch'[a].free = arch[a].free /\ arch'[a].life = arch[a].life
             /\ arch'[a].max = arch[a].max
             /\ a \in R => arch'[a].req
             /\ a \notin R => arch'[a] = arch[a]
  BY <1>2, <1>3 DEF ArchSet
<1>6. World' \in Worlds /\ World'.arch = arch' /\ World'.chunk = chunk /\ World'.rec = rec
      /\ World'.queue = queue
  BY <1>2, <1>3, <1>4 DEF World, Worlds
<1>7. ListOK(World') /\ RowsOK(World') /\ QueueOK(World')
  <2>1. \A a \in Archetypes : World'.arch[a].live \/ World'.arch[a] = NoArch
    <3> SUFFICES ASSUME NEW a \in Archetypes
                 PROVE  arch'[a].live \/ arch'[a] = NoArch
      BY <1>6
    <3>1. CASE a \in R
      BY <3>1, <1>5 DEF FrameCleanup
    <3>2. CASE a \notin R
      BY <3>2, <1>1, <1>5, WorldParts DEF ListOK
    <3>. QED  BY <3>1, <3>2
  <2>2. \A a \in Archetypes : World'.arch[a].list = World.arch[a].list
    BY <1>5, <1>6, WorldParts
  <2>. QED  BY <1>1, <1>6, <2>1, <2>2, WorldParts, ListsKept
<1>8. RoomOK(World')
  <2> SUFFICES ASSUME NEW a \in Archetypes, ~World'.arch[a].req
               PROVE  /\ World'.arch[a].free <= Len(World'.arch[a].list) + 1
                      /\ \A i \in 1..(World'.arch[a].free - 1) : Full(World', a, World'.arch[a].list[i])
    BY DEF RoomOK
  <2>1. a \notin R /\ arch'[a] = arch[a]
    BY <1>5, <1>6
  <2>2. \A d : Full(World', a, d) <=> Full(World, a, d)
    BY <1>6, WorldParts DEF Full
  <2>. QED  BY <1>1, <1>6, <2>1, <2>2, WorldParts DEF RoomOK
<1>9. Agree(World', NoRow, {})
  <2>1. RowsNamed(World', NoRow, {})
    BY <1>1, <1>6, WorldParts DEF Agree, RowsNamed
  <2>2. ASSUME NEW e \in Entities \ {}, IsValid(World', e)
        PROVE  HasRow(World', e)
    <3>1. rec[e].arch \in Archetypes /\ ~arch'[rec[e].arch].req
      BY <1>2, <1>6, <2>2 DEF IsValid, RecordSet
    <3>2. IsValid(World, e)
      BY <1>5, <1>6, <2>2, <3>1, WorldParts DEF IsValid
    <3>. QED  BY <1>1, <1>6, <3>2, WorldParts DEF Agree, HasRow
  <2>. QED  BY <2>1, <2>2 DEF Agree
<1>10. EmptyOK(World', {})
  BY <1>1, <1>6, WorldParts DEF EmptyOK
<1>11. LoopsOK'
  BY <1>5, StorageAssumption DEF FrameCleanup, IInv, LoopsOK, defrag
<1>12. DroppedOK'
  <2> SUFFICES ASSUME NEW a \in Archetypes, arch'[a].req
               PROVE  /\ arch'[a].max > 0
                      /\ arch'[a].list # <<>> => phase' = "finalize" /\ (a \in todo' \/ a = cur')
    BY DEF DroppedOK
  <2>1. CASE a \in R
    BY <1>5, <2>1 DEF FrameCleanup
  <2>2. CASE a \notin R
    BY <1>5, <2>2 DEF FrameCleanup, IInv, DroppedOK
  <2>. QED  BY <2>1, <2>2
<1>13. FinalizeOK'
  <2>1. cur' = None /\ raw' = <<>> /\ at' = 1 /\ todo' = R
    BY DEF FrameCleanup, IInv, LoopsOK
  <2>2. \A a \in R : a \in Archetypes
    BY StorageAssumption
  <2>. QED  BY <1>5, <2>1, <2>2 DEF FinalizeOK
<1>14. DefragOK'
  BY DEF FrameCleanup, DefragOK
<1>15. DoomedOK'
  <2>1. \A i \in 1..Len(doomed) : doomed[i] \in Archetypes
    BY ElementOfSeq DEF IInv, LoopsOK
  <2>2. \A i \in 1..Len(doomed) : ~Kept(i)
    BY DEF Kept, FrameCleanup
  <2>3. doomed' = doomed
    BY DEF FrameCleanup
  <2>4. \A i \in 1..Len(doomed') : arch'[doomed'[i]].live /\ arch'[doomed'[i]].life # 0
    BY <1>5, <2>1, <2>2, <2>3 DEF IInv, DoomedOK
  <2>. QED  BY <1>5, <2>3, <2>4 DEF IInv, DoomedOK
<1>16. ASSUME NEW e \in Entities
       PROVE  PlaceIn(World', e) = IF PlaceIn(World, e) \in R THEN None ELSE PlaceIn(World, e)
  <2>1. World'.rec[e] = rec[e] /\ rec[e].arch \in Archetypes \cup {None} /\ R \subseteq Archetypes
    BY <1>2, <1>6, StorageAssumption DEF RecordSet
  <2>2. CASE rec[e].arch = None
    BY <2>1, <2>2, WorldParts DEF PlaceIn, IsValid
  <2>3. CASE rec[e].arch \in Archetypes
    BY <1>5, <1>6, <2>1, <2>3, StorageAssumption, WorldParts DEF PlaceIn, IsValid
  <2>. QED  BY <2>1, <2>2, <2>3
<1>. QED  BY <1>16, <1>6, <1>7, <1>8, <1>9, <1>10, <1>11, <1>12, <1>13, <1>14, <1>15
          DEF IInv, StorageOK, BaseOK

-----------------------------------------------------------------------------
(* The archetypes that wait for their deletion                             *)

(* World::try_enqueue_archetype_for_deletion.                              *)
Enqueuing(v, a) ==
  /\ chunk' = v.chunk /\ rec' = v.rec /\ queue' = v.queue
  /\ \A b \in Archetypes : b # a => arch'[b] = v.arch[b]
  /\ arch'[a].live = v.arch[a].live /\ arch'[a].list = v.arch[a].list
  /\ arch'[a].req = v.arch[a].req /\ arch'[a].max = v.arch[a].max
  /\ IF ReadyToDie(v.arch[a])
     THEN arch'[a].life = v.arch[a].max /\ doomed' = Append(doomed, a)
     ELSE arch'[a].life = v.arch[a].life /\ doomed' = doomed

(* An archetype or a chunk with another countdown.                         *)
LifePut(k, n) == [k EXCEPT !.life = n]

(* Writing the countdown leaves the rest of an archetype.                  *)
LEMMA LifeOfArch ==
  ASSUME NEW k \in ArchSet, NEW n \in Nat
  PROVE  LET l == LifePut(k, n)
         IN /\ l \in ArchSet /\ l.live = k.live /\ l.list = k.list /\ l.free = k.free
            /\ l.req = k.req /\ l.max = k.max /\ l.life = n
BY DEF ArchSet, LifePut

(* World::try_enqueue_archetype_for_deletion: starting the countdown keeps *)
(* the storage right.                                                      *)
LEMMA ArchEnqueued ==
  ASSUME NEW v, StorageOK(v), NEW a \in Archetypes, v.arch[a].live, EnqueueArch(v, a)
  PROVE  StorageOK(World)' /\ Enqueuing(v, a)
<1>0. v \in Worlds
  BY DEF StorageOK, BaseOK
<1>1. CASE ReadyToDie(v.arch[a])
  <2> DEFINE k == LifePut(v.arch[a], v.arch[a].max)
             w == PutArch(v, a, k)
  <2>1. v.arch[a] \in ArchSet /\ v.arch[a].max \in Nat
    BY <1>0, ArchFields
  <2>2. /\ k \in ArchSet /\ k.live = v.arch[a].live /\ k.list = v.arch[a].list
        /\ k.free = v.arch[a].free /\ k.req = v.arch[a].req /\ k.max = v.arch[a].max
        /\ k.life = v.arch[a].max
    BY Zenon, <2>1, LifeOfArch
  <2>3. [v EXCEPT !.arch[a].life = v.arch[a].max] = w
    BY DEF PutArch, LifePut
  <2>4. Becomes([v EXCEPT !.arch[a].life = v.arch[a].max]) /\ doomed' = Append(doomed, a)
    BY <1>1 DEF EnqueueArch
  <2> HIDE DEF k, w
  <2>5. Becomes(w)
    BY <2>3, <2>4
  <2>8. k.live
    BY <2>2
  <2>9. LET u == PutArch(v, a, k)
        IN /\ StorageOK(u) /\ u.chunk = v.chunk /\ u.rec = v.rec /\ u.queue = v.queue
           /\ u.arch[a] = k /\ \A b \in Archetypes : b # a => u.arch[b] = v.arch[b]
    BY <2>2, <2>8, ArchReset
  <2>6. /\ StorageOK(w) /\ w.chunk = v.chunk /\ w.rec = v.rec /\ w.queue = v.queue
        /\ w.arch[a] = k /\ \A b \in Archetypes : b # a => w.arch[b] = v.arch[b]
    BY <2>9 DEF w
  <2>7. World' = w
    BY <2>5, <2>6, Become DEF StorageOK, BaseOK
  <2>. QED  BY <1>1, <2>2, <2>4, <2>5, <2>6, <2>7 DEF Becomes, Enqueuing
<1>2. CASE ~ReadyToDie(v.arch[a])
  <2>1. Becomes(v) /\ doomed' = doomed
    BY <1>2 DEF EnqueueArch
  <2>2. World' = v
    BY <1>0, <2>1, Become
  <2>. QED  BY <1>2, <2>1, <2>2 DEF Becomes, Enqueuing
<1>. QED  BY <1>1, <1>2

(* The same for the list of archetypes to delete: what it holds counts down*)
(* or may die.                                                             *)
LEMMA DoomedEnqueued ==
  ASSUME World \in Worlds, doomed \in Seq(Archetypes), DoomedOK,
         NEW v, NEW a \in Archetypes, arch[a].live, Enqueuing(v, a),
         \A b \in Archetypes :
           /\ v.arch[b].live = arch[b].live /\ v.arch[b].life = arch[b].life
           /\ v.arch[b].max = arch[b].max /\ (b # a => v.arch[b].list = arch[b].list),
         \A i \in 1..Len(doomed) : Kept(i) => Kept(i)' /\ (doomed[i] = a => v.arch[a].list # <<>>)
  PROVE  DoomedOK'
<1> DEFINE n == Len(doomed)
<1>1. n \in Nat /\ \A i \in 1..n : doomed[i] \in Archetypes
  BY LenProperties, ElementOfSeq
<1>2. \A b \in Archetypes : arch[b].life \in Nat
  BY ArchFields, WorldParts
<1>3. CASE ReadyToDie(v.arch[a])
  <2>1. /\ doomed' = Append(doomed, a) /\ arch'[a].live /\ arch'[a].life > 0
        /\ arch[a].life = 0 /\ v.arch[a].list = <<>>
    BY <1>3 DEF Enqueuing, ReadyToDie
  <2>2. Len(doomed') = n + 1 /\ doomed'[n + 1] = a /\ \A i \in 1..n : doomed'[i] = doomed[i]
    BY <2>1, AppendProperties
  <2>3. ASSUME NEW i \in 1..n
        PROVE  doomed[i] # a
    BY <2>1, <2>3 DEF DoomedOK
  <2>4. \A b \in Archetypes : b # a =>
          /\ arch'[b].live = arch[b].live /\ arch'[b].life = arch[b].life
          /\ arch'[b].list = arch[b].list /\ arch'[b].max = arch[b].max
    BY DEF Enqueuing
  <2> HIDE DEF n
  <2>5. \A i \in 1..Len(doomed') : i \in 1..n \/ i = n + 1
    BY <1>1, <2>2
  <2>6. \A i, j \in 1..Len(doomed') : doomed'[i] = doomed'[j] => i = j
    BY <2>2, <2>3, <2>5 DEF DoomedOK, n
  <2>7. ASSUME NEW i \in 1..Len(doomed')
        PROVE  arch'[doomed'[i]].live /\ (arch'[doomed'[i]].life = 0 => Kept(i)')
    <3>1. CASE i \in 1..n
      <4>1. doomed'[i] = doomed[i] /\ doomed[i] \in Archetypes /\ doomed[i] # a
        BY <1>1, <2>2, <2>3, <3>1
      <4>2. arch[doomed[i]].live /\ (arch[doomed[i]].life = 0 => Kept(i))
        BY <3>1 DEF DoomedOK, n
      <4>3. Kept(i) => Kept(i)'
        BY <3>1 DEF n
      <4>. QED  BY <2>4, <4>1, <4>2, <4>3
    <3>2. CASE i = n + 1
      BY <2>1, <2>2, <3>2
    <3>. QED  BY <2>5, <3>1, <3>2
  <2>8. ASSUME NEW b \in Archetypes,
               arch'[b].life > 0 \/ (arch'[b].live /\ arch'[b].list = <<>> /\ arch'[b].max > 0)
        PROVE  \E i \in 1..Len(doomed') : doomed'[i] = b
    <3>1. CASE b = a
      <4>1. n + 1 \in 1..Len(doomed')
        BY <1>1, <2>2
      <4>. QED  BY <2>2, <3>1, <4>1
    <3>2. CASE b # a
      <4>1. PICK i \in 1..n : doomed[i] = b
        BY <2>4, <2>8, <3>2 DEF DoomedOK, n
      <4>2. i \in 1..Len(doomed')
        BY <1>1, <2>2
      <4>. QED  BY <2>2, <4>1, <4>2
    <3>. QED  BY <3>1, <3>2
  <2>. QED  BY <2>6, <2>7, <2>8 DEF DoomedOK
<1>4. CASE ~ReadyToDie(v.arch[a])
  <2>1. doomed' = doomed
    BY <1>4 DEF Enqueuing
  <2>2. \A b \in Archetypes :
          /\ arch'[b].live = arch[b].live /\ arch'[b].life = arch[b].life
          /\ arch'[b].max = arch[b].max /\ (b # a => arch'[b].list = arch[b].list)
    BY <1>4 DEF Enqueuing
  <2>3. arch'[a].list = <<>> /\ arch'[a].max > 0 => arch[a].life # 0
    BY <1>4 DEF Enqueuing, ReadyToDie
  <2>4. ASSUME NEW i \in 1..n
        PROVE  arch'[doomed[i]].live /\ (arch'[doomed[i]].life = 0 => Kept(i)')
    <3>1. arch[doomed[i]].live /\ (arch[doomed[i]].life = 0 => Kept(i))
      BY DEF DoomedOK
    <3>. QED  BY <1>1, <2>2, <3>1
  <2>5. ASSUME NEW b \in Archetypes,
               arch'[b].life > 0 \/ (arch'[b].live /\ arch'[b].list = <<>> /\ arch'[b].max > 0)
        PROVE  \E i \in 1..n : doomed[i] = b
    <3>1. CASE b = a
      <4>1. arch[a].life > 0
        BY <1>2, <2>2, <2>3, <2>5, <3>1
      <4>. QED  BY <3>1, <4>1 DEF DoomedOK
    <3>2. CASE b # a
      BY <2>2, <2>5, <3>2 DEF DoomedOK
    <3>. QED  BY <3>1, <3>2
  <2>. QED  BY <2>1, <2>4, <2>5 DEF DoomedOK
<1>. QED  BY <1>3, <1>4

-----------------------------------------------------------------------------
(* The steps of the clean-up that leave the storage as it is               *)

(* A step that changes no archetype and takes no chunk in use away keeps   *)
(* that list right.                                                        *)
LEMMA DoomedStays ==
  ASSUME DoomedOK, doomed' = doomed, arch' = arch,
         \A i \in 1..Len(doomed) : Kept(i) => Kept(i)'
  PROVE  DoomedOK'
<1>1. \A i \in 1..Len(doomed') :
        arch'[doomed'[i]].live /\ (arch'[doomed'[i]].life = 0 => Kept(i)')
  BY DEF DoomedOK
<1>. QED  BY <1>1 DEF DoomedOK

(* What every such step leaves alone.                                      *)
LEMMA StorageStays ==
  ASSUME IInv, UNCHANGED <<storage, doomed>>
  PROVE  /\ StorageOK(World)' /\ doomed' \in Seq(Archetypes)
         /\ \A a \in Archetypes : arch'[a].max \in Lifespans[a] \cup {0, 1}
         /\ \A a \in Archetypes : arch'[a] = arch[a]
         /\ World' = World /\ World \in Worlds /\ arch' = arch /\ chunk' = chunk
         /\ Still
<1>1. World' = World
  BY WorldKept
<1>2. arch' = arch /\ chunk' = chunk /\ doomed' = doomed
  BY DEF storage
<1>3. Still
  BY <1>1 DEF Still
<1>. QED  BY <1>1, <1>2, <1>3 DEF IInv, LoopsOK, StorageOK, BaseOK

(* World::del_finalize_archetypes takes the next archetype.                *)
LEMMA FinalizeNextStep ==
  ASSUME IInv, FinalizeNext
  PROVE  IInv' /\ Still
<1>1. UNCHANGED <<storage, doomed>> /\ phase = "finalize" /\ at > Len(raw) /\ at' = 1
  BY DEF FinalizeNext
<1>2. /\ StorageOK(World)' /\ Still /\ doomed' \in Seq(Archetypes) /\ arch' = arch
      /\ \A a \in Archetypes : arch'[a].max \in Lifespans[a] \cup {0, 1}
      /\ World \in Worlds
  BY <1>1, StorageStays
<1>3. \A a \in Archetypes : arch[a].list \in Seq(Chunks) /\ Len(arch[a].list) \in Nat
  BY <1>2, ArchFields, WorldParts
<1>4. Len(raw) \in Nat /\ at \in Nat
  BY LenProperties DEF IInv, LoopsOK
<1>5. ASSUME NEW a \in Archetypes, arch[a].req, arch[a].list # <<>>
      PROVE  a \in todo
  <2>1. a \in todo \/ a = cur
    BY <1>5 DEF IInv, DroppedOK
  <2>2. a # None
    BY StorageAssumption
  <2>3. a = cur => Len(arch[cur].list) = Len(raw) - at + 1
    BY <1>1, <2>2 DEF IInv, FinalizeOK
  <2>4. Len(arch[a].list) # 0
    BY <1>3, <1>5, EmptySeq
  <2>. QED  BY <1>1, <1>3, <1>4, <2>1, <2>3, <2>4
<1>6. DoomedOK'
  <2>1. \A i \in 1..Len(doomed) : ~Kept(i)
    BY <1>1 DEF Kept
  <2>. QED  BY <1>1, <1>2, <2>1, DoomedStays DEF IInv
<1>7. CASE \E a \in todo : cur' = a /\ raw' = arch[a].list /\ todo' = todo \ {a} /\ UNCHANGED phase
  <2>1. PICK a \in todo : cur' = a /\ raw' = arch[a].list /\ todo' = todo \ {a} /\ phase' = phase
    BY <1>7
  <2>2. a \in Archetypes /\ todo \subseteq Archetypes /\ \A b \in todo : arch[b].req
    BY <1>1 DEF IInv, LoopsOK, FinalizeOK
  <2>3. LoopsOK'
    BY <1>1, <1>2, <1>3, <2>1, <2>2 DEF FinalizeNext, IInv, LoopsOK
  <2>4. DroppedOK'
    BY <1>1, <1>2, <1>5, <2>1 DEF IInv, DroppedOK
  <2>5. FinalizeOK'
    <3>1. a # None /\ arch'[a].req /\ \A b \in todo' : arch'[b].req
      BY <1>2, <2>1, <2>2, StorageAssumption
    <3>2. /\ Len(arch'[cur'].list) = Len(raw') - at' + 1
          /\ \A j \in 1..Len(arch'[cur'].list) : raw'[j] = arch'[cur'].list[j]
          /\ \A j \in at'..Len(raw') : ~(j > Len(arch'[cur'].list))
      BY <1>1, <1>2, <1>3, <2>1, <2>2
    <3>. QED  BY <2>1, <3>1, <3>2 DEF FinalizeOK
  <2>6. DefragOK'
    BY <1>1, <2>1 DEF DefragOK
  <2>. QED  BY <1>2, <1>6, <2>3, <2>4, <2>5, <2>6 DEF IInv
<1>8. CASE todo = {} /\ phase' = "chunks" /\ raw' = <<>> /\ cur' = None /\ UNCHANGED todo
  <2>1. LoopsOK'
    BY <1>1, <1>2, <1>8 DEF FinalizeNext, IInv, LoopsOK
  <2>2. DroppedOK'
    BY <1>2, <1>5, <1>8 DEF IInv, DroppedOK
  <2>3. FinalizeOK' /\ DefragOK'
    BY <1>8 DEF FinalizeOK, DefragOK
  <2>. QED  BY <1>2, <1>6, <2>1, <2>2, <2>3 DEF IInv
<1>. QED  BY <1>2, <1>7, <1>8 DEF FinalizeNext

(* No archetype that is dropped has chunks once they are finalized.        *)
LEMMA DroppedStays ==
  ASSUME IInv, phase # "finalize", arch' = arch
  PROVE  DroppedOK'
BY DEF IInv, DroppedOK

(* The end of the loop over the queue of chunks in World::del_empty_chunks.*)
LEMMA EndChunksStep ==
  ASSUME IInv, EndChunks
  PROVE  IInv' /\ Still
<1>1. /\ UNCHANGED <<storage, doomed>> /\ phase = "chunks" /\ at' = 1
      /\ phase' \in {"defrag", "archetypes"}
      /\ moves' \in 0..Moves /\ todo' \subseteq Archetypes
      /\ raw' = raw /\ cur' = cur /\ front' = front /\ back' = back
  BY StorageAssumption DEF EndChunks, IInv, LoopsOK
<1>2. /\ StorageOK(World)' /\ Still /\ doomed' \in Seq(Archetypes) /\ arch' = arch /\ chunk' = chunk
      /\ \A a \in Archetypes : arch'[a].max \in Lifespans[a] \cup {0, 1}
      /\ World \in Worlds
  BY <1>1, StorageStays
<1>3. LoopsOK'
  BY <1>1, <1>2 DEF IInv, LoopsOK
<1>4. DroppedOK'
  BY <1>1, <1>2, DroppedStays
<1>5. FinalizeOK' /\ DefragOK'
  <2>1. ~(front' < back')
    BY <1>1 DEF IInv, LoopsOK
  <2>. QED  BY <1>1, <2>1 DEF FinalizeOK, DefragOK
<1>6. ASSUME NEW i \in 1..Len(doomed), Kept(i)
      PROVE  Kept(i)'
  <2>1. PICK c \in Chunks : c[1] = doomed[i] /\ chunk[c].rows # <<>>
    BY <1>1, <1>6 DEF Kept
  <2>2. Len(World.chunk[c].rows) # 0
    BY <1>2, <2>1, RowsOfChunk, EmptySeq, WorldParts
  <2>3. World.chunk[c].live
    BY <1>2, <2>2, RowsLive DEF IInv, StorageOK, BaseOK
  <2>4. World.chunk[c].idx \in 1..Len(World.arch[c[1]].list)
    BY <1>2, <2>3, ChunkListed DEF IInv, StorageOK, BaseOK
  <2>5. arch[doomed[i]].list # <<>>
    BY <1>2, <2>1, <2>4, WorldParts
  <2>. QED  BY <1>1, <1>2, <2>5 DEF Kept
<1>7. DoomedOK'
  BY <1>1, <1>2, <1>6, DoomedStays DEF IInv
<1>. QED  BY <1>2, <1>3, <1>4, <1>5, <1>7 DEF IInv

(* A chunk that is semi-full has room for a row.                           *)
LEMMA SemiHasRoom ==
  ASSUME NEW w \in Worlds, NEW a \in Archetypes, NEW i \in 1..Len(w.arch[a].list),
         Semi(w, a, i)
  PROVE  ~Full(w, a, w.arch[a].list[i])
<1>1. w.arch[a].list[i] \in Chunks
  BY ArchFields
<1>2. Len(w.chunk[w.arch[a].list[i]].rows) \in Nat
  BY <1>1, RowsOfChunk
<1>3. Capacity[a] \in Nat /\ Capacity[a] > 0
  BY StorageAssumption
<1> DEFINE n == Len(w.chunk[w.arch[a].list[i]].rows)
           m == Capacity[a]
<1>4. 4 * n < 3 * m
  BY DEF Semi
<1>5. n < m
  <2>1. n \in Nat /\ m \in Nat /\ m > 0
    BY <1>2, <1>3
  <2> HIDE DEF n, m
  <2>. QED  BY <1>4, <2>1
<1>6. ~(n >= m)
  BY <1>2, <1>3, <1>5
<1>. QED  BY <1>6 DEF Full

(* World::defrag_entities chooses the chunks of an archetype to move       *)
(* between.                                                                *)
LEMMA DefragArchStep ==
  ASSUME IInv, NEW a \in Archetypes, DefragArch(a)
  PROVE  IInv' /\ Still
<1> DEFINE n == Len(arch[a].list)
           S == {i \in 1..n : Semi(World, a, i)} \cup {n}
           f == Min(S)
           T == {i \in f..n : Semi(World, a, i) /\ ~Empty(World, a, i)} \cup {f}
<1>1. /\ UNCHANGED <<storage, doomed>> /\ phase = "defrag" /\ phase' = "defrag"
      /\ todo' = todo \ {a} /\ cur' = a /\ front' = f /\ back' = Max(T)
      /\ at' = at /\ raw' = raw /\ moves' = moves
  BY DEF DefragArch
<1>2. /\ StorageOK(World)' /\ Still /\ doomed' \in Seq(Archetypes) /\ arch' = arch /\ chunk' = chunk
      /\ \A b \in Archetypes : arch'[b].max \in Lifespans[b] \cup {0, 1}
      /\ World \in Worlds /\ World' = World
  BY <1>1, StorageStays
<1>3. n \in Nat
  BY <1>2, ArchFields, WorldParts
<1> HIDE DEF n
<1>4. S \in SUBSET Nat /\ S # {} /\ \A i \in S : i <= n
  BY <1>3
<1>5. f \in S
  <2> HIDE DEF S
  <2>. QED  BY <1>4, LeastOf
<1>6. f \in Nat /\ f <= n
  BY <1>4, <1>5
<1> HIDE DEF f
<1>7. T \in SUBSET (0..n) /\ T # {}
  BY <1>3, <1>6
<1>8. Max(T) \in T
  <2> HIDE DEF T
  <2>. QED  BY <1>3, <1>7, GreatestOf
<1>9. Max(T) \in Nat /\ Max(T) <= n
  BY <1>3, <1>7, <1>8
<1>10. LoopsOK'
  BY <1>1, <1>2, <1>6, <1>9 DEF IInv, LoopsOK
<1>11. DroppedOK'
  BY <1>1, <1>2, DroppedStays
<1>12. FinalizeOK'
  BY <1>1 DEF FinalizeOK
<1>13. DefragOK'
  <2> SUFFICES ASSUME f < Max(T)
               PROVE  /\ a \in Archetypes /\ f > 0 /\ Max(T) <= n
                      /\ ~Full(World, a, arch[a].list[f])
    BY <1>1, <1>2 DEF DefragOK, n
  <2> HIDE DEF T
  <2>1. f # n
    BY <1>3, <1>6, <1>9
  <2>2. f \in 1..n /\ Semi(World, a, f)
    BY <1>5, <2>1
  <2>3. f > 0
    BY <1>3, <2>2
  <2>. QED  BY <1>2, <1>9, <2>2, <2>3, SemiHasRoom, WorldParts DEF n
<1>14. ASSUME NEW i \in 1..Len(doomed), Kept(i)
       PROVE  Kept(i)'
  BY <1>1, <1>2, <1>14 DEF Kept
<1>15. DoomedOK'
  BY <1>1, <1>2, <1>14, DoomedStays DEF IInv
<1>. QED  BY <1>2, <1>10, <1>11, <1>12, <1>13, <1>15 DEF IInv

(* The end of World::defrag_entities.                                      *)
LEMMA EndDefragStep ==
  ASSUME IInv, EndDefrag
  PROVE  IInv' /\ Still
<1>1. /\ UNCHANGED <<storage, doomed>> /\ phase = "defrag" /\ phase' = "archetypes"
      /\ at' = at /\ raw' = raw /\ cur' = None /\ front' = 1 /\ back' = 1 /\ moves' = 0
      /\ todo' = {}
  BY DEF EndDefrag
<1>2. /\ StorageOK(World)' /\ Still /\ doomed' \in Seq(Archetypes) /\ arch' = arch /\ chunk' = chunk
      /\ \A a \in Archetypes : arch'[a].max \in Lifespans[a] \cup {0, 1}
  BY <1>1, StorageStays
<1>3. LoopsOK'
  BY <1>1, <1>2, StorageAssumption DEF IInv, LoopsOK
<1>4. DroppedOK'
  BY <1>1, <1>2, DroppedStays
<1>5. FinalizeOK' /\ DefragOK'
  BY <1>1 DEF FinalizeOK, DefragOK
<1>6. ASSUME NEW i \in 1..Len(doomed), Kept(i)
      PROVE  Kept(i)'
  <2>1. i >= at'
    BY <1>1 DEF IInv, LoopsOK
  <2>. QED  BY <1>1, <1>2, <1>6, <2>1 DEF Kept
<1>7. DoomedOK'
  BY <1>1, <1>2, <1>6, DoomedStays DEF IInv
<1>. QED  BY <1>2, <1>3, <1>4, <1>5, <1>7 DEF IInv

(* The end of the clean-up, after World::del_empty_archetypes.             *)
LEMMA EndCleanupStep ==
  ASSUME IInv, EndCleanup
  PROVE  IInv' /\ Still
<1>1. /\ UNCHANGED <<storage, doomed>> /\ phase = "archetypes" /\ phase' = "idle"
      /\ at > Len(doomed) /\ at' = 1 /\ raw' = raw /\ UNCHANGED defrag
  BY DEF EndCleanup
<1>2. /\ StorageOK(World)' /\ Still /\ doomed' \in Seq(Archetypes) /\ arch' = arch /\ chunk' = chunk
      /\ \A a \in Archetypes : arch'[a].max \in Lifespans[a] \cup {0, 1}
  BY <1>1, StorageStays
<1>3. LoopsOK'
  BY <1>1, <1>2 DEF IInv, LoopsOK, defrag
<1>4. DroppedOK'
  BY <1>1, <1>2, DroppedStays
<1>5. FinalizeOK' /\ DefragOK'
  BY <1>1 DEF FinalizeOK, DefragOK
<1>6. \A i \in 1..Len(doomed) : ~Kept(i)
  <2>1. at \in Nat /\ Len(doomed) \in Nat
    BY LenProperties DEF IInv, LoopsOK
  <2>. QED  BY <1>1, <2>1 DEF Kept
<1>7. DoomedOK'
  BY <1>1, <1>2, <1>6, DoomedStays DEF IInv
<1>. QED  BY <1>2, <1>3, <1>4, <1>5, <1>7 DEF IInv

-----------------------------------------------------------------------------
(* The loop over the archetypes that wait                                  *)

(* Its entry goes, and so does the reason why the archetype had one.       *)
LEMMA DoomedErased ==
  ASSUME DoomedOK, doomed \in Seq(Archetypes), phase = "archetypes", phase' = phase,
         at' = at, at \in 1..Len(doomed), doomed' = SwapErase(doomed, at),
         \A b \in Archetypes : b # doomed[at] => arch'[b] = arch[b],
         ~(arch'[doomed[at]].life > 0),
         ~(/\ arch'[doomed[at]].live /\ arch'[doomed[at]].list = <<>>
           /\ arch'[doomed[at]].max > 0)
  PROVE  DoomedOK'
<1> DEFINE n == Len(doomed)
           a == doomed[at]
           From(j) == IF j = at THEN n ELSE j
<1>1. n \in Nat /\ at \in 1..n /\ \A i \in 1..n : doomed[i] \in Archetypes
  BY LenProperties, ElementOfSeq
<1>2. Len(doomed') = n - 1 /\ \A j \in 1..(n - 1) : doomed'[j] = doomed[From(j)]
  BY <1>1, SwapErased
<1>3. \A i, j \in 1..n : doomed[i] = doomed[j] => i = j
  BY DEF DoomedOK
<1> HIDE DEF n, a
<1>4. \A j \in 1..(n - 1) : From(j) \in 1..n /\ From(j) # at /\ (From(j) >= at => j >= at)
  BY <1>1
<1>5. \A i, j \in 1..(n - 1) : From(i) = From(j) => i = j
  BY <1>1
<1>6. \A i \in 1..n : i # at => \E j \in 1..(n - 1) : From(j) = i
  <2> SUFFICES ASSUME NEW i \in 1..n, i # at
               PROVE  \E j \in 1..(n - 1) : From(j) = i
    OBVIOUS
  <2>1. CASE i = n
    <3>1. at \in 1..(n - 1) /\ From(at) = i
      BY <1>1, <2>1
    <3>. QED  BY <3>1
  <2>2. CASE i # n
    <3>1. i \in 1..(n - 1) /\ From(i) = i
      BY <1>1, <2>2
    <3>. QED  BY <3>1
  <2>. QED  BY <2>1, <2>2
<1> HIDE DEF From
<1>7. \A i, j \in 1..Len(doomed') : doomed'[i] = doomed'[j] => i = j
  BY <1>2, <1>3, <1>4, <1>5
<1>8. ASSUME NEW j \in 1..Len(doomed')
      PROVE  arch'[doomed'[j]].live /\ (arch'[doomed'[j]].life = 0 => Kept(j)')
  <2>1. From(j) \in 1..n /\ doomed'[j] = doomed[From(j)] /\ (From(j) >= at => j >= at)
    BY <1>2, <1>4
  <2>2. doomed[From(j)] \in Archetypes /\ doomed[From(j)] # a
    BY <1>1, <1>2, <1>3, <1>4, <2>1 DEF a
  <2>3. arch'[doomed'[j]] = arch[doomed[From(j)]]
    BY <2>1, <2>2 DEF a
  <2>4. arch[doomed[From(j)]].live /\ (arch[doomed[From(j)]].life = 0 => Kept(From(j)))
    BY <2>1 DEF DoomedOK, n
  <2>5. Kept(From(j)) => From(j) >= at /\ arch[doomed[From(j)]].list # <<>>
    BY DEF Kept
  <2>. QED  BY <2>1, <2>3, <2>4, <2>5 DEF Kept
<1>9. ASSUME NEW b \in Archetypes,
             arch'[b].life > 0 \/ (arch'[b].live /\ arch'[b].list = <<>> /\ arch'[b].max > 0)
      PROVE  \E j \in 1..Len(doomed') : doomed'[j] = b
  <2>1. b # a
    BY <1>9 DEF a
  <2>2. PICK i \in 1..n : doomed[i] = b
    BY <1>9, <2>1 DEF DoomedOK, n, a
  <2>3. i # at
    BY <2>1, <2>2 DEF a
  <2>. QED  BY <1>2, <1>6, <2>2, <2>3
<1>. QED  BY <1>7, <1>8, <1>9 DEF DoomedOK

(* An archetype that is in use again: no countdown, no request.            *)
Again(k) == [k EXCEPT !.life = 0, !.req = FALSE]

(* Ending the countdown leaves the rest of an archetype.                   *)
LEMMA AgainInUse ==
  ASSUME NEW k \in ArchSet
  PROVE  LET l == Again(k)
         IN /\ l \in ArchSet /\ l.live = k.live /\ l.list = k.list /\ l.free = k.free
            /\ l.max = k.max /\ l.life = 0 /\ l.req = FALSE
BY DEF ArchSet, Again

(* World::revive_archetype, of an archetype that was not requested for     *)
(* deletion.                                                               *)
LEMMA ArchRevived ==
  ASSUME NEW w, StorageOK(w), NEW a \in Archetypes, w.arch[a].live, ~w.arch[a].req
  PROVE  LET v == Revived(w, a)
         IN /\ StorageOK(v) /\ v.chunk = w.chunk /\ v.rec = w.rec /\ v.queue = w.queue
            /\ v.arch[a].live = w.arch[a].live /\ v.arch[a].list = w.arch[a].list
            /\ v.arch[a].max = w.arch[a].max /\ v.arch[a].req = w.arch[a].req
            /\ v.arch[a].life = 0
            /\ \A b \in Archetypes : b # a => v.arch[b] = w.arch[b]
<1> DEFINE k == Again(w.arch[a])
<1>1. w \in Worlds
  BY DEF StorageOK, BaseOK
<1>2. w.arch[a] \in ArchSet /\ w.arch[a].req \in BOOLEAN
  BY <1>1, ArchFields
<1>3. w.arch[a].req = FALSE
  BY <1>2
<1>4. /\ k \in ArchSet /\ k.live = w.arch[a].live /\ k.list = w.arch[a].list
      /\ k.free = w.arch[a].free /\ k.max = w.arch[a].max /\ k.life = 0 /\ k.req = w.arch[a].req
  BY <1>2, <1>3, AgainInUse
<1>5. Revived(w, a) = PutArch(w, a, k)
  BY <1>1, Parts DEF Revived, PutArch, Again
<1> HIDE DEF k
<1>6. k.live
  BY <1>4
<1>7. LET v == PutArch(w, a, k)
      IN /\ StorageOK(v) /\ v.chunk = w.chunk /\ v.rec = w.rec /\ v.queue = w.queue
         /\ v.arch[a] = k /\ \A b \in Archetypes : b # a => v.arch[b] = w.arch[b]
  BY <1>4, <1>6, ArchReset
<1>. QED  BY <1>4, <1>5, <1>7

(* World::del_empty_archetypes finds an archetype that is in use again and *)
(* takes it off its list.                                                  *)
LEMMA KeepArchStep ==
  ASSUME IInv, KeepArch
  PROVE  IInv' /\ Still
<1> DEFINE a == doomed[at]
           v == Revived(World, a)
<1>1. /\ phase = "archetypes" /\ at <= Len(doomed) /\ UNCHANGED loops
      /\ arch[a].list # <<>> \/ arch[a].max = 0
      /\ Becomes(v) /\ doomed' = SwapErase(doomed, at)
  BY DEF KeepArch
<1>2. doomed \in Seq(Archetypes) /\ at \in 1..Len(doomed) /\ a \in Archetypes
  <2>1. doomed \in Seq(Archetypes) /\ at \in Nat \ {0} /\ Len(doomed) \in Nat
    BY LenProperties DEF IInv, LoopsOK
  <2>2. at \in 1..Len(doomed)
    BY <1>1, <2>1
  <2>. QED  BY <2>1, <2>2, ElementOfSeq
<1>3. arch[a].live /\ ~arch[a].req
  BY <1>1, <1>2 DEF IInv, DoomedOK, DroppedOK
<1> HIDE DEF a
<1>4. /\ StorageOK(v) /\ v.rec = rec /\ v.arch[a].list = arch[a].list
      /\ v.arch[a].max = arch[a].max /\ v.arch[a].req = arch[a].req /\ v.arch[a].life = 0
      /\ \A b \in Archetypes : b # a => v.arch[b] = arch[b]
  <2>1. LET u == Revived(World, a)
        IN /\ StorageOK(u) /\ u.chunk = World.chunk /\ u.rec = World.rec /\ u.queue = World.queue
           /\ u.arch[a].live = World.arch[a].live /\ u.arch[a].list = World.arch[a].list
           /\ u.arch[a].max = World.arch[a].max /\ u.arch[a].req = World.arch[a].req
           /\ u.arch[a].life = 0
           /\ \A b \in Archetypes : b # a => u.arch[b] = World.arch[b]
    BY <1>2, <1>3, ArchRevived, WorldParts DEF IInv
  <2>. QED  BY <2>1, WorldParts
<1> HIDE DEF v
<1>5. World' = v /\ arch' = v.arch
  BY <1>1, <1>4, Become DEF StorageOK, BaseOK, Becomes
<1>6. phase' = phase /\ at' = at
  BY <1>1 DEF loops
<1>7. LoopsOK'
  <2>1. doomed' \in Seq(Archetypes)
    BY <1>1, <1>2, SwapErased
  <2>2. \A b \in Archetypes : arch'[b].max = arch[b].max
    BY <1>4, <1>5
  <2>. QED  BY <1>1, <2>1, <2>2 DEF IInv, LoopsOK, loops, defrag
<1>8. DroppedOK'
  <2>1. \A b \in Archetypes : /\ arch'[b].req = arch[b].req /\ arch'[b].list = arch[b].list
                              /\ arch'[b].max = arch[b].max
    BY <1>4, <1>5
  <2>. QED  BY <1>1, <2>1 DEF IInv, DroppedOK, loops
<1>9. FinalizeOK' /\ DefragOK'
  BY <1>1, <1>6 DEF FinalizeOK, DefragOK
<1>10. DoomedOK'
  <2>1. ~(arch'[a].life > 0)
    BY <1>4, <1>5
  <2>2. ~(arch'[a].live /\ arch'[a].list = <<>> /\ arch'[a].max > 0)
    BY <1>1, <1>4, <1>5
  <2>3. \A b \in Archetypes : b # a => arch'[b] = arch[b]
    BY <1>4, <1>5
  <2>. QED  BY <1>1, <1>2, <1>6, <2>1, <2>2, <2>3, DoomedErased DEF IInv, a
<1>11. Still
  <2>1. rec' = rec
    BY <1>1, <1>4 DEF Becomes
  <2>2. \A b \in Archetypes : arch'[b].req = arch[b].req
    BY <1>4, <1>5
  <2>. QED  BY <2>1, <2>2, NoneMoved DEF IInv, StorageOK, BaseOK
<1>. QED  BY <1>11, <1>4, <1>5, <1>7, <1>8, <1>9, <1>10 DEF IInv

(* World::del_empty_archetypes counts an archetype down.                   *)
LEMMA AgeArchStep ==
  ASSUME IInv, AgeArch
  PROVE  IInv' /\ Still
<1> DEFINE a == doomed[at]
           m == arch[a].life - 1
           v == PutArch(World, a, LifePut(World.arch[a], m))
<1>1. /\ phase = "archetypes" /\ phase' = phase /\ at <= Len(doomed) /\ at' = at + 1
      /\ arch[a].list = <<>> /\ arch[a].life > 1 /\ doomed' = doomed /\ raw' = raw
      /\ UNCHANGED defrag
      /\ arch' = [arch EXCEPT ![a].life = m] /\ chunk' = chunk /\ rec' = rec /\ queue' = queue
  BY DEF AgeArch, Dying
<1>2. doomed \in Seq(Archetypes) /\ at \in 1..Len(doomed) /\ a \in Archetypes
  <2>1. doomed \in Seq(Archetypes) /\ at \in Nat \ {0} /\ Len(doomed) \in Nat
    BY LenProperties DEF IInv, LoopsOK
  <2>2. at \in 1..Len(doomed)
    BY <1>1, <2>1
  <2>. QED  BY <2>1, <2>2, ElementOfSeq
<1>3. arch[a].live
  BY <1>2 DEF IInv, DoomedOK
<1> HIDE DEF a
<1>4. World \in Worlds /\ World.arch[a] \in ArchSet /\ arch[a].life \in Nat
  BY <1>2, ArchFields, WorldParts DEF IInv, StorageOK, BaseOK
<1>5. m \in Nat /\ m > 0
  BY <1>1, <1>4
<1>6. World' = v
  <2>1. arch' = [arch EXCEPT ![a] = LifePut(arch[a], m)]
    BY <1>1 DEF LifePut
  <2>. QED  BY <1>1, <2>1 DEF World, PutArch
<1> HIDE DEF m
<1>7. LET l == LifePut(World.arch[a], m)
      IN /\ l \in ArchSet /\ l.live = World.arch[a].live /\ l.list = World.arch[a].list
         /\ l.free = World.arch[a].free /\ l.req = World.arch[a].req
         /\ l.max = World.arch[a].max /\ l.life = m
  BY <1>4, <1>5, LifeOfArch
<1>8. LET l == LifePut(World.arch[a], m)
          u == PutArch(World, a, l)
      IN /\ StorageOK(u) /\ u.chunk = World.chunk /\ u.rec = World.rec /\ u.queue = World.queue
         /\ u.arch[a] = l /\ \A b \in Archetypes : b # a => u.arch[b] = World.arch[b]
  <2>1. World.arch[a].live /\ LifePut(World.arch[a], m).live
    BY <1>3, <1>7, WorldParts
  <2>. QED  BY <1>2, <1>7, <2>1, ArchReset DEF IInv
<1>9. /\ StorageOK(v) /\ v.arch[a].live = arch[a].live /\ v.arch[a].list = arch[a].list
      /\ v.arch[a].max = arch[a].max /\ v.arch[a].req = arch[a].req /\ v.arch[a].life = m
      /\ \A b \in Archetypes : b # a => v.arch[b] = arch[b]
  BY <1>7, <1>8, WorldParts
<1> HIDE DEF v
<1>10. arch' = v.arch
  BY <1>6 DEF World
<1>11. \A b \in Archetypes : /\ arch'[b].req = arch[b].req /\ arch'[b].list = arch[b].list
                             /\ arch'[b].max = arch[b].max /\ arch'[b].live = arch[b].live
  BY <1>9, <1>10
<1>12. LoopsOK'
  BY <1>1, <1>2, <1>11 DEF IInv, LoopsOK, defrag
<1>13. DroppedOK'
  BY <1>1, <1>11 DEF IInv, DroppedOK
<1>14. FinalizeOK' /\ DefragOK'
  BY <1>1 DEF FinalizeOK, DefragOK
<1>15. DoomedOK'
  <2>1. ASSUME NEW i \in 1..Len(doomed)
        PROVE  arch'[doomed[i]].live /\ (arch'[doomed[i]].life = 0 => Kept(i)')
    <3>1. doomed[i] \in Archetypes /\ arch[doomed[i]].live
      BY <1>2, ElementOfSeq DEF IInv, DoomedOK
    <3>2. CASE doomed[i] = a
      BY <1>5, <1>9, <1>10, <1>11, <3>1, <3>2
    <3>3. CASE doomed[i] # a
      <4>1. arch'[doomed[i]] = arch[doomed[i]]
        BY <1>9, <1>10, <3>1, <3>3
      <4>2. i # at
        BY <3>3 DEF a
      <4>3. Kept(i) => Kept(i)'
        BY <1>1, <1>2, <4>1, <4>2 DEF Kept
      <4>. QED  BY <3>1, <4>1, <4>3 DEF IInv, DoomedOK
    <3>. QED  BY <3>2, <3>3
  <2>2. ASSUME NEW b \in Archetypes,
               arch'[b].life > 0 \/ (arch'[b].live /\ arch'[b].list = <<>> /\ arch'[b].max > 0)
        PROVE  \E i \in 1..Len(doomed) : doomed[i] = b
    <3>1. CASE b = a
      BY <1>2, <3>1 DEF a
    <3>2. CASE b # a
      BY <1>9, <1>10, <2>2, <3>2 DEF IInv, DoomedOK
    <3>. QED  BY <3>1, <3>2
  <2>. QED  BY <1>1, <2>1, <2>2 DEF IInv, DoomedOK
<1>16. Still
  BY <1>1, <1>4, <1>11, NoneMoved
<1>. QED  BY <1>16, <1>6, <1>9, <1>12, <1>13, <1>14, <1>15 DEF IInv

(* The storage without archetype a: its record is blank, and so are those  *)
(* of the entities still said to be in it.                                 *)
Forgotten(w, a) ==
  [arch |-> [w.arch EXCEPT ![a] = NoArch], chunk |-> w.chunk,
   rec |-> [e \in Entities |-> IF w.rec[e].arch = a THEN NoRecord ELSE w.rec[e]],
   queue |-> w.queue]

(* World::del_empty_archetype, of an archetype without chunks.             *)
LEMMA ArchForgotten ==
  ASSUME NEW w, StorageOK(w), NEW a \in Archetypes, w.arch[a].list = <<>>
  PROVE  LET v == Forgotten(w, a)
         IN StorageOK(v) /\ v.arch = [w.arch EXCEPT ![a] = NoArch]
<1> DEFINE v == Forgotten(w, a)
<1>1. /\ w \in Worlds /\ ListOK(w) /\ RowsOK(w) /\ QueueOK(w) /\ RoomOK(w) /\ EmptyOK(w, {})
      /\ Agree(w, NoRow, {})
  BY DEF StorageOK, BaseOK
<1>2. /\ w = [arch |-> w.arch, chunk |-> w.chunk, rec |-> w.rec, queue |-> w.queue]
      /\ w.arch \in [Archetypes -> ArchSet] /\ w.chunk \in [Chunks -> ChunkSet]
      /\ w.rec \in [Entities -> RecordSet] /\ w.queue \in Seq(EntrySet)
  BY <1>1, Parts
<1>3. NoRecord \in RecordSet /\ NoRecord.arch = None
  BY DEF NoRecord, RecordSet
<1>4. /\ v.arch = [w.arch EXCEPT ![a] = NoArch] /\ v.chunk = w.chunk /\ v.queue = w.queue
      /\ v.rec = [e \in Entities |-> IF w.rec[e].arch = a THEN NoRecord ELSE w.rec[e]]
  BY <1>2 DEF Forgotten
<1>5. v \in Worlds
  <2>1. v = [arch |-> v.arch, chunk |-> v.chunk, rec |-> v.rec, queue |-> v.queue]
    BY <1>2 DEF Forgotten
  <2>2. v.arch \in [Archetypes -> ArchSet]
    BY <1>2, <1>4, BlankArch
  <2>3. v.rec \in [Entities -> RecordSet]
    BY <1>2, <1>3, <1>4
  <2>. QED  BY <1>2, <1>4, <2>1, <2>2, <2>3 DEF Worlds
<1> HIDE DEF v
<1>6. /\ v.arch[a] = NoArch /\ \A b \in Archetypes : b # a => v.arch[b] = w.arch[b]
  BY <1>2, <1>4
<1>7. ListOK(v) /\ RowsOK(v) /\ QueueOK(v)
  <2>1. \A b \in Archetypes : v.arch[b].live \/ v.arch[b] = NoArch
    BY <1>1, <1>6 DEF ListOK
  <2>2. \A b \in Archetypes : v.arch[b].list = w.arch[b].list
    BY <1>6, BlankArch
  <2>. QED  BY <1>1, <1>4, <2>1, <2>2, ListsKept
<1>8. RoomOK(v)
  <2> SUFFICES ASSUME NEW b \in Archetypes, ~v.arch[b].req
               PROVE  /\ v.arch[b].free <= Len(v.arch[b].list) + 1
                      /\ \A i \in 1..(v.arch[b].free - 1) : Full(v, b, v.arch[b].list[i])
    BY DEF RoomOK
  <2>1. CASE b = a
    <3>1. v.arch[b].free = 1 /\ v.arch[b].list = <<>>
      BY <1>6, <2>1, BlankArch
    <3>. QED  BY <3>1
  <2>2. CASE b # a
    BY Zenon, <1>1, <1>4, <1>6, <2>2 DEF RoomOK, Full
  <2>. QED  BY <2>1, <2>2
<1>9. EmptyOK(v, {})
  BY <1>1, <1>4 DEF EmptyOK
<1>10. ASSUME NEW c \in Chunks, w.chunk[c].live
       PROVE  c[1] # a
  <2>1. w.chunk[c].idx \in 1..Len(w.arch[c[1]].list)
    BY <1>1, <1>10, ChunkListed
  <2>. QED  BY <2>1
<1>11. RowsNamed(v, NoRow, {})
  <2> SUFFICES ASSUME NEW c \in Chunks, NEW i \in 1..Len(v.chunk[c].rows)
               PROVE  LET r == v.chunk[c].rows[i]
                      IN r.val = r.ent /\ r.ent \notin {} /\ NamedBy(v.rec[r.ent], c, i)
    BY DEF RowsNamed
  <2> DEFINE e == w.chunk[c].rows[i].ent
  <2>1. i \in 1..Len(w.chunk[c].rows) /\ v.chunk[c].rows[i] = w.chunk[c].rows[i]
    BY <1>4
  <2>2. /\ e \in Entities /\ Len(w.chunk[c].rows) \in Nat
    BY <1>1, <2>1, RowsOfChunk
  <2>3. Len(w.chunk[c].rows) # 0
    BY <2>1, <2>2
  <2>4. c[1] # a
    BY <1>1, <1>10, <2>3, RowsLive
  <2>5. w.chunk[c].rows[i].val = e /\ NamedBy(w.rec[e], c, i)
    BY <1>1, <2>1, NoRowInChunk DEF Agree, RowsNamed
  <2>6. v.rec[e] = w.rec[e]
    BY Zenon, <1>4, <2>2, <2>4, <2>5 DEF NamedBy
  <2>. QED  BY Zenon, <2>1, <2>5, <2>6
<1>12. ASSUME NEW e \in Entities, IsValid(v, e)
       PROVE  HasRow(v, e)
  <2>1. v.rec[e] = w.rec[e] /\ w.rec[e].arch # a /\ w.rec[e].arch # None
    BY <1>3, <1>4, <1>12 DEF IsValid
  <2>2. w.rec[e].arch \in Archetypes
    BY <1>2, <2>1 DEF RecordSet
  <2>3. IsValid(w, e)
    BY <1>6, <1>12, <2>1, <2>2 DEF IsValid
  <2>. QED  BY Zenon, <1>1, <1>4, <2>1, <2>3 DEF Agree, HasRow
<1>13. Agree(v, NoRow, {})
  BY <1>11, <1>12 DEF Agree
<1>. QED  BY <1>4, <1>5, <1>7, <1>8, <1>9, <1>13 DEF StorageOK, BaseOK, v

(* World::del_empty_archetypes deletes an archetype whose countdown is     *)
(* over.                                                                   *)
LEMMA DropArchStep ==
  ASSUME IInv, DropArch
  PROVE  IInv' /\ Still
<1> DEFINE a == doomed[at]
           v == Forgotten(World, a)
<1>1. /\ phase = "archetypes" /\ at <= Len(doomed) /\ UNCHANGED loops
      /\ arch[a].list = <<>> /\ doomed' = SwapErase(doomed, at)
      /\ arch' = [arch EXCEPT ![a] = NoArch] /\ chunk' = chunk /\ queue' = queue
      /\ rec' = [e \in Entities |-> IF rec[e].arch = a THEN NoRecord ELSE rec[e]]
  BY DEF DropArch, Dying
<1>2. doomed \in Seq(Archetypes) /\ at \in 1..Len(doomed) /\ a \in Archetypes
  <2>1. doomed \in Seq(Archetypes) /\ at \in Nat \ {0} /\ Len(doomed) \in Nat
    BY LenProperties DEF IInv, LoopsOK
  <2>2. at \in 1..Len(doomed)
    BY <1>1, <2>1
  <2>. QED  BY <2>1, <2>2, ElementOfSeq
<1> HIDE DEF a
<1>3. World' = v
  BY <1>1, WorldParts DEF World, Forgotten
<1>4. StorageOK(v)
  BY <1>1, <1>2, ArchForgotten, WorldParts DEF IInv
<1>5. arch[a] \in ArchSet /\ arch \in [Archetypes -> ArchSet]
  BY <1>2, ArchFields, Parts, WorldParts DEF IInv, StorageOK, BaseOK
<1>6. arch'[a] = NoArch /\ \A b \in Archetypes : b # a => arch'[b] = arch[b]
  BY <1>1, <1>2, <1>5
<1>7. phase' = phase /\ at' = at
  BY <1>1 DEF loops
<1>8. LoopsOK'
  <2>1. doomed' \in Seq(Archetypes)
    BY <1>1, <1>2, SwapErased
  <2>2. \A b \in Archetypes : arch'[b].max \in Lifespans[b] \cup {0, 1}
    BY <1>6, BlankArch DEF IInv, LoopsOK
  <2>. QED  BY <1>1, <2>1, <2>2 DEF IInv, LoopsOK, loops, defrag
<1>9. DroppedOK'
  <2>1. \A b \in Archetypes : arch'[b].req => arch'[b] = arch[b]
    BY <1>6, BlankArch
  <2>. QED  BY <1>1, <2>1 DEF IInv, DroppedOK, loops
<1>10. FinalizeOK' /\ DefragOK'
  BY <1>1, <1>7 DEF FinalizeOK, DefragOK
<1>11. DoomedOK'
  <2>1. ~(arch'[a].life > 0) /\ ~(arch'[a].live /\ arch'[a].list = <<>> /\ arch'[a].max > 0)
    BY <1>6, BlankArch
  <2>. QED  BY <1>1, <1>2, <1>6, <1>7, <2>1, DoomedErased DEF IInv, a
<1>12. Still
  <2> SUFFICES ASSUME NEW e \in Entities
               PROVE  PlaceIn(World', e) = PlaceIn(World, e)
    BY DEF Still
  <2>1. /\ World'.rec = rec' /\ World'.arch = arch' /\ World.rec = rec /\ World.arch = arch
        /\ StorageOK(World) /\ rec[e].arch \in Archetypes \cup {None}
    <3>1. rec \in [Entities -> RecordSet]
      BY Parts, WorldParts DEF IInv, StorageOK, BaseOK
    <3>. QED  BY <3>1 DEF World, RecordSet, IInv
  <2>2. CASE rec[e].arch = a
    <3>1. ~IsValid(World, e)
      <4> SUFFICES ASSUME IsValid(World, e)  PROVE FALSE
        OBVIOUS
      <4>1. World.arch[World.rec[e].arch].list # <<>>
        BY <2>1, ValidRow
      <4>. QED  BY <1>1, <2>1, <2>2, <4>1
    <3>2. rec'[e].arch = None
      BY <1>1, <2>2 DEF NoRecord
    <3>. QED  BY <2>1, <3>1, <3>2 DEF PlaceIn, IsValid
  <2>3. CASE rec[e].arch # a
    <3>1. rec'[e] = rec[e] /\ (rec[e].arch # None => arch'[rec[e].arch] = arch[rec[e].arch])
      BY <1>1, <1>6, <2>1, <2>3
    <3>. QED  BY <2>1, <3>1 DEF PlaceIn, IsValid
  <2>. QED  BY <2>2, <2>3
<1>. QED  BY <1>12, <1>3, <1>4, <1>8, <1>9, <1>10, <1>11 DEF IInv

-----------------------------------------------------------------------------
(* The loops over chunks                                                   *)

(* Writing the countdown leaves the rest of a chunk.                       *)
LEMMA LifeOfChunk ==
  ASSUME NEW k \in ChunkSet, NEW n \in Nat
  PROVE  LET l == LifePut(k, n)
         IN /\ l \in ChunkSet /\ l.live = k.live /\ l.rows = k.rows /\ l.first = k.first
            /\ l.enabled = k.enabled /\ l.idx = k.idx /\ l.slot = k.slot /\ l.life = n
BY DEF ChunkSet, LifePut

(* The countdown of a chunk goes on, or is reset.                          *)
(* A chunk counts down, and no chunk moves in the deletion queue.          *)
Timed(w, v, c, n) ==
  /\ TimersOnly(w, v) /\ QueueBut(v, {c}) /\ v.queue = w.queue
  /\ v.chunk[c].life = n
  /\ \A d \in Chunks : v.chunk[d].slot = w.chunk[d].slot

(* Counting a queued chunk down changes its countdown and nothing else.    *)
LEMMA TimerSet ==
  ASSUME NEW w, StorageOK(w), NEW c \in Chunks, w.chunk[c].live,
         NEW n \in Nat, n <= w.chunk[c].life
  PROVE  Timed(w, PutChunk(w, c, LifePut(w.chunk[c], n)), c, n)
<1> DEFINE k == LifePut(w.chunk[c], n)
           v == PutChunk(w, c, k)
<1>1. w \in Worlds /\ QueueOK(w)
  BY DEF StorageOK, BaseOK
<1>2. w.chunk[c] \in ChunkSet /\ w.chunk \in [Chunks -> ChunkSet]
  BY <1>1, ChunkFields, Parts
<1>3. /\ k \in ChunkSet /\ k.live = w.chunk[c].live /\ k.rows = w.chunk[c].rows
      /\ k.first = w.chunk[c].first /\ k.enabled = w.chunk[c].enabled
      /\ k.idx = w.chunk[c].idx /\ k.slot = w.chunk[c].slot /\ k.life = n
  BY Zenon, <1>2, LifeOfChunk
<1> HIDE DEF k
<1>4. LET u == PutChunk(w, c, k)
      IN /\ u \in Worlds /\ u.arch = w.arch /\ u.rec = w.rec /\ u.queue = w.queue
         /\ u.chunk = [w.chunk EXCEPT ![c] = k]
  BY <1>1, <1>3, ChunkPut
<1>5. /\ v \in Worlds /\ v.arch = w.arch /\ v.rec = w.rec /\ v.queue = w.queue
      /\ v.chunk = [w.chunk EXCEPT ![c] = k]
  BY <1>4
<1> HIDE DEF v
<1>6. v.chunk[c] = k /\ \A d \in Chunks : d # c => v.chunk[d] = w.chunk[d]
  BY <1>2, <1>5
<1>7. \A d \in Chunks : w.chunk[d].life \in Nat
  BY <1>1, ChunkFields
<1>8. \A d \in Chunks :
        /\ v.chunk[d].live = w.chunk[d].live /\ v.chunk[d].rows = w.chunk[d].rows
        /\ v.chunk[d].first = w.chunk[d].first /\ v.chunk[d].enabled = w.chunk[d].enabled
        /\ v.chunk[d].idx = w.chunk[d].idx /\ v.chunk[d].slot = w.chunk[d].slot
        /\ v.chunk[d].life <= w.chunk[d].life
  <2> SUFFICES ASSUME NEW d \in Chunks
               PROVE  /\ v.chunk[d].live = w.chunk[d].live /\ v.chunk[d].rows = w.chunk[d].rows
                      /\ v.chunk[d].first = w.chunk[d].first
                      /\ v.chunk[d].enabled = w.chunk[d].enabled
                      /\ v.chunk[d].idx = w.chunk[d].idx /\ v.chunk[d].slot = w.chunk[d].slot
                      /\ v.chunk[d].life <= w.chunk[d].life
    OBVIOUS
  <2>1. CASE d = c
    BY <1>3, <1>6, <2>1
  <2>2. CASE d # c
    <3>1. v.chunk[d] = w.chunk[d] /\ w.chunk[d].life <= w.chunk[d].life
      BY <1>6, <1>7, <2>2
    <3>. QED  BY <3>1
  <2>. QED  BY <2>1, <2>2
<1>9. TimersOnly(w, v)
  BY <1>5, <1>6, <1>8 DEF TimersOnly
<1>10. QueueBut(v, {c})
  <2>1. \A i \in 1..Len(w.queue) : w.queue[i].chunk \in Chunks
    BY <1>1, QueueFields
  <2>2. \A d \in Chunks \ {c} : v.chunk[d].slot = 0 <=> v.chunk[d].life = 0
    BY <1>1, <1>6 DEF QueueOK
  <2>3. \A d \in Chunks : v.chunk[d].slot # 0 =>
          v.chunk[d].slot <= Len(v.queue) /\ v.queue[v.chunk[d].slot].chunk = d
    BY <1>1, <1>5, <1>8 DEF QueueOK
  <2>4. \A i \in 1..Len(v.queue) :
          LET d == v.queue[i].chunk
          IN v.queue[i].arch = d[1] /\ v.chunk[d].live /\ v.chunk[d].slot = i
    BY <1>1, <1>5, <1>8, <2>1 DEF QueueOK
  <2>. QED  BY <2>2, <2>3, <2>4 DEF QueueBut
<1>11. Timed(w, v, c, n)
  BY Zenon, <1>3, <1>5, <1>6, <1>8, <1>9, <1>10 DEF Timed
<1>. QED  BY <1>11 DEF v, k

(* What the queue says of the chunk the loop has come to.                  *)
LEMMA QueuedHere ==
  ASSUME IInv, phase = "chunks", at <= Len(queue)
  PROVE  LET c == queue[at].chunk
         IN /\ at \in 1..Len(queue) /\ c \in Chunks /\ queue[at].arch = c[1]
            /\ c[1] \in Archetypes /\ chunk[c].live
            /\ chunk[c].slot = at /\ chunk[c].slot # 0 /\ chunk[c].life # 0
            /\ arch[c[1]].live /\ ~arch[c[1]].req /\ arch[c[1]].list # <<>>
<1> DEFINE c == queue[at].chunk
<1>1. World \in Worlds /\ ListOK(World) /\ QueueOK(World)
  BY DEF IInv, StorageOK, BaseOK
<1>2. at \in 1..Len(queue)
  <2>1. Len(queue) \in Nat /\ at \in Nat \ {0}
    BY <1>1, QueueFields, WorldParts DEF IInv, LoopsOK
  <2>. QED  BY <2>1
<1>3. at # 0
  BY <1>2 DEF IInv, LoopsOK
<1>4. c \in Chunks
  BY <1>1, <1>2, QueueFields, WorldParts
<1>5. queue[at].arch = c[1] /\ chunk[c].live /\ chunk[c].slot = at
  BY <1>1, <1>2, WorldParts DEF QueueOK
<1>6. chunk[c].life # 0
  BY <1>1, <1>3, <1>4, <1>5, WorldParts DEF QueueOK
<1>7. c[1] \in Archetypes
  BY <1>4, ChunkOfArch
<1>8. /\ World.chunk[c].idx \in 1..Len(World.arch[c[1]].list)
      /\ World.arch[c[1]].live
  BY Zenon, <1>1, <1>4, <1>5, ChunkListed, WorldParts
<1>9. arch[c[1]].live /\ arch[c[1]].list # <<>>
  BY <1>8, WorldParts
<1>10. ~arch[c[1]].req
  BY <1>7, <1>9 DEF IInv, DroppedOK
<1>. QED  BY <1>2, <1>3, <1>4, <1>5, <1>6, <1>7, <1>9, <1>10

(* World::del_empty_chunks counts an empty chunk down.                     *)
LEMMA AgeChunkStep ==
  ASSUME IInv, AgeChunk
  PROVE  IInv' /\ Still
<1> DEFINE c == queue[at].chunk
           n == chunk[c].life - 1
           v == PutChunk(World, c, LifePut(World.chunk[c], n))
<1>1. /\ phase = "chunks" /\ phase' = phase /\ at <= Len(queue) /\ at' = at + 1
      /\ chunk[c].life > 1 /\ chunk' = [chunk EXCEPT ![c].life = n]
      /\ arch' = arch /\ rec' = rec /\ queue' = queue /\ doomed' = doomed /\ raw' = raw
      /\ UNCHANGED defrag
  BY DEF AgeChunk
<1>2. c \in Chunks /\ chunk[c].live /\ chunk[c].slot # 0
  BY <1>1, QueuedHere
<1> HIDE DEF c
<1>3. StorageOK(World) /\ World \in Worlds
  BY DEF IInv, StorageOK, BaseOK
<1>4. chunk[c].life \in Nat
  BY <1>2, <1>3, ChunkFields, WorldParts
<1>5. n \in Nat /\ n <= chunk[c].life /\ n # 0
  BY <1>1, <1>4
<1>6. World' = v
  <2>1. chunk' = [chunk EXCEPT ![c] = LifePut(chunk[c], n)]
    BY <1>1 DEF LifePut
  <2>. QED  BY <1>1, <2>1 DEF World, PutChunk
<1> HIDE DEF n
<1>7. Timed(World, PutChunk(World, c, LifePut(World.chunk[c], n)), c, n)
  <2>1. World.chunk[c].live /\ n <= World.chunk[c].life
    BY <1>2, <1>5, WorldParts
  <2>. QED  BY <1>2, <1>3, <1>5, <2>1, TimerSet
<1>8. /\ TimersOnly(World, v) /\ QueueBut(v, {c}) /\ v.chunk[c].life = n
      /\ \A d \in Chunks : v.chunk[d].slot = chunk[d].slot
  BY <1>7, WorldParts DEF Timed
<1> HIDE DEF v
<1>9. StorageOK(v)
  <2>1. ListOK(v) /\ RowsOK(v) /\ RoomOK(v) /\ Agree(v, NoRow, {})
    BY <1>3, <1>8, TimersOnlyKeeps DEF StorageOK, BaseOK
  <2>2. QueueOK(v)
    BY <1>2, <1>5, <1>8, QueueParts
  <2>3. EmptyOK(v, {})
    BY <1>3, <1>8, WorldParts DEF StorageOK, EmptyOK, TimersOnly
  <2>. QED  BY <1>8, <2>1, <2>2, <2>3 DEF StorageOK, BaseOK, TimersOnly
<1>10. \A d \in Chunks : chunk'[d].rows = chunk[d].rows
  BY <1>6, <1>8, WorldParts DEF TimersOnly, World
<1>11. LoopsOK'
  BY <1>1 DEF IInv, LoopsOK, defrag
<1>12. DroppedOK' /\ FinalizeOK' /\ DefragOK'
  BY <1>1 DEF IInv, DroppedOK, FinalizeOK, DefragOK
<1>13. \A i \in 1..Len(doomed) : Kept(i) => Kept(i)'
  BY <1>1, <1>10 DEF Kept
<1>14. DoomedOK'
  BY <1>1, <1>13, DoomedStays DEF IInv
<1>15. Still
  BY <1>1, <1>3, NoneMoved
<1>. QED  BY <1>15, <1>6, <1>9, <1>11, <1>12, <1>14 DEF IInv

(* A chunk leaves the queue, or was not in it.                             *)
LEMMA LeftQueue ==
  ASSUME NEW w, StorageOK(w), NEW c \in Chunks, w.chunk[c].live
  PROVE  LET v == IF w.chunk[c].slot # 0 THEN Unqueue(w, w.chunk[c].slot) ELSE w
         IN /\ v \in Worlds /\ ListOK(v) /\ RowsOK(v) /\ RoomOK(v) /\ QueueBut(v, {c})
            /\ EmptyOK(v, {c}) /\ Agree(v, NoRow, {}) /\ v.chunk[c].slot = 0
            /\ v.arch = w.arch /\ v.rec = w.rec
            /\ \A d \in Chunks : /\ v.chunk[d].rows = w.chunk[d].rows
                                 /\ v.chunk[d].live = w.chunk[d].live
                                 /\ v.chunk[d].idx = w.chunk[d].idx
<1> DEFINE i == w.chunk[c].slot
           v == IF w.chunk[c].slot # 0 THEN Unqueue(w, w.chunk[c].slot) ELSE w
<1>1. /\ w \in Worlds /\ ListOK(w) /\ RowsOK(w) /\ RoomOK(w) /\ QueueOK(w)
      /\ EmptyOK(w, {}) /\ Agree(w, NoRow, {})
  BY DEF StorageOK, BaseOK
<1>2. CASE i = 0
  <2>1. v = w
    BY <1>2
  <2>2. QueueBut(w, {c}) /\ EmptyOK(w, {c})
    BY <1>1, QueueParts DEF EmptyOK
  <2>. QED  BY <1>1, <1>2, <2>1, <2>2
<1>3. CASE i # 0
  <2>1. v = Unqueue(w, i)
    BY <1>3
  <2>2. i \in Nat /\ Len(w.queue) \in Nat
    BY <1>1, ChunkFields, QueueFields
  <2>3. i \in 1..Len(w.queue) /\ w.queue[i].chunk = c
    BY <1>1, <1>3, <2>2 DEF QueueOK
  <2> HIDE DEF i, v
  <2>4. QueueBut(w, {w.queue[i].chunk})
    BY <1>1, QueueParts
  <2>5. Unqueuing(w, Unqueue(w, i), w.queue[i].chunk)
    BY <1>1, <2>3, <2>4, Unqueued
  <2>6. Unqueuing(w, v, c)
    BY <2>1, <2>3, <2>5
  <2>7. TimersOnly(w, v) /\ QueueBut(v, {c}) /\ v.chunk[c].slot = 0
    BY <2>6 DEF Unqueuing
  <2>8. ListOK(v) /\ RowsOK(v) /\ RoomOK(v) /\ Agree(v, NoRow, {})
    BY <1>1, <2>7, TimersOnlyKeeps
  <2>9. EmptyOK(v, {c})
    BY <1>1, <2>6, <2>7 DEF EmptyOK, Unqueuing, TimersOnly
  <2>. QED  BY Zenon, <2>7, <2>8, <2>9 DEF TimersOnly, v
<1>. QED  BY Zenon, <1>2, <1>3

(* World::del_empty_chunks finds a chunk that is in use again and takes it *)
(* off the queue.                                                          *)
LEMMA ReviveChunkStep ==
  ASSUME IInv, ReviveChunk
  PROVE  IInv' /\ Still
<1> DEFINE c == queue[at].chunk
           a == c[1]
           u == PutChunk(World, c, LifePut(World.chunk[c], 0))
           v == Unqueue(u, at)
           z == Revived(v, a)
<1>1. phase = "chunks" /\ at <= Len(queue) /\ chunk[c].rows # <<>> /\ doomed' = doomed /\ UNCHANGED loops
  BY DEF ReviveChunk
<1>2. /\ at \in 1..Len(queue) /\ c \in Chunks /\ queue[at].arch = a /\ a \in Archetypes
      /\ chunk[c].live
      /\ arch[a].live /\ ~arch[a].req /\ arch[a].list # <<>>
  BY <1>1, QueuedHere
<1>3. StorageOK(World) /\ World \in Worlds
  BY DEF IInv, StorageOK, BaseOK
<1>4. Becomes(z)
  <2>1. [World EXCEPT !.chunk[queue[at].chunk].life = 0] = u
    BY WorldParts DEF PutChunk, LifePut
  <2>2. Becomes(Revived(Unqueue([World EXCEPT !.chunk[queue[at].chunk].life = 0], at),
                        queue[at].arch))
    BY DEF ReviveChunk
  <2>3. queue[at].arch = a
    BY <1>2
  <2> HIDE DEF u, a
  <2>. QED  BY <2>1, <2>2, <2>3
<1> HIDE DEF a, c
<1>5. Timed(World, PutChunk(World, c, LifePut(World.chunk[c], 0)), c, 0)
  <2>1. World.chunk[c].live /\ World.chunk[c].life \in Nat
    BY <1>2, <1>3, ChunkFields, WorldParts
  <2>2. \A n \in Nat : n <= World.chunk[c].life =>
          Timed(World, PutChunk(World, c, LifePut(World.chunk[c], n)), c, n)
    BY <1>2, <1>3, <2>1, TimerSet
  <2>3. 0 \in Nat /\ 0 <= World.chunk[c].life
    BY <2>1
  <2>. QED  BY <2>2, <2>3
<1>6. /\ TimersOnly(World, u) /\ QueueBut(u, {c}) /\ u.queue = queue /\ u.chunk[c].life = 0
      /\ \A d \in Chunks : u.chunk[d].slot = chunk[d].slot
  BY <1>5, WorldParts DEF Timed
<1> HIDE DEF u
<1>7. /\ u \in Worlds /\ ListOK(u) /\ RowsOK(u) /\ RoomOK(u) /\ Agree(u, NoRow, {})
      /\ u.arch = arch
  BY <1>3, <1>6, TimersOnlyKeeps, WorldParts DEF StorageOK, BaseOK, TimersOnly
<1>8. Unqueuing(u, v, c)
  <2>1. at \in 1..Len(u.queue) /\ u.queue[at].chunk = c
    BY <1>2, <1>6 DEF c
  <2>2. QueueBut(u, {u.queue[at].chunk})
    BY <1>6, <2>1
  <2>3. Unqueuing(u, Unqueue(u, at), u.queue[at].chunk)
    BY <1>7, <2>1, <2>2, Unqueued
  <2>. QED  BY <2>1, <2>3
<1> HIDE DEF v
<1>9. TimersOnly(u, v) /\ QueueBut(v, {c}) /\ v.chunk[c].slot = 0 /\ v.chunk[c].life = 0
  BY <1>2, <1>6, <1>8 DEF Unqueuing
<1>10. \A d \in Chunks : v.chunk[d].rows = chunk[d].rows /\ v.chunk[d].live = chunk[d].live
  BY <1>6, <1>9, WorldParts DEF TimersOnly
<1>11. v.arch = arch /\ v.rec = rec
  BY <1>6, <1>7, <1>9, WorldParts DEF TimersOnly
<1>12. StorageOK(v)
  <2>1. ListOK(v) /\ RowsOK(v) /\ RoomOK(v) /\ Agree(v, NoRow, {}) /\ v \in Worlds
    BY <1>7, <1>9, TimersOnlyKeeps DEF TimersOnly
  <2>2. QueueOK(v)
    BY <1>2, <1>9, QueueParts
  <2>3. EmptyOK(v, {})
    <3> SUFFICES ASSUME NEW d \in Chunks, v.chunk[d].live, v.chunk[d].rows = <<>>
                 PROVE  v.chunk[d].slot # 0
      BY DEF EmptyOK
    <3>1. d # c /\ chunk[d].live /\ chunk[d].rows = <<>>
      BY <1>1, <1>10 DEF c
    <3>2. chunk[d].slot # 0
      BY <1>3, <3>1, WorldParts DEF StorageOK, EmptyOK
    <3>. QED  BY <1>6, <1>8, <3>1, <3>2 DEF Unqueuing
  <2>. QED  BY <2>1, <2>2, <2>3 DEF StorageOK, BaseOK
<1>13. LET t == Revived(v, a)
       IN /\ StorageOK(t) /\ t.chunk = v.chunk /\ t.rec = v.rec /\ t.queue = v.queue
          /\ t.arch[a].live = v.arch[a].live /\ t.arch[a].list = v.arch[a].list
          /\ t.arch[a].max = v.arch[a].max /\ t.arch[a].req = v.arch[a].req
          /\ t.arch[a].life = 0
          /\ \A b \in Archetypes : b # a => t.arch[b] = v.arch[b]
  <2>1. a \in Archetypes /\ v.arch[a].live /\ ~v.arch[a].req
    BY <1>2, <1>11
  <2> HIDE DEF z
  <2>. QED  BY <1>12, <2>1, ArchRevived
<1>14. /\ StorageOK(z) /\ z.chunk = v.chunk /\ z.rec = rec
       /\ z.arch[a].live = arch[a].live /\ z.arch[a].list = arch[a].list
       /\ z.arch[a].max = arch[a].max /\ z.arch[a].req = arch[a].req /\ z.arch[a].life = 0
       /\ \A b \in Archetypes : b # a => z.arch[b] = arch[b]
  BY <1>11, <1>13
<1> HIDE DEF z
<1>15. World' = z /\ arch' = z.arch /\ chunk' = v.chunk
  BY <1>4, <1>14, Become DEF StorageOK, BaseOK, Becomes
<1>16. \A b \in Archetypes : /\ arch'[b].req = arch[b].req /\ arch'[b].list = arch[b].list
                             /\ arch'[b].max = arch[b].max /\ arch'[b].live = arch[b].live
  BY <1>14, <1>15
<1>17. LoopsOK'
  BY <1>1, <1>16 DEF IInv, LoopsOK, loops, defrag
<1>18. DroppedOK'
  BY <1>1, <1>16 DEF IInv, DroppedOK, loops
<1>19. phase' = phase
  BY <1>1 DEF loops
<1>20. FinalizeOK' /\ DefragOK'
  BY <1>1, <1>19 DEF FinalizeOK, DefragOK
<1>21. DoomedOK'
  <2>1. ASSUME NEW i \in 1..Len(doomed)
        PROVE  arch'[doomed[i]].live /\ (arch'[doomed[i]].life = 0 => Kept(i)')
    <3>1. doomed[i] \in Archetypes /\ arch[doomed[i]].live
      BY ElementOfSeq DEF IInv, DoomedOK, LoopsOK
    <3>2. CASE doomed[i] = a
      <4>1. chunk'[c].rows # <<>>
        BY <1>1, <1>2, <1>10, <1>15 DEF c
      <4>. QED  BY <1>1, <1>2, <1>16, <1>19, <3>1, <3>2, <4>1 DEF Kept, a
    <3>3. CASE doomed[i] # a
      <4>1. arch'[doomed[i]] = arch[doomed[i]]
        BY <1>14, <1>15, <3>1, <3>3
      <4>2. Kept(i) => Kept(i)'
        BY <1>1, <1>10, <1>15, <1>19 DEF Kept
      <4>. QED  BY <3>1, <4>1, <4>2 DEF IInv, DoomedOK
    <3>. QED  BY <3>2, <3>3
  <2>2. ASSUME NEW b \in Archetypes,
               arch'[b].life > 0 \/ (arch'[b].live /\ arch'[b].list = <<>> /\ arch'[b].max > 0)
        PROVE  \E i \in 1..Len(doomed) : doomed[i] = b
    <3>1. b # a
      BY <1>2, <1>14, <1>15, <2>2
    <3>. QED  BY <1>14, <1>15, <2>2, <3>1 DEF IInv, DoomedOK
  <2>. QED  BY <1>1, <2>1, <2>2 DEF IInv, DoomedOK
<1>22. Still
  <2>1. rec' = rec
    BY <1>4, <1>14 DEF Becomes
  <2>. QED  BY <1>3, <1>16, <2>1, NoneMoved
<1>. QED  BY <1>22, <1>14, <1>15, <1>17, <1>18, <1>20, <1>21 DEF IInv

(* A chunk without entities, or of a dropped archetype, is deleted; its    *)
(* archetype waits for its own deletion if this was its last chunk.        *)
LEMMA ChunkGone ==
  ASSUME IInv, NEW c \in Chunks, chunk[c].live, chunk[c].rows = <<>> \/ arch[c[1]].req,
         phase \in {"finalize", "chunks"}, phase' = phase, NEW w,
         w = IF chunk[c].slot # 0 THEN Unqueue(World, chunk[c].slot) ELSE World,
         EnqueueArch(DeleteChunk(w, c[1], c), c[1])
  PROVE  /\ StorageOK(World)' /\ DoomedOK' /\ Still /\ doomed' \in Seq(Archetypes)
         /\ \A b \in Archetypes : /\ arch'[b].req = arch[b].req /\ arch'[b].max = arch[b].max
                                  /\ b # c[1] => arch'[b] = arch[b]
         /\ arch'[c[1]].list = SwapErase(arch[c[1]].list, chunk[c].idx)
<1> DEFINE a == c[1]
           z == DeleteChunk(w, c[1], c)
<1>1. StorageOK(World) /\ World \in Worlds
  BY DEF IInv, StorageOK, BaseOK
<1>2. a \in Archetypes
  BY ChunkOfArch
<1>3. LET v == IF World.chunk[c].slot # 0 THEN Unqueue(World, World.chunk[c].slot) ELSE World
      IN /\ v \in Worlds /\ ListOK(v) /\ RowsOK(v) /\ RoomOK(v) /\ QueueBut(v, {c})
         /\ EmptyOK(v, {c}) /\ Agree(v, NoRow, {}) /\ v.chunk[c].slot = 0
         /\ v.arch = World.arch /\ v.rec = World.rec
         /\ \A d \in Chunks : /\ v.chunk[d].rows = World.chunk[d].rows
                              /\ v.chunk[d].live = World.chunk[d].live
                              /\ v.chunk[d].idx = World.chunk[d].idx
  <2>1. World.chunk[c].live
    BY WorldParts
  <2>. QED  BY Zenon, <1>1, <2>1, LeftQueue
<1>4. /\ w \in Worlds /\ ListOK(w) /\ RowsOK(w) /\ RoomOK(w) /\ QueueBut(w, {c})
      /\ EmptyOK(w, {c}) /\ Agree(w, NoRow, {}) /\ w.chunk[c].slot = 0
      /\ w.arch = arch /\ w.rec = rec
      /\ \A d \in Chunks : /\ w.chunk[d].rows = chunk[d].rows /\ w.chunk[d].live = chunk[d].live
                           /\ w.chunk[d].idx = chunk[d].idx
  BY Zenon, <1>3, WorldParts
<1>5. LET v == DeleteChunk(w, c[1], c) IN StorageOK(v) /\ Deleted(w, v, c)
  <2>1. w.chunk[c].live /\ (w.chunk[c].rows = <<>> \/ w.arch[c[1]].req)
    BY Zenon, <1>4
  <2>. QED  BY Zenon, <1>4, <2>1, ChunkDeleted
<1>6. StorageOK(z) /\ Deleted(w, z, c)
  BY <1>5
<1> HIDE DEF z
<1>7. /\ \A b \in Archetypes : /\ z.arch[b].live = arch[b].live /\ z.arch[b].req = arch[b].req
                               /\ z.arch[b].life = arch[b].life /\ z.arch[b].max = arch[b].max
                               /\ b # a => z.arch[b] = arch[b]
      /\ z.arch[a].list = SwapErase(arch[a].list, chunk[c].idx)
      /\ z.chunk[c] = NoChunk
      /\ \A d \in Chunks : d # c => z.chunk[d].rows = chunk[d].rows
  BY <1>2, <1>4, <1>6 DEF Deleted
<1>8. World.chunk[c].idx \in 1..Len(World.arch[c[1]].list) /\ World.arch[c[1]].live
  BY Zenon, <1>1, ChunkListed, WorldParts DEF StorageOK, BaseOK
<1>9. arch[a].live
  BY <1>8, WorldParts
<1> HIDE DEF a
<1>10. StorageOK(World)' /\ Enqueuing(z, a)
  <2>1. EnqueueArch(z, a)
    BY DEF z, a
  <2>2. z.arch[a].live
    BY <1>2, <1>7, <1>9
  <2>. QED  BY <1>2, <1>6, <2>1, <2>2, ArchEnqueued
<1>11. doomed \in Seq(Archetypes) /\ DoomedOK
  BY DEF IInv, LoopsOK
<1>12. \A b \in Archetypes : /\ arch'[b].req = arch[b].req /\ arch'[b].max = arch[b].max
                             /\ b # a => arch'[b] = arch[b]
  <2> SUFFICES ASSUME NEW b \in Archetypes
               PROVE  /\ arch'[b].req = arch[b].req /\ arch'[b].max = arch[b].max
                      /\ b # a => arch'[b] = arch[b]
    OBVIOUS
  <2>1. CASE b = a
    BY <1>2, <1>7, <1>10, <2>1 DEF Enqueuing
  <2>2. CASE b # a
    BY <1>7, <1>10, <2>2 DEF Enqueuing
  <2>. QED  BY <2>1, <2>2
<1>13. arch'[a].list = SwapErase(arch[a].list, chunk[c].idx)
  BY <1>7, <1>10 DEF Enqueuing
<1>14. doomed' \in Seq(Archetypes)
  <2>1. doomed' = doomed \/ doomed' = Append(doomed, a)
    BY <1>10 DEF Enqueuing
  <2>. QED  BY <1>2, <1>11, <2>1, AppendProperties
<1>15. ASSUME NEW i \in 1..Len(doomed), Kept(i)
       PROVE  Kept(i)' /\ (doomed[i] = a => z.arch[a].list # <<>>)
  <2>1. phase = "chunks"
    BY <1>15 DEF Kept
  <2>2. PICK d \in Chunks : d[1] = doomed[i] /\ chunk[d].rows # <<>>
    BY <1>15, <2>1 DEF Kept
  <2>3. CASE d = c
    <3>1. arch[a].req
      BY <2>2, <2>3 DEF a
    <3>2. arch[a].list # <<>>
      BY <1>8, WorldParts DEF a
    <3>. QED  BY <1>2, <2>1, <3>1, <3>2 DEF IInv, DroppedOK
  <2>4. CASE d # c
    <3>1. z.chunk[d].rows # <<>>
      BY <1>7, <2>2, <2>4
    <3>2. chunk' = z.chunk
      BY <1>10 DEF Enqueuing
    <3>3. i \in 1..Len(doomed')
      <4>1. doomed' = doomed \/ doomed' = Append(doomed, a)
        BY <1>10 DEF Enqueuing
      <4>2. Len(doomed) \in Nat
        BY <1>11, LenProperties
      <4>3. Len(Append(doomed, a)) = Len(doomed) + 1
        BY <1>2, <1>11, AppendProperties
      <4>4. CASE doomed' = doomed
        BY <4>4
      <4>5. CASE doomed' = Append(doomed, a)
        BY <4>2, <4>3, <4>5
      <4>. QED  BY <4>1, <4>4, <4>5
    <3>4. doomed'[i] = doomed[i]
      <4>1. doomed' = doomed \/ doomed' = Append(doomed, a)
        BY <1>10 DEF Enqueuing
      <4>2. Append(doomed, a)[i] = doomed[i]
        BY <1>2, <1>11, AppendProperties
      <4>. QED  BY <4>1, <4>2
    <3>5. Kept(i)'
      BY <2>1, <2>2, <3>1, <3>2, <3>4 DEF Kept
    <3>6. z \in Worlds /\ ListOK(z)
      BY <1>6 DEF StorageOK, BaseOK
    <3>7. z.chunk[d].live
      <4>1. Len(z.chunk[d].rows) # 0
        BY <3>1, <3>6, RowsOfChunk, EmptySeq
      <4>. QED  BY <3>6, <4>1, RowsLive
    <3>8. z.chunk[d].idx \in 1..Len(z.arch[d[1]].list)
      BY <3>6, <3>7, ChunkListed
    <3>9. doomed[i] = a => z.arch[a].list # <<>>
      BY <2>2, <3>8
    <3>. QED  BY <3>5, <3>9
  <2>. QED  BY <2>3, <2>4
<1>16. DoomedOK'
  <2>1. \A b \in Archetypes :
          /\ z.arch[b].live = arch[b].live /\ z.arch[b].life = arch[b].life
          /\ z.arch[b].max = arch[b].max /\ (b # a => z.arch[b].list = arch[b].list)
    BY <1>7
  <2>. QED  BY <1>1, <1>2, <1>9, <1>10, <1>11, <1>15, <2>1, DoomedEnqueued
<1>17. Still
  <2>1. rec' = rec
    BY Zenon, <1>4, <1>6, <1>10 DEF Deleted, Enqueuing
  <2>. QED  BY <1>1, <1>12, <2>1, NoneMoved
<1>. QED  BY <1>17, <1>10, <1>12, <1>13, <1>14, <1>16 DEF a

(* World::del_empty_chunks deletes a chunk whose countdown is over.        *)
LEMMA DropChunkStep ==
  ASSUME IInv, DropChunk
  PROVE  IInv' /\ Still
<1> DEFINE c == queue[at].chunk
           w == Unqueue(World, at)
<1>1. /\ phase = "chunks" /\ at <= Len(queue) /\ chunk[c].rows = <<>> /\ UNCHANGED loops
      /\ EnqueueArch(DeleteChunk(w, queue[at].arch, c), queue[at].arch)
  BY DEF DropChunk
<1>2. /\ c \in Chunks /\ queue[at].arch = c[1] /\ c[1] \in Archetypes /\ chunk[c].live
      /\ chunk[c].slot = at /\ chunk[c].slot # 0 /\ ~arch[c[1]].req
  BY <1>1, QueuedHere
<1>3. w = IF chunk[c].slot # 0 THEN Unqueue(World, chunk[c].slot) ELSE World
  BY <1>2
<1> HIDE DEF c, w
<1>4. EnqueueArch(DeleteChunk(w, c[1], c), c[1])
  BY <1>1, <1>2
<1>5. phase \in {"finalize", "chunks"} /\ phase' = phase
  BY <1>1 DEF loops
<1>6. /\ StorageOK(World)' /\ DoomedOK' /\ Still /\ doomed' \in Seq(Archetypes)
      /\ \A b \in Archetypes : /\ arch'[b].req = arch[b].req /\ arch'[b].max = arch[b].max
                               /\ b # c[1] => arch'[b] = arch[b]
  BY <1>1, <1>2, <1>3, <1>4, <1>5, ChunkGone
<1>7. LoopsOK'
  BY <1>1, <1>6 DEF IInv, LoopsOK, loops, defrag
<1>8. DroppedOK'
  <2> SUFFICES ASSUME NEW b \in Archetypes, arch'[b].req
               PROVE  /\ arch'[b].max > 0
                      /\ arch'[b].list # <<>> => phase' = "finalize" /\ (b \in todo' \/ b = cur')
    BY DEF DroppedOK
  <2>1. arch'[b] = arch[b]
    BY <1>2, <1>6
  <2>. QED  BY <1>1, <2>1 DEF IInv, DroppedOK, loops, defrag
<1>9. FinalizeOK' /\ DefragOK'
  BY <1>1, <1>5 DEF FinalizeOK, DefragOK
<1>. QED  BY <1>6, <1>7, <1>8, <1>9 DEF IInv

(* What del_entities reads after step t of its loop: the list, and behind  *)
(* its end what was moved in front.                                        *)
Mirrors(list, mem, t) ==
  /\ Len(list) = Len(mem) - t + 1
  /\ \A j \in 1..Len(list) : mem[j] = list[j]
  /\ \A j \in t..Len(mem) : j > Len(list) => mem[j] = list[Len(mem) - j + 1]

(* The memory of the array after one of its elements was written.          *)
Over(mem, i, x) == [mem EXCEPT ![i] = x]

(* The memory behind the end of the array: what the loop reads there is    *)
(* what swap_erase moved in front, which is still in the array.            *)
LEMMA MemoryRead ==
  ASSUME NEW S, NEW list \in Seq(S), NEW mem \in Seq(S), NEW t \in 1..Len(mem),
         NEW i \in 1..Len(list), Mirrors(list, mem, t),
         i = IF t <= Len(list) THEN t ELSE Len(list)
  PROVE  LET mem2 == Over(mem, i, list[Len(list)])
         IN /\ mem2 \in Seq(S) /\ Len(mem2) = Len(mem)
            /\ Mirrors(SwapErase(list, i), mem2, t + 1)
<1> DEFINE n == Len(mem)
           m == Len(list)
           next == SwapErase(list, i)
           mem2 == Over(mem, i, list[m])
<1>1. n \in Nat /\ m \in Nat /\ m \in 1..m /\ i \in 1..n /\ t \in Nat /\ t >= 1
  BY LenProperties
<1>2. list[m] \in S
  BY <1>1, ElementOfSeq
<1>3. mem2 \in Seq(S) /\ Len(mem2) = n /\ \A j \in 1..n : mem2[j] = IF j = i THEN list[m] ELSE mem[j]
  BY <1>1, <1>2, ExceptSeq DEF Over
<1>4. Len(next) = m - 1 /\ \A j \in 1..(m - 1) : next[j] = IF j = i THEN list[m] ELSE list[j]
  BY SwapErased
<1>5. /\ m = n - t + 1 /\ \A j \in 1..m : mem[j] = list[j]
      /\ \A j \in t..n : j > m => mem[j] = list[n - j + 1]
      /\ i = IF t <= m THEN t ELSE m
  BY DEF Mirrors
<1> HIDE DEF n, m, next, mem2
<1>6. Len(next) = n - (t + 1) + 1
  BY <1>1, <1>4, <1>5
<1>7. ASSUME NEW j \in 1..Len(next)
      PROVE  mem2[j] = next[j]
  <2>1. j \in 1..(m - 1) /\ j \in 1..m /\ j \in 1..n
    BY <1>1, <1>4, <1>5
  <2>2. mem2[j] = IF j = i THEN list[m] ELSE mem[j]
    BY <1>3, <2>1
  <2>. QED  BY <1>4, <1>5, <2>1, <2>2
<1>8. ASSUME NEW j \in (t + 1)..n, j > Len(next)
      PROVE  mem2[j] = next[n - j + 1]
  <2>1. j \in 1..n /\ j \in t..n /\ n - j + 1 \in 1..(m - 1)
    BY <1>1, <1>5
  <2>2. CASE j = m
    <3>1. t <= m /\ i = t /\ n - j + 1 = i /\ j # i /\ mem[j] = list[m]
      BY <1>1, <1>5, <2>1, <2>2
    <3>2. mem2[j] = list[m]
      BY <1>3, <2>1, <3>1
    <3>3. next[n - j + 1] = list[m]
      BY <1>4, <2>1, <3>1
    <3>. QED  BY <3>2, <3>3
  <2>3. CASE j > m
    <3>1. j # i /\ n - j + 1 # i
      BY <1>1, <1>5, <2>1, <2>3
    <3>2. mem2[j] = mem[j] /\ mem[j] = list[n - j + 1]
      BY <1>3, <1>5, <2>1, <2>3, <3>1
    <3>3. next[n - j + 1] = list[n - j + 1]
      BY <1>4, <2>1, <3>1
    <3>. QED  BY <3>2, <3>3
  <2>4. j = m \/ j > m
    BY <1>1, <1>4, <1>8
  <2>. QED  BY <2>2, <2>3, <2>4
<1>9. Mirrors(next, mem2, t + 1)
  BY <1>3, <1>6, <1>7, <1>8 DEF Mirrors, n
<1>. QED  BY <1>3, <1>9 DEF n, m, next, mem2

(* World::del_entities removes the chunks of a dropped archetype, from the *)
(* array it iterates.                                                      *)
LEMMA FinalizeChunkStep ==
  ASSUME IInv, FinalizeChunk
  PROVE  IInv' /\ Still
<1> DEFINE c == raw[at]
           list == arch[cur].list
           w == IF chunk[c].slot # 0 THEN Unqueue(World, chunk[c].slot) ELSE World
           i == chunk[c].idx
<1>1. /\ phase = "finalize" /\ phase' = phase /\ at <= Len(raw) /\ at' = at + 1
      /\ UNCHANGED defrag
      /\ EnqueueArch(DeleteChunk(w, cur, c), cur)
      /\ raw' = [raw EXCEPT ![i] = list[Len(list)]]
  BY DEF FinalizeChunk
<1>2. World \in Worlds /\ ListOK(World) /\ StorageOK(World)
  BY DEF IInv, StorageOK, BaseOK
<1>3. raw \in Seq(Chunks) /\ Len(raw) \in Nat /\ at \in 1..Len(raw)
  <2>1. raw \in Seq(Chunks) /\ Len(raw) \in Nat /\ at \in Nat \ {0}
    BY LenProperties DEF IInv, LoopsOK
  <2>. QED  BY <1>1, <2>1
<1>4. cur # None
  <2>1. raw # <<>>
    BY <1>3
  <2>. QED  BY <1>1, <2>1 DEF IInv, FinalizeOK
<1>5. cur \in Archetypes
  BY <1>4 DEF IInv, LoopsOK
<1>6. /\ arch[cur].req /\ Len(list) = Len(raw) - at + 1
      /\ \A j \in 1..Len(list) : raw[j] = list[j]
      /\ \A j \in at..Len(raw) : j > Len(list) => raw[j] = list[Len(raw) - j + 1]
      /\ \A b \in todo : arch[b].req
  BY <1>1, <1>4 DEF IInv, FinalizeOK
<1>7. list \in Seq(Chunks) /\ Len(list) \in Nat
  BY <1>2, <1>5, ArchFields, WorldParts
<1> HIDE DEF list
<1> DEFINE h == IF at <= Len(list) THEN at ELSE Len(list)
<1>8. h \in 1..Len(list) /\ c = list[h]
  <2>1. CASE at <= Len(list)
    <3>1. h = at /\ at \in 1..Len(list)
      BY <1>3, <1>7, <2>1
    <3>. QED  BY <1>6, <3>1
  <2>2. CASE ~(at <= Len(list))
    <3>1. /\ h = Len(list) /\ Len(list) \in 1..Len(list) /\ at \in at..Len(raw)
          /\ at > Len(list) /\ Len(raw) - at + 1 = Len(list)
      BY <1>3, <1>6, <1>7, <2>2
    <3>. QED  BY <1>6, <3>1
  <2>. QED  BY <2>1, <2>2
<1> HIDE DEF h
<1>9. c \in Chunks
  BY <1>7, <1>8, ElementOfSeq
<1>10. c[1] = cur /\ chunk[c].live /\ i = h
  BY <1>2, <1>5, <1>8, WorldParts DEF ListOK, ListsOK, list
<1> HIDE DEF c, w
<1>11. /\ StorageOK(World)' /\ DoomedOK' /\ Still /\ doomed' \in Seq(Archetypes)
       /\ \A b \in Archetypes : /\ arch'[b].req = arch[b].req /\ arch'[b].max = arch[b].max
                                /\ b # c[1] => arch'[b] = arch[b]
       /\ arch'[c[1]].list = SwapErase(arch[c[1]].list, chunk[c].idx)
  <2>1. arch[c[1]].req /\ phase \in {"finalize", "chunks"}
    BY <1>1, <1>6, <1>10
  <2>2. EnqueueArch(DeleteChunk(w, c[1], c), c[1])
    BY <1>1, <1>10
  <2>3. w = IF chunk[c].slot # 0 THEN Unqueue(World, chunk[c].slot) ELSE World
    BY DEF w
  <2>. QED  BY <1>1, <1>9, <1>10, <2>1, <2>2, <2>3, ChunkGone
<1>12. arch'[cur].list = SwapErase(list, h)
  BY <1>10, <1>11 DEF list
<1>13. LET mem2 == Over(raw, h, list[Len(list)])
       IN /\ mem2 \in Seq(Chunks) /\ Len(mem2) = Len(raw)
          /\ Mirrors(SwapErase(list, h), mem2, at + 1)
  <2>1. h = IF at <= Len(list) THEN at ELSE Len(list)
    BY DEF h
  <2>2. Mirrors(list, raw, at)
    BY <1>6 DEF Mirrors
  <2>. QED  BY <1>3, <1>7, <1>8, <2>1, <2>2, MemoryRead
<1>14. raw' = Over(raw, h, list[Len(list)])
  BY <1>1, <1>10 DEF Over
<1>15. raw' \in Seq(Chunks) /\ Mirrors(arch'[cur].list, raw', at + 1)
  BY <1>12, <1>13, <1>14
<1>16. cur' = cur /\ todo' = todo
  BY <1>1 DEF defrag
<1>17. LoopsOK'
  <2>1. at' \in Nat \ {0}
    BY <1>1, <1>3
  <2>. QED  BY <1>1, <1>11, <1>15, <2>1 DEF IInv, LoopsOK, defrag
<1>18. DroppedOK'
  <2> SUFFICES ASSUME NEW b \in Archetypes, arch'[b].req
               PROVE  /\ arch'[b].max > 0
                      /\ arch'[b].list # <<>> => phase' = "finalize" /\ (b \in todo' \/ b = cur')
    BY DEF DroppedOK
  <2>1. CASE b = cur
    BY <1>1, <1>11, <1>16, <2>1 DEF IInv, DroppedOK
  <2>2. CASE b # cur
    <3>1. arch'[b] = arch[b]
      BY <1>10, <1>11, <2>2
    <3>. QED  BY <1>1, <1>16, <3>1 DEF IInv, DroppedOK
  <2>. QED  BY <2>1, <2>2
<1>19. FinalizeOK'
  <2>1. arch'[cur'].req /\ cur' # None /\ \A b \in todo' : arch'[b].req
    BY <1>4, <1>5, <1>6, <1>11, <1>16 DEF IInv, LoopsOK
  <2>2. /\ Len(arch'[cur'].list) = Len(raw') - at' + 1
        /\ \A j \in 1..Len(arch'[cur'].list) : raw'[j] = arch'[cur'].list[j]
        /\ \A j \in at'..Len(raw') :
             j > Len(arch'[cur'].list) => raw'[j] = arch'[cur'].list[Len(raw') - j + 1]
    BY <1>1, <1>15, <1>16 DEF Mirrors
  <2>. QED  BY <2>1, <2>2 DEF FinalizeOK
<1>20. DefragOK'
  BY <1>1 DEF DefragOK
<1>. QED  BY <1>11, <1>17, <1>18, <1>19, <1>20 DEF IInv

(* World::defrag_archetype: one entity moves to the chunk in front.        *)
LEMMA DefragStepStep ==
  ASSUME IInv, DefragStep
  PROVE  IInv' /\ Still
<1> DEFINE list == arch[cur].list
           src == list[back]
           d == list[front]
           r == chunk[src].rows
           e == r[Len(r)].ent
           w == IF r # <<>> THEN MoveRow(World, e, cur, d) ELSE World
           S == {i \in front..(back - 1) : Semi(w, cur, i)} \cup {front}
           b == IF Empty(w, cur, back) THEN Max(S) ELSE back
           T == {i \in front..b : ~Full(w, cur, list[i])} \cup {b}
<1>1. /\ phase = "defrag" /\ phase' = phase /\ moves > 0 /\ front < back
      /\ Becomes(w) /\ moves' = IF r # <<>> THEN moves - 1 ELSE moves
      /\ back' = b /\ front' = Min(T)
      /\ doomed' = doomed /\ at' = at /\ raw' = raw /\ cur' = cur /\ todo' = todo
  BY Zenon DEF DefragStep
<1>2. /\ cur \in Archetypes /\ front > 0 /\ back <= Len(list) /\ ~Full(World, cur, d)
  BY Zenon, <1>1 DEF IInv, DefragOK
<1>3. /\ World \in Worlds /\ BaseOK(World) /\ EmptyOK(World, {}) /\ Agree(World, NoRow, {})
      /\ ListOK(World)
  BY DEF IInv, StorageOK, BaseOK
<1>4. list \in Seq(Chunks) /\ Len(list) \in Nat
  BY <1>2, <1>3, ArchFields, WorldParts
<1>5. front \in 1..Len(list) /\ back \in 1..Len(list) /\ front # back /\ back \in Nat
  <2>1. front \in Nat /\ back \in Nat
    BY DEF IInv, LoopsOK
  <2>2. front < back /\ front > 0 /\ back <= Len(list)
    BY Zenon, <1>1, <1>2
  <2> HIDE DEF list
  <2>. QED  BY <1>4, <2>1, <2>2
<1>6. ~arch[cur].req
  <2>1. list # <<>>
    BY <1>4, <1>5
  <2>. QED  BY Zenon, <1>1, <1>2, <2>1 DEF IInv, DroppedOK
<1>7. src \in Chunks /\ d \in Chunks
  BY <1>4, <1>5, ElementOfSeq
<1>8. /\ src[1] = cur /\ d[1] = cur /\ chunk[src].live /\ chunk[d].live
      /\ chunk[src].idx = back /\ chunk[d].idx = front
  BY <1>2, <1>3, <1>5, WorldParts DEF ListOK, ListsOK
<1>9. src # d
  BY <1>5, <1>8
<1> HIDE DEF src, d
<1>10. /\ StorageOK(w) /\ SameLists(World, w)
       /\ \A h \in Entities : w.rec[h].arch = rec[h].arch
  <2>1. CASE r = <<>>
    BY <2>1, WorldParts DEF IInv, SameLists
  <2>2. CASE r # <<>>
    <3>1. r \in Seq(RawRows) /\ Len(r) \in Nat
      BY <1>3, <1>7, RowsOfChunk, WorldParts
    <3>2. Len(r) # 0
      BY <2>2, <3>1, EmptySeq
    <3>3. Len(r) \in 1..Len(r)
      BY <3>1, <3>2
    <3>4. e \in Entities
      BY <1>3, <1>7, <3>3, RowsOfChunk, WorldParts
    <3>5. rec[e].arch = cur /\ rec[e].chunk = src
      <4>1. RowsNamed(World, NoRow, {}) /\ <<src, Len(r)>> # NoRow
        BY <1>3, NoRowInChunk DEF Agree
      <4>2. LET y == World.chunk[src].rows[Len(r)]
            IN /\ y.val = y.ent /\ y.ent \notin {}
               /\ World.rec[y.ent].arch = src[1] /\ World.rec[y.ent].chunk = src
               /\ World.rec[y.ent].row = Len(r)
        <5>1. Len(r) \in 1..Len(World.chunk[src].rows)
          BY <3>3, WorldParts
        <5> HIDE DEF r
        <5>. QED  BY <1>7, <4>1, <5>1 DEF RowsNamed, NamedBy
      <4>. QED  BY <1>8, <4>2, WorldParts
    <3>6. IsValid(World, e)
      <4>1. cur # None
        BY <1>2, StorageAssumption
      <4>. QED  BY Zenon, <1>6, <3>5, <4>1, WorldParts DEF IsValid
    <3>7. EmptyOK(World, {d})
      BY <1>3 DEF EmptyOK
    <3>8. Len(World.chunk[d].rows) < Capacity[d[1]]
      <4>1. Len(World.chunk[d].rows) \in Nat /\ Capacity[d[1]] \in Nat
        BY <1>3, <1>7, RowsOfChunk, ChunkOfArch
      <4>. QED  BY <1>2, <1>8, <4>1 DEF Full
    <3>9. World.chunk[d].live /\ World.rec[e].chunk # d
      BY <1>8, <1>9, <3>5, WorldParts
    <3> HIDE DEF e, r
    <3>10. LET v == MoveRow(World, e, d[1], d)
               c == World.rec[e].chunk
           IN /\ BaseOK(v) /\ EmptyOK(v, {}) /\ Agree(v, NoRow, {})
              /\ SameLists(World, v) /\ v.rec[e].arch = d[1]
              /\ \A h \in Entities : h # e => v.rec[h].arch = World.rec[h].arch
      BY <1>3, <1>7, <3>4, <3>6, <3>7, <3>8, <3>9, RowMoved
    <3>11. w = MoveRow(World, e, d[1], d)
      BY <1>8, <2>2
    <3>12. \A h \in Entities : w.rec[h].arch = rec[h].arch
      BY <1>8, <3>5, <3>10, <3>11, WorldParts DEF e
    <3>. QED  BY <3>10, <3>11, <3>12 DEF StorageOK
  <2>. QED  BY Zenon, <2>1, <2>2
<1> HIDE DEF w
<1>11. World' = w /\ arch' = w.arch
  BY <1>1, <1>10, Become DEF StorageOK, BaseOK, Becomes
<1>12. /\ moves' \in 0..Moves
  <2>1. moves \in 0..Moves /\ Moves \in Nat
    BY StorageAssumption DEF IInv, LoopsOK
  <2>2. moves' = moves \/ moves' = moves - 1
    BY <1>1
  <2>. QED  BY <1>1, <2>1, <2>2
<1>13. b \in Nat /\ front <= b /\ b <= back
  <2>1. S \in SUBSET (0..back) /\ S # {} /\ \A i \in S : front <= i
    BY <1>1, <1>5
  <2>2. Max(S) \in S
    <3> HIDE DEF S
    <3>. QED  BY <1>5, <2>1, GreatestOf
  <2>3. Max(S) \in Nat /\ front <= Max(S) /\ Max(S) <= back
    <3> HIDE DEF S
    <3>1. Max(S) \in 0..back /\ front <= Max(S)
      BY <2>1, <2>2
    <3>2. back \in Nat
      BY <1>5
    <3>. QED  BY <3>1, <3>2
  <2> HIDE DEF S
  <2>. QED  BY <1>1, <1>5, <2>3
<1> HIDE DEF b
<1>14. T \in SUBSET Nat /\ T # {} /\ \A i \in T : front <= i /\ i <= b
  BY <1>5, <1>13
<1>15. Min(T) \in T
  <2> HIDE DEF T
  <2>. QED  BY <1>14, LeastOf
<1>16. front' \in Nat /\ front <= front' /\ front' <= b
  <2> HIDE DEF T
  <2>. QED  BY <1>1, <1>14, <1>15
<1>17. \A a \in Archetypes :
         /\ arch'[a].live = arch[a].live /\ arch'[a].list = arch[a].list
         /\ arch'[a].req = arch[a].req /\ arch'[a].life = arch[a].life
         /\ arch'[a].max = arch[a].max
  BY <1>10, <1>11, WorldParts DEF SameLists
<1>18. LoopsOK'
  BY <1>1, <1>12, <1>13, <1>16, <1>17 DEF IInv, LoopsOK
<1>19. DroppedOK'
  BY <1>1, <1>17 DEF IInv, DroppedOK
<1>20. FinalizeOK'
  BY <1>1 DEF FinalizeOK
<1>21. DefragOK'
  <2> SUFFICES ASSUME front' < b
               PROVE  /\ cur \in Archetypes /\ front' > 0 /\ b <= Len(arch'[cur].list)
                      /\ ~Full(w, cur, arch'[cur].list[front'])
    BY <1>1, <1>11 DEF DefragOK
  <2>1. front' # b /\ front' \in T
    BY <1>1, <1>13, <1>15, <1>16
  <2>2. ~Full(w, cur, list[front'])
    BY <2>1
  <2>3. arch'[cur].list = list
    BY <1>2, <1>17
  <2>4. front' > 0 /\ b <= Len(list)
    BY <1>2, <1>4, <1>5, <1>13, <1>16
  <2>. QED  BY <1>2, <2>2, <2>3, <2>4
<1>22. DoomedOK'
  <2>1. ASSUME NEW i \in 1..Len(doomed)
        PROVE  arch'[doomed[i]].live /\ (arch'[doomed[i]].life = 0 => Kept(i)')
    <3>1. doomed[i] \in Archetypes
      BY ElementOfSeq DEF IInv, LoopsOK
    <3>2. Kept(i) => Kept(i)'
      BY <1>1, <1>17, <3>1 DEF Kept
    <3>. QED  BY <1>17, <3>1, <3>2 DEF IInv, DoomedOK
  <2>. QED  BY <1>1, <1>17, <2>1 DEF IInv, DoomedOK
<1>23. Still
  <2>1. rec' = w.rec
    BY <1>1 DEF Becomes
  <2>. QED  BY <1>3, <1>10, <1>17, <2>1, NoneMoved
<1>. QED  BY <1>23, <1>10, <1>11, <1>18, <1>19, <1>20, <1>21, <1>22 DEF IInv

-----------------------------------------------------------------------------
(* The invariant                                                           *)

(* The empty storage satisfies the invariant.                              *)
LEMMA InitInvariant ==
  ASSUME Init
  PROVE  IInv
<1>1. /\ NoArch \in ArchSet /\ ~NoArch.live /\ NoArch.list = <<>> /\ NoArch.free = 1
      /\ NoArch.life = 0 /\ NoArch.max = 0 /\ NoArch.req = FALSE
      /\ NoChunk \in ChunkSet /\ NoChunk.live = FALSE /\ NoChunk.rows = <<>>
      /\ NoChunk.first = 0 /\ NoChunk.enabled = 0 /\ NoChunk.life = 0 /\ NoChunk.slot = 0
      /\ NoRecord \in RecordSet /\ NoRecord.arch = None
  BY BlankArch, BlankNoChunk DEF NoRecord, RecordSet
<1>2. /\ arch \in [Archetypes -> ArchSet] /\ chunk \in [Chunks -> ChunkSet]
      /\ rec \in [Entities -> RecordSet] /\ queue \in Seq(EntrySet)
      /\ \A a \in Archetypes : arch[a] = NoArch
      /\ \A c \in Chunks : chunk[c] = NoChunk
      /\ \A e \in Entities : rec[e] = NoRecord
      /\ queue = <<>> /\ doomed = <<>> /\ doomed \in Seq(Archetypes) /\ raw \in Seq(Chunks)
  BY <1>1 DEF Init
<1>3. World \in Worlds
  BY <1>2 DEF World, Worlds
<1>4. ListOK(World)
  BY <1>1, <1>2, WorldParts DEF ListOK, PlacesOK, ListsOK
<1>5. RowsOK(World)
  <2> SUFFICES ASSUME NEW c \in Chunks
               PROVE  /\ 0 <= Len(<<>>) /\ Len(<<>>) <= Capacity[c[1]] /\ 0 < CountMax
                      /\ 0 <= ChunkLife
    BY <1>1, <1>2, WorldParts DEF RowsOK
  <2>1. Capacity[c[1]] \in Nat /\ CountMax \in Nat \ {0} /\ ChunkLife \in Nat
    BY ChunkOfArch, StorageAssumption
  <2>. QED  BY <2>1
<1>6. QueueOK(World) /\ EmptyOK(World, {})
  BY <1>1, <1>2, WorldParts DEF QueueOK, EmptyOK
<1>7. RoomOK(World)
  BY <1>1, <1>2, WorldParts DEF RoomOK
<1>8. Agree(World, NoRow, {})
  BY <1>1, <1>2, WorldParts DEF Agree, RowsNamed, IsValid
<1>9. LoopsOK
  BY <1>1, <1>2, StorageAssumption DEF Init, LoopsOK
<1>10. DroppedOK /\ FinalizeOK /\ DefragOK /\ DoomedOK
  BY <1>1, <1>2 DEF Init, DroppedOK, FinalizeOK, DefragOK, DoomedOK
<1>. QED  BY <1>3, <1>4, <1>5, <1>6, <1>7, <1>8, <1>9, <1>10 DEF IInv, StorageOK, BaseOK

(* Every step of the clean-up keeps the invariant and moves no entity.     *)
LEMMA CleanupStep ==
  ASSUME IInv, Cleanup
  PROVE  IInv' /\ Still
<1>1. CASE FinalizeNext
  BY <1>1, FinalizeNextStep
<1>2. CASE FinalizeChunk
  BY <1>2, FinalizeChunkStep
<1>3. CASE ReviveChunk
  BY <1>3, ReviveChunkStep
<1>4. CASE AgeChunk
  BY <1>4, AgeChunkStep
<1>5. CASE DropChunk
  BY <1>5, DropChunkStep
<1>6. CASE EndChunks
  BY <1>6, EndChunksStep
<1>7. CASE \E a \in Archetypes : DefragArch(a)
  BY <1>7, DefragArchStep
<1>8. CASE DefragStep
  BY <1>8, DefragStepStep
<1>9. CASE EndDefrag
  BY <1>9, EndDefragStep
<1>10. CASE KeepArch
  BY <1>10, KeepArchStep
<1>11. CASE AgeArch
  BY <1>11, AgeArchStep
<1>12. CASE DropArch
  BY <1>12, DropArchStep
<1>13. CASE EndCleanup
  BY <1>13, EndCleanupStep
<1>. QED  BY <1>1, <1>2, <1>3, <1>4, <1>5, <1>6, <1>7, <1>8, <1>9, <1>10, <1>11, <1>12, <1>13
          DEF Cleanup

(* Every step keeps the invariant, once immortal archetypes are not        *)
(* dropped.                                                                *)
LEMMA NextInvariant ==
  ASSUME IInv, CarefulStorage, [Next]_vars
  PROVE  IInv'
<1>1. ASSUME NEW e \in Entities, NEW a \in Archetypes, Add(e, a)
      PROVE  IInv'
  BY <1>1, AddStep
<1>2. ASSUME NEW e \in Entities, NEW a \in Archetypes, Move(e, a)
      PROVE  IInv'
  BY <1>2, MoveStep
<1>3. ASSUME NEW e \in Entities, Del(e)
      PROVE  IInv'
  BY <1>3, DelStep
<1>4. ASSUME NEW e \in Entities, NEW on \in BOOLEAN, Enable(e, on)
      PROVE  IInv'
  BY <1>4, EnableStep
<1>5. ASSUME NEW e \in Entities, NEW f \in Entities, Sort(e, f)
      PROVE  IInv'
  BY <1>5, SortStep DEF CarefulStorage
<1>6. ASSUME NEW e \in Entities, NEW n, SetLifespan(e, n)
      PROVE  IInv'
  BY <1>6, SetLifespanStep
<1>7. ASSUME NEW R \in SUBSET Dropped, FrameCleanup(R)
      PROVE  IInv'
  BY <1>7, FrameCleanupStep DEF CarefulStorage
<1>8. CASE Cleanup
  BY <1>8, CleanupStep
<1>9. CASE UNCHANGED vars
  BY <1>9 DEF vars, IInv, StorageOK, BaseOK, World, LoopsOK, DroppedOK, FinalizeOK, DefragOK,
              DoomedOK, Kept
<1>. QED  BY <1>1, <1>2, <1>3, <1>4, <1>5, <1>6, <1>7, <1>8, <1>9 DEF Next

(* No list is longer than the chunks there are.                            *)
LEMMA NoLonger ==
  ASSUME NEW n \in Nat, NEW f \in [1..n -> Chunks], \A i, j \in 1..n : f[i] = f[j] => i = j
  PROVE  n <= Cardinality(Chunks)
<1>1. f \in Injection(1..n, Chunks)
  BY DEF Injection, IsInjective
<1>2. Cardinality(1..n) <= Cardinality(Chunks)
  BY <1>1, StorageAssumption, FS_Injection
<1>3. Cardinality(1..n) = IF 1 > n THEN 0 ELSE n - 1 + 1
  BY FS_Interval
<1>4. Cardinality(1..n) = n
  BY <1>3
<1>. QED  BY <1>2, <1>4

(* The invariant implies the types the run checks.                         *)
LEMMA TypesHold == IInv => TypeOK
<1> SUFFICES ASSUME IInv
             PROVE  TypeOK
  OBVIOUS
<1> DEFINE max == Cardinality(Chunks)
<1>1. /\ World \in Worlds /\ ListOK(World) /\ RowsOK(World) /\ QueueOK(World)
      /\ Agree(World, NoRow, {})
  BY DEF IInv, StorageOK, BaseOK
<1>2. /\ arch \in [Archetypes -> ArchSet] /\ chunk \in [Chunks -> ChunkSet]
      /\ rec \in [Entities -> RecordSet] /\ queue \in Seq(EntrySet)
  BY <1>1, Parts, WorldParts
<1>3. max \in Nat
  BY StorageAssumption, FS_CardinalityType
<1>4. ASSUME NEW c \in Chunks
      PROVE  chunk[c].idx <= max
  <2>1. chunk[c].idx \in Nat
    BY <1>1, ChunkFields, WorldParts
  <2>2. CASE chunk[c].live
    <3> DEFINE list == arch[c[1]].list
    <3>1. c[1] \in Archetypes
      BY ChunkOfArch
    <3>2. list \in Seq(Chunks) /\ Len(list) \in Nat
      BY <1>1, <3>1, ArchFields, WorldParts
    <3>3. list \in [1..Len(list) -> Chunks]
      BY <3>2, LenProperties
    <3>4. \A i \in 1..Len(list) : chunk[list[i]].idx = i
      BY <1>1, <3>1, WorldParts DEF ListOK, ListsOK
    <3>5. \A i, j \in 1..Len(list) : list[i] = list[j] => i = j
      BY <3>4
    <3>6. Len(list) <= max
      <4> HIDE DEF list, max
      <4>1. Len(list) <= Cardinality(Chunks)
        BY <3>2, <3>3, <3>5, NoLonger
      <4>. QED  BY <4>1 DEF max
    <3>7. chunk[c].idx \in 1..Len(list)
      BY <1>1, <2>2, ChunkListed, WorldParts
    <3> HIDE DEF list, max
    <3>. QED  BY <1>3, <2>1, <3>2, <3>6, <3>7
  <2>3. CASE ~chunk[c].live
    <3>1. chunk[c] = NoChunk
      BY <1>1, <2>3, WorldParts DEF ListOK, PlacesOK
    <3>2. NoChunk.idx = 0
      BY DEF NoChunk
    <3> HIDE DEF max
    <3>. QED  BY <1>3, <3>1, <3>2
  <2>. QED  BY <2>2, <2>3
<1>5. Len(queue) \in Nat /\ Len(queue) <= max
  <2> DEFINE f == [i \in 1..Len(queue) |-> queue[i].chunk]
  <2>1. Len(queue) \in Nat /\ \A i \in 1..Len(queue) : queue[i].chunk \in Chunks
    BY <1>1, QueueFields, WorldParts
  <2>2. f \in [1..Len(queue) -> Chunks]
    BY <2>1
  <2>3. \A i \in 1..Len(queue) : chunk[f[i]].slot = i
    BY <1>1, WorldParts DEF QueueOK
  <2> HIDE DEF f, max
  <2>4. \A i, j \in 1..Len(queue) : f[i] = f[j] => i = j
    BY <2>3
  <2>5. Len(queue) <= Cardinality(Chunks)
    BY <2>1, <2>2, <2>4, NoLonger
  <2>. QED  BY <2>1, <2>5 DEF max
<1>6. ASSUME NEW c \in Chunks
      PROVE  chunk[c].slot <= max
  <2>1. chunk[c].slot \in Nat
    BY <1>1, ChunkFields, WorldParts
  <2>2. chunk[c].slot # 0 => chunk[c].slot <= Len(queue)
    BY <1>1, WorldParts DEF QueueOK
  <2> HIDE DEF max
  <2>. QED  BY <1>3, <1>5, <2>1, <2>2
<1>7. ASSUME NEW c \in Chunks
      PROVE  chunk[c].rows \in Seq(Rows)
  <2> DEFINE s == chunk[c].rows
  <2>1. s \in Seq(RawRows)
    BY <1>1, RowsOfChunk, WorldParts
  <2>2. \A i \in 1..Len(s) : s[i] \in Rows
    <3> SUFFICES ASSUME NEW i \in 1..Len(s)
                 PROVE  s[i] \in Rows
      OBVIOUS
    <3>1. s[i] \in RawRows /\ s[i].ent \in Entities
      BY <1>1, RowsOfChunk, WorldParts
    <3>2. s[i].val = s[i].ent
      BY <1>1, WorldParts, NoRowInChunk DEF Agree, RowsNamed
    <3> HIDE DEF s
    <3>. QED  BY <3>1, <3>2 DEF RawRows, Rows
  <2> HIDE DEF s
  <2>3. s \in [1..Len(s) -> Rows] /\ Len(s) \in Nat
    BY <2>1, <2>2, LenProperties
  <2>4. s \in Seq(Rows)
    BY <2>3
  <2>. QED  BY <2>4 DEF s
<1>8. \A c \in Chunks : /\ chunk[c].first <= Len(chunk[c].rows)
                        /\ Len(chunk[c].rows) <= Capacity[c[1]]
                        /\ chunk[c].enabled < CountMax /\ chunk[c].life <= ChunkLife
  BY <1>1, WorldParts DEF RowsOK
<1>9. CountMax \in Nat /\ ChunkLife \in Nat
  BY StorageAssumption
<1>10. chunk \in [Chunks -> [live : BOOLEAN, rows : Seq(Rows), first : Nat,
                             enabled : 0..(CountMax - 1), idx : 0..max, life : 0..ChunkLife,
                             slot : 0..max]]
  <2> SUFFICES ASSUME NEW c \in Chunks
               PROVE  chunk[c] \in [live : BOOLEAN, rows : Seq(Rows), first : Nat,
                                    enabled : 0..(CountMax - 1), idx : 0..max,
                                    life : 0..ChunkLife, slot : 0..max]
    BY <1>2
  <2> HIDE DEF max
  <2>1. /\ chunk[c].enabled \in 0..(CountMax - 1) /\ chunk[c].idx \in 0..max
        /\ chunk[c].life \in 0..ChunkLife /\ chunk[c].slot \in 0..max
    <3>1. /\ chunk[c].enabled \in Nat /\ chunk[c].idx \in Nat /\ chunk[c].life \in Nat
          /\ chunk[c].slot \in Nat
      BY <1>1, ChunkFields, WorldParts
    <3>. QED  BY <1>3, <1>4, <1>6, <1>8, <1>9, <3>1
  <2>2. chunk[c] \in ChunkSet
    BY <1>2
  <2>. QED  BY <1>7, <2>1, <2>2 DEF ChunkSet
<1>. QED  BY <1>2, <1>8, <1>10 DEF TypeOK, IInv, LoopsOK, ArchSet, RecordSet, EntrySet, max

(* The invariant implies that records and rows agree.                      *)
LEMMA RecordsHold == IInv => RecordsAgree
<1> SUFFICES ASSUME IInv
             PROVE  RecordsAgree
  OBVIOUS
<1>1. /\ World \in Worlds /\ ListOK(World) /\ Agree(World, NoRow, {}) /\ StorageOK(World)
  BY DEF IInv, StorageOK, BaseOK
<1>2. ASSUME NEW e \in Entities, Valid(e)
      PROVE  LET r == rec[e]
             IN /\ Listed(r.arch, r.chunk)
                /\ r.row \in DOMAIN chunk[r.chunk].rows
                /\ chunk[r.chunk].rows[r.row] = [ent |-> e, val |-> e]
  <2> DEFINE c == rec[e].chunk
             i == rec[e].row
  <2>1. IsValid(World, e)
    BY <1>2, ValidHere
  <2>2. /\ rec[e].arch \in Archetypes /\ c \in Chunks /\ c[1] = rec[e].arch
        /\ i \in 1..Len(chunk[c].rows) /\ chunk[c].rows[i].ent = e /\ chunk[c].live
    BY Zenon, <1>1, <2>1, RowHere
  <2>3. /\ chunk[c].rows \in Seq(RawRows) /\ chunk[c].rows[i] \in RawRows
    BY <1>1, <2>2, RowsOfChunk, WorldParts
  <2>4. chunk[c].rows[i].val = e
    BY <1>1, <2>2, NoRowInChunk, WorldParts DEF Agree, RowsNamed
  <2>5. chunk[c].rows[i] = [ent |-> e, val |-> e]
    BY <2>2, <2>3, <2>4 DEF RawRows
  <2>6. /\ chunk[c].idx \in 1..Len(arch[c[1]].list)
        /\ arch[c[1]].list[chunk[c].idx] = c
    BY <1>1, <2>2, ChunkListed, WorldParts
  <2>7. arch[c[1]].list \in Seq(Chunks)
    BY <1>1, <2>2, ArchFields, WorldParts
  <2>8. Listed(rec[e].arch, c)
    BY Zenon, <2>2, <2>6, <2>7, LenProperties DEF Listed
  <2>9. i \in DOMAIN chunk[c].rows
    BY <2>2, <2>3, LenProperties
  <2>. QED  BY <2>5, <2>8, <2>9
<1>3. ASSUME NEW a \in Archetypes, NEW c \in Chunks, Listed(a, c), ~arch[a].req,
             NEW i \in DOMAIN chunk[c].rows
      PROVE  LET r == rec[chunk[c].rows[i].ent] IN r.arch = a /\ r.chunk = c /\ r.row = i
  <2>1. arch[a].list \in Seq(Chunks) /\ chunk[c].rows \in Seq(RawRows)
    BY <1>1, ArchFields, RowsOfChunk, WorldParts
  <2>2. PICK j \in 1..Len(arch[a].list) : arch[a].list[j] = c
    BY <1>3, <2>1, LenProperties DEF Listed
  <2>3. c[1] = a
    BY <1>1, <2>2, WorldParts DEF ListOK, ListsOK
  <2>4. i \in 1..Len(chunk[c].rows)
    BY <2>1, LenProperties
  <2>. QED  BY <1>1, <2>3, <2>4, NoRowInChunk, WorldParts DEF Agree, RowsNamed, NamedBy
<1>. QED  BY <1>2, <1>3 DEF RecordsAgree

(* A chunk that exists is in the list of its archetype.                    *)
LEMMA ListedChunk ==
  ASSUME IInv, NEW c \in Chunks, chunk[c].live
  PROVE  c[1] \in Archetypes /\ Listed(c[1], c)
<1>1. World \in Worlds /\ ListOK(World)
  BY DEF IInv, StorageOK, BaseOK
<1>2. /\ chunk[c].idx \in 1..Len(arch[c[1]].list)
      /\ arch[c[1]].list[chunk[c].idx] = c
  BY <1>1, ChunkListed, WorldParts
<1>3. c[1] \in Archetypes
  BY ChunkOfArch
<1>4. arch[c[1]].list \in Seq(Chunks)
  BY <1>1, <1>3, ArchFields, WorldParts
<1>. QED  BY <1>2, <1>3, <1>4, LenProperties DEF Listed

(* The invariant implies that chunks, lists and queues agree.              *)
LEMMA QueuesHold == IInv => QueuesAgree
<1> SUFFICES ASSUME IInv
             PROVE  QueuesAgree
  OBVIOUS
<1>1. /\ World \in Worlds /\ ListOK(World) /\ QueueOK(World) /\ EmptyOK(World, {})
  BY DEF IInv, StorageOK, BaseOK
<1>2. ASSUME NEW a \in Archetypes, NEW i \in DOMAIN arch[a].list
      PROVE  LET c == arch[a].list[i] IN chunk[c].live /\ chunk[c].idx = i
  <2>1. arch[a].list \in Seq(Chunks)
    BY <1>1, ArchFields, WorldParts
  <2>2. i \in 1..Len(arch[a].list)
    BY <2>1, LenProperties
  <2>. QED  BY <1>1, <2>2, WorldParts DEF ListOK, ListsOK
<1>3. DOMAIN queue = 1..Len(queue) /\ Len(queue) \in Nat
  BY <1>1, QueueFields, LenProperties, WorldParts
<1>4. ASSUME NEW i \in DOMAIN queue
      PROVE  Listed(queue[i].arch, queue[i].chunk) /\ chunk[queue[i].chunk].slot = i
  <2>1. /\ queue[i].chunk \in Chunks
    BY <1>1, <1>3, QueueFields, WorldParts
  <2>2. /\ queue[i].arch = queue[i].chunk[1] /\ chunk[queue[i].chunk].live
        /\ chunk[queue[i].chunk].slot = i
    BY <1>1, <1>3, WorldParts DEF QueueOK
  <2>3. Listed(queue[i].chunk[1], queue[i].chunk)
    BY <2>1, <2>2, ListedChunk
  <2>. QED  BY <2>2, <2>3
<1>5. ASSUME NEW c \in Chunks, chunk[c].live
      PROVE  /\ \E a \in Archetypes : Listed(a, c)
             /\ chunk[c].rows = <<>> => chunk[c].slot # 0
             /\ chunk[c].slot \in 0..Len(queue)
             /\ chunk[c].slot = 0 <=> chunk[c].life = 0
             /\ chunk[c].slot # 0 => queue[chunk[c].slot].chunk = c
  <2>1. \E a \in Archetypes : Listed(a, c)
    BY <1>5, ListedChunk
  <2>2. chunk[c].rows = <<>> => chunk[c].slot # 0
    BY <1>1, <1>5, WorldParts DEF EmptyOK
  <2>3. /\ chunk[c].slot = 0 <=> chunk[c].life = 0
        /\ chunk[c].slot # 0 => chunk[c].slot <= Len(queue) /\ queue[chunk[c].slot].chunk = c
    BY <1>1, WorldParts DEF QueueOK
  <2>4. chunk[c].slot \in Nat
    BY <1>1, ChunkFields, WorldParts
  <2>5. chunk[c].slot \in 0..Len(queue)
    BY <1>3, <2>3, <2>4
  <2>. QED  BY <2>1, <2>2, <2>3, <2>5
<1>6. ASSUME phase = "finalize", at <= Len(raw)
      PROVE  Listed(cur, raw[at])
  <2> DEFINE list == arch[cur].list
             h == IF at <= Len(list) THEN at ELSE Len(list)
  <2>1. raw \in Seq(Chunks) /\ Len(raw) \in Nat /\ at \in 1..Len(raw)
    <3>1. raw \in Seq(Chunks) /\ Len(raw) \in Nat /\ at \in Nat \ {0}
      BY LenProperties DEF IInv, LoopsOK
    <3>. QED  BY <1>6, <3>1
  <2>2. cur # None
    <3>1. raw # <<>>
      BY <2>1
    <3>. QED  BY <1>6, <3>1 DEF IInv, FinalizeOK
  <2>3. /\ Len(list) = Len(raw) - at + 1
        /\ \A j \in 1..Len(list) : raw[j] = list[j]
        /\ \A j \in at..Len(raw) : j > Len(list) => raw[j] = list[Len(raw) - j + 1]
    BY <1>6, <2>2 DEF IInv, FinalizeOK
  <2>4. cur \in Archetypes
    BY <2>2 DEF IInv, LoopsOK
  <2>5. list \in Seq(Chunks) /\ Len(list) \in Nat
    BY <1>1, <2>4, ArchFields, WorldParts
  <2> HIDE DEF list
  <2>6. h \in 1..Len(list) /\ raw[at] = list[h]
    <3>1. CASE at <= Len(list)
      <4>1. h = at /\ at \in 1..Len(list)
        BY <2>1, <2>5, <3>1
      <4>. QED  BY <2>3, <4>1
    <3>2. CASE ~(at <= Len(list))
      <4>1. /\ h = Len(list) /\ Len(list) \in 1..Len(list) /\ at \in at..Len(raw)
            /\ at > Len(list) /\ Len(raw) - at + 1 = Len(list)
        BY <2>1, <2>3, <2>5, <3>2
      <4>. QED  BY <2>3, <4>1
    <3>. QED  BY <3>1, <3>2
  <2> HIDE DEF h
  <2>. QED  BY <2>5, <2>6, LenProperties DEF Listed, list
<1>7. ChunksQueued
  BY <1>2, <1>4, <1>5, <1>6 DEF ChunksQueued
<1>8. doomed \in Seq(Archetypes) /\ DoomedOK
  BY DEF IInv, LoopsOK
<1>9. DOMAIN doomed = 1..Len(doomed) /\ \A i \in 1..Len(doomed) : doomed[i] \in Archetypes
  BY <1>8, LenProperties, ElementOfSeq
<1>10. ASSUME NEW i \in DOMAIN doomed, arch[doomed[i]].list = <<>>
       PROVE  arch[doomed[i]].life > 0
  <2>1. ~Kept(i)
    <3>1. ASSUME NEW c \in Chunks, c[1] = doomed[i]
          PROVE  chunk[c].rows = <<>>
      <4>1. ~chunk[c].live
        <5>1. \A j \in 1..Len(arch[doomed[i]].list) : FALSE
          BY <1>10
        <5>. QED  BY <1>1, <3>1, <5>1, ChunkListed, WorldParts
      <4>2. chunk[c] = NoChunk
        BY <1>1, <4>1, WorldParts DEF ListOK, PlacesOK
      <4>. QED  BY <4>2, BlankNoChunk
    <3>. QED  BY <1>10, <3>1 DEF Kept
  <2>2. arch[doomed[i]].life \in Nat
    BY <1>1, <1>9, ArchFields, WorldParts
  <2>. QED  BY <1>8, <1>9, <2>1, <2>2 DEF DoomedOK
<1>11. ArchetypesQueued
  BY <1>8, <1>9, <1>10 DEF ArchetypesQueued, DoomedOK
<1>. QED  BY <1>7, <1>11 DEF QueuesAgree

(* The invariant implies that the free index finds room.                   *)
LEMMA RoomHolds == IInv => RoomIsFound
BY WorldParts DEF IInv, StorageOK, BaseOK, RoomOK, RoomIsFound

(* The invariant holds in every reachable state.                           *)
LEMMA Inductive ==
  ASSUME CarefulStorage
  PROVE  Spec => []IInv
<1>1. Init => IInv
  BY InitInvariant
<1>2. IInv /\ [Next]_vars => IInv'
  BY NextInvariant
<1>. QED  BY <1>1, <1>2, PTL DEF Spec

(* The records, rows, lists and loop variables of the storage have their   *)
(* types in every reachable state: the disabled rows of a chunk are some of*)
(* its rows, which fit its capacity, and its counters fit their widths.    *)
THEOREM TypeCorrect ==
  ASSUME CarefulStorage
  PROVE  Spec => []TypeOK
BY Inductive, TypesHold, PTL

(* However rows are swapped, moved, removed and defragmented, the container*)
(* of a valid entity names the archetype, chunk and row that hold the      *)
(* entity and its data, and no row is named by two.  It is so of programs  *)
(* that are careful: they sort no archetype one of whose counters says     *)
(* more rows than there are (sort_entities would leave the chunk), though  *)
(* counters may have gone wrong, and drop no archetype that waits for its  *)
(* deletion and was given an infinite lifespan (it would be revived        *)
(* without its chunks).                                                    *)
THEOREM RecordsCorrect ==
  ASSUME CarefulStorage
  PROVE  Spec => []RecordsAgree
BY Inductive, RecordsHold, PTL

(* The lists of the archetypes and the deletion queues, which are erased   *)
(* from by swapping with the last element, hold every chunk and archetype  *)
(* they should, once, at the index it knows.                               *)
THEOREM QueuesCorrect ==
  ASSUME CarefulStorage
  PROVE  Spec => []QueuesAgree
BY Inductive, QueuesHold, PTL

(* Archetype::foc_free_chunk starts its search at m_firstFreeChunkIdx and  *)
(* misses no chunk with room: none of those before the index has any.      *)
THEOREM RoomCorrect ==
  ASSUME CarefulStorage
  PROVE  Spec => []RoomIsFound
BY Inductive, RoomHolds, PTL

-----------------------------------------------------------------------------
(* The refinement.  The place that World::valid and the record say an      *)
(* entity is in is the archetype of its record: its row always names it.   *)
LEMMA PlaceKnown == IInv => Place = [e \in Entities |-> PlaceIn(World, e)]
<1> SUFFICES ASSUME IInv, NEW e \in Entities, Valid(e)
             PROVE  rec[e].row <= Len(chunk[rec[e].chunk].rows)
                    /\ chunk[rec[e].chunk].rows[rec[e].row].ent = e
  BY WorldParts DEF Place, PlaceIn, IsValid, Valid
<1>1. StorageOK(World) /\ IsValid(World, e)
  BY WorldParts DEF IInv, IsValid, Valid
<1>2. /\ World.rec[e].row \in 1..Len(World.chunk[World.rec[e].chunk].rows)
      /\ World.rec[e].row \in Nat
      /\ World.chunk[World.rec[e].chunk].rows[World.rec[e].row].ent = e
  BY Zenon, <1>1, ValidRow
<1>. QED  BY <1>2, WorldParts

(* The same of the next state.                                             *)
LEMMA PlaceKnownNext == IInv' => Place' = [e \in Entities |-> PlaceIn(World', e)]
<1>1. (IInv => Place = [e \in Entities |-> PlaceIn(World, e)])'
  BY PlaceKnown, PTL
<1>2. [e \in Entities |-> PlaceIn(World, e)]' = [e \in Entities |-> PlaceIn(World', e)]
  BY DEF PlaceIn, IsValid
<1>. QED  BY <1>1, <1>2

(* In the initial state no entity has a place.                             *)
LEMMA PlaceInit == Init => Abstract!SInit
BY DEF Init, NoRecord, Place, Valid, Abstract!SInit

(* A step that changes the place of one entity is seen as one.             *)
LEMMA PlacedMaps ==
  ASSUME IInv, IInv', NEW e \in Entities, NEW a, Placed(e, a)
  PROVE  Place' = [Place EXCEPT ![e] = a]
<1>1. /\ Place = [h \in Entities |-> PlaceIn(World, h)]
      /\ Place' = [h \in Entities |-> PlaceIn(World', h)]
  BY PlaceKnown, PlaceKnownNext
<1>. QED  BY <1>1 DEF Placed

(* A step that changes no place is a stutter of the abstract store.        *)
LEMMA StillMaps ==
  ASSUME IInv, IInv', Still
  PROVE  Place' = Place
<1>1. /\ Place = [h \in Entities |-> PlaceIn(World, h)]
      /\ Place' = [h \in Entities |-> PlaceIn(World', h)]
  BY PlaceKnown, PlaceKnownNext
<1>. QED  BY <1>1 DEF Still

(* Every step of the storage is one of the abstract store or a stutter.    *)
LEMMA StepMaps ==
  ASSUME IInv, CarefulStorage, [Next]_vars
  PROVE  [Abstract!SNext]_Place
<1>0. IInv'
  BY NextInvariant
<1>k. Place = [h \in Entities |-> PlaceIn(World, h)]
  BY PlaceKnown
<1>1. ASSUME NEW e \in Entities, NEW a \in Archetypes, Add(e, a)
      PROVE  Abstract!SNext
  <2>1. Place' = [Place EXCEPT ![e] = a]
    BY <1>0, <1>1, AddStep, PlacedMaps
  <2>2. Place[e] = None
    BY Zenon, <1>1, <1>k, WorldParts DEF Add, PlaceIn, IsValid
  <2>3. Abstract!Store(e, a)
    BY <2>1, <2>2 DEF Abstract!Store
  <2>. QED  BY <2>3 DEF Abstract!SNext
<1>2. ASSUME NEW e \in Entities, NEW a \in Archetypes, Move(e, a)
      PROVE  Abstract!SNext
  <2>1. Place' = [Place EXCEPT ![e] = a]
    BY <1>0, <1>2, MoveStep, PlacedMaps
  <2>2. Place[e] \notin {None, a}
    BY <1>2, <1>k, WorldParts DEF Move, PlaceIn, IsValid, Valid
  <2>3. Abstract!Change(e, a)
    BY <2>1, <2>2 DEF Abstract!Change
  <2>. QED  BY <2>3 DEF Abstract!SNext
<1>3. ASSUME NEW e \in Entities, Del(e)
      PROVE  Abstract!SNext
  <2>1. Place' = [Place EXCEPT ![e] = None]
    BY <1>0, <1>3, DelStep, PlacedMaps
  <2>2. Place[e] # None
    BY <1>3, <1>k, WorldParts DEF Del, PlaceIn, IsValid, Valid
  <2>3. Abstract!Remove(e)
    BY <2>1, <2>2 DEF Abstract!Remove
  <2>. QED  BY <2>3 DEF Abstract!SNext
<1>4. ASSUME NEW e \in Entities, NEW on \in BOOLEAN, Enable(e, on)
      PROVE  Place' = Place
  BY <1>0, <1>4, EnableStep, StillMaps
<1>5. ASSUME NEW e \in Entities, NEW f \in Entities, Sort(e, f)
      PROVE  Place' = Place
  BY <1>0, <1>5, SortStep, StillMaps DEF CarefulStorage
<1>6. ASSUME NEW e \in Entities, NEW n, SetLifespan(e, n)
      PROVE  Place' = Place
  BY <1>0, <1>6, SetLifespanStep, StillMaps
<1>7. ASSUME NEW R \in SUBSET Dropped, FrameCleanup(R)
      PROVE  Abstract!SNext
  <2>1. \A e \in Entities :
          PlaceIn(World', e) = IF PlaceIn(World, e) \in R THEN None ELSE PlaceIn(World, e)
    BY <1>7, FrameCleanupStep DEF CarefulStorage
  <2>2. Place' = [h \in Entities |-> PlaceIn(World', h)]
    BY <1>0, PlaceKnownNext
  <2>3. Abstract!Drop(R)
    BY <1>k, <2>1, <2>2 DEF Abstract!Drop
  <2>. QED  BY <2>3, StorageAssumption DEF Abstract!SNext
<1>8. CASE Cleanup
  <2>1. Place' = Place
    BY <1>0, <1>8, CleanupStep, StillMaps
  <2>. QED  BY <2>1
<1>9. CASE UNCHANGED vars
  <2>1. Place' = Place
    BY <1>9 DEF vars, Place, Valid
  <2>. QED  BY <2>1
<1>. QED  BY <1>1, <1>2, <1>3, <1>4, <1>5, <1>6, <1>7, <1>8, <1>9 DEF Next

(* The chunk storage implements the map from entities to archetypes that   *)
(* EntityStore states: adding, moving and removing an entity change its    *)
(* own place and no other, dropping archetypes empties exactly their       *)
(* places, and enabling, sorting, defragmentation and every step of the    *)
(* garbage collection change none.  Of sorting this holds where the chunks'*)
(* counters say how many rows there are, which CarefulStorage asks for.    *)
THEOREM Refinement ==
  ASSUME CarefulStorage
  PROVE  Spec => ImplementsStore
<1>1. Init => Abstract!SInit
  BY PlaceInit
<1>2. IInv /\ [Next]_vars => [Abstract!SNext]_Place
  BY StepMaps
<1>3. Spec => []IInv
  BY Inductive
<1>. QED  BY <1>1, <1>2, <1>3, PTL DEF Spec, ImplementsStore, Abstract!SSpec
=============================================================================

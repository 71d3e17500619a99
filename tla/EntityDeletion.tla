--------------------------- MODULE EntityDeletion ---------------------------
(***************************************************************************)
(* How ecs::World deletes entities: World::del and its cleanup rules, the  *)
(* reference counts of SafeEntity, and frame_cleanup, which recycles ids   *)
(* once no archetype mentions them.                                        *)
(*                                                                         *)
(* An entity is a slot of the entity container and a generation.  Its      *)
(* archetype is the set of ids it has: tags and fragmenting pairs, which   *)
(* name their ends by slot alone, as in the code.  An archetype stays in   *)
(* the world after its last entity left, until garbage collection finds    *)
(* that its lifespan ended.  ChildOf is the built-in relation with the     *)
(* rule (OnDeleteTarget, Delete); all other entities have the default      *)
(* rules.  The world is used from one thread; World::del is split into one *)
(* step per pair because the order in which it visits them is that of a    *)
(* hash set.                                                               *)
(***************************************************************************)
EXTENDS Integers, FiniteSets

CONSTANTS
  Slots,       \* ids of entities
  ChildOf,     \* the built-in relation, never deleted
  None,
  Tags,        \* slots the program adds as tags
  Links,       \* pairs <<relation, target>> of slots it adds
  FormAgain,   \* TRUE: also pairs whose record still waits for its deletion
  Recycled,    \* bound: slots used again once, the others only once
  Held,        \* bound: slots SafeEntities refer to
  MaxIds,      \* bound: ids of one entity
  MaxArchs,    \* bound: archetypes while building
  MaxSafe      \* bound: SafeEntities of one entity

Relations == Slots \cup {ChildOf}

ASSUME WorldAssumption ==
  /\ IsFiniteSet(Slots)
  /\ ChildOf \notin Slots /\ None \notin Slots
  /\ Tags \subseteq Slots
  /\ Links \subseteq Relations \X Slots
  /\ FormAgain \in BOOLEAN
  /\ Recycled \subseteq Slots /\ Held \subseteq Slots
  /\ MaxIds \in Nat /\ MaxArchs \in Nat /\ MaxSafe \in Nat

VARIABLES
  life,      \* state of a slot: "requested" is queued in m_reqEntitiesToDel,
             \* "dropped" lost its chunk when its archetype was deleted
  gen,       \* generation of the slot
  ids,       \* ids of its entity, which are its archetype
  refs,      \* EntityContainer::refCnt
  released,  \* slots with flag RefDecreased
  safe,      \* how many SafeEntity objects refer to a slot
  deletes,   \* slots with flag OnDeleteTarget_Delete
  archs,     \* the archetypes of the world
  used,      \* those that have, or had, a chunk
  reqArchs,  \* those with the delete-requested flag
  reqQueue,  \* m_reqArchetypesToDel
  pairs,     \* pairs with a record
  pairQueue, \* those queued in m_reqEntitiesToDel
  lookup,    \* m_pairLookup
  deleting,  \* the entity World::del works on
  phase,     \* as a "relation" of pairs, then as their "target"
  todo,      \* pairs it still has to delete
  kids       \* history: the children that entity had

vars == <<life, gen, ids, refs, released, safe, deletes, archs, used, reqArchs,
          reqQueue, pairs, pairQueue, lookup, deleting, phase, todo, kids>>

counts == <<refs, released, safe>>
slots == <<life, gen>>
storage == <<ids, archs, used>>
requests == <<reqArchs, reqQueue>>
records == <<pairs, pairQueue, lookup>>
call == <<deleting, phase, todo, kids>>

Tag(s) == [tag |-> s, gen |-> gen[s]]
Pair(r, t) == [rel |-> r, tgt |-> t]
PairIds == [rel : Relations, tgt : Slots]
TagIds == [tag : Slots, gen : Nat]
PairsTo(t) == {p \in PairIds : p.tgt = t}
About(s) == {p \in PairIds : p.rel = s \/ p.tgt = s}

Init ==
  /\ life = [s \in Slots |-> "free"]
  /\ gen = [s \in Slots |-> 0]
  /\ ids = [s \in Slots |-> {}]
  /\ refs = [s \in Slots |-> 0]
  /\ released = {}
  /\ safe = [s \in Slots |-> 0]
  /\ deletes = {}
  /\ archs = {{}} /\ used = {{}}
  /\ reqArchs = {} /\ reqQueue = {}
  /\ pairs = {} /\ pairQueue = {} /\ lookup = {}
  /\ deleting = None /\ phase = "relation" /\ todo = {} /\ kids = {}

(* World::valid: a requested archetype takes its entities along. *)
Valid(s) == life[s] = "live" /\ ids[s] \notin reqArchs

Idle == deleting = None

-----------------------------------------------------------------------------
(* Building entities                                                       *)

(* World::add: take a slot from the free list. *)
Spawn(s) ==
  /\ Idle
  /\ life[s] = "free"
  /\ gen[s] = 0 \/ (gen[s] = 1 /\ s \in Recycled)
  /\ life' = [life EXCEPT ![s] = "live"]
  /\ refs' = [refs EXCEPT ![s] = 1]
  /\ released' = released \ {s}
  /\ deletes' = deletes \ {s}
  /\ UNCHANGED <<gen, ids, safe, archs, used, requests, records, call>>

(* EntityBuilder::commit: the entity moves to another archetype; path are  *)
(* the archetypes found or created on the way.                             *)
MoveTo(e, new, path) ==
  /\ ids' = [ids EXCEPT ![e] = new]
  /\ archs' = archs \cup path \cup {new}
  /\ used' = used \cup {new}
  /\ Cardinality(archs') <= MaxArchs

AddTag(e, s) ==
  /\ Idle
  /\ e # s /\ Valid(e) /\ Valid(s)
  /\ Tag(s) \notin ids[e]
  /\ Cardinality(ids[e]) < MaxIds
  /\ MoveTo(e, ids[e] \cup {Tag(s)}, {})
  /\ UNCHANGED <<slots, counts, deletes, requests, records, call>>

RemoveTag(e, s) ==
  /\ Idle
  /\ Valid(e)
  /\ Tag(s) \in ids[e]
  /\ MoveTo(e, ids[e] \ {Tag(s)}, {})
  /\ UNCHANGED <<slots, counts, deletes, requests, records, call>>

(* The target of a removed ChildOf pair loses its flag, whoever else is    *)
(* still its child; a pair whose deletion is requested is only taken off.  *)
Unflagged(gone) ==
  {p.tgt : p \in {q \in gone : q.rel = ChildOf /\ q \notin pairQueue /\ Valid(q.tgt)}}

(* add of a pair: its record and its lookup entry are created unless there *)
(* is a record, an exclusive relation gives up its old target, and the     *)
(* target of a ChildOf pair is flagged.  Bound: one pair per target.       *)
AddPair(e, r, t) ==
  LET p == Pair(r, t)
      old == {q \in ids[e] \cap PairIds : r = ChildOf /\ q.rel = ChildOf}
      new == (ids[e] \ old) \cup {p}
  IN /\ Idle
     /\ e # r /\ e # t /\ Valid(e) /\ Valid(t)
     /\ r \in {ChildOf} \cup {s \in Slots : Valid(s)}
     /\ p \notin ids[e]
     /\ ~FormAgain => p \notin pairQueue
     /\ Cardinality(new) <= MaxIds
     /\ new \cap PairsTo(t) = {p}
     /\ pairs' = pairs \cup {p}
     /\ lookup' = IF p \in pairs THEN lookup ELSE lookup \cup {p}
     /\ deletes' = (deletes \ Unflagged(old)) \cup {t : x \in {r} \cap {ChildOf}}
     /\ MoveTo(e, new, {ids[e] \ old})
     /\ UNCHANGED <<slots, counts, requests, pairQueue, call>>

RemovePair(e, p) ==
  /\ Idle
  /\ Valid(e)
  /\ p \in ids[e] \cap PairIds
  /\ deletes' = deletes \ Unflagged({p})
  /\ MoveTo(e, ids[e] \ {p}, {})
  /\ UNCHANGED <<slots, counts, requests, records, call>>

-----------------------------------------------------------------------------
(* World::del                                                              *)

(* It first deletes the pairs in which the entity is the relation.         *)
Call(e) ==
  /\ deleting' = e
  /\ phase' = "relation"
  /\ todo' = {p \in lookup : p.rel = e}
  /\ kids' = {c \in Slots : Valid(c) /\ Pair(ChildOf, e) \in ids[c]}

Del(e) ==
  /\ Idle
  /\ Valid(e)
  /\ Call(e)
  /\ UNCHANGED <<slots, counts, deletes, storage, requests, records>>

(* SafeEntity: its constructor and its destructor.  The last reference to  *)
(* go deletes the entity.                                                  *)
Hold(e) ==
  /\ Idle
  /\ e \in Held
  /\ Valid(e)
  /\ safe[e] < MaxSafe
  /\ safe' = [safe EXCEPT ![e] = @ + 1]
  /\ refs' = [refs EXCEPT ![e] = @ + 1]
  /\ UNCHANGED <<slots, released, deletes, storage, requests, records, call>>

Drop(e) ==
  /\ Idle
  /\ Valid(e)
  /\ safe[e] > 0
  /\ safe' = [safe EXCEPT ![e] = @ - 1]
  /\ refs' = [refs EXCEPT ![e] = @ - 1]
  /\ IF refs[e] = 1 THEN Call(e) ELSE UNCHANGED call
  /\ UNCHANGED <<slots, released, deletes, storage, requests, records>>

-----------------------------------------------------------------------------
(* handle_del_entity                                                       *)

(* rem_from_entities: what has an id of X, unless its archetype is         *)
(* requested, moves to the archetype without it.  That archetype is found  *)
(* or created also for an archetype without entities.                      *)
Stripped(where, X, req) ==
  [s \in Slots |-> IF where[s] \in req THEN where[s] ELSE where[s] \ X]

Formed(as, X, req) == as \cup {a \ X : a \in as \ req}

Occupied(where) == {where[s] : s \in {x \in Slots : life[x] = "live"}}

(* The descendants of t in the ChildOf hierarchy, and t.                   *)
Family(t) ==
  LET Closed(D) == \A c \in Slots : \A d \in D :
                     Valid(c) /\ Pair(ChildOf, d) \in ids[c] => c \in D
  IN {s \in Slots : \A D \in SUBSET Slots : t \in D /\ Closed(D) => s \in D}

(* req_del_entities_with(Pair(All, t), Pair(OnDeleteTarget, Delete)):      *)
(* every archetype of children of t, and of the children of a child that   *)
(* has any.                                                                *)
Cascade(t) ==
  LET HasKids(s) == \E c \in Slots : Valid(c) /\ Pair(ChildOf, s) \in ids[c]
      parents == {t} \cup IF Valid(t) THEN {s \in Family(t) : HasKids(s)} ELSE {}
  IN {a \in archs : \E s \in parents : Pair(ChildOf, s) \in a}

Request(as) ==
  /\ reqArchs' = reqArchs \cup as
  /\ reqQueue' = reqQueue \cup (as \ reqArchs)

(* The branch for a pair.  A live target is treated as if it were being    *)
(* deleted: its children are requested, or everything loses its pairs to   *)
(* it.  The mutant forgets the pair itself.                                *)
DelPairTargetOnly(p) ==
  LET cascades == Valid(p.tgt) /\ p.tgt \in deletes
      asked == IF cascades THEN Cascade(p.tgt) ELSE {}
      X == IF Valid(p.tgt) /\ ~cascades THEN PairsTo(p.tgt) ELSE {}
      req == reqArchs \cup asked
  IN /\ p \in todo
     /\ Request(asked)
     /\ ids' = Stripped(ids, X, req)
     /\ archs' = Formed(archs, X, req)
     /\ used' = used \cup Occupied(ids')
     /\ pairQueue' = pairQueue \cup {p}
     /\ todo' = todo \ {p}
     /\ UNCHANGED <<slots, counts, deletes, pairs, lookup, deleting, phase, kids>>

DelPair(p) ==
  LET cascades == Valid(p.tgt) /\ p.tgt \in deletes
      asked == IF cascades THEN Cascade(p.tgt) ELSE {}
      X == (IF Valid(p.tgt) /\ ~cascades THEN PairsTo(p.tgt) ELSE {})
             \cup ({p} \ pairQueue)
      req == reqArchs \cup asked
  IN /\ p \in todo
     /\ Request(asked)
     /\ ids' = Stripped(ids, X, req)
     /\ archs' = Formed(archs, X, req)
     /\ used' = used \cup Occupied(ids')
     /\ pairQueue' = pairQueue \cup {p}
     /\ todo' = todo \ {p}
     /\ UNCHANGED <<slots, counts, deletes, pairs, lookup, deleting, phase, kids>>

(* del_inter(Pair(All, e)): then the pairs in which it is the target, if   *)
(* there still is such an entity.                                          *)
Targets ==
  /\ deleting # None /\ phase = "relation" /\ todo = {}
  /\ phase' = "target"
  /\ todo' = IF Valid(deleting) THEN {p \in lookup : p.tgt = deleting} ELSE {}
  /\ UNCHANGED <<slots, counts, deletes, storage, requests, records, deleting, kids>>

(* The branch for an entity gives up the reference the entity holds to     *)
(* itself, once; while others are left it stays.                           *)
Last == deleting # None /\ phase = "target" /\ todo = {}

ReleaseAgain(e) ==
  /\ refs' = [refs EXCEPT ![e] = @ - 1]
  /\ released' = released \cup {e}

Release(e) ==
  /\ refs' = [refs EXCEPT ![e] = IF e \in released THEN @ ELSE @ - 1]
  /\ released' = released \cup {e}

Return ==
  /\ deleting' = None
  /\ phase' = "relation"
  /\ kids' = {}
  /\ UNCHANGED todo

Keep(e) ==
  /\ Last /\ e = deleting
  /\ Release(e)
  /\ refs'[e] # 0
  /\ Return
  /\ UNCHANGED <<slots, safe, deletes, storage, requests, records>>

(* Otherwise its children are requested, or everything loses its pairs to  *)
(* it; then everything loses the tag, and the entity leaves its chunk and  *)
(* is queued.  An entity whose own archetype was requested is left to it.  *)
Delete(e) ==
  LET cascades == e \in deletes
      asked == IF cascades THEN Cascade(e) ELSE {}
      req == reqArchs \cup asked
      X == IF cascades THEN {} ELSE PairsTo(e)
      left == Stripped(ids, X, req)
      dropped == left[e] \in req
      final == Stripped(left, IF dropped THEN {} ELSE {Tag(e)}, req)
  IN /\ Last /\ e = deleting
     /\ Release(e)
     /\ refs'[e] = 0
     /\ Request(asked)
     /\ life' = [life EXCEPT ![e] = IF dropped THEN @ ELSE "requested"]
     /\ ids' = [final EXCEPT ![e] = IF dropped THEN @ ELSE {}]
     /\ archs' = Formed(Formed(archs, X, req), IF dropped THEN {} ELSE {Tag(e)}, req)
     /\ used' = used \cup Occupied(left) \cup Occupied(final)
     /\ Return
     /\ UNCHANGED <<gen, safe, deletes, records>>

-----------------------------------------------------------------------------
(* del_finalize_entities asks m_entityToArchetypeMap; asking the entities  *)
(* would not do, because empty archetypes stay.                            *)
UnmentionedByEntities(x) == \A s \in Slots : x \notin ids[s]

Unmentioned(x) == \A a \in archs : x \notin a

(* del_finalize_archetypes takes the entities out of the requested          *)
(* archetypes; del_entity is not reached, as they are not valid any more.   *)
Dropped == {s \in Slots : life[s] = "live" /\ ids[s] \in reqQueue}

Freed == {s \in Slots : life[s] = "requested" /\ Unmentioned(Tag(s))}

(* frame_cleanup: del_finalize drops the entities of the requested         *)
(* archetypes and forgets the queued ids no archetype mentions; gc then    *)
(* deletes the requested archetypes and those of the empty ones whose      *)
(* lifespan ends, any of them.  An archetype that never had a chunk is in  *)
(* no list and stays.                                                      *)
Update(expired) ==
  LET goneP == {p \in pairQueue : Unmentioned(p)}
      inUse == {ids[s] : s \in {x \in Slots : life[x] = "live" /\ x \notin Dropped}}
      goneA == (used \ inUse) \cap (reqArchs \cup expired)
  IN /\ Idle
     /\ expired \subseteq used \ (inUse \cup {{}})
     /\ life' = [s \in Slots |-> IF s \in Dropped THEN "dropped"
                                 ELSE IF s \in Freed THEN "free" ELSE life[s]]
     /\ gen' = [s \in Slots |-> IF s \in Freed THEN gen[s] + 1 ELSE gen[s]]
     /\ ids' = [s \in Slots |-> IF s \in Dropped THEN {} ELSE ids[s]]
     /\ pairs' = pairs \ goneP
     /\ pairQueue' = pairQueue \ goneP
     /\ lookup' = lookup \ (goneP \cup UNION {About(s) : s \in Freed})
     /\ archs' = archs \ goneA
     /\ used' = used \ goneA
     /\ reqArchs' = reqArchs \ goneA
     /\ reqQueue' = {}
     /\ UNCHANGED <<counts, deletes, call>>

Next ==
  \/ \E s \in Slots : Spawn(s)
  \/ \E e \in Slots, s \in Tags : AddTag(e, s) \/ RemoveTag(e, s)
  \/ \E e \in Slots : \E l \in Links : AddPair(e, l[1], l[2])
  \/ \E e \in Slots : \E p \in PairIds : RemovePair(e, p)
  \/ \E e \in Slots : Del(e) \/ Hold(e) \/ Drop(e)
  \/ \E p \in todo : DelPair(p)
  \/ Targets
  \/ \E e \in Slots : Keep(e) \/ Delete(e)
  \/ \E expired \in SUBSET used : Update(expired)

Spec == Init /\ [][Next]_vars

-----------------------------------------------------------------------------
(* Type invariant. *)
TypeOK ==
  /\ life \in [Slots -> {"free", "live", "requested", "dropped"}]
  /\ gen \in [Slots -> Nat]
  /\ \A s \in Slots : ids[s] \subseteq TagIds \cup PairIds
  /\ refs \in [Slots -> Nat] /\ safe \in [Slots -> Nat]
  /\ released \subseteq Slots /\ deletes \subseteq Slots
  /\ used \subseteq archs /\ reqArchs \subseteq archs /\ reqQueue \subseteq reqArchs
  /\ Occupied(ids) \subseteq used
  /\ pairQueue \subseteq pairs /\ lookup \subseteq pairs /\ pairs \subseteq PairIds
  /\ deleting \in Slots \cup {None} /\ phase \in {"relation", "target"}
  /\ todo \subseteq lookup /\ kids \subseteq Slots

(* An id is recycled only after every archetype that mentions it is gone:  *)
(* a tag of an archetype is of the slot's present generation, and its      *)
(* pairs have records.                                                     *)
ArchetypeIdsAlive ==
  \A a \in archs :
    /\ \A x \in a \cap TagIds : life[x.tag] # "free" /\ gen[x.tag] = x.gen
    /\ a \cap PairIds \subseteq pairs

(* An entity that World::del deleted, not one its archetype took along.    *)
Gone(s) == life[s] \in {"requested", "free"}

(* README: deleting an entity removes it from everything it was added to,  *)
(* and "all relationship pairs formed by this entity need to be deleted as *)
(* well", because its id is recycled.  Once World::del was called for an   *)
(* entity and its last SafeEntity is gone, it is gone too.                 *)
DeletedIsGone ==
  Idle => \A e \in Slots : Valid(e) =>
    /\ e \notin released \/ safe[e] > 0
    /\ \A x \in ids[e] \cap TagIds : ~Gone(x.tag)
    /\ \A p \in ids[e] \cap PairIds : ~Gone(p.tgt) /\ (p.rel = ChildOf \/ ~Gone(p.rel))

(* SafeEntity: "so long it is around a given entity will not be deleted".  *)
(* Only a requested archetype takes away an entity somebody holds.         *)
HeldSurvives ==
  [][\A e \in Slots : Valid(e) /\ safe[e] > 0
       => Valid(e)' \/ ids'[e] \in reqArchs']_vars

(* README: "if the parent is deleted, all its children are deleted as      *)
(* well".                                                                  *)
ChildrenDieWithParent ==
  [][\A e \in Slots : deleting = e /\ Idle' /\ Gone(e)'
       => \A c \in kids : ~Valid(c)']_vars
=============================================================================

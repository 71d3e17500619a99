------------------------ MODULE EntityDeletionProofs ------------------------
(***************************************************************************)
(* Proofs about module EntityDeletion, for any slots, tags, links and      *)
(* bounds.                                                                 *)
(***************************************************************************)
EXTENDS EntityDeletion, TLAPS

(* The states of a slot, and the ids.                                      *)
Lives == {"free", "live", "requested", "dropped"}
AnyIds == TagIds \cup PairIds

-----------------------------------------------------------------------------
(* The inductive invariant                                                 *)

(* The types.                                                              *)
Typed ==
  /\ life \in [Slots -> Lives] /\ gen \in [Slots -> Nat]
  /\ ids \in [Slots -> SUBSET AnyIds]
  /\ refs \in [Slots -> Nat] /\ safe \in [Slots -> Nat]
  /\ released \subseteq Slots /\ deletes \subseteq Slots
  /\ pairQueue \subseteq pairs /\ lookup \subseteq pairs /\ pairs \subseteq PairIds
  /\ deleting \in Slots \cup {None} /\ phase \in {"relation", "target"}
  /\ todo \subseteq lookup /\ kids \subseteq Slots

(* The archetypes of live entities are in the world and have had chunks.   *)
(* The archetype of entities without ids is always there.                  *)
StorageInv ==
  /\ used \subseteq archs /\ reqArchs \subseteq archs /\ reqQueue \subseteq reqArchs
  /\ {} \in used /\ {} \notin reqArchs
  /\ \A s \in Slots : life[s] = "live" => ids[s] \in used
  /\ \A s \in Slots : life[s] # "live" => ids[s] = {}

(* Between calls nothing is left to do; within one the entity is there.    *)
CallInv ==
  /\ deleting = None => todo = {}
  /\ deleting \in Slots => life[deleting] = "live"

(* The references of a live entity are its SafeEntities and, until it is   *)
(* released, its own; nobody holds a recycled id.                          *)
RefInv ==
  \A s \in Slots :
    /\ life[s] = "live" => refs[s] = safe[s] + IF s \in released THEN 0 ELSE 1
    /\ life[s] \in {"free", "requested"} => safe[s] = 0

(* A pair without a lookup entry is queued; the pairs of a deleted entity  *)
(* are; those of the entity that is being deleted are or will be.          *)
QueuedInv ==
  /\ pairs \ pairQueue \subseteq lookup
  /\ \A s \in Slots : Gone(s) => About(s) \cap pairs \subseteq pairQueue
  /\ deleting # None => \A p \in lookup :
       /\ p.rel = deleting => p \in todo \cup pairQueue
       /\ p.tgt = deleting /\ phase = "target" /\ Valid(p.tgt) => p \in todo \cup pairQueue

(* No valid entity has a queued pair, or the tag of a queued entity.       *)
TakenOffInv ==
  \A s \in Slots : Valid(s) =>
    /\ ids[s] \cap pairQueue = {}
    /\ \A x \in ids[s] \cap TagIds : life[x.tag] # "requested"

(* A released entity is held, or is being deleted.                         *)
ReleasedInv ==
  \A s \in Slots : Valid(s) /\ s \in released => safe[s] > 0 \/ deleting = s

(* What holds of every program.                                            *)
BaseInv == Typed /\ StorageInv /\ CallInv /\ RefInv /\ ArchetypeIdsAlive

(* What holds besides of programs that do not form a pair whose record     *)
(* waits for its deletion.                                                 *)
GoneInv == QueuedInv /\ TakenOffInv /\ ReleasedInv

-----------------------------------------------------------------------------
(* The operators                                                           *)

(* An id is a tag or a pair.                                               *)
LEMMA TagsAreNotPairs == TagIds \cap PairIds = {}
<1> SUFFICES ASSUME NEW x \in TagIds, x \in PairIds PROVE FALSE
  OBVIOUS
<1>1. DOMAIN x = {"tag", "gen"}
  BY DEF TagIds
<1>2. DOMAIN x = {"rel", "tgt"}
  BY DEF PairIds
<1>. QED  BY <1>1, <1>2

(* The ids of slots and pairs are ids.                                     *)
LEMMA TagType == ASSUME gen \in [Slots -> Nat], NEW s \in Slots PROVE Tag(s) \in TagIds
BY DEF Tag, TagIds

LEMMA PairType ==
  ASSUME NEW r \in Relations, NEW t \in Slots PROVE Pair(r, t) \in PairIds
BY DEF Pair, PairIds

(* rem_from_entities takes X off everything that is not requested.         *)
LEMMA StrippedIds ==
  ASSUME NEW where \in [Slots -> SUBSET AnyIds], NEW X, NEW req
  PROVE  /\ Stripped(where, X, req) \in [Slots -> SUBSET AnyIds]
         /\ \A s \in Slots :
              /\ Stripped(where, X, req)[s] \notin req =>
                   where[s] \notin req /\ Stripped(where, X, req)[s] = where[s] \ X
              /\ where[s] \in req => Stripped(where, X, req)[s] = where[s]
              /\ where[s] = {} => Stripped(where, X, req)[s] = {}
BY DEF Stripped

(* It forms the archetypes they move to, which have no id that was not in  *)
(* an archetype.                                                           *)
LEMMA FormedParts ==
  ASSUME NEW as, NEW X, NEW req
  PROVE  \A a \in Formed(as, X, req) : \E b \in as : a \subseteq b
BY DEF Formed

LEMMA FormedArchs ==
  ASSUME NEW as, NEW X, NEW req, NEW where \in [Slots -> SUBSET AnyIds]
  PROVE  /\ as \subseteq Formed(as, X, req)
         /\ \A s \in Slots : where[s] \in as => Stripped(where, X, req)[s] \in Formed(as, X, req)
<1>1. /\ as \subseteq Formed(as, X, req)
      /\ \A a \in as : a \notin req => a \ X \in Formed(as, X, req)
  BY DEF Formed
<1>. QED  BY <1>1 DEF Stripped

(* The archetypes of children are in the world and have an id.             *)
LEMMA CascadeArchs == ASSUME NEW t PROVE Cascade(t) \subseteq archs /\ {} \notin Cascade(t)
BY DEF Cascade

(* The parts of archetypes whose ids are alive are such archetypes.        *)
IdsAlive(a) ==
  /\ \A x \in a \cap TagIds : life[x.tag] # "free" /\ gen[x.tag] = x.gen
  /\ a \cap PairIds \subseteq pairs

LEMMA PartsAlive ==
  ASSUME ArchetypeIdsAlive, NEW a, NEW b \in archs, a \subseteq b PROVE IdsAlive(a)
BY DEF ArchetypeIdsAlive, IdsAlive

-----------------------------------------------------------------------------
(* The steps preserve what holds of every program                          *)

(* It holds of the empty world.                                            *)
LEMMA BaseInit == Init => BaseInv
<1> SUFFICES ASSUME Init PROVE BaseInv
  OBVIOUS
<1>1. Typed
  BY DEF Init, Typed, Lives
<1>2. StorageInv /\ CallInv /\ RefInv /\ ArchetypeIdsAlive
  BY WorldAssumption DEF Init, StorageInv, CallInv, RefInv, ArchetypeIdsAlive
<1>. QED  BY <1>1, <1>2 DEF BaseInv

(* Building: the ids of the entity and the archetypes change.              *)
LEMMA MoveStep ==
  ASSUME BaseInv, NEW e \in Slots, NEW new \in SUBSET AnyIds, NEW path,
         life[e] = "live", MoveTo(e, new, path), UNCHANGED <<slots, requests>>
  PROVE  ids' \in [Slots -> SUBSET AnyIds] /\ StorageInv'
BY DEF BaseInv, Typed, StorageInv, MoveTo, slots, requests

LEMMA BuildStep ==
  ASSUME BaseInv, NEW e \in Slots, NEW new \in SUBSET AnyIds, NEW path,
         life[e] = "live", MoveTo(e, new, path), UNCHANGED <<slots, counts, requests, call>>,
         deletes' \subseteq Slots, pairQueue' = pairQueue, pairs \subseteq pairs',
         lookup \subseteq lookup', lookup' \subseteq pairs', pairs' \subseteq PairIds,
         \A a \in path \cup {new} : IdsAlive(a)'
  PROVE  BaseInv'
<1>1. ids' \in [Slots -> SUBSET AnyIds] /\ StorageInv'
  BY MoveStep
<1>2. Typed'
  BY <1>1 DEF BaseInv, Typed, slots, counts, call
<1>3. CallInv' /\ RefInv'
  BY DEF BaseInv, CallInv, RefInv, slots, counts, call
<1>4. ArchetypeIdsAlive'
  <2>1. archs' = archs \cup path \cup {new}
    BY DEF MoveTo
  <2>2. \A a \in archs : IdsAlive(a)'
    BY DEF BaseInv, ArchetypeIdsAlive, IdsAlive, slots
  <2>. QED  BY <2>1, <2>2 DEF ArchetypeIdsAlive, IdsAlive
<1>. QED  BY <1>1, <1>2, <1>3, <1>4 DEF BaseInv

(* Each action, in the order of Next.                                      *)
LEMMA SpawnBase == ASSUME BaseInv, NEW s \in Slots, Spawn(s) PROVE BaseInv'
<1>1. Typed'
  BY DEF BaseInv, Typed, Spawn, records, call, Lives
<1>2. StorageInv' /\ CallInv'
  BY DEF BaseInv, Typed, StorageInv, CallInv, Spawn, requests, call
<1>3. RefInv'
  BY DEF BaseInv, Typed, RefInv, Spawn
<1>4. ArchetypeIdsAlive'
  BY DEF BaseInv, Typed, ArchetypeIdsAlive, Spawn, TagIds, records
<1>. QED  BY <1>1, <1>2, <1>3, <1>4 DEF BaseInv

LEMMA AddTagBase ==
  ASSUME BaseInv, NEW e \in Slots, NEW s \in Tags, AddTag(e, s) PROVE BaseInv'
<1>0. PICK new : new = ids[e] \cup {Tag(s)}
  OBVIOUS
<1>1. s \in Slots /\ life[e] = "live" /\ life[s] = "live"
  BY WorldAssumption DEF AddTag, Valid
<1>2. new \in SUBSET AnyIds
  BY <1>0, <1>1, TagType DEF BaseInv, Typed, AnyIds
<1>3. IdsAlive(new)'
  <2>1. ids[e] \in archs
    BY <1>1 DEF BaseInv, StorageInv
  <2>2. IdsAlive(ids[e])
    BY <2>1, PartsAlive DEF BaseInv
  <2>3. Tag(s) \in TagIds /\ Tag(s) \notin PairIds /\ Tag(s).tag = s /\ Tag(s).gen = gen[s]
    BY <1>1, TagType, TagsAreNotPairs DEF BaseInv, Typed, Tag
  <2>4. IdsAlive(new)
    BY <1>0, <1>1, <2>2, <2>3 DEF IdsAlive
  <2>. QED  BY <2>4 DEF IdsAlive, AddTag, slots, records
<1>4. MoveTo(e, new, {}) /\ UNCHANGED <<slots, counts, deletes, requests, records, call>>
  BY <1>0 DEF AddTag
<1>. QED  BY <1>1, <1>2, <1>3, <1>4, BuildStep DEF records, BaseInv, Typed

LEMMA RemoveTagBase ==
  ASSUME BaseInv, NEW e \in Slots, NEW s \in Tags, RemoveTag(e, s) PROVE BaseInv'
<1>0. PICK new : new = ids[e] \ {Tag(s)}
  OBVIOUS
<1>1. life[e] = "live" /\ ids[e] \in archs
  BY DEF BaseInv, StorageInv, RemoveTag, Valid
<1>2. new \in SUBSET AnyIds
  BY <1>0 DEF BaseInv, Typed
<1>3. IdsAlive(new)
  BY <1>0, <1>1, PartsAlive DEF BaseInv
<1>4. IdsAlive(new)'
  BY <1>3 DEF IdsAlive, RemoveTag, slots, records
<1>5. MoveTo(e, new, {}) /\ UNCHANGED <<slots, counts, deletes, requests, records, call>>
  BY <1>0 DEF RemoveTag
<1>. QED  BY <1>1, <1>2, <1>4, <1>5, BuildStep DEF records, BaseInv, Typed

LEMMA AddPairBase ==
  ASSUME BaseInv, NEW e \in Slots, NEW r \in Relations, NEW t \in Slots, AddPair(e, r, t)
  PROVE  BaseInv'
<1>0. PICK p, old, new, rest :
        /\ p = Pair(r, t)
        /\ old = {q \in ids[e] \cap PairIds : r = ChildOf /\ q.rel = ChildOf}
        /\ rest = ids[e] \ old
        /\ new = rest \cup {p}
  OBVIOUS
<1>1. /\ Idle /\ life[e] = "live"
      /\ pairs' = pairs \cup {p}
      /\ lookup' = IF p \in pairs THEN lookup ELSE lookup \cup {p}
      /\ deletes' = (deletes \ Unflagged(old)) \cup {t : x \in {r} \cap {ChildOf}}
      /\ MoveTo(e, new, {rest})
      /\ UNCHANGED <<slots, counts, requests, pairQueue, call>>
  BY <1>0 DEF AddPair, Valid
<1>2. p \in PairIds /\ p \notin TagIds
  BY <1>0, PairType, TagsAreNotPairs
<1>3. new \in SUBSET AnyIds
  BY <1>0, <1>2 DEF BaseInv, Typed, AnyIds
<1>4. IdsAlive(rest)' /\ IdsAlive(new)'
  <2>1. IdsAlive(rest)
    BY <1>0, <1>1, PartsAlive DEF BaseInv, StorageInv
  <2>. QED  BY <1>0, <1>1, <1>2, <2>1 DEF IdsAlive, slots
<1>5. lookup' \subseteq pairs' /\ pairs' \subseteq PairIds /\ deletes' \subseteq Slots
  BY <1>1, <1>2 DEF BaseInv, Typed
<1>. QED  BY <1>1, <1>3, <1>4, <1>5, BuildStep

LEMMA RemovePairBase ==
  ASSUME BaseInv, NEW e \in Slots, NEW p \in PairIds, RemovePair(e, p) PROVE BaseInv'
<1>0. PICK new : new = ids[e] \ {p}
  OBVIOUS
<1>1. /\ life[e] = "live"
      /\ deletes' \subseteq deletes
      /\ MoveTo(e, new, {})
      /\ UNCHANGED <<slots, counts, requests, records, call>>
  BY <1>0 DEF RemovePair, Valid
<1>2. new \in SUBSET AnyIds
  BY <1>0 DEF BaseInv, Typed
<1>3. IdsAlive(new)
  BY <1>0, <1>1, PartsAlive DEF BaseInv, StorageInv
<1>4. IdsAlive(new)'
  BY <1>1, <1>3 DEF IdsAlive, slots, records
<1>. QED  BY <1>1, <1>2, <1>4, BuildStep DEF records, BaseInv, Typed

(* A call of World::del, and the SafeEntities that make it.                *)
LEMMA CallStep ==
  ASSUME BaseInv, NEW e \in Slots, life[e] = "live", Idle,
         Call(e) \/ UNCHANGED call,
         UNCHANGED <<slots, released, deletes, storage, requests, records>>,
         refs' \in [Slots -> Nat], safe' \in [Slots -> Nat], RefInv'
  PROVE  BaseInv'
<1>1. Typed'
  BY DEF BaseInv, Typed, Call, call, slots, storage, records
<1>2. StorageInv' /\ ArchetypeIdsAlive'
  BY DEF BaseInv, StorageInv, ArchetypeIdsAlive, slots, storage, requests, records
<1>3. CallInv'
  BY WorldAssumption DEF BaseInv, CallInv, Call, call, slots
<1>. QED  BY <1>1, <1>2, <1>3 DEF BaseInv

LEMMA DelBase == ASSUME BaseInv, NEW e \in Slots, Del(e) PROVE BaseInv'
<1>1. RefInv' /\ refs' \in [Slots -> Nat] /\ safe' \in [Slots -> Nat]
  BY DEF BaseInv, Typed, RefInv, Del, counts, slots
<1>. QED  BY <1>1, CallStep DEF Del, Valid, counts

LEMMA HoldBase == ASSUME BaseInv, NEW e \in Slots, Hold(e) PROVE BaseInv'
<1>1. RefInv' /\ refs' \in [Slots -> Nat] /\ safe' \in [Slots -> Nat]
  BY DEF BaseInv, Typed, RefInv, Hold, slots, Valid
<1>. QED  BY <1>1, CallStep DEF Hold, Valid

LEMMA DropBase == ASSUME BaseInv, NEW e \in Slots, Drop(e) PROVE BaseInv'
<1>1. refs[e] \in Nat \ {0} /\ safe[e] \in Nat \ {0}
  BY DEF BaseInv, Typed, RefInv, Drop, Valid
<1>2. RefInv' /\ refs' \in [Slots -> Nat] /\ safe' \in [Slots -> Nat]
  BY <1>1 DEF BaseInv, Typed, RefInv, Drop, slots, Valid
<1>. QED  BY <1>2, CallStep DEF Drop, Valid

LEMMA TargetsBase == ASSUME BaseInv, Targets PROVE BaseInv'
<1>1. Typed'
  BY DEF BaseInv, Typed, Targets, slots, counts, storage, records
<1>2. StorageInv' /\ CallInv' /\ RefInv' /\ ArchetypeIdsAlive'
  BY DEF BaseInv, StorageInv, CallInv, RefInv, ArchetypeIdsAlive, Targets, slots, counts,
         storage, requests, records
<1>. QED  BY <1>1, <1>2 DEF BaseInv

(* handle_del_entity: archetypes are requested, and ids are taken off the  *)
(* rest once or twice.                                                     *)
LEMMA DelPairBase == ASSUME BaseInv, NEW p \in todo, DelPair(p) PROVE BaseInv'
<1>0. PICK asked, X, req :
        /\ asked \subseteq archs /\ {} \notin asked
        /\ req = reqArchs \cup asked
        /\ Request(asked)
        /\ ids' = Stripped(ids, X, req)
        /\ archs' = Formed(archs, X, req)
  BY CascadeArchs DEF DelPair
<1>1. /\ used' = used \cup Occupied(ids')
      /\ pairQueue' = pairQueue \cup {p} /\ todo' = todo \ {p}
      /\ UNCHANGED <<slots, counts, deletes, pairs, lookup, deleting, phase, kids>>
  BY DEF DelPair
<1>2. ids \in [Slots -> SUBSET AnyIds]
  BY DEF BaseInv, Typed
<1>3. Typed'
  <2>1. ids' \in [Slots -> SUBSET AnyIds]
    BY <1>0, <1>2, StrippedIds
  <2>. QED  BY <1>1, <2>1 DEF BaseInv, Typed, slots, counts
<1>4. StorageInv'
  <2>1. archs \subseteq archs' /\ \A s \in Slots : life[s] = "live" => ids'[s] \in archs'
    BY <1>0, <1>2, FormedArchs DEF BaseInv, StorageInv
  <2>2. used' \subseteq archs' /\ {} \in used'
    BY <1>1, <2>1 DEF BaseInv, StorageInv, Occupied
  <2>3. /\ reqArchs' \subseteq archs' /\ reqQueue' \subseteq reqArchs'
        /\ {} \notin reqArchs'
    BY <1>0, <2>1 DEF BaseInv, StorageInv, Request
  <2>4. \A s \in Slots : life'[s] # "live" => ids'[s] = {}
    BY <1>0, <1>1, <1>2, StrippedIds DEF BaseInv, StorageInv, slots
  <2>5. \A s \in Slots : life'[s] = "live" => ids'[s] \in used'
    BY <1>1 DEF Occupied, slots
  <2>. QED  BY <2>2, <2>3, <2>4, <2>5 DEF StorageInv
<1>5. CallInv' /\ RefInv'
  BY <1>1 DEF BaseInv, CallInv, RefInv, slots, counts
<1>6. ArchetypeIdsAlive'
  <2>1. \A a \in archs' : IdsAlive(a)
    BY <1>0, FormedParts, PartsAlive DEF BaseInv
  <2>. QED  BY <1>1, <2>1 DEF ArchetypeIdsAlive, IdsAlive, slots
<1>. QED  BY <1>3, <1>4, <1>5, <1>6 DEF BaseInv

(* The entity gives up its own reference.                                  *)
LEMMA ReleaseStep ==
  ASSUME BaseInv, NEW e \in Slots, e = deleting, Release(e)
  PROVE  /\ refs' \in [Slots -> Nat]
         /\ refs'[e] = safe[e] /\ \A s \in Slots \ {e} : refs'[s] = refs[s]
         /\ released' = released \cup {e} /\ released' \subseteq Slots
<1>1. refs[e] = safe[e] + IF e \in released THEN 0 ELSE 1
  BY DEF BaseInv, CallInv, RefInv
<1>. QED  BY <1>1 DEF Release, BaseInv, Typed

LEMMA KeepBase == ASSUME BaseInv, NEW e \in Slots, Keep(e) PROVE BaseInv'
<1>0. e = deleting /\ todo = {} /\ Release(e)
  BY DEF Keep, Last
<1>1. Typed'
  BY <1>0, ReleaseStep DEF BaseInv, Typed, Keep, Return, slots, storage, records
<1>2. StorageInv' /\ ArchetypeIdsAlive'
  BY DEF BaseInv, StorageInv, ArchetypeIdsAlive, Keep, slots, storage, requests, records
<1>3. CallInv' /\ RefInv'
  BY <1>0, ReleaseStep, WorldAssumption DEF BaseInv, CallInv, RefInv, Keep, Return, slots
<1>. QED  BY <1>1, <1>2, <1>3 DEF BaseInv

(* What the branch for an entity does to the ids and the archetypes.       *)
Took(e, asked, req, X, Y, left, final) ==
  /\ asked \subseteq archs /\ {} \notin asked
  /\ req = reqArchs \cup asked
  /\ Request(asked)
  /\ left = Stripped(ids, X, req)
  /\ final = Stripped(left, Y, req)
  /\ left[e] \notin req => Y = {Tag(e)} /\ X \in {{}, PairsTo(e)}
  /\ life' = [life EXCEPT ![e] = IF left[e] \in req THEN @ ELSE "requested"]
  /\ ids' = [final EXCEPT ![e] = IF left[e] \in req THEN @ ELSE {}]
  /\ archs' = Formed(Formed(archs, X, req), Y, req)
  /\ used' = used \cup Occupied(left) \cup Occupied(final)

LEMMA DeleteTook ==
  ASSUME NEW e \in Slots, Delete(e)
  PROVE  /\ e = deleting /\ todo = {} /\ phase = "target"
         /\ Release(e) /\ refs'[e] = 0 /\ Return
         /\ UNCHANGED <<gen, safe, deletes, records>>
         /\ \E asked, req, X, Y, left, final :
              Took(e, asked, req, X, Y, left, final)
<1>1. /\ e = deleting /\ todo = {} /\ phase = "target"
      /\ Release(e) /\ refs'[e] = 0 /\ Return
      /\ UNCHANGED <<gen, safe, deletes, records>>
  BY DEF Delete, Last
<1> DEFINE cascades == e \in deletes
           asked == IF cascades THEN Cascade(e) ELSE {}
           req == reqArchs \cup asked
           X == IF cascades THEN {} ELSE PairsTo(e)
           left == Stripped(ids, X, req)
           dropped == left[e] \in req
           Y == IF dropped THEN {} ELSE {Tag(e)}
           final == Stripped(left, Y, req)
<1>2. asked \subseteq archs /\ {} \notin asked
  BY CascadeArchs
<1>3. /\ Request(asked)
      /\ life' = [life EXCEPT ![e] = IF dropped THEN @ ELSE "requested"]
      /\ ids' = [final EXCEPT ![e] = IF dropped THEN @ ELSE {}]
      /\ archs' = Formed(Formed(archs, X, req), Y, req)
      /\ used' = used \cup Occupied(left) \cup Occupied(final)
  BY DEF Delete
<1>4. X \in {{}, PairsTo(e)} /\ dropped \in BOOLEAN /\ (left[e] \notin req => Y = {Tag(e)})
  OBVIOUS
<1>5. Took(e, asked, req, X, Y, left, final)
  <2> HIDE DEF X, cascades, asked
  <2>. QED  BY <1>2, <1>3, <1>4 DEF Took
<1> HIDE DEF cascades, asked, req, X, left, dropped, Y, final
<1>. QED  BY <1>1, <1>4, <1>5

LEMMA DeleteBase == ASSUME BaseInv, NEW e \in Slots, Delete(e) PROVE BaseInv'
<1>1. PICK asked, req, X, Y, left, final :
        Took(e, asked, req, X, Y, left, final)
  BY DeleteTook
<1>0. left = Stripped(ids, X, req) /\ final = Stripped(left, Y, req)
  BY <1>1 DEF Took
<1>2. /\ e = deleting /\ todo = {} /\ Release(e) /\ refs'[e] = 0 /\ Return
      /\ UNCHANGED <<gen, safe, deletes, records>>
  BY DeleteTook
<1>3. ids \in [Slots -> SUBSET AnyIds] /\ life \in [Slots -> Lives]
  BY DEF BaseInv, Typed
<1>4. left \in [Slots -> SUBSET AnyIds] /\ final \in [Slots -> SUBSET AnyIds]
  <2>1. left \in [Slots -> SUBSET AnyIds]
    BY <1>0, <1>3, StrippedIds
  <2>. QED  BY <1>0, <2>1, StrippedIds
<1>5. \A s \in Slots : ids[s] = {} => final[s] = {}
  <2>1. \A s \in Slots : ids[s] = {} => left[s] = {}
    BY <1>0, <1>3, StrippedIds
  <2>2. \A s \in Slots : left[s] = {} => final[s] = {}
    BY <1>0, <1>4, StrippedIds
  <2>. QED  BY <2>1, <2>2
<1>6. /\ \A s \in Slots \ {e} : life'[s] = life[s] /\ ids'[s] = final[s]
      /\ left[e] \in req => life'[e] = life[e] /\ ids'[e] = final[e]
      /\ left[e] \notin req => life'[e] = "requested" /\ ids'[e] = {}
  <2>1. /\ life' = [life EXCEPT ![e] = IF left[e] \in req THEN @ ELSE "requested"]
        /\ ids' = [final EXCEPT ![e] = IF left[e] \in req THEN @ ELSE {}]
    BY <1>1 DEF Took
  <2>. QED  BY <1>3, <1>4, <2>1
<1>7. Typed'
  <2>1. ids' \in [Slots -> SUBSET AnyIds]
    <3>1. final[e] \in SUBSET AnyIds /\ {} \in SUBSET AnyIds
      BY <1>4
    <3>. QED  BY <1>1, <1>4, <3>1 DEF Took
  <2>2. life' \in [Slots -> Lives]
    BY <1>1, <1>3 DEF Took, Lives
  <2>. QED  BY <1>2, <2>1, <2>2, ReleaseStep DEF BaseInv, Typed, Return, records
<1>8. StorageInv'
  <2>1. /\ archs \subseteq archs'
        /\ \A s \in Slots : life[s] = "live" => left[s] \in archs' /\ final[s] \in archs'
    <3>1. PICK mid : mid = Formed(archs, X, req)
      OBVIOUS
    <3>2. archs \subseteq mid /\ \A s \in Slots : life[s] = "live" => left[s] \in mid
      <4>1. \A s \in Slots : life[s] = "live" => ids[s] \in archs
        BY DEF BaseInv, StorageInv
      <4>. QED  BY <1>0, <1>3, <3>1, <4>1, FormedArchs
    <3>3. archs' = Formed(mid, Y, req) /\ final = Stripped(left, Y, req)
      BY <1>1, <3>1 DEF Took
    <3>4. mid \subseteq archs' /\ \A s \in Slots : life[s] = "live" => final[s] \in archs'
      BY <1>4, <3>2, <3>3, FormedArchs
    <3>. QED  BY <3>2, <3>4
  <2>2. used' \subseteq archs' /\ {} \in used'
    <3>1. used' = used \cup Occupied(left) \cup Occupied(final)
      BY <1>1 DEF Took
    <3>2. used \subseteq archs /\ {} \in used
      BY DEF BaseInv, StorageInv
    <3>3. Occupied(left) \subseteq archs' /\ Occupied(final) \subseteq archs'
      BY <2>1 DEF Occupied
    <3>. QED  BY <2>1, <3>1, <3>2, <3>3
  <2>3. reqArchs' \subseteq archs' /\ reqQueue' \subseteq reqArchs' /\ {} \notin reqArchs'
    BY <1>1, <2>1 DEF Took, BaseInv, StorageInv, Request
  <2>4. \A s \in Slots : life'[s] # "live" => ids'[s] = {}
    BY <1>5, <1>6 DEF BaseInv, StorageInv
  <2>5. \A s \in Slots : life[s] = "live" => final[s] \in used'
    BY <1>1 DEF Took, Occupied
  <2>6. \A s \in Slots : life'[s] = "live" => ids'[s] \in used'
    BY <1>6, <2>5
  <2>. QED  BY <2>2, <2>3, <2>4, <2>6 DEF StorageInv
<1>9. CallInv'
  BY <1>2, WorldAssumption DEF CallInv, Return
<1>10. RefInv'
  BY <1>2, <1>6, ReleaseStep DEF BaseInv, RefInv
<1>11. ArchetypeIdsAlive'
  <2>1. \A a \in archs' : \E b \in archs : a \subseteq b
    <3>1. PICK mid : mid = Formed(archs, X, req)
      OBVIOUS
    <3>2. \A a \in mid : \E b \in archs : a \subseteq b
      BY <3>1, FormedParts
    <3>3. archs' = Formed(mid, Y, req)
      BY <1>1, <3>1 DEF Took
    <3>4. \A a \in archs' : \E b \in mid : a \subseteq b
      BY <3>3, FormedParts
    <3>. QED  BY <3>2, <3>4
  <2>2. \A a \in archs' : IdsAlive(a)
    BY <2>1, PartsAlive DEF BaseInv
  <2>3. \A s \in Slots : life[s] # "free" => life'[s] # "free"
    BY <1>6
  <2>. QED  BY <1>2, <2>2, <2>3 DEF ArchetypeIdsAlive, IdsAlive, TagIds, records
<1>. QED  BY <1>7, <1>8, <1>9, <1>10, <1>11 DEF BaseInv

(* frame_cleanup.                                                          *)
LEMMA UpdateBase == ASSUME BaseInv, NEW expired, Update(expired) PROVE BaseInv'
<1>0. PICK goneP, inUse, goneA :
        /\ goneP = {p \in pairQueue : Unmentioned(p)}
        /\ inUse = {ids[s] : s \in {x \in Slots : life[x] = "live" /\ x \notin Dropped}}
        /\ goneA = (used \ inUse) \cap (reqArchs \cup expired)
  OBVIOUS
<1>1. /\ Idle
      /\ expired \subseteq used \ (inUse \cup {{}})
      /\ life' = [s \in Slots |-> IF s \in Dropped THEN "dropped"
                                  ELSE IF s \in Freed THEN "free" ELSE life[s]]
      /\ gen' = [s \in Slots |-> IF s \in Freed THEN gen[s] + 1 ELSE gen[s]]
      /\ ids' = [s \in Slots |-> IF s \in Dropped THEN {} ELSE ids[s]]
      /\ pairs' = pairs \ goneP
      /\ pairQueue' = pairQueue \ goneP
      /\ lookup' = lookup \ (goneP \cup UNION {About(s) : s \in Freed})
      /\ archs' = archs \ goneA
      /\ used' = used \ goneA
      /\ reqArchs' = reqArchs \ goneA
      /\ reqQueue' = {}
      /\ UNCHANGED <<counts, deletes, call>>
  BY <1>0 DEF Update
<1>2. /\ \A s \in Slots : s \in Dropped <=> life[s] = "live" /\ ids[s] \in reqQueue
      /\ \A s \in Slots : s \in Freed <=> life[s] = "requested" /\ Unmentioned(Tag(s))
  BY DEF Dropped, Freed
<1>3. Typed'
  <2>1. /\ life' \in [Slots -> Lives] /\ gen' \in [Slots -> Nat]
        /\ ids' \in [Slots -> SUBSET AnyIds]
    BY <1>1 DEF BaseInv, Typed, Lives
  <2>2. todo = {}
    BY <1>1 DEF BaseInv, CallInv, Idle
  <2>. QED  BY <1>1, <2>1, <2>2 DEF BaseInv, Typed, counts, call
<1>4. StorageInv'
  <2>1. {} \notin goneA
    BY <1>0, <1>1 DEF BaseInv, StorageInv
  <2>2. \A s \in Slots : life'[s] = "live" => ids'[s] \in used'
    BY <1>0, <1>1, <1>2 DEF BaseInv, StorageInv
  <2>3. \A s \in Slots : life'[s] # "live" => ids'[s] = {}
    BY <1>1, <1>2 DEF BaseInv, StorageInv
  <2>. QED  BY <1>1, <2>1, <2>2, <2>3 DEF BaseInv, StorageInv
<1>5. CallInv'
  BY <1>1, WorldAssumption DEF BaseInv, CallInv, Idle, call
<1>6. RefInv'
  BY <1>1, <1>2 DEF BaseInv, RefInv, counts
<1>7. ArchetypeIdsAlive'
  <2> SUFFICES ASSUME NEW a \in archs' PROVE IdsAlive(a)'
    BY DEF ArchetypeIdsAlive, IdsAlive
  <2>1. a \in archs /\ IdsAlive(a)
    BY <1>1, PartsAlive DEF BaseInv
  <2>2. ASSUME NEW x \in a \cap TagIds PROVE life'[x.tag] # "free" /\ gen'[x.tag] = x.gen
    <3>1. x.tag \in Slots /\ life[x.tag] # "free" /\ gen[x.tag] = x.gen
      BY <2>1 DEF IdsAlive, TagIds
    <3>2. Tag(x.tag) = x
      BY <3>1 DEF Tag, TagIds
    <3>3. x.tag \notin Freed
      BY <1>2, <2>1, <3>1, <3>2 DEF Unmentioned
    <3>. QED  BY <1>1, <3>1, <3>3
  <2>3. a \cap PairIds \subseteq pairs'
    BY <1>0, <1>1, <2>1 DEF IdsAlive, Unmentioned
  <2>. QED  BY <2>2, <2>3 DEF IdsAlive
<1>. QED  BY <1>3, <1>4, <1>5, <1>6, <1>7 DEF BaseInv

(* So every step preserves it, and it holds in every state.                *)
LEMMA BaseStep == BaseInv /\ [Next]_vars => BaseInv'
<1> SUFFICES ASSUME BaseInv, [Next]_vars PROVE BaseInv'
  OBVIOUS
<1>1. ASSUME NEW s \in Slots, Spawn(s) PROVE BaseInv'
  BY <1>1, SpawnBase
<1>2. ASSUME NEW e \in Slots, NEW s \in Tags, AddTag(e, s) \/ RemoveTag(e, s) PROVE BaseInv'
  BY <1>2, AddTagBase, RemoveTagBase
<1>3. ASSUME NEW e \in Slots, NEW l \in Links, AddPair(e, l[1], l[2]) PROVE BaseInv'
  <2>1. l[1] \in Relations /\ l[2] \in Slots
    BY WorldAssumption
  <2>. QED  BY <1>3, <2>1, AddPairBase
<1>4. ASSUME NEW e \in Slots, NEW p \in PairIds, RemovePair(e, p) PROVE BaseInv'
  BY <1>4, RemovePairBase
<1>5. ASSUME NEW e \in Slots, Del(e) \/ Hold(e) \/ Drop(e) PROVE BaseInv'
  BY <1>5, DelBase, HoldBase, DropBase
<1>6. ASSUME NEW p \in todo, DelPair(p) PROVE BaseInv'
  BY <1>6, DelPairBase
<1>7. CASE Targets
  BY <1>7, TargetsBase
<1>8. ASSUME NEW e \in Slots, Keep(e) \/ Delete(e) PROVE BaseInv'
  BY <1>8, KeepBase, DeleteBase
<1>9. ASSUME NEW expired \in SUBSET used, Update(expired) PROVE BaseInv'
  BY <1>9, UpdateBase
<1>10. CASE UNCHANGED vars
  <2>1. Typed'
    BY <1>10 DEF BaseInv, Typed, vars
  <2>2. StorageInv' /\ CallInv' /\ RefInv' /\ ArchetypeIdsAlive'
    BY <1>10 DEF BaseInv, StorageInv, CallInv, RefInv, ArchetypeIdsAlive, vars
  <2>. QED  BY <2>1, <2>2 DEF BaseInv
<1>. QED
  BY <1>1, <1>2, <1>3, <1>4, <1>5, <1>6, <1>7, <1>8, <1>9, <1>10 DEF Next

LEMMA BaseAlways == Spec => []BaseInv
BY BaseInit, BaseStep, PTL DEF Spec

-----------------------------------------------------------------------------
(* What holds of every program                                             *)

(* The variables have their types, and the archetypes of live entities are *)
(* in the world (World::add, del, frame_cleanup).                          *)
THEOREM TypeCorrect == Spec => []TypeOK
<1>1. BaseInv => TypeOK
  BY DEF BaseInv, Typed, StorageInv, TypeOK, Lives, AnyIds, Occupied
<1>. QED  BY <1>1, BaseAlways, PTL

(* del_finalize recycles an id only after no archetype mentions it, with   *)
(* or without entities.                                                    *)
THEOREM IdsOfArchetypesAreAlive == Spec => []ArchetypeIdsAlive
<1>1. BaseInv => ArchetypeIdsAlive
  BY DEF BaseInv
<1>. QED  BY <1>1, BaseAlways, PTL

(* An entity that a SafeEntity refers to is deleted by no call of          *)
(* World::del and no cascade, unless its archetype is requested.           *)
THEOREM SafeEntitiesHold == Spec => HeldSurvives
<1> DEFINE A == \A e \in Slots : Valid(e) /\ safe[e] > 0 => Valid(e)' \/ ids'[e] \in reqArchs'
<1>1. BaseInv /\ [Next]_vars => [A]_vars
  <2> SUFFICES ASSUME BaseInv, Next, NEW e \in Slots, Valid(e), safe[e] > 0
               PROVE  Valid(e)' \/ ids'[e] \in reqArchs'
    OBVIOUS
  <2>0. life[e] = "live" /\ life \in [Slots -> Lives]
    BY DEF Valid, BaseInv, Typed
  <2>1. life'[e] = "live"
    <3>1. ASSUME NEW s \in Slots, Spawn(s) PROVE life'[e] = "live"
      BY <2>0, <3>1 DEF Spawn
    <3>2. ASSUME NEW x \in Slots, NEW s \in Tags, AddTag(x, s) \/ RemoveTag(x, s)
          PROVE  life'[e] = "live"
      BY <2>0, <3>2 DEF AddTag, RemoveTag, slots
    <3>3. ASSUME NEW x \in Slots, NEW l \in Links, AddPair(x, l[1], l[2])
          PROVE  life'[e] = "live"
      BY <2>0, <3>3 DEF AddPair, slots
    <3>4. ASSUME NEW x \in Slots, NEW p \in PairIds, RemovePair(x, p) PROVE life'[e] = "live"
      BY <2>0, <3>4 DEF RemovePair, slots
    <3>5. ASSUME NEW x \in Slots, Del(x) \/ Hold(x) \/ Drop(x) PROVE life'[e] = "live"
      BY <2>0, <3>5 DEF Del, Hold, Drop, slots
    <3>6. ASSUME NEW p \in todo, DelPair(p) PROVE life'[e] = "live"
      BY <2>0, <3>6 DEF DelPair, slots
    <3>7. CASE Targets
      BY <2>0, <3>7 DEF Targets, slots
    <3>8. ASSUME NEW x \in Slots, Keep(x) PROVE life'[e] = "live"
      BY <2>0, <3>8 DEF Keep, slots
    <3>9. ASSUME NEW x \in Slots, Delete(x) PROVE life'[e] = "live"
      <4>1. x = deleting /\ Release(x) /\ refs'[x] = 0
        BY <3>9, DeleteTook
      <4>2. x # e
        BY <4>1, ReleaseStep
      <4>3. PICK asked, req, X, Y, left, final : Took(x, asked, req, X, Y, left, final)
        BY <3>9, DeleteTook
      <4>4. life' = [life EXCEPT ![x] = IF left[x] \in req THEN @ ELSE "requested"]
        BY <4>3 DEF Took
      <4>. QED  BY <2>0, <4>2, <4>4
    <3>10. ASSUME NEW expired \in SUBSET used, Update(expired) PROVE life'[e] = "live"
      <4>1. e \notin Dropped /\ e \notin Freed
        BY <2>0 DEF Valid, Dropped, Freed, BaseInv, StorageInv
      <4>. QED  BY <2>0, <3>10, <4>1 DEF Update
    <3>. QED
      BY <3>1, <3>2, <3>3, <3>4, <3>5, <3>6, <3>7, <3>8, <3>9, <3>10 DEF Next
  <2>. QED  BY <2>1 DEF Valid
<1>2. Spec => [][A]_vars
  <2>. HIDE DEF A
  <2>. QED  BY <1>1, BaseAlways, PTL DEF Spec
<1>. QED  BY <1>2 DEF HeldSurvives

-----------------------------------------------------------------------------
(* The steps preserve what makes a deleted entity gone                     *)

(* The entities of archetypes in the world have ids that are alive.        *)
LEMMA ValidIds ==
  ASSUME BaseInv, NEW s \in Slots, Valid(s)
  PROVE  life[s] = "live" /\ ids[s] \in archs /\ IdsAlive(ids[s])
BY PartsAlive DEF BaseInv, StorageInv, Valid

(* It holds of the empty world.                                            *)
LEMMA GoneInit == Init => GoneInv
BY DEF Init, GoneInv, QueuedInv, TakenOffInv, ReleasedInv, About

(* Building: nobody is deleted, and the ids an entity gets are not queued. *)
LEMMA BuildGone ==
  ASSUME BaseInv, GoneInv, Idle, NEW e \in Slots, Valid(e), NEW new, NEW path,
         MoveTo(e, new, path), UNCHANGED <<slots, counts, requests, pairQueue, call>>,
         pairs \subseteq pairs', pairs' \ pairs \subseteq lookup', lookup \subseteq lookup',
         \A p \in pairs' \ pairs : \A s \in Slots : Gone(s) => p \notin About(s),
         \A x \in new \ ids[e] : x \notin pairQueue /\ (x \in TagIds => life[x.tag] = "live")
  PROVE  GoneInv'
<1>1. /\ ids' = [ids EXCEPT ![e] = new]
      /\ life' = life /\ reqArchs' = reqArchs /\ pairQueue' = pairQueue
      /\ released' = released /\ safe' = safe /\ deleting' = None
  BY DEF MoveTo, slots, counts, requests, call, Idle
<1>2. ids \in [Slots -> SUBSET AnyIds]
  BY DEF BaseInv, Typed
<1>3. \A s \in Slots : Valid(s)' => Valid(s)
  BY <1>1, <1>2 DEF Valid
<1>4. QueuedInv'
  BY <1>1 DEF GoneInv, QueuedInv, Gone
<1>5. TakenOffInv'
  BY <1>1, <1>2, <1>3 DEF GoneInv, TakenOffInv
<1>6. ReleasedInv'
  BY <1>1, <1>3, WorldAssumption DEF GoneInv, ReleasedInv, Idle
<1>. QED  BY <1>4, <1>5, <1>6 DEF GoneInv

(* Each action, in the order of Next; only forming a pair needs that no    *)
(* pair is formed whose record waits.                                      *)
LEMMA SpawnGone == ASSUME BaseInv, GoneInv, NEW s \in Slots, Spawn(s) PROVE GoneInv'
<1>1. /\ life' = [life EXCEPT ![s] = "live"] /\ released' = released \ {s}
      /\ deleting' = None /\ deleting = None /\ life[s] = "free"
      /\ UNCHANGED <<ids, safe, reqArchs, pairs, pairQueue, lookup>>
  BY DEF Spawn, Idle, requests, records, call
<1>2. life \in [Slots -> Lives] /\ ids[s] = {}
  BY <1>1 DEF BaseInv, Typed, StorageInv
<1>3. QueuedInv'
  BY <1>1, <1>2 DEF GoneInv, QueuedInv, Gone
<1>4. TakenOffInv'
  BY <1>1, <1>2 DEF GoneInv, TakenOffInv, Valid, TagIds
<1>5. ReleasedInv'
  BY <1>1, <1>2 DEF GoneInv, ReleasedInv, Valid
<1>. QED  BY <1>3, <1>4, <1>5 DEF GoneInv

LEMMA AddTagGone ==
  ASSUME BaseInv, GoneInv, NEW e \in Slots, NEW s \in Tags, AddTag(e, s) PROVE GoneInv'
<1>1. /\ s \in Slots /\ Valid(e) /\ life[s] = "live" /\ Idle
      /\ MoveTo(e, ids[e] \cup {Tag(s)}, {})
      /\ UNCHANGED <<slots, counts, requests, records, call>>
  BY WorldAssumption DEF AddTag, Valid
<1>2. Tag(s) \notin PairIds /\ Tag(s).tag = s
  BY <1>1, TagType, TagsAreNotPairs DEF BaseInv, Typed, Tag
<1>3. \A x \in (ids[e] \cup {Tag(s)}) \ ids[e] :
         x \notin pairQueue /\ (x \in TagIds => life[x.tag] = "live")
  BY <1>1, <1>2 DEF BaseInv, Typed
<1>. QED  BY <1>1, <1>3, BuildGone DEF records

LEMMA RemoveTagGone ==
  ASSUME BaseInv, GoneInv, NEW e \in Slots, NEW s \in Tags, RemoveTag(e, s) PROVE GoneInv'
<1>1. /\ Valid(e) /\ Idle
      /\ MoveTo(e, ids[e] \ {Tag(s)}, {})
      /\ UNCHANGED <<slots, counts, requests, records, call>>
  BY DEF RemoveTag
<1>. QED  BY <1>1, BuildGone DEF records

LEMMA AddPairGone ==
  ASSUME FormAgain = FALSE, BaseInv, GoneInv, NEW e \in Slots, NEW r \in Relations,
         NEW t \in Slots, AddPair(e, r, t)
  PROVE  GoneInv'
<1>0. PICK p, old, new, rest :
        /\ p = Pair(r, t)
        /\ old = {q \in ids[e] \cap PairIds : r = ChildOf /\ q.rel = ChildOf}
        /\ rest = ids[e] \ old
        /\ new = rest \cup {p}
  OBVIOUS
<1>1. /\ Idle /\ Valid(e) /\ Valid(t)
      /\ r \in {ChildOf} \cup {s \in Slots : Valid(s)}
      /\ p \notin pairQueue
      /\ pairs' = pairs \cup {p}
      /\ lookup' = IF p \in pairs THEN lookup ELSE lookup \cup {p}
      /\ MoveTo(e, new, {rest})
      /\ UNCHANGED <<slots, counts, requests, pairQueue, call>>
  BY <1>0 DEF AddPair
<1>2. p \in PairIds /\ p \notin TagIds /\ p.rel = r /\ p.tgt = t
  BY <1>0, PairType, TagsAreNotPairs DEF Pair
<1>3. \A q \in pairs' \ pairs : \A s \in Slots : Gone(s) => q \notin About(s)
  BY <1>1, <1>2, WorldAssumption DEF Gone, Valid, About
<1>4. \A x \in new \ ids[e] : x \notin pairQueue /\ (x \in TagIds => life[x.tag] = "live")
  BY <1>0, <1>1, <1>2
<1>. QED  BY <1>1, <1>3, <1>4, BuildGone

LEMMA RemovePairGone ==
  ASSUME BaseInv, GoneInv, NEW e \in Slots, NEW p \in PairIds, RemovePair(e, p) PROVE GoneInv'
<1>1. /\ Valid(e) /\ Idle
      /\ MoveTo(e, ids[e] \ {p}, {})
      /\ UNCHANGED <<slots, counts, requests, records, call>>
  BY DEF RemovePair
<1>. QED  BY <1>1, BuildGone DEF records

(* World::del collects the pairs of which the entity is the relation.      *)
LEMMA CallGone ==
  ASSUME BaseInv, GoneInv, Idle, NEW e \in Slots, Call(e) \/ UNCHANGED call,
         UNCHANGED <<slots, released, storage, requests, records>>,
         \A s \in Slots : Valid(s) /\ s \in released => safe'[s] > 0 \/ deleting' = s
  PROVE  GoneInv'
<1>1. QueuedInv'
  BY DEF GoneInv, QueuedInv, Gone, Valid, Call, call, slots, storage, requests, records, Idle
<1>2. TakenOffInv' /\ ReleasedInv'
  BY DEF GoneInv, TakenOffInv, ReleasedInv, Valid, slots, storage, requests, records
<1>. QED  BY <1>1, <1>2 DEF GoneInv

LEMMA DelGone ==
  ASSUME BaseInv, GoneInv, NEW e \in Slots, Del(e) \/ Hold(e) \/ Drop(e) PROVE GoneInv'
<1>1. \A s \in Slots : Valid(s) /\ s \in released => safe[s] > 0
  BY WorldAssumption DEF GoneInv, ReleasedInv, Del, Hold, Drop, Idle
<1>2. CASE Del(e)
  BY <1>1, <1>2, CallGone DEF Del, counts
<1>3. CASE Hold(e)
  <2>1. \A s \in Slots : Valid(s) /\ s \in released => safe'[s] > 0
    BY <1>1, <1>3 DEF Hold, BaseInv, Typed
  <2>. QED  BY <1>3, <2>1, CallGone DEF Hold
<1>4. CASE Drop(e)
  <2>1. \A s \in Slots : Valid(s) /\ s \in released => safe'[s] > 0 \/ deleting' = s
    <3> SUFFICES ASSUME NEW s \in Slots, Valid(s), s \in released
                 PROVE  safe'[s] > 0 \/ deleting' = s
      OBVIOUS
    <3>1. refs[s] = safe[s] /\ safe[s] > 0 /\ safe[s] \in Nat
      BY <1>1 DEF BaseInv, Typed, RefInv, Valid
    <3>2. CASE s = e /\ safe[e] = 1
      BY <1>4, <3>1, <3>2 DEF Drop, Call
    <3>3. CASE s # e \/ safe[e] # 1
      BY <1>4, <3>1, <3>3 DEF Drop, BaseInv, Typed
    <3>. QED  BY <3>2, <3>3
  <2>. QED  BY <1>4, <2>1, CallGone DEF Drop
<1>. QED  BY <1>2, <1>3, <1>4

LEMMA TargetsGone == ASSUME BaseInv, GoneInv, Targets PROVE GoneInv'
<1>1. QueuedInv'
  BY DEF GoneInv, QueuedInv, Gone, Valid, Targets, slots, storage, requests, records,
         BaseInv, Typed
<1>2. TakenOffInv' /\ ReleasedInv'
  BY DEF GoneInv, TakenOffInv, ReleasedInv, Valid, Targets, slots, counts, storage, requests,
         records
<1>. QED  BY <1>1, <1>2 DEF GoneInv

(* The branch for a pair: the valid entities had no queued pair, and lose  *)
(* the one that is queued now.                                             *)
LEMMA DelPairGone == ASSUME BaseInv, GoneInv, NEW p \in todo, DelPair(p) PROVE GoneInv'
<1>0. PICK asked, X, req :
        /\ p \notin pairQueue => p \in X
        /\ req = reqArchs \cup asked
        /\ Request(asked)
        /\ ids' = Stripped(ids, X, req)
  BY DEF DelPair
<1>1. /\ pairQueue' = pairQueue \cup {p} /\ todo' = todo \ {p}
      /\ UNCHANGED <<slots, counts, deletes, pairs, lookup, deleting, phase, kids>>
  BY DEF DelPair
<1>2. ids \in [Slots -> SUBSET AnyIds] /\ p \in lookup
  BY DEF BaseInv, Typed
<1>3. \A s \in Slots : Valid(s)' => Valid(s) /\ ids'[s] = ids[s] \ X
  <2>1. \A s \in Slots : ids'[s] \notin req => ids[s] \notin req /\ ids'[s] = ids[s] \ X
    BY <1>0, <1>2, StrippedIds
  <2>2. reqArchs' = req
    BY <1>0 DEF Request
  <2>. QED  BY <1>0, <1>1, <2>1, <2>2 DEF Valid, slots
<1>4. QueuedInv'
  <2>1. \A q \in lookup : Valid(q.tgt)' => Valid(q.tgt)
    BY <1>3 DEF BaseInv, Typed, PairIds
  <2>. QED  BY <1>1, <2>1 DEF GoneInv, QueuedInv, Gone, slots
<1>5. TakenOffInv'
  BY <1>0, <1>1, <1>3 DEF GoneInv, TakenOffInv, slots
<1>6. ReleasedInv'
  BY <1>1, <1>3 DEF GoneInv, ReleasedInv, counts
<1>. QED  BY <1>4, <1>5, <1>6 DEF GoneInv

(* An entity that keeps SafeEntities stays.                                *)
LEMMA KeepGone == ASSUME BaseInv, GoneInv, NEW e \in Slots, Keep(e) PROVE GoneInv'
<1>1. /\ e = deleting /\ deleting' = None /\ Release(e) /\ refs'[e] # 0
      /\ UNCHANGED <<slots, safe, storage, requests, records>>
  BY DEF Keep, Return
<1>2. QueuedInv' /\ TakenOffInv'
  BY <1>1 DEF GoneInv, QueuedInv, TakenOffInv, Gone, Valid, slots, storage, requests, records
<1>3. ReleasedInv'
  <2>1. refs'[e] = safe[e] /\ released' = released \cup {e} /\ safe[e] \in Nat
    BY <1>1, ReleaseStep DEF BaseInv, Typed
  <2>. QED
    BY <1>1, <2>1 DEF GoneInv, ReleasedInv, Valid, slots, storage, requests
<1>. QED  BY <1>2, <1>3 DEF GoneInv

(* A deleted entity is off everything: its pairs were queued before, and   *)
(* the other entities lose its tag.                                        *)
LEMMA DeleteGone == ASSUME BaseInv, GoneInv, NEW e \in Slots, Delete(e) PROVE GoneInv'
<1>1. PICK asked, req, X, Y, left, final : Took(e, asked, req, X, Y, left, final)
  BY DeleteTook
<1>2. /\ e = deleting /\ todo = {} /\ phase = "target" /\ deleting' = None
      /\ Release(e) /\ refs'[e] = 0
      /\ UNCHANGED <<gen, safe, deletes, records>>
  BY DeleteTook DEF Return
<1>3. /\ left = Stripped(ids, X, req) /\ final = Stripped(left, Y, req)
      /\ reqArchs' = req /\ reqArchs \subseteq req
      /\ left[e] \notin req => Y = {Tag(e)}
      /\ life' = [life EXCEPT ![e] = IF left[e] \in req THEN @ ELSE "requested"]
      /\ ids' = [final EXCEPT ![e] = IF left[e] \in req THEN @ ELSE {}]
  BY <1>1 DEF Took, Request
<1>4. ids \in [Slots -> SUBSET AnyIds] /\ life \in [Slots -> Lives]
  BY DEF BaseInv, Typed
<1>5. left \in [Slots -> SUBSET AnyIds] /\ final \in [Slots -> SUBSET AnyIds]
  <2>1. left \in [Slots -> SUBSET AnyIds]
    BY <1>3, <1>4, StrippedIds
  <2>. QED  BY <1>3, <2>1, StrippedIds
<1>6. /\ \A s \in Slots \ {e} : life'[s] = life[s] /\ ids'[s] = final[s]
      /\ left[e] \in req => life'[e] = life[e] /\ ids'[e] = final[e]
      /\ left[e] \notin req => life'[e] = "requested"
  BY <1>3, <1>4, <1>5
<1>7. /\ \A s \in Slots : final[s] \notin req => left[s] \notin req /\ final[s] = left[s] \ Y
      /\ \A s \in Slots : left[s] \notin req => ids[s] \notin req /\ left[s] = ids[s] \ X
  <2>1. \A s \in Slots : final[s] \notin req => left[s] \notin req /\ final[s] = left[s] \ Y
    BY <1>3, <1>5, StrippedIds
  <2>2. \A s \in Slots : left[s] \notin req => ids[s] \notin req /\ left[s] = ids[s] \ X
    BY <1>3, <1>4, StrippedIds
  <2>. QED  BY <2>1, <2>2
<1>8. \A s \in Slots : Valid(s)' => /\ s # e /\ Valid(s)
                                    /\ ids'[s] \subseteq ids[s] \ Y
  <2> SUFFICES ASSUME NEW s \in Slots, life'[s] = "live", ids'[s] \notin req
               PROVE  s # e /\ life[s] = "live" /\ ids[s] \notin req /\ ids'[s] \subseteq ids[s] \ Y
    BY <1>3 DEF Valid
  <2>1. s # e
    BY <1>6, <1>7
  <2>. QED  BY <1>6, <1>7, <2>1
<1>9. QueuedInv'
  <2>1. pairs \ pairQueue \subseteq lookup
    BY DEF GoneInv, QueuedInv
  <2>2. ASSUME left[e] \notin req PROVE About(e) \cap pairs \subseteq pairQueue
    <3>1. Valid(e)
      BY <1>2, <1>3, <1>7, <2>2 DEF Valid, BaseInv, CallInv
    <3>2. deleting # None
      BY <1>2, WorldAssumption
    <3>. QED  BY <1>2, <2>1, <3>1, <3>2 DEF GoneInv, QueuedInv, About
  <2>3. \A s \in Slots : Gone(s)' => About(s) \cap pairs \subseteq pairQueue
    BY <1>4, <1>6, <2>2 DEF GoneInv, QueuedInv, Gone, BaseInv, CallInv
  <2>. QED  BY <1>2, <2>1, <2>3 DEF QueuedInv, records
<1>10. TakenOffInv'
  <2> SUFFICES ASSUME NEW s \in Slots, Valid(s)'
               PROVE  /\ ids'[s] \cap pairQueue' = {}
                      /\ \A x \in ids'[s] \cap TagIds : life'[x.tag] # "requested"
    BY DEF TakenOffInv
  <2>1. s # e /\ Valid(s) /\ ids'[s] \subseteq ids[s] \ Y
    BY <1>8
  <2>2. ids'[s] \cap pairQueue' = {}
    BY <1>2, <2>1 DEF GoneInv, TakenOffInv, records
  <2>3. ASSUME NEW x \in ids'[s] \cap TagIds PROVE life'[x.tag] # "requested"
    <3>1. x.tag \in Slots /\ gen[x.tag] = x.gen /\ life[x.tag] # "requested"
      BY <2>1, ValidIds DEF GoneInv, TakenOffInv, IdsAlive, TagIds
    <3>2. CASE x.tag = e /\ left[e] \notin req
      <4>1. x = Tag(e)
        BY <3>1, <3>2 DEF Tag, TagIds
      <4>. QED  BY <1>3, <2>1, <3>2, <4>1
    <3>3. CASE x.tag # e \/ left[e] \in req
      BY <1>6, <3>1, <3>3
    <3>. QED  BY <3>2, <3>3
  <2>. QED  BY <2>2, <2>3
<1>11. ReleasedInv'
  <2>1. released' = released \cup {e}
    BY <1>2, ReleaseStep
  <2>. QED  BY <1>2, <1>8, <2>1 DEF GoneInv, ReleasedInv
<1>. QED  BY <1>9, <1>10, <1>11 DEF GoneInv

(* frame_cleanup forgets what is queued and unmentioned.                   *)
LEMMA UpdateGone == ASSUME BaseInv, GoneInv, NEW expired, Update(expired) PROVE GoneInv'
<1>0. PICK goneP, inUse, goneA :
        /\ goneP = {p \in pairQueue : Unmentioned(p)}
        /\ inUse = {ids[s] : s \in {x \in Slots : life[x] = "live" /\ x \notin Dropped}}
        /\ goneA = (used \ inUse) \cap (reqArchs \cup expired)
  OBVIOUS
<1>1. /\ deleting = None
      /\ life' = [s \in Slots |-> IF s \in Dropped THEN "dropped"
                                  ELSE IF s \in Freed THEN "free" ELSE life[s]]
      /\ ids' = [s \in Slots |-> IF s \in Dropped THEN {} ELSE ids[s]]
      /\ pairs' = pairs \ goneP
      /\ pairQueue' = pairQueue \ goneP
      /\ lookup' = lookup \ (goneP \cup UNION {About(s) : s \in Freed})
      /\ reqArchs' = reqArchs \ goneA
      /\ UNCHANGED <<released, safe, deleting>>
  BY <1>0 DEF Update, Idle, counts, call
<1>2. /\ \A s \in Dropped : life[s] = "live"
      /\ \A s \in Freed : life[s] = "requested" /\ s \in Slots
  BY DEF Dropped, Freed
<1>3. \A s \in Slots : Valid(s)' => Valid(s) /\ ids'[s] = ids[s]
  BY <1>0, <1>1 DEF Valid
<1>4. QueuedInv'
  <2>1. \A s \in Slots : Gone(s)' => Gone(s)
    BY <1>1, <1>2 DEF Gone
  <2>2. \A s \in Slots : Gone(s)' => About(s) \cap pairs' \subseteq pairQueue'
    BY <1>1, <2>1 DEF GoneInv, QueuedInv
  <2>3. \A s \in Freed : About(s) \cap pairs \subseteq pairQueue
    BY <1>2 DEF GoneInv, QueuedInv, Gone
  <2>4. pairs' \ pairQueue' \subseteq lookup'
    <3>1. pairs' \ pairQueue' \subseteq pairs \ pairQueue
      BY <1>1
    <3>2. pairs \ pairQueue \subseteq lookup
      BY DEF GoneInv, QueuedInv
    <3>. QED  BY <1>0, <1>1, <2>3, <3>1, <3>2
  <2>. QED  BY <1>1, <2>2, <2>4 DEF QueuedInv
<1>5. TakenOffInv'
  <2>1. \A s \in Slots : life'[s] = "requested" => life[s] = "requested"
    BY <1>1, <1>2
  <2>. QED  BY <1>1, <1>3, <2>1 DEF GoneInv, TakenOffInv, TagIds
<1>6. ReleasedInv'
  BY <1>1, <1>3 DEF GoneInv, ReleasedInv
<1>. QED  BY <1>4, <1>5, <1>6 DEF GoneInv

(* So every step preserves it.                                             *)
LEMMA GoneStep == FormAgain = FALSE /\ BaseInv /\ GoneInv /\ [Next]_vars => GoneInv'
<1> SUFFICES ASSUME FormAgain = FALSE, BaseInv, GoneInv, [Next]_vars PROVE GoneInv'
  OBVIOUS
<1>1. ASSUME NEW s \in Slots, Spawn(s) PROVE GoneInv'
  BY <1>1, SpawnGone
<1>2. ASSUME NEW e \in Slots, NEW s \in Tags, AddTag(e, s) \/ RemoveTag(e, s) PROVE GoneInv'
  BY <1>2, AddTagGone, RemoveTagGone
<1>3. ASSUME NEW e \in Slots, NEW l \in Links, AddPair(e, l[1], l[2]) PROVE GoneInv'
  <2>1. l[1] \in Relations /\ l[2] \in Slots
    BY WorldAssumption
  <2>. QED  BY <1>3, <2>1, AddPairGone
<1>4. ASSUME NEW e \in Slots, NEW p \in PairIds, RemovePair(e, p) PROVE GoneInv'
  BY <1>4, RemovePairGone
<1>5. ASSUME NEW e \in Slots, Del(e) \/ Hold(e) \/ Drop(e) PROVE GoneInv'
  BY <1>5, DelGone
<1>6. ASSUME NEW p \in todo, DelPair(p) PROVE GoneInv'
  BY <1>6, DelPairGone
<1>7. CASE Targets
  BY <1>7, TargetsGone
<1>8. ASSUME NEW e \in Slots, Keep(e) \/ Delete(e) PROVE GoneInv'
  BY <1>8, KeepGone, DeleteGone
<1>9. ASSUME NEW expired \in SUBSET used, Update(expired) PROVE GoneInv'
  BY <1>9, UpdateGone
<1>10. CASE UNCHANGED vars
  BY <1>10 DEF GoneInv, QueuedInv, TakenOffInv, ReleasedInv, Gone, Valid, vars
<1>. QED
  BY <1>1, <1>2, <1>3, <1>4, <1>5, <1>6, <1>7, <1>8, <1>9, <1>10 DEF Next

-----------------------------------------------------------------------------
(* What holds of programs that do not form a pair that waits               *)

(* Once World::del was called for an entity and its last SafeEntity is     *)
(* gone, no entity has it as a tag or in a pair, and it is not valid.      *)
THEOREM DeletedIsOffEverything == FormAgain = FALSE => (Spec => []DeletedIsGone)
<1> SUFFICES ASSUME FormAgain = FALSE PROVE Spec => []DeletedIsGone
  OBVIOUS
<1>1. Init => GoneInv
  BY GoneInit
<1>2. BaseInv /\ GoneInv /\ [Next]_vars => GoneInv'
  BY GoneStep
<1>3. BaseInv /\ GoneInv => DeletedIsGone
  <2> SUFFICES ASSUME BaseInv, GoneInv, Idle, NEW e \in Slots, Valid(e)
               PROVE  /\ e \notin released \/ safe[e] > 0
                      /\ \A x \in ids[e] \cap TagIds : ~Gone(x.tag)
                      /\ \A p \in ids[e] \cap PairIds :
                           ~Gone(p.tgt) /\ (p.rel = ChildOf \/ ~Gone(p.rel))
    BY DEF DeletedIsGone
  <2>1. e \notin released \/ safe[e] > 0
    BY WorldAssumption DEF GoneInv, ReleasedInv, Idle
  <2>2. IdsAlive(ids[e])
    BY ValidIds
  <2>3. \A x \in ids[e] \cap TagIds : ~Gone(x.tag)
    BY <2>2 DEF IdsAlive, GoneInv, TakenOffInv, Gone
  <2>4. ASSUME NEW p \in ids[e] \cap PairIds, NEW s \in Slots, p \in About(s) PROVE ~Gone(s)
    BY <2>2, <2>4 DEF IdsAlive, GoneInv, TakenOffInv, QueuedInv
  <2>5. \A p \in ids[e] \cap PairIds :
           /\ p.tgt \in Slots /\ p \in About(p.tgt)
           /\ p.rel = ChildOf \/ (p.rel \in Slots /\ p \in About(p.rel))
    BY DEF PairIds, About, Relations
  <2>. QED  BY <2>1, <2>3, <2>4, <2>5
<1>. QED  BY <1>1, <1>2, <1>3, BaseAlways, PTL DEF Spec
=============================================================================

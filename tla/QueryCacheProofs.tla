-------------------------- MODULE QueryCacheProofs --------------------------
(***************************************************************************)
(* Proofs about module QueryCache, for any ids, queries, programs and      *)
(* numbers of slots.                                                       *)
(***************************************************************************)
EXTENDS QueryCache, FiniteSetTheorems, SequenceTheorems, WellFoundedInduction, TLAPS

(* Handles, records and query objects.                                     *)
Handles == SlotsOfCache \X Nat
CursorSet == [Keys -> [index: Nat, rev: Nat]]
InfoSet ==
  [query: Queries \cup {Void}, refs: Nat, result: SUBSET Archetypes, last: Nat,
   dirty: BOOLEAN, cursors: CursorSet, snapshot: Nat, synced: BOOLEAN]
UserSet ==
  [def: Queries, authored: BOOLEAN, handle: Handles \cup {None}, destroyed: BOOLEAN]

(* The handle of the query in a slot, and the objects that will give a     *)
(* reference to it back.                                                   *)
HandleOf(s) == <<s, gen[s]>>
HoldersOf(s) == {u \in DOMAIN users : users[u].handle = <<s, gen[s]>> /\ ~users[u].destroyed}

(* Whether an archetype made of S matches, and what matches among those a  *)
(* lookup has; xs are the ids of the archetypes, src is the source entity. *)
HasIn(S, t) == IF t \in Ids THEN t \in S ELSE S \cap Covers[t] # {}
Good(q, S) ==
  /\ \A t \in Elements(q.all) : HasIn(S, t)
  /\ q.or # <<>> => \E t \in Elements(q.or) : HasIn(S, t)
  /\ \A t \in q.no : ~HasIn(S, t)
LiveIn(lk) == Elements(lk[AnyKey].list)
FreshIn(q, xs, lk, src) ==
  IF q = Void \/ ~(q.src \subseteq src.ids) THEN {}
  ELSE {a \in LiveIn(lk) : Good(q, xs[a])}

(* The record will be matched from scratch.                                *)
Stale(i, src) == i.dirty \/ (Policy(i.query) = "Dynamic" /\ i.snapshot # src.version)

(* The buckets a match walks.                                              *)
SearchKeys(q) ==
  IF q.all # <<>> THEN {q.all[1]}
  ELSE IF q.or # <<>> THEN Elements(q.or) ELSE {AnyKey}

-----------------------------------------------------------------------------
(* The inductive invariant                                                 *)

(* The types.                                                              *)
Typed ==
  /\ ids \in Seq(Builds) /\ Len(ids) <= MaxArchetypes
  /\ lookup \in [Keys -> [list: Seq(Archetypes), rev: Nat]]
  /\ source \in [ids: SUBSET Terms, version: Nat]
  /\ DOMAIN users \subseteq Users /\ users \in [DOMAIN users -> UserSet]
  /\ gen \in [SlotsOfCache -> Nat]
  /\ infos \in [SlotsOfCache -> InfoSet]
  /\ byShape \subseteq Queries \X Handles
  /\ byId \subseteq Terms \X Handles
  /\ bySelector \subseteq Terms \X Handles
  /\ selectors \in [Kinds -> Nat]
  /\ tracked \subseteq Archetypes \X Handles

(* Handles are of the past or present, references are counted, and what    *)
(* nobody refers to is free.                                               *)
HandleInv ==
  /\ \A u \in DOMAIN users :
       LET h == users[u].handle IN
       h # None =>
         /\ h[2] <= gen[h[1]]
         /\ h[2] = gen[h[1]] => infos[h[1]].refs > 0
         /\ ~users[u].destroyed => h[2] = gen[h[1]]
  /\ \A s \in SlotsOfCache :
       /\ infos[s].refs = Cardinality(HoldersOf(s))
       /\ infos[s].refs = 0 => infos[s] = Free

(* The indexes hold queries in use.                                        *)
StaleInv ==
  /\ \A p \in byShape : Valid(p[2])
  /\ \A p \in byId : Valid(p[2])
  /\ \A p \in bySelector : Valid(p[2])
  /\ \A p \in tracked : Valid(p[2])

(* The shapes in shared scope are those of the shared records.             *)
ShapeInv ==
  /\ \A p \in byShape : p[1].shared /\ infos[p[2][1]].query = p[1]
  /\ \A s \in SlotsOfCache :
       infos[s].refs > 0 /\ infos[s].query.shared => <<infos[s].query, HandleOf(s)>> \in byShape
  /\ \A r, s \in SlotsOfCache :
       infos[r].refs > 0 /\ infos[s].refs > 0 /\ infos[r].query.shared
         /\ infos[r].query = infos[s].query => r = s

(* The selectors are counted by kind, and an immediate query has those     *)
(* that wake it.                                                           *)
CountInv ==
  /\ IsFiniteSet(bySelector)
  /\ \A k \in Kinds : selectors[k] = Cardinality({p \in bySelector : Kind[p[1]] = k})

Woken(q, h, sels) ==
  Policy(q) = "Immediate" =>
    IF q.all # <<>> THEN \E t \in Elements(q.all) : <<t, h>> \in sels
    ELSE \A t \in Elements(q.or) : <<t, h>> \in sels

RouteInv ==
  \A s \in SlotsOfCache : infos[s].refs > 0 => Woken(infos[s].query, HandleOf(s), bySelector)

(* The buckets hold the live archetypes with their key, once.              *)
BucketOK(k, xs, lk) ==
  /\ \A m, n \in 1 .. Len(lk[k].list) : lk[k].list[m] = lk[k].list[n] => m = n
  /\ Elements(lk[k].list) = {a \in LiveIn(lk) : k \in BucketsOf(xs[a])}

BucketInv ==
  /\ Live \subseteq 1 .. Len(ids)
  /\ \A k \in Keys : BucketOK(k, ids, lookup)

(* What a record says of its caches is true; held is what the reverse      *)
(* index has of it.                                                        *)
IndexOK(i, held) ==
  /\ i.result \subseteq held
  /\ i.synced => i.result = held
  /\ ~i.dirty => i.result = held

(* Its inputs are of the past, it holds no dead archetype.                 *)
PastOK(i, xs, lk, src) ==
  /\ i.query = Void => i.result = {}
  /\ i.result \subseteq LiveIn(lk)
  /\ i.last <= Len(xs)
  /\ i.snapshot <= src.version
  /\ \A k \in Keys : i.cursors[k].rev <= lk[k].rev

(* What a cursor has passed, and still trusts, is in the result.           *)
CursorOK(i, k, xs, lk) ==
  i.cursors[k].rev = lk[k].rev =>
    /\ i.cursors[k].index <= Len(lk[k].list)
    /\ \A n \in 1 .. i.cursors[k].index :
         Good(i.query, xs[lk[k].list[n]]) => lk[k].list[n] \in i.result

(* A record that is not matched from scratch has everything that matches   *)
(* or finds it behind its cursors.                                         *)
CompleteOK(i, xs, lk, src) ==
  i.query # Void /\ ~Stale(i, src) =>
    /\ i.last = Len(xs) => FreshIn(i.query, xs, lk, src) \subseteq i.result
    /\ Policy(i.query) = "Immediate" => FreshIn(i.query, xs, lk, src) \subseteq i.result
    /\ i.query.src \subseteq src.ids => \A k \in SearchKeys(i.query) : CursorOK(i, k, xs, lk)

(* It has nothing else.                                                    *)
SoundOK(i, xs, lk, src) ==
  ~Stale(i, src) => i.result \subseteq FreshIn(i.query, xs, lk, src)

IndexInv == \A s \in SlotsOfCache : IndexOK(infos[s], TrackedBy(<<s, gen[s]>>))
PastInv == \A s \in SlotsOfCache : PastOK(infos[s], ids, lookup, source)
CompleteInv == \A s \in SlotsOfCache : CompleteOK(infos[s], ids, lookup, source)
SoundInv == \A s \in SlotsOfCache : SoundOK(infos[s], ids, lookup, source)

(* What holds of every program.                                            *)
BaseInv == Typed /\ HandleInv /\ StaleInv /\ ShapeInv /\ CountInv /\ RouteInv /\ BucketInv

(* What holds of programs that call matches_any on current queries only.   *)
CacheInv == IndexInv /\ PastInv /\ CompleteInv
IInv == BaseInv /\ CacheInv

-----------------------------------------------------------------------------
(* Queries, keys and buckets                                               *)

(* The keys, and a query made from a destroyed object.                     *)
LEMMA Constants ==
  /\ Terms \subseteq Keys /\ AnyKey \in Keys /\ Ids \subseteq Terms /\ Wildcards \subseteq Terms
  /\ Void.all = <<>> /\ Void.or = <<>> /\ Void.no = {} /\ Void.src = {} /\ Void.shared = FALSE
  /\ Policy(Void) = "Lazy"
  /\ IsFiniteSet(SlotsOfCache) /\ SlotsOfCache \subseteq Nat \ {0} /\ None \notin Handles
  /\ MaxArchetypes \in Nat /\ IsFiniteSet(Users)
  BY QueryAssumption DEF QueryAssumption, Terms, Keys, Void, Policy, None, Handles

(* What a query of the program is made of.                                 *)
LEMMA QueryTypes ==
  ASSUME NEW q \in Queries
  PROVE  /\ q.all \in Seq(Terms) /\ q.or \in Seq(Terms) /\ q.no \subseteq Terms
         /\ q.src \subseteq Terms /\ q.shared \in BOOLEAN
         /\ q.all # <<>> \/ q.or # <<>> \/ q.no # {}
         /\ q.src # {} => q.all # <<>>
         /\ q # Void
  BY Constants, QueryAssumption DEF QueryAssumption

(* The elements of a sequence.                                             *)
LEMMA ElementsOf ==
  ASSUME NEW S, NEW s \in Seq(S)
  PROVE  /\ Elements(s) \subseteq S
         /\ \A n \in 1 .. Len(s) : s[n] \in Elements(s)
         /\ \A x \in Elements(s) : \E n \in 1 .. Len(s) : s[n] = x
         /\ s # <<>> => 1 \in 1 .. Len(s)
         /\ s = <<>> => Elements(s) = {}
         /\ IsFiniteSet(Elements(s))
<1>1. Len(s) \in Nat /\ DOMAIN s = 1 .. Len(s) /\ s \in [1 .. Len(s) -> S]
  BY LenProperties
<1>2. s # <<>> => 1 \in 1 .. Len(s)
  BY <1>1, EmptySeq
<1>3. s = <<>> => Elements(s) = {}
  BY EmptySeq, <1>1 DEF Elements
<1>4. IsFiniteSet(1 .. Len(s))
  BY <1>1, FS_Interval
<1>5. s \in Surjection(1 .. Len(s), Elements(s))
  BY <1>1 DEF Surjection, Elements
<1>6. IsFiniteSet(Elements(s))
  BY <1>4, <1>5, FS_Surjection
<1> QED BY <1>1, <1>2, <1>3, <1>6 DEF Elements

(* The buckets that a match searches.                                      *)
LEMMA SearchTypes ==
  ASSUME NEW q \in Queries
  PROVE  /\ SearchKeys(q) \subseteq Keys
         /\ q.all # <<>> => /\ SearchKeys(q) = {Head(q.all)}
                            /\ Head(q.all) \in Elements(q.all) \cap Terms
<1>1. q.all # <<>> => Head(q.all) = q.all[1] /\ q.all[1] \in Elements(q.all) \cap Terms
  BY QueryTypes, ElementsOf, HeadTailProperties
<1>2. Elements(q.or) \subseteq Terms
  BY QueryTypes, ElementsOf
<1> QED BY <1>1, <1>2, Constants DEF SearchKeys

(* The policies.                                                           *)
LEMMA Policies ==
  ASSUME NEW q \in Queries
  PROVE  /\ Policy(q) = "Dynamic" <=> q.src # {}
         /\ Policy(q) = "Immediate" <=> q.src = {} /\ (q.all # <<>> \/ q.or # <<>>)
  BY DEF Policy

(* An archetype is in the buckets of the terms it has.                     *)
LEMMA HasBucket ==
  ASSUME NEW S \in Builds, NEW t \in Terms
  PROVE  HasIn(S, t) <=> t \in BucketsOf(S)
  BY QueryAssumption DEF QueryAssumption, Terms, HasIn, BucketsOf

(* The names of the module for the operators on values.                    *)
LEMMA HasIsIn ==
  ASSUME NEW a, NEW t
  PROVE  Has(a, t) <=> HasIn(ids[a], t)
  BY DEF Has, HasIn

(* Matching.                                                               *)
LEMMA MatchingIsGood ==
  ASSUME NEW q, NEW a
  PROVE  Matching(q, a) <=> Good(q, ids[a])
  BY HasIsIn DEF Matching, Good

(* What matches now.                                                       *)
LEMMA FreshIsIn ==
  ASSUME NEW q
  PROVE  Fresh(q) = FreshIn(q, ids, lookup, source)
  BY MatchingIsGood DEF Fresh, FreshIn, Live, LiveIn

(* Whether the caches are cleared first.                                   *)
LEMMA MustResetIsStale ==
  ASSUME NEW i
  PROVE  MustReset(i) <=> Stale(i, source)
  BY DEF MustReset, Stale

(* The bucket of all archetypes.                                           *)
LEMMA LiveIsIn == Live = LiveIn(lookup)
  BY DEF Live, LiveIn

(* A live archetype is in exactly the buckets of its ids, at one place.    *)
LEMMA InBucket ==
  ASSUME Typed, BucketInv, NEW k \in Keys, NEW a
  PROVE  /\ a \in Live /\ k \in BucketsOf(ids[a]) =>
              \E n \in 1 .. Len(lookup[k].list) : lookup[k].list[n] = a
         /\ \A n \in 1 .. Len(lookup[k].list) :
              lookup[k].list[n] \in Live /\ k \in BucketsOf(ids[lookup[k].list[n]])
         /\ a \in Live => a \in Archetypes /\ a \in 1 .. Len(ids) /\ ids[a] \in Builds
<1>1. lookup[k].list \in Seq(Archetypes) /\ lookup[AnyKey].list \in Seq(Archetypes)
  BY Constants DEF Typed
<1>2. Elements(lookup[k].list) = {b \in Live : k \in BucketsOf(ids[b])}
  BY LiveIsIn DEF BucketInv, BucketOK
<1>3. a \in Live => a \in Archetypes
  BY <1>1, ElementsOf DEF Live
<1>4. a \in Live => a \in 1 .. Len(ids) /\ ids[a] \in Builds
  BY ElementOfSeq DEF BucketInv, Typed
<1> QED BY <1>1, <1>2, <1>3, <1>4, ElementsOf

-----------------------------------------------------------------------------
(* Records                                                                 *)

(* A free slot.                                                            *)
LEMMA FreeFacts ==
  /\ Free \in InfoSet
  /\ Free.query = Void /\ Free.refs = 0 /\ Free.result = {} /\ Free.last = 0
  /\ Free.dirty = TRUE /\ Free.cursors = NoCursors /\ Free.snapshot = 0 /\ Free.synced = FALSE
  BY DEF Free, Unmatched, InfoSet, NoCursors, CursorSet

(* A new record.                                                           *)
LEMMA UnmatchedFacts ==
  ASSUME NEW q \in Queries \cup {Void}
  PROVE  /\ Unmatched(q) \in InfoSet
         /\ Unmatched(q).query = q /\ Unmatched(q).refs = 1 /\ Unmatched(q).result = {}
         /\ Unmatched(q).last = 0 /\ Unmatched(q).dirty = TRUE
         /\ Unmatched(q).cursors = NoCursors /\ Unmatched(q).snapshot = 0
         /\ Unmatched(q).synced = FALSE
  BY DEF Unmatched, InfoSet, NoCursors, CursorSet

(* Clearing.                                                               *)
LEMMA ClearedFacts ==
  ASSUME NEW i \in InfoSet
  PROVE  /\ Cleared(i) \in InfoSet
         /\ Cleared(i).query = i.query /\ Cleared(i).refs = i.refs /\ Cleared(i).result = {}
         /\ Cleared(i).last = 0 /\ Cleared(i).dirty = TRUE
         /\ Cleared(i).cursors = NoCursors /\ Cleared(i).snapshot = 0
         /\ Cleared(i).synced <=> i.synced /\ i.result = {}
  BY DEF Cleared, InfoSet, NoCursors, CursorSet

(* Adding what was found.                                                  *)
LEMMA MergedFacts ==
  ASSUME Typed, NEW i \in InfoSet, NEW found \in SUBSET Archetypes
  PROVE  /\ Merged(i, found) \in InfoSet
         /\ Merged(i, found).query = i.query /\ Merged(i, found).refs = i.refs
         /\ Merged(i, found).result = i.result \cup found
         /\ Merged(i, found).last = i.last /\ Merged(i, found).dirty = FALSE
         /\ Merged(i, found).cursors = i.cursors
         /\ Merged(i, found).snapshot = source.version
         /\ Merged(i, found).synced <=> i.synced /\ found \subseteq i.result
<1>1. source.version \in Nat
  BY DEF Typed
<1> QED BY <1>1 DEF Merged, InfoSet

(* A new archetype.                                                        *)
LEMMA ExtendedFacts ==
  ASSUME NEW i \in InfoSet, NEW a \in Archetypes
  PROVE  /\ Extended(i, a) \in InfoSet
         /\ Extended(i, a).query = i.query /\ Extended(i, a).refs = i.refs
         /\ Extended(i, a).result = i.result \cup {a}
         /\ Extended(i, a).last = i.last /\ Extended(i, a).dirty = i.dirty
         /\ Extended(i, a).cursors = i.cursors /\ Extended(i, a).snapshot = i.snapshot
         /\ Extended(i, a).synced = TRUE
  BY DEF Extended, InfoSet

(* A dead archetype.                                                       *)
LEMMA RemovedFacts ==
  ASSUME NEW i \in InfoSet, NEW a
  PROVE  /\ Removed(i, a) \in InfoSet
         /\ Removed(i, a).query = i.query /\ Removed(i, a).refs = i.refs
         /\ Removed(i, a).result = i.result \ {a}
         /\ Removed(i, a).last = i.last /\ Removed(i, a).dirty = i.dirty
         /\ Removed(i, a).cursors = i.cursors /\ Removed(i, a).snapshot = i.snapshot
         /\ Removed(i, a).synced <=> i.synced /\ a \notin i.result
  BY DEF Removed, InfoSet

(* The reverse index was built.                                            *)
LEMMA SyncedFacts ==
  ASSUME NEW i \in InfoSet
  PROVE  /\ Synced(i) \in InfoSet
         /\ Synced(i).query = i.query /\ Synced(i).refs = i.refs
         /\ Synced(i).result = i.result /\ Synced(i).last = i.last
         /\ Synced(i).dirty = i.dirty /\ Synced(i).cursors = i.cursors
         /\ Synced(i).snapshot = i.snapshot
         /\ Synced(i).synced <=> i.result # {}
  BY DEF Synced, InfoSet

(* Invalidation.                                                           *)
LEMMA DirtyFacts ==
  ASSUME NEW i \in InfoSet, NEW b \in BOOLEAN
  PROVE  LET j == [i EXCEPT !.dirty = @ \/ b] IN
         /\ j \in InfoSet
         /\ j.query = i.query /\ j.refs = i.refs /\ j.result = i.result /\ j.last = i.last
         /\ j.dirty <=> i.dirty \/ b
         /\ j.cursors = i.cursors /\ j.snapshot = i.snapshot /\ j.synced = i.synced
  BY DEF InfoSet

(* References.                                                             *)
LEMMA RefsFacts ==
  ASSUME NEW i \in InfoSet, NEW n \in Nat
  PROVE  LET j == [i EXCEPT !.refs = n] IN
         /\ j \in InfoSet
         /\ j.query = i.query /\ j.refs = n /\ j.result = i.result /\ j.last = i.last
         /\ j.dirty = i.dirty /\ j.cursors = i.cursors /\ j.snapshot = i.snapshot
         /\ j.synced = i.synced
  BY DEF InfoSet

(* The fields.                                                             *)
LEMMA InfoFields ==
  ASSUME NEW i \in InfoSet
  PROVE  /\ i.query \in Queries \cup {Void} /\ i.refs \in Nat /\ i.result \subseteq Archetypes
         /\ i.last \in Nat /\ i.dirty \in BOOLEAN /\ i.snapshot \in Nat /\ i.synced \in BOOLEAN
         /\ \A k \in Keys : i.cursors[k].index \in Nat /\ i.cursors[k].rev \in Nat
  BY DEF InfoSet, CursorSet

-----------------------------------------------------------------------------
(* Matching                                                                *)

(* What a cursor has not passed.                                           *)
LEMMA UnseenFacts ==
  ASSUME Typed, BucketInv, NEW i \in InfoSet, NEW k \in Keys
  PROVE  /\ Unseen(i, k) \subseteq Live
         /\ \A a \in Unseen(i, k) : k \in BucketsOf(ids[a])
         /\ \A n \in 1 .. Len(lookup[k].list) :
              \/ lookup[k].list[n] \in Unseen(i, k)
              \/ i.cursors[k].rev = lookup[k].rev /\ n \in 1 .. i.cursors[k].index
<1> DEFINE from == IF i.cursors[k].rev = lookup[k].rev THEN i.cursors[k].index ELSE 0
<1>1. Unseen(i, k) = {lookup[k].list[n] : n \in from + 1 .. Len(lookup[k].list)}
  BY DEF Unseen
<1>2. from \in Nat /\ Len(lookup[k].list) \in Nat
  BY InfoFields, LenProperties DEF Typed
<1>3. from + 1 .. Len(lookup[k].list) \subseteq 1 .. Len(lookup[k].list)
  <2>1. \A f, l \in Nat : f + 1 .. l \subseteq 1 .. l
    OBVIOUS
  <2> HIDE DEF from
  <2> QED BY <2>1, <1>2
<1>4. Unseen(i, k) \subseteq Live /\ \A a \in Unseen(i, k) : k \in BucketsOf(ids[a])
  <2>1. \A n \in 1 .. Len(lookup[k].list) :
          lookup[k].list[n] \in Live /\ k \in BucketsOf(ids[lookup[k].list[n]])
    BY InBucket
  <2> HIDE DEF from
  <2> QED BY <2>1, <1>1, <1>3
<1>5. ASSUME NEW n \in 1 .. Len(lookup[k].list), lookup[k].list[n] \notin Unseen(i, k)
      PROVE  i.cursors[k].rev = lookup[k].rev /\ n \in 1 .. i.cursors[k].index
  <2>1. n \notin from + 1 .. Len(lookup[k].list)
    BY <1>1, <1>5
  <2>2. n <= from
    BY <2>1, <1>2
  <2> QED BY <2>2, <1>2
<1> QED BY <1>4, <1>5

(* The passes only find live archetypes.                                   *)
LEMMA FoundLive ==
  ASSUME Typed, BucketInv, NEW i \in InfoSet, i.query \in Queries
  PROVE  Found(i) \subseteq Live /\ Found(i) \subseteq Archetypes
<1>1. Elements(i.query.or) \subseteq Keys /\ (i.query.all # <<>> => Head(i.query.all) \in Keys)
  BY QueryTypes, ElementsOf, SearchTypes, Constants
<1>2. i.query.all # <<>> => AllPass(i) \subseteq Live
  BY <1>1, UnseenFacts DEF AllPass
<1>3. OrPass(i) \subseteq Live
  BY <1>1, <1>2, UnseenFacts DEF OrPass
<1>4. Unseen(i, AnyKey) \subseteq Live
  BY UnseenFacts, Constants
<1>5. Found(i) \subseteq Live
  BY <1>3, <1>4 DEF Found, NotPass
<1> QED BY <1>5, InBucket, Constants

(* A match finds what matches and was not passed by a cursor.              *)
LEMMA FoundComplete ==
  ASSUME Typed, BucketInv, NEW i \in InfoSet, i.query \in Queries,
         i.query.src \subseteq source.ids,
         \A k \in SearchKeys(i.query) : CursorOK(i, k, ids, lookup),
         NEW a \in Live, Good(i.query, ids[a])
  PROVE  a \in i.result \cup Found(i)
<1> DEFINE q == i.query
<1>1. SearchKeys(q) \subseteq Keys /\ ids[a] \in Builds
  BY SearchTypes, InBucket, Constants
<1>2. ASSUME NEW k \in SearchKeys(q), k \in BucketsOf(ids[a]), a \notin i.result
      PROVE  a \in Unseen(i, k)
  <2>1. PICK n \in 1 .. Len(lookup[k].list) : lookup[k].list[n] = a
    BY <1>1, <1>2, InBucket
  <2>2. lookup[k].list[n] \in Unseen(i, k)
        \/ (i.cursors[k].rev = lookup[k].rev /\ n \in 1 .. i.cursors[k].index)
    BY <1>1, <1>2, UnseenFacts
  <2>3. CursorOK(i, k, ids, lookup)
    BY <1>2
  <2> QED BY <2>1, <2>2, <2>3, <1>2 DEF CursorOK
<1> SUFFICES ASSUME a \notin i.result PROVE a \in Found(i)
  OBVIOUS
<1>3. \A t \in q.no : ~Has(a, t)
  BY HasIsIn DEF Good
<1>4. CASE q.all # <<>>
  <2>1. SearchKeys(q) = {Head(q.all)} /\ Head(q.all) \in Elements(q.all) /\ Head(q.all) \in Terms
    BY <1>4, SearchTypes
  <2>2. HasIn(ids[a], Head(q.all))
    BY <2>1 DEF Good
  <2>3. Head(q.all) \in BucketsOf(ids[a])
    BY <2>2, <2>1, <1>1, HasBucket
  <2>4. a \in Unseen(i, Head(q.all))
    BY <2>1, <2>3, <1>2
  <2>5. a \in AllPass(i)
    BY <2>4, HasIsIn DEF AllPass, Good
  <2>6. a \in OrPass(i)
    BY <2>5, <1>4, HasIsIn DEF OrPass, Good
  <2>7. ~Quits(i)
    BY <2>5 DEF Quits
  <2> QED BY <2>6, <2>7, <1>3 DEF Found, NotPass, ScansAll
<1>5. CASE q.all = <<>> /\ q.or # <<>>
  <2>1. PICK t \in Elements(q.or) : HasIn(ids[a], t)
    BY <1>5 DEF Good
  <2>2. t \in SearchKeys(q) /\ t \in Terms
    BY <1>5, QueryTypes, ElementsOf DEF SearchKeys
  <2>3. a \in Unseen(i, t)
    BY <2>1, <2>2, <1>1, HasBucket, <1>2
  <2>4. a \in OrPass(i)
    BY <2>3, <1>5 DEF OrPass
  <2>5. ~Quits(i)
    BY <1>5 DEF Quits
  <2> QED BY <2>4, <2>5, <1>3 DEF Found, NotPass, ScansAll
<1>6. CASE q.all = <<>> /\ q.or = <<>>
  <2>1. q.no # {}
    BY <1>6, QueryTypes
  <2>2. AnyKey \in SearchKeys(q) /\ AnyKey \in BucketsOf(ids[a])
    BY <1>6 DEF SearchKeys, BucketsOf
  <2>3. a \in Unseen(i, AnyKey)
    BY <2>2, <1>2
  <2>4. OrPass(i) = {}
    BY <1>6, QueryTypes, ElementsOf DEF OrPass
  <2>5. ~Quits(i)
    BY <1>6 DEF Quits
  <2> QED BY <2>1, <2>3, <2>4, <2>5, <1>3 DEF Found, NotPass, ScansAll
<1> QED BY <1>4, <1>5, <1>6

(* Unless OR and NOT terms meet, a match finds nothing else.               *)
LEMMA FoundSound ==
  ASSUME Typed, BucketInv, NEW i \in InfoSet, i.query \in Queries,
         i.query.or # <<>> => i.query.no = {}
  PROVE  Found(i) \subseteq FreshIn(i.query, ids, lookup, source)
<1> DEFINE q == i.query
<1> SUFFICES ASSUME NEW a \in Found(i)
             PROVE  a \in FreshIn(q, ids, lookup, source)
  OBVIOUS
<1>1. ~Quits(i) /\ q.src \subseteq source.ids /\ a \in NotPass(i, OrPass(i))
  BY DEF Found, Quits
<1>2. a \in Live /\ ids[a] \in Builds
  BY FoundLive, InBucket, Constants
<1>3. \A t \in q.no : ~HasIn(ids[a], t)
  BY <1>1, HasIsIn DEF NotPass
<1>4. q # Void
  BY QueryTypes
<1>5. CASE q.all # <<>>
  <2>1. AllPass(i) # {}
    BY <1>1, <1>5 DEF Quits
  <2>2. a \in OrPass(i)
    BY <2>1, <1>1, <1>5 DEF NotPass, ScansAll, OrPass
  <2>3. a \in AllPass(i) /\ (q.or # <<>> => \E t \in Elements(q.or) : Has(a, t))
    BY <2>2, <1>5 DEF OrPass
  <2>4. Good(q, ids[a])
    BY <2>3, <1>3, HasIsIn DEF Good, AllPass
  <2> QED BY <2>4, <1>1, <1>2, <1>4, LiveIsIn DEF FreshIn
<1>6. CASE q.all = <<>> /\ q.or # <<>>
  <2>1. a \in OrPass(i)
    BY <1>1, <1>6 DEF NotPass, ScansAll
  <2>2. PICK t \in Elements(q.or) : a \in Unseen(i, t)
    BY <2>1, <1>6 DEF OrPass
  <2>3. t \in Terms /\ t \in BucketsOf(ids[a])
    BY <2>2, <1>6, QueryTypes, ElementsOf, Constants, UnseenFacts
  <2>4. HasIn(ids[a], t)
    BY <2>3, <1>2, HasBucket
  <2>5. Elements(q.all) = {}
    BY <1>6, QueryTypes, ElementsOf
  <2>6. Good(q, ids[a])
    BY <2>4, <2>5, <1>3 DEF Good
  <2> QED BY <2>6, <1>1, <1>2, <1>4, LiveIsIn DEF FreshIn
<1>7. CASE q.all = <<>> /\ q.or = <<>>
  <2>1. Elements(q.all) = {}
    BY <1>7, QueryTypes, ElementsOf
  <2>2. Good(q, ids[a])
    BY <2>1, <1>7, <1>3 DEF Good
  <2> QED BY <2>2, <1>1, <1>2, <1>4, LiveIsIn DEF FreshIn
<1> QED BY <1>5, <1>6, <1>7

(* What a match starts from.                                               *)
Base(i) == IF MustReset(i) THEN Cleared(i) ELSE i

(* Whether it returns at once.                                             *)
Skips(i) == i.query = Void \/ (~MustReset(i) /\ i.last = LastId)

(* What match() leaves.                                                    *)
LEMMA MatchedFacts ==
  ASSUME Typed, BucketInv, NEW i \in InfoSet
  PROVE  /\ Skips(i) => Matched(i) = i
         /\ ~Skips(i) =>
              /\ i.query \in Queries
              /\ Base(i) \in InfoSet /\ Base(i).query = i.query
              /\ Matched(i) \in InfoSet
              /\ Matched(i).query = i.query /\ Matched(i).refs = i.refs
              /\ Matched(i).result = Base(i).result \cup Found(Base(i))
              /\ Matched(i).last = LastId /\ Matched(i).dirty = FALSE
              /\ Matched(i).snapshot = source.version
              /\ \A k \in Keys :
                   \/ Matched(i).cursors[k] = Base(i).cursors[k]
                   \/ /\ Matched(i).cursors[k].index = Len(lookup[k].list)
                      /\ Matched(i).cursors[k].rev = lookup[k].rev
              /\ \/ Matched(i).result = i.result /\ Matched(i).synced = i.synced
                 \/ Matched(i).synced <=> Base(i).synced /\ Found(Base(i)) \subseteq Base(i).result
<1> DEFINE base == Base(i)
           merged == Merged(base, Found(base))
           cs == [k \in Keys |->
                    IF k \in Searched(base)
                      THEN [index |-> Len(lookup[k].list), rev |-> lookup[k].rev]
                      ELSE base.cursors[k]]
           next == [merged EXCEPT !.last = LastId, !.cursors = cs]
<1>1. Matched(i) = IF Skips(i) THEN i
                   ELSE IF Policy(i.query) = "Dynamic" /\ i.result # {} /\ next.result = i.result
                     THEN [next EXCEPT !.synced = i.synced]
                   ELSE next
  BY DEF Matched, Base, Skips
<1> SUFFICES ASSUME ~Skips(i)
             PROVE  /\ i.query \in Queries
                    /\ base \in InfoSet /\ base.query = i.query
                    /\ Matched(i) \in InfoSet
                    /\ Matched(i).query = i.query /\ Matched(i).refs = i.refs
                    /\ Matched(i).result = base.result \cup Found(base)
                    /\ Matched(i).last = LastId /\ Matched(i).dirty = FALSE
                    /\ Matched(i).snapshot = source.version
                    /\ \A k \in Keys :
                         \/ Matched(i).cursors[k] = base.cursors[k]
                         \/ /\ Matched(i).cursors[k].index = Len(lookup[k].list)
                            /\ Matched(i).cursors[k].rev = lookup[k].rev
                    /\ \/ Matched(i).result = i.result /\ Matched(i).synced = i.synced
                       \/ Matched(i).synced <=> base.synced /\ Found(base) \subseteq base.result
  BY <1>1
<1>2. i.query \in Queries
  BY InfoFields DEF Skips
<1>3. base \in InfoSet /\ base.query = i.query /\ base.refs = i.refs
  BY ClearedFacts DEF Base
<1>4. Found(base) \in SUBSET Archetypes
  BY <1>2, <1>3, FoundLive
<1>5. /\ merged \in InfoSet
      /\ merged.query = i.query /\ merged.refs = i.refs
      /\ merged.result = base.result \cup Found(base)
      /\ merged.dirty = FALSE /\ merged.snapshot = source.version
      /\ merged.synced <=> base.synced /\ Found(base) \subseteq base.result
  <2>1. /\ merged \in InfoSet
        /\ merged.query = base.query /\ merged.refs = base.refs
        /\ merged.result = base.result \cup Found(base)
        /\ merged.dirty = FALSE /\ merged.snapshot = source.version
        /\ merged.synced <=> base.synced /\ Found(base) \subseteq base.result
    <3> DEFINE found == Found(base)
    <3>1. found \in SUBSET Archetypes /\ base \in InfoSet
      BY <1>3, <1>4
    <3> HIDE DEF base, found
    <3>2. /\ Merged(base, found) \in InfoSet
          /\ Merged(base, found).query = base.query /\ Merged(base, found).refs = base.refs
      BY <3>1, MergedFacts
    <3>3. /\ Merged(base, found).result = base.result \cup found
          /\ Merged(base, found).dirty = FALSE /\ Merged(base, found).snapshot = source.version
      BY <3>1, MergedFacts
    <3>4. Merged(base, found).synced <=> base.synced /\ found \subseteq base.result
      BY <3>1, MergedFacts
    <3> QED BY <3>2, <3>3, <3>4 DEF found
  <2> HIDE DEF merged, base
  <2> QED BY <2>1, <1>3
<1>6. cs \in CursorSet
  <2>1. base.cursors \in CursorSet
    BY <1>3 DEF InfoSet
  <2>2. \A k \in Keys : Len(lookup[k].list) \in Nat /\ lookup[k].rev \in Nat
    BY LenProperties DEF Typed
  <2> QED BY <2>1, <2>2 DEF CursorSet
<1>7. LastId \in Nat
  BY LenProperties DEF Typed, LastId
<1> HIDE DEF base, merged, cs
<1>8. /\ next \in InfoSet
      /\ next.query = i.query /\ next.refs = i.refs /\ next.result = base.result \cup Found(base)
      /\ next.last = LastId /\ next.dirty = FALSE /\ next.snapshot = source.version
      /\ next.cursors = cs /\ next.synced = merged.synced
  BY <1>5, <1>6, <1>7 DEF InfoSet
<1>9. i.synced \in BOOLEAN
  BY InfoFields
<1> HIDE DEF next
<1>10. LET other == [next EXCEPT !.synced = i.synced] IN
       /\ other \in InfoSet
       /\ other.query = i.query /\ other.refs = i.refs /\ other.result = base.result \cup Found(base)
       /\ other.last = LastId /\ other.dirty = FALSE /\ other.snapshot = source.version
       /\ other.cursors = cs /\ other.synced = i.synced
  BY <1>8, <1>9 DEF InfoSet
<1>11. \A k \in Keys :
         \/ cs[k] = base.cursors[k]
         \/ cs[k].index = Len(lookup[k].list) /\ cs[k].rev = lookup[k].rev
  BY DEF cs
<1>12. CASE Policy(i.query) = "Dynamic" /\ i.result # {} /\ next.result = i.result
  <2>1. Matched(i) = [next EXCEPT !.synced = i.synced]
    BY <1>1, <1>12
  <2> QED BY <2>1, <1>2, <1>3, <1>8, <1>10, <1>11, <1>12
<1>13. CASE ~(Policy(i.query) = "Dynamic" /\ i.result # {} /\ next.result = i.result)
  <2>1. Matched(i) = next
    BY <1>1, <1>13
  <2> QED BY <2>1, <1>2, <1>3, <1>5, <1>8, <1>11
<1> QED BY <1>12, <1>13

(* Cursors that were reset have passed nothing; cursors of a record that   *)
(* is up to date can be trusted.                                           *)
LEMMA BaseCursors ==
  ASSUME Typed, BucketInv, NEW i \in InfoSet, ~Skips(i), i.query.src \subseteq source.ids,
         CompleteOK(i, ids, lookup, source),
         NEW k \in SearchKeys(i.query)
  PROVE  CursorOK(Base(i), k, ids, lookup)
<1>1. k \in Keys
  BY MatchedFacts, SearchTypes
<1>2. CASE MustReset(i)
  <2>1. Base(i).cursors = NoCursors
    BY <1>2, ClearedFacts DEF Base
  <2>2. Base(i).cursors[k].index = 0
    BY <2>1, <1>1 DEF NoCursors
  <2>3. Len(lookup[k].list) \in Nat
    BY <1>1, LenProperties DEF Typed
  <2> QED BY <2>2, <2>3 DEF CursorOK
<1>3. CASE ~MustReset(i)
  BY <1>3, MustResetIsStale DEF Base, Skips, CompleteOK
<1> QED BY <1>2, <1>3

(* A match has everything that matches.                                    *)
LEMMA MatchedComplete ==
  ASSUME Typed, BucketInv, NEW i \in InfoSet, CompleteOK(i, ids, lookup, source)
  PROVE  FreshIn(i.query, ids, lookup, source) \subseteq Matched(i).result
<1>1. CASE i.query = Void
  BY <1>1 DEF FreshIn
<1>2. CASE i.query # Void /\ Skips(i)
  <2>1. ~Stale(i, source) /\ i.last = Len(ids) /\ Matched(i) = i
    BY <1>2, MustResetIsStale, MatchedFacts DEF Skips, LastId
  <2> QED BY <2>1, <1>2 DEF CompleteOK
<1>3. CASE ~Skips(i)
  <2> SUFFICES ASSUME NEW a \in FreshIn(i.query, ids, lookup, source)
               PROVE  a \in Matched(i).result
    OBVIOUS
  <2>1. a \in Live /\ Good(i.query, ids[a]) /\ i.query.src \subseteq source.ids
    BY LiveIsIn DEF FreshIn
  <2>2. Base(i) \in InfoSet /\ Base(i).query = i.query /\ i.query \in Queries
    BY <1>3, MatchedFacts
  <2>3. \A k \in SearchKeys(i.query) : CursorOK(Base(i), k, ids, lookup)
    BY <1>3, <2>1, BaseCursors
  <2>4. a \in Base(i).result \cup Found(Base(i))
    BY <2>1, <2>2, <2>3, FoundComplete
  <2> QED BY <2>4, <1>3, MatchedFacts
<1> QED BY <1>1, <1>2, <1>3

(* And nothing else.                                                       *)
LEMMA MatchedSound ==
  ASSUME Typed, BucketInv, NEW i \in InfoSet, SoundOK(i, ids, lookup, source),
         PastOK(i, ids, lookup, source), i.query.or # <<>> => i.query.no = {}
  PROVE  Matched(i).result \subseteq FreshIn(i.query, ids, lookup, source)
<1>1. CASE i.query = Void
  <2>1. Matched(i) = i
    BY <1>1, MatchedFacts DEF Skips
  <2> QED BY <2>1, <1>1 DEF PastOK
<1>2. CASE i.query # Void /\ Skips(i)
  <2>1. ~Stale(i, source) /\ Matched(i) = i
    BY <1>2, MustResetIsStale, MatchedFacts DEF Skips
  <2> QED BY <2>1 DEF SoundOK
<1>3. CASE ~Skips(i)
  <2>1. Base(i) \in InfoSet /\ Base(i).query = i.query /\ i.query \in Queries
    BY <1>3, MatchedFacts
  <2>2. Found(Base(i)) \subseteq FreshIn(i.query, ids, lookup, source)
    BY <2>1, FoundSound
  <2>3. Base(i).result \subseteq FreshIn(i.query, ids, lookup, source)
    <3>1. CASE MustReset(i)
      BY <3>1, ClearedFacts DEF Base
    <3>2. CASE ~MustReset(i)
      BY <3>2, MustResetIsStale DEF Base, SoundOK
    <3> QED BY <3>1, <3>2
  <2> QED BY <2>2, <2>3, <1>3, MatchedFacts
<1> QED BY <1>1, <1>2, <1>3

(* A match keeps what the invariant says of the record.                    *)
LEMMA MatchedOK ==
  ASSUME Typed, BucketInv, NEW i \in InfoSet, NEW held, IndexOK(i, held),
         PastOK(i, ids, lookup, source), CompleteOK(i, ids, lookup, source)
  PROVE  /\ PastOK(Matched(i), ids, lookup, source)
         /\ CompleteOK(Matched(i), ids, lookup, source)
         /\ Matched(i).synced => Matched(i).result = held
<1>1. CASE Skips(i)
  BY <1>1, MatchedFacts DEF IndexOK
<1>2. CASE ~Skips(i)
  <2> DEFINE j == Matched(i)
             b == Base(i)
  <2>1. /\ i.query \in Queries /\ i.query # Void /\ b \in InfoSet /\ b.query = i.query
        /\ j \in InfoSet /\ j.query = i.query
        /\ j.result = b.result \cup Found(b)
        /\ j.last = LastId /\ j.dirty = FALSE /\ j.snapshot = source.version
    BY <1>2, MatchedFacts, QueryTypes
  <2>2. \A k \in Keys :
          \/ j.cursors[k] = b.cursors[k]
          \/ j.cursors[k].index = Len(lookup[k].list) /\ j.cursors[k].rev = lookup[k].rev
    BY <1>2, MatchedFacts
  <2>3. \/ j.result = i.result /\ j.synced = i.synced
        \/ j.synced <=> b.synced /\ Found(b) \subseteq b.result
    BY <1>2, MatchedFacts
  <2>4. FreshIn(i.query, ids, lookup, source) \subseteq j.result
    BY MatchedComplete
  <2>5. Len(ids) \in Nat /\ source.version \in Nat /\ \A k \in Keys : lookup[k].rev \in Nat
    BY LenProperties DEF Typed
  <2>6. \A k \in Keys : b.cursors[k].rev <= lookup[k].rev
    <3>1. CASE MustReset(i)
      <4>1. b.cursors = NoCursors
        BY <3>1, ClearedFacts DEF Base
      <4> QED BY <4>1, <2>5 DEF NoCursors
    <3>2. CASE ~MustReset(i)
      BY <3>2 DEF Base, PastOK
    <3> QED BY <3>1, <3>2
  <2>7. b.result \subseteq LiveIn(lookup)
    BY ClearedFacts DEF Base, PastOK
  <2>8. PastOK(j, ids, lookup, source)
    <3>1. j.result \subseteq LiveIn(lookup)
      BY <2>1, <2>7, FoundLive, LiveIsIn
    <3>2. \A k \in Keys : j.cursors[k].rev <= lookup[k].rev
      BY <2>2, <2>6, <2>5
    <3> QED BY <3>1, <3>2, <2>1, <2>5 DEF PastOK, LastId
  <2>9. ASSUME i.query.src \subseteq source.ids, NEW k \in SearchKeys(i.query)
        PROVE  CursorOK(j, k, ids, lookup)
    <3>1. k \in Keys
      BY <2>1, SearchTypes
    <3>2. CASE j.cursors[k] = b.cursors[k]
      <4>1. CursorOK(b, k, ids, lookup)
        BY <1>2, <2>9, BaseCursors
      <4> QED BY <4>1, <3>2, <2>1 DEF CursorOK
    <3>3. CASE j.cursors[k].index = Len(lookup[k].list)
      <4>1. ASSUME NEW n \in 1 .. Len(lookup[k].list), Good(i.query, ids[lookup[k].list[n]])
            PROVE  lookup[k].list[n] \in j.result
        <5>1. lookup[k].list[n] \in LiveIn(lookup)
          BY <3>1, InBucket, LiveIsIn
        <5> QED BY <5>1, <4>1, <2>9, <2>4, <2>1 DEF FreshIn
      <4>2. Len(lookup[k].list) \in Nat
        BY <3>1, LenProperties DEF Typed
      <4> QED BY <4>1, <4>2, <3>3, <2>1 DEF CursorOK
    <3> QED BY <3>1, <3>2, <3>3, <2>2
  <2>10. CompleteOK(j, ids, lookup, source)
    BY <2>1, <2>4, <2>9 DEF CompleteOK
  <2>11. j.synced => j.result = held
    <3>1. CASE j.result = i.result /\ j.synced = i.synced
      BY <3>1 DEF IndexOK
    <3>2. CASE j.synced <=> b.synced /\ Found(b) \subseteq b.result
      <4>1. b.synced => b.result = held
        BY ClearedFacts DEF Base, IndexOK
      <4> QED BY <3>2, <4>1, <2>1
    <3> QED BY <3>1, <3>2, <2>3
  <2> QED BY <2>8, <2>10, <2>11
<1> QED BY <1>1, <1>2

-----------------------------------------------------------------------------
(* What the registry keeps when only caches change                         *)

(* Records with the same fields are the same.                              *)
LEMMA SameInfo ==
  ASSUME NEW i \in InfoSet, NEW j \in InfoSet,
         i.query = j.query, i.refs = j.refs, i.result = j.result, i.last = j.last,
         i.dirty = j.dirty, i.cursors = j.cursors, i.snapshot = j.snapshot, i.synced = j.synced
  PROVE  i = j
  BY DEF InfoSet

(* Queries and references are as before, free slots untouched.             *)
SameRefs ==
  \A s \in SlotsOfCache :
    /\ infos'[s].query = infos[s].query /\ infos'[s].refs = infos[s].refs
    /\ infos[s].refs = 0 => infos'[s] = infos[s]

(* A handle is valid as before.                                            *)
LEMMA SameValid ==
  ASSUME Typed, SameRefs, gen' = gen, NEW h \in Handles
  PROVE  Valid(h)' <=> Valid(h)
<1>1. h[1] \in SlotsOfCache
  BY DEF Handles
<1> QED BY <1>1 DEF Valid, SameRefs

(* Handles, shapes and selectors are as before.                            *)
LEMMA RegistryKept ==
  ASSUME Typed, HandleInv, StaleInv, ShapeInv, CountInv, RouteInv,
         SameRefs, UNCHANGED <<users, gen, routes>>,
         \A p \in tracked' : p[2] \in Handles /\ Valid(p[2])
  PROVE  HandleInv' /\ StaleInv' /\ ShapeInv' /\ CountInv' /\ RouteInv'
<1>1. /\ users' = users /\ gen' = gen /\ byShape' = byShape /\ byId' = byId
      /\ bySelector' = bySelector /\ selectors' = selectors
  BY DEF routes
<1>2. HandleInv'
  <2>1. ASSUME NEW u \in DOMAIN users, users[u].handle # None
        PROVE  users[u].handle[1] \in SlotsOfCache
    BY <2>1 DEF Typed, UserSet, Handles
  <2>2. \A s \in SlotsOfCache : HoldersOf(s)' = HoldersOf(s)
    BY <1>1 DEF HoldersOf
  <2> QED BY <1>1, <2>1, <2>2 DEF HandleInv, SameRefs
<1>3. StaleInv'
  <2>1. \A p \in byShape \cup byId \cup bySelector : p[2] \in Handles
    BY DEF Typed
  <2>2. \A p \in tracked' : Valid(p[2])'
    BY <1>1, SameValid
  <2>3. \A p \in byShape \cup byId \cup bySelector : Valid(p[2])'
    BY <1>1, <2>1, SameValid DEF StaleInv
  <2> QED BY <2>2, <2>3, <1>1 DEF StaleInv
<1>4. ShapeInv'
  <2>1. \A p \in byShape : p[2][1] \in SlotsOfCache
    BY DEF Typed, Handles
  <2>2. \A s \in SlotsOfCache : HandleOf(s)' = HandleOf(s)
    BY <1>1 DEF HandleOf
  <2> QED BY <1>1, <2>1, <2>2 DEF ShapeInv, SameRefs
<1>5. CountInv'
  BY <1>1 DEF CountInv
<1>6. RouteInv'
  BY <1>1 DEF RouteInv, HandleOf, SameRefs
<1> QED BY <1>2, <1>3, <1>4, <1>5, <1>6

(* What is valid is in use and was handed out.                             *)
LEMMA ValidFacts ==
  ASSUME Typed, NEW h \in Handles, Valid(h)
  PROVE  /\ h[1] \in SlotsOfCache /\ h = HandleOf(h[1]) /\ infos[h[1]].refs > 0
         /\ h = <<h[1], gen[h[1]]>> /\ infos[h[1]] \in InfoSet
  BY DEF Typed, Handles, Valid, HandleOf

(* A user's handle.                                                        *)
LEMMA UserHandle ==
  ASSUME Typed, NEW u \in DOMAIN users
  PROVE  /\ users[u] \in UserSet /\ users[u].def \in Queries
         /\ users[u].handle # None => users[u].handle \in Handles
         /\ Valid(users[u].handle) => users[u].handle \in Handles
  BY DEF Typed, UserSet, Valid

-----------------------------------------------------------------------------
(* Sequences and numbers                                                   *)

(* Appending.                                                              *)
LEMMA AppendFacts ==
  ASSUME NEW S, NEW s \in Seq(S), NEW x \in S
  PROVE  /\ Append(s, x) \in Seq(S)
         /\ Len(Append(s, x)) = Len(s) + 1
         /\ \A n \in 1 .. Len(s) : Append(s, x)[n] = s[n]
         /\ Append(s, x)[Len(s) + 1] = x
         /\ Elements(Append(s, x)) = Elements(s) \cup {x}
<1>1. Len(s) \in Nat /\ DOMAIN s = 1 .. Len(s)
  BY LenProperties
<1>2. /\ Append(s, x) \in Seq(S)
      /\ Len(Append(s, x)) = Len(s) + 1
      /\ \A n \in 1 .. Len(s) : Append(s, x)[n] = s[n]
      /\ Append(s, x)[Len(s) + 1] = x
  BY <1>1
<1>3. DOMAIN Append(s, x) = 1 .. Len(s) + 1
  BY <1>2, LenProperties
<1>4. ASSUME NEW n \in 1 .. Len(s) + 1
      PROVE  n \in 1 .. Len(s) \/ n = Len(s) + 1
  BY <1>1
<1>5. ASSUME NEW n \in 1 .. Len(s)
      PROVE  n \in 1 .. Len(s) + 1
  BY <1>1
<1>6. Len(s) + 1 \in 1 .. Len(s) + 1
  BY <1>1
<1>7. Elements(Append(s, x)) \subseteq Elements(s) \cup {x}
  BY <1>1, <1>2, <1>3, <1>4 DEF Elements
<1>8. Elements(s) \cup {x} \subseteq Elements(Append(s, x))
  BY <1>1, <1>2, <1>3, <1>5, <1>6 DEF Elements
<1> QED BY <1>2, <1>7, <1>8

(* The numbers up to n and the last of them.                               *)
LEMMA LastOf ==
  ASSUME NEW n \in Nat, n >= 1
  PROVE  /\ n - 1 \in Nat /\ n \in 1 .. n
         /\ \A m \in 1 .. n - 1 : m \in 1 .. n /\ m # n
         /\ \A m \in 1 .. n : m # n => m \in 1 .. n - 1
  OBVIOUS

(* Erasing an element that is in the list once.                            *)
LEMMA SwapEraseFacts ==
  ASSUME NEW S, NEW s \in Seq(S), NEW a \in Elements(s),
         \A m, n \in 1 .. Len(s) : s[m] = s[n] => m = n
  PROVE  /\ SwapErase(s, a) \in Seq(S)
         /\ \A m, n \in 1 .. Len(SwapErase(s, a)) :
              SwapErase(s, a)[m] = SwapErase(s, a)[n] => m = n
         /\ Elements(SwapErase(s, a)) = Elements(s) \ {a}
<1> DEFINE n == Len(s)
           e == SwapErase(s, a)
<1>1. n \in Nat /\ DOMAIN s = 1 .. n
  BY LenProperties
<1>2. PICK p \in 1 .. n : s[p] = a
  BY <1>1 DEF Elements
<1>3. n >= 1
  BY <1>1, <1>2
<1> HIDE DEF n
<1>4. \A m \in 1 .. n : s[m] \in S
  BY ElementOfSeq DEF n
<1>5. /\ n - 1 \in Nat /\ n \in 1 .. n
      /\ \A m \in 1 .. n - 1 : m \in 1 .. n /\ m # n
      /\ \A m \in 1 .. n : m # n => m \in 1 .. n - 1
  BY <1>1, <1>3, LastOf
<1>6. e = [m \in 1 .. n - 1 |-> IF m = p THEN s[n] ELSE s[m]]
  BY <1>1, <1>2, <1>5 DEF SwapErase, e, n
<1>7. e \in [1 .. n - 1 -> S]
  BY <1>4, <1>5, <1>6
<1>8. e \in Seq(S) /\ Len(e) = n - 1 /\ DOMAIN e = 1 .. n - 1
  BY <1>5, <1>7
<1> HIDE DEF e
<1>9. ASSUME NEW m \in 1 .. n - 1 PROVE e[m] = IF m = p THEN s[n] ELSE s[m]
  BY <1>6
<1>10. ASSUME NEW k \in 1 .. n - 1, NEW m \in 1 .. n - 1, e[k] = e[m]
       PROVE  k = m
  BY <1>5, <1>9, <1>10 DEF n
<1>11. ASSUME NEW m \in 1 .. n - 1
       PROVE  e[m] \in Elements(s) /\ e[m] # a
  BY <1>1, <1>2, <1>5, <1>9, <1>3 DEF Elements, n
<1>12. ASSUME NEW x \in Elements(s), x # a
       PROVE  \E m \in 1 .. n - 1 : e[m] = x
  <2>1. PICK k \in 1 .. n : s[k] = x
    BY <1>1 DEF Elements
  <2>2. k # p
    BY <2>1, <1>2, <1>12
  <2>3. CASE k = n
    <3>1. p \in 1 .. n - 1
      BY <1>5, <1>2, <2>2, <2>3
    <3> QED BY <3>1, <1>9, <2>1, <2>3
  <2>4. CASE k # n
    <3>1. k \in 1 .. n - 1
      BY <1>5, <2>1, <2>4
    <3> QED BY <3>1, <1>9, <2>1, <2>2
  <2> QED BY <2>3, <2>4
<1>13. Elements(e) = Elements(s) \ {a}
  <2>1. Elements(e) = {e[m] : m \in 1 .. n - 1}
    BY <1>8 DEF Elements
  <2> QED BY <2>1, <1>11, <1>12
<1> QED BY <1>8, <1>10, <1>13 DEF e

(* A set of numbers has a least one.                                       *)
LEMMA LeastNumber ==
  ASSUME NEW T \in SUBSET Nat, T # {}
  PROVE  \E x \in T : \A y \in T : x <= y
<1>1. PICK x \in T : \A y \in T : ~(<<y, x>> \in OpToRel(<, Nat))
  BY NatLessThanWellFounded, WFMin
<1>2. \A y \in T : ~(y < x)
  BY <1>1 DEF OpToRel
<1> QED BY <1>2

(* Pairs with one handle.                                                  *)
LEMMA PairCount ==
  ASSUME NEW S, IsFiniteSet(S), NEW h
  PROVE  IsFiniteSet(S \X {h}) /\ Cardinality(S \X {h}) = Cardinality(S)
<1> DEFINE f == [x \in S |-> <<x, h>>]
<1>1. f \in Bijection(S, S \X {h})
  <2>1. f \in [S -> S \X {h}]
    OBVIOUS
  <2>2. \A x, y \in S : f[x] = f[y] => x = y
    OBVIOUS
  <2>3. \A p \in S \X {h} : \E x \in S : f[x] = p
    OBVIOUS
  <2> QED BY <2>1, <2>2, <2>3 DEF Bijection, Injection, Surjection, IsInjective
<1> QED BY <1>1, FS_Bijection DEF ExistsBijection

-----------------------------------------------------------------------------
(* The world                                                               *)

(* The buckets of an archetype are buckets of the world.                   *)
LEMMA BucketKeys ==
  ASSUME NEW S \in Builds
  PROVE  BucketsOf(S) \subseteq Keys /\ AnyKey \in BucketsOf(S)
  BY QueryAssumption DEF QueryAssumption, BucketsOf, Keys, Terms

(* Nothing happens to the buckets.                                         *)
LEMMA BucketsKept ==
  ASSUME BucketInv, ids' = ids, lookup' = lookup
  PROVE  BucketInv'
  BY DEF BucketInv, Live

(* create_archetype() gives a number that was never used, and the lists    *)
(* only grow.                                                              *)
LEMMA CreateWorld ==
  ASSUME Typed, BucketInv, NEW s \in Builds, CreateArchetype(s)
  PROVE  /\ LastId + 1 \in Archetypes /\ LastId + 1 \notin Live
         /\ ids' \in Seq(Builds) /\ Len(ids') = Len(ids) + 1 /\ Len(ids') <= MaxArchetypes
         /\ ids'[LastId + 1] = s
         /\ \A b \in 1 .. Len(ids) : ids'[b] = ids[b]
         /\ lookup' \in [Keys -> [list: Seq(Archetypes), rev: Nat]]
         /\ LiveIn(lookup') = LiveIn(lookup) \cup {LastId + 1}
         /\ \A k \in Keys :
              /\ lookup'[k].rev = lookup[k].rev
              /\ Len(lookup[k].list) <= Len(lookup'[k].list)
              /\ \A n \in 1 .. Len(lookup[k].list) : lookup'[k].list[n] = lookup[k].list[n]
         /\ BucketInv'
<1> DEFINE a == LastId + 1
<1>1. /\ ids' = Append(ids, s)
      /\ lookup' = [k \in Keys |-> IF k \in BucketsOf(s)
                      THEN [lookup[k] EXCEPT !.list = Append(@, a)] ELSE lookup[k]]
      /\ LastId < MaxArchetypes
  BY DEF CreateArchetype
<1>2. LastId \in Nat /\ Len(ids) = LastId
  BY LenProperties DEF Typed, LastId
<1>3. a \in Archetypes /\ a \notin 1 .. Len(ids)
  BY <1>1, <1>2, Constants DEF Archetypes
<1>4. a \notin Live
  BY <1>3 DEF BucketInv
<1>5. /\ ids' \in Seq(Builds) /\ Len(ids') = Len(ids) + 1 /\ Len(ids') <= MaxArchetypes
      /\ ids'[a] = s
      /\ \A b \in 1 .. Len(ids) : ids'[b] = ids[b]
  <2>1. ids \in Seq(Builds)
    BY DEF Typed
  <2>2. /\ Append(ids, s) \in Seq(Builds) /\ Len(Append(ids, s)) = Len(ids) + 1
        /\ Append(ids, s)[Len(ids) + 1] = s
        /\ \A b \in 1 .. Len(ids) : Append(ids, s)[b] = ids[b]
    BY <2>1, AppendFacts
  <2>3. Len(ids) + 1 <= MaxArchetypes
    BY <1>1, <1>2, Constants
  <2> QED BY <1>1, <1>2, <2>2, <2>3
<1> HIDE DEF a
<1>6. ASSUME NEW k \in Keys
      PROVE  /\ lookup[k].list \in Seq(Archetypes) /\ lookup[k].rev \in Nat
             /\ lookup[k] \in [list: Seq(Archetypes), rev: Nat]
             /\ Len(lookup[k].list) \in Nat
  BY LenProperties DEF Typed
<1>7. ASSUME NEW k \in Keys, k \in BucketsOf(s)
      PROVE  /\ lookup'[k] \in [list: Seq(Archetypes), rev: Nat]
             /\ lookup'[k].rev = lookup[k].rev
             /\ lookup'[k].list = Append(lookup[k].list, a)
  <2>1. lookup'[k] = [lookup[k] EXCEPT !.list = Append(@, a)]
    BY <1>1, <1>7
  <2>2. Append(lookup[k].list, a) \in Seq(Archetypes)
    BY <1>3, <1>6, AppendFacts
  <2> QED BY <1>6, <2>1, <2>2
<1>8. ASSUME NEW k \in Keys, k \notin BucketsOf(s)
      PROVE  lookup'[k] = lookup[k]
  BY <1>1, <1>8
<1>9. lookup' \in [Keys -> [list: Seq(Archetypes), rev: Nat]]
  <2>1. lookup' = [k \in Keys |-> lookup'[k]]
    BY <1>1
  <2>2. \A k \in Keys : lookup'[k] \in [list: Seq(Archetypes), rev: Nat]
    BY <1>6, <1>7, <1>8
  <2> QED BY <2>1, <2>2
<1>10. LiveIn(lookup') = LiveIn(lookup) \cup {a}
  <2>1. AnyKey \in Keys /\ AnyKey \in BucketsOf(s)
    BY BucketKeys
  <2>2. lookup[AnyKey].list \in Seq(Archetypes)
    BY <1>6, <2>1
  <2>3. lookup'[AnyKey].list = Append(lookup[AnyKey].list, a)
    BY <1>7, <2>1
  <2> QED BY <2>2, <2>3, <1>3, AppendFacts DEF LiveIn
<1>11. ASSUME NEW k \in Keys
       PROVE  /\ lookup'[k].rev = lookup[k].rev
              /\ Len(lookup[k].list) <= Len(lookup'[k].list)
              /\ \A n \in 1 .. Len(lookup[k].list) : lookup'[k].list[n] = lookup[k].list[n]
  <2>1. CASE k \in BucketsOf(s)
    <3>1. /\ Len(Append(lookup[k].list, a)) = Len(lookup[k].list) + 1
          /\ \A n \in 1 .. Len(lookup[k].list) :
               Append(lookup[k].list, a)[n] = lookup[k].list[n]
      BY <1>3, <1>6, AppendFacts
    <3> QED BY <3>1, <2>1, <1>6, <1>7
  <2>2. CASE k \notin BucketsOf(s)
    BY <2>2, <1>6, <1>8
  <2> QED BY <2>1, <2>2
<1>12. \A b \in LiveIn(lookup) : ids'[b] = ids[b] /\ b # a /\ b \in 1 .. Len(ids)
  BY <1>3, <1>5, LiveIsIn DEF BucketInv
<1>13. BucketInv'
  <2>1. Live' \subseteq 1 .. Len(ids')
    <3>1. Live' = Live \cup {a}
      BY <1>10 DEF Live, LiveIn
    <3>2. a \in 1 .. Len(ids')
      BY <1>2, <1>5 DEF a
    <3>3. 1 .. Len(ids) \subseteq 1 .. Len(ids')
      BY <1>2, <1>5
    <3> QED BY <3>1, <3>2, <3>3 DEF BucketInv
  <2>2. ASSUME NEW k \in Keys
        PROVE  BucketOK(k, ids', lookup')
    <3> DEFINE l == lookup[k].list
    <3>1. /\ \A m, n \in 1 .. Len(l) : l[m] = l[n] => m = n
          /\ Elements(l) = {b \in LiveIn(lookup) : k \in BucketsOf(ids[b])}
      BY DEF BucketInv, BucketOK
    <3>2. CASE k \in BucketsOf(s)
      <4>1. lookup'[k].list = Append(l, a)
        BY <1>7, <3>2
      <4>2. /\ Len(Append(l, a)) = Len(l) + 1
            /\ \A n \in 1 .. Len(l) : Append(l, a)[n] = l[n]
            /\ Append(l, a)[Len(l) + 1] = a
            /\ Elements(Append(l, a)) = Elements(l) \cup {a}
        BY <1>3, <1>6, AppendFacts
      <4>3. \A n \in 1 .. Len(l) : l[n] # a
        BY <1>6, <3>1, <1>12, ElementsOf
      <4>4. Len(l) \in Nat
        BY <1>6
      <4> HIDE DEF l
      <4>5. \A n \in 1 .. Len(l) + 1 : n \in 1 .. Len(l) \/ n = Len(l) + 1
        BY <4>4
      <4>6. \A m, n \in 1 .. Len(l) + 1 : Append(l, a)[m] = Append(l, a)[n] => m = n
        BY <4>2, <4>3, <4>5, <3>1
      <4>7. Elements(l) \cup {a} = {b \in LiveIn(lookup') : k \in BucketsOf(ids'[b])}
        BY <3>1, <3>2, <1>5, <1>10, <1>12
      <4> QED BY <4>1, <4>2, <4>6, <4>7 DEF BucketOK
    <3>3. CASE k \notin BucketsOf(s)
      <4>1. Elements(l) = {b \in LiveIn(lookup') : k \in BucketsOf(ids'[b])}
        BY <3>1, <3>3, <1>5, <1>10, <1>12
      <4> QED BY <4>1, <3>1, <1>8, <3>3 DEF BucketOK
    <3> QED BY <3>2, <3>3
  <2> QED BY <2>1, <2>2 DEF BucketInv
<1> QED BY <1>3, <1>4, <1>5, <1>9, <1>10, <1>11, <1>13 DEF a

(* del_empty_archetype() takes it out of every list it is in, and the      *)
(* revisions of those lists say so.                                        *)
LEMMA DeleteWorld ==
  ASSUME Typed, BucketInv, NEW a, DeleteArchetype(a)
  PROVE  /\ ids' = ids
         /\ lookup' \in [Keys -> [list: Seq(Archetypes), rev: Nat]]
         /\ LiveIn(lookup') = LiveIn(lookup) \ {a}
         /\ \A k \in Keys :
              IF k \in BucketsOf(ids[a]) THEN lookup'[k].rev = lookup[k].rev + 1
              ELSE lookup'[k] = lookup[k] /\ a \notin Elements(lookup[k].list)
         /\ BucketInv'
<1>1. /\ ids' = ids /\ a \in Live
      /\ lookup' = [k \in Keys |-> IF k \in BucketsOf(ids[a])
           THEN [list |-> SwapErase(lookup[k].list, a), rev |-> lookup[k].rev + 1]
           ELSE lookup[k]]
  BY DEF DeleteArchetype
<1>2. ids[a] \in Builds
  BY <1>1, InBucket, Constants
<1>3. ASSUME NEW k \in Keys
      PROVE  /\ lookup[k].list \in Seq(Archetypes) /\ lookup[k].rev \in Nat
             /\ lookup[k] \in [list: Seq(Archetypes), rev: Nat]
             /\ \A m, n \in 1 .. Len(lookup[k].list) :
                  lookup[k].list[m] = lookup[k].list[n] => m = n
             /\ Elements(lookup[k].list) = {b \in LiveIn(lookup) : k \in BucketsOf(ids[b])}
             /\ a \in Elements(lookup[k].list) <=> k \in BucketsOf(ids[a])
  BY <1>1, LiveIsIn DEF Typed, BucketInv, BucketOK
<1>4. ASSUME NEW k \in Keys, k \in BucketsOf(ids[a])
      PROVE  /\ lookup'[k] \in [list: Seq(Archetypes), rev: Nat]
             /\ lookup'[k].rev = lookup[k].rev + 1
             /\ \A m, n \in 1 .. Len(lookup'[k].list) :
                  lookup'[k].list[m] = lookup'[k].list[n] => m = n
             /\ Elements(lookup'[k].list) = Elements(lookup[k].list) \ {a}
  <2>1. lookup'[k] = [list |-> SwapErase(lookup[k].list, a), rev |-> lookup[k].rev + 1]
    BY <1>1, <1>4
  <2>2. /\ SwapErase(lookup[k].list, a) \in Seq(Archetypes)
        /\ \A m, n \in 1 .. Len(SwapErase(lookup[k].list, a)) :
             SwapErase(lookup[k].list, a)[m] = SwapErase(lookup[k].list, a)[n] => m = n
        /\ Elements(SwapErase(lookup[k].list, a)) = Elements(lookup[k].list) \ {a}
    BY <1>3, <1>4, SwapEraseFacts
  <2> QED BY <1>3, <2>1, <2>2
<1>5. ASSUME NEW k \in Keys, k \notin BucketsOf(ids[a])
      PROVE  lookup'[k] = lookup[k] /\ a \notin Elements(lookup[k].list)
  BY <1>1, <1>3, <1>5
<1>6. lookup' \in [Keys -> [list: Seq(Archetypes), rev: Nat]]
  <2>1. lookup' = [k \in Keys |-> lookup'[k]]
    BY <1>1
  <2>2. \A k \in Keys : lookup'[k] \in [list: Seq(Archetypes), rev: Nat]
    BY <1>3, <1>4, <1>5
  <2> QED BY <2>1, <2>2
<1>7. LiveIn(lookup') = LiveIn(lookup) \ {a}
  <2>1. AnyKey \in Keys /\ AnyKey \in BucketsOf(ids[a])
    BY <1>2, BucketKeys
  <2> QED BY <2>1, <1>4 DEF LiveIn
<1>8. BucketInv'
  <2>1. Live' \subseteq 1 .. Len(ids')
    BY <1>1, <1>7 DEF BucketInv, Live, LiveIn
  <2>2. ASSUME NEW k \in Keys
        PROVE  BucketOK(k, ids', lookup')
    <3>1. CASE k \in BucketsOf(ids[a])
      <4>1. Elements(lookup'[k].list) = {b \in LiveIn(lookup') : k \in BucketsOf(ids'[b])}
        BY <1>1, <1>3, <1>4, <1>7, <3>1
      <4> QED BY <4>1, <1>4, <3>1 DEF BucketOK
    <3>2. CASE k \notin BucketsOf(ids[a])
      <4>1. Elements(lookup'[k].list) = {b \in LiveIn(lookup') : k \in BucketsOf(ids'[b])}
        BY <1>1, <1>3, <1>5, <1>7, <3>2
      <4> QED BY <4>1, <1>3, <1>5, <3>2 DEF BucketOK
    <3> QED BY <3>1, <3>2
  <2> QED BY <2>1, <2>2 DEF BucketInv
<1> QED BY <1>1, <1>4, <1>5, <1>6, <1>7, <1>8

-----------------------------------------------------------------------------
(* Selectors                                                               *)

(* refresh() finds a selector, whatever the sizes of the buckets.          *)
LEMMA LeastTerm ==
  ASSUME Typed, NEW q \in Queries, q.all # <<>>
  PROVE  \E m \in DOMAIN q.all : \A n \in DOMAIN q.all : Before(q, m, n)
<1> DEFINE Weight(n) == 4 * Len(lookup[q.all[n]].list) + Rank(q.all[n])
<1>1. DOMAIN q.all \subseteq Nat /\ 1 \in DOMAIN q.all
  BY QueryTypes, ElementsOf, LenProperties
<1>2. ASSUME NEW n \in DOMAIN q.all PROVE Weight(n) \in Nat
  <2>1. q.all[n] \in Terms
    BY QueryTypes, LenProperties
  <2>2. Len(lookup[q.all[n]].list) \in Nat
    BY <2>1, Constants, LenProperties DEF Typed
  <2>3. Rank(q.all[n]) \in Nat
    BY DEF Rank
  <2> QED BY <2>2, <2>3
<1>3. \A m, n \in DOMAIN q.all :
        Before(q, m, n) <=> Weight(m) < Weight(n) \/ (Weight(m) = Weight(n) /\ m <= n)
  BY DEF Before
<1> HIDE DEF Weight
<1> DEFINE weights == {Weight(n) : n \in DOMAIN q.all}
<1>4. PICK w \in weights : \A v \in weights : w <= v
  BY <1>1, <1>2, LeastNumber
<1> DEFINE places == {n \in DOMAIN q.all : Weight(n) = w}
<1>5. places # {}
  BY <1>4
<1>6. PICK m \in places : \A n \in places : m <= n
  BY <1>1, <1>5, LeastNumber
<1>7. ASSUME NEW n \in DOMAIN q.all PROVE Before(q, m, n)
  <2>1. Weight(m) = w /\ m \in DOMAIN q.all
    BY <1>6
  <2>2. Weight(n) \in Nat /\ w \in Nat /\ w <= Weight(n)
    BY <1>2, <1>4
  <2>3. CASE Weight(n) = w
    BY <2>3, <2>1, <1>3, <1>6
  <2>4. CASE Weight(n) # w
    BY <2>4, <2>1, <2>2, <1>3
  <2> QED BY <2>3, <2>4
<1> QED BY <1>6, <1>7

(* What is registered for a query.                                         *)
LEMMA SelectorFacts ==
  ASSUME Typed, NEW q \in Queries \cup {Void}, NEW h, NEW sels
  PROVE  /\ SelectorsOf(q) \subseteq Terms /\ IsFiniteSet(SelectorsOf(q))
         /\ Woken(q, h, sels \cup (SelectorsOf(q) \X {h}))
<1>1. CASE Policy(q) # "Immediate"
  BY <1>1, FS_EmptySet DEF SelectorsOf, Woken
<1>2. CASE Policy(q) = "Immediate" /\ q.all = <<>>
  <2>1. q \in Queries
    BY <1>2, Constants
  <2>2. SelectorsOf(q) = Elements(q.or)
    BY <1>2 DEF SelectorsOf
  <2>3. Elements(q.or) \subseteq Terms /\ IsFiniteSet(Elements(q.or))
    BY <2>1, QueryTypes, ElementsOf
  <2> QED BY <2>2, <2>3, <1>2 DEF Woken
<1>3. CASE Policy(q) = "Immediate" /\ q.all # <<>>
  <2>1. q \in Queries
    BY <1>3, Constants
  <2> DEFINE m == CHOOSE m \in DOMAIN q.all : \A n \in DOMAIN q.all : Before(q, m, n)
  <2>2. m \in DOMAIN q.all
    BY <2>1, <1>3, LeastTerm
  <2>3. SelectorsOf(q) = {q.all[m]}
    BY <1>3 DEF SelectorsOf
  <2> HIDE DEF m
  <2>4. q.all[m] \in Elements(q.all) /\ q.all[m] \in Terms
    BY <2>1, <2>2, QueryTypes, LenProperties DEF Elements
  <2>5. <<q.all[m], h>> \in SelectorsOf(q) \X {h}
    BY <2>3
  <2> QED BY <2>3, <2>4, <2>5, <1>3, FS_Singleton DEF Woken
<1> QED BY <1>1, <1>2, <1>3

-----------------------------------------------------------------------------
(* References                                                              *)

(* What a slot says of its holders.                                        *)
LEMMA HolderFacts ==
  ASSUME Typed, HandleInv, NEW s \in SlotsOfCache
  PROVE  /\ IsFiniteSet(HoldersOf(s)) /\ HoldersOf(s) \subseteq DOMAIN users
         /\ infos[s].refs = Cardinality(HoldersOf(s))
         /\ infos[s].refs \in 0 .. Cardinality(Users)
         /\ infos[s].refs = 0 <=> HoldersOf(s) = {}
<1>1. HoldersOf(s) \in SUBSET Users
  BY DEF HoldersOf, Typed
<1>2. /\ IsFiniteSet(HoldersOf(s)) /\ Cardinality(HoldersOf(s)) <= Cardinality(Users)
      /\ Cardinality(HoldersOf(s)) \in Nat /\ Cardinality(Users) \in Nat
  BY <1>1, Constants, FS_Subset, FS_CardinalityType
<1>3. infos[s].refs = Cardinality(HoldersOf(s))
  BY DEF HandleInv
<1> QED BY <1>2, <1>3, FS_EmptySet DEF HoldersOf

(* An object that holds a reference keeps the query.                       *)
LEMMA HolderValid ==
  ASSUME Typed, HandleInv, NEW u \in DOMAIN users, ~users[u].destroyed, users[u].handle # None
  PROVE  /\ users[u].handle \in Handles /\ Valid(users[u].handle)
         /\ users[u].handle[1] \in SlotsOfCache /\ u \in HoldersOf(users[u].handle[1])
<1>1. users[u].handle \in Handles
  BY UserHandle
<1>2. /\ users[u].handle[1] \in SlotsOfCache /\ users[u].handle[2] = gen[users[u].handle[1]]
      /\ infos[users[u].handle[1]].refs > 0
      /\ users[u].handle = <<users[u].handle[1], users[u].handle[2]>>
  BY <1>1 DEF HandleInv, Handles
<1> QED BY <1>1, <1>2 DEF Valid, HoldersOf

(* The record of a slot whose reference count becomes n.                   *)
Counted(i, n) == [i EXCEPT !.refs = n]

(* A count that does not change.                                           *)
LEMMA SameCount ==
  ASSUME NEW i \in InfoSet
  PROVE  Counted(i, i.refs) = i
<1>1. i.refs \in Nat
  BY InfoFields
<1>2. LET j == Counted(i, i.refs) IN
      /\ j \in InfoSet
      /\ j.query = i.query /\ j.refs = i.refs /\ j.result = i.result /\ j.last = i.last
      /\ j.dirty = i.dirty /\ j.cursors = i.cursors /\ j.snapshot = i.snapshot
      /\ j.synced = i.synced
  BY <1>1, RefsFacts DEF Counted
<1> QED BY <1>2, SameInfo

(* Any other count.                                                        *)
LEMMA CountedFacts ==
  ASSUME NEW i \in InfoSet, NEW n \in Nat
  PROVE  /\ Counted(i, n) \in InfoSet /\ Counted(i, n).refs = n
         /\ Counted(i, n).query = i.query /\ Counted(i, n).result = i.result
         /\ Counted(i, n).last = i.last /\ Counted(i, n).dirty = i.dirty
         /\ Counted(i, n).cursors = i.cursors /\ Counted(i, n).snapshot = i.snapshot
         /\ Counted(i, n).synced = i.synced
  BY RefsFacts DEF Counted

(* Two holders are more than one reference.                                *)
LEMMA SoleHolder ==
  ASSUME Typed, HandleInv, NEW s \in SlotsOfCache, infos[s].refs = 1,
         NEW u \in HoldersOf(s), NEW v \in HoldersOf(s)
  PROVE  u = v
<1>1. \E x : HoldersOf(s) = {x}
  BY HolderFacts, FS_Singleton
<1> QED BY <1>1

-----------------------------------------------------------------------------
(* Giving a reference back                                                 *)

(* The reference of the object was the last one of the slot.               *)
Gone(u, s) ==
  /\ ~users[u].destroyed /\ Valid(users[u].handle)
  /\ s = users[u].handle[1] /\ infos[s].refs = 1

(* What may become of the objects when one of them lets go: it holds       *)
(* nothing, or what another one holds.                                     *)
Takeover(u, nu, gained) ==
  /\ nu \in [DOMAIN users -> UserSet]
  /\ \A w \in DOMAIN users : w # u => nu[w] = users[w]
  /\ IF gained = None THEN nu[u].destroyed \/ nu[u].handle = None
     ELSE /\ nu[u].handle = gained /\ ~nu[u].destroyed
          /\ \E v \in DOMAIN users \ {u} : users[v].handle = gained /\ ~users[v].destroyed
  /\ nu[u].handle # None => \E v \in DOMAIN users : users[v].handle = nu[u].handle

(* One object lets go and one is gained, slot by slot.                     *)
LEMMA LetGoSlot ==
  ASSUME Typed, HandleInv, NEW u \in DOMAIN users, NEW nu, NEW gained,
         LetGo(u, nu, gained), Takeover(u, nu, gained), NEW s \in SlotsOfCache
  PROVE  /\ users' = nu
         /\ Gone(u, s) => /\ gen'[s] = gen[s] + 1 /\ infos'[s] = Free
                          /\ HoldersOf(s) = {u} /\ (gained # None => s # gained[1])
         /\ ~Gone(u, s) => /\ gen'[s] = gen[s]
                           /\ infos'[s] = Counted(infos[s], Cardinality(HoldersOf(s)'))
                           /\ IsFiniteSet(HoldersOf(s)')
                           /\ infos[s].refs = 0 <=> HoldersOf(s)' = {}
                           /\ infos[s].refs = 0 => infos'[s] = infos[s]
<1> DEFINE h == users[u].handle
           drops == ~users[u].destroyed /\ Valid(h)
           dead == drops /\ infos[h[1]].refs = 1
           refs == infos[s].refs - (IF drops /\ s = h[1] THEN 1 ELSE 0)
                                 + (IF gained # None /\ s = gained[1] THEN 1 ELSE 0)
           rest == HoldersOf(s) \ {u}
<1>1. /\ users' = nu
      /\ infos'[s] = IF dead /\ s = h[1] THEN Free ELSE Counted(infos[s], refs)
      /\ gen' = IF dead THEN [gen EXCEPT ![h[1]] = @ + 1] ELSE gen
  BY DEF LetGo, Counted
<1>2. drops => /\ h # None /\ h \in Handles /\ h[1] \in SlotsOfCache /\ h = <<h[1], gen[h[1]]>>
               /\ u \in HoldersOf(h[1])
  <2> SUFFICES ASSUME drops
               PROVE  /\ h # None /\ h \in Handles /\ h[1] \in SlotsOfCache
                      /\ h = <<h[1], gen[h[1]]>> /\ u \in HoldersOf(h[1])
    OBVIOUS
  <2>1. h # None
    BY DEF Valid
  <2>2. h \in Handles /\ u \in HoldersOf(h[1])
    BY <2>1, HolderValid
  <2> QED BY <2>1, <2>2, ValidFacts
<1>3. u \in HoldersOf(s) <=> drops /\ s = h[1]
  <2>1. ASSUME u \in HoldersOf(s) PROVE drops /\ s = h[1]
    <3>1. h = <<s, gen[s]>> /\ ~users[u].destroyed
      BY <2>1 DEF HoldersOf
    <3>2. h # None
      BY <3>1, Constants DEF None
    <3> QED BY <3>1, <3>2, HolderValid
  <2> QED BY <2>1, <1>2
<1>4. Gone(u, s) <=> dead /\ s = h[1]
  BY DEF Gone
<1>5. /\ IsFiniteSet(HoldersOf(s)) /\ infos[s].refs = Cardinality(HoldersOf(s))
      /\ infos[s].refs \in Nat /\ infos[s] \in InfoSet
      /\ infos[s].refs = 0 <=> HoldersOf(s) = {}
  BY HolderFacts, InfoFields DEF Typed
<1>6. gained # None =>
        /\ gained \in Handles /\ Valid(gained)
        /\ gained[1] \in SlotsOfCache /\ gained = <<gained[1], gen[gained[1]]>>
        /\ \E v \in HoldersOf(gained[1]) : v # u
  <2> SUFFICES ASSUME gained # None
               PROVE  /\ gained \in Handles /\ Valid(gained)
                      /\ gained[1] \in SlotsOfCache /\ gained = <<gained[1], gen[gained[1]]>>
                      /\ \E v \in HoldersOf(gained[1]) : v # u
    OBVIOUS
  <2>1. PICK v \in DOMAIN users \ {u} : users[v].handle = gained /\ ~users[v].destroyed
    BY DEF Takeover
  <2>2. gained \in Handles /\ Valid(gained) /\ v \in HoldersOf(gained[1])
    BY <2>1, HolderValid
  <2> QED BY <2>1, <2>2, ValidFacts
<1> HIDE DEF h, drops
<1>7. CASE Gone(u, s)
  <2>1. gen'[s] = gen[s] + 1 /\ infos'[s] = Free
    BY <1>1, <1>4, <1>7 DEF Typed
  <2>2. infos[s].refs = 1 /\ u \in HoldersOf(s)
    BY <1>3, <1>4, <1>7
  <2>3. \A v \in HoldersOf(s) : v = u
    BY <2>2, SoleHolder
  <2>4. HoldersOf(s) = {u}
    BY <2>2, <2>3
  <2>5. gained # None => s # gained[1]
    BY <2>3, <1>6
  <2> QED BY <1>1, <1>7, <2>1, <2>4, <2>5
<1>8. CASE ~Gone(u, s)
  <2>1. gen'[s] = gen[s] /\ infos'[s] = Counted(infos[s], refs)
    BY <1>1, <1>2, <1>4, <1>8 DEF Typed
  <2>2. HoldersOf(s)' = rest \cup (IF gained # None /\ s = gained[1] THEN {u} ELSE {})
    <3>1. HoldersOf(s)' = {w \in DOMAIN users : nu[w].handle = <<s, gen[s]>> /\ ~nu[w].destroyed}
      BY <1>1, <2>1 DEF HoldersOf, Takeover
    <3>2. \A w \in DOMAIN users : w # u => nu[w] = users[w]
      BY DEF Takeover
    <3>3. nu[u].handle = <<s, gen[s]>> /\ ~nu[u].destroyed <=> gained # None /\ s = gained[1]
      <4>1. CASE gained = None
        <5>1. nu[u].destroyed \/ nu[u].handle = None
          BY <4>1 DEF Takeover
        <5>2. <<s, gen[s]>> # None
          BY Constants DEF None
        <5> QED BY <4>1, <5>1, <5>2
      <4>2. CASE gained # None
        <5>1. nu[u].handle = gained /\ ~nu[u].destroyed
          BY <4>2 DEF Takeover
        <5>2. gained = <<gained[1], gen[gained[1]]>>
          BY <4>2, <1>6
        <5> QED BY <4>2, <5>1, <5>2
      <4> QED BY <4>1, <4>2
    <3>4. ASSUME NEW w
          PROVE  w \in HoldersOf(s)' <=>
                   \/ w \in HoldersOf(s) /\ w # u
                   \/ w = u /\ gained # None /\ s = gained[1]
      BY <3>1, <3>2, <3>3 DEF HoldersOf
    <3> QED BY <3>4
  <2>3. /\ IsFiniteSet(rest)
        /\ Cardinality(rest) = infos[s].refs - (IF drops /\ s = h[1] THEN 1 ELSE 0)
    BY <1>3, <1>5, FS_RemoveElement
  <2>4. u \notin rest
    OBVIOUS
  <2>5. IsFiniteSet(HoldersOf(s)') /\ Cardinality(HoldersOf(s)') = refs
    <3>1. CASE gained # None /\ s = gained[1]
      <4>1. HoldersOf(s)' = rest \cup {u}
        BY <3>1, <2>2
      <4> QED BY <3>1, <4>1, <2>3, <2>4, FS_AddElement
    <3>2. CASE ~(gained # None /\ s = gained[1])
      <4>1. HoldersOf(s)' = rest
        BY <3>2, <2>2
      <4> QED BY <3>2, <4>1, <2>3, <1>5
    <3> QED BY <3>1, <3>2
  <2>6. infos[s].refs = 0 => /\ HoldersOf(s) = {}
                             /\ ~(drops /\ s = h[1]) /\ ~(gained # None /\ s = gained[1])
    BY <1>3, <1>5, <1>6
  <2>7. infos[s].refs = 0 => refs = infos[s].refs /\ HoldersOf(s)' = {}
    BY <2>2, <2>6
  <2>8. infos[s].refs # 0 => HoldersOf(s)' # {}
    <3> SUFFICES ASSUME infos[s].refs # 0 PROVE refs # 0
      BY <2>5, FS_EmptySet
    <3>1. CASE drops /\ s = h[1]
      <4>1. infos[s].refs # 1
        BY <3>1, <1>4, <1>8
      <4> QED BY <4>1, <1>5
    <3>2. CASE ~(drops /\ s = h[1])
      BY <3>2, <1>5
    <3> QED BY <3>1, <3>2
  <2>9. infos[s].refs = 0 => infos'[s] = infos[s]
    BY <2>1, <2>7, <1>5, SameCount
  <2> QED BY <1>1, <1>8, <2>1, <2>5, <2>7, <2>8, <2>9
<1> QED BY <1>7, <1>8

(* Which handles stay valid: those of the slots that are not freed.        *)
LEMMA LetGoValid ==
  ASSUME Typed, HandleInv, NEW u \in DOMAIN users, NEW nu, NEW gained,
         LetGo(u, nu, gained), Takeover(u, nu, gained), NEW p \in Handles
  PROVE  Valid(p)' <=> Valid(p) /\ ~Gone(u, p[1])
<1> DEFINE s == p[1]
<1>1. s \in SlotsOfCache /\ infos[s] \in InfoSet /\ infos[s].refs \in Nat /\ gen[s] \in Nat
  BY InfoFields DEF Typed, Handles
<1>2. CASE Gone(u, s)
  <2>1. infos'[s] = Free
    BY <1>1, <1>2, LetGoSlot
  <2>2. ~(infos'[s].refs > 0)
    BY <2>1, FreeFacts
  <2> QED BY <1>2, <2>2 DEF Valid
<1>3. CASE ~Gone(u, s)
  <2>1. /\ gen'[s] = gen[s] /\ infos'[s] = Counted(infos[s], Cardinality(HoldersOf(s)'))
        /\ IsFiniteSet(HoldersOf(s)') /\ (infos[s].refs = 0 <=> HoldersOf(s)' = {})
    BY <1>1, <1>3, LetGoSlot
  <2>2. Cardinality(HoldersOf(s)') \in Nat /\ (Cardinality(HoldersOf(s)') = 0 <=> HoldersOf(s)' = {})
    BY <2>1, FS_CardinalityType, FS_EmptySet
  <2>3. infos'[s].refs = Cardinality(HoldersOf(s)')
    BY <1>1, <2>1, <2>2, RefsFacts DEF Counted
  <2>4. infos'[s].refs > 0 <=> infos[s].refs > 0
    BY <1>1, <2>1, <2>2, <2>3
  <2> QED BY <1>3, <2>1, <2>4 DEF Valid
<1> QED BY <1>2, <1>3

(* The record of a slot that is not freed.                                 *)
LEMMA LetGoInfo ==
  ASSUME Typed, HandleInv, NEW u \in DOMAIN users, NEW nu, NEW gained,
         LetGo(u, nu, gained), Takeover(u, nu, gained), NEW s \in SlotsOfCache, ~Gone(u, s)
  PROVE  /\ infos'[s] \in InfoSet /\ infos'[s].refs = Cardinality(HoldersOf(s)')
         /\ infos'[s].refs > 0 <=> infos[s].refs > 0
         /\ infos'[s].query = infos[s].query /\ infos'[s].result = infos[s].result
         /\ infos'[s].last = infos[s].last /\ infos'[s].dirty = infos[s].dirty
         /\ infos'[s].cursors = infos[s].cursors /\ infos'[s].snapshot = infos[s].snapshot
         /\ infos'[s].synced = infos[s].synced
<1>1. infos[s] \in InfoSet /\ infos[s].refs \in Nat
  BY InfoFields DEF Typed
<1>2. /\ infos'[s] = Counted(infos[s], Cardinality(HoldersOf(s)'))
      /\ IsFiniteSet(HoldersOf(s)') /\ (infos[s].refs = 0 <=> HoldersOf(s)' = {})
  BY LetGoSlot
<1>3. Cardinality(HoldersOf(s)') \in Nat /\ (Cardinality(HoldersOf(s)') = 0 <=> HoldersOf(s)' = {})
  BY <1>2, FS_CardinalityType, FS_EmptySet
<1>4. LET j == Counted(infos[s], Cardinality(HoldersOf(s)')) IN
      /\ j \in InfoSet /\ j.refs = Cardinality(HoldersOf(s)')
      /\ j.query = infos[s].query /\ j.result = infos[s].result
      /\ j.last = infos[s].last /\ j.dirty = infos[s].dirty
      /\ j.cursors = infos[s].cursors /\ j.snapshot = infos[s].snapshot
      /\ j.synced = infos[s].synced
  BY <1>1, <1>3, RefsFacts DEF Counted
<1> QED BY <1>1, <1>2, <1>3, <1>4

(* What is left of the indexes.                                            *)
LEMMA LetGoIndexes ==
  ASSUME Typed, HandleInv, StaleInv, ShapeInv, NEW u \in DOMAIN users, NEW nu, NEW gained,
         LetGo(u, nu, gained)
  PROVE  /\ \A p \in byShape' : p \in byShape /\ ~Gone(u, p[2][1])
         /\ \A p \in byShape : \/ p \in byShape'
                               \/ Gone(u, users[u].handle[1])
                                    /\ infos[users[u].handle[1]].query = p[1]
         /\ byId' = {p \in byId : ~Gone(u, p[2][1])}
         /\ bySelector' = {p \in bySelector : ~Gone(u, p[2][1])}
         /\ tracked' = {p \in tracked : ~Gone(u, p[2][1])}
<1> DEFINE h == users[u].handle
           i == infos[h[1]]
<1>1. CASE Gone(u, h[1])
  <2>1. /\ tracked' = {p \in tracked : p[2] # h}
        /\ byShape' = {p \in byShape : ~(i.query.shared /\ p[1] = i.query)}
        /\ byId' = {p \in byId : p[2] # h}
        /\ bySelector' = bySelector \ {p \in bySelector : p[2] = h}
    BY <1>1 DEF LetGo, Gone
  <2>2. h \in Handles /\ Valid(h)
    BY <1>1, UserHandle DEF Gone
  <2>3. \A p \in Handles : Valid(p) => (p = h <=> p[1] = h[1])
    BY <2>2, ValidFacts
  <2>4. \A s : Gone(u, s) <=> s = h[1]
    BY <1>1 DEF Gone
  <2>5. \A p \in byId \cup bySelector \cup tracked \cup byShape : p[2] \in Handles /\ Valid(p[2])
    BY DEF Typed, StaleInv
  <2>6. \A p \in byId \cup bySelector \cup tracked \cup byShape : p[2] # h <=> ~Gone(u, p[2][1])
    BY <2>3, <2>4, <2>5
  <2>7. \A p \in byShape : p[2] = h => i.query.shared /\ p[1] = i.query
    BY DEF ShapeInv
  <2>8. \A p \in byShape' : p \in byShape /\ ~Gone(u, p[2][1])
    BY <2>1, <2>6, <2>7
  <2> HIDE DEF h, i
  <2> QED BY <1>1, <2>1, <2>6, <2>8 DEF h, i
<1>2. CASE ~Gone(u, h[1])
  <2>1. UNCHANGED <<byShape, byId, bySelector, tracked>>
    BY <1>2 DEF LetGo, Gone, routes
  <2>2. \A s : ~Gone(u, s)
    BY <1>2 DEF Gone
  <2> QED BY <2>1, <2>2
<1> QED BY <1>1, <1>2

(* The part of a set that is taken away is not counted any more.           *)
LEMMA TakenAway ==
  ASSUME NEW S, IsFiniteSet(S), NEW T \in SUBSET S
  PROVE  /\ Cardinality(S \ T) = Cardinality(S) - Cardinality(T)
         /\ Cardinality(S) - Cardinality(T) \in Nat
<1>1. S \cap T = T
  OBVIOUS
<1>2. IsFiniteSet(S \ T) /\ Cardinality(S \ T) = Cardinality(S) - Cardinality(T)
  BY <1>1, FS_Difference
<1> QED BY <1>2, FS_CardinalityType

(* The selectors counted after a query left.                               *)
LEMMA LetGoCounts ==
  ASSUME Typed, CountInv, NEW u \in DOMAIN users, NEW nu, NEW gained, LetGo(u, nu, gained)
  PROVE  CountInv' /\ selectors' \in [Kinds -> Nat]
<1> DEFINE h == users[u].handle
           mine == {p \in bySelector : p[2] = h}
           Of(S, k) == {p \in S : Kind[p[1]] = k}
<1>1. CASE UNCHANGED <<bySelector, selectors>>
  BY <1>1 DEF CountInv, Typed
<1>2. CASE /\ bySelector' = bySelector \ mine
           /\ selectors' = [k \in Kinds |-> selectors[k] - Cardinality(Of(mine, k))]
  <2>1. IsFiniteSet(bySelector')
    BY <1>2, FS_Subset DEF CountInv
  <2>2. ASSUME NEW k \in Kinds
        PROVE  selectors'[k] = Cardinality(Of(bySelector', k)) /\ selectors'[k] \in Nat
    <3>1. IsFiniteSet(Of(bySelector, k)) /\ Of(mine, k) \in SUBSET Of(bySelector, k)
      BY FS_Subset DEF CountInv
    <3>2. Of(bySelector', k) = Of(bySelector, k) \ Of(mine, k)
      BY <1>2
    <3>3. selectors[k] = Cardinality(Of(bySelector, k))
      BY DEF CountInv
    <3>4. selectors'[k] = selectors[k] - Cardinality(Of(mine, k))
      BY <1>2
    <3> HIDE DEF Of, mine
    <3> QED BY <3>1, <3>2, <3>3, <3>4, TakenAway
  <2>3. selectors' \in [Kinds -> Nat]
    BY <1>2, <2>2
  <2> QED BY <2>1, <2>2, <2>3 DEF CountInv
<1> QED BY <1>1, <1>2 DEF LetGo, routes

(* The types after an object let go.                                       *)
LEMMA LetGoTyped ==
  ASSUME Typed, HandleInv, StaleInv, ShapeInv, CountInv, NEW u \in DOMAIN users, NEW nu, NEW gained,
         LetGo(u, nu, gained), Takeover(u, nu, gained)
  PROVE  Typed'
<1>1. ids' = ids /\ lookup' = lookup /\ source' = source
  BY DEF LetGo, world
<1>2. users' \in [DOMAIN users' -> UserSet] /\ DOMAIN users' \subseteq Users
  BY LetGoSlot DEF LetGo, Takeover, Typed
<1>3. gen' \in [SlotsOfCache -> Nat]
  <2>1. gen' \in [SlotsOfCache -> Nat] \/ gen' = [gen EXCEPT ![users[u].handle[1]] = @ + 1]
    BY DEF LetGo, Typed
  <2> QED BY <2>1 DEF Typed
<1>4. infos' \in [SlotsOfCache -> InfoSet]
  <2>1. infos' = [s \in SlotsOfCache |-> infos'[s]]
    BY DEF LetGo
  <2>2. \A s \in SlotsOfCache : infos'[s] \in InfoSet
    BY LetGoSlot, LetGoInfo, FreeFacts
  <2> QED BY <2>1, <2>2
<1>5. byShape' \subseteq byShape /\ byId' \subseteq byId /\ bySelector' \subseteq bySelector
      /\ tracked' \subseteq tracked
  BY LetGoIndexes
<1>6. selectors' \in [Kinds -> Nat]
  BY LetGoCounts
<1> QED BY <1>1, <1>2, <1>3, <1>4, <1>5, <1>6 DEF Typed

(* The handles after an object let go.                                     *)
LEMMA LetGoHandles ==
  ASSUME Typed, HandleInv, NEW u \in DOMAIN users, NEW nu, NEW gained,
         LetGo(u, nu, gained), Takeover(u, nu, gained)
  PROVE  HandleInv'
<1>1. users' = nu /\ DOMAIN users' = DOMAIN users
  BY DEF LetGo, Takeover
<1>2. ASSUME NEW w \in DOMAIN users', users'[w].handle # None
      PROVE  LET h == users'[w].handle IN
             /\ h[2] <= gen'[h[1]]
             /\ h[2] = gen'[h[1]] => infos'[h[1]].refs > 0
             /\ ~users'[w].destroyed => h[2] = gen'[h[1]]
  <2> DEFINE h == users'[w].handle
             s == h[1]
  <2>1. \E v \in DOMAIN users : users[v].handle = h
    BY <1>1, <1>2 DEF Takeover
  <2>2. h \in Handles /\ h[2] <= gen[s] /\ (h[2] = gen[s] => infos[s].refs > 0)
    BY <2>1, <1>2, UserHandle DEF HandleInv
  <2>3. s \in SlotsOfCache /\ h[2] \in Nat /\ gen[s] \in Nat /\ h = <<s, h[2]>>
    BY <2>2 DEF Handles, Typed
  <2>4. ~users'[w].destroyed => /\ Valid(h) /\ h[2] = gen[s]
                                /\ ~Gone(u, s)
    <3> SUFFICES ASSUME ~users'[w].destroyed
                 PROVE  Valid(h) /\ h[2] = gen[s] /\ ~Gone(u, s)
      OBVIOUS
    <3>1. CASE w = u
      <4>1. gained # None /\ h = gained
        BY <3>1, <1>1, <1>2 DEF Takeover
      <4>2. PICK v \in DOMAIN users \ {u} : users[v].handle = h /\ ~users[v].destroyed
        BY <4>1 DEF Takeover
      <4>3. Valid(h)
        BY <4>2, <1>2, HolderValid
      <4>4. ~Gone(u, s)
        BY <2>3, <4>1, LetGoSlot
      <4> QED BY <4>3, <4>4 DEF Valid
    <3>2. CASE w # u
      <4>1. users[w] = users'[w] /\ w \in DOMAIN users
        BY <3>2, <1>1 DEF Takeover
      <4>2. Valid(h) /\ w \in HoldersOf(s)
        BY <4>1, <1>2, HolderValid
      <4>3. ~Gone(u, s)
        BY <4>2, <3>2, <2>3, LetGoSlot
      <4> QED BY <4>2, <4>3 DEF Valid
    <3> QED BY <3>1, <3>2
  <2>5. CASE Gone(u, s)
    <3>1. gen'[s] = gen[s] + 1
      BY <2>3, <2>5, LetGoSlot
    <3> QED BY <3>1, <2>2, <2>3, <2>4, <2>5
  <2>6. CASE ~Gone(u, s)
    <3>1. gen'[s] = gen[s] /\ (infos'[s].refs > 0 <=> infos[s].refs > 0)
      BY <2>3, <2>6, LetGoSlot, LetGoInfo
    <3> QED BY <3>1, <2>2, <2>3, <2>4
  <2> QED BY <2>5, <2>6
<1>3. ASSUME NEW s \in SlotsOfCache
      PROVE  /\ infos'[s].refs = Cardinality(HoldersOf(s)')
             /\ infos'[s].refs = 0 => infos'[s] = Free
  <2>1. CASE Gone(u, s)
    <3>1. gen'[s] = gen[s] + 1 /\ infos'[s] = Free
      BY <2>1, LetGoSlot
    <3>2. ASSUME NEW w \in HoldersOf(s)' PROVE FALSE
      <4>1. w \in DOMAIN users' /\ users'[w].handle = <<s, gen[s] + 1>>
        BY <3>1, <3>2 DEF HoldersOf
      <4>2. gen[s] \in Nat /\ s # 0
        BY Constants DEF Typed
      <4>3. users'[w].handle # None
        BY <4>1, <4>2 DEF None
      <4>4. PICK v \in DOMAIN users : users[v].handle = <<s, gen[s] + 1>>
        BY <4>1, <4>3, <1>1 DEF Takeover
      <4>5. <<s, gen[s] + 1>>[2] <= gen[<<s, gen[s] + 1>>[1]]
        BY <4>1, <4>3, <4>4 DEF HandleInv
      <4> QED BY <4>2, <4>5
    <3>3. HoldersOf(s)' = {}
      BY <3>2
    <3> QED BY <3>1, <3>3, FreeFacts, FS_EmptySet
  <2>2. CASE ~Gone(u, s)
    <3>1. /\ infos'[s].refs = Cardinality(HoldersOf(s)')
          /\ infos'[s].refs > 0 <=> infos[s].refs > 0
      BY <2>2, LetGoInfo
    <3>2. infos[s].refs = 0 => infos'[s] = Free
      BY <2>2, LetGoSlot DEF HandleInv
    <3>3. infos[s].refs \in Nat
      BY HolderFacts, InfoFields DEF Typed
    <3> QED BY <3>1, <3>2, <3>3
  <2> QED BY <2>1, <2>2
<1> QED BY <1>2, <1>3 DEF HandleInv

(* The indexes after an object let go.                                     *)
LEMMA LetGoRegistry ==
  ASSUME Typed, HandleInv, StaleInv, ShapeInv, RouteInv, NEW u \in DOMAIN users, NEW nu, NEW gained,
         LetGo(u, nu, gained), Takeover(u, nu, gained)
  PROVE  StaleInv' /\ ShapeInv' /\ RouteInv'
<1>1. \A p \in byShape' \cup byId' \cup bySelector' \cup tracked' :
        /\ p \in byShape \cup byId \cup bySelector \cup tracked
        /\ ~Gone(u, p[2][1])
  BY LetGoIndexes
<1>2. \A p \in byShape \cup byId \cup bySelector \cup tracked : p[2] \in Handles /\ Valid(p[2])
  BY DEF Typed, StaleInv
<1>3. StaleInv'
  <2>1. \A p \in byShape' \cup byId' \cup bySelector' \cup tracked' : Valid(p[2])'
    BY <1>1, <1>2, LetGoValid
  <2> QED BY <2>1 DEF StaleInv
<1>4. ASSUME NEW s \in SlotsOfCache, infos'[s].refs > 0
      PROVE  /\ ~Gone(u, s) /\ infos[s].refs > 0 /\ infos'[s].query = infos[s].query
             /\ HandleOf(s)' = HandleOf(s)
  <2>1. ~Gone(u, s)
    <3>1. Gone(u, s) => infos'[s] = Free
      BY LetGoSlot
    <3> QED BY <3>1, <1>4, FreeFacts
  <2> QED BY <2>1, <1>4, LetGoInfo, LetGoSlot DEF HandleOf
<1>5. ShapeInv'
  <2>1. ASSUME NEW p \in byShape'
        PROVE  p[1].shared /\ infos'[p[2][1]].query = p[1]
    <3>1. p \in byShape /\ ~Gone(u, p[2][1]) /\ p[2][1] \in SlotsOfCache
      BY LetGoIndexes DEF Typed, Handles
    <3> QED BY <3>1, LetGoInfo DEF ShapeInv
  <2>2. ASSUME NEW s \in SlotsOfCache, infos'[s].refs > 0, infos'[s].query.shared
        PROVE  <<infos'[s].query, HandleOf(s)'>> \in byShape'
    <3> DEFINE p == <<infos[s].query, HandleOf(s)>>
    <3>1. p \in byShape
      BY <1>4, <2>2 DEF ShapeInv
    <3>2. ASSUME Gone(u, users[u].handle[1]), infos[users[u].handle[1]].query = infos[s].query
          PROVE  FALSE
      <4>1. users[u].handle[1] \in SlotsOfCache /\ infos[users[u].handle[1]].refs = 1
        BY <3>2, UserHandle DEF Gone, Handles
      <4>2. users[u].handle[1] = s
        BY <4>1, <3>2, <1>4, <2>2 DEF ShapeInv
      <4> QED BY <4>2, <3>2, <1>4, <2>2
    <3>3. p \in byShape'
      BY <3>1, <3>2, LetGoIndexes
    <3> QED BY <3>3, <1>4, <2>2
  <2>3. \A r, s \in SlotsOfCache :
          infos'[r].refs > 0 /\ infos'[s].refs > 0 /\ infos'[r].query.shared
            /\ infos'[r].query = infos'[s].query => r = s
    BY <1>4 DEF ShapeInv
  <2> QED BY <2>1, <2>2, <2>3 DEF ShapeInv
<1>6. RouteInv'
  <2>1. ASSUME NEW s \in SlotsOfCache, infos'[s].refs > 0
        PROVE  Woken(infos[s].query, HandleOf(s), bySelector')
    <3>1. Woken(infos[s].query, HandleOf(s), bySelector)
      BY <1>4, <2>1 DEF RouteInv
    <3>2. \A t : <<t, HandleOf(s)>> \in bySelector <=> <<t, HandleOf(s)>> \in bySelector'
      BY <1>4, <2>1, LetGoIndexes DEF HandleOf
    <3> QED BY <3>1, <3>2 DEF Woken
  <2> QED BY <2>1, <1>4 DEF RouteInv
<1> QED BY <1>3, <1>5, <1>6

(* Letting go keeps it.                                                    *)
LEMMA LetGoBase ==
  ASSUME BaseInv, NEW u \in DOMAIN users, NEW nu, NEW gained,
         LetGo(u, nu, gained), Takeover(u, nu, gained)
  PROVE  BaseInv'
<1>1. BucketInv'
  BY BucketsKept DEF LetGo, world, BaseInv
<1>2. Typed' /\ HandleInv' /\ CountInv'
  BY LetGoTyped, LetGoHandles, LetGoCounts DEF BaseInv
<1>3. StaleInv' /\ ShapeInv' /\ RouteInv'
  BY LetGoRegistry DEF BaseInv
<1> QED BY <1>1, <1>2, <1>3 DEF BaseInv

(* Query::destroy                                                          *)
LEMMA DestroyIs ==
  ASSUME Typed, NEW u \in DOMAIN users, Destroy(u)
  PROVE  \E nu, gained : LetGo(u, nu, gained) /\ Takeover(u, nu, gained)
<1> DEFINE nu == [users EXCEPT ![u].destroyed = TRUE]
<1>1. LetGo(u, nu, None)
  BY DEF Destroy
<1>2. users \in [DOMAIN users -> UserSet]
  BY DEF Typed
<1>3. nu \in [DOMAIN users -> UserSet] /\ nu[u].destroyed /\ nu[u].handle = users[u].handle
  BY <1>2 DEF UserSet
<1>4. \A w \in DOMAIN users : w # u => nu[w] = users[w]
  BY <1>2
<1>5. Takeover(u, nu, None)
  BY <1>3, <1>4 DEF Takeover
<1> QED BY <1>1, <1>5

(* Building the query again.                                               *)
LEMMA RebuildIs ==
  ASSUME Typed, NEW u \in DOMAIN users, Rebuild(u)
  PROVE  \E nu, gained : LetGo(u, nu, gained) /\ Takeover(u, nu, gained)
<1> DEFINE nu == [users EXCEPT ![u] = NewObject(users[u].def)]
<1>1. LetGo(u, nu, None)
  BY DEF Rebuild
<1>2. users \in [DOMAIN users -> UserSet]
  BY DEF Typed
<1>3. NewObject(users[u].def) \in UserSet /\ NewObject(users[u].def).handle = None
  BY <1>2 DEF UserSet, NewObject
<1>4. nu \in [DOMAIN users -> UserSet] /\ nu[u].handle = None
  BY <1>2, <1>3
<1>5. \A w \in DOMAIN users : w # u => nu[w] = users[w]
  BY <1>2
<1>6. Takeover(u, nu, None)
  BY <1>4, <1>5 DEF Takeover
<1> QED BY <1>1, <1>6

(* Assigning another query.                                                *)
LEMMA CopyIs ==
  ASSUME Typed, HandleInv, NEW u \in DOMAIN users, NEW v \in DOMAIN users, Copy(u, v)
  PROVE  \E nu, gained : LetGo(u, nu, gained) /\ Takeover(u, nu, gained)
<1> DEFINE nu == [users EXCEPT ![u] = users[v]]
           gained == IF ~users[v].destroyed /\ Valid(users[v].handle)
                       THEN users[v].handle ELSE None
<1>1. LetGo(u, nu, gained) /\ u # v /\ users[v].handle # None
  BY DEF Copy
<1>2. users \in [DOMAIN users -> UserSet]
  BY DEF Typed
<1>3. nu \in [DOMAIN users -> UserSet] /\ nu[u] = users[v]
  BY <1>2
<1>4. \A w \in DOMAIN users : w # u => nu[w] = users[w]
  BY <1>2
<1>5. IF gained = None THEN users[v].destroyed
      ELSE users[v].handle = gained /\ ~users[v].destroyed
  BY <1>1, HolderValid
<1> HIDE DEF nu, gained
<1>6. Takeover(u, nu, gained)
  BY <1>1, <1>3, <1>4, <1>5 DEF Takeover
<1> QED BY <1>1, <1>6

-----------------------------------------------------------------------------
(* Taking a reference                                                      *)

(* What an object asks for, and what it is once it has it.                 *)
Asked(u) == IF users[u].authored THEN users[u].def ELSE Void
Bound(u, h) ==
  users' = [users EXCEPT ![u].handle = h, ![u].destroyed = FALSE, ![u].authored = FALSE]

(* The object joins the record of its shape.                               *)
Joins(u, p) ==
  /\ p \in byShape /\ Asked(u).shared /\ p[1] = Asked(u)
  /\ ~Valid(users[u].handle) /\ Bound(u, p[2])
  /\ infos' = [infos EXCEPT ![p[2][1]].refs = @ + 1]
  /\ UNCHANGED <<world, gen, routes, tracked>>

(* The object gets a record of its own.                                    *)
Opens(u, s) ==
  LET q == Asked(u)
      h == <<s, gen[s]>>
      sel == SelectorsOf(q)
  IN /\ s \in SlotsOfCache /\ infos[s].refs = 0
     /\ \A p \in byShape : ~(q.shared /\ p[1] = q)
     /\ ~Valid(users[u].handle) /\ Bound(u, h)
     /\ infos' = [infos EXCEPT ![s] = Unmatched(q)]
     /\ byShape' = byShape \cup (IF q.shared THEN {<<q, h>>} ELSE {})
     /\ byId' = byId \cup ((Elements(q.all) \cup Elements(q.or) \cup q.no \cup q.src) \X {h})
     /\ bySelector' = bySelector \cup (sel \X {h})
     /\ selectors' = [k \in Kinds |->
          selectors[k] + Cardinality({t \in sel : Kind[t] = k})]
     /\ UNCHANGED <<world, gen, tracked>>

(* Fetching is one of them.                                                *)
LEMMA FetchIs ==
  ASSUME NEW u, Fetch(u)
  PROVE  (\E p : Joins(u, p)) \/ (\E s : Opens(u, s))
<1> DEFINE q == Asked(u)
           known == {p \in byShape : q.shared /\ p[1] = q}
<1>1. CASE \E p \in known : /\ Bound(u, p[2])
                            /\ infos' = [infos EXCEPT ![p[2][1]].refs = @ + 1]
                            /\ UNCHANGED <<gen, routes>>
  <2>1. PICK p \in known : /\ Bound(u, p[2])
                           /\ infos' = [infos EXCEPT ![p[2][1]].refs = @ + 1]
                           /\ UNCHANGED <<gen, routes>>
    BY <1>1
  <2>2. Joins(u, p)
    BY <2>1 DEF Fetch, Joins, Asked
  <2> QED BY <2>2
<1>2. CASE /\ known = {}
           /\ \E s \in SlotsOfCache :
                LET h == <<s, gen[s]>>
                    sel == SelectorsOf(q)
                    terms == Elements(q.all) \cup Elements(q.or) \cup q.no \cup q.src
                IN /\ s \in FreeSlots
                   /\ Bound(u, h)
                   /\ infos' = [infos EXCEPT ![s] = Unmatched(q)]
                   /\ byShape' = byShape \cup (IF q.shared THEN {<<q, h>>} ELSE {})
                   /\ byId' = byId \cup (terms \X {h})
                   /\ bySelector' = bySelector \cup (sel \X {h})
                   /\ selectors' = [k \in Kinds |->
                        selectors[k] + Cardinality({t \in sel : Kind[t] = k})]
                   /\ UNCHANGED gen
  <2>1. \A p \in byShape : ~(q.shared /\ p[1] = q)
    BY <1>2
  <2>2. ~Valid(users[u].handle) /\ UNCHANGED <<world, tracked>>
    BY DEF Fetch
  <2> HIDE DEF q
  <2>3. PICK s \in SlotsOfCache :
          /\ s \in FreeSlots
          /\ Bound(u, <<s, gen[s]>>)
          /\ infos' = [infos EXCEPT ![s] = Unmatched(q)]
          /\ byShape' = byShape \cup (IF q.shared THEN {<<q, <<s, gen[s]>>>>} ELSE {})
          /\ byId' = byId \cup ((Elements(q.all) \cup Elements(q.or) \cup q.no \cup q.src)
                                  \X {<<s, gen[s]>>})
          /\ bySelector' = bySelector \cup (SelectorsOf(q) \X {<<s, gen[s]>>})
          /\ selectors' = [k \in Kinds |->
               selectors[k] + Cardinality({t \in SelectorsOf(q) : Kind[t] = k})]
          /\ UNCHANGED gen
    BY <1>2
  <2>4. infos[s].refs = 0
    BY <2>3 DEF FreeSlots
  <2>5. Opens(u, s)
    BY <2>1, <2>2, <2>3, <2>4 DEF Opens, q
  <2> QED BY <2>5
<1> QED BY <1>1, <1>2 DEF Fetch, Asked, Bound

(* An object that asks is not a holder, and becomes one.                   *)
LEMMA BoundFacts ==
  ASSUME Typed, HandleInv, NEW u \in DOMAIN users, NEW h \in Handles, Bound(u, h),
         gen' = gen, ~Valid(users[u].handle), h[2] = gen[h[1]]
  PROVE  /\ Asked(u) \in Queries \cup {Void}
         /\ DOMAIN users' = DOMAIN users /\ users' \in [DOMAIN users -> UserSet]
         /\ users'[u].handle = h /\ ~users'[u].destroyed
         /\ \A w \in DOMAIN users : w # u => users'[w] = users[w]
         /\ HoldersOf(h[1])' = HoldersOf(h[1]) \cup {u} /\ u \notin HoldersOf(h[1])
         /\ \A s \in SlotsOfCache : s # h[1] => HoldersOf(s)' = HoldersOf(s)
<1>1. users \in [DOMAIN users -> UserSet]
  BY DEF Typed
<1>2. /\ DOMAIN users' = DOMAIN users /\ users' \in [DOMAIN users -> UserSet]
      /\ users'[u].handle = h /\ ~users'[u].destroyed
      /\ \A w \in DOMAIN users : w # u => users'[w] = users[w]
  <2> DEFINE new == [users[u] EXCEPT !.handle = h, !.destroyed = FALSE, !.authored = FALSE]
  <2>1. new \in UserSet /\ new.handle = h /\ new.destroyed = FALSE
    <3>1. users[u] \in UserSet
      BY <1>1
    <3> QED BY <3>1 DEF UserSet
  <2>2. users' = [users EXCEPT ![u] = new]
    BY DEF Bound
  <2> HIDE DEF new
  <2> QED BY <2>1, <2>2, <1>1
<1>3. \A s \in SlotsOfCache : u \notin HoldersOf(s)
  <2> SUFFICES ASSUME NEW s \in SlotsOfCache, u \in HoldersOf(s) PROVE FALSE
    OBVIOUS
  <2>1. users[u].handle = <<s, gen[s]>> /\ ~users[u].destroyed
    BY DEF HoldersOf
  <2>2. users[u].handle # None
    BY <2>1, Constants DEF None
  <2> QED BY <2>1, <2>2, HolderValid
<1>4. h[1] \in SlotsOfCache /\ h = <<h[1], gen[h[1]]>>
  BY DEF Handles
<1>5. \A s \in SlotsOfCache : users'[u].handle = <<s, gen[s]>> <=> s = h[1]
  BY <1>2, <1>4
<1>6. \A s \in SlotsOfCache : \A w : w \in HoldersOf(s)' <=>
        w \in HoldersOf(s) \/ (w = u /\ s = h[1])
  BY <1>2, <1>3, <1>5 DEF HoldersOf
<1>7. Asked(u) \in Queries \cup {Void}
  BY UserHandle DEF Asked
<1> QED BY <1>2, <1>3, <1>4, <1>6, <1>7

(* A record that exists is joined.                                         *)
LEMMA JoinsBase ==
  ASSUME BaseInv, NEW u \in DOMAIN users, NEW p, Joins(u, p)
  PROVE  /\ BaseInv'
         /\ \A s \in SlotsOfCache : \E n \in Nat : infos'[s] = Counted(infos[s], n)
<1> USE DEF BaseInv
<1> DEFINE h == p[2]
           c == h[1]
<1>1. /\ infos' = [infos EXCEPT ![c].refs = @ + 1]
      /\ ids' = ids /\ lookup' = lookup /\ source' = source
      /\ gen' = gen /\ byShape' = byShape /\ byId' = byId /\ bySelector' = bySelector
      /\ selectors' = selectors /\ tracked' = tracked
  BY DEF Joins, world, routes
<1>2. h \in Handles /\ Valid(h) /\ ~Valid(users[u].handle) /\ Bound(u, h) /\ p \in byShape
  BY DEF Joins, Typed, StaleInv
<1>3. /\ c \in SlotsOfCache /\ h = <<c, gen[c]>> /\ h[2] = gen[c] /\ infos[c].refs > 0
      /\ infos[c] \in InfoSet /\ infos[c].refs \in Nat
  BY <1>2, ValidFacts, InfoFields
<1>4. /\ DOMAIN users' = DOMAIN users /\ users' \in [DOMAIN users -> UserSet]
      /\ users'[u].handle = h /\ ~users'[u].destroyed
      /\ \A w \in DOMAIN users : w # u => users'[w] = users[w]
      /\ HoldersOf(c)' = HoldersOf(c) \cup {u} /\ u \notin HoldersOf(c)
      /\ \A s \in SlotsOfCache : s # c => HoldersOf(s)' = HoldersOf(s)
  BY <1>1, <1>2, <1>3, BoundFacts
<1> HIDE DEF h, c
<1>5. infos'[c] = Counted(infos[c], infos[c].refs + 1)
      /\ \A s \in SlotsOfCache : s # c => infos'[s] = infos[s]
  BY <1>1, <1>3 DEF Counted, Typed
<1>6. /\ infos'[c] \in InfoSet /\ infos'[c].refs = infos[c].refs + 1
      /\ infos'[c].query = infos[c].query
  <2>1. infos[c].refs + 1 \in Nat
    BY <1>3
  <2> DEFINE n == infos[c].refs + 1
  <2>2. infos'[c] = Counted(infos[c], n) /\ infos[c] \in InfoSet
    BY <1>3, <1>5
  <2>3. n \in Nat
    BY <2>1
  <2> HIDE DEF n
  <2>4. /\ Counted(infos[c], n) \in InfoSet /\ Counted(infos[c], n).refs = n
        /\ Counted(infos[c], n).query = infos[c].query
    BY <2>2, <2>3, CountedFacts
  <2> QED BY <2>2, <2>4 DEF n
<1>7. Typed'
  <2>1. infos' \in [SlotsOfCache -> InfoSet]
    <3>1. infos' = [s \in SlotsOfCache |-> infos'[s]]
      BY <1>1 DEF Typed
    <3>2. \A s \in SlotsOfCache : infos'[s] \in InfoSet
      BY <1>5, <1>6 DEF Typed
    <3> QED BY <3>1, <3>2
  <2> QED BY <2>1, <1>1, <1>4 DEF Typed
<1>8. HandleInv'
  <2>1. \A w \in DOMAIN users : users[w].handle # None => users[w].handle[1] \in SlotsOfCache
    BY UserHandle DEF Handles
  <2>2. \A s \in SlotsOfCache : infos[s].refs > 0 <=> infos'[s].refs > 0
    BY <1>3, <1>5, <1>6
  <2>3. ASSUME NEW w \in DOMAIN users', users'[w].handle # None
        PROVE  LET g == users'[w].handle IN
               /\ g[2] <= gen'[g[1]]
               /\ g[2] = gen'[g[1]] => infos'[g[1]].refs > 0
               /\ ~users'[w].destroyed => g[2] = gen'[g[1]]
    <3>1. CASE w = u
      <4>1. users'[w].handle = h /\ h[1] = c /\ h[2] = gen[c] /\ gen[c] \in Nat
        BY <3>1, <1>3, <1>4 DEF c, Typed
      <4> QED BY <4>1, <1>1, <1>3, <2>2
    <3>2. CASE w # u
      <4>1. users'[w] = users[w] /\ w \in DOMAIN users
        BY <3>2, <1>4
      <4> QED BY <4>1, <2>1, <2>2, <2>3, <1>1 DEF HandleInv
    <3> QED BY <3>1, <3>2
  <2>4. ASSUME NEW s \in SlotsOfCache
        PROVE  /\ infos'[s].refs = Cardinality(HoldersOf(s)')
               /\ infos'[s].refs = 0 => infos'[s] = Free
    <3>1. CASE s = c
      <4>1. Cardinality(HoldersOf(c) \cup {u}) = infos[c].refs + 1
        BY <1>3, <1>4, HolderFacts, FS_AddElement
      <4> QED BY <4>1, <3>1, <1>3, <1>4, <1>6
    <3>2. CASE s # c
      BY <3>2, <1>4, <1>5 DEF HandleInv
    <3> QED BY <3>1, <3>2
  <2> QED BY <2>3, <2>4 DEF HandleInv
<1>9. \A s \in SlotsOfCache : /\ infos'[s].refs > 0 <=> infos[s].refs > 0
                              /\ infos'[s].query = infos[s].query
                              /\ HandleOf(s)' = HandleOf(s)
  BY <1>1, <1>3, <1>5, <1>6 DEF HandleOf
<1>10. StaleInv'
  <2>1. \A r \in byShape \cup byId \cup bySelector \cup tracked : r[2] \in Handles /\ Valid(r[2])
    BY DEF Typed, StaleInv
  <2>2. \A g \in Handles : Valid(g) => Valid(g)'
    BY <1>1, <1>9 DEF Valid, Handles
  <2> QED BY <2>1, <2>2, <1>1 DEF StaleInv
<1>11. ShapeInv'
  <2>1. \A r \in byShape : r[2][1] \in SlotsOfCache
    BY DEF Typed, Handles
  <2> QED BY <2>1, <1>1, <1>9 DEF ShapeInv
<1>12. CountInv' /\ RouteInv' /\ BucketInv'
  BY <1>1, <1>9, BucketsKept DEF CountInv, RouteInv
<1>13. \A s \in SlotsOfCache : \E n \in Nat : infos'[s] = Counted(infos[s], n)
  <2> SUFFICES ASSUME NEW s \in SlotsOfCache PROVE \E n \in Nat : infos'[s] = Counted(infos[s], n)
    OBVIOUS
  <2>1. CASE s = c
    BY <2>1, <1>3, <1>5
  <2>2. CASE s # c
    <3>1. infos[s] \in InfoSet /\ infos[s].refs \in Nat
      BY InfoFields DEF Typed
    <3> QED BY <3>1, <2>2, <1>5, SameCount
  <2> QED BY <2>1, <2>2
<1> QED BY <1>7, <1>8, <1>10, <1>11, <1>12, <1>13

(* What is added to a set is counted.                                      *)
LEMMA CountAdded ==
  ASSUME NEW S, IsFiniteSet(S), NEW T, IsFiniteSet(T), NEW h, S \cap (T \X {h}) = {}
  PROVE  /\ Cardinality(S \cup (T \X {h})) = Cardinality(S) + Cardinality(T)
         /\ Cardinality(S) + Cardinality(T) \in Nat
<1> DEFINE P == T \X {h}
<1>1. IsFiniteSet(P) /\ Cardinality(P) = Cardinality(T)
  BY PairCount
<1>2. S \cap P = {}
  OBVIOUS
<1> HIDE DEF P
<1>3. Cardinality(S) \in Nat /\ Cardinality(T) \in Nat /\ Cardinality({}) = 0
  BY FS_CardinalityType, FS_EmptySet
<1>4. Cardinality(S \cup P) = Cardinality(S) + Cardinality(P) - Cardinality(S \cap P)
  BY <1>1, FS_Union
<1>5. Cardinality(S \cup P) = Cardinality(S) + Cardinality(T)
  <2>1. Cardinality(S \cap P) = 0
    BY <1>2, <1>3
  <2> DEFINE a == Cardinality(S)
             b == Cardinality(T)
  <2>2. a \in Nat /\ b \in Nat /\ Cardinality(S \cup P) = a + b - 0
    BY <1>1, <1>3, <1>4, <2>1
  <2> HIDE DEF a, b
  <2>3. Cardinality(S \cup P) = a + b
    BY <2>2
  <2> QED BY <2>3 DEF a, b
<1> QED BY <1>3, <1>5 DEF P

(* A record is opened in a free slot.                                      *)
LEMMA OpensBase ==
  ASSUME BaseInv, NEW u \in DOMAIN users, NEW c, Opens(u, c)
  PROVE  /\ BaseInv'
         /\ \A s \in SlotsOfCache : s # c => infos'[s] = infos[s]
         /\ infos'[c] = Unmatched(Asked(u))
<1> USE DEF BaseInv
<1> DEFINE q == Asked(u)
           h == <<c, gen[c]>>
           sel == SelectorsOf(q)
           terms == Elements(q.all) \cup Elements(q.or) \cup q.no \cup q.src
<1>1. /\ infos' = [infos EXCEPT ![c] = Unmatched(q)]
      /\ byShape' = byShape \cup (IF q.shared THEN {<<q, h>>} ELSE {})
      /\ byId' = byId \cup (terms \X {h})
      /\ bySelector' = bySelector \cup (sel \X {h})
      /\ selectors' = [k \in Kinds |-> selectors[k] + Cardinality({t \in sel : Kind[t] = k})]
      /\ ids' = ids /\ lookup' = lookup /\ source' = source /\ gen' = gen /\ tracked' = tracked
      /\ c \in SlotsOfCache /\ infos[c].refs = 0
      /\ \A p \in byShape : ~(q.shared /\ p[1] = q)
  BY DEF Opens, world
<1>2. ~Valid(users[u].handle) /\ Bound(u, h)
  BY DEF Opens
<1>3. gen[c] \in Nat /\ h \in Handles /\ h[1] = c /\ h[2] = gen[c] /\ h = HandleOf(c) /\ ~Valid(h)
  BY <1>1 DEF Typed, Handles, Valid, HandleOf
<1>4. /\ q \in Queries \cup {Void}
      /\ DOMAIN users' = DOMAIN users /\ users' \in [DOMAIN users -> UserSet]
      /\ users'[u].handle = h /\ ~users'[u].destroyed
      /\ \A w \in DOMAIN users : w # u => users'[w] = users[w]
      /\ HoldersOf(c)' = HoldersOf(c) \cup {u} /\ u \notin HoldersOf(c)
      /\ \A s \in SlotsOfCache : s # c => HoldersOf(s)' = HoldersOf(s)
  BY <1>1, <1>2, <1>3, BoundFacts
<1>5. terms \subseteq Terms
  <2>1. CASE q \in Queries
    BY <2>1, QueryTypes, ElementsOf
  <2>2. CASE q = Void
    <3>1. Elements(<<>>) = {}
      BY EmptySeq, ElementsOf
    <3> QED BY <3>1, <2>2, Constants
  <2> QED BY <2>1, <2>2, <1>4
<1>6. sel \subseteq Terms /\ IsFiniteSet(sel) /\ Woken(q, h, bySelector')
  BY <1>1, <1>4, SelectorFacts
<1> HIDE DEF q, h, sel, terms
<1>7. infos'[c] = Unmatched(q) /\ \A s \in SlotsOfCache : s # c => infos'[s] = infos[s]
  BY <1>1 DEF Typed
<1>8. /\ infos'[c] \in InfoSet /\ infos'[c].query = q /\ infos'[c].refs = 1
  <2>1. q \in Queries \cup {Void} /\ infos'[c] = Unmatched(q)
    BY <1>4, <1>7
  <2> QED BY <2>1, UnmatchedFacts
<1>9. \A p \in byShape \cup byId \cup bySelector \cup tracked :
        /\ p[2] \in Handles /\ Valid(p[2]) /\ p[2] # h
        /\ p[2][1] \in SlotsOfCache /\ p[2][1] # c
  <2>1. \A p \in byShape \cup byId \cup bySelector \cup tracked : p[2] \in Handles /\ Valid(p[2])
    BY DEF Typed, StaleInv
  <2>2. \A g \in Handles : Valid(g) => g # h /\ g[1] \in SlotsOfCache /\ g[1] # c
    BY <1>1, <1>3, ValidFacts
  <2> QED BY <2>1, <2>2
<1>10. CountInv' /\ selectors' \in [Kinds -> Nat]
  <2>1. IsFiniteSet(bySelector) /\ IsFiniteSet(sel \X {h})
    BY <1>6, PairCount DEF CountInv
  <2>2. IsFiniteSet(bySelector')
    BY <1>1, <2>1, FS_Union
  <2>3. ASSUME NEW k \in Kinds
        PROVE  /\ selectors'[k] = Cardinality({p \in bySelector' : Kind[p[1]] = k})
               /\ selectors'[k] \in Nat
    <3> DEFINE old == {p \in bySelector : Kind[p[1]] = k}
               ts == {t \in sel : Kind[t] = k}
    <3>1. IsFiniteSet(old) /\ IsFiniteSet(ts)
      BY <1>6, <2>1, FS_Subset
    <3>2. IsFiniteSet(ts \X {h}) /\ Cardinality(ts \X {h}) = Cardinality(ts)
      BY <3>1, PairCount
    <3>3. {p \in bySelector' : Kind[p[1]] = k} = old \cup (ts \X {h})
      BY <1>1
    <3>4. old \cap (ts \X {h}) = {}
      BY <1>9
    <3>5. selectors[k] = Cardinality(old) /\ selectors'[k] = selectors[k] + Cardinality(ts)
      BY <1>1 DEF CountInv
    <3> HIDE DEF old, ts
    <3>6. /\ Cardinality(old \cup (ts \X {h})) = Cardinality(old) + Cardinality(ts)
          /\ Cardinality(old) + Cardinality(ts) \in Nat
      BY <3>1, <3>4, CountAdded
    <3>7. selectors'[k] = Cardinality(old) + Cardinality(ts)
      BY <3>5
    <3>8. selectors'[k] = Cardinality(old \cup (ts \X {h})) /\ selectors'[k] \in Nat
      BY <3>6, <3>7
    <3> QED BY <3>3, <3>8
  <2>4. selectors' \in [Kinds -> Nat]
    BY <1>1, <2>3
  <2> QED BY <2>2, <2>3, <2>4 DEF CountInv
<1>11. Typed'
  <2>1. infos' \in [SlotsOfCache -> InfoSet]
    <3>1. infos' = [s \in SlotsOfCache |-> infos'[s]]
      BY <1>1 DEF Typed
    <3>2. \A s \in SlotsOfCache : infos'[s] \in InfoSet
      BY <1>7, <1>8 DEF Typed
    <3> QED BY <3>1, <3>2
  <2>2. byShape' \subseteq Queries \X Handles
    <3>1. q.shared => q \in Queries
      BY <1>4, Constants
    <3> QED BY <3>1, <1>1, <1>3 DEF Typed
  <2>3. byId' \subseteq Terms \X Handles /\ bySelector' \subseteq Terms \X Handles
    BY <1>1, <1>3, <1>5, <1>6 DEF Typed
  <2> QED BY <2>1, <2>2, <2>3, <1>1, <1>4, <1>10 DEF Typed
<1>12. HandleInv'
  <2>1. \A w \in DOMAIN users : users[w].handle # None => users[w].handle[1] \in SlotsOfCache
    BY UserHandle DEF Handles
  <2>2. \A s \in SlotsOfCache : infos[s].refs > 0 => infos'[s].refs > 0
    BY <1>7, <1>8
  <2>3. ASSUME NEW w \in DOMAIN users', users'[w].handle # None
        PROVE  LET g == users'[w].handle IN
               /\ g[2] <= gen'[g[1]]
               /\ g[2] = gen'[g[1]] => infos'[g[1]].refs > 0
               /\ ~users'[w].destroyed => g[2] = gen'[g[1]]
    <3>1. CASE w = u
      <4>1. users'[w].handle = h
        BY <3>1, <1>4
      <4> QED BY <4>1, <1>1, <1>3, <1>8
    <3>2. CASE w # u
      <4>1. users'[w] = users[w] /\ w \in DOMAIN users
        BY <3>2, <1>4
      <4> QED BY <4>1, <2>1, <2>2, <2>3, <1>1 DEF HandleInv
    <3> QED BY <3>1, <3>2
  <2>4. ASSUME NEW s \in SlotsOfCache
        PROVE  /\ infos'[s].refs = Cardinality(HoldersOf(s)')
               /\ infos'[s].refs = 0 => infos'[s] = Free
    <3>1. CASE s = c
      <4>1. HoldersOf(c) = {}
        BY <1>1, HolderFacts
      <4>2. Cardinality({u}) = 1 /\ HoldersOf(c)' = {u}
        BY <4>1, <1>4, FS_Singleton
      <4> QED BY <4>2, <3>1, <1>8
    <3>2. CASE s # c
      BY <3>2, <1>4, <1>7 DEF HandleInv
    <3> QED BY <3>1, <3>2
  <2> QED BY <2>3, <2>4 DEF HandleInv
<1>13. StaleInv'
  <2>1. \A g \in Handles : Valid(g) => Valid(g)'
    BY <1>1, <1>7, <1>8 DEF Valid, Handles
  <2>2. ASSUME NEW g, g = h PROVE Valid(g)'
    <3>1. g # None
      BY <2>2, <1>3, Constants
    <3>2. gen'[g[1]] = g[2] /\ infos'[g[1]].refs > 0
      BY <2>2, <1>1, <1>3, <1>8
    <3> QED BY <3>1, <3>2 DEF Valid
  <2>3. \A p \in byShape' \cup byId' \cup bySelector' \cup tracked' :
          p \in byShape \cup byId \cup bySelector \cup tracked \/ p[2] = h
    BY <1>1
  <2>4. ASSUME NEW p \in byShape' \cup byId' \cup bySelector' \cup tracked'
        PROVE  Valid(p[2])'
    <3>1. CASE p \in byShape \cup byId \cup bySelector \cup tracked
      <4>1. p[2] \in Handles /\ Valid(p[2])
        BY <3>1, <1>9
      <4> QED BY <4>1, <2>1
    <3>2. CASE p[2] = h
      BY <3>2, <2>2
    <3> QED BY <3>1, <3>2, <2>3
  <2> QED BY <2>4 DEF StaleInv
<1>14. \A s \in SlotsOfCache : HandleOf(s)' = HandleOf(s)
  BY <1>1 DEF HandleOf
<1>15. ShapeInv'
  <2>1. ASSUME NEW p \in byShape'
        PROVE  p[1].shared /\ infos'[p[2][1]].query = p[1]
    <3>1. CASE p \in byShape
      <4>1. p[2][1] \in SlotsOfCache /\ p[2][1] # c
        BY <3>1, <1>9
      <4> QED BY <3>1, <4>1, <1>7 DEF ShapeInv
    <3>2. CASE q.shared /\ p = <<q, h>>
      BY <3>2, <1>3, <1>8
    <3> QED BY <3>1, <3>2, <1>1
  <2>2. ASSUME NEW s \in SlotsOfCache, infos'[s].refs > 0, infos'[s].query.shared
        PROVE  <<infos'[s].query, HandleOf(s)'>> \in byShape'
    <3>1. CASE s = c
      BY <3>1, <2>2, <1>1, <1>3, <1>8, <1>14
    <3>2. CASE s # c
      <4>1. <<infos[s].query, HandleOf(s)>> \in byShape
        BY <3>2, <2>2, <1>7 DEF ShapeInv
      <4> QED BY <4>1, <3>2, <1>1, <1>7, <1>14
    <3> QED BY <3>1, <3>2
  <2>3. ASSUME NEW s \in SlotsOfCache, s # c, infos[s].refs > 0, infos[s].query.shared
        PROVE  infos[s].query # q
    <3>1. <<infos[s].query, HandleOf(s)>> \in byShape
      BY <2>3 DEF ShapeInv
    <3> QED BY <3>1, <2>3, <1>1
  <2>4. ASSUME NEW r \in SlotsOfCache, NEW s \in SlotsOfCache,
               infos'[r].refs > 0, infos'[s].refs > 0, infos'[r].query.shared,
               infos'[r].query = infos'[s].query
        PROVE  r = s
    <3>1. CASE r = c /\ s = c
      BY <3>1
    <3>2. CASE r = c /\ s # c
      BY <3>2, <2>3, <2>4, <1>7, <1>8
    <3>3. CASE r # c /\ s = c
      BY <3>3, <2>3, <2>4, <1>7, <1>8
    <3>4. CASE r # c /\ s # c
      BY <3>4, <2>4, <1>7 DEF ShapeInv
    <3> QED BY <3>1, <3>2, <3>3, <3>4
  <2> QED BY <2>1, <2>2, <2>4 DEF ShapeInv
<1>16. RouteInv'
  <2>1. ASSUME NEW s \in SlotsOfCache, infos'[s].refs > 0
        PROVE  Woken(infos'[s].query, HandleOf(s), bySelector')
    <3>1. CASE s = c
      BY <3>1, <1>3, <1>6, <1>8
    <3>2. CASE s # c
      <4>1. Woken(infos[s].query, HandleOf(s), bySelector)
        BY <3>2, <2>1, <1>7 DEF RouteInv
      <4>2. bySelector \subseteq bySelector'
        BY <1>1
      <4> QED BY <4>1, <4>2, <3>2, <1>7 DEF Woken
    <3> QED BY <3>1, <3>2
  <2> QED BY <2>1, <1>14 DEF RouteInv
<1>17. BucketInv'
  BY <1>1, BucketsKept
<1> QED BY <1>7, <1>10, <1>11, <1>12, <1>13, <1>15, <1>16, <1>17 DEF q

-----------------------------------------------------------------------------
(* Every step keeps what holds of every program                            *)

(* Steps that change caches only.                                          *)
LEMMA CachesBase ==
  ASSUME BaseInv, SameRefs, infos' \in [SlotsOfCache -> InfoSet],
         UNCHANGED <<users, gen, routes>>,
         ids' \in Seq(Builds), Len(ids') <= MaxArchetypes,
         lookup' \in [Keys -> [list: Seq(Archetypes), rev: Nat]],
         source' \in [ids: SUBSET Terms, version: Nat],
         \A p \in tracked' : p \in Archetypes \X Handles /\ Valid(p[2]),
         BucketInv'
  PROVE  BaseInv'
<1> USE DEF BaseInv
<1>1. HandleInv' /\ StaleInv' /\ ShapeInv' /\ CountInv' /\ RouteInv'
  BY RegistryKept
<1>2. Typed'
  <2>1. /\ users' = users /\ gen' = gen /\ byShape' = byShape /\ byId' = byId
        /\ bySelector' = bySelector /\ selectors' = selectors
    BY DEF routes
  <2>2. tracked' \subseteq Archetypes \X Handles
    OBVIOUS
  <2> QED BY <2>1, <2>2 DEF Typed
<1> QED BY <1>1, <1>2

(* One record in use changes.                                              *)
LEMMA OneBase ==
  ASSUME BaseInv, NEW c \in SlotsOfCache, infos[c].refs > 0, NEW j \in InfoSet,
         j.query = infos[c].query, j.refs = infos[c].refs,
         infos' = [infos EXCEPT ![c] = j], UNCHANGED <<world, users, gen, routes>>,
         \A p \in tracked' : p \in Archetypes \X Handles /\ Valid(p[2])
  PROVE  BaseInv'
<1> USE DEF BaseInv
<1>1. ids' = ids /\ lookup' = lookup /\ source' = source
  BY DEF world
<1>2. infos' \in [SlotsOfCache -> InfoSet]
  BY DEF Typed
<1>3. infos[c].refs # 0
  OBVIOUS
<1>4. infos'[c] = j /\ \A s \in SlotsOfCache : s # c => infos'[s] = infos[s]
  BY DEF Typed
<1>5. SameRefs
  BY <1>3, <1>4 DEF SameRefs
<1>6. /\ ids' \in Seq(Builds) /\ Len(ids') <= MaxArchetypes
      /\ lookup' \in [Keys -> [list: Seq(Archetypes), rev: Nat]]
      /\ source' \in [ids: SUBSET Terms, version: Nat]
  BY <1>1 DEF Typed
<1>7. BucketInv'
  BY <1>1, BucketsKept
<1> HIDE DEF BaseInv
<1> QED BY <1>2, <1>5, <1>6, <1>7, CachesBase

(* The index of what is tracked.                                           *)
LEMMA TrackedTypes ==
  ASSUME BaseInv
  PROVE  \A p \in tracked : p \in Archetypes \X Handles /\ p[2] \in Handles /\ Valid(p[2])
  BY DEF BaseInv, Typed, StaleInv

(* What match_all leaves in the record.                                    *)
After(i) == LET next == Matched(i) IN IF next.synced THEN next ELSE Synced(next)

(* A match gives a record of its query.                                    *)
LEMMA AfterFacts ==
  ASSUME Typed, BucketInv, NEW i \in InfoSet
  PROVE  /\ Matched(i) \in InfoSet /\ After(i) \in InfoSet
         /\ After(i).query = i.query /\ After(i).refs = i.refs
         /\ After(i).result = Matched(i).result /\ After(i).last = Matched(i).last
         /\ After(i).dirty = Matched(i).dirty /\ After(i).cursors = Matched(i).cursors
         /\ After(i).snapshot = Matched(i).snapshot
<1>1. Matched(i) \in InfoSet /\ Matched(i).query = i.query /\ Matched(i).refs = i.refs
  BY MatchedFacts
<1> QED BY <1>1, SyncedFacts DEF After

(* Query::match_all                                                        *)
LEMMA MatchAllBase ==
  ASSUME BaseInv, NEW u \in DOMAIN users, MatchAll(u)
  PROVE  BaseInv'
<1> DEFINE h == users[u].handle
           c == h[1]
           next == Matched(infos[c])
<1>1. Valid(h) /\ h \in Handles /\ c \in SlotsOfCache /\ infos[c].refs > 0 /\ infos[c] \in InfoSet
  BY UserHandle, ValidFacts DEF BaseInv, MatchAll
<1>2. /\ infos' = [infos EXCEPT ![c] = After(infos[c])]
      /\ UNCHANGED <<world, users, gen, routes>>
      /\ tracked' = IF next.synced THEN tracked
                    ELSE {p \in tracked : p[2] # h} \cup (next.result \X {h})
  BY DEF MatchAll, After
<1>3. /\ After(infos[c]) \in InfoSet /\ After(infos[c]).query = infos[c].query
      /\ After(infos[c]).refs = infos[c].refs /\ next \in InfoSet
  BY <1>1, AfterFacts DEF BaseInv
<1>4. next.result \subseteq Archetypes
  BY <1>3, InfoFields
<1>5. \A p \in tracked' : p \in Archetypes \X Handles /\ Valid(p[2])
  <2> HIDE DEF next, h
  <2> SUFFICES ASSUME NEW p \in tracked' PROVE p \in Archetypes \X Handles /\ Valid(p[2])
    OBVIOUS
  <2>1. p \in tracked \/ p \in next.result \X {h}
    BY <1>2
  <2>2. CASE p \in tracked
    BY <2>2, TrackedTypes
  <2>3. CASE p \in next.result \X {h}
    BY <2>3, <1>1, <1>4
  <2> QED BY <2>1, <2>2, <2>3
<1> HIDE DEF h, c, next
<1> QED BY <1>1, <1>2, <1>3, <1>5, OneBase

(* What match_one leaves.                                                  *)
LEMMA MatchedOneFacts ==
  ASSUME Typed, NEW i \in InfoSet, NEW a \in Archetypes
  PROVE  /\ MatchedOne(i, a) \in InfoSet
         /\ MatchedOne(i, a).query = i.query /\ MatchedOne(i, a).refs = i.refs
<1> DEFINE base == IF MustReset(i) THEN Cleared(i) ELSE i
           hit == i.query.src \subseteq source.ids /\ Matching(i.query, a)
           found == IF hit THEN {a} ELSE {}
<1>1. MatchedOne(i, a) = IF i.query = Void THEN i ELSE Merged(base, found)
  BY DEF MatchedOne
<1>2. base \in InfoSet /\ base.query = i.query /\ base.refs = i.refs
  BY ClearedFacts
<1>3. found \in SUBSET Archetypes
  OBVIOUS
<1> HIDE DEF base, found
<1>4. /\ Merged(base, found) \in InfoSet /\ Merged(base, found).query = i.query
      /\ Merged(base, found).refs = i.refs
  BY <1>2, <1>3, MergedFacts
<1> QED BY <1>1, <1>4

(* Query::matches_any                                                      *)
LEMMA MatchOneBase ==
  ASSUME BaseInv, NEW u \in DOMAIN users, NEW a \in Archetypes, MatchOne(u, a)
  PROVE  BaseInv'
<1> DEFINE c == users[u].handle[1]
           j == MatchedOne(infos[c], a)
<1>1. c \in SlotsOfCache /\ infos[c].refs > 0 /\ infos[c] \in InfoSet
  BY UserHandle, ValidFacts DEF BaseInv, MatchOne
<1>2. infos' = [infos EXCEPT ![c] = j] /\ UNCHANGED <<world, users, gen, routes, tracked>>
  BY DEF MatchOne
<1>3. j \in InfoSet /\ j.query = infos[c].query /\ j.refs = infos[c].refs
  BY <1>1, MatchedOneFacts DEF BaseInv
<1> HIDE DEF c, j
<1> QED BY <1>1, <1>2, <1>3, TrackedTypes, OneBase

(* Query::reset                                                            *)
LEMMA ResetBase ==
  ASSUME BaseInv, NEW u \in DOMAIN users, Reset(u)
  PROVE  BaseInv'
<1> DEFINE c == users[u].handle[1]
           j == Cleared(infos[c])
<1>1. c \in SlotsOfCache /\ infos[c].refs > 0 /\ infos[c] \in InfoSet
  BY UserHandle, ValidFacts DEF BaseInv, Reset
<1>2. infos' = [infos EXCEPT ![c] = j] /\ UNCHANGED <<world, users, gen, routes, tracked>>
  BY DEF Reset
<1>3. j \in InfoSet /\ j.query = infos[c].query /\ j.refs = infos[c].refs
  BY <1>1, ClearedFacts
<1> HIDE DEF c, j
<1> QED BY <1>1, <1>2, <1>3, TrackedTypes, OneBase

(* What an invalidation leaves, slot by slot.                              *)
LEMMA InvalidateIs ==
  ASSUME BaseInv, NEW t, Invalidate(t), NEW s \in SlotsOfCache
  PROVE  /\ infos'[s] \in InfoSet
         /\ infos'[s].query = infos[s].query /\ infos'[s].refs = infos[s].refs
         /\ infos'[s].result = infos[s].result /\ infos'[s].last = infos[s].last
         /\ infos'[s].cursors = infos[s].cursors /\ infos'[s].snapshot = infos[s].snapshot
         /\ infos'[s].synced = infos[s].synced
         /\ infos[s].dirty => infos'[s].dirty
         /\ infos[s].refs = 0 => infos'[s] = infos[s]
<1> DEFINE b == <<t, <<s, gen[s]>>>> \in byId
<1>1. infos'[s] = [infos[s] EXCEPT !.dirty = @ \/ b] /\ infos[s] \in InfoSet
  BY DEF Invalidate, BaseInv, Typed
<1>2. b \in BOOLEAN
  OBVIOUS
<1>3. b => infos[s].refs > 0
  <2> SUFFICES ASSUME b PROVE infos[s].refs > 0
    OBVIOUS
  <2>1. Valid(<<s, gen[s]>>)
    BY DEF BaseInv, StaleInv
  <2> QED BY <2>1 DEF Valid
<1> HIDE DEF b
<1>4. LET j == [infos[s] EXCEPT !.dirty = @ \/ b] IN
      /\ j \in InfoSet
      /\ j.query = infos[s].query /\ j.refs = infos[s].refs /\ j.result = infos[s].result
      /\ j.last = infos[s].last /\ j.cursors = infos[s].cursors
      /\ j.snapshot = infos[s].snapshot /\ j.synced = infos[s].synced
      /\ j.dirty <=> infos[s].dirty \/ b
  BY <1>1, <1>2, DirtyFacts
<1>5. infos[s].dirty \in BOOLEAN /\ infos'[s].dirty \in BOOLEAN
  BY <1>1, <1>4, InfoFields
<1>6. infos[s].refs = 0 => infos'[s] = infos[s]
  <2> SUFFICES ASSUME infos[s].refs = 0 PROVE infos'[s] = infos[s]
    OBVIOUS
  <2>1. ~b
    BY <1>3
  <2>2. infos'[s].dirty = infos[s].dirty
    BY <2>1, <1>1, <1>4, <1>5
  <2>3. /\ infos'[s] \in InfoSet /\ infos[s] \in InfoSet
        /\ infos'[s].query = infos[s].query /\ infos'[s].refs = infos[s].refs
        /\ infos'[s].result = infos[s].result /\ infos'[s].last = infos[s].last
        /\ infos'[s].cursors = infos[s].cursors /\ infos'[s].snapshot = infos[s].snapshot
        /\ infos'[s].synced = infos[s].synced
    BY <1>1, <1>4
  <2> QED BY <2>2, <2>3, SameInfo
<1> QED BY <1>1, <1>4, <1>6

(* invalidate_queries_for_entity                                           *)
LEMMA InvalidateBase ==
  ASSUME BaseInv, NEW t, Invalidate(t)
  PROVE  BaseInv'
<1>1. ids' = ids /\ lookup' = lookup /\ source' = source /\ tracked' = tracked
      /\ UNCHANGED <<users, gen, routes>>
  BY DEF Invalidate, world
<1>2. infos' \in [SlotsOfCache -> InfoSet]
  <2>1. infos' = [s \in SlotsOfCache |-> infos'[s]]
    BY DEF Invalidate
  <2>2. \A s \in SlotsOfCache : infos'[s] \in InfoSet
    BY InvalidateIs
  <2> QED BY <2>1, <2>2
<1>3. SameRefs
  BY InvalidateIs DEF SameRefs
<1>4. /\ ids' \in Seq(Builds) /\ Len(ids') <= MaxArchetypes
      /\ lookup' \in [Keys -> [list: Seq(Archetypes), rev: Nat]]
      /\ source' \in [ids: SUBSET Terms, version: Nat]
      /\ BucketInv'
  BY <1>1, BucketsKept DEF BaseInv, Typed
<1> QED BY <1>1, <1>2, <1>3, <1>4, TrackedTypes, CachesBase

(* A new archetype, slot by slot: the slot takes it when its query was     *)
(* woken and is up to date.                                                *)
Taken(s, S) ==
  /\ HandleOf(s) \in Candidates(S) /\ infos[s].refs > 0 /\ Takes(infos[s], S)

(* create_archetype() and the slots.                                       *)
LEMMA CreateIs ==
  ASSUME BaseInv, NEW S \in Builds, CreateArchetype(S)
  PROVE  /\ UNCHANGED <<source, users, gen, routes>>
         /\ infos' = [s \in SlotsOfCache |->
              IF Taken(s, S) THEN Extended(infos[s], LastId + 1) ELSE infos[s]]
         /\ tracked' = tracked \cup {<<LastId + 1, HandleOf(s)>> : s \in {s \in SlotsOfCache : Taken(s, S)}}
<1> DEFINE a == LastId + 1
           takers == {h \in Candidates(S) : Valid(h) /\ Takes(infos[h[1]], S)}
<1>1. /\ UNCHANGED <<source, users, gen, routes>>
      /\ infos' = [c \in SlotsOfCache |->
           IF \E h \in takers : h[1] = c THEN Extended(infos[c], a) ELSE infos[c]]
      /\ tracked' = tracked \cup ({a} \X takers)
  BY DEF CreateArchetype
<1>2. Candidates(S) \subseteq Handles
  BY DEF Candidates, BaseInv, Typed
<1>3. \A h \in takers : h \in Handles /\ h[1] \in SlotsOfCache /\ h = HandleOf(h[1]) /\ Taken(h[1], S)
  BY <1>2, ValidFacts DEF Taken, BaseInv
<1>4. ASSUME NEW s \in SlotsOfCache, Taken(s, S)
      PROVE  HandleOf(s) \in takers /\ HandleOf(s)[1] = s
  <2>1. HandleOf(s) # None /\ HandleOf(s)[1] = s /\ HandleOf(s)[2] = gen[s]
    BY Constants DEF HandleOf, None
  <2>2. Valid(HandleOf(s))
    BY <2>1, <1>4 DEF Valid, Taken
  <2> QED BY <2>1, <2>2, <1>4 DEF Taken
<1>5. \A s \in SlotsOfCache : Taken(s, S) <=> \E h \in takers : h[1] = s
  BY <1>3, <1>4
<1>6. {a} \X takers = {<<a, HandleOf(s)>> : s \in {s \in SlotsOfCache : Taken(s, S)}}
  <2> HIDE DEF a, takers
  <2>1. ASSUME NEW p \in {a} \X takers
        PROVE  p \in {<<a, HandleOf(s)>> : s \in {s \in SlotsOfCache : Taken(s, S)}}
    <3>1. p = <<a, p[2]>> /\ p[2] \in takers
      OBVIOUS
    <3> QED BY <3>1, <1>3
  <2>2. ASSUME NEW s \in SlotsOfCache, Taken(s, S)
        PROVE  <<a, HandleOf(s)>> \in {a} \X takers
    BY <2>2, <1>4
  <2> QED BY <2>1, <2>2
<1> HIDE DEF takers
<1> QED BY <1>1, <1>5, <1>6

(* create_archetype()                                                      *)
LEMMA CreateBase ==
  ASSUME BaseInv, NEW S \in Builds, CreateArchetype(S)
  PROVE  BaseInv'
<1>1. Typed /\ BucketInv
  BY DEF BaseInv
<1>2. /\ LastId + 1 \in Archetypes
      /\ ids' \in Seq(Builds) /\ Len(ids') <= MaxArchetypes
      /\ lookup' \in [Keys -> [list: Seq(Archetypes), rev: Nat]]
      /\ BucketInv'
  BY <1>1, CreateWorld
<1>3. /\ UNCHANGED <<source, users, gen, routes>>
      /\ infos' = [s \in SlotsOfCache |->
           IF Taken(s, S) THEN Extended(infos[s], LastId + 1) ELSE infos[s]]
      /\ tracked' = tracked \cup {<<LastId + 1, HandleOf(s)>> : s \in {s \in SlotsOfCache : Taken(s, S)}}
  BY CreateIs
<1> DEFINE a == LastId + 1
<1> HIDE DEF a
<1>4. \A s \in SlotsOfCache : infos[s] \in InfoSet
  BY <1>1 DEF Typed
<1>5. \A s \in SlotsOfCache :
        /\ Extended(infos[s], a) \in InfoSet
        /\ Extended(infos[s], a).query = infos[s].query
        /\ Extended(infos[s], a).refs = infos[s].refs
  BY <1>2, <1>4, ExtendedFacts DEF a
<1>6. infos' \in [SlotsOfCache -> InfoSet]
  BY <1>3, <1>4, <1>5 DEF a
<1>7. SameRefs
  <2> SUFFICES ASSUME NEW s \in SlotsOfCache
               PROVE  /\ infos'[s].query = infos[s].query /\ infos'[s].refs = infos[s].refs
                      /\ infos[s].refs = 0 => infos'[s] = infos[s]
    BY DEF SameRefs
  <2>1. CASE Taken(s, S)
    BY <2>1, <1>3, <1>5 DEF a, Taken
  <2>2. CASE ~Taken(s, S)
    BY <2>2, <1>3
  <2> QED BY <2>1, <2>2
<1>8. source' \in [ids: SUBSET Terms, version: Nat]
  BY <1>1, <1>3 DEF Typed
<1>9. ASSUME NEW p \in tracked' PROVE p \in Archetypes \X Handles /\ Valid(p[2])
  <2>1. CASE p \in tracked
    BY <2>1, TrackedTypes
  <2>2. CASE \E s \in SlotsOfCache : Taken(s, S) /\ p = <<LastId + 1, HandleOf(s)>>
    <3>1. PICK s \in SlotsOfCache : Taken(s, S) /\ p = <<LastId + 1, HandleOf(s)>>
      BY <2>2
    <3>2. HandleOf(s) \in Handles /\ HandleOf(s) # None /\ HandleOf(s)[1] = s /\ HandleOf(s)[2] = gen[s]
      BY <1>1, Constants DEF HandleOf, None, Handles, Typed
    <3>3. Valid(HandleOf(s))
      BY <3>1, <3>2 DEF Valid, Taken
    <3> QED BY <3>1, <3>2, <3>3, <1>2
  <2> QED BY <2>1, <2>2, <1>3
<1> QED BY <1>2, <1>3, <1>6, <1>7, <1>8, <1>9, CachesBase

(* del_empty_archetype() and the slots.                                    *)
LEMMA DeleteIs ==
  ASSUME BaseInv, NEW a, DeleteArchetype(a)
  PROVE  /\ UNCHANGED <<source, users, gen, routes>>
         /\ infos' = [s \in SlotsOfCache |->
              IF a \in TrackedBy(<<s, gen[s]>>) THEN Removed(infos[s], a) ELSE infos[s]]
         /\ tracked' = {p \in tracked : p[1] # a}
<1> DEFINE holders == {p[2][1] : p \in {p \in tracked : p[1] = a /\ Valid(p[2])}}
<1>1. /\ UNCHANGED <<source, users, gen, routes>>
      /\ infos' = [c \in SlotsOfCache |->
           IF c \in holders THEN Removed(infos[c], a) ELSE infos[c]]
      /\ tracked' = {p \in tracked : p[1] # a}
      /\ a \in Live
  BY DEF DeleteArchetype
<1>2. ASSUME NEW s \in SlotsOfCache
      PROVE  s \in holders <=> a \in TrackedBy(<<s, gen[s]>>)
  <2>1. ASSUME s \in holders PROVE a \in TrackedBy(<<s, gen[s]>>)
    <3>1. PICK p \in tracked : p[1] = a /\ Valid(p[2]) /\ s = p[2][1]
      BY <2>1
    <3>2. p \in Archetypes \X Handles
      BY TrackedTypes
    <3>3. p = <<a, <<s, gen[s]>>>> /\ a \in Archetypes
      BY <3>1, <3>2, ValidFacts DEF BaseInv
    <3> QED BY <3>1, <3>3 DEF TrackedBy
  <2>2. ASSUME a \in TrackedBy(<<s, gen[s]>>) PROVE s \in holders
    <3>1. <<a, <<s, gen[s]>>>> \in tracked
      BY <2>2 DEF TrackedBy
    <3>2. Valid(<<s, gen[s]>>)
      BY <3>1, TrackedTypes
    <3> QED BY <3>1, <3>2
  <2> QED BY <2>1, <2>2
<1> HIDE DEF holders
<1> QED BY <1>1, <1>2

(* del_empty_archetype()                                                   *)
LEMMA DeleteBase ==
  ASSUME BaseInv, NEW a, DeleteArchetype(a)
  PROVE  BaseInv'
<1>1. Typed /\ BucketInv
  BY DEF BaseInv
<1>2. /\ ids' = ids /\ lookup' \in [Keys -> [list: Seq(Archetypes), rev: Nat]]
      /\ BucketInv'
  BY <1>1, DeleteWorld
<1>3. /\ UNCHANGED <<source, users, gen, routes>>
      /\ infos' = [s \in SlotsOfCache |->
           IF a \in TrackedBy(<<s, gen[s]>>) THEN Removed(infos[s], a) ELSE infos[s]]
      /\ tracked' = {p \in tracked : p[1] # a}
  BY DeleteIs
<1>4. \A s \in SlotsOfCache : infos[s] \in InfoSet
  BY <1>1 DEF Typed
<1>5. \A s \in SlotsOfCache :
        /\ Removed(infos[s], a) \in InfoSet
        /\ Removed(infos[s], a).query = infos[s].query
        /\ Removed(infos[s], a).refs = infos[s].refs
  BY <1>4, RemovedFacts
<1>6. infos' \in [SlotsOfCache -> InfoSet]
  BY <1>3, <1>4, <1>5
<1>7. SameRefs
  <2> SUFFICES ASSUME NEW s \in SlotsOfCache
               PROVE  /\ infos'[s].query = infos[s].query /\ infos'[s].refs = infos[s].refs
                      /\ infos[s].refs = 0 => infos'[s] = infos[s]
    BY DEF SameRefs
  <2>1. CASE a \in TrackedBy(<<s, gen[s]>>)
    <3>1. <<a, <<s, gen[s]>>>> \in tracked
      BY <2>1 DEF TrackedBy
    <3>2. infos[s].refs > 0
      BY <3>1, TrackedTypes DEF Valid
    <3> QED BY <3>2, <2>1, <1>3, <1>5
  <2>2. CASE a \notin TrackedBy(<<s, gen[s]>>)
    BY <2>2, <1>3
  <2> QED BY <2>1, <2>2
<1>8. /\ source' \in [ids: SUBSET Terms, version: Nat]
      /\ ids' \in Seq(Builds) /\ Len(ids') <= MaxArchetypes
  BY <1>1, <1>2, <1>3 DEF Typed
<1>9. \A p \in tracked' : p \in Archetypes \X Handles /\ Valid(p[2])
  BY <1>3, TrackedTypes
<1> QED BY <1>2, <1>3, <1>6, <1>7, <1>8, <1>9, CachesBase

(* The source entity moves.                                                *)
LEMMA MoveSourceBase ==
  ASSUME BaseInv, NEW S \in SUBSET SourceIds, MoveSource(S)
  PROVE  BaseInv'
<1>1. /\ source' = [ids |-> S, version |-> source.version + 1]
      /\ UNCHANGED <<ids, lookup, users, gen, infos, routes, tracked>>
  BY DEF MoveSource
<1>2. S \subseteq Terms
  BY UserHandle, QueryTypes DEF SourceIds, BaseInv
<1>3. source.version \in Nat
  BY DEF BaseInv, Typed
<1>4. source' \in [ids: SUBSET Terms, version: Nat]
  BY <1>1, <1>2, <1>3
<1>5. SameRefs
  BY <1>1 DEF SameRefs
<1>6. BucketInv'
  BY <1>1, BucketsKept DEF BaseInv
<1>7. /\ infos' \in [SlotsOfCache -> InfoSet]
      /\ ids' \in Seq(Builds) /\ Len(ids') <= MaxArchetypes
      /\ lookup' \in [Keys -> [list: Seq(Archetypes), rev: Nat]]
  BY <1>1 DEF BaseInv, Typed
<1>8. \A p \in tracked' : p \in Archetypes \X Handles /\ Valid(p[2])
  BY <1>1, TrackedTypes
<1>9. UNCHANGED <<users, gen, routes>>
  BY <1>1
<1> QED BY <1>4, <1>5, <1>6, <1>7, <1>8, <1>9, CachesBase

(* Fetching a query.                                                       *)
LEMMA FetchBase ==
  ASSUME BaseInv, NEW u \in DOMAIN users, Fetch(u)
  PROVE  BaseInv'
  BY FetchIs, JoinsBase, OpensBase

(* Nothing happens.                                                        *)
LEMMA StutterBase ==
  ASSUME BaseInv, UNCHANGED vars
  PROVE  BaseInv'
<1>1. /\ ids' = ids /\ lookup' = lookup /\ source' = source /\ users' = users /\ gen' = gen
      /\ infos' = infos /\ byShape' = byShape /\ byId' = byId /\ bySelector' = bySelector
      /\ selectors' = selectors /\ tracked' = tracked
  BY DEF vars
<1>2. SameRefs /\ UNCHANGED <<users, gen, routes>>
  BY <1>1 DEF SameRefs, routes
<1>3. /\ infos' \in [SlotsOfCache -> InfoSet]
      /\ ids' \in Seq(Builds) /\ Len(ids') <= MaxArchetypes
      /\ lookup' \in [Keys -> [list: Seq(Archetypes), rev: Nat]]
      /\ source' \in [ids: SUBSET Terms, version: Nat]
  BY <1>1 DEF BaseInv, Typed
<1>4. \A p \in tracked' : p \in Archetypes \X Handles /\ Valid(p[2])
  BY <1>1, TrackedTypes
<1>5. BucketInv'
  BY <1>1, BucketsKept DEF BaseInv
<1> QED BY <1>2, <1>3, <1>4, <1>5, CachesBase

(* BaseInv is kept by every step of every program.                         *)
LEMMA BaseStep ==
  ASSUME BaseInv, [Next]_vars
  PROVE  BaseInv'
<1>1. ASSUME NEW u \in DOMAIN users, Fetch(u) PROVE BaseInv'
  BY <1>1, FetchBase
<1>2. ASSUME NEW u \in DOMAIN users, MatchAll(u) PROVE BaseInv'
  BY <1>2, MatchAllBase
<1>3. ASSUME NEW u \in DOMAIN users, Reset(u) PROVE BaseInv'
  BY <1>3, ResetBase
<1>4. ASSUME NEW u \in DOMAIN users, Destroy(u) PROVE BaseInv'
  BY <1>4, DestroyIs, LetGoBase DEF BaseInv
<1>5. ASSUME NEW u \in DOMAIN users, Rebuild(u) PROVE BaseInv'
  BY <1>5, RebuildIs, LetGoBase DEF BaseInv
<1>6. ASSUME NEW u \in DOMAIN users, NEW v \in DOMAIN users, Copy(u, v) PROVE BaseInv'
  BY <1>6, CopyIs, LetGoBase DEF BaseInv
<1>7. ASSUME NEW u \in DOMAIN users, NEW a \in Archetypes, MatchOne(u, a) PROVE BaseInv'
  BY <1>7, MatchOneBase
<1>8. ASSUME NEW S \in Builds, CreateArchetype(S) PROVE BaseInv'
  BY <1>8, CreateBase
<1>9. ASSUME NEW a \in Archetypes, DeleteArchetype(a) PROVE BaseInv'
  BY <1>9, DeleteBase
<1>10. ASSUME NEW t \in Terms, Invalidate(t) PROVE BaseInv'
  BY <1>10, InvalidateBase
<1>11. ASSUME NEW S \in SUBSET SourceIds, MoveSource(S) PROVE BaseInv'
  BY <1>11, MoveSourceBase
<1>12. CASE UNCHANGED vars
  BY <1>12, StutterBase
<1> QED BY <1>1, <1>2, <1>3, <1>4, <1>5, <1>6, <1>7, <1>8, <1>9, <1>10, <1>11, <1>12 DEF Next

(* At first there is nothing.                                              *)
LEMMA InitBase ==
  ASSUME Init
  PROVE  BaseInv
<1>1. /\ ids = <<>> /\ lookup = [k \in Keys |-> [list |-> <<>>, rev |-> 0]]
      /\ source = [ids |-> {}, version |-> 1]
      /\ gen = [s \in SlotsOfCache |-> 0] /\ infos = [s \in SlotsOfCache |-> Free]
      /\ byShape = {} /\ byId = {} /\ bySelector = {} /\ selectors = [k \in Kinds |-> 0]
      /\ tracked = {}
  BY DEF Init
<1>2. PICK p \in Programs : users = [u \in DOMAIN p |-> NewObject(p[u])]
  BY DEF Init
<1>3. DOMAIN users = DOMAIN p /\ DOMAIN p \subseteq Users
  BY <1>2, QueryAssumption DEF QueryAssumption
<1>4. ASSUME NEW u \in DOMAIN users
      PROVE  users[u] \in UserSet /\ users[u].handle = None
  <2>1. p[u] \in Queries
    BY <1>3, QueryAssumption DEF QueryAssumption, Elements
  <2>2. users[u] = NewObject(p[u])
    BY <1>2, <1>3
  <2> QED BY <2>1, <2>2 DEF NewObject, UserSet
<1>5. \A S : <<>> \in Seq(S) /\ Len(<<>>) = 0
  BY EmptySeq
<1>6. Elements(<<>>) = {}
  BY EmptySeq, ElementsOf
<1>7. Typed
  <2>1. ids \in Seq(Builds) /\ Len(ids) <= MaxArchetypes
    BY <1>1, <1>5, Constants
  <2>2. lookup \in [Keys -> [list: Seq(Archetypes), rev: Nat]]
    <3>1. <<>> \in Seq(Archetypes)
      BY <1>5
    <3>2. [list |-> <<>>, rev |-> 0] \in [list: Seq(Archetypes), rev: Nat]
      BY <3>1
    <3> QED BY <1>1, <3>2
  <2>3. source \in [ids: SUBSET Terms, version: Nat]
    BY <1>1
  <2>4. DOMAIN users \subseteq Users /\ users \in [DOMAIN users -> UserSet]
    <3>1. users = [u \in DOMAIN users |-> users[u]]
      BY <1>2, <1>3
    <3> QED BY <3>1, <1>3, <1>4
  <2>5. gen \in [SlotsOfCache -> Nat] /\ infos \in [SlotsOfCache -> InfoSet]
    BY <1>1, FreeFacts
  <2> QED BY <1>1, <2>1, <2>2, <2>3, <2>4, <2>5 DEF Typed
<1>8. HandleInv
  <2>1. ASSUME NEW s \in SlotsOfCache
        PROVE  infos[s].refs = Cardinality(HoldersOf(s)) /\ infos[s] = Free
    <3>1. <<s, gen[s]>> # None
      BY <2>1, Constants DEF None
    <3>2. HoldersOf(s) = {}
      BY <3>1, <1>4 DEF HoldersOf
    <3>3. infos[s] = Free
      BY <1>1
    <3> QED BY <3>2, <3>3, FreeFacts, FS_EmptySet
  <2> QED BY <2>1, <1>4 DEF HandleInv
<1>9. \A s \in SlotsOfCache : ~(infos[s].refs > 0)
  BY <1>1, FreeFacts
<1>10. StaleInv /\ ShapeInv /\ RouteInv
  BY <1>1, <1>9 DEF StaleInv, ShapeInv, RouteInv
<1>11. CountInv
  BY <1>1, FS_EmptySet DEF CountInv
<1>12. BucketInv
  <2>1. LiveIn(lookup) = {} /\ Live = {}
    BY <1>1, <1>6, Constants, LiveIsIn DEF LiveIn
  <2>2. ASSUME NEW k \in Keys PROVE BucketOK(k, ids, lookup)
    <3>1. lookup[k].list = <<>> /\ Len(<<>>) = 0
      BY <1>1, <1>5
    <3>2. 1 .. 0 = {}
      OBVIOUS
    <3> QED BY <3>1, <3>2, <1>6, <2>1 DEF BucketOK
  <2> QED BY <2>1, <2>2 DEF BucketInv
<1> QED BY <1>7, <1>8, <1>10, <1>11, <1>12 DEF BaseInv

(* BaseInv implies the type invariant.                                     *)
LEMMA BaseTypes ==
  ASSUME BaseInv
  PROVE  TypeOK
<1>1. Typed
  BY DEF BaseInv
<1>2. users \in [DOMAIN users -> [def: Queries \cup {Void}, authored: BOOLEAN,
                                  handle: (SlotsOfCache \X Nat) \cup {None},
                                  destroyed: BOOLEAN]]
  <2>1. users = [u \in DOMAIN users |-> users[u]]
    BY <1>1 DEF Typed
  <2>2. \A u \in DOMAIN users :
          users[u] \in [def: Queries \cup {Void}, authored: BOOLEAN,
                        handle: (SlotsOfCache \X Nat) \cup {None}, destroyed: BOOLEAN]
    BY <1>1 DEF Typed, UserSet, Handles
  <2> QED BY <2>1, <2>2
<1>3. \A s \in SlotsOfCache : /\ infos[s].refs \in 0 .. Cardinality(Users)
                              /\ infos[s].result \subseteq Archetypes
  BY HolderFacts, InfoFields DEF BaseInv, Typed
<1> QED BY <1>1, <1>2, <1>3 DEF TypeOK, Typed, Handles

(* TypeOK for every program: what is indexed, tracked and handed out stays *)
(* within the slots, the archetypes and the objects of the program; a      *)
(* record has as many references as objects, never less than none.         *)
THEOREM TypeCorrect == Spec => []TypeOK
<1>1. Init => BaseInv
  BY InitBase
<1>2. BaseInv /\ [Next]_vars => BaseInv'
  BY BaseStep
<1>3. BaseInv => TypeOK
  BY BaseTypes
<1> QED BY <1>1, <1>2, <1>3, PTL DEF Spec

-----------------------------------------------------------------------------
(* The caches                                                              *)

(* Records that differ in references and index only.                       *)
LEMMA SameCaches ==
  ASSUME NEW i, NEW j, NEW xs, NEW lk, NEW src,
         j.query = i.query, j.result = i.result, j.last = i.last, j.dirty = i.dirty,
         j.cursors = i.cursors, j.snapshot = i.snapshot
  PROVE  /\ PastOK(i, xs, lk, src) => PastOK(j, xs, lk, src)
         /\ CompleteOK(i, xs, lk, src) => CompleteOK(j, xs, lk, src)
         /\ SoundOK(i, xs, lk, src) => SoundOK(j, xs, lk, src)
<1>1. Stale(j, src) <=> Stale(i, src)
  BY DEF Stale
<1>2. \A k : CursorOK(i, k, xs, lk) => CursorOK(j, k, xs, lk)
  BY DEF CursorOK
<1>3. PastOK(i, xs, lk, src) => PastOK(j, xs, lk, src)
  BY DEF PastOK
<1>4. CompleteOK(i, xs, lk, src) => CompleteOK(j, xs, lk, src)
  BY <1>1, <1>2 DEF CompleteOK
<1>5. SoundOK(i, xs, lk, src) => SoundOK(j, xs, lk, src)
  BY <1>1 DEF SoundOK
<1> QED BY <1>3, <1>4, <1>5

(* A record that was never matched or was cleared promises nothing.        *)
LEMMA EmptyOK ==
  ASSUME Typed, NEW i, i.result = {}, i.last = 0, i.dirty = TRUE,
         i.cursors = NoCursors, i.snapshot = 0
  PROVE  /\ PastOK(i, ids, lookup, source)
         /\ CompleteOK(i, ids, lookup, source)
         /\ SoundOK(i, ids, lookup, source)
<1>1. Stale(i, source)
  BY DEF Stale
<1>2. Len(ids) \in Nat /\ source.version \in Nat /\ \A k \in Keys : lookup[k].rev \in Nat
  BY LenProperties DEF Typed
<1>3. \A k \in Keys : i.cursors[k].rev = 0
  BY DEF NoCursors
<1>4. PastOK(i, ids, lookup, source)
  BY <1>2, <1>3 DEF PastOK
<1> QED BY <1>1, <1>4 DEF CompleteOK, SoundOK

(* What is to be shown of one slot after a step.                           *)
SlotOK(s) ==
  /\ IndexOK(infos[s], TrackedBy(<<s, gen[s]>>))
  /\ PastOK(infos[s], ids, lookup, source)
  /\ CompleteOK(infos[s], ids, lookup, source)
SlotSound(s) == SoundOK(infos[s], ids, lookup, source)

(* All slots together.                                                     *)
LEMMA Slots ==
  /\ CacheInv <=> \A s \in SlotsOfCache : SlotOK(s)
  /\ SoundInv <=> \A s \in SlotsOfCache : SlotSound(s)
  BY DEF CacheInv, IndexInv, PastInv, CompleteInv, SoundInv, SlotOK, SlotSound

(* A slot and its world as they were.                                      *)
LEMMA SlotKept ==
  ASSUME NEW s \in SlotsOfCache, ids' = ids, lookup' = lookup, source' = source,
         infos'[s] = infos[s], TrackedBy(<<s, gen[s]>>)' = TrackedBy(<<s, gen[s]>>)
  PROVE  (SlotOK(s) => SlotOK(s)') /\ (SlotSound(s) => SlotSound(s)')
<1>1. SlotOK(s)' <=> /\ IndexOK(infos'[s], TrackedBy(<<s, gen[s]>>)')
                     /\ PastOK(infos'[s], ids', lookup', source')
                     /\ CompleteOK(infos'[s], ids', lookup', source')
  BY DEF SlotOK
<1>2. SlotSound(s)' <=> SoundOK(infos'[s], ids', lookup', source')
  BY DEF SlotSound
<1> QED BY <1>1, <1>2 DEF SlotOK, SlotSound

(* A slot whose record counts references anew.                             *)
LEMMA SlotCounted ==
  ASSUME NEW s \in SlotsOfCache, ids' = ids, lookup' = lookup, source' = source,
         infos'[s].query = infos[s].query, infos'[s].result = infos[s].result,
         infos'[s].last = infos[s].last, infos'[s].dirty = infos[s].dirty,
         infos'[s].cursors = infos[s].cursors, infos'[s].snapshot = infos[s].snapshot,
         infos'[s].synced = infos[s].synced,
         TrackedBy(<<s, gen[s]>>)' = TrackedBy(<<s, gen[s]>>)
  PROVE  (SlotOK(s) => SlotOK(s)') /\ (SlotSound(s) => SlotSound(s)')
<1>1. /\ PastOK(infos[s], ids, lookup, source) => PastOK(infos'[s], ids', lookup', source')
      /\ CompleteOK(infos[s], ids, lookup, source) => CompleteOK(infos'[s], ids', lookup', source')
      /\ SoundOK(infos[s], ids, lookup, source) => SoundOK(infos'[s], ids', lookup', source')
  BY SameCaches
<1>2. IndexOK(infos[s], TrackedBy(<<s, gen[s]>>))
        => IndexOK(infos'[s], TrackedBy(<<s, gen[s]>>)')
  BY DEF IndexOK
<1> QED BY <1>1, <1>2 DEF SlotOK, SlotSound

(* A slot whose record is new or cleared.                                  *)
LEMMA SlotEmpty ==
  ASSUME Typed, NEW s \in SlotsOfCache, ids' = ids, lookup' = lookup, source' = source,
         infos'[s].result = {}, infos'[s].last = 0, infos'[s].dirty = TRUE,
         infos'[s].cursors = NoCursors, infos'[s].snapshot = 0,
         infos'[s].synced => TrackedBy(<<s, gen[s]>>)' = {}
  PROVE  SlotOK(s)' /\ SlotSound(s)'
<1>1. /\ PastOK(infos'[s], ids', lookup', source')
      /\ CompleteOK(infos'[s], ids', lookup', source')
      /\ SoundOK(infos'[s], ids', lookup', source')
  BY EmptyOK
<1>2. IndexOK(infos'[s], TrackedBy(<<s, gen[s]>>)')
  BY DEF IndexOK
<1> QED BY <1>1, <1>2 DEF SlotOK, SlotSound

(* What is tracked for other slots.                                        *)
LEMMA OtherTracked ==
  ASSUME NEW s, gen'[s] = gen[s],
         \A a \in Archetypes : <<a, <<s, gen[s]>>>> \in tracked' <=> <<a, <<s, gen[s]>>>> \in tracked
  PROVE  TrackedBy(<<s, gen[s]>>)' = TrackedBy(<<s, gen[s]>>)
<1>1. TrackedBy(<<s, gen[s]>>)' = {a \in Archetypes : <<a, <<s, gen'[s]>>>> \in tracked'}
  BY DEF TrackedBy, Archetypes
<1> QED BY <1>1 DEF TrackedBy

(* Giving a reference back changes no cache.                               *)
LEMMA LetGoCaches ==
  ASSUME IInv, NEW u \in DOMAIN users, NEW nu, NEW gained,
         LetGo(u, nu, gained), Takeover(u, nu, gained), NEW s \in SlotsOfCache
  PROVE  SlotOK(s)' /\ (SlotSound(s) => SlotSound(s)')
<1>1. ids' = ids /\ lookup' = lookup /\ source' = source
  BY DEF LetGo, world
<1>2. SlotOK(s) /\ Typed /\ HandleInv /\ StaleInv /\ ShapeInv
  BY Slots DEF IInv, BaseInv
<1>3. tracked' = {p \in tracked : ~Gone(u, p[2][1])}
  BY <1>2, LetGoIndexes
<1>4. CASE Gone(u, s)
  <2>1. infos'[s] = Free
    BY <1>2, <1>4, LetGoSlot
  <2> QED BY <2>1, <1>1, <1>2, FreeFacts, SlotEmpty
<1>5. CASE ~Gone(u, s)
  <2>1. gen'[s] = gen[s]
    BY <1>2, <1>5, LetGoSlot
  <2>2. TrackedBy(<<s, gen[s]>>)' = TrackedBy(<<s, gen[s]>>)
    BY <2>1, <1>3, <1>5, OtherTracked
  <2>3. /\ infos'[s].query = infos[s].query /\ infos'[s].result = infos[s].result
        /\ infos'[s].last = infos[s].last /\ infos'[s].dirty = infos[s].dirty
        /\ infos'[s].cursors = infos[s].cursors /\ infos'[s].snapshot = infos[s].snapshot
        /\ infos'[s].synced = infos[s].synced
    BY <1>2, <1>5, LetGoInfo
  <2> QED BY <2>2, <2>3, <1>1, <1>2, SlotCounted
<1> QED BY <1>4, <1>5

(* Joining a record neither, a new record is empty.                        *)
LEMMA FetchCaches ==
  ASSUME IInv, NEW u \in DOMAIN users, Fetch(u), NEW s \in SlotsOfCache
  PROVE  SlotOK(s)' /\ (SlotSound(s) => SlotSound(s)')
<1>1. ids' = ids /\ lookup' = lookup /\ source' = source /\ tracked' = tracked
  BY DEF Fetch, world
<1>2. SlotOK(s) /\ Typed /\ HandleInv
  BY Slots DEF IInv, BaseInv
<1>3. gen' = gen
  BY DEF Fetch
<1>4. TrackedBy(<<s, gen[s]>>)' = TrackedBy(<<s, gen[s]>>)
  BY <1>1, <1>3, OtherTracked
<1>5. ASSUME NEW p, Joins(u, p) PROVE SlotOK(s)' /\ (SlotSound(s) => SlotSound(s)')
  <2>1. PICK n \in Nat : infos'[s] = Counted(infos[s], n)
    BY <1>5, JoinsBase DEF IInv
  <2>2. infos[s] \in InfoSet
    BY <1>2 DEF Typed
  <2>3. /\ infos'[s].query = infos[s].query /\ infos'[s].result = infos[s].result
        /\ infos'[s].last = infos[s].last /\ infos'[s].dirty = infos[s].dirty
        /\ infos'[s].cursors = infos[s].cursors /\ infos'[s].snapshot = infos[s].snapshot
        /\ infos'[s].synced = infos[s].synced
    BY <2>1, <2>2, CountedFacts
  <2> QED BY <2>3, <1>1, <1>2, <1>4, SlotCounted
<1>6. ASSUME NEW c, Opens(u, c) PROVE SlotOK(s)' /\ (SlotSound(s) => SlotSound(s)')
  <2>1. /\ s # c => infos'[s] = infos[s]
        /\ infos'[c] = Unmatched(Asked(u))
    BY <1>6, OpensBase DEF IInv
  <2>2. CASE s = c
    <3>1. Asked(u) \in Queries \cup {Void}
      BY <1>2, UserHandle DEF Asked
    <3>2. /\ infos'[s].result = {} /\ infos'[s].last = 0 /\ infos'[s].dirty = TRUE
          /\ infos'[s].cursors = NoCursors /\ infos'[s].snapshot = 0 /\ infos'[s].synced = FALSE
      BY <2>1, <2>2, <3>1, UnmatchedFacts
    <3> QED BY <3>2, <1>1, <1>2, SlotEmpty
  <2>3. CASE s # c
    BY <2>1, <2>3, <1>1, <1>2, <1>4, SlotKept
  <2> QED BY <2>2, <2>3
<1> QED BY <1>5, <1>6, FetchIs

(* One record is replaced.                                                 *)
LEMMA Replaced ==
  ASSUME Typed, NEW c \in SlotsOfCache, NEW x, infos' = [infos EXCEPT ![c] = x]
  PROVE  infos'[c] = x /\ \A s \in SlotsOfCache : s # c => infos'[s] = infos[s]
  BY DEF Typed

(* A match that finds nothing new.                                         *)
LEMMA MergedNothing ==
  ASSUME Typed, NEW i \in InfoSet, NEW found \in SUBSET Archetypes, found \subseteq i.result,
         ~Stale(i, source), NEW held, IndexOK(i, held), PastOK(i, ids, lookup, source),
         CompleteOK(i, ids, lookup, source)
  PROVE  /\ IndexOK(Merged(i, found), held)
         /\ PastOK(Merged(i, found), ids, lookup, source)
         /\ CompleteOK(Merged(i, found), ids, lookup, source)
         /\ SoundOK(i, ids, lookup, source) => SoundOK(Merged(i, found), ids, lookup, source)
<1> DEFINE j == Merged(i, found)
<1>1. /\ j.query = i.query /\ j.result = i.result \cup found /\ j.last = i.last /\ j.dirty = FALSE
      /\ j.cursors = i.cursors /\ j.snapshot = source.version
      /\ j.synced <=> (i.synced /\ found \subseteq i.result)
  BY MergedFacts
<1> HIDE DEF j
<1>2. j.result = i.result /\ (j.synced <=> i.synced) /\ ~i.dirty
  BY <1>1 DEF Stale
<1>3. IndexOK(j, held)
  BY <1>2 DEF IndexOK
<1>4. source.version <= source.version
  BY DEF Typed
<1>5. PastOK(j, ids, lookup, source)
  BY <1>1, <1>2, <1>4 DEF PastOK
<1>6. \A k : CursorOK(i, k, ids, lookup) => CursorOK(j, k, ids, lookup)
  BY <1>1, <1>2 DEF CursorOK
<1>7. CompleteOK(j, ids, lookup, source)
  BY <1>1, <1>2, <1>6 DEF CompleteOK
<1>8. SoundOK(i, ids, lookup, source) => SoundOK(j, ids, lookup, source)
  BY <1>1, <1>2 DEF SoundOK
<1> QED BY <1>3, <1>5, <1>7, <1>8 DEF j

(* A query that is matched.                                                *)
LEMMA MatchAllCaches ==
  ASSUME IInv, NEW u \in DOMAIN users, MatchAll(u), NEW s \in SlotsOfCache
  PROVE  /\ SlotOK(s)'
         /\ (\A q \in Queries : q.or # <<>> => q.no = {}) /\ SlotSound(s) => SlotSound(s)'
<1> DEFINE h == users[u].handle
           c == h[1]
           i == infos[c]
           next == Matched(i)
<1>1. SlotOK(s) /\ Typed /\ BucketInv
  BY Slots DEF IInv, BaseInv
<1>2. /\ h \in Handles /\ c \in SlotsOfCache /\ h = <<c, gen[c]>> /\ i \in InfoSet
  BY <1>1, UserHandle, ValidFacts DEF MatchAll
<1>3. /\ infos' = [infos EXCEPT ![c] = After(i)]
      /\ ids' = ids /\ lookup' = lookup /\ source' = source /\ gen' = gen
      /\ tracked' = IF next.synced THEN tracked
                    ELSE {p \in tracked : p[2] # h} \cup (next.result \X {h})
  BY DEF MatchAll, After, world
<1>4. /\ next \in InfoSet /\ After(i) \in InfoSet /\ After(i).query = i.query
      /\ After(i).result = next.result /\ After(i).last = next.last
      /\ After(i).dirty = next.dirty /\ After(i).cursors = next.cursors
      /\ After(i).snapshot = next.snapshot
  BY <1>1, <1>2, AfterFacts
<1>5. next.result \subseteq Archetypes /\ next.query = i.query
  BY <1>1, <1>2, <1>4, InfoFields, MatchedFacts
<1>6. CASE s # c
  <2>1. infos'[s] = infos[s]
    BY <1>2, <1>3, <1>6 DEF Typed
  <2>2. <<s, gen[s]>> # h
    BY <1>2, <1>6
  <2> HIDE DEF h, next
  <2>3. \A a \in Archetypes : <<a, <<s, gen[s]>>>> \in tracked' <=> <<a, <<s, gen[s]>>>> \in tracked
    BY <1>3, <2>2
  <2>4. TrackedBy(<<s, gen[s]>>)' = TrackedBy(<<s, gen[s]>>)
    BY <1>3, <2>3, OtherTracked
  <2> QED BY <2>1, <2>4, <1>1, <1>3, SlotKept
<1>7. CASE s = c
  <2> DEFINE held == TrackedBy(<<s, gen[s]>>)
  <2>1. IndexOK(i, held) /\ PastOK(i, ids, lookup, source) /\ CompleteOK(i, ids, lookup, source)
    BY <1>1, <1>7 DEF SlotOK
  <2>2. /\ PastOK(next, ids, lookup, source)
        /\ CompleteOK(next, ids, lookup, source)
        /\ next.synced => next.result = held
    BY <1>1, <1>2, <2>1, MatchedOK
  <2>3. infos'[s] = After(i)
    <3>1. infos'[c] = After(i)
      BY <1>1, <1>2, <1>3, Replaced
    <3> QED BY <3>1, <1>7
  <2>4. IndexOK(infos'[s], TrackedBy(<<s, gen[s]>>)')
    <3>1. TrackedBy(<<s, gen[s]>>)' = {a \in Archetypes : <<a, h>> \in tracked'}
      <4>1. TrackedBy(<<s, gen[s]>>)' = {a \in Archetypes : <<a, <<s, gen'[s]>>>> \in tracked'}
        BY DEF TrackedBy, Archetypes
      <4> QED BY <4>1, <1>2, <1>3, <1>7
    <3>2. CASE next.synced
      <4>1. TrackedBy(<<s, gen[s]>>)' = held
        BY <3>1, <3>2, <1>2, <1>3, <1>7 DEF TrackedBy
      <4>2. After(i) = next
        BY <3>2 DEF After
      <4> QED BY <4>1, <4>2, <2>2, <2>3, <3>2 DEF IndexOK
    <3>3. CASE ~next.synced
      <4> HIDE DEF h, next
      <4>1. {a \in Archetypes : <<a, h>> \in tracked'} = next.result
        BY <3>3, <1>3, <1>5
      <4> QED BY <4>1, <3>1, <2>3, <1>4 DEF IndexOK
    <3> QED BY <3>2, <3>3
  <2>5. PastOK(After(i), ids, lookup, source) /\ CompleteOK(After(i), ids, lookup, source)
    BY <2>2, <1>4, <1>5, SameCaches
  <2>6. SlotOK(s)'
    BY <2>3, <2>4, <2>5, <1>3 DEF SlotOK
  <2>7. ASSUME \A q \in Queries : q.or # <<>> => q.no = {}, SlotSound(s)
        PROVE  SlotSound(s)'
    <3>1. i.query.or # <<>> => i.query.no = {}
      BY <2>7, <1>2, InfoFields, Constants
    <3>2. SoundOK(i, ids, lookup, source)
      BY <2>7, <1>7 DEF SlotSound
    <3>3. next.result \subseteq FreshIn(i.query, ids, lookup, source)
      BY <3>1, <3>2, <2>1, <1>1, <1>2, MatchedSound
    <3>4. SoundOK(next, ids, lookup, source)
      BY <3>3, <1>5 DEF SoundOK
    <3>5. SoundOK(After(i), ids, lookup, source)
      BY <3>4, <1>4, <1>5, SameCaches
    <3> QED BY <3>5, <2>3, <1>3 DEF SlotSound
  <2> QED BY <2>6, <2>7
<1> QED BY <1>6, <1>7

(* A query that has its matches looks at one archetype and stays as it is. *)
LEMMA MatchOneCaches ==
  ASSUME IInv, MatchAnyTime = FALSE, NEW u \in DOMAIN users, NEW a \in Archetypes,
         a \in Live, MatchOne(u, a), NEW s \in SlotsOfCache
  PROVE  SlotOK(s)' /\ (SlotSound(s) => SlotSound(s)')
<1> DEFINE c == users[u].handle[1]
           i == infos[c]
           hit == i.query.src \subseteq source.ids /\ Matching(i.query, a)
           found == IF hit THEN {a} ELSE {}
<1>1. SlotOK(s) /\ Typed
  BY Slots DEF IInv, BaseInv
<1>2. c \in SlotsOfCache /\ i \in InfoSet
  BY <1>1, UserHandle, ValidFacts DEF MatchOne
<1>3. /\ infos' = [infos EXCEPT ![c] = MatchedOne(i, a)]
      /\ ids' = ids /\ lookup' = lookup /\ source' = source /\ gen' = gen /\ tracked' = tracked
      /\ i.last = LastId /\ ~MustReset(i)
  BY DEF MatchOne, world
<1>4. TrackedBy(<<s, gen[s]>>)' = TrackedBy(<<s, gen[s]>>)
  BY <1>3, OtherTracked
<1>5. CASE s # c \/ i.query = Void
  <2>1. infos'[s] = infos[s]
    BY <1>2, <1>3, <1>5 DEF Typed, MatchedOne
  <2> QED BY <2>1, <1>1, <1>3, <1>4, SlotKept
<1>6. CASE s = c /\ i.query # Void
  <2>1. MatchedOne(i, a) = Merged(i, found)
    BY <1>3, <1>6 DEF MatchedOne
  <2>2. infos'[c] = Merged(i, found)
    BY <2>1, <1>1, <1>2, <1>3, Replaced
  <2>3. /\ IndexOK(i, TrackedBy(<<s, gen[s]>>)) /\ PastOK(i, ids, lookup, source)
        /\ CompleteOK(i, ids, lookup, source) /\ ~Stale(i, source)
    BY <1>1, <1>3, <1>6, MustResetIsStale DEF SlotOK
  <2>4. found \subseteq i.result
    <3>1. hit => a \in FreshIn(i.query, ids, lookup, source)
      BY <1>6, LiveIsIn, MatchingIsGood DEF FreshIn
    <3>2. FreshIn(i.query, ids, lookup, source) \subseteq i.result
      BY <2>3, <1>3, <1>6 DEF CompleteOK, LastId
    <3> QED BY <3>1, <3>2
  <2>5. found \in SUBSET Archetypes
    OBVIOUS
  <2> HIDE DEF found, hit, i, c
  <2>6. /\ IndexOK(Merged(i, found), TrackedBy(<<s, gen[s]>>))
        /\ PastOK(Merged(i, found), ids, lookup, source)
        /\ CompleteOK(Merged(i, found), ids, lookup, source)
        /\ SoundOK(i, ids, lookup, source) => SoundOK(Merged(i, found), ids, lookup, source)
    BY <2>3, <2>4, <2>5, <1>1, <1>2, MergedNothing
  <2>7. infos'[s] = Merged(i, found) /\ infos[s] = i
    BY <2>2, <1>6 DEF i
  <2> QED BY <2>6, <2>7, <1>3, <1>4 DEF SlotOK, SlotSound
<1> QED BY <1>5, <1>6

(* Query::reset                                                            *)
LEMMA ResetCaches ==
  ASSUME IInv, NEW u \in DOMAIN users, Reset(u), NEW s \in SlotsOfCache
  PROVE  SlotOK(s)' /\ (SlotSound(s) => SlotSound(s)')
<1> DEFINE c == users[u].handle[1]
           i == infos[c]
<1>1. SlotOK(s) /\ Typed
  BY Slots DEF IInv, BaseInv
<1>2. c \in SlotsOfCache /\ i \in InfoSet
  BY <1>1, UserHandle, ValidFacts DEF Reset
<1>3. /\ infos' = [infos EXCEPT ![c] = Cleared(i)]
      /\ ids' = ids /\ lookup' = lookup /\ source' = source /\ gen' = gen /\ tracked' = tracked
  BY DEF Reset, world
<1>4. TrackedBy(<<s, gen[s]>>)' = TrackedBy(<<s, gen[s]>>)
  BY <1>3, OtherTracked
<1>5. CASE s # c
  <2>1. infos'[s] = infos[s]
    BY <1>2, <1>3, <1>5 DEF Typed
  <2> QED BY <2>1, <1>1, <1>3, <1>4, SlotKept
<1>6. CASE s = c
  <2>1. infos'[c] = Cleared(i)
    BY <1>1, <1>2, <1>3, Replaced
  <2>2. /\ Cleared(i).result = {} /\ Cleared(i).last = 0 /\ Cleared(i).dirty = TRUE
        /\ Cleared(i).cursors = NoCursors /\ Cleared(i).snapshot = 0
        /\ Cleared(i).synced <=> (i.synced /\ i.result = {})
    BY <1>2, ClearedFacts
  <2>3. infos'[s] = Cleared(i) /\ infos[s] = i
    BY <2>1, <1>6
  <2> HIDE DEF i, c
  <2>4. infos'[s].synced => TrackedBy(<<s, gen[s]>>)' = {}
    BY <2>2, <2>3, <1>1, <1>4 DEF SlotOK, IndexOK
  <2> QED BY <2>2, <2>3, <2>4, <1>1, <1>3, SlotEmpty
<1> QED BY <1>5, <1>6

(* What is invalidated promises nothing.                                   *)
LEMMA InvalidateCaches ==
  ASSUME IInv, NEW t, Invalidate(t), NEW s \in SlotsOfCache
  PROVE  SlotOK(s)' /\ (SlotSound(s) => SlotSound(s)')
<1>1. SlotOK(s) /\ Typed /\ BaseInv
  BY Slots DEF IInv, BaseInv
<1>2. ids' = ids /\ lookup' = lookup /\ source' = source /\ gen' = gen /\ tracked' = tracked
  BY DEF Invalidate, world
<1>3. TrackedBy(<<s, gen[s]>>)' = TrackedBy(<<s, gen[s]>>)
  BY <1>2, OtherTracked
<1> DEFINE j == infos'[s]
<1>4. /\ j.query = infos[s].query /\ j.result = infos[s].result /\ j.last = infos[s].last
      /\ j.cursors = infos[s].cursors /\ j.snapshot = infos[s].snapshot
      /\ j.synced = infos[s].synced /\ (infos[s].dirty => j.dirty)
  BY <1>1, InvalidateIs
<1> HIDE DEF j
<1>5. IndexOK(j, TrackedBy(<<s, gen[s]>>))
  BY <1>1, <1>4 DEF SlotOK, IndexOK
<1>6. PastOK(j, ids, lookup, source)
  BY <1>1, <1>4 DEF SlotOK, PastOK
<1>7. Stale(infos[s], source) => Stale(j, source)
  BY <1>4 DEF Stale
<1>8. \A k : CursorOK(infos[s], k, ids, lookup) => CursorOK(j, k, ids, lookup)
  BY <1>4 DEF CursorOK
<1>9. CompleteOK(j, ids, lookup, source)
  BY <1>1, <1>4, <1>7, <1>8 DEF SlotOK, CompleteOK
<1>10. SlotSound(s) => SoundOK(j, ids, lookup, source)
  BY <1>4, <1>7 DEF SlotSound, SoundOK
<1> QED BY <1>2, <1>3, <1>5, <1>6, <1>9, <1>10 DEF SlotOK, SlotSound, j

(* Queries of a moved entity are stale, others do not read it.             *)
LEMMA MoveSourceCaches ==
  ASSUME IInv, NEW S, MoveSource(S), NEW s \in SlotsOfCache
  PROVE  SlotOK(s)' /\ (SlotSound(s) => SlotSound(s)')
<1> DEFINE i == infos[s]
<1>1. SlotOK(s) /\ Typed /\ i \in InfoSet
  BY Slots DEF IInv, BaseInv, Typed
<1>2. /\ source' = [ids |-> S, version |-> source.version + 1]
      /\ ids' = ids /\ lookup' = lookup /\ infos' = infos /\ gen' = gen /\ tracked' = tracked
  BY DEF MoveSource
<1>3. TrackedBy(<<s, gen[s]>>)' = TrackedBy(<<s, gen[s]>>)
  BY <1>2, OtherTracked
<1>4. source.version \in Nat /\ i.snapshot \in Nat
  BY <1>1, InfoFields DEF Typed
<1>5. source'.version = source.version + 1
  BY <1>2
<1>6. PastOK(i, ids, lookup, source')
  <2>1. PastOK(i, ids, lookup, source)
    BY <1>1 DEF SlotOK
  <2> QED BY <2>1, <1>4, <1>5 DEF PastOK
<1>7. CASE Policy(i.query) = "Dynamic"
  <2>1. i.snapshot # source'.version
    <3>1. i.snapshot <= source.version
      BY <1>1 DEF SlotOK, PastOK
    <3> QED BY <3>1, <1>4, <1>5
  <2>2. Stale(i, source')
    BY <2>1, <1>7 DEF Stale
  <2>3. CompleteOK(i, ids, lookup, source') /\ SoundOK(i, ids, lookup, source')
    BY <2>2 DEF CompleteOK, SoundOK
  <2> QED BY <2>3, <1>1, <1>2, <1>3, <1>6 DEF SlotOK, SlotSound
<1>8. CASE Policy(i.query) # "Dynamic"
  <2>1. i.query.src = {}
    BY <1>8, <1>1, InfoFields, Policies, Constants
  <2>2. Stale(i, source') <=> Stale(i, source)
    BY <1>8 DEF Stale
  <2>3. FreshIn(i.query, ids, lookup, source') = FreshIn(i.query, ids, lookup, source)
    BY <2>1 DEF FreshIn
  <2>4. CompleteOK(i, ids, lookup, source')
    BY <2>1, <2>2, <2>3, <1>1 DEF SlotOK, CompleteOK
  <2>5. SlotSound(s) => SoundOK(i, ids, lookup, source')
    BY <2>2, <2>3 DEF SlotSound, SoundOK
  <2> QED BY <2>4, <2>5, <1>1, <1>2, <1>3, <1>6 DEF SlotOK, SlotSound
<1> QED BY <1>7, <1>8

(* An immediate query that is up to date is woken by every archetype that  *)
(* matches it, and takes no other.                                         *)
LEMMA TakenFacts ==
  ASSUME BaseInv, NEW S \in Builds, NEW s \in SlotsOfCache
  PROVE  Taken(s, S) <=> /\ Policy(infos[s].query) = "Immediate" /\ ~infos[s].dirty
                         /\ Good(infos[s].query, S)
<1> DEFINE q == infos[s].query
           h == HandleOf(s)
<1>1. Typed /\ RouteInv /\ CountInv /\ HandleInv
  BY DEF BaseInv
<1>2. q \in Queries \cup {Void}
  BY <1>1, InfoFields DEF Typed
<1>3. Policy(q) = "Immediate" => q \in Queries
  BY <1>2, Constants
<1>4. infos[s].refs \in Nat /\ (infos[s].refs = 0 => infos[s].dirty)
  BY <1>1, InfoFields, FreeFacts DEF Typed, HandleInv
<1>5. ASSUME Policy(q) = "Immediate"
      PROVE  /\ Elements(q.all) \subseteq Terms /\ Elements(q.or) \subseteq Terms
             /\ q.no \subseteq Terms /\ (q.all # <<>> \/ q.or # <<>>)
  BY <1>3, <1>5, QueryTypes, ElementsOf, Policies
<1>6. ASSUME Policy(q) = "Immediate"
      PROVE  Good(q, S) <=> /\ Elements(q.all) \subseteq BucketsOf(S)
                            /\ q.or # <<>> => Elements(q.or) \cap BucketsOf(S) # {}
                            /\ q.no \cap BucketsOf(S) = {}
  <2>1. \A t \in Terms : HasIn(S, t) <=> t \in BucketsOf(S)
    BY HasBucket
  <2> HIDE DEF q
  <2> QED BY <2>1, <1>5, <1>6 DEF Good
<1>7. Takes(infos[s], S) <=> Policy(q) = "Immediate" /\ ~infos[s].dirty /\ Good(q, S)
  BY <1>6 DEF Takes
<1>8. ASSUME Policy(q) = "Immediate", infos[s].refs > 0, Good(q, S)
      PROVE  h \in Candidates(S)
  <2>1. Woken(q, h, bySelector)
    BY <1>1, <1>8 DEF RouteInv
  <2> HIDE DEF h, q
  <2>2. \E t \in Terms : t \in BucketsOf(S) /\ <<t, h>> \in bySelector
    <3>1. CASE q.all # <<>>
      <4>1. PICK t \in Elements(q.all) : <<t, h>> \in bySelector
        BY <2>1, <3>1, <1>8 DEF Woken
      <4> QED BY <4>1, <1>5, <1>6, <1>8
    <3>2. CASE q.all = <<>>
      <4>1. PICK t \in Elements(q.or) : t \in BucketsOf(S)
        BY <3>2, <1>5, <1>6, <1>8
      <4> QED BY <4>1, <3>2, <2>1, <1>5, <1>8 DEF Woken
    <3> QED BY <3>1, <3>2
  <2>3. PICK t \in Terms : t \in BucketsOf(S) /\ <<t, h>> \in bySelector
    BY <2>2
  <2>4. Kind[t] \in Kinds
    BY QueryAssumption DEF QueryAssumption
  <2> DEFINE k == Kind[t]
             mine == {p \in bySelector : Kind[p[1]] = k}
  <2>5. selectors[k] = Cardinality(mine)
    BY <2>4, <1>1 DEF CountInv
  <2>6. <<t, h>> \in mine
    BY <2>3
  <2>7. IsFiniteSet(mine)
    BY <1>1, FS_Subset DEF CountInv
  <2>8. selectors[k] > 0
    <3> HIDE DEF mine
    <3>1. Cardinality(mine) \in Nat /\ Cardinality(mine) # 0
      BY <2>6, <2>7, FS_CardinalityType, FS_EmptySet
    <3> QED BY <3>1, <2>5
  <2>9. <<t, h>>[1] = t /\ <<t, h>>[2] = h
    OBVIOUS
  <2> QED BY <2>3, <2>8, <2>9 DEF Candidates
<1> QED BY <1>4, <1>7, <1>8 DEF Taken

(* What matches after create_archetype().                                  *)
LEMMA CreateFresh ==
  ASSUME Typed, BucketInv, NEW S \in Builds, CreateArchetype(S), NEW q
  PROVE  FreshIn(q, ids', lookup', source) = FreshIn(q, ids, lookup, source) \cup
           {a \in {LastId + 1} : q # Void /\ q.src \subseteq source.ids /\ Good(q, S)}
<1> DEFINE a == LastId + 1
<1>1. /\ a \notin Live /\ ids'[a] = S /\ \A b \in 1 .. Len(ids) : ids'[b] = ids[b]
      /\ LiveIn(lookup') = LiveIn(lookup) \cup {a}
  BY CreateWorld
<1>2. LiveIn(lookup) = Live /\ Live \subseteq 1 .. Len(ids)
  BY LiveIsIn DEF BucketInv
<1> HIDE DEF a
<1>3. \A b \in LiveIn(lookup) : ids'[b] = ids[b]
  BY <1>1, <1>2
<1>4. FreshIn(q, ids', lookup', source) = FreshIn(q, ids, lookup, source) \cup
        {b \in {a} : q # Void /\ q.src \subseteq source.ids /\ Good(q, S)}
  BY <1>1, <1>3 DEF FreshIn
<1> QED BY <1>4 DEF a

(* Cursors stand before what was appended.                                 *)
LEMMA CreateCursor ==
  ASSUME Typed, BucketInv, NEW S \in Builds, CreateArchetype(S), NEW i \in InfoSet, NEW j,
         j.cursors = i.cursors, j.query = i.query, i.result \subseteq j.result,
         NEW k \in Keys, CursorOK(i, k, ids, lookup)
  PROVE  CursorOK(j, k, ids', lookup')
<1>1. /\ lookup'[k].rev = lookup[k].rev
      /\ Len(lookup[k].list) <= Len(lookup'[k].list)
      /\ \A n \in 1 .. Len(lookup[k].list) : lookup'[k].list[n] = lookup[k].list[n]
      /\ \A b \in 1 .. Len(ids) : ids'[b] = ids[b]
      /\ lookup' \in [Keys -> [list: Seq(Archetypes), rev: Nat]]
  BY CreateWorld
<1>2. Len(lookup[k].list) \in Nat /\ Len(lookup'[k].list) \in Nat /\ i.cursors[k].index \in Nat
  BY <1>1, InfoFields, LenProperties DEF Typed
<1>3. SUFFICES ASSUME i.cursors[k].rev = lookup[k].rev
               PROVE  /\ i.cursors[k].index <= Len(lookup'[k].list)
                      /\ \A n \in 1 .. i.cursors[k].index :
                           Good(i.query, ids'[lookup'[k].list[n]]) => lookup'[k].list[n] \in j.result
  BY <1>1 DEF CursorOK
<1>4. /\ i.cursors[k].index <= Len(lookup[k].list)
      /\ \A n \in 1 .. i.cursors[k].index :
           Good(i.query, ids[lookup[k].list[n]]) => lookup[k].list[n] \in i.result
  BY <1>3 DEF CursorOK
<1>5. i.cursors[k].index <= Len(lookup'[k].list)
  BY <1>1, <1>2, <1>4
<1>6. ASSUME NEW n \in 1 .. i.cursors[k].index,
             Good(i.query, ids'[lookup'[k].list[n]])
      PROVE  lookup'[k].list[n] \in j.result
  <2>1. n \in 1 .. Len(lookup[k].list)
    BY <1>2, <1>4
  <2>2. lookup[k].list[n] \in 1 .. Len(ids)
    BY <2>1, InBucket
  <2>3. lookup'[k].list[n] = lookup[k].list[n] /\ ids'[lookup[k].list[n]] = ids[lookup[k].list[n]]
    BY <2>1, <2>2, <1>1
  <2> QED BY <2>3, <1>4, <1>6
<1> QED BY <1>5, <1>6

(* create_archetype() and a record: it takes the archetype when it is      *)
(* immediate, up to date and matches, and else keeps what it has.          *)
LEMMA CreateOK ==
  ASSUME Typed, BucketInv, NEW S \in Builds, CreateArchetype(S), NEW i \in InfoSet, NEW j,
         j.query = i.query, j.last = i.last, j.dirty = i.dirty,
         j.cursors = i.cursors, j.snapshot = i.snapshot,
         j.result = i.result \cup {a \in {LastId + 1} :
           Policy(i.query) = "Immediate" /\ ~i.dirty /\ Good(i.query, S)}
  PROVE  /\ PastOK(i, ids, lookup, source) => PastOK(j, ids', lookup', source)
         /\ PastOK(i, ids, lookup, source) /\ CompleteOK(i, ids, lookup, source)
              => CompleteOK(j, ids', lookup', source)
         /\ SoundOK(i, ids, lookup, source) => SoundOK(j, ids', lookup', source)
<1> DEFINE a == LastId + 1
<1>1. /\ LiveIn(lookup') = LiveIn(lookup) \cup {a}
      /\ \A k \in Keys : lookup'[k].rev = lookup[k].rev
      /\ Len(ids') = Len(ids) + 1
  BY CreateWorld
<1>2. Len(ids) \in Nat /\ i.last \in Nat
  BY LenProperties, InfoFields DEF Typed
<1>3. FreshIn(i.query, ids', lookup', source) = FreshIn(i.query, ids, lookup, source) \cup
        {b \in {a} : i.query # Void /\ i.query.src \subseteq source.ids /\ Good(i.query, S)}
  BY CreateFresh
<1>4. Policy(i.query) = "Immediate" => i.query # Void /\ i.query.src \subseteq source.ids
  <2>1. i.query \in Queries \cup {Void}
    BY InfoFields
  <2> QED BY <2>1, Policies, Constants
<1>5. j.result = i.result \cup
        {b \in {a} : Policy(i.query) = "Immediate" /\ ~i.dirty /\ Good(i.query, S)}
  OBVIOUS
<1>6. i.query # Void => i.query \in Queries /\ SearchKeys(i.query) \subseteq Keys
  BY InfoFields, SearchTypes
<1> HIDE DEF a
<1>7. ASSUME PastOK(i, ids, lookup, source)
      PROVE  PastOK(j, ids', lookup', source)
  <2>1. i.last <= Len(ids')
    BY <1>1, <1>2, <1>7 DEF PastOK
  <2>2. j.query = Void => j.result = {}
    BY <1>4, <1>5, <1>7 DEF PastOK
  <2>3. j.result \subseteq LiveIn(lookup')
    BY <1>1, <1>5, <1>7 DEF PastOK
  <2> QED BY <2>1, <2>2, <2>3, <1>1, <1>7 DEF PastOK
<1>8. Stale(j, source) <=> Stale(i, source)
  BY DEF Stale
<1>9. i.last = Len(ids') => ~PastOK(i, ids, lookup, source)
  BY <1>1, <1>2 DEF PastOK
<1>10. SoundOK(i, ids, lookup, source) => SoundOK(j, ids', lookup', source)
  BY <1>3, <1>4, <1>5, <1>8 DEF SoundOK
<1>11. CompleteOK(i, ids, lookup, source) /\ PastOK(i, ids, lookup, source)
         => CompleteOK(j, ids', lookup', source)
  <2> SUFFICES ASSUME CompleteOK(i, ids, lookup, source), PastOK(i, ids, lookup, source),
                      i.query # Void, ~Stale(i, source)
               PROVE  /\ j.last # Len(ids')
                      /\ Policy(i.query) = "Immediate" =>
                           FreshIn(i.query, ids', lookup', source) \subseteq j.result
                      /\ i.query.src \subseteq source.ids =>
                           \A k \in SearchKeys(i.query) : CursorOK(j, k, ids', lookup')
    BY <1>8 DEF CompleteOK
  <2>1. ~i.dirty
    BY DEF Stale
  <2>2. Policy(i.query) = "Immediate" =>
          FreshIn(i.query, ids', lookup', source) \subseteq j.result
    BY <2>1, <1>3, <1>5 DEF CompleteOK
  <2>3. ASSUME i.query.src \subseteq source.ids, NEW k \in SearchKeys(i.query)
        PROVE  CursorOK(j, k, ids', lookup')
    <3>1. CursorOK(i, k, ids, lookup)
      BY <2>3 DEF CompleteOK
    <3>2. i.result \subseteq j.result /\ k \in Keys
      BY <1>5, <1>6, <2>3
    <3> QED BY <3>1, <3>2, CreateCursor
  <2> QED BY <2>2, <2>3, <1>9
<1> QED BY <1>7, <1>10, <1>11

(* create_archetype() and a slot.                                          *)
LEMMA CreateCaches ==
  ASSUME IInv, NEW S \in Builds, CreateArchetype(S), NEW s \in SlotsOfCache
  PROVE  SlotOK(s)' /\ (SlotSound(s) => SlotSound(s)')
<1> DEFINE i == infos[s]
           a == LastId + 1
           held == TrackedBy(<<s, gen[s]>>)
<1>1. BaseInv /\ Typed /\ BucketInv /\ SlotOK(s) /\ i \in InfoSet
  BY Slots DEF IInv, BaseInv, Typed
<1>2. /\ source' = source /\ gen' = gen
      /\ infos'[s] = IF Taken(s, S) THEN Extended(i, a) ELSE i
      /\ tracked' = tracked \cup {<<a, HandleOf(c)>> : c \in {c \in SlotsOfCache : Taken(c, S)}}
  BY <1>1, CreateIs
<1>3. Taken(s, S) <=> Policy(i.query) = "Immediate" /\ ~i.dirty /\ Good(i.query, S)
  BY <1>1, TakenFacts
<1>4. a \in Archetypes
  BY <1>1, CreateWorld
<1>5. PICK j : j = infos'[s]
  OBVIOUS
<1>6. TrackedBy(<<s, gen[s]>>)' = held \cup {b \in {a} : Taken(s, S)}
  <2>1. TrackedBy(<<s, gen[s]>>)' = {b \in Archetypes : <<b, <<s, gen[s]>>>> \in tracked'}
    BY <1>2 DEF TrackedBy, Archetypes
  <2>2. \A c : HandleOf(c) = <<s, gen[s]>> => c = s
    BY DEF HandleOf
  <2>3. HandleOf(s) = <<s, gen[s]>>
    BY DEF HandleOf
  <2> HIDE DEF a, i
  <2>4. \A b : <<b, <<s, gen[s]>>>> \in tracked'
               <=> <<b, <<s, gen[s]>>>> \in tracked \/ (b = a /\ Taken(s, S))
    BY <2>2, <2>3, <1>2
  <2> QED BY <2>1, <2>4, <1>4 DEF TrackedBy
<1>7. /\ j.query = i.query /\ j.last = i.last /\ j.dirty = i.dirty
      /\ j.cursors = i.cursors /\ j.snapshot = i.snapshot
      /\ j.result = i.result \cup {b \in {a} : Taken(s, S)}
      /\ j.synced = IF Taken(s, S) THEN TRUE ELSE i.synced
  <2>1. i \in InfoSet
    BY <1>1
  <2> HIDE DEF a, i
  <2>2. CASE Taken(s, S)
    <3>1. j = Extended(i, a)
      BY <2>2, <1>2, <1>5
    <3>2. {b \in {a} : Taken(s, S)} = {a}
      BY <2>2
    <3>3. /\ Extended(i, a).query = i.query /\ Extended(i, a).result = i.result \cup {a}
          /\ Extended(i, a).last = i.last /\ Extended(i, a).dirty = i.dirty
          /\ Extended(i, a).cursors = i.cursors /\ Extended(i, a).snapshot = i.snapshot
          /\ Extended(i, a).synced = TRUE
      BY <2>1, <1>4, ExtendedFacts
    <3> QED BY <3>1, <3>2, <3>3, <2>2
  <2>3. CASE ~Taken(s, S)
    BY <2>3, <1>2, <1>5
  <2> QED BY <2>2, <2>3
<1>8. /\ IndexOK(i, held) /\ PastOK(i, ids, lookup, source) /\ CompleteOK(i, ids, lookup, source)
  BY <1>1 DEF SlotOK
<1>9. SlotSound(s) <=> SoundOK(i, ids, lookup, source)
  BY DEF SlotSound
<1> HIDE DEF i, held
<1>10. IndexOK(j, TrackedBy(<<s, gen[s]>>)')
  <2> HIDE DEF a
  <2> QED BY <1>3, <1>6, <1>7, <1>8 DEF IndexOK
<1>11. j.result = i.result \cup {b \in {LastId + 1} :
         Policy(i.query) = "Immediate" /\ ~i.dirty /\ Good(i.query, S)}
  BY <1>3, <1>7
<1>12. /\ PastOK(j, ids', lookup', source) /\ CompleteOK(j, ids', lookup', source)
       /\ SoundOK(i, ids, lookup, source) => SoundOK(j, ids', lookup', source)
  BY <1>1, <1>7, <1>8, <1>11, CreateOK
<1> QED BY <1>2, <1>5, <1>9, <1>10, <1>12 DEF SlotOK, SlotSound

(* del_empty_archetype() and a record that has lost the archetype.         *)
LEMMA DeleteOK ==
  ASSUME Typed, BucketInv, NEW a, DeleteArchetype(a), NEW i \in InfoSet, NEW j,
         j.query = i.query, j.last = i.last, j.dirty = i.dirty,
         j.cursors = i.cursors, j.snapshot = i.snapshot, j.result = i.result \ {a}
  PROVE  /\ PastOK(i, ids, lookup, source) => PastOK(j, ids', lookup', source)
         /\ PastOK(i, ids, lookup, source) /\ CompleteOK(i, ids, lookup, source)
              => CompleteOK(j, ids', lookup', source)
         /\ SoundOK(i, ids, lookup, source) => SoundOK(j, ids', lookup', source)
<1>1. /\ ids' = ids
      /\ LiveIn(lookup') = LiveIn(lookup) \ {a}
      /\ \A k \in Keys :
           IF k \in BucketsOf(ids[a]) THEN lookup'[k].rev = lookup[k].rev + 1
           ELSE lookup'[k] = lookup[k] /\ a \notin Elements(lookup[k].list)
  BY DeleteWorld
<1>2. \A k \in Keys : lookup[k].rev \in Nat /\ i.cursors[k].rev \in Nat /\ i.cursors[k].index \in Nat
                      /\ lookup[k].list \in Seq(Archetypes) /\ Len(lookup[k].list) \in Nat
  BY InfoFields, LenProperties DEF Typed
<1>3. FreshIn(i.query, ids', lookup', source) = FreshIn(i.query, ids, lookup, source) \ {a}
  BY <1>1 DEF FreshIn
<1>4. i.query # Void => SearchKeys(i.query) \subseteq Keys
  BY InfoFields, SearchTypes
<1>5. Stale(j, source) <=> Stale(i, source)
  BY DEF Stale
<1>6. ASSUME PastOK(i, ids, lookup, source)
      PROVE  PastOK(j, ids', lookup', source)
  <2>1. ASSUME NEW k \in Keys PROVE j.cursors[k].rev <= lookup'[k].rev
    <3>1. i.cursors[k].rev <= lookup[k].rev
      BY <1>6 DEF PastOK
    <3>2. lookup'[k].rev = lookup[k].rev + 1 \/ lookup'[k].rev = lookup[k].rev
      BY <1>1
    <3> QED BY <3>1, <3>2, <1>2
  <2> QED BY <2>1, <1>1, <1>6 DEF PastOK
<1>7. ASSUME PastOK(i, ids, lookup, source), NEW k \in Keys, CursorOK(i, k, ids, lookup)
      PROVE  CursorOK(j, k, ids', lookup')
  <2>1. CASE k \in BucketsOf(ids[a])
    <3>1. i.cursors[k].rev <= lookup[k].rev
      BY <1>7 DEF PastOK
    <3>2. lookup'[k].rev = lookup[k].rev + 1
      BY <2>1, <1>1
    <3>3. j.cursors[k].rev # lookup'[k].rev
      BY <3>1, <3>2, <1>2
    <3> QED BY <3>3 DEF CursorOK
  <2>2. CASE k \notin BucketsOf(ids[a])
    <3>1. lookup'[k] = lookup[k] /\ a \notin Elements(lookup[k].list)
      BY <2>2, <1>1
    <3> SUFFICES ASSUME i.cursors[k].rev = lookup[k].rev
                 PROVE  /\ i.cursors[k].index <= Len(lookup[k].list)
                        /\ \A n \in 1 .. i.cursors[k].index :
                             Good(i.query, ids[lookup[k].list[n]]) => lookup[k].list[n] \in j.result
      BY <3>1, <1>1 DEF CursorOK
    <3>2. /\ i.cursors[k].index <= Len(lookup[k].list)
          /\ \A n \in 1 .. i.cursors[k].index :
               Good(i.query, ids[lookup[k].list[n]]) => lookup[k].list[n] \in i.result
      BY <1>7 DEF CursorOK
    <3>3. ASSUME NEW n \in 1 .. i.cursors[k].index PROVE lookup[k].list[n] # a
      <4>1. n \in 1 .. Len(lookup[k].list)
        BY <3>2, <1>2
      <4> QED BY <4>1, <3>1, <1>2, ElementsOf
    <3> QED BY <3>2, <3>3
  <2> QED BY <2>1, <2>2
<1>8. ASSUME PastOK(i, ids, lookup, source), CompleteOK(i, ids, lookup, source)
      PROVE  CompleteOK(j, ids', lookup', source)
  <2> SUFFICES ASSUME i.query # Void, ~Stale(i, source)
               PROVE  /\ i.last = Len(ids) => FreshIn(i.query, ids', lookup', source) \subseteq j.result
                      /\ Policy(i.query) = "Immediate" =>
                           FreshIn(i.query, ids', lookup', source) \subseteq j.result
                      /\ i.query.src \subseteq source.ids =>
                           \A k \in SearchKeys(i.query) : CursorOK(j, k, ids', lookup')
    BY <1>1, <1>5 DEF CompleteOK
  <2>1. /\ i.last = Len(ids) => FreshIn(i.query, ids, lookup, source) \subseteq i.result
        /\ Policy(i.query) = "Immediate" => FreshIn(i.query, ids, lookup, source) \subseteq i.result
        /\ i.query.src \subseteq source.ids =>
             \A k \in SearchKeys(i.query) : CursorOK(i, k, ids, lookup)
    BY <1>8 DEF CompleteOK
  <2>2. i.query.src \subseteq source.ids =>
          \A k \in SearchKeys(i.query) : CursorOK(j, k, ids', lookup')
    BY <2>1, <1>4, <1>7, <1>8
  <2> QED BY <2>1, <2>2, <1>3
<1>9. SoundOK(i, ids, lookup, source) => SoundOK(j, ids', lookup', source)
  BY <1>3, <1>5 DEF SoundOK
<1> QED BY <1>6, <1>8, <1>9

(* del_empty_archetype() and a slot.                                       *)
LEMMA DeleteCaches ==
  ASSUME IInv, NEW a, DeleteArchetype(a), NEW s \in SlotsOfCache
  PROVE  SlotOK(s)' /\ (SlotSound(s) => SlotSound(s)')
<1> DEFINE i == infos[s]
           held == TrackedBy(<<s, gen[s]>>)
<1>1. BaseInv /\ Typed /\ BucketInv /\ SlotOK(s) /\ i \in InfoSet
  BY Slots DEF IInv, BaseInv, Typed
<1>2. /\ source' = source /\ gen' = gen
      /\ infos'[s] = IF a \in held THEN Removed(i, a) ELSE i
      /\ tracked' = {p \in tracked : p[1] # a}
  BY <1>1, DeleteIs
<1>3. PICK j : j = infos'[s]
  OBVIOUS
<1>4. TrackedBy(<<s, gen[s]>>)' = held \ {a}
  <2>1. TrackedBy(<<s, gen[s]>>)' = {b \in Archetypes : <<b, <<s, gen[s]>>>> \in tracked'}
    BY <1>2 DEF TrackedBy, Archetypes
  <2> QED BY <2>1, <1>2 DEF TrackedBy
<1>5. IndexOK(i, held) /\ PastOK(i, ids, lookup, source) /\ CompleteOK(i, ids, lookup, source)
  BY <1>1 DEF SlotOK
<1>6. SlotSound(s) <=> SoundOK(i, ids, lookup, source)
  BY DEF SlotSound
<1> HIDE DEF i, held
<1>7. i.result \subseteq held
  BY <1>5 DEF IndexOK
<1>8. /\ j.query = i.query /\ j.last = i.last /\ j.dirty = i.dirty
      /\ j.cursors = i.cursors /\ j.snapshot = i.snapshot
      /\ j.result = i.result \ {a}
      /\ j.synced => i.synced
  <2>1. CASE a \in held
    <3>1. j = Removed(i, a)
      BY <2>1, <1>2, <1>3
    <3> QED BY <3>1, <1>1, RemovedFacts
  <2>2. CASE a \notin held
    BY <2>2, <1>2, <1>3, <1>7
  <2> QED BY <2>1, <2>2
<1>9. IndexOK(j, TrackedBy(<<s, gen[s]>>)')
  BY <1>4, <1>5, <1>8 DEF IndexOK
<1>10. /\ PastOK(j, ids', lookup', source) /\ CompleteOK(j, ids', lookup', source)
       /\ SoundOK(i, ids, lookup, source) => SoundOK(j, ids', lookup', source)
  BY <1>1, <1>5, <1>8, DeleteOK
<1> QED BY <1>2, <1>3, <1>6, <1>9, <1>10 DEF SlotOK, SlotSound

-----------------------------------------------------------------------------
(* The theorems of careful programs                                        *)

(* The program calls matches_any on queries that are up to date only.      *)
CarefulMatching == MatchAnyTime = FALSE

(* No query of the program has both OR and NOT terms.                      *)
OrApartFromNot == \A q \in Queries : q.or # <<>> => q.no = {}

(* One slot after any step.                                                *)
LEMMA SlotStep ==
  ASSUME IInv, CarefulMatching, [Next]_vars, NEW s \in SlotsOfCache
  PROVE  SlotOK(s)' /\ (OrApartFromNot /\ SlotSound(s) => SlotSound(s)')
<1> DEFINE Done == SlotOK(s)' /\ (OrApartFromNot /\ SlotSound(s) => SlotSound(s)')
<1>1. ASSUME NEW u \in DOMAIN users, Fetch(u) PROVE Done
  BY <1>1, FetchCaches
<1>2. ASSUME NEW u \in DOMAIN users, MatchAll(u) PROVE Done
  BY <1>2, MatchAllCaches DEF OrApartFromNot
<1>3. ASSUME NEW u \in DOMAIN users, Reset(u) PROVE Done
  BY <1>3, ResetCaches
<1>4. ASSUME NEW u \in DOMAIN users, Destroy(u) PROVE Done
  BY <1>4, DestroyIs, LetGoCaches DEF IInv, BaseInv
<1>5. ASSUME NEW u \in DOMAIN users, Rebuild(u) PROVE Done
  BY <1>5, RebuildIs, LetGoCaches DEF IInv, BaseInv
<1>6. ASSUME NEW u \in DOMAIN users, NEW v \in DOMAIN users, Copy(u, v) PROVE Done
  BY <1>6, CopyIs, LetGoCaches DEF IInv, BaseInv
<1>7. ASSUME NEW u \in DOMAIN users, NEW a \in Archetypes, a \in Live, MatchOne(u, a) PROVE Done
  BY <1>7, MatchOneCaches DEF CarefulMatching
<1>8. ASSUME NEW S \in Builds, CreateArchetype(S) PROVE Done
  BY <1>8, CreateCaches
<1>9. ASSUME NEW a \in Archetypes, DeleteArchetype(a) PROVE Done
  BY <1>9, DeleteCaches
<1>10. ASSUME NEW t \in Terms, Invalidate(t) PROVE Done
  BY <1>10, InvalidateCaches
<1>11. ASSUME NEW S \in SUBSET SourceIds, MoveSource(S) PROVE Done
  BY <1>11, MoveSourceCaches
<1>12. ASSUME UNCHANGED vars PROVE Done
  <2>1. ids' = ids /\ lookup' = lookup /\ source' = source /\ infos' = infos /\ gen' = gen
        /\ tracked' = tracked
    BY <1>12 DEF vars
  <2>2. TrackedBy(<<s, gen[s]>>)' = TrackedBy(<<s, gen[s]>>)
    BY <2>1, OtherTracked
  <2>3. SlotOK(s)
    BY Slots DEF IInv
  <2> QED BY <2>1, <2>2, <2>3, SlotKept
<1> HIDE DEF Done
<1>13. Done
  BY <1>1, <1>2, <1>3, <1>4, <1>5, <1>6, <1>7, <1>8, <1>9, <1>10, <1>11, <1>12 DEF Next
<1> QED BY <1>13 DEF Done

(* The invariant is kept by every step of a careful program.               *)
LEMMA InvStep ==
  ASSUME IInv, CarefulMatching, [Next]_vars
  PROVE  IInv' /\ (OrApartFromNot /\ SoundInv => SoundInv')
<1>1. BaseInv'
  BY BaseStep DEF IInv
<1>2. \A s \in SlotsOfCache : SlotOK(s)'
  BY SlotStep
<1>3. CacheInv'
  BY <1>2 DEF CacheInv, IndexInv, PastInv, CompleteInv, SlotOK
<1>4. ASSUME OrApartFromNot, SoundInv PROVE SoundInv'
  <2>1. \A s \in SlotsOfCache : SlotSound(s)'
    BY <1>4, SlotStep, Slots
  <2> QED BY <2>1 DEF SoundInv, SlotSound
<1> QED BY <1>1, <1>3, <1>4 DEF IInv

(* It holds at first.                                                      *)
LEMMA InitCaches ==
  ASSUME Init
  PROVE  IInv /\ SoundInv
<1>1. BaseInv /\ Typed
  BY InitBase DEF BaseInv
<1>2. ASSUME NEW s \in SlotsOfCache PROVE SlotOK(s) /\ SlotSound(s)
  <2>1. infos[s] = Free
    BY DEF Init
  <2>2. /\ PastOK(infos[s], ids, lookup, source)
        /\ CompleteOK(infos[s], ids, lookup, source)
        /\ SoundOK(infos[s], ids, lookup, source)
    BY <2>1, <1>1, FreeFacts, EmptyOK
  <2>3. IndexOK(infos[s], TrackedBy(<<s, gen[s]>>))
    BY <2>1, FreeFacts DEF IndexOK
  <2> QED BY <2>2, <2>3 DEF SlotOK, SlotSound
<1> QED BY <1>1, <1>2, Slots DEF IInv

(* The invariant holds always.                                             *)
LEMMA Invariant ==
  ASSUME CarefulMatching
  PROVE  Spec => []IInv
<1>1. Init => IInv
  BY InitCaches
<1>2. IInv /\ [Next]_vars => IInv'
  BY InvStep
<1> QED BY <1>1, <1>2, PTL DEF Spec

(* And with it what a match does not find too much.                        *)
LEMMA SoundInvariant ==
  ASSUME CarefulMatching, OrApartFromNot
  PROVE  Spec => [](IInv /\ SoundInv)
<1>1. Init => IInv /\ SoundInv
  BY InitCaches
<1>2. (IInv /\ SoundInv) /\ [Next]_vars => (IInv /\ SoundInv)'
  BY InvStep
<1> QED BY <1>1, <1>2, PTL DEF Spec

(* NoDeadArchetype: no cached query keeps an archetype that was destroyed  *)
(* (remove_archetype_from_queries before unreg_archetype).                 *)
THEOREM DeadAreForgotten ==
  ASSUME CarefulMatching
  PROVE  Spec => []NoDeadArchetype
<1>1. IInv => NoDeadArchetype
  BY LiveIsIn DEF IInv, CacheInv, PastInv, PastOK, NoDeadArchetype
<1> QED BY <1>1, Invariant, PTL

(* IndexesAgree: every index of the cache, the archetypes tracked for each *)
(* query and the references counted agree with the queries in use.         *)
THEOREM IndexesAreTrue ==
  ASSUME CarefulMatching
  PROVE  Spec => []IndexesAgree
<1>1. ASSUME IInv PROVE IndexesAgree
  <2>1. Typed /\ HandleInv /\ StaleInv /\ ShapeInv /\ IndexInv
    BY <1>1 DEF IInv, BaseInv, CacheInv
  <2>2. ASSUME NEW s \in SlotsOfCache
        PROVE  /\ infos[s].result \subseteq TrackedBy(<<s, gen[s]>>)
               /\ infos[s].synced => infos[s].result = TrackedBy(<<s, gen[s]>>)
               /\ infos[s].refs = Cardinality(
                    {u \in DOMAIN users : users[u].handle = <<s, gen[s]>> /\ ~users[u].destroyed})
    BY <2>1 DEF IndexInv, IndexOK, HandleInv, HoldersOf
  <2>3. \A u \in DOMAIN users :
          users[u].handle # None /\ ~users[u].destroyed => Valid(users[u].handle)
    BY <2>1, HolderValid
  <2> QED BY <2>1, <2>2, <2>3 DEF IndexesAgree, StaleInv, ShapeInv
<1> QED BY <1>1, Invariant, PTL

(* Whatever cursors, revisions and snapshots a match goes by, it misses no *)
(* archetype that matches; and an immediate query that needs no refresh    *)
(* has them all before it is matched.                                      *)
NothingMissed ==
  \A s \in SlotsOfCache :
    /\ Fresh(infos[s].query) \subseteq Matched(infos[s]).result
    /\ Policy(infos[s].query) = "Immediate" /\ ~infos[s].dirty =>
         Fresh(infos[s].query) \subseteq infos[s].result

(* The records miss nothing.                                               *)
LEMMA InvComplete ==
  ASSUME IInv
  PROVE  NothingMissed
<1> SUFFICES ASSUME NEW s \in SlotsOfCache
             PROVE  /\ Fresh(infos[s].query) \subseteq Matched(infos[s]).result
                    /\ Policy(infos[s].query) = "Immediate" /\ ~infos[s].dirty =>
                         Fresh(infos[s].query) \subseteq infos[s].result
  BY DEF NothingMissed
<1>1. /\ Typed /\ BucketInv /\ infos[s] \in InfoSet
      /\ CompleteOK(infos[s], ids, lookup, source)
  BY DEF IInv, BaseInv, CacheInv, CompleteInv, Typed
<1>2. Fresh(infos[s].query) = FreshIn(infos[s].query, ids, lookup, source)
  BY FreshIsIn
<1>3. FreshIn(infos[s].query, ids, lookup, source) \subseteq Matched(infos[s]).result
  BY <1>1, MatchedComplete
<1>4. Policy(infos[s].query) = "Immediate" /\ ~infos[s].dirty => ~Stale(infos[s], source)
  BY DEF Stale
<1>5. Policy(infos[s].query) = "Immediate" => infos[s].query # Void
  BY Constants
<1>6. Policy(infos[s].query) = "Immediate" /\ ~infos[s].dirty =>
        FreshIn(infos[s].query, ids, lookup, source) \subseteq infos[s].result
  BY <1>1, <1>4, <1>5 DEF CompleteOK
<1> QED BY <1>2, <1>3, <1>6

(* NothingMissed needs no care with OR and NOT terms.                      *)
THEOREM MatchMissesNothing ==
  ASSUME CarefulMatching
  PROVE  Spec => []NothingMissed
<1>1. IInv => NothingMissed
  BY InvComplete
<1> QED BY <1>1, Invariant, PTL

(* MatchIsFresh: a match gives what matching from scratch would give.      *)
THEOREM MatchGivesFresh ==
  ASSUME CarefulMatching, OrApartFromNot
  PROVE  Spec => []MatchIsFresh
<1>1. ASSUME IInv, SoundInv PROVE MatchIsFresh
  <2> SUFFICES ASSUME NEW s \in SlotsOfCache
               PROVE  /\ Matched(infos[s]).result = Fresh(infos[s].query)
                      /\ Policy(infos[s].query) = "Immediate" /\ ~infos[s].dirty =>
                           infos[s].result = Fresh(infos[s].query)
    BY DEF MatchIsFresh
  <2>1. /\ Typed /\ BucketInv /\ infos[s] \in InfoSet
        /\ PastOK(infos[s], ids, lookup, source) /\ SoundOK(infos[s], ids, lookup, source)
    BY <1>1 DEF IInv, BaseInv, CacheInv, PastInv, SoundInv, Typed
  <2>2. NothingMissed
    BY <1>1, InvComplete
  <2>3. Fresh(infos[s].query) = FreshIn(infos[s].query, ids, lookup, source)
    BY FreshIsIn
  <2>4. infos[s].query.or # <<>> => infos[s].query.no = {}
    <3>1. infos[s].query \in Queries \cup {Void}
      BY <2>1, InfoFields
    <3> QED BY <3>1, Constants DEF OrApartFromNot
  <2>5. Matched(infos[s]).result \subseteq FreshIn(infos[s].query, ids, lookup, source)
    BY <2>1, <2>4, MatchedSound
  <2>6. Policy(infos[s].query) = "Immediate" /\ ~infos[s].dirty => ~Stale(infos[s], source)
    BY DEF Stale
  <2>7. Policy(infos[s].query) = "Immediate" /\ ~infos[s].dirty =>
          infos[s].result \subseteq FreshIn(infos[s].query, ids, lookup, source)
    BY <2>1, <2>6 DEF SoundOK
  <2> QED BY <2>2, <2>3, <2>5, <2>7 DEF NothingMissed
<1> QED BY <1>1, SoundInvariant, PTL
=============================================================================

----------------------------- MODULE QueryCache -----------------------------
(***************************************************************************)
(* The query cache of an ecs::World: the QueryInfo records shared by query *)
(* objects, the archetypes each of them has matched, and the indexes that  *)
(* keep those matches true while archetypes come and go.                   *)
(*                                                                         *)
(* A cached query is matched incrementally: the virtual machine resumes    *)
(* each lookup bucket at a cursor, which a revision of the bucket voids.   *)
(* New archetypes are also pushed into "immediate" queries when they are   *)
(* created, through the selector the query registered; dead ones are       *)
(* removed through the index of the queries that hold them.                *)
(*                                                                         *)
(* An archetype is its number (m_nextArchetypeId) and a set of ids.  The   *)
(* two layers of a cache, seed and result, hold the same archetypes for    *)
(* the queries modelled and are one set; order, groups, sort data and      *)
(* per-chunk payload are left out, and so are variables, traversal and     *)
(* inheritance (Is), which reaches the cache as Invalidate.                *)
(***************************************************************************)
EXTENDS Integers, Sequences, FiniteSets, Functions

CONSTANTS
  Ids,           \* components, tags and pairs archetypes are made of
  Wildcards,     \* wildcard pairs, which have lookup buckets of their own
  Covers,        \* the ids a wildcard stands for
  Kind,          \* CreateSelectorKind of an id or wildcard
  Builds,        \* the sets of ids archetypes are created with
  Queries,       \* [all, or: sequences; no, src: sets; any, shared: flags]
  Users,         \* query objects of the program
  Programs,      \* what queries the program gives its objects
  SlotsOfCache,  \* slots of m_queryArr
  MatchAnyTime,  \* TRUE: the program calls matches_any on stale queries too
  MaxArchetypes, \* bound: archetypes created
  MaxCommits,    \* bound: QueryInfo records allocated
  MaxMoves       \* bound: archetype changes of the source entity

AnyKey == "all"            \* EntityBadLookupKey: the list of all archetypes
None == <<0, 0>>           \* QueryHandle{}
Kinds == {"Other", "ExactPair", "RelWildcardPair", "TgtWildcardPair",
          "AnyPairWildcard"}
Terms == Ids \cup Wildcards
Keys == Terms \cup {AnyKey}
Elements(s) == {s[i] : i \in DOMAIN s}

\* What is left of a query that was destroyed and is used again.
Void == [all |-> <<>>, or |-> <<>>, no |-> {}, src |-> {}, any |-> FALSE,
         shared |-> FALSE]

\* Every query has a term that is not optional: without one nothing matches.
ASSUME QueryAssumption ==
  /\ Ids \cap Wildcards = {} /\ AnyKey \notin Terms
  /\ Covers \in [Wildcards -> SUBSET Ids]
  /\ Kind \in [Terms -> Kinds]
  /\ Builds \subseteq SUBSET Ids
  /\ \A q \in Queries :
       /\ q.all \in Seq(Terms) /\ q.or \in Seq(Terms)
       /\ q.no \subseteq Terms /\ q.src \subseteq Terms
       /\ q.all # <<>> \/ q.or # <<>> \/ q.no # {}
       /\ q.src # {} => q.all # <<>>
       /\ q.any \in BOOLEAN /\ q.shared \in BOOLEAN
  /\ IsFiniteSet(Users)
  /\ \A p \in Programs : DOMAIN p \subseteq Users /\ Elements(p) \subseteq Queries
  /\ SlotsOfCache \subseteq Nat \ {0} /\ IsFiniteSet(SlotsOfCache)
  /\ MatchAnyTime \in BOOLEAN
  /\ MaxArchetypes \in Nat /\ MaxCommits \in Nat /\ MaxMoves \in Nat

VARIABLES
  ids,         \* ids of every archetype created so far
  lookup,      \* m_entityToArchetypeMap, m_archetypes and their revisions
  source,      \* ids and archetype version of the entity of src terms
  users,       \* the query objects
  gen,         \* generations of the slots
  infos,       \* the QueryInfo records, refs = 0 in a free slot
  byShape,     \* m_pCache: shared queries and their handles
  byId,        \* m_entityToQuery
  bySelector,  \* m_entityToCreateQuery
  selectors,   \* m_createQuerySelectorCnt
  tracked      \* m_archetypeToQuery and its inverse m_queryToArchetype

vars == <<ids, lookup, source, users, gen, infos, byShape, byId, bySelector,
          selectors, tracked>>
world == <<ids, lookup, source>>
routes == <<byShape, byId, bySelector, selectors>>

-----------------------------------------------------------------------------
(* The world. *)

Archetypes == 1 .. MaxArchetypes
Live == Elements(lookup[AnyKey].list)
LastId == Len(ids)

Has(a, t) ==
  IF t \in Ids THEN t \in ids[a] ELSE ids[a] \cap Covers[t] # {}

\* The buckets an archetype with these ids is recorded in.
BucketsOf(s) ==
  s \cup {w \in Wildcards : s \cap Covers[w] # {}} \cup {AnyKey}

\* What a query that has never been matched would match.
Matching(q, a) ==
  /\ \A t \in Elements(q.all) : Has(a, t)
  /\ q.or # <<>> => \E t \in Elements(q.or) : Has(a, t)
  /\ \A t \in q.no : ~Has(a, t)
Fresh(q) ==
  IF q = Void \/ ~(q.src \subseteq source.ids) THEN {}
  ELSE {a \in Live : Matching(q, a)}

-----------------------------------------------------------------------------
(* QueryInfo. *)

Policy(q) ==
  IF q.src # {} THEN "Dynamic"
  ELSE IF q.all # <<>> \/ q.or # <<>> THEN "Immediate" ELSE "Lazy"

NoCursors == [k \in Keys |-> [index |-> 0, rev |-> 0]]

\* dirty: needs_refresh().  Every invalidation modelled leads to a reset by
\* the next match.  synced: m_queryToArchetype has this query with the
\* current resultCacheRevision.
Unmatched(q) ==
  [query |-> q, refs |-> 1, result |-> {}, last |-> 0, dirty |-> TRUE,
   cursors |-> NoCursors, snapshot |-> 0, synced |-> FALSE]
Free == [Unmatched(Void) EXCEPT !.refs = 0]

\* reset_matching_cache(true)
Cleared(i) ==
  [i EXCEPT !.synced = @ /\ i.result = {}, !.result = {}, !.last = 0,
            !.cursors = NoCursors, !.snapshot = 0, !.dirty = TRUE]

\* Variant: the cursor is trusted whatever happened to the bucket.
UnseenUnchecked(i, k) ==
  LET b == lookup[k] IN {b.list[n] : n \in i.cursors[k].index + 1 .. Len(b.list)}

\* Archetypes of a bucket the query has not looked at yet.
Unseen(i, k) ==
  LET b == lookup[k]
      from == IF i.cursors[k].rev = b.rev THEN i.cursors[k].index ELSE 0
  IN {b.list[n] : n \in from + 1 .. Len(b.list)}

\* exec_not_impl: a pass that found nothing yet is taken for one that has
\* only NOT terms.
ScansAll(q, found) == q.no # {} /\ found = {}
NotPass(i, found) ==
  {a \in IF ScansAll(i.query, found) THEN Unseen(i, AnyKey) ELSE found :
     \A t \in i.query.no : ~Has(a, t)}

\* exec_all_impl: seeds from the bucket of the first term and quits when
\* nothing in it matches.
AllPass(i) ==
  {a \in Unseen(i, Head(i.query.all)) : \A t \in Elements(i.query.all) : Has(a, t)}

\* exec_or_withall_impl filters what ALL found, exec_or_noall_impl searches.
OrPass(i) ==
  LET q == i.query IN
  IF q.all = <<>> THEN UNION {Unseen(i, t) : t \in Elements(q.or)}
  ELSE IF q.or = <<>> THEN AllPass(i)
  ELSE {a \in AllPass(i) : \E t \in Elements(q.or) : Has(a, t)}

Quits(i) ==
  \/ ~(i.query.src \subseteq source.ids)
  \/ i.query.all # <<>> /\ AllPass(i) = {}

\* VirtualMachine::exec over the lookup buckets: what it finds ...
Found(i) == IF Quits(i) THEN {} ELSE NotPass(i, OrPass(i))

\* ... and the buckets whose cursor it moves to their end.
Searched(i) ==
  LET q == i.query
      positive == IF q.all # <<>> THEN {Head(q.all)} ELSE Elements(q.or)
  IN IF ~(q.src \subseteq source.ids) THEN {}
     ELSE {k \in positive : lookup[k].list # <<>>}
            \cup IF ~Quits(i) /\ ScansAll(q, OrPass(i)) THEN {AnyKey} ELSE {}

\* Variant: matches found later are not counted as a change of membership.
MergedUncounted(i, found) ==
  [i EXCEPT !.result = @ \cup found, !.snapshot = source.version, !.dirty = FALSE]

\* The found archetypes join the caches and the inputs are remembered.
Merged(i, found) ==
  [i EXCEPT !.result = @ \cup found,
            !.snapshot = source.version,
            !.synced = @ /\ found \subseteq i.result,
            !.dirty = FALSE]

\* The caches are cleared before a match when inputs changed or an
\* invalidation came.
MustReset(i) ==
  i.dirty \/ (Policy(i.query) = "Dynamic" /\ i.snapshot # source.version)

\* QueryInfo::match.  A dynamic query that finds what it held before keeps
\* its revision.
Matched(i) ==
  LET base == IF MustReset(i) THEN Cleared(i) ELSE i
      next == [Merged(base, Found(base)) EXCEPT
                 !.last = LastId,
                 !.cursors = [k \in Keys |->
                    IF k \in Searched(base)
                      THEN [index |-> Len(lookup[k].list), rev |-> lookup[k].rev]
                      ELSE base.cursors[k]]]
  IN IF i.query = Void \/ (~MustReset(i) /\ i.last = LastId) THEN i
     ELSE IF Policy(i.query) = "Dynamic" /\ i.result # {} /\ next.result = i.result
       THEN [next EXCEPT !.synced = i.synced]
     ELSE next

\* QueryInfo::match_one
MatchedOne(i, a) ==
  LET base == IF MustReset(i) THEN Cleared(i) ELSE i
      hit == i.query.src \subseteq source.ids /\ Matching(i.query, a)
  IN IF i.query = Void THEN i ELSE Merged(base, IF hit THEN {a} ELSE {})

-----------------------------------------------------------------------------
(* Handles. *)

Valid(h) == h # None /\ gen[h[1]] = h[2] /\ infos[h[1]].refs > 0
TrackedBy(h) == {a \in Archetypes : <<a, h>> \in tracked}
NewObject(q) ==
  [def |-> q, authored |-> TRUE, handle |-> None, destroyed |-> FALSE]

\* try_del_from_cache and QueryCache::del: user u gives its reference back,
\* unless it was destroyed before, and the last reference takes the query out
\* of every index.  newUsers is what becomes of the objects, gained a handle
\* that one of them takes a reference on afterwards.
LetGo(u, newUsers, gained) ==
  LET h == users[u].handle
      drops == ~users[u].destroyed /\ Valid(h)
      i == infos[h[1]]
      dead == drops /\ i.refs = 1
      mine == {p \in bySelector : p[2] = h}
      Refs(s) == infos[s].refs - (IF drops /\ s = h[1] THEN 1 ELSE 0)
                              + (IF gained # None /\ s = gained[1] THEN 1 ELSE 0)
  IN /\ users' = newUsers
     /\ infos' = [s \in SlotsOfCache |->
                    IF dead /\ s = h[1] THEN Free
                    ELSE [infos[s] EXCEPT !.refs = Refs(s)]]
     /\ IF dead
          THEN /\ gen' = [gen EXCEPT ![h[1]] = @ + 1]
               /\ tracked' = {p \in tracked : p[2] # h}
               /\ byShape' = {p \in byShape : ~(i.query.shared /\ p[1] = i.query)}
               /\ byId' = {p \in byId : p[2] # h}
               /\ bySelector' = bySelector \ mine
               /\ selectors' = [k \in Kinds |->
                    selectors[k] - Cardinality({p \in mine : Kind[p[1]] = k})]
          ELSE UNCHANGED <<gen, tracked, routes>>
     /\ UNCHANGED world

\* Query::destroy: the object keeps its handle.
Destroy(u) ==
  LetGo(u, [users EXCEPT ![u].destroyed = TRUE], None)

\* The program builds the query of the object again: q = w.query()...
Rebuild(u) ==
  LetGo(u, [users EXCEPT ![u] = NewObject(users[u].def)], None)

\* Variant: the copy takes no reference.
CopyUncounted(u, v) ==
  /\ u # v
  /\ users[v].handle # None
  /\ LetGo(u, [users EXCEPT ![u] = users[v]], None)

\* q = other, for a query that was committed: copying one that was not lets
\* both share the recorded terms, which the first to run consumes.
Copy(u, v) ==
  /\ u # v
  /\ users[v].handle # None
  /\ LetGo(u, [users EXCEPT ![u] = users[v]],
           IF ~users[v].destroyed /\ Valid(users[v].handle)
             THEN users[v].handle ELSE None)

-----------------------------------------------------------------------------
(* Committing a query. *)

\* QueryCtx::refresh: a required term with the fewest archetypes, the most
\* specific one of those, wakes an immediate query; without required terms
\* every OR term does.
Rank(t) ==
  CASE Kind[t] = "ExactPair" -> 0
    [] Kind[t] = "Other" -> 2
    [] Kind[t] = "AnyPairWildcard" -> 3
    [] OTHER -> 1
Before(q, m, n) ==
  LET Weight(t) == 4 * Len(lookup[t].list) + Rank(t)
  IN \/ Weight(q.all[m]) < Weight(q.all[n])
     \/ Weight(q.all[m]) = Weight(q.all[n]) /\ m <= n
SelectorsOf(q) ==
  IF Policy(q) # "Immediate" THEN {}
  ELSE IF q.all = <<>> THEN Elements(q.or)
  ELSE {q.all[CHOOSE m \in DOMAIN q.all : \A n \in DOMAIN q.all : Before(q, m, n)]}

FreeSlots == {s \in SlotsOfCache : infos[s].refs = 0}
Commits == FoldFunction(+, 0, gen) + Cardinality(SlotsOfCache \ FreeSlots)

\* Query::fetch without a record: the terms the program recorded are read,
\* once, and the query joins the shared record of its shape or gets a new one.
Fetch(u) ==
  LET q == IF users[u].authored THEN users[u].def ELSE Void
      Bind(h) == users' = [users EXCEPT ![u].handle = h, ![u].destroyed = FALSE,
                                        ![u].authored = FALSE]
      known == {p \in byShape : q.shared /\ p[1] = q}
  IN /\ ~Valid(users[u].handle)
     /\ \/ \E p \in known :
             /\ Bind(p[2])
             /\ infos' = [infos EXCEPT ![p[2][1]].refs = @ + 1]
             /\ UNCHANGED <<gen, routes>>
        \/ /\ known = {}
           /\ \E s \in SlotsOfCache :
                LET h == <<s, gen[s]>>
                    sel == SelectorsOf(q)
                    terms == Elements(q.all) \cup Elements(q.or) \cup q.no \cup q.src
                IN /\ s \in FreeSlots /\ \A r \in FreeSlots : s <= r
                   /\ Commits < MaxCommits
                   /\ Bind(h)
                   /\ infos' = [infos EXCEPT ![s] = Unmatched(q)]
                   /\ byShape' = byShape \cup (IF q.shared THEN {<<q, h>>} ELSE {})
                   /\ byId' = byId \cup (terms \X {h})
                   /\ bySelector' = bySelector \cup (sel \X {h})
                   /\ selectors' = [k \in Kinds |->
                        selectors[k] + Cardinality({t \in sel : Kind[t] = k})]
                   /\ UNCHANGED gen
     /\ UNCHANGED <<world, tracked>>

-----------------------------------------------------------------------------
(* Using a query. *)

\* sync_archetype_cache: the index is rebuilt unless the membership is the
\* one it was built from.
Synced(i) == [i EXCEPT !.synced = i.result # {}]

\* Query::match_all, which every read of a cached query starts with.
MatchAll(u) ==
  LET h == users[u].handle
      next == Matched(infos[h[1]])
  IN /\ Valid(h)
     /\ infos' = [infos EXCEPT ![h[1]] = IF next.synced THEN next ELSE Synced(next)]
     /\ tracked' = IF next.synced THEN tracked
                   ELSE {p \in tracked : p[2] # h} \cup (next.result \X {h})
     /\ UNCHANGED <<world, users, gen, routes>>

\* Query::matches_any on an archetype, for a query that cannot be evaluated
\* on the target entities directly: nothing tells the index.
MatchOne(u, a) ==
  LET h == users[u].handle IN
  /\ Valid(h)
  /\ infos[h[1]].query.any \/ infos[h[1]].query.src # {}
  /\ MatchAnyTime \/ (infos[h[1]].last = LastId /\ ~MustReset(infos[h[1]]))
  /\ infos' = [infos EXCEPT ![h[1]] = MatchedOne(@, a)]
  /\ UNCHANGED <<world, users, gen, routes, tracked>>

\* Query::reset
Reset(u) ==
  LET h == users[u].handle IN
  /\ Valid(h)
  /\ infos' = [infos EXCEPT ![h[1]] = Cleared(@)]
  /\ UNCHANGED <<world, users, gen, routes, tracked>>

-----------------------------------------------------------------------------
(* Changes of the world. *)

\* The queries woken by the ids of a new archetype: exact selectors of pairs
\* and each kind of wildcard are looked up only while some query uses them.
Candidates(s) ==
  {p[2] : p \in {p \in bySelector :
     /\ p[1] \in BucketsOf(s)
     /\ Kind[p[1]] # "Other" => selectors[Kind[p[1]]] > 0}}

\* QueryInfo::register_archetype: only a query that is up to date is extended.
Takes(i, s) ==
  /\ Policy(i.query) = "Immediate" /\ ~i.dirty
  /\ Elements(i.query.all) \subseteq BucketsOf(s)
  /\ i.query.or # <<>> => Elements(i.query.or) \cap BucketsOf(s) # {}
  /\ i.query.no \cap BucketsOf(s) = {}

\* Both the caches and the index get the archetype.
Extended(i, a) == [i EXCEPT !.result = @ \cup {a}, !.synced = TRUE]

\* create_archetype and reg_archetype, register_archetype_with_queries included
CreateArchetype(s) ==
  LET a == LastId + 1
      takers == {h \in Candidates(s) : Valid(h) /\ Takes(infos[h[1]], s)}
  IN /\ LastId < MaxArchetypes
     /\ \A b \in Live : ids[b] # s
     /\ ids' = Append(ids, s)
     /\ lookup' = [k \in Keys |-> IF k \in BucketsOf(s)
                     THEN [lookup[k] EXCEPT !.list = Append(@, a)] ELSE lookup[k]]
     /\ infos' = [c \in SlotsOfCache |->
                    IF \E h \in takers : h[1] = c
                      THEN Extended(infos[c], a) ELSE infos[c]]
     /\ tracked' = tracked \cup ({a} \X takers)
     /\ UNCHANGED <<source, users, gen, routes>>

\* Variant: the entry is cleared, not erased.
SwapCleared(list, a) ==
  [m \in 1 .. Len(list) |-> IF list[m] = a THEN 0 ELSE list[m]]

\* core::swap_erase: the last element takes the place of the erased one.
SwapErase(list, a) ==
  LET n == Len(list)
  IN [m \in 1 .. n - 1 |-> IF list[m] = a THEN list[n] ELSE list[m]]

\* QueryInfo::remove
Removed(i, a) ==
  [i EXCEPT !.result = @ \ {a}, !.synced = @ /\ a \notin i.result]

\* remove_archetype_from_queries, then del_empty_archetype: the archetype
\* leaves its buckets, whose order and revision change.
DeleteArchetype(a) ==
  LET holders == {p[2][1] : p \in {p \in tracked : p[1] = a /\ Valid(p[2])}}
  IN /\ a \in Live
     /\ infos' = [c \in SlotsOfCache |->
                    IF c \in holders THEN Removed(infos[c], a) ELSE infos[c]]
     /\ tracked' = {p \in tracked : p[1] # a}
     /\ lookup' = [k \in Keys |-> IF k \in BucketsOf(ids[a])
                     THEN [list |-> SwapErase(lookup[k].list, a), rev |-> lookup[k].rev + 1]
                     ELSE lookup[k]]
     /\ UNCHANGED <<ids, source, users, gen, routes>>

\* invalidate_queries_for_entity: what inheritance does to queries of t.
Invalidate(t) ==
  /\ \E p \in byId : p[1] = t
  /\ infos' = [c \in SlotsOfCache |->
                 [infos[c] EXCEPT !.dirty = @ \/ <<t, <<c, gen[c]>>>> \in byId]]
  /\ UNCHANGED <<world, users, gen, routes, tracked>>

\* The entity of src terms changes its archetype.
MoveSource(s) ==
  /\ s # source.ids
  /\ source.version < MaxMoves
  /\ source' = [ids |-> s, version |-> source.version + 1]
  /\ UNCHANGED <<ids, lookup, users, gen, infos, routes, tracked>>

-----------------------------------------------------------------------------
Init ==
  /\ ids = <<>>
  /\ lookup = [k \in Keys |-> [list |-> <<>>, rev |-> 0]]
  /\ source = [ids |-> {}, version |-> 1]
  /\ \E p \in Programs : users = [u \in DOMAIN p |-> NewObject(p[u])]
  /\ gen = [s \in SlotsOfCache |-> 0]
  /\ infos = [s \in SlotsOfCache |-> Free]
  /\ byShape = {} /\ byId = {} /\ bySelector = {}
  /\ selectors = [k \in Kinds |-> 0]
  /\ tracked = {}

SourceIds == UNION {users[u].def.src : u \in DOMAIN users}

Next ==
  \/ \E u \in DOMAIN users : Fetch(u) \/ MatchAll(u) \/ Reset(u) \/ Destroy(u) \/ Rebuild(u)
  \/ \E u, v \in DOMAIN users : Copy(u, v)
  \/ \E u \in DOMAIN users, a \in Archetypes : a \in Live /\ MatchOne(u, a)
  \/ \E s \in Builds : CreateArchetype(s)
  \/ \E a \in Archetypes : DeleteArchetype(a)
  \/ \E t \in Terms : Invalidate(t)
  \/ \E s \in SUBSET SourceIds : MoveSource(s)

Spec == Init /\ [][Next]_vars

-----------------------------------------------------------------------------
TypeOK ==
  /\ ids \in Seq(Builds) /\ Len(ids) <= MaxArchetypes
  /\ lookup \in [Keys -> [list: Seq(Archetypes), rev: Nat]]
  /\ source \in [ids: SUBSET Terms, version: Nat]
  /\ users \in [DOMAIN users -> [def: Queries \cup {Void}, authored: BOOLEAN,
                          handle: (SlotsOfCache \X Nat) \cup {None},
                          destroyed: BOOLEAN]]
  /\ gen \in [SlotsOfCache -> Nat]
  /\ \A s \in SlotsOfCache :
       /\ infos[s].refs \in 0 .. Cardinality(Users)
       /\ infos[s].result \subseteq Archetypes
  /\ selectors \in [Kinds -> Nat]
  /\ tracked \subseteq Archetypes \X (SlotsOfCache \X Nat)

\* No cached query keeps an archetype that was destroyed: its next use would
\* read freed memory (world.h:9243, unreg_archetype).
NoDeadArchetype ==
  \A s \in SlotsOfCache : infos[s].result \subseteq Live

\* The indexes agree with what they index.  Every archetype that a query holds
\* is found by del_empty_archetypes, and the reverse index is exact while the
\* revisions agree, which is what lets sync_archetype_cache skip its work.  The
\* indexes are read with unchecked handles (get): none outlives its query, and
\* what an object that was not destroyed refers to is never freed: the
\* reference counts are the objects that will give a reference back.  A shape
\* in shared scope has one record.
IndexesAgree ==
  /\ \A s \in SlotsOfCache :
       LET held == TrackedBy(<<s, gen[s]>>) IN
       /\ infos[s].result \subseteq held
       /\ infos[s].synced => infos[s].result = held
       /\ infos[s].refs = Cardinality(
            {u \in DOMAIN users : users[u].handle = <<s, gen[s]>> /\ ~users[u].destroyed})
  /\ LET NoStale(index) == \A p \in index : Valid(p[2])
     IN  NoStale(byShape) /\ NoStale(byId) /\ NoStale(bySelector) /\ NoStale(tracked)
  /\ \A u \in DOMAIN users :
       users[u].handle # None /\ ~users[u].destroyed => Valid(users[u].handle)
  /\ \A r, s \in SlotsOfCache :
       infos[r].refs > 0 /\ infos[s].refs > 0 /\ infos[r].query.shared
         /\ infos[r].query = infos[s].query => r = s

\* Whenever a query is matched, it gives what matching it from scratch would
\* give, whatever cursors, revisions and snapshots it goes by.  An immediate
\* one that needs no refresh has that before it is matched: whatever was
\* created or deleted since reached it.
MatchIsFresh ==
  \A s \in SlotsOfCache :
    LET i == infos[s] IN
    i.refs > 0 =>
      /\ Matched(i).result = Fresh(i.query)
      /\ Policy(i.query) = "Immediate" /\ ~i.dirty => i.result = Fresh(i.query)
=============================================================================

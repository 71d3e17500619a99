------------------------------ MODULE Observers ------------------------------
(***************************************************************************)
(* ecs::ObserverRegistry: who is told of the structural changes and writes *)
(* that the program makes, and when.                                       *)
(*                                                                         *)
(* The program keeps an index per listener, a query with three observers   *)
(* on it: OnAdd enters the entity it is told of with the value of its      *)
(* component, OnSet updates the value, OnDel takes the entity out.  A call *)
(* is a stack of stages, todo, because callbacks are ordinary code and     *)
(* call the world again.  Observers of exact terms are dispatched directly *)
(* while the change is made, by one list that all dispatches share; those  *)
(* with a wildcard or a source compare what matched before with what       *)
(* matches after.                                                          *)
(***************************************************************************)
EXTENDS Naturals, Sequences, SequencesExt, FiniteSets

CONSTANTS
  Entities,
  Spare,           \* entities that do not exist at first
  Data,            \* the component with a value
  Pairs,           \* pairs (R, target) of one relation
  TargetOf(_),     \* the target of a pair: an entity, or None for one that
                   \* is never deleted
  Wild,            \* the term (R, *)
  None,
  Listeners,
  QueryOf(_),      \* of a listener: [all: its terms, src: entities that must
                   \* have Data]
  Programs,        \* sets of listeners that a program uses
  MaxReactions,    \* calls that callbacks make during one call of the program
  CarefulReactions,\* they leave the entities alone that are being changed
  LoopReactions,   \* callbacks of directly dispatched observers make some, too
  DropDiff         \* the observers of a listener with a wildcard or a source
                   \* may be deleted though others are dispatched directly

Ids == {Data} \cup Pairs
Events == {"add", "del", "set"}
PairsTo(x) == {p \in Pairs : TargetOf(p) = x}
Queries == {QueryOf(l) : l \in Listeners}

ASSUME ObserverAssumption ==
  /\ IsFiniteSet(Entities) /\ None \notin Entities /\ Spare \subseteq Entities
  /\ Data \notin Pairs /\ Wild \notin Ids
  /\ \A p \in Pairs : TargetOf(p) \in Entities \cup {None}
  /\ \A l \in Listeners : QueryOf(l).all \subseteq Ids \cup {Wild}
                       /\ QueryOf(l).src \subseteq Entities
                       /\ QueryOf(l).all # {}
  /\ Programs \subseteq SUBSET Listeners
  /\ MaxReactions \in Nat
  /\ {CarefulReactions, LoopReactions, DropDiff} \subseteq BOOLEAN

VARIABLES
  life,       \* of an entity: unborn, alive or dead
  ids,        \* its components and pairs
  value,      \* the value of Data, 0 or 1
  formed,     \* pairs that have a record
  registered, \* listeners whose observers exist
  map,        \* m_observer_map_add, _del, _set: <<event, term, listener>>
  observed,   \* ids with the flag IsObserved
  relevant,   \* m_relevant_observers_tmp: its memory, pointers to observers
              \* <<listener, event>>, and its size
  todo,       \* stages of the calls in progress, the innermost first
  kept,       \* the index of a listener: the value it has for an entity
  reactions,  \* calls made by callbacks since the program's last call
  prog        \* the listeners that the program uses

world == <<life, ids, value, formed>>
registry == <<registered, map, observed>>
vars == <<world, registry, relevant, todo, kept, reactions, prog>>

-----------------------------------------------------------------------------
(* Queries.                                                                *)

Alive(x) == life[x] = "alive"
Has(x, t) == IF t = Wild THEN ids[x] \cap Pairs # {} ELSE t \in ids[x]

Matches(q, x) ==
  /\ Alive(x)
  /\ \A t \in q.all : Has(x, t)
  /\ \A s \in q.src : Alive(s) /\ Data \in ids[s]

Matching(q, among) == {x \in among : Matches(q, x)}

(* Terms that an observer of the query is registered for.                  *)
Terms(q) == q.all \cup IF q.src = {} THEN {} ELSE {Data}

(* requires_diff_dispatch *)
UsesDiff(q) == Wild \in q.all \/ q.src # {}

(* A single exact term is taken to match whenever it is added or removed.  *)
IsFast(q) == Cardinality(q.all) = 1

(* What the index should say of an entity that matches.                    *)
Noted(q, x) == IF Data \in q.all THEN value[x] ELSE 0

-----------------------------------------------------------------------------
(* Stages.                                                                 *)

Build(x, adds, dels) == [stage |-> "build", x |-> x, adds |-> adds, dels |-> dels]
Write(x) == [stage |-> "set", x |-> x]
Copy(x, y) == [stage |-> "copy", x |-> x, y |-> y]
Delete(x) == [stage |-> "delete", x |-> x]

Move(x, new) == [stage |-> "move", x |-> x, new |-> new]
Strip(x) == [stage |-> "strip", x |-> x]
Forget(x) == [stage |-> "forget", x |-> x]
Erase(x) == [stage |-> "erase", x |-> x]
Collect(event, terms, x, within, locked) ==
  [stage |-> "collect", event |-> event, terms |-> terms, x |-> x, within |-> within, locked |-> locked]
Loop(c, last) ==
  [stage |-> "loop", event |-> c.event, next |-> 1, last |-> last, x |-> c.x, locked |-> c.locked]
Tell(l, event, delta) == [stage |-> "tell", l |-> l, event |-> event, delta |-> delta]

(* DiffDispatcher::prepare: who hears of the change, among which entities  *)
(* their matches are compared, and what matches before it.  A change of an *)
(* entity's life, of a term with a source, or of an unknown target may     *)
(* concern every entity.  The mutant does not think of sources.            *)
Hears(l, terms) ==
  LET q == QueryOf(l) IN
  \/ Wild \in q.all /\ terms \cap Pairs # {}
  \/ q.src # {} /\ Data \in terms

ChangesNoSource(terms) == FALSE
ChangesSource(terms) == Data \in terms /\ \E l \in registered : QueryOf(l).src # {}

Context(event, left, among, before) ==
  [stage |-> "finish", event |-> event, left |-> left, among |-> among,
   before |-> before, after |-> [q \in {} |-> {}]]

Prepare(event, terms, targets) ==
  LET all == {l \in registered : UsesDiff(QueryOf(l))}
      left == IF terms = {} THEN all ELSE {l \in all : Hears(l, terms)}
      among == IF terms = {} \/ targets = {} \/ ChangesSource(terms)
               THEN Entities ELSE targets
  IN Context(event, left, among, [q \in Queries |-> Matching(q, among)])

(* prepare_add_new: a copy that does not exist yet matched nothing.        *)
PrepareNew(terms, y) ==
  IF terms = {} \/ ChangesSource(terms)
  THEN Prepare("add", terms, {})
  ELSE Context("add", {l \in registered : UsesDiff(QueryOf(l)) /\ Hears(l, terms)},
               {y}, [q \in Queries |-> {}])

Top == Head(todo)
Rest == Tail(todo)
At(stage) == todo # <<>> /\ Top.stage = stage
Active(context) == IF context.left = {} THEN <<>> ELSE <<context>>

-----------------------------------------------------------------------------
(* The shared list.  Clearing it leaves its memory as it is, readable for  *)
(* the loops around; the memory is forgotten when there are none.          *)

Stale == <<None, None>>
Looping(stages) == \E i \in DOMAIN stages : stages[i].stage = "loop"
Cleared(list) == [slots |-> IF Looping(todo) THEN list.slots ELSE <<>>, size |-> 0]
Pushed(list, observers) ==
  LET size == list.size + Cardinality(observers)
  IN [slots |-> SubSeq(list.slots, 1, list.size) \o SetToSeq(observers)
                \o SubSeq(list.slots, size + 1, Len(list.slots)),
      size |-> size]

(* prepare and prepare_add_new put the diff observers that hear of the     *)
(* change on the list and leave them there, unless there are none at all.  *)
SomeDiff == \E l \in registered : UsesDiff(QueryOf(l))
Listed(list, context) ==
  IF SomeDiff THEN Pushed(Cleared(list), {<<l, context.event>> : l \in context.left}) ELSE list

(* Observers live in a flat hash map: whenever one is made or deleted, the *)
(* others may move.                                                        *)
Moved(list) == [list EXCEPT !.slots = [i \in DOMAIN @ |-> Stale]]

-----------------------------------------------------------------------------
Init ==
  /\ life = [x \in Entities |-> IF x \in Spare THEN "unborn" ELSE "alive"]
  /\ ids = [x \in Entities |-> {}]
  /\ value = [x \in Entities |-> 0]
  /\ formed = {}
  /\ registered = {}
  /\ map = {}
  /\ observed = {}
  /\ relevant = [slots |-> <<>>, size |-> 0]
  /\ todo = <<>>
  /\ kept = [l \in Listeners |-> [x \in Entities |-> None]]
  /\ reactions = 0
  /\ prog \in Programs

-----------------------------------------------------------------------------
(* What the program, or a callback, may call.                              *)

(* An entity, or one that World::del is taking apart, is no new target.    *)
Usable(p) ==
  TargetOf(p) # None =>
    /\ Alive(TargetOf(p))
    /\ \A i \in DOMAIN todo : todo[i].stage \in {"strip", "forget", "erase"} =>
         todo[i].x # TargetOf(p)

Builds(x) ==
  {Build(x, adds, dels) : adds \in SUBSET {i \in Ids \ ids[x] : i \in Pairs => Usable(i) /\ TargetOf(i) # x},
                          dels \in SUBSET ids[x]}
  \ {Build(x, {}, {})}

(* A value that no listener of the program notes is not written.           *)
Writes(x) ==
  IF Data \in ids[x] /\ \E l \in prog : Data \in QueryOf(l).all THEN {Write(x)} ELSE {}
Copies(x) == {Copy(x, y) : y \in {z \in Entities : life[z] = "unborn"}}

Operations ==
  UNION {Builds(x) \cup Writes(x) \cup Copies(x) \cup {Delete(x)} : x \in {y \in Entities : Alive(y)}}

(* Entities whose matches a call may change, and those that calls in       *)
(* progress have changed or still tell of.                                 *)
Changes(op) ==
  IF \E l \in registered : op.x \in QueryOf(l).src THEN Entities
  ELSE {op.x} \cup IF op.stage # "delete" THEN {}
                   ELSE {y \in Entities : ids[y] \cap PairsTo(op.x) # {}}
Busy(stage) ==
  CASE stage.stage = "tell" -> stage.delta
    [] stage.stage = "finish" -> IF stage.among = Entities THEN {} ELSE stage.among
    [] OTHER -> {stage.x}

(* A mutable observer, or any code a callback runs, may write while a      *)
(* direct dispatch holds the structural lock, but change nothing else.     *)
Locked == \E i \in DOMAIN todo : todo[i].stage = "loop" /\ todo[i].locked

Reactions(x) ==
  {op \in Operations :
     /\ op.stage # "copy"
     /\ op.stage = "build" => Cardinality(op.adds \cup op.dels) = 1
     /\ Locked => op.stage = "set"
     /\ CarefulReactions =>
          (Changes(op) \cap ({x} \cup UNION {Busy(todo[i]) : i \in DOMAIN todo})) = {}}

Program ==
  /\ todo = <<>>
  /\ \E op \in Operations : todo' = <<op>>
  /\ reactions' = 0
  /\ UNCHANGED <<world, registry, relevant, kept, prog>>

(* The builder of an observer registers it for its terms one by one.  The  *)
(* program fills its index by a query first.  An observer is an entity     *)
(* with a component, and adding that is a change that diff observers of    *)
(* OnAdd are asked about.                                                  *)
Listen(l) ==
  LET q == QueryOf(l) IN
  /\ todo = <<>> /\ l \in prog \ registered
  /\ \A p \in q.all \cap Pairs : Usable(p)
  /\ \A s \in q.src : Alive(s)
  /\ registered' = registered \cup {l}
  /\ map' = map \cup Events \X Terms(q) \X {l}
  /\ observed' = observed \cup {t \in Terms(q) : t = Data \/ t \in formed}
  /\ kept' = [kept EXCEPT ![l] = [x \in Entities |-> IF Matches(q, x) THEN Noted(q, x) ELSE None]]
  /\ relevant' = IF SomeDiff \/ UsesDiff(q) THEN Cleared(relevant) ELSE Moved(relevant)
  /\ UNCHANGED <<world, todo, reactions, prog>>

(* ObserverRegistry::del of the observers of OnAdd, OnDel and OnSet.  Each *)
(* is an entity whose deletion the remaining diff observers of OnDel are   *)
(* asked about.  The mutant leaves the flags of the terms set.             *)
MayUnlisten(l) ==
  /\ todo = <<>> /\ l \in registered
  /\ ~UsesDiff(QueryOf(l)) \/ DropDiff \/ \A k \in prog : UsesDiff(QueryOf(k))

Unregister(l) ==
  LET others == {k \in registered \ {l} : UsesDiff(QueryOf(k))} IN
  /\ registered' = registered \ {l}
  /\ map' = {m \in map : m[3] # l}
  /\ kept' = [kept EXCEPT ![l] = [x \in Entities |-> None]]
  /\ relevant' =
       IF others # {} THEN Pushed(Cleared(relevant), others \X {"del"})
       ELSE IF UsesDiff(QueryOf(l)) THEN Moved(Pushed(Cleared(relevant), {<<l, "del">>}))
       ELSE Moved(relevant)
  /\ UNCHANGED <<world, todo, reactions, prog>>

UnlistenMarked(l) == MayUnlisten(l) /\ Unregister(l) /\ UNCHANGED observed

Unlisten(l) ==
  /\ MayUnlisten(l)
  /\ Unregister(l)
  /\ observed' = observed \ {t \in Terms(QueryOf(l)) : \A m \in map : m[2] = t => m[3] = l}

-----------------------------------------------------------------------------
(* EntityBuilder: new pairs get their records while they are added, commit *)
(* asks the diff observers first, then dispatches directly before and      *)
(* after the move, then compares.                                          *)

StartBuild ==
  /\ At("build")
  /\ LET x == Top.x
         adds == Top.adds
         dels == Top.dels
         new == (adds \cap Pairs) \ formed
         after == (ids[x] \ dels) \cup adds
         delContext == Prepare("del", dels, {x})
         addContext == Prepare("add", adds, {x})
         asked == IF dels = {} THEN relevant ELSE Listed(relevant, delContext)
     IN /\ formed' = formed \cup new
        /\ observed' = observed \cup {p \in new : \E m \in map : m[2] = p}
        /\ relevant' = IF adds = {} THEN asked ELSE Listed(asked, addContext)
        /\ todo' = (IF dels = {} THEN <<>> ELSE <<Collect("del", dels, x, after, TRUE)>>)
                   \o <<Move(x, after)>>
                   \o (IF adds = {} THEN <<>> ELSE <<Collect("add", adds, x, after, TRUE)>>)
                   \o (IF dels = {} THEN <<>> ELSE Active(delContext))
                   \o (IF adds = {} THEN <<>> ELSE Active(addContext))
                   \o Rest
  /\ UNCHANGED <<life, ids, value, registered, map, kept, reactions, prog>>

MoveEntity ==
  /\ At("move")
  /\ ids' = [ids EXCEPT ![Top.x] = Top.new]
  /\ value' = [value EXCEPT ![Top.x] = IF Data \in ids[Top.x] \cap Top.new THEN @ ELSE 0]
  /\ todo' = Rest
  /\ UNCHANGED <<life, formed, registry, relevant, kept, reactions, prog>>

(* World::set and the end of a callback that wrote: the observers are told *)
(* after the write.                                                        *)
SetValue ==
  /\ At("set")
  /\ value' = [value EXCEPT ![Top.x] = 1 - @]
  /\ todo' = (IF \E m \in map : m[1] = "set" /\ m[2] = Data
              THEN <<Collect("set", {Data}, Top.x, {}, FALSE)>> ELSE <<>>) \o Rest
  /\ UNCHANGED <<life, ids, formed, registry, relevant, kept, reactions, prog>>

(* World::copy_ext; its direct dispatch is not under the lock.             *)
CopyEntity ==
  /\ At("copy")
  /\ LET new == ids[Top.x]
         context == PrepareNew(new, Top.y)
     IN /\ life' = [life EXCEPT ![Top.y] = "alive"]
        /\ ids' = [ids EXCEPT ![Top.y] = new]
        /\ value' = [value EXCEPT ![Top.y] = value[Top.x]]
        /\ relevant' = Listed(relevant, context)
        /\ todo' = <<Collect("add", new, Top.y, new, FALSE)>> \o Active(context) \o Rest
  /\ UNCHANGED <<formed, registry, kept, reactions, prog>>

-----------------------------------------------------------------------------
(* World::del: holders of pairs with the entity lose them, then the pairs  *)
(* are deleted, with what is registered for them, then the entity.  Only   *)
(* the diff observers are asked; nobody matches by the deletion of a pair. *)

StartDelete ==
  /\ At("delete")
  /\ todo' = <<Strip(Top.x), Forget(Top.x), Erase(Top.x)>> \o Rest
  /\ UNCHANGED <<world, registry, relevant, kept, reactions, prog>>

(* rem_from_entities *)
StripPairs ==
  /\ At("strip")
  /\ LET gone == PairsTo(Top.x)
         holders == {y \in Entities : ids[y] \cap gone # {}}
         context == Prepare("del", gone \cap UNION {ids[y] : y \in holders}, holders)
     IN /\ ids' = [y \in Entities |-> ids[y] \ gone]
        /\ relevant' = IF holders = {} THEN relevant ELSE Listed(relevant, context)
        /\ todo' = (IF holders = {} THEN <<>> ELSE Active(context)) \o Rest
  /\ UNCHANGED <<life, value, formed, registry, kept, reactions, prog>>

ForgetPairs ==
  /\ At("forget")
  /\ LET gone == PairsTo(Top.x) \cap formed
     IN /\ map' = {m \in map : m[2] \notin gone}
        /\ observed' = observed \ gone
        /\ formed' = formed \ gone
        /\ relevant' = IF gone = {} THEN relevant ELSE Listed(relevant, Prepare("del", gone, {Top.x}))
  /\ todo' = Rest
  /\ UNCHANGED <<life, ids, value, registered, kept, reactions, prog>>

(* req_del_inter; terms = {} stands for the entity itself as the term.     *)
EraseEntity ==
  /\ At("erase")
  /\ LET context == Prepare("del", {}, {Top.x})
     IN /\ relevant' = Listed(relevant, context)
        /\ todo' = Active(context) \o Rest
  /\ life' = [life EXCEPT ![Top.x] = "dead"]
  /\ ids' = [ids EXCEPT ![Top.x] = {}]
  /\ value' = [value EXCEPT ![Top.x] = 0]
  /\ UNCHANGED <<formed, registry, kept, reactions, prog>>

-----------------------------------------------------------------------------
(* Callbacks.                                                              *)

(* The observer of event of listener l runs for x; rest is what the caller *)
(* goes on with.                                                           *)
Note(l, event, x) ==
  kept' = [kept EXCEPT ![l][x] = IF event = "del" THEN None ELSE Noted(QueryOf(l), x)]

React(x, mayCall, rest) ==
  \/ /\ todo' = rest
     /\ UNCHANGED reactions
  \/ /\ mayCall /\ reactions < MaxReactions
     /\ reactions' = reactions + 1
     /\ \E op \in Reactions(x) : todo' = <<op>> \o rest

(* on_add and on_del return at once when no observer has a term of the     *)
(* change or of the archetype moved to; else they push to the list without *)
(* clearing it.  on_set clears it first.                                   *)
Quiet(c) ==
  /\ c.event # "set"
  /\ c.within \cap observed = {}
  /\ \A m \in map : m[1] = c.event => m[2] \notin c.terms

CollectObservers ==
  /\ At("collect")
  /\ LET c == Top
         heard == {m \in map : m[1] = c.event /\ m[2] \in c.terms
                                /\ (c.event = "set" \/ m[2] \in observed)}
         base == IF c.event = "set" THEN Cleared(relevant) ELSE relevant
         list == IF Quiet(c) THEN relevant ELSE Pushed(base, {<<m[3], c.event>> : m \in heard})
     IN /\ relevant' = list
        /\ todo' = (IF Quiet(c) \/ list.size = 0 THEN <<>> ELSE <<Loop(c, list.size)>>) \o Rest
  /\ UNCHANGED <<world, registry, kept, reactions, prog>>

(* matches_direct_targets; on_set asks the query of every observer.  The   *)
(* mutant goes the fast way for every exact query.                         *)
IsToldUnasked(q, event, x) ==
  IF event = "set" THEN Matches(q, x) ELSE ~UsesDiff(q)

IsToldDirectly(q, event, x) ==
  IF event = "set" THEN Matches(q, x)
  ELSE ~UsesDiff(q) /\ (IsFast(q) \/ Matches(q, x))

(* A stale pointer is followed all the same: to what was an observer of a  *)
(* kind that is skipped here, or to whichever is there now.                *)
Pointed(o) ==
  IF o # Stale THEN {o}
  ELSE {o} \cup {l \in registered : ~UsesDiff(QueryOf(l))} \X Events

CallNext ==
  /\ At("loop") /\ Top.next <= Top.last
  /\ LET rest == <<[Top EXCEPT !.next = @ + 1]>> \o Rest
     IN \E o \in Pointed(relevant.slots[Top.next]) :
          IF o # Stale /\ IsToldDirectly(QueryOf(o[1]), Top.event, Top.x)
          THEN Note(o[1], o[2], Top.x) /\ React(Top.x, LoopReactions, rest)
          ELSE todo' = rest /\ UNCHANGED <<kept, reactions>>
  /\ UNCHANGED <<world, registry, relevant, prog>>

EndLoop ==
  /\ At("loop") /\ Top.next > Top.last
  /\ relevant' = [slots |-> IF Looping(Rest) THEN relevant.slots ELSE <<>>, size |-> 0]
  /\ todo' = Rest
  /\ UNCHANGED <<world, registry, kept, reactions, prog>>

(* DiffDispatcher::finish: one observer after the other, queries that are  *)
(* the same share what they match after the change.                        *)
Delta(event, before, after) == IF event = "add" THEN after \ before ELSE before \ after

CompareNext ==
  /\ At("finish")
  /\ LET l == CHOOSE k \in Top.left : TRUE
         q == QueryOf(l)
         after == IF q \in DOMAIN Top.after THEN Top.after[q] ELSE Matching(q, Top.among)
         delta == Delta(Top.event, Top.before[q], after)
         next == [Top EXCEPT !.left = @ \ {l},
                             !.after = [p \in DOMAIN @ \cup {q} |-> IF p = q THEN after ELSE @[p]]]
     IN todo' = (IF delta = {} THEN <<>> ELSE <<Tell(l, Top.event, delta)>>)
                \o Active(next) \o Rest
  /\ UNCHANGED <<world, registry, relevant, kept, reactions, prog>>

TellNext ==
  /\ At("tell")
  /\ LET x == CHOOSE y \in Top.delta : TRUE
         others == Top.delta \ {x}
     IN /\ Note(Top.l, Top.event, x)
        /\ React(x, TRUE, (IF others = {} THEN <<>> ELSE <<[Top EXCEPT !.delta = others]>>) \o Rest)
  /\ UNCHANGED <<world, registry, relevant, prog>>

-----------------------------------------------------------------------------
Next ==
  \/ Program
  \/ \E l \in Listeners : Listen(l) \/ Unlisten(l)
  \/ StartBuild \/ MoveEntity \/ SetValue \/ CopyEntity
  \/ StartDelete \/ StripPairs \/ ForgetPairs \/ EraseEntity
  \/ CollectObservers \/ CallNext \/ EndLoop \/ CompareNext \/ TellNext

Spec == Init /\ [][Next]_vars

-----------------------------------------------------------------------------
TypeOK ==
  /\ life \in [Entities -> {"unborn", "alive", "dead"}]
  /\ ids \in [Entities -> SUBSET Ids]
  /\ \A x \in Entities : ~Alive(x) => ids[x] = {}
  /\ value \in [Entities -> {0, 1}]
  /\ formed \subseteq Pairs
  /\ registered \subseteq Listeners
  /\ map \subseteq Events \X (Ids \cup {Wild}) \X registered
  /\ observed = {t \in {Data} \cup formed : \E m \in map : m[2] = t}
  /\ kept \in [Listeners -> [Entities -> {0, 1, None}]]
  /\ relevant.size <= Len(relevant.slots)
  /\ \A i \in DOMAIN relevant.slots :
       relevant.slots[i] = Stale \/ relevant.slots[i] \in registered \X Events
  /\ reactions \in 0 .. MaxReactions

(* A pair that is dead is no term any more.                                *)
Heeded(l) ==
  \A p \in QueryOf(l).all \cap Pairs : TargetOf(p) # None => Alive(TargetOf(p))

(* README: "OnAdd - an entity starts matching because ids were added",     *)
(* "OnDel - an entity stops matching because ids were removed", "OnSet - a *)
(* value of an already present component was explicitly written", "Update  *)
(* derived data here": whenever no call is in progress, the index that the *)
(* callbacks keep is what a query would give.                              *)
KeptIsCurrent ==
  todo = <<>> =>
    \A l \in registered, x \in Entities :
      LET q == QueryOf(l) IN
      /\ Alive(x) /\ Heeded(l)
           => kept[l][x] = IF Matches(q, x) THEN Noted(q, x) ELSE None
      /\ UsesDiff(q) /\ ~Alive(x) => kept[l][x] = None

(* An entity that OnAdd is called for matches at that moment, whatever     *)
(* earlier callbacks of the same change did.                               *)
ToldOfMatches ==
  [][\A l \in registered, x \in Entities :
       kept[l][x] = None /\ kept'[l][x] # None => Matches(QueryOf(l), x)]_vars
=============================================================================

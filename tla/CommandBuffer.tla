--------------------------- MODULE CommandBuffer ---------------------------
(***************************************************************************)
(* ecs::CommandBuffer: commands recorded while the world may not change,   *)
(* and commit(), which cancels, sorts, merges and replays them.            *)
(*                                                                         *)
(* Entities and components are numbers, ordered as their ids are.  A       *)
(* temporary entity has the number its real entity will have, so that      *)
(* m_temp2real only says which temporaries got one; those of the buffer    *)
(* being recorded are the numbers from base on.  Calls are atomic: they    *)
(* hold the lock of the buffer, and the world is not changed by others     *)
(* between a record and its commit.                                        *)
(***************************************************************************)
EXTENDS Commands, FiniteSets, Functions

CONSTANTS
  FirstTemp,   \* the first number for entities made by the buffer
  EntityBad,
  InitWorld,   \* the world before anything is recorded
  MaxOps,      \* bound: commands recorded
  MaxTemps     \* bound: entities made by the buffer

ASSUME BufferAssumption ==
  /\ FirstTemp \in Nat /\ EntityBad \in Nat /\ MaxOps \in Nat /\ MaxTemps \in Nat
  /\ FirstTemp + MaxTemps <= EntityBad
  /\ Comps \subseteq 1 .. FirstTemp - 1
  /\ DOMAIN InitWorld \subseteq (1 .. FirstTemp - 1) \ Comps

VARIABLES
  world,      \* m_world
  ops,        \* m_ops, the payload m_data points to being the number of the command
  nextTemp,   \* m_nextTemp
  needsSort,  \* m_needsSort
  lastReal,   \* m_lastRealTarget, EntityBad if there is none
  lastTemp,   \* m_lastTempTarget, EntityBad if there is none
  base,       \* number of the temporary entity with index 0
  count       \* commands recorded so far

vars == <<world, ops, nextTemp, needsSort, lastReal, lastTemp, base, count>>

RelTypes == {"ADD_COMPONENT", "ADD_COMPONENT_DATA", "SET_COMPONENT", "DEL_COMPONENT"}
DataTypes == {"ADD_COMPONENT_DATA", "SET_COMPONENT"}
AddTypes == {"ADD_COMPONENT", "ADD_COMPONENT_DATA"}
OpTypes == RelTypes \cup {"ADD_ENTITY", "CPY_ENTITY", "DEL_ENTITY"}

Numbers == 1 .. EntityBad
Values == {Default} \cup 1 .. MaxOps \cup UNION {Range(InitWorld[e]) : e \in DOMAIN InitWorld}

(* EntityBad has all bits set, the one for temporaries included.           *)
is_tmp(e) == e >= base

Op(type, target, other) ==
  [type : {type}, target : {target}, other : {other}, data : {count + 1}]

(* What the commands so far will have made of the world, done in order.    *)
Future == InOrder(world, ops)

----------------------------------------------------------------------------
(* Recording *)

check_sort(target) ==
  IF is_tmp(target)
    THEN /\ needsSort' = (needsSort \/ (lastTemp # EntityBad /\ target < lastTemp))
         /\ lastTemp' = target
         /\ UNCHANGED lastReal
    ELSE /\ needsSort' = (needsSort \/ (lastReal # EntityBad /\ target < lastReal))
         /\ lastReal' = target
         /\ UNCHANGED lastTemp

push_op(type, target, other) ==
  /\ count < MaxOps
  /\ check_sort(target)
  /\ \E op \in Op(type, target, other) : ops' = Append(ops, op)
  /\ count' = count + 1
  /\ UNCHANGED <<world, base>>

(* The handle of a new temporary.                                          *)
add_temp == base + nextTemp

AddEntity ==
  /\ add_temp < FirstTemp + MaxTemps
  /\ nextTemp' = nextTemp + 1
  /\ push_op("ADD_ENTITY", add_temp, EntityBad)

CopyEntity ==
  \E source \in DOMAIN Future :
    /\ add_temp < FirstTemp + MaxTemps
    /\ nextTemp' = nextTemp + 1
    /\ push_op("CPY_ENTITY", add_temp, source)

DelEntity ==
  \E e \in DOMAIN Future :
    push_op("DEL_ENTITY", e, EntityBad) /\ UNCHANGED nextTemp

AddComponent ==
  \E e \in DOMAIN Future : \E o \in Addable(Future, e) :
    push_op("ADD_COMPONENT", e, o) /\ UNCHANGED nextTemp

AddComponentData ==
  \E e \in DOMAIN Future : \E o \in Comps :
    push_op("ADD_COMPONENT_DATA", e, o) /\ UNCHANGED nextTemp

SetComponent ==
  \E e \in DOMAIN Future : \E o \in DOMAIN Future[e] \cap Comps :
    push_op("SET_COMPONENT", e, o) /\ UNCHANGED nextTemp

DelComponent ==
  \E e \in DOMAIN Future : \E o \in DOMAIN Future[e] :
    push_op("DEL_COMPONENT", e, o) /\ UNCHANGED nextTemp

----------------------------------------------------------------------------
(* Committing *)

Recorded == {ops[i] : i \in DOMAIN ops}

(* Bits 0 and 2 of m_tmpFlags                                              *)
Destroyed == {op.target : op \in {o \in Recorded : o.type = "DEL_ENTITY" /\ is_tmp(o.target)}}
UsedAsOther == {op.other : op \in {o \in Recorded : is_tmp(o.other)}}

is_canceled_temp(t) == t \in Destroyed \ UsedAsOther

(* Real entities for the temporaries that survive.  A copy is one of what  *)
(* its source is before any command is replayed.                           *)
Allocate(w, op) ==
  IF ~is_tmp(op.target) \/ is_canceled_temp(op.target) THEN w
  ELSE CASE op.type = "ADD_ENTITY" -> Create(w, op.target)
         [] op.type = "CPY_ENTITY" /\ op.other \in DOMAIN w -> CopyOf(w, op.target, op.other)
         [] OTHER -> w

Allocated == FoldLeft(Allocate, world, ops)

(* The order of the entities' 64-bit values: the bit of temporaries leads. *)
Before(a, b) ==
  \/ a.target < b.target
  \/ a.target = b.target /\ a.other < b.other

(* What core::sort may return: a sorted range as it is, a reversed one     *)
(* turned around, and anything else sorted without regard for the order    *)
(* of equal commands.                                                      *)
Sorted(s) == \A i \in 1 .. Len(s) - 1 : ~Before(s[i + 1], s[i])
Descending(s) == \A i \in 1 .. Len(s) - 1 : ~Before(s[i], s[i + 1])

Rearranged(s) ==
  {[i \in DOMAIN s |-> s[p[i]]] : p \in Injection(DOMAIN s, DOMAIN s)}

core_sort(s) ==
  IF Sorted(s) THEN {s}
  ELSE IF Descending(s) THEN {Reverse(s)}
  ELSE {r \in Rearranged(s) : Sorted(r)}

(* The longest runs of commands with equal keys.                           *)
Runs(s, Key(_)) ==
  LET starts == {i \in DOMAIN s : i > 1 => Key(s[i]) # Key(s[i - 1])}
      end(i) == CHOOSE j \in i .. Len(s) :
                  /\ \A k \in i .. j : Key(s[k]) = Key(s[i])
                  /\ j < Len(s) => j + 1 \in starts
      from == SetToSortSeq(starts, <)
  IN [n \in DOMAIN from |-> SubSeq(s, from[n], end(from[n]))]

Kinds(group) == {group[i].type : i \in DOMAIN group}

WithData(group) == SelectSeq(group, LAMBDA op : op.type \in DataTypes)

(* The data of the last command of the group that has any.  The mutant     *)
(* takes the first.                                                        *)
DataOfFirst(group) == Head(WithData(group)).data
DataOf(group) == Last(WithData(group)).data

(* The merge rules: what a group of commands for one entity and one        *)
(* component amounts to, by the set of their kinds.  A single command is   *)
(* replayed by a path of its own, to the same effect.                      *)
Merge(w, group) ==
  LET kinds == Kinds(group)
      e == group[1].target
      o == group[1].other
      adds == kinds \cap AddTypes # {}
      hasSet == "SET_COMPONENT" \in kinds
      hasDel == "DEL_COMPONENT" \in kinds
      hasData == kinds \cap DataTypes # {}
  IN CASE hasDel /\ adds                 -> w
       [] hasDel /\ ~adds                -> RemoveFrom(w, e, o)
       [] ~hasDel /\ adds /\ hasData     -> SetValue(AddTo(w, e, o), e, o, DataOf(group))
       [] ~hasDel /\ adds /\ ~hasData    -> AddTo(w, e, o)
       [] ~hasDel /\ ~adds /\ hasSet     -> SetValue(w, e, o, DataOf(group))
       [] OTHER                          -> w

(* All commands of one target that follow each other; those that delete    *)
(* it take effect at the end.                                              *)
ReplayTarget(w, range) ==
  LET e == range[1].target
      merged == FoldLeft(Merge, w, Runs(range, LAMBDA op : op.other))
  IN IF is_tmp(e) /\ (e \notin DOMAIN Allocated \/ is_canceled_temp(e)) THEN w
     ELSE IF "DEL_ENTITY" \in Kinds(range) THEN Delete(merged, e) ELSE merged

Replay(s) == FoldLeft(ReplayTarget, Allocated, Runs(s, LAMBDA op : op.target))

(* The buffer becomes as new.  The mutant keeps the last temporary target. *)
Emptied ==
  /\ ops' = <<>>
  /\ nextTemp' = 0
  /\ needsSort' = FALSE
  /\ lastReal' = EntityBad
  /\ base' = base + nextTemp

clear_partly == Emptied /\ UNCHANGED lastTemp

clear == Emptied /\ lastTemp' = EntityBad

Commit ==
  /\ ops # <<>>
  /\ \E s \in IF needsSort THEN core_sort(ops) ELSE {ops} : world' = Replay(s)
  /\ clear
  /\ UNCHANGED count

Init ==
  /\ world = InitWorld
  /\ ops = <<>>
  /\ nextTemp = 0
  /\ needsSort = FALSE
  /\ lastReal = EntityBad
  /\ lastTemp = EntityBad
  /\ base = FirstTemp
  /\ count = 0

Next ==
  /\ world # Undefined
  /\ \/ AddEntity
     \/ CopyEntity
     \/ DelEntity
     \/ AddComponent
     \/ AddComponentData
     \/ SetComponent
     \/ DelComponent
     \/ Commit

Spec == Init /\ [][Next]_vars

----------------------------------------------------------------------------
(* Properties *)

Committed == ops # <<>> /\ ops' = <<>>

Of(e, o) == {i \in DOMAIN ops : ops[i].target = e /\ ops[i].other = o}
SamePair(i, j) == ops[i].target = ops[j].target /\ ops[i].other = ops[j].other
CopiesFrom(e) == {i \in DOMAIN ops : ops[i].type = "CPY_ENTITY" /\ ops[i].other = e}

(* What a program has to observe for its commands to mean what they say.   *)

(* It does not both add and remove a component of an entity, unless the    *)
(* entity comes without it, and it is added once and then removed: such a  *)
(* pair is taken for a no-op, if it is not torn apart by commands for      *)
(* temporaries between its halves.                                         *)
AddsOrRemoves ==
  \A i, j, k \in DOMAIN ops :
    /\ ops[i].type \in AddTypes /\ ops[j].type = "DEL_COMPONENT"
    /\ SamePair(i, j)
    => /\ ~Has(Allocated, ops[i].target, ops[i].other)
       /\ i < j
       /\ ops[k].type \in AddTypes /\ SamePair(i, k) => i = k

(* When the commands are sorted it gives a component one value only, as    *)
(* sorting does not keep the order of equal commands.                      *)
OneValue ==
  needsSort => \A i, j \in DOMAIN ops :
    /\ ops[i].type \in DataTypes /\ ops[j].type \in DataTypes
    /\ SamePair(i, j)
    => i = j

(* It does not copy an entity it has changed before in the same buffer.    *)
CopiesUnchanged ==
  \A i, j \in DOMAIN ops :
    ops[i].type \in RelTypes /\ j \in CopiesFrom(ops[i].target) => j < i

(* It does not use an entity it deletes as a tag of another.               *)
DeletesUnused ==
  \A i, j \in DOMAIN ops :
    ops[i].type = "DEL_ENTITY" /\ ops[j].type \in RelTypes
    => ops[j].other # ops[i].target

Harmless == AddsOrRemoves /\ OneValue /\ CopiesUnchanged /\ DeletesUnused

(* The fields have values of their kinds, commands name entities that      *)
(* exist or are to, and the last targets are what check_sort compares      *)
(* with: of the right kind and not left over from an earlier buffer.       *)
TypeOK ==
  /\ world # Undefined =>
       \A e \in DOMAIN world :
         /\ e \in 1 .. base - 1
         /\ DOMAIN world[e] \subseteq (Comps \cup DOMAIN world) \ {e}
         /\ Range(world[e]) \subseteq Values
  /\ \A i \in DOMAIN ops :
       /\ ops[i].type \in OpTypes
       /\ ops[i].target \in 1 .. base + nextTemp - 1
       /\ ops[i].other \in Comps \cup 1 .. base + nextTemp - 1 \cup {EntityBad}
       /\ ops[i].data \in 1 .. count
  /\ needsSort \in BOOLEAN
  /\ lastReal \in (1 .. base - 1) \cup {EntityBad}
  /\ lastTemp \in (base .. base + nextTemp - 1) \cup {EntityBad}
  /\ count \in Len(ops) .. MaxOps
  /\ base + nextTemp <= FirstTemp + MaxTemps

(* A harmless sequence of commands has, committed, exactly the effect of   *)
(* the commands done one by one: cancelling, sorting and merging do not    *)
(* show, and nothing is done to an entity that is not there.  Whatever was *)
(* recorded, the same entities are alive: temporaries are created unless   *)
(* deleted again, and deletions are never lost.                            *)
CommitIsInOrder ==
  [][Committed => /\ Harmless => world' = Future
                  /\ world' # Undefined => DOMAIN world' = DOMAIN Future]_vars
=============================================================================

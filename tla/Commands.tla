------------------------------ MODULE Commands ------------------------------
(***************************************************************************)
(* What the structural changes of ecs::World that a command buffer can     *)
(* record do to a world, and what a sequence of them means when it is      *)
(* carried out in order: the reference for CommandBuffer.                  *)
(*                                                                         *)
(* A world maps each live entity to what it has: a function from the       *)
(* components and entities added to it to values.  An operation on         *)
(* something that is not there (an assertion in the code, undefined        *)
(* behaviour without assertions) makes the world Undefined.                *)
(***************************************************************************)
EXTENDS Integers, Sequences, SequencesExt

CONSTANTS
  Comps,      \* components with data
  Default,    \* the value of a component nobody set
  Undefined

Has(w, e, o) == e \in DOMAIN w /\ o \in DOMAIN w[e]

(* What an entity may be given: a component or another live entity.        *)
Addable(w, e) == (Comps \cup DOMAIN w) \ {e}

With(w, e, o, v) ==
  [w EXCEPT ![e] = [x \in DOMAIN @ \cup {o} |-> IF x = o THEN v ELSE @[x]]]

Without(f, o) == [x \in DOMAIN f \ {o} |-> f[x]]

NewEntity(w, e, has) ==
  [x \in DOMAIN w \cup {e} |-> IF x = e THEN has ELSE w[x]]

(* EntityBuilder::add: a component the entity has keeps its value.         *)
AddTo(w, e, o) ==
  IF w = Undefined \/ e \notin DOMAIN w \/ o \notin Addable(w, e) THEN Undefined
  ELSE IF Has(w, e, o) THEN w ELSE With(w, e, o, Default)

RemoveFrom(w, e, o) ==
  IF w = Undefined \/ e \notin DOMAIN w \/ o \notin Addable(w, e) THEN Undefined
  ELSE [w EXCEPT ![e] = Without(@, o)]

SetValue(w, e, o, v) ==
  IF w = Undefined \/ ~Has(w, e, o) THEN Undefined ELSE With(w, e, o, v)

(* World::del: the entity goes and is taken from all that had it.          *)
Delete(w, e) ==
  IF w = Undefined THEN Undefined
  ELSE [x \in DOMAIN w \ {e} |-> Without(w[x], e)]

(* World::add and World::copy, the new entity being e.                     *)
Create(w, e) == NewEntity(w, e, <<>>)
CopyOf(w, e, source) == NewEntity(w, e, w[source])

(* One command, with the data recorded with it.                            *)
Apply(w, c) ==
  CASE c.type = "ADD_ENTITY"         -> Create(w, c.target)
    [] c.type = "CPY_ENTITY"         -> CopyOf(w, c.target, c.other)
    [] c.type = "DEL_ENTITY"         -> Delete(w, c.target)
    [] c.type = "ADD_COMPONENT"      -> AddTo(w, c.target, c.other)
    [] c.type = "ADD_COMPONENT_DATA" ->
         SetValue(AddTo(w, c.target, c.other), c.target, c.other, c.data)
    [] c.type = "SET_COMPONENT"      -> SetValue(w, c.target, c.other, c.data)
    [] c.type = "DEL_COMPONENT"      -> RemoveFrom(w, c.target, c.other)

(* A sequence of commands, one after the other.                            *)
InOrder(w, commands) == FoldLeft(Apply, w, commands)
=============================================================================

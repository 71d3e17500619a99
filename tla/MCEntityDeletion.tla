-------------------------- MODULE MCEntityDeletion --------------------------
(***************************************************************************)
(* A parent a, its child b and a third entity c that may be the child of   *)
(* either, with b as a relation to a and as a tag.                         *)
(***************************************************************************)
EXTENDS EntityDeletion

CONSTANTS a, b, c

MCTree == {<<ChildOf, a>>, <<ChildOf, b>>, <<b, a>>}
MCChild == {<<ChildOf, a>>}
MCRelation == {<<b, a>>}
=============================================================================

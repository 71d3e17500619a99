--------------------------- MODULE MCCommandBuffer ---------------------------
(***************************************************************************)
(* Two entities, the first with the component 1, and a buffer that makes   *)
(* up to two more.                                                         *)
(***************************************************************************)
EXTENDS CommandBuffer

MCComps == {1}
MCInitWorld == [e \in {2, 3} |-> IF e = 2 THEN [c \in {1} |-> 9] ELSE <<>>]
=============================================================================

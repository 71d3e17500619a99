---------------------------- MODULE MCMpmcQueue -----------------------------
(***************************************************************************)
(* Two cells, two producers and two consumers; the positions wrap after    *)
(* two items, so that a turn of the ring and the 32-bit wrap both happen.  *)
(***************************************************************************)
EXTENDS MpmcQueue
=============================================================================

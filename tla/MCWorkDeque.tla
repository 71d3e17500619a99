---------------------------- MODULE MCWorkDeque -----------------------------
(***************************************************************************)
(* A queue of two slots and two thieves, started one job before its        *)
(* counters wrap.                                                          *)
(***************************************************************************)
EXTENDS WorkDeque
=============================================================================

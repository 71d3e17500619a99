----------------------------- MODULE MCObservers -----------------------------
(***************************************************************************)
(* Three entities; t is the target of one pair and the source of a query.  *)
(***************************************************************************)
EXTENDS Observers

CONSTANTS e, f, t, toT, toOther, single, both, wild, twin, sourced, mixed

MCTargetOf(p) == IF p = toT THEN t ELSE None

MCQueryOf(l) ==
  CASE l = single -> [all |-> {Data}, src |-> {}]
    [] l = both -> [all |-> {Data, toT}, src |-> {}]
    [] l \in {wild, twin} -> [all |-> {Wild}, src |-> {}]
    [] l = sourced -> [all |-> {Wild}, src |-> {t}]
    [] l = mixed -> [all |-> {Data, Wild}, src |-> {}]

MCPrograms == {{single, both}, {wild, twin}, {single, sourced}}
=============================================================================

---------------------------- MODULE MCQueryCache ----------------------------
(***************************************************************************)
(* A component A, a tag B and a pair RT = (R, T), with the wildcard (R, * ) *)
(* and queries of every cache policy.                                      *)
(***************************************************************************)
EXTENDS QueryCache

CONSTANTS A, B, RT, RAny

MCIds == {A, B, RT}
MCWildcards == {RAny}
MCCovers == [w \in {RAny} |-> {RT}]
MCKind == [t \in {A, B, RT, RAny} |->
  CASE t = RT -> "ExactPair" [] t = RAny -> "RelWildcardPair" [] OTHER -> "Other"]
MCBuilds == {{A}, {A, B}, {A, B, RT}}

Without == [Void EXCEPT !.all = <<A>>, !.no = {B}, !.any = TRUE]
Either == [Void EXCEPT !.or = <<B, RT>>, !.shared = TRUE]
Wild == [Void EXCEPT !.all = <<A, RAny>>]
Only == [Void EXCEPT !.no = {B}]
Sourced == [Void EXCEPT !.all = <<A>>, !.src = {B}]
MCQueries == {Without, Either, Wild, Only, Sourced}
MCPrograms == {<<Sourced>>, <<Without>>, <<Either, Either>>, <<Only>>, <<Wild>>}
=============================================================================

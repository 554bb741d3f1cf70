---------------------------- MODULE MCIndexPool ----------------------------
(***************************************************************************)
(* Two libraries share a pool: two writers of one, a writer and a search   *)
(* of the other.                                                           *)
(***************************************************************************)
EXTENDS IndexPool, TLC

CONSTANTS a, b, w1, w2, w3, f1, m1, m2

LaneOfWriter  == (w1 :> a) @@ (w2 :> a) @@ (w3 :> b)
LaneOfFlusher == f1 :> b

Zero    == (a :> 0) @@ (b :> 0)
TwoOne  == (a :> 1) @@ (b :> 0)

Doublings == {1, 2, 4}

Symmetry == Permutations(Mappers)
=============================================================================

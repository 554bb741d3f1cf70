------------------------------ MODULE MCKeyDir ------------------------------
(* Instances of KeyDir for TLC. *)
EXTENDS KeyDir, TLC

CONSTANTS k1, k2, w1, w2, r1, f1, f2

OneKey     == {k1}
TwoKeys    == {k1, k2}
TwoWriters == {w1, w2}
OneReader  == {r1}
OneFolder  == {f1}
TwoFolders == {f1, f2}

OneShard   == [k \in Keys |-> 1]
OwnShard   == k1 :> 1 @@ k2 :> 2

Symmetry   == Permutations(Writers) \cup Permutations(Folders)
=============================================================================

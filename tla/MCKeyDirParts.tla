--------------------------- MODULE MCKeyDirParts ---------------------------
(***************************************************************************)
(* Two keys on two shards.  At any moment one of these goes on:            *)
(*   folds   two folds that may overlap and a reader, beside one writer at *)
(*           a time, while the active file stays                           *)
(*   shards  two writers at once, with moves and expiry and new files, and *)
(*           one fold at a time, which starts and is released unread; the  *)
(*           last of the calls only beside the fold, by itself             *)
(***************************************************************************)
EXTENDS MCKeyDir

Busy(S) == {t \in S : pc[t] # "idle"}

Started == {f \in Folders : phase[f] # "none" \/ pc[f] # "idle"}

Folds  == biggest = 1 /\ Cardinality(Busy(Writers)) <= 1
Shardy == /\ Cardinality(Busy(Folders)) <= 1 /\ Busy(Readers) = {}
          /\ \A f \in Folders : out[f] = {} /\ phase[f] # "eof"
          /\ ops < MaxOps \/ (Started # {} /\ Cardinality(Busy(Writers)) <= 1)
Limits == (Folds \/ Shardy)'
=============================================================================

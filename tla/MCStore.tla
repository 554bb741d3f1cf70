------------------------------ MODULE MCStore ------------------------------
(***************************************************************************)
(* Bounds for the runs of Store: how many writes, syncs, checkpoints,      *)
(* merges, crashes and closes a behaviour may start.                       *)
(***************************************************************************)
EXTENDS Store, TLC

Times(writes, syncs, ckpts, merges, crashes, closes) ==
    [b \in Budget |-> CASE b = "write" -> writes [] b = "sync"  -> syncs
                        [] b = "ckpt"  -> ckpts  [] b = "merge" -> merges
                        [] b = "crash" -> crashes [] b = "close" -> closes]

LimitWrites     == Times(2, 1, 1, 0, 1, 1)
LimitSkippedPut == Times(2, 0, 1, 0, 1, 0)

\* Only Keys is a set of model values nothing orders.
Symmetry == Permutations(Keys)
=============================================================================

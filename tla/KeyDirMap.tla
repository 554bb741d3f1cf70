----------------------------- MODULE KeyDirMap -----------------------------
(***************************************************************************)
(* What the KeyDir class promises its callers (include/bitcask/keydir.hpp),*)
(* with none of its shards, locks, pending table or sibling chains:        *)
(*   - put, remove and conditional_remove change one key atomically;       *)
(*   - get returns a value the key had at some moment of the call;         *)
(*   - a fold enumerates the store as it was when the fold started.  A     *)
(*     fold that joins another one may miss the keys that were absent when *)
(*     the first of them started (it reuses the frozen view), no other key.*)
(* A write is named by its ord (the LSN alloc_ord hands out).              *)
(***************************************************************************)
EXTENDS Naturals

CONSTANTS Keys, Readers, Folders, MaxOrd

Absent == 0
Value  == 0..MaxOrd
NoKey  == "no key"

VARIABLES
    store,    \* store[k]: ord of the live write of k, or Absent
    asked,    \* asked[r]: the key of the get in progress, or NoKey
    window,   \* window[r]: the values asked[r] has had since the get began
    ret,      \* ret[r]: what the last get of r returned
    phase,    \* phase[f]: "none", "open" or "eof"
    snap,     \* snap[f]: the view the fold enumerates
    out,      \* out[f]: the <<key, ord>> pairs handed out so far
    base      \* the keys present when the current group of folds began

vars == <<store, asked, window, ret, phase, snap, out, base>>

Live == {k \in Keys : store[k] # Absent}
NoFold == \A g \in Folders : phase[g] = "none"

Init == /\ store  = [k \in Keys |-> Absent]
        /\ asked  = [r \in Readers |-> NoKey]
        /\ window = [r \in Readers |-> {}]
        /\ ret    = [r \in Readers |-> Absent]
        /\ phase  = [f \in Folders |-> "none"]
        /\ snap   = [f \in Folders |-> [k \in Keys |-> Absent]]
        /\ out    = [f \in Folders |-> {}]
        /\ base   = {}

Write(k, v) ==
    /\ store' = [store EXCEPT ![k] = v]
    /\ window' = [r \in Readers |->
                    IF asked[r] = k THEN window[r] \cup {v} ELSE window[r]]
    /\ UNCHANGED <<asked, ret, phase, snap, out, base>>

GetBegin(r, k) ==
    /\ asked[r] = NoKey
    /\ asked'  = [asked EXCEPT ![r] = k]
    /\ window' = [window EXCEPT ![r] = {store[k]}]
    /\ UNCHANGED <<store, ret, phase, snap, out, base>>

GetEnd(r) ==
    /\ asked[r] # NoKey
    /\ ret' \in {[ret EXCEPT ![r] = v] : v \in window[r]}
    /\ asked' = [asked EXCEPT ![r] = NoKey]
    /\ window' = [window EXCEPT ![r] = {}]
    /\ UNCHANGED <<store, phase, snap, out, base>>

\* A fold that starts alone sees everything; one that joins may miss keys.
FoldStart(f) ==
    /\ phase[f] = "none"
    /\ phase' = [phase EXCEPT ![f] = "open"]
    /\ base' = IF NoFold THEN Live ELSE base
    /\ \E hidden \in SUBSET (Keys \ base') :
          /\ NoFold => hidden = {}
          /\ snap' = [snap EXCEPT ![f] =
                        [k \in Keys |-> IF k \in hidden THEN Absent ELSE store[k]]]
    /\ out' = [out EXCEPT ![f] = {}]
    /\ UNCHANGED <<store, asked, window, ret>>

FoldYield(f, k) ==
    /\ phase[f] = "open"
    /\ snap[f][k] # Absent
    /\ <<k, snap[f][k]>> \notin out[f]
    /\ out' = [out EXCEPT ![f] = @ \cup {<<k, snap[f][k]>>}]
    /\ UNCHANGED <<store, asked, window, ret, phase, snap, base>>

\* The enumeration may end only when every key of the view was handed out.
FoldEnd(f) ==
    /\ phase[f] = "open"
    /\ \A k \in Keys : snap[f][k] # Absent => <<k, snap[f][k]>> \in out[f]
    /\ phase' = [phase EXCEPT ![f] = "eof"]
    /\ UNCHANGED <<store, asked, window, ret, snap, out, base>>

FoldRelease(f) ==
    /\ phase[f] # "none"
    /\ phase' = [phase EXCEPT ![f] = "none"]
    /\ snap' = [snap EXCEPT ![f] = [k \in Keys |-> Absent]]
    /\ out' = [out EXCEPT ![f] = {}]
    /\ base' = IF \A g \in Folders \ {f} : phase[g] = "none" THEN {} ELSE base
    /\ UNCHANGED <<store, asked, window, ret>>

Next == \/ \E k \in Keys, v \in Value : Write(k, v)
        \/ \E r \in Readers : GetEnd(r) \/ \E k \in Keys : GetBegin(r, k)
        \/ \E f \in Folders : \/ FoldStart(f) \/ FoldEnd(f) \/ FoldRelease(f)
                              \/ \E k \in Keys : FoldYield(f, k)

Spec == Init /\ [][Next]_vars
=============================================================================

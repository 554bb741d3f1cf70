-------------------------------- MODULE TopK --------------------------------
(***************************************************************************)
(* The ranked text searches of src/bm25/bm25_search_impl.hpp: the plain    *)
(* sum over all postings (score_bow_topk), Block-Max WAND                  *)
(* (search_wand_impl), Block-Max MaxScore (search_maxscore_impl) and the   *)
(* must-only conjunction of bool_search_impl.  Each walks the posting      *)
(* lists in document order and keeps the k best in a heap; all but the     *)
(* first leave out documents, or whole blocks, whose score cannot matter.  *)
(*                                                                         *)
(* BM25 enters through two monotone integer functions: Idf falls with the  *)
(* document frequency, Norm rises with the term frequency and falls with   *)
(* the document length.  Rounding is left out.                             *)
(***************************************************************************)
EXTENDS Integers, Sequences, FiniteSets, FiniteSetsExt, SequencesExt

CONSTANTS
    NTerms,     \* the terms of the query
    NDocs,      \* documents, numbered in posting order
    BlockSize,  \* postings in a block (PostingList::kBlockSize)
    MaxDl,      \* the greatest document length
    Corpora,    \* the indexes searched
    Ks          \* the numbers of results asked for

AllTerms == 1..NTerms
Docs  == 1..NDocs
Algorithms == {"bow", "wand", "maxscore", "must"}

VARIABLES
    corpus,     \* tf and dl of every document, who is live, is the tail a block
    query,      \* the algorithm and k
    plan,       \* what a search works out before it starts
    cursor,     \* per term: the next posting of its list
    heap,       \* the best documents so far
    theta,      \* the score a newcomer has to reach
    pc          \* "new", "run" or "done"

vars == <<corpus, query, plan, cursor, heap, theta, pc>>

Sum(f(_), S) == MapThenSumSet(f, S)
Ascending(S) == SetToSortSeq(S, LAMBDA a, b : a < b)

Init ==
    /\ corpus \in Corpora
    /\ query \in [algo : Algorithms, k : Ks]
    /\ plan = <<>>
    /\ cursor = [t \in AllTerms |-> 1]
    /\ heap = {}
    /\ theta = 0
    /\ pc = "new"

-----------------------------------------------------------------------------
(* Weights, blocks and upper bounds, before the first document is met. *)

Holding(t) == {d \in Docs : corpus.tf[t][d] > 0}
LiveDf(t) == Cardinality(Holding(t) \intersect corpus.live)

Idf(df) == NDocs + 1 - df
Norm(tf, dl) == 2 * tf + MaxDl - dl

(* The must-only search takes every posting into account, the others the   *)
(* live ones; a list whose documents are all dead weighs nothing.          *)
Weight(t) == IF query.algo = "must" THEN Idf(Cardinality(Holding(t)))
             ELSE IF LiveDf(t) = 0 THEN 0 ELSE Idf(LiveDf(t))

Contribution(t, d) ==
    IF corpus.tf[t][d] = 0 THEN 0
    ELSE Weight(t) * Norm(corpus.tf[t][d], corpus.dl[d])

(* upper_bound_from: the greatest frequency at the smallest length. *)
Bound(t, S, dl) == Weight(t) * Norm(Max({corpus.tf[t][d] : d \in S}), dl)

(* A block is a run of BlockSize postings and knows its smallest length.   *)
(* The postings after the last full block make a block only in a list that *)
(* was finalized and is at least one block long.                           *)
BlockCount(n) ==
    IF corpus.tail /\ n >= BlockSize THEN (n + BlockSize - 1) \div BlockSize
    ELSE n \div BlockSize

Block(t, list, b) ==
    LET S == {list[i] : i \in {i \in DOMAIN list : (i - 1) \div BlockSize = b - 1}}
    IN  [base |-> Min(S), end |-> Max(S), bound |-> Bound(t, S, Min({corpus.dl[d] : d \in S}))]

(* Lists by the most they can add (MaxScore) and by their length (must).   *)
Prepare ==
    /\ pc = "new"
    /\ LET list == [t \in AllTerms |-> Ascending(Holding(t))]
           ub == [t \in AllTerms |-> IF Holding(t) = {} THEN 0 ELSE Bound(t, Holding(t), 1)]
       IN  plan' = [list    |-> list,
                    score   |-> [t \in AllTerms |-> [d \in Docs |-> Contribution(t, d)]],
                    ub      |-> ub,
                    blocks  |-> [t \in AllTerms |-> [b \in 1..BlockCount(Len(list[t])) |-> Block(t, list[t], b)]],
                    byBound |-> SetToSortSeq(AllTerms, LAMBDA s, t : ub[s] < ub[t] \/ (ub[s] = ub[t] /\ s < t)),
                    bySize  |-> SetToSortSeq(AllTerms, LAMBDA s, t :
                                   \/ Len(list[s]) < Len(list[t])
                                   \/ Len(list[s]) = Len(list[t]) /\ s < t)]
    /\ pc' = "run"
    /\ UNCHANGED <<corpus, query, cursor, heap, theta>>

Running(algo) == pc = "run" /\ query.algo = algo

Live(d) == d \in corpus.live
Ub(t) == plan.ub[t]
Size(t) == Len(plan.list[t])

(* block_for_ord_in: the blocks whose range holds d, at most one. *)
BlocksOf(t, d) == {x \in ToSet(plan.blocks[t]) : x.base <= d /\ d <= x.end}

-----------------------------------------------------------------------------
(* The heap. *)

Better(x, y) == x.score > y.score \/ (x.score = y.score /\ x.ord < y.ord)
Worst(h) == CHOOSE x \in h : \A y \in h \ {x} : Better(y, x)
Full(h) == Cardinality(h) >= query.k

(* topk_offer: documents arrive in ascending order, so an equal score is   *)
(* already beaten by all the heap holds.                                   *)
Offer(h, score, d) ==
    LET e == [score |-> score, ord |-> d]
    IN  IF ~Full(h) THEN h \union {e}
        ELSE IF e.score > Worst(h).score THEN (h \ {Worst(h)}) \union {e} ELSE h

Threshold(h) == IF Full(h) THEN Worst(h).score ELSE theta
Total(d) == Sum(LAMBDA t : plan.score[t][d], AllTerms)

-----------------------------------------------------------------------------
(* Cursors. *)

Active == {t \in AllTerms : cursor[t] <= Size(t)}
At(t) == plan.list[t][cursor[t]]
Here(d) == {t \in Active : At(t) = d}

(* The galloping advance: the first posting from the cursor on that is not *)
(* before d.                                                               *)
Seek(t, d) == Min({i \in cursor[t]..Size(t) : plan.list[t][i] >= d} \union {Size(t) + 1})
SeekAll(S, d) == [t \in AllTerms |-> IF t \in S \intersect Active THEN Seek(t, d) ELSE cursor[t]]

Stop == pc' = "done" /\ UNCHANGED <<corpus, query, plan, cursor, heap, theta>>
Move(c) == cursor' = c /\ UNCHANGED <<corpus, query, plan, pc>>
Stay == UNCHANGED <<heap, theta>>

-----------------------------------------------------------------------------
(* score_bow_topk: the contributions of the live postings, sorted by       *)
(* document and summed, offered one document after the other.              *)

Hits == {d \in corpus.live : \E t \in AllTerms : corpus.tf[t][d] > 0}

Bow ==
    /\ Running("bow")
    /\ heap' = FoldLeft(LAMBDA h, d : Offer(h, Total(d), d), {}, Ascending(Hits))
    /\ pc' = "done"
    /\ UNCHANGED <<corpus, query, plan, cursor, theta>>

-----------------------------------------------------------------------------
(* search_wand_impl *)

(* The pivot is the first document at which the lists that may hold it,    *)
(* or an earlier one, could together reach the threshold.                  *)
Pivots == {d \in {At(t) : t \in Active} : Sum(Ub, {t \in Active : At(t) <= d}) >= theta}
Pivot == Min(Pivots)
Lagging == {t \in Active : At(t) < Pivot}

WandStop ==
    /\ Running("wand")
    /\ Pivots = {}
    /\ Stop

(* Lists that are behind catch up before anything is scored. *)
WandAlign ==
    /\ Running("wand")
    /\ Pivots # {}
    /\ Lagging # {}
    /\ Move(SeekAll(Lagging, Pivot))
    /\ Stay

(* A block that cannot beat the threshold even with the best of all the    *)
(* other lists is left behind.                                             *)
Hopeless(t) ==
    {x \in BlocksOf(t, Pivot) :
        Full(heap) /\ x.bound <= theta - (Sum(Ub, Active) - Ub(t))}

(* Only the lists sorted up to the pivot's place are looked at, and how    *)
(* lists at one document are sorted is left open.                          *)
Looked ==
    {S \in SUBSET Here(Pivot) :
        /\ S # {}
        /\ Sum(Ub, S) >= theta
        /\ \E last \in S : S = {last} \/ Sum(Ub, S \ {last}) < theta}

WandSkip ==
    /\ Running("wand")
    /\ Pivots # {}
    /\ Lagging = {}
    /\ \E S \in Looked :
        LET out == {t \in S : Hopeless(t) # {}}
        IN  /\ out # {}
            /\ Move([t \in AllTerms |-> IF t \in out THEN Seek(t, Max({x.end : x \in Hopeless(t)}) + 1)
                                     ELSE cursor[t]])
    /\ Stay

WandScore ==
    /\ Running("wand")
    /\ Pivots # {}
    /\ Lagging = {}
    /\ \E S \in Looked : \A t \in S : Hopeless(t) = {}
    /\ LET score == Sum(LAMBDA t : plan.score[t][Pivot], Here(Pivot))
       IN  heap' = IF Live(Pivot) /\ score >= theta THEN Offer(heap, score, Pivot) ELSE heap
    /\ theta' = Threshold(heap')
    /\ Move(SeekAll(AllTerms, Pivot + 1))

-----------------------------------------------------------------------------
(* search_maxscore_impl *)

(* Lists whose bounds sum up to no more than the threshold cannot bring in *)
(* a document by themselves: only the others, the essential ones, drive.   *)
Prefix(j) == Sum(LAMBDA i : Ub(plan.byBound[i]), 1..j)
Boundary == Cardinality({j \in 1..NTerms : Prefix(j) <= theta})
Essential == {plan.byBound[j] : j \in (Boundary + 1)..NTerms}
Rest == Prefix(Boundary)

Driving == Essential \intersect Active
Candidate == Min({At(t) : t \in Driving})

MaxScoreStop ==
    /\ Running("maxscore")
    /\ Driving = {}
    /\ Stop

(* The block of a driving list around the candidate, or the whole list's   *)
(* bound up to its cursor where there is no such block.                    *)
Near(t) ==
    LET around == {x \in BlocksOf(t, Candidate) : At(t) <= x.end}
    IN  IF around = {} THEN [bound |-> Ub(t), end |-> At(t)] ELSE CHOOSE x \in around : TRUE

BlocksHopeless ==
    Full(heap) /\ Rest + Sum(LAMBDA t : Near(t).bound, Driving) <= theta

MaxScoreSkip ==
    /\ Running("maxscore")
    /\ Driving # {}
    /\ BlocksHopeless
    /\ Move(SeekAll(Essential, Min({Near(t).end : t \in Driving}) + 1))
    /\ Stay

(* The essential lists' scores and the most the rest could add decide      *)
(* whether the rest is looked up at all.                                   *)
MaxScoreVisit ==
    /\ Running("maxscore")
    /\ Driving # {}
    /\ ~BlocksHopeless
    /\ LET d == Candidate
           known == Sum(LAMBDA t : plan.score[t][d], Here(d) \intersect Driving)
           worth == Live(d) /\ ~(Full(heap) /\ known + Rest <= theta)
           sought == IF worth THEN SeekAll(AllTerms \ Essential, d) ELSE cursor
           met == {t \in AllTerms : sought[t] <= Size(t) /\ plan.list[t][sought[t]] = d}
           score == Sum(LAMBDA t : plan.score[t][d], met)
       IN  /\ heap' = IF worth /\ score >= theta THEN Offer(heap, score, d) ELSE heap
           /\ theta' = Threshold(heap')
           /\ Move([t \in AllTerms |-> IF t \in met THEN sought[t] + 1 ELSE sought[t]])

-----------------------------------------------------------------------------
(* bool_search_impl, terms that are all required: the shortest list drives,*)
(* the others follow, and once the heap is full the blocks in hand are     *)
(* weighed before anything is looked up.                                   *)

Driver == plan.bySize[1]
Exhausted == (\E t \in AllTerms : Size(t) = 0) \/ Driver \notin Active

(* The followers move up to the driver's document one after the other,     *)
(* until one is beyond it.                                                 *)
Beyond == {j \in 2..NTerms :
             LET t == plan.bySize[j]
                 i == Seek(t, At(Driver))
             IN  i > Size(t) \/ plan.list[t][i] # At(Driver)}
Followers(last) == {plan.bySize[j] : j \in 2..last}

MustStop ==
    /\ Running("must")
    /\ IF Exhausted THEN TRUE
       ELSE Beyond # {} /\ LET t == plan.bySize[Min(Beyond)] IN Seek(t, At(Driver)) > Size(t)
    /\ Stop

MustFollow ==
    /\ Running("must")
    /\ ~Exhausted
    /\ Beyond # {}
    /\ LET t == plan.bySize[Min(Beyond)]
           i == Seek(t, At(Driver))
       IN  /\ i <= Size(t)
           /\ Move([SeekAll(Followers(Min(Beyond)), At(Driver)) EXCEPT
                      ![Driver] = Seek(Driver, plan.list[t][i])])
    /\ Stay

(* Blocks are counted by position here; past the last block the list's own *)
(* bound and end stand in.                                                 *)
InHand(t) ==
    LET b == (Seek(t, At(Driver)) - 1) \div BlockSize + 1
    IN  IF b <= Len(plan.blocks[t]) THEN plan.blocks[t][b]
        ELSE [bound |-> Ub(t), end |-> Last(plan.list[t])]

MustVisit ==
    /\ Running("must")
    /\ ~Exhausted
    /\ Beyond = {}
    /\ LET d == At(Driver)
           hopeless == /\ Cardinality(heap) = query.k
                       /\ Sum(LAMBDA t : InHand(t).bound, AllTerms) <= Worst(heap).score
           past == Min({InHand(t).end : t \in AllTerms}) + 1
       IN  /\ heap' = IF ~hopeless /\ Live(d) THEN Offer(heap, Total(d), d) ELSE heap
           /\ Move([SeekAll(Followers(NTerms), d) EXCEPT
                      ![Driver] = IF hopeless THEN Seek(Driver, past) ELSE @ + 1])
    /\ UNCHANGED theta

-----------------------------------------------------------------------------
Next ==
    \/ Prepare
    \/ Bow
    \/ WandStop \/ WandAlign \/ WandSkip \/ WandScore
    \/ MaxScoreStop \/ MaxScoreSkip \/ MaxScoreVisit
    \/ MustStop \/ MustFollow \/ MustVisit

Done == pc = "done" /\ UNCHANGED vars

Spec == Init /\ [][Next \/ Done]_vars

-----------------------------------------------------------------------------
(* What a search owes: of all the documents that match, the k best, the    *)
(* earlier document first among equals.                                    *)
Matching == IF query.algo = "must"
            THEN {d \in Docs : Live(d) /\ \A t \in AllTerms : corpus.tf[t][d] > 0}
            ELSE Hits
Ranked == {[score |-> Total(d), ord |-> d] : d \in Matching}
KBest == {x \in Ranked : Cardinality({y \in Ranked : Better(y, x)}) < query.k}

(* Every algorithm gives exactly the k best of an exhaustive search, ties  *)
(* included: nothing it left out would have changed the answer             *)
(* (bm25_search_impl.hpp calls both prunings admissible).                   *)
PruningIsExact == pc = "done" => heap = KBest
=============================================================================

------------------------------ MODULE BoolQuery ------------------------------
(***************************************************************************)
(* Boolean, phrase and near queries from the words of the query to the     *)
(* page of hits: parse_query and parse_query_tree (src/bm25/               *)
(* query_parser.cpp), the flat and the tree evaluation and the phrase      *)
(* matcher (src/bm25/bm25_search_impl.hpp), and the loop of TextPlugin     *)
(* that merges the segments' answers, filters them and asks for more       *)
(* (src/search/text_plugin.cpp).                                           *)
(*                                                                         *)
(* A document is the sequence of its terms.  A query is a sequence of      *)
(* clauses, each with an operator and a symbol: a term or a parenthesis.   *)
(***************************************************************************)
EXTENDS Integers, Sequences, FiniteSets, FiniteSetsExt, SequencesExt

CONSTANTS
    Terms,      \* the words
    NSegs,      \* segments, searched in order
    Worth,      \* what a term adds to a document's score
    Libraries,  \* the document collections searched
    Queries,    \* what is asked
    Factor,     \* how much more is fetched when there is a filter,
    Floor       \* and at least how much (initial_k_req)

VARIABLES
    lib,        \* texts, their segment, who is live, who passes the filter
    query,      \* kind, clauses or words, slop, k, filtered?
    kreq,       \* how many candidates the next fetch asks for
    hits,       \* the hits of the last fetch
    pc          \* "fetch" or "done"

vars == <<lib, query, kreq, hits, pc>>

Docs == DOMAIN lib.text
Segs == 1..NSegs
InSeg(s) == {d \in Docs : lib.seg[d] = s}
Has(d, t) == t \in ToSet(lib.text[d])

(* A segment answers for a term when any of its documents ever held it. *)
Known(s, t) == \E d \in InSeg(s) : Has(d, t)
LiveWith(s, t) == {d \in InSeg(s) : d \in lib.live /\ Has(d, t)}

-----------------------------------------------------------------------------
(* Parsing. *)

Leaf(c) == [op |-> c.op, term |-> c.sym, kids |-> <<>>]
Group(op, kids) == [op |-> op, term |-> "", kids |-> kids]

(* parse_query: every word a clause of one group. *)
FlatTree(clauses) == Group("should", [i \in DOMAIN clauses |-> Leaf(clauses[i])])

(* parse_query_tree, with the groups still open as a stack: a closing      *)
(* parenthesis hands a group that is not empty to the one around it, one   *)
(* too many is ignored, and what is still open at the end is closed.       *)
Adopt(outer, kid) == [outer EXCEPT !.kids = Append(@, kid)]

Close(stack) ==
    LET kid == Last(stack)
        rest == Front(stack)
    IN  IF Len(stack) = 1 THEN stack
        ELSE IF kid.kids = <<>> THEN rest
        ELSE Front(rest) \o <<Adopt(Last(rest), kid)>>

Read(stack, c) ==
    CASE c.sym = "(" -> Append(stack, Group(c.op, <<>>))
      [] c.sym = ")" -> Close(stack)
      [] OTHER       -> Front(stack) \o <<Adopt(Last(stack), Leaf(c))>>

ParsedTree(clauses) ==
    LET open == FoldLeft(Read, <<Group("should", <<>>)>>, clauses)
    IN  FoldLeft(LAMBDA st, i : Close(st), open, open)[1]

-----------------------------------------------------------------------------
(* Flat evaluation, bool_search_impl. *)

(* collect_terms, one bucket. *)
Bucket(clauses, op) == {clauses[i].sym : i \in {i \in DOMAIN clauses : clauses[i].op = op}}

(* Terms the segment does not know are dropped while collecting.  A        *)
(* required one that was dropped empties the answer, but only when another *)
(* required one was kept or nothing else was asked for.                    *)
FlatDocs(s, clauses) ==
    LET must    == Bucket(clauses, "must")
        should  == Bucket(clauses, "should")
        mustNot == Bucket(clauses, "not")
        kept == {t \in must : Known(s, t)}
        some == {t \in should : Known(s, t)}
        only == must # {} /\ should = {} /\ mustNot = {}
        base == IF only \/ kept # {}
                THEN IF kept # must THEN {}
                     ELSE {d \in InSeg(s) : \A t \in must : d \in LiveWith(s, t)}
                ELSE UNION {LiveWith(s, t) : t \in some}
    IN  base \ UNION {LiveWith(s, t) : t \in mustNot}

-----------------------------------------------------------------------------
(* Tree evaluation, bool_tree_impl. *)

KidsOf(node, op) == SelectSeq(node.kids, LAMBDA c : c.op = op)

RECURSIVE Eval(_, _)
Eval(s, node) ==
    LET sets(op) == LET kids == KidsOf(node, op)
                    IN  {Eval(s, kids[i]) : i \in DOMAIN kids}
        base == IF sets("must") # {}
                THEN {d \in InSeg(s) : \A S \in sets("must") : d \in S}
                ELSE UNION sets("should")
    IN  IF node.term # "" THEN LiveWith(s, node.term)
        ELSE base \ UNION sets("not")

(* collect_pos: the terms that count are those under no exclusion. *)
RECURSIVE Scoring(_)
Scoring(node) ==
    IF node.op = "not" THEN {}
    ELSE IF node.term # "" THEN {node.term}
    ELSE UNION {Scoring(node.kids[i]) : i \in DOMAIN node.kids}

-----------------------------------------------------------------------------
(* The phrase and near matcher, phrase_search_impl.  A term may stand up   *)
(* to slop places further on than right behind the one before; the first   *)
(* such place is taken.                                                    *)

Places(d, t) == {i \in DOMAIN lib.text[d] : lib.text[d][i] = t}

Follow(d, words, slop, start) ==
    FoldLeft(LAMBDA prev, t :
                LET next == {i \in Places(d, t) : prev > 0 /\ prev < i /\ i <= prev + 1 + slop}
                IN  IF next = {} THEN 0 ELSE Min(next),
             start, Tail(words))

PhraseTf(d, words, slop) ==
    Cardinality({p \in Places(d, words[1]) : Follow(d, words, slop, p) # 0})

-----------------------------------------------------------------------------
(* One segment's best, and the merge of all of them. *)

Tree == IF query.kind = "flat" THEN FlatTree(query.clauses) ELSE ParsedTree(query.clauses)

Found(s) ==
    CASE query.kind = "flat" -> FlatDocs(s, query.clauses)
      [] query.kind = "tree" -> Eval(s, Tree)
      [] query.kind = "near" ->
            {d \in InSeg(s) : d \in lib.live /\ PhraseTf(d, query.words, query.slop) > 0}

Score(d) ==
    IF query.kind = "near" THEN PhraseTf(d, query.words, query.slop)
    ELSE MapThenSumSet(LAMBDA t : Worth[t], {t \in Scoring(Tree) : Has(d, t)})

(* Best score first; among equals the earlier segment, then the earlier    *)
(* document (sort_truncate sorts the segments' answers stably).            *)
Before(c, d) ==
    \/ Score(c) > Score(d)
    \/ Score(c) = Score(d) /\ lib.seg[c] < lib.seg[d]
    \/ Score(c) = Score(d) /\ lib.seg[c] = lib.seg[d] /\ c < d
Ranked(S) == SetToSortSeq(S, Before)

TakeFirst(q, n) == SubSeq(q, 1, IF n < Len(q) THEN n ELSE Len(q))

Candidates(n) ==
    TakeFirst(Ranked(UNION {ToSet(TakeFirst(Ranked(Found(s)), n)) : s \in Segs}), n)

(* materialize_hits: what the document table no longer knows as live goes, *)
(* and so does what the filter rejects.                                    *)
Passes(d) == d \notin lib.gone /\ (query.filtered => d \in lib.pass)

-----------------------------------------------------------------------------
Init ==
    /\ lib \in Libraries
    /\ query \in Queries
    /\ kreq = IF query.filtered THEN Max({query.k * Factor, Floor}) ELSE query.k
    /\ hits = <<>>
    /\ pc = "fetch"

(* The page as the first round left it. *)
Fetch_Once ==
    /\ pc = "fetch"
    /\ hits' = TakeFirst(SelectSeq(Candidates(kreq), Passes), query.k)
    /\ pc' = "done"
    /\ UNCHANGED <<lib, query, kreq>>

(* refetch_until_k: twice as many when filtering left too few and there    *)
(* may be more.                                                            *)
Fetch ==
    /\ pc = "fetch"
    /\ LET cand == Candidates(kreq)
           kept == TakeFirst(SelectSeq(cand, Passes), query.k)
       IN  /\ hits' = kept
           /\ IF Len(kept) >= query.k \/ Len(cand) < kreq
              THEN pc' = "done" /\ UNCHANGED kreq
              ELSE kreq' = 2 * kreq /\ UNCHANGED pc
    /\ UNCHANGED <<lib, query>>

Done == pc = "done" /\ UNCHANGED vars

Spec == Init /\ [][Fetch \/ Done]_vars

-----------------------------------------------------------------------------
(* What the documentation of the query syntax says a document must do to   *)
(* match (include/bitcask/query.hpp): be in every required part, in some   *)
(* optional one when none is required, and in no excluded one.             *)
RECURSIVE Matches(_, _)
Matches(d, node) ==
    LET kids(op) == ToSet(KidsOf(node, op))
    IN  IF node.term # "" THEN Has(d, node.term)
        ELSE /\ IF kids("must") # {} THEN \A c \in kids("must") : Matches(d, c)
                ELSE \E c \in kids("should") : Matches(d, c)
             /\ \A c \in kids("not") : ~Matches(d, c)

(* A near match is any way to place the words in order, each at most slop  *)
(* places behind where the phrase would have it.                           *)
Chains(d) == [DOMAIN query.words -> DOMAIN lib.text[d]]
NearMatch(d) ==
    \E p \in Chains(d) :
        /\ \A i \in DOMAIN query.words : lib.text[d][p[i]] = query.words[i]
        /\ \A i \in 2..Len(query.words) : p[i-1] < p[i] /\ p[i] <= p[i-1] + 1 + query.slop

Deserving == {d \in Docs :
    /\ d \in lib.live
    /\ Passes(d)
    /\ IF query.kind = "near" THEN NearMatch(d) ELSE Matches(d, Tree)}

(* The page of hits is the first k of all documents that match the query   *)
(* and the filter, in the order of the ranking: neither the split into     *)
(* segments, nor the number fetched per round, nor the way the query was   *)
(* evaluated shows.                                                        *)
PageIsExact == pc = "done" => hits = TakeFirst(Ranked(Deserving), query.k)
=============================================================================

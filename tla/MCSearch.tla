------------------------------ MODULE MCSearch ------------------------------
(***************************************************************************)
(* The text searches.  A behaviour is one of these, and the variables of   *)
(* the others do not change:                                               *)
(*   list   Postings: readers beside the one thread that writes            *)
(*   top    TopK: every index of four documents with two free terms and    *)
(*          one that every document holds once                             *)
(*   bool   BoolQuery: three documents in two segments, every short flat   *)
(*          query, queries with parentheses, phrases with and without slop *)
(*                                                                         *)
(* The passing run keeps out what README section 6 describes; Allowed lets *)
(* it in again:                                                            *)
(*   absent  a flat query for words a segment does not know                *)
(*   greedy  a phrase of three or more words with slop                     *)
(***************************************************************************)
EXTENDS Postings

CONSTANTS
    Parts,    \* the behaviours looked at
    Allowed

VARIABLES
    part,
    corpus, topQuery, plan, cursor, heap, theta, topPc,
    lib, query, kreq, hits, pc

lists == vars
tops  == <<corpus, topQuery, plan, cursor, heap, theta, topPc>>
pages == <<lib, query, kreq, hits, pc>>

\* Two words in one shard and one in another.
MCShardOf == [t \in Terms |-> IF t = "c" THEN 2 ELSE 1]
MCAsked == [kind : {"search"}, terms : {<<"a", "c">>}] \union [kind : {"df"}, terms : {<<"a">>}] \union
           [kind : {"phrase"}, terms : {<<"b", "a">>}] \union [kind : {"pattern"}, terms : {<<>>}]
MCContents == {c \in [Docs -> {{"a"}, {"a", "b"}, {"b", "c"}}] : \E d \in Docs : "c" \in c[d]}

-----------------------------------------------------------------------------
Four == 1..4
Indexes ==
    {[tf |-> <<f, g, [d \in Four |-> 1]>>, dl |-> [d \in Four |-> 1 + (d % 2)],
      live |-> Four \ gone, tail |-> gone # {}] :
        f \in [Four -> 0..2], g \in [Four -> 0..1], gone \in {{}, {2}}}

T == INSTANCE TopK WITH
    query <- topQuery, pc <- topPc,
    NTerms <- 3, NDocs <- 4, BlockSize <- 2, MaxDl <- 2, Corpora <- Indexes, Ks <- {2}

-----------------------------------------------------------------------------
Heavier == [t \in Terms |-> IF t = "b" THEN 2 ELSE 1]

Lib(text, gone, forgotten) ==
    [text |-> text, seg |-> [d \in DOMAIN text |-> IF d < 3 THEN 1 ELSE 2],
     live |-> DOMAIN text \ gone, gone |-> forgotten, pass |-> {2, 3}]

Short == {<<"a">>, <<"b">>, <<"a", "b">>, <<"b", "c", "a">>}
Long  == {<<"a", "b", "b", "c">>, <<"a", "b", "b", "a", "c">>, <<"b", "a", "b", "c">>}

Collections ==
    {Lib(f, {}, {}) : f \in [1..3 -> Short \union Long]} \union
    {Lib(f, {2}, {1}) : f \in [1..3 -> Short]}

Ops == {"must", "should", "not"}
Clauses == [op : Ops, sym : Terms]
Open == [op : Ops, sym : {"("}]
Shut == [op |-> "should", sym |-> ")"]

\* No word twice.
Distinct(q) == \A i, j \in DOMAIN q : (q[i].sym \in Terms /\ q[i].sym = q[j].sym) => i = j

FlatQueries == {q \in UNION {[1..n -> Clauses] : n \in 1..3} : Distinct(q)}

\* One or two groups with up to three words around and inside; a parenthesis may
\* stay open or be one too many.
TreeQueries ==
    {q \in UNION {{<<x, y, z, u>>, <<x, y, z, u, Shut>>, <<x, Shut, y, z, u>>} :
                     x \in Open, y \in Clauses, z \in Clauses \union Open, u \in Clauses} \union
            {<<y, x, z, Shut, u>> : x \in Open, y \in Clauses, z \in Clauses, u \in Clauses} : Distinct(q)}

Phrases == {<<"a", "b">>, <<"b", "a">>, <<"a", "b", "c">>}

Ask(kind, clauses, words, slop, k, f) ==
    [kind |-> kind, clauses |-> clauses, words |-> words, slop |-> slop, k |-> k, filtered |-> f]

Questions ==
    {Ask("flat", q, <<>>, 0, k, k = 1) : q \in FlatQueries, k \in {1, 2}} \union
    {Ask("tree", q, <<>>, 0, 2, FALSE) : q \in TreeQueries} \union
    {Ask("near", <<>>, w, slop, k, f) : w \in Phrases, slop \in 0..2, k \in {1, 2}, f \in BOOLEAN}

Q == INSTANCE BoolQuery WITH
    NSegs <- 2, Worth <- Heavier, Libraries <- Collections, Queries <- Questions,
    Factor <- 1, Floor <- 1

\* A segment that knows none of the required words answers with the optional ones.
AllRequiredUnknown ==
    LET must == Q!Bucket(query.clauses, "must")
    IN  /\ query.kind = "flat"
        /\ must # {}
        /\ \E s \in Q!Segs : \A t \in must : ~Q!Known(s, t)

\* The first place that fits need not be the right one.
GreedyChoice == query.kind = "near" /\ query.slop > 0 /\ Len(query.words) > 2

\* Short documents and few of them for the other kinds of query.
Fitting ==
    /\ query.kind # "near" => \A d \in Q!Docs : lib.text[d] \in Short
    /\ query.kind = "tree" => lib.gone = {} /\ lib.text[3] \in {<<"a">>, <<"a", "b">>}

-----------------------------------------------------------------------------
ListsAtRest == Init /\ has = (CHOOSE c \in Contents : TRUE)
NoTop  == corpus = 0 /\ topQuery = 0 /\ plan = 0 /\ cursor = 0 /\ heap = 0 /\ theta = 0 /\ topPc = 0
NoPage == lib = 0 /\ query = 0 /\ kreq = 0 /\ hits = 0 /\ pc = 0

SearchInit ==
    /\ part \in Parts
    /\ IF part = "list" THEN Init ELSE ListsAtRest
    /\ IF part = "top"  THEN T!Init ELSE NoTop
    /\ IF part = "bool"
       THEN /\ Q!Init /\ Fitting
            /\ "absent" \notin Allowed => ~AllRequiredUnknown
            /\ "greedy" \notin Allowed => ~GreedyChoice
       ELSE NoPage
SearchNext ==
    /\ part' = part
    /\ \/ part = "list" /\ Next /\ UNCHANGED <<tops, pages>>
       \/ part = "top" /\ T!Next /\ UNCHANGED <<lists, pages>>
       \/ part = "bool" /\ (Q!Fetch \/ Q!Done) /\ UNCHANGED <<lists, tops>>
SearchSpec == SearchInit /\ [][SearchNext]_<<part, lists, tops, pages>>

-----------------------------------------------------------------------------
\* Leaving documents and blocks out changes no answer (TopK), and the page is the
\* first k of the documents that match (BoolQuery).
AnswersAreExact ==
    /\ part = "top" => T!PruningIsExact
    /\ part = "bool" => Q!PageIsExact
=============================================================================

---------------------------- MODULE DiskSegments ----------------------------
(***************************************************************************)
(* The two immutable vector segments.  DiskANN: a graph is built by        *)
(* inserting every node twice, in any order, into a random graph: a beam   *)
(* search proposes neighbours, a pruning rule keeps some and a few far     *)
(* ones, edges go back, nodes nobody points to are put into a neighbour's  *)
(* list; a beam search over the graph answers.  IVF: records lie in lists, *)
(* a coarse code picks candidates in the lists probed, a heap keeps the    *)
(* best of those that are live.                                            *)
(*                                                                         *)
(* src/vector/diskann.cpp and src/vector/ivf_rq.cpp.  Vectors are points   *)
(* of a line whose distances are all different, so a neighbour list is a   *)
(* set; the files' headers and checksums are left out.                     *)
(***************************************************************************)
EXTENDS Integers, FiniteSets, FiniteSetsExt

CONSTANTS
    Layouts,   \* the placements of the nodes: functions from Node to the line
    N,         \* bound: nodes
    R,         \* the greatest number of neighbours
    Entries,   \* kEntries: how many starts a search takes beside the medoid
    Lists,     \* nlist
    Coarse,    \* coarse_c: candidates the coarse codes leave
    Randoms    \* bound: the random graphs a build may begin with

DiskSegmentsAssumption ==
    /\ N \in Nat \ {0, 1} /\ R \in 1 .. N - 1 /\ Entries \in Nat \ {0}
    /\ Lists \in Nat \ {0} /\ Coarse \in Nat \ {0}

Node == 0 .. N - 1

VARIABLES
    at,     \* where the nodes lie
    medoid, \* where searches begin
    nbrs,   \* the neighbours of each node
    build,  \* the pass, the nodes still to insert, and the phase
    list    \* the list each record of an IVF segment lies in, which k-means may make any

vars == <<at, medoid, nbrs, build, list>>

Dist(a, b) == IF at[a] > at[b] THEN at[a] - at[b] ELSE at[b] - at[a]
To(v) == [u \in Node |-> Dist(v, u)]
Nearest(S, from) == CHOOSE v \in S : \A u \in S : from[v] <= from[u]
Farthest(S, from) == CHOOSE v \in S : \A u \in S : from[v] >= from[u]
\* The n of S that lie nearest.
Best(n, S, from) == {v \in S : Cardinality({u \in S : from[u] < from[v]}) < n}

\* seed_entries
Starts ==
    LET step == Max({1, N \div Entries})
    IN  {medoid} \union {i \in Node : i >= step \div 2 /\ (i - step \div 2) % step = 0}

\* R random neighbours each, none of them the node itself; k-means needs no graph.
Init ==
    /\ at \in Layouts /\ medoid \in Node
    /\ nbrs \in Randoms /\ \A v \in Node : v \notin nbrs[v] /\ Cardinality(nbrs[v]) = R
    /\ \/ build = [pass |-> 1, todo |-> Node, phase |-> "insert"] /\ list = [v \in Node |-> 1]
       \/ build = [pass |-> 0, todo |-> {}, phase |-> "lists"] /\ list \in [Node -> 1 .. Lists]
          /\ medoid = 0 /\ nbrs = CHOOSE g \in Randoms : TRUE

-----------------------------------------------------------------------------
(* DiskannSegment::build *)

\* build_beam and the loop of search: expand the nearest of the pool that is not
\* expanded, let its neighbours into the pool of the l nearest.
RECURSIVE Beam(_, _, _, _, _)
Beam(l, pool, seen, expanded, from) ==
    LET open == pool \ expanded
        u == Nearest(open, from)
        pool2 == Best(l, pool \union (nbrs[u] \ seen), from)
    IN  IF open = {} THEN expanded
        ELSE Beam(l, pool2, seen \union nbrs[u], expanded \union {u}, from)

Walk(l, from) == Beam(l, Best(l, Starts, from), Starts, {}, from)

\* robust_prune: the nearest first, but none that one kept before is nearer to by
\* the factor alpha = 6/5; then from the far end whatever fits.
Covered(v, u, p) == 6 * Dist(v, u) <= 5 * Dist(p, u)

RECURSIVE Near(_, _, _, _)
Near(p, cand, cap, kept) ==
    LET v == Nearest(cand, To(p))
    IN  IF cand = {} \/ Cardinality(kept) = cap THEN kept
        ELSE Near(p, {u \in cand \ {v} : ~Covered(v, u, p)}, cap, kept \union {v})

Bridges == Max({2, R \div 8})
NearCap == IF R > Bridges THEN R - Bridges ELSE R


Pruned(p, cand) ==
    LET near == Near(p, cand \ {p}, NearCap, {})
    IN  near \union Best(R - Cardinality(near), cand \ (near \union {p}), [x \in Node |-> 0 - Dist(p, x)])

\* p goes back into the lists of its neighbours, pruned where they are full.

Backlinked(g, p) ==
    [v \in Node |->
        IF v \notin g[p] \/ p \in g[v] THEN g[v]
        ELSE IF Cardinality(g[v]) < R THEN g[v] \union {p}
        ELSE Pruned(v, g[v] \union {p})]

\* Whom nobody points to when the passes are over; the medoid needs no edge.
Unpointed(g) == {v \in Node \ {medoid} : \A u \in Node : v \notin g[u]}

Insert(p) ==
    LET cand == Walk(N, To(p)) \union nbrs[p]
        g == Backlinked([nbrs EXCEPT ![p] = Pruned(p, cand)], p)
        todo == build.todo \ {p}
    IN  /\ build.phase = "insert" /\ p \in build.todo
        /\ nbrs' = g
        /\ build' = IF todo # {} THEN [build EXCEPT !.todo = todo]
                    ELSE IF build.pass = 1 THEN [build EXCEPT !.pass = 2, !.todo = Node]
                    ELSE [build EXCEPT !.phase = "rescue", !.todo = Unpointed(g)]
        /\ UNCHANGED <<at, medoid, list>>

\* The node goes into the list of the node nearest to it, for the farthest there
\* if the list is full, which may cost that one its only edge.
Rescue ==
    LET o == Min(build.todo)
        t == Nearest(Node \ {o}, To(o))
        worst == Farthest(nbrs[t], To(t))
        out == IF Cardinality(nbrs[t]) < R THEN {} ELSE {worst}
    IN  /\ build.phase = "rescue" /\ build.todo # {}
        /\ nbrs' = [nbrs EXCEPT ![t] = (@ \ out) \union {o}]
        /\ build' = [build EXCEPT !.todo = @ \ {o}]
        /\ UNCHANGED <<at, medoid, list>>

Written ==
    /\ build.phase = "rescue" /\ build.todo = {}
    /\ build' = [build EXCEPT !.phase = "open"]
    /\ UNCHANGED <<at, medoid, nbrs, list>>

\* DiskannSegment::search: what the walk expanded and is live, the k best; the
\* pool has room for k.
GraphAnswer(q, k, l, live) ==
    LET pool == Min({Max({l, k}), N})
    IN  Best(k, Walk(pool, To(q)) \intersect live, To(q))

-----------------------------------------------------------------------------
(* IvfSegment::build and search *)

Count(c) == Cardinality({v \in Node : list[v] = c})
\* cbase: where the records of a list begin, after those of the lists before.
Base_Shared(c) == Cardinality({v \in Node : list[v] < c - 1})
Base(c) == Cardinality({v \in Node : list[v] < c})
\* The cursor of its list when the record is written; codes go to the same slot.
Slot(v) == Base(list[v]) + Cardinality({u \in Node : u < v /\ list[u] = list[v]})

\* Written in the order of the records: the last written to a slot stays.
AtSlot(s) == {v \in Node : Slot(v) = s /\ \A u \in Node : Slot(u) = s => u <= v}
Scanned(c) == UNION {AtSlot(s) : s \in Base(c) .. Base(c) + Count(c) - 1}

\* The lists probed are the likeliest, or all of them.
Probes(nprobe) == IF nprobe >= Lists THEN {1 .. Lists} ELSE kSubset(nprobe, 1 .. Lists)

\* The candidates the coarse codes leave, whose order says little; the live ones
\* are told apart only after that.
Candidates(S) == IF Cardinality(S) <= Coarse THEN {S} ELSE kSubset(Coarse, S)

ListAnswers(q, k, nprobe, live) ==
    {Best(k, c \intersect live, To(q)) :
        c \in UNION {Candidates(UNION {Scanned(x) : x \in P}) : P \in Probes(nprobe)}}

-----------------------------------------------------------------------------

Next == (\E p \in Node : Insert(p)) \/ Rescue \/ Written

Spec == Init /\ [][Next]_vars

Open == build.phase = "open"
Reached(S) == UNION {nbrs[v] : v \in S}

\* What a search can reach from its starts.
Reachable ==
    LET grow[n \in 0 .. N] == IF n = 0 THEN Starts ELSE grow[n - 1] \union Reached(grow[n - 1])
    IN  grow[N]

-----------------------------------------------------------------------------

\* No list outgrows its block in the file, none holds its own node, and a full
\* pool answers with the nearest live ones of all that can be reached; so every
\* vector that has an edge from a start is found by its own query.
GraphSearchIsExact ==
    /\ \A v \in Node : Cardinality(nbrs[v]) <= R /\ v \notin nbrs[v]
    /\ Open => \A q \in Node, k \in 1 .. 2, live \in SUBSET Node :
                  GraphAnswer(q, k, N, live) = Best(k, Reachable \intersect live, To(q))

\* Every vector is reachable when the file is written.
EveryoneReachable == Open => Reachable = Node

\* All lists probed, the answer is that of comparing every live vector.
AllListsAreExact ==
    build.phase = "lists" => \A q \in Node, k \in 1 .. 2, live \in SUBSET Node :
              ListAnswers(q, k, Lists, live) = {Best(k, live, To(q))}
=============================================================================

-------------------------------- MODULE Hnsw --------------------------------
(***************************************************************************)
(* The navigable graph of the vector index (src/vector/hnsw.cpp): one      *)
(* writer inserts nodes and rebuilds the graph without its dead ones, a    *)
(* reader searches meanwhile and takes no lock.  A node is published with  *)
(* empty lists and linked afterwards, layer by layer, list by list; a      *)
(* reader copies one list at a time (its sequence number makes that copy   *)
(* atomic) and passes over nodes beyond the count it read at the start.    *)
(*                                                                         *)
(* A vector is a point on a line, its distance to another the difference;  *)
(* the quantised copies, which only replace that distance, are left out.   *)
(***************************************************************************)
EXTENDS Integers, Sequences, FiniteSets, SequencesExt, FiniteSetsExt

CONSTANTS
    Points,       \* the vectors
    Queries,      \* the vectors asked for
    M,            \* HnswConfig::M: neighbours in the upper layers, twice as many in layer 0
    Ef,           \* ef_construction, and ef of a search
    TopLevel,     \* bound: the greatest level drawn (31 in the code)
    MaxNodes,     \* bound: inserts
    MaxDead,      \* bound: dead documents
    MaxRebuilds,  \* bound: rebuilds
    MaxSearches   \* bound: searches

HnswAssumption == M \in Nat /\ M >= 2 /\ Ef \in Nat \ {0} /\ Points \union Queries \subseteq Int

VARIABLES
    graphs,  \* the graphs ever made; the last one is hnsw_
    dead,    \* the ords the document table has as dead
    wr,      \* the writer: the insert in progress
    rd,      \* the reader: the search in progress
    used     \* counters for the bounds

vars == <<graphs, dead, wr, rd, used>>

NoEntry == [lvl |-> -1, id |-> 0]
NewGraph == [nodes |-> <<>>, entry |-> NoEntry, max |-> 0]
Resting == [pc |-> "idle", id |-> 0, layer |-> 0, cur |-> 0, todo |-> <<>>]
NoSearch == [pc |-> "idle", q |-> 0, g |-> 0, n |-> 0, layer |-> 0, from |-> 0, cur |-> 0,
             cands |-> {}, top |-> {}, seen |-> {}, due |-> {}, hits |-> <<>>]

Init ==
    /\ graphs = <<NewGraph>>
    /\ dead = {} /\ wr = Resting /\ rd = NoSearch
    /\ used = [nodes |-> 0, rebuilds |-> 0, searches |-> 0]

-----------------------------------------------------------------------------
(* Candidates are pairs of a distance and an id, ordered as pairs are. *)

Abs(x) == IF x < 0 THEN -x ELSE x
Dist(nodes, q, id) == Abs(q - nodes[id].pt)
Cand(nodes, q, id) == <<Dist(nodes, q, id), id>>
Before(a, b) == a[1] < b[1] \/ (a[1] = b[1] /\ a[2] < b[2])
Nearest(cs) == CHOOSE c \in cs : \A d \in cs : c = d \/ Before(c, d)
Furthest(cs) == CHOOSE c \in cs : \A d \in cs : c = d \/ Before(d, c)
Ascending(cs) == SetToSortSeq(cs, Before)
Cap(layer) == IF layer = 0 THEN 2 * M ELSE M

\* greedy_closest, the neighbours of one node: the first of the nearest, if nearer.
Closer(nodes, q, cur, list, n) ==
    FoldLeft(LAMBDA best, id : IF id <= n /\ Dist(nodes, q, id) < Dist(nodes, q, best) THEN id ELSE best,
             cur, list)

\* search_layer: the candidates still to expand, the best so far, the ids seen.
Start(nodes, q, cur) ==
    [cands |-> {Cand(nodes, q, cur)}, top |-> {Cand(nodes, q, cur)}, seen |-> {cur}]

Converged(s) ==
    s.cands = {} \/ (Nearest(s.cands)[1] > Furthest(s.top)[1] /\ Cardinality(s.top) >= Ef)


Meet(s, nodes, q, id, n) ==
    LET c == Cand(nodes, q, id)
        top == s.top \union {c}
    IN  IF id > n \/ id \in s.seen THEN s
        ELSE IF Cardinality(s.top) < Ef \/ c[1] < Furthest(s.top)[1]
        THEN [seen |-> s.seen \union {id}, cands |-> s.cands \union {c},
              top |-> IF Cardinality(top) > Ef THEN top \ {Furthest(top)} ELSE top]
        ELSE [s EXCEPT !.seen = @ \union {id}]

Expand(s, nodes, q, layer, n) ==
    LET c == Nearest(s.cands)
    IN  FoldLeft(LAMBDA t, id : Meet(t, nodes, q, id, n),
                 [s EXCEPT !.cands = @ \ {c}], nodes[c[2]].adj[layer])

\* select_neighbors: those nearer to q than to any picked before; then the nearest others.
Apart(nodes, picked, c) ==
    \A i \in DOMAIN picked : Dist(nodes, nodes[c[2]].pt, picked[i][2]) >= c[1]
Selected(nodes, cands, m) ==
    LET picked == FoldLeft(LAMBDA p, c : IF Len(p) < m /\ Apart(nodes, p, c) THEN Append(p, c) ELSE p,
                           <<>>, cands)
        others == SelectSeq(cands, LAMBDA c : c \notin ToSet(picked))
        filled == picked \o others
    IN  IF Len(cands) <= m THEN cands ELSE SubSeq(filled, 1, m)

IdsOf(cands) == [i \in DOMAIN cands |-> cands[i][2]]

-----------------------------------------------------------------------------
(* insert *)

Cur == Len(graphs)
Graph == graphs[Cur]

\* The writer's own searches: it alone changes the graph.
RECURSIVE Descend(_, _, _, _, _, _), Run(_, _, _, _, _)
Descend(nodes, q, cur, from, to, n) ==
    IF from <= to THEN cur
    ELSE LET next == Closer(nodes, q, cur, nodes[cur].adj[from], n)
         IN  IF next = cur THEN Descend(nodes, q, cur, from - 1, to, n)
             ELSE Descend(nodes, q, next, from, to, n)
Run(s, nodes, q, layer, n) ==
    IF Converged(s) THEN s.top ELSE Run(Expand(s, nodes, q, layer, n), nodes, q, layer, n)

Lower(a, b) == IF a < b THEN a ELSE b

Promoted_AtOnce(g, id, lvl) == IF g.entry.lvl < lvl THEN [lvl |-> lvl, id |-> id] ELSE g.entry

\* Only the first node is the entry as soon as it is published.
Promoted(g, id, lvl) == IF g.entry = NoEntry THEN [lvl |-> lvl, id |-> id] ELSE g.entry

Insert(pt, lvl) ==
    LET ord == used.nodes + 1
        id == Len(Graph.nodes) + 1
        node == [ord |-> ord, pt |-> pt, lvl |-> lvl, adj |-> [l \in 0..lvl |-> <<>>]]
        nodes == Append(Graph.nodes, node)
    IN  /\ wr.pc = "idle" /\ used.nodes < MaxNodes
        /\ used' = [used EXCEPT !.nodes = ord]
        /\ graphs' = [graphs EXCEPT ![Cur] = [nodes |-> nodes, max |-> ord, entry |-> Promoted(@, id, lvl)]]
        /\ wr' = IF Graph.entry = NoEntry THEN wr
                 ELSE [Resting EXCEPT !.pc = "forward", !.id = id, !.layer = Lower(lvl, Graph.entry.lvl),
                        !.cur = Descend(nodes, pt, Graph.entry.id, Graph.entry.lvl, lvl, id - 1)]
        /\ UNCHANGED <<dead, rd>>

Forward ==
    LET nodes == Graph.nodes  q == nodes[wr.id].pt
        found == Ascending(Run(Start(nodes, q, wr.cur), nodes, q, wr.layer, wr.id - 1))
        picked == IdsOf(Selected(nodes, found, M))
    IN  /\ wr.pc = "forward"
        /\ graphs' = [graphs EXCEPT ![Cur].nodes[wr.id].adj[wr.layer] = picked]
        /\ wr' = [wr EXCEPT !.pc = "back", !.cur = found[1][2], !.todo = picked]
        /\ UNCHANGED <<dead, rd, used>>

\* A full list is chosen anew, the new node among the old ones.
Linked(nodes, nid, layer, id) ==
    LET list == nodes[nid].adj[layer]
        pool == Ascending({Cand(nodes, nodes[nid].pt, x) : x \in ToSet(list) \union {id}})
    IN  IF Len(list) < Cap(layer) THEN Append(list, id)
        ELSE IdsOf(Selected(nodes, pool, Cap(layer)))

Back ==
    LET nid == Head(wr.todo)
    IN  /\ wr.pc = "back" /\ wr.todo # <<>>
        /\ graphs' = [graphs EXCEPT ![Cur].nodes[nid].adj[wr.layer] =
                        Linked(Graph.nodes, nid, wr.layer, wr.id)]
        /\ wr' = [wr EXCEPT !.todo = Tail(@)]
        /\ UNCHANGED <<dead, rd, used>>

NextLayer ==
    /\ wr.pc = "back" /\ wr.todo = <<>>
    /\ wr' = IF wr.layer = 0 THEN Resting ELSE [wr EXCEPT !.pc = "forward", !.layer = @ - 1]
    /\ graphs' = IF wr.layer = 0 /\ Graph.nodes[wr.id].lvl > Graph.entry.lvl
                 THEN [graphs EXCEPT ![Cur].entry = [lvl |-> Graph.nodes[wr.id].lvl, id |-> wr.id]]
                 ELSE graphs
    /\ UNCHANGED <<dead, rd, used>>

-----------------------------------------------------------------------------
(* A document is overwritten or removed; VectorPlugin::rebuild, clone_live. *)

Kill(id) ==
    /\ wr.pc = "idle" /\ Graph.nodes[id].ord \notin dead /\ Cardinality(dead) < MaxDead
    /\ dead' = dead \union {Graph.nodes[id].ord}
    /\ UNCHANGED <<graphs, wr, rd, used>>

Alive(nodes, id) == nodes[id].ord \notin dead

\* The live neighbours; if there are none, those of the dead neighbours.
Bridged(nodes, id, l) ==
    LET list == nodes[id].adj[l]
        alive == SelectSeq(list, LAMBDA x : Alive(nodes, x))
        around(x) == SelectSeq(nodes[x].adj[l], LAMBDA y : Alive(nodes, y) /\ y # id)
        joined == FoldLeft(LAMBDA acc, x : FoldLeft(LAMBDA a, y : IF y \in ToSet(a) THEN a ELSE Append(a, y),
                                                    acc, around(x)),
                           <<>>, list)
    IN  IF alive # <<>> THEN alive ELSE SubSeq(joined, 1, Lower(Len(joined), Cap(l)))

CloneLive(g) ==
    LET kept == SetToSortSeq({id \in DOMAIN g.nodes : Alive(g.nodes, id)}, <)
        new(id) == CHOOSE i \in DOMAIN kept : kept[i] = id
        renamed(list) == [i \in DOMAIN list |-> new(list[i])]
        nodes == [i \in DOMAIN kept |->
                    [g.nodes[kept[i]] EXCEPT !.adj = [l \in DOMAIN @ |-> renamed(Bridged(g.nodes, kept[i], l))]]]
        best == CHOOSE i \in DOMAIN kept : \A j \in DOMAIN kept :
                    nodes[j].lvl < nodes[i].lvl \/ (nodes[j].lvl = nodes[i].lvl /\ i <= j)
    IN  [nodes |-> nodes, max |-> g.max,
         entry |-> IF kept = <<>> THEN NoEntry ELSE [lvl |-> nodes[best].lvl, id |-> best]]

Rebuild ==
    /\ wr.pc = "idle" /\ used.rebuilds < MaxRebuilds /\ dead # {}
    /\ used' = [used EXCEPT !.rebuilds = @ + 1]
    /\ graphs' = Append(graphs, CloneLive(Graph))
    /\ UNCHANGED <<dead, wr, rd>>

-----------------------------------------------------------------------------
(* search: the graph's pointer, its entry, then its count. *)

Busy == IF wr.pc = "idle" THEN 0 ELSE wr.id
Due == {Graph.nodes[id].ord : id \in (DOMAIN Graph.nodes) \ {Busy}} \ dead

Ask(q) ==
    /\ rd.pc = "idle" /\ used.searches < MaxSearches
    /\ used' = [used EXCEPT !.searches = @ + 1]
    /\ rd' = [NoSearch EXCEPT !.pc = IF Graph.entry = NoEntry THEN "filter" ELSE "count", !.q = q, !.g = Cur,
                !.layer = Graph.entry.lvl, !.from = Graph.entry.id, !.cur = Graph.entry.id, !.due = Due]
    /\ UNCHANGED <<graphs, dead, wr>>

Nodes == graphs[rd.g].nodes

ReadCount ==
    /\ rd.pc = "count"
    /\ rd' = [rd EXCEPT !.pc = "greedy", !.n = Len(Nodes)]
    /\ UNCHANGED <<graphs, dead, wr, used>>

Greedy ==
    LET next == Closer(Nodes, rd.q, rd.cur, Nodes[rd.cur].adj[rd.layer], rd.n)
        s == Start(Nodes, rd.q, rd.cur)
    IN  /\ rd.pc = "greedy"
        /\ rd' = IF rd.layer = 0
                 THEN [rd EXCEPT !.pc = "layer", !.cands = s.cands, !.top = s.top, !.seen = s.seen]
                 ELSE IF next = rd.cur THEN [rd EXCEPT !.layer = @ - 1] ELSE [rd EXCEPT !.cur = next]
        /\ UNCHANGED <<graphs, dead, wr, used>>

SearchLayer ==
    LET s == [cands |-> rd.cands, top |-> rd.top, seen |-> rd.seen]
        t == Expand(s, Nodes, rd.q, 0, rd.n)
    IN  /\ rd.pc = "layer"
        /\ rd' = IF Converged(s) THEN [rd EXCEPT !.pc = "filter", !.cands = {}]
                 ELSE [rd EXCEPT !.cands = t.cands, !.top = t.top, !.seen = t.seen]
        /\ UNCHANGED <<graphs, dead, wr, used>>

\* The dead are navigated through and dropped from the answer.
Filter ==
    /\ rd.pc = "filter"
    /\ rd' = [rd EXCEPT !.pc = "done", !.seen = {}, !.top = {}, !.cands = {},
                !.hits = SelectSeq(IdsOf(Ascending(rd.top)), LAMBDA id : Alive(Nodes, id))]
    /\ UNCHANGED <<graphs, dead, wr, used>>

Done ==
    /\ rd.pc = "done"
    /\ rd' = NoSearch
    /\ UNCHANGED <<graphs, dead, wr, used>>

-----------------------------------------------------------------------------
Write ==
    \/ \E pt \in Points, lvl \in 0..TopLevel : Insert(pt, lvl)
    \/ Forward \/ Back \/ NextLayer \/ Rebuild
    \/ \E id \in DOMAIN Graph.nodes : Kill(id)

Search == (\E q \in Queries : Ask(q)) \/ ReadCount \/ Greedy \/ SearchLayer \/ Filter \/ Done

Next == Write \/ Search

Spec == Init /\ [][Next]_vars

-----------------------------------------------------------------------------
\* A list holds at most its capacity, of other published nodes, each once, that
\* have the layer it is in; ords ascend with ids; the entry is a node, and its
\* level is the level of that node.
GraphSound(g) ==
    /\ g.entry # NoEntry => g.entry.id \in DOMAIN g.nodes /\ g.nodes[g.entry.id].lvl = g.entry.lvl
    /\ \A i, j \in DOMAIN g.nodes : i < j => g.nodes[i].ord < g.nodes[j].ord
    /\ \A id \in DOMAIN g.nodes : \A l \in 0 .. g.nodes[id].lvl :
        LET list == g.nodes[id].adj[l]
        IN  /\ Len(list) <= Cap(l) /\ IsInjective(list)
            /\ \A x \in ToSet(list) : x \in DOMAIN g.nodes \ {id} /\ g.nodes[x].lvl >= l

\* Whatever the writer is in the middle of, a reader stands on nodes published
\* before it read the count and only asks them for layers they have: a list of
\* another layer would be memory of another node.
ReadsInside ==
    /\ \A i \in DOMAIN graphs : GraphSound(graphs[i])
    /\ rd.pc = "count" => rd.cur <= Len(Nodes)
    /\ rd.pc \in {"greedy", "layer"} =>
        /\ rd.n <= Len(Nodes)
        /\ rd.cur <= rd.n /\ Nodes[rd.cur].lvl >= rd.layer
        /\ \A id \in rd.seen : id <= rd.n

\* A search that may look at every node (Ef >= MaxNodes) finds every document
\* whose insert had returned when it began and that still lives, each once and
\* the nearest first, in the old graph or in a rebuilt one, however many inserts
\* it overlapped.
SearchFindsAll ==
    rd.pc = "done" =>
        LET ords == [i \in DOMAIN rd.hits |-> Nodes[rd.hits[i]].ord]
        IN  /\ rd.due \ dead \subseteq ToSet(ords)
            /\ IsInjective(ords)
            /\ \A i, j \in DOMAIN rd.hits : i < j => Dist(Nodes, rd.q, rd.hits[i]) <= Dist(Nodes, rd.q, rd.hits[j])
=============================================================================

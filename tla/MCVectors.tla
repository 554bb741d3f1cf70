----------------------------- MODULE MCVectors -----------------------------
(***************************************************************************)
(* The vector indexes.  A behaviour is one of these, and the variables of  *)
(* the others do not change:                                               *)
(*   sealed  SealedVector: sealed segments beside a growing graph          *)
(*   files   VectorFiles: the chain of files a graph is kept in            *)
(*   graph   Hnsw: searches beside an insert and a rebuild                 *)
(*   disk    DiskSegments: the graph and the lists built into a segment    *)
(*                                                                         *)
(* The passing run keeps out what README section 6 describes; Allowed lets *)
(* it in again.  In SealedVector, "gate" and "straddle"; in Hnsw:          *)
(*   stranded  a search that came to the node being inserted by an upper   *)
(*             layer goes down to a layer where that node has no list yet  *)
(*   cut       a rebuild that leaves a live node without a path to it      *)
(***************************************************************************)
EXTENDS SealedVector, FiniteSets, TLC

CONSTANTS
    Parts     \* the behaviours looked at

VARIABLES
    part,
    fdocs, inodes, fdisk, graph, held, self, fstep, fused,
    graphs, dead, wr, rd, gused,
    at, medoid, nbrs, build, list

sealed == vars
files  == <<fdocs, inodes, fdisk, graph, held, self, fstep, fused>>
hnsw   == <<graphs, dead, wr, rd, gused>>
disks  == <<at, medoid, nbrs, build, list>>

F == INSTANCE VectorFiles WITH
    docs <- fdocs, disk <- fdisk, step <- fstep, used <- fused,
    MaxOrd <- 3, MaxChain <- 2, MaxFlushes <- 3, MaxRebuilds <- 1, MaxCrashes <- 2, MaxFails <- 1

-----------------------------------------------------------------------------
G == INSTANCE Hnsw WITH
    used <- gused, Points <- {1, 3}, Queries <- {1}, M <- 2, Ef <- 4, TopLevel <- 1,
    MaxNodes <- 4, MaxDead <- 1, MaxRebuilds <- 1, MaxSearches <- 1

NoStranded ==
    rd.pc = "greedy" /\ rd'.layer < rd.layer /\ rd.from # wr.id =>
        ~(wr.pc # "idle" /\ rd.g = G!Cur /\ rd.cur = wr.id
          /\ G!Nodes[wr.id].adj[rd.layer - 1] = <<>>)

\* What can be reached from the entry in layer 0.
RECURSIVE Closure(_, _)
Closure(nodes, ids) ==
    LET more == ids \union UNION {ToSet(nodes[id].adj[0]) : id \in ids}
    IN  IF more = ids THEN ids ELSE Closure(nodes, more)
Whole(g) == IF g.entry = G!NoEntry THEN TRUE ELSE Closure(g.nodes, {g.entry.id}) = DOMAIN g.nodes

NoCut ==
    IF Len(graphs') > Len(graphs) /\ Whole(G!Graph) THEN Whole(graphs'[Len(graphs')]) ELSE TRUE

\* A finished search is put away at once: it changes nothing for the others.
Prompt == rd.pc = "done" => rd' # rd

\* A search before three vectors were inserted has nothing to miss.
LateSearch == rd.pc = "idle" /\ rd' # rd => gused.nodes >= 3
UsefulKill == dead' # dead => gused.nodes >= 3

GraphCalm ==
    /\ LateSearch
    /\ UsefulKill
    /\ Prompt
    /\ "stranded" \notin Allowed => NoStranded
    /\ "cut" \notin Allowed => NoCut

-----------------------------------------------------------------------------
\* Marks of a ruler out of order: their distances are all different.
Placements == {[v \in 0..5 |-> <<9, 0, 22, 1, 15, 4>>[v + 1]]}
\* The next nodes, or those before.
Circles == {[v \in 0..5 |-> {(v + s + i) % 6 : i \in 0..2}] : s \in {1, 3}}

D == INSTANCE DiskSegments WITH
    Layouts <- Placements, Randoms <- Circles, N <- 6, R <- 3, Entries <- 1,
    Lists <- 2, Coarse <- 6

-----------------------------------------------------------------------------
NoFiles == fdocs = 0 /\ inodes = 0 /\ fdisk = 0 /\ graph = 0 /\ held = 0 /\ self = 0 /\ fstep = 0 /\ fused = 0
NoGraph == graphs = 0 /\ dead = 0 /\ wr = 0 /\ rd = 0 /\ gused = 0
NoDisk  == at = 0 /\ medoid = 0 /\ nbrs = 0 /\ build = 0 /\ list = 0

VectorsInit ==
    /\ part \in Parts /\ Init
    /\ IF part = "files" THEN F!Init ELSE NoFiles
    /\ IF part = "graph" THEN G!Init ELSE NoGraph
    /\ IF part = "disk"  THEN D!Init ELSE NoDisk
VectorsNext ==
    /\ part' = part
    /\ \/ part = "sealed" /\ Next /\ UNCHANGED <<files, hnsw, disks>>
       \/ part = "files" /\ F!Next /\ UNCHANGED <<sealed, hnsw, disks>>
       \/ part = "graph" /\ G!Next /\ GraphCalm /\ UNCHANGED <<sealed, files, disks>>
       \/ part = "disk" /\ D!Next /\ UNCHANGED <<sealed, files, hnsw>>
VectorsSpec == VectorsInit /\ [][VectorsNext]_<<part, sealed, files, hnsw, disks>>

-----------------------------------------------------------------------------
\* Every live vector is held by one of segment and graph and a search that moves
\* from one to the other finds each (SealedVector); after any crash the committed
\* chain opens, every vector is read at the place that is its own, and none is
\* missing (VectorFiles).
VectorFilesSound ==
    /\ part = "sealed" => HeldOnce /\ SearchFindsAll /\ CommittedOpens
    /\ part = "files" => F!VectorsAreTheirs /\ F!NothingMissing /\ F!CommittedOpens

\* A search beside an insert and a rebuild reads inside the graph and finds every
\* live vector that was there when it began (Hnsw).
GraphSearchSound == part = "graph" => G!ReadsInside /\ G!SearchFindsAll

\* A search of a segment on disk that may look at everything finds what a scan of
\* all its vectors finds (DiskSegments).
DiskSearchIsExact == part = "disk" => D!GraphSearchIsExact /\ D!AllListsAreExact
ASSUME F!VectorFilesAssumption
ASSUME G!HnswAssumption
ASSUME D!DiskSegmentsAssumption
=============================================================================

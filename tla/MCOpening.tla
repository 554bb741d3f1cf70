----------------------------- MODULE MCOpening -----------------------------
(***************************************************************************)
(* How a host opens databases and calls them.  A behaviour is one of these *)
(* and the variables of the others do not change:                          *)
(*   locks    Opening: two processes, a writer and a read-only or writing  *)
(*            handle of one, a writer of the other                         *)
(*   calls    CApi: results of up to two items, batches of three           *)
(*   process  CProcess: two databases with search and one without          *)
(***************************************************************************)
EXTENDS Opening, TLC

CONSTANTS p1, p2, h1, h2, h3, d1, d2, d3

ProcOfHandle == (h1 :> p1) @@ (h2 :> p1) @@ (h3 :> p2)

\* No property is about what follows the removal of a living handle's lock,
\* and the processes crash once, whichever it is.
BeforeRobbery == ~hist.robbed /\ proc[p1].pid + proc[p2].pid <= 3

VARIABLES part, call, batch, meta, db, pool, arena, limits, shutdown, promised

C == INSTANCE CApi WITH
    MaxItems <- 2, MaxParts <- 2, MaxOps <- 3, MetaKeys <- 1..3, Allowed <- {}
P == INSTANCE CProcess WITH
    Dbs <- {d1, d2, d3}, Searching <- {d1, d2}, Cores <- 4,
    Asked <- {<<0, 0>>, <<1, 2>>, <<2, 2>>}, MaxGen <- 2

calls   == <<call, batch, meta>>
process == <<db, pool, arena, limits, shutdown, promised>>

NoCalls   == call = 0 /\ batch = 0 /\ meta = 0
NoProcess == db = 0 /\ pool = 0 /\ arena = 0 /\ limits = 0 /\ shutdown = 0 /\ promised = 0

HostInit ==
    /\ part \in {"locks", "calls", "process"} /\ Init
    /\ IF part = "calls" THEN C!Init ELSE NoCalls
    /\ IF part = "process" THEN P!Init ELSE NoProcess
HostNext ==
    /\ part' = part
    /\ \/ part = "locks" /\ Next /\ UNCHANGED <<calls, process>>
       \/ part = "calls" /\ C!Next /\ UNCHANGED <<vars, process>>
       \/ part = "process" /\ P!Next /\ UNCHANGED <<vars, calls>>
HostSpec == HostInit /\ [][HostNext]_<<part, vars, calls, process>>

-----------------------------------------------------------------------------
\* The C interface loses no memory and frees none that is not its own, hands
\* batches over whole and finds what was encoded (CApi); the pool and the arena
\* that databases share stand under each of them, at the limits the host was told
\* (CProcess).
InterfaceSound ==
    /\ part = "calls" => C!InterfaceSound
    /\ part = "process" => P!PoolStands
=============================================================================

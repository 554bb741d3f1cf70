-------------------------------- MODULE CApi --------------------------------
(***************************************************************************)
(* The C interface (c_api/): what its calls allocate for the host, roll    *)
(* back and let the host free; the batches it converts for the engine; and *)
(* the metadata blobs it encodes and reads.  One thread makes one call at  *)
(* a time, and every malloc may fail.                                      *)
(*                                                                         *)
(* A slot <<i, field, j>> is a pointer in a result: of its frame (i = 0)   *)
(* or of its i-th item (hit, entry, name, query), the j-th of an array.    *)
(***************************************************************************)
EXTENDS Integers, SequencesExt

CONSTANTS
    MaxItems,  \* bound: hits, entries, names or queries of a call
    MaxParts,  \* bound: snippets of a hit, hits of one query of several
    MaxOps,    \* bound: operations of a batch
    MetaKeys,  \* keys of metadata, numbers that order them
    Allowed    \* {}, or {"throw"}: the engine may throw within a batch of entries

VARIABLES
    call,   \* fn, pc, the items there will be (size) and the one filled, slots still
            \* to allocate in it (todo), pointers written (TRUE a block, FALSE null),
            \* blocks on the heap, and whether something was freed that is no block
    batch,  \* the operations of the host, those converted, and the vector of documents
    meta    \* the keys encoded, the blob, what of it is readable, and a look-up

vars == <<call, batch, meta>>

NoCall  == [fn |-> "none", pc |-> "idle", size |-> 0, item |-> 0, todo |-> <<>>, ptr |-> <<>>,
            heap |-> {}, wild |-> FALSE]
NoBatch == [pc |-> "idle", ops |-> <<>>, built |-> <<>>, gen |-> 0, cap |-> 0, docs |-> 0]
NoMeta  == [pc |-> "idle", given |-> <<>>, blob |-> <<>>, readable |-> 0, key |-> 0,
            next |-> 1, found |-> 0]

Init == call = NoCall /\ batch = NoBatch /\ meta = NoMeta
Idle == call.pc = "idle" /\ batch.pc = "idle" /\ meta.pc = "idle"

-----------------------------------------------------------------------------
(* Results: bitcask_get, the searches, needs_merge, and the iterators.     *)

Some(fields) == {SelectSeq(fields, LAMBDA f : f \in s) : s \in SUBSET Range(fields)}
Of(field, n) == [j \in 1..n |-> <<field, j>>]

\* What a call allocates once, and then for each item, in the code's order; an
\* empty field, a hit without snippets and a failed query have no block.
Frame(fn) ==
    CASE fn = "get" -> <<<<"result", 0>>>>
      [] fn \in {"search", "highlight"} -> <<<<"result", 0>>, <<"hits", 0>>>>
      [] fn \in {"searches", "names"} -> <<<<"array", 0>>>>
      [] fn = "iterator" -> <<<<"wrapper", 0>>>>
      [] OTHER -> <<>>

\* In a wrapper that bitcask_iter_release and bitcask_range_iter_release delete.
IteratorParts == {<<<<"filter", 0>>, <<"iter", 0>>>>, <<<<"iter", 0>>>>}

ItemsOf(fn) ==
    CASE fn = "get" -> Some(<<<<"value", 0>>, <<"meta", 0>>, <<"vector", 0>>>>)
      [] fn \in {"search", "names"} -> {<<<<"key", 0>>>>}
      [] fn = "highlight" -> {<<<<"key", 0>>>>} \union
                             {<<<<"key", 0>>, <<"snippets", 0>>>> \o Of("text", n) : n \in 1..MaxParts}
      [] fn = "searches" -> {<<>>} \union
                            {<<<<"result", 0>>, <<"hits", 0>>>> \o Of("key", n) : n \in 0..MaxParts}
      [] fn = "entries" -> Some(<<<<"key", 0>>, <<"value", 0>>>>)
      [] fn = "entriesEx" -> Some(<<<<"meta", 0>>, <<"key", 0>>, <<"value", 0>>>>)
      [] fn = "iterator" -> IteratorParts

\* Fields the code sets to null before it fills them; a batch of searches callocs
\* its array.
Cleared(fn, i) ==
    CASE fn = "get" -> {<<i, f, 0>> : f \in {"value", "meta", "vector"}}
      [] fn = "highlight" -> {<<i, f, 0>> : f \in {"key", "snippets"}}
      [] fn \in {"entries", "entriesEx"} -> {<<i, f, 0>> : f \in {"meta", "key", "value"}}
      [] fn = "searches" -> {<<i, "result", 0>>}
      [] fn = "iterator" -> {<<i, f, 0>> : f \in {"filter", "iter"}}
      [] OTHER -> {}

Written(c, slots, block) == [s \in DOMAIN c.ptr \union slots |-> IF s \in slots THEN block ELSE c.ptr[s]]

\* A call with an argument that is not valid returns at once.
Refused == [NoCall EXCEPT !.pc = "failed"]
Entered(fn, n) == [NoCall EXCEPT !.fn = fn, !.pc = "engine", !.size = n]

\* What there is to fill; no array holds no names.
Answered(c, n) ==
    [c EXCEPT !.pc = "fill", !.size = n,
              !.todo = IF n = 0 /\ c.fn = "names" THEN <<>> ELSE Frame(c.fn)]

Asks(fn, n) == Idle /\ call' \in {Refused, Entered(fn, n)} /\ UNCHANGED <<batch, meta>>

Get == Asks("get", 1)
NeedsMerge == Asks("names", 0)

\* The wrapper comes before the filter is read and the engine is asked (StartFails).
IterStart ==
    /\ Idle
    /\ call' \in {Refused, Answered(Entered("iterator", 1), 1)}
    /\ UNCHANGED <<batch, meta>>

\* One entry or several: the engine is asked for each.
IterNext ==
    /\ Idle
    /\ \E fn \in {"entries", "entriesEx"}, n \in 1..MaxItems :
          call' \in {Refused, Answered(Entered(fn, n), n)}
    /\ UNCHANGED <<batch, meta>>

\* A filter is a tree, good if its keys, operators and values are; one that is
\* nested too deep is refused as well.
MaxDepth == 32
Filters == [depth : {0, MaxDepth, MaxDepth + 1}, good : BOOLEAN]
Readable(filter) == filter.good /\ filter.depth <= MaxDepth

Search == Asks("search", 0)
SearchHighlight == Asks("highlight", 0)
SearchFiltered == \E filter \in Filters :
    /\ Asks("search", 0)
    /\ ~Readable(filter) => call' = Refused

\* Several queries, all of them valid or none is asked; of none, the result is null.
SearchBatch ==
    \/ \E n \in 1..MaxItems : Asks("searches", n)
    \/ Idle /\ call' = [NoCall EXCEPT !.fn = "searches", !.pc = "given"] /\ UNCHANGED <<batch, meta>>

\* Vectors, and vectors with a text, are asked for in the same three forms.
SearchVector == Search \/ SearchFiltered \/ SearchBatch

EngineAnswers ==
    /\ call.pc = "engine"
    /\ \E n \in IF call.size > 0 THEN {call.size} ELSE 0..MaxItems : call' = Answered(call, n)
    /\ UNCHANGED <<batch, meta>>

\* An error, or an exception that the boundary turns into one: nothing was filled.
EngineFails ==
    /\ call.pc = "engine"
    /\ call' = Refused
    /\ UNCHANGED <<batch, meta>>

NextItem ==
    /\ call.pc = "fill" /\ call.todo = <<>> /\ call.item < call.size
    /\ \E fields \in ItemsOf(call.fn) :
          call' = [call EXCEPT !.item = @ + 1, !.todo = fields,
                               !.ptr = Written(call, Cleared(call.fn, call.item + 1), FALSE)]
    /\ UNCHANGED <<batch, meta>>

Asked(c) == <<c.item>> \o Head(c.todo)      \* the slot the next malloc is for

Malloc ==
    /\ call.pc = "fill" /\ call.todo # <<>>
    /\ call' = [call EXCEPT !.todo = Tail(@), !.heap = @ \union {Asked(call)},
                            !.ptr = Written(call, {Asked(call)}, TRUE)]
    /\ UNCHANGED <<batch, meta>>

\* free() of what these slots hold: nothing for a null; an unwritten slot or a block
\* that is gone must not be met.
Freed(c, slots) ==
    [c EXCEPT !.heap = @ \ slots,
              !.wild = @ \/ \E s \in slots : s \notin DOMAIN c.ptr \/ (c.ptr[s] /\ s \notin c.heap)]

Ended(c) == [NoCall EXCEPT !.heap = c.heap, !.wild = c.wild]
Failed(c) == [Ended(c) EXCEPT !.pc = "failed"]
FrameOf(c) == {s \in DOMAIN c.ptr : s[1] = 0}

\* How many j the code knows of for an array of an item: highlights_count, and the
\* count of a query's result.
Known(c, i, field) == {j \in 1..MaxParts : <<i, field, j>> \in DOMAIN c.ptr}

\* free_hit_ex_range: all that the first n hits point at.
HitRange(c, n) ==
    {<<i, f, 0>> : i \in 1..n, f \in {"key", "snippets"}} \union
    UNION {{<<i, "text", j>> : j \in Known(c, i, "text")} : i \in 1..n}

\* bitcask_search_result_free of one query's result.
QueryResult(c, i) ==
    IF c.ptr[<<i, "result", 0>>]
    THEN {<<i, "result", 0>>, <<i, "hits", 0>>} \union {<<i, "key", j>> : j \in Known(c, i, "key")}
    ELSE {}

EntryFields(fn) == IF fn = "entriesEx" THEN {"key", "value", "meta"} ELSE {"key", "value"}

\* What the free function of a result visits in its first n items.
ItemsFreed(c, n) ==
    CASE c.fn = "get" -> UNION {Cleared("get", i) : i \in 1..n}
      [] c.fn \in {"search", "names"} -> {<<i, "key", 0>> : i \in 1..n}
      [] c.fn = "highlight" -> HitRange(c, n)
      [] c.fn = "searches" -> UNION {QueryResult(c, i) : i \in 1..n}
      [] c.fn \in {"entries", "entriesEx"} -> {<<i, f, 0>> : i \in 1..n, f \in EntryFields(c.fn)}
      [] c.fn = "iterator" -> UNION {Cleared("iterator", i) : i \in 1..n}

\* What a fill_* helper undoes itself when a field of its entry finds no memory.
EntryUndone(c) == {<<c.item, f, 0>> : f \in EntryFields(c.fn) \ {"value"}}

Undone_LastHit(c) ==
    IF c.item = 0 THEN FrameOf(c)
    ELSE FrameOf(c) \union
         CASE c.fn \in {"get", "iterator"} -> ItemsFreed(c, 1)
           [] c.fn \in {"search", "highlight", "names"} -> ItemsFreed(c, c.item - 1)
           [] c.fn \in {"entries", "entriesEx"} -> EntryUndone(c) \union ItemsFreed(c, c.item - 1)
Undone(c) ==
    IF c.item = 0 THEN FrameOf(c)
    ELSE FrameOf(c) \union
         CASE c.fn \in {"get", "iterator"} -> ItemsFreed(c, 1)
           [] c.fn \in {"search", "names"} -> ItemsFreed(c, c.item - 1)
           [] c.fn = "highlight" -> HitRange(c, IF Head(c.todo)[1] = "key" THEN c.item - 1 ELSE c.item)
           [] c.fn \in {"entries", "entriesEx"} -> EntryUndone(c) \union ItemsFreed(c, c.item - 1)

\* to_search_result within fill_batch_results: the query's place stays null.
QueryUndone(c) ==
    LET mine  == {s \in DOMAIN c.ptr : s[1] = c.item /\ c.ptr[s]}
        place == <<c.item, "result", 0>>
        kept  == [s \in DOMAIN c.ptr \ (mine \ {place}) |-> c.ptr[s] /\ s # place]
    IN  [Freed(c, mine) EXCEPT !.todo = <<>>, !.ptr = kept]

OutOfMemory ==
    /\ call.pc = "fill" /\ call.todo # <<>>
    /\ call' = IF call.fn = "searches" /\ call.item > 0 THEN QueryUndone(call)
               ELSE Failed(Freed(call, Undone(call)))
    /\ UNCHANGED <<batch, meta>>

\* The filter cannot be read, or make_iter or start fails: the wrapper goes with
\* what it has.
StartFails ==
    /\ call.pc = "fill" /\ call.todo = <<>> /\ call.fn = "iterator"
    /\ call' = Failed(Freed(call, FrameOf(call) \union ItemsFreed(call, call.item)))
    /\ UNCHANGED <<batch, meta>>

\* The engine's next() fails between two entries.  What an exception leaves (catch)
\* is not freed.
NextFails ==
    /\ call.pc = "fill" /\ call.todo = <<>> /\ call.fn \in {"entries", "entriesEx"}
    /\ \/ call' = Failed(Freed(call, ItemsFreed(call, call.item)))
       \/ "throw" \in Allowed /\ call' = Failed(call)
    /\ UNCHANGED <<batch, meta>>

\* Entries may end before the host's array does.
Return ==
    /\ call.pc = "fill" /\ call.todo = <<>>
    /\ call.item = call.size \/ call.fn \in {"entries", "entriesEx"}
    /\ call' = [call EXCEPT !.pc = "given"]
    /\ UNCHANGED <<batch, meta>>

HostFrees ==
    /\ call.pc = "given"
    /\ call' = Ended(Freed(call, FrameOf(call) \union ItemsFreed(call, call.item)))
    /\ UNCHANGED <<batch, meta>>

HostSeesError ==
    /\ call.pc = "failed"
    /\ call' = Ended(call)
    /\ UNCHANGED <<batch, meta>>

-----------------------------------------------------------------------------
(* Batches and transactions.                                               *)

\* Of the host: "bad" has an invalid slice, op code or document.
OpKinds == {"put", "remove", "doc", "bad"}

\* bitcask_put, delete and put_doc are batches of one; bitcask_merge_files checks
\* its paths in the same way.
SingleOps == {<<k>> : k \in OpKinds}
Batches   == UNION {[1..n -> OpKinds] : n \in 2..MaxOps}
PathLists == UNION {[1..n -> {"path", "bad"}] : n \in 1..MaxOps}

BeginBatch ==
    /\ Idle
    /\ \E ops \in SingleOps \union Batches \union PathLists :
          batch' = [NoBatch EXCEPT !.pc = "convert", !.ops = ops, !.cap = Len(ops)]    \* reserve
    /\ UNCHANGED <<call, meta>>

\* std::vector::emplace_back: a full vector moves, and its elements with it.
Emplaced(b) ==
    IF b.docs < b.cap THEN [b EXCEPT !.docs = @ + 1]
    ELSE [b EXCEPT !.docs = @ + 1, !.cap = 2 * @, !.gen = @ + 1]

\* op.doc points at the vector's last element; 0 stands for no document.
ConvertOp ==
    /\ batch.pc = "convert" /\ Len(batch.built) < Len(batch.ops)
    /\ LET kind == batch.ops[Len(batch.built) + 1]
           b    == IF kind = "doc" THEN Emplaced(batch) ELSE batch
           doc  == IF kind = "doc" THEN <<b.gen, b.docs>> ELSE <<>>
       IN  batch' = IF kind = "bad" THEN NoBatch
                    ELSE [b EXCEPT !.built = Append(@, [op |-> kind, doc |-> doc])]
    /\ UNCHANGED <<call, meta>>

HandOver ==
    /\ batch.pc = "convert" /\ Len(batch.built) = Len(batch.ops)
    /\ batch' = [batch EXCEPT !.pc = "engine"]
    /\ UNCHANGED <<call, meta>>

\* Done or failed: the converted operations and documents go out of scope.
EngineReturns ==
    /\ batch.pc = "engine"
    /\ batch' = NoBatch
    /\ UNCHANGED <<call, meta>>

-----------------------------------------------------------------------------
(* Metadata blobs.  The value of an entry is its place in the host's list. *)

Distinct(keys) == \A i, j \in DOMAIN keys : keys[i] = keys[j] => i = j
Sorted(keys) ==
    SortSeq([i \in DOMAIN keys |-> [key |-> keys[i], value |-> i]], LAMBDA a, b : a.key < b.key)

\* Two entries of one key are refused.
MetaEncode ==
    /\ Idle
    /\ \E n \in 0..MaxItems + 1 : \E keys \in [1..n -> MetaKeys] :
          /\ Distinct(keys)
          /\ meta' = [NoMeta EXCEPT !.pc = "blob", !.given = keys, !.blob = Sorted(keys)]
    /\ UNCHANGED <<call, batch>>

\* bitcask_meta_lookup, of a blob of which the first entries can be parsed.
MetaLookup ==
    /\ meta.pc = "blob"
    /\ \E key \in MetaKeys, readable \in 0..Len(meta.blob) :
          meta' = [meta EXCEPT !.pc = "iterate", !.key = key, !.readable = readable]
    /\ UNCHANGED <<call, batch>>

\* meta_parse_entry.
Parses(m) == m.next <= m.readable

\* bitcask_meta_iter_next, and the comparison with the key: the first larger one
\* ends the search.
MetaIterNext ==
    /\ meta.pc = "iterate"
    /\ LET e == meta.blob[meta.next] IN
       meta' = IF ~Parses(meta) \/ e.key > meta.key
               THEN [meta EXCEPT !.pc = "answer"]
               ELSE IF e.key = meta.key THEN [meta EXCEPT !.pc = "answer", !.found = e.value]
               ELSE [meta EXCEPT !.next = @ + 1]
    /\ UNCHANGED <<call, batch>>

MetaBlobFree ==
    /\ meta.pc = "answer"
    /\ meta' = NoMeta
    /\ UNCHANGED <<call, batch>>

-----------------------------------------------------------------------------
Next ==
    \/ Get \/ NeedsMerge \/ IterStart \/ IterNext
    \/ Search \/ SearchHighlight \/ SearchFiltered \/ SearchBatch \/ SearchVector
    \/ EngineAnswers \/ EngineFails \/ NextItem \/ Malloc \/ OutOfMemory
    \/ StartFails \/ NextFails \/ Return \/ HostFrees \/ HostSeesError
    \/ BeginBatch \/ ConvertOp \/ HandOver \/ EngineReturns
    \/ MetaEncode \/ MetaLookup \/ MetaIterNext \/ MetaBlobFree

Spec == Init /\ [][Next]_vars

-----------------------------------------------------------------------------
\* Whatever malloc fails and wherever the engine does: no pointer is freed that was
\* never written or whose block is gone, a call that failed and a result that was
\* freed leave no block behind, and a result given to the host has all its blocks.
MemorySound ==
    /\ ~call.wild
    /\ call.pc \in {"idle", "failed"} => call.heap = {}
    /\ call.pc = "given" => call.heap = {s \in DOMAIN call.ptr : call.ptr[s]}

\* The engine is given all operations of a batch in the host's order or none, and
\* each document it is pointed at is where it was when the pointer was taken.
BatchesIntact ==
    batch.pc = "engine" =>
        /\ [i \in DOMAIN batch.built |-> batch.built[i].op] = batch.ops
        /\ \A i \in DOMAIN batch.built :
              batch.ops[i] = "doc" => batch.built[i].doc[1] = batch.gen

\* A look-up finds the value that the host gave for the key whenever its entry can
\* be read, and finds nothing else.
LookupsFind ==
    meta.pc = "answer" =>
        IF \E i \in 1..meta.readable : meta.blob[i].key = meta.key
        THEN meta.found > 0 /\ meta.given[meta.found] = meta.key
        ELSE meta.found = 0

InterfaceSound == MemorySound /\ BatchesIntact /\ LookupsFind
=============================================================================

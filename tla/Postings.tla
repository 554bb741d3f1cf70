------------------------------ MODULE Postings ------------------------------
(***************************************************************************)
(* The in-memory inverted index: src/bm25/inverted.cpp with the thread's   *)
(* cache of include/bitcask/term_snapshot_cache.hpp.                       *)
(*                                                                         *)
(* One thread, the reducer, appends documents and squeezes dead rows out;  *)
(* readers search without a lock over the whole index.  They hold a        *)
(* posting list by reference (the writer copies it before the next change),*)
(* keep copies of their own that a counter per shard invalidates, and      *)
(* expand patterns over a sorted vocabulary that is rebuilt on demand.     *)
(*                                                                         *)
(* A row is the number of its document; scores are a matter of TopK.       *)
(***************************************************************************)
EXTENDS Integers, Sequences, FiniteSets, FiniteSetsExt, SequencesExt

CONSTANTS
    Terms,
    ShardOf,        \* the shard of each term
    NDocs,          \* how many documents are added
    Contents,       \* the terms the documents may have
    Readers,
    Asked,          \* the queries, by kind and terms
    ExtraFloor,     \* new words that may pile up before they join the base
    MaxQueries,     \* bounds: queries, deaths, compactions and reloads
    MaxDead,
    MaxCompact,
    MaxReload

Put(f, t, x) == [u \in DOMAIN f \union {t} |-> IF u = t THEN x ELSE f[u]]
Docs == 1..NDocs
Shards == {ShardOf[t] : t \in Terms}

VARIABLES
    has,        \* the terms of each document
    list,       \* the posting list of every word there is
    gen,        \* per shard: how often its lists have changed
    vocab,      \* per shard: base, extra, delta, dirty
    writer,     \* what the reducer is at
    reader,     \* what each reader is at
    cache,      \* per reader: its copies
    used        \* what has been spent of the bounds

vars == <<has, list, gen, vocab, writer, reader, cache, used>>

Known == DOMAIN list
Rows(t) == IF t \in Known THEN list[t] ELSE <<>>

NoWord == [base |-> {}, based |-> FALSE, extra |-> {}, delta |-> {}, dirty |-> TRUE]
Resting == [pc |-> "idle", doc |-> 0, todo |-> {}, term |-> ""]
Away == [pc |-> "idle", kind |-> "", terms |-> <<>>, got |-> <<>>, gens |-> <<>>,
         held |-> <<>>, todo |-> <<>>, left |-> {}, since |-> {}]

Init ==
    /\ has \in Contents
    /\ list = <<>>
    /\ gen = [s \in Shards |-> 0]
    /\ vocab = [s \in Shards |-> NoWord]
    /\ writer = [step |-> Resting, next |-> 1, wm |-> 0, finished |-> {}, dead |-> {}]
    /\ reader = [r \in Readers |-> Away]
    /\ cache = [r \in Readers |-> <<>>]
    /\ used = [queries |-> 0, compacts |-> 0, reloads |-> 0]

Bump(t) == gen' = [gen EXCEPT ![ShardOf[t]] = @ + 1]

-----------------------------------------------------------------------------
(* The reducer. *)

(* A reader holds a list by reference: it reads what the index has, until  *)
(* the writer, who sees the reference, goes on with a copy.                *)
Through(r, t) == IF reader[r].held[t].mine THEN reader[r].held[t].rows ELSE Rows(t)
Sharing(t) == {r \in Readers : t \in DOMAIN reader[r].held /\ ~reader[r].held[t].mine}

(* mutable_pl: in place when nobody else holds the list, a copy otherwise. *)
Copied_Never(t) == {}
Copied(t) == Sharing(t)

Rewrite(t, rows) ==
    /\ list' = Put(list, t, rows)
    /\ reader' = [r \in Readers |->
                    IF r \in Copied(t) /\ t \in Known
                    THEN [reader[r] EXCEPT !.held[t] = [mine |-> TRUE, rows |-> Rows(t)]]
                    ELSE reader[r]]

(* The writer keeps the lock of a list's bucket until it has counted.      *)
Locked(t) == writer.step.pc \in {"word", "bump"} /\ writer.step.term = t

Step(s) == writer' = [writer EXCEPT !.step = s]
Idle == writer.step.pc = "idle"

(* A document at or below the mark has been indexed before. *)
AddDoc ==
    /\ Idle
    /\ writer.next \in Docs
    /\ LET d == writer.next
       IN  writer' = IF d <= writer.wm
                     THEN [writer EXCEPT !.next = d + 1, !.finished = @ \union {d}]
                     ELSE [writer EXCEPT !.wm = d,
                              !.step = [Resting EXCEPT !.pc = "term", !.doc = d, !.todo = has[d]]]
    /\ UNCHANGED <<has, list, gen, vocab, reader, cache, used>>

(* One term after the other, in no order: the row, *)
AppendRow ==
    /\ writer.step.pc = "term"
    /\ writer.step.todo # {}
    /\ \E t \in writer.step.todo :
        /\ Rewrite(t, Append(Rows(t), writer.step.doc))
        /\ Step([writer.step EXCEPT !.pc = IF t \notin Known THEN "word" ELSE "bump",
                                    !.term = t, !.todo = @ \ {t}])
    /\ UNCHANGED <<has, gen, vocab, cache, used>>

(* the word, under the lock of the vocabulary, when it is new, *)
NoteWord ==
    /\ writer.step.pc = "word"
    /\ LET t == writer.step.term
       IN  vocab' = [vocab EXCEPT ![ShardOf[t]].delta = @ \union {t}, ![ShardOf[t]].dirty = TRUE]
    /\ Step([writer.step EXCEPT !.pc = "bump"])
    /\ UNCHANGED <<has, list, gen, reader, cache, used>>

(* and the counter last; compact goes on to its next list.                 *)
BumpGen ==
    /\ writer.step.pc = "bump"
    /\ Bump(writer.step.term)
    /\ Step([writer.step EXCEPT !.pc = IF writer.step.doc = 0 THEN "compact" ELSE "term"])
    /\ UNCHANGED <<has, list, vocab, reader, cache, used>>

DocDone ==
    /\ writer.step.pc = "term"
    /\ writer.step.todo = {}
    /\ writer' = [writer EXCEPT !.step = Resting, !.next = writer.step.doc + 1,
                                !.finished = @ \union {writer.step.doc}]
    /\ UNCHANGED <<has, list, gen, vocab, reader, cache, used>>

(* A document is deleted: its rows stay, the live table knows. *)
RemoveDoc ==
    /\ Idle
    /\ Cardinality(writer.dead) < MaxDead
    /\ \E d \in writer.finished \ writer.dead : writer' = [writer EXCEPT !.dead = @ \union {d}]
    /\ UNCHANGED <<has, list, gen, vocab, reader, cache, used>>

(* compact, list by list.                                                  *)
Compact ==
    /\ Idle
    /\ used.compacts < MaxCompact
    /\ used' = [used EXCEPT !.compacts = @ + 1]
    /\ Step([Resting EXCEPT !.pc = "compact", !.todo = Known])
    /\ UNCHANGED <<has, list, gen, vocab, reader, cache>>

Dead(t) == ToSet(Rows(t)) \intersect writer.dead

(* A list without a dead row is left as it is, and so is one whose dead    *)
(* rows are too small a part of it, which one of dead rows only never is.  *)
CompactList ==
    /\ writer.step.pc = "compact"
    /\ \E t \in writer.step.todo :
        LET left == [writer.step EXCEPT !.todo = @ \ {t}]
        IN  \/ /\ Dead(t) = {} \/ Dead(t) # ToSet(Rows(t))
               /\ Step(left) /\ UNCHANGED <<list, reader>>
            \/ /\ Dead(t) # {}
               /\ Rewrite(t, SelectSeq(Rows(t), LAMBDA d : d \notin writer.dead))
               /\ Step([left EXCEPT !.pc = "bump", !.term = t])
    /\ UNCHANGED <<has, gen, vocab, cache, used>>

CompactDone ==
    /\ writer.step.pc = "compact"
    /\ writer.step.todo = {}
    /\ Step(Resting)
    /\ UNCHANGED <<has, list, gen, vocab, reader, cache, used>>

(* The index is written out, read back and the log is replayed from the    *)
(* start: deserialize, then add_doc for every document again.              *)
Reload ==
    /\ Idle
    /\ used.reloads < MaxReload
    /\ used' = [used EXCEPT !.reloads = @ + 1]
    /\ \A r \in Readers : reader[r].pc = "idle"
    /\ cache' = [r \in Readers |-> <<>>]
    /\ gen' = [s \in Shards |-> gen[s] + 1]
    /\ vocab' = [s \in Shards |-> [NoWord EXCEPT !.delta = {t \in Terms : ShardOf[t] = s /\ t \in Known}]]
    /\ LET written == UNION {ToSet(Rows(t)) : t \in Terms}
       IN  writer' = [writer EXCEPT !.wm = Max(written \union {0}), !.next = 1]
    /\ UNCHANGED <<has, list, reader>>

-----------------------------------------------------------------------------
(* The readers. *)

Read(r, v) == reader' = [reader EXCEPT ![r] = v]

(* A query begins: a search, a phrase, a count or a pattern. *)
Begin(r) ==
    /\ reader[r].pc = "idle"
    /\ used.queries < MaxQueries
    /\ used' = [used EXCEPT !.queries = @ + 1]
    /\ \E q \in Asked :
        Read(r, [Away EXCEPT !.kind = q.kind, !.terms = q.terms, !.todo = q.terms, !.since = writer.finished,
                   !.left = IF q.kind = "pattern" THEN Shards ELSE {},
                   !.pc = CASE q.kind \in {"search", "df"} -> "probe"
                            [] q.kind = "phrase" -> "find"
                            [] q.kind = "pattern" -> "dirty"])
    /\ UNCHANGED <<has, list, gen, vocab, writer, cache>>

(* The counter is read before the list is looked up, so a copy never       *)
(* claims to be newer than it is.  (Stamp_AtEnd: reading it again when the *)
(* copy is stored.)                                                        *)
Stamp_AtEnd(r, t) == gen[ShardOf[t]]
Stamp(r, t) == reader[r].gens[t]

Hit(r, t, g) == t \in DOMAIN cache[r] /\ cache[r][t].gen = g

Probe(r) ==
    /\ reader[r].pc = "probe"
    /\ LET t == Head(reader[r].todo)
           g == gen[ShardOf[t]]
           hit == Hit(r, t, g) /\ (reader[r].kind = "df" \/ cache[r][t].whole)
           seen == [reader[r] EXCEPT !.todo = Tail(@), !.gens = Put(@, t, g),
                      !.got = IF hit THEN Put(@, t, cache[r][t].rows) ELSE @]
       IN  Read(r, IF seen.todo # <<>> THEN seen
                   ELSE IF DOMAIN seen.got = ToSet(seen.terms) THEN [seen EXCEPT !.pc = "done"]
                   ELSE [seen EXCEPT !.pc = "find", !.todo = seen.terms, !.got = <<>>])
    /\ UNCHANGED <<has, list, gen, vocab, writer, cache, used>>

(* A reference to the list, under the lock of its bucket.  A phrase with a *)
(* word nobody has is answered at once.                                    *)
Find(r) ==
    /\ reader[r].pc = "find"
    /\ LET t == Head(reader[r].todo)
           next == [reader[r] EXCEPT !.todo = Tail(@),
                      !.held = Put(@, t, [mine |-> t \notin Known, rows |-> <<>>])]
       IN  /\ ~Locked(t)
           /\ Read(r, IF next.kind = "phrase" /\ t \notin Known
                      THEN [next EXCEPT !.pc = "done", !.held = <<>>, !.got = Put(<<>>, t, <<>>)]
                      ELSE [next EXCEPT !.pc = IF next.todo = <<>> THEN "copy" ELSE "find"])
    /\ UNCHANGED <<has, list, gen, vocab, writer, cache, used>>

Entry(r, t, rows, whole) == [gen |-> Stamp(r, t), df |-> Len(rows), whole |-> whole, rows |-> rows]

(* The lists are read through the references and, by a search, kept.       *)
Copy(r) ==
    /\ reader[r].pc = "copy"
    /\ LET q == ToSet(reader[r].terms)
           read == [t \in q |-> Through(r, t)]
       IN  /\ Read(r, [reader[r] EXCEPT !.pc = "done", !.held = <<>>,
                         !.got = read])
           /\ CASE reader[r].kind = "search" ->
                     cache' = [cache EXCEPT ![r] =
                                 [t \in DOMAIN @ \union q |->
                                    IF t \in q THEN Entry(r, t, read[t], TRUE) ELSE @[t]]]
                [] reader[r].kind = "df" ->
                     cache' = [cache EXCEPT ![r] =
                                 [t \in DOMAIN @ \union q |->
                                    IF t \in q THEN Entry(r, t, read[t], read[t] = <<>>) ELSE @[t]]]
                [] OTHER -> UNCHANGED cache
    /\ UNCHANGED <<has, list, gen, vocab, writer, used>>

(* ensure_vocab: the flag first; *)
Dirty(r) ==
    /\ reader[r].pc = "dirty"
    /\ \E s \in reader[r].left :
        Read(r, [reader[r] EXCEPT !.left = @ \ {s}, !.gens = <<s>>,
                   !.pc = IF vocab[s].dirty THEN "rebuild" ELSE "words"])
    /\ UNCHANGED <<has, list, gen, vocab, writer, cache, used>>

(* a dirty vocabulary takes the new words up under the lock, unless        *)
(* another reader was faster.                                              *)
TakenUp(v) ==
    LET ex == v.extra \union v.delta
        merge == ~v.based \/ Cardinality(ex) > Max({ExtraFloor, Cardinality(v.base) \div 8})
    IN  [base  |-> IF merge THEN v.base \union ex ELSE v.base,
         based |-> TRUE,
         extra |-> IF merge THEN {} ELSE ex,
         delta |-> {},
         dirty |-> FALSE]

Words(s) == vocab[s].base \union vocab[s].extra

Rebuild(r) ==
    /\ reader[r].pc = "rebuild"
    /\ LET s == reader[r].gens[1]
       IN  vocab' = [vocab EXCEPT ![s] = IF @.dirty THEN TakenUp(@) ELSE @]
    /\ Read(r, [reader[r] EXCEPT !.pc = "words"])
    /\ UNCHANGED <<has, list, gen, writer, cache, used>>

(* Every word of the shard that fits is looked up.                         *)
Expand(r) ==
    /\ reader[r].pc = "words"
    /\ LET s == reader[r].gens[1]
           left == reader[r].left
       IN  /\ \A t \in Words(s) : ~Locked(t)
           /\ Read(r, [reader[r] EXCEPT
                         !.got = [t \in DOMAIN @ \union Words(s) |-> IF t \in Words(s) THEN Rows(t) ELSE @[t]],
                         !.pc = IF left = {} THEN "done" ELSE "dirty"])
    /\ UNCHANGED <<has, list, gen, vocab, writer, cache, used>>

Leave(r) ==
    /\ reader[r].pc = "done"
    /\ Read(r, Away)
    /\ UNCHANGED <<has, list, gen, vocab, writer, cache, used>>

-----------------------------------------------------------------------------
WriterStep ==
    \/ AddDoc \/ AppendRow \/ NoteWord \/ BumpGen \/ DocDone
    \/ RemoveDoc \/ Compact \/ CompactList \/ CompactDone \/ Reload

ReaderStep(r) ==
    \/ Begin(r) \/ Probe(r) \/ Find(r) \/ Copy(r)
    \/ Dirty(r) \/ Rebuild(r) \/ Expand(r) \/ Leave(r)

Next == WriterStep \/ \E r \in Readers : ReaderStep(r)

Spec == Init /\ [][Next]_vars

-----------------------------------------------------------------------------
TypeOK ==
    /\ Known \subseteq Terms
    /\ writer.wm \in 0..NDocs
    /\ writer.next \in 1..(NDocs + 1)
    /\ \A r \in Readers : DOMAIN cache[r] \subseteq Terms

OwedTo(r, t) == {d \in reader[r].since : t \in has[d]} \ writer.dead

(* A document whose add_doc had returned when the query began is found     *)
(* under each of its words, whether the answer comes from the thread's     *)
(* copies, from a list held by reference or through the vocabulary; and a  *)
(* list is always rising, without a row twice or one that is not its own.  *)
Rising(rows) == \A i \in 2..Len(rows) : rows[i-1] < rows[i]
Answer(r, t) == IF t \in DOMAIN reader[r].got THEN reader[r].got[t] ELSE <<>>
FinishedDocsFound ==
    \A r \in Readers : reader[r].pc = "done" =>
        /\ \A t \in DOMAIN reader[r].got :
            LET rows == Answer(r, t)
            IN  Rising(rows) /\ \A d \in ToSet(rows) : t \in has[d]
        /\ IF reader[r].kind = "phrase"
           THEN (\A t \in ToSet(reader[r].terms) : OwedTo(r, t) # {}) =>
                \A t \in ToSet(reader[r].terms) : OwedTo(r, t) \subseteq ToSet(Answer(r, t))
           ELSE \A t \in IF reader[r].kind = "pattern" THEN Terms ELSE ToSet(reader[r].terms) :
                OwedTo(r, t) \subseteq ToSet(Answer(r, t))

(* A list that a reader holds does not change while it is held.            *)
HeldIsFrozen ==
    [][\A r \in Readers : \A t \in DOMAIN reader[r].held :
        t \in DOMAIN reader[r]'.held => Through(r, t)' = Through(r, t)]_vars
=============================================================================

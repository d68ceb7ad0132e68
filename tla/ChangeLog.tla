----------------------------- MODULE ChangeLog -----------------------------
(***************************************************************************)
(* The one write of the program and the ring it is recorded in:            *)
(* planner/txn.mjs (commit, undo, redo) over planner/log.mjs (Log).        *)
(*                                                                         *)
(* A document is a function from its entities to their values.  A record's *)
(* `ops` and `inverse` are kept by what replaying them does: the value     *)
(* each touched entity ends with (module Planner checks that the inverse   *)
(* the planner builds op by op has this effect).  A request that plans to  *)
(* no op, or is refused, changes nothing and is no action here.            *)
(***************************************************************************)
EXTENDS Integers, Sequences, FiniteSets, FiniteSetsExt

CONSTANTS
    Entity,         \* ids of the entities of one document
    Value,          \* what an entity may hold
    Absent,         \* an id the document does not hold
    Size,           \* serialised sizes a record may have
    LogMax, LogBytes,           \* the ring's soft bounds, in records and bytes
    LogHardMax, LogHardBytes,   \* the ceilings the human floor yields to
    MaxVersion      \* bound on the model: no change is accepted past it

ASSUME ConstantsAssumption ==
    /\ Absent \notin Value
    /\ Entity # {} /\ Value # {}
    /\ Size \subseteq Nat \ {0}
    /\ LogMax \in Nat \ {0} /\ LogBytes \in Nat
    /\ LogHardMax \in Nat /\ LogHardBytes \in Nat
    /\ LogMax <= LogHardMax /\ LogBytes <= LogHardBytes
    /\ MaxVersion \in Nat

Author   == {"client", "server"}      \* a browser session, or a REST/CLI writer
Content  == Value \cup {Absent}
Document == [Entity -> Content]
Effect   == UNION {[T -> Content] : T \in SUBSET Entity \ {{}}}
Record   == [seq : Nat, by : Author, size : Size, ops : Effect, inverse : Effect]

VARIABLES
    doc,            \* the model: what every reader is shown
    version,        \* Log.version
    records,        \* Log.records, oldest first
    cursor,         \* Log.cursor: how many records are applied
    bytes,          \* Log.bytes, kept incrementally
    evicted,        \* Log.evicted
    evictedHuman,   \* Log.evictedHuman
    past            \* auxiliary: the document before record i is past[i]

logVars == <<records, cursor, bytes, evicted, evictedHuman>>
vars    == <<doc, version, records, cursor, bytes, evicted, evictedHuman, past>>

Init ==
    /\ doc \in Document
    /\ version = 0
    /\ records = << >>
    /\ cursor = 0
    /\ bytes = 0
    /\ evicted = 0
    /\ evictedHuman = 0
    /\ past = <<doc>>

-----------------------------------------------------------------------------
(* The ring *)

\* The sizes of the records of a ring, added up from the oldest.
Sums(ring) ==
    LET sum[n \in 0 .. Len(ring)] == IF n = 0 THEN 0 ELSE sum[n - 1] + ring[n].size
    IN sum

SizeOf(ring) == Sums(ring)[Len(ring)]

OverSoft(n, b) == n > LogMax \/ b > LogBytes
OverHard(n, b) == n > LogHardMax \/ b > LogHardBytes

IsNewestHuman(ring, i) ==
    /\ ring[i].by = "client"
    /\ \A j \in i + 1 .. Len(ring) : ring[j].by # "client"

\* A slip: the soft bounds alone decide, as before the human floor.
EvictionStopsAtSoft(ring, b, k) ==
    LET n == Len(ring) - k
    IN n <= 1 \/ ~OverSoft(n, b - SizeOf(SubSeq(ring, 1, k)))

\* #evict: whether its loop stops once k records are gone from a ring of b bytes.
EvictionStops(ring, b, k) ==
    LET n    == Len(ring) - k
        left == b - SizeOf(SubSeq(ring, 1, k))
    IN \/ n <= 1
       \/ ~OverSoft(n, left)
       \/ IsNewestHuman(ring, k + 1) /\ ~OverHard(n, left)

\* A slip: a change larger than every bound is evicted too.
EvictCountToEmpty(ring, b) ==
    LET within(k) == ~OverSoft(Len(ring) - k, b - SizeOf(SubSeq(ring, 1, k)))
    IN CHOOSE k \in 0 .. Len(ring) : within(k) /\ \A j \in 0 .. k - 1 : ~within(j)

EvictCount(ring, b) ==
    CHOOSE k \in 0 .. Len(ring) - 1 :
        /\ EvictionStops(ring, b, k)
        /\ \A j \in 0 .. k - 1 : ~EvictionStops(ring, b, j)

\* A slip: the cut redo tail stays in the byte count.
RedoTailForgotten == 0

RedoTailSize == SizeOf(SubSeq(records, cursor + 1, Len(records)))

\* Log.append: cut the redo tail, push, and evict from the bottom.
LogAppend(change) ==
    LET ring == Append(SubSeq(records, 1, cursor), change)
        b    == bytes - RedoTailSize + change.size
        k    == EvictCount(ring, b)
        gone == SubSeq(ring, 1, k)
    IN /\ records' = SubSeq(ring, k + 1, Len(ring))
       /\ cursor' = Len(ring) - k
       /\ bytes' = b - SizeOf(gone)
       /\ evicted' = evicted + k
       /\ evictedHuman' = evictedHuman
              + Cardinality({i \in 1 .. k : ring[i].by = "client"})
       /\ past' = SubSeq(Append(SubSeq(past, 1, cursor + 1), doc'), k + 1, cursor + 2)

-----------------------------------------------------------------------------
(* The operations *)

Overlay(d, effect) == [e \in Entity |-> IF e \in DOMAIN effect THEN effect[e] ELSE d[e]]

\* commit(): the planned ops apply, the version is minted, the change recorded.
Commit(by, size, effect) ==
    /\ version < MaxVersion
    /\ doc' = Overlay(doc, effect)
    /\ version' = version + 1
    /\ LogAppend([seq     |-> version',
                  by      |-> by,
                  size    |-> size,
                  ops     |-> effect,
                  inverse |-> [e \in DOMAIN effect |-> doc[e]]])

\* What replaying the inverses of records n+1 .. cursor, newest first, leaves in
\* the document: each entity as the oldest of those records found it.
Reversed(n) ==
    [e \in Entity |->
        LET touching == {i \in n + 1 .. cursor : e \in DOMAIN records[i].inverse}
        IN IF touching = {} THEN doc[e] ELSE records[Min(touching)].inverse[e]]

\* undo(to): `to` names the oldest applied record to reverse; it moves the
\* version and the cursor, and appends nothing.
UndoTo(n) ==
    /\ version < MaxVersion
    /\ doc' = Reversed(n)
    /\ cursor' = n
    /\ version' = version + 1
    /\ UNCHANGED <<records, bytes, evicted, evictedHuman, past>>

Undo(to) == \E i \in 1 .. cursor : records[i].seq = to /\ UndoTo(i - 1)

\* A slip: redo replays the inverse, as undo does.
RedoOfInverse ==
    /\ version < MaxVersion
    /\ cursor < Len(records)
    /\ doc' = Overlay(doc, records[cursor + 1].inverse)
    /\ cursor' = cursor + 1
    /\ version' = version + 1
    /\ UNCHANGED <<records, bytes, evicted, evictedHuman, past>>

Redo ==
    /\ version < MaxVersion
    /\ cursor < Len(records)
    /\ doc' = Overlay(doc, records[cursor + 1].ops)
    /\ cursor' = cursor + 1
    /\ version' = version + 1
    /\ UNCHANGED <<records, bytes, evicted, evictedHuman, past>>

Next ==
    \/ \E by \in Author, size \in Size, effect \in Effect : Commit(by, size, effect)
    \/ \E to \in 1 .. version : Undo(to)
    \/ Redo

Spec == Init /\ [][Next]_vars

-----------------------------------------------------------------------------
(* Properties *)

\* Every variable holds what Log holds, the cursor is inside the ring, and
\* `past` has one state more than the ring has records.  `bytes` is left to
\* BytesExact, which says exactly which number it is.
TypeOK ==
    /\ doc \in Document
    /\ version \in Nat
    /\ records \in Seq(Record)
    /\ cursor \in 0 .. Len(records)
    /\ evicted \in Nat
    /\ evictedHuman \in Nat
    /\ past \in Seq(Document)
    /\ Len(past) = Len(records) + 1

\* GR9, "the ring must never hold a seq above the watermark that describes it"
\* (server/store.js flush), and undo's `to` must name one record: seqs rise
\* strictly along the ring and none is above the version, although undo and
\* redo move the version without appending and eviction and the cut tail
\* leave holes.
SeqsOrdered ==
    /\ \A i \in 1 .. Len(records) : records[i].seq <= version
    /\ \A i, j \in 1 .. Len(records) : i < j => records[i].seq < records[j].seq

\* The running byte count that decides eviction is the size of what the ring
\* holds, through every truncation of the redo tail and every eviction.
BytesExact == bytes = SizeOf(records)

\* "Never the last surviving record however large it is": whatever the change
\* weighs, once it is accepted it is the record undo would reverse next.
NewestUndoable ==
    [][records' # records => /\ cursor' = Len(records') /\ cursor' > 0
                             /\ records'[cursor'].seq = version']_vars

\* The human floor (I14): an agent's commit may push the newest change a person
\* made out of the ring only when what has come since, it included, is past a
\* hard ceiling.
HumanFloor ==
    [][\A i \in 1 .. cursor :
          /\ IsNewestHuman(SubSeq(records, 1, cursor), i)
          /\ records' # records
          /\ \A j \in 1 .. Len(records') : records'[j] # records[i]
          => LET new   == records'[Len(records')]
                 since == Append(SubSeq(records, i, cursor), new)
             IN new.by = "client" \/ OverHard(Len(since), SizeOf(since))]_vars

\* Undo and redo walk a linear history: reversing any run of changes in one step
\* restores exactly the document that stood before the oldest of them, redoing
\* restores what was undone, and an edit forgets only the oldest states.
History == INSTANCE UndoHistory WITH applied <- cursor
HistorySpec == History!Spec

\* The strengthening that makes the history inductive: `past` holds the document
\* at the cursor; a record's ops and inverse lead from one state to the next and
\* back; an entity no record of a run touches is the same at both ends of it.
Untouched(i, j, e) == \A k \in i .. j - 1 : e \notin DOMAIN records[k].ops

RecordsLead ==
    \A i \in 1 .. Len(records) :
        /\ DOMAIN records[i].ops = DOMAIN records[i].inverse
        /\ \A e \in DOMAIN records[i].ops :
              past[i][e] = records[i].inverse[e] /\ past[i + 1][e] = records[i].ops[e]

UntouchedKept ==
    \A i, j \in 1 .. Len(past) : \A e \in Entity :
        i <= j /\ Untouched(i, j, e) => past[i][e] = past[j][e]

HistoryInv == past[cursor + 1] = doc /\ RecordsLead /\ UntouchedKept
=============================================================================

-------------------------- MODULE ChangeLogProofs --------------------------
(***************************************************************************)
(* What TLC checks of ChangeLog on small rings, proved for every ring:     *)
(* whatever the bounds, the sizes and the documents.                       *)
(***************************************************************************)
EXTENDS ChangeLog, TLAPS, SequenceTheorems, FiniteSetTheorems, WellFoundedInduction

-----------------------------------------------------------------------------
(* Least elements: the eviction loop stops somewhere, and a run of records   *)
(* that touch an entity has an oldest one.                                   *)

LEMMA LeastExists ==
    ASSUME NEW S, S \subseteq Nat, S # {}
    PROVE  \E m \in S : \A k \in S : m <= k
<1>1. PICK m \in S : \A y \in S : ~ (<<y, m>> \in OpToRel(<, Nat))
  BY NatLessThanWellFounded, WFMin, Zenon
<1>2. ASSUME NEW k \in S
      PROVE  m <= k
  <2>1. <<k, m>> \notin OpToRel(<, Nat)
    BY <1>1
  <2>2. ~(k < m)
    BY <2>1 DEF OpToRel
  <2> QED
    BY <2>2
<1> QED
  BY <1>2

LEMMA EvictCountBounds ==
    ASSUME NEW ring \in Seq(Record), NEW b, ring # << >>
    PROVE  /\ EvictCount(ring, b) \in 0 .. Len(ring) - 1
           /\ EvictionStops(ring, b, EvictCount(ring, b))
           /\ \A j \in 0 .. EvictCount(ring, b) - 1 : ~EvictionStops(ring, b, j)
<1> DEFINE S == {k \in 0 .. Len(ring) - 1 : EvictionStops(ring, b, k)}
<1>1. Len(ring) \in Nat \ {0}
  BY EmptySeq
<1>2. Len(ring) - 1 \in S
  <2>1. EvictionStops(ring, b, Len(ring) - 1)
    BY <1>1 DEF EvictionStops
  <2> QED
    BY <1>1, <2>1
<1>3. PICK m \in S : \A k \in S : m <= k
  <2>1. S \subseteq Nat /\ S # {}
    BY <1>1, <1>2
  <2> HIDE DEF S
  <2> QED
    BY <2>1, LeastExists
<1>4. \A j \in 0 .. m - 1 : ~EvictionStops(ring, b, j)
  BY <1>1, <1>3
<1>5. \E k \in 0 .. Len(ring) - 1 :
         EvictionStops(ring, b, k) /\ \A j \in 0 .. k - 1 : ~EvictionStops(ring, b, j)
  BY <1>3, <1>4
<1> QED
  BY <1>5 DEF EvictCount
-----------------------------------------------------------------------------
(* What one append does to the ring and to the history, position by         *)
(* position: `k` records fall off the bottom and everything shifts by k.     *)

\* The state after appending `change` and dropping `k` records.
Appended(change, k) ==
    /\ evicted' = evicted + k
    /\ evictedHuman' \in Nat
    /\ cursor' = cursor + 1 - k
    /\ records' \in Seq(Record)
    /\ Len(records') = cursor + 1 - k
    /\ \A i \in 1 .. cursor + 1 - k :
          records'[i] = IF i + k <= cursor THEN records[i + k] ELSE change
    /\ past' = SubSeq(Append(SubSeq(past, 1, cursor + 1), doc'), k + 1, cursor + 2)
    /\ past' \in Seq(Document)
    /\ Len(past') = cursor + 2 - k
    /\ \A i \in 1 .. cursor + 2 - k :
          past'[i] = IF i + k <= cursor + 1 THEN past[i + k] ELSE doc'

LEMMA AppendShape ==
    ASSUME TypeOK, NEW change \in Record, doc' \in Document, LogAppend(change)
    PROVE  \E k \in 0 .. cursor : Appended(change, k)
<1> DEFINE cut  == SubSeq(records, 1, cursor)
           ring == Append(cut, change)
           kept == SubSeq(past, 1, cursor + 1)
           full == Append(kept, doc')
           b    == bytes - RedoTailSize + change.size
           k    == EvictCount(ring, b)
<1>1. /\ records \in Seq(Record) /\ cursor \in 0 .. Len(records)
      /\ past \in Seq(Document) /\ Len(past) = Len(records) + 1
      /\ evicted \in Nat /\ evictedHuman \in Nat
  BY DEF TypeOK
<1>2. /\ cut \in Seq(Record) /\ Len(cut) = cursor
      /\ \A i \in 1 .. cursor : cut[i] = records[i]
  <2>1. \A i \in 1 .. cursor : records[i] \in Record
    BY <1>1, ElementOfSeq
  <2> QED
    BY <1>1, <2>1, SubSeqProperties
<1>3. /\ ring \in Seq(Record) /\ ring # << >> /\ Len(ring) = cursor + 1
      /\ \A i \in 1 .. cursor + 1 : ring[i] = IF i <= cursor THEN records[i] ELSE change
  <2>1. /\ Len(ring) = Len(cut) + 1
        /\ \A i \in 1 .. Len(cut) : ring[i] = cut[i]
        /\ ring[Len(cut) + 1] = change
        /\ ring \in Seq(Record) /\ ring # << >>
    <3> HIDE DEF cut
    <3> QED
      BY <1>2, AppendProperties
  <2> HIDE DEF cut, ring
  <2> QED
    BY <1>1, <1>2, <2>1
<1>4. /\ kept \in Seq(Document) /\ Len(kept) = cursor + 1
      /\ \A i \in 1 .. cursor + 1 : kept[i] = past[i]
  <2>1. \A i \in 1 .. cursor + 1 : past[i] \in Document
    BY <1>1, ElementOfSeq
  <2> QED
    BY <1>1, <2>1, SubSeqProperties
<1>5. /\ full \in Seq(Document) /\ Len(full) = cursor + 2
      /\ \A i \in 1 .. cursor + 2 : full[i] = IF i <= cursor + 1 THEN past[i] ELSE doc'
  <2> HIDE DEF kept
  <2> QED
    BY <1>1, <1>4, AppendProperties
<1>6. k \in 0 .. cursor
  <2> HIDE DEF ring, b
  <2> QED
    BY <1>1, <1>3, EvictCountBounds
<1>7. /\ records' = SubSeq(ring, k + 1, cursor + 1)
      /\ cursor' = cursor + 1 - k
      /\ evicted' = evicted + k
      /\ evictedHuman' = evictedHuman + Cardinality({i \in 1 .. k : ring[i].by = "client"})
      /\ past' = SubSeq(full, k + 1, cursor + 2)
  <2>1. /\ records' = SubSeq(ring, k + 1, Len(ring))
        /\ cursor' = Len(ring) - k
        /\ evicted' = evicted + k
        /\ evictedHuman' = evictedHuman + Cardinality({i \in 1 .. k : ring[i].by = "client"})
        /\ past' = SubSeq(full, k + 1, cursor + 2)
    BY Zenon DEF LogAppend
  <2>2. Len(ring) = cursor + 1
    BY <1>3
  <2> HIDE DEF k, full, ring
  <2>3. records' = SubSeq(ring, k + 1, cursor + 1)
    BY <2>1, <2>2, Zenon
  <2>4. cursor' = Len(ring) - k
    BY <2>1, Zenon
  <2>5. cursor' = cursor + 1 - k
    BY <1>1, <1>6, <2>2, <2>4
  <2> QED
    BY <2>1, <2>3, <2>5, Zenon
<1>13. past' = SubSeq(Append(SubSeq(past, 1, cursor + 1), doc'), k + 1, cursor + 2)
  BY <1>7, Zenon
<1> HIDE DEF k, full, ring
<1>8. evictedHuman' \in Nat
  <2>1. IsFiniteSet({i \in 1 .. k : ring[i].by = "client"})
    <3>1. IsFiniteSet(1 .. k)
      BY <1>1, <1>6, FS_Interval
    <3>2. {i \in 1 .. k : ring[i].by = "client"} \subseteq 1 .. k
      OBVIOUS
    <3> QED
      BY <3>1, <3>2, FS_Subset
  <2> QED
    BY <1>1, <1>7, <2>1, FS_CardinalityType
<1>9. /\ records' \in Seq(Record) /\ Len(records') = cursor + 1 - k
      /\ \A i \in 1 .. cursor + 1 - k : records'[i] = ring[i + k]
  <2>1. \A i \in k + 1 .. cursor + 1 : ring[i] \in Record
    BY <1>1, <1>3, <1>6, ElementOfSeq
  <2>2. k + 1 \in Int /\ cursor + 1 \in Int
    BY <1>1, <1>6
  <2> QED
    BY <1>1, <1>6, <1>7, <2>1, <2>2, SubSeqProperties
<1>10. /\ past' \in Seq(Document) /\ Len(past') = cursor + 2 - k
       /\ \A i \in 1 .. cursor + 2 - k : past'[i] = full[i + k]
  <2>1. \A i \in k + 1 .. cursor + 2 : full[i] \in Document
    BY <1>1, <1>5, <1>6, ElementOfSeq
  <2>2. k + 1 \in Int /\ cursor + 2 \in Int
    BY <1>1, <1>6
  <2> QED
    BY <1>1, <1>6, <1>7, <2>1, <2>2, SubSeqProperties
<1>11. ASSUME NEW i \in 1 .. cursor + 1 - k
       PROVE  records'[i] = IF i + k <= cursor THEN records[i + k] ELSE change
  <2>1. i + k \in 1 .. cursor + 1
    BY <1>1, <1>6
  <2> QED
    BY <1>3, <1>9, <2>1
<1>12. ASSUME NEW i \in 1 .. cursor + 2 - k
       PROVE  past'[i] = IF i + k <= cursor + 1 THEN past[i + k] ELSE doc'
  <2>1. i + k \in 1 .. cursor + 2
    BY <1>1, <1>6
  <2> QED
    BY <1>5, <1>10, <2>1
<1> WITNESS k \in 0 .. cursor
<1> QED
  BY <1>7, <1>8, <1>9, <1>10, <1>11, <1>12, <1>13, Zenon DEF Appended

-----------------------------------------------------------------------------
(* Type correctness *)

LEMMA EffectType ==
    ASSUME NEW effect \in Effect
    PROVE  DOMAIN effect \subseteq Entity /\ \A e \in DOMAIN effect : effect[e] \in Content
BY DEF Effect

LEMMA OverlayType ==
    ASSUME NEW d \in Document, NEW effect \in Effect
    PROVE  Overlay(d, effect) \in Document
BY EffectType DEF Overlay, Document

LEMMA RecordFields ==
    ASSUME NEW r \in Record
    PROVE  /\ r.seq \in Nat /\ r.by \in Author /\ r.size \in Size
           /\ r.ops \in Effect /\ r.inverse \in Effect
BY DEF Record

\* The record commit builds is a record: its inverse covers what its ops touch.
LEMMA CommittedRecord ==
    ASSUME TypeOK, NEW by \in Author, NEW size \in Size, NEW effect \in Effect
    PROVE  [seq |-> version + 1, by |-> by, size |-> size, ops |-> effect,
            inverse |-> [e \in DOMAIN effect |-> doc[e]]] \in Record
<1>1. [e \in DOMAIN effect |-> doc[e]] \in Effect
  <2>1. PICK T \in SUBSET Entity \ {{}} : effect \in [T -> Content]
    BY DEF Effect
  <2>2. [e \in T |-> doc[e]] \in [T -> Content]
    BY DEF TypeOK, Document
  <2> QED
    BY <2>1, <2>2 DEF Effect
<1> QED
  BY <1>1 DEF Record, TypeOK

\* What one commit does, with the record it appends and the number it evicts.
LEMMA CommitShape ==
    ASSUME TypeOK, NEW by \in Author, NEW size \in Size, NEW effect \in Effect,
           Commit(by, size, effect)
    PROVE  /\ doc' = Overlay(doc, effect) /\ doc' \in Document
           /\ version' = version + 1
           /\ \E change \in Record :
                 /\ change.seq = version + 1
                 /\ change.ops = effect
                 /\ change.inverse = [e \in DOMAIN effect |-> doc[e]]
                 /\ \E k \in 0 .. cursor : Appended(change, k)
<1> DEFINE change == [seq |-> version + 1, by |-> by, size |-> size, ops |-> effect,
                      inverse |-> [e \in DOMAIN effect |-> doc[e]]]
<1>1. /\ change \in Record
      /\ change.seq = version + 1
      /\ change.ops = effect
      /\ change.inverse = [e \in DOMAIN effect |-> doc[e]]
  BY CommittedRecord
<1>2. doc' = Overlay(doc, effect) /\ doc' \in Document
  BY OverlayType DEF Commit, TypeOK
<1>3. LogAppend(change) /\ version' = version + 1
  BY Zenon DEF Commit
<1> HIDE DEF change
<1> QED
  BY <1>1, <1>2, <1>3, AppendShape, Zenon

\* Reversing a run of records gives every entity a value it may hold.
LEMMA ReversedType ==
    ASSUME TypeOK, NEW n \in 0 .. cursor
    PROVE  Reversed(n) \in Document
<1> SUFFICES ASSUME NEW e \in Entity
             PROVE  Reversed(n)[e] \in Content
  BY DEF Reversed, Document
<1> DEFINE touching == {i \in n + 1 .. cursor : e \in DOMAIN records[i].inverse}
<1>1. CASE touching = {}
  BY <1>1 DEF Reversed, TypeOK, Document
<1>2. CASE touching # {}
  <2>1. \E m \in touching : \A i \in touching : m <= i
    <3>1. touching \subseteq Nat
      BY DEF TypeOK
    <3> HIDE DEF touching
    <3> QED
      BY <1>2, <3>1, LeastExists
  <2>2. Min(touching) \in touching
    BY <2>1 DEF Min
  <2>3. records[Min(touching)].inverse \in Effect
    BY <2>2, ElementOfSeq, RecordFields DEF TypeOK
  <2>4. records[Min(touching)].inverse[e] \in Content
    BY <2>2, <2>3, EffectType
  <2> QED
    BY <1>2, <2>4 DEF Reversed
<1> QED
  BY <1>1, <1>2

\* An undo to a named record is an undo to a position below the cursor.
LEMMA UndoIsUndoTo ==
    ASSUME TypeOK, NEW to, Undo(to)
    PROVE  \E n \in 0 .. cursor - 1 : UndoTo(n)
<1>1. PICK i \in 1 .. cursor : UndoTo(i - 1)
  BY DEF Undo
<1>2. i - 1 \in 0 .. cursor - 1
  BY DEF TypeOK
<1> QED
  BY <1>1, <1>2
\* Log's variables keep their types, the cursor stays inside the ring, and the
\* history stays one longer than the ring: commit, undo and redo (planner/txn.mjs)
\* and the eviction inside append (planner/log.mjs), for every bound.
THEOREM TypeCorrect == Spec => []TypeOK
<1>1. Init => TypeOK
  <2> SUFFICES ASSUME Init PROVE TypeOK
    OBVIOUS
  <2>1. << >> \in Seq(Record) /\ Len(<< >>) = 0
    BY EmptySeq
  <2>2. <<doc>> \in Seq(Document) /\ Len(<<doc>>) = 1
    BY DEF Init
  <2> QED
    BY <2>1, <2>2 DEF Init, TypeOK
<1>2. TypeOK /\ [Next]_vars => TypeOK'
  <2> SUFFICES ASSUME TypeOK, [Next]_vars
               PROVE  TypeOK'
    OBVIOUS
  <2>1. ASSUME NEW by \in Author, NEW size \in Size, NEW effect \in Effect,
               Commit(by, size, effect)
        PROVE  TypeOK'
    <3>1. doc' \in Document /\ version' = version + 1
      BY <2>1, CommitShape
    <3>2. PICK change \in Record : \E k \in 0 .. cursor : Appended(change, k)
      BY <2>1, CommitShape
    <3> QED
      BY <3>1, <3>2 DEF TypeOK, Appended
  <2>2. ASSUME NEW to \in 1 .. version, Undo(to)
        PROVE  TypeOK'
    <3>1. PICK n \in 0 .. cursor - 1 : UndoTo(n)
      BY <2>2, UndoIsUndoTo
    <3>2. Reversed(n) \in Document
      BY <3>1, ReversedType DEF TypeOK
    <3> QED
      BY <3>1, <3>2 DEF UndoTo, TypeOK
  <2>3. ASSUME Redo
        PROVE  TypeOK'
    <3>1. records[cursor + 1].ops \in Effect
      BY <2>3, ElementOfSeq, RecordFields DEF Redo, TypeOK
    <3>2. doc' \in Document
      BY <2>3, <3>1, OverlayType DEF Redo, TypeOK
    <3> QED
      BY <2>3, <3>2 DEF Redo, TypeOK
  <2>4. CASE UNCHANGED vars
    BY <2>4 DEF vars, TypeOK
  <2> QED
    BY <2>1, <2>2, <2>3, <2>4 DEF Next
<1> QED
  BY <1>1, <1>2, PTL DEF Spec

-----------------------------------------------------------------------------
(* GR9 *)

\* No record carries a seq above the version, and seqs rise strictly along the
\* ring: what server/store.js re-checks after every flush (GR9), and what lets
\* undo's `to` name one record.
THEOREM SeqsAreOrdered == Spec => []SeqsOrdered
<1>1. Init => SeqsOrdered
  BY DEF Init, SeqsOrdered
<1>2. TypeOK /\ SeqsOrdered /\ [Next]_vars => SeqsOrdered'
  <2> SUFFICES ASSUME TypeOK, SeqsOrdered, [Next]_vars
               PROVE  SeqsOrdered'
    OBVIOUS
  <2>1. ASSUME NEW by \in Author, NEW size \in Size, NEW effect \in Effect,
               Commit(by, size, effect)
        PROVE  SeqsOrdered'
    <3>3. version' = version + 1
      BY <2>1, CommitShape
    <3>1. PICK change \in Record :
              change.seq = version + 1 /\ \E k \in 0 .. cursor : Appended(change, k)
      BY <2>1, CommitShape
    <3>2. PICK k \in 0 .. cursor : Appended(change, k)
      BY <3>1
    <3>4. /\ Len(records') = cursor + 1 - k
          /\ \A i \in 1 .. cursor + 1 - k :
                records'[i] = IF i + k <= cursor THEN records[i + k] ELSE change
      BY <3>2 DEF Appended
    <3>5. \A i \in 1 .. Len(records) : records[i].seq \in Nat
      BY ElementOfSeq, RecordFields DEF TypeOK
    <3>6. ASSUME NEW i \in 1 .. Len(records')
          PROVE  records'[i].seq <= version'
      <4>1. CASE i + k <= cursor
        <5>1. i + k \in 1 .. Len(records) /\ records'[i] = records[i + k]
          BY <3>4, <4>1 DEF TypeOK
        <5>2. records[i + k].seq \in Nat /\ records[i + k].seq <= version
          BY <3>5, <5>1 DEF SeqsOrdered
        <5> QED
          BY <3>3, <5>1, <5>2 DEF TypeOK
      <4>2. CASE ~(i + k <= cursor)
        BY <3>1, <3>3, <3>4, <4>2 DEF TypeOK
      <4> QED
        BY <4>1, <4>2
    <3>7. ASSUME NEW i \in 1 .. Len(records'), NEW j \in 1 .. Len(records'), i < j
          PROVE  records'[i].seq < records'[j].seq
      <4>1. i + k <= cursor /\ i + k \in 1 .. Len(records) /\ records'[i] = records[i + k]
        BY <3>4, <3>7 DEF TypeOK
      <4>2. CASE j + k <= cursor
        <5>1. /\ j + k \in 1 .. Len(records) /\ records'[j] = records[j + k]
              /\ i + k < j + k
          BY <3>4, <3>7, <4>2 DEF TypeOK
        <5> QED
          BY <4>1, <5>1 DEF SeqsOrdered
      <4>3. CASE ~(j + k <= cursor)
        <5>1. records'[j].seq = version + 1
          BY <3>1, <3>4, <3>7, <4>3 DEF TypeOK
        <5>2. records[i + k].seq \in Nat /\ records[i + k].seq <= version
          BY <3>5, <4>1 DEF SeqsOrdered
        <5> QED
          BY <4>1, <5>1, <5>2 DEF TypeOK
      <4> QED
        BY <4>2, <4>3
    <3> QED
      BY <3>6, <3>7 DEF SeqsOrdered
  <2>2. ASSUME version' = version + 1, records' = records
        PROVE  SeqsOrdered'
    <3>1. \A i \in 1 .. Len(records) : records[i].seq \in Nat
      BY ElementOfSeq, RecordFields DEF TypeOK
    <3> QED
      BY <2>2, <3>1 DEF SeqsOrdered, TypeOK
  <2>3. ASSUME NEW to \in 1 .. version, Undo(to)
        PROVE  SeqsOrdered'
    <3>1. PICK n \in 0 .. cursor - 1 : UndoTo(n)
      BY <2>3, UndoIsUndoTo
    <3> QED
      BY <2>2, <3>1 DEF UndoTo
  <2>4. CASE Redo
    BY <2>2, <2>4 DEF Redo
  <2>5. CASE UNCHANGED vars
    BY <2>5 DEF vars, SeqsOrdered
  <2> QED
    BY <2>1, <2>3, <2>4, <2>5 DEF Next
<1> QED
  BY <1>1, <1>2, TypeCorrect, PTL DEF Spec

-----------------------------------------------------------------------------
(* The history *)

\* Reversing the records above n in one step lands on the state before the oldest.
LEMMA ReversedIsPast ==
    ASSUME TypeOK, HistoryInv, NEW n \in 0 .. cursor
    PROVE  Reversed(n) = past[n + 1]
<1>1. past[n + 1] \in Document
  BY ElementOfSeq DEF TypeOK
<1>2. ASSUME NEW e \in Entity
      PROVE  Reversed(n)[e] = past[n + 1][e]
  <2> DEFINE touching == {i \in n + 1 .. cursor : e \in DOMAIN records[i].inverse}
  <2>1. \A i \in n + 1 .. cursor : i \in 1 .. Len(records)
    BY DEF TypeOK
  <2>2. CASE touching = {}
    <3>1. \A i \in n + 1 .. cursor : e \notin DOMAIN records[i].ops
      BY <2>1, <2>2 DEF HistoryInv, RecordsLead
    <3>2. Untouched(n + 1, cursor + 1, e)
      BY <3>1 DEF Untouched, TypeOK
    <3>3. /\ n + 1 \in 1 .. Len(past) /\ cursor + 1 \in 1 .. Len(past)
          /\ n + 1 <= cursor + 1
      BY DEF TypeOK
    <3>4. past[n + 1][e] = past[cursor + 1][e]
      BY <3>2, <3>3 DEF HistoryInv, UntouchedKept
    <3> QED
      BY <2>2, <3>4 DEF Reversed, HistoryInv
  <2>3. CASE touching # {}
    <3> DEFINE m == Min(touching)
    <3>1. \E l \in touching : \A i \in touching : l <= i
      <4>1. touching \subseteq Nat
        BY DEF TypeOK
      <4> HIDE DEF touching
      <4> QED
        BY <2>3, <4>1, LeastExists
    <3>2. m \in touching /\ \A i \in touching : m <= i
      BY <3>1 DEF Min
    <3>3. m \in n + 1 .. cursor /\ m \in 1 .. Len(records) /\ e \in DOMAIN records[m].inverse
      BY <2>1, <3>2
    <3>4. \A i \in n + 1 .. m - 1 : e \notin DOMAIN records[i].ops
      <4> SUFFICES ASSUME NEW i \in n + 1 .. m - 1, e \in DOMAIN records[i].ops
                   PROVE  FALSE
        OBVIOUS
      <4>1. i \in n + 1 .. cursor
        BY <3>3 DEF TypeOK
      <4>2. i \in touching
        BY <2>1, <4>1 DEF HistoryInv, RecordsLead
      <4> HIDE DEF m, touching
      <4> QED
        BY <3>2, <3>3, <4>2 DEF TypeOK
    <3>5. Reversed(n)[e] = records[m].inverse[e]
      BY <2>3 DEF Reversed
    <3> HIDE DEF m, touching
    <3>6. Untouched(n + 1, m, e)
      BY <3>4 DEF Untouched
    <3>7. n + 1 \in 1 .. Len(past) /\ m \in 1 .. Len(past) /\ n + 1 <= m
      BY <3>3 DEF TypeOK
    <3>8. past[n + 1][e] = past[m][e]
      BY <3>6, <3>7 DEF HistoryInv, UntouchedKept
    <3> QED
      BY <3>3, <3>5, <3>8 DEF HistoryInv, RecordsLead
  <2> QED
    BY <2>2, <2>3
<1> QED
  BY <1>1, <1>2 DEF Reversed, Document

\* Replaying the next record's ops lands on the state after it.
LEMMA RedoneIsPast ==
    ASSUME TypeOK, HistoryInv, cursor < Len(records)
    PROVE  Overlay(doc, records[cursor + 1].ops) = past[cursor + 2]
<1> DEFINE ops == records[cursor + 1].ops
<1>1. /\ cursor + 1 \in 1 .. Len(records) /\ cursor + 1 \in 1 .. Len(past)
      /\ cursor + 2 \in 1 .. Len(past) /\ past[cursor + 2] \in Document
  BY ElementOfSeq DEF TypeOK
<1>2. ASSUME NEW e \in Entity
      PROVE  Overlay(doc, ops)[e] = past[cursor + 2][e]
  <2>1. CASE e \in DOMAIN ops
    <3>1. past[cursor + 2][e] = ops[e]
      <4>1. past[(cursor + 1) + 1][e] = ops[e]
        BY <1>1, <2>1 DEF HistoryInv, RecordsLead
      <4> QED
        BY <4>1 DEF TypeOK
    <3> QED
      BY <2>1, <3>1 DEF Overlay
  <2>2. CASE e \notin DOMAIN ops
    <3>1. Untouched(cursor + 1, cursor + 2, e)
      BY <2>2 DEF Untouched, TypeOK
    <3>2. cursor + 1 <= cursor + 2
      BY DEF TypeOK
    <3>3. past[cursor + 1][e] = past[cursor + 2][e]
      BY <1>1, <3>1, <3>2 DEF HistoryInv, UntouchedKept
    <3> QED
      BY <2>2, <3>3 DEF Overlay, HistoryInv
  <2> QED
    BY <2>1, <2>2
<1> QED
  BY <1>1, <1>2 DEF Overlay, Document

\* A commit extends the history: the new state follows the one it was made on.
LEMMA CommitKeepsHistory ==
    ASSUME TypeOK, HistoryInv, NEW by \in Author, NEW size \in Size, NEW effect \in Effect,
           Commit(by, size, effect)
    PROVE  HistoryInv'
<1>1. doc' = Overlay(doc, effect)
  BY CommitShape
<1>2. PICK change \in Record :
          /\ change.ops = effect
          /\ change.inverse = [e \in DOMAIN effect |-> doc[e]]
          /\ \E k \in 0 .. cursor : Appended(change, k)
  BY CommitShape
<1>3. PICK k \in 0 .. cursor : Appended(change, k)
  BY <1>2
<1>4. /\ cursor \in Nat /\ cursor <= Len(records) /\ Len(past) = Len(records) + 1
      /\ k \in Nat /\ k <= cursor
      /\ cursor' = cursor + 1 - k /\ Len(records') = cursor + 1 - k
      /\ Len(past') = cursor + 2 - k
  BY <1>3 DEF Appended, TypeOK
<1>5. /\ \A i \in 1 .. cursor + 1 - k :
            records'[i] = IF i + k <= cursor THEN records[i + k] ELSE change
      /\ \A i \in 1 .. cursor + 2 - k :
            past'[i] = IF i + k <= cursor + 1 THEN past[i + k] ELSE doc'
  BY <1>3 DEF Appended
<1>6. past[cursor + 1] = doc
  BY DEF HistoryInv
<1>7. past'[cursor' + 1] = doc'
  <2>1. /\ cursor' + 1 \in 1 .. cursor + 2 - k
        /\ ~((cursor' + 1) + k <= cursor + 1)
    BY <1>4
  <2> QED
    BY <1>5, <2>1
<1>8. ASSUME NEW i \in 1 .. Len(records')
      PROVE  /\ DOMAIN records'[i].ops = DOMAIN records'[i].inverse
             /\ \A e \in DOMAIN records'[i].ops :
                   /\ past'[i][e] = records'[i].inverse[e]
                   /\ past'[i + 1][e] = records'[i].ops[e]
  <2>1. CASE i + k <= cursor
    <3>1. i + k \in 1 .. Len(records) /\ records'[i] = records[i + k]
      BY <1>4, <1>5, <2>1
    <3>2. past'[i] = past[i + k]
      BY <1>4, <1>5, <2>1
    <3>3. past'[i + 1] = past[i + k + 1]
      <4>1. i + 1 \in 1 .. cursor + 2 - k /\ (i + 1) + k <= cursor + 1
        BY <1>4, <2>1
      <4>2. past'[i + 1] = past[(i + 1) + k]
        BY <1>5, <4>1
      <4>3. (i + 1) + k = i + k + 1
        BY <1>4
      <4> QED
        BY <4>2, <4>3
    <3> QED
      BY <3>1, <3>2, <3>3 DEF HistoryInv, RecordsLead
  <2>2. CASE ~(i + k <= cursor)
    <3>0. /\ i + k = cursor + 1 /\ i \in 1 .. cursor + 1 - k
          /\ i \in 1 .. cursor + 2 - k /\ i + k <= cursor + 1
          /\ i + 1 \in 1 .. cursor + 2 - k /\ ~((i + 1) + k <= cursor + 1)
      BY <1>4, <2>2
    <3>1. records'[i] = change
      BY <1>5, <2>2, <3>0
    <3>2. past'[i] = doc
      BY <1>5, <1>6, <3>0
    <3>3. past'[i + 1] = doc'
      BY <1>5, <3>0
    <3>4. \A e \in DOMAIN effect : doc'[e] = effect[e]
      BY <1>1, EffectType DEF Overlay
    <3> QED
      BY <1>2, <3>1, <3>2, <3>3, <3>4
  <2> QED
    BY <2>1, <2>2
<1>9. ASSUME NEW i \in 1 .. Len(past'), NEW j \in 1 .. Len(past'), NEW e \in Entity,
             i <= j, Untouched(i, j, e)'
      PROVE  past'[i][e] = past'[j][e]
  <2>1. CASE i = j
    BY <2>1
  <2>2. CASE i < j
    <3>1. /\ i + k \in 1 .. Len(past) /\ i + k <= cursor + 1
          /\ past'[i] = past[i + k]
      <4>1. /\ i + k \in 1 .. Len(past) /\ i + k <= cursor + 1
            /\ i \in 1 .. cursor + 2 - k
        BY <1>4, <2>2
      <4> QED
        BY <1>5, <4>1
    <3>2. ASSUME NEW l \in i + k .. cursor, l < j + k
          PROVE  e \notin DOMAIN records[l].ops
      <4>1. /\ l - k \in i .. j - 1 /\ l - k \in 1 .. cursor + 1 - k
            /\ (l - k) + k = l
        BY <1>4, <3>2
      <4>2. records'[l - k] = records[l]
        BY <1>5, <4>1
      <4>3. e \notin DOMAIN records'[l - k].ops
        BY <1>9, <4>1 DEF Untouched
      <4> QED
        BY <4>2, <4>3
    <3>3. CASE j + k <= cursor + 1
      <4>1. j + k \in 1 .. Len(past) /\ past'[j] = past[j + k] /\ i + k <= j + k
        <5>1. /\ j + k \in 1 .. Len(past) /\ i + k <= j + k
              /\ j \in 1 .. cursor + 2 - k
          BY <1>4, <2>2, <3>3
        <5> QED
          BY <1>5, <3>3, <5>1
      <4>2. Untouched(i + k, j + k, e)
        BY <1>4, <3>2, <3>3 DEF Untouched
      <4>3. past[i + k][e] = past[j + k][e]
        BY <3>1, <4>1, <4>2 DEF HistoryInv, UntouchedKept
      <4> QED
        BY <3>1, <4>1, <4>3
    <3>4. CASE ~(j + k <= cursor + 1)
      <4>1. j + k = cursor + 2 /\ past'[j] = doc'
        <5>1. j + k = cursor + 2 /\ j \in 1 .. cursor + 2 - k
          BY <1>4, <3>4
        <5> QED
          BY <1>5, <3>4, <5>1
      <4>2. Untouched(i + k, cursor + 1, e)
        BY <1>4, <3>2, <4>1 DEF Untouched
      <4>3. past[i + k][e] = doc[e]
        <5>1. cursor + 1 \in 1 .. Len(past)
          BY <1>4
        <5> QED
          BY <1>6, <3>1, <4>2, <5>1 DEF HistoryInv, UntouchedKept
      <4>4. e \notin DOMAIN effect
        <5>1. /\ cursor + 1 - k \in i .. j - 1
              /\ cursor + 1 - k \in 1 .. cursor + 1 - k
              /\ ~((cursor + 1 - k) + k <= cursor)
          BY <1>4, <2>2, <4>1
        <5>2. records'[cursor + 1 - k] = change
          BY <1>5, <5>1
        <5>3. e \notin DOMAIN records'[cursor + 1 - k].ops
          BY <1>9, <5>1 DEF Untouched
        <5> QED
          BY <1>2, <5>2, <5>3
      <4>5. doc'[e] = doc[e]
        BY <1>1, <4>4 DEF Overlay
      <4> QED
        BY <3>1, <4>1, <4>3, <4>5
    <3> QED
      BY <3>3, <3>4
  <2> QED
    BY <2>1, <2>2, <1>9
<1> QED
  BY <1>7, <1>8, <1>9 DEF HistoryInv, RecordsLead, UntouchedKept

\* Undo and redo move the cursor to a state the history already holds.
LEMMA MoveKeepsHistory ==
    ASSUME HistoryInv, UNCHANGED <<records, past>>, doc' = past[cursor' + 1]
    PROVE  HistoryInv'
BY DEF HistoryInv, RecordsLead, UntouchedKept, Untouched

\* Undo lands on the state before the record it names; redo on the next one.
LEMMA UndoLands ==
    ASSUME TypeOK, HistoryInv, NEW n \in 0 .. cursor - 1, UndoTo(n)
    PROVE  doc' = past[n + 1] /\ cursor' = n /\ UNCHANGED <<records, past>>
<1>1. n \in 0 .. cursor
  BY DEF TypeOK
<1> QED
  BY <1>1, ReversedIsPast DEF UndoTo

LEMMA RedoLands ==
    ASSUME TypeOK, HistoryInv, Redo
    PROVE  /\ doc' = past[cursor + 2] /\ cursor' = cursor + 1
           /\ cursor + 1 < Len(past) /\ UNCHANGED <<records, past>>
BY RedoneIsPast DEF Redo, TypeOK

\* The ring's inverses and ops lead between the states of one linear history,
\* through every cut redo tail and every eviction: what makes undo and redo
\* (planner/txn.mjs) restore exactly what stood there.
THEOREM HistoryIsKept == Spec => []HistoryInv
<1>1. Init => HistoryInv
  <2> SUFFICES ASSUME Init PROVE HistoryInv
    OBVIOUS
  <2>1. records = << >> /\ cursor = 0 /\ past = <<doc>> /\ Len(records) = 0 /\ Len(past) = 1
    BY DEF Init
  <2> QED
    BY <2>1 DEF HistoryInv, RecordsLead, UntouchedKept
<1>2. TypeOK /\ HistoryInv /\ [Next]_vars => HistoryInv'
  <2> SUFFICES ASSUME TypeOK, HistoryInv, [Next]_vars
               PROVE  HistoryInv'
    OBVIOUS
  <2>1. ASSUME NEW to \in 1 .. version, Undo(to)
        PROVE  HistoryInv'
    <3>1. PICK n \in 0 .. cursor - 1 : UndoTo(n)
      BY <2>1, UndoIsUndoTo
    <3> QED
      BY <3>1, UndoLands, MoveKeepsHistory
  <2>2. CASE Redo
    <3>1. doc' = past[cursor' + 1] /\ UNCHANGED <<records, past>>
      BY <2>2, RedoLands DEF TypeOK
    <3> QED
      BY <3>1, MoveKeepsHistory
  <2>3. CASE UNCHANGED vars
    BY <2>3, MoveKeepsHistory DEF vars, HistoryInv
  <2> QED
    BY <2>1, <2>2, <2>3, CommitKeepsHistory DEF Next
<1> QED
  BY <1>1, <1>2, TypeCorrect, PTL DEF Spec

\* The log implements a linear undo history (module UndoHistory): each commit is
\* an edit that forgets only the oldest states, each undo or redo of any run of
\* changes lands on a state the history holds.
THEOREM LogIsAHistory == Spec => HistorySpec
<1>1. Init => History!Init
  BY DEF Init, History!Init
<1>2. TypeOK /\ HistoryInv /\ [Next]_vars => [History!Next]_(History!vars)
  <2> SUFFICES ASSUME TypeOK, HistoryInv, [Next]_vars
               PROVE  [History!Next]_(History!vars)
    OBVIOUS
  <2>1. ASSUME NEW by \in Author, NEW size \in Size, NEW effect \in Effect,
               Commit(by, size, effect)
        PROVE  History!Next
    <3>1. doc' \in Document
      BY <2>1, CommitShape
    <3>2. PICK change \in Record : \E k \in 0 .. cursor : Appended(change, k)
      BY <2>1, CommitShape
    <3>3. PICK k \in 0 .. cursor : Appended(change, k)
      BY <3>2
    <3> DEFINE kept == Append(SubSeq(past, 1, cursor + 1), doc')
    <3>4. Len(kept) = cursor + 2
      <4> DEFINE head == SubSeq(past, 1, cursor + 1)
      <4>1. \A i \in 1 .. cursor + 1 : past[i] \in Document
        BY ElementOfSeq DEF TypeOK
      <4>2. head \in Seq(Document) /\ Len(head) = cursor + 1
        BY <4>1, SubSeqProperties DEF TypeOK
      <4> HIDE DEF head
      <4>3. Len(Append(head, doc')) = cursor + 2
        BY <3>1, <4>2, AppendProperties DEF TypeOK
      <4> QED
        BY <4>3 DEF head
    <3>5. past' = SubSeq(kept, k + 1, Len(kept)) /\ cursor' = cursor + 1 - k
      BY <3>3, <3>4, Zenon DEF Appended
    <3>6. cursor' = Len(kept) - k - 1
      BY <3>4, <3>5 DEF TypeOK
    <3>7. History!Edit(doc', k)
      BY <3>5, <3>6, Zenon DEF History!Edit
    <3> QED
      BY <3>1, <3>7, Zenon DEF History!Next
  <2>2. ASSUME NEW to \in 1 .. version, Undo(to)
        PROVE  History!Next
    <3>1. PICK n \in 0 .. cursor - 1 : UndoTo(n)
      BY <2>2, UndoIsUndoTo
    <3>2. History!Undo(n)
      BY <3>1, UndoLands DEF History!Undo
    <3> QED
      BY <3>1, <3>2 DEF History!Next
  <2>3. CASE Redo
    BY <2>3, RedoLands DEF History!Redo, History!Next
  <2>4. CASE UNCHANGED vars
    BY <2>4 DEF vars, History!vars
  <2> QED
    BY <2>1, <2>2, <2>3, <2>4 DEF Next
<1> QED
  BY <1>1, <1>2, TypeCorrect, HistoryIsKept, PTL DEF Spec, HistorySpec, History!Spec

-----------------------------------------------------------------------------
(* What is never evicted *)

\* "NEVER evict the only record, whatever its size" (planner/log.mjs): whatever an
\* accepted change weighs and however far over its bounds the ring is, that
\* change is in the ring, applied, and the next one undo would reverse.
THEOREM NewestIsUndoable == Spec => NewestUndoable
<1> DEFINE Newest == records' # records => /\ cursor' = Len(records') /\ cursor' > 0
                                           /\ records'[cursor'].seq = version'
<1>1. TypeOK /\ [Next]_vars => [Newest]_vars
  <2> SUFFICES ASSUME TypeOK, [Next]_vars
               PROVE  Newest
    OBVIOUS
  <2>1. ASSUME NEW by \in Author, NEW size \in Size, NEW effect \in Effect,
               Commit(by, size, effect)
        PROVE  Newest
    <3>1. PICK change \in Record :
              change.seq = version + 1 /\ \E k \in 0 .. cursor : Appended(change, k)
      BY <2>1, CommitShape
    <3>2. PICK k \in 0 .. cursor : Appended(change, k)
      BY <3>1
    <3>3. /\ cursor' = cursor + 1 - k /\ Len(records') = cursor + 1 - k
          /\ cursor + 1 - k \in 1 .. cursor + 1 - k /\ cursor + 1 - k > 0
          /\ ~((cursor + 1 - k) + k <= cursor)
      BY <3>2 DEF Appended, TypeOK
    <3>4. records'[cursor + 1 - k] = change
      BY <3>2, <3>3 DEF Appended
    <3>5. version' = version + 1
      BY <2>1, CommitShape
    <3> QED
      BY <3>1, <3>3, <3>4, <3>5
  <2>2. ASSUME NEW to \in 1 .. version, Undo(to)
        PROVE  Newest
    BY <2>2 DEF Undo, UndoTo
  <2>3. CASE Redo
    BY <2>3 DEF Redo
  <2>4. CASE UNCHANGED vars
    BY <2>4 DEF vars
  <2> QED
    BY <2>1, <2>2, <2>3, <2>4 DEF Next
<1> QED
  BY <1>1, TypeCorrect, PTL DEF Spec, NewestUndoable

-----------------------------------------------------------------------------
(* Sizes added up.  What a recursive function computes is proved from the    *)
(* least argument at which it would be wrong.                                *)

\* Induction on the naturals, as a fact about a set: its least missing number is
\* neither 0 nor the successor of a member.
LEMMA NatFromZero ==
    ASSUME NEW S, S \subseteq Nat, 0 \in S, \A n \in S : n + 1 \in S
    PROVE  S = Nat
<1> SUFFICES ASSUME Nat \ S # {} PROVE FALSE
  OBVIOUS
<1>1. PICK m \in Nat \ S : \A k \in Nat \ S : m <= k
  BY LeastExists
<1>2. m # 0 /\ m - 1 \in Nat /\ ~(m <= m - 1)
  OBVIOUS
<1> QED
  BY <1>1, <1>2

\* The running sums of a ring are what their recursive definition says.
LEMMA SumsExist ==
    ASSUME NEW ring \in Seq(Record)
    PROVE  Sums(ring) = [n \in 0 .. Len(ring) |->
                            IF n = 0 THEN 0 ELSE Sums(ring)[n - 1] + ring[n].size]
<1> DEFINE Adds(f, k) == f = [n \in 0 .. k |-> IF n = 0 THEN 0 ELSE f[n - 1] + ring[n].size]
           S == {k \in Nat : \E f : Adds(f, k)}
<1>1. 0 \in S
  <2>1. Adds([n \in 0 .. 0 |-> 0], 0)
    OBVIOUS
  <2> QED
    BY <2>1
<1>2. ASSUME NEW k \in S
      PROVE  k + 1 \in S
  <2>1. PICK f : Adds(f, k)
    OBVIOUS
  <2> DEFINE g == [n \in 0 .. k + 1 |-> IF n = k + 1 THEN f[k] + ring[k + 1].size ELSE f[n]]
  <2>2. ASSUME NEW n \in 0 .. k + 1
        PROVE  g[n] = IF n = 0 THEN 0 ELSE g[n - 1] + ring[n].size
    <3>1. CASE n = k + 1
      BY <3>1
    <3>2. CASE n # k + 1 /\ n # 0
      <4>1. n \in 0 .. k /\ n - 1 \in 0 .. k /\ n - 1 # k + 1 /\ n - 1 \in 0 .. k + 1
        BY <3>2
      <4>2. f[n] = f[n - 1] + ring[n].size
        BY <2>1, <3>2, <4>1
      <4> QED
        BY <3>2, <4>1, <4>2
    <3>3. CASE n = 0
      <4>1. 0 \in 0 .. k /\ 0 # k + 1
        OBVIOUS
      <4> QED
        BY <2>1, <3>3, <4>1
    <3> QED
      BY <3>1, <3>2, <3>3
  <2>3. Adds(g, k + 1)
    BY <2>2
  <2> QED
    BY <2>3
<1>3. Len(ring) \in S
  <2>1. S = Nat
    <3> HIDE DEF S
    <3>1. S \subseteq Nat
      BY DEF S
    <3> QED
      BY <1>1, <1>2, <3>1, NatFromZero
  <2> QED
    BY <2>1, LenProperties
<1> QED
  BY <1>3, Zenon DEF Sums

LEMMA SumsStep ==
    ASSUME NEW ring \in Seq(Record)
    PROVE  /\ Sums(ring)[0] = 0
           /\ \A n \in 1 .. Len(ring) : Sums(ring)[n] = Sums(ring)[n - 1] + ring[n].size
<1> DEFINE f == Sums(ring)
<1>1. f = [n \in 0 .. Len(ring) |-> IF n = 0 THEN 0 ELSE f[n - 1] + ring[n].size]
  BY SumsExist
<1>2. Len(ring) \in Nat
  OBVIOUS
<1> HIDE DEF f
<1>3. \A n \in 0 .. Len(ring) : f[n] = IF n = 0 THEN 0 ELSE f[n - 1] + ring[n].size
  BY <1>1
<1>4. 0 \in 0 .. Len(ring) /\ \A n \in 1 .. Len(ring) : n \in 0 .. Len(ring) /\ n # 0
  BY <1>2
<1> QED
  BY <1>3, <1>4 DEF f

LEMMA SumsAreNat ==
    ASSUME NEW ring \in Seq(Record), NEW n \in 0 .. Len(ring)
    PROVE  Sums(ring)[n] \in Nat
<1> DEFINE S == {k \in Nat : k <= Len(ring) => Sums(ring)[k] \in Nat}
<1>1. 0 \in S
  BY SumsStep
<1>2. ASSUME NEW k \in S
      PROVE  k + 1 \in S
  <2>1. SUFFICES ASSUME k + 1 <= Len(ring) PROVE Sums(ring)[k + 1] \in Nat
    OBVIOUS
  <2>2. k + 1 \in 1 .. Len(ring) /\ (k + 1) - 1 = k /\ k <= Len(ring)
    BY <2>1
  <2>3. ring[k + 1].size \in Nat
    BY <2>2, ElementOfSeq, RecordFields, ConstantsAssumption
  <2> QED
    BY <2>2, <2>3, SumsStep
<1>3. S = Nat
  <2>1. S \subseteq Nat
    OBVIOUS
  <2> HIDE DEF S
  <2> QED
    BY <1>1, <1>2, <2>1, NatFromZero
<1> QED
  BY <1>3

\* A ring whose records are those of another from m on adds up to the rest of it.
LEMMA SumsShift ==
    ASSUME NEW r \in Seq(Record), NEW s \in Seq(Record), NEW m \in Nat, m + Len(s) <= Len(r),
           \A i \in 1 .. Len(s) : s[i] = r[m + i]
    PROVE  Sums(r)[m + Len(s)] = Sums(r)[m] + SizeOf(s)
<1> DEFINE S == {k \in Nat : k <= Len(s) => Sums(r)[m + k] = Sums(r)[m] + Sums(s)[k]}
<1>0. m \in 0 .. Len(r) /\ Len(s) \in Nat /\ Sums(r)[m] \in Nat
  <2>1. m \in 0 .. Len(r) /\ Len(s) \in Nat
    OBVIOUS
  <2> QED
    BY <2>1, SumsAreNat
<1>1. 0 \in S
  BY <1>0, SumsStep
<1>2. ASSUME NEW k \in S
      PROVE  k + 1 \in S
  <2>1. SUFFICES ASSUME k + 1 <= Len(s)
                 PROVE  Sums(r)[m + (k + 1)] = Sums(r)[m] + Sums(s)[k + 1]
    OBVIOUS
  <2>2. /\ k + 1 \in 1 .. Len(s) /\ (k + 1) - 1 = k /\ k <= Len(s) /\ k \in 0 .. Len(s)
        /\ m + (k + 1) \in 1 .. Len(r) /\ (m + (k + 1)) - 1 = m + k /\ m + k \in 0 .. Len(r)
    BY <2>1
  <2>3. Sums(s)[k + 1] = Sums(s)[k] + s[k + 1].size
    BY <2>2, SumsStep
  <2>4. Sums(r)[m + (k + 1)] = Sums(r)[m + k] + r[m + (k + 1)].size
    BY <2>2, SumsStep
  <2>5. Sums(s)[k] \in Nat /\ s[k + 1].size \in Nat
    BY <2>2, SumsAreNat, ElementOfSeq, RecordFields, ConstantsAssumption
  <2>6. s[k + 1] = r[m + (k + 1)] /\ Sums(r)[m + k] = Sums(r)[m] + Sums(s)[k]
    BY <2>2
  <2> QED
    BY <1>0, <2>3, <2>4, <2>5, <2>6
<1>3. S = Nat
  <2>1. S \subseteq Nat
    OBVIOUS
  <2> HIDE DEF S
  <2> QED
    BY <1>1, <1>2, <2>1, NatFromZero
<1> QED
  BY <1>0, <1>3 DEF SizeOf

LEMMA SizeIsNat ==
    ASSUME NEW ring \in Seq(Record)
    PROVE  SizeOf(ring) \in Nat
<1>1. Len(ring) \in 0 .. Len(ring)
  OBVIOUS
<1> QED
  BY <1>1, SumsAreNat DEF SizeOf

LEMMA SizeSplits ==
    ASSUME NEW ring \in Seq(Record), NEW k \in 0 .. Len(ring)
    PROVE  /\ SubSeq(ring, 1, k) \in Seq(Record) /\ SubSeq(ring, k + 1, Len(ring)) \in Seq(Record)
           /\ SizeOf(SubSeq(ring, 1, k)) \in Nat /\ SizeOf(SubSeq(ring, k + 1, Len(ring))) \in Nat
           /\ Sums(ring)[k] = SizeOf(SubSeq(ring, 1, k))
           /\ SizeOf(ring) = SizeOf(SubSeq(ring, 1, k)) + SizeOf(SubSeq(ring, k + 1, Len(ring)))
<1> DEFINE head == SubSeq(ring, 1, k)
           tail == SubSeq(ring, k + 1, Len(ring))
<1>1. \A i \in 1 .. Len(ring) : ring[i] \in Record
  BY ElementOfSeq
<1>2. /\ head \in Seq(Record) /\ Len(head) = k
      /\ \A i \in 1 .. k : head[i] = ring[i]
  BY <1>1, SubSeqProperties
<1>3. /\ tail \in Seq(Record) /\ Len(tail) = Len(ring) - k
      /\ \A i \in 1 .. Len(ring) - k : tail[i] = ring[k + i]
  BY <1>1, SubSeqProperties
<1> HIDE DEF head, tail
<1>4. Sums(ring)[0 + Len(head)] = Sums(ring)[0] + SizeOf(head)
  <2>1. 0 + Len(head) <= Len(ring) /\ \A i \in 1 .. Len(head) : head[i] = ring[0 + i]
    BY <1>2
  <2> QED
    BY <1>2, <2>1, SumsShift
<1>5. Sums(ring)[k + Len(tail)] = Sums(ring)[k] + SizeOf(tail)
  <2>1. k + Len(tail) <= Len(ring) /\ \A i \in 1 .. Len(tail) : tail[i] = ring[k + i]
    BY <1>3
  <2>2. k \in Nat
    OBVIOUS
  <2> QED
    BY <1>3, <2>1, <2>2, SumsShift
<1>6. Sums(ring)[k] = SizeOf(head)
  BY <1>2, <1>4, SumsStep, SizeIsNat
<1>7. k + Len(tail) = Len(ring)
  BY <1>3
<1>8. SizeOf(ring) = SizeOf(head) + SizeOf(tail)
  BY <1>5, <1>6, <1>7 DEF SizeOf
<1> QED
  BY <1>2, <1>3, <1>6, <1>8, SizeIsNat DEF head, tail

LEMMA SizeAppends ==
    ASSUME NEW ring \in Seq(Record), NEW change \in Record
    PROVE  /\ SizeOf(Append(ring, change)) = SizeOf(ring) + change.size
           /\ change.size \in Nat
<1> DEFINE longer == Append(ring, change)
<1>1. /\ longer \in Seq(Record) /\ Len(longer) = Len(ring) + 1 /\ longer[Len(ring) + 1] = change
      /\ \A i \in 1 .. Len(ring) : longer[i] = ring[i]
  BY AppendProperties
<1> HIDE DEF longer
<1>2. Sums(longer)[0 + Len(ring)] = Sums(longer)[0] + SizeOf(ring)
  <2>1. 0 + Len(ring) <= Len(longer) /\ \A i \in 1 .. Len(ring) : ring[i] = longer[0 + i]
    BY <1>1
  <2> QED
    BY <1>1, <2>1, SumsShift
<1>3. Len(ring) + 1 \in 1 .. Len(longer) /\ (Len(ring) + 1) - 1 = Len(ring)
  BY <1>1
<1>4. Sums(longer)[Len(ring) + 1] = Sums(longer)[Len(ring)] + change.size
  BY <1>1, <1>3, SumsStep
<1>5. Sums(longer)[Len(ring)] = SizeOf(ring)
  BY <1>1, <1>2, SumsStep, SizeIsNat
<1>6. SizeOf(longer) = SizeOf(ring) + change.size
  BY <1>1, <1>4, <1>5 DEF SizeOf
<1> QED
  BY <1>6, RecordFields, ConstantsAssumption DEF longer

-----------------------------------------------------------------------------
(* The byte count                                                           *)

\* What Log.append works with: the ring before eviction, and its size.
Ring(change) == Append(SubSeq(records, 1, cursor), change)
RingBytes(change) == bytes - RedoTailSize + change.size

LEMMA RingShape ==
    ASSUME TypeOK, BytesExact, NEW change \in Record
    PROVE  /\ Ring(change) \in Seq(Record) /\ Len(Ring(change)) = cursor + 1
           /\ \A i \in 1 .. cursor : Ring(change)[i] = records[i]
           /\ Ring(change)[cursor + 1] = change
           /\ RingBytes(change) = SizeOf(Ring(change))
<1> DEFINE cut == SubSeq(records, 1, cursor)
<1>1. records \in Seq(Record) /\ cursor \in 0 .. Len(records)
  BY DEF TypeOK
<1>2. cut \in Seq(Record) /\ Len(cut) = cursor /\ \A i \in 1 .. cursor : cut[i] = records[i]
  <2>1. \A i \in 1 .. cursor : records[i] \in Record
    BY <1>1, ElementOfSeq
  <2> QED
    BY <1>1, <2>1, SubSeqProperties
<1>3. /\ SizeOf(cut) \in Nat /\ RedoTailSize \in Nat
      /\ bytes = SizeOf(cut) + RedoTailSize
  BY <1>1, SizeSplits DEF RedoTailSize, BytesExact
<1> HIDE DEF cut
<1>4. /\ SizeOf(Append(cut, change)) = SizeOf(cut) + change.size /\ change.size \in Nat
  BY <1>2, SizeAppends
<1>5. RingBytes(change) = SizeOf(cut) + change.size
  BY <1>3, <1>4 DEF RingBytes
<1>6. /\ Append(cut, change) \in Seq(Record) /\ Len(Append(cut, change)) = cursor + 1
      /\ \A i \in 1 .. cursor : Append(cut, change)[i] = cut[i]
      /\ Append(cut, change)[cursor + 1] = change
  BY <1>2, AppendProperties
<1> QED
  BY <1>2, <1>4, <1>5, <1>6 DEF Ring, cut

LEMMA AppendKeepsBytes ==
    ASSUME TypeOK, BytesExact, NEW change \in Record, LogAppend(change)
    PROVE  BytesExact'
<1> DEFINE ring == Ring(change)
           k    == EvictCount(ring, RingBytes(change))
<1>1. records' = SubSeq(ring, k + 1, Len(ring)) /\ bytes' = RingBytes(change) - SizeOf(SubSeq(ring, 1, k))
  BY DEF LogAppend, Ring, RingBytes
<1>2. ring \in Seq(Record) /\ Len(ring) = cursor + 1 /\ RingBytes(change) = SizeOf(ring) /\ cursor \in Nat
  BY RingShape DEF TypeOK
<1> HIDE DEF ring
<1>3. k \in 0 .. Len(ring)
  <2>1. ring # << >>
    BY <1>2, EmptySeq
  <2>2. k \in 0 .. Len(ring) - 1
    BY <1>2, <2>1, EvictCountBounds
  <2> QED
    BY <1>2, <2>2
<1> HIDE DEF k
<1>4. SizeOf(ring) = SizeOf(SubSeq(ring, 1, k)) + SizeOf(records')
      /\ SizeOf(SubSeq(ring, 1, k)) \in Nat /\ SizeOf(records') \in Nat
  BY <1>1, <1>2, <1>3, SizeSplits
<1> QED
  BY <1>1, <1>2, <1>4 DEF BytesExact

LEMMA CommitAppends ==
    ASSUME TypeOK, NEW by \in Author, NEW size \in Size, NEW effect \in Effect,
           Commit(by, size, effect)
    PROVE  \E change \in Record : LogAppend(change)
<1> DEFINE change == [seq |-> version + 1, by |-> by, size |-> size, ops |-> effect,
                      inverse |-> [e \in DOMAIN effect |-> doc[e]]]
<1>1. change \in Record
  BY CommittedRecord
<1>2. LogAppend(change)
  BY DEF Commit
<1> QED
  BY <1>1, <1>2

LEMMA BytesInductive ==
    ASSUME TypeOK, BytesExact, [Next]_vars
    PROVE  BytesExact'
<1>1. ASSUME UNCHANGED <<records, bytes>>
      PROVE  BytesExact'
  BY <1>1 DEF BytesExact
<1>2. ASSUME NEW by \in Author, NEW size \in Size, NEW effect \in Effect,
             Commit(by, size, effect)
      PROVE  BytesExact'
  BY <1>2, CommitAppends, AppendKeepsBytes
<1>3. CASE \E to \in 1 .. version : Undo(to)
  BY <1>1, <1>3 DEF Undo, UndoTo
<1>4. CASE Redo
  BY <1>1, <1>4 DEF Redo
<1>5. CASE UNCHANGED vars
  BY <1>1, <1>5 DEF vars
<1> QED
  BY <1>2, <1>3, <1>4, <1>5 DEF Next

\* The byte count that decides eviction (Log.bytes, kept incrementally) is the size
\* of what the ring holds, through every cut redo tail and every eviction.
THEOREM BytesAreExact == Spec => []BytesExact
<1>1. Init => BytesExact
  <2> SUFFICES ASSUME Init PROVE BytesExact
    OBVIOUS
  <2>1. << >> \in Seq(Record) /\ Len(<< >>) = 0
    BY EmptySeq
  <2>2. SizeOf(<< >>) = 0
    BY <2>1, SumsStep DEF SizeOf
  <2> QED
    BY <2>2 DEF Init, BytesExact
<1> QED
  BY <1>1, BytesInductive, TypeCorrect, PTL DEF Spec

-----------------------------------------------------------------------------
(* The human floor                                                          *)

\* What an agent's append drops of the newest change a person made.
LEMMA FloorYields ==
    ASSUME TypeOK, BytesExact, NEW change \in Record, LogAppend(change),
           NEW i \in 1 .. cursor, IsNewestHuman(SubSeq(records, 1, cursor), i),
           \A j \in 1 .. Len(records') : records'[j] # records[i],
           change.by # "client"
    PROVE  /\ records'[Len(records')] = change
           /\ LET since == Append(SubSeq(records, i, cursor), change)
              IN  OverHard(Len(since), SizeOf(since))
<1> DEFINE ring == Ring(change)
           k    == EvictCount(ring, RingBytes(change))
           since == Append(SubSeq(records, i, cursor), change)
<1>1. records' = SubSeq(ring, k + 1, Len(ring))
  BY DEF LogAppend, Ring, RingBytes
<1>2. /\ ring \in Seq(Record) /\ Len(ring) = cursor + 1 /\ RingBytes(change) = SizeOf(ring)
      /\ \A j \in 1 .. cursor : ring[j] = records[j]
      /\ ring[cursor + 1] = change
  BY RingShape
<1>3. records \in Seq(Record) /\ cursor \in 0 .. Len(records) /\ cursor \in Nat /\ Len(records) \in Nat
  BY DEF TypeOK
<1>4. IsNewestHuman(ring, i)
  <2> DEFINE cut == SubSeq(records, 1, cursor)
  <2>1. Len(cut) = cursor /\ \A j \in 1 .. cursor : cut[j] = records[j]
    <3>1. \A j \in 1 .. cursor : records[j] \in Record
      BY <1>3, ElementOfSeq
    <3> QED
      BY <1>3, <3>1, SubSeqProperties
  <2>2. cut[i].by = "client" /\ \A j \in i + 1 .. Len(cut) : cut[j].by # "client"
    BY DEF IsNewestHuman
  <2> HIDE DEF cut, ring
  <2>3. ring[i].by = "client"
    BY <1>2, <2>1, <2>2
  <2>4. ASSUME NEW j \in i + 1 .. cursor + 1
        PROVE  ring[j].by # "client"
    <3>1. CASE j <= cursor
      <4>1. j \in 1 .. cursor /\ j \in i + 1 .. cursor
        BY <1>3, <3>1
      <4> QED
        BY <1>2, <2>1, <2>2, <4>1
    <3>2. CASE ~(j <= cursor)
      <4>1. j = cursor + 1
        BY <1>3, <3>2
      <4> QED
        BY <1>2, <4>1
    <3> QED
      BY <3>1, <3>2
  <2> QED
    BY <1>2, <2>3, <2>4 DEF IsNewestHuman
<1> HIDE DEF ring
<1>5. /\ k \in 0 .. cursor
      /\ \A j \in 0 .. k - 1 : ~EvictionStops(ring, RingBytes(change), j)
  <2>1. ring # << >>
    BY <1>2, <1>3, EmptySeq
  <2> QED
    BY <1>2, <1>3, <2>1, EvictCountBounds
<1> HIDE DEF k
<1>6. /\ Len(records') = cursor + 1 - k
      /\ \A j \in 1 .. cursor + 1 - k : records'[j] = ring[k + j]
  <2>1. \A j \in 1 .. Len(ring) : ring[j] \in Record
    BY <1>2, ElementOfSeq
  <2> QED
    BY <1>1, <1>2, <1>3, <1>5, <2>1, SubSeqProperties
<1>7. records'[Len(records')] = change
  <2>1. cursor + 1 - k \in 1 .. cursor + 1 - k /\ k + (cursor + 1 - k) = cursor + 1
    BY <1>3, <1>5
  <2> QED
    BY <1>2, <1>6, <2>1
<1>8. i - 1 \in 0 .. k - 1 /\ i - 1 \in 0 .. Len(ring) /\ (i - 1) + 1 = i
  <2>1. CASE k < i
    <3>1. i - k \in 1 .. cursor + 1 - k /\ k + (i - k) = i
      BY <1>3, <1>5, <2>1
    <3>2. records'[i - k] = records[i] /\ i - k \in 1 .. Len(records')
      BY <1>2, <1>6, <3>1
    <3> QED
      BY <3>2
  <2>2. CASE ~(k < i)
    BY <1>2, <1>3, <1>5, <2>2
  <2> QED
    BY <2>1, <2>2
<1>9. OverHard(Len(ring) - (i - 1), SizeOf(ring) - SizeOf(SubSeq(ring, 1, i - 1)))
  <2>1. ~EvictionStops(ring, RingBytes(change), i - 1)
    BY <1>5, <1>8
  <2> QED
    BY <1>2, <1>4, <1>8, <2>1 DEF EvictionStops
<1>10. /\ since \in Seq(Record) /\ Len(since) = Len(ring) - (i - 1)
       /\ \A j \in 1 .. Len(since) : since[j] = ring[(i - 1) + j]
  <2> DEFINE run == SubSeq(records, i, cursor)
  <2>1. /\ run \in Seq(Record) /\ Len(run) = cursor - (i - 1)
        /\ \A j \in 1 .. Len(run) : run[j] = records[(i - 1) + j]
    <3>1. \A j \in i .. cursor : records[j] \in Record
      BY <1>3, ElementOfSeq
    <3> QED
      BY <1>3, <3>1, SubSeqProperties
  <2> HIDE DEF run
  <2>2. /\ Append(run, change) \in Seq(Record) /\ Len(Append(run, change)) = Len(run) + 1
        /\ \A j \in 1 .. Len(run) : Append(run, change)[j] = run[j]
        /\ Append(run, change)[Len(run) + 1] = change
    BY <2>1, AppendProperties
  <2>3. ASSUME NEW j \in 1 .. Len(run) + 1
        PROVE  Append(run, change)[j] = ring[(i - 1) + j]
    <3>1. CASE j <= Len(run)
      <4>1. j \in 1 .. Len(run) /\ (i - 1) + j \in 1 .. cursor
        BY <1>3, <2>1, <3>1
      <4> QED
        BY <1>2, <2>1, <2>2, <4>1
    <3>2. CASE ~(j <= Len(run))
      <4>1. j = Len(run) + 1 /\ (i - 1) + j = cursor + 1
        BY <1>3, <2>1, <3>2
      <4> QED
        BY <1>2, <2>2, <4>1
    <3> QED
      BY <3>1, <3>2
  <2>4. Len(run) + 1 = Len(ring) - (i - 1)
    BY <1>2, <1>3, <2>1
  <2> QED
    BY <2>2, <2>3, <2>4 DEF run
<1> HIDE DEF since
<1>11. SizeOf(since) = SizeOf(ring) - SizeOf(SubSeq(ring, 1, i - 1))
  <2> DEFINE m == i - 1
  <2>1. /\ m + Len(since) = Len(ring) /\ m \in Nat /\ m \in 0 .. Len(ring)
        /\ m + Len(since) <= Len(ring) /\ Len(ring) \in Nat
    BY <1>2, <1>3, <1>8, <1>10
  <2>2. since \in Seq(Record) /\ ring \in Seq(Record) /\ \A j \in 1 .. Len(since) : since[j] = ring[m + j]
    BY <1>2, <1>10
  <2> HIDE DEF m
  <2>3. Sums(ring)[m + Len(since)] = Sums(ring)[m] + SizeOf(since)
    BY <2>1, <2>2, SumsShift
  <2>4. Sums(ring)[m] = SizeOf(SubSeq(ring, 1, m)) /\ SizeOf(SubSeq(ring, 1, m)) \in Nat
    BY <2>1, <2>2, SizeSplits
  <2>5. SizeOf(since) \in Nat
    BY <2>2, SizeIsNat
  <2>6. SizeOf(ring) = Sums(ring)[m + Len(since)]
    BY <2>1 DEF SizeOf
  <2>7. SizeOf(since) = SizeOf(ring) - SizeOf(SubSeq(ring, 1, m))
    BY <2>3, <2>4, <2>5, <2>6
  <2> QED
    BY <2>7 DEF m
<1>12. OverHard(Len(since), SizeOf(since))
  BY <1>9, <1>10, <1>11
<1> QED
  BY <1>7, <1>12 DEF since

\* The human floor (I14): an agent's commit pushes the newest change a person made
\* out of the ring only when what has come since is past a hard ceiling; whatever
\* the bounds, the sizes and the authors.
THEOREM FloorIsKept == Spec => HumanFloor
<1> DEFINE Step == \A i \in 1 .. cursor :
              /\ IsNewestHuman(SubSeq(records, 1, cursor), i)
              /\ records' # records
              /\ \A j \in 1 .. Len(records') : records'[j] # records[i]
              => LET new   == records'[Len(records')]
                     since == Append(SubSeq(records, i, cursor), new)
                 IN new.by = "client" \/ OverHard(Len(since), SizeOf(since))
<1>1. ASSUME TypeOK, BytesExact, [Next]_vars
      PROVE  Step
  <2> SUFFICES ASSUME NEW i \in 1 .. cursor, IsNewestHuman(SubSeq(records, 1, cursor), i),
                      records' # records,
                      \A j \in 1 .. Len(records') : records'[j] # records[i]
               PROVE  LET new   == records'[Len(records')]
                          since == Append(SubSeq(records, i, cursor), new)
                      IN new.by = "client" \/ OverHard(Len(since), SizeOf(since))
    OBVIOUS
  <2>1. PICK by \in Author, size \in Size, effect \in Effect : Commit(by, size, effect)
    BY <1>1 DEF Next, vars, Undo, UndoTo, Redo
  <2>2. PICK change \in Record : LogAppend(change)
    BY <1>1, <2>1, CommitAppends
  <2>3. PICK k \in 0 .. cursor : Appended(change, k)
    BY <1>1, <2>1, <2>2, AppendShape, CommitShape
  <2>4. records'[Len(records')] = change
    <3>1. cursor + 1 - k \in 1 .. cursor + 1 - k /\ ~((cursor + 1 - k) + k <= cursor)
      BY <1>1, <2>3 DEF TypeOK
    <3> QED
      BY <2>3, <3>1 DEF Appended
  <2> QED
    BY <1>1, <2>2, <2>4, FloorYields
<1>2. TypeOK /\ BytesExact /\ [Next]_vars => [Step]_vars
  BY <1>1
<1> QED
  BY <1>2, TypeCorrect, BytesAreExact, PTL DEF Spec, HumanFloor
====

-------------------------- MODULE DurabilityProofs --------------------------
(***************************************************************************)
(* What Durability promises of the bucket (gcsFiles), for any number of    *)
(* instances, changes, queued writes, failed requests and crashes, and of  *)
(* the disk of one server.                                                 *)
(***************************************************************************)
EXTENDS Durability, TLAPS, SequenceTheorems, FiniteSetTheorems

-----------------------------------------------------------------------------
(* Prefixes, and the queue a write leaves                                   *)

LEMMA PrefixByElements ==
    ASSUME NEW S, NEW s \in Seq(S), NEW t \in Seq(S)
    PROVE  IsPrefix(s, t) <=> Len(s) <= Len(t) /\ \A k \in 1 .. Len(s) : s[k] = t[k]
<1>1. SubSeq(s, 1, Len(s)) = s
  BY SubSeqFull
<1>2. ASSUME Len(s) <= Len(t)
      PROVE  /\ SubSeq(t, 1, Len(s)) \in Seq(S)
             /\ Len(SubSeq(t, 1, Len(s))) = Len(s)
             /\ \A k \in 1 .. Len(s) : SubSeq(t, 1, Len(s))[k] = t[k]
  BY <1>2
<1>3. ASSUME Len(s) <= Len(t), \A k \in 1 .. Len(s) : s[k] = t[k]
      PROVE  s = SubSeq(t, 1, Len(s))
  BY <1>2, <1>3, SeqEqual
<1> QED
  BY <1>1, <1>2, <1>3 DEF IsPrefix

LEMMA PrefixSelf ==
    ASSUME NEW s \in Text
    PROVE  IsPrefix(s, s)
BY DEF IsPrefix, Text

LEMMA PrefixTrans ==
    ASSUME NEW s \in Text, NEW t \in Text, NEW u \in Text, IsPrefix(s, t), IsPrefix(t, u)
    PROVE  IsPrefix(s, u)
BY PrefixByElements DEF Text

LEMMA PrefixAppend ==
    ASSUME NEW s \in Text, NEW t \in Text, NEW c \in Change, IsPrefix(s, t)
    PROVE  IsPrefix(s, Append(t, c))
<1>1. Append(t, c) \in Text
  BY DEF Text
<1>2. IsPrefix(t, Append(t, c))
  <2>1. t \in Seq(Change) /\ Append(t, c) \in Seq(Change)
    BY <1>1 DEF Text
  <2>2. Len(t) <= Len(Append(t, c)) /\ \A k \in 1 .. Len(t) : t[k] = Append(t, c)[k]
    BY <2>1
  <2> QED
    BY <2>1, <2>2, PrefixByElements
<1> QED
  BY <1>1, <1>2, PrefixTrans

LEMMA Settled ==
    ASSUME NEW s \in Seq(Call), s # << >>
    PROVE  /\ RemoveAt(s, 1) \in Seq(Call)
           /\ DOMAIN RemoveAt(s, 1) = 1 .. Len(s) - 1
           /\ \A k \in 1 .. Len(s) - 1 : k + 1 \in DOMAIN s /\ RemoveAt(s, 1)[k] = s[k + 1]
<1>1. SubSeq(s, 1, 1 - 1) = << >>
  BY SubSeqEmpty
<1>2. SubSeq(s, 1 + 1, Len(s)) = Tail(s)
  <2>1. 1 + 1 = 2
    OBVIOUS
  <2> QED
    BY <2>1, TailIsSubSeq
<1>3. Tail(s) \in Seq(Call)
  OBVIOUS
<1>4. RemoveAt(s, 1) = Tail(s)
  BY <1>1, <1>2, <1>3, ConcatEmptySeq DEF RemoveAt
<1> QED
  BY <1>4

LEMMA VersionIsNat ==
    ASSUME NEW text \in Text
    PROVE  Version(text) \in Nat
<1>1. IsFiniteSet(DOMAIN text)
  BY FS_Interval DEF Text
<1> QED
  BY <1>1, FS_Subset, FS_CardinalityType DEF Version

-----------------------------------------------------------------------------
(* Types                                                                    *)

\* One call of a queue is edited and the rest stay as they were.
Edited(i, k, call) ==
    /\ calls' \in [Instance -> Seq(Call)]
    /\ DOMAIN calls'[i] = DOMAIN calls[i]
    /\ calls'[i][k] = call
    /\ \A l \in DOMAIN calls[i] \ {k} : calls'[i][l] = calls[i][l]
    /\ \A j \in Instance \ {i} : calls'[j] = calls[j]

LEMMA EditIsEdited ==
    ASSUME TypeOK, NEW i \in Instance, NEW k \in DOMAIN calls[i], NEW call \in Call,
           calls' = [calls EXCEPT ![i] = [calls[i] EXCEPT ![k] = call]]
    PROVE  Edited(i, k, call)
<1>1. calls[i] \in Seq(Call)
  BY DEF TypeOK
<1>2. [calls[i] EXCEPT ![k] = call] \in Seq(Call)
  BY <1>1
<1> QED
  BY <1>1, <1>2 DEF TypeOK, Edited

\* The head of a queue has left it.
Shifted(i) ==
    /\ calls' \in [Instance -> Seq(Call)]
    /\ DOMAIN calls'[i] = 1 .. Len(calls[i]) - 1
    /\ \A k \in DOMAIN calls'[i] : k + 1 \in DOMAIN calls[i] /\ calls'[i][k] = calls[i][k + 1]
    /\ \A j \in Instance \ {i} : calls'[j] = calls[j]

LEMMA SettleShifts ==
    ASSUME TypeOK, NEW i \in Instance, NEW k \in DOMAIN calls[i], Turn(i, k), Settle(i, k)
    PROVE  Shifted(i)
<1>1. calls[i] \in Seq(Call) /\ calls[i] # << >>
  BY DEF TypeOK
<1>2. k = 1
  BY DEF Turn
<1> QED
  BY <1>1, <1>2, Settled DEF Settle, Shifted, TypeOK

\* A write has joined the end of a queue.
Joined(i, call) ==
    /\ calls' \in [Instance -> Seq(Call)]
    /\ DOMAIN calls'[i] = 1 .. Len(calls[i]) + 1
    /\ \A k \in DOMAIN calls[i] : calls'[i][k] = calls[i][k]
    /\ calls'[i][Len(calls[i]) + 1] = call
    /\ \A j \in Instance \ {i} : calls'[j] = calls[j]

Queued(text) == [text |-> text, stage |-> "queued", expected |-> 0, gen |-> 0]

LEMMA ChainedJoins ==
    ASSUME TypeOK, NEW i \in Instance, NEW armed, FlushChained(i, armed)
    PROVE  Joined(i, Queued(doc[i]))
<1>1. calls[i] \in Seq(Call) /\ Queued(doc[i]) \in Call
  BY DEF TypeOK, Call, Queued
<1>2. calls' = [calls EXCEPT ![i] = Append(calls[i], Queued(doc[i]))]
  BY DEF FlushChained, Queued
<1> QED
  BY <1>1, <1>2 DEF Joined, TypeOK

LEMMA SendEdits ==
    ASSUME TypeOK, NEW i \in Instance, NEW k \in DOMAIN calls[i], Send(i, k)
    PROVE  Edited(i, k, [calls[i][k] EXCEPT !.stage = "sent", !.expected = known[i]])
<1>1. calls[i][k] \in Call /\ known[i] \in Nat
  BY DEF TypeOK
<1>2. [calls[i][k] EXCEPT !.stage = "sent", !.expected = known[i]] \in Call
  BY <1>1 DEF Call
<1>3. calls' = [calls EXCEPT ![i] =
                  [calls[i] EXCEPT ![k] = [calls[i][k] EXCEPT !.stage = "sent", !.expected = known[i]]]]
  BY DEF Send, TypeOK
<1> QED
  BY <1>2, <1>3, EditIsEdited

LEMMA LandEdits ==
    ASSUME TypeOK, NEW i \in Instance, NEW k \in DOMAIN calls[i], Land(i, k)
    PROVE  IF Matches(calls[i][k].expected)
           THEN Edited(i, k, [calls[i][k] EXCEPT !.stage = "ok", !.gen = lastGen + 1])
           ELSE Edited(i, k, [calls[i][k] EXCEPT !.stage = "conflict"])
<1>1. calls[i][k] \in Call /\ lastGen + 1 \in Nat
  BY DEF TypeOK
<1>2. CASE Matches(calls[i][k].expected)
  <2>1. [calls[i][k] EXCEPT !.stage = "ok", !.gen = lastGen + 1] \in Call
    BY <1>1 DEF Call
  <2>2. calls' = [calls EXCEPT ![i] =
                    [calls[i] EXCEPT ![k] = [calls[i][k] EXCEPT !.stage = "ok", !.gen = lastGen + 1]]]
    BY <1>2 DEF Land, TypeOK
  <2> QED
    BY <1>2, <2>1, <2>2, EditIsEdited
<1>3. CASE ~Matches(calls[i][k].expected)
  <2>1. [calls[i][k] EXCEPT !.stage = "conflict"] \in Call
    BY <1>1 DEF Call
  <2>2. calls' = [calls EXCEPT ![i] =
                    [calls[i] EXCEPT ![k] = [calls[i][k] EXCEPT !.stage = "conflict"]]]
    BY <1>3 DEF Land, TypeOK
  <2> QED
    BY <1>3, <2>1, <2>2, EditIsEdited
<1> QED
  BY <1>2, <1>3

LEMMA RetryEdits ==
    ASSUME TypeOK, NEW i \in Instance, NEW k \in DOMAIN calls[i], Retry(i, k)
    PROVE  Edited(i, k, [calls[i][k] EXCEPT !.stage = "sent"])
<1>1. calls[i][k] \in Call
  BY DEF TypeOK
<1>2. [calls[i][k] EXCEPT !.stage = "sent"] \in Call
  BY <1>1 DEF Call
<1>3. calls' = [calls EXCEPT ![i] = [calls[i] EXCEPT ![k] = [calls[i][k] EXCEPT !.stage = "sent"]]]
  BY DEF Retry, TypeOK
<1> QED
  BY <1>2, <1>3, EditIsEdited

Sent == [text : Text, by : Instance \X Nat, expected : Nat]     \* what may be adrift

LEMMA PutTyped ==
    ASSUME TypeOK, NEW text \in Text, NEW by \in Instance \X Nat, Put(text, by)
    PROVE  object' \in Object /\ lastGen' \in Nat
BY DEF Put, TypeOK, Object

LEMMA StoringTyped ==
    ASSUME TypeOK, NEW i \in Instance, NEW k \in DOMAIN calls[i], Storing(i, k)
    PROVE  TypeOK'
<1>1. calls[i][k] \in Call /\ <<i, epoch[i]>> \in Instance \X Nat
  BY DEF TypeOK
<1>2. CASE Send(i, k)
  BY <1>2, SendEdits DEF Send, Edited, TypeOK, memory, counts
<1>3. CASE Land(i, k)
  <2>1. calls' \in [Instance -> Seq(Call)]
    BY <1>3, LandEdits DEF Edited
  <2>2. (object' \in Object \/ object' = object) /\ lastGen' \in Nat
    <3>1. calls[i][k].text \in Text
      BY <1>1 DEF Call
    <3> QED
      BY <1>1, <1>3, <3>1, PutTyped DEF Land, TypeOK
  <2> QED
    BY <1>3, <2>1, <2>2 DEF Land, TypeOK, memory, counts
<1>4. CASE Retry(i, k)
  <2>1. calls' \in [Instance -> Seq(Call)]
    BY <1>4, RetryEdits DEF Edited
  <2>2. faults' \in Nat
    BY <1>4 DEF Retry, Fault, TypeOK
  <2> QED
    BY <1>4, <2>1, <2>2 DEF Retry, TypeOK, memory
<1>5. CASE Answer(i, k)
  <2>1. calls' \in [Instance -> Seq(Call)]
    BY <1>5, SettleShifts DEF Answer, AtStage, Shifted
  <2>2. known' \in [Instance -> Nat] /\ flushed' \in [Instance -> Nat]
    BY <1>1, <1>5, VersionIsNat DEF Answer, TypeOK, Call
  <2> QED
    BY <1>5, <2>1, <2>2 DEF Answer, TypeOK, counts
<1>6. CASE Refused(i, k)
  BY <1>6, SettleShifts DEF Refused, AtStage, Shifted, TypeOK, counts
<1>7. CASE Break(i, k)
  <2>1. calls' \in [Instance -> Seq(Call)]
    BY <1>7, SettleShifts DEF Break, Shifted
  <2>2. \A r \in adrift' : r \in Sent
    BY <1>1, <1>7 DEF Break, TypeOK, Call, Sent
  <2>3. faults' \in Nat
    BY <1>7 DEF Break, Fault, TypeOK
  <2>4. timer' \in [Instance -> BOOLEAN]
    BY <1>7 DEF Break, TypeOK
  <2> QED
    BY <1>7, <2>1, <2>2, <2>3, <2>4 DEF Break, TypeOK, Sent
<1> QED
  BY <1>2, <1>3, <1>4, <1>5, <1>6, <1>7 DEF Storing

LEMMA EntryTyped ==
    ASSUME TypeOK, NEW i \in Instance, Create(i) \/ Commit(i) \/ Setting(i)
    PROVE  TypeOK'
<1>1. ASSUME MarkDirty(i)
      PROVE  dirty' \in [Instance -> BOOLEAN] /\ timer' \in [Instance -> BOOLEAN]
  BY <1>1 DEF MarkDirty, TypeOK
<1>2. CASE Create(i)
  BY <1>1, <1>2 DEF Create, TypeOK
<1>3. ASSUME NEW minted \in BOOLEAN, Accept(i, minted)
      PROVE  TypeOK'
  <2>1. [id |-> accepted + 1, minted |-> minted] \in Change
    BY DEF Change, TypeOK
  <2>2. doc' \in [Instance -> Text]
    <3>1. \A j \in Instance : doc[j] \in Seq(Change)
      BY DEF TypeOK, Text
    <3>2. Append(doc[i], [id |-> accepted + 1, minted |-> minted]) \in Seq(Change)
      BY <2>1, <3>1
    <3> QED
      BY <1>3, <3>1, <3>2 DEF Accept, TypeOK, Text
  <2>3. accepted' \in Nat
    BY <1>3 DEF Accept, TypeOK
  <2> QED
    BY <1>1, <1>3, <2>2, <2>3 DEF Accept, TypeOK
<1> QED
  BY <1>2, <1>3 DEF Commit, Setting

LEMMA FlushTyped ==
    ASSUME TypeOK, NEW i \in Instance, NEW armed \in BOOLEAN, Flush(i, armed)
    PROVE  TypeOK'
<1>1. ASSUME timer' = [timer EXCEPT ![i] = armed] \/ timer' = [timer EXCEPT ![i] = TRUE]
      PROVE  timer' \in [Instance -> BOOLEAN]
  BY <1>1 DEF TypeOK
<1>2. CASE ~(held[i] /\ dirty[i])
  BY <1>1, <1>2 DEF Flush, TypeOK
<1>3. CASE FlushBlocking(i, armed)
  <2>1. CASE Fault
    <3>1. faults' \in Nat
      BY <2>1 DEF Fault, TypeOK
    <3>2. timer' \in [Instance -> BOOLEAN]
      BY <1>1, <1>3 DEF FlushBlocking
    <3>3. CASE UNCHANGED <<object, lastGen, dirty, flushed, calls>>
      BY <1>3, <3>1, <3>2, <3>3 DEF Flush, TypeOK
    <3>4. CASE UNCHANGED <<calls, faults>>
      BY <2>1, <3>4 DEF Fault, TypeOK
    <3> QED
      BY <1>3, <3>3, <3>4 DEF FlushBlocking
  <2>2. CASE ~Fault
    <3>1. [gen |-> lastGen + 1, text |-> doc[i], by |-> <<i, epoch[i]>>] \in Object /\ lastGen + 1 \in Nat
      BY DEF TypeOK, Object
    <3>2. Version(doc[i]) \in Nat
      BY VersionIsNat DEF TypeOK
    <3>3. dirty' \in [Instance -> BOOLEAN] /\ flushed' \in [Instance -> Nat]
      BY <1>3, <2>2, <3>2 DEF FlushBlocking, TypeOK
    <3>4. timer' \in [Instance -> BOOLEAN]
      BY <1>1, <1>3 DEF FlushBlocking
    <3> QED
      BY <1>3, <2>2, <3>1, <3>3, <3>4 DEF Flush, FlushBlocking, TypeOK
  <2> QED
    BY <2>1, <2>2
<1>4. CASE FlushChained(i, armed)
  <2>1. calls' \in [Instance -> Seq(Call)]
    BY <1>4, ChainedJoins DEF Joined
  <2> QED
    BY <1>1, <1>4, <2>1 DEF Flush, FlushChained, TypeOK
<1> QED
  BY <1>2, <1>3, <1>4 DEF Flush

LEMMA RemovalTyped ==
    ASSUME TypeOK, NEW i \in Instance,
           RemoveDiagram(i) \/ DeleteLands(i) \/ DeleteAnswers(i) \/ DeleteFails(i)
    PROVE  TypeOK'
<1>1. deleting[i] \in 0 .. 4
  BY DEF TypeOK
<1>2. CASE RemoveDiagram(i)
  BY <1>2 DEF RemoveDiagram, TypeOK
<1>3. CASE DeleteLands(i)
  BY <1>1, <1>3 DEF DeleteLands, TypeOK, memory, counts
<1>4. CASE DeleteAnswers(i)
  BY <1>1, <1>4 DEF DeleteAnswers, TypeOK, memory, counts
<1>5. CASE DeleteFails(i)
  <2>1. faults' \in Nat
    BY <1>5 DEF DeleteFails, Fault, TypeOK
  <2> QED
    BY <1>5, <2>1 DEF DeleteFails, TypeOK, memory
<1> QED
  BY <1>2, <1>3, <1>4, <1>5

LEMMA ProcessTyped ==
    ASSUME TypeOK, NEW i \in Instance, Crash(i) \/ Boot(i)
    PROVE  TypeOK'
<1>1. CASE Crash(i)
  <2>1. << >> \in Text /\ << >> \in Seq(Call)
    BY DEF Text
  <2>2. \A r \in adrift' : r \in Sent
    <3>1. \A k \in DOMAIN calls[i] : calls[i][k] \in Call
      BY DEF TypeOK
    <3>2. \A k \in DOMAIN calls[i] : calls[i][k].text \in Text /\ calls[i][k].expected \in Nat
      BY <3>1 DEF Call
    <3>3. <<i, epoch[i]>> \in Instance \X Nat
      BY DEF TypeOK
    <3>4. \A k \in DOMAIN calls[i] :
             [text |-> calls[i][k].text, by |-> <<i, epoch[i]>>, expected |-> calls[i][k].expected] \in Sent
      BY <3>2, <3>3 DEF Sent
    <3>5. \A r \in adrift : r \in Sent
      BY DEF TypeOK, Sent
    <3> QED
      BY <1>1, <3>4, <3>5 DEF Crash
  <2>3. crashes' \in Nat
    BY <1>1 DEF Crash, TypeOK
  <2>4. doc' \in [Instance -> Text] /\ calls' \in [Instance -> Seq(Call)]
    BY <1>1, <2>1 DEF Crash, TypeOK
  <2> QED
    BY <1>1, <2>2, <2>3, <2>4 DEF Crash, TypeOK, Sent
<1>2. CASE Boot(i)
  <2>1. object # None => object.text \in Text /\ object.gen \in Nat
    BY DEF TypeOK, Object
  <2>2. doc' \in [Instance -> Text] /\ known' \in [Instance -> Nat] /\ flushed' \in [Instance -> Nat]
    <3>1. CASE object = None
      BY <1>2, <3>1 DEF Boot, TypeOK
    <3>2. CASE object # None
      <4>1. Version(object.text) \in Nat
        BY <2>1, <3>2, VersionIsNat
      <4>2. doc' = [doc EXCEPT ![i] = object.text] /\ known' = [known EXCEPT ![i] = object.gen]
        BY <1>2, <3>2 DEF Boot
      <4>3. flushed' = [flushed EXCEPT ![i] = Version(object.text)]
        BY <1>2, <3>2 DEF Boot
      <4>4. doc' \in [Instance -> Text] /\ known' \in [Instance -> Nat]
        BY <2>1, <3>2, <4>2 DEF TypeOK
      <4>5. flushed' \in [Instance -> Nat]
        BY <4>1, <4>3 DEF TypeOK
      <4> QED
        BY <4>4, <4>5
    <3> QED
      BY <3>1, <3>2
  <2>3. held' \in [Instance -> BOOLEAN]
    BY <1>2 DEF Boot, TypeOK
  <2>4. up' \in [Instance -> BOOLEAN]
    BY <1>2 DEF Boot, TypeOK
  <2>5. epoch' \in [Instance -> Nat]
    BY <1>2 DEF Boot, TypeOK
  <2> QED
    BY <1>2, <2>2, <2>3, <2>4, <2>5 DEF Boot, TypeOK, counts
<1> QED
  BY <1>1, <1>2

LEMMA TypeInductive == TypeOK /\ [Next]_vars => TypeOK'
<1> SUFFICES ASSUME TypeOK, [Next]_vars PROVE TypeOK'
  OBVIOUS
<1>1. ASSUME NEW i \in Instance, TimerFires(i) \/ FlushNow(i)
      PROVE  TypeOK'
  <2>1. timer[i] \in BOOLEAN
    BY DEF TypeOK
  <2> QED
    BY <1>1, <2>1, FlushTyped DEF TimerFires, FlushNow
<1>2. ASSUME NEW request \in adrift, AdriftLands(request)
      PROVE  TypeOK'
  <2>1. request.text \in Text /\ request.by \in Instance \X Nat
    BY DEF TypeOK
  <2>2. (object' \in Object \/ object' = object) /\ lastGen' \in Nat
    BY <1>2, <2>1, PutTyped DEF AdriftLands, TypeOK
  <2> QED
    BY <1>2, <2>2 DEF AdriftLands, TypeOK, memory, counts
<1>3. CASE UNCHANGED vars
  BY <1>3 DEF vars, memory, counts, TypeOK
<1> QED
  BY <1>1, <1>2, <1>3, EntryTyped, StoringTyped, RemovalTyped, ProcessTyped DEF Next

LEMMA TypeInit == Init => TypeOK
<1> SUFFICES ASSUME Init PROVE TypeOK
  OBVIOUS
<1>1. << >> \in Text /\ << >> \in Seq(Call)
  BY DEF Text
<1>2. doc \in [Instance -> Text] /\ calls \in [Instance -> Seq(Call)]
  BY <1>1 DEF Init
<1>3. /\ dirty \in [Instance -> BOOLEAN] /\ timer \in [Instance -> BOOLEAN]
      /\ lost \in [Instance -> BOOLEAN] /\ held \in [Instance -> BOOLEAN] /\ up \in [Instance -> BOOLEAN]
  BY DEF Init
<1>4. /\ epoch \in [Instance -> Nat] /\ known \in [Instance -> Nat]
      /\ flushed \in [Instance -> Nat] /\ deleting \in [Instance -> 0 .. 4]
  BY DEF Init
<1>5. object = None /\ lastGen \in Nat /\ adrift = {} /\ created \in BOOLEAN
      /\ accepted \in Nat /\ faults \in Nat /\ crashes \in Nat /\ removals \in Nat
  BY DEF Init
<1> QED
  BY <1>2, <1>3, <1>4, <1>5 DEF TypeOK

\* The state of every instance and of the bucket is of its type.
THEOREM StateIsTyped == Spec => []TypeOK
BY TypeInit, TypeInductive, PTL DEF Spec

-----------------------------------------------------------------------------
(* The stored history                                                       *)

\* Only the object of generation e matters to a request that names e: that
\* object, if it is the one stored, is a beginning of the text.
Extends(e, text) == object # None /\ object.gen = e => IsPrefix(object.text, text)

\* No generation is named before the storage has given it out.
Bounded ==
    /\ object # None => object.gen <= lastGen
    /\ \A r \in adrift : r.expected <= lastGen
    /\ \A i \in Instance : known[i] <= lastGen
    /\ \A i \in Instance : \A k \in DOMAIN calls[i] :
          calls[i][k].expected <= lastGen /\ calls[i][k].gen <= lastGen

\* A process that is down has nothing, and nothing precedes the creation.
Quiet ==
    /\ \A i \in Instance : ~up[i] => calls[i] = << >> /\ ~held[i]
    /\ ~created => /\ object = None /\ adrift = {}
                   /\ \A i \in Instance : calls[i] = << >> /\ ~held[i]

\* The texts queued for the object grow along the queue, and into the entry.
Chain ==
    \A i \in Instance : \A k \in DOMAIN calls[i] :
        /\ \A l \in DOMAIN calls[i] : k <= l => IsPrefix(calls[i][k].text, calls[i][l].text)
        /\ held[i] => IsPrefix(calls[i][k].text, doc[i])

\* What a call writes extends what it will be held against: the generation known
\* when it is built, the one it was built with, the one its text has become.
Based(i, call) ==
    /\ call.stage = "queued" => Extends(known[i], call.text)
    /\ call.stage # "queued" => Extends(call.expected, call.text)
    /\ call.stage = "ok" => Extends(call.gen, call.text)

Extending ==
    /\ \A r \in adrift : Extends(r.expected, r.text)
    /\ \A i \in Instance : held[i] => Extends(known[i], doc[i])
    /\ \A i \in Instance : \A k \in DOMAIN calls[i] : Based(i, calls[i][k])

HistoryInv == TypeOK /\ Bounded /\ Quiet /\ Chain /\ Extending

LEMMA ExtendsStays ==
    ASSUME NEW e, NEW text, Extends(e, text), object' = object \/ object' = None
    PROVE  Extends(e, text)'
BY DEF Extends

LEMMA ExtendsGrows ==
    ASSUME TypeOK, NEW e, NEW text \in Text, NEW more \in Text,
           Extends(e, text), IsPrefix(text, more)
    PROVE  Extends(e, more)
<1>1. object # None => object.text \in Text
  BY DEF TypeOK, Object
<1> QED
  BY <1>1, PrefixTrans DEF Extends

\* A generation given out earlier is no longer the stored one once a write lands.
LEMMA ExtendsPast ==
    ASSUME TypeOK, NEW e \in Nat, NEW text, e <= lastGen, object'.gen = lastGen + 1
    PROVE  Extends(e, text)'
BY DEF Extends, TypeOK

LEMMA CallTyped ==
    ASSUME TypeOK, NEW i \in Instance, NEW k \in DOMAIN calls[i]
    PROVE  /\ calls[i][k] \in Call /\ calls[i][k].text \in Text
           /\ calls[i][k].expected \in Nat /\ calls[i][k].gen \in Nat
           /\ doc[i] \in Text /\ known[i] \in Nat /\ lastGen \in Nat
<1>1. calls[i][k] \in Call
  BY DEF TypeOK
<1> QED
  BY <1>1 DEF TypeOK, Call

\* Steps that send nothing and store nothing, but may forget.
LEMMA NothingSent ==
    ASSUME HistoryInv, object' = object \/ object' = None,
           UNCHANGED <<lastGen, adrift, calls, doc, up, created>>,
           \A i \in Instance : held'[i] => held[i],
           \A i \in Instance : known'[i] = known[i] \/ known'[i] = 0
    PROVE  Bounded' /\ Quiet' /\ Chain' /\ Extending'
<1>1. Bounded'
  <2>1. \A i \in Instance : known'[i] <= lastGen
    <3>1. 0 <= lastGen
      BY DEF HistoryInv, TypeOK
    <3> QED
      BY <3>1 DEF HistoryInv, Bounded
  <2>2. object' # None => object'.gen <= lastGen
    BY DEF HistoryInv, Bounded
  <2> QED
    BY <2>1, <2>2 DEF HistoryInv, Bounded
<1>2. Quiet'
  BY DEF HistoryInv, Quiet
<1>3. Chain'
  BY DEF HistoryInv, Chain
<1>4. Extending'
  <2>1. \A r \in adrift' : Extends(r.expected, r.text)'
    BY ExtendsStays DEF HistoryInv, Extending
  <2>2. \A i \in Instance : \A text : Extends(known[i], text) => Extends(known[i], text)'
    <3>1. object' # None => object'.gen # 0
      BY DEF HistoryInv, TypeOK, Object
    <3>2. ASSUME NEW i \in Instance, NEW text, Extends(known[i], text)
          PROVE  Extends(known[i], text)'
      BY <3>1, <3>2 DEF Extends
    <3> QED
      BY <3>2
  <2>3. \A i \in Instance : held'[i] => Extends(known[i], doc[i])'
    BY <2>2 DEF HistoryInv, Extending
  <2>4. ASSUME NEW i \in Instance, NEW k \in DOMAIN calls'[i]
        PROVE  Based(i, calls[i][k])'
    <3>1. Based(i, calls[i][k])
      BY DEF HistoryInv, Extending
    <3>2. calls[i][k].stage = "queued" => Extends(known[i], calls[i][k].text)'
      BY <2>2, <3>1 DEF Based
    <3>3. calls[i][k].stage # "queued" => Extends(calls[i][k].expected, calls[i][k].text)'
      BY <3>1, ExtendsStays DEF Based
    <3>4. calls[i][k].stage = "ok" => Extends(calls[i][k].gen, calls[i][k].text)'
      BY <3>1, ExtendsStays DEF Based
    <3> QED
      BY <3>2, <3>3, <3>4 DEF Based
  <2> QED
    BY <2>1, <2>3, <2>4 DEF Extending
<1> QED
  BY <1>1, <1>2, <1>3, <1>4

LEMMA EditedChain ==
    ASSUME HistoryInv, NEW i \in Instance, NEW k \in DOMAIN calls[i], NEW call,
           Edited(i, k, call), call.text = calls[i][k].text, UNCHANGED <<held, doc>>
    PROVE  Chain'
<1>1. \A j \in Instance : DOMAIN calls'[j] = DOMAIN calls[j]
  BY DEF Edited
<1>2. \A j \in Instance : \A l \in DOMAIN calls[j] : calls'[j][l].text = calls[j][l].text
  BY DEF Edited
<1> QED
  BY <1>1, <1>2 DEF HistoryInv, Chain

LEMMA ShiftedChain ==
    ASSUME HistoryInv, NEW i \in Instance, Shifted(i), UNCHANGED <<held, doc>>
    PROVE  Chain'
<1>1. ASSUME NEW j \in Instance, NEW k \in DOMAIN calls'[j]
      PROVE  /\ \A l \in DOMAIN calls'[j] : k <= l => IsPrefix(calls'[j][k].text, calls'[j][l].text)
             /\ held[j] => IsPrefix(calls'[j][k].text, doc[j])
  <2>1. CASE j = i
    <3>1. k \in Nat /\ \A l \in DOMAIN calls'[i] : l \in Nat
      BY <2>1 DEF Shifted, HistoryInv, TypeOK
    <3>2. \A l \in DOMAIN calls'[i] : l + 1 \in DOMAIN calls[i] /\ calls'[i][l] = calls[i][l + 1]
      BY DEF Shifted
    <3>3. held[j] => IsPrefix(calls'[j][k].text, doc[j])
      BY <2>1, <3>2 DEF HistoryInv, Chain
    <3>4. ASSUME NEW l \in DOMAIN calls'[j], k <= l
          PROVE  IsPrefix(calls'[j][k].text, calls'[j][l].text)
      <4>1. k + 1 <= l + 1
        BY <2>1, <3>1, <3>4
      <4> QED
        BY <2>1, <3>2, <3>4, <4>1 DEF HistoryInv, Chain
    <3> QED
      BY <3>3, <3>4
  <2>2. CASE j # i
    BY <2>2 DEF HistoryInv, Chain, Shifted
  <2> QED
    BY <2>1, <2>2
<1> QED
  BY <1>1 DEF Chain

LEMMA StoringQuiet ==
    ASSUME HistoryInv, NEW i \in Instance, NEW k \in DOMAIN calls[i],
           UNCHANGED <<up, held, created>>, \A j \in Instance \ {i} : calls'[j] = calls[j]
    PROVE  Quiet'
<1>1. calls[i] # << >>
  OBVIOUS
<1> QED
  BY <1>1 DEF HistoryInv, Quiet

LEMMA EditedBounded ==
    ASSUME HistoryInv, NEW i \in Instance, NEW k \in DOMAIN calls[i], NEW call, Edited(i, k, call),
           lastGen' \in Nat, lastGen <= lastGen', known' = known, adrift' = adrift,
           object' # None => object'.gen <= lastGen',
           call.expected <= lastGen', call.gen <= lastGen'
    PROVE  Bounded'
<1>1. \A e \in Nat : e <= lastGen => e <= lastGen'
  BY DEF HistoryInv, TypeOK
<1>2. \A r \in adrift' : r.expected <= lastGen'
  BY <1>1 DEF HistoryInv, Bounded, TypeOK
<1>3. \A j \in Instance : known'[j] <= lastGen'
  BY <1>1 DEF HistoryInv, Bounded, TypeOK
<1>4. ASSUME NEW j \in Instance, NEW l \in DOMAIN calls'[j]
      PROVE  calls'[j][l].expected <= lastGen' /\ calls'[j][l].gen <= lastGen'
  <2>1. CASE j = i /\ l = k
    BY <2>1 DEF Edited
  <2>2. CASE ~(j = i /\ l = k)
    <3>1. l \in DOMAIN calls[j] /\ calls'[j][l] = calls[j][l]
      BY <2>2 DEF Edited
    <3>2. calls[j][l].expected \in Nat /\ calls[j][l].gen \in Nat
      BY <3>1, CallTyped DEF HistoryInv
    <3>3. calls[j][l].expected <= lastGen /\ calls[j][l].gen <= lastGen
      BY <3>1 DEF HistoryInv, Bounded
    <3> QED
      BY <1>1, <3>1, <3>2, <3>3
  <2> QED
    BY <2>1, <2>2
<1> QED
  BY <1>2, <1>3, <1>4 DEF Bounded

LEMMA ShiftedBounded ==
    ASSUME HistoryInv, NEW i \in Instance, Shifted(i), UNCHANGED <<object, lastGen>>,
           \A r \in adrift' : r.expected <= lastGen,
           \A j \in Instance : known'[j] <= lastGen
    PROVE  Bounded'
<1>1. \A j \in Instance : \A l \in DOMAIN calls'[j] :
         \E m \in DOMAIN calls[j] : calls'[j][l] = calls[j][m]
  BY DEF Shifted
<1>2. \A j \in Instance : \A l \in DOMAIN calls'[j] :
         calls'[j][l].expected <= lastGen /\ calls'[j][l].gen <= lastGen
  BY <1>1 DEF HistoryInv, Bounded
<1> QED
  BY <1>2 DEF HistoryInv, Bounded

\* A call changes and the object does not.
LEMMA EditedExtending ==
    ASSUME HistoryInv, NEW i \in Instance, NEW k \in DOMAIN calls[i], NEW call, Edited(i, k, call),
           UNCHANGED <<object, adrift, held, doc, known>>, Based(i, call)
    PROVE  Extending'
<1>1. ASSUME NEW j \in Instance, NEW l \in DOMAIN calls'[j]
      PROVE  Based(j, calls[j][l])'
  <2>1. CASE j = i /\ l = k
    BY <2>1 DEF Edited, Based, Extends
  <2>2. CASE ~(j = i /\ l = k)
    <3>1. l \in DOMAIN calls[j] /\ calls'[j][l] = calls[j][l]
      BY <2>2 DEF Edited
    <3>2. Based(j, calls[j][l])
      BY <3>1 DEF HistoryInv, Extending
    <3> QED
      BY <3>1, <3>2 DEF Based, Extends
  <2> QED
    BY <2>1, <2>2
<1>2. \A r \in adrift' : Extends(r.expected, r.text)'
  BY DEF HistoryInv, Extending, Extends
<1>3. \A j \in Instance : held'[j] => Extends(known[j], doc[j])'
  BY DEF HistoryInv, Extending, Extends
<1> QED
  BY <1>1, <1>2, <1>3 DEF Extending

\* The head of a queue goes and the instance knows what it knew.
LEMMA ShiftedExtending ==
    ASSUME HistoryInv, NEW i \in Instance, Shifted(i),
           UNCHANGED <<object, held, doc, known>>,
           \A r \in adrift' : Extends(r.expected, r.text)
    PROVE  Extending'
<1>1. ASSUME NEW j \in Instance, NEW l \in DOMAIN calls'[j]
      PROVE  Based(j, calls[j][l])'
  <2>1. PICK m \in DOMAIN calls[j] : calls'[j][l] = calls[j][m]
    BY DEF Shifted
  <2>2. Based(j, calls[j][m])
    BY DEF HistoryInv, Extending
  <2> QED
    BY <2>1, <2>2 DEF Based, Extends
<1>2. \A r \in adrift' : Extends(r.expected, r.text)'
  BY DEF Extends
<1>3. \A j \in Instance : held'[j] => Extends(known[j], doc[j])'
  BY DEF HistoryInv, Extending, Extends
<1> QED
  BY <1>1, <1>2, <1>3 DEF Extending

LEMMA SendKeepsHistory ==
    ASSUME HistoryInv, NEW i \in Instance, NEW k \in DOMAIN calls[i], Send(i, k)
    PROVE  Bounded' /\ Quiet' /\ Chain' /\ Extending'
<1> DEFINE call == [calls[i][k] EXCEPT !.stage = "sent", !.expected = known[i]]
<1>1. Edited(i, k, call)
  BY SendEdits DEF HistoryInv
<1>2. /\ calls[i][k] \in Call /\ known[i] \in Nat /\ lastGen \in Nat
      /\ UNCHANGED <<object, lastGen, adrift, up, held, doc, known, created>>
  BY CallTyped DEF HistoryInv, Send, memory, counts
<1>3. call.text = calls[i][k].text /\ call.stage = "sent" /\ call.expected = known[i]
      /\ call.gen = calls[i][k].gen
  BY <1>2 DEF Call
<1>4. Bounded'
  <2>1. known[i] <= lastGen /\ calls[i][k].gen <= lastGen /\ (object # None => object.gen <= lastGen)
    BY DEF HistoryInv, Bounded
  <2> HIDE DEF call
  <2> QED
    BY <1>1, <1>2, <1>3, <2>1, EditedBounded
<1>5. Quiet'
  BY <1>1, <1>2, StoringQuiet DEF Edited
<1>6. Chain'
  <2> HIDE DEF call
  <2> QED
    BY <1>1, <1>2, <1>3, EditedChain
<1>7. Based(i, call)
  <2>1. calls[i][k].stage = "queued"
    BY DEF Send, AtStage
  <2>2. Extends(known[i], calls[i][k].text)
    BY <2>1 DEF HistoryInv, Extending, Based
  <2> HIDE DEF call
  <2> QED
    BY <1>3, <2>2 DEF Based
<1>8. Extending'
  <2> HIDE DEF call
  <2> QED
    BY <1>1, <1>2, <1>7, EditedExtending
<1> QED
  BY <1>4, <1>5, <1>6, <1>8

LEMMA RetryKeepsHistory ==
    ASSUME HistoryInv, NEW i \in Instance, NEW k \in DOMAIN calls[i], Retry(i, k)
    PROVE  Bounded' /\ Quiet' /\ Chain' /\ Extending'
<1> DEFINE call == [calls[i][k] EXCEPT !.stage = "sent"]
<1>1. Edited(i, k, call)
  BY RetryEdits DEF HistoryInv
<1>2. /\ calls[i][k] \in Call /\ lastGen \in Nat
      /\ UNCHANGED <<object, lastGen, adrift, up, held, doc, known, created>>
  BY CallTyped DEF HistoryInv, Retry, memory
<1>3. call.text = calls[i][k].text /\ call.stage = "sent" /\ call.expected = calls[i][k].expected
      /\ call.gen = calls[i][k].gen
  BY <1>2 DEF Call
<1>4. Bounded'
  <2>1. /\ calls[i][k].expected <= lastGen /\ calls[i][k].gen <= lastGen
        /\ object # None => object.gen <= lastGen
    BY DEF HistoryInv, Bounded
  <2> HIDE DEF call
  <2> QED
    BY <1>1, <1>2, <1>3, <2>1, EditedBounded
<1>5. Quiet'
  BY <1>1, <1>2, StoringQuiet DEF Edited
<1>6. Chain'
  <2> HIDE DEF call
  <2> QED
    BY <1>1, <1>2, <1>3, EditedChain
<1>7. Based(i, call)
  <2>1. calls[i][k].stage # "queued"
    BY DEF Retry, AtStage
  <2>2. Extends(calls[i][k].expected, calls[i][k].text)
    BY <2>1 DEF HistoryInv, Extending, Based
  <2> HIDE DEF call
  <2> QED
    BY <1>3, <2>2 DEF Based
<1>8. Extending'
  <2> HIDE DEF call
  <2> QED
    BY <1>1, <1>2, <1>7, EditedExtending
<1> QED
  BY <1>4, <1>5, <1>6, <1>8

\* The PUT that lands, from a call of the queue: its text is the object.
LEMMA LandKeepsHistory ==
    ASSUME HistoryInv, NEW i \in Instance, NEW k \in DOMAIN calls[i], Land(i, k)
    PROVE  Bounded' /\ Quiet' /\ Chain' /\ Extending'
<1>1. /\ calls[i][k] \in Call /\ lastGen \in Nat /\ calls[i][k].text \in Text
      /\ calls[i][k].expected \in Nat /\ calls[i][k].gen \in Nat
      /\ UNCHANGED <<adrift, up, held, doc, known, created>>
  BY CallTyped DEF HistoryInv, Land, memory, counts
<1>2. /\ calls[i][k].expected <= lastGen /\ calls[i][k].gen <= lastGen
      /\ object # None => object.gen <= lastGen
  BY DEF HistoryInv, Bounded
<1>3. /\ calls[i][k].stage = "sent"
      /\ Extends(calls[i][k].expected, calls[i][k].text)
  <2>1. calls[i][k].stage = "sent"
    BY DEF Land, AtStage
  <2> QED
    BY <2>1 DEF HistoryInv, Extending, Based
<1>4. CASE ~Matches(calls[i][k].expected)
  <2> DEFINE call == [calls[i][k] EXCEPT !.stage = "conflict"]
  <2>1. Edited(i, k, call) /\ UNCHANGED <<object, lastGen>>
    BY <1>4, LandEdits DEF HistoryInv, Land
  <2>2. call.text = calls[i][k].text /\ call.stage = "conflict" /\ call.gen = calls[i][k].gen
        /\ call.expected = calls[i][k].expected
    BY <1>1 DEF Call
  <2> HIDE DEF call
  <2>3. Bounded'
    BY <1>1, <1>2, <2>1, <2>2, EditedBounded
  <2>4. Quiet'
    BY <1>1, <2>1, StoringQuiet DEF Edited
  <2>5. Chain'
    BY <1>1, <2>1, <2>2, EditedChain
  <2>6. Based(i, call)
    BY <1>3, <2>2 DEF Based
  <2>7. Extending'
    BY <1>1, <2>1, <2>6, EditedExtending
  <2> QED
    BY <2>3, <2>4, <2>5, <2>7
<1>5. CASE Matches(calls[i][k].expected)
  <2> DEFINE call == [calls[i][k] EXCEPT !.stage = "ok", !.gen = lastGen + 1]
  <2>1. Edited(i, k, call) /\ Put(calls[i][k].text, <<i, epoch[i]>>)
    BY <1>5, LandEdits DEF HistoryInv, Land
  <2>2. call.text = calls[i][k].text /\ call.stage = "ok" /\ call.gen = lastGen + 1
        /\ call.expected = calls[i][k].expected
    BY <1>1 DEF Call
  <2> HIDE DEF call
  <2>3. lastGen' = lastGen + 1 /\ object'.gen = lastGen + 1 /\ object'.text = calls[i][k].text
    BY <2>1 DEF Put
  <2>4. Bounded'
    <3>1. lastGen' \in Nat /\ lastGen <= lastGen' /\ object'.gen <= lastGen'
          /\ call.expected <= lastGen' /\ call.gen <= lastGen'
      BY <1>1, <1>2, <2>2, <2>3
    <3> QED
      BY <1>1, <2>1, <3>1, EditedBounded
  <2>5. Quiet'
    BY <1>1, <2>1, StoringQuiet DEF Edited
  <2>6. Chain'
    BY <1>1, <2>1, <2>2, EditedChain
  <2>7. \A e \in Nat : \A text : e <= lastGen => Extends(e, text)'
    BY <2>3, ExtendsPast DEF HistoryInv
  <2>8. \A r \in adrift' : Extends(r.expected, r.text)'
    BY <1>1, <2>7 DEF HistoryInv, Bounded, TypeOK
  <2>9. ASSUME NEW j \in Instance
        PROVE  \A text : Extends(known[j], text)'
    <3>1. known'[j] \in Nat /\ known'[j] <= lastGen
      BY <1>1 DEF HistoryInv, Bounded, TypeOK
    <3> QED
      BY <2>7, <3>1 DEF Extends
  <2>10. ASSUME NEW j \in Instance, NEW l \in DOMAIN calls'[j]
         PROVE  Based(j, calls[j][l])'
    <3>1. CASE j = i /\ l = k
      <4>1. calls'[j][l] = call
        BY <2>1, <3>1 DEF Edited
      <4>2. object'.gen = call.gen => IsPrefix(object'.text, call.text)
        BY <1>1, <2>2, <2>3, PrefixSelf
      <4>3. ~(object'.gen = call.expected)
        BY <1>1, <1>2, <2>2, <2>3
      <4> QED
        BY <2>2, <4>1, <4>2, <4>3 DEF Based, Extends
    <3>2. CASE ~(j = i /\ l = k)
      <4>1. l \in DOMAIN calls[j] /\ calls'[j][l] = calls[j][l]
        BY <2>1, <3>2 DEF Edited
      <4>2. calls[j][l].expected \in Nat /\ calls[j][l].gen \in Nat
        BY <4>1, CallTyped DEF HistoryInv
      <4>3. calls[j][l].expected <= lastGen /\ calls[j][l].gen <= lastGen
        BY <4>1 DEF HistoryInv, Bounded
      <4>4. object'.gen # calls'[j][l].expected /\ object'.gen # calls'[j][l].gen
        BY <1>1, <2>3, <4>1, <4>2, <4>3
      <4> QED
        BY <2>9, <4>4 DEF Based, Extends
    <3> QED
      BY <3>1, <3>2
  <2>11. Extending'
    BY <2>8, <2>9, <2>10 DEF Extending
  <2> QED
    BY <2>4, <2>5, <2>6, <2>11
<1> QED
  BY <1>4, <1>5

\* The answer comes back: the generation the head landed under is the one known.
LEMMA AnswerKeepsHistory ==
    ASSUME HistoryInv, NEW i \in Instance, NEW k \in DOMAIN calls[i], Answer(i, k)
    PROVE  Bounded' /\ Quiet' /\ Chain' /\ Extending'
<1>1. k = 1 /\ calls[i][1].stage = "ok" /\ 1 \in DOMAIN calls[i]
  BY DEF Answer, AtStage, Turn
<1>2. Shifted(i)
  BY SettleShifts DEF HistoryInv, Answer, AtStage
<1>3. /\ UNCHANGED <<object, lastGen, adrift, up, held, doc, created>>
      /\ known' = [known EXCEPT ![i] = calls[i][1].gen]
  BY <1>1 DEF Answer, counts
<1>4. known'[i] = calls[i][1].gen /\ \A j \in Instance \ {i} : known'[j] = known[j]
  BY <1>3 DEF HistoryInv, TypeOK
<1>5. Bounded'
  <2>1. \A j \in Instance : known'[j] <= lastGen
    BY <1>1, <1>4 DEF HistoryInv, Bounded
  <2>2. \A r \in adrift' : r.expected <= lastGen
    BY <1>3 DEF HistoryInv, Bounded
  <2> QED
    BY <1>2, <1>3, <2>1, <2>2, ShiftedBounded
<1>6. Quiet'
  BY <1>2, <1>3, StoringQuiet DEF Shifted
<1>7. Chain'
  BY <1>2, <1>3, ShiftedChain
<1>8. Extends(calls[i][1].gen, calls[i][1].text)
  BY <1>1 DEF HistoryInv, Extending, Based
<1>9. held[i] => Extends(calls[i][1].gen, doc[i])
  <2>1. held[i] => IsPrefix(calls[i][1].text, doc[i])
    BY <1>1 DEF HistoryInv, Chain
  <2> QED
    BY <1>1, <1>8, <2>1, CallTyped, ExtendsGrows DEF HistoryInv
<1>10. \A m \in DOMAIN calls[i] : Extends(calls[i][1].gen, calls[i][m].text)
  <2>1. ASSUME NEW m \in DOMAIN calls[i]
        PROVE  Extends(calls[i][1].gen, calls[i][m].text)
    <3>1. 1 <= m
      BY DEF HistoryInv, TypeOK
    <3>2. IsPrefix(calls[i][1].text, calls[i][m].text)
      BY <1>1, <3>1 DEF HistoryInv, Chain
    <3> QED
      BY <1>1, <1>8, <3>2, CallTyped, ExtendsGrows DEF HistoryInv
  <2> QED
    BY <2>1
<1>11. Extending'
  <2>1. \A r \in adrift' : Extends(r.expected, r.text)'
    BY <1>3 DEF HistoryInv, Extending, Extends
  <2>2. \A j \in Instance : held'[j] => Extends(known[j], doc[j])'
    BY <1>3, <1>4, <1>9 DEF HistoryInv, Extending, Extends
  <2>3. ASSUME NEW j \in Instance, NEW l \in DOMAIN calls'[j]
        PROVE  Based(j, calls[j][l])'
    <3>1. PICK m \in DOMAIN calls[j] : calls'[j][l] = calls[j][m]
      BY <1>2 DEF Shifted
    <3>2. Based(j, calls[j][m])
      BY DEF HistoryInv, Extending
    <3>3. CASE j = i
      BY <1>3, <1>4, <1>10, <3>1, <3>2, <3>3 DEF Based, Extends
    <3>4. CASE j # i
      BY <1>3, <1>4, <3>1, <3>2, <3>4 DEF Based, Extends
    <3> QED
      BY <3>3, <3>4
  <2> QED
    BY <2>1, <2>2, <2>3 DEF Extending
<1> QED
  BY <1>5, <1>6, <1>7, <1>11

\* The answer is a refusal, or never comes: then the request may be adrift.
LEMMA LeavingKeepsHistory ==
    ASSUME HistoryInv, NEW i \in Instance, NEW k \in DOMAIN calls[i], Refused(i, k) \/ Break(i, k)
    PROVE  Bounded' /\ Quiet' /\ Chain' /\ Extending'
<1>1. Shifted(i)
  BY SettleShifts DEF HistoryInv, Refused, Break, AtStage
<1>2. UNCHANGED <<object, lastGen, up, held, doc, known, created>>
  BY DEF Refused, Break, counts
<1>3. \A r \in adrift' : r \in adrift \/
         /\ r.expected = calls[i][k].expected /\ r.text = calls[i][k].text
         /\ calls[i][k].stage = "sent"
  BY DEF Refused, Break
<1>4. Bounded'
  <2>1. \A r \in adrift' : r.expected <= lastGen
    BY <1>3 DEF HistoryInv, Bounded
  <2>2. \A j \in Instance : known'[j] <= lastGen
    BY <1>2 DEF HistoryInv, Bounded
  <2> QED
    BY <1>1, <1>2, <2>1, <2>2, ShiftedBounded
<1>5. Quiet'
  BY <1>1, <1>2, StoringQuiet DEF Shifted
<1>6. Chain'
  BY <1>1, <1>2, ShiftedChain
<1>7. Extending'
  <2>1. \A r \in adrift' : Extends(r.expected, r.text)
    <3>1. calls[i][k].stage = "sent" => Extends(calls[i][k].expected, calls[i][k].text)
      BY DEF HistoryInv, Extending, Based
    <3> QED
      BY <1>3, <3>1 DEF HistoryInv, Extending
  <2> QED
    BY <1>1, <1>2, <2>1, ShiftedExtending
<1> QED
  BY <1>4, <1>5, <1>6, <1>7

\* A request whose sender has gone is taken, or finds another generation there.
LEMMA AdriftKeepsHistory ==
    ASSUME HistoryInv, NEW request \in adrift, AdriftLands(request)
    PROVE  Bounded' /\ Quiet' /\ Chain' /\ Extending'
<1>1. UNCHANGED <<up, held, doc, known, calls, created>> /\ adrift' = adrift \ {request}
  BY DEF AdriftLands, memory, counts
<1>2. lastGen \in Nat /\ \A j \in Instance : known[j] \in Nat
  BY DEF HistoryInv, TypeOK
<1>3. Quiet' /\ Chain'
  <2>1. created
    BY DEF HistoryInv, Quiet
  <2> QED
    BY <1>1, <2>1 DEF HistoryInv, Quiet, Chain
<1>4. CASE UNCHANGED <<object, lastGen>>
  BY <1>1, <1>3, <1>4 DEF HistoryInv, Bounded, Extending, Based, Extends
<1>5. CASE Put(request.text, request.by)
  <2>1. lastGen' = lastGen + 1 /\ object'.gen = lastGen + 1
    BY <1>5 DEF Put
  <2>2. \A e \in Nat : e <= lastGen => e <= lastGen' /\ object'.gen # e
    BY <1>2, <2>1
  <2>3. \A r \in adrift : r.expected \in Nat /\ r.expected <= lastGen
    BY DEF HistoryInv, TypeOK, Bounded
  <2>4. \A j \in Instance : known[j] \in Nat /\ known[j] <= lastGen
    BY DEF HistoryInv, TypeOK, Bounded
  <2>5. \A j \in Instance : \A l \in DOMAIN calls[j] :
           /\ calls[j][l].expected \in Nat /\ calls[j][l].expected <= lastGen
           /\ calls[j][l].gen \in Nat /\ calls[j][l].gen <= lastGen
    BY CallTyped DEF HistoryInv, Bounded
  <2>6. Bounded'
    <3>1. object'.gen <= lastGen'
      BY <1>2, <2>1
    <3> QED
      BY <1>1, <2>2, <2>3, <2>4, <2>5, <3>1 DEF Bounded
  <2>7. Extending'
    BY <1>1, <2>2, <2>3, <2>4, <2>5 DEF Extending, Based, Extends
  <2> QED
    BY <1>3, <2>6, <2>7
<1>6. Put(request.text, request.by) \/ UNCHANGED <<object, lastGen>>
  BY Zenon DEF AdriftLands
<1> QED
  BY <1>3, <1>4, <1>5, <1>6

LEMMA CreateKeepsHistory ==
    ASSUME HistoryInv, NEW i \in Instance, Create(i)
    PROVE  Bounded' /\ Quiet' /\ Chain' /\ Extending'
<1>1. /\ UNCHANGED <<object, lastGen, adrift, up, doc, known, calls>>
      /\ ~created /\ created' /\ up[i] /\ held' = [held EXCEPT ![i] = TRUE]
  BY DEF Create
<1>2. object = None /\ adrift = {} /\ \A j \in Instance : calls[j] = << >>
  BY <1>1 DEF HistoryInv, Quiet
<1>3. Bounded'
  BY <1>1 DEF HistoryInv, Bounded
<1>4. Quiet'
  BY <1>1, <1>2 DEF HistoryInv, Quiet, TypeOK
<1>5. Chain'
  BY <1>1, <1>2 DEF Chain
<1>6. Extending'
  BY <1>1, <1>2 DEF Extending, Extends
<1> QED
  BY <1>3, <1>4, <1>5, <1>6

\* A change is added at the end of the document.
LEMMA AcceptKeepsHistory ==
    ASSUME HistoryInv, NEW i \in Instance, NEW minted \in BOOLEAN, Accept(i, minted)
    PROVE  Bounded' /\ Quiet' /\ Chain' /\ Extending'
<1> DEFINE change == [id |-> accepted + 1, minted |-> minted]
<1>1. /\ UNCHANGED <<object, lastGen, adrift, up, held, known, calls, created>>
      /\ doc' = [doc EXCEPT ![i] = Append(doc[i], change)]
  BY DEF Accept
<1>2. change \in Change
  BY DEF HistoryInv, TypeOK, Change
<1> HIDE DEF change
<1>3. \A j \in Instance : doc[j] \in Text
  BY DEF HistoryInv, TypeOK
<1>4. \A j \in Instance : \A s \in Text : IsPrefix(s, doc[j]) => IsPrefix(s, doc'[j])
  <2>1. doc'[i] = Append(doc[i], change) /\ \A j \in Instance \ {i} : doc'[j] = doc[j]
    BY <1>1 DEF HistoryInv, TypeOK
  <2> QED
    BY <1>2, <1>3, <2>1, PrefixAppend
<1>5. Bounded' /\ Quiet'
  BY <1>1 DEF HistoryInv, Bounded, Quiet
<1>6. Chain'
  <2>1. \A j \in Instance : \A k \in DOMAIN calls[j] : calls[j][k].text \in Text
    BY CallTyped DEF HistoryInv
  <2> QED
    BY <1>1, <1>4, <2>1 DEF HistoryInv, Chain
<1>7. Extending'
  <2>1. object # None => object.text \in Text
    BY DEF HistoryInv, TypeOK, Object
  <2>2. \A j \in Instance : held[j] => Extends(known[j], doc'[j])
    BY <1>4, <2>1 DEF HistoryInv, Extending, Extends
  <2> QED
    BY <1>1, <2>2 DEF HistoryInv, Extending, Based, Extends
<1> QED
  BY <1>5, <1>6, <1>7

\* The document joins the end of the queue: gcsFiles, not fsFiles.
LEMMA FlushKeepsHistory ==
    ASSUME HistoryInv, ~Blocking, NEW i \in Instance, NEW armed, Flush(i, armed)
    PROVE  Bounded' /\ Quiet' /\ Chain' /\ Extending'
<1>1. UNCHANGED <<object, lastGen, adrift, up, held, doc, known, created>>
  BY DEF Flush, FlushChained
<1>2. CASE ~(held[i] /\ dirty[i])
  BY <1>1, <1>2, NothingSent DEF Flush
<1>3. CASE held[i] /\ dirty[i]
  <2> DEFINE call == Queued(doc[i])
  <2>1. Joined(i, call)
    BY <1>3, ChainedJoins DEF Flush, HistoryInv
  <2>2. call.text = doc[i] /\ call.stage = "queued" /\ call.expected = 0 /\ call.gen = 0
    BY DEF Queued
  <2> HIDE DEF call
  <2>3. calls[i] \in Seq(Call) /\ Len(calls[i]) \in Nat /\ doc[i] \in Text /\ lastGen \in Nat
    BY DEF HistoryInv, TypeOK
  <2>4. \A j \in Instance : \A l \in DOMAIN calls'[j] :
           \/ j = i /\ l = Len(calls[i]) + 1 /\ calls'[j][l] = call
           \/ l \in DOMAIN calls[j] /\ calls'[j][l] = calls[j][l]
    <3>1. DOMAIN calls[i] = 1 .. Len(calls[i])
      BY <2>3
    <3>2. \A l \in 1 .. Len(calls[i]) + 1 : l \in 1 .. Len(calls[i]) \/ l = Len(calls[i]) + 1
      BY <2>3
    <3>3. \A l \in DOMAIN calls'[i] : l \in DOMAIN calls[i] \/ l = Len(calls[i]) + 1
      BY <2>1, <3>1, <3>2 DEF Joined
    <3> QED
      BY <2>1, <3>3 DEF Joined
  <2>5. Bounded'
    <3>1. 0 <= lastGen
      BY <2>3
    <3> QED
      BY <1>1, <2>2, <2>4, <3>1 DEF HistoryInv, Bounded
  <2>6. Quiet'
    BY <1>1, <1>3, <2>1 DEF HistoryInv, Quiet, Joined
  <2>7. Chain'
    <3>1. ASSUME NEW j \in Instance, NEW k \in DOMAIN calls'[j], NEW l \in DOMAIN calls'[j], k <= l
          PROVE  IsPrefix(calls'[j][k].text, calls'[j][l].text)
      <4>1. CASE l \in DOMAIN calls[j] /\ calls'[j][l] = calls[j][l]
        <5>1. k \in DOMAIN calls[j] /\ calls'[j][k] = calls[j][k]
          <6>1. CASE j = i /\ k = Len(calls[i]) + 1
            <7>1. l \in 1 .. Len(calls[i])
              BY <2>3, <4>1, <6>1
            <7> QED
              BY <2>3, <3>1, <6>1, <7>1
          <6> QED
            BY <2>4, <6>1
        <5> QED
          BY <3>1, <4>1, <5>1 DEF HistoryInv, Chain
      <4>2. CASE j = i /\ l = Len(calls[i]) + 1 /\ calls'[j][l] = call
        BY <1>3, <2>2, <2>3, <2>4, <4>2, PrefixSelf DEF HistoryInv, Chain
      <4> QED
        BY <2>4, <4>1, <4>2
    <3>2. ASSUME NEW j \in Instance, NEW k \in DOMAIN calls'[j], held[j]
          PROVE  IsPrefix(calls'[j][k].text, doc[j])
      BY <2>2, <2>3, <2>4, <3>2, PrefixSelf DEF HistoryInv, Chain
    <3> QED
      BY <1>1, <3>1, <3>2 DEF Chain
  <2>8. Extending'
    <3>1. ASSUME NEW j \in Instance, NEW l \in DOMAIN calls'[j]
          PROVE  Based(j, calls[j][l])'
      <4>1. CASE j = i /\ calls'[j][l] = call
        BY <1>1, <1>3, <2>2, <4>1 DEF HistoryInv, Extending, Based, Extends
      <4>2. CASE l \in DOMAIN calls[j] /\ calls'[j][l] = calls[j][l]
        BY <1>1, <4>2 DEF HistoryInv, Extending, Based, Extends
      <4> QED
        BY <2>4, <4>1, <4>2
    <3> QED
      BY <1>1, <3>1 DEF HistoryInv, Extending, Extends
  <2> QED
    BY <2>5, <2>6, <2>7, <2>8
<1> QED
  BY <1>2, <1>3

LEMMA RemovalKeepsHistory ==
    ASSUME HistoryInv, NEW i \in Instance,
           RemoveDiagram(i) \/ DeleteLands(i) \/ DeleteAnswers(i) \/ DeleteFails(i)
    PROVE  Bounded' /\ Quiet' /\ Chain' /\ Extending'
<1>1. /\ UNCHANGED <<lastGen, adrift, calls, doc, up, created>>
      /\ object' = object \/ object' = None
  BY DEF RemoveDiagram, DeleteLands, DeleteAnswers, DeleteFails, memory, counts
<1>2. \A j \in Instance : held'[j] => held[j]
  BY DEF RemoveDiagram, DeleteLands, DeleteAnswers, DeleteFails, memory, HistoryInv, TypeOK
<1>3. \A j \in Instance : known'[j] = known[j] \/ known'[j] = 0
  BY DEF RemoveDiagram, DeleteLands, DeleteAnswers, DeleteFails, HistoryInv, TypeOK
<1> QED
  BY <1>1, <1>2, <1>3, NothingSent

\* Memory goes, and what was sent is adrift.
LEMMA CrashKeepsHistory ==
    ASSUME HistoryInv, NEW i \in Instance, Crash(i)
    PROVE  Bounded' /\ Quiet' /\ Chain' /\ Extending'
<1>1. UNCHANGED <<object, lastGen, created>>
  BY DEF Crash
<1>2. /\ ~up'[i] /\ ~held'[i] /\ calls'[i] = << >> /\ known'[i] = 0
      /\ \A j \in Instance \ {i} : /\ up'[j] = up[j] /\ held'[j] = held[j] /\ calls'[j] = calls[j]
                                   /\ known'[j] = known[j] /\ doc'[j] = doc[j]
  BY DEF Crash, HistoryInv, TypeOK
<1>3. \A r \in adrift' : r \in adrift \/ \E k \in DOMAIN calls[i] :
         /\ calls[i][k].stage = "sent" /\ r.text = calls[i][k].text
         /\ r.expected = calls[i][k].expected
  BY DEF Crash
<1>4. DOMAIN calls'[i] = {}
  BY <1>2
<1>5. Bounded'
  <2>1. 0 <= lastGen
    BY DEF HistoryInv, TypeOK
  <2>2. \A r \in adrift' : r.expected <= lastGen
    BY <1>3 DEF HistoryInv, Bounded
  <2>3. \A j \in Instance : known'[j] <= lastGen
    BY <1>2, <2>1 DEF HistoryInv, Bounded
  <2> QED
    BY <1>1, <1>2, <1>4, <2>2, <2>3 DEF HistoryInv, Bounded
<1>6. Quiet'
  <2>1. ~created => adrift' = {}
    <3>1. ~created => adrift = {} /\ DOMAIN calls[i] = {}
      BY DEF HistoryInv, Quiet
    <3> QED
      BY <1>3, <3>1
  <2> QED
    BY <1>1, <1>2, <2>1 DEF HistoryInv, Quiet
<1>7. Chain'
  BY <1>2, <1>4 DEF HistoryInv, Chain
<1>8. Extending'
  <2>1. \A r \in adrift' : Extends(r.expected, r.text)
    BY <1>3 DEF HistoryInv, Extending, Based
  <2> QED
    BY <1>1, <1>2, <1>4, <2>1 DEF HistoryInv, Extending, Based, Extends
<1> QED
  BY <1>5, <1>6, <1>7, <1>8

\* What is stored is read back, and the generation it carries.
LEMMA BootKeepsHistory ==
    ASSUME HistoryInv, NEW i \in Instance, Boot(i)
    PROVE  Bounded' /\ Quiet' /\ Chain' /\ Extending'
<1>1. UNCHANGED <<object, lastGen, adrift, calls, created>>
  BY DEF Boot, counts
<1>2. up'[i] /\ ~up[i] /\ calls[i] = << >> /\ DOMAIN calls[i] = {}
  BY DEF Boot, HistoryInv, Quiet, TypeOK
<1>3. \A j \in Instance \ {i} : /\ up'[j] = up[j] /\ held'[j] = held[j]
                                /\ known'[j] = known[j] /\ doc'[j] = doc[j]
  BY DEF Boot, HistoryInv, TypeOK
<1>4. CASE object = None
  <2>1. held' = held /\ known' = known /\ ~held[i] /\ doc' = doc
    BY <1>2, <1>4 DEF Boot, HistoryInv, Quiet
  <2> QED
    BY <1>1, <1>2, <1>3, <1>4, <2>1
       DEF HistoryInv, Bounded, Quiet, Chain, Extending, Based, Extends
<1>5. CASE object # None
  <2>1. held'[i] /\ doc'[i] = object.text /\ known'[i] = object.gen /\ object.text \in Text
    BY <1>5 DEF Boot, HistoryInv, TypeOK, Object
  <2>2. Bounded'
    BY <1>1, <1>3, <1>5, <2>1 DEF HistoryInv, Bounded
  <2>3. Quiet'
    BY <1>1, <1>2, <1>3, <1>5 DEF HistoryInv, Quiet
  <2>4. Chain'
    BY <1>1, <1>2, <1>3 DEF HistoryInv, Chain
  <2>5. Extending'
    <3>1. IsPrefix(object.text, doc'[i])
      BY <2>1, PrefixSelf
    <3> QED
      BY <1>1, <1>2, <1>3, <3>1 DEF HistoryInv, Extending, Based, Extends
  <2> QED
    BY <2>2, <2>3, <2>4, <2>5
<1> QED
  BY <1>4, <1>5

LEMMA HistoryInductive ==
    ASSUME ~Blocking, HistoryInv, [Next]_vars
    PROVE  HistoryInv'
<1>1. TypeOK'
  BY TypeInductive DEF HistoryInv
<1>2. ASSUME NEW i \in Instance, NEW k \in DOMAIN calls[i], Storing(i, k)
      PROVE  Bounded' /\ Quiet' /\ Chain' /\ Extending'
  BY <1>2, SendKeepsHistory, LandKeepsHistory, RetryKeepsHistory, AnswerKeepsHistory,
     LeavingKeepsHistory DEF Storing
<1>3. ASSUME NEW i \in Instance, TimerFires(i) \/ FlushNow(i)
      PROVE  Bounded' /\ Quiet' /\ Chain' /\ Extending'
  BY <1>3, FlushKeepsHistory DEF TimerFires, FlushNow
<1>4. ASSUME NEW i \in Instance, Create(i) \/ Commit(i) \/ Setting(i)
      PROVE  Bounded' /\ Quiet' /\ Chain' /\ Extending'
  BY <1>4, CreateKeepsHistory, AcceptKeepsHistory DEF Commit, Setting
<1>5. ASSUME UNCHANGED vars
      PROVE  Bounded' /\ Quiet' /\ Chain' /\ Extending'
  <2>1. UNCHANGED <<object, lastGen, adrift, calls, doc, up, created, held, known>>
    BY <1>5 DEF vars, memory, counts
  <2> QED
    BY <2>1, NothingSent
<1> QED
  BY <1>1, <1>2, <1>3, <1>4, <1>5, RemovalKeepsHistory, CrashKeepsHistory, BootKeepsHistory,
     AdriftKeepsHistory DEF Next, HistoryInv

LEMMA HistoryInit == Init => HistoryInv
<1> SUFFICES ASSUME Init PROVE HistoryInv
  OBVIOUS
<1>1. /\ object = None /\ adrift = {} /\ lastGen = 0
      /\ \A i \in Instance : calls[i] = << >> /\ DOMAIN calls[i] = {} /\ ~held[i] /\ known[i] = 0
  BY DEF Init
<1> QED
  BY <1>1, TypeInit DEF HistoryInv, Bounded, Quiet, Chain, Extending

\* A write that lands names the generation it extends.
LEMMA StoredTextGrows ==
    ASSUME ~Blocking, HistoryInv, [Next]_vars, object # None, object' # None
    PROVE  IsPrefix(object.text, object'.text)
<1>1. object.text \in Text
  BY DEF HistoryInv, TypeOK, Object
<1>2. object' = object => IsPrefix(object.text, object'.text)
  BY <1>1, PrefixSelf
<1>3. ASSUME NEW i \in Instance, NEW k \in DOMAIN calls[i], Land(i, k)
      PROVE  IsPrefix(object.text, object'.text)
  <2>1. Extends(calls[i][k].expected, calls[i][k].text)
    <3>1. calls[i][k].stage = "sent"
      BY <1>3 DEF Land, AtStage
    <3> QED
      BY <3>1 DEF HistoryInv, Extending, Based
  <2> QED
    BY <1>2, <1>3, <2>1 DEF Land, Matches, Generation, Put, Extends
<1>4. ASSUME NEW request \in adrift, AdriftLands(request)
      PROVE  IsPrefix(object.text, object'.text)
  <2>1. Extends(request.expected, request.text)
    BY DEF HistoryInv, Extending
  <2> QED
    BY <1>2, <1>4, <2>1 DEF AdriftLands, Matches, Generation, Put, Extends
<1>5. ASSUME NEW i \in Instance, NEW k \in DOMAIN calls[i], Storing(i, k)
      PROVE  object' = object \/ Land(i, k)
  BY <1>5 DEF Storing, Send, Retry, Answer, Refused, Break
<1>6. ASSUME NEW i \in Instance, TimerFires(i) \/ FlushNow(i)
      PROVE  object' = object
  BY <1>6 DEF TimerFires, FlushNow, Flush, FlushChained
<1>7. ASSUME NEW i \in Instance, Create(i) \/ Commit(i) \/ Setting(i) \/ Crash(i) \/ Boot(i)
      PROVE  object' = object
  BY <1>7 DEF Create, Commit, Setting, Accept, Crash, Boot
<1>8. ASSUME NEW i \in Instance,
             RemoveDiagram(i) \/ DeleteLands(i) \/ DeleteAnswers(i) \/ DeleteFails(i)
      PROVE  object' = object \/ object' = None
  BY <1>8 DEF RemoveDiagram, DeleteLands, DeleteAnswers, DeleteFails
<1>9. UNCHANGED vars => object' = object
  BY DEF vars
<1> QED
  BY <1>2, <1>3, <1>4, <1>5, <1>6, <1>7, <1>8, <1>9 DEF Next

\* A write that lands in the bucket never discards a change another write had
\* stored, whoever sent it, however late it arrives, and whatever was retried,
\* refused or restarted in between: gcsFiles' compare-and-swap, end to end.
THEOREM HistoryGrows ==
    ASSUME ~Blocking
    PROVE  Spec => StoredHistoryGrows
<1>1. HistoryInv /\ [Next]_vars => HistoryInv'
  BY HistoryInductive
<1>2. HistoryInv /\ [Next]_vars
         => [object # None /\ object' # None => IsPrefix(object.text, object'.text)]_vars
  BY StoredTextGrows
<1> QED
  BY <1>1, <1>2, HistoryInit, PTL DEF Spec, StoredHistoryGrows

-----------------------------------------------------------------------------
(* Authority                                                                *)

\* Without a deletion the object is at the last generation given out.
Undeleted == Generation(object) = lastGen /\ \A i \in Instance : deleting[i] = 0

\* Only the head of a queue is under way, built with the generation still known:
\* if it landed, the storage is past that one, and if it was refused as well.
InFlight ==
    \A i \in Instance : \A k \in DOMAIN calls[i] :
        /\ calls[i][k].stage # "queued" => k = 1 /\ calls[i][k].expected = known[i]
        /\ calls[i][k].stage = "ok" => known[i] < calls[i][k].gen
        /\ calls[i][k].stage = "conflict" => known[i] < lastGen

\* Authority is lost where the storage has gone past what is known.
Losing ==
    \A i \in Instance : lost[i] =>
        /\ up[i] /\ known[i] < lastGen
        /\ \A k \in DOMAIN calls[i] : calls[i][k].stage # "ok"

\* What an incarnation has left adrift names no generation past what it knows.
Stray ==
    \A r \in adrift : \A i \in Instance : r.by[1] = i =>
        /\ r.by[2] <= epoch[i]
        /\ up[i] /\ r.by[2] = epoch[i] => r.expected <= known[i]

\* While nothing has failed, an instance that wrote the object knows it or is about to.
Unfailed ==
    /\ object # None => \A i \in Instance : object.by[1] = i => object.by[2] <= epoch[i]
    /\ faults = 0 =>
         /\ \A r \in adrift : \A i \in Instance : r.by = <<i, epoch[i]>> => ~up[i]
         /\ \A i \in Instance : up[i] /\ object # None /\ object.by = <<i, epoch[i]>> =>
               \/ known[i] = lastGen
               \/ \E k \in DOMAIN calls[i] : calls[i][k].stage = "ok" /\ calls[i][k].gen = lastGen

AuthorityInv == HistoryInv /\ Undeleted /\ InFlight /\ Losing /\ Stray /\ Unfailed

\* Steps that leave the queues, the storage and what is known of it alone.
LEMMA Undisturbed ==
    ASSUME AuthorityInv,
           UNCHANGED <<object, lastGen, adrift, up, epoch, known, calls, lost, deleting>>,
           faults' = 0 => faults = 0
    PROVE  Undeleted' /\ InFlight' /\ Losing' /\ Stray' /\ Unfailed'
<1>1. Undeleted' /\ InFlight'
  BY DEF AuthorityInv, Undeleted, InFlight, Generation
<1>2. Losing' /\ Stray'
  BY DEF AuthorityInv, Losing, Stray
<1>3. Unfailed'
  BY DEF AuthorityInv, Unfailed
<1> QED
  BY <1>1, <1>2, <1>3

LEMMA NoDeletion ==
    ASSUME MaxRemovals = 0, AuthorityInv, NEW i \in Instance
    PROVE  ~RemoveDiagram(i) /\ ~DeleteLands(i) /\ ~DeleteAnswers(i) /\ ~DeleteFails(i)
<1>1. removals \in Nat /\ deleting[i] = 0
  BY DEF AuthorityInv, HistoryInv, TypeOK, Undeleted
<1> QED
  BY <1>1 DEF RemoveDiagram, DeleteLands, DeleteAnswers, DeleteFails

LEMMA FlushKeepsAuthority ==
    ASSUME ~Blocking, AuthorityInv, NEW i \in Instance, NEW armed, Flush(i, armed)
    PROVE  Undeleted' /\ InFlight' /\ Losing' /\ Stray' /\ Unfailed'
<1>1. UNCHANGED <<object, lastGen, adrift, up, epoch, known, lost, deleting, faults>>
  BY DEF Flush, FlushChained
<1>2. CASE ~(held[i] /\ dirty[i])
  BY <1>1, <1>2, Undisturbed DEF Flush
<1>3. CASE held[i] /\ dirty[i]
  <2>1. Joined(i, Queued(doc[i]))
    BY <1>3, ChainedJoins DEF Flush, AuthorityInv, HistoryInv
  <2>2. Queued(doc[i]).stage = "queued"
    BY DEF Queued
  <2>3. calls[i] \in Seq(Call) /\ Len(calls[i]) \in Nat
    BY DEF AuthorityInv, HistoryInv, TypeOK
  <2>4. \A l \in 1 .. Len(calls[i]) + 1 : l \in DOMAIN calls[i] \/ l = Len(calls[i]) + 1
    BY <2>3
  <2>5. \A j \in Instance : \A l \in DOMAIN calls'[j] :
           calls'[j][l].stage # "queued" => l \in DOMAIN calls[j] /\ calls'[j][l] = calls[j][l]
    BY <2>1, <2>2, <2>4 DEF Joined
  <2>6. \A j \in Instance : \A l \in DOMAIN calls[j] :
           l \in DOMAIN calls'[j] /\ calls'[j][l] = calls[j][l]
    BY <2>1, <2>3 DEF Joined
  <2>7. Undeleted' /\ Stray'
    BY <1>1 DEF AuthorityInv, Undeleted, Generation, Stray
  <2>8. InFlight'
    BY <1>1, <2>5 DEF AuthorityInv, InFlight
  <2>9. Losing'
    BY <1>1, <2>5 DEF AuthorityInv, Losing
  <2>10. Unfailed'
    BY <1>1, <2>6 DEF AuthorityInv, Unfailed
  <2> QED
    BY <2>7, <2>8, <2>9, <2>10
<1> QED
  BY <1>2, <1>3

LEMMA SendKeepsAuthority ==
    ASSUME AuthorityInv, NEW i \in Instance, NEW k \in DOMAIN calls[i], Send(i, k)
    PROVE  Undeleted' /\ InFlight' /\ Losing' /\ Stray' /\ Unfailed'
<1> DEFINE call == [calls[i][k] EXCEPT !.stage = "sent", !.expected = known[i]]
<1>1. Edited(i, k, call)
  BY SendEdits DEF AuthorityInv, HistoryInv
<1>2. /\ calls[i][k] \in Call
      /\ UNCHANGED <<object, lastGen, adrift, up, epoch, known, lost, deleting, faults>>
  BY CallTyped DEF AuthorityInv, HistoryInv, Send, memory, counts
<1>3. call.stage = "sent" /\ call.expected = known[i]
  BY <1>2 DEF Call
<1> HIDE DEF call
<1>4. k = 1 /\ calls[i][k].stage = "queued"
  BY DEF Send, AtStage, Turn
<1>5. \A j \in Instance : \A l \in DOMAIN calls'[j] :
         \/ j = i /\ l = k /\ calls'[j][l] = call
         \/ l \in DOMAIN calls[j] /\ calls'[j][l] = calls[j][l]
  BY <1>1 DEF Edited
<1>6. Undeleted' /\ Stray'
  BY <1>2 DEF AuthorityInv, Undeleted, Generation, Stray
<1>7. InFlight'
  BY <1>2, <1>3, <1>4, <1>5 DEF AuthorityInv, InFlight
<1>8. Losing'
  BY <1>2, <1>3, <1>5 DEF AuthorityInv, Losing
<1>9. Unfailed'
  <2>1. \A j \in Instance : \A l \in DOMAIN calls[j] : calls[j][l].stage = "ok" =>
           l \in DOMAIN calls'[j] /\ calls'[j][l] = calls[j][l]
    BY <1>1, <1>4 DEF Edited
  <2> QED
    BY <1>2, <2>1 DEF AuthorityInv, Unfailed
<1> QED
  BY <1>6, <1>7, <1>8, <1>9

\* A request is repeated after a failure, so the answer to it is not the first.
LEMMA RetryKeepsAuthority ==
    ASSUME AuthorityInv, NEW i \in Instance, NEW k \in DOMAIN calls[i], Retry(i, k)
    PROVE  Undeleted' /\ InFlight' /\ Losing' /\ Stray' /\ Unfailed'
<1> DEFINE call == [calls[i][k] EXCEPT !.stage = "sent"]
<1>1. Edited(i, k, call)
  BY RetryEdits DEF AuthorityInv, HistoryInv
<1>2. /\ calls[i][k] \in Call
      /\ UNCHANGED <<object, lastGen, adrift, up, epoch, known, lost, deleting>>
      /\ faults' # 0
  BY CallTyped DEF AuthorityInv, HistoryInv, TypeOK, Retry, memory, Fault
<1>3. call.stage = "sent" /\ call.expected = calls[i][k].expected
  BY <1>2 DEF Call
<1> HIDE DEF call
<1>4. calls[i][k].stage # "queued"
  BY DEF Retry, AtStage
<1>5. \A j \in Instance : \A l \in DOMAIN calls'[j] :
         \/ j = i /\ l = k /\ calls'[j][l] = call
         \/ l \in DOMAIN calls[j] /\ calls'[j][l] = calls[j][l]
  BY <1>1 DEF Edited
<1>6. Undeleted' /\ Stray' /\ Unfailed'
  BY <1>2 DEF AuthorityInv, Undeleted, Generation, Stray, Unfailed
<1>7. InFlight'
  BY <1>2, <1>3, <1>4, <1>5 DEF AuthorityInv, InFlight
<1>8. Losing'
  BY <1>2, <1>3, <1>5 DEF AuthorityInv, Losing
<1> QED
  BY <1>6, <1>7, <1>8

\* What one instance knows and what is adrift stay behind a write that lands.
LEMMA PutKeepsStray ==
    ASSUME AuthorityInv, NEW text \in Text, NEW by \in Instance \X Nat, Put(text, by),
           UNCHANGED <<up, epoch, known, lost, deleting, faults>>, adrift' \subseteq adrift,
           by[2] <= epoch[by[1]]
    PROVE  /\ Undeleted' /\ Stray'
           /\ object' # None /\ object'.by = by /\ lastGen' = lastGen + 1
           /\ \A i \in Instance : object'.by[1] = i => object'.by[2] <= epoch'[i]
<1>1. /\ object' = [gen |-> lastGen + 1, text |-> text, by |-> by]
      /\ lastGen' = lastGen + 1 /\ lastGen \in Nat
  BY DEF Put, AuthorityInv, HistoryInv, TypeOK
<1>2. object' # None
  <2>1. object' \in Object
    BY <1>1 DEF Object
  <2> QED
    BY <2>1, NoneAssumption
<1>3. Undeleted'
  BY <1>1, <1>2 DEF AuthorityInv, Undeleted, Generation
<1>4. Stray'
  BY DEF AuthorityInv, Stray
<1> QED
  BY <1>1, <1>2, <1>3, <1>4

LEMMA LandKeepsAuthority ==
    ASSUME AuthorityInv, NEW i \in Instance, NEW k \in DOMAIN calls[i], Land(i, k)
    PROVE  Undeleted' /\ InFlight' /\ Losing' /\ Stray' /\ Unfailed'
<1>1. /\ calls[i][k] \in Call /\ calls[i][k].text \in Text /\ calls[i][k].expected \in Nat
      /\ lastGen \in Nat /\ known[i] \in Nat /\ epoch[i] \in Nat
      /\ UNCHANGED <<adrift, up, epoch, known, lost, deleting, faults>>
  BY CallTyped DEF AuthorityInv, HistoryInv, TypeOK, Land, memory, counts
<1>2. /\ calls[i][k].stage = "sent" /\ k = 1 /\ calls[i][k].expected = known[i]
      /\ known[i] <= lastGen
  <2>1. calls[i][k].stage = "sent" /\ k = 1
    BY DEF Land, AtStage, Turn
  <2> QED
    BY <2>1 DEF AuthorityInv, InFlight, HistoryInv, Bounded
<1>3. Generation(object) = lastGen
  BY DEF AuthorityInv, Undeleted
<1>4. CASE ~Matches(calls[i][k].expected)
  <2> DEFINE call == [calls[i][k] EXCEPT !.stage = "conflict"]
  <2>1. Edited(i, k, call) /\ UNCHANGED <<object, lastGen>>
    BY <1>4, LandEdits DEF AuthorityInv, HistoryInv, Land
  <2>2. call.stage = "conflict" /\ call.expected = calls[i][k].expected
    BY <1>1 DEF Call
  <2> HIDE DEF call
  <2>3. known[i] < lastGen
    BY <1>1, <1>2, <1>3, <1>4 DEF Matches
  <2>4. \A j \in Instance : \A l \in DOMAIN calls'[j] :
           \/ j = i /\ l = k /\ calls'[j][l] = call
           \/ l \in DOMAIN calls[j] /\ calls'[j][l] = calls[j][l]
    BY <2>1 DEF Edited
  <2>5. Undeleted' /\ Stray'
    BY <1>1, <2>1 DEF AuthorityInv, Undeleted, Generation, Stray
  <2>6. InFlight'
    BY <1>1, <1>2, <2>1, <2>2, <2>3, <2>4 DEF AuthorityInv, InFlight
  <2>7. Losing'
    BY <1>1, <2>1, <2>2, <2>4 DEF AuthorityInv, Losing
  <2>8. Unfailed'
    <3>1. \A j \in Instance : \A l \in DOMAIN calls[j] : calls[j][l].stage = "ok" =>
             l \in DOMAIN calls'[j] /\ calls'[j][l] = calls[j][l]
      BY <1>2, <2>1 DEF Edited
    <3> QED
      BY <1>1, <2>1, <3>1 DEF AuthorityInv, Unfailed
  <2> QED
    BY <2>5, <2>6, <2>7, <2>8
<1>5. CASE Matches(calls[i][k].expected)
  <2> DEFINE call == [calls[i][k] EXCEPT !.stage = "ok", !.gen = lastGen + 1]
  <2>1. Edited(i, k, call) /\ Put(calls[i][k].text, <<i, epoch[i]>>)
    BY <1>5, LandEdits DEF AuthorityInv, HistoryInv, Land
  <2>2. call.stage = "ok" /\ call.expected = calls[i][k].expected /\ call.gen = lastGen + 1
    BY <1>1 DEF Call
  <2> HIDE DEF call
  <2>3. known[i] = lastGen
    BY <1>2, <1>3, <1>5 DEF Matches
  <2>4. \A j \in Instance : \A l \in DOMAIN calls'[j] :
           \/ j = i /\ l = k /\ calls'[j][l] = call
           \/ l \in DOMAIN calls[j] /\ calls'[j][l] = calls[j][l]
    BY <2>1 DEF Edited
  <2>5. /\ Undeleted' /\ Stray' /\ object'.by = <<i, epoch[i]>> /\ lastGen' = lastGen + 1
        /\ \A j \in Instance : object'.by[1] = j => object'.by[2] <= epoch'[j]
    <3>1. <<i, epoch[i]>> \in Instance \X Nat /\ <<i, epoch[i]>>[2] <= epoch[<<i, epoch[i]>>[1]]
      BY <1>1
    <3> QED
      BY <1>1, <2>1, <3>1, PutKeepsStray
  <2>6. \A e \in Nat : e < lastGen => e < lastGen'
    BY <1>1, <2>5
  <2>7. InFlight'
    BY <1>1, <1>2, <2>2, <2>3, <2>4, <2>5 DEF AuthorityInv, InFlight, HistoryInv, TypeOK
  <2>8. Losing'
    <3>1. ~lost[i]
      BY <1>1, <2>3 DEF AuthorityInv, Losing
    <3>2. \A j \in Instance : known[j] \in Nat
      BY DEF AuthorityInv, HistoryInv, TypeOK
    <3>3. \A j \in Instance : lost[j] => up[j] /\ known[j] < lastGen'
      BY <2>6, <3>2 DEF AuthorityInv, Losing
    <3>4. \A j \in Instance : lost[j] => \A l \in DOMAIN calls'[j] : calls'[j][l].stage # "ok"
      BY <2>4, <3>1 DEF AuthorityInv, Losing
    <3> QED
      BY <1>1, <3>3, <3>4 DEF Losing
  <2>9. Unfailed'
    <3>1. k \in DOMAIN calls'[i] /\ calls'[i][k] = call
      BY <2>1 DEF Edited
    <3>2. \A j \in Instance : object'.by = <<j, epoch[j]>> => j = i
      BY <2>5
    <3> QED
      BY <1>1, <2>2, <2>5, <3>1, <3>2 DEF AuthorityInv, Unfailed
  <2> QED
    BY <2>5, <2>7, <2>8, <2>9
<1> QED
  BY <1>4, <1>5

LEMMA AdriftKeepsAuthority ==
    ASSUME AuthorityInv, NEW request \in adrift, AdriftLands(request)
    PROVE  Undeleted' /\ InFlight' /\ Losing' /\ Stray' /\ Unfailed'
<1>1. /\ UNCHANGED <<up, epoch, known, calls, lost, deleting, faults>>
      /\ adrift' = adrift \ {request} /\ lastGen \in Nat
  BY DEF AdriftLands, memory, counts, AuthorityInv, HistoryInv, TypeOK
<1>2. CASE UNCHANGED <<object, lastGen>>
  BY <1>1, <1>2 DEF AuthorityInv, Undeleted, InFlight, Losing, Stray, Unfailed, Generation
<1>3. CASE Put(request.text, request.by)
  <2>1. request.by \in Instance \X Nat /\ request.text \in Text
    BY DEF AuthorityInv, HistoryInv, TypeOK
  <2>2. request.by[2] <= epoch[request.by[1]]
    BY <2>1 DEF AuthorityInv, Stray
  <2>3. /\ Undeleted' /\ Stray' /\ object'.by = request.by /\ lastGen' = lastGen + 1
        /\ \A j \in Instance : object'.by[1] = j => object'.by[2] <= epoch'[j]
    BY <1>1, <1>3, <2>1, <2>2, PutKeepsStray
  <2>4. \A e \in Nat : e < lastGen => e < lastGen'
    BY <1>1, <2>3
  <2>5. InFlight' /\ Losing'
    BY <1>1, <2>4 DEF AuthorityInv, InFlight, Losing, HistoryInv, TypeOK
  <2>6. Unfailed'
    BY <1>1, <2>3 DEF AuthorityInv, Unfailed
  <2> QED
    BY <2>3, <2>5, <2>6
<1>4. Put(request.text, request.by) \/ UNCHANGED <<object, lastGen>>
  BY DEF AdriftLands
<1> QED
  BY <1>2, <1>3, <1>4

\* Once the head has left its queue nothing in that queue is under way.
LEMMA ShiftedQueue ==
    ASSUME AuthorityInv, NEW i \in Instance, Shifted(i)
    PROVE  /\ \A l \in DOMAIN calls'[i] : calls'[i][l].stage = "queued"
           /\ \A j \in Instance \ {i} : calls'[j] = calls[j]
<1>1. ASSUME NEW l \in DOMAIN calls'[i]
      PROVE  calls'[i][l].stage = "queued"
  <2>1. l + 1 \in DOMAIN calls[i] /\ calls'[i][l] = calls[i][l + 1]
    BY DEF Shifted
  <2>2. l + 1 # 1
    <3>1. DOMAIN calls'[i] \subseteq Nat \ {0}
      BY DEF Shifted, AuthorityInv, HistoryInv, TypeOK
    <3> QED
      BY <3>1
  <2> QED
    BY <2>1, <2>2 DEF AuthorityInv, InFlight
<1> QED
  BY <1>1 DEF Shifted

LEMMA AnswerKeepsAuthority ==
    ASSUME AuthorityInv, NEW i \in Instance, NEW k \in DOMAIN calls[i], Answer(i, k)
    PROVE  Undeleted' /\ InFlight' /\ Losing' /\ Stray' /\ Unfailed'
<1>1. /\ calls[i][k].stage = "ok" /\ k = 1
      /\ UNCHANGED <<object, lastGen, adrift, up, epoch, lost, deleting, faults>>
  BY DEF Answer, AtStage, Turn, counts
<1>2. /\ known'[i] = calls[i][k].gen
      /\ \A j \in Instance \ {i} : known'[j] = known[j]
  BY DEF Answer, AuthorityInv, HistoryInv, TypeOK
<1>3. Shifted(i)
  BY SettleShifts DEF Answer, AtStage, AuthorityInv, HistoryInv
<1>4. /\ known[i] < known'[i] /\ ~lost[i] /\ known[i] \in Nat /\ known'[i] \in Nat
  BY <1>1, <1>2, CallTyped DEF AuthorityInv, InFlight, Losing, HistoryInv
<1>5. Undeleted'
  BY <1>1 DEF AuthorityInv, Undeleted, Generation
<1>6. InFlight'
  BY <1>1, <1>2, <1>3, ShiftedQueue DEF AuthorityInv, InFlight
<1>7. Losing'
  BY <1>1, <1>2, <1>3, <1>4, ShiftedQueue DEF AuthorityInv, Losing
<1>8. Stray'
  <2>1. \A r \in adrift : r.expected \in Nat /\ (r.expected <= known[i] => r.expected <= known'[i])
    BY <1>4 DEF AuthorityInv, HistoryInv, TypeOK
  <2> QED
    BY <1>1, <1>2, <2>1 DEF AuthorityInv, Stray
<1>9. Unfailed'
  <2>1. ASSUME faults = 0, NEW j \in Instance, up[j], object # None, object.by = <<j, epoch[j]>>
        PROVE  \/ known'[j] = lastGen
               \/ \E l \in DOMAIN calls'[j] : calls'[j][l].stage = "ok" /\ calls'[j][l].gen = lastGen
    <3>1. \/ known[j] = lastGen
          \/ \E l \in DOMAIN calls[j] : calls[j][l].stage = "ok" /\ calls[j][l].gen = lastGen
      BY <2>1 DEF AuthorityInv, Unfailed
    <3>2. CASE j # i
      BY <1>2, <1>3, <3>1, <3>2 DEF Shifted
    <3>3. CASE j = i
      <4>1. ~(known[i] = lastGen)
        <5>1. known'[i] <= lastGen /\ lastGen \in Nat
          BY <1>1, <1>2 DEF AuthorityInv, HistoryInv, Bounded, TypeOK
        <5> QED
          BY <1>4, <5>1
      <4>2. PICK l \in DOMAIN calls[i] : calls[i][l].stage = "ok" /\ calls[i][l].gen = lastGen
        BY <3>1, <3>3, <4>1
      <4>3. l = 1
        BY <4>2 DEF AuthorityInv, InFlight
      <4> QED
        BY <1>1, <1>2, <3>3, <4>2, <4>3
    <3> QED
      BY <3>2, <3>3
  <2> QED
    BY <1>1, <2>1 DEF AuthorityInv, Unfailed
<1> QED
  BY <1>5, <1>6, <1>7, <1>8, <1>9

LEMMA RefusedKeepsAuthority ==
    ASSUME AuthorityInv, NEW i \in Instance, NEW k \in DOMAIN calls[i], Refused(i, k)
    PROVE  Undeleted' /\ InFlight' /\ Losing' /\ Stray' /\ Unfailed'
<1>1. /\ calls[i][k].stage = "conflict" /\ k = 1
      /\ UNCHANGED <<object, lastGen, adrift, up, epoch, known, deleting, faults>>
  BY DEF Refused, AtStage, Turn, counts
<1>2. \A j \in Instance : lost'[j] => j = i \/ lost[j]
  BY DEF Refused, AuthorityInv, HistoryInv, TypeOK
<1>3. Shifted(i)
  BY SettleShifts DEF Refused, AtStage, AuthorityInv, HistoryInv
<1>4. known[i] < lastGen /\ up[i]
  BY <1>1 DEF AuthorityInv, InFlight, HistoryInv, Quiet
<1>5. Undeleted' /\ Stray'
  BY <1>1 DEF AuthorityInv, Undeleted, Generation, Stray
<1>6. InFlight'
  BY <1>1, <1>3, ShiftedQueue DEF AuthorityInv, InFlight
<1>7. Losing'
  BY <1>1, <1>2, <1>3, <1>4, ShiftedQueue DEF AuthorityInv, Losing
<1>8. Unfailed'
  <2>1. \A l \in DOMAIN calls[i] : calls[i][l].stage # "ok"
    BY <1>1 DEF AuthorityInv, InFlight
  <2> QED
    BY <1>1, <1>3, <2>1 DEF AuthorityInv, Unfailed, Shifted
<1> QED
  BY <1>5, <1>6, <1>7, <1>8

LEMMA BreakKeepsAuthority ==
    ASSUME AuthorityInv, NEW i \in Instance, NEW k \in DOMAIN calls[i], Break(i, k)
    PROVE  Undeleted' /\ InFlight' /\ Losing' /\ Stray' /\ Unfailed'
<1>1. /\ UNCHANGED <<object, lastGen, up, epoch, known, lost, deleting>>
      /\ faults' # 0
  BY DEF Break, Fault, AuthorityInv, HistoryInv, TypeOK
<1>2. Shifted(i)
  BY SettleShifts DEF Break, AuthorityInv, HistoryInv
<1>3. Undeleted' /\ Unfailed'
  BY <1>1 DEF AuthorityInv, Undeleted, Generation, Unfailed
<1>4. InFlight'
  BY <1>1, <1>2, ShiftedQueue DEF AuthorityInv, InFlight
<1>5. Losing'
  BY <1>1, <1>2, ShiftedQueue DEF AuthorityInv, Losing
<1>6. Stray'
  <2>1. \A r \in adrift' :
           \/ r \in adrift
           \/ r.by = <<i, epoch[i]>> /\ r.expected = known[i]
    <3>1. calls[i][k].expected = known[i]
      BY DEF Break, AuthorityInv, InFlight
    <3> QED
      BY <3>1 DEF Break
  <2>2. epoch[i] <= epoch[i] /\ known[i] <= known[i]
    BY DEF AuthorityInv, HistoryInv, TypeOK
  <2> QED
    BY <1>1, <2>1, <2>2 DEF AuthorityInv, Stray
<1> QED
  BY <1>3, <1>4, <1>5, <1>6

LEMMA CrashKeepsAuthority ==
    ASSUME AuthorityInv, NEW i \in Instance, Crash(i)
    PROVE  Undeleted' /\ InFlight' /\ Losing' /\ Stray' /\ Unfailed'
<1>1. UNCHANGED <<object, lastGen, epoch, faults>>
  BY DEF Crash
<1>2. /\ ~up'[i] /\ ~lost'[i] /\ DOMAIN calls'[i] = {} /\ deleting'[i] = 0
      /\ \A j \in Instance \ {i} : /\ up'[j] = up[j] /\ lost'[j] = lost[j] /\ calls'[j] = calls[j]
                                   /\ known'[j] = known[j] /\ deleting'[j] = deleting[j]
  <2>1. calls'[i] = << >>
    BY DEF Crash, AuthorityInv, HistoryInv, TypeOK
  <2> QED
    BY <2>1 DEF Crash, AuthorityInv, HistoryInv, TypeOK
<1>3. \A r \in adrift' : r \in adrift \/ r.by = <<i, epoch[i]>>
  BY DEF Crash
<1>4. epoch[i] <= epoch[i]
  BY DEF AuthorityInv, HistoryInv, TypeOK
<1>5. Undeleted' /\ InFlight' /\ Losing'
  BY <1>1, <1>2 DEF AuthorityInv, Undeleted, Generation, InFlight, Losing
<1>6. Stray'
  BY <1>1, <1>2, <1>3, <1>4 DEF AuthorityInv, Stray
<1>7. Unfailed'
  <2>1. \A r \in adrift' : \A j \in Instance : r.by = <<j, epoch[j]>> => r \in adrift \/ j = i
    BY <1>3
  <2> QED
    BY <1>1, <1>2, <2>1 DEF AuthorityInv, Unfailed
<1> QED
  BY <1>5, <1>6, <1>7

LEMMA BootKeepsAuthority ==
    ASSUME AuthorityInv, NEW i \in Instance, Boot(i)
    PROVE  Undeleted' /\ InFlight' /\ Losing' /\ Stray' /\ Unfailed'
<1>1. UNCHANGED <<object, lastGen, adrift, calls, lost, deleting, faults>>
  BY DEF Boot, counts
<1>2. /\ ~up[i] /\ DOMAIN calls[i] = {} /\ ~lost[i]
      /\ epoch'[i] = epoch[i] + 1 /\ epoch[i] \in Nat
      /\ \A j \in Instance \ {i} : up'[j] = up[j] /\ epoch'[j] = epoch[j] /\ known'[j] = known[j]
  BY DEF Boot, AuthorityInv, HistoryInv, Quiet, Losing, TypeOK
<1>3. Undeleted'
  BY <1>1 DEF AuthorityInv, Undeleted, Generation
<1>4. InFlight' /\ Losing'
  BY <1>1, <1>2 DEF AuthorityInv, InFlight, Losing
<1>5. \A e \in Nat : e <= epoch[i] => e <= epoch'[i] /\ e # epoch'[i]
  BY <1>2
<1>6. Stray'
  <2>1. \A r \in adrift : r.by[2] \in Nat
    BY DEF AuthorityInv, HistoryInv, TypeOK
  <2> QED
    BY <1>1, <1>2, <1>5, <2>1 DEF AuthorityInv, Stray
<1>7. Unfailed'
  <2>1. object # None => object.by \in Instance \X Nat
    BY DEF AuthorityInv, HistoryInv, TypeOK, Object
  <2>2. object # None => \A j \in Instance : object.by[1] = j => object.by[2] <= epoch'[j]
    BY <1>2, <1>5, <2>1 DEF AuthorityInv, Unfailed
  <2>3. object # None => object.by # <<i, epoch'[i]>>
    BY <1>5, <2>1 DEF AuthorityInv, Unfailed
  <2>4. \A r \in adrift : r.by # <<i, epoch'[i]>>
    <3>1. \A r \in adrift : r.by \in Instance \X Nat
      BY DEF AuthorityInv, HistoryInv, TypeOK
    <3> QED
      BY <1>5, <3>1 DEF AuthorityInv, Stray
  <2> QED
    BY <1>1, <1>2, <2>2, <2>3, <2>4 DEF AuthorityInv, Unfailed
<1> QED
  BY <1>3, <1>4, <1>6, <1>7

LEMMA AuthorityInductive ==
    ASSUME ~Blocking, MaxRemovals = 0, AuthorityInv, [Next]_vars
    PROVE  AuthorityInv'
<1>1. HistoryInv'
  BY HistoryInductive DEF AuthorityInv
<1>2. ASSUME NEW i \in Instance, NEW k \in DOMAIN calls[i], Storing(i, k)
      PROVE  Undeleted' /\ InFlight' /\ Losing' /\ Stray' /\ Unfailed'
  BY <1>2, SendKeepsAuthority, LandKeepsAuthority, RetryKeepsAuthority, AnswerKeepsAuthority,
     RefusedKeepsAuthority, BreakKeepsAuthority DEF Storing
<1>3. ASSUME NEW i \in Instance, TimerFires(i) \/ FlushNow(i)
      PROVE  Undeleted' /\ InFlight' /\ Losing' /\ Stray' /\ Unfailed'
  BY <1>3, FlushKeepsAuthority DEF TimerFires, FlushNow
<1>4. ASSUME NEW i \in Instance, Create(i) \/ Commit(i) \/ Setting(i)
      PROVE  Undeleted' /\ InFlight' /\ Losing' /\ Stray' /\ Unfailed'
  BY <1>4, Undisturbed DEF Create, Commit, Setting, Accept
<1>5. ASSUME UNCHANGED vars
      PROVE  Undeleted' /\ InFlight' /\ Losing' /\ Stray' /\ Unfailed'
  BY <1>5, Undisturbed DEF vars, memory, counts
<1> QED
  BY <1>1, <1>2, <1>3, <1>4, <1>5, NoDeletion, CrashKeepsAuthority, BootKeepsAuthority,
     AdriftKeepsAuthority DEF Next, AuthorityInv

LEMMA AuthorityInit == Init => AuthorityInv
<1> SUFFICES ASSUME Init PROVE AuthorityInv
  OBVIOUS
<1>1. /\ object = None /\ adrift = {} /\ lastGen = 0
      /\ \A i \in Instance : DOMAIN calls[i] = {} /\ ~lost[i] /\ deleting[i] = 0
  BY DEF Init
<1> QED
  BY <1>1, HistoryInit DEF AuthorityInv, Undeleted, Generation, InFlight, Losing, Stray, Unfailed

\* Only a conditional PUT that the storage takes changes the object.
LEMMA OnlyPutsStore ==
    ASSUME ~Blocking, MaxRemovals = 0, AuthorityInv, [Next]_vars, object' # object
    PROVE  \/ \E i \in Instance : \E k \in DOMAIN calls[i] : Land(i, k)
           \/ \E request \in adrift : AdriftLands(request)
<1>1. ASSUME NEW i \in Instance, NEW k \in DOMAIN calls[i], Storing(i, k)
      PROVE  Land(i, k)
  BY <1>1 DEF Storing, Send, Retry, Answer, Refused, Break
<1>2. \A i \in Instance : ~(TimerFires(i) \/ FlushNow(i))
  BY DEF TimerFires, FlushNow, Flush, FlushChained
<1>3. \A i \in Instance : ~(Create(i) \/ Commit(i) \/ Setting(i) \/ Crash(i) \/ Boot(i))
  BY DEF Create, Commit, Setting, Accept, Crash, Boot
<1>4. ~UNCHANGED vars
  BY DEF vars
<1> QED
  BY <1>1, <1>2, <1>3, <1>4, NoDeletion DEF Next

LEMMA LostIsSilent ==
    ASSUME ~Blocking, MaxRemovals = 0, AuthorityInv, [Next]_vars,
           NEW i \in Instance, lost[i], object' # object
    PROVE  object'.by # <<i, epoch[i]>>
<1>1. Generation(object) = lastGen /\ up[i] /\ known[i] < lastGen /\ known[i] \in Nat /\ lastGen \in Nat
  BY DEF AuthorityInv, Undeleted, Losing, HistoryInv, TypeOK
<1>2. ASSUME NEW j \in Instance, NEW k \in DOMAIN calls[j], Land(j, k)
      PROVE  object'.by # <<i, epoch[i]>>
  <2>1. calls[j][k].stage = "sent"
    BY <1>2 DEF Land, AtStage
  <2>2. calls[j][k].expected = known[j]
    BY <2>1 DEF AuthorityInv, InFlight
  <2>3. Matches(known[j]) /\ object'.by = <<j, epoch[j]>>
    BY <1>2, <2>2 DEF Land, Put
  <2> QED
    BY <1>1, <2>3 DEF Matches
<1>3. ASSUME NEW request \in adrift, AdriftLands(request)
      PROVE  object'.by # <<i, epoch[i]>>
  <2>1. Matches(request.expected) /\ object'.by = request.by
    BY <1>3 DEF AdriftLands, Put
  <2>2. request.expected = lastGen
    BY <1>1, <2>1 DEF Matches
  <2>3. request.by = <<i, epoch[i]>> => request.expected <= known[i]
    <3>1. ASSUME request.by = <<i, epoch[i]>>
          PROVE  request.expected <= known[i]
      <4>1. request.by[1] = i /\ request.by[2] = epoch[i]
        BY <3>1
      <4> QED
        BY <1>1, <4>1 DEF AuthorityInv, Stray
    <3> QED
      BY <3>1
  <2> QED
    BY <1>1, <2>1, <2>2, <2>3
<1> QED
  BY <1>2, <1>3, OnlyPutsStore

LEMMA RefusalProves ==
    ASSUME AuthorityInv, [Next]_vars, ~Blocking, MaxRemovals = 0, faults = 0,
           NEW i \in Instance, NEW k \in DOMAIN calls[i]
    PROVE  ProvesAnother(i, k)
<1> SUFFICES ASSUME k \in DOMAIN calls'[i], calls[i][k].stage = "sent", calls'[i][k].stage = "conflict"
             PROVE  object # None /\ object.by # <<i, epoch[i]>>
  BY DEF ProvesAnother
<1>1. k = 1 /\ calls[i][k].expected = known[i]
  BY DEF AuthorityInv, InFlight
<1>2. CASE Land(i, k)
  <2>1. ~Matches(known[i])
    <3>1. ASSUME Matches(known[i])
          PROVE  calls'[i][k].stage = "ok"
      <4>1. calls[i][k] \in Call
        BY CallTyped DEF AuthorityInv, HistoryInv
      <4> QED
        BY <1>1, <1>2, <3>1, <4>1, LandEdits DEF AuthorityInv, HistoryInv, Edited, Call
    <3> QED
      BY <3>1
  <2>2. known[i] # lastGen /\ known[i] <= lastGen /\ known[i] \in Nat /\ lastGen \in Nat
    BY <2>1 DEF Matches, AuthorityInv, Undeleted, HistoryInv, Bounded, TypeOK
  <2>3. object # None
    BY <2>2 DEF AuthorityInv, Undeleted, Generation
  <2>4. up[i]
    BY DEF AuthorityInv, HistoryInv, Quiet
  <2>5. \A l \in DOMAIN calls[i] : calls[i][l].stage # "ok"
    BY <1>1 DEF AuthorityInv, InFlight
  <2> QED
    BY <2>2, <2>3, <2>4, <2>5 DEF AuthorityInv, Unfailed
<1>3. ASSUME NEW j \in Instance, NEW l \in DOMAIN calls[j], Storing(j, l)
      PROVE  Land(i, k)
  <2>1. ASSUME Answer(j, l) \/ Refused(j, l) \/ Break(j, l)
        PROVE  FALSE
    <3>1. Shifted(j)
      BY <2>1, SettleShifts DEF Answer, Refused, Break, AtStage, AuthorityInv, HistoryInv
    <3> QED
      BY <3>1, ShiftedQueue
  <2>2. l = 1
    BY <1>3, <2>1 DEF Storing, Send, Land, Retry, AtStage, Turn
  <2>3. \E call : Edited(j, l, call)
    BY <1>3, <2>1, SendEdits, LandEdits, RetryEdits DEF Storing, AuthorityInv, HistoryInv
  <2>4. j = i
    BY <2>3 DEF Edited
  <2>5. Land(j, l)
    BY <1>1, <1>3, <2>1, <2>2, <2>4 DEF Storing, Send, Retry, AtStage
  <2> QED
    BY <1>1, <2>2, <2>4, <2>5
<1>4. ASSUME NEW j \in Instance, TimerFires(j) \/ FlushNow(j)
      PROVE  FALSE
  <2>1. calls' = calls \/ Joined(j, Queued(doc[j]))
    BY <1>4, ChainedJoins DEF TimerFires, FlushNow, Flush, AuthorityInv, HistoryInv
  <2> QED
    BY <2>1 DEF Joined
<1>5. ASSUME NEW j \in Instance, Crash(j)
      PROVE  FALSE
  BY <1>5 DEF Crash, AuthorityInv, HistoryInv, TypeOK
<1>6. ASSUME NEW j \in Instance, Create(j) \/ Commit(j) \/ Setting(j) \/ Boot(j)
      PROVE  FALSE
  BY <1>6 DEF Create, Commit, Setting, Accept, Boot
<1>7. ASSUME NEW request \in adrift, AdriftLands(request)
      PROVE  FALSE
  BY <1>7 DEF AdriftLands
<1>8. ~UNCHANGED vars
  BY DEF vars
<1> QED
  BY <1>2, <1>3, <1>4, <1>5, <1>6, <1>7, <1>8, NoDeletion DEF Next

\* Losing authority is final: nothing an instance that was refused still has
\* queued, or accepts afterwards, reaches the bucket, while nobody deletes.
THEOREM LostIsFinal ==
    ASSUME ~Blocking, MaxRemovals = 0
    PROVE  Spec => LostWritesNothing
<1>1. AuthorityInv /\ [Next]_vars => AuthorityInv'
  BY AuthorityInductive
<1>2. AuthorityInv /\ [Next]_vars
         => [\A i \in Instance :
               lost[i] /\ object' # object /\ object' # None => object'.by # <<i, epoch[i]>>]_vars
  BY LostIsSilent
<1> QED
  BY <1>1, <1>2, AuthorityInit, PTL DEF Spec, LostWritesNothing

\* While no request has failed and nobody deletes, a refusal proves that another
\* process wrote the object: an instance is never refused by its own writes.
THEOREM RefusalIsProof ==
    ASSUME ~Blocking, MaxRemovals = 0
    PROVE  Spec => RefusalIsProofUnfailed
<1>1. AuthorityInv /\ [Next]_vars => AuthorityInv'
  BY AuthorityInductive
<1>2. AuthorityInv /\ [Next]_vars
         => [faults = 0 => \A i \in Instance : \A k \in DOMAIN calls[i] : ProvesAnother(i, k)]_vars
  BY RefusalProves
<1> QED
  BY <1>1, <1>2, AuthorityInit, PTL DEF Spec, RefusalIsProofUnfailed

-----------------------------------------------------------------------------
(* The watermark, on the disk of one server                                 *)

\* A minted change past a prefix takes a version the prefix has not reached.
LEMMA VersionPasses ==
    ASSUME NEW s \in Text, NEW text \in Text, IsPrefix(s, text),
           NEW k \in DOMAIN text, text[k].minted, Len(s) < k
    PROVE  Version(s) < Version(SubSeq(text, 1, k))
<1> DEFINE A == {n \in DOMAIN s : s[n].minted}
           B == {n \in DOMAIN SubSeq(text, 1, k) : SubSeq(text, 1, k)[n].minted}
<1>1. s \in Seq(Change) /\ text \in Seq(Change) /\ k \in 1 .. Len(text) /\ Len(s) \in Nat
  BY DEF Text
<1>2. DOMAIN s = 1 .. Len(s) /\ \A n \in 1 .. Len(s) : s[n] = text[n]
  BY <1>1, PrefixByElements
<1>3. DOMAIN SubSeq(text, 1, k) = 1 .. k /\ \A n \in 1 .. k : SubSeq(text, 1, k)[n] = text[n]
  BY <1>1
<1>4. IsFiniteSet(A) /\ IsFiniteSet(B)
  <2>1. IsFiniteSet(1 .. Len(s)) /\ IsFiniteSet(1 .. k)
    BY <1>1, FS_Interval
  <2> QED
    BY <1>2, <1>3, <2>1, FS_Subset
<1>5. k \notin A /\ A \cup {k} \subseteq B
  <2>1. \A n \in 1 .. Len(s) : n \in 1 .. k /\ n # k
    BY <1>1
  <2>2. k \in 1 .. k
    BY <1>1
  <2> QED
    BY <1>2, <1>3, <2>1, <2>2
<1> HIDE DEF A, B
<1>6. Cardinality(A \cup {k}) = Cardinality(A) + 1 /\ IsFiniteSet(A \cup {k})
  BY <1>4, <1>5, FS_AddElement
<1>7. Cardinality(A \cup {k}) <= Cardinality(B)
  BY <1>4, <1>5, FS_Subset
<1>8. Cardinality(A) < Cardinality(B)
  <2>1. Cardinality(A) \in Nat /\ Cardinality(B) \in Nat
    BY <1>4, FS_CardinalityType
  <2> QED
    BY <1>6, <1>7, <2>1
<1> QED
  BY <1>8 DEF Version, A, B

\* The entry extends what its last write stored, and the watermark is its version.
Stored(i) ==
    IF object = None THEN flushed[i] = 0
    ELSE IsPrefix(object.text, doc[i]) /\ flushed[i] = Version(object.text)

DiskInv ==
    /\ TypeOK
    /\ adrift = {} /\ \A i \in Instance : calls[i] = << >>
    /\ ~created => object = None /\ \A i \in Instance : /\ ~held[i] /\ doc[i] = << >>
                                                        /\ flushed[i] = 0 /\ deleting[i] = 0
    /\ \A i \in Instance : ~up[i] => ~held[i] /\ deleting[i] = 0
    /\ \A i \in Instance : held[i] => deleting[i] = 0 /\ Stored(i)

LEMMA DiskIsHonest == DiskInv => WatermarkHonest
<1> SUFFICES ASSUME DiskInv, NEW i \in Instance, held[i], NEW k \in DOMAIN doc[i],
                    doc[i][k].minted, Version(SubSeq(doc[i], 1, k)) <= flushed[i]
             PROVE  object # None /\ doc[i][k] \in Range(object.text)
  BY DEF WatermarkHonest
<1>1. doc[i] \in Text /\ Stored(i) /\ k \in Nat \ {0}
  BY DEF DiskInv, TypeOK, Text
<1>2. SubSeq(doc[i], 1, k) \in Text
  BY <1>1 DEF Text
<1>3. CASE object = None
  <2>1. << >> \in Text /\ Len(<< >>) = 0 /\ IsPrefix(<< >>, doc[i])
    <3>1. << >> \in Seq(Change) /\ doc[i] \in Seq(Change) /\ Len(<< >>) = 0
      BY <1>1 DEF Text
    <3>2. Len(<< >>) <= Len(doc[i]) /\ \A n \in 1 .. Len(<< >>) : << >>[n] = doc[i][n]
      BY <3>1
    <3> QED
      BY <3>1, <3>2, PrefixByElements DEF Text
  <2>2. Version(<< >>) < Version(SubSeq(doc[i], 1, k))
    BY <1>1, <2>1, VersionPasses
  <2>3. Version(<< >>) \in Nat /\ Version(SubSeq(doc[i], 1, k)) \in Nat
    BY <1>2, <2>1, VersionIsNat
  <2> QED
    BY <1>1, <1>3, <2>2, <2>3 DEF Stored
<1>4. CASE object # None
  <2>1. object.text \in Text /\ IsPrefix(object.text, doc[i]) /\ flushed[i] = Version(object.text)
    BY <1>1, <1>4 DEF Stored, DiskInv, TypeOK, Object
  <2>2. k <= Len(object.text)
    <3>1. ASSUME Len(object.text) < k
          PROVE  FALSE
      <4>1. Version(object.text) < Version(SubSeq(doc[i], 1, k))
        BY <1>1, <2>1, <3>1, VersionPasses
      <4>2. Version(object.text) \in Nat /\ Version(SubSeq(doc[i], 1, k)) \in Nat
        BY <1>2, <2>1, VersionIsNat
      <4> QED
        BY <2>1, <4>1, <4>2
    <3>2. Len(object.text) \in Nat
      BY <2>1 DEF Text
    <3> QED
      BY <1>1, <3>1, <3>2
  <2>3. k \in DOMAIN object.text /\ object.text[k] = doc[i][k]
    <3>1. object.text \in Seq(Change) /\ doc[i] \in Seq(Change)
      BY <1>1, <2>1 DEF Text
    <3>2. k \in 1 .. Len(object.text)
      BY <1>1, <2>2, <3>1
    <3> QED
      BY <2>1, <3>1, <3>2, PrefixByElements
  <2> QED
    BY <1>4, <2>3 DEF Range
<1> QED
  BY <1>3, <1>4

LEMMA DiskFlush ==
    ASSUME Blocking, \A j \in Instance : \A l \in Instance : j = l,
           DiskInv, NEW i \in Instance, NEW armed \in BOOLEAN, Flush(i, armed)
    PROVE  DiskInv'
<1>1. TypeOK'
  BY FlushTyped DEF DiskInv
<1>2. UNCHANGED <<adrift, up, held, doc, deleting, created, calls>>
  BY DEF Flush, FlushBlocking
<1>3. CASE UNCHANGED <<object, flushed>>
  BY <1>1, <1>2, <1>3 DEF DiskInv, Stored
<1>4. CASE ~UNCHANGED <<object, flushed>>
  <2>1. /\ held[i] /\ flushed' = [flushed EXCEPT ![i] = Version(doc[i])]
        /\ object' = [gen |-> lastGen + 1, text |-> doc[i], by |-> <<i, epoch[i]>>]
    BY <1>4 DEF Flush, FlushBlocking
  <2>2. object' # None /\ object'.text = doc[i]
    <3>1. object' \in Object
      BY <2>1 DEF DiskInv, TypeOK, Object
    <3> QED
      BY <2>1, <3>1, NoneAssumption
  <2>3. flushed'[i] = Version(doc[i]) /\ doc[i] \in Text
    BY <2>1 DEF DiskInv, TypeOK
  <2>4. Stored(i)'
    BY <1>2, <2>2, <2>3, PrefixSelf DEF Stored
  <2>5. created /\ up[i]
    BY <2>1 DEF DiskInv
  <2> QED
    BY <1>1, <1>2, <2>4, <2>5 DEF DiskInv
<1> QED
  BY <1>3, <1>4

LEMMA DiskInductive ==
    ASSUME Blocking, \A j \in Instance : \A l \in Instance : j = l, DiskInv, [Next]_vars
    PROVE  DiskInv'
<1>1. TypeOK'
  BY TypeInductive DEF DiskInv
<1>2. ASSUME NEW i \in Instance, Create(i)
      PROVE  DiskInv'
  BY <1>1, <1>2 DEF Create, DiskInv, Stored, TypeOK
<1>3. ASSUME NEW i \in Instance, NEW minted \in BOOLEAN, Accept(i, minted)
      PROVE  DiskInv'
  <2> DEFINE change == [id |-> accepted + 1, minted |-> minted]
  <2>1. change \in Change
    BY DEF DiskInv, TypeOK, Change
  <2>2. /\ UNCHANGED <<object, adrift, up, held, flushed, calls, deleting, created>>
        /\ held[i] /\ up[i] /\ doc'[i] = Append(doc[i], change)
    BY <1>3 DEF Accept, DiskInv, TypeOK
  <2> HIDE DEF change
  <2>3. object # None /\ IsPrefix(object.text, doc[i]) => IsPrefix(object.text, doc'[i])
    BY <2>1, <2>2, PrefixAppend DEF DiskInv, TypeOK, Object
  <2>4. created /\ Stored(i)'
    BY <2>2, <2>3 DEF DiskInv, Stored
  <2> QED
    BY <1>1, <2>2, <2>4 DEF DiskInv
<1>4. ASSUME NEW i \in Instance, TimerFires(i) \/ FlushNow(i)
      PROVE  DiskInv'
  <2>1. timer[i] \in BOOLEAN
    BY DEF DiskInv, TypeOK
  <2> QED
    BY <1>4, <2>1, DiskFlush DEF TimerFires, FlushNow
<1>5. ASSUME NEW i \in Instance, NEW k \in DOMAIN calls[i]
      PROVE  FALSE
  BY <1>5 DEF DiskInv
<1>6. ASSUME NEW i \in Instance,
             RemoveDiagram(i) \/ DeleteLands(i) \/ DeleteAnswers(i) \/ DeleteFails(i)
      PROVE  DiskInv'
  <2>1. /\ UNCHANGED <<adrift, up, doc, flushed, calls, created>>
        /\ \A j \in Instance : held'[j] => held[j]
        /\ object' = object \/ object' = None
    BY <1>6 DEF RemoveDiagram, DeleteLands, DeleteAnswers, DeleteFails, memory, counts, DiskInv, TypeOK
  <2>2. created /\ up[i] /\ ~held'[i]
    BY <1>6 DEF RemoveDiagram, DeleteLands, DeleteAnswers, DeleteFails, memory, DiskInv, TypeOK
  <2> QED
    BY <1>1, <2>1, <2>2 DEF DiskInv
<1>7. ASSUME NEW i \in Instance, Crash(i)
      PROVE  DiskInv'
  BY <1>1, <1>7 DEF Crash, DiskInv, TypeOK
<1>8. ASSUME NEW i \in Instance, Boot(i)
      PROVE  DiskInv'
  <2>1. UNCHANGED <<object, adrift, calls, deleting, created>> /\ up'[i] /\ deleting[i] = 0 /\ ~held[i]
    BY <1>8 DEF Boot, counts, DiskInv, TypeOK
  <2>2. CASE object = None
    BY <1>1, <1>8, <2>1, <2>2 DEF Boot, DiskInv
  <2>3. CASE object # None
    <3>1. doc'[i] = object.text /\ flushed'[i] = Version(object.text) /\ object.text \in Text
      BY <1>8, <2>3 DEF Boot, DiskInv, TypeOK, Object
    <3>2. Stored(i)' /\ created
      BY <2>1, <2>3, <3>1, PrefixSelf DEF Stored, DiskInv
    <3> QED
      BY <1>1, <2>1, <3>2 DEF DiskInv
  <2> QED
    BY <2>2, <2>3
<1>9. ASSUME NEW request \in adrift
      PROVE  FALSE
  BY DEF DiskInv
<1>10. ASSUME UNCHANGED vars
       PROVE  DiskInv'
  BY <1>1, <1>10 DEF vars, memory, DiskInv, Stored, counts
<1> QED
  BY <1>2, <1>3, <1>4, <1>5, <1>6, <1>7, <1>8, <1>9, <1>10 DEF Next, Commit, Setting

LEMMA DiskInit == Init => DiskInv
BY TypeInit DEF Init, DiskInv

\* On a disk, served by one process, every change minted at or below
\* the durableVersion clients are told would survive a crash now, whatever failed.
THEOREM WatermarkIsHonest ==
    ASSUME Blocking, \A i \in Instance : \A j \in Instance : i = j
    PROVE  Spec => []WatermarkHonest
<1>1. DiskInv /\ [Next]_vars => DiskInv'
  BY DiskInductive
<1> QED
  BY <1>1, DiskInit, DiskIsHonest, PTL DEF Spec
=============================================================================

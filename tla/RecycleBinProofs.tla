-------------------------- MODULE RecycleBinProofs --------------------------
(***************************************************************************)
(* What RecycleBin promises of deleted diagrams, proved for any number of  *)
(* diagrams, sessions, removals, restorations, failures and restarts.      *)
(***************************************************************************)
EXTENDS RecycleBin, TLAPS, WellFoundedInduction

-----------------------------------------------------------------------------
(* Generations of a deleted diagram                                         *)

LEMMA LeastExists ==
    ASSUME NEW S, S \subseteq Nat, S # {}
    PROVE  \E m \in S : \A k \in S : m <= k
<1>1. PICK m \in S : \A y \in S : ~ (<<y, m>> \in OpToRel(<, Nat))
  BY NatLessThanWellFounded, WFMin, Zenon
<1>2. ASSUME NEW k \in S
      PROVE  m <= k
  <2>1. <<k, m>> \notin OpToRel(<, Nat)
    BY <1>1
  <2>2. ~(k < m)
    BY <2>1 DEF OpToRel
  <2> QED
    BY <2>2
<1> QED
  BY <1>2

\* Generations only grow: what is live in the bucket is later than what is in
\* the window, and no two soft-deleted objects of a diagram share one.
Generations ==
    /\ \A d \in deleted : d.gen <= lastGen
    /\ \A id \in Id : object[id] # None =>
            object[id].gen <= lastGen /\ \A d \in InWindow(id) : d.gen < object[id].gen
    /\ \A d, e \in deleted : d.id = e.id /\ d.gen = e.gen => d = e

\* A diagram in the window has a newest generation there.
LEMMA NewestInWindow ==
    ASSUME TypeOK, Generations, NEW id, InWindow(id) # {}
    PROVE  /\ Newest(id) \in InWindow(id)
           /\ \A e \in InWindow(id) : e.gen <= Newest(id).gen
<1> DEFINE Ages == {lastGen - d.gen : d \in InWindow(id)}
<1>1. \A d \in InWindow(id) : d.gen \in Nat /\ lastGen - d.gen \in Nat
  BY DEF TypeOK, Generations, InWindow, Deleted
<1>2. PICK a \in Ages : \A b \in Ages : a <= b
  <2>1. Ages \subseteq Nat /\ Ages # {}
    BY <1>1
  <2> HIDE DEF Ages
  <2> QED
    BY <2>1, LeastExists
<1>3. PICK d \in InWindow(id) : a = lastGen - d.gen
  BY <1>2
<1>4. \A e \in InWindow(id) : e.gen <= d.gen
  <2> SUFFICES ASSUME NEW e \in InWindow(id) PROVE e.gen <= d.gen
    OBVIOUS
  <2>1. lastGen - d.gen <= lastGen - e.gen
    BY <1>2, <1>3
  <2>2. lastGen \in Nat
    BY DEF TypeOK
  <2> QED
    BY <1>1, <2>1, <2>2
<1> QED
  BY <1>3, <1>4 DEF Newest

\* Whichever generation is as late as any other is the newest.
LEMMA NewestIs ==
    ASSUME TypeOK, Generations, NEW id, NEW d \in InWindow(id),
           \A e \in InWindow(id) : e.gen <= d.gen
    PROVE  Newest(id) = d
<1>1. Newest(id) \in InWindow(id) /\ d.gen <= Newest(id).gen
  BY NewestInWindow
<1>2. Newest(id).gen <= d.gen /\ d.gen \in Nat /\ Newest(id).gen \in Nat
  BY <1>1 DEF TypeOK, InWindow, Deleted
<1>3. Newest(id).gen = d.gen
  BY <1>1, <1>2
<1> QED
  BY <1>1, <1>3 DEF Generations, InWindow

-----------------------------------------------------------------------------
(* Types                                                                    *)

\* What a flush does to the entry it was called for keeps it an entry.
LEMMA ReturnedType ==
    ASSUME TypeOK, NEW id \in Id, NEW dirty \in BOOLEAN, NEW timer \in BOOLEAN
    PROVE  Returned(id, dirty, timer) \in [Id -> Entry \cup {None}]
<1>1. CASE id \in Here /\ diagrams[id].born = writing[id].born
  <2>1. diagrams[id] \in Entry
    BY <1>1 DEF TypeOK, Here
  <2> QED
    BY <1>1, <2>1 DEF TypeOK, Returned, Entry
<1> QED
  BY <1>1 DEF TypeOK, Returned

LEMMA TypesKept ==
    ASSUME TypeOK, Generations, [Next]_vars
    PROVE  TypeOK'
<1> USE BinAssumption DEF TypeOK, counts, history, bucket
<1>1. ASSUME NEW p \in Principal, Create(p)
      PROVE  TypeOK'
  BY <1>1 DEF Create, Seeds, Fresh, Entry, Doc
<1>2. ASSUME NEW s \in Session, NEW id \in Id, Open(s, id)
      PROVE  TypeOK'
  BY <1>2 DEF Open
<1>3. ASSUME NEW id \in Id, Edit(id)
      PROVE  TypeOK'
  <2>1. diagrams[id] \in Entry /\ edits + 1 \in 1 .. MaxEdits
    BY <1>3 DEF Edit, Here
  <2>2. diagrams' \in [Id -> Entry \cup {None}]
    BY <1>3, <2>1 DEF Edit, Entry, Doc
  <2> QED
    BY <1>3, <2>2 DEF Edit
<1>4. ASSUME NEW id \in Id, Flush(id)
      PROVE  TypeOK'
  <2>1. diagrams[id] \in Entry
    BY <1>4 DEF Flush, Here
  <2>2. diagrams' \in [Id -> Entry \cup {None}]
    BY <1>4, <2>1 DEF Flush, Entry
  <2>3. writing' \in [Id -> Write \cup {None}]
    BY <1>4, <2>1 DEF Flush, Entry, Write
  <2> QED
    BY <1>4, <2>2, <2>3 DEF Flush
<1>5. ASSUME NEW id \in Id, WriteLands(id)
      PROVE  TypeOK'
  <2>1. diagrams' \in [Id -> Entry \cup {None}]
    BY <1>5, ReturnedType DEF WriteLands
  <2>2. writing[id] \in Write
    BY <1>5 DEF WriteLands
  <2>3. object' \in [Id -> Object \cup {None}] /\ stored' \in [Id -> Doc \cup {None}]
    BY <1>5, <2>2 DEF WriteLands, Write, Object
  <2>4. lastGen' \in Nat /\ known' \in [Id -> Nat] /\ writing' \in [Id -> Write \cup {None}]
    BY <1>5 DEF WriteLands
  <2> QED
    BY <1>5, <2>1, <2>3, <2>4 DEF WriteLands
<1>6. ASSUME NEW id \in Id, WriteConflicts(id)
      PROVE  TypeOK'
  BY <1>6 DEF WriteConflicts
<1>7. ASSUME NEW id \in Id, WriteFails(id)
      PROVE  TypeOK'
  <2>1. diagrams' \in [Id -> Entry \cup {None}]
    BY <1>7, ReturnedType DEF WriteFails
  <2>2. writing' \in [Id -> Write \cup {None}]
    BY <1>7 DEF WriteFails
  <2>3. faults' \in Nat
    BY <1>7 DEF WriteFails, Fault
  <2>4. UNCHANGED <<templates, owner, lost, object, deleted, lastGen, known, removing, restoring,
                    seat, installs, edits, removals, restores, restarts, history>>
    BY <1>7 DEF WriteFails
  <2> QED
    BY <2>1, <2>2, <2>3, <2>4
<1>8. ASSUME NEW id \in Id, NEW by \in Session \cup {None}, RemoveAsked(id, by)
      PROVE  TypeOK'
  BY <1>8 DEF RemoveAsked, Removal
<1>9. ASSUME NEW r \in removing, RemoveTags(r)
      PROVE  TypeOK'
  BY <1>9 DEF RemoveTags, Removal, Object, Fault
<1>10. ASSUME NEW r \in removing, RemoveDeletes(r)
      PROVE  TypeOK'
  <2>1. r \in Removal /\ r.id \in Id
    BY DEF Removal
  <2>2. deleted' \subseteq Deleted
    BY <1>10, <2>1 DEF RemoveDeletes, SoftDelete, Deleted, Object
  <2>3. removing' \subseteq Removal
    <3>1. [r EXCEPT !.stage = "tag", !.left = 1] \in Removal
      BY <2>1 DEF Removal
    <3> QED
      BY <1>10, <3>1 DEF RemoveDeletes
  <2>4. /\ diagrams' \in [Id -> Entry \cup {None}] /\ owner' \in [Id -> Principal \cup {None}]
        /\ installs' \in Nat
    <3>1. CASE UNCHANGED <<diagrams, owner, installs>>
      BY <3>1
    <3>2. CASE Seeds(diagrams, owner[r.id]) /\ installs' = installs + 1
      BY <2>1, <3>2 DEF Seeds, Fresh, Entry, Doc
    <3> QED
      BY <1>10, <3>1, <3>2 DEF RemoveDeletes
  <2>5. seat' \in [Session -> Id \cup {None, Template}]
    BY <1>10 DEF RemoveDeletes
  <2>6. /\ object' \in [Id -> Object \cup {None}] /\ known' \in [Id -> Nat]
        /\ crossed' \subseteq Id
    BY <1>10, <2>1 DEF RemoveDeletes
  <2> QED
    BY <1>10, <2>2, <2>3, <2>4, <2>5, <2>6 DEF RemoveDeletes, Fault
<1>11. ASSUME NEW id \in Id, NEW p \in Principal, RestoreAsked(id, p)
      PROVE  TypeOK'
  BY <1>11 DEF RestoreAsked, Restore
<1>12. ASSUME NEW r \in restoring, RestoreLists(r)
      PROVE  TypeOK'
  <2>1. r.id \in Recoverable(r.by) => Newest(r.id).gen \in Nat
    BY NewestInWindow DEF Recoverable, InWindow, Deleted
  <2>2. restoring' \subseteq Restore /\ raced' \subseteq Id
    <3>1. r \in Restore /\ r.id \in Id
      BY DEF Restore
    <3>2. ASSUME NEW g \in Nat
          PROVE  [r EXCEPT !.stage = "restore", !.gen = g] \in Restore
      BY <3>1 DEF Restore
    <3> QED
      BY <1>12, <2>1, <3>1, <3>2 DEF RestoreLists
  <2> QED
    BY <1>12, <2>2 DEF RestoreLists
<1>13. ASSUME NEW r \in restoring, RestoreLands(r)
      PROVE  TypeOK'
  BY <1>13 DEF RestoreLands, Restore, Object, Deleted, SoftDelete
<1>14. ASSUME NEW r \in restoring, RestoreFails(r)
      PROVE  TypeOK'
  BY <1>14 DEF RestoreFails, Restore, Fault
<1>15. ASSUME NEW r \in restoring, RestoreInstalls(r)
      PROVE  TypeOK'
  <2>1. r.id \in Id /\ restoring' \subseteq Restore
    BY <1>15 DEF RestoreInstalls, Restore
  <2>2. CASE object[r.id] = None
    BY <1>15, <2>1, <2>2 DEF RestoreInstalls
  <2>3. CASE object[r.id] # None
    <3>1. object[r.id] \in Object
      BY <2>1, <2>3
    <3>2. Fresh(object[r.id].doc, FALSE, installs + 1) \in Entry /\ object[r.id].gen \in Nat
      BY <3>1 DEF Fresh, Entry, Object
    <3>3. diagrams' \in [Id -> Entry \cup {None}]
      <4>1. diagrams' = [diagrams EXCEPT ![r.id] = Fresh(object[r.id].doc, FALSE, installs + 1)]
        BY <1>15, <2>3 DEF RestoreInstalls
      <4> QED
        BY <3>2, <4>1
    <3>4. known' \in [Id -> Nat] /\ installs' \in Nat
      BY <1>15, <2>1, <2>3, <3>2 DEF RestoreInstalls
    <3> QED
      BY <1>15, <2>1, <3>3, <3>4 DEF RestoreInstalls
  <2> QED
    BY <2>2, <2>3
<1>16. ASSUME Restart
      PROVE  TypeOK'
  <2> DEFINE loaded == [id \in Id |-> IF object[id] = None THEN None
                                      ELSE Fresh(object[id].doc, FALSE, installs + 1)]
  <2>1. loaded \in [Id -> Entry \cup {None}]
    BY DEF Fresh, Entry, Object
  <2>2. diagrams' \in [Id -> Entry \cup {None}] /\ owner' \in [Id -> Principal \cup {None}]
    <3>1. CASE diagrams' = loaded /\ UNCHANGED owner
      BY <2>1, <3>1
    <3>2. CASE \E p \in Principal : Seeds(loaded, p)
      <4> HIDE DEF loaded
      <4> QED
        BY <2>1, <3>2 DEF Seeds, Fresh, Entry, Doc
    <3> QED
      BY <1>16, <3>1, <3>2 DEF Restart
  <2>3. known' \in [Id -> Nat]
    BY <1>16 DEF Restart, LiveGen, Object
  <2> QED
    BY <1>16, <2>2, <2>3 DEF Restart
<1>17. CASE UNCHANGED vars
  BY <1>17 DEF vars
<1> QED
  BY <1>1, <1>2, <1>3, <1>4, <1>5, <1>6, <1>7, <1>8, <1>9, <1>10, <1>11, <1>12, <1>13, <1>14,
     <1>15, <1>16, <1>17 DEF Next

-----------------------------------------------------------------------------
(* What each action does to the set of diagrams served, and to their owners *)

\* Ids nobody has used: nothing anywhere is about them.
Unused ==
    \A id \in Id \ Minted :
        /\ id \notin Here /\ object[id] = None /\ stored[id] = None /\ writing[id] = None
        /\ \A r \in removing \cup restoring \cup deleted : r.id # id

\* The ids served are those served before, and perhaps one never used.
OneMore(here) == here \subseteq Here' /\ Here' \ here \subseteq Id \ Minted

\* An id keeps the owner it was minted with.
OwnersKept == \A id \in Minted : id \in Minted' /\ owner'[id] = owner[id]

LEMMA SeedsOneMore ==
    ASSUME TypeOK, NEW p \in Principal, NEW ds \in [Id -> Entry \cup {None}], Seeds(ds, p)
    PROVE  /\ OneMore({id \in Id : ds[id] # None}) /\ OwnersKept
           /\ \A id \in Id : owner'[id] = None => diagrams'[id] = ds[id] /\ owner[id] = None
<1>1. PICK new \in Id \ Minted :
        /\ diagrams' = [ds EXCEPT ![new] = Fresh({}, TRUE, installs + 1)]
        /\ owner' = [owner EXCEPT ![new] = p]
  BY DEF Seeds
<1>2. Fresh({}, TRUE, installs + 1) # None
  <2>1. Fresh({}, TRUE, installs + 1) \in Entry
    BY DEF Fresh, Entry, Doc, TypeOK
  <2> QED
    BY <2>1, BinAssumption
<1>3. p # None
  BY BinAssumption
<1> QED
  BY <1>1, <1>2, <1>3 DEF TypeOK, OneMore, OwnersKept, Here, Minted

LEMMA CreateHere ==
    ASSUME TypeOK, NEW p \in Principal, Create(p)
    PROVE  /\ OneMore(Here) /\ OwnersKept
           /\ \A id \in Id : owner'[id] = None => diagrams'[id] = diagrams[id] /\ owner[id] = None
<1>1. Here = {id \in Id : diagrams[id] # None}
  BY DEF Here
<1> QED
  BY <1>1, SeedsOneMore DEF Create, TypeOK

LEMMA ReturnedHere ==
    ASSUME TypeOK, NEW id \in Id, NEW dirty \in BOOLEAN, NEW timer \in BOOLEAN,
           diagrams' = Returned(id, dirty, timer)
    PROVE  Here' = Here
<1>1. CASE id \in Here /\ diagrams[id].born = writing[id].born
  <2>1. diagrams[id] \in Entry
    BY <1>1 DEF TypeOK, Here
  <2>2. [[diagrams[id] EXCEPT !.dirty = dirty] EXCEPT !.timer = @ \/ timer] \in Entry
    BY <2>1 DEF Entry
  <2>3. diagrams' = [diagrams EXCEPT ![id] =
                        [[diagrams[id] EXCEPT !.dirty = dirty] EXCEPT !.timer = @ \/ timer]]
    BY <1>1, <2>1 DEF Returned, TypeOK, Entry
  <2> QED
    BY <1>1, <2>2, <2>3, BinAssumption DEF TypeOK, Here
<1> QED
  BY <1>1 DEF Returned, Here

LEMMA EditHere ==
    ASSUME TypeOK, NEW id \in Id, Edit(id)
    PROVE  Here' = Here
<1>1. diagrams[id] \in Entry /\ id \in Here
  BY DEF TypeOK, Here, Edit
<1>2. diagrams[id].doc \cup {edits + 1} \in Doc
  BY <1>1, BinAssumption DEF Entry, Doc, Edit, TypeOK
<1> DEFINE e == [[[diagrams[id] EXCEPT !.doc = @ \cup {edits + 1}] EXCEPT !.dirty = TRUE]
                    EXCEPT !.timer = TRUE]
<1>3. e \in Entry
  BY <1>1, <1>2 DEF Entry
<1>4. diagrams' = [diagrams EXCEPT ![id] = e]
  BY <1>1 DEF Edit, TypeOK, Entry
<1> HIDE DEF e
<1> QED
  BY <1>1, <1>3, <1>4, BinAssumption DEF TypeOK, Here

LEMMA FlushHere ==
    ASSUME TypeOK, NEW id \in Id, Flush(id)
    PROVE  Here' = Here
<1>1. diagrams[id] \in Entry /\ id \in Here
  BY DEF TypeOK, Here, Flush
<1>2. [diagrams[id] EXCEPT !.timer = FALSE] \in Entry
  BY <1>1 DEF Entry
<1>3. diagrams' = [diagrams EXCEPT ![id] = [diagrams[id] EXCEPT !.timer = FALSE]]
  BY DEF Flush
<1> QED
  BY <1>1, <1>2, <1>3, BinAssumption DEF TypeOK, Here

LEMMA RemoveAskedHere ==
    ASSUME TypeOK, NEW id \in Id, NEW by, RemoveAsked(id, by)
    PROVE  Here' = Here \ {id}
BY DEF RemoveAsked, Here, TypeOK

LEMMA RemoveDeletesHere ==
    ASSUME TypeOK, Unused, NEW r \in removing, RemoveDeletes(r)
    PROVE  /\ OneMore(Here) /\ OwnersKept
           /\ \A id \in Id : owner'[id] = None => diagrams'[id] = diagrams[id] /\ owner[id] = None
<1>1. Here = {id \in Id : diagrams[id] # None}
  BY DEF Here
<1>2. owner[r.id] \in Principal /\ diagrams \in [Id -> Entry \cup {None}]
  BY DEF TypeOK, Unused, Minted, Removal
<1>3. CASE Seeds(diagrams, owner[r.id])
  BY <1>1, <1>2, <1>3, SeedsOneMore
<1>4. CASE UNCHANGED <<diagrams, owner>>
  BY <1>4 DEF OneMore, OwnersKept, Here, Minted
<1> QED
  BY <1>3, <1>4 DEF RemoveDeletes

LEMMA RestoreInstallsHere ==
    ASSUME TypeOK, NEW r \in restoring, RestoreInstalls(r)
    PROVE  Here' = IF object[r.id] = None THEN Here ELSE Here \cup {r.id}
<1>1. r.id \in Id
  BY DEF TypeOK, Restore
<1>2. CASE object[r.id] = None
  BY <1>2 DEF RestoreInstalls, Here
<1>3. CASE object[r.id] # None
  <2>1. diagrams' = [diagrams EXCEPT ![r.id] = Fresh(object[r.id].doc, FALSE, installs + 1)]
    BY <1>3 DEF RestoreInstalls
  <2>2. Fresh(object[r.id].doc, FALSE, installs + 1) \in Entry
    BY <1>1, <1>3 DEF TypeOK, Fresh, Entry, Object
  <2> DEFINE e == Fresh(object[r.id].doc, FALSE, installs + 1)
  <2>3. e # None
    BY <2>2, BinAssumption
  <2> HIDE DEF e
  <2>4. Here' = Here \cup {r.id}
    <3>1. diagrams' = [diagrams EXCEPT ![r.id] = e]
      BY <2>1 DEF e
    <3> QED
      BY <1>1, <2>3, <3>1 DEF TypeOK, Here
  <2> QED
    BY <1>3, <2>4
<1> QED
  BY <1>2, <1>3

LEMMA RestartHere ==
    ASSUME TypeOK, Restart
    PROVE  /\ OneMore({id \in Id : object[id] # None}) /\ OwnersKept
           /\ \A id \in Id : owner'[id] = None => 
                owner[id] = None /\ (object[id] = None => diagrams'[id] = None)
<1> DEFINE loaded == [id \in Id |-> IF object[id] = None THEN None
                                    ELSE Fresh(object[id].doc, FALSE, installs + 1)]
<1>1. ASSUME NEW id \in Id, object[id] # None
      PROVE  Fresh(object[id].doc, FALSE, installs + 1) \in Entry
  BY <1>1 DEF TypeOK, Fresh, Entry, Object
<1>2. loaded \in [Id -> Entry \cup {None}]
  BY <1>1
<1>3. {id \in Id : loaded[id] # None} = {id \in Id : object[id] # None}
  BY <1>1, BinAssumption
<1>4. \A id \in Id : object[id] = None => loaded[id] = None
  OBVIOUS
<1>5. CASE \E p \in Principal : Seeds(loaded, p)
  <2> HIDE DEF loaded
  <2> QED
    BY <1>2, <1>3, <1>4, <1>5, SeedsOneMore
<1>6. CASE diagrams' = loaded /\ UNCHANGED owner
  <2>1. Here' = {id \in Id : loaded[id] # None}
    BY <1>6 DEF Here
  <2> HIDE DEF loaded
  <2> QED
    BY <1>3, <1>4, <1>6, <2>1 DEF OneMore, OwnersKept, Minted
<1> QED
  BY <1>5, <1>6 DEF Restart

-----------------------------------------------------------------------------
(* How far each call has come                                               *)

LEMMA RemoveAskedStage ==
    ASSUME NEW id, NEW by, RemoveAsked(id, by)
    PROVE  /\ removing \subseteq removing' /\ \E q \in removing' : q.id = id
           /\ \A q \in removing' : q \in removing \/ (q.id = id /\ q.stage = "tag")
<1> DEFINE new == [id |-> id, stage |-> "tag", left |-> 2, by |-> by, n |-> removals]
<1>1. removing' = removing \cup {new}
  BY DEF RemoveAsked
<1>2. new.id = id /\ new.stage = "tag"
  OBVIOUS
<1> QED
  BY <1>1, <1>2

LEMMA RemoveTagsStage ==
    ASSUME TypeOK, NEW r \in removing, RemoveTags(r)
    PROVE  /\ \A q \in removing : \E p \in removing' : p.id = q.id
           /\ \A q \in removing' : q \in removing \/ q.id = r.id
<1> DEFINE next == [r EXCEPT !.stage = "delete"]
<1>1. removing' = (removing \ {r}) \cup {next}
  BY DEF RemoveTags
<1>2. next.id = r.id
  BY DEF TypeOK, Removal
<1> QED
  BY <1>1, <1>2

LEMMA RemoveDeletesStage ==
    ASSUME TypeOK, NEW r \in removing, RemoveDeletes(r)
    PROVE  /\ \A q \in removing' : q \in removing \/ (q.id = r.id /\ q.stage = "tag")
           /\ \A q \in removing : q = r \/ q \in removing'
<1> DEFINE next == [[r EXCEPT !.stage = "tag"] EXCEPT !.left = 1]
<1>1. removing' = removing \ {r} \/ removing' = (removing \ {r}) \cup {next}
  BY DEF RemoveDeletes, TypeOK, Removal
<1>2. next.id = r.id /\ next.stage = "tag"
  BY DEF TypeOK, Removal
<1> QED
  BY <1>1, <1>2

LEMMA RestoreAskedStage ==
    ASSUME NEW id, NEW p, RestoreAsked(id, p)
    PROVE  /\ restoring \subseteq restoring'
           /\ \A q \in restoring' : q \in restoring \/ (q.id = id /\ q.stage = "list")
<1> DEFINE new == [id |-> id, by |-> p, stage |-> "list", gen |-> 0, n |-> restores]
<1>1. restoring' = restoring \cup {new}
  BY DEF RestoreAsked
<1>2. new.id = id /\ new.stage = "list"
  OBVIOUS
<1> QED
  BY <1>1, <1>2

LEMMA RestoreListsStage ==
    ASSUME TypeOK, NEW r \in restoring, RestoreLists(r)
    PROVE  /\ \A q \in restoring : q = r \/ q \in restoring'
           /\ \A q \in restoring' :
                \/ q \in restoring /\ q # r
                \/ /\ q.id = r.id /\ q.stage = "restore" /\ r.id \in Recoverable(r.by)
                   /\ q.gen = Newest(r.id).gen
                   /\ q = [[r EXCEPT !.stage = "restore"] EXCEPT !.gen = Newest(r.id).gen]
<1> DEFINE next == [[r EXCEPT !.stage = "restore"] EXCEPT !.gen = Newest(r.id).gen]
<1>1. restoring' = (restoring \ {r}) \cup (IF r.id \in Recoverable(r.by) THEN {next} ELSE {})
  BY DEF RestoreLists, TypeOK, Restore
<1>2. next.id = r.id /\ next.stage = "restore" /\ next.gen = Newest(r.id).gen
  BY DEF TypeOK, Restore
<1> QED
  BY <1>1, <1>2

LEMMA RestoreLandsStage ==
    ASSUME TypeOK, NEW r \in restoring, RestoreLands(r)
    PROVE  /\ \A q \in restoring : q = r \/ q \in restoring'
           /\ \E q \in restoring' : q.id = r.id /\ q.stage = "read"
           /\ \A q \in restoring' :
                \/ q \in restoring /\ q # r
                \/ q.id = r.id /\ q.stage = "read" /\ q = [r EXCEPT !.stage = "read"]
<1> DEFINE next == [r EXCEPT !.stage = "read"]
<1>1. restoring' = (restoring \ {r}) \cup {next}
  BY DEF RestoreLands
<1>2. next.id = r.id /\ next.stage = "read"
  BY DEF TypeOK, Restore
<1> QED
  BY <1>1, <1>2

-----------------------------------------------------------------------------
(* The invariant: what a removal and a restoration find as they left it      *)

\* A restoration past its listing has found its diagram absent; it still is, and
\* no other restoration of it is that far, unless two had found it absent at once.
FoundAbsent ==
    \A r \in restoring : r.stage # "list" /\ r.id \notin raced =>
        /\ r.id \notin Here
        /\ \A q \in restoring : q.id = r.id /\ q.stage # "list" => q = r

\* A removal that met nothing is alone with its diagram.
RemovedAlone ==
    \A r \in removing : r.id \notin crossed =>
        r.id \notin Here /\ \A q \in restoring : q.id # r.id

\* Only what is served is being written.
WrittenHere == \A id \in Id \ (Here \cup crossed) : writing[id] = None

\* A live object is of a diagram served, on its way out, or on its way in.
Going ==
    \A id \in Id \ (Here \cup crossed) : object[id] # None =>
        \/ \E r \in removing : r.id = id
        \/ \E r \in restoring : r.id = id /\ r.stage = "read"

\* Between the PATCH and the DELETE the live object bears its owner's tag.
Tagged ==
    \A r \in removing : r.stage = "delete" /\ r.id \notin crossed \cup untagged =>
        object[r.id] = None \/ object[r.id].tag = owner[r.id]

\* The last document written is the live one, or the newest in the window.
InWindowAsStored(id, d) ==
    /\ d.doc = stored[id] /\ (id \notin untagged => d.tag = owner[id])
    /\ \A e \in InWindow(id) : e.gen <= d.gen
LastKept ==
    \A id \in Id :
        /\ object[id] # None \/ InWindow(id) # {} => stored[id] # None
        /\ id \notin crossed \cup raced =>
            /\ object[id] # None => object[id].doc = stored[id]
            /\ object[id] = None /\ stored[id] # None =>
                    \E d \in InWindow(id) : InWindowAsStored(id, d)

\* The generation a restoration has chosen is still the newest.
Chosen ==
    \A r \in restoring : r.stage = "restore" /\ r.id \notin crossed \cup raced =>
        object[r.id] = None /\ \A e \in InWindow(r.id) : e.gen <= r.gen

Inv ==
    /\ TypeOK /\ Generations /\ Unused /\ FoundAbsent /\ RemovedAlone
    /\ WrittenHere /\ Going /\ Tagged /\ LastKept /\ Chosen

-----------------------------------------------------------------------------
(* Each part of it kept by every action                                     *)

LEMMA GenerationsKept ==
    ASSUME Inv, [Next]_vars
    PROVE  Generations'
<1> USE DEF Inv
<1>0. ASSUME UNCHANGED <<object, deleted, lastGen>>
      PROVE  Generations'
  BY <1>0 DEF Generations, InWindow
<1>1. ASSUME NEW id \in Id, WriteLands(id)
      PROVE  Generations'
  <2>1. object' = [object EXCEPT ![id] = [gen |-> lastGen + 1, doc |-> writing[id].doc, tag |-> None]]
        /\ deleted' = deleted /\ lastGen' = lastGen + 1
    BY <1>1 DEF WriteLands
  <2>2. \A d \in deleted : d.gen \in Nat /\ d.gen <= lastGen /\ lastGen \in Nat
    BY DEF TypeOK, Deleted, Generations
  <2> QED
    BY <2>1, <2>2 DEF TypeOK, Object, Generations, InWindow
<1>2. ASSUME NEW r \in removing, RemoveTags(r)
      PROVE  Generations'
  <2>1. deleted' = deleted /\ lastGen' = lastGen
    BY <1>2 DEF RemoveTags
  <2>2. \A id \in Id : object'[id] # None => object[id] # None /\ object'[id].gen = object[id].gen
    BY <1>2, BinAssumption DEF RemoveTags, TypeOK, Removal, Object
  <2> QED
    BY <2>1, <2>2 DEF Generations, InWindow
<1>3. ASSUME NEW r \in removing, RemoveDeletes(r)
      PROVE  Generations'
  <2>1. CASE UNCHANGED <<object, deleted>>
    BY <1>0, <1>3, <2>1 DEF RemoveDeletes
  <2>2. CASE /\ deleted' = IF object[r.id] = None THEN deleted ELSE SoftDelete(r.id)
             /\ object' = [object EXCEPT ![r.id] = None]
    <3>1. lastGen' = lastGen /\ r.id \in Id
      BY <1>3 DEF RemoveDeletes, TypeOK, Removal
    <3> QED
      BY <2>2, <3>1 DEF TypeOK, Object, Deleted, Generations, InWindow, SoftDelete
  <2> QED
    BY <1>3, <2>1, <2>2 DEF RemoveDeletes
<1>4. ASSUME NEW r \in restoring, RestoreLands(r)
      PROVE  Generations'
  <2>1. r.id \in Id /\ lastGen \in Nat /\ lastGen' = lastGen + 1
    BY <1>4 DEF RestoreLands, TypeOK, Restore
  <2>2. deleted' = IF object[r.id] = None THEN deleted ELSE SoftDelete(r.id)
    BY <1>4 DEF RestoreLands
  <2>3. \A id \in Id : object'[id] = object[id] \/ (id = r.id /\ object'[id].gen = lastGen + 1)
    BY <1>4, <2>1 DEF RestoreLands, TypeOK
  <2>4. \A d \in deleted' : d.gen \in Nat /\ d.gen <= lastGen
    BY <2>1, <2>2 DEF TypeOK, Object, Deleted, Generations, SoftDelete
  <2>5. \A id \in Id : object'[id] # None => \A d \in deleted' : d.id = id => d.gen < object'[id].gen
    <3> SUFFICES ASSUME NEW id \in Id, object'[id] # None, NEW d \in deleted', d.id = id
                 PROVE  d.gen < object'[id].gen
      OBVIOUS
    <3>1. CASE id = r.id
      BY <1>4, <2>1, <2>4, <3>1 DEF RestoreLands, TypeOK
    <3>2. CASE id # r.id
      BY <2>1, <2>2, <2>3, <3>2 DEF SoftDelete, Generations, InWindow
    <3> QED
      BY <3>1, <3>2
  <2>6. \A d, e \in deleted' : d.id = e.id /\ d.gen = e.gen => d = e
    BY <2>1, <2>2 DEF TypeOK, Object, Deleted, Generations, InWindow, SoftDelete
  <2>7. \A id \in Id : object'[id] # None => object'[id].gen <= lastGen'
    BY <2>1, <2>3 DEF TypeOK, Object, Generations
  <2>8. \A d \in deleted' : d.gen <= lastGen'
    BY <2>1, <2>4
  <2> QED
    BY <2>5, <2>6, <2>7, <2>8 DEF Generations, InWindow
<1>5. UNCHANGED <<object, deleted, lastGen>>
      \/ (\E id \in Id : WriteLands(id))
      \/ (\E r \in removing : RemoveTags(r) \/ RemoveDeletes(r))
      \/ (\E r \in restoring : RestoreLands(r))
  BY DEF Next, vars, bucket, Create, Open, Edit, Flush, WriteConflicts, WriteFails, RemoveAsked,
         RestoreAsked, RestoreLists, RestoreFails, RestoreInstalls, Restart
<1> QED
  BY <1>0, <1>1, <1>2, <1>3, <1>4, <1>5

LEMMA UnusedKept ==
    ASSUME Inv, [Next]_vars
    PROVE  Unused'
<1> USE DEF Inv
<1> DEFINE Fine(id) ==
        /\ id \notin Here /\ object[id] = None /\ stored[id] = None /\ writing[id] = None
        /\ \A r \in removing \cup restoring \cup deleted : r.id # id
<1>0. SUFFICES ASSUME NEW x \in Id, owner'[x] = None
               PROVE  Fine(x)'
  BY DEF Unused, Minted
<1> HIDE DEF Fine
<1>a. owner[x] = None => Fine(x)
  BY DEF Unused, Minted, Fine
<1>b. ASSUME owner[x] = None, x \notin Here', object'[x] = object[x], stored'[x] = stored[x],
             writing'[x] = writing[x], deleted' = deleted,
             \A r \in removing' : r \in removing \/ r.id # x \/ \E q \in removing : q.id = r.id,
             \A r \in restoring' : r \in restoring \/ r.id # x \/ \E q \in restoring : q.id = r.id
      PROVE  Fine(x)'
  BY <1>a, <1>b DEF Fine
<1>1. ASSUME NEW p \in Principal, Create(p)
      PROVE  Fine(x)'
  <2>1. owner[x] = None /\ diagrams'[x] = diagrams[x]
    BY <1>0, <1>1, CreateHere
  <2>2. x \notin Here'
    BY <1>a, <2>1 DEF Here, Fine
  <2> QED
    BY <1>1, <1>b, <2>1, <2>2 DEF Create, bucket, history
<1>2. ASSUME NEW s \in Session, NEW id \in Id, Open(s, id)
      PROVE  Fine(x)'
  BY <1>0, <1>2, <1>a DEF Open, Fine, bucket, history, Here
<1>3. ASSUME NEW id \in Id, Edit(id)
      PROVE  Fine(x)'
  BY <1>0, <1>3, <1>a, EditHere DEF Edit, Fine, bucket, history
<1>4. ASSUME NEW id \in Id, Flush(id)
      PROVE  Fine(x)'
  BY <1>0, <1>4, <1>a, FlushHere DEF Flush, Fine, bucket, history, TypeOK
<1>5. ASSUME NEW id \in Id, WriteLands(id)
      PROVE  Fine(x)'
  <2>1. Here' = Here
    BY <1>5, ReturnedHere DEF WriteLands
  <2> QED
    BY <1>0, <1>5, <1>a, <2>1 DEF WriteLands, Fine, TypeOK
<1>6. ASSUME NEW id \in Id, WriteConflicts(id)
      PROVE  Fine(x)'
  BY <1>0, <1>6, <1>a DEF WriteConflicts, Fine, bucket, history, Here, TypeOK
<1>7. ASSUME NEW id \in Id, WriteFails(id)
      PROVE  Fine(x)'
  <2>1. Here' = Here
    BY <1>7, ReturnedHere DEF WriteFails
  <2> QED
    BY <1>0, <1>7, <1>a, <2>1 DEF WriteFails, Fine, bucket, history, TypeOK
<1>8. ASSUME NEW id \in Id, NEW by \in Session \cup {None}, RemoveAsked(id, by)
      PROVE  Fine(x)'
  <2>1. Here' = Here \ {id} /\ id \in Here
    BY <1>8, RemoveAskedHere DEF RemoveAsked
  <2>2. \A q \in removing' : q \in removing \/ q.id = id
    BY <1>8, RemoveAskedStage
  <2> QED
    BY <1>0, <1>8, <1>a, <2>1, <2>2 DEF RemoveAsked, Fine, bucket
<1>9. ASSUME NEW r \in removing, RemoveTags(r)
      PROVE  Fine(x)'
  <2>1. owner[x] = None /\ x # r.id /\ Here' = Here
    BY <1>0, <1>9, <1>a DEF RemoveTags, Fine, Here
  <2>2. object'[x] = object[x]
    BY <1>9, <2>1 DEF RemoveTags, TypeOK
  <2>3. \A q \in removing' : q \in removing \/ q.id = r.id
    BY <1>9, RemoveTagsStage
  <2> QED
    BY <1>9, <1>a, <1>b, <2>1, <2>2, <2>3 DEF RemoveTags, Fine
<1>10. ASSUME NEW r \in removing, RemoveDeletes(r)
      PROVE  Fine(x)'
  <2>1. owner[x] = None /\ diagrams'[x] = diagrams[x]
    BY <1>0, <1>10, RemoveDeletesHere
  <2>2. x \notin Here' /\ x # r.id
    BY <1>a, <2>1 DEF Here, Fine
  <2>3. object'[x] = object[x] /\ \A d \in deleted' : d \in deleted \/ d.id = r.id
    BY <1>10, <2>2 DEF RemoveDeletes, SoftDelete, TypeOK
  <2>4. \A q \in removing' : q \in removing \/ q.id = r.id
    BY <1>10, RemoveDeletesStage
  <2> QED
    BY <1>10, <1>a, <2>1, <2>2, <2>3, <2>4 DEF RemoveDeletes, Fine
<1>11. ASSUME NEW id \in Id, NEW p \in Principal, RestoreAsked(id, p)
      PROVE  Fine(x)'
  BY <1>0, <1>11, <1>a DEF RestoreAsked, Fine, bucket, Here, Minted
<1>12. ASSUME NEW r \in restoring, RestoreLists(r)
      PROVE  Fine(x)'
  <2>1. \A q \in restoring' : q \in restoring \/ q.id = r.id
    BY <1>12, RestoreListsStage
  <2> QED
    BY <1>0, <1>12, <1>a, <2>1 DEF RestoreLists, Fine, bucket, Here
<1>13. ASSUME NEW r \in restoring, RestoreLands(r)
      PROVE  Fine(x)'
  <2>1. \A q \in restoring' : q \in restoring \/ q.id = r.id
    BY <1>13, RestoreLandsStage
  <2>2. owner[x] = None /\ x # r.id /\ Here' = Here
    BY <1>0, <1>13, <1>a DEF RestoreLands, Fine, Here
  <2>3. object'[x] = object[x] /\ \A d \in deleted' : d \in deleted \/ d.id = r.id
    BY <1>13, <2>2 DEF RestoreLands, SoftDelete, TypeOK
  <2> QED
    BY <1>13, <1>a, <2>1, <2>2, <2>3 DEF RestoreLands, Fine, history
<1>14. ASSUME NEW r \in restoring, RestoreFails(r)
      PROVE  Fine(x)'
  BY <1>0, <1>14, <1>a DEF RestoreFails, Fine, bucket, Here
<1>15. ASSUME NEW r \in restoring, RestoreInstalls(r)
      PROVE  Fine(x)'
  BY <1>0, <1>15, <1>a, RestoreInstallsHere DEF RestoreInstalls, Fine, history
<1>16. ASSUME Restart
      PROVE  Fine(x)'
  <2>1. owner[x] = None /\ (object[x] = None => diagrams'[x] = None)
    BY <1>0, <1>16, RestartHere
  <2> QED
    BY <1>16, <1>a, <2>1 DEF Restart, Fine, Here, history
<1>17. CASE UNCHANGED vars
  BY <1>0, <1>17, <1>a DEF vars, Fine, bucket, history, Here
<1> QED
  BY <1>1, <1>2, <1>3, <1>4, <1>5, <1>6, <1>7, <1>8, <1>9, <1>10, <1>11, <1>12, <1>13, <1>14,
     <1>15, <1>16, <1>17 DEF Next

LEMMA FoundAbsentKept ==
    ASSUME Inv, [Next]_vars
    PROVE  FoundAbsent'
<1> USE DEF Inv
<1>a. \A r \in restoring : r.id \in Minted /\ r.id \in Id
  BY DEF Unused, TypeOK, Restore
<1>0. ASSUME UNCHANGED <<restoring, raced>>, \A x \in Minted : x \in Here' => x \in Here
      PROVE  FoundAbsent'
  BY <1>0, <1>a DEF FoundAbsent
<1>1. ASSUME NEW p \in Principal, Create(p)
      PROVE  FoundAbsent'
  BY <1>0, <1>1, CreateHere DEF Create, history, OneMore, Here
<1>2. ASSUME NEW id \in Id, Edit(id)
      PROVE  FoundAbsent'
  BY <1>0, <1>2, EditHere DEF Edit, history
<1>3. ASSUME NEW id \in Id, Flush(id)
      PROVE  FoundAbsent'
  BY <1>0, <1>3, FlushHere DEF Flush, history
<1>4. ASSUME NEW id \in Id, WriteLands(id)
      PROVE  FoundAbsent'
  BY <1>0, <1>4, ReturnedHere DEF WriteLands, history
<1>5. ASSUME NEW id \in Id, WriteFails(id)
      PROVE  FoundAbsent'
  BY <1>0, <1>5, ReturnedHere DEF WriteFails, history
<1>6. ASSUME NEW id \in Id, NEW by \in Session \cup {None}, RemoveAsked(id, by)
      PROVE  FoundAbsent'
  BY <1>0, <1>6, RemoveAskedHere DEF RemoveAsked
<1>7. ASSUME NEW r \in removing, RemoveDeletes(r)
      PROVE  FoundAbsent'
  BY <1>0, <1>7, RemoveDeletesHere DEF RemoveDeletes, OneMore, Here
<1>8. ASSUME NEW id \in Id, NEW p \in Principal, RestoreAsked(id, p)
      PROVE  FoundAbsent'
  <2>1. Here' = Here /\ raced' = raced
    BY <1>8 DEF RestoreAsked, Here
  <2> QED
    BY <1>8, <2>1, RestoreAskedStage DEF FoundAbsent
<1>9. ASSUME NEW r \in restoring, RestoreLists(r)
      PROVE  FoundAbsent'
  <2>1. Here' = Here
    BY <1>9 DEF RestoreLists, Here
  <2>2. raced \subseteq raced' /\ \A q \in restoring : q.id = r.id /\ q.stage # "list" => r.id \in raced'
    BY <1>9 DEF RestoreLists
  <2>3. r.id \in Recoverable(r.by) => r.id \notin Here
    BY DEF Recoverable
  <2> QED
    BY <1>9, <2>1, <2>2, <2>3, RestoreListsStage DEF FoundAbsent
<1>10. ASSUME NEW r \in restoring, RestoreLands(r)
      PROVE  FoundAbsent'
  <2>1. Here' = Here /\ raced' = raced /\ r.stage # "list"
    BY <1>10 DEF RestoreLands, Here, history
  <2> QED
    BY <1>10, <2>1, RestoreLandsStage DEF FoundAbsent
<1>11. ASSUME NEW r \in restoring, RestoreFails(r)
      PROVE  FoundAbsent'
  <2>1. Here' = Here /\ raced' = raced /\ restoring' \subseteq restoring
    BY <1>11 DEF RestoreFails, Here
  <2> QED
    BY <2>1 DEF FoundAbsent
<1>12. ASSUME NEW r \in restoring, RestoreInstalls(r)
      PROVE  FoundAbsent'
  <2>1. raced' = raced /\ restoring' = restoring \ {r} /\ r.stage # "list"
    BY <1>12 DEF RestoreInstalls, history
  <2>2. Here' \subseteq Here \cup {r.id}
    BY <1>12, RestoreInstallsHere
  <2> QED
    BY <2>1, <2>2 DEF FoundAbsent
<1>13. CASE Restart
  BY <1>13 DEF Restart, FoundAbsent
<1>14. CASE UNCHANGED <<diagrams, restoring, raced>>
  BY <1>14 DEF FoundAbsent, Here
<1>15. \/ UNCHANGED <<diagrams, restoring, raced>>
       \/ \E p \in Principal : Create(p)
       \/ \E id \in Id : Edit(id) \/ Flush(id) \/ WriteLands(id) \/ WriteFails(id)
       \/ \E id \in Id, by \in Session \cup {None} : RemoveAsked(id, by)
       \/ \E r \in removing : RemoveDeletes(r)
       \/ \E id \in Id, p \in Principal : RestoreAsked(id, p)
       \/ \E r \in restoring : RestoreLists(r) \/ RestoreLands(r) \/ RestoreFails(r) \/ RestoreInstalls(r)
       \/ Restart
  BY DEF Next, vars, history, Open, WriteConflicts, RemoveTags
<1> QED
  BY <1>1, <1>2, <1>3, <1>4, <1>5, <1>6, <1>7, <1>8, <1>9, <1>10, <1>11, <1>12, <1>13, <1>14, <1>15

LEMMA RemovedAloneKept ==
    ASSUME Inv, [Next]_vars
    PROVE  RemovedAlone'
<1> USE DEF Inv
<1>a. \A r \in removing : r.id \in Minted /\ r.id \in Id
  BY DEF Unused, TypeOK, Removal
<1>0. ASSUME UNCHANGED <<removing, restoring>>, crossed \subseteq crossed', 
             \A x \in Minted : x \in Here' => x \in Here
      PROVE  RemovedAlone'
  BY <1>0, <1>a DEF RemovedAlone
<1>1. ASSUME NEW p \in Principal, Create(p)
      PROVE  RemovedAlone'
  BY <1>0, <1>1, CreateHere DEF Create, history, OneMore, Here
<1>2. ASSUME NEW id \in Id, Edit(id)
      PROVE  RemovedAlone'
  BY <1>0, <1>2, EditHere DEF Edit, history
<1>3. ASSUME NEW id \in Id, Flush(id)
      PROVE  RemovedAlone'
  BY <1>0, <1>3, FlushHere DEF Flush, history
<1>4. ASSUME NEW id \in Id, WriteLands(id)
      PROVE  RemovedAlone'
  BY <1>0, <1>4, ReturnedHere DEF WriteLands, history
<1>5. ASSUME NEW id \in Id, WriteFails(id)
      PROVE  RemovedAlone'
  BY <1>0, <1>5, ReturnedHere DEF WriteFails, history
<1>6. ASSUME NEW id \in Id, NEW by \in Session \cup {None}, RemoveAsked(id, by)
      PROVE  RemovedAlone'
  <2>1. Here' = Here \ {id} /\ restoring' = restoring
    BY <1>6, RemoveAskedHere DEF RemoveAsked
  <2>2. crossed \subseteq crossed' /\ (id \notin crossed' => \A q \in restoring : q.id # id)
    BY <1>6 DEF RemoveAsked, AtRest
  <2> QED
    BY <1>6, <2>1, <2>2, RemoveAskedStage DEF RemovedAlone
<1>7. ASSUME NEW r \in removing, RemoveTags(r)
      PROVE  RemovedAlone'
  <2>1. Here' = Here /\ restoring' = restoring /\ crossed' = crossed
    BY <1>7 DEF RemoveTags, Here
  <2> QED
    BY <1>7, <2>1, RemoveTagsStage DEF RemovedAlone
<1>8. ASSUME NEW r \in removing, RemoveDeletes(r)
      PROVE  RemovedAlone'
  <2>1. restoring' = restoring /\ crossed \subseteq crossed'
    BY <1>8 DEF RemoveDeletes
  <2>2. \A x \in Minted : x \in Here' => x \in Here
    BY <1>8, RemoveDeletesHere DEF OneMore
  <2> QED
    BY <1>8, <1>a, <2>1, <2>2, RemoveDeletesStage DEF RemovedAlone
<1>9. ASSUME NEW id \in Id, NEW p \in Principal, RestoreAsked(id, p)
      PROVE  RemovedAlone'
  <2>1. Here' = Here /\ removing' = removing
    BY <1>9 DEF RestoreAsked, Here
  <2>2. crossed \subseteq crossed' /\ \A r \in removing : r.id = id => id \in crossed'
    BY <1>9 DEF RestoreAsked
  <2> QED
    BY <1>9, <2>1, <2>2, RestoreAskedStage DEF RemovedAlone
<1>10. ASSUME NEW r \in restoring, RestoreLists(r)
      PROVE  RemovedAlone'
  <2>1. Here' = Here /\ removing' = removing /\ crossed' = crossed
    BY <1>10 DEF RestoreLists, Here
  <2> QED
    BY <1>10, <2>1, RestoreListsStage DEF RemovedAlone
<1>11. ASSUME NEW r \in restoring, RestoreLands(r)
      PROVE  RemovedAlone'
  <2>1. Here' = Here /\ removing' = removing /\ crossed' = crossed
    BY <1>11 DEF RestoreLands, Here, history
  <2> QED
    BY <1>11, <2>1, RestoreLandsStage DEF RemovedAlone
<1>12. ASSUME NEW r \in restoring, RestoreFails(r)
      PROVE  RemovedAlone'
  <2>1. Here' = Here /\ removing' = removing /\ crossed \subseteq crossed' /\ restoring' \subseteq restoring
    BY <1>12 DEF RestoreFails, Here
  <2> QED
    BY <2>1 DEF RemovedAlone
<1>13. ASSUME NEW r \in restoring, RestoreInstalls(r)
      PROVE  RemovedAlone'
  <2>1. crossed' = crossed /\ restoring' \subseteq restoring /\ removing' = removing
    BY <1>13 DEF RestoreInstalls, history
  <2>2. Here' \subseteq Here \cup {r.id}
    BY <1>13, RestoreInstallsHere
  <2> QED
    BY <2>1, <2>2 DEF RemovedAlone
<1>14. CASE Restart
  BY <1>14 DEF Restart, RemovedAlone
<1>15. CASE UNCHANGED <<diagrams, removing, restoring, crossed>>
  BY <1>15 DEF RemovedAlone, Here
<1>16. \/ UNCHANGED <<diagrams, removing, restoring, crossed>>
       \/ \E p \in Principal : Create(p)
       \/ \E id \in Id : Edit(id) \/ Flush(id) \/ WriteLands(id) \/ WriteFails(id)
       \/ \E id \in Id, by \in Session \cup {None} : RemoveAsked(id, by)
       \/ \E r \in removing : RemoveTags(r) \/ RemoveDeletes(r)
       \/ \E id \in Id, p \in Principal : RestoreAsked(id, p)
       \/ \E r \in restoring : RestoreLists(r) \/ RestoreLands(r) \/ RestoreFails(r) \/ RestoreInstalls(r)
       \/ Restart
  BY DEF Next, vars, history, Open, WriteConflicts
<1> QED
  BY <1>1, <1>2, <1>3, <1>4, <1>5, <1>6, <1>7, <1>8, <1>9, <1>10, <1>11, <1>12, <1>13, <1>14,
     <1>15, <1>16

LEMMA WrittenHereKept ==
    ASSUME Inv, [Next]_vars
    PROVE  WrittenHere'
<1> USE DEF Inv
<1>0. ASSUME Here \subseteq Here', crossed \subseteq crossed',
             \A x \in Id : writing'[x] \in {None, writing[x]}
      PROVE  WrittenHere'
  BY <1>0 DEF WrittenHere
<1>1. ASSUME NEW p \in Principal, Create(p)
      PROVE  WrittenHere'
  BY <1>0, <1>1, CreateHere DEF Create, history, OneMore, Here
<1>2. ASSUME NEW id \in Id, Edit(id)
      PROVE  WrittenHere'
  BY <1>0, <1>2, EditHere DEF Edit, history
<1>3. ASSUME NEW id \in Id, Flush(id)
      PROVE  WrittenHere'
  <2>1. Here' = Here /\ crossed' = crossed /\ id \in Here
    BY <1>3, FlushHere DEF Flush, history
  <2>2. \A x \in Id : x # id => writing'[x] = writing[x]
    BY <1>3 DEF Flush, TypeOK
  <2> QED
    BY <2>1, <2>2 DEF WrittenHere
<1>4. ASSUME NEW id \in Id, WriteLands(id)
      PROVE  WrittenHere'
  BY <1>0, <1>4, ReturnedHere DEF WriteLands, TypeOK
<1>5. ASSUME NEW id \in Id, WriteConflicts(id)
      PROVE  WrittenHere'
  BY <1>0, <1>5 DEF WriteConflicts, TypeOK, Here, history
<1>6. ASSUME NEW id \in Id, WriteFails(id)
      PROVE  WrittenHere'
  BY <1>0, <1>6, ReturnedHere DEF WriteFails, TypeOK, history
<1>7. ASSUME NEW id \in Id, NEW by \in Session \cup {None}, RemoveAsked(id, by)
      PROVE  WrittenHere'
  <2>1. Here' = Here \ {id} /\ writing' = writing
    BY <1>7, RemoveAskedHere DEF RemoveAsked
  <2>2. crossed \subseteq crossed' /\ (id \notin crossed' => writing[id] = None)
    BY <1>7 DEF RemoveAsked, AtRest
  <2> QED
    BY <2>1, <2>2 DEF WrittenHere
<1>8. ASSUME NEW r \in removing, RemoveDeletes(r)
      PROVE  WrittenHere'
  BY <1>0, <1>8, RemoveDeletesHere DEF RemoveDeletes, OneMore
<1>9. ASSUME NEW id \in Id, NEW p \in Principal, RestoreAsked(id, p)
      PROVE  WrittenHere'
  BY <1>0, <1>9 DEF RestoreAsked, Here
<1>10. ASSUME NEW r \in restoring, RestoreFails(r)
      PROVE  WrittenHere'
  BY <1>0, <1>10 DEF RestoreFails, Here
<1>11. ASSUME NEW r \in restoring, RestoreInstalls(r)
      PROVE  WrittenHere'
  BY <1>0, <1>11, RestoreInstallsHere DEF RestoreInstalls, history
<1>12. CASE Restart
  BY <1>12 DEF Restart, WrittenHere
<1>13. CASE UNCHANGED <<diagrams, writing, crossed>>
  BY <1>13 DEF WrittenHere, Here
<1>14. \/ UNCHANGED <<diagrams, writing, crossed>>
       \/ \E p \in Principal : Create(p)
       \/ \E id \in Id : Edit(id) \/ Flush(id) \/ WriteLands(id) \/ WriteConflicts(id) \/ WriteFails(id)
       \/ \E id \in Id, by \in Session \cup {None} : RemoveAsked(id, by)
       \/ \E r \in removing : RemoveDeletes(r)
       \/ \E id \in Id, p \in Principal : RestoreAsked(id, p)
       \/ \E r \in restoring : RestoreFails(r) \/ RestoreInstalls(r)
       \/ Restart
  BY DEF Next, vars, history, Open, RemoveTags, RestoreLists, RestoreLands
<1> QED
  BY <1>1, <1>2, <1>3, <1>4, <1>5, <1>6, <1>7, <1>8, <1>9, <1>10, <1>11, <1>12, <1>13, <1>14

LEMMA GoingKept ==
    ASSUME Inv, [Next]_vars
    PROVE  Going'
<1> USE DEF Inv
<1>0. ASSUME Here \subseteq Here', crossed \subseteq crossed', UNCHANGED <<object, removing, restoring>>
      PROVE  Going'
  BY <1>0 DEF Going
<1>1. ASSUME NEW p \in Principal, Create(p)
      PROVE  Going'
  BY <1>0, <1>1, CreateHere DEF Create, history, bucket, OneMore, Here
<1>2. ASSUME NEW id \in Id, Edit(id)
      PROVE  Going'
  BY <1>0, <1>2, EditHere DEF Edit, history, bucket
<1>3. ASSUME NEW id \in Id, Flush(id)
      PROVE  Going'
  BY <1>0, <1>3, FlushHere DEF Flush, history, bucket
<1>4. ASSUME NEW id \in Id, WriteLands(id)
      PROVE  Going'
  <2>1. Here' = Here /\ crossed' = crossed /\ removing' = removing /\ restoring' = restoring
    BY <1>4, ReturnedHere DEF WriteLands
  <2>2. \A x \in Id : x # id => object'[x] = object[x]
    BY <1>4 DEF WriteLands, TypeOK
  <2>3. id \in Here \cup crossed
    BY <1>4 DEF WriteLands, WrittenHere
  <2> QED
    BY <2>1, <2>2, <2>3 DEF Going
<1>5. ASSUME NEW id \in Id, WriteFails(id)
      PROVE  Going'
  BY <1>0, <1>5, ReturnedHere DEF WriteFails, history, bucket
<1>6. ASSUME NEW id \in Id, NEW by \in Session \cup {None}, RemoveAsked(id, by)
      PROVE  Going'
  <2>1. Here' = Here \ {id} /\ restoring' = restoring /\ object' = object /\ crossed \subseteq crossed'
    BY <1>6, RemoveAskedHere DEF RemoveAsked, bucket
  <2> QED
    BY <1>6, <2>1, RemoveAskedStage DEF Going
<1>7. ASSUME NEW r \in removing, RemoveTags(r)
      PROVE  Going'
  <2>1. Here' = Here /\ restoring' = restoring /\ crossed' = crossed
    BY <1>7 DEF RemoveTags, Here
  <2>2. \A x \in Id : object'[x] # None => object[x] # None
    BY <1>7 DEF RemoveTags, TypeOK, Removal
  <2> QED
    BY <1>7, <2>1, <2>2, RemoveTagsStage DEF Going
<1>8. ASSUME NEW r \in removing, RemoveDeletes(r)
      PROVE  Going'
  <2>1. restoring' = restoring /\ crossed \subseteq crossed' /\ Here \subseteq Here'
    BY <1>8, RemoveDeletesHere DEF RemoveDeletes, OneMore
  <2>2. r.id \in Id /\ (object'[r.id] = None \/ r.id \in crossed')
    BY <1>8 DEF RemoveDeletes, TypeOK, Removal
  <2>3. \A x \in Id : x # r.id => object'[x] = object[x]
    BY <1>8, <2>2 DEF RemoveDeletes, TypeOK
  <2> QED
    BY <1>8, <2>1, <2>2, <2>3, RemoveDeletesStage DEF Going
<1>9. ASSUME NEW id \in Id, NEW p \in Principal, RestoreAsked(id, p)
      PROVE  Going'
  <2>1. Here' = Here /\ removing' = removing /\ object' = object /\ crossed \subseteq crossed'
    BY <1>9 DEF RestoreAsked, Here, bucket
  <2> QED
    BY <1>9, <2>1, RestoreAskedStage DEF Going
<1>10. ASSUME NEW r \in restoring, RestoreLists(r)
      PROVE  Going'
  <2>1. Here' = Here /\ removing' = removing /\ object' = object /\ crossed' = crossed
    BY <1>10 DEF RestoreLists, Here, bucket
  <2>2. r.stage = "list"
    BY <1>10 DEF RestoreLists
  <2> QED
    BY <1>10, <2>1, <2>2, RestoreListsStage DEF Going
<1>11. ASSUME NEW r \in restoring, RestoreLands(r)
      PROVE  Going'
  <2>1. Here' = Here /\ removing' = removing /\ crossed' = crossed /\ r.stage = "restore"
    BY <1>11 DEF RestoreLands, Here, history
  <2>2. \A x \in Id : x # r.id => object'[x] = object[x]
    BY <1>11 DEF RestoreLands, TypeOK
  <2> QED
    BY <1>11, <2>1, <2>2, RestoreLandsStage DEF Going
<1>12. ASSUME NEW r \in restoring, RestoreFails(r)
      PROVE  Going'
  <2>1. Here' = Here /\ removing' = removing /\ object' = object /\ crossed' = crossed \cup {r.id}
        /\ restoring' = restoring \ {r}
    BY <1>12 DEF RestoreFails, Here, bucket
  <2> QED
    BY <2>1 DEF Going
<1>13. ASSUME NEW r \in restoring, RestoreInstalls(r)
      PROVE  Going'
  <2>1. /\ removing' = removing /\ object' = object /\ crossed' = crossed
        /\ restoring' = restoring \ {r}
    BY <1>13 DEF RestoreInstalls, history
  <2>2. Here \subseteq Here' /\ (object[r.id] # None => r.id \in Here')
    BY <1>13, RestoreInstallsHere
  <2> QED
    BY <2>1, <2>2 DEF Going
<1>14. CASE Restart
  <2>1. object' = object /\ \A x \in Id : object[x] # None => x \in Here'
    BY <1>14, RestartHere DEF Restart, OneMore
  <2> QED
    BY <2>1 DEF Going
<1>15. CASE UNCHANGED <<diagrams, object, removing, restoring, crossed>>
  BY <1>15 DEF Going, Here
<1>16. \/ UNCHANGED <<diagrams, object, removing, restoring, crossed>>
       \/ \E p \in Principal : Create(p)
       \/ \E id \in Id : Edit(id) \/ Flush(id) \/ WriteLands(id) \/ WriteFails(id)
       \/ \E id \in Id, by \in Session \cup {None} : RemoveAsked(id, by)
       \/ \E r \in removing : RemoveTags(r) \/ RemoveDeletes(r)
       \/ \E id \in Id, p \in Principal : RestoreAsked(id, p)
       \/ \E r \in restoring : RestoreLists(r) \/ RestoreLands(r) \/ RestoreFails(r) \/ RestoreInstalls(r)
       \/ Restart
  BY DEF Next, vars, history, bucket, Open, WriteConflicts
<1> QED
  BY <1>1, <1>2, <1>3, <1>4, <1>5, <1>6, <1>7, <1>8, <1>9, <1>10, <1>11, <1>12, <1>13, <1>14,
     <1>15, <1>16

\* The owner of an id in use does not change.
LEMMA OwnersLast ==
    ASSUME Inv, [Next]_vars
    PROVE  OwnersKept
<1> USE DEF Inv
<1>1. ASSUME NEW p \in Principal, Create(p)
      PROVE  OwnersKept
  BY <1>1, CreateHere
<1>2. ASSUME NEW r \in removing, RemoveDeletes(r)
      PROVE  OwnersKept
  BY <1>2, RemoveDeletesHere
<1>3. CASE Restart
  BY <1>3, RestartHere
<1>4. CASE UNCHANGED owner
  BY <1>4 DEF OwnersKept, Minted
<1>5. \/ UNCHANGED owner
      \/ \E p \in Principal : Create(p)
      \/ \E r \in removing : RemoveDeletes(r)
      \/ Restart
  BY DEF Next, vars, Open, Edit, Flush, WriteLands, WriteConflicts, WriteFails, RemoveAsked,
         RemoveTags, RestoreAsked, RestoreLists, RestoreLands, RestoreFails, RestoreInstalls
<1> QED
  BY <1>1, <1>2, <1>3, <1>4, <1>5

LEMMA TaggedKept ==
    ASSUME Inv, [Next]_vars
    PROVE  Tagged'
<1> USE DEF Inv
<1>a. \A r \in removing : r.id \in Id /\ r.id \in Minted /\ owner'[r.id] = owner[r.id]
  BY OwnersLast DEF Unused, TypeOK, Removal, OwnersKept
<1>0. ASSUME UNCHANGED <<object, removing>>, crossed \cup untagged \subseteq crossed' \cup untagged'
      PROVE  Tagged'
  BY <1>0, <1>a DEF Tagged
<1>1. ASSUME NEW id \in Id, WriteLands(id)
      PROVE  Tagged'
  <2>1. UNCHANGED <<removing, crossed, untagged>> /\ \A x \in Id : x # id => object'[x] = object[x]
    BY <1>1 DEF WriteLands, TypeOK
  <2>2. id \in Here \cup crossed
    BY <1>1 DEF WriteLands, WrittenHere
  <2> QED
    BY <1>a, <2>1, <2>2 DEF Tagged, RemovedAlone
<1>2. ASSUME NEW id \in Id, NEW by \in Session \cup {None}, RemoveAsked(id, by)
      PROVE  Tagged'
  <2>1. UNCHANGED <<object, untagged>> /\ crossed \subseteq crossed'
    BY <1>2 DEF RemoveAsked, bucket
  <2> QED
    BY <1>2, <1>a, <2>1, RemoveAskedStage DEF Tagged
<1>3. ASSUME NEW r \in removing, RemoveTags(r)
      PROVE  Tagged'
  <2>1. crossed' = crossed /\ untagged \subseteq untagged' /\ \A x \in Id : x # r.id => object'[x] = object[x]
    BY <1>3 DEF RemoveTags, TypeOK
  <2>2. r.id \in untagged' \/ object'[r.id] = None \/ object'[r.id].tag = owner[r.id]
    BY <1>3, <1>a DEF RemoveTags, TypeOK, Object
  <2> QED
    BY <1>3, <1>a, <2>1, <2>2, RemoveTagsStage DEF Tagged
<1>4. ASSUME NEW r \in removing, RemoveDeletes(r)
      PROVE  Tagged'
  <2>1. crossed \subseteq crossed' /\ untagged' = untagged /\ \A x \in Id : x # r.id => object'[x] = object[x]
    BY <1>4, <1>a DEF RemoveDeletes, TypeOK
  <2>2. r.id \in crossed' \/ object'[r.id] = None
    BY <1>4, <1>a DEF RemoveDeletes, TypeOK
  <2> QED
    BY <1>4, <1>a, <2>1, <2>2, RemoveDeletesStage DEF Tagged
<1>5. ASSUME NEW r \in restoring, RestoreLands(r)
      PROVE  Tagged'
  <2>1. UNCHANGED <<removing, crossed, untagged>> /\ \A x \in Id : x # r.id => object'[x] = object[x]
    BY <1>5 DEF RestoreLands, TypeOK, history
  <2> QED
    BY <1>a, <2>1 DEF Tagged, RemovedAlone
<1>6. CASE removing' = {}
  BY <1>6 DEF Tagged
<1>7. \/ UNCHANGED <<object, removing>> /\ crossed \cup untagged \subseteq crossed' \cup untagged'
      \/ \E id \in Id : WriteLands(id)
      \/ \E id \in Id, by \in Session \cup {None} : RemoveAsked(id, by)
      \/ \E r \in removing : RemoveTags(r) \/ RemoveDeletes(r)
      \/ \E r \in restoring : RestoreLands(r)
      \/ removing' = {}
  BY DEF Next, vars, bucket, history, Create, Open, Edit, Flush, WriteConflicts, WriteFails,
         RestoreAsked, RestoreLists, RestoreFails, RestoreInstalls, Restart
<1> QED
  BY <1>0, <1>1, <1>2, <1>3, <1>4, <1>5, <1>6, <1>7

LEMMA LastKeptKept ==
    ASSUME Inv, [Next]_vars
    PROVE  LastKept'
<1> USE DEF Inv
<1> DEFINE Fine(id) ==
        /\ object[id] # None \/ InWindow(id) # {} => stored[id] # None
        /\ id \notin crossed \cup raced =>
            /\ object[id] # None => object[id].doc = stored[id]
            /\ object[id] = None /\ stored[id] # None =>
                    \E d \in InWindow(id) : InWindowAsStored(id, d)
           OfSame(id) == object'[id] = object[id] /\ stored'[id] = stored[id]
                         /\ \A d : d.id = id => (d \in deleted' <=> d \in deleted)
           Flags == crossed \subseteq crossed' /\ raced \subseteq raced' /\ untagged \subseteq untagged'
<1>a. \A x \in Id : Fine(x)
  BY DEF LastKept
<1>b. \A x \in Id : stored[x] # None => owner'[x] = owner[x]
  BY OwnersLast DEF Unused, OwnersKept, Minted
<1>c. ASSUME NEW x \in Id, OfSame(x), Flags
      PROVE  Fine(x)'
  <2>1. InWindow(x)' = InWindow(x)
    BY <1>c DEF InWindow
  <2>2. \A d : stored[x] # None /\ InWindowAsStored(x, d) => InWindowAsStored(x, d)'
    BY <1>b, <1>c, <2>1 DEF InWindowAsStored
  <2> QED
    BY <1>a, <1>c, <2>1, <2>2
<1>0. ASSUME UNCHANGED <<object, stored, deleted>>, Flags
      PROVE  LastKept'
  <2>1. \A x \in Id : Fine(x)'
    BY <1>0, <1>c
  <2> QED
    BY <2>1 DEF LastKept
<1>1. ASSUME NEW id \in Id, WriteLands(id)
      PROVE  LastKept'
  <2>1. Flags /\ deleted' = deleted /\ \A x \in Id : x # id => OfSame(x)
    BY <1>1 DEF WriteLands, TypeOK
  <2>2. object'[id] # None /\ stored'[id] # None /\ object'[id].doc = stored'[id]
    <3>1. writing[id] \in Write
      BY <1>1 DEF WriteLands, TypeOK
    <3>2. writing[id].doc \in Doc
      BY <3>1 DEF Write
    <3>3. [gen |-> lastGen + 1, doc |-> writing[id].doc, tag |-> None] \in Object
      BY <3>2 DEF Object, TypeOK
    <3> QED
      BY <1>1, <3>2, <3>3, BinAssumption DEF WriteLands, TypeOK
  <2>3. Fine(id)'
    BY <2>2
  <2>4. \A x \in Id : x # id => Fine(x)'
    BY <1>c, <2>1
  <2> QED
    BY <2>3, <2>4 DEF LastKept
<1>2. ASSUME NEW r \in removing, RemoveTags(r)
      PROVE  LastKept'
  <2>1. Flags /\ deleted' = deleted /\ stored' = stored /\ r.id \in Id
    BY <1>2 DEF RemoveTags, TypeOK, Removal
  <2>2. \A x \in Id : x # r.id => object'[x] = object[x]
    BY <1>2 DEF RemoveTags, TypeOK
  <2>3. /\ object'[r.id] = None <=> object[r.id] = None
        /\ object[r.id] # None => object'[r.id].doc = object[r.id].doc
    BY <1>2, <2>1, BinAssumption DEF RemoveTags, TypeOK, Object
  <2>4. InWindow(r.id)' = InWindow(r.id)
    BY <2>1 DEF InWindow
  <2>5. \A d : stored[r.id] # None /\ InWindowAsStored(r.id, d) => InWindowAsStored(r.id, d)'
    BY <1>b, <2>1, <2>4 DEF InWindowAsStored
  <2>6. Fine(r.id)'
    BY <1>a, <2>1, <2>3, <2>4, <2>5
  <2>7. \A x \in Id : x # r.id => Fine(x)'
    BY <1>c, <2>1, <2>2
  <2> QED
    BY <2>6, <2>7 DEF LastKept
<1>3. ASSUME NEW r \in removing, RemoveDeletes(r)
      PROVE  LastKept'
  <2>1. Flags /\ stored' = stored /\ r.id \in Id
    BY <1>3 DEF RemoveDeletes, TypeOK, Removal
  <2>2. CASE UNCHANGED <<object, deleted>>
    BY <1>0, <2>1, <2>2
  <2>3. CASE /\ deleted' = IF object[r.id] = None THEN deleted ELSE SoftDelete(r.id)
             /\ object' = [object EXCEPT ![r.id] = None]
             /\ object[r.id] # None
    <3>1. PICK new : /\ deleted' = deleted \cup {new} /\ new.id = r.id /\ new.doc = object[r.id].doc
                     /\ new.gen = object[r.id].gen /\ new.tag = object[r.id].tag
      <4> DEFINE d == [id |-> r.id, gen |-> object[r.id].gen, doc |-> object[r.id].doc,
                       tag |-> object[r.id].tag]
      <4>1. deleted' = deleted \cup {d}
        BY <2>3 DEF SoftDelete
      <4>2. d.id = r.id /\ d.doc = object[r.id].doc /\ d.gen = object[r.id].gen
            /\ d.tag = object[r.id].tag
        OBVIOUS
      <4> QED
        BY <4>1, <4>2
    <3>2. \A x \in Id : x # r.id => OfSame(x)
      BY <2>1, <2>3, <3>1 DEF TypeOK
    <3>3. new \in InWindow(r.id)' /\ object'[r.id] = None /\ stored[r.id] # None
      BY <1>a, <2>1, <2>3, <3>1 DEF InWindow, TypeOK
    <3>4. \A e \in InWindow(r.id)' : e.gen <= new.gen
      <4>1. object[r.id].gen \in Nat
        BY <2>1, <2>3 DEF TypeOK, Object
      <4>2. \A e \in InWindow(r.id) : e.gen \in Nat /\ e.gen < object[r.id].gen
        BY <2>1, <2>3 DEF Generations, TypeOK, Deleted, InWindow
      <4> QED
        BY <3>1, <4>1, <4>2 DEF InWindow
    <3>5. ASSUME r.id \notin crossed' \cup raced'
          PROVE  InWindowAsStored(r.id, new)'
      <4>1. new.doc = stored'[r.id]
        BY <1>a, <2>1, <2>3, <3>1, <3>5
      <4>2. r.id \notin untagged' => new.tag = owner'[r.id]
        BY <1>3, <1>b, <2>1, <2>3, <3>1, <3>3, <3>5 DEF Tagged, RemoveDeletes
      <4> QED
        BY <3>4, <4>1, <4>2 DEF InWindowAsStored
    <3>6. Fine(r.id)'
      BY <2>1, <3>3, <3>5
    <3>7. \A x \in Id : x # r.id => Fine(x)'
      BY <1>c, <2>1, <3>2
    <3> QED
      BY <3>6, <3>7 DEF LastKept
  <2>4. CASE /\ deleted' = IF object[r.id] = None THEN deleted ELSE SoftDelete(r.id)
             /\ object' = [object EXCEPT ![r.id] = None]
             /\ object[r.id] = None
    <3>1. deleted' = deleted /\ object' = object
      BY <2>1, <2>4 DEF TypeOK
    <3> QED
      BY <1>0, <2>1, <3>1
  <2> QED
    BY <1>3, <2>2, <2>3, <2>4 DEF RemoveDeletes
<1>4. ASSUME NEW r \in restoring, RestoreLands(r)
      PROVE  LastKept'
  <2>1. Flags /\ stored' = stored /\ r.id \in Id /\ crossed' = crossed /\ raced' = raced
    BY <1>4 DEF RestoreLands, TypeOK, Restore, history
  <2>2. PICK d \in deleted : /\ d.id = r.id /\ d.gen = r.gen
            /\ object' = [object EXCEPT ![r.id] = [gen |-> lastGen + 1, doc |-> d.doc, tag |-> d.tag]]
    BY <1>4 DEF RestoreLands
  <2>3. deleted' = IF object[r.id] = None THEN deleted ELSE SoftDelete(r.id)
    BY <1>4 DEF RestoreLands
  <2>4. [gen |-> lastGen + 1, doc |-> d.doc, tag |-> d.tag] \in Object
    BY <2>2 DEF TypeOK, Deleted, Object
  <2>5. object'[r.id] # None /\ object'[r.id].doc = d.doc
    BY <2>1, <2>2, <2>4, BinAssumption DEF TypeOK
  <2>6. d \in InWindow(r.id) /\ stored[r.id] # None
    BY <1>a, <2>1, <2>2 DEF InWindow
  <2>7. ASSUME r.id \notin crossed' \cup raced'
        PROVE  d.doc = stored[r.id]
    <3>1. object[r.id] = None /\ \A e \in InWindow(r.id) : e.gen <= d.gen
      BY <1>4, <2>1, <2>2, <2>7 DEF Chosen, RestoreLands
    <3>2. PICK e \in InWindow(r.id) : InWindowAsStored(r.id, e)
      BY <1>a, <2>1, <2>6, <2>7, <3>1
    <3>3. e.gen = d.gen
      <4>1. e.gen \in Nat /\ d.gen \in Nat
        BY <2>2, <3>2 DEF TypeOK, Deleted, InWindow
      <4>2. e.gen <= d.gen /\ d.gen <= e.gen
        BY <2>6, <3>1, <3>2 DEF InWindowAsStored
      <4> QED
        BY <4>1, <4>2
    <3>4. e = d
      BY <2>6, <3>2, <3>3 DEF Generations, InWindow
    <3> QED
      BY <3>2, <3>4 DEF InWindowAsStored
  <2>8. Fine(r.id)'
    BY <2>1, <2>5, <2>6, <2>7
  <2>9. \A x \in Id : x # r.id => OfSame(x)
    BY <2>1, <2>2, <2>3 DEF TypeOK, SoftDelete
  <2>10. \A x \in Id : x # r.id => Fine(x)'
    BY <1>c, <2>1, <2>9
  <2> QED
    BY <2>8, <2>10 DEF LastKept
<1>5. \/ UNCHANGED <<object, stored, deleted>> /\ Flags
      \/ \E id \in Id : WriteLands(id)
      \/ \E r \in removing : RemoveTags(r) \/ RemoveDeletes(r)
      \/ \E r \in restoring : RestoreLands(r)
  BY DEF Next, vars, bucket, history, Create, Open, Edit, Flush, WriteConflicts, WriteFails,
         RemoveAsked, RestoreAsked, RestoreLists, RestoreFails, RestoreInstalls, Restart
<1> QED
  BY <1>0, <1>1, <1>2, <1>3, <1>4, <1>5

LEMMA ChosenKept ==
    ASSUME Inv, [Next]_vars
    PROVE  Chosen'
<1> USE DEF Inv
<1> DEFINE Flags == crossed \subseteq crossed' /\ raced \subseteq raced'
           Held == {r \in restoring : r.stage = "restore"}
<1>a. \A r \in restoring : r.id \in Id
  BY DEF TypeOK, Restore
<1>0. ASSUME Flags, {r \in restoring' : r.stage = "restore"} \subseteq Held,
             \A r \in Held : r \in restoring' /\ r.id \notin crossed' \cup raced' =>
                    object'[r.id] = object[r.id] /\ InWindow(r.id)' = InWindow(r.id)
      PROVE  Chosen'
  BY <1>0 DEF Chosen
<1>1. ASSUME UNCHANGED <<object, deleted>>, Flags, {r \in restoring' : r.stage = "restore"} \subseteq Held
      PROVE  Chosen'
  BY <1>0, <1>1 DEF InWindow
<1>2. ASSUME NEW id \in Id, WriteLands(id)
      PROVE  Chosen'
  <2>1. UNCHANGED <<restoring, crossed, raced, deleted>> /\ \A x \in Id : x # id => object'[x] = object[x]
    BY <1>2 DEF WriteLands, TypeOK
  <2>2. id \in Here \cup crossed
    BY <1>2 DEF WriteLands, WrittenHere
  <2> QED
    BY <1>a, <1>0, <2>1, <2>2 DEF FoundAbsent, InWindow
<1>3. ASSUME NEW r \in removing, RemoveTags(r)
      PROVE  Chosen'
  <2>1. UNCHANGED <<restoring, crossed, raced, deleted>> /\ \A x \in Id : x # r.id => object'[x] = object[x]
    BY <1>3 DEF RemoveTags, TypeOK
  <2> QED
    BY <1>a, <1>0, <2>1 DEF RemovedAlone, InWindow
<1>4. ASSUME NEW r \in removing, RemoveDeletes(r)
      PROVE  Chosen'
  <2>1. /\ UNCHANGED <<restoring, raced>> /\ crossed \subseteq crossed'
        /\ \A x \in Id : x # r.id => object'[x] = object[x] /\ InWindow(x)' = InWindow(x)
    BY <1>4 DEF RemoveDeletes, TypeOK, SoftDelete, InWindow
  <2> QED
    BY <1>a, <1>0, <2>1 DEF RemovedAlone
<1>5. ASSUME NEW id \in Id, NEW p \in Principal, RestoreAsked(id, p)
      PROVE  Chosen'
  <2>1. UNCHANGED <<object, deleted>> /\ Flags
    BY <1>5 DEF RestoreAsked, bucket
  <2> QED
    BY <1>1, <1>5, <2>1, RestoreAskedStage
<1>6. ASSUME NEW r \in restoring, RestoreLists(r)
      PROVE  Chosen'
  <2>1. UNCHANGED <<object, deleted, crossed>> /\ raced \subseteq raced' /\ r.stage = "list"
    BY <1>6 DEF RestoreLists, bucket
  <2>2. ASSUME NEW q \in restoring', q.stage = "restore", q.id \notin crossed' \cup raced'
        PROVE  object[q.id] = None /\ \A e \in InWindow(q.id) : e.gen <= q.gen
    <3>1. CASE q \in restoring
      BY <2>1, <2>2, <3>1 DEF Chosen
    <3>2. CASE q.id = r.id /\ r.id \in Recoverable(r.by) /\ q.gen = Newest(r.id).gen
      <4>1. r.id \in Id \ (Here \cup crossed) /\ InWindow(r.id) # {}
        BY <2>1, <2>2, <3>2 DEF Recoverable
      <4>2. \A p \in removing : p.id # r.id
        BY <4>1 DEF RemovedAlone
      <4>3. \A p \in restoring : p.id = r.id => p.stage = "list"
        BY <1>6, <2>2, <3>2 DEF RestoreLists
      <4>4. object[r.id] = None
        BY <4>1, <4>2, <4>3 DEF Going
      <4> QED
        BY <3>2, <4>1, <4>4, NewestInWindow
    <3> QED
      BY <1>6, <3>1, <3>2, RestoreListsStage
  <2> QED
    BY <2>1, <2>2 DEF Chosen, InWindow
<1>7. ASSUME NEW r \in restoring, RestoreLands(r)
      PROVE  Chosen'
  <2>1. /\ UNCHANGED <<crossed, raced>> /\ r.stage = "restore"
        /\ \A x \in Id : x # r.id => object'[x] = object[x] /\ InWindow(x)' = InWindow(x)
    BY <1>7 DEF RestoreLands, TypeOK, SoftDelete, InWindow, history
  <2>2. \A q \in restoring' : q.stage = "restore" => q \in Held /\ q # r
    BY <1>7, RestoreLandsStage
  <2>3. \A q \in Held : q \in restoring' /\ q.id \notin crossed' \cup raced' => q.id # r.id
    BY <2>1, <2>2 DEF FoundAbsent
  <2> QED
    BY <1>a, <1>0, <2>1, <2>2, <2>3
<1>8. ASSUME NEW r \in restoring, RestoreFails(r) \/ RestoreInstalls(r)
      PROVE  Chosen'
  BY <1>1, <1>8 DEF RestoreFails, RestoreInstalls, bucket, history
<1>9. CASE restoring' = {}
  BY <1>9 DEF Chosen
<1>10. CASE UNCHANGED <<object, deleted, restoring, raced>> /\ crossed \subseteq crossed'
  BY <1>1, <1>10
<1>11. \/ UNCHANGED <<object, deleted, restoring, raced>> /\ crossed \subseteq crossed'
       \/ \E id \in Id : WriteLands(id)
       \/ \E r \in removing : RemoveTags(r) \/ RemoveDeletes(r)
       \/ \E id \in Id, p \in Principal : RestoreAsked(id, p)
       \/ \E r \in restoring : RestoreLists(r) \/ RestoreLands(r) \/ RestoreFails(r) \/ RestoreInstalls(r)
       \/ restoring' = {}
  BY DEF Next, vars, bucket, history, Create, Open, Edit, Flush, WriteConflicts, WriteFails,
         RemoveAsked, Restart
<1> QED
  BY <1>2, <1>3, <1>4, <1>5, <1>6, <1>7, <1>8, <1>9, <1>10, <1>11

-----------------------------------------------------------------------------
(* Theorems                                                                 *)

\* The invariant the other theorems read their property off.
THEOREM InvariantHolds == Spec => []Inv
<1>1. Init => Inv
  <2> SUFFICES ASSUME Init PROVE Inv
    OBVIOUS
  <2>1. Fresh({}, TRUE, 0) \in Entry
    BY DEF Fresh, Entry, Doc
  <2>2. TypeOK
    BY <2>1, BinAssumption DEF Init, TypeOK
  <2>3. \A id \in Id : owner[id] = None => diagrams[id] = None
    BY BinAssumption DEF Init
  <2>4. Generations /\ Unused /\ LastKept
    BY <2>3 DEF Init, Generations, Unused, LastKept, InWindow, Here, Minted
  <2>5. FoundAbsent /\ RemovedAlone /\ WrittenHere /\ Going /\ Tagged /\ Chosen
    BY DEF Init, FoundAbsent, RemovedAlone, WrittenHere, Going, Tagged, Chosen
  <2> QED
    BY <2>2, <2>4, <2>5 DEF Inv
<1>2. Inv /\ [Next]_vars => Inv'
  <2> SUFFICES ASSUME Inv, [Next]_vars PROVE Inv'
    OBVIOUS
  <2>1. TypeOK'
    BY TypesKept DEF Inv
  <2> QED
    BY <2>1, GenerationsKept, UnusedKept, FoundAbsentKept, RemovedAloneKept, WrittenHereKept,
       GoingKept, TaggedKept, LastKeptKept, ChosenKept DEF Inv
<1> QED
  BY <1>1, <1>2, PTL DEF Spec

\* Whatever is asked for and in whatever order, every variable keeps its type: an
\* entry, an object, a call under way is always what the code takes it for.
THEOREM TypeCorrect == Spec => []TypeOK
<1>1. Inv => TypeOK
  BY DEF Inv
<1> QED
  BY <1>1, InvariantHolds, PTL

\* What was deleted stays deleted: when a removal that met no flush, restoration
\* or failed DELETE is over, the bucket holds nothing the next boot would load.
THEOREM GoneForGood == Spec => []GoneStaysGone
<1>1. Inv => GoneStaysGone
  <2> SUFFICES ASSUME Inv, NEW id \in Minted \ (Here \cup crossed), AtRest(id)
               PROVE  object[id] = None
    BY DEF GoneStaysGone
  <2>1. id \in Id \ (Here \cup crossed)
    BY DEF Minted
  <2> QED
    BY <2>1 DEF Inv, Going, AtRest
<1> QED
  BY <1>1, InvariantHolds, PTL

\* The bin offers a deleted diagram to its owner as it was last written, however
\* many generations of it were deleted and restored before.
THEOREM BinIsRight == Spec => []BinHoldsTheLast
<1>1. Inv => BinHoldsTheLast
  <2> SUFFICES ASSUME Inv, NEW id \in Minted \ (Here \cup crossed \cup untagged \cup raced),
                      AtRest(id), stored[id] # None
               PROVE  id \in Recoverable(owner[id]) /\ Newest(id).doc = stored[id]
    BY DEF BinHoldsTheLast
  <2>1. id \in Id \ (Here \cup crossed) /\ id \notin untagged \cup raced
    BY DEF Minted
  <2>2. object[id] = None
    BY <2>1 DEF Inv, Going, AtRest
  <2>3. PICK d \in InWindow(id) : InWindowAsStored(id, d)
    BY <2>1, <2>2 DEF Inv, LastKept
  <2>4. Newest(id) = d
    BY <2>3, NewestIs DEF Inv, InWindowAsStored
  <2> QED
    BY <2>1, <2>3, <2>4 DEF InWindowAsStored, Recoverable
<1> QED
  BY <1>1, InvariantHolds, PTL

\* No accepted edit is taken out of a diagram being served: a restoration installs
\* its whole document over nothing, unless two had found the diagram absent.
THEOREM EditsSurviveRestores == Spec => RestoreKeepsEdits
<1> DEFINE Keeps(id) == id \in Here' /\ restarts' = restarts /\ id \notin raced'
                            => diagrams[id].doc \subseteq diagrams'[id].doc
<1>1. ASSUME Inv, [Next]_vars
      PROVE  \A id \in Here : Keeps(id)
  <2> SUFFICES ASSUME NEW x \in Here, restarts' = restarts, x \notin raced'
               PROVE  diagrams[x].doc \subseteq diagrams'[x].doc \/ x \notin Here'
    OBVIOUS
  <2>a. x \in Id /\ diagrams[x] \in Entry /\ owner'[x] # None
    <3>1. x \in Minted /\ x \in Id /\ diagrams[x] \in Entry
      BY <1>1 DEF Inv, Unused, Here, TypeOK
    <3> QED
      BY <1>1, <3>1, OwnersLast DEF OwnersKept, Minted
  <2>c. ASSUME NEW p \in Principal, Seeds(diagrams, p)
        PROVE  diagrams[x].doc \subseteq diagrams'[x].doc
    <3>1. x \in Minted
      BY <1>1 DEF Inv, Unused, Here
    <3>2. diagrams'[x] = diagrams[x]
      <4>1. PICK new \in Id \ Minted :
              diagrams' = [diagrams EXCEPT ![new] = Fresh({}, TRUE, installs + 1)]
        BY <2>c DEF Seeds
      <4> QED
        BY <1>1, <2>a, <3>1, <4>1 DEF Inv, TypeOK
    <3> QED
      BY <3>2
  <2>d. ASSUME NEW id \in Id, NEW dirty \in BOOLEAN, NEW timer \in BOOLEAN,
               diagrams' = Returned(id, dirty, timer)
        PROVE  diagrams[x].doc \subseteq diagrams'[x].doc
    BY <1>1, <2>a, <2>d DEF Returned, Inv, TypeOK, Here, Entry
  <2>1. ASSUME NEW id \in Id, Edit(id)
        PROVE  diagrams[x].doc \subseteq diagrams'[x].doc
    BY <1>1, <2>a, <2>1 DEF Edit, Inv, TypeOK, Entry
  <2>2. ASSUME NEW id \in Id, Flush(id)
        PROVE  diagrams[x].doc \subseteq diagrams'[x].doc
    BY <1>1, <2>a, <2>2 DEF Flush, Inv, TypeOK, Entry
  <2>3. ASSUME NEW id \in Id, NEW by \in Session \cup {None}, RemoveAsked(id, by)
        PROVE  diagrams[x].doc \subseteq diagrams'[x].doc \/ x \notin Here'
    <3>1. CASE id = x
      BY <1>1, <2>3, <3>1, RemoveAskedHere DEF Inv
    <3>2. CASE id # x
      BY <1>1, <2>a, <2>3, <3>2 DEF RemoveAsked, Inv, TypeOK
    <3> QED
      BY <3>1, <3>2
  <2>4. ASSUME NEW r \in removing, RemoveDeletes(r)
        PROVE  diagrams[x].doc \subseteq diagrams'[x].doc
    <3>1. owner[r.id] \in Principal
      BY <1>1 DEF Inv, Unused, TypeOK, Removal, Minted
    <3> QED
      BY <2>4, <2>c, <3>1 DEF RemoveDeletes
  <2>5. ASSUME NEW r \in restoring, RestoreInstalls(r)
        PROVE  diagrams[x].doc \subseteq diagrams'[x].doc
    <3>1. x # r.id
      BY <1>1, <2>5 DEF Inv, FoundAbsent, RestoreInstalls, history
    <3> QED
      BY <1>1, <2>a, <2>5, <3>1 DEF RestoreInstalls, Inv, TypeOK
  <2>6. CASE Restart
    BY <1>1, <2>6 DEF Restart, Inv, TypeOK
  <2>7. ASSUME NEW p \in Principal, Create(p)
        PROVE  diagrams[x].doc \subseteq diagrams'[x].doc
    BY <2>7, <2>c DEF Create
  <2>8. ASSUME NEW id \in Id, WriteLands(id) \/ WriteFails(id)
        PROVE  diagrams[x].doc \subseteq diagrams'[x].doc
    BY <2>8, <2>d DEF WriteLands, WriteFails
  <2>9. CASE UNCHANGED diagrams
    BY <2>9
  <2>10. \/ UNCHANGED diagrams
         \/ \E p \in Principal : Create(p)
         \/ \E id \in Id : Edit(id) \/ Flush(id) \/ WriteLands(id) \/ WriteFails(id)
         \/ \E id \in Id, by \in Session \cup {None} : RemoveAsked(id, by)
         \/ \E r \in removing : RemoveDeletes(r)
         \/ \E r \in restoring : RestoreInstalls(r)
         \/ Restart
    BY <1>1 DEF Next, vars, Open, WriteConflicts, RemoveTags, RestoreAsked, RestoreLists,
                RestoreLands, RestoreFails
  <2> QED
    BY <2>1, <2>2, <2>3, <2>4, <2>5, <2>6, <2>7, <2>8, <2>9, <2>10
<1>2. Inv /\ [Next]_vars => [\A id \in Here : Keeps(id)]_vars
  BY <1>1
<1> QED
  BY <1>2, InvariantHolds, PTL DEF Spec, RestoreKeepsEdits
=============================================================================

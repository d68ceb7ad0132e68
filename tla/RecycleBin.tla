----------------------------- MODULE RecycleBin -----------------------------
(***************************************************************************)
(* Deleting diagrams and bringing them back: remove, recoverable and       *)
(* restore of server/store.js over the bucket of server/files.mjs, with    *)
(* flushes under way, and what the doors do with the sessions that had the *)
(* diagram open (server/rest.js, server/protocol.js, server/hub.js).       *)
(*                                                                         *)
(* One server instance.  A document is the set of edits accepted into it.  *)
(* Each await of the code is a step of its own, so removals, restorations, *)
(* flushes and edits of one diagram interleave as requests do.             *)
(***************************************************************************)
EXTENDS Naturals, FiniteSets

CONSTANTS
    Id,             \* diagram ids that may be minted
    Session,        \* websocket sessions
    Principal,      \* who may own a diagram
    who,            \* the principal of each session
    None,           \* no entry, no object, no tag, no seat
    Template,       \* the seat of a session that is on a template
    MaxCreates,     \* bounds on the model: diagrams created by hand,
    MaxEdits,       \* edits accepted,
    MaxWrites,      \* generations the bucket gives out,
    MaxRemovals,    \* removals asked for,
    MaxRestores,    \* restorations asked for,
    MaxFailures     \* requests to the bucket that fail, and restarts

Doc     == SUBSET (1..MaxEdits)
Entry   == [doc : Doc, dirty : BOOLEAN, timer : BOOLEAN, born : Nat]
Object  == [gen : Nat, doc : Doc, tag : Principal \cup {None}]
Deleted == [id : Id, gen : Nat, doc : Doc, tag : Principal \cup {None}]
Write   == [doc : Doc, expected : Nat, born : Nat]
Removal == [id : Id, stage : {"tag", "delete"}, left : {1, 2}, by : Session \cup {None}, n : Nat]
Restore == [id : Id, by : Principal, stage : {"list", "restore", "read"}, gen : Nat, n : Nat]

ASSUME BinAssumption ==
    /\ who \in [Session -> Principal]
    /\ {MaxCreates, MaxEdits, MaxWrites, MaxRemovals, MaxRestores, MaxFailures} \subseteq Nat
    /\ Template \notin Id /\ None \notin Id \cup {Template} \cup Principal
    /\ None \notin Entry /\ None \notin Object /\ None \notin Write
    /\ \A doc \in Doc : None # doc

VARIABLES
    templates,      \* the image this server runs ships templates
    diagrams,       \* Store.diagrams: an entry or None for each id
    owner,          \* meta.owner of each minted id, which the document carries
    lost,           \* Store.lost
    object,         \* the live object of each id in the bucket, or None
    deleted,        \* soft-deleted objects, each with its id
    lastGen,        \* generations the bucket has given out
    known,          \* files.mjs generations: the generation last seen, 0 for none
    writing,        \* the flush under way for each id, or None
    removing, restoring,    \* calls of remove() and restore() under way
    seat,           \* the diagram each session is on
    installs, edits, removals, restores, faults, restarts,      \* counted for the bounds
    \* History, for the properties only:
    stored,         \* the document last written for each id, or None
    crossed,        \* ids whose removal met a flush, a restoration or a failed DELETE
    untagged,       \* ids an object of which was deleted without its tag
    raced,          \* ids two restorations had both found absent
    door            \* how each id was last deleted: "rest", "browser" or None

counts  == <<installs, edits, removals, restores, faults, restarts>>
history == <<stored, crossed, untagged, raced, door>>
bucket  == <<object, deleted, lastGen, known>>
vars    == <<templates, diagrams, owner, lost, bucket, writing, removing, restoring, seat, counts, history>>

Here == {id \in Id : diagrams[id] # None}
\* No call to the bucket is under way for this diagram.
AtRest(id) == /\ writing[id] = None
              /\ \A r \in removing \cup restoring : r.id # id
Minted == {id \in Id : owner[id] # None}

TypeOK ==
    /\ templates \in BOOLEAN
    /\ diagrams \in [Id -> Entry \cup {None}]
    /\ owner \in [Id -> Principal \cup {None}]
    /\ object \in [Id -> Object \cup {None}]
    /\ deleted \subseteq Deleted
    /\ lastGen \in Nat /\ known \in [Id -> Nat]
    /\ writing \in [Id -> Write \cup {None}]
    /\ removing \subseteq Removal /\ restoring \subseteq Restore
    /\ seat \in [Session -> Id \cup {None, Template}]
    /\ installs \in Nat /\ edits \in Nat /\ removals \in Nat /\ restores \in Nat
    /\ faults \in Nat /\ restarts \in Nat
    /\ lost \cup crossed \cup untagged \cup raced \subseteq Id
    /\ stored \in [Id -> Doc \cup {None}]
    /\ door \in [Id -> {"rest", "browser", None}]

\* An entry as install() makes it: from storage clean, otherwise dirty at once.
Fresh(doc, dirty, n) == [doc |-> doc, dirty |-> dirty, timer |-> dirty, born |-> n]

\* seed: a store with no templates is never left empty, and its seed is owned
\* by whoever emptied it.
Seeds(ds, p) ==
    \E id \in Id \ Minted :
        /\ diagrams' = [ds EXCEPT ![id] = Fresh({}, TRUE, installs + 1)]
        /\ owner' = [owner EXCEPT ![id] = p]

\* The store as init() leaves it over an empty bucket; the seed is adopted by
\* the deployment's owner.
Init ==
    /\ templates \in BOOLEAN
    /\ \E id \in Id, p \in Principal :
        IF templates
        THEN diagrams = [i \in Id |-> None] /\ owner = [i \in Id |-> None]
        ELSE /\ diagrams = [i \in Id |-> IF i = id THEN Fresh({}, TRUE, 0) ELSE None]
             /\ owner = [i \in Id |-> IF i = id THEN p ELSE None]
    /\ lost = {}
    /\ object = [id \in Id |-> None] /\ deleted = {} /\ lastGen = 0
    /\ known = [id \in Id |-> 0]
    /\ writing = [id \in Id |-> None]
    /\ removing = {} /\ restoring = {}
    /\ seat = [s \in Session |-> None]
    /\ installs = 0 /\ edits = 0 /\ removals = 0 /\ restores = 0 /\ faults = 0 /\ restarts = 0
    /\ stored = [id \in Id |-> None] /\ crossed = {} /\ untagged = {} /\ raced = {}
    /\ door = [id \in Id |-> None]

Fault == faults + restarts < MaxFailures /\ faults' = faults + 1

-----------------------------------------------------------------------------
(* What is in the store *)

\* canRead and canWrite, where nothing is shared: the owner's.
Mine(id, p) == owner[id] = p

\* create: an id never used, owned by its creator, dirty from the start.
Create(p) ==
    /\ Cardinality(Minted) < MaxCreates
    /\ Seeds(diagrams, p)
    /\ installs' = installs + 1
    /\ UNCHANGED <<templates, lost, bucket, writing, removing, restoring, seat, edits, removals,
                   restores, faults, restarts, history>>

\* open: a session takes its seat on a diagram it may read.
Open(s, id) ==
    /\ id \in Here /\ Mine(id, who[s]) /\ seat[s] # id
    /\ seat' = [seat EXCEPT ![s] = id]
    /\ UNCHANGED <<templates, diagrams, owner, lost, bucket, writing, removing, restoring, counts, history>>

\* A commit accepted: the document takes the edit, the entry is dirty.
Edit(id) ==
    /\ id \in Here \ lost /\ edits < MaxEdits
    /\ edits' = edits + 1
    /\ diagrams' = [diagrams EXCEPT ![id].doc = @ \cup {edits + 1}, ![id].dirty = TRUE,
                                    ![id].timer = TRUE]
    /\ UNCHANGED <<templates, owner, lost, bucket, writing, removing, restoring, seat, installs, removals,
                   restores, faults, restarts, history>>

-----------------------------------------------------------------------------
(* Flushing.  Durability models the chain of writes; one is enough here.     *)

Flush(id) ==
    /\ id \in Here /\ diagrams[id].timer /\ writing[id] = None
    /\ diagrams' = [diagrams EXCEPT ![id].timer = FALSE]
    /\ writing' = IF diagrams[id].dirty
                  THEN [writing EXCEPT ![id] = [doc |-> diagrams[id].doc, expected |-> known[id],
                                                born |-> diagrams[id].born]]
                  ELSE writing
    /\ UNCHANGED <<templates, owner, lost, bucket, removing, restoring, seat, counts, history>>

\* flush() holds the entry it was called for, which may be in the store no longer.
Returned(id, dirty, timer) ==
    IF id \in Here /\ diagrams[id].born = writing[id].born
    THEN [diagrams EXCEPT ![id].dirty = dirty, ![id].timer = @ \/ timer]
    ELSE diagrams

LiveGen(id) == IF object[id] = None THEN 0 ELSE object[id].gen

WriteLands(id) ==
    /\ writing[id] # None /\ writing[id].expected = LiveGen(id) /\ lastGen < MaxWrites
    /\ object' = [object EXCEPT ![id] = [gen |-> lastGen + 1, doc |-> writing[id].doc, tag |-> None]]
    /\ lastGen' = lastGen + 1
    /\ known' = [known EXCEPT ![id] = lastGen + 1]
    /\ diagrams' = Returned(id, FALSE, FALSE)
    /\ writing' = [writing EXCEPT ![id] = None]
    /\ stored' = [stored EXCEPT ![id] = writing[id].doc]
    /\ UNCHANGED <<templates, owner, lost, deleted, removing, restoring, seat, counts, crossed, untagged, raced, door>>

\* 412: the generation moved, and the store takes itself to have been replaced.
WriteConflicts(id) ==
    /\ writing[id] # None /\ writing[id].expected # LiveGen(id)
    /\ lost' = lost \cup {id}
    /\ writing' = [writing EXCEPT ![id] = None]
    /\ UNCHANGED <<templates, diagrams, owner, bucket, removing, restoring, seat, counts, history>>

WriteFails(id) ==
    /\ writing[id] # None /\ Fault
    /\ diagrams' = Returned(id, TRUE, TRUE)
    /\ writing' = [writing EXCEPT ![id] = None]
    /\ UNCHANGED <<templates, owner, lost, bucket, removing, restoring, seat, installs, edits, removals,
                   restores, restarts, history>>

-----------------------------------------------------------------------------
(* remove *)

\* The door's check and all of remove() before its first await.
\* `by` is the session that asked over the websocket, None for REST.
RemoveAsked(id, by) ==
    /\ id \in Here \ lost /\ removals < MaxRemovals
    /\ by # None => Mine(id, who[by])
    /\ removals' = removals + 1
    /\ diagrams' = [diagrams EXCEPT ![id] = None]
    /\ removing' = removing \cup {[id |-> id, stage |-> "tag", left |-> 2, by |-> by, n |-> removals]}
    /\ crossed' = IF AtRest(id) THEN crossed ELSE crossed \cup {id}
    /\ door' = [door EXCEPT ![id] = IF by = None THEN "rest" ELSE "browser"]
    /\ UNCHANGED <<templates, owner, lost, bucket, writing, restoring, seat, installs, edits, restores,
                   faults, restarts, stored, untagged, raced>>

\* A slip: a PATCH that fails ends remove().
RemoveTagsOrStops(r) ==
    /\ r.stage = "tag"
    /\ \/ /\ object' = IF object[r.id] = None THEN object
                       ELSE [object EXCEPT ![r.id].tag = owner[r.id]]
          /\ removing' = (removing \ {r}) \cup {[r EXCEPT !.stage = "delete"]}
          /\ UNCHANGED <<faults, untagged>>
       \/ /\ Fault /\ untagged' = untagged \cup {r.id} /\ UNCHANGED object
          /\ removing' = removing \ {r}
    /\ UNCHANGED <<templates, diagrams, owner, lost, deleted, lastGen, known, writing, restoring,
                   seat, installs, edits, removals, restores, restarts, stored, crossed, raced, door>>

\* The metadata PATCH, whose failure only warns: who the object belonged to.
RemoveTags(r) ==
    /\ r.stage = "tag"
    /\ removing' = (removing \ {r}) \cup {[r EXCEPT !.stage = "delete"]}
    /\ \/ /\ object' = IF object[r.id] = None THEN object
                       ELSE [object EXCEPT ![r.id].tag = owner[r.id]]
          /\ UNCHANGED <<faults, untagged>>
       \/ Fault /\ untagged' = untagged \cup {r.id} /\ UNCHANGED object
    /\ UNCHANGED <<templates, diagrams, owner, lost, deleted, lastGen, known, writing, restoring,
                   seat, installs, edits, removals, restores, restarts, stored, crossed, raced, door>>

SoftDelete(id) == deleted \cup {[id |-> id, gen |-> object[id].gen, doc |-> object[id].doc,
                                 tag |-> object[id].tag]}

\* first: a diagram this principal may read, else a template.
Firsts(p) ==
    IF \E id \in Here : Mine(id, p) THEN {id \in Here : Mine(id, p)}
    ELSE IF templates THEN {Template} ELSE {None}

\* What the door does when remove() has answered.  REST moves everyone who was
\* on the diagram, and leaves be whoever has no survivor; the websocket moves
\* the session that asked.
SeatsAfter(r, new) ==
    IF r.by = None
    THEN /\ \A s \in Session :
                IF seat[s] # r.id THEN new[s] = seat[s]
                ELSE \/ new[s] \in Firsts(who[s])' \ {None}
                     \/ Firsts(who[s])' = {None} /\ new[s] = r.id
    ELSE /\ \A s \in Session \ {r.by} : new[s] = seat[s]
         /\ \/ new[r.by] \in Firsts(who[r.by])' \ {None}
            \/ /\ Firsts(who[r.by])' = {None}
               /\ new[r.by] = IF seat[r.by] = r.id THEN None ELSE seat[r.by]

\* One of the two DELETEs: the object goes into the window; absent is success.
\* A DELETE that fails ends remove() with a warning, and the caller is not told.
RemoveDeletes(r) ==
    /\ r.stage = "delete"
    /\ \/ /\ deleted' = IF object[r.id] = None THEN deleted ELSE SoftDelete(r.id)
          /\ object' = [object EXCEPT ![r.id] = None]
          /\ known' = [known EXCEPT ![r.id] = 0]
          /\ removing' = IF r.left = 1 THEN removing \ {r}
                         ELSE (removing \ {r}) \cup {[r EXCEPT !.stage = "tag", !.left = 1]}
          /\ UNCHANGED <<faults, crossed>>
       \/ /\ Fault /\ crossed' = crossed \cup {r.id}
          /\ removing' = removing \ {r}
          /\ UNCHANGED <<deleted, object, known>>
    /\ UNCHANGED <<templates, lost, lastGen, writing, restoring, edits, removals, restores,
                   restarts, stored, untagged, raced, door>>
    /\ LET ends == \A q \in removing' : q.n # r.n
       IN  /\ IF ends /\ Here = {} /\ ~templates
              THEN Seeds(diagrams, owner[r.id]) /\ installs' = installs + 1
              ELSE UNCHANGED <<diagrams, owner, installs>>
           /\ \E new \in [Session -> Id \cup {None, Template}] :
                /\ IF ends THEN SeatsAfter(r, new) ELSE new = seat
                /\ seat' = new

-----------------------------------------------------------------------------
(* recoverable and restore *)

InWindow(id) == {d \in deleted : d.id = id}
\* A slip: the oldest generation is taken.
Oldest(id)   == CHOOSE d \in InWindow(id) : \A e \in InWindow(id) : d.gen <= e.gen

Newest(id)   == CHOOSE d \in InWindow(id) : \A e \in InWindow(id) : e.gen <= d.gen

\* A slip: what is here by the time the window is listed is offered too.
RecoverableAnyway(p) == {id \in Id : InWindow(id) # {} /\ Newest(id).tag = p}

\* recoverable: one entry per id that is not here, its newest generation, shown
\* to the principal the tag names.
Recoverable(p) == {id \in Id \ Here : InWindow(id) # {} /\ Newest(id).tag = p}

RestoreAsked(id, p) ==
    /\ id \in Minted \ Here /\ restores < MaxRestores
    /\ restores' = restores + 1
    /\ restoring' = restoring \cup {[id |-> id, by |-> p, stage |-> "list", gen |-> 0, n |-> restores]}
    /\ crossed' = IF \E r \in removing : r.id = id THEN crossed \cup {id} ELSE crossed
    /\ UNCHANGED <<templates, diagrams, owner, lost, bucket, writing, removing, seat, installs, edits,
                   removals, faults, restarts, stored, untagged, raced, door>>

\* The listing answers: the entry asked for is in it, or restore() refuses.
RestoreLists(r) ==
    /\ r.stage = "list"
    /\ restoring' = (restoring \ {r}) \cup
            (IF r.id \in Recoverable(r.by)
             THEN {[r EXCEPT !.stage = "restore", !.gen = Newest(r.id).gen]} ELSE {})
    /\ raced' = IF \E q \in restoring : q.id = r.id /\ q.stage # "list"
                THEN raced \cup {r.id} ELSE raced
    /\ UNCHANGED <<templates, diagrams, owner, lost, bucket, writing, removing, seat, counts, stored,
                   crossed, untagged, door>>

\* The bucket makes a live copy of the generation; one that was live is replaced.
RestoreLands(r) ==
    /\ r.stage = "restore" /\ lastGen < MaxWrites
    /\ \E d \in deleted :
        /\ d.id = r.id /\ d.gen = r.gen
        /\ object' = [object EXCEPT ![r.id] = [gen |-> lastGen + 1, doc |-> d.doc, tag |-> d.tag]]
    /\ deleted' = IF object[r.id] = None THEN deleted ELSE SoftDelete(r.id)
    /\ lastGen' = lastGen + 1
    /\ known' = [known EXCEPT ![r.id] = lastGen + 1]
    /\ restoring' = (restoring \ {r}) \cup {[r EXCEPT !.stage = "read"]}
    /\ UNCHANGED <<templates, diagrams, owner, lost, writing, removing, seat, counts, history>>

RestoreFails(r) ==
    /\ r.stage \in {"restore", "read"} /\ Fault
    /\ restoring' = restoring \ {r}
    /\ crossed' = crossed \cup {r.id}
    /\ UNCHANGED <<templates, diagrams, owner, lost, bucket, writing, removing, seat, installs, edits,
                   removals, restores, restarts, stored, untagged, raced, door>>

\* What is live is read back and installed, over whatever is there by now.
RestoreInstalls(r) ==
    /\ r.stage = "read"
    /\ restoring' = restoring \ {r}
    /\ IF object[r.id] = None
       THEN UNCHANGED <<diagrams, known, installs>>
       ELSE /\ diagrams' = [diagrams EXCEPT ![r.id] = Fresh(object[r.id].doc, FALSE, installs + 1)]
            /\ known' = [known EXCEPT ![r.id] = object[r.id].gen]
            /\ installs' = installs + 1
    /\ UNCHANGED <<templates, owner, lost, object, deleted, lastGen, writing, removing, seat, edits,
                   removals, restores, faults, restarts, history>>

-----------------------------------------------------------------------------
\* The process dies with what it had under way and boots from the bucket.
Restart ==
    /\ faults + restarts < MaxFailures
    /\ restarts' = restarts + 1
    /\ LET loaded == [id \in Id |-> IF object[id] = None THEN None
                                    ELSE Fresh(object[id].doc, FALSE, installs + 1)]
       IN  IF ~templates /\ \A id \in Id : object[id] = None
           THEN \E p \in Principal : Seeds(loaded, p)
           ELSE diagrams' = loaded /\ UNCHANGED owner
    /\ installs' = installs + 1
    /\ lost' = {}
    /\ known' = [id \in Id |-> LiveGen(id)]
    /\ writing' = [id \in Id |-> None]
    /\ removing' = {} /\ restoring' = {}
    /\ seat' = [s \in Session |-> None]
    /\ UNCHANGED <<templates, object, deleted, lastGen, edits, removals, restores, faults, history>>

Next ==
    \/ \E p \in Principal : Create(p)
    \/ \E s \in Session, id \in Id : Open(s, id)
    \/ \E id \in Id : Edit(id)
    \/ \E id \in Id : Flush(id) \/ WriteLands(id) \/ WriteConflicts(id) \/ WriteFails(id)
    \/ \E id \in Id, by \in Session \cup {None} : RemoveAsked(id, by)
    \/ \E r \in removing : RemoveTags(r) \/ RemoveDeletes(r)
    \/ \E id \in Id, p \in Principal : RestoreAsked(id, p)
    \/ \E r \in restoring : RestoreLists(r) \/ RestoreLands(r) \/ RestoreFails(r) \/ RestoreInstalls(r)
    \/ Restart

Spec == Init /\ [][Next]_vars

-----------------------------------------------------------------------------
(* Properties *)

\* What was deleted stays deleted: once a removal has run its course, with no
\* flush, restoration or failed DELETE crossing it, the bucket holds no object that
\* the next boot (init) would list and load.
GoneStaysGone ==
    \A id \in Minted \ (Here \cup crossed) : AtRest(id) => object[id] = None

\* The bin offers a deleted diagram to its owner, as it was last written: not an
\* earlier generation, and not under somebody else's name (B109).
BinHoldsTheLast ==
    \A id \in Minted \ (Here \cup crossed \cup untagged \cup raced) :
        AtRest(id) /\ stored[id] # None
            => id \in Recoverable(owner[id]) /\ Newest(id).doc = stored[id]

\* An accepted edit is never taken out of a diagram that is being served by a
\* restoration, which installs a whole document, unless two restorations had both
\* found that diagram absent (restore looks, then awaits the bucket twice).
RestoreKeepsEdits ==
    [][\A id \in Here : id \in Here' /\ restarts' = restarts /\ id \notin raced'
            => diagrams[id].doc \subseteq diagrams'[id].doc]_vars

=============================================================================

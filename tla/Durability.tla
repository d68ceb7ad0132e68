----------------------------- MODULE Durability -----------------------------
(***************************************************************************)
(* How an accepted change reaches storage: server/store.js (markDirty,     *)
(* flush, durableVersion, remove, boot) over the two backends of           *)
(* server/files.mjs, for one diagram served by some server instances.      *)
(*                                                                         *)
(* The document is the sequence of changes accepted into it.  A change is  *)
(* "minted" when it takes a version (commit, undo, redo) and not when it   *)
(* only marks the entry dirty (grants, owner, publication).  A flush       *)
(* serialises the document when it is CALLED; what it records when the     *)
(* write returns is read then.                                             *)
(***************************************************************************)
EXTENDS Integers, Sequences, FiniteSets, SequencesExt, Functions

CONSTANTS
    Instance,       \* server processes that share the storage
    None,           \* no such object in the storage
    Blocking,       \* TRUE: fsFiles, whose write ends in the call; FALSE: gcsFiles
    MaxChanges,     \* bounds on the model: changes accepted,
    MaxCalls,       \* flush calls pending at one instance,
    MaxFaults,      \* storage requests or answers that fail,
    MaxCrashes,     \* processes that die,
    MaxFailures,    \* both together,
    MaxRemovals     \* deletions of the diagram

ASSUME BoundsAssumption ==
    /\ Blocking \in BOOLEAN
    /\ {MaxChanges, MaxCalls, MaxFaults, MaxCrashes, MaxFailures, MaxRemovals} \subseteq Nat

Change == [id : Nat \ {0}, minted : BOOLEAN]
Text   == Seq(Change)
Object == [gen : Nat \ {0}, text : Text, by : Instance \X Nat]

ASSUME NoneAssumption == None \notin Object

Version(text) == Cardinality({k \in DOMAIN text : text[k].minted})    \* Log.version

\* A write the backend has queued for one flush call: `expected` is read when it
\* is sent, `gen` comes back when it has landed.
Call == [text : Text, stage : {"queued", "sent", "ok", "conflict"}, expected : Nat, gen : Nat]

VARIABLES
    object,         \* the diagram's object in the storage, or None
    lastGen,        \* generations the storage has given out
    adrift,         \* requests whose sender has gone, which may still land
    up, epoch,      \* whether each process runs, and which incarnation it is
    held, doc,      \* Store.diagrams holds the entry; its document
    dirty, timer,   \* entry.dirty; entry.timer is armed
    flushed,        \* entry.flushedVersion, the durableVersion clients are told
    lost,           \* the diagram is in Store.lost
    known,          \* files.mjs generations: the generation last seen, 0 for none
    calls,          \* files.mjs inFlight: this object's chain of writes
    deleting,       \* what is left of remove()'s two DELETEs: even sent, odd landed
    created, accepted, faults, crashes, removals      \* counted for the bounds

memory == <<held, doc, dirty, timer, flushed, lost>>
counts == <<created, accepted, faults, crashes, removals>>
vars   == <<object, lastGen, adrift, up, epoch, memory, known, calls, deleting, counts>>

Init ==
    /\ object = None /\ lastGen = 0 /\ adrift = {}
    /\ up \in [Instance -> BOOLEAN]
    /\ epoch = [i \in Instance |-> 0]
    /\ held = [i \in Instance |-> FALSE]
    /\ doc = [i \in Instance |-> << >>]
    /\ dirty = [i \in Instance |-> FALSE]
    /\ timer = [i \in Instance |-> FALSE]
    /\ flushed = [i \in Instance |-> 0]
    /\ lost = [i \in Instance |-> FALSE]
    /\ known = [i \in Instance |-> 0]
    /\ calls = [i \in Instance |-> << >>]
    /\ deleting = [i \in Instance |-> 0]
    /\ created = FALSE
    /\ accepted = 0 /\ faults = 0 /\ crashes = 0 /\ removals = 0

Fault == /\ faults < MaxFaults /\ faults + crashes < MaxFailures
         /\ faults' = faults + 1

-----------------------------------------------------------------------------
(* The entry *)

MarkDirty(i) ==
    /\ dirty' = [dirty EXCEPT ![i] = TRUE]
    /\ timer' = [timer EXCEPT ![i] = TRUE]

\* create: the server mints a fresh id, so it happens once and finds no object.
Create(i) ==
    /\ up[i] /\ ~created
    /\ created' = TRUE
    /\ held' = [held EXCEPT ![i] = TRUE]
    /\ MarkDirty(i)
    /\ UNCHANGED <<object, lastGen, adrift, up, epoch, doc, flushed, lost, known, calls,
                   deleting, accepted, faults, crashes, removals>>

Accept(i, minted) ==
    /\ up[i] /\ held[i] /\ accepted < MaxChanges
    /\ accepted' = accepted + 1
    /\ doc' = [doc EXCEPT ![i] = Append(@, [id |-> accepted + 1, minted |-> minted])]
    /\ MarkDirty(i)
    /\ UNCHANGED <<object, lastGen, adrift, up, epoch, held, flushed, lost, known, calls,
                   deleting, created, faults, crashes, removals>>

\* commit, undo and redo stop once authority is lost (#mayWrite)...
Commit(i) == ~lost[i] /\ Accept(i, TRUE)

\* ...grants, ownership and publication ask who the caller is and not that.
Setting(i) == Accept(i, FALSE)

-----------------------------------------------------------------------------
(* flush *)

\* A slip: what a write does when it returns is done although it threw.
FlushBlockingRegardless(i, armed) ==
    /\ timer' = [timer EXCEPT ![i] = armed]
    /\ dirty' = [dirty EXCEPT ![i] = FALSE]
    /\ flushed' = [flushed EXCEPT ![i] = Version(doc[i])]
    /\ \/ /\ object' = [gen |-> lastGen + 1, text |-> doc[i], by |-> <<i, epoch[i]>>]
          /\ lastGen' = lastGen + 1
          /\ UNCHANGED <<calls, faults>>
       \/ Fault /\ UNCHANGED <<object, lastGen, calls>>

\* A slip: a write that threw is logged and not tried again, as before B4.
FlushBlockingOnce(i, armed) ==
    /\ timer' = [timer EXCEPT ![i] = armed]
    /\ \/ /\ object' = [gen |-> lastGen + 1, text |-> doc[i], by |-> <<i, epoch[i]>>]
          /\ lastGen' = lastGen + 1
          /\ dirty' = [dirty EXCEPT ![i] = FALSE]
          /\ flushed' = [flushed EXCEPT ![i] = Version(doc[i])]
          /\ UNCHANGED <<calls, faults>>
       \/ Fault /\ UNCHANGED <<object, lastGen, dirty, flushed, calls>>

\* fsFiles.write ends before anything else runs: what was written is what is
\* there.  When it throws (a full disk, say) B4 arms the timer again.
FlushBlocking(i, armed) ==
    \/ /\ object' = [gen |-> lastGen + 1, text |-> doc[i], by |-> <<i, epoch[i]>>]
       /\ lastGen' = lastGen + 1
       /\ dirty' = [dirty EXCEPT ![i] = FALSE]
       /\ flushed' = [flushed EXCEPT ![i] = Version(doc[i])]
       /\ timer' = [timer EXCEPT ![i] = armed]
       /\ UNCHANGED <<calls, faults>>
    \/ /\ Fault
       /\ timer' = [timer EXCEPT ![i] = TRUE]
       /\ UNCHANGED <<object, lastGen, dirty, flushed, calls>>

\* gcsFiles.write chains the text behind the writes already in flight.
FlushChained(i, armed) ==
    /\ Len(calls[i]) < MaxCalls
    /\ calls' = [calls EXCEPT ![i] = Append(@, [text |-> doc[i], stage |-> "queued",
                                                expected |-> 0, gen |-> 0])]
    /\ timer' = [timer EXCEPT ![i] = armed]
    /\ UNCHANGED <<object, lastGen, dirty, flushed, faults>>

\* flush returns at once when the entry is gone or nothing is dirty.
Flush(i, armed) ==
    /\ IF ~(held[i] /\ dirty[i])
       THEN /\ timer' = [timer EXCEPT ![i] = armed]
            /\ UNCHANGED <<object, lastGen, dirty, flushed, calls, faults>>
       ELSE IF Blocking THEN FlushBlocking(i, armed) ELSE FlushChained(i, armed)
    /\ UNCHANGED <<adrift, up, epoch, held, doc, lost, known, deleting,
                   created, accepted, crashes, removals>>

\* The debounce, or B4's retry, elapses.
TimerFires(i) == up[i] /\ timer[i] /\ Flush(i, FALSE)

\* A REST write flushes before it answers, and so does flushAll at shutdown.
FlushNow(i) == up[i] /\ dirty[i] /\ Flush(i, timer[i])

-----------------------------------------------------------------------------
(* The chain of writes to one object *)

\* A slip: writes to one object go out together, as before B185.
TurnOfAnyone(i, k) == k \in DOMAIN calls[i]

\* One write at a time (B185): the next starts when the one before has settled.
Turn(i, k) == k = 1

AtStage(i, k, stage) == Turn(i, k) /\ calls[i][k].stage = stage

\* The precondition is the generation known when the request is built.
Send(i, k) ==
    /\ AtStage(i, k, "queued")
    /\ calls' = [calls EXCEPT ![i][k].stage = "sent", ![i][k].expected = known[i]]
    /\ UNCHANGED <<object, lastGen, adrift, up, epoch, memory, known, deleting, counts>>

Generation(o) == IF o = None THEN 0 ELSE o.gen

\* A slip: the precondition is not sent.
MatchesAnything(expected) == TRUE

\* The storage takes a conditional PUT: it lands if the object is still at the
\* generation it names (0: if there is none), else it is refused with a 412.
Matches(expected) == Generation(object) = expected

Put(text, by) ==
    /\ object' = [gen |-> lastGen + 1, text |-> text, by |-> by]
    /\ lastGen' = lastGen + 1

Land(i, k) ==
    /\ AtStage(i, k, "sent")
    /\ IF Matches(calls[i][k].expected)
       THEN /\ Put(calls[i][k].text, <<i, epoch[i]>>)
            /\ calls' = [calls EXCEPT ![i][k].stage = "ok", ![i][k].gen = lastGen + 1]
       ELSE /\ calls' = [calls EXCEPT ![i][k].stage = "conflict"]
            /\ UNCHANGED <<object, lastGen>>
    /\ UNCHANGED <<adrift, up, epoch, memory, known, deleting, counts>>

\* call(): a retryable status, before or after the request took effect, sends
\* the same request again, with the generation it was built with.
Retry(i, k) ==
    /\ AtStage(i, k, "ok") \/ AtStage(i, k, "conflict")
    /\ Fault
    /\ calls' = [calls EXCEPT ![i][k].stage = "sent"]
    /\ UNCHANGED <<object, lastGen, adrift, up, epoch, memory, known, deleting,
                   created, accepted, crashes, removals>>

Settle(i, k) == calls' = [calls EXCEPT ![i] = RemoveAt(@, k)]

\* The write returned: flush clears dirty and reads the watermark NOW.
Answer(i, k) ==
    /\ AtStage(i, k, "ok")
    /\ known' = [known EXCEPT ![i] = calls[i][k].gen]
    /\ dirty' = [dirty EXCEPT ![i] = FALSE]
    /\ flushed' = [flushed EXCEPT ![i] = Version(doc[i])]
    /\ Settle(i, k)
    /\ UNCHANGED <<object, lastGen, adrift, up, epoch, held, doc, timer, lost, deleting, counts>>

\* A slip: the refusal is taken as news of the current generation.
RefusedCatchesUp(i, k) ==
    /\ AtStage(i, k, "conflict")
    /\ lost' = [lost EXCEPT ![i] = TRUE]
    /\ known' = [known EXCEPT ![i] = Generation(object)]
    /\ Settle(i, k)
    /\ UNCHANGED <<object, lastGen, adrift, up, epoch, held, doc, dirty, timer, flushed,
                   deleting, counts>>

\* A 412: the instance stops claiming the diagram, and does not retry (B178).
Refused(i, k) ==
    /\ AtStage(i, k, "conflict")
    /\ lost' = [lost EXCEPT ![i] = TRUE]
    /\ Settle(i, k)
    /\ UNCHANGED <<object, lastGen, adrift, up, epoch, held, doc, dirty, timer, flushed,
                   known, deleting, counts>>

\* The connection breaks, or the retries run out: the answer never comes, and a
\* request that has not landed may land yet.  The write throws and B4 arms the timer.
Break(i, k) ==
    /\ Turn(i, k) /\ calls[i][k].stage # "queued"
    /\ Fault
    /\ adrift' = IF calls[i][k].stage = "sent"
                 THEN adrift \cup {[text |-> calls[i][k].text, by |-> <<i, epoch[i]>>,
                                    expected |-> calls[i][k].expected]}
                 ELSE adrift
    /\ timer' = [timer EXCEPT ![i] = TRUE]
    /\ Settle(i, k)
    /\ UNCHANGED <<object, lastGen, up, epoch, held, doc, dirty, flushed, lost, known,
                   deleting, created, accepted, crashes, removals>>

AdriftLands(request) ==
    /\ adrift' = adrift \ {request}
    /\ IF Matches(request.expected)
       THEN Put(request.text, request.by)
       ELSE UNCHANGED <<object, lastGen>>
    /\ UNCHANGED <<up, epoch, memory, known, calls, deleting, counts>>

-----------------------------------------------------------------------------
(* remove *)

\* The entry goes first and the object after it, by two DELETEs that name no
\* generation and wait for no write: entry.file, then the canonical name, which
\* are the same object.
RemoveDiagram(i) ==
    /\ up[i] /\ held[i] /\ ~lost[i] /\ deleting[i] = 0
    /\ removals < MaxRemovals /\ removals' = removals + 1
    /\ timer' = [timer EXCEPT ![i] = FALSE]
    /\ held' = [held EXCEPT ![i] = FALSE]
    /\ deleting' = [deleting EXCEPT ![i] = 4]
    /\ UNCHANGED <<object, lastGen, adrift, up, epoch, doc, dirty, flushed, lost, known,
                   calls, created, accepted, faults, crashes>>

DeleteLands(i) ==
    /\ deleting[i] \in {4, 2}
    /\ object' = None
    /\ deleting' = [deleting EXCEPT ![i] = @ - 1]
    /\ UNCHANGED <<lastGen, adrift, up, epoch, memory, known, calls, counts>>

DeleteAnswers(i) ==
    /\ deleting[i] \in {3, 1}
    /\ known' = [known EXCEPT ![i] = 0]
    /\ deleting' = [deleting EXCEPT ![i] = @ - 1]
    /\ UNCHANGED <<object, lastGen, adrift, up, epoch, memory, calls, counts>>

\* A DELETE that throws ends remove(), which has already answered for the entry.
DeleteFails(i) ==
    /\ deleting[i] > 0
    /\ Fault
    /\ deleting' = [deleting EXCEPT ![i] = 0]
    /\ UNCHANGED <<object, lastGen, adrift, up, epoch, memory, known, calls,
                   created, accepted, crashes, removals>>

-----------------------------------------------------------------------------
(* The process *)

\* Memory goes; a request already sent may land yet, or never.
Crash(i) ==
    /\ up[i] /\ crashes < MaxCrashes /\ faults + crashes < MaxFailures
    /\ crashes' = crashes + 1
    /\ up' = [up EXCEPT ![i] = FALSE]
    /\ held' = [held EXCEPT ![i] = FALSE]
    /\ doc' = [doc EXCEPT ![i] = << >>]
    /\ dirty' = [dirty EXCEPT ![i] = FALSE]
    /\ timer' = [timer EXCEPT ![i] = FALSE]
    /\ flushed' = [flushed EXCEPT ![i] = 0]
    /\ lost' = [lost EXCEPT ![i] = FALSE]
    /\ known' = [known EXCEPT ![i] = 0]
    /\ calls' = [calls EXCEPT ![i] = << >>]
    /\ deleting' = [deleting EXCEPT ![i] = 0]
    /\ adrift' = adrift \cup
         {[text |-> calls[i][k].text, by |-> <<i, epoch[i]>>, expected |-> calls[i][k].expected] :
            k \in {k \in DOMAIN calls[i] : calls[i][k].stage = "sent"}}
    /\ UNCHANGED <<object, lastGen, epoch, created, accepted, faults, removals>>

\* init(): what the storage holds is read back, durable at the version it carries.
Boot(i) ==
    /\ ~up[i]
    /\ up' = [up EXCEPT ![i] = TRUE]
    /\ epoch' = [epoch EXCEPT ![i] = @ + 1]
    /\ IF object = None
       THEN UNCHANGED <<held, doc, flushed, known>>
       ELSE /\ held' = [held EXCEPT ![i] = TRUE]
            /\ doc' = [doc EXCEPT ![i] = object.text]
            /\ flushed' = [flushed EXCEPT ![i] = Version(object.text)]
            /\ known' = [known EXCEPT ![i] = object.gen]
    /\ UNCHANGED <<object, lastGen, adrift, dirty, timer, lost, calls, deleting, counts>>

Storing(i, k) ==
    \/ Send(i, k) \/ Land(i, k) \/ Retry(i, k)
    \/ Answer(i, k) \/ Refused(i, k) \/ Break(i, k)

Next ==
    \/ \E i \in Instance :
        \/ Create(i) \/ Commit(i) \/ Setting(i)
        \/ TimerFires(i) \/ FlushNow(i)
        \/ \E k \in DOMAIN calls[i] : Storing(i, k)
        \/ RemoveDiagram(i) \/ DeleteLands(i) \/ DeleteAnswers(i) \/ DeleteFails(i)
        \/ Crash(i) \/ Boot(i)
    \/ \E request \in adrift : AdriftLands(request)

\* A timer that is armed fires, and a request in flight is taken and answered.
Fairness ==
    \A i \in Instance :
        /\ WF_vars(TimerFires(i))
        /\ WF_vars(\E k \in DOMAIN calls[i] :
                      Send(i, k) \/ Land(i, k) \/ Answer(i, k) \/ Refused(i, k))

Spec     == Init /\ [][Next]_vars
FairSpec == Spec /\ Fairness

-----------------------------------------------------------------------------
(* Properties *)

TypeOK ==
    /\ object = None \/ object \in Object
    /\ lastGen \in Nat
    /\ \A r \in adrift : r \in [text : Text, by : Instance \X Nat, expected : Nat]
    /\ up \in [Instance -> BOOLEAN] /\ epoch \in [Instance -> Nat]
    /\ held \in [Instance -> BOOLEAN] /\ doc \in [Instance -> Text]
    /\ dirty \in [Instance -> BOOLEAN] /\ timer \in [Instance -> BOOLEAN]
    /\ flushed \in [Instance -> Nat] /\ lost \in [Instance -> BOOLEAN]
    /\ known \in [Instance -> Nat] /\ calls \in [Instance -> Seq(Call)]
    /\ deleting \in [Instance -> 0 .. 4]
    /\ created \in BOOLEAN
    /\ accepted \in Nat /\ faults \in Nat /\ crashes \in Nat /\ removals \in Nat

\* HOSTING.md's compare-and-swap, end to end: a write that lands never discards a
\* change another write had stored, whoever sent it, however late it arrives,
\* and whatever was retried or restarted in between.
StoredHistoryGrows ==
    [][object # None /\ object' # None => IsPrefix(object.text, object'.text)]_vars

\* AUTHORITY.md 4: losing authority is final.  Nothing an instance that has lost
\* the diagram still has queued or accepts afterwards reaches the storage.
LostWritesNothing ==
    [][\A i \in Instance :
          lost[i] /\ object' # object /\ object' # None => object'.by # <<i, epoch[i]>>]_vars

\* "That refusal is PROOF: this instance is no longer authoritative" (store.js,
\* B178): a write is refused only where the object was written by somebody else.
ProvesAnother(i, k) ==
    k \in DOMAIN calls'[i] /\ calls[i][k].stage = "sent" /\ calls'[i][k].stage = "conflict"
    => object # None /\ object.by # <<i, epoch[i]>>

\* That holds while no request has failed: an instance is not refused because of its
\* own queued writes (B185).  A request repeated after it had landed is.
RefusalIsProofUnfailed ==
    [][faults = 0 => \A i \in Instance : \A k \in DOMAIN calls[i] : ProvesAnother(i, k)]_vars

\* What durableVersion tells a client to forget is in the storage: every change
\* minted at or below the watermark would survive a crash now.
WatermarkHonest ==
    \A i \in Instance : held[i] =>
        \A k \in DOMAIN doc[i] :
            /\ doc[i][k].minted
            /\ Version(SubSeq(doc[i], 1, k)) <= flushed[i]
            => object # None /\ doc[i][k] \in Range(object.text)

\* "`dirty` answers 'is anything unwritten?'" (store.js, durableVersion).
CleanIsStored ==
    \A i \in Instance : held[i] /\ ~dirty[i] => object # None /\ object.text = doc[i]

\* An accepted change reaches the storage, through failures the backend reports,
\* unless its process dies first or the diagram is removed or lost.
AcceptedIsStored ==
    \A i \in Instance : \A id \in 1 .. MaxChanges :
        (\E k \in DOMAIN doc[i] : doc[i][k].id = id)
            ~> \/ object # None /\ \E k \in DOMAIN object.text : object.text[k].id = id
               \/ ~held[i] \/ lost[i]
=============================================================================

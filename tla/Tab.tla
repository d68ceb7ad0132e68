-------------------------------- MODULE Tab ---------------------------------
(***************************************************************************)
(* The browser's side of a session: app/src/sync.js over app/src/changes.js*)
(* Every operator takes the state of one tab and returns the state it      *)
(* leaves; `out` is what it has sent.                                      *)
(*                                                                         *)
(* A document gives each field the edit that last wrote it, 0 for none.    *)
(* Ops are a partial document.  An intent is a sequence of [field, id];    *)
(* an edit in Cutting also clears the other fields, as deleting a node     *)
(* takes its links: what it comes to depends on the document it meets.     *)
(***************************************************************************)
EXTENDS Integers, Sequences, SequencesExt, FiniteSetsExt

CONSTANTS
    Fields,         \* what two edits can conflict on
    Cutting,        \* the edits that cascade
    MaxReplays      \* MAX_REPLAYS

ASSUME TabAssumption == Cutting \subseteq Nat /\ MaxReplays \in Nat

None     == -1                               \* a version or id that is not there
Blank    == [f \in Fields |-> 0]
Nothing  == [f \in {} |-> 0]

PlanOne(doc, edit) ==
    [g \in {edit.field} \cup {h \in Fields : edit.id \in Cutting /\ doc[h] # 0}
        |-> IF g = edit.field THEN edit.id ELSE 0]

Narrow(doc, ops) == Restrict(ops, {f \in DOMAIN ops : ops[f] # doc[f]})

Plan(doc, intent) ==
    Narrow(doc, FoldLeft(LAMBDA ops, edit : PlanOne(ops @@ doc, edit) @@ ops, Nothing, intent))

\* Which planned ops the tab has still to apply: not its own echoed back, then
\* what is pending again wherever those wrote.
DerivedToApply(applied, planned, pending) ==
    LET derived == Restrict(planned, {f \in DOMAIN planned :
                        ~(f \in DOMAIN applied /\ applied[f] = planned[f])})
    IN  Restrict(pending, DOMAIN pending \cap DOMAIN derived) @@ derived

\* What the tab applied for a request and the answer does not confirm.
Unconfirmed(m, planned) ==
    {f \in DOMAIN m.applied :
        /\ ~(f \in DOMAIN planned /\ planned[f] = m.applied[f])
        /\ [field |-> f, id |-> m.applied[f]] \notin ToSet(m.intent)}

Request(id, intent, applied, expect) ==
    [id |-> id, intent |-> intent, applied |-> applied, expect |-> expect, waited |-> FALSE,
     sent |-> FALSE, answered |-> FALSE, version |-> None, attempted |-> FALSE, tries |-> 0]

IsVerb(m) == m.intent = <<>>                 \* undo carries no ops

NoWindow == [intent |-> <<>>, applied |-> Nothing]

\* `throttled`: before throttledUntil, a timer set for that moment ("timed"), for an
\* earlier one ("extended"), or none ("untimed").
\* `made`, `told`, `shed` and `strays` are history: the edits submitted, those the
\* tab gave up with a word to the user, those it forgot at a lock, and the ways in
\* which it has been led astray (Session.tla lists them).
NewTab ==
    [open |-> FALSE, hydrated |-> FALSE, shown |-> Blank, applied |-> 0, counter |-> 0,
     outbox |-> <<>>, stored |-> <<>>, window |-> NoWindow, deferred |-> <<>>, gesture |-> FALSE,
     asked |-> FALSE, locked |-> FALSE, unlocking |-> FALSE, throttled |-> "no",
     out |-> <<>>, made |-> {}, told |-> {}, shed |-> {}, strays |-> {}]

Ids(m) == {edit.id : edit \in ToSet(m.intent)}
Strayed(t, how) == [t EXCEPT !.strays = @ \cup {how}]
Say(t, dropped) == [t EXCEPT !.told = @ \cup UNION {Ids(m) : m \in dropped}]

-----------------------------------------------------------------------------
(* Outbound *)

Persist(t) ==
    [t EXCEPT !.stored = LET commits == SelectSeq(t.outbox, LAMBDA m : ~IsVerb(m))
                         IN [k \in DOMAIN commits |->
                                [id |-> commits[k].id, intent |-> commits[k].intent,
                                 tries |-> commits[k].tries, answered |-> commits[k].answered,
                                 version |-> IF commits[k].answered THEN commits[k].version ELSE None]]]

Unsent(m) == ~m.sent /\ ~m.answered

\* Everything unsent goes out, in order, up to the first undo with a request ahead
\* of it that has no answer yet.
Drain(t) ==
    LET waits  == {k \in DOMAIN t.outbox : IsVerb(t.outbox[k]) /\ Unsent(t.outbox[k])
                                           /\ \E j \in 1..(k - 1) : ~t.outbox[j].answered}
        stop   == Min(waits \cup {Len(t.outbox) + 1})
        stamped == [k \in DOMAIN t.outbox |->
                      LET m == t.outbox[k] IN
                      IF k = stop THEN [m EXCEPT !.waited = TRUE]
                      ELSE IF k > stop \/ ~Unsent(m) THEN m
                      ELSE [m EXCEPT !.sent = TRUE, !.attempted = TRUE,
                                     !.expect = IF m.waited THEN t.counter ELSE @]]
        going  == SelectSeq(SubSeq(t.outbox, 1, stop - 1), Unsent)
        Frame(m) == IF IsVerb(m) THEN [cmd |-> "undo", id |-> m.id, expect |-> IF m.waited THEN t.counter ELSE m.expect]
                                 ELSE [cmd |-> "commit", id |-> m.id, intent |-> m.intent]
    IN  IF ~t.open \/ t.locked \/ t.throttled # "no" THEN t
        ELSE [t EXCEPT !.outbox = stamped, !.out = @ \o [k \in DOMAIN going |-> Frame(going[k])]]

\* A request submitted while the tab is read-only is not kept.
Submit(t, m) ==
    LET noted == [t EXCEPT !.made = @ \cup Ids(m)]
    IN  IF t.locked THEN IF IsVerb(m) THEN noted ELSE Strayed(noted, "lock")
        ELSE Drain(Persist([noted EXCEPT !.outbox = Append(@, m)]))

CloseWindow(t) ==
    IF t.window = NoWindow THEN t
    ELSE Submit([t EXCEPT !.window = NoWindow],
                Request(t.window.intent[1].id, t.window.intent, t.window.applied, None))

\* Mutant: the open burst goes out after the edit that came after it.
CommitHereFirst(t, edit) ==
    LET applied == Plan(t.shown, <<edit>>)
    IN  CloseWindow(Submit([t EXCEPT !.shown = applied @@ @], Request(edit.id, <<edit>>, applied, None)))

\* Changes.commit: applied here first, then the open burst goes out ahead of it.
CommitHere(t, edit) ==
    LET applied == Plan(t.shown, <<edit>>)
    IN  Submit(CloseWindow([t EXCEPT !.shown = applied @@ @]),
               Request(edit.id, <<edit>>, applied, None))

\* A burst amends the open window and goes out when it closes.
Amend(t, edit) ==
    LET applied == Plan(t.shown, <<edit>>)
    IN  [t EXCEPT !.shown = applied @@ @,
                  !.window = [intent |-> Append(t.window.intent, edit), applied |-> applied @@ t.window.applied]]

UndoHere(t, id) ==
    LET closed == CloseWindow(t)
    IN  Submit(closed, Request(id, <<>>, Nothing, t.counter))

RequestResync(t) ==
    IF ~t.hydrated \/ t.asked THEN t
    ELSE IF ~t.open THEN Strayed(t, "unasked")
    ELSE [t EXCEPT !.asked = TRUE, !.out = Append(@, [cmd |-> "open"])]

-----------------------------------------------------------------------------
(* Replay *)

\* Every op applied here that the server has not answered: the outbox's, then the window's.
PendingOps(t) ==
    t.window.applied @@ FoldLeft(LAMBDA ops, m : IF m.answered THEN ops ELSE m.applied @@ ops,
                                 Nothing, t.outbox)

Restore(t) ==
    LET missing == SelectSeq(t.stored, LAMBDA s : \A m \in ToSet(t.outbox) : m.id # s.id)
    IN  [t EXCEPT !.outbox = @ \o [k \in DOMAIN missing |->
            [Request(missing[k].id, missing[k].intent, Nothing, None) EXCEPT
                !.tries = missing[k].tries, !.answered = missing[k].answered,
                !.version = missing[k].version]]]

\* Mutant: what the server has answered is applied again over its document.
ReplanAll(t) ==
    LET again == FoldLeftDomain(LAMBDA s, k :
                    LET ops == Plan(s.shown, s.outbox[k].intent)
                    IN [s EXCEPT !.outbox[k].applied = ops, !.shown = ops @@ @],
                    t, t.outbox)
    IN  [again EXCEPT !.shown = t.window.applied @@ @]

\* What is still the tab's own, planned again on the document just loaded.
Replan(t) ==
    LET again == FoldLeftDomain(LAMBDA s, k :
                    IF s.outbox[k].answered THEN s
                    ELSE LET ops == Plan(s.shown, s.outbox[k].intent)
                         IN [s EXCEPT !.outbox[k].applied = ops, !.shown = ops @@ @],
                    t, t.outbox)
    IN  [again EXCEPT !.shown = t.window.applied @@ @]

Replay(t, reapply) ==
    LET tried == [k \in DOMAIN t.outbox |->
                    LET m == t.outbox[k] IN
                    IF m.answered \/ ~m.attempted THEN m
                    ELSE [m EXCEPT !.tries = @ + 1, !.attempted = FALSE]]
        GivenUp(m) == ~m.answered /\ m.tries > MaxReplays
        kept  == SelectSeq(tried, LAMBDA m : ~GivenUp(m))
        left  == [t EXCEPT !.outbox = [k \in DOMAIN kept |->
                            IF kept[k].answered THEN kept[k] ELSE [kept[k] EXCEPT !.sent = FALSE]]]
        gone  == {m \in ToSet(tried) : GivenUp(m)}
        told  == IF gone = {} THEN left
                 ELSE LET said == Say(Persist(left), gone)
                      IN IF reapply THEN said ELSE Strayed(said, "gaveup")
    IN  Drain(IF reapply THEN Replan(told) ELSE told)

-----------------------------------------------------------------------------
(* Inbound *)

\* Mutant: an answer is taken for a promise that the change is stored.
PruneAcked(t, durable) ==
    Persist([t EXCEPT !.outbox = SelectSeq(@, LAMBDA m : ~(m.sent /\ m.version # None))])

Prune(t, durable) ==
    LET held  == {m \in ToSet(t.outbox) : m.sent /\ m.version # None /\ m.version <= durable}
        kept  == Persist([t EXCEPT !.outbox = SelectSeq(@, LAMBDA m : m \notin held)])
    IN  IF \A m \in held : m.answered THEN kept ELSE Strayed(kept, "outdated")

ApplyAck(t, ack) ==
    LET version == IF ack.kind = "replayed" THEN None ELSE ack.version
        mine    == SelectSeq(t.outbox, LAMBDA m : m.id = ack.acked)
        applied == IF mine = <<>> THEN Nothing ELSE mine[1].applied
        heard   == [t EXCEPT
            !.counter = IF version = None THEN @ ELSE version,
            !.applied = IF version = None THEN @ ELSE version,
            !.outbox  = [k \in DOMAIN @ |-> IF @[k].id # ack.acked THEN @[k]
                          ELSE [@[k] EXCEPT !.version = ack.version, !.answered = TRUE, !.sent = TRUE]]]
        pruned  == IF ack.durable = None THEN heard ELSE Prune(heard, ack.durable)
        taken   == [pruned EXCEPT !.shown = DerivedToApply(applied, ack.ops, PendingOps(pruned)) @@ @]
        mismatch == mine # <<>> /\ ack.kind # "replayed" /\ Unconfirmed(mine[1], ack.ops) # {}
        lost     == mine # <<>> /\ ack.kind = "replayed" /\ ~mine[1].answered
        orphan   == mine = <<>> /\ ack.kind = "replayed" /\ ack.acked \in t.shed
    IN  Drain(IF mismatch \/ lost THEN RequestResync(taken)
              ELSE IF orphan THEN Strayed(taken, "lock") ELSE taken)

\* Mutant: an answer above the snapshot's version still counts.
RewoundNever(m, version) == m

\* D29: an answer the snapshot's version does not reach was lost with the server.
Rewound(m, version) == [m EXCEPT !.answered = @ /\ m.version <= version]

\* Answers held from before the snapshot are taken first; anything else held is in it.
ApplySnapshot(t, snap, older) ==
    LET acked  == FoldLeft(ApplyAck, t, SelectSeq(older, LAMBDA m : m.cmd = "ack"))
        loaded == Restore([acked EXCEPT !.shown = snap.doc, !.hydrated = TRUE, !.asked = FALSE,
                            !.locked = snap.locked, !.unlocking = FALSE,
                            !.counter = snap.version, !.applied = snap.version])
        rewound == [loaded EXCEPT !.outbox = [k \in DOMAIN @ |-> Rewound(@[k], snap.version)]]
        ahead   == rewound # loaded /\ \E m \in ToSet(acked.out) : m.cmd = "commit"
    IN  Replay(IF ahead THEN Strayed(rewound, "overtaken") ELSE rewound, TRUE)

ApplyChange(t, m) ==
    IF m.from # None /\ m.from < t.applied THEN t
    ELSE IF m.from # None /\ m.from > t.applied THEN RequestResync(t)
    ELSE [t EXCEPT !.shown = DerivedToApply(Nothing, m.ops, PendingOps(t)) @@ @, !.applied = m.version]

\* releaseDeferred: the last snapshot held stands for all before it.
Release(t) ==
    LET last    == Max({k \in DOMAIN t.deferred : t.deferred[k].cmd = "snapshot"} \cup {0})
        emptied == [t EXCEPT !.deferred = <<>>]
        whole   == IF last = 0 THEN emptied
                   ELSE ApplySnapshot(emptied, t.deferred[last], SubSeq(t.deferred, 1, last - 1))
    IN  IF t.gesture THEN t
        ELSE FoldLeft(LAMBDA s, m : IF m.cmd = "ack" THEN ApplyAck(s, m) ELSE ApplyChange(s, m),
                      whole, SubSeq(t.deferred, last + 1, Len(t.deferred)))

\* A tab that goes read-only ends its gesture (Input.setReadOnly).
EndIfLocked(t) == IF t.locked THEN Release([t EXCEPT !.gesture = FALSE]) ELSE t

OnSnapshot(t, m) ==
    IF t.gesture THEN [t EXCEPT !.deferred = Append(@, m)]
    ELSE EndIfLocked(ApplySnapshot([t EXCEPT !.deferred = <<>>], m, t.deferred))

OnSync(t, m) ==
    LET synced == [t EXCEPT !.hydrated = TRUE, !.locked = m.locked,
                            !.counter = m.version, !.applied = m.version]
    IN  EndIfLocked(Replay(IF t.deferred = <<>> /\ t.applied = m.version THEN synced
                          ELSE Strayed(synced, "held"), FALSE))

\* Mutant: an answer overtakes what is held.
OnAckAtOnce(t, m) == ApplyAck(t, m)

OnAck(t, m) == IF t.deferred # <<>> THEN [t EXCEPT !.deferred = Append(@, m)] ELSE ApplyAck(t, m)

OnChange(t, m) ==
    LET counted == [t EXCEPT !.counter = m.version]
    IN  IF t.gesture THEN [counted EXCEPT !.deferred = Append(@, m)] ELSE ApplyChange(counted, m)

OnLock(t, m) ==
    IF m.locked
    THEN LET unsent == {k \in DOMAIN t.outbox : Unsent(t.outbox[k]) /\ ~IsVerb(t.outbox[k])}
             emptied == Persist([t EXCEPT !.locked = TRUE, !.unlocking = FALSE, !.outbox = <<>>,
                                          !.shed = @ \cup UNION {Ids(x) : x \in ToSet(t.outbox)}])
         IN  EndIfLocked(IF unsent = {} THEN emptied ELSE Strayed(emptied, "lock"))
    ELSE [t EXCEPT !.unlocking = t.locked]

\* Mutant: throttledUntil without a timer.
ThrottledUntimed(t, k) == [t EXCEPT !.outbox[k].sent = FALSE, !.throttled = "untimed"]

\* throttledUntil moves with every refusal; the timer armed at the first stays as it is.
Throttled(t, k) ==
    [t EXCEPT !.outbox[k].sent = FALSE,
              !.throttled = IF @ \in {"timed", "extended"} THEN "extended" ELSE "timed"]

OnError(t, m) ==
    LET at   == {k \in DOMAIN t.outbox : t.outbox[k].id = m.id}
        k    == Min(at)
        with == {x \in ToSet(SubSeq(t.outbox, k + 1, Len(t.outbox))) : IsVerb(x) /\ x.waited /\ ~x.sent}
        gone == {t.outbox[k]} \cup with
    IN  CASE at = {} -> IF m.id \in t.shed THEN Strayed(t, "lock") ELSE t
          [] at # {} /\ m.code = "rate-limited" -> Throttled(t, k)
          [] OTHER ->
                RequestResync(Say(Persist([t EXCEPT !.outbox = SelectSeq(@, LAMBDA x : x \notin gone)]), gone))

\* Two refusals in the same millisecond leave the timer on time.
TimerFires(t, passed) ==
    IF passed THEN Drain([t EXCEPT !.throttled = "no"]) ELSE Strayed([t EXCEPT !.throttled = "untimed"], "stalled")

OnMessage(t, m) ==
    CASE m.cmd = "snapshot" -> OnSnapshot(t, m)
      [] m.cmd = "sync"     -> OnSync(t, m)
      [] m.cmd = "ack"      -> OnAck(t, m)
      [] m.cmd = "change"   -> OnChange(t, m)
      [] m.cmd = "lock"     -> OnLock(t, m)
      [] m.cmd = "error"    -> OnError(t, m)

\* A slip: what was asked on the dead socket is still waited for.
ResumeStillAsked(t) ==
    [t EXCEPT !.open = TRUE,
              !.outbox = [k \in DOMAIN @ |-> [@[k] EXCEPT !.sent = @ /\ t.outbox[k].answered]],
              !.out = <<[cmd |-> "resume", version |-> t.counter]>>]

\* What was sent on the old socket and not answered may never have arrived.
Resume(t) ==
    [t EXCEPT !.open = TRUE, !.asked = FALSE,
              !.outbox = [k \in DOMAIN @ |-> [@[k] EXCEPT !.sent = @ /\ t.outbox[k].answered]],
              !.out = <<[cmd |-> "resume", version |-> t.counter]>>]

OnOpen(t) ==
    IF ~t.hydrated THEN [t EXCEPT !.open = TRUE, !.out = <<[cmd |-> "hello"]>>]
    ELSE Resume(IF t.asked THEN Strayed(t, "unasked") ELSE t)
=============================================================================

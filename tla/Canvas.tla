------------------------------- MODULE Canvas -------------------------------
(***************************************************************************)
(* The canvas of a tab: app/src/input.js over editing-gestures.js,         *)
(* releases.js, recognize.js and keymap.js.  One gesture is live at a      *)
(* time.  A link drag puts its waypoints in the shared Model as it goes    *)
(* and a resize writes it there; a move and a clone write a preview; and   *)
(* what the server sends waits in `deferred` for the gesture to end.       *)
(*                                                                         *)
(* Every operator takes the canvas `c` and returns the canvas it leaves.   *)
(* The server plans what it is sent in the step that answers it: the       *)
(* network between them is Session.tla's.  `server` is its document.       *)
(***************************************************************************)
EXTENDS Integers, Sequences, SequencesExt, FiniteSets, FiniteSetsExt, Functions

CONSTANTS
    Device, Zone,       \* what is stored when the page opens
    Drawn,              \* a zone yet to be drawn
    Waypoints,          \* ids for what a drag places, stamps or copies
    Places, Gone,       \* where an entity may stand
    MaxEdits,           \* bound: requests the tab makes
    MaxInbound          \* bound: what other writers send

Fresh    == Waypoints \cup {Drawn}
Zones    == {Zone, Drawn}               \* picked under Shift alone
Entities == {Device, Zone} \cup Fresh
Alive(doc) == {e \in Entities : doc[e] # Gone}

ASSUME CanvasAssumption ==
    /\ Device # Zone /\ {Device, Zone} \cap Fresh = {} /\ Drawn \notin Waypoints
    /\ Gone \notin Places /\ Places \subseteq Nat /\ Places # {}
    /\ MaxEdits \in Nat /\ MaxInbound \in Nat

Nothing == [e \in {} |-> Gone]
Each(es, v) == [e \in es |-> v]

\* The @@ of TLC, which no prover knows: `f` where it speaks, `g` elsewhere.
Atop(f, g) == [e \in DOMAIN f \cup DOMAIN g |-> IF e \in DOMAIN f THEN f[e] ELSE g[e]]

\* The tab's own ops over a document: a set on what is gone does nothing.
Over(ops, doc) ==
    [e \in Entities |-> IF e \in DOMAIN ops /\ (doc[e] # Gone \/ e \in Fresh) THEN ops[e] ELSE doc[e]]

-----------------------------------------------------------------------------
(* What a released link drag means (LINK_RELEASES): `r` is what was found. *)

Commits(r)   == r.dst /\ r.srcAlive /\ ~r.dstIsSrc /\ (r.admitted \/ (r.judged /\ ~r.shift))
ChainsOn(r)  == r.validTarget /\ r.shift /\ ~r.hasVia
ClickHere(r) == r.srcAlive /\ ~r.hasVia /\ r.click /\ r.atStart
Retypes(r)   == /\ ClickHere(r) /\ r.srcIsNode /\ r.hand /\ ~r.chained
                /\ ~r.shift /\ ~r.ctrl /\ ~r.alt /\ ~r.handIsSrcType
Clicks(r)    == ~Commits(r) /\ ~ChainsOn(r) /\ ClickHere(r) /\ ~Retypes(r)

LinkMeans(row, r) ==
    CASE row = "commit-and-chain" -> Commits(r) /\ ChainsOn(r)
      [] row = "commit"           -> Commits(r) /\ ~ChainsOn(r)
      [] row = "chain-on"         -> ~Commits(r) /\ ChainsOn(r)
      [] row = "retype"           -> ~Commits(r) /\ ~ChainsOn(r) /\ Retypes(r)
      [] row = "toggle"           -> Clicks(r) /\ r.pressShift
      [] row = "select"           -> Clicks(r) /\ ~r.pressShift /\ ~r.srcSelected
      [] row = "focus"            -> Clicks(r) /\ ~r.pressShift /\ r.srcSelected
      [] row = "discard"          -> ~Commits(r) /\ ~ChainsOn(r) /\ ~ClickHere(r)

-----------------------------------------------------------------------------
(* The canvas *)

NoPreview == [e \in Entities |-> Gone]

\* `of` is what was pressed, `placed` what a link drag put in the Model, `via` that
\* it has a stop, `moved` what a move or a clone drags and `before` where it was.
Gesture(name, e) ==
    [name |-> name, of |-> e, placed |-> {}, via |-> FALSE, chained |-> FALSE,
     before |-> NoPreview, moved |-> {}]
Idle == Gesture("none", Device)

Editing  == {"move", "clone", "handle", "link", "box", "clone-pending"}   \* a locked canvas opens none
Engaged  == {"move", "clone", "handle", "link", "box", "marquee"}
Gesturing(c) == c.live.name \in Engaged

\* `own` is what the tab asked for and the server has not answered: the ops it sent,
\* those it `applied` here, and what stays shown though its own planner refused.
\* `overtaken` is history: an answer moved a zone under a hand that was resizing it.
NewCanvas ==
    [model |-> [e \in Entities |-> IF e \in Fresh THEN Gone ELSE Min(Places)],
     live |-> Idle, preview |-> NoPreview, selection |-> {}, readOnly |-> FALSE,
     own |-> <<>>, deferred |-> <<>>, overtaken |-> FALSE]

\* The selection is pruned by what a write deletes.
Write(c, doc) == [c EXCEPT !.model = doc, !.selection = @ \cap Alive(doc)]

\* Changes.commit of what is drawn already: where this tab's planner refuses, it is
\* sent all the same and what was drawn stays shown.
CommitDrawn(c, ops, refused) ==
    LET asked == [undo |-> FALSE, ops |-> ops, applied |-> IF refused THEN Nothing ELSE ops,
                  left |-> IF refused THEN DOMAIN ops ELSE {}]
    IN  [Write(c, IF refused THEN c.model ELSE Over(ops, c.model)) EXCEPT !.own = Append(@, asked)]

\* One refused here with nothing drawn shows nothing, and is Tab.tla's.
Commit(c, ops) == CommitDrawn(c, ops, FALSE)

-----------------------------------------------------------------------------
(* What the server sends *)

\* Of the first n requests, for each n.
Pending(own) ==
    LET pending[n \in 0..Len(own)] == IF n = 0 THEN Nothing ELSE Atop(own[n].applied, pending[n - 1])
    IN  pending
PendingOps(own) == Pending(own)[Len(own)]

\* A document with the first n requests over it, for each n.
Replayed(own, doc) ==
    LET again[n \in 0..Len(own)] == IF n = 0 THEN doc ELSE Over(own[n].applied, again[n - 1])
    IN  again
Reapplied(own, doc) == Replayed(own, doc)[Len(own)]

\* Another's ops land, and the tab's own unanswered ones over them.
Take(c, ops, own) ==
    LET over == Over(Restrict(PendingOps(own), DOMAIN ops \cap DOMAIN PendingOps(own)), Atop(ops, c.model))
    IN  Write([c EXCEPT !.overtaken = @ \/ (c.live.name = "handle" /\ c.live.of \in DOMAIN ops)], over)

ApplyChange(c, m) == Take(c, m.ops, c.own)

\* What the answer echoes of the tab's own is here already.
ApplyAck(c, m) ==
    LET mine    == Head(c.own)
        derived == {e \in DOMAIN m.ops : ~(e \in DOMAIN mine.applied /\ mine.applied[e] = m.ops[e])}
    IN  Take([c EXCEPT !.own = Tail(@)], Restrict(m.ops, derived), Tail(c.own))

\* Model.load: a press that is no gesture yet ends with the document it was on.
Load(c, m) ==
    Write([c EXCEPT !.live = Idle], Reapplied(c.own, m.doc))

\* The last snapshot held stands for the changes and snapshots before it; an answer
\* is taken wherever it is.
Outlived(msgs, k) == \E j \in k + 1..Len(msgs) : msgs[j].cmd = "snapshot"

TakeHeld(c, msgs, k) ==
    CASE msgs[k].cmd = "ack" -> ApplyAck(c, msgs[k])
      [] msgs[k].cmd = "change" /\ ~Outlived(msgs, k) -> ApplyChange(c, msgs[k])
      [] msgs[k].cmd = "snapshot" /\ ~Outlived(msgs, k) -> Load(c, msgs[k])
      [] OTHER -> c

Unheld(c) ==
    LET taken[k \in 0..Len(c.deferred)] ==
            IF k = 0 THEN [c EXCEPT !.deferred = <<>>] ELSE TakeHeld(taken[k - 1], c.deferred, k)
    IN  taken

ReleaseDeferred(c) == IF Gesturing(c) THEN c ELSE Unheld(c)[Len(c.deferred)]

\* An answer waits only behind something already held.
Hear(c, m) ==
    LET waits == IF m.cmd = "ack" THEN c.deferred # <<>> ELSE Gesturing(c)
    IN  IF waits THEN [c EXCEPT !.deferred = Append(@, m)]
        ELSE CASE m.cmd = "ack"    -> ApplyAck(c, m)
               [] m.cmd = "change" -> ApplyChange(c, m)
               [] OTHER            -> Load(c, m)

-----------------------------------------------------------------------------
(* How a gesture ends *)

\* The waypoints a drag placed go with it.
CleanupRoute(c, placed) == Write(c, [e \in Entities |-> IF e \in placed THEN Gone ELSE c.model[e]])

\* Mutant: a route in progress stays where it was drawn.
UndoGestureNotRoute(c, g) ==
    CASE g.name = "handle" /\ c.model[g.of] # Gone -> Write(c, [c.model EXCEPT ![g.of] = g.before[g.of]])
      [] g.name = "clone" -> [c EXCEPT !.selection = {}]
      [] OTHER            -> c

\* The `cancel` of a gesture.
UndoGesture(c, g) ==
    CASE g.name = "link"  -> CleanupRoute(c, g.placed)
      [] g.name = "handle" /\ c.model[g.of] # Gone -> Write(c, [c.model EXCEPT ![g.of] = g.before[g.of]])
      [] g.name = "clone" -> [c EXCEPT !.selection = {}]
      [] OTHER            -> c

\* Mutant: a cancelled gesture does not tell Sync that it ended.
CancelledUntold(c) == [UndoGesture(c, c.live) EXCEPT !.live = Idle, !.preview = NoPreview]

\* #cancelled, on a gesture the session ended.
Cancelled(c) == ReleaseDeferred([UndoGesture(c, c.live) EXCEPT !.live = Idle, !.preview = NoPreview])

Cancel(c) == IF c.live = Idle THEN c ELSE Cancelled(c)

\* release: what `done` says the gesture committed, then the wrapper's finally.
Finish(c, done) ==
    LET ended == IF Gesturing(done) THEN done ELSE [done EXCEPT !.preview = NoPreview]
    IN  IF Gesturing(c) THEN ReleaseDeferred(ended) ELSE ended

-----------------------------------------------------------------------------
(* Presses *)

VARIABLES c, server, asks, heard
vars == <<c, server, asks, heard>>

Doc     == [Entities -> Places \cup {Gone}]
Ops     == UNION {[es -> Places \cup {Gone}] : es \in SUBSET Entities}
Live    == [name : Editing \cup Engaged \cup {"none", "pending"}, of : Entities, placed : SUBSET Waypoints,
            via : BOOLEAN, chained : BOOLEAN, before : Doc, moved : SUBSET Entities]
Request == [undo : BOOLEAN, ops : Ops, applied : Ops, left : SUBSET Entities]
Message == [cmd : {"change", "ack"}, ops : Ops] \cup [cmd : {"snapshot"}, doc : Doc]
Canvases == [model : Doc, live : Live, preview : Doc, selection : SUBSET Entities, readOnly : BOOLEAN,
             own : Seq(Request), deferred : Seq(Message), overtaken : BOOLEAN]

TypeOK == c \in Canvases /\ server \in Doc /\ asks \in 0..MaxEdits /\ heard \in 0..MaxInbound

Init ==
    /\ c = NewCanvas
    /\ server = NewCanvas.model
    /\ asks = 0 /\ heard = 0

\* newId is random: an id is never one that was used before.
Unused == {e \in Fresh \ (Alive(c.model) \cup Alive(server)) : \A r \in ToSet(c.own) : e \notin DOMAIN r.ops}

Here     == UNCHANGED <<server, heard>>
Looks(d) == c' = d /\ UNCHANGED asks /\ Here
Asks     == asks < MaxEdits /\ asks' = asks + 1 /\ Here
AsksIf(b) == IF b THEN Asks ELSE UNCHANGED asks /\ Here

UnderPointer(e, shift) == e \in Alive(c.model) /\ (e \in Zones => shift)

\* resolvePress: a live gesture takes the presses its button names -- a link the left
\* ones, the others any -- and another press that means something cancels it.
FreeForLeft  == c.live = Idle
FreeForRight == c.live.name \in {"none", "link"}
Begun(g)     == [Cancel(c) EXCEPT !.live = g]

PressLink(e) ==
    /\ FreeForLeft /\ ~c.readOnly /\ e \in Waypoints \cup {Device} /\ e \in Alive(c.model)
    /\ Looks(Begun(Gesture("link", e)))

PressHandle(e) ==
    /\ FreeForLeft /\ ~c.readOnly /\ e \in Zones /\ c.selection = {e}
    /\ Looks(Begun([Gesture("handle", e) EXCEPT !.before = c.model]))

PressGround(shift) ==
    /\ FreeForLeft
    /\ Looks(Begun(Gesture(IF shift /\ ~c.readOnly THEN "box" ELSE "marquee", Device)))

\* A press that selects: the right button's, and any a locked canvas is left with.
PressSelects(e, shift) ==
    /\ FreeForRight /\ UnderPointer(e, shift)
    /\ LET d == Begun(Gesture("pending", e))
       IN  Looks([d EXCEPT !.selection = Alive(d.model) \cap
              (IF shift /\ e \notin Zones THEN SymDiff(@, {e})
               ELSE IF e \in @ THEN @ ELSE {e})])

PressClones(e, shift) ==
    /\ FreeForRight /\ ~c.readOnly /\ UnderPointer(e, shift)
    /\ Looks(Begun(Gesture("clone-pending", e)))

\* The delete chord: Alt and the right button.
PressDeletes(e, shift) ==
    /\ FreeForRight /\ ~c.readOnly /\ UnderPointer(e, shift) /\ Asks
    /\ c' = Commit(Begun(Idle), Each({e}, Gone))

\* editUnderPointer
Double(e, shift) ==
    /\ ~c.readOnly /\ UnderPointer(e, shift)
    /\ LET d == Cancel(c)
       IN  Looks([d EXCEPT !.selection = {e} \cap Alive(d.model)])

-----------------------------------------------------------------------------
(* Moves *)

\* Mutant: a locked canvas's press becomes a move like any other.
StartMoveLocked ==
    /\ c.live.name = "pending"
    /\ LET moved == c.selection \cap Alive(c.model)
       IN  Looks([c EXCEPT
              !.live    = IF moved = {} THEN Idle
                          ELSE [@ EXCEPT !.name = "move", !.moved = moved, !.before = c.model],
              !.preview = IF moved = {} THEN @ ELSE c.model])

\* startMove: the drag, not the press, is where a lock refuses.
StartMove ==
    /\ c.live.name = "pending" /\ ~c.readOnly
    /\ LET moved == c.selection \cap Alive(c.model)
       IN  Looks([c EXCEPT
              !.live    = IF moved = {} THEN Idle
                          ELSE [@ EXCEPT !.name = "move", !.moved = moved, !.before = c.model],
              !.preview = IF moved = {} THEN @ ELSE c.model])

\* The copies are the preview's alone.
StartClone ==
    /\ c.live.name = "clone-pending" /\ ~c.readOnly
    /\ LET picked == IF c.live.of \in c.selection THEN c.selection ELSE {c.live.of}
       IN  IF c.live.of \notin Alive(c.model) THEN Looks([c EXCEPT !.live = Idle])
           ELSE \E copies \in SUBSET Unused \ {{}} :
                  /\ Drawn \in copies => picked \cap Zones # {}
                  /\ Looks([c EXCEPT !.selection = picked,
                        !.live    = [@ EXCEPT !.name = "clone", !.moved = copies],
                        !.preview = Atop(Each(copies, c.model[c.live.of]), c.model)])

Drag(v) ==
    /\ c.live.name \in {"move", "clone"}
    /\ Looks([c EXCEPT !.preview = Atop(Each(c.live.moved, v), @)])

\* A resize is written to the Model as it is dragged.
DragHandle(v) ==
    /\ c.live.name = "handle" /\ c.live.of \in Alive(c.model)
    /\ Looks([c EXCEPT !.model[c.live.of] = v])

-----------------------------------------------------------------------------
(* Releases *)

Ended   == [c EXCEPT !.live = Idle]
Done(d) == c' = Finish(c, d)

ReleaseMove ==
    /\ c.live.name = "move"
    /\ LET left == c.live.moved \cap Alive(c.model)
           ops  == Restrict(c.preview, left)
       IN  IF ops = Restrict(c.live.before, left) THEN Done(Ended) /\ UNCHANGED asks /\ Here
           ELSE Asks /\ Done(Commit(Ended, ops))

ReleaseClone ==
    /\ c.live.name = "clone" /\ Asks
    /\ LET d == Commit(Ended, Restrict(c.preview, c.live.moved))
       IN  Done([d EXCEPT !.selection = c.live.moved \cap Alive(d.model)])

\* Rewound first: the edit is made from where the zone stood.
ReleaseHandle(v) ==
    /\ c.live.name = "handle"
    /\ LET rewound == UndoGesture(Ended, c.live)
       IN  IF v = c.live.before[c.live.of] THEN Done(rewound) /\ UNCHANGED asks /\ Here
           ELSE Asks /\ Done(Commit(rewound, Each({c.live.of}, v)))

ReleaseBox(area) ==
    /\ c.live.name = "box" /\ AsksIf(area)
    /\ IF area
       THEN /\ Drawn \in Unused
            /\ LET d == Commit(Ended, Each({Drawn}, Min(Places)))
               IN  Done([d EXCEPT !.selection = {Drawn} \cap Alive(d.model)])
       ELSE Done(Ended)

\* A click clears; a drag selects, or with Shift adds; zones are never in a box.
ReleaseMarquee(shift) ==
    /\ c.live.name = "marquee"
    /\ \E picked \in SUBSET (Alive(c.model) \ Zones) :
          Done([Ended EXCEPT !.selection = IF shift THEN @ \cup picked ELSE picked])
    /\ UNCHANGED asks /\ Here

\* A click with a device type held stamps one.
StampClicked(w) ==
    /\ c.live.name = "marquee" /\ ~c.readOnly /\ w \in Waypoints \cap Unused /\ Asks
    /\ LET d == Commit(Ended, Each({w}, Min(Places)))
       IN  Done([d EXCEPT !.selection = {w} \cap Alive(d.model)])

\* A press that never travelled: Ctrl's toggles what it was on.
ReleasePress ==
    /\ c.live.name \in {"pending", "clone-pending"}
    /\ LET toggles == c.live.name = "clone-pending" /\ c.live.of \in Alive(c.model)
       IN  Done(IF ~toggles THEN Ended
                ELSE [Ended EXCEPT !.selection = SymDiff(@, {c.live.of})])
    /\ UNCHANGED asks /\ Here
-----------------------------------------------------------------------------
(* The link drag *)

Anchors   == {Device} \cup Waypoints
LinkFrom(e) == [Gesture("link", e) EXCEPT !.chained = TRUE]

\* A left press in a chain is the chain's own.
PressInChain == c.live.name = "link" /\ Looks([c EXCEPT !.live.chained = FALSE])

\* addStop: `w` bends the route at a waypoint that is there, or places one.
AddStop(w) ==
    /\ c.live.name = "link" /\ ~c.readOnly /\ w \in Waypoints \ {c.live.of}
    /\ w \in Alive(c.model) \cup Unused
    /\ LET d == [c EXCEPT !.live.via = TRUE]
       IN  Looks(IF w \in Alive(c.model) THEN d
                 ELSE [d EXCEPT !.live.placed = @ \cup {w}, !.model[w] = Min(Places)])

\* What a release found; `target` is the anchor under it, Gone for none.
Found(target, admitted, click, hand, shift, pressShift) ==
    LET srcAlive == c.live.of \in Alive(c.model)
        valid    == srcAlive /\ target # Gone
    IN  [dst |-> valid \/ c.live.via, dstIsSrc |-> FALSE, srcAlive |-> srcAlive, validTarget |-> valid,
         hasVia |-> c.live.via, admitted |-> admitted, judged |-> TRUE, click |-> click, atStart |-> click,
         shift |-> shift, ctrl |-> FALSE, alt |-> FALSE, pressShift |-> pressShift,
         srcIsNode |-> c.live.of = Device, hand |-> hand, handIsSrcType |-> FALSE,
         chained |-> c.live.chained, srcSelected |-> c.live.of \in c.selection]

Targets == {t \in Anchors \cap Alive(c.model) : t # c.live.of /\ t \notin c.live.placed} \cup {Gone}

Drawing == c.live.name = "link"

\* commitDrawnLink refused by the judge: what it keeps is committed, the rest goes.
Judged(keep, refused) ==
    LET cleaned == CleanupRoute(Ended, c.live.placed \ keep)
    IN  IF keep = {} THEN cleaned
        ELSE CommitDrawn(cleaned, Restrict(c.model, keep), refused)

\* commitDrawnLink: what the drag placed and the link, one request.
Linked(refused) ==
    [CommitDrawn(Ended, Restrict(c.model, c.live.placed), refused) EXCEPT !.selection = {}]

ReleaseLink(target, admitted, shift) ==
    LET r == Found(target, admitted, FALSE, FALSE, shift, shift)
    IN  /\ Drawing
        /\ \/ /\ LinkMeans("commit", r) \/ LinkMeans("commit-and-chain", r)
              /\ \/ \E keep \in SUBSET c.live.placed, refused \in BOOLEAN :
                       AsksIf(keep # {}) /\ Done(Judged(keep, refused))
                 \/ \E refused \in BOOLEAN :
                       /\ Asks
                       /\ Done(IF LinkMeans("commit", r) THEN Linked(refused)
                               ELSE [Linked(refused) EXCEPT !.live = LinkFrom(target)])
           \/ /\ LinkMeans("chain-on", r)
              /\ Done([Ended EXCEPT !.live = LinkFrom(target)]) /\ UNCHANGED asks /\ Here
           \/ /\ LinkMeans("discard", r)
              /\ Done(CleanupRoute(Ended, c.live.placed)) /\ UNCHANGED asks /\ Here

\* A drag that never left its anchor is a click on it.
ClickLink(hand, pressShift) ==
    LET r == Found(Gone, FALSE, TRUE, hand, FALSE, pressShift)
    IN  /\ Drawing
        /\ \/ /\ LinkMeans("retype", r) /\ Asks
              /\ Done([Commit(Ended, Restrict(c.model, {c.live.of})) EXCEPT !.selection = {c.live.of}])
           \/ /\ LinkMeans("toggle", r) /\ UNCHANGED asks /\ Here
              /\ Done([Ended EXCEPT !.selection = SymDiff(@, {c.live.of})])
           \/ /\ LinkMeans("select", r) /\ Done([Ended EXCEPT !.selection = {c.live.of}]) /\ UNCHANGED asks /\ Here
           \/ /\ LinkMeans("focus", r) /\ Done(Ended) /\ UNCHANGED asks /\ Here

\* chainThroughNode: a digit places a device, ends the segment on it and draws on from it.
ChainThroughNode(w) ==
    /\ Drawing /\ ~c.readOnly /\ c.live.of \in Alive(c.model) /\ w \in Waypoints \cap Unused /\ Asks
    /\ \E refused \in BOOLEAN :
          LET hop  == c.live.placed \cup {w}
              live == [c EXCEPT !.model[w] = Min(Places)]
          IN  c' = [CommitDrawn(live, Restrict(live.model, hop), refused) EXCEPT !.live = LinkFrom(w)]

-----------------------------------------------------------------------------
(* Keys *)

\* A key a gesture in progress does not refuse it is refused by a lock.
KeyEdits == ~Gesturing(c) /\ ~c.readOnly

PlaceWaypoint(w) ==
    /\ c.live = Idle /\ ~c.readOnly /\ w \in Waypoints \cap Unused /\ Asks
    /\ LET d == Commit(c, Each({w}, Min(Places)))
       IN  c' = [d EXCEPT !.selection = {w} \cap Alive(d.model)]

Undo ==
    /\ KeyEdits /\ Asks
    /\ c' = [c EXCEPT !.own = Append(@, [undo |-> TRUE, ops |-> Nothing, applied |-> Nothing, left |-> {}])]

Delete ==
    /\ KeyEdits /\ c.selection # {} /\ Asks
    /\ c' = Commit(c, Each(c.selection, Gone))

Nudge(v) ==
    /\ KeyEdits /\ c.selection # {} /\ Asks
    /\ c' = Commit(c, Each(c.selection, v))

\* Ctrl+A takes zones too, Shift or none.
SelectAll ==
    ~Gesturing(c) /\ Looks([c EXCEPT !.selection = Alive(c.model) \ Waypoints])

Escape == Looks(IF c.live # Idle THEN Cancel(c) ELSE [c EXCEPT !.selection = {}])

\* The platform takes the pointer.
PointerLost == c.live # Idle /\ Looks(Cancel(c))

-----------------------------------------------------------------------------
(* The server *)

Hears(d, m) == c' = Hear(d, m)

PeerEdits(e, v) ==
    /\ heard < MaxInbound /\ heard' = heard + 1 /\ UNCHANGED asks
    /\ e \in {Device, Zone} /\ v # server[e]
    /\ server' = [server EXCEPT ![e] = v]
    /\ Hears(c, [cmd |-> "change", ops |-> Each({e}, v)])

\* A snapshot of the tab's own asking, or an access change's.
SnapshotComes ==
    /\ heard < MaxInbound /\ heard' = heard + 1 /\ UNCHANGED <<server, asks>>
    /\ Hears(c, [cmd |-> "snapshot", doc |-> server])

Answered   == Cardinality({k \in DOMAIN c.deferred : c.deferred[k].cmd = "ack"})
Unanswered == Answered < Len(c.own)
NextOwn    == c.own[Answered + 1]

\* The server plans the request on its own document; an undo may touch anything stored.
Accept ==
    /\ Unanswered /\ UNCHANGED <<asks, heard>>
    /\ \E undone \in IF NextOwn.undo THEN {Each({e}, v) : e \in {Device, Zone}, v \in Places \cup {Gone}}
                                     ELSE {Nothing} :
          /\ server' = IF NextOwn.undo THEN Atop(undone, server) ELSE Over(NextOwn.ops, server)
          /\ Hears(c, [cmd |-> "ack",
                       ops |-> Restrict(server', {e \in Entities : server'[e] # server[e]})])

\* A refusal takes the request out of the outbox and asks for the document again.
Refuse ==
    /\ Unanswered /\ UNCHANGED <<server, asks, heard>>
    /\ Hears([c EXCEPT !.own = RemoveAt(@, Answered + 1)], [cmd |-> "snapshot", doc |-> server])

\* setReadOnly.  What a lock does to unanswered requests is Tab.tla's.
Lock   == ~c.readOnly /\ c.own = <<>> /\ Looks(Cancel([c EXCEPT !.readOnly = TRUE]))
Unlock == c.readOnly /\ Looks([c EXCEPT !.readOnly = FALSE])

-----------------------------------------------------------------------------
Presses ==
    \/ \E e \in Entities : PressLink(e) \/ PressHandle(e)
    \/ \E e \in Entities, shift \in BOOLEAN :
          PressSelects(e, shift) \/ PressClones(e, shift) \/ PressDeletes(e, shift) \/ Double(e, shift)
    \/ \E shift \in BOOLEAN : PressGround(shift)
    \/ PressInChain

Drags ==
    \/ StartMove \/ StartClone
    \/ \E v \in Places : Drag(v) \/ DragHandle(v)
    \/ \E w \in Waypoints : AddStop(w) \/ ChainThroughNode(w)

Releases ==
    \/ ReleaseMove \/ ReleaseClone \/ ReleasePress
    \/ \E shift \in BOOLEAN : ReleaseMarquee(shift)
    \/ \E v \in Places : ReleaseHandle(v)
    \/ \E area \in BOOLEAN : ReleaseBox(area)
    \/ \E w \in Waypoints : StampClicked(w)
    \/ \E t \in Targets, admitted, shift \in BOOLEAN : ReleaseLink(t, admitted, shift)
    \/ \E hand, pressShift \in BOOLEAN : ClickLink(hand, pressShift)

Keys ==
    \/ \E w \in Waypoints : PlaceWaypoint(w)
    \/ \E v \in Places : Nudge(v)
    \/ Undo \/ Delete \/ SelectAll \/ Escape \/ PointerLost

Server ==
    \/ \E e \in Entities, v \in Places \cup {Gone} : PeerEdits(e, v)
    \/ SnapshotComes \/ Accept \/ Refuse \/ Lock \/ Unlock

Next == Presses \/ Drags \/ Releases \/ Keys \/ Server
Spec == Init /\ [][Next]_vars

-----------------------------------------------------------------------------
\* The document the tab should show: the server's, and its own unanswered edits over it.
Stored == Reapplied(c.own, server)
Left   == UNION {r.left : r \in ToSet(c.own)}

\* What the server sent is held back only by a gesture in progress, however that ends:
\* a drop, a chain's last release, Escape, a lost pointer, a lock, another press.
HeldByGesture == c.deferred # <<>> => Gesturing(c)

\* With no gesture in progress the canvas shows the document and nothing else: no
\* preview, no waypoint of a drag given up, no frame of a resize.
RestShowsStored ==
    ~Gesturing(c) =>
        /\ c.preview = NoPreview
        /\ \A e \in Entities \ Left : c.model[e] = Stored[e]

\* So it does unless an answer came in under a resize.
RestShowsStoredUndisturbed == c.overtaken \/ RestShowsStored

\* A locked canvas has no editing gesture in hand, and nothing goes out of it.
LockedAuthorsNothing ==
    [][c.readOnly => c.live.name \notin Editing /\ Len(c'.own) <= Len(c.own)]_vars

=============================================================================

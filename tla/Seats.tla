------------------------------- MODULE Seats -------------------------------
(***************************************************************************)
(* Which diagram each page is on: a page's sync (app/src/sync.js) and its  *)
(* websocket session (server/protocol.js, server/hub.js) while diagrams    *)
(* are opened, created, forked from the template, deleted and shared.      *)
(*                                                                         *)
(* A document is the set of edits in it, its version their number.  A      *)
(* handler runs to its end before the next message; a remove's wait on the *)
(* bucket is RecycleBin's subject, locks and bursts are Session's.  What   *)
(* the server answers is durable at once, so it leaves the outbox.         *)
(***************************************************************************)
EXTENDS Naturals, Sequences, FiniteSets, FiniteSetsExt, SequencesExt, Functions

CONSTANTS
    Page,           \* pages, each the session of its own principal
    Diagram,        \* ids that may be minted
    Template,       \* the id of the template in the image
    None,           \* no diagram, no owner
    Quota,          \* MAX_PER_PRINCIPAL
    MaxEdits,       \* bounds on the model: edits made,
    MaxEvents       \* diagrams opened, created, deleted and shared, sockets
                    \* dropped and pages reloaded

ASSUME SeatsAssumption ==
    /\ {Quota, MaxEdits, MaxEvents} \subseteq Nat
    /\ Template \notin Diagram \cup {None} /\ None \notin Diagram \cup Page

Doc   == Diagram \cup {Template}
Level == {"none", "read", "write"}
Edit  == 1..MaxEdits

VARIABLES
    shipped,        \* the image ships the template
    owner,          \* meta.owner of each minted id
    gone,           \* ids deleted
    grants,         \* meta.grants: what each page's principal may do with each id
    doc,            \* the edits in each document
    seat, fork,     \* Session.diagramId and Session.fork
    up, down,       \* messages on their way, in order
    open,           \* the page's socket is open
    tab,            \* the page's Sync
    edits, events,  \* counted for the bounds
    \* History, for the properties only:
    made,           \* the document each edit was made on
    forkOf          \* the ids that were forked from the template

server == <<shipped, owner, gone, grants, doc, seat, fork>>
counts == <<edits, events>>
vars   == <<server, up, down, open, tab, counts, made, forkOf>>

Waiting == [e : Edit, diagram : Doc, sent : BOOLEAN]
\* hydrated, expectLoad, mayWrite, resyncAsked, diagramId, the model's meta.id
\* and document, appliedVersion, the outbox and its copy in localStorage, the
\* diagram opened last and the picker's list.
NewTab(last) ==
    [hydrated |-> FALSE, expect |-> FALSE, mayWrite |-> TRUE, resync |-> FALSE,
     diagram |-> None, model |-> None, holds |-> {}, version |-> 0, outbox |-> <<>>,
     saved |-> [diagram |-> None, msgs |-> <<>>], last |-> last, listed |-> {}]

Ids == Doc \cup {None}
Tab == [hydrated : BOOLEAN, expect : BOOLEAN, mayWrite : BOOLEAN, resync : BOOLEAN,
        diagram : Ids, model : Ids, holds : SUBSET Edit, version : Nat, outbox : Seq(Waiting),
        saved : [diagram : Ids, msgs : Seq(Waiting)], last : Ids, listed : SUBSET Doc]

Up   == [cmd : {"hello", "open", "delete"}, diagram : Ids] \cup [cmd : {"create"}, doc : SUBSET Edit]
        \cup [cmd : {"commit"}, e : Edit, diagram : Doc] \cup [cmd : {"resume"}, diagram : Ids, version : Nat]
Down == [cmd : {"snapshot"}, diagram : Doc, doc : SUBSET Edit, write : BOOLEAN, listed : SUBSET Doc]
        \cup [cmd : {"forked"}, diagram : Diagram] \cup [cmd : {"sync", "access"}]
        \cup [cmd : {"ack"}, e : Edit, version : Nat, replayed : BOOLEAN]
        \cup [cmd : {"change"}, e : Edit, version : Nat] \cup [cmd : {"error"}, e : Edit \cup {0}]

TypeOK ==
    /\ shipped \in BOOLEAN /\ owner \in [Diagram -> Page \cup {None}] /\ gone \subseteq Diagram
    /\ grants \in [Diagram -> [Page -> Level]]
    /\ doc \in [Doc -> SUBSET Edit]
    /\ seat \in [Page -> Ids] /\ fork \in [Page -> Diagram \cup {None}]
    /\ up \in [Page -> Seq(Up)] /\ down \in [Page -> Seq(Down)]
    /\ open \in [Page -> BOOLEAN] /\ tab \in [Page -> Tab]
    /\ edits \in 0..MaxEdits /\ events \in Nat
    /\ made \in Seq(Ids) /\ Len(made) = edits /\ forkOf \subseteq Diagram

Minted == {d \in Diagram : owner[d] # None}
Here   == Minted \ gone

Init ==
    /\ shipped \in BOOLEAN
    /\ \E d \in Diagram, p \in Page :
        owner = [i \in Diagram |-> IF i = d THEN p ELSE None]
    /\ gone = {}
    /\ grants = [d \in Diagram |-> [p \in Page |-> "none"]]
    /\ doc = [d \in Doc |-> {}]
    /\ seat = [p \in Page |-> None] /\ fork = [p \in Page |-> None]
    /\ up = [p \in Page |-> <<>>] /\ down = [p \in Page |-> <<>>]
    /\ open = [p \in Page |-> FALSE]
    /\ tab = [p \in Page |-> NewTab(None)]
    /\ edits = 0 /\ events = 0
    /\ made = <<>> /\ forkOf = {}

-----------------------------------------------------------------------------
(* The page.  An operator on a tab gives [t: the tab, out: what it sends].  *)

Persist(t) == [t EXCEPT !.saved = [diagram |-> t.model, msgs |-> t.outbox]]

\* The members of `s` that are in S, in order: of the first n, for each n, and of all.
Kept(s, S) ==
    LET kept[n \in 0..Len(s)] ==
            IF n = 0 THEN <<>> ELSE IF s[n] \in S THEN Append(kept[n - 1], s[n]) ELSE kept[n - 1]
    IN  kept
Within(s, S) == Kept(s, S)[Len(s)]
Without(msgs, es) == Within(msgs, {m \in ToSet(msgs) : m.e \notin es})

\* drain: what has not been sent goes out, unless the page may not write.
Drain(t, isOpen) ==
    IF ~isOpen \/ ~t.mayWrite THEN [t |-> t, out |-> <<>>]
    ELSE LET unsent == Within(t.outbox, {m \in ToSet(t.outbox) : ~m.sent})
         IN  [t   |-> [t EXCEPT !.outbox = [i \in DOMAIN @ |-> [@[i] EXCEPT !.sent = TRUE]]],
              out |-> [i \in DOMAIN unsent |-> [cmd |-> "commit", e |-> unsent[i].e, diagram |-> unsent[i].diagram]]]

\* requestResync: one at a time, of the document on the page.
Resync(t, isOpen) ==
    IF ~t.hydrated \/ ~isOpen \/ t.resync THEN [t |-> t, out |-> <<>>]
    ELSE [t   |-> [t EXCEPT !.resync = TRUE, !.expect = TRUE],
          out |-> <<[cmd |-> "open", diagram |-> t.model]>>]

Then(r, s) == [t |-> s.t, out |-> r.out \o s.out]

Mine(outbox) == {outbox[i].e : i \in DOMAIN outbox}

\* restoreOutbox: what the last page of this diagram left, unless it is here.
Restored(t, d) ==
    IF t.saved.diagram # d THEN t.outbox
    ELSE LET left == Without(t.saved.msgs, Mine(t.outbox))
         IN  t.outbox \o [i \in DOMAIN left |-> [left[i] EXCEPT !.diagram = d]]

\* The document on the page is replaced, and what waits is sent again.
Loaded(t, m, outbox) ==
    [t EXCEPT !.hydrated = TRUE, !.expect = FALSE, !.resync = FALSE, !.mayWrite = m.write,
              !.diagram = m.diagram, !.model = m.diagram, !.last = m.diagram,
              !.version = Cardinality(m.doc), !.holds = m.doc \cup Mine(outbox), !.listed = m.listed,
              !.outbox = [i \in DOMAIN outbox |-> [outbox[i] EXCEPT !.sent = FALSE]]]

\* applySnapshot: what was drawn before the first answer becomes a diagram of
\* its own (B2); a move to another diagram abandons the outbox, and anything
\* else replays it.
OnSnapshot(t, m) ==
    IF ~t.expect /\ ~t.hydrated /\ t.holds # {}
    THEN [t |-> [t EXCEPT !.expect = TRUE], out |-> <<[cmd |-> "create", doc |-> t.holds]>>]
    ELSE LET switched == t.hydrated /\ t.diagram # m.diagram
             outbox   == IF switched THEN <<>> ELSE Restored(t, m.diagram)
             loaded   == Loaded(t, m, outbox)
         IN  Drain(IF switched THEN Persist(loaded) ELSE loaded, TRUE)

\* A resume that found the page in step.
OnSync(t) ==
    Drain([t EXCEPT !.outbox = [i \in DOMAIN @ |-> [@[i] EXCEPT !.sent = FALSE]]], TRUE)

OnForked(t, m) ==
    [t   |-> Persist([t EXCEPT !.diagram = m.diagram, !.outbox = <<>>, !.expect = TRUE]),
     out |-> <<[cmd |-> "open", diagram |-> m.diagram]>>]

\* A replayed answer to a request the page did not know had landed is fetched again.
OnAck(t, m) ==
    LET taken == Persist([t EXCEPT !.outbox = Without(@, {m.e}),
                                   !.holds = IF m.replayed THEN @ ELSE @ \cup {m.e},
                                   !.version = IF m.replayed THEN @ ELSE m.version])
    IN  IF m.replayed /\ m.e \in Mine(t.outbox)
        THEN LET asked == Resync(taken, TRUE) IN Then(asked, Drain(asked.t, TRUE))
            ELSE Drain(taken, TRUE)

\* applyChange: one already taken is ignored, a gap is fetched.
OnChange(t, m) ==
    IF m.version - 1 < t.version THEN [t |-> t, out |-> <<>>]
    ELSE IF m.version - 1 > t.version THEN Resync(t, TRUE)
    ELSE [t |-> [t EXCEPT !.holds = @ \cup {m.e}, !.version = m.version], out |-> <<>>]

\* A refusal takes its request out of the outbox and fetches the document again.
OnError(t, m) ==
    IF m.e \in Mine(t.outbox)
    THEN Resync(Persist([t EXCEPT !.outbox = Without(@, {m.e})]), TRUE)
    ELSE [t |-> t, out |-> <<>>]

Heard(t, m) ==
    CASE m.cmd = "snapshot" -> OnSnapshot(t, m)
      [] m.cmd = "sync"     -> OnSync(t)
      [] m.cmd = "forked"   -> OnForked(t, m)
      [] m.cmd = "ack"      -> OnAck(t, m)
      [] m.cmd = "change"   -> OnChange(t, m)
      [] m.cmd = "access"   -> Resync(t, TRUE)
      [] m.cmd = "error"    -> OnError(t, m)

-----------------------------------------------------------------------------
(* The person at the page *)

Happens == events < MaxEvents /\ events' = events + 1

Sends(p, r) ==
    /\ tab' = [tab EXCEPT ![p] = r.t]
    /\ up' = [up EXCEPT ![p] = @ \o r.out]

\* submit: only once the page has heard from the server about its diagram.
Submits(t, e) == t.hydrated

\* An edit: applied here at once, and submitted.
Draw(p) ==
    /\ edits < MaxEdits /\ tab[p].mayWrite
    /\ edits' = edits + 1
    /\ made' = Append(made, tab[p].model)
    /\ LET e    == edits + 1
           here == [tab[p] EXCEPT !.holds = @ \cup {e}]
       IN  Sends(p, IF ~Submits(here, e) THEN [t |-> here, out |-> <<>>]
                    ELSE Drain(Persist([here EXCEPT !.outbox = Append(@, [e |-> e, diagram |-> here.diagram, sent |-> FALSE])]),
                               open[p]))
    /\ UNCHANGED <<server, down, open, events, forkOf>>

\* Opening, creating and deleting from the header, the page's answered picture
\* given up until the snapshot asked for comes.
Ask(p, sent, request) ==
    /\ open[p] /\ tab[p].hydrated
    /\ Happens
    /\ Sends(p, [t   |-> Persist([sent.t EXCEPT !.hydrated = FALSE, !.expect = TRUE, !.outbox = <<>>]),
                 out |-> Append(sent.out, request)])
    /\ UNCHANGED <<server, down, open, edits, made, forkOf>>

OpenDiagram(p, d) == d \in tab[p].listed \ {tab[p].model}
                     /\ Ask(p, Drain(tab[p], TRUE), [cmd |-> "open", diagram |-> d])
CreateDiagram(p)  == Ask(p, Drain(tab[p], TRUE), [cmd |-> "create", doc |-> {}])
DeleteDiagram(p)  == Ask(p, [t |-> tab[p], out |-> <<>>], [cmd |-> "delete", diagram |-> tab[p].model])

\* The pulse drops the outbox of a page that may not write.
ReadOnlyPulse(p) ==
    /\ ~tab[p].mayWrite /\ tab[p].outbox # <<>>
    /\ tab' = [tab EXCEPT ![p] = Persist([@ EXCEPT !.outbox = <<>>])]
    /\ UNCHANGED <<server, up, down, open, counts, made, forkOf>>

Hear(p) ==
    /\ down[p] # <<>>
    /\ down' = [down EXCEPT ![p] = Tail(@)]
    /\ Sends(p, Heard(tab[p], Head(down[p])))
    /\ UNCHANGED <<server, open, counts, made, forkOf>>

-----------------------------------------------------------------------------
(* The server *)

CanRead(d, p)  == \/ d = Template /\ shipped
                  \/ d \in Here /\ (owner[d] = p \/ grants[d][p] # "none")
CanWrite(d, p) == d \in Here /\ (owner[d] = p \/ grants[d][p] = "write")
Known(d)       == d \in Here \/ (d = Template /\ shipped)

\* first: a diagram this principal may read, else the template, else nothing.
Firsts(p) == IF \E d \in Here : CanRead(d, p) THEN {d \in Here : CanRead(d, p)}
             ELSE IF shipped THEN {Template} ELSE {None}

Snapshot(d, p) ==
    [cmd |-> "snapshot", diagram |-> d, doc |-> doc[d], write |-> CanWrite(d, p) \/ d = Template,
     listed |-> {i \in Doc : CanRead(i, p)}]
Error(e) == [cmd |-> "error", e |-> e]
NoEdit   == 0

\* The session answers its own page and has read one message.
Answer(p, msgs) ==
    /\ up' = [up EXCEPT ![p] = Tail(@)]
    /\ down' = [down EXCEPT ![p] = @ \o msgs]

Refuse(p, e) == Answer(p, <<Error(e)>>) /\ UNCHANGED <<server, forkOf>>

Take(p, d) ==
    /\ seat' = [seat EXCEPT ![p] = d]
    /\ Answer(p, <<Snapshot(d, p)'>>)

ReadHello(p, m) ==
    /\ m.cmd = "hello"
    /\ IF Known(m.diagram) /\ ~CanRead(m.diagram, p) THEN Refuse(p, NoEdit)
       ELSE \E d \in IF Known(m.diagram) THEN {m.diagram} ELSE Firsts(p) :
            IF d = None THEN Refuse(p, NoEdit)
            ELSE UNCHANGED <<shipped, owner, gone, grants, doc, fork, forkOf>> /\ Take(p, d)

ReadOpen(p, m) ==
    /\ m.cmd = "open"
    /\ IF ~CanRead(m.diagram, p) THEN Refuse(p, NoEdit)
       ELSE UNCHANGED <<shipped, owner, gone, grants, doc, fork, forkOf>> /\ Take(p, m.diagram)

ReadResume(p, m) ==
    /\ m.cmd = "resume"
    /\ IF ~CanRead(m.diagram, p) THEN Refuse(p, NoEdit)
       ELSE /\ seat' = [seat EXCEPT ![p] = m.diagram]
            /\ Answer(p, IF m.version = Cardinality(doc[m.diagram]) THEN <<[cmd |-> "sync"]>>
                         ELSE <<Snapshot(m.diagram, p)>>)
            /\ UNCHANGED <<shipped, owner, gone, grants, doc, fork, forkOf>>

Full(p) == Cardinality({d \in Here : owner[d] = p}) >= Quota

\* create: an id never used, owned by whoever asked.
Mint(d, p, content) ==
    /\ owner' = [owner EXCEPT ![d] = p]
    /\ doc' = [doc EXCEPT ![d] = content]

ReadCreate(p, m) ==
    /\ m.cmd = "create"
    /\ IF Full(p) THEN Refuse(p, NoEdit)
       ELSE \E d \in Diagram \ Minted :
            Mint(d, p, m.doc) /\ UNCHANGED <<shipped, gone, grants, fork, forkOf>> /\ Take(p, d)

\* A store with no templates is never left empty (B131).
Reseeds(p, d) ==
    IF Here = {d} /\ ~shipped
    THEN \E f \in Diagram \ Minted : owner' = [owner EXCEPT ![f] = p]
    ELSE UNCHANGED owner

ReadDelete(p, m) ==
    /\ m.cmd = "delete"
    /\ IF ~CanWrite(m.diagram, p) THEN Refuse(p, NoEdit)
       ELSE /\ gone' = gone \cup {m.diagram} /\ Reseeds(p, m.diagram)
            /\ UNCHANGED <<shipped, grants, doc, fork, forkOf>>
            /\ \E d \in Firsts(p)' :
                IF d # None THEN Take(p, d)
                ELSE /\ Answer(p, <<Error(NoEdit)>>)
                     /\ seat' = IF seat[p] = m.diagram THEN [seat EXCEPT ![p] = None] ELSE seat

\* A slip: a write lands where the session is, whatever it was made on.
MadeAnywhere(p, m) == FALSE

\* madeElsewhere: the write names a diagram the session has left, and not the
\* template whose fork the session is on (B393).
MadeElsewhere(p, m) ==
    /\ m.diagram # seat[p]
    /\ ~(m.diagram = Template /\ fork[p] = seat[p])

Landed(d, e) == [doc EXCEPT ![d] = @ \cup {e}]

\* forkTemplate: a write on the template lands on a copy that the session moves to.
Forks(p, m) ==
    \E f \in Diagram \ Minted :
        /\ Mint(f, p, doc[Template] \cup {m.e})
        /\ seat' = [seat EXCEPT ![p] = f] /\ fork' = [fork EXCEPT ![p] = f]
        /\ forkOf' = forkOf \cup {f}
        /\ Answer(p, <<[cmd |-> "forked", diagram |-> f],
                       [cmd |-> "ack", e |-> m.e, version |-> 1, replayed |-> FALSE]>>)
        /\ UNCHANGED <<shipped, gone, grants>>

ReadCommit(p, m) ==
    LET d == seat[p] IN
    /\ m.cmd = "commit"
    /\ IF d = None \/ ~Known(d) THEN Refuse(p, NoEdit)
       ELSE IF MadeElsewhere(p, m) THEN Refuse(p, m.e)
       ELSE IF d = Template
       THEN IF Full(p) THEN Refuse(p, m.e) ELSE Forks(p, m)
       ELSE IF ~CanWrite(d, p) THEN Refuse(p, m.e)
       ELSE IF m.e \in doc[d]
       THEN /\ Answer(p, <<[cmd |-> "ack", e |-> m.e, version |-> Cardinality(doc[d]), replayed |-> TRUE]>>)
            /\ UNCHANGED <<server, forkOf>>
       ELSE /\ doc' = Landed(d, m.e)
            /\ LET v == Cardinality(doc[d]) + 1
               IN  down' = [q \in Page |-> IF q = p
                        THEN Append(down[q], [cmd |-> "ack", e |-> m.e, version |-> v, replayed |-> FALSE])
                        ELSE IF seat[q] = d THEN Append(down[q], [cmd |-> "change", e |-> m.e, version |-> v])
                        ELSE down[q]]
            /\ up' = [up EXCEPT ![p] = Tail(@)]
            /\ UNCHANGED <<shipped, owner, gone, grants, seat, fork, forkOf>>

Read(p) ==
    /\ up[p] # <<>>
    /\ \E m \in {Head(up[p])} :
        \/ ReadHello(p, m) \/ ReadOpen(p, m) \/ ReadResume(p, m) \/ ReadCreate(p, m)
        \/ ReadDelete(p, m) \/ ReadCommit(p, m)
    /\ UNCHANGED <<open, tab, counts, made>>

-----------------------------------------------------------------------------
(* What happens elsewhere *)

\* A slip: nobody is moved, each page is only told to ask again.
LeaveLater(new) == new = seat

\* announceAccess: a session that may no longer read where it is leaves, for the
\* first diagram it may read or for none.
Leave(new) ==
    \A p \in Page : \A was \in {seat[p]} :
        IF was # None /\ ~CanRead(was, p)' THEN new[p] \in Firsts(p)' ELSE new[p] = was

\* A slip: a page whose session is moved is not sent where to.
MovedUntold(p, new) == <<>>

Moved(p, new) == IF new[p] = seat[p] THEN <<>>
                 ELSE IF new[p] = None THEN <<Error(NoEdit)>> ELSE <<Snapshot(new[p], p)'>>

\* An owner grants, or revokes with "none", over REST; everyone is told to ask again.
Grant(d, p, l) ==
    /\ d \in Here /\ owner[d] # p /\ grants[d][p] # l
    /\ Happens
    /\ grants' = [grants EXCEPT ![d][p] = l]
    /\ UNCHANGED <<shipped, owner, gone, doc, fork, up, open, tab, edits, made, forkOf>>
    /\ \E new \in [Page -> Doc \cup {None}] :
        /\ Leave(new) /\ seat' = new
        /\ down' = [q \in Page |-> IF open[q] THEN down[q] \o Moved(q, new) \o <<[cmd |-> "access"]>>
                                   ELSE down[q]]

\* A diagram deleted over REST: retarget moves everyone who was on it to a
\* survivor of their own, and leaves be whoever has none.
RestDelete(d, by) ==
    /\ CanWrite(d, by)
    /\ Happens
    /\ gone' = gone \cup {d} /\ Reseeds(by, d)
    /\ UNCHANGED <<shipped, grants, doc, fork, up, open, tab, edits, made, forkOf>>
    /\ \E new \in [Page -> Doc \cup {None}] :
        /\ \A p \in Page : IF seat[p] = d /\ Firsts(p)' # {None} THEN new[p] \in Firsts(p)' ELSE new[p] = seat[p]
        /\ seat' = new
        /\ down' = [q \in Page |-> down[q] \o Moved(q, new)]

-----------------------------------------------------------------------------
(* The socket *)

Connect(p) ==
    /\ ~open[p]
    /\ open' = [open EXCEPT ![p] = TRUE]
    /\ Sends(p, IF tab[p].hydrated
                THEN [t   |-> [tab[p] EXCEPT !.resync = FALSE,
                                   !.outbox = [i \in DOMAIN @ |-> [@[i] EXCEPT !.sent = FALSE]]],
                      out |-> <<[cmd |-> "resume", diagram |-> tab[p].model, version |-> tab[p].version]>>]
                ELSE [t |-> tab[p], out |-> <<[cmd |-> "hello", diagram |-> tab[p].last]>>])
    /\ UNCHANGED <<server, down, counts, made, forkOf>>

Gone(p) ==
    /\ open[p]
    /\ Happens
    /\ open' = [open EXCEPT ![p] = FALSE]
    /\ up' = [up EXCEPT ![p] = <<>>] /\ down' = [down EXCEPT ![p] = <<>>]
    /\ seat' = [seat EXCEPT ![p] = None] /\ fork' = [fork EXCEPT ![p] = None]
    /\ UNCHANGED <<shipped, owner, gone, grants, doc, edits, made, forkOf>>

Drop(p) == Gone(p) /\ UNCHANGED tab

Reload(p) ==
    /\ Gone(p)
    /\ tab' = [tab EXCEPT ![p] = [NewTab(tab[p].last) EXCEPT !.saved = tab[p].saved]]

Next ==
    \E p \in Page :
        \/ Draw(p) \/ CreateDiagram(p) \/ DeleteDiagram(p) \/ ReadOnlyPulse(p)
        \/ \E d \in Doc : OpenDiagram(p, d)
        \/ Hear(p) \/ Read(p)
        \/ \E d \in Diagram : RestDelete(d, p) \/ \E l \in Level : Grant(d, p, l)
        \/ Connect(p) \/ Drop(p) \/ Reload(p)

Spec == Init /\ [][Next]_vars

-----------------------------------------------------------------------------
(* Properties *)

\* A write lands on the diagram it was drawn on and on no other, through every
\* move of its session: a deletion, a revocation, a fork, a switch, a socket
\* that drops (B393).  What is drawn on the template lands on a fork of it, and
\* what is drawn before the first answer on a diagram of its own.
WritesLandWhereMade ==
    \A d \in Doc : \A e \in doc[d] :
        \/ made[e] = d
        \/ made[e] = Template /\ d \in forkOf
        \/ made[e] = None

\* No session stays on a diagram its principal may not read (B385).
SeatsMayRead ==
    \A p \in Page : seat[p] # None /\ Known(seat[p]) => CanRead(seat[p], p)

Quiet(p) == open[p] /\ up[p] = <<>> /\ down[p] = <<>>

Settled(p) == Quiet(p) /\ tab[p].hydrated /\ tab[p].outbox = <<>> /\ Known(seat[p])

\* Once nothing is on its way, a page that knows which diagram it shows shows the
\* one its session is on, and misses nothing of it, unless its session has none
\* to be on.
PagesShowTheirs ==
    \A p \in Page :
        Settled(p) /\ tab[p].diagram = tab[p].model
            => tab[p].model = seat[p] /\ doc[seat[p]] \subseteq tab[p].holds

\* "`resume` found us in step: no document, just the server's authority. The
\* local model ... stand" (sync.js:468): a settled page shows what its session
\* is on.
InStep == \A p \in Page : Settled(p) => tab[p].holds = doc[seat[p]]

\* "A grant reached no open session, so ... a granted peer never saw the diagram
\* appear ... The reply is a snapshot, which carries both symptoms' cures at once"
\* (sync.js:519): what a page was granted is in its list.
GrantsAreSeen ==
    \A p \in Page, d \in Here : Quiet(p) /\ grants[d][p] # "none" => d \in tab[p].listed
=============================================================================

------------------------------ MODULE Session -------------------------------
(***************************************************************************)
(* One browser tab, the server's copy of its diagram and the wire between  *)
(* them: server/protocol.js and server/store.js (commit, undo, seen) with  *)
(* the broadcasts of server/hub.js and server/rest.js.  The other tabs and *)
(* the agents are the environment: any of them may write at any time.      *)
(*                                                                         *)
(* The code does not keep its promises in every order of events.  The ways *)
(* in which a tab is led astray are noted in tab.strays as they happen, so *)
(* that the rest can be held to the promise:                               *)
(*   held       a change held in a gesture has moved the counter, and the  *)
(*              resume that reports it is answered `sync`                  *)
(*   reborn     a restarted server has counted up to versions the tab knew,*)
(*              and they are taken for the same documents                  *)
(*   overlap    a write lands while an agent's awaits its flush to be told *)
(*   overtaken  a commit goes out ahead of answered ones that a restart    *)
(*              lost and that are about to be sent again                   *)
(*   outdated   an entry sent again is pruned by the version of its first  *)
(*              answer                                                     *)
(*   unasked    a resync owed was forgotten with the socket                *)
(*   passed     a commit refused for now lands after a later one           *)
(*   gaveup     MAX_REPLAYS reached with no document to rebase on          *)
(*   stalled    throttled twice, it is not woken when the window passes     *)
(*   lock       unsent work dropped, unexplained, as the diagram locks, or *)
(*              left unsent as it unlocks                                  *)
(***************************************************************************)
EXTENDS Tab

CONSTANTS
    MaxEdits,       \* bounds on the model: edits and undos of the tab,
    MaxOthers,      \* writes by others,
    MaxGestures,    \* gestures the tab makes,
    MaxDrops,       \* sockets that drop,
    MaxReloads,     \* reloads of the page,
    MaxRestarts,    \* restarts of the server,
    MaxLocks,       \* times an agent takes the diagram,
    MaxThrottles,   \* commits refused for their rate,
    MaxKinds        \* and kinds of those in one behaviour

ASSUME BoundsAssumption ==
    {MaxEdits, MaxOthers, MaxGestures, MaxDrops, MaxReloads, MaxRestarts, MaxLocks, MaxThrottles, MaxKinds} \subseteq Nat

VARIABLES
    tab,
    up, down,       \* the socket, each way
    late,           \* what a closed socket had carried and the server has not read
    seated,         \* the socket's session is on the diagram
    server,         \* the diagram's entry: its documents by version, log, seen ids
    disk,           \* what a restart finds
    flushing,       \* REST writes waiting for their flush before they are told
    locked,
    life,           \* restarts so far, and the version this one began at
    heard,          \* the life in which the tab last took the server's version
    undone,         \* how often each of the tab's undos was performed
    counts          \* of what the constants bound

vars == <<tab, up, down, late, seated, server, disk, flushing, locked, life, heard, undone, counts>>

Count(what) == counts' = [counts EXCEPT ![what] = @ + 1]
Bound == [edits |-> MaxEdits, others |-> MaxOthers, gestures |-> MaxGestures, drops |-> MaxDrops,
          reloads |-> MaxReloads, restarts |-> MaxRestarts, locks |-> MaxLocks, throttles |-> MaxThrottles]
Troubles == {"drops", "reloads", "restarts", "locks", "throttles"}
May(what) == /\ counts[what] < Bound[what]
             /\ what \in Troubles =>
                  Cardinality({what} \cup {k \in Troubles : counts[k] > 0}) <= MaxKinds

Doc(s)     == Last(s.docs)
Version(s) == Len(s.docs) - 1

Init ==
    /\ tab = NewTab
    /\ up = <<>> /\ down = <<>> /\ late = <<>> /\ flushing = <<>>
    /\ seated = FALSE /\ locked = FALSE
    /\ server = [docs |-> <<Blank>>, log |-> <<>>, landed |-> {}, seen |-> <<>>]
    /\ disk = [docs |-> <<Blank>>, log |-> <<>>, landed |-> {}]
    /\ life = [n |-> 0, from |-> 0] /\ heard = 0
    /\ undone = [k \in 1..MaxEdits |-> 0]
    /\ counts = [what \in DOMAIN Bound |-> 0]

\* Sent to a server whose restart the tab has not heard of, or holds the news of in
\* a gesture, ahead of what that one may have lost.
Overtakes(t) == /\ heard # life.n \/ \E m \in ToSet(t.deferred) : m.cmd = "snapshot"
                /\ \E m \in ToSet(t.outbox) : m.answered
                /\ \E m \in ToSet(t.out) : m.cmd = "commit"

\* The tab becomes t, having sent t.out.
Becomes(t) ==
    /\ tab' = [IF Overtakes(t) THEN Strayed(t, "overtaken") ELSE t EXCEPT !.out = <<>>]
    /\ up' = up \o t.out

\* What a lock made it forget, a reconnect will not bring up again.
Left(t) == IF t.shed = {} THEN t ELSE Strayed(t, "lock")

wire  == <<down, late, seated>>
store == <<server, disk, flushing, locked, life>>

-----------------------------------------------------------------------------
(* The tab *)

Editable == tab.hydrated /\ ~tab.locked
NextEdit(f) == [field |-> f, id |-> counts["edits"] + 1]

Commit(f) ==
    /\ Editable /\ May("edits") /\ Count("edits")
    /\ Becomes(CommitHere(tab, NextEdit(f)))
    /\ UNCHANGED <<wire, store, heard, undone>>

Nudge(f) ==
    /\ Editable /\ May("edits") /\ Count("edits")
    /\ Becomes(Amend(tab, NextEdit(f)))
    /\ UNCHANGED <<wire, store, heard, undone>>

WindowCloses ==
    /\ tab.window # NoWindow
    /\ Becomes(CloseWindow(tab))
    /\ UNCHANGED <<wire, store, heard, undone, counts>>

Undo ==
    /\ Editable /\ May("edits") /\ Count("edits")
    /\ Becomes(UndoHere(tab, counts["edits"] + 1))
    /\ UNCHANGED <<wire, store, heard, undone>>

GestureStarts ==
    /\ Editable /\ ~tab.gesture /\ May("gestures") /\ Count("gestures")
    /\ tab' = [tab EXCEPT !.gesture = TRUE]
    /\ UNCHANGED <<up, wire, store, heard, undone>>

\* The tab has asked this socket where it stands and not taken the answer.
Resuming == \/ \E m \in ToSet(up) : m.cmd = "resume"
            \/ \E m \in ToSet(down) : m.cmd = "sync"

GestureEnds ==
    /\ tab.gesture
    /\ LET ended == Release([tab EXCEPT !.gesture = FALSE]) IN
        Becomes(IF Resuming /\ tab.deferred # <<>> THEN Strayed(ended, "held") ELSE ended)
    /\ UNCHANGED <<wire, store, heard, undone, counts>>

\* A server that lost some versions has counted up to them again: the number it
\* answers with is one the tab knows, of another document.
Reborn(m) ==
    \/ m.cmd = "sync" /\ heard # life.n /\ m.version > life.from
    \/ m.cmd = "snapshot" /\ \E e \in ToSet(tab.outbox) \cup ToSet(tab.stored) :
          /\ e.answered /\ e.id \notin DOMAIN server.seen
          /\ life.from < e.version /\ e.version <= m.version

\* The next frame from the server.
Hear ==
    /\ down # <<>>
    /\ LET m == Head(down) IN
        /\ Becomes(OnMessage(IF Reborn(m) THEN Strayed(tab, "reborn") ELSE tab, m))
        /\ heard' = IF m.cmd = "lock" THEN heard ELSE life.n
    /\ down' = Tail(down)
    /\ UNCHANGED <<late, seated, store, undone, counts>>

BackoffEnds ==
    /\ tab.throttled \in {"timed", "extended"}
    /\ \E passed \in BOOLEAN :
        /\ tab.throttled = "timed" => passed
        /\ Becomes(TimerFires(tab, passed))
    /\ UNCHANGED <<wire, store, heard, undone, counts>>

\* throttledUntil passes with nothing set for it.
BackoffPasses ==
    /\ tab.throttled = "untimed"
    /\ tab' = [tab EXCEPT !.throttled = "no"]
    /\ UNCHANGED <<up, wire, store, heard, undone, counts>>

\* What is still unsent as the lock ends stays so.
DwellEnds ==
    /\ tab.unlocking
    /\ LET freed == [tab EXCEPT !.unlocking = FALSE, !.locked = FALSE] IN
        tab' = IF \E m \in ToSet(tab.outbox) : Unsent(m) THEN Strayed(freed, "lock") ELSE freed
    /\ UNCHANGED <<up, wire, store, heard, undone, counts>>

Connect ==
    /\ ~tab.open
    /\ Becomes(OnOpen(tab))
    /\ UNCHANGED <<wire, store, heard, undone, counts>>

\* The socket closes; of what the tab had sent, the server still reads some first part.
Hang(t) ==
    /\ tab' = [t EXCEPT !.open = FALSE]
    /\ \E k \in 0..Len(up) :
        late' = late \o SelectSeq(SubSeq(up, 1, k), LAMBDA m : m.cmd \in {"commit", "undo"})
    /\ up' = <<>> /\ down' = <<>> /\ seated' = FALSE

Drop ==
    /\ tab.open /\ May("drops") /\ Count("drops")
    /\ Hang(Left(tab))
    /\ UNCHANGED <<store, heard, undone>>

\* A reload keeps what was stored, and the window with its burst goes unsubmitted.
Reload ==
    /\ tab.hydrated /\ May("reloads") /\ Count("reloads")
    /\ Hang([NewTab EXCEPT !.stored = tab.stored, !.made = tab.made, !.told = tab.told,
                           !.shed = tab.shed, !.strays = tab.strays])
    /\ UNCHANGED <<store, heard, undone>>

-----------------------------------------------------------------------------
(* The server *)

SnapshotBody == [cmd |-> "snapshot", doc |-> Doc(server), version |-> Version(server), locked |-> locked]
Error(id, code) == [cmd |-> "error", id |-> id, code |-> code]
Ack(kind, id, version, durable, ops) ==
    [cmd |-> "ack", kind |-> kind, acked |-> id, version |-> version, durable |-> durable, ops |-> ops]
ChangeBody(from, version, ops) == [cmd |-> "change", from |-> from, version |-> version, ops |-> ops]

Stored(s) == [docs |-> s.docs, log |-> s.log, landed |-> s.landed]

\* store.commit and txn.commit: the entry after ops that change something.
Landed(s, ids, ops) ==
    [s EXCEPT !.docs = Append(@, ops @@ Doc(s)), !.landed = @ \cup ids,
              !.log = Append(@, Restrict(Doc(s), DOMAIN ops))]

Reversed(s) == [s EXCEPT !.docs = Append(@, Last(s.log) @@ Doc(s)), !.log = Front(@)]

\* Hub.broadcast, to the tab if its session is on the diagram.
Told(frames) == IF seated THEN frames ELSE <<>>

\* A write lands while another waits for its flush to be told.
Overlaps(t) == IF flushing = <<>> THEN t ELSE Strayed(t, "overlap")

\* A refusal for now, of its rate or at a lock, has let a later edit past an earlier one.
Passes(id) == /\ counts["throttles"] + counts["locks"] > 0
              /\ \E e \in ToSet(tab.outbox) \cup ToSet(tab.stored) :
                    e.intent # <<>> /\ e.id < id /\ e.id \notin DOMAIN server.seen

\* One request read from the socket; `live` when it is the tab's present one.
\* What its session answers, and what the others on the diagram are sent.
Answers(live, replies, told) ==
    /\ down' = IF live THEN down \o replies ELSE down \o Told(told)
    /\ UNCHANGED <<disk, flushing, locked, life, heard>>

TakeCommit(m, live) ==
    LET ops == Plan(Doc(server), m.intent)
        ids == Ids(m)
    IN  \/ /\ locked
           /\ Answers(live, <<Error(None, "server-locked"), SnapshotBody>>, <<>>)
           /\ UNCHANGED <<tab, server, undone, counts>>
        \/ /\ ~locked /\ May("throttles") /\ Count("throttles")
           /\ Answers(live, <<Error(m.id, "rate-limited")>>, <<>>)
           /\ UNCHANGED <<tab, server, undone>>
        \/ /\ ~locked /\ m.id \in DOMAIN server.seen
           /\ Answers(live, <<Ack("replayed", m.id, server.seen[m.id], Version(disk), Nothing)>>, <<>>)
           /\ UNCHANGED <<tab, server, undone, counts>>
        \/ /\ ~locked /\ m.id \notin DOMAIN server.seen /\ ops = Nothing
           /\ server' = [server EXCEPT !.seen = (m.id :> Version(server)) @@ @, !.landed = @ \cup ids]
           /\ Answers(live, <<Ack("noop", m.id, None, None, Nothing)>>, <<>>)
           /\ tab' = IF Passes(m.id) THEN Strayed(tab, "passed") ELSE tab
           /\ UNCHANGED <<undone, counts>>
        \/ /\ ~locked /\ m.id \notin DOMAIN server.seen /\ ops # Nothing
           /\ LET after == Landed(server, ids, ops) IN
               /\ server' = [after EXCEPT !.seen = (m.id :> Version(after)) @@ @]
               /\ Answers(live, <<Ack("done", m.id, Version(after), Version(disk), ops)>>,
                          <<ChangeBody(Version(server), Version(after), ops)>>)
           /\ tab' = IF Passes(m.id) THEN Strayed(Overlaps(tab), "passed") ELSE Overlaps(tab)
           /\ UNCHANGED <<undone, counts>>

TakeUndo(m, live) ==
    \/ /\ locked
       /\ Answers(live, <<Error(None, "server-locked"), SnapshotBody>>, <<>>)
       /\ UNCHANGED <<tab, server, undone, counts>>
    \/ /\ ~locked /\ (m.expect # Version(server) \/ server.log = <<>>)
       /\ Answers(live, <<Error(m.id, "refused")>>, <<>>)
       /\ UNCHANGED <<tab, server, undone, counts>>
    \/ /\ ~locked /\ m.expect = Version(server) /\ server.log # <<>>
       /\ server' = Reversed(server)
       /\ undone' = [undone EXCEPT ![m.id] = @ + 1]
       /\ LET version == Version(server) + 1
              ops == Last(server.log)
          IN Answers(live, <<Ack("done", m.id, version, Version(disk), ops)>>,
                     <<ChangeBody(None, version, ops)>>)
       /\ tab' = Overlaps(tab)
       /\ UNCHANGED counts

Read(m, live) ==
    \/ m.cmd = "commit" /\ TakeCommit(m, live)
    \/ m.cmd = "undo" /\ TakeUndo(m, live)

ReadLate ==
    /\ late # <<>>
    /\ Read(Head(late), FALSE)
    /\ late' = Tail(late)
    /\ UNCHANGED <<up, seated>>

ReadWrite ==
    /\ up # <<>> /\ Head(up).cmd \in {"commit", "undo"}
    /\ Read(Head(up), TRUE)
    /\ up' = Tail(up)
    /\ UNCHANGED <<late, seated>>

\* hello, open, and a resume: in step, or the whole document.
ReadAsk ==
    /\ up # <<>> /\ Head(up).cmd \notin {"commit", "undo"}
    /\ up' = Tail(up)
    /\ seated' = TRUE
    /\ down' = Append(down,
        IF Head(up).cmd = "resume" /\ Head(up).version = Version(server)
        THEN [cmd |-> "sync", version |-> Version(server), locked |-> locked]
        ELSE SnapshotBody)
    /\ UNCHANGED <<tab, late, store, heard, undone, counts>>

Flush ==
    /\ disk # Stored(server)
    /\ disk' = Stored(server)
    /\ UNCHANGED <<tab, up, wire, server, flushing, locked, life, heard, undone, counts>>

\* The process dies, and the next one starts from the disk.
Restart ==
    /\ May("restarts") /\ Count("restarts")
    /\ server' = [docs |-> disk.docs, log |-> disk.log, landed |-> disk.landed, seen |-> <<>>]
    /\ life' = [n |-> life.n + 1, from |-> Version(disk)]
    /\ tab' = [Left(tab) EXCEPT !.open = FALSE]
    /\ up' = <<>> /\ down' = <<>> /\ late' = <<>> /\ flushing' = <<>>
    /\ seated' = FALSE /\ locked' = FALSE
    /\ UNCHANGED <<disk, heard, undone>>

-----------------------------------------------------------------------------
(* The others *)

OtherEdit(f) == [field |-> f, id |-> MaxEdits + counts["others"] + 1]

OtherTabWrites(f) ==
    /\ ~locked /\ May("others") /\ Count("others")
    /\ LET ops == Plan(Doc(server), <<OtherEdit(f)>>) IN
        /\ server' = Landed(server, {}, ops)
        /\ down' = down \o Told(<<ChangeBody(Version(server), Version(server) + 1, ops)>>)
    /\ tab' = Overlaps(tab)
    /\ UNCHANGED <<up, late, seated, disk, flushing, locked, life, heard, undone>>

OtherTabUndoes ==
    /\ ~locked /\ server.log # <<>> /\ May("others") /\ Count("others")
    /\ server' = Reversed(server)
    /\ down' = down \o Told(<<ChangeBody(None, Version(server) + 1, Last(server.log))>>)
    /\ tab' = Overlaps(tab)
    /\ UNCHANGED <<up, late, seated, disk, flushing, locked, life, heard, undone>>

\* rest.js commitWrite: landed, then flushed, and only then told.
AgentWrites(f) ==
    /\ locked /\ May("others") /\ Count("others")
    /\ LET ops == Plan(Doc(server), <<OtherEdit(f)>>)
           after == Landed(server, {}, ops)
       IN /\ server' = after
          /\ flushing' = Append(flushing, [state |-> Stored(after), from |-> Version(server), ops |-> ops])
    /\ tab' = Overlaps(tab)
    /\ UNCHANGED <<up, wire, disk, locked, life, heard, undone>>

AgentTold ==
    /\ flushing # <<>>
    /\ LET w == Head(flushing) IN
        /\ disk' = IF Version(disk) < Version(w.state) THEN w.state ELSE disk
        /\ down' = down \o Told(<<ChangeBody(w.from, Version(server), w.ops)>>)
    /\ flushing' = Tail(flushing)
    /\ UNCHANGED <<tab, up, late, seated, server, locked, life, heard, undone, counts>>

Lock ==
    /\ ~locked /\ May("locks") /\ Count("locks")
    /\ locked' = TRUE
    /\ down' = down \o Told(<<[cmd |-> "lock", locked |-> TRUE]>>)
    /\ UNCHANGED <<tab, up, late, seated, server, disk, flushing, life, heard, undone>>

\* Released, lapsed or reclaimed.
Unlock ==
    /\ locked
    /\ locked' = FALSE
    /\ down' = down \o Told(<<[cmd |-> "lock", locked |-> FALSE]>>)
    /\ UNCHANGED <<tab, up, late, seated, server, disk, flushing, life, heard, undone, counts>>

Next ==
    \/ \E f \in Fields : Commit(f) \/ Nudge(f) \/ OtherTabWrites(f) \/ AgentWrites(f)
    \/ WindowCloses \/ Undo \/ GestureStarts \/ GestureEnds
    \/ Hear \/ BackoffEnds \/ BackoffPasses \/ DwellEnds \/ Connect \/ Drop \/ Reload
    \/ ReadLate \/ ReadWrite \/ ReadAsk \/ Flush \/ Restart
    \/ OtherTabUndoes \/ AgentTold \/ Lock \/ Unlock

Spec == Init /\ [][Next]_vars

-----------------------------------------------------------------------------

\* The state's types; the tab's requests have ids of their own, and only an
\* open socket is seated.
TypeOK ==
    /\ DOMAIN tab = DOMAIN NewTab
    /\ tab.shown \in [Fields -> 0..(MaxEdits + MaxOthers)]
    /\ tab.applied \in Nat /\ tab.counter \in Nat
    /\ \A k, j \in DOMAIN tab.outbox : tab.outbox[k].id = tab.outbox[j].id => k = j
    /\ tab.out = <<>>
    /\ \A d \in ToSet(server.docs) : d \in [Fields -> 0..(MaxEdits + MaxOthers)]
    /\ seated => tab.open
    /\ {seated, locked} \subseteq BOOLEAN

\* Nothing on its way, nothing held, nothing unanswered: the quiescence of I7.
AtRest ==
    /\ tab.open /\ tab.hydrated /\ ~tab.gesture
    /\ up = <<>> /\ down = <<>> /\ late = <<>> /\ flushing = <<>>
    /\ tab.deferred = <<>> /\ tab.window = NoWindow
    /\ \A m \in ToSet(tab.outbox) : m.answered

Agrees == tab.shown = Doc(server) /\ tab.applied = Version(server)

\* I7 and GR6: at rest the tab shows the server's document at the server's version,
\* whatever was cascaded, held, lost, replayed or lost again on the way.
Converged == AtRest => Agrees

\* I7 (sync.js, changes.js, protocol.js together) for a tab that was never led astray.
ConvergedUnastray == tab.strays = {} => Converged

\* Answered, and the answer lost with its socket.
Unheard(m) == /\ ~m.answered /\ m.id \in DOMAIN server.seen
              /\ \A a \in ToSet(down \o tab.deferred) :
                    a.cmd = "ack" /\ a.acked = m.id => a.kind = "replayed"

\* Before it is at rest too, what the tab shows is the server's document at the
\* version it has applied with its own unanswered work over it: its arithmetic of
\* versions and its re-application never leave a third thing on the canvas (D12, D30).
ShownIsExplained ==
    /\ tab.hydrated /\ ~tab.asked /\ heard = life.n /\ tab.strays = {} /\ tab.shed = {}
    /\ \A m \in ToSet(tab.outbox) : ~Unheard(m)
    /\ \A m \in ToSet(tab.deferred) : m.cmd # "snapshot"
    => tab.shown = PendingOps(tab) @@ server.docs[tab.applied + 1]

\* A tab that waits for the document it asked for (resyncAsked) has its request or
\* the answer on this socket: it does not refuse to ask while nothing is coming.
ResyncUnderWay ==
    tab.asked /\ tab.open =>
        \/ \E m \in ToSet(up) : m.cmd = "open"
        \/ \E m \in ToSet(down \o tab.deferred) : m.cmd = "snapshot"

\* A request the tab counts as sent on the open socket is on its way there, or its
\* answer, or a document that will have it sent again, on the way back: the outbox
\* never holds what nothing will move.
NothingStranded ==
    \A m \in ToSet(tab.outbox) : tab.open /\ m.sent /\ ~m.answered =>
        \/ \E r \in ToSet(up) : r.cmd \in {"resume", "open", "hello"} \/ (r.cmd \in {"commit", "undo"} /\ r.id = m.id)
        \/ \E r \in ToSet(down \o tab.deferred) :
              \/ r.cmd \in {"sync", "snapshot"} \/ (r.cmd = "lock" /\ r.locked)
              \/ r.cmd = "ack" /\ r.acked = m.id
              \/ r.cmd = "error" /\ r.id = m.id

\* Nothing is waited for that will not come: neither a document asked for nor a request sent.
NothingAwaitedInVain == ResyncUnderWay /\ NothingStranded

Kept == UNION ({Ids(m) : m \in ToSet(tab.outbox)} \cup {Ids(m) : m \in ToSet(tab.stored)})

\* sync.js on a throttled command, "stays in the outbox, unsent, and goes out again when
\* the window has passed": with the socket open and the diagram unlocked, work that is
\* still to be sent has a timer, or a frame under way, that will have it sent.
UnsentGoesOut ==
    tab.open /\ tab.hydrated /\ ~tab.locked /\ (\E m \in ToSet(tab.outbox) : Unsent(m)) =>
        \/ tab.throttled \in {"timed", "extended"}
        \/ up # <<>>
        \/ \E r \in ToSet(down \o tab.deferred) : r.cmd \in {"sync", "snapshot", "ack", "error"}

UnsentGoesOutUnastray == tab.strays = {} => UnsentGoesOut

\* D28, D30, I16: every edit made and submitted is in what the disk holds, in the tab's
\* outbox or its storage, or was given up aloud, through drops, reloads and restarts;
\* the burst in a window not yet submitted is not counted, nor what a lock cleared.
WorkIsKept == tab.strays = {} => tab.made \subseteq disk.landed \cup Kept \cup tab.told \cup tab.shed

\* D29, D30: at rest the edits are not merely kept but done: each has landed on the
\* server's document, or the tab has said that it did not.  What a restart lost after
\* answering for it has been sent and answered again.
DoneAtRest == AtRest /\ tab.strays = {} => tab.made \subseteq server.landed \cup tab.told \cup tab.shed

\* An undo asked for once is performed once at most (B294: a write by anyone else in
\* between is refused), whatever is sent again.
UndoOnce == \A k \in 1..MaxEdits : undone[k] <= 1

\* What a tab made first the server applies first: a commit replayed after a drop or a
\* restart does not land on top of a later one of the same tab (B393, D29).
EditsLandInOrder ==
    [][\A c \in DOMAIN server'.seen \ DOMAIN server.seen :
          tab'.strays = {} /\ c \notin tab.told \cup tab.shed =>
          \A d \in DOMAIN server.seen : d < c]_server
=============================================================================

# Verification of drawv2

TLA+ models of the diagram server and of what its clients are promised, checked
with TLC on small instances and, for all components but the planner and the session,
proved with TLAPS for every instance.

## The system

drawv2 is a diagram editor. The document lives on the server; browsers see it over
a websocket and write optimistically, agents and the command line write over REST,
and every write goes through one planner into one change log per diagram, which is
flushed to a file system or to a bucket.

| component | source | state it keeps | operations |
| --- | --- | --- | --- |
| change log | `planner/log.mjs` | version, ring of records, cursor, byte count, evicted counts | append, evict, peek, read back |
| transaction commit | `planner/txn.mjs`, `planner/edges.mjs`, `model/ops.mjs` | the document | plan, commit, undo (of a run), redo |
| durability | `server/store.js`, `server/files.mjs`, `server/server.js` | entry: dirty, timer, watermark; `lost`; generations; writes in flight | create, markDirty, flush, remove, init, flushAll |
| write slot | `server/locks.js`, used by `server/rest.js` and `server/app.js` | lock and hold per diagram | acquire, renew, verify, heartbeat, release, reclaim, sweep |
| websocket session | `server/protocol.js`, `server/hub.js` | which diagram, actor, rate budget | hello, open, commit, undo, redo, resume, select, reclaim, delete; broadcast, retarget, retire |
| browser sync | `app/src/sync.js`, `app/src/changes.js`, `app/src/net.js` | outbox, applied version, deferred messages, read-only flags | submit, drain, ack, change, snapshot, sync, error, resync, replay |
| watchdog | `app/src/watchdog.js` | rung, wanted reload | probe, want, fire |
| access and codes | `server/store.js`, `server/codes.mjs`, `server/identity.mjs` | grants in documents, workspace grants and codes in side files | grant, revoke, mintCode, revokeCode, grantOwner, revokeOwner |
| recycle bin | `server/store.js`, `server/files.mjs` | the storage's soft-deleted objects | recoverable, restore |
| document model | `model/` | entities by kind, layers, selection, invariants | put, set, del, load |
| plugins | `plugins/`, `product/` | none of their own | kinds, triggers, drawing |
| engine | `engine/` | incremental views of the input situation | insert, retract |
| kernel | `kernel/` | none | geometry, routing, rendering |
| browser input and drawing | `app/src/input.js`, `app/src/renderer.js`, `app/src/main.js` | the gesture in progress | gestures, painters |
| command line, lab, tools | `cli/`, `lab/`, `tools/` | none on the server | REST calls, gates over the source |

How they meet: `Store.commit` calls the planner, which mutates the model and the
log and marks the entry dirty; a timer, a REST write or shutdown flushes it. The
session answers the sender with an ack and the hub sends everyone else the change.
REST writers must hold the write slot; browsers are refused while it is held and
may reclaim it. A flush the bucket refuses makes the instance retire its sessions.

What is hard, and what makes each part correct:

- *Change log.* Undo moves the version without appending, a commit cuts the redo
  tail, eviction drops from the bottom under two bounds, a floor and two ceilings.
  Right when undo of any run restores exactly an earlier state, seqs name one
  record, the byte count does not drift, and a person's last change outlives an
  agent's batch.
- *Durability.* A flush serialises before an `await` and does its bookkeeping after
  it. Requests fail, are retried, arrive late; processes die; two instances may
  share a bucket. Right when stored work is never overwritten, the watermark and
  the dirty flag tell the truth, and what is accepted is stored in the end.
- *Write slot.* A token is checked before a body is read and used after it; locks
  lapse on their own; the human takes the slot back without a token. Right when one
  side writes at a time, the human's remedy cannot be raced, and no browser is left
  believing the wrong thing.
- *Sessions and sync.* Optimistic edits, acks, changes, snapshots and reconnects in
  any order over sockets that die and a server that restarts from an older
  document. Right when every tab converges on the server's document and no request
  is silently dropped.
- *Access files, recycle bin.* Read-modify-write around awaits, of files that several
  requests change at once; a removal, a flush and a restoration of one diagram in
  flight together. Right when memory says what the file says, what is gone stays gone,
  and what comes back takes nothing accepted away.
- *Seats.* A page and its session each hold which diagram the page is on, and
  messages about it cross. Right when a write lands where it was drawn, nobody stays
  where they may not read, and the page shows what its session is on.
- *Planner.* Reactions write what no request named, in four phases, each on what the
  one before left. Right when a planned document opens again, a reaction never refuses
  the edit that woke it, and transit turned off and on gives back what was drawn.
- *Canvas.* A gesture may be ended by its own release, by Escape, by a lost pointer, by
  a lock, by another press, while the server goes on sending. Right when nothing it
  drew is left behind and nothing that was sent is lost.
- *Watchdog.* Checks are asked, answered and read at different times, and a deploy or
  an outage may fall between. Right when a tab that must be replaced is, once there is
  a server to replace it, and no other is.

## Modules

| module | models | how |
| --- | --- | --- |
| `UndoHistory` | what the log promises | abstract: a sequence of document states and a position in it |
| `ChangeLog` | `Log` and `commit`/`undo`/`redo` | one action per operation; a record's ops and inverse are kept as what replaying them leaves in each entity |
| `Planner` | `plan` with the reactions of the network, transit and groups | a request goes through its ops and the four phases in one step; each reaction is an operator on the plan under way |
| `Durability` | an entry of the store, its flushes and the two backends | one action per step between two awaits; instances share one object with generations |
| `RecycleBin` | `remove`, `recoverable`, `restore` over the bucket, and the sessions the doors move | one action per step between two awaits, any number of calls under way |
| `AccessFiles` | `access.json` and `codes.json`, quotas and claims | a change is copied when asked, written later, assigned when answered |
| `Locks` | the write slot, REST writes, what browsers are told | a REST write is two actions, the gate and the landing, with anything in between |
| `Tab` | `sync.js` over `changes.js` | every method as an operator from the state of a tab to the state it leaves, with what it sends in `out` |
| `Session` | one tab, the wire, the server's copy of its diagram, the other writers | one action per thing that can happen: a user's act, a frame read at either end, a timer, a failure, another's write |
| `Seats` | which diagram each of several pages is on | one action per message read, act of a user, and failure |
| `Canvas` | `input.js` with its gestures, releases and keys | every handler as an operator on the canvas; one action per press, move, release, key, message and answer |
| `Watchdog` | `watchdog.js`, the socket and `/health` under it | a check is asked, answered and read in three actions |
| `ChangeLogProofs`, `DurabilityProofs`, `RecycleBinProofs`, `LocksProofs`, `SeatsProofs`, `CanvasProofs`, `WatchdogProofs`, `AccessFilesProofs` | | the theorems about the module each is named after |
| `MC*` | | the values the runs give the constants, and the symmetry |

How they divide the system: `Planner` says what an edit comes to, `ChangeLog` how it is
recorded and reversed, `Durability` how it reaches the storage, `Locks` who may make it,
`Session` how one tab and the server agree on it, `Seats` on which diagram, `Canvas`
where it comes from. `Session` extends `Tab`; `ChangeLog` instantiates `UndoHistory`,
which it implements. The others do not share state: each takes from its neighbours what
its header names, in the weakest form its own properties need (`Session` flushes in one
step, `Seats` plans in none, `Canvas` is answered in one).

`ChangeLog`: `Commit` is `commit()` after planning, with the whole of `Log.append`
and `#evict` in the same step; `Undo(to)` reverses the run down to the record that
`to` names; `past` is an auxiliary variable, the document before each record, which
nothing reads but the properties. A refused or empty request changes nothing and is
not an action. Record extensions (the reveal) travel with the ops in the code and
count as one more entity here.

`Durability`: the document is the sequence of changes accepted into it, so a text in
the storage says exactly what it holds. `Commit` mints a version; `Setting` (grants,
ownership, publication) does not and is accepted after authority is lost. With
`Blocking` the backend is `fsFiles`, whose write ends before any other handler runs;
otherwise it is `gcsFiles`: `Flush` queues the text, `Send` reads the generation,
`Land` is the storage's compare-and-swap, `Answer` and `Refused` are what the caller
does next, `Retry` and `Break` are a request or an answer that fails, and a request
whose sender gave up or died stays `adrift` and may land at any later time.
`RemoveDiagram` starts the two unconditional DELETEs of `remove()`.

`Planner`: a document is nodes (an anchor and whether what arrives passes), links, pipes
and groups. `Plan(doc, ops)` is `plan`: each op is validated and followed by what it
clears or displaces, then the reactions of `reshape`, `stranded`, `sweep` and `join` run
in the order the product registers them, each on the document and changes so far, and
the whole is refused for an invalid op, for what a reaction wrote (B302), for an
invariant it introduces (B81) or for two reactions that claim one link (PD-3, `fault`).
Anchors and link ids are numbers, so that the orders by id in the code are orders here;
a piece's id is its link's with one bit per anchor it was cut at, where `pieceId` hashes
the same data. `Edit` is a request with no transit in it, `Turn` one that turns the
transit of one or two anchors; `drawn` is the document before the first turn. The reads
of positions and names are left out, and so is `metadata`.

`RecycleBin`: a document is the set of edits accepted into it. `remove()` is a tag and a
DELETE, `restore()` a listing, the storage's restore and a read, and a call under way is
a record in `removing` or `restoring`; a flush under way is in `writing`. `Seeds` is the
diagram a store with no templates makes when the last one goes. The doors (`rest.js`,
`protocol.js`) then send sessions elsewhere. `crossed`, `untagged` and `raced` are
history: they name the diagrams whose removal met another call, whose tag was refused,
and that two restorations had both found absent.

`AccessFiles`: `queue` is `inFlight` of `files.mjs`, one write of a file at a time.
A change enters it as a copy of memory with the change in it, `Lands` is the storage's
compare-and-swap, `Answered` puts the copy in memory and tells the caller; a write may
fail (`Fails`), be `Refused`, or land with its answer lost (`Unheard`), and a restart
drops what is under way. Creating a diagram reads claims and quotas around the
await of its request body.

`Seats`: per page a `tab` (its `Sync`) and a seat (its `Session`), and the two queues
between them. Opening, creating, deleting, sharing and unsharing go through whichever
door the code gives them; the first write on the template forks it. What the server
accepts is durable at once here, so what leaves the outbox is not asked for again.

`Canvas`: one value `c` holds the model, the previews, the live gesture, what was
deferred and what was sent. A link drag writes its waypoints into the shared model as it
goes, a resize writes each frame, a move and a clone write a preview. What a release
means is decided by a record of what was found under the pointer, any combination of
which the model may meet.

`Watchdog`: the ladder of `live`, `offline`, `stale`, `unreachable`; `probe` is the
checks under way, `served` the revision that answers, `socket.on` the revision the socket
is on, `tab.pinned` the one the tab believes in, `runs` the one that served the page.

`Locks`: time is a counter of ticks, a lapsed lock stays in the map until the sweep or
the next acquire, and each browser has the queue of what it was sent about the slot.
`Land` for a commit verifies the request's token again; for undo and redo it only compares
the version, as `server/rest.js` does. `turn` is history: the version at which an agent last
took the slot or a human took it back. The one-second dwell of the browser's amber light
and the principal a lock remembers are left out.

`Tab` and `Session`: a document gives each field the edit that last wrote it; an edit
writes one field, and one in `Cutting` also clears the others, as deleting a node takes
its links, so that what an edit comes to depends on the document it is planned on (the
tab plans it on its own, the server on its own, and replay plans it again). An action
of `Session` puts the tab's new state in place and moves its `out` to the wire. `up` and
`down` are the socket; at a drop the server still reads some first part of what was
sent (`late`), after which those answers go to nobody. `server.docs` keeps the document
of every version, so the properties can speak of the document at the version a tab has
applied. `Flush` is atomic here, as `Durability` says it is not: what a flush in flight
does to the watermark is that module's subject. `AgentWrites` lands a REST write,
`AgentTold` is the other side of its `await store.flush`, with the version of then.
The lock is taken by an agent and ended by anyone; its slot is `Locks`'s subject.

| state | code |
| --- | --- |
| `tab.shown`, `applied`, `counter` | the model, `appliedVersion`, `changes.state.version` |
| `tab.outbox`, `stored`, `window`, `deferred` | `outbox`, its copy in localStorage, `Changes.window`, `deferred` |
| `tab.asked`, `locked`, `unlocking`, `throttled` | `resyncAsked`, `locked`, `unlockTimer`, `throttledUntil` with `throttleTimer` |
| an outbox entry | `txnId`, `ops`, `applied`, `expect`, `waited`, `sent`, `answered`, `version`, `attempted`, `tries` |
| `server` | the entry: documents, the undo part of the log, `seen` |
| `tab.made`, `told`, `shed`, `strays`; `life`, `heard`, `undone` | history, read by properties only |

Left out of `Session`: redo and runs, the selection, the bound on `seen` (`SEEN_MAX`); a
commit may be refused for its rate at any time instead of by a count. Other diagrams,
drawing before the first answer, forks and grants are `Seats`'s subject.

*Strays.* The code keeps its promises in most orders of events and not in all. Each order
in which it does not is a way of going astray, which the model notes when it happens
(`tab.strays`, listed at the head of `Session`); the properties hold for a tab with no
strays, whatever else happens to it; what the code does in the others is described under
*Seen without a run*. So the runs say both that the protocol works and exactly
where it stops. `WorkIsKept` also does not count what a lock cleared, nor a burst whose
window had not closed at a reload. Other ways: two
overlapping REST writes are told with one version (`rest.js:393`); a restarted server
that has counted up again to a version the tab knows is answered `sync`
(`protocol.js:521`); after a rewind an entry keeps the version of its first answer and
may be pruned by it before it is stored again (`sync.js:266`); a commit made between a
reconnect and the answer to `resume` lands before answered work that a restart lost; a
lock drops unsent work without a notice (`sync.js:915`, I16), a resync owed is forgotten
with the socket (`sync.js:968`), and a commit refused for its rate lands after a later
one.

## Runs

| run | instance | shows |
| --- | --- | --- |
| `LogHistory` | 2 entities of one value, records of two sizes and one past every bound, ring bound 2 and ceiling 3, 5 versions | the log refines `UndoHistory`; the byte count is exact; the newest change stays undoable; the human floor |
| `DurabilityRivals` | 2 instances on a bucket, 2 changes, 2 writes queued each, one failure | stored work only grows, losing authority is final, no self-refusal without a failed request |
| `DurabilityDisk` | 1 instance on disk, 4 changes, up to 3 failed writes, 2 crashes, 4 failures in all, a deletion | the watermark, and every accepted change stored in the end |
| `LocksSlot` | 2 agents, 1 browser, commits and undos, lifetime 2, hold 1, 4 ticks, 3 tokens, 2 writes | a write without its lock is an undo and reverses nobody's turn; a reclaim is raced by one undo at most; lapses are announced |
| `SessionTab` | 2 edits of the tab, 1 write of another, 1 gesture, 2 fields, every edit cascading, one kind of trouble (a drop, a reload, a restart, a lock, or two throttles) | the tab converges, shows the server's document with its own work on it at all times, keeps and lands that work in order, waits for nothing that will not come |
| `SeatsMoves` | 2 pages, 3 diagrams and a template, 1 edit, any 2 of opening, creating, deleting, sharing, unsharing, a drop, a reload | a write lands where it was drawn or nowhere; nobody is seated where they may not read; a settled page shows what its session is on |
| `BinLife` | 2 diagrams, 1 session, 2 removals, 2 restorations, 4 writes, a failure or a restart | what is gone stays gone, the bin holds the last of it, a restoration takes no edit away |
| `AccessSides` | 2 people, an agent, 2 codes, 2 diagrams, 3 changes in flight together, 2 faults | memory is the file, quotas hold through agents, a claimed name stays claimed |
| `WatchdogLadder` | 2 checks at once, 2 deploys, an outage, a drop, 2 pieces of evidence | reloads into nothing only by a race nobody can win, no reload loop, a wanted reload happens, a stale tab is replaced |
| `Canvas` | a device, a zone, a zone to draw, a waypoint, 2 places, 1 edit, 1 message and a lock | what is deferred is held by a gesture only; at rest the canvas shows the document; a locked canvas authors nothing |
| `Planner` | 3 bare anchors, a router and a host, 6 shapes of link, 2 groups, a hand pipe, five boards, 1 edit with 2 turns after it, or 4 turns of a board as it is | what is committed opens again; nothing sound is refused; turning transit draws and erases nothing and can be undone; no debris |

And one that refutes what the repository says:

| run | statement refuted | how |
| --- | --- | --- |
| `AccessRevoked` | a revocation that was answered with success is in force: "the durable copy is the one that decides" (`store.js:486`) | a grant whose copy was taken before the revocation landed is written after it and carries the old grant back (`store.js:518`) |

Each passing property has been seen to fail when a definition it rests on is replaced by
a plausible slip of the code (`PROJECT.json` pairs them; a slip stands in its module
before the definition it would replace).

### Seen without a run

These were found while the properties were being stated. Some of the statements are kept
in the modules as definitions that no run checks (`Durability!CleanIsStored`,
`Session!UndoOnce`, `Watchdog!StaleGoes`, `Seats!GrantsAreSeen`, and `Seats!InStep`,
`Canvas!RestShowsStored`, `Locks!OneSideWrites` and `Locks!RemedyNotRaced` beside the forms
that hold).

- *The dirty flag on a bucket.* "`dirty` answers 'is anything unwritten?'". A flush
  serialises, awaits, and then clears it (`store.js:1395`): a change accepted meanwhile
  is left clean and unwritten, and its timer and shutdown skip it. The watermark a flush
  on a bucket records covers it too.
- *The undo race.* "Single-writer-at-a-time" (`locks.js:5`) and "the human's remedy cannot
  be raced away" (GR11, `docs/spec/TRANSACTIONS.md:624`): an agent's undo past the gate
  (`rest.js:1211`) does not verify its token again once its body is read, so it lands after
  a reclaim, or after its lock has lapsed and another agent holds the slot. With
  `OneSideWrites` or `RemedyNotRaced` in its cfg, `LocksSlot` fails. `LocksSlot` checks how
  far it can go: the version has to be the agent's, so it reverses nothing written since the
  slot changed hands, and happens once at most between a reclaim and the end of its hold;
  the human's own undo, if it comes second, is refused for its version.
- *In step with another past.* A server restarted from an older document may count up again
  to a version a tab knew; `resume` (`protocol.js:521`) compares the numbers and answers
  `sync` (stray `reborn`).
- *Restored twice.* Two restorations of one diagram that both found it absent both install
  it, the second over what the first has accepted since (`store.js:1015`, `raced`).
- *The held change.* `resume` reports the counter that a change held in a gesture moved
  (`sync.js:541`), is answered `sync`, and the change is then ignored.
- *An undo twice.* An undo whose answer was lost is stamped again and performed again
  (`sync.js:254`), though a write by anyone else in between should refuse it (B294).
- *A throttled tab.* A second refusal moves the window past the one timer
  (`sync.js:587`); the command does not go out when the window has passed.
- *A grant unseen.* A page that was told there is no diagram for it is not hydrated, and
  a resync returns at once while that is so (`sync.js:828`): the signal of a grant does
  nothing, and the diagram it was granted appears when the page reconnects.
- *Back to the template.* `resume` "found us in step" (`sync.js:468`) compares versions
  alone. A page whose first edit forked the template, and whose socket drops between the
  answer and the fork's document, resumes the template at its version, is told `sync`,
  and goes on showing the edit over a template that does not hold it. The edit itself is
  safe in the fork.
- *A resize answered.* A resize given up puts back what it had read at the press
  (`editing-gestures.js:138`), over what an answer to an earlier request brought meanwhile.
- *A tab that re-pins.* Each snapshot pins the revision it came from (`sync.js:747`), so a
  stale page whose socket moves to the new revision believes it was served by it and is
  not replaced, where `docs/spec/AUTHORITY.md:232` and `watchdog.js:46` say a reload follows.
- *A write unheard.* A side file's write that landed and whose answer was lost leaves
  memory behind the file until the restart that brings it in.
- *A deletion through the websocket.* It moves the session that asked and no other
  (`protocol.js:567`), where the REST door moves everyone: others stay on a diagram that
  is gone, and learn it from their next request.
- *Durability.* A conditional write retried after it had landed is refused because of
  itself and counts as proof of another writer (`store.js:1409`); a write queued before a
  delete lands after it; grants, ownership and publication are answered with success by
  an instance that has lost the diagram (`docs/spec/AUTHORITY.md:157`, "it stops answering
  for that document").
- *Planner.* One request that turns transit off at a stop and draws a link through it has
  two reactions claim one link, and the plan throws (`transit.mjs:78`, where "two never cut
  one link in one phase"). Pieces of a link cut at a waypoint and at a router do not rejoin at the
  router if the waypoint was joined first, since lineage is read off the ids
  (`link-rules.mjs:251`). A ring cut at two stops comes back whole and under a piece's id and
  age. Turning transit off is refused, by B81 or B302, where a cut piece would be a second
  straight link of a pair or bend with another. A waypoint that only an idle pipe still held
  when the waypoints were swept stays, because pipes are swept later. A change of transit
  alone reroutes links and wakes no sweep of pipes.

### Bounds

Two instances, one object and one failure are what an overwrite needs; two queued writes
per instance are what B185's self-conflict needs; a second failure only repeats the
first, since a failed request leaves nothing behind but an adrift copy. The ring bounds
are chosen so that within five versions the soft bound, the floor and the hard ceiling
all bind. A tab needs two edits for order to mean anything, another's write for the
board to move under it, and one trouble for each recovery path; `MaxKinds` bounds how
many kinds meet in one behaviour and the other bounds each kind. Three tokens let each
agent lose the slot to the other and take it again.

In `Seats` a page needs a place to be, a place to be sent and one to be forked, hence
three diagrams; two events are what a crossing needs (one page deletes or unshares while
the other opens or draws). Two removals and two restorations of one diagram let a bin
hold two generations and two restorations race. Three changes of the side files let two
overlap with a third behind them. Two checks under way with two deploys let an old
answer be read after a newer one, with an outage before or after either. In `Canvas` one
request of the tab, one message and one lock may each fall anywhere in a gesture, and
a gesture may be ended by each of them. The boards of `Planner` hold a link through two
kinds of stop, a link with two bends, straight links meeting in a waypoint over a pipe laid
by hand, a ring, and nothing; the edit of an instance adds any shape, group or pipe or
deletes anything. Four turns of up to two anchors give every order in which two stops of a
link or ring go off and on again, one by one or together; after an edit (and before one)
there are two at most (`MaxTurnsEdited`). `Window` is the room for piece ids, which no instance fills.

### Fairness

`Durability!FairSpec`: an armed timer fires and a request is answered. It does not
assume that writes succeed: the number of failures is bounded, and B4's timer must find
the time after the last. `Locks!FairSpec`: the sweep (an interval timer of five seconds)
runs and a socket delivers what was sent on it. `Watchdog!Spec`: the poll is an interval
timer, a request to `/health` is answered or fails and its answer is read, a connecting
socket opens when the server is there, `Net` retries one that closed, a page that is
reloading arrives, and an outage ends. No deploy, drop or outage is owed. `Session`,
`Seats` and `Canvas` assume none: their properties speak of quiet states, in which
nothing that could move is left, so a message that never comes refutes nothing.

## Proofs

Every theorem is of `Spec`, for all values of the constants that satisfy the assumption
of its module; what more one assumes is in its statement and here. No bound of the model
is assumed small, so the counters that TLC bounds are unbounded in the proofs.

| module | theorem | states | assumes |
| --- | --- | --- | --- |
| `ChangeLogProofs` | `TypeCorrect`, `SeqsAreOrdered`, `HistoryIsKept` | invariants | |
| | `LogIsAHistory` | `UndoHistory!Spec` with `applied <- cursor` (`HistorySpec`) | |
| | `NewestIsUndoable` | `NewestUndoable` | |
| | `BytesAreExact` | `BytesExact` | |
| | `FloorIsKept` | `HumanFloor` | |
| `DurabilityProofs` | `StateIsTyped` | the type invariant | |
| | `HistoryGrows` | `StoredHistoryGrows` | a bucket |
| | `LostIsFinal` | `LostWritesNothing` | a bucket, no deletion |
| | `RefusalIsProof` | `RefusalIsProofUnfailed` | a bucket, no deletion |
| | `WatermarkIsHonest` | `WatermarkHonest` | a disk, one process |
| `LocksProofs` | `SlotIsSound`, `OneAgentAtATime` | invariants | |
| | `TurnsAreKept` | `WritesKeepTurns` | |
| | `RemedyIsRacedOnce` | `RemedyRacedByOneUndo` | |
| `RecycleBinProofs` | `TypeCorrect`, `InvariantHolds` | invariants | |
| | `GoneForGood` | `GoneStaysGone` | |
| | `BinIsRight` | `BinHoldsTheLast` | |
| | `EditsSurviveRestores` | `RestoreKeepsEdits` | |
| `SeatsProofs` | `TypeCorrect`, `InvariantHolds` | invariants | |
| | `SessionsMayRead` | `SeatsMayRead` | |
| | `WritesStayWhereMade` | `WritesLandWhereMade` | |
| | `PagesCatchUp` | `PagesShowTheirs` | |
| `CanvasProofs` | `TypeCorrect`, `InvariantHolds` | invariants | |
| | `HeldOnlyByGestures` | `HeldByGesture` | |
| | `LockedIsSilent` | `LockedAuthorsNothing` | |
| | `RestIsStored` | `RestShowsStoredUndisturbed` | |
| `WatchdogProofs` | `LadderIsTyped` | the type invariant | |
| | `VoidIsARace` | `VoidOnlyByRace` | |
| | `ReloadsAreWarranted` | `NoReloadLoop` | |
| `AccessFilesProofs` | `FilesAreTyped` | the type invariant | |
| | `MemoryStaysTheFile` | `MemoryIsFile` | |
| | `ClaimsAreKept` | `ClaimsStay` | |
| | `QuotaHolds` | `OwnersWithinQuota` | finitely many diagrams |

The assumptions are the code's own. A bucket (`Blocking` false) and a disk (`Blocking`
true) are the two backends, of which a deployment has one; a disk is written by one
process. With a deletion the two theorems about authority fail, as TLC finds: an object
that is gone matches generation 0, so a queued write that names it lands though its
instance has lost the diagram, and a write under way is refused because of the instance's
own delete. Diagrams are finitely many because a set is counted.

*The change log.* `HistoryInv` strengthens the type and order invariants with two facts
about the auxiliary history. `RecordsLead`: a record's inverse holds the values of
the state before it and its ops those of the state after, on the same entities.
`UntouchedKept`: an entity no record of a run touches is the same at both ends of the
run. Undo of a run restores each entity from the oldest record of the run that
touches it; the first fact says that value is the one before that record, the second
carries it back to the start of the run. Commit extends both by one record; eviction
and the cut tail keep a contiguous part, whose indices `AppendShape` and
`EvictCountBounds` give. Without `UntouchedKept` undo of more than one record is not
provable: nothing would tie the entities a run leaves alone to the earlier state.

The bytes are a running count in the code and a sum in the property. The sum is a
recursive function (`Sums`), so that what it gives for a ring and for a part of it can
be proved: the sizes of a ring are those of any first part and of the rest (`SizeSplits`)
and an append adds its own (`SizeAppends`), each by induction on the length. Eviction
and the cut tail then subtract what they drop. `HumanFloor` follows from the count being
exact: eviction reached the newest human record, so it did not stop there, so the bytes
left, which are the sizes of what has come since, were past a ceiling.

*Durability on a bucket.* That the stored text only grows is not inductive: a write in
flight names a generation and a text, and nothing in `StoredHistoryGrows` says the two
belong together. `HistoryInv` says so: along the queue of each instance the texts extend
one another (`Chain`), and whatever may still land, at the generation it names, extends
what is stored then (`Extending`). `AuthorityInv` adds why a refusal means
something: an instance that has lost the diagram knows a generation the storage is past,
and so does whatever it left adrift (`Losing`, `Stray`), and while no request has failed
the instance that wrote the object knows its generation or is about to (`Unfailed`).

*Durability on a disk.* `DiskInv` ties what the entry believes to the file: the watermark
is the version of the text stored, which the document in memory extends. A second process
would break it, and the code does not expect one.

*The recycle bin.* None of the three properties is inductive: two speak of a diagram at rest,
one of a step, and what matters is what is under way. `Inv` says of a removal between its PATCH
and its DELETE whose tag the live object bears (`Tagged`), of a restoration between its
listing, its request and its landing that the diagram is still absent and that no other
restoration of it is that far (`FoundAbsent`), and that the generation it chose is still
the newest (`Chosen`); of the bucket, that a live object is later than everything in its
window (`Generations`), that one of a diagram not served is on its way out or in
(`Going`), and that the last document written is the live one or the newest in the window
(`LastKept`). The exceptions the properties make (`crossed`, `raced`, `untagged`) are made
in the parts: there the code does lose one of them, as TLC shows. At rest nothing is under
way, so `Going` leaves no live object and `LastKept` finds the newest in the window; a
restoration lands on a diagram that `FoundAbsent` says is not served.

*Where sessions are.* `WritesLandWhereMade` rests on what a page may send, which rests on
what it shows, which rests on every message that may still reach it. `Inv` carries it
along that path. `WellTab`: what waits on a page fits both the diagram it is stamped with
and the one on show, what it saved fits the diagram it was saved for, and a page that has
heard of no diagram holds only what was drawn on none. `Asked` and `Answered` say the same
of the messages. The hard case is a fork: the page hears that it is on a fork after the
session is, so its writes still name the template. `Forked` says that a page that will
hear of a fork shows the template by then, after the snapshots queued before it (`On`),
and `OnTemplate` that a session on the template has such a page; both are kept through
snapshots, moves and refusals already queued because a queue only loses its head and
grows at its end. `Resuming` says that a resume is the first thing a socket carries, so
that the session is nowhere when it is read: a resume later in the queue could name the
diagram of a page that had been moved in between. `Closed` makes a drop forget all of it.
On the server's side every message that moves a session is one of four kinds (`Told`):
it leaves it, takes it with a snapshot, forks it, or finds it in tune. One lemma
(`ToldKeeps`) shows that any of them keeps what is said of the wire, and each action is
shown to be one. `SeatsMayRead` needs only that ids keep their owners and that each change
of what may be read moves those it shuts out in the same step (`SeatsKept`, `GrantKeeps`).

*What pages show.* `PagesShowTheirs` speaks of quiet pages, and what makes a page right when
it is quiet is everything that was on its way to it. `Tale` says it in terms of one thing no
variable holds: an order in which the edits of each document landed. `Story` says that there
is one along which every page is being told its document: as it hears its queue, message by
message (`Path`), each ack of its own and each change of another's brings exactly the next
edit in that order at exactly the next version, a snapshot brings some first part of the
order, a fork leaves it on none until the snapshot it asks for, and where the queue ends, if
it and its session are on any, it is on the session's and has all of it (`Follows`). So a
page that knows what it shows never meets a gap; one that has asked for another document,
or was reloaded, is on none and may be told anything. Hearing a message takes the head off
a path (`FollowsTail`), the page's tab being shown to do what `Leads` says (`HeardShows`).
The server adds to the end of a path, and an edit that lands lengthens the order of one
document and the paths of the pages on it by one (`LandingTells`); those elsewhere, or whose
session was moved, are owed nothing of it, which is why a move must send a snapshot or a
refusal (`MovedTells`). `Recalls` ties the version a resume names to the one shown, without
which a page found in step might not be. The order itself is never computed: a minted or
forked document takes any order of what it starts with (`InOrder`).

*Gestures.* `HeldByGesture` says that each way out of a gesture gives the canvas what was
held under it, and each is a chain of operators: undone or committed, cleared, released.
`Good` adds to the property what those need: no more answers wait than there are requests
unanswered (`Counted`), or the answer taken last would find nothing to answer, and a
locked canvas has no editing gesture (`Silent`), which also gives the commit at the end of
one its right to ask. What was held is taken message by message; `UnheldReleases` shows by
induction on their number that it leaves none, and takes off one request for each answer
among them. Every release goes through `FinishMoves` and every cancellation, a lock's
included, through `CancelRests`; a commit that chains leaves its successor holding what
was held, and that is `Held` again. Places are numbers in the assumption so that the
lowest of them exists.

*The canvas at rest.* `RestShowsStoredUndisturbed` says nothing while a gesture is in hand,
and so cannot be inductive: what a gesture does to the Model has to be undone at its end,
under messages that were held and messages that were not. The invariant (`Kept`) therefore
speaks of the canvas that would be left if the gesture were cancelled (`Rewound`) and says
that it is right (`Right`), which with no gesture is the property. Right is relative to what
waits: there are documents the server had, one before each message held back, that lead from
the one the canvas shows, with the unanswered edits over it, to the server's now (`Leads`);
a snapshot among them makes what is shown before it irrelevant (`Outlived`). Taking the
messages at the end of a gesture walks those documents one by one, and each message is taken
as the code takes it: an answer takes the first request off, and what it says beyond that
request is laid under the rest. For that the requests must be `Clean`: a later one brings
nothing back that an earlier one deleted, and what stays shown though the planner refused it
is named by no earlier one and stored by nobody. What the edits put over an entity is what
the last request to name it says (`Sums`), so an answer changes only what no later request
names. `Hand` ties the gesture to the canvas: what a link drag placed is shown and nobody
else's, a resize is of something shown, copies are new; without it a cancellation could
remove or restore something of the server's. An answer that lands under a resize moves what
the resize would put back. The model records this in `overtaken`, which is never taken back,
and the theorem speaks of canvases where it has not happened, as the run does. TLC checked
`c.overtaken \/ Kept` with one edit and two messages before it was proved.

*The write slot.* The theorems are of agents that commit and undo, any number of them.
`Slot` says that no token was given to two agents, that a request past the gate is of a kind
there is, and that a hold stands on a free slot only. A commit lands under its lock because
its token is verified in the step in which it lands, and not in a hold because no token
verifies while the slot is free; of an undo only the version is known, and how far it can go
rests on when it was let past the gate. `NoForesight`: nobody believes a version that is
still to come. `LosersAreEarlier`: a request whose agent has lost the slot, to another agent
or to a human who holds it still, believes no version later than the one at which the slot
changed hands (`turn`), since nothing passes the gate without the slot. An undo that lands
believes the present version, so that is `turn`: whoever has the slot has not written.

*The watchdog.* `WatchdogInv` says that what a tab has seen of the server is no older than
its page (`Dated`), that a page leaves on an answer given while the server was up
(`Witnessed`), and that each page replaced used up a message or a revision newer than its
own, as the next one will (`Spent`).

*The access files.* `AccessInv`: of a file's queue only the head can have landed, and it
is what the file holds; while it has not, memory is the file and the generation last
seen its own. That the quota and the claims hold needs `Claimed` besides: the one change
under way keeps every claim there is, and an agent whose request is being read is
claimed, however long its body takes.

What a theorem proves and no run lists (the types, `SlotIsSound`, `HistoryIsKept`) is
what the properties of the runs rest on: they fail where it does.

Sums, filters and picks are recursive functions and not operators of the community
modules, whose definitions reach a recursive operator or an operator parameter the prover
cannot instantiate. Induction is then a fact about sets of naturals: a set with 0 that
holds the successor of each member is `Nat` (`NatFromZero`, from the least member of what
it lacks), and an instance is the set of the lengths for which the claim holds.

Model-checked only: all liveness, which is outside the prover; and `Planner`, `Tab` and
`Session`. Those three compute by folds over sequences and sets
with operators for arguments, and what such a fold leaves for every input cannot be stated
of them as they are written; each would have its folds made recursive functions first, as
was done in `ChangeLog`, `Seats` and `Canvas`.

## Not modelled, and the plan

Open, in this order:

1. Proofs: the invariants of `Session`, once `Tab` computes by recursive functions.
2. `Session`: redo and runs, the bound on `seen`, and liveness (a tab left alone comes to
   rest) on a smaller instance.
3. `ChangeLog`: reading a log back from a file (`Log.from`), and that the inverse `plan`
   builds op by op is the effect the log assumes.
4. `Planner`: zones, devices, traffic and the drag judge.
5. A REST write acknowledged while its flush fails (`rest.js:391`): the answer and the
   disk in one model.

Left out for good: geometry, routing and rendering (pure functions of floating-point
data), the engine's incremental views (sequential and pure), the canvas's pans, labels
and run mode, the command line (a REST client, whose writes are the agents of `Locks`
and `Session`), the lab and the tools (programs that read the source tree or drive a
browser and keep no state of the system), wording and logging. They are most of the
repository's lines.

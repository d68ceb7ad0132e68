------------------------------- MODULE Locks -------------------------------
(***************************************************************************)
(* The write slot of one diagram (server/locks.js) and everyone who acts   *)
(* on it: agents over REST (server/rest.js), browser sessions over the     *)
(* websocket (server/protocol.js), and the sweep (server/app.js).          *)
(*                                                                         *)
(* A REST write is two steps with the body read in between: the gate       *)
(* checks the token and beats the lock, and the write happens once the     *)
(* body is here.  A commit checks the token again then; undo and redo do   *)
(* not.  Time is a counter; a lapsed lock stays in the map until swept.    *)
(***************************************************************************)
EXTENDS Integers, Sequences

CONSTANTS
    Agent,          \* server-side controllers
    Viewer,         \* browser sessions on the diagram
    Kinds,          \* which REST writes the agents make
    NoLock,         \* nothing in the map
    TtlMs, HoldMs,  \* lock lifetime and post-reclaim hold, in ticks
    MaxTime,        \* bounds on the model: ticks,
    MaxTokens,      \* locks handed out,
    MaxWrites,      \* writes accepted,
    MaxInbox        \* messages on their way to one browser

ASSUME ConstantsAssumption ==
    /\ Kinds \subseteq {"commit", "undo"}
    /\ TtlMs \in Nat \ {0} /\ HoldMs \in Nat \ {0}
    /\ {MaxTime, MaxTokens, MaxWrites, MaxInbox} \subseteq Nat

Lock  == [token : Nat \ {0}, expiresAt : Nat]
Owner == {"server", "client"}

\* A REST write being read: its token passed the gate; `expect` is the version the
\* agent believes, which undo and redo must name.
Idle    == [kind |-> "none", token |-> 0, expect |-> 0]
Request == [kind : Kinds \cup {"none"}, token : Nat, expect : Nat]

VARIABLES
    now,
    lock,           \* Locks.map.get(id), or NoLock
    hold,           \* Locks.holds.get(id): held until then, 0 when there is none
    minted,         \* tokens handed out so far
    token,          \* the last token each agent was given, 0 for none
    request,        \* the write each agent has past the gate
    version,        \* the diagram's version
    inbox,          \* what the server has sent each browser about the slot
    open,           \* which browsers have a socket on the diagram
    readOnly,       \* what each browser believes: the slot is the server's
    turn            \* history: the version when an agent last took the slot, or a human did

vars == <<now, lock, hold, minted, token, request, version, inbox, open, readOnly, turn>>

Init ==
    /\ now = 0 /\ lock = NoLock /\ hold = 0 /\ minted = 0 /\ version = 0 /\ turn = 0
    /\ token = [a \in Agent |-> 0]
    /\ request = [a \in Agent |-> Idle]
    /\ inbox = [v \in Viewer |-> << >>]
    /\ open = [v \in Viewer |-> FALSE]
    /\ readOnly = [v \in Viewer |-> FALSE]

-----------------------------------------------------------------------------
(* server/locks.js *)

\* _live: reads treat a lapsed lock as gone, and leave it in the map.
Live == lock # NoLock /\ lock.expiresAt > now

Verify(t) == Live /\ t # 0 /\ lock.token = t

Held == hold > now

Tell(v, owner) ==
    /\ Len(inbox[v]) < MaxInbox
    /\ inbox' = [inbox EXCEPT ![v] = Append(@, owner)]

Broadcast(owner) ==
    /\ \A v \in Viewer : open[v] => Len(inbox[v]) < MaxInbox
    /\ inbox' = [v \in Viewer |-> IF open[v] THEN Append(inbox[v], owner) ELSE inbox[v]]

-----------------------------------------------------------------------------
(* Agents *)

\* POST lock with the token of the live lock renews it; nobody else takes a live one.
Renew(a) ==
    /\ Verify(token[a])
    /\ lock' = [lock EXCEPT !.expiresAt = now + TtlMs]
    /\ Broadcast("server")
    /\ UNCHANGED <<now, hold, minted, token, request, version, open, readOnly, turn>>

\* A slip: the hold is not looked at, as before D22.
AcquireUnheld(a) ==
    /\ ~Live
    /\ minted < MaxTokens /\ minted' = minted + 1
    /\ hold' = 0
    /\ lock' = [token |-> minted + 1, expiresAt |-> now + TtlMs]
    /\ token' = [token EXCEPT ![a] = minted + 1]
    /\ turn' = version
    /\ Broadcast("server")
    /\ UNCHANGED <<now, request, version, open, readOnly>>

\* A free slot is taken with a fresh token, unless a human has just reclaimed it.
Acquire(a) ==
    /\ ~Live /\ ~Held
    /\ minted < MaxTokens /\ minted' = minted + 1
    /\ hold' = 0
    /\ lock' = [token |-> minted + 1, expiresAt |-> now + TtlMs]
    /\ token' = [token EXCEPT ![a] = minted + 1]
    /\ turn' = version
    /\ Broadcast("server")
    /\ UNCHANGED <<now, request, version, open, readOnly>>

Release(a) ==
    /\ Verify(token[a])
    /\ lock' = NoLock
    /\ Broadcast("client")
    /\ UNCHANGED <<now, hold, minted, token, request, version, open, readOnly, turn>>

\* The gate every model write passes before its body is read.
Gate(a, kind) ==
    /\ request[a] = Idle
    /\ Verify(token[a])
    /\ lock' = [lock EXCEPT !.expiresAt = now + TtlMs]
    /\ request' = [request EXCEPT ![a] = [kind |-> kind, token |-> token[a], expect |-> version]]
    /\ UNCHANGED <<now, hold, minted, token, version, inbox, open, readOnly, turn>>

\* A slip: the gate's check is relied on.
MayLandOnTheGate(a) == request[a].kind = "commit" \/ request[a].expect = version

\* A slip: an undo reverses whatever is on top by then, as before D14.
MayLandBlind(a) == request[a].kind = "commit" => Verify(request[a].token)

\* What is checked once the body has been read: commitWrite verifies the token
\* again, undo and redo compare the version.
MayLand(a) ==
    IF request[a].kind = "commit"
    THEN Verify(request[a].token)
    ELSE request[a].expect = version

\* The document may refuse the write still, or not change by it.
Land(a) ==
    /\ request[a] # Idle
    /\ request' = [request EXCEPT ![a] = Idle]
    /\ \/ MayLand(a) /\ version < MaxWrites /\ version' = version + 1
       \/ UNCHANGED version
    /\ UNCHANGED <<now, lock, hold, minted, token, inbox, open, readOnly, turn>>

-----------------------------------------------------------------------------
(* Browsers *)

\* hello, open and resume answer with whether the slot is locked now.
Connect(v) ==
    /\ ~open[v]
    /\ open' = [open EXCEPT ![v] = TRUE]
    /\ inbox' = [inbox EXCEPT ![v] = <<IF Live THEN "server" ELSE "client">>]
    /\ UNCHANGED <<now, lock, hold, minted, token, request, version, readOnly, turn>>

Disconnect(v) ==
    /\ open[v]
    /\ open' = [open EXCEPT ![v] = FALSE]
    /\ inbox' = [inbox EXCEPT ![v] = << >>]
    /\ UNCHANGED <<now, lock, hold, minted, token, request, version, readOnly, turn>>

Receive(v) ==
    /\ inbox[v] # << >>
    /\ readOnly' = [readOnly EXCEPT ![v] = Head(inbox[v]) = "server"]
    /\ inbox' = [inbox EXCEPT ![v] = Tail(@)]
    /\ UNCHANGED <<now, lock, hold, minted, token, request, version, open, turn>>

\* A browser's commit or undo arrives.  While the slot is locked it is refused and
\* the browser is sent a snapshot that says so (rejectIfLocked).  A commit ends the
\* hold, one that changes nothing too; an undo or a redo does not.
BrowserWrite(v, kind) ==
    /\ open[v]
    /\ IF Live
       THEN Tell(v, "server") /\ UNCHANGED <<version, hold>>
       ELSE /\ \/ version < MaxWrites /\ version' = version + 1
               \/ kind = "commit" /\ UNCHANGED version
            /\ hold' = IF kind = "commit" THEN 0 ELSE hold
            /\ UNCHANGED inbox
    /\ UNCHANGED <<now, lock, minted, token, request, open, readOnly, turn>>

\* The human takes the wheel back, with no token, and keeps it for HoldMs.
Reclaim(v) ==
    /\ open[v]
    /\ lock' = NoLock
    /\ hold' = now + HoldMs
    /\ turn' = version
    /\ Broadcast("client")
    /\ UNCHANGED <<now, minted, token, request, version, open, readOnly>>

-----------------------------------------------------------------------------
(* Time *)

Tick == now < MaxTime /\ now' = now + 1
        /\ UNCHANGED <<lock, hold, minted, token, request, version, inbox, open, readOnly, turn>>

\* A slip: the lapsed lock goes without a word.
SweepQuietly ==
    /\ lock # NoLock /\ ~Live
    /\ lock' = NoLock
    /\ UNCHANGED <<now, hold, minted, token, request, version, inbox, open, readOnly, turn>>

\* sweepLocks: the only deleter of a lapsed lock, and the only one to announce it.
Sweep ==
    /\ lock # NoLock /\ ~Live
    /\ lock' = NoLock
    /\ Broadcast("client")
    /\ UNCHANGED <<now, hold, minted, token, request, version, open, readOnly, turn>>

AgentSteps(a)  == \/ Renew(a) \/ Acquire(a) \/ Release(a) \/ Land(a)
                  \/ \E kind \in Kinds : Gate(a, kind)
ViewerSteps(v) == \/ Connect(v) \/ Disconnect(v) \/ Receive(v) \/ Reclaim(v)
                  \/ \E kind \in {"commit", "undo"} : BrowserWrite(v, kind)

Next ==
    \/ \E a \in Agent : AgentSteps(a)
    \/ \E v \in Viewer : ViewerSteps(v)
    \/ Tick
    \/ Sweep

\* The sweep runs every five seconds and a socket delivers what was sent on it.
Spec     == Init /\ [][Next]_vars
FairSpec == Spec /\ WF_vars(Sweep) /\ \A v \in Viewer : WF_vars(Receive(v))

-----------------------------------------------------------------------------
(* Properties *)

TypeOK ==
    /\ now \in Nat /\ hold \in Nat /\ minted \in Nat /\ version \in Nat /\ turn \in Nat
    /\ lock = NoLock \/ lock \in Lock
    /\ token \in [Agent -> 0 .. minted]
    /\ request \in [Agent -> Request]
    /\ inbox \in [Viewer -> Seq(Owner)]
    /\ open \in [Viewer -> BOOLEAN] /\ readOnly \in [Viewer -> BOOLEAN]

\* An agent's write lands on the document.
Writes(a) == request[a] # Idle /\ request'[a] = Idle /\ version' # version

\* "Single-writer-at-a-time: one side holds the lock, never both" (locks.js): an agent's
\* write lands only while its own lock is live.  A late undo breaks this.
OneSideWrites == [][\A a \in Agent : Writes(a) => Verify(request[a].token)]_vars

\* GR11, "the human's remedy cannot be raced away": from a reclaim until the hold lapses
\* or the human commits, no agent gets the slot and nothing of one's lands.  A late undo
\* breaks this too.
RemedyNotRaced ==
    [][Held => (lock' # NoLock => lock # NoLock) /\ \A a \in Agent : ~Writes(a)]_vars

\* What holds of the first claim: an agent's write lands under its own live lock,
\* however long its body took.  If it does not, it is an undo, and whichever agent has
\* the slot by then has not written yet: no work done under a lock is reversed, or
\* written over, by another agent.
WritesKeepTurns ==
    [][\A a \in Agent : Writes(a) /\ ~Verify(request[a].token) =>
          request[a].kind = "undo" /\ (Live => version = turn)]_vars

\* What holds of GR11: from a reclaim until the hold lapses or the human commits, no
\* agent gets the slot, no commit of one lands, and an undo lands only on the document
\* the human took over.  So one agent's write lands in that time at most, and none
\* once the human has undone anything.
RemedyRacedByOneUndo ==
    [][Held => /\ lock' # NoLock => lock # NoLock
               /\ \A a \in Agent : Writes(a) => request[a].kind = "undo" /\ version = turn]_vars

\* "Otherwise the browser would stay read-only forever" (locks.js, sweep): a lock
\* that has lapsed reaches every browser that believes in it, although nobody
\* releases it.
LapseReachesViewers ==
    \A v \in Viewer :
        (open[v] /\ readOnly[v] /\ lock # NoLock /\ ~Live)
            ~> (~readOnly[v] \/ ~open[v] \/ Live)
=============================================================================

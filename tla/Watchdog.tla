----------------------------- MODULE Watchdog -----------------------------
(***************************************************************************)
(* Whether a tab may still be trusted: the ladder of app/src/watchdog.js    *)
(* (live, offline, stale, unreachable), with the socket of app/src/net.js,  *)
(* the two kinds of evidence that come over it, and the /health checks that *)
(* are routed to whichever revision is served now.                          *)
(*                                                                         *)
(* A check is asked, answered and read in three steps, several may be under *)
(* way, and a deploy, an outage or a reconnect may fall between them.       *)
(***************************************************************************)
EXTENDS Naturals, FiniteSets

CONSTANTS
    Probe,          \* checks that may be under way at once
    GapLimit,       \* GAP_LIMIT: changes missed in a row before it is evidence
    MaxDeploys, MaxOutages, MaxSaid, MaxDrops   \* bounds on the model

ASSUME WatchdogAssumption ==
    /\ {MaxDeploys, MaxOutages, MaxSaid, MaxDrops} \subseteq Nat
    /\ GapLimit \in Nat \ {0}

VARIABLES
    served, up,     \* the revision that answers HTTP, and whether anything does
    named,          \* whether the server is told its revision (K_REVISION)
    socket,         \* its state, and the revision it is or was last on
    page,           \* running; leaving, once it is reloading; lost: an error page
    runs,           \* the revision that served the page
    tab,            \* rung, pinned, wanted and timer of Watchdog, missed of Sync
    probe,          \* each check: free, asked, or answered
    deploys, outages, said, drops,      \* counted for the bounds
    \* History, for the properties only:
    reloads,        \* pages this one replaced
    answeredAt      \* outages there had been when the check that fired was answered

server == <<served, up, named, deploys, outages>>
vars == <<server, socket, page, runs, tab, probe, said, drops, reloads, answeredAt>>

Rung == {"live", "offline", "stale", "unreachable"}
Revision == 1 .. MaxDeploys + 1
None == 0      \* no revision, no answer

TypeOK ==
    /\ served \in Revision /\ {up, named} \subseteq BOOLEAN
    /\ socket \in [state : {"open", "closed", "connecting"}, on : Revision]
    /\ page \in {"running", "leaving", "lost"} /\ runs \in Revision
    /\ tab \in [rung : Rung, pinned : Revision \cup {None}, wanted : BOOLEAN,
                timer : BOOLEAN, missed : 0 .. GapLimit - 1]
    /\ probe \in [Probe -> [stage : {"free", "asked", "answered"}, live : Revision \cup {None}, at : Nat]]
    /\ tab.pinned # None => named
    \* What the pill says without a warrant is what the socket is.
    /\ page = "running" /\ ~tab.wanted => (tab.rung = "live" <=> socket.state = "open")

\* Net.init says connecting before the page has shown anything: noteClosed.
NewTab == [rung |-> "offline", pinned |-> None, wanted |-> FALSE, timer |-> TRUE, missed |-> 0]
Free == [stage |-> "free", live |-> None, at |-> 0]

Init ==
    /\ served = 1 /\ up = TRUE /\ named \in BOOLEAN
    /\ socket = [state |-> "connecting", on |-> 1] /\ page = "running" /\ runs = 1
    /\ tab = NewTab /\ probe = [p \in Probe |-> Free]
    /\ deploys = 0 /\ outages = 0 /\ said = 0 /\ drops = 0
    /\ reloads = 0 /\ answeredAt = 0

Running == page # "lost"

-----------------------------------------------------------------------------
(* Checks                                                                   *)

Ask(p) == probe[p].stage = "free" /\ probe' = [probe EXCEPT ![p].stage = "asked"]

\* The interval of start(): whatever is under way, another check.
Poll(p) ==
    /\ Running /\ tab.timer /\ Ask(p)
    /\ UNCHANGED <<server, socket, page, runs, tab, said, drops, reloads, answeredAt>>

\* An answer without a revision is, to the tab, no answer.
Live == IF named THEN served ELSE None

Responds(p) ==
    /\ probe[p].stage = "asked"
    /\ probe' = [probe EXCEPT ![p] =
            [stage |-> "answered", live |-> IF up THEN Live ELSE None, at |-> outages]]
    /\ UNCHANGED <<server, socket, page, runs, tab, said, drops, reloads, answeredAt>>

\* A slip: a tab that must reload does so whatever the check found.
VerdictImpatient(live) ==
    IF tab.wanted \/ (live # None /\ tab.pinned # None /\ live # tab.pinned) THEN "fire"
    ELSE "nothing"

Unanswered == IF tab.wanted THEN "unreachable" ELSE "nothing"

\* A slip: nothing to compare with is a difference.
VerdictGuessing(live) ==
    IF live = None THEN Unanswered
    ELSE IF tab.wanted \/ live # tab.pinned THEN "fire" ELSE "nothing"

\* check, once the probe is back.
Verdict(live) ==
    IF live = None THEN Unanswered
    ELSE IF tab.wanted \/ (tab.pinned # None /\ live # tab.pinned) THEN "fire" ELSE "nothing"

\* A slip: the interval stops with the tab that has nowhere to go.
HeldForGood == [tab EXCEPT !.rung = "unreachable", !.timer = FALSE]

\* "Hold, say so, keep trying"
Held == [tab EXCEPT !.rung = "unreachable"]

\* #fire stops the interval and asks the browser to reload.
Fire(at) ==
    /\ tab' = [tab EXCEPT !.rung = "stale", !.wanted = TRUE, !.timer = FALSE]
    /\ page' = "leaving" /\ answeredAt' = at

Check(p) ==
    /\ Running /\ probe[p].stage = "answered"
    /\ probe' = [probe EXCEPT ![p] = Free]
    /\ LET verdict == Verdict(probe[p].live)
       IN  \/ verdict = "fire" /\ Fire(probe[p].at)
           \/ verdict = "unreachable" /\ tab' = Held
              /\ UNCHANGED <<page, answeredAt>>
           \/ verdict = "nothing" /\ UNCHANGED <<tab, page, answeredAt>>
    /\ UNCHANGED <<server, socket, runs, said, drops, reloads>>

-----------------------------------------------------------------------------
(* Evidence                                                                 *)

\* want: the warrant, the interval, and a check at once.
Want(t, p) ==
    /\ tab' = [t EXCEPT !.wanted = TRUE, !.timer = TRUE]
    /\ Ask(p)

Connected == Running /\ socket.state = "open"
Says == Connected /\ said < MaxSaid /\ said' = said + 1

\* Hub.retire: the instance has lost the diagram this session is on.
Retired(p) ==
    /\ Says /\ Want(tab, p)
    /\ UNCHANGED <<server, socket, page, runs, drops, reloads, answeredAt>>

\* applyChange: a change from above asks for a resync, the last of a streak is evidence.
Misses(p) ==
    /\ Says
    /\ \/ /\ tab.missed + 1 < GapLimit
          /\ tab' = [tab EXCEPT !.missed = @ + 1]
          /\ UNCHANGED probe
       \/ /\ tab.missed + 1 = GapLimit
          /\ Want([tab EXCEPT !.missed = 0], p)
    /\ UNCHANGED <<server, socket, page, runs, drops, reloads, answeredAt>>

InStep ==
    /\ Connected /\ tab.missed > 0
    /\ tab' = [tab EXCEPT !.missed = 0]
    /\ UNCHANGED <<server, socket, page, runs, probe, said, drops, reloads, answeredAt>>

\* A snapshot says which revision the socket is on: a hello, an open, or a
\* reconnect that was not in step.
Pins ==
    /\ Connected
    /\ tab' = [tab EXCEPT !.pinned = IF named THEN socket.on ELSE @]
    /\ UNCHANGED <<server, socket, page, runs, probe, said, drops, reloads, answeredAt>>

-----------------------------------------------------------------------------
(* The socket                                                               *)

\* A slip: the interval was for the time without a socket.
NoteOpenSettled == IF tab.wanted THEN tab ELSE [tab EXCEPT !.rung = "live", !.timer = FALSE]

\* "a warranted reload is not cancelled by a reconnect"
NoteOpen == IF tab.wanted THEN tab ELSE [tab EXCEPT !.rung = "live"]

NoteClosed == IF tab.wanted THEN tab ELSE [tab EXCEPT !.rung = "offline", !.timer = TRUE]

Opens ==
    /\ Running /\ socket.state = "connecting" /\ up
    /\ socket' = [state |-> "open", on |-> served] /\ tab' = NoteOpen
    /\ UNCHANGED <<server, page, runs, probe, said, drops, reloads, answeredAt>>

\* A socket that drops, or a connection refused: closed, and another try.
Closes ==
    /\ Running
    /\ \/ socket.state = "connecting" /\ ~up /\ UNCHANGED drops
       \/ socket.state = "open" /\ drops < MaxDrops /\ drops' = drops + 1
    /\ socket' = [socket EXCEPT !.state = "closed"] /\ tab' = NoteClosed
    /\ UNCHANGED <<server, page, runs, probe, said, reloads, answeredAt>>

Retries ==
    /\ Running /\ socket.state = "closed"
    /\ socket' = [socket EXCEPT !.state = "connecting"] /\ tab' = NoteClosed
    /\ UNCHANGED <<server, page, runs, probe, said, drops, reloads, answeredAt>>

-----------------------------------------------------------------------------
(* The page and the server                                                  *)

\* The browser fetches the page: from the revision served now, or not at all.
Reloads ==
    /\ page = "leaving"
    /\ page' = IF up THEN "running" ELSE "lost"
    /\ runs' = IF up THEN served ELSE runs
    /\ reloads' = reloads + 1
    /\ socket' = [socket EXCEPT !.state = "connecting"] /\ tab' = NewTab /\ probe' = [p \in Probe |-> Free]
    /\ UNCHANGED <<server, said, drops, answeredAt>>

\* A deploy: HTTP is answered by the new revision, an open socket keeps its own.
Deploy ==
    /\ deploys < MaxDeploys /\ deploys' = deploys + 1 /\ served' = served + 1
    /\ UNCHANGED <<up, named, outages, socket, page, runs, tab, probe, said, drops, reloads, answeredAt>>

Outage ==
    /\ up /\ outages < MaxOutages /\ outages' = outages + 1 /\ up' = FALSE
    /\ UNCHANGED <<served, named, deploys, socket, page, runs, tab, probe, said, drops, reloads, answeredAt>>

Returns ==
    /\ ~up /\ up' = TRUE
    /\ UNCHANGED <<served, named, deploys, outages, socket, page, runs, tab, probe, said, drops, reloads, answeredAt>>

Next ==
    \/ \E p \in Probe : Poll(p) \/ Responds(p) \/ Check(p) \/ Retired(p) \/ Misses(p)
    \/ InStep \/ Pins
    \/ Opens \/ Closes \/ Retries
    \/ Reloads
    \/ Deploy \/ Outage \/ Returns

\* The interval ticks, requests and reloads end, Net tries again, and an outage
\* is over in the end.  No deploy, drop, outage or message is owed.
Fairness ==
    /\ \A p \in Probe : WF_vars(Poll(p)) /\ WF_vars(Responds(p)) /\ WF_vars(Check(p))
    /\ WF_vars(Opens) /\ WF_vars(Retries) /\ WF_vars(Reloads) /\ WF_vars(Returns)

Spec == Init /\ [][Next]_vars /\ Fairness

-----------------------------------------------------------------------------
(* Properties *)

\* "so this tab never reloads into a void" (main.js:638): a reload ends on an error
\* page only when the server stopped after it had answered the very check that
\* decided the reload, whatever else was asked and answered meanwhile.
VoidOnlyByRace == page = "lost" => answeredAt < outages

\* No reload nobody needed and no loop of them (AUTHORITY.md F4): for every page that
\* replaced itself a revision was deployed, or the server or the change stream said so.
NoReloadLoop == reloads <= deploys + said

\* It is carried out once the server is there to carry it out, where the server
\* knows its revision.
WarrantHonoured == named /\ tab.wanted ~> ~tab.wanted

\* A tab that knows the revision it was served by is replaced once another revision
\* is served, unless a snapshot first makes it believe it is on the new one.
StaleGoesUnrepinned ==
    named /\ Running /\ tab.pinned = runs /\ runs # served
        ~> runs = served \/ ~Running \/ tab.pinned # runs

\* "the revision that served this page differs from the revision now answering [...]
\* The response is a full page reload" (docs/spec/AUTHORITY.md:232).
StaleGoes ==
    named /\ Running /\ tab.pinned = runs /\ runs # served
        ~> runs = served \/ ~Running
=============================================================================

--------------------------- MODULE WatchdogProofs ---------------------------
(***************************************************************************)
(* What Watchdog promises of a tab's reloads, for any number of checks     *)
(* under way, deploys, outages and messages.  Fairness is not used.        *)
(***************************************************************************)
EXTENDS Watchdog, TLAPS

Tab == [rung : Rung, pinned : Revision \cup {None}, wanted : BOOLEAN,
        timer : BOOLEAN, missed : 0 .. GapLimit - 1]
CheckState == [stage : {"free", "asked", "answered"}, live : Revision \cup {None}, at : Nat]

-----------------------------------------------------------------------------
(* Types, the revisions in sight, and the counters                          *)

\* A revision is served for each deploy, and what the tab has seen of the
\* server is no older than the page and no newer than what is served.
Dated ==
    /\ served = deploys + 1 /\ deploys \in 0 .. MaxDeploys /\ runs <= served
    /\ socket.state = "open" => runs <= socket.on /\ socket.on <= served
    /\ tab.pinned # None => runs <= tab.pinned /\ tab.pinned <= served
    /\ \A p \in Probe : probe[p].stage = "answered" /\ probe[p].live # None =>
          runs <= probe[p].live /\ probe[p].live <= served

Counted == outages \in Nat /\ said \in Nat /\ reloads \in Nat /\ answeredAt \in Nat

\* A check that found a revision was answered while the server was up, and a page
\* is leaving on such an answer: it is down now only after another outage.
Witnessed ==
    /\ \A p \in Probe : probe[p].stage = "answered" =>
          /\ probe[p].at <= outages
          /\ probe[p].live # None => up \/ probe[p].at < outages
    /\ page = "leaving" => answeredAt <= outages /\ (up \/ answeredAt < outages)
    /\ VoidOnlyByRace

\* Each page that was replaced used up a message or a revision newer than its own,
\* and so will the next: a warrant a message, a page leaving one or the other.
Spent ==
    /\ NoReloadLoop
    /\ page = "running" => reloads <= runs - 1 + said
    /\ page = "running" /\ tab.wanted => reloads + 1 <= runs - 1 + said
    /\ page = "leaving" => /\ tab.wanted
                           /\ \/ reloads + 1 <= runs - 1 + said
                              \/ reloads <= runs - 1 + said /\ runs < served

WatchdogInv == TypeOK /\ Dated /\ Counted /\ Witnessed /\ Spent

Good == TypeOK' /\ Dated' /\ Counted' /\ Witnessed' /\ Spent'

LEMMA Numbers ==
    ASSUME WatchdogInv
    PROVE  /\ MaxDeploys \in Nat /\ served \in Nat /\ runs \in Nat /\ deploys \in Nat
           /\ outages \in Nat /\ said \in Nat /\ reloads \in Nat /\ answeredAt \in Nat
           /\ GapLimit \in Nat /\ GapLimit > 0
BY WatchdogAssumption DEF WatchdogInv, TypeOK, Dated, Counted, Revision

LEMMA PollGood ==
    ASSUME WatchdogInv, NEW p \in Probe, Poll(p)
    PROVE  Good
<1>1. /\ probe' \in [Probe -> CheckState]
      /\ \A q \in Probe : probe'[q] # probe[q] => probe'[q].stage = "asked"
  BY DEF Poll, Ask, WatchdogInv, TypeOK, CheckState
<1>2. UNCHANGED <<served, up, named, deploys, outages, socket, page, runs, tab, said, reloads, answeredAt>>
  BY DEF Poll, server
<1>3. TypeOK' /\ Counted' /\ Spent'
  BY <1>1, <1>2 DEF WatchdogInv, TypeOK, Counted, Spent, NoReloadLoop, CheckState
<1>4. Dated' /\ Witnessed'
  BY <1>1, <1>2 DEF WatchdogInv, Dated, Witnessed, VoidOnlyByRace
<1> QED
  BY <1>3, <1>4 DEF Good

LEMMA RespondsGood ==
    ASSUME WatchdogInv, NEW p \in Probe, Responds(p)
    PROVE  Good
<1>1. UNCHANGED <<served, up, named, deploys, outages, socket, page, runs, tab, said, reloads, answeredAt>>
  BY DEF Responds, server
<1> DEFINE live == IF up THEN Live ELSE None
<1>2. live \in Revision \cup {None} /\ (live # None => live = served /\ up)
  BY DEF Live, None, WatchdogInv, TypeOK
<1>3. probe' = [probe EXCEPT ![p] = [stage |-> "answered", live |-> live, at |-> outages]]
  BY DEF Responds
<1> HIDE DEF live
<1>4. /\ probe' \in [Probe -> CheckState]
      /\ probe'[p].live = live /\ probe'[p].at = outages
      /\ \A q \in Probe \ {p} : probe'[q] = probe[q]
  BY <1>2, <1>3 DEF WatchdogInv, TypeOK, Counted, CheckState
<1>5. TypeOK' /\ Counted' /\ Spent'
  BY <1>1, <1>4 DEF WatchdogInv, TypeOK, Counted, Spent, NoReloadLoop, CheckState
<1>6. Dated'
  <2>1. runs <= served /\ served <= served
    BY Numbers DEF WatchdogInv, Dated
  <2> QED
    BY <1>1, <1>2, <1>4, <2>1 DEF WatchdogInv, Dated
<1>7. Witnessed'
  <2>1. outages <= outages
    BY Numbers
  <2> QED
    BY <1>1, <1>2, <1>4, <2>1 DEF WatchdogInv, Witnessed, VoidOnlyByRace
<1> QED
  BY <1>5, <1>6, <1>7 DEF Good

\* A check reloads on a warrant, or on two revisions that are not the same.
LEMMA VerdictWarrants ==
    ASSUME NEW live, Verdict(live) = "fire"
    PROVE  live # None /\ (tab.wanted \/ (tab.pinned # None /\ live # tab.pinned))
BY DEF Verdict, Unanswered

LEMMA CheckGood ==
    ASSUME WatchdogInv, NEW p \in Probe, Check(p)
    PROVE  Good
<1>1. /\ UNCHANGED <<served, up, named, deploys, outages, socket, runs, said, reloads>>
      /\ page # "lost" /\ probe[p].stage = "answered"
  BY DEF Check, server, Running
<1>2. /\ probe' \in [Probe -> CheckState] /\ probe'[p].stage = "free"
      /\ \A q \in Probe \ {p} : probe'[q] = probe[q]
  <2>1. Free \in CheckState /\ Free.stage = "free"
    BY DEF Free, CheckState, None
  <2>2. probe' = [probe EXCEPT ![p] = Free]
    BY DEF Check
  <2> HIDE DEF Free
  <2> QED
    BY <2>1, <2>2 DEF WatchdogInv, TypeOK, CheckState
<1>3. tab \in Tab
  BY DEF WatchdogInv, TypeOK, Tab
<1>4. CASE Verdict(probe[p].live) = "fire" /\ Fire(probe[p].at)
  <2>1. tab' = [tab EXCEPT !.rung = "stale", !.wanted = TRUE, !.timer = FALSE]
        /\ page' = "leaving" /\ answeredAt' = probe[p].at
    BY <1>4 DEF Fire
  <2>2. tab' \in Tab /\ tab'.pinned = tab.pinned /\ tab'.wanted
    BY <1>3, <2>1 DEF Tab, Rung
  <2>3. probe[p].live # None /\ (tab.wanted \/ (tab.pinned # None /\ probe[p].live # tab.pinned))
    BY <1>4, VerdictWarrants
  <2>4. answeredAt' \in Nat /\ answeredAt' <= outages /\ (up \/ answeredAt' < outages)
    BY <1>1, <2>1, <2>3 DEF WatchdogInv, TypeOK, Witnessed
  <2>5. TypeOK'
    BY <1>1, <1>2, <2>1, <2>2 DEF WatchdogInv, TypeOK, Tab, CheckState
  <2>6. Counted'
    BY <1>1, <2>4 DEF WatchdogInv, Counted
  <2>7. Dated'
    BY <1>1, <1>2, <2>2 DEF WatchdogInv, Dated
  <2>8. Witnessed'
    BY <1>1, <1>2, <2>1, <2>4 DEF WatchdogInv, Witnessed, VoidOnlyByRace
  <2>9. Spent'
    <3>1. \/ reloads + 1 <= runs - 1 + said
          \/ reloads <= runs - 1 + said /\ runs < served
      <4>1. CASE page = "leaving" \/ tab.wanted
        BY <1>1, <4>1 DEF WatchdogInv, Spent, TypeOK
      <4>2. CASE page = "running" /\ tab.pinned # None /\ probe[p].live # tab.pinned
        <5>1. runs <= tab.pinned /\ tab.pinned <= served /\ runs <= probe[p].live /\ probe[p].live <= served
          BY <1>1, <2>3, <4>2 DEF WatchdogInv, Dated
        <5>2. tab.pinned \in Nat /\ probe[p].live \in Nat
          BY <1>3 DEF Tab, WatchdogInv, TypeOK, Revision, None
        <5>3. runs < served
          BY <4>2, <5>1, <5>2, Numbers
        <5> QED
          BY <4>2, <5>3 DEF WatchdogInv, Spent
      <4> QED
        BY <1>1, <2>3, <4>1, <4>2 DEF WatchdogInv, TypeOK
    <3> QED
      BY <1>1, <2>1, <2>2, <3>1 DEF WatchdogInv, Spent, NoReloadLoop
  <2> QED
    BY <2>5, <2>6, <2>7, <2>8, <2>9 DEF Good
<1>5. CASE /\ UNCHANGED <<page, answeredAt>>
           /\ tab' = tab \/ (Verdict(probe[p].live) = "unreachable" /\ tab' = Held)
  <2>1. /\ tab' \in Tab /\ tab'.pinned = tab.pinned /\ tab'.wanted = tab.wanted
        /\ tab' = tab \/ tab.wanted
    BY <1>3, <1>5 DEF Tab, Held, Rung, Verdict, Unanswered
  <2>2. TypeOK'
    BY <1>1, <1>2, <1>5, <2>1 DEF WatchdogInv, TypeOK, Tab, CheckState
  <2>3. Counted' /\ Spent'
    BY <1>1, <1>5, <2>1 DEF WatchdogInv, Counted, Spent, NoReloadLoop
  <2>4. Dated' /\ Witnessed'
    BY <1>1, <1>2, <1>5, <2>1 DEF WatchdogInv, Dated, Witnessed, VoidOnlyByRace
  <2> QED
    BY <2>2, <2>3, <2>4 DEF Good
<1> QED
  BY <1>4, <1>5 DEF Check

\* Evidence: a message is counted, and the warrant it gives is covered by it.
LEMMA EvidenceGood ==
    ASSUME WatchdogInv, NEW p \in Probe, Retired(p) \/ Misses(p)
    PROVE  Good
<1>1. /\ UNCHANGED <<served, up, named, deploys, outages, socket, page, runs, reloads, answeredAt>>
      /\ page # "lost" /\ said' = said + 1
  BY DEF Retired, Misses, Says, Connected, Running, server
<1>2. /\ probe' \in [Probe -> CheckState]
      /\ \A q \in Probe : probe'[q] # probe[q] => probe'[q].stage = "asked"
  BY DEF Retired, Misses, Want, Ask, WatchdogInv, TypeOK, CheckState
<1>3. tab \in Tab
  BY DEF WatchdogInv, TypeOK, Tab
<1>4. /\ tab' \in Tab /\ tab'.pinned = tab.pinned /\ tab'.rung = tab.rung
      /\ tab'.wanted \in BOOLEAN /\ (tab.wanted => tab'.wanted)
  <2>1. CASE Retired(p)
    BY <1>3, <2>1 DEF Tab, Retired, Want
  <2>2. CASE Misses(p)
    <3>1. tab.missed + 1 < GapLimit => tab.missed + 1 \in 0 .. GapLimit - 1
      BY <1>3, Numbers DEF Tab
    <3>2. 0 \in 0 .. GapLimit - 1
      BY Numbers
    <3> QED
      BY <1>3, <2>2, <3>1, <3>2 DEF Tab, Misses, Want
  <2> QED
    BY <2>1, <2>2
<1>5. TypeOK'
  BY <1>1, <1>2, <1>4 DEF WatchdogInv, TypeOK, Tab, CheckState
<1>6. Counted'
  BY <1>1 DEF WatchdogInv, Counted
<1>7. Dated' /\ Witnessed'
  BY <1>1, <1>2, <1>4 DEF WatchdogInv, Dated, Witnessed, VoidOnlyByRace
<1>8. Spent'
  BY <1>1, <1>4, Numbers DEF WatchdogInv, Spent, NoReloadLoop
<1> QED
  BY <1>5, <1>6, <1>7, <1>8 DEF Good

\* A streak ends, or the snapshot says which revision the socket is on.
LEMMA HeardGood ==
    ASSUME WatchdogInv, InStep \/ Pins
    PROVE  Good
<1>1. /\ UNCHANGED <<served, up, named, deploys, outages, socket, page, runs, probe, said,
                     reloads, answeredAt>>
      /\ socket.state = "open"
  BY DEF InStep, Pins, Connected, server
<1>2. tab \in Tab /\ socket.on \in Revision
  BY DEF WatchdogInv, TypeOK, Tab
<1>3. /\ tab' \in Tab /\ tab'.rung = tab.rung /\ tab'.wanted = tab.wanted
      /\ tab'.pinned = tab.pinned \/ (named /\ tab'.pinned = socket.on)
  <2>1. 0 \in 0 .. GapLimit - 1
    BY Numbers
  <2>2. CASE InStep
    BY <1>2, <2>1, <2>2 DEF InStep, Tab
  <2>3. CASE Pins
    BY <1>2, <2>3 DEF Pins, Tab
  <2> QED
    BY <2>2, <2>3
<1>4. TypeOK'
  BY <1>1, <1>3 DEF WatchdogInv, TypeOK, Tab
<1>5. Counted' /\ Spent'
  BY <1>1, <1>3 DEF WatchdogInv, Counted, Spent, NoReloadLoop
<1>6. Dated' /\ Witnessed'
  BY <1>1, <1>3 DEF WatchdogInv, Dated, Witnessed, VoidOnlyByRace
<1> QED
  BY <1>4, <1>5, <1>6 DEF Good

LEMMA SocketGood ==
    ASSUME WatchdogInv, Opens \/ Closes \/ Retries
    PROVE  Good
<1>1. UNCHANGED <<served, up, named, deploys, outages, page, runs, probe, said, reloads, answeredAt>>
  BY DEF Opens, Closes, Retries, server
<1>2. /\ tab \in Tab /\ socket \in [state : {"open", "closed", "connecting"}, on : Revision]
      /\ served \in Revision
  BY DEF WatchdogInv, TypeOK, Tab
<1>3. /\ socket' \in [state : {"open", "closed", "connecting"}, on : Revision]
      /\ socket'.state = "open" => socket'.on = served
  BY <1>2 DEF Opens, Closes, Retries
<1>4. /\ tab' \in Tab /\ tab'.pinned = tab.pinned /\ tab'.wanted = tab.wanted
      /\ ~tab.wanted => (tab'.rung = "live" <=> socket'.state = "open")
  <2>1. /\ NoteOpen \in Tab /\ NoteOpen.pinned = tab.pinned /\ NoteOpen.wanted = tab.wanted
        /\ ~tab.wanted => NoteOpen.rung = "live"
    BY <1>2 DEF NoteOpen, Tab, Rung
  <2>2. /\ NoteClosed \in Tab /\ NoteClosed.pinned = tab.pinned /\ NoteClosed.wanted = tab.wanted
        /\ ~tab.wanted => NoteClosed.rung = "offline"
    BY <1>2 DEF NoteClosed, Tab, Rung
  <2>3. CASE Opens
    BY <2>1, <2>3 DEF Opens
  <2>4. CASE Closes \/ Retries
    BY <1>2, <2>2, <2>4 DEF Closes, Retries
  <2> QED
    BY <2>3, <2>4
<1>5. TypeOK'
  BY <1>1, <1>3, <1>4 DEF WatchdogInv, TypeOK, Tab
<1>6. Counted' /\ Spent'
  BY <1>1, <1>4 DEF WatchdogInv, Counted, Spent, NoReloadLoop
<1>7. Dated'
  <2>1. runs <= served /\ served <= served
    BY Numbers DEF WatchdogInv, Dated
  <2> QED
    BY <1>1, <1>3, <1>4, <2>1 DEF WatchdogInv, Dated
<1>8. Witnessed'
  BY <1>1 DEF WatchdogInv, Witnessed, VoidOnlyByRace
<1> QED
  BY <1>5, <1>6, <1>7, <1>8 DEF Good

\* The page that comes is of the revision served: what the last one owed is paid.
LEMMA ReloadsGood ==
    ASSUME WatchdogInv, Reloads
    PROVE  Good
<1>1. /\ UNCHANGED <<served, up, named, deploys, outages, said, answeredAt>>
      /\ page = "leaving" /\ page' = (IF up THEN "running" ELSE "lost")
      /\ runs' = (IF up THEN served ELSE runs) /\ reloads' = reloads + 1
      /\ tab' = NewTab /\ probe' = [p \in Probe |-> Free]
      /\ socket' = [socket EXCEPT !.state = "connecting"]
  BY DEF Reloads, server
<1>2. NewTab \in Tab /\ NewTab.pinned = None /\ ~NewTab.wanted /\ NewTab.rung = "offline"
  <2>1. 0 \in 0 .. GapLimit - 1
    BY Numbers
  <2> QED
    BY <2>1 DEF NewTab, Tab, Rung, None
<1>3. Free \in CheckState /\ Free.stage = "free"
  BY DEF Free, CheckState, None
<1>4. /\ socket' \in [state : {"open", "closed", "connecting"}, on : Revision]
      /\ socket'.state = "connecting"
  BY <1>1 DEF WatchdogInv, TypeOK
<1>5. /\ probe' \in [Probe -> CheckState]
      /\ \A p \in Probe : probe'[p].stage = "free"
  <2> HIDE DEF Free
  <2> QED
    BY <1>1, <1>3
<1> HIDE DEF NewTab, Free
<1>6. runs' \in Revision /\ runs' <= served /\ runs <= runs'
  BY <1>1, Numbers DEF WatchdogInv, TypeOK, Dated
<1>7. TypeOK'
  BY <1>1, <1>2, <1>4, <1>5, <1>6 DEF WatchdogInv, TypeOK, Tab, CheckState
<1>8. Counted'
  BY <1>1, Numbers DEF Counted
<1>9. Dated'
  BY <1>1, <1>2, <1>4, <1>5, <1>6 DEF WatchdogInv, Dated
<1>10. Witnessed'
  BY <1>1, <1>5 DEF WatchdogInv, Witnessed, VoidOnlyByRace
<1>11. Spent'
  <2>1. \/ reloads + 1 <= runs - 1 + said
        \/ reloads <= runs - 1 + said /\ runs < served
    BY <1>1 DEF WatchdogInv, Spent
  <2>2. runs <= served /\ served = deploys + 1
    BY DEF WatchdogInv, Dated
  <2>3. reloads' <= served - 1 + said
    BY <1>1, <2>1, <2>2, Numbers
  <2>4. NoReloadLoop'
    BY <1>1, <2>2, <2>3, Numbers DEF NoReloadLoop
  <2> QED
    BY <1>1, <1>2, <2>3, <2>4 DEF Spent
<1> QED
  BY <1>7, <1>8, <1>9, <1>10, <1>11 DEF Good

LEMMA ServerGood ==
    ASSUME WatchdogInv, Deploy \/ Outage \/ Returns
    PROVE  Good
<1>1. UNCHANGED <<named, socket, page, runs, tab, probe, said, reloads, answeredAt>>
  BY DEF Deploy, Outage, Returns
<1>2. CASE Deploy
  <2>1. UNCHANGED <<up, outages>> /\ served' = served + 1 /\ deploys' = deploys + 1 /\ deploys < MaxDeploys
    BY <1>2 DEF Deploy
  <2>2. /\ served' \in Revision /\ served' = deploys' + 1 /\ deploys' \in 0 .. MaxDeploys
        /\ \A r \in Nat : r <= served => r <= served'
        /\ \A r \in Nat : r < served => r < served'
    BY <2>1, Numbers DEF WatchdogInv, Dated, Revision
  <2>3. TypeOK' /\ Counted' /\ Witnessed'
    BY <1>1, <2>1, <2>2 DEF WatchdogInv, TypeOK, Counted, Witnessed, VoidOnlyByRace
  <2>4. Dated'
    <3>1. /\ socket.on \in Nat /\ tab.pinned \in Nat /\ runs \in Nat
          /\ \A p \in Probe : probe[p].live \in Nat
      BY DEF WatchdogInv, TypeOK, Revision, None
    <3> QED
      BY <1>1, <2>2, <3>1 DEF WatchdogInv, Dated
  <2>5. Spent'
    <3>1. NoReloadLoop'
      BY <1>1, <2>1, Numbers DEF WatchdogInv, Spent, NoReloadLoop
    <3> QED
      BY <1>1, <2>2, <3>1, Numbers DEF WatchdogInv, Spent
  <2> QED
    BY <2>3, <2>4, <2>5 DEF Good
<1>3. CASE Outage
  <2>1. UNCHANGED <<served, deploys>> /\ outages' = outages + 1 /\ ~up'
    BY <1>3 DEF Outage
  <2>2. outages' \in Nat /\ (\A n \in Nat : n <= outages => n <= outages' /\ n < outages')
    BY <2>1, Numbers
  <2>3. up' \in BOOLEAN
    BY <1>3 DEF Outage
  <2>4. TypeOK' /\ Counted'
    BY <1>1, <2>1, <2>2, <2>3 DEF WatchdogInv, TypeOK, Counted
  <2>5. Dated' /\ Spent'
    BY <1>1, <2>1 DEF WatchdogInv, Dated, Spent, NoReloadLoop
  <2>6. Witnessed'
    <3>1. \A p \in Probe : probe[p].at \in Nat
      BY DEF WatchdogInv, TypeOK
    <3>2. page = "leaving" \/ page = "lost" => answeredAt <= outages
      BY Numbers DEF WatchdogInv, Witnessed, VoidOnlyByRace
    <3> QED
      BY <1>1, <2>2, <3>1, <3>2, Numbers DEF WatchdogInv, Witnessed, VoidOnlyByRace
  <2> QED
    BY <2>4, <2>5, <2>6 DEF Good
<1>4. CASE Returns
  <2>1. UNCHANGED <<served, deploys, outages>> /\ up'
    BY <1>4 DEF Returns
  <2>2. up' \in BOOLEAN
    BY <1>4 DEF Returns
  <2>3. TypeOK' /\ Counted'
    BY <1>1, <2>1, <2>2 DEF WatchdogInv, TypeOK, Counted
  <2>4. Dated' /\ Spent'
    BY <1>1, <2>1 DEF WatchdogInv, Dated, Spent, NoReloadLoop
  <2>5. Witnessed'
    BY <1>1, <2>1 DEF WatchdogInv, Witnessed, VoidOnlyByRace
  <2> QED
    BY <2>3, <2>4, <2>5 DEF Good
<1> QED
  BY <1>2, <1>3, <1>4

LEMMA WatchdogInductive == WatchdogInv /\ [Next]_vars => WatchdogInv'
<1> SUFFICES ASSUME WatchdogInv, [Next]_vars PROVE WatchdogInv'
  OBVIOUS
<1>1. CASE UNCHANGED vars
  BY <1>1 DEF vars, server, WatchdogInv, TypeOK, Dated, Counted, Witnessed, Spent,
              VoidOnlyByRace, NoReloadLoop
<1>2. CASE Next
  <2>1. Good
    BY <1>2, PollGood, RespondsGood, CheckGood, EvidenceGood, HeardGood, SocketGood,
       ReloadsGood, ServerGood DEF Next
  <2> QED
    BY <2>1 DEF Good, WatchdogInv
<1> QED
  BY <1>1, <1>2

LEMMA WatchdogInit == Init => WatchdogInv
<1> SUFFICES ASSUME Init PROVE WatchdogInv
  OBVIOUS
<1>1. MaxDeploys \in Nat /\ GapLimit \in Nat /\ GapLimit > 0
  BY WatchdogAssumption
<1>2. 1 \in Revision /\ 0 \in 0 .. MaxDeploys /\ 0 \in 0 .. GapLimit - 1
  BY <1>1 DEF Revision
<1>3. NewTab \in Tab /\ NewTab.pinned = None /\ ~NewTab.wanted /\ NewTab.rung = "offline"
  BY <1>2 DEF NewTab, Tab, Rung, None
<1>4. Free \in CheckState /\ Free.stage = "free"
  BY DEF Free, CheckState, None
<1>5. probe \in [Probe -> CheckState] /\ \A p \in Probe : probe[p].stage = "free"
  <2>1. probe = [p \in Probe |-> Free]
    BY DEF Init
  <2> HIDE DEF Free
  <2> QED
    BY <1>4, <2>1
<1>6. TypeOK
  BY <1>2, <1>3, <1>5 DEF Init, TypeOK, Tab, CheckState
<1>7. Dated /\ Counted
  BY <1>1, <1>2, <1>3, <1>5 DEF Init, Dated, Counted
<1>8. Witnessed /\ Spent
  BY <1>3, <1>5 DEF Init, Witnessed, Spent, VoidOnlyByRace, NoReloadLoop
<1> QED
  BY <1>6, <1>7, <1>8 DEF WatchdogInv

\* The ladder, the socket and the checks are of their types, and the pill says
\* what the socket is while nothing has been warranted.
THEOREM LadderIsTyped == Spec => []TypeOK
<1>1. WatchdogInv => TypeOK
  BY DEF WatchdogInv
<1> QED
  BY <1>1, WatchdogInit, WatchdogInductive, PTL DEF Spec

\* A reload ends on an error page only when the server stopped after it had
\* answered the very check that decided the reload.
THEOREM VoidIsARace == Spec => []VoidOnlyByRace
<1>1. WatchdogInv => VoidOnlyByRace
  BY DEF WatchdogInv, Witnessed
<1> QED
  BY <1>1, WatchdogInit, WatchdogInductive, PTL DEF Spec

\* There are never more reloads than revisions deployed and messages that ask for
\* one: no page reloads that nothing had made it reload.
THEOREM ReloadsAreWarranted == Spec => []NoReloadLoop
<1>1. WatchdogInv => NoReloadLoop
  BY DEF WatchdogInv, Spent
<1> QED
  BY <1>1, WatchdogInit, WatchdogInductive, PTL DEF Spec
=============================================================================

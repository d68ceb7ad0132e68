---------------------------- MODULE LocksProofs ----------------------------
(***************************************************************************)
(* The write slot for any number of agents and browsers, any lifetimes and *)
(* any number of tokens and writes, whatever kinds of write the agents     *)
(* make (server/locks.js, server/rest.js, server/protocol.js).             *)
(***************************************************************************)
EXTENDS Locks, TLAPS

\* A request past the gate is one of the kinds there are.
GatedKinds == \A a \in Agent : request[a] # Idle => request[a].kind \in Kinds

\* A hold stands on a free slot only: a reclaim frees it, and whoever takes it next
\* ends the hold.
HoldMeansFree == hold # 0 => lock = NoLock

\* No token was given to two agents.
TokensDiffer ==
    \A a, b \in Agent : token[a] # 0 /\ token[a] = token[b] => a = b

\* Nobody believes a version that is still to come.
NoForesight == turn <= version /\ \A a \in Agent : request[a].expect <= version

\* A request whose agent has lost the slot, to another agent or to a human who holds it
\* still, was let past the gate before that.
LosersAreEarlier ==
    \A a \in Agent :
        (lock # NoLock /\ lock.token # request[a].token) \/ hold # 0 => request[a].expect <= turn

Slot    == TypeOK /\ GatedKinds /\ HoldMeansFree /\ TokensDiffer
SlotInv == Slot /\ NoForesight /\ LosersAreEarlier

-----------------------------------------------------------------------------

LEMMA SlotInit == Init => SlotInv
<1> SUFFICES ASSUME Init PROVE SlotInv
  OBVIOUS
<1>1. TypeOK
  <2>1. request \in [Agent -> Request]
    BY DEF Init, Idle, Request
  <2>2. inbox \in [Viewer -> Seq(Owner)]
    BY DEF Init
  <2> QED
    BY <2>1, <2>2 DEF Init, TypeOK
<1>2. NoForesight /\ LosersAreEarlier
  BY DEF Init, Idle, NoForesight, LosersAreEarlier
<1> QED
  BY <1>1, <1>2 DEF Init, SlotInv, Slot, GatedKinds, HoldMeansFree, TokensDiffer

\* Versions are numbers, those believed too.
LEMMA VersionsAreNumbers ==
    ASSUME TypeOK
    PROVE  version \in Nat /\ turn \in Nat /\ \A a \in Agent : request[a].expect \in Nat
BY DEF TypeOK, Request

\* A lock that is renewed is a lock.
LEMMA RenewedIsLock ==
    ASSUME TypeOK, Live
    PROVE  [lock EXCEPT !.expiresAt = now + TtlMs] \in Lock
<1>1. lock \in Lock
  BY DEF TypeOK, Live
<1>2. now + TtlMs \in Nat
  BY ConstantsAssumption DEF TypeOK
<1> QED
  BY <1>1, <1>2 DEF Lock

LEMMA BroadcastTyped ==
    ASSUME TypeOK, NEW owner \in Owner, Broadcast(owner)
    PROVE  inbox' \in [Viewer -> Seq(Owner)]
<1>1. \A v \in Viewer : inbox[v] \in Seq(Owner) /\ Append(inbox[v], owner) \in Seq(Owner)
  BY DEF TypeOK
<1> QED
  BY <1>1 DEF Broadcast

LEMMA AgentPreserves ==
    ASSUME Slot, NEW a \in Agent, AgentSteps(a)
    PROVE  Slot'
<1> USE DEF Slot
<1>1. CASE Renew(a)
  <2>1. Live
    BY <1>1 DEF Renew, Verify
  <2>2. TypeOK'
    BY <1>1, <2>1, RenewedIsLock, BroadcastTyped DEF Renew, TypeOK, Owner
  <2>3. HoldMeansFree'
    BY <1>1, <2>1 DEF Renew, HoldMeansFree, Live
  <2> QED
    BY <1>1, <2>2, <2>3 DEF Renew, GatedKinds, TokensDiffer
<1>2. CASE Acquire(a)
  <2>1. minted + 1 \in Nat \ {0} /\ now + TtlMs \in Nat
    BY ConstantsAssumption DEF TypeOK
  <2>2. \A b \in Agent : token[b] <= minted /\ token[b] \in Nat
    BY DEF TypeOK
  <2>3. TypeOK'
    <3>1. inbox' \in [Viewer -> Seq(Owner)]
      BY <1>2, BroadcastTyped DEF Acquire, Owner
    <3>2. lock' \in Lock
      BY <1>2, <2>1 DEF Acquire, Lock
    <3>3. token' \in [Agent -> 0 .. minted']
      BY <1>2, <2>1, <2>2 DEF Acquire, TypeOK
    <3> QED
      BY <1>2, <2>1, <3>1, <3>2, <3>3 DEF Acquire, TypeOK
  <2>4. TokensDiffer'
    BY <1>2, <2>2 DEF Acquire, TokensDiffer, TypeOK
  <2> QED
    BY <1>2, <2>3, <2>4 DEF Acquire, GatedKinds, HoldMeansFree
<1>3. CASE Release(a)
  <2>1. inbox' \in [Viewer -> Seq(Owner)]
    BY <1>3, BroadcastTyped DEF Release, Owner
  <2> QED
    BY <1>3, <2>1 DEF Release, TypeOK, GatedKinds, HoldMeansFree, TokensDiffer
<1>4. CASE Land(a)
  <2>1. request' \in [Agent -> Request]
    BY <1>4 DEF Land, TypeOK, Idle, Request
  <2>2. version' \in Nat
    BY <1>4 DEF Land, TypeOK
  <2>3. GatedKinds'
    BY <1>4 DEF Land, GatedKinds, TypeOK
  <2> QED
    BY <1>4, <2>1, <2>2, <2>3 DEF Land, TypeOK, HoldMeansFree, TokensDiffer
<1>5. ASSUME NEW kind \in Kinds, Gate(a, kind)
      PROVE  Slot'
  <2>1. Live
    BY <1>5 DEF Gate, Verify
  <2>2. [kind |-> kind, token |-> token[a], expect |-> version] \in Request
    BY DEF TypeOK, Request
  <2>3. TypeOK'
    BY <1>5, <2>1, <2>2, RenewedIsLock DEF Gate, TypeOK
  <2>4. GatedKinds'
    BY <1>5 DEF Gate, GatedKinds, TypeOK
  <2>5. HoldMeansFree'
    BY <1>5, <2>1 DEF Gate, HoldMeansFree, Live
  <2> QED
    BY <1>5, <2>3, <2>4, <2>5 DEF Gate, TokensDiffer
<1> QED
  BY <1>1, <1>2, <1>3, <1>4, <1>5 DEF AgentSteps

LEMMA ViewerPreserves ==
    ASSUME Slot, NEW v \in Viewer, ViewerSteps(v)
    PROVE  Slot'
<1> USE DEF Slot
<1>1. CASE Connect(v)
  <2>1. inbox' \in [Viewer -> Seq(Owner)]
    <3>1. <<IF Live THEN "server" ELSE "client">> \in Seq(Owner)
      BY DEF Owner
    <3> QED
      BY <1>1, <3>1 DEF Connect, TypeOK
  <2> QED
    BY <1>1, <2>1 DEF Connect, TypeOK, GatedKinds, HoldMeansFree, TokensDiffer
<1>2. CASE Disconnect(v)
  <2>1. inbox' \in [Viewer -> Seq(Owner)]
    BY <1>2 DEF Disconnect, TypeOK
  <2> QED
    BY <1>2, <2>1 DEF Disconnect, TypeOK, GatedKinds, HoldMeansFree, TokensDiffer
<1>3. CASE Receive(v)
  <2>1. inbox' \in [Viewer -> Seq(Owner)]
    BY <1>3 DEF Receive, TypeOK
  <2>2. readOnly' \in [Viewer -> BOOLEAN]
    BY <1>3 DEF Receive, TypeOK
  <2> QED
    BY <1>3, <2>1, <2>2 DEF Receive, TypeOK, GatedKinds, HoldMeansFree, TokensDiffer
<1>4. CASE Reclaim(v)
  <2>1. inbox' \in [Viewer -> Seq(Owner)]
    BY <1>4, BroadcastTyped DEF Reclaim, Owner
  <2>2. hold' \in Nat
    BY <1>4, ConstantsAssumption DEF Reclaim, TypeOK
  <2> QED
    BY <1>4, <2>1, <2>2 DEF Reclaim, TypeOK, GatedKinds, HoldMeansFree, TokensDiffer
<1>5. ASSUME NEW kind \in {"commit", "undo"}, BrowserWrite(v, kind)
      PROVE  Slot'
  <2>1. inbox' \in [Viewer -> Seq(Owner)]
    <3>1. Append(inbox[v], "server") \in Seq(Owner)
      BY DEF TypeOK, Owner
    <3> QED
      BY <1>5, <3>1 DEF BrowserWrite, Tell, TypeOK
  <2>2. version' \in Nat /\ hold' \in Nat
    BY <1>5 DEF BrowserWrite, TypeOK
  <2>3. HoldMeansFree'
    BY <1>5 DEF BrowserWrite, HoldMeansFree
  <2> QED
    BY <1>5, <2>1, <2>2, <2>3 DEF BrowserWrite, TypeOK, GatedKinds, TokensDiffer
<1> QED
  BY <1>1, <1>2, <1>3, <1>4, <1>5 DEF ViewerSteps

LEMMA SlotPreserved ==
    ASSUME Slot, [Next]_vars
    PROVE  Slot'
<1>1. CASE Tick
  BY <1>1 DEF Tick, Slot, TypeOK, GatedKinds, HoldMeansFree, TokensDiffer
<1>2. CASE Sweep
  <2>1. inbox' \in [Viewer -> Seq(Owner)]
    BY <1>2, BroadcastTyped DEF Sweep, Owner, Slot
  <2> QED
    BY <1>2, <2>1 DEF Sweep, Slot, TypeOK, GatedKinds, HoldMeansFree, TokensDiffer
<1>3. CASE UNCHANGED vars
  BY <1>3 DEF vars, Slot, TypeOK, GatedKinds, HoldMeansFree, TokensDiffer
<1> QED
  BY <1>1, <1>2, <1>3, AgentPreserves, ViewerPreserves DEF Next

-----------------------------------------------------------------------------
(* Who believes what                                                        *)

\* Where no request comes in and nobody is given the slot, what was believed when stays so.
LEMMA BeliefsStay ==
    ASSUME SlotInv,
           lock' # NoLock => lock # NoLock /\ lock'.token = lock.token,
           request' = request, turn' = turn, hold' = hold \/ hold' = 0,
           version' = version \/ version' = version + 1
    PROVE  NoForesight' /\ LosersAreEarlier'
<1>1. NoForesight'
  BY VersionsAreNumbers DEF SlotInv, Slot, NoForesight
<1>2. LosersAreEarlier'
  BY DEF SlotInv, LosersAreEarlier
<1> QED
  BY <1>1, <1>2

\* The slot is given to somebody: all that is past the gate was let past it before.
LEMMA TurnsDate ==
    ASSUME SlotInv, request' = request, turn' = version, version' = version
    PROVE  NoForesight' /\ LosersAreEarlier'
<1>1. NoForesight'
  BY VersionsAreNumbers DEF SlotInv, Slot, NoForesight
<1>2. LosersAreEarlier'
  BY DEF SlotInv, NoForesight, LosersAreEarlier
<1> QED
  BY <1>1, <1>2

LEMMA BeliefsPreserved ==
    ASSUME SlotInv, [Next]_vars
    PROVE  NoForesight' /\ LosersAreEarlier'
<1>1. ASSUME NEW a \in Agent, Renew(a) \/ Release(a)
      PROVE  NoForesight' /\ LosersAreEarlier'
  <2>1. lock \in Lock /\ lock # NoLock
    BY <1>1 DEF Renew, Release, Verify, Live, SlotInv, Slot, TypeOK
  <2>2. lock' # NoLock => lock # NoLock /\ lock'.token = lock.token
    BY <1>1, <2>1 DEF Renew, Release, Lock
  <2>3. request' = request /\ turn' = turn /\ hold' = hold /\ version' = version
    BY <1>1 DEF Renew, Release
  <2> QED
    BY <2>1, <2>2, <2>3, BeliefsStay
<1>2. ASSUME NEW a \in Agent, Acquire(a)
      PROVE  NoForesight' /\ LosersAreEarlier'
  BY <1>2, TurnsDate DEF Acquire
<1>3. ASSUME NEW a \in Agent, Land(a)
      PROVE  NoForesight' /\ LosersAreEarlier'
  <2>1. \A b \in Agent : request'[b] = request[b] \/ request'[b].expect = 0
    BY <1>3 DEF Land, Idle, SlotInv, Slot, TypeOK
  <2>2. version' = version \/ version' = version + 1
    BY <1>3 DEF Land
  <2>3. NoForesight'
    BY <1>3, <2>1, <2>2, VersionsAreNumbers DEF Land, SlotInv, Slot, NoForesight
  <2>4. LosersAreEarlier'
    <3>1. request' = [request EXCEPT ![a] = Idle] /\ Idle.expect = 0
      BY <1>3 DEF Land, Idle
    <3>2. ASSUME NEW b \in Agent
          PROVE  request'[b] = request[b] \/ request'[b].expect = 0
      BY <2>1
    <3> QED
      BY <1>3, <3>2, VersionsAreNumbers DEF Land, SlotInv, Slot, LosersAreEarlier
  <2> QED
    BY <2>3, <2>4
<1>4. ASSUME NEW a \in Agent, NEW kind \in Kinds, Gate(a, kind)
      PROVE  NoForesight' /\ LosersAreEarlier'
  <2>1. lock \in Lock /\ lock # NoLock /\ lock.token = token[a]
    BY <1>4 DEF Gate, Verify, Live, SlotInv, Slot, TypeOK
  <2>2. lock'.token = lock.token
    BY <1>4, <2>1 DEF Gate, Lock
  <2>3. hold' = 0
    BY <1>4, <2>1 DEF Gate, SlotInv, Slot, HoldMeansFree
  <2>4. request'[a].expect = version /\ request'[a].token = token[a]
    BY <1>4 DEF Gate, SlotInv, Slot, TypeOK
  <2>5. \A b \in Agent \ {a} : request'[b] = request[b]
    BY <1>4 DEF Gate, SlotInv, Slot, TypeOK
  <2>6. NoForesight'
    BY <1>4, <2>4, <2>5, VersionsAreNumbers DEF Gate, SlotInv, Slot, NoForesight
  <2>7. LosersAreEarlier'
    BY <1>4, <2>1, <2>2, <2>3, <2>4, <2>5 DEF Gate, SlotInv, LosersAreEarlier
  <2> QED
    BY <2>6, <2>7
<1>5. ASSUME NEW v \in Viewer, Reclaim(v)
      PROVE  NoForesight' /\ LosersAreEarlier'
  BY <1>5, TurnsDate DEF Reclaim
<1>6. ASSUME NEW v \in Viewer, \/ Connect(v) \/ Disconnect(v) \/ Receive(v)
                               \/ \E kind \in {"commit", "undo"} : BrowserWrite(v, kind)
      PROVE  NoForesight' /\ LosersAreEarlier'
  BY <1>6, BeliefsStay DEF Connect, Disconnect, Receive, BrowserWrite
<1>7. CASE Tick \/ Sweep \/ UNCHANGED vars
  <2>1. request' = request /\ turn' = turn /\ hold' = hold /\ version' = version
    BY <1>7 DEF Tick, Sweep, vars
  <2>2. lock' # NoLock => lock # NoLock /\ lock'.token = lock.token
    BY <1>7 DEF Tick, Sweep, vars
  <2> QED
    BY <2>1, <2>2, BeliefsStay
<1> QED
  BY <1>1, <1>2, <1>3, <1>4, <1>5, <1>6, <1>7 DEF Next, AgentSteps, ViewerSteps

LEMMA SlotInductive ==
    ASSUME SlotInv, [Next]_vars
    PROVE  SlotInv'
BY SlotPreserved, BeliefsPreserved DEF SlotInv

\* The slot's state is of its type, a hold stands on a free slot, and no token is in two hands.
THEOREM SlotIsSound == Spec => []SlotInv
BY SlotInit, SlotInductive, PTL DEF Spec

-----------------------------------------------------------------------------

\* "Single-writer-at-a-time" between agents: of two agents at most one has a token
\* that verifies.
OneAgentHolds ==
    \A a, b \in Agent : Verify(token[a]) /\ Verify(token[b]) => a = b

\* At any time one agent at most can write through the slot (Locks.verify).
THEOREM OneAgentAtATime == Spec => []OneAgentHolds
<1>1. SlotInv => OneAgentHolds
  BY DEF SlotInv, Slot, TokensDiffer, OneAgentHolds, Verify
<1> QED
  BY <1>1, SlotIsSound, PTL

\* A write that lands without its lock is an undo of the version its agent was let past
\* the gate at.
LEMMA LandsUnlocked ==
    ASSUME SlotInv, [Next]_vars, NEW a \in Agent, Writes(a), ~Verify(request[a].token)
    PROVE  request[a].kind = "undo" /\ request[a].expect = version
<1>1. PICK b \in Agent : Land(b)
  BY DEF Writes, Next, vars, AgentSteps, ViewerSteps, Renew, Acquire, Release, Gate,
         Connect, Disconnect, Receive, Reclaim, BrowserWrite, Tick, Sweep
<1>2. a = b
  BY <1>1 DEF Writes, Land, SlotInv, Slot, TypeOK
<1>3. MayLand(a)
  BY <1>1, <1>2 DEF Writes, Land
<1>4. request[a].kind \in {"commit", "undo"}
  BY ConstantsAssumption DEF Writes, SlotInv, Slot, GatedKinds
<1> QED
  BY <1>3, <1>4 DEF MayLand

\* An agent's write lands under its own lock; or it is an undo and whichever agent has
\* the slot has not written yet (commitWrite verifies the token again once the body is
\* read, undo and redo compare the version).
THEOREM TurnsAreKept == Spec => WritesKeepTurns
<1> DEFINE Step == \A a \in Agent : Writes(a) /\ ~Verify(request[a].token) =>
                       request[a].kind = "undo" /\ (Live => version = turn)
<1>1. ASSUME SlotInv, [Next]_vars
      PROVE  Step
  <2> SUFFICES ASSUME NEW a \in Agent, Writes(a), ~Verify(request[a].token)
               PROVE  request[a].kind = "undo" /\ (Live => version = turn)
    OBVIOUS
  <2>1. request[a].kind = "undo" /\ request[a].expect = version
    BY <1>1, LandsUnlocked
  <2>2. ASSUME Live PROVE version = turn
    <3>1. lock # NoLock /\ lock.token # 0
      BY <1>1, <2>2 DEF Live, SlotInv, Slot, TypeOK, Lock
    <3>2. lock.token # request[a].token
      BY <2>2, <3>1 DEF Verify
    <3>3. request[a].expect <= turn /\ turn <= version
      BY <1>1, <3>1, <3>2 DEF SlotInv, LosersAreEarlier, NoForesight
    <3> QED
      BY <1>1, <2>1, <3>3, VersionsAreNumbers DEF SlotInv, Slot
  <2> QED
    BY <2>1, <2>2
<1>2. SlotInv /\ [Next]_vars => [Step]_vars
  BY <1>1
<1> QED
  BY <1>2, SlotIsSound, PTL DEF Spec, WritesKeepTurns

\* GR11, as far as it goes: from a reclaim until the hold lapses or the human commits, no
\* agent gets the slot, no commit of one lands, and an undo lands only on the document
\* the human took over.
THEOREM RemedyIsRacedOnce == Spec => RemedyRacedByOneUndo
<1> DEFINE Step == Held => /\ lock' # NoLock => lock # NoLock
                           /\ \A a \in Agent : Writes(a) => request[a].kind = "undo" /\ version = turn
<1>1. ASSUME SlotInv, [Next]_vars
      PROVE  Step
  <2> SUFFICES ASSUME Held
               PROVE  /\ lock' # NoLock => lock # NoLock
                      /\ \A a \in Agent : Writes(a) => request[a].kind = "undo" /\ version = turn
    OBVIOUS
  <2>1. lock = NoLock /\ hold # 0
    BY <1>1 DEF SlotInv, Slot, HoldMeansFree, TypeOK, Held
  <2>2. \A t : ~Verify(t)
    BY <2>1 DEF Verify, Live
  <2>3. lock' = NoLock
    BY <1>1, <2>1, <2>2 DEF Next, vars, AgentSteps, ViewerSteps, Renew, Acquire, Release, Gate, Land,
                Connect, Disconnect, Receive, Reclaim, BrowserWrite, Tick, Sweep
  <2>4. ASSUME NEW a \in Agent, Writes(a)
        PROVE  request[a].kind = "undo" /\ version = turn
    <3>1. request[a].kind = "undo" /\ request[a].expect = version
      BY <1>1, <2>2, <2>4, LandsUnlocked
    <3>2. request[a].expect <= turn /\ turn <= version
      BY <1>1, <2>1 DEF SlotInv, LosersAreEarlier, NoForesight
    <3> QED
      BY <1>1, <3>1, <3>2, VersionsAreNumbers DEF SlotInv, Slot
  <2> QED
    BY <2>3, <2>4
<1>2. SlotInv /\ [Next]_vars => [Step]_vars
  BY <1>1
<1> QED
  BY <1>2, SlotIsSound, PTL DEF Spec, RemedyRacedByOneUndo
=============================================================================
